----------------------------- MODULE PushRequest -----------------------------
(***************************************************************************)
(* What a method of PushClient makes of its arguments before its first     *)
(* await (client.ts, preflight.ts), what describeSend() says of the same   *)
(* arguments, and what the answers to channel requests become              *)
(* (channels.ts).                                                          *)
(*                                                                         *)
(* An input is a record: the operation, the snapshot, the bytes of the     *)
(* payload built from it, and the options.  A time is what the checks tell *)
(* apart: "unset", "zero", a positive integer of "seconds", one of         *)
(* "millis" magnitude, or "malformed" (negative, fractional, not finite).  *)
(***************************************************************************)
EXTENDS Integers, SequencesExt, SurfaceContract

CONSTANT Environment   \* options.environment: "development" or "production"

ASSUME EnvironmentAssumption == Environment \in {"development", "production"}

DeviceOps == {"alert", "sendNotification", "update", "start", "end"}
ManageOps == {"createChannel", "listChannels", "deleteChannel"}

Unset == 0             \* options.priority was not given

(* The first check that fails decides; "none" if none does.                *)
FirstError(checks) ==
  LET failed == {n \in 1..Len(checks) : checks[n] # "none"} IN
  IF failed = {} THEN "none"
  ELSE checks[CHOOSE n \in failed : \A m \in failed : n <= m]

-----------------------------------------------------------------------------
(* The checks.  Each yields the error it throws, or "none".                *)

(* validateSnapshot, then the snapshotMustBe of the method.                *)
checkSnapshot(i, kind) ==
  IF safeParse(i.snapshot) /\ i.snapshot.kind = kind
  THEN "none" ELSE "InvalidSnapshotError"

(* The projection throws if its own output does not parse; the alert       *)
(* payload is built without a parse.                                       *)
checkProjection(i) ==
  IF safeParse(i.snapshot) /\ ~ensureProjection(i.snapshot)
  THEN "ProjectionInvariantError" ELSE "none"

PayloadLimit(op) == IF op = "broadcast" THEN 5120 ELSE 4096

assertPayloadWithinLimit(i) ==
  IF i.bytes > PayloadLimit(i.op) THEN "PayloadTooLargeError" ELSE "none"

assertValidActivityTimestamp(time, error) ==
  IF time \in {"unset", "seconds"} THEN "none" ELSE error

(* An expiration of 0 passes: "deliver once, do not store".                *)
assertActivityTimestampOptions(i) ==
  FirstError(<<assertValidActivityTimestamp(i.stale, "BadDateError"),
               assertValidActivityTimestamp(i.dismissal, "BadDateError"),
               IF i.expiration = "zero" THEN "none"
               ELSE assertValidActivityTimestamp(i.expiration,
                                                 "BadExpirationDateError")>>)

assertTokenEnvironment(i) ==
  IF i.tokenEnvironment \in {"unset", Environment}
  THEN "none" ELSE "TokenEnvironmentMismatchError"

assertValidPriority(i) ==
  IF i.priority \in {Unset, 5, 10} THEN "none" ELSE "BadPriorityError"

(* The policy of a broadcast, and what apns-expiration becomes: "zero",    *)
(* the "given" one, or the "default" of an hour from now.                  *)
PolicyOf(i) == IF i.policy = "unset" THEN "no-storage" ELSE i.policy

checkBroadcastExpiration(i) ==
  IF \/ PolicyOf(i) = "no-storage" /\ i.expiration \notin {"unset", "zero"}
     \/ PolicyOf(i) = "most-recent-message" /\ i.expiration = "zero"
  THEN "BadExpirationDateError" ELSE "none"

ExpirationOf(time) ==
  CASE time = "unset" -> "default" [] time = "zero" -> "zero" [] OTHER -> "given"

resolveBroadcastExpiration(i) ==
  IF PolicyOf(i) = "no-storage" THEN "zero" ELSE ExpirationOf(i.expiration)

-----------------------------------------------------------------------------
(* The order in which each method makes its checks.                        *)

(* Mutant: the timestamps of a device send are left to APNs.               *)
sendDeviceUndated(i, kind) ==
  FirstError(<<checkSnapshot(i, kind),
               IF i.op = "alert" THEN "none" ELSE checkProjection(i),
               assertPayloadWithinLimit(i), assertTokenEnvironment(i),
               assertValidPriority(i)>>)

(* alert, sendNotification, update, start and end, with #sendDevice.       *)
sendDevice(i, kind) ==
  FirstError(<<checkSnapshot(i, kind),
               IF i.op = "alert" THEN "none" ELSE checkProjection(i),
               assertPayloadWithinLimit(i), assertActivityTimestampOptions(i),
               assertTokenEnvironment(i), assertValidPriority(i)>>)

broadcast(i) ==
  FirstError(<<checkSnapshot(i, "liveActivity"),
               assertActivityTimestampOptions(i), assertValidPriority(i),
               checkProjection(i), assertPayloadWithinLimit(i),
               checkBroadcastExpiration(i)>>)

(* Channel management checks nothing before it asks for a bearer.          *)
Preflight(i) ==
  CASE i.op = "sendNotification" -> sendDevice(i, "notification")
    [] i.op \in DeviceOps \ {"sendNotification"} -> sendDevice(i, "liveActivity")
    [] i.op = "broadcast" -> broadcast(i)
    [] i.op \in ManageOps -> "none"

DefaultPriority(op) == IF op \in {"alert", "sendNotification"} THEN 10 ELSE 5

PriorityOf(i) ==
  IF i.op \in ManageOps \/ i.priority = Unset THEN DefaultPriority(i.op)
  ELSE i.priority

(* #buildActivityPayload: the dates that go into `aps`; end() dates the    *)
(* dismissal itself.  Alert payloads carry none.                           *)
StaleDate(i) == IF i.op \in {"alert", "sendNotification"} THEN "unset" ELSE i.stale

DismissalDate(i) ==
  CASE i.op \in {"alert", "sendNotification"} -> "unset"
    [] i.op = "end" /\ i.dismissal = "unset" -> "now"
    [] OTHER -> i.dismissal

PushType(op) ==
  IF op \in {"alert", "sendNotification"} THEN "alert" ELSE "liveactivity"

(* The topic has a suffix for Live Activities; a broadcast sends none.     *)
Topic(op) ==
  CASE op = "broadcast" -> "none"
    [] PushType(op) = "alert" -> "bundleId"
    [] OTHER -> "bundleId.push-type.liveactivity"

(* What is handed to the transport: the headers and the dates of the body. *)
Request(i) ==
  IF i.op \in ManageOps THEN [operation |-> i.op, policy |-> PolicyOf(i)]
  ELSE [operation |-> i.op, pushType |-> PushType(i.op), topic |-> Topic(i.op),
        priority |-> PriorityOf(i), stale |-> StaleDate(i),
        dismissal |-> DismissalDate(i), bytes |-> i.bytes,
        expiration |-> IF i.op = "broadcast" THEN resolveBroadcastExpiration(i)
                       ELSE ExpirationOf(i.expiration)]

-----------------------------------------------------------------------------
(* describeSend(): the same for a preview.  It knows no sendNotification,  *)
(* does not compare environments, and reports a payload that is too long   *)
(* instead of throwing.                                                    *)

DescribableOps == {"alert", "update", "start", "end", "broadcast"}

describeError(i) ==
  FirstError(<<checkSnapshot(i, "liveActivity"),
               assertActivityTimestampOptions(i), assertValidPriority(i),
               IF i.op = "alert" THEN "none" ELSE checkProjection(i),
               IF i.op = "broadcast" THEN checkBroadcastExpiration(i) ELSE "none">>)

(* Mutant: the expiration of a broadcast is resolved like that of a device *)
(* send.                                                                   *)
DescribeWithDefault(i) == ExpirationOf(i.expiration)

DescribedExpiration(i) ==
  IF i.op = "broadcast" THEN resolveBroadcastExpiration(i)
  ELSE ExpirationOf(i.expiration)

withinLimit(i) == i.bytes <= PayloadLimit(i.op)

finishDescription(i) ==
  [operation |-> i.op, pushType |-> PushType(i.op), topic |-> Topic(i.op),
   priority |-> IF i.priority = Unset THEN DefaultPriority(i.op) ELSE i.priority,
   stale |-> StaleDate(i), dismissal |-> DismissalDate(i), bytes |-> i.bytes,
   expiration |-> DescribedExpiration(i)]

-----------------------------------------------------------------------------
(* What becomes of the answer to a channel request.                        *)

(* Where createChannel() finds the id of the new channel, if anywhere.     *)
Replies == {"header", "body", "nowhere"}

(* An entry of the list: the bare id, an object with its policy as Apple's *)
(* number or by name, an object with another policy or none, or neither a  *)
(* string nor an object.                                                   *)
Entries == {"id", "stored", "other", "junk"}

normalizeChannelEntry(entry) ==
  [channelId |-> entry # "junk",
   storagePolicy |-> IF entry = "stored" THEN "most-recent-message"
                     ELSE "no-storage"]
=============================================================================
