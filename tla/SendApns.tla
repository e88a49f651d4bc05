------------------------------ MODULE SendApns ------------------------------
(***************************************************************************)
(* scripts/send-apns.mjs: the command line that sends one push, manages    *)
(* one channel, or shows what it would send (--print, --describe).         *)
(*                                                                         *)
(* An invocation is a record of its flags: which of the flags that choose  *)
(* a mode were given, and the others as far as a check looks at them.      *)
(* Everything up to the request runs without an await.                     *)
(***************************************************************************)
EXTENDS PushRequest

ModeFlags == {"channel-action", "channel-id", "push-to-start-token",
              "activity-token", "device-token"}

VARIABLES
  invocation,  \* the flags of the one invocation (NoInvocation: none yet)
  session,     \* `client` of http2Request: "none", "open" or "closed"
  status,      \* `status`: 0 until the response headers arrive
  exitCode     \* the code main() resolves with, Running before

scriptVars == <<invocation, session, status, exitCode>>

NoInvocation == [flags |-> {}]
Running == -1

ScriptInit ==
  /\ invocation = NoInvocation
  /\ session = "none"
  /\ status = 0
  /\ exitCode = Running

-----------------------------------------------------------------------------
(* parseAndValidateArgs: which mode, and whether its flags are accepted.   *)

Mode(a) ==
  CASE "channel-action" \in a.flags -> "channel-management"
    [] "channel-action" \notin a.flags /\ "channel-id" \in a.flags -> "broadcast"
    [] OTHER -> "device-send"

(* --stale-date and --dismissal-date.                                      *)
parseUnixSeconds(time) == time \in {"unset", "seconds", "millis"}

ValidPolicy(a) == a.policy \in {"no-storage", "most-recent-message"}
ValidEnv(a)    == a.env \in {"development", "production"}

validateChannelManagement(a) ==
  /\ a.action \in {"create", "list", "delete"}
  /\ a.flags \ {"channel-action"} =
       IF a.action = "delete" THEN {"channel-id"} ELSE {}
  /\ a.action = "create" => ValidPolicy(a)
  /\ ValidEnv(a)

validateBroadcast(a) ==
  /\ a.flags = {"channel-id"}
  /\ a.type = "liveactivity" /\ a.event = "update"
  /\ ValidEnv(a) /\ ValidPolicy(a)
  /\ a.expiration # "malformed"
  /\ a.policy = "no-storage" => a.expiration \in {"unset", "zero"}
  /\ a.policy = "most-recent-message" => a.expiration # "zero"
  /\ parseUnixSeconds(a.stale)

validatePushToStart(a) ==
  /\ a.flags = {"push-to-start-token"}
  /\ a.type = "liveactivity" /\ a.event = "start"
  /\ a.hexToken /\ a.attributes # "none"
  /\ parseUnixSeconds(a.stale) /\ parseUnixSeconds(a.dismissal)

(* Any other type than liveactivity is an alert.  Neither the environment, *)
(* the form of the token nor other modes' tokens are looked at.            *)
validateDeviceSend(a) ==
  /\ a.type = "liveactivity" =>
       /\ "activity-token" \in a.flags
       /\ a.event \in {"start", "update", "end"}
       /\ a.event = "start" => a.attributes # "none"
  /\ a.type # "liveactivity" => "device-token" \in a.flags
  /\ parseUnixSeconds(a.stale) /\ parseUnixSeconds(a.dismissal)

parseAndValidateArgs(a) ==
  CASE Mode(a) = "channel-management" -> validateChannelManagement(a)
    [] Mode(a) = "broadcast" -> validateBroadcast(a)
    [] Mode(a) = "device-send" ->
         IF "push-to-start-token" \in a.flags
         THEN validatePushToStart(a) ELSE validateDeviceSend(a)

-----------------------------------------------------------------------------
(* The headers and the payload.                                            *)

(* The priority is whatever was typed.                                     *)
ScriptPriority(a) ==
  IF a.priority # Unset THEN a.priority
  ELSE IF a.type = "liveactivity" THEN 5 ELSE 10

(* A device send has no --expiration; an alert sends no such header.       *)
ScriptExpiration(a) ==
  CASE Mode(a) = "broadcast" -> resolveBroadcastExpiration(a)
    [] Mode(a) = "device-send" /\ a.type = "liveactivity" -> "default"
    [] OTHER -> "none"

(* The files of the payload: a snapshot that is not a live activity's      *)
(* throws, an attributes file without its two fields is a ConfigError.     *)
SnapshotReads(a) ==
  a.snapshot # {} =>
    \A s \in a.snapshot : safeParse(s) /\ s.kind = "liveActivity" /\ ensureProjection(s)

AttributesRead(a) ==
  Mode(a) = "device-send" /\ a.type = "liveactivity" /\ a.event = "start"
    => a.attributes = "good"

(* 0: the payload was built; else the exit code of what was thrown.        *)
BuildCode(a) ==
  CASE Mode(a) = "channel-management" -> 0
    [] Mode(a) # "channel-management" /\ ~SnapshotReads(a) -> 1
    [] OTHER -> IF AttributesRead(a) THEN 0 ELSE 2

FitsLimit(a) == a.bytes <= IF Mode(a) = "broadcast" THEN 5120 ELSE 4096

(* runDryRun: needs no key and no credentials but the bundle id.           *)
DryRunCode(a) ==
  CASE ~a.bundleId -> 2
    [] a.bundleId /\ BuildCode(a) # 0 -> BuildCode(a)
    [] OTHER -> IF a.dry = "describe" /\ Mode(a) # "channel-management" /\ ~FitsLimit(a)
                THEN 1 ELSE 0

(* A real run before it connects: the environment, the key, the payload.   *)
StartCode(a) ==
  CASE ~(a.bundleId /\ a.credentials) -> 2
    [] a.bundleId /\ a.credentials /\ ~a.keyFile -> 1
    [] OTHER -> BuildCode(a)

-----------------------------------------------------------------------------
(* The run.                                                                *)

Exit(code) == exitCode' = code /\ UNCHANGED <<session, status>>

(* main() up to the request it awaits, or to its end.                      *)
Invoke(a) ==
  /\ invocation' = a
  /\ \/ ~parseAndValidateArgs(a) /\ Exit(2)
     \/ parseAndValidateArgs(a) /\ a.dry # "no" /\ Exit(DryRunCode(a))
     \/ /\ parseAndValidateArgs(a) /\ a.dry = "no" /\ StartCode(a) # 0
        /\ Exit(StartCode(a))
     \/ /\ parseAndValidateArgs(a) /\ a.dry = "no" /\ StartCode(a) = 0
        /\ session' = "open"
        /\ UNCHANGED <<status, exitCode>>

(* The response headers arrive.                                            *)
Responds(code) ==
  /\ session = "open" /\ status = 0
  /\ status' = code
  /\ UNCHANGED <<invocation, session, exitCode>>

ExpectedStatus(action) ==
  CASE action = "create" -> 201 [] action = "list" -> 200 [] action = "delete" -> 204

Succeeded(a) ==
  IF Mode(a) = "channel-management" THEN status = ExpectedStatus(a.action)
  ELSE status \in 200..299

(* Mutant: a request that ended is a request that went well.               *)
EndIsSuccess ==
  /\ session = "open"
  /\ session' = "closed"
  /\ exitCode' = IF status >= 400 THEN 1 ELSE 0
  /\ UNCHANGED <<invocation, status>>

(* The stream ends, with or without an answer: settle(resolve).            *)
Ends ==
  /\ session = "open"
  /\ session' = "closed"
  /\ exitCode' = IF Succeeded(invocation) THEN 0 ELSE 1
  /\ UNCHANGED <<invocation, status>>

(* The request or the session errors: settle(reject).                      *)
Fails ==
  /\ session = "open"
  /\ session' = "closed"
  /\ exitCode' = 1
  /\ UNCHANGED <<invocation, status>>

ScriptNext(args, codes) ==
  \/ invocation = NoInvocation /\ \E a \in args : Invoke(a)
  \/ \E code \in codes : Responds(code)
  \/ Ends \/ Fails

-----------------------------------------------------------------------------
(* What an operator types for the broadcast a client makes of an input.    *)
ArgsFor(i) ==
  [flags |-> {"channel-id"}, action |-> "none", type |-> "liveactivity",
   event |-> "update", env |-> Environment, policy |-> PolicyOf(i),
   expiration |-> i.expiration, stale |-> i.stale, dismissal |-> i.dismissal,
   hexToken |-> TRUE, attributes |-> "none", priority |-> i.priority,
   snapshot |-> {i.snapshot}, bytes |-> i.bytes, dry |-> "no",
   bundleId |-> TRUE, credentials |-> TRUE, keyFile |-> TRUE]
=============================================================================
