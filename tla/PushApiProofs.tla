------------------------------ MODULE PushApiProofs ------------------------------
(***************************************************************************)
(* Theorems about PushApi, for every input, policy and environment.        *)
(***************************************************************************)
EXTENDS PushApi, PushRetryProofs

-----------------------------------------------------------------------------
(* The projections.                                                        *)

(* What the base of a snapshot that parses holds.                          *)
LEMMA BaseHolds ==
  ASSUME NEW s, safeParse(s)
  PROVE  At(s.base, "id") = "value" /\ At(s.base, "surfaceId") = "value" /\ At(s.base, "state") = "value"
BY DEF safeParse, Accepts, Base, Required

(* toLiveActivityContentState of a snapshot that parses.                   *)
LEMMA LiveActivityProjects ==
  ASSUME NEW s, safeParse(s), s.kind = "liveActivity"
  PROVE  ensureProjection(s) /\ Decodes(s.kind, Project(s))
<1> DEFINE slice == Parsed(s)
           output == toLiveActivityContentState(s)
<1>1. At(s.base, "id") = "value" /\ At(s.base, "surfaceId") = "value" /\ At(s.base, "state") = "value"
  BY BaseHolds
<1>2. /\ At(slice, "title") = "value" /\ At(slice, "body") \in AnyText
      /\ At(slice, "progress") = "value" /\ At(slice, "deepLink") = "value"
      /\ At(slice, "modeLabel") = "value" /\ At(slice, "stage") = "value"
      /\ At(slice, "contextLabel") \in AnyText \cup {"absent"} /\ At(slice, "statusLine") \in AnyText \cup {"absent"}
      /\ At(slice, "actionLabel") \in {"value", "absent"} /\ At(slice, "estimatedSeconds") \in {"value", "absent"}
      /\ At(slice, "morePartsCount") \in {"value", "absent"}
  BY DEF Parsed, At, safeParse, Accepts, Slices, LiveActivitySlice, Required, Optional, AnyText
<1> HIDE DEF slice
<1>3. Project(s) = output /\ OutputSchemas[s.kind] = ActivityContentState
  BY DEF Project, OutputSchemas
<1>4. Accepts(ActivityContentState, output)
  BY <1>1, <1>2 DEF slice, toLiveActivityContentState, Accepts, At, ActivityContentState, Required, AnyText, Optional
<1>5. \A key \in SwiftStructs[s.kind] : At(output, key) \in AnyText
  BY <1>1, <1>2 DEF slice, toLiveActivityContentState, At, SwiftStructs, AnyText
<1> QED
  BY <1>3, <1>4, <1>5 DEF ensureProjection, Decodes

(* toWidgetTimelineEntry of a snapshot that parses.                        *)
LEMMA WidgetProjects ==
  ASSUME NEW s, safeParse(s), s.kind = "widget"
  PROVE  ensureProjection(s) /\ Decodes(s.kind, Project(s))
<1> DEFINE slice == Parsed(s)
           output == toWidgetTimelineEntry(s)
<1>1. At(s.base, "id") = "value" /\ At(s.base, "surfaceId") = "value" /\ At(s.base, "state") = "value"
  BY BaseHolds
<1>2. /\ At(slice, "title") = "value" /\ At(slice, "body") \in AnyText
      /\ At(slice, "progress") = "value" /\ At(slice, "deepLink") = "value"
      /\ At(slice, "family") \in {"value", "absent"} /\ At(slice, "reloadPolicy") \in {"value", "absent"}
  BY DEF Parsed, At, safeParse, Accepts, Slices, WidgetSlice, Required, Optional, AnyText
<1> HIDE DEF slice
<1>3. Project(s) = output /\ OutputSchemas[s.kind] = WidgetTimelineEntry
  BY DEF Project, OutputSchemas
<1>4. Accepts(WidgetTimelineEntry, output)
  BY <1>1, <1>2 DEF slice, toWidgetTimelineEntry, Accepts, At, WidgetTimelineEntry, Required, AnyText, Optional
<1>5. \A key \in SwiftStructs[s.kind] : At(output, key) \in AnyText
  BY <1>1, <1>2 DEF slice, toWidgetTimelineEntry, At, SwiftStructs, AnyText
<1> QED
  BY <1>3, <1>4, <1>5 DEF ensureProjection, Decodes

(* toControlValueProvider of a snapshot that parses.                       *)
LEMMA ControlProjects ==
  ASSUME NEW s, safeParse(s), s.kind = "control"
  PROVE  ensureProjection(s) /\ Decodes(s.kind, Project(s))
<1> DEFINE slice == Parsed(s)
           output == toControlValueProvider(s)
<1>1. At(s.base, "id") = "value" /\ At(s.base, "surfaceId") = "value" /\ At(s.base, "state") = "value"
  BY BaseHolds
<1>2. /\ At(slice, "label") = "value" /\ At(slice, "deepLink") = "value"
      /\ At(slice, "controlKind") = "value" /\ At(slice, "state") \in {"value", "absent"}
      /\ At(slice, "intent") \in AnyText \cup {"absent"}
  BY DEF Parsed, At, safeParse, Accepts, Slices, ControlSlice, Required, Optional, AnyText
<1> HIDE DEF slice
<1>3. Project(s) = output /\ OutputSchemas[s.kind] = ControlValueProvider
  BY DEF Project, OutputSchemas
<1>4. Accepts(ControlValueProvider, output)
  BY <1>1, <1>2 DEF slice, toControlValueProvider, Accepts, At, ControlValueProvider, Required, AnyText, Optional
<1>5. \A key \in SwiftStructs[s.kind] : At(output, key) \in AnyText
  BY <1>1, <1>2 DEF slice, toControlValueProvider, At, SwiftStructs, AnyText
<1> QED
  BY <1>3, <1>4, <1>5 DEF ensureProjection, Decodes

(* toLockAccessoryEntry of a snapshot that parses.                         *)
LEMMA LockAccessoryProjects ==
  ASSUME NEW s, safeParse(s), s.kind = "lockAccessory"
  PROVE  ensureProjection(s) /\ Decodes(s.kind, Project(s))
<1> DEFINE slice == Parsed(s)
           output == toLockAccessoryEntry(s)
<1>1. At(s.base, "id") = "value" /\ At(s.base, "surfaceId") = "value" /\ At(s.base, "state") = "value"
  BY BaseHolds
<1>2. /\ At(slice, "title") = "value" /\ At(slice, "deepLink") = "value"
      /\ At(slice, "family") = "value" /\ At(slice, "gaugeValue") \in {"value", "absent"}
      /\ At(slice, "shortText") \in AnyText \cup {"absent"}
  BY DEF Parsed, At, safeParse, Accepts, Slices, LockAccessorySlice, Required, Optional, AnyText
<1> HIDE DEF slice
<1>3. Project(s) = output /\ OutputSchemas[s.kind] = LockAccessoryEntry
  BY DEF Project, OutputSchemas
<1>4. Accepts(LockAccessoryEntry, output)
  BY <1>1, <1>2 DEF slice, toLockAccessoryEntry, Accepts, At, LockAccessoryEntry, Required, AnyText, Optional
<1>5. \A key \in SwiftStructs[s.kind] : At(output, key) \in AnyText
  BY <1>1, <1>2 DEF slice, toLockAccessoryEntry, At, SwiftStructs, AnyText
<1> QED
  BY <1>3, <1>4, <1>5 DEF ensureProjection, Decodes

(* toStandbyEntry of a snapshot that parses.                               *)
LEMMA StandbyProjects ==
  ASSUME NEW s, safeParse(s), s.kind = "standby"
  PROVE  ensureProjection(s) /\ Decodes(s.kind, Project(s))
<1> DEFINE slice == Parsed(s)
           output == toStandbyEntry(s)
<1>1. At(s.base, "id") = "value" /\ At(s.base, "surfaceId") = "value" /\ At(s.base, "state") = "value"
  BY BaseHolds
<1>2. /\ At(slice, "title") = "value" /\ At(slice, "body") \in AnyText
      /\ At(slice, "progress") = "value" /\ At(slice, "deepLink") = "value"
      /\ At(slice, "presentation") = "value" /\ At(slice, "tint") \in {"value", "absent"}
  BY DEF Parsed, At, safeParse, Accepts, Slices, StandbySlice, Required, Optional, AnyText
<1> HIDE DEF slice
<1>3. Project(s) = output /\ OutputSchemas[s.kind] = StandbyEntry
  BY DEF Project, OutputSchemas
<1>4. Accepts(StandbyEntry, output)
  BY <1>1, <1>2 DEF slice, toStandbyEntry, Accepts, At, StandbyEntry, Required, AnyText, Optional
<1>5. \A key \in SwiftStructs[s.kind] : At(output, key) \in AnyText
  BY <1>1, <1>2 DEF slice, toStandbyEntry, At, SwiftStructs, AnyText
<1> QED
  BY <1>3, <1>4, <1>5 DEF ensureProjection, Decodes

(* toNotificationContentPayload of a snapshot that parses.                 *)
LEMMA NotificationProjects ==
  ASSUME NEW s, safeParse(s), s.kind = "notification"
  PROVE  ensureProjection(s) /\ Decodes(s.kind, Project(s))
<1> DEFINE slice == Parsed(s)
           output == toNotificationContentPayload(s)
<1>1. At(s.base, "id") = "value" /\ At(s.base, "surfaceId") = "value" /\ At(s.base, "state") = "value"
  BY BaseHolds
<1>2. /\ At(slice, "title") = "value" /\ At(slice, "subtitle") \in {"value", "absent"}
      /\ At(slice, "body") \in AnyText /\ At(slice, "deepLink") = "value"
      /\ At(slice, "category") \in {"value", "absent"} /\ At(slice, "threadId") \in {"value", "absent"}
      /\ At(slice, "interruptionLevel") \in {"value", "absent"} /\ At(slice, "relevanceScore") \in {"value", "absent"}
      /\ At(slice, "targetContentId") \in {"value", "absent"}
  BY DEF Parsed, At, safeParse, Accepts, Slices, NotificationSlice, Required, Optional, AnyText
<1> HIDE DEF slice
<1>3. Project(s) = output /\ OutputSchemas[s.kind] = NotificationContentPayload
  BY DEF Project, OutputSchemas
<1>4. Accepts(NotificationContentPayload, output)
  BY <1>1, <1>2 DEF slice, toNotificationContentPayload, Accepts, At, NotificationContentPayload, Required, AnyText, Optional
<1>5. \A key \in SwiftStructs[s.kind] : At(output, key) \in AnyText
  BY <1>1, <1>2 DEF slice, toNotificationContentPayload, At, SwiftStructs, AnyText
<1> QED
  BY <1>3, <1>4, <1>5 DEF ensureProjection, Decodes

(* A snapshot that parses can be projected, and the struct of its surface  *)
(* decodes the result.                                                     *)
LEMMA ProjectionHolds ==
  ASSUME NEW s, safeParse(s)
  PROVE  /\ ensureProjection(s) /\ Decodes(s.kind, Project(s))
         /\ s.kind = "liveActivity" => Accepts(AlertPayload, toApnsAlertPayload(s))
<1>1. s.kind \in {"liveActivity", "widget", "control", "lockAccessory", "standby", "notification"}
  BY DEF safeParse, Kinds, Slices
<1>2. ASSUME s.kind = "liveActivity" PROVE Accepts(AlertPayload, toApnsAlertPayload(s))
  <2> DEFINE slice == Parsed(s)
  <2>1. At(slice, "title") = "value" /\ At(slice, "body") \in AnyText /\ At(slice, "deepLink") = "value"
    BY <1>2 DEF Parsed, At, safeParse, Accepts, Slices, LiveActivitySlice, Required, AnyText
  <2>2. At(s.base, "id") = "value" /\ At(s.base, "surfaceId") = "value" /\ At(s.base, "state") = "value"
    BY BaseHolds
  <2> HIDE DEF slice
  <2> QED
    BY <2>1, <2>2 DEF slice, toApnsAlertPayload, Accepts, At, AlertPayload, Required, AnyText, Optional
<1> QED
  BY <1>1, <1>2, LiveActivityProjects, WidgetProjects, ControlProjects, LockAccessoryProjects,
     StandbyProjects, NotificationProjects

-----------------------------------------------------------------------------
(* The checks.                                                             *)

(* The first of at most six checks that fails decides.                     *)
LEMMA FirstErrorFacts ==
  ASSUME NEW checks, Len(checks) \in 0..6
  PROVE  /\ FirstError(checks) = "none" <=> \A n \in 1..Len(checks) : checks[n] = "none"
         /\ FirstError(checks) # "none" => \E n \in 1..Len(checks) : FirstError(checks) = checks[n]
<1> DEFINE failed == {n \in 1..Len(checks) : checks[n] # "none"}
<1>1. failed # {} => \E n \in failed : \A m \in failed : n <= m
  <2> SUFFICES ASSUME failed # {} PROVE \E n \in failed : \A m \in failed : n <= m
    OBVIOUS
  <2>1. \A m \in failed : m \in {1, 2, 3, 4, 5, 6}
    OBVIOUS
  <2> HIDE DEF failed
  <2>2. CASE 1 \in failed
    BY <2>1, <2>2
  <2>3. CASE 1 \notin failed /\ 2 \in failed
    BY <2>1, <2>3
  <2>4. CASE 1 \notin failed /\ 2 \notin failed /\ 3 \in failed
    BY <2>1, <2>4
  <2>5. CASE failed \subseteq {4, 5, 6} /\ 4 \in failed
    BY <2>5
  <2>6. CASE failed \subseteq {5, 6} /\ 5 \in failed
    BY <2>6
  <2>7. CASE failed = {6}
    BY <2>7
  <2> QED
    BY <2>1, <2>2, <2>3, <2>4, <2>5, <2>6, <2>7
<1>2. failed # {} => (CHOOSE n \in failed : \A m \in failed : n <= m) \in failed
  BY <1>1
<1> QED
  BY <1>2 DEF FirstError


(* The checks of a device send.                                            *)
DevicePasses(i, kind) ==
  /\ checkSnapshot(i, kind) = "none" /\ (i.op # "alert" => checkProjection(i) = "none")
  /\ assertPayloadWithinLimit(i) = "none" /\ assertActivityTimestampOptions(i) = "none"
  /\ assertTokenEnvironment(i) = "none" /\ assertValidPriority(i) = "none"

LEMMA DeviceChecks ==
  ASSUME NEW i, NEW kind
  PROVE  /\ sendDevice(i, kind) = "none" <=> DevicePasses(i, kind)
         /\ sendDevice(i, kind) \in
              {"none", checkSnapshot(i, kind), IF i.op = "alert" THEN "none" ELSE checkProjection(i),
               assertPayloadWithinLimit(i), assertActivityTimestampOptions(i),
               assertTokenEnvironment(i), assertValidPriority(i)}
<1> DEFINE checks ==
      <<checkSnapshot(i, kind), IF i.op = "alert" THEN "none" ELSE checkProjection(i),
        assertPayloadWithinLimit(i), assertActivityTimestampOptions(i),
        assertTokenEnvironment(i), assertValidPriority(i)>>
<1>1. Len(checks) = 6 /\ sendDevice(i, kind) = FirstError(checks)
  BY DEF sendDevice
<1>2. /\ FirstError(checks) = "none" <=> \A n \in 1..6 : checks[n] = "none"
      /\ FirstError(checks) # "none" => \E n \in 1..6 : FirstError(checks) = checks[n]
  <2> HIDE DEF checks
  <2>1. Len(checks) \in 0..6
    BY <1>1
  <2>2. /\ FirstError(checks) = "none" <=> \A n \in 1..Len(checks) : checks[n] = "none"
        /\ FirstError(checks) # "none" => \E n \in 1..Len(checks) : FirstError(checks) = checks[n]
    BY <2>1, FirstErrorFacts, Zenon
  <2> QED
    BY <1>1, <2>2
<1> QED
  BY <1>1, <1>2 DEF DevicePasses

(* The checks of a broadcast.                                              *)
BroadcastPasses(i) ==
  /\ checkSnapshot(i, "liveActivity") = "none" /\ assertActivityTimestampOptions(i) = "none"
  /\ assertValidPriority(i) = "none" /\ checkProjection(i) = "none"
  /\ assertPayloadWithinLimit(i) = "none" /\ checkBroadcastExpiration(i) = "none"

LEMMA BroadcastChecks ==
  ASSUME NEW i
  PROVE  broadcast(i) = "none" <=> BroadcastPasses(i)
<1> DEFINE checks ==
      <<checkSnapshot(i, "liveActivity"), assertActivityTimestampOptions(i),
        assertValidPriority(i), checkProjection(i), assertPayloadWithinLimit(i),
        checkBroadcastExpiration(i)>>
<1>1. Len(checks) = 6 /\ broadcast(i) = FirstError(checks)
  BY DEF broadcast
<1>2. FirstError(checks) = "none" <=> \A n \in 1..6 : checks[n] = "none"
  <2> HIDE DEF checks
  <2> QED
    BY <1>1, FirstErrorFacts
<1> QED
  BY <1>1, <1>2 DEF BroadcastPasses

(* The checks of describeSend().                                           *)
LEMMA DescribeChecks ==
  ASSUME NEW i
  PROVE  describeError(i) = "none" <=>
           /\ checkSnapshot(i, "liveActivity") = "none" /\ assertActivityTimestampOptions(i) = "none"
           /\ assertValidPriority(i) = "none" /\ (i.op # "alert" => checkProjection(i) = "none")
           /\ i.op = "broadcast" => checkBroadcastExpiration(i) = "none"
<1> DEFINE checks ==
      <<checkSnapshot(i, "liveActivity"), assertActivityTimestampOptions(i),
        assertValidPriority(i), IF i.op = "alert" THEN "none" ELSE checkProjection(i),
        IF i.op = "broadcast" THEN checkBroadcastExpiration(i) ELSE "none">>
<1>1. Len(checks) = 5 /\ describeError(i) = FirstError(checks)
  BY DEF describeError
<1>2. FirstError(checks) = "none" <=> \A n \in 1..5 : checks[n] = "none"
  <2> HIDE DEF checks
  <2> QED
    BY <1>1, FirstErrorFacts
<1> QED
  BY <1>1, <1>2

(* The dates of a send whose options pass.                                 *)
LEMMA DateChecks ==
  ASSUME NEW i
  PROVE  assertActivityTimestampOptions(i) = "none" <=>
           /\ i.stale \in {"unset", "seconds"} /\ i.dismissal \in {"unset", "seconds"}
           /\ i.expiration \in {"unset", "zero", "seconds"}
<1> DEFINE checks ==
      <<assertValidActivityTimestamp(i.stale, "BadDateError"),
        assertValidActivityTimestamp(i.dismissal, "BadDateError"),
        IF i.expiration = "zero" THEN "none"
        ELSE assertValidActivityTimestamp(i.expiration, "BadExpirationDateError")>>
<1>1. Len(checks) = 3 /\ assertActivityTimestampOptions(i) = FirstError(checks)
  BY DEF assertActivityTimestampOptions
<1>2. FirstError(checks) = "none" <=> \A n \in 1..3 : checks[n] = "none"
  <2> HIDE DEF checks
  <2> QED
    BY <1>1, FirstErrorFacts
<1> QED
  BY <1>1, <1>2 DEF assertValidActivityTimestamp

(* What passes the checks of its method.                                   *)
Ops == DeviceOps \cup {"broadcast"} \cup ManageOps
KindOf(op) == IF op = "sendNotification" THEN "notification" ELSE "liveActivity"

LEMMA PreflightPasses ==
  ASSUME NEW i, i.op \in Ops
  PROVE  /\ i.op \in DeviceOps => Preflight(i) = sendDevice(i, KindOf(i.op))
         /\ i.op = "broadcast" => Preflight(i) = broadcast(i)
         /\ Preflight(i) = "none" <=>
              CASE i.op \in DeviceOps -> DevicePasses(i, KindOf(i.op))
                [] i.op = "broadcast" -> BroadcastPasses(i)
                [] i.op \in ManageOps -> TRUE
<1>1. /\ i.op \in DeviceOps => Preflight(i) = sendDevice(i, KindOf(i.op))
      /\ i.op = "broadcast" => Preflight(i) = broadcast(i)
      /\ i.op \in ManageOps => Preflight(i) = "none"
  BY DEF Preflight, Ops, KindOf, DeviceOps, ManageOps
<1> QED
  BY <1>1, DeviceChecks, BroadcastChecks DEF Ops, DeviceOps, ManageOps

-----------------------------------------------------------------------------
(* The other ways to the same request.                                     *)

(* describeSend() and the command line judge one input as the send does.   *)
LEMMA PathsAgreeFor ==
  ASSUME NEW i \in Inputs, i.op \in DescribableOps
  PROVE  LET error == Preflight(i) IN
         /\ error # "TokenEnvironmentMismatchError" =>
              (error = "none" <=> describeError(i) = "none" /\ withinLimit(i))
         /\ error = "none" => finishDescription(i) = Request(i)
         /\ error = "none" /\ i.op = "broadcast" =>
              LET a == ArgsFor(i) IN
              /\ parseAndValidateArgs(a) /\ StartCode(a) = 0 /\ FitsLimit(a)
              /\ ScriptPriority(a) = Request(i).priority
              /\ ScriptExpiration(a) = Request(i).expiration
<1>1. /\ i.op \in Ops /\ i.op \notin ManageOps /\ i.bytes \in Nat
      /\ i.policy \in {"unset", "no-storage", "most-recent-message"}
      /\ i.op # "broadcast" => i.op \in DeviceOps /\ KindOf(i.op) = "liveActivity"
  BY InputsAssumption DEF Ops, DescribableOps, DeviceOps, ManageOps, KindOf
<1>2. withinLimit(i) <=> assertPayloadWithinLimit(i) = "none"
  BY <1>1 DEF withinLimit, assertPayloadWithinLimit, PayloadLimit
<1>3. CASE i.op # "broadcast"
  <2>1. /\ Preflight(i) = "none" <=> DevicePasses(i, "liveActivity")
        /\ Preflight(i) = sendDevice(i, "liveActivity")
    BY <1>1, <1>3, PreflightPasses
  <2>2. ASSUME describeError(i) = "none", withinLimit(i)
        PROVE  Preflight(i) \in {"none", "TokenEnvironmentMismatchError"}
    <3>1. /\ checkSnapshot(i, "liveActivity") = "none" /\ assertPayloadWithinLimit(i) = "none"
          /\ assertActivityTimestampOptions(i) = "none" /\ assertValidPriority(i) = "none"
          /\ (IF i.op = "alert" THEN "none" ELSE checkProjection(i)) = "none"
      BY <1>2, <2>2, DescribeChecks
    <3>2. assertTokenEnvironment(i) \in {"none", "TokenEnvironmentMismatchError"}
      BY DEF assertTokenEnvironment
    <3> QED
      BY <2>1, <3>1, <3>2, DeviceChecks
  <2>3. Preflight(i) = "none" => describeError(i) = "none" /\ withinLimit(i)
    BY <1>2, <1>3, <2>1, DescribeChecks DEF DevicePasses
  <2>4. finishDescription(i) = Request(i)
    BY <1>1, <1>3 DEF finishDescription, Request, PriorityOf, DescribedExpiration
  <2> QED
    BY <1>3, <2>2, <2>3, <2>4
<1>4. CASE i.op = "broadcast"
  <2>1. Preflight(i) = "none" <=> BroadcastPasses(i)
    BY <1>1, <1>4, PreflightPasses, BroadcastChecks
  <2>2. Preflight(i) = "none" <=> describeError(i) = "none" /\ withinLimit(i)
    BY <1>2, <1>4, <2>1, DescribeChecks DEF BroadcastPasses
  <2>3. finishDescription(i) = Request(i)
    BY <1>1, <1>4 DEF finishDescription, Request, PriorityOf, DescribedExpiration
  <2>4. ASSUME Preflight(i) = "none"
        PROVE  LET a == ArgsFor(i) IN
               /\ parseAndValidateArgs(a) /\ StartCode(a) = 0 /\ FitsLimit(a)
               /\ ScriptPriority(a) = Request(i).priority
               /\ ScriptExpiration(a) = Request(i).expiration
    <3> DEFINE a == ArgsFor(i)
    <3>1. /\ a.flags = {"channel-id"} /\ a.type = "liveactivity" /\ a.event = "update"
          /\ a.env = Environment /\ a.policy = PolicyOf(i) /\ a.expiration = i.expiration
          /\ a.stale = i.stale /\ a.priority = i.priority /\ a.snapshot = {i.snapshot}
          /\ a.bytes = i.bytes /\ a.bundleId = TRUE /\ a.credentials = TRUE /\ a.keyFile = TRUE
      BY DEF ArgsFor
    <3> HIDE DEF a
    <3>2. Mode(a) = "broadcast"
      BY <3>1 DEF Mode
    <3>3. /\ safeParse(i.snapshot) /\ i.snapshot.kind = "liveActivity"
          /\ i.stale \in {"unset", "seconds"} /\ i.expiration \in {"unset", "zero", "seconds"}
          /\ i.bytes <= 5120
      BY <1>1, <1>4, <2>1, <2>4, DateChecks
         DEF BroadcastPasses, checkSnapshot, assertPayloadWithinLimit, PayloadLimit
    <3>4. PolicyOf(i) \in {"no-storage", "most-recent-message"} /\ PolicyOf(a) = PolicyOf(i)
      BY <1>1, <3>1 DEF PolicyOf
    <3>5. /\ PolicyOf(i) = "no-storage" => i.expiration \in {"unset", "zero"}
          /\ PolicyOf(i) = "most-recent-message" => i.expiration # "zero"
      BY <2>1, <2>4 DEF BroadcastPasses, checkBroadcastExpiration
    <3>6. parseAndValidateArgs(a)
      BY <3>1, <3>2, <3>3, <3>4, <3>5, EnvironmentAssumption
         DEF parseAndValidateArgs, validateBroadcast, ValidEnv, ValidPolicy, parseUnixSeconds
    <3>7. SnapshotReads(a) /\ AttributesRead(a)
      BY <3>1, <3>2, <3>3, ProjectionHolds DEF SnapshotReads, AttributesRead
    <3>8. StartCode(a) = 0 /\ FitsLimit(a)
      BY <3>1, <3>2, <3>3, <3>7 DEF StartCode, BuildCode, FitsLimit
    <3>9. /\ Request(i).priority = IF i.priority = Unset THEN 5 ELSE i.priority
          /\ Request(i).expiration = resolveBroadcastExpiration(i)
      BY <1>1, <1>4 DEF Request, PriorityOf, DefaultPriority
    <3>10. ScriptPriority(a) = Request(i).priority
      BY <3>1, <3>9 DEF ScriptPriority
    <3>11. ScriptExpiration(a) = Request(i).expiration
      BY <3>1, <3>2, <3>4, <3>9 DEF ScriptExpiration, resolveBroadcastExpiration
    <3> QED
      BY <3>6, <3>8, <3>10, <3>11 DEF a
  <2> QED
    BY <2>2, <2>3, <2>4
<1> QED
  BY <1>3, <1>4

-----------------------------------------------------------------------------
(* The request.                                                            *)

(* What a call whose checks pass hands to the transport.                   *)
LEMMA RequestIsValid ==
  ASSUME NEW i \in Inputs, Preflight(i) = "none", i.op \notin ManageOps
  PROVE  /\ Request(i).operation = i.op /\ Request(i).priority = PriorityOf(i)
         /\ Request(i).bytes <= PayloadLimit(i.op)
         /\ Request(i).stale \in ValidTimes /\ Request(i).dismissal \in ValidTimes
         /\ i.expiration \in {"unset", "zero", "seconds"}
         /\ i.op = "broadcast" => (Request(i).expiration = "zero" <=> PolicyOf(i) = "no-storage")
<1>1. /\ i.op \in DeviceOps \/ i.op = "broadcast"
      /\ i.op \in Ops /\ i.bytes \in Nat
      /\ i.policy \in {"unset", "no-storage", "most-recent-message"}
  BY InputsAssumption DEF Ops
<1>2. /\ assertPayloadWithinLimit(i) = "none" /\ assertActivityTimestampOptions(i) = "none"
      /\ i.op = "broadcast" => checkBroadcastExpiration(i) = "none"
  <2>1. CASE i.op \in DeviceOps
    <3>1. i.op # "broadcast"
      BY <2>1 DEF DeviceOps
    <3> QED
      BY <1>1, <2>1, <3>1, PreflightPasses, DeviceChecks DEF DevicePasses
  <2>2. CASE i.op = "broadcast"
    BY <1>1, <2>2, PreflightPasses, BroadcastChecks DEF BroadcastPasses
  <2> QED
    BY <1>1, <2>1, <2>2
<1>3. /\ i.stale \in {"unset", "seconds"} /\ i.dismissal \in {"unset", "seconds"}
      /\ i.expiration \in {"unset", "zero", "seconds"}
  BY <1>2, DateChecks
<1>4. i.bytes <= PayloadLimit(i.op)
  BY <1>1, <1>2 DEF assertPayloadWithinLimit, PayloadLimit
<1>5. /\ Request(i).operation = i.op /\ Request(i).priority = PriorityOf(i)
      /\ Request(i).bytes = i.bytes /\ Request(i).stale = StaleDate(i)
      /\ Request(i).dismissal = DismissalDate(i)
      /\ i.op = "broadcast" => Request(i).expiration = resolveBroadcastExpiration(i)
  BY DEF Request
<1>6. StaleDate(i) \in ValidTimes /\ DismissalDate(i) \in ValidTimes
  BY <1>3 DEF StaleDate, DismissalDate, ValidTimes
<1>7. i.op = "broadcast" => (resolveBroadcastExpiration(i) = "zero" <=> PolicyOf(i) = "no-storage")
  BY <1>1, <1>2, <1>3 DEF resolveBroadcastExpiration, ExpirationOf, checkBroadcastExpiration, PolicyOf
<1> QED
  BY <1>3, <1>4, <1>5, <1>6, <1>7

-----------------------------------------------------------------------------
(* The device.                                                             *)

(* What a native function may end with.                                    *)
NativeEnds == Resolved \cup {"unsupportedOS", "notFound", "decodingFailed", "unsupportedFeature", "refused"}

(* What JavaScript makes of it.                                            *)
LEMMA SettledFacts ==
  ASSUME NEW native \in NativeEnds
  PROVE  /\ Settled(native) # InvalidContentState
         /\ Settled(native).trap \subseteq TrapIds
         /\ Settled(native).trap # {} => Settled(native).name \notin {"ok", "LiveActivityNativeError"}
         /\ Settled(native).name = "LiveActivityDecodingError" <=> native = "decodingFailed"
         /\ Settled(native).name = "ok" <=> native \in Resolved
         /\ native = "unsupportedOS" => Settled(native).trap = {12}
<1>1. CASE native \in Resolved
  <2>1. Settled(native) = [name |-> "ok", trap |-> {}] /\ native # "decodingFailed" /\ native # "unsupportedOS"
    BY <1>1 DEF Settled, Resolved
  <2> QED
    BY <1>1, <2>1 DEF InvalidContentState
<1>2. CASE native = "unsupportedOS"
  <2>1. Settled(native) = [name |-> "LiveActivityUnsupportedOSError", trap |-> {12}]
    BY <1>2 DEF Settled, Resolved, wrapNativeError, Description, NativeCode, NativeTrap, CODE_TO_CLASS
  <2> QED
    BY <1>2, <2>1 DEF InvalidContentState, TrapIds, Resolved
<1>3. CASE native = "notFound"
  <2>1. Settled(native) = [name |-> "LiveActivityNotFoundError", trap |-> {}]
    BY <1>3 DEF Settled, Resolved, wrapNativeError, Description, NativeCode, NativeTrap, CODE_TO_CLASS
  <2> QED
    BY <1>3, <2>1 DEF InvalidContentState, TrapIds, Resolved
<1>4. CASE native = "decodingFailed"
  <2>1. Settled(native) = [name |-> "LiveActivityDecodingError", trap |-> {3}]
    BY <1>4 DEF Settled, Resolved, wrapNativeError, Description, NativeCode, NativeTrap, CODE_TO_CLASS
  <2> QED
    BY <1>4, <2>1 DEF InvalidContentState, TrapIds, Resolved
<1>5. CASE native = "unsupportedFeature"
  <2>1. Settled(native) = [name |-> "LiveActivityUnsupportedFeatureError", trap |-> {12}]
    BY <1>5 DEF Settled, Resolved, wrapNativeError, Description, NativeCode, NativeTrap, CODE_TO_CLASS
  <2> QED
    BY <1>5, <2>1 DEF InvalidContentState, TrapIds, Resolved
<1>6. CASE native = "refused"
  <2>1. Settled(native) = [name |-> "LiveActivityNativeError", trap |-> {}]
    BY <1>6 DEF Settled, Resolved, wrapNativeError, Description, NativeCode, NativeTrap, CODE_TO_CLASS
  <2> QED
    BY <1>6, <2>1 DEF InvalidContentState, TrapIds, Resolved
<1> QED
  BY <1>1, <1>2, <1>3, <1>4, <1>5, <1>6 DEF NativeEnds

(* The adapter on the device takes what the schema takes, and says why it  *)
(* refuses anything else.                                                  *)
LEMMA DeviceAgreesWithSchema ==
  ASSUME NEW i \in Inputs
  PROVE  DeviceAgrees(i)
<1> SUFFICES ASSUME i.op = "update", i.snapshot.kind = "liveActivity"
             PROVE  /\ staleDateSeconds(i.stale) = i.stale \/ Preflight(i) # "none"
                    /\ \A content \in {toLiveActivityContentState(i.snapshot)}, os \in Versions, asked, able \in BOOLEAN :
                         LET starts == LiveActivityStart(os, content, asked, able)
                             updates == LiveActivityUpdate(os, content, able)
                             ends == LiveActivityEnd(os, "default", able)
                             native == NativeStart(os, content, asked, able) IN
                         /\ \A end \in {starts, updates} :
                              /\ end = InvalidContentState <=> ~Accepts(ActivityContentState, content)
                              /\ end.name # "LiveActivityDecodingError"
                         /\ safeParse(i.snapshot) => starts # InvalidContentState
                         /\ starts.name = "ok" =>
                              native = (IF asked THEN "channel" ELSE "token") /\ areActivitiesEnabled(os, able)
                         /\ \A end \in {starts, updates, ends} :
                              /\ end.trap \subseteq TrapIds
                              /\ end.trap # {} => end.name \notin {"ok", "LiveActivityNativeError"}
                              /\ os < 162 /\ end # InvalidContentState => end.trap = {12}
  BY DEF DeviceAgrees
<1>1. staleDateSeconds(i.stale) = i.stale \/ Preflight(i) # "none"
  <2>1. Preflight(i) = "none" => i.stale \in {"unset", "seconds"}
    <3>1. i.op \in Ops /\ i.op \in DeviceOps /\ KindOf(i.op) = "liveActivity"
      BY DEF Ops, DeviceOps, KindOf
    <3>2. Preflight(i) = sendDevice(i, "liveActivity")
      BY <3>1, PreflightPasses
    <3>3. Preflight(i) = "none" => DevicePasses(i, "liveActivity")
      BY <3>2, DeviceChecks
    <3> QED
      BY <3>3, DateChecks DEF DevicePasses
  <2> QED
    BY <2>1 DEF staleDateSeconds
<1>2. ASSUME NEW content \in {toLiveActivityContentState(i.snapshot)}, NEW os \in Versions,
             NEW asked \in BOOLEAN, NEW able \in BOOLEAN
      PROVE  LET starts == LiveActivityStart(os, content, asked, able)
                 updates == LiveActivityUpdate(os, content, able)
                 ends == LiveActivityEnd(os, "default", able)
                 native == NativeStart(os, content, asked, able) IN
             /\ \A end \in {starts, updates} :
                  /\ end = InvalidContentState <=> ~Accepts(ActivityContentState, content)
                  /\ end.name # "LiveActivityDecodingError"
             /\ safeParse(i.snapshot) => starts # InvalidContentState
             /\ starts.name = "ok" =>
                  native = (IF asked THEN "channel" ELSE "token") /\ areActivitiesEnabled(os, able)
             /\ \A end \in {starts, updates, ends} :
                  /\ end.trap \subseteq TrapIds
                  /\ end.trap # {} => end.name \notin {"ok", "LiveActivityNativeError"}
                  /\ os < 162 /\ end # InvalidContentState => end.trap = {12}
  <2> DEFINE native == NativeStart(os, content, asked, able)
             updated == NativeUpdate(os, content, able)
             ended == NativeEnd(os, "default", able)
  <2>1. Accepts(ActivityContentState, content) => decode(content)
    BY DEF Accepts, ActivityContentState, decode, Decodes, SwiftStructs, AnyText, Required
  <2>2. safeParse(i.snapshot) => Accepts(ActivityContentState, content)
    BY ProjectionHolds DEF ensureProjection, OutputSchemas, Project
  <2>3. /\ native \in NativeEnds /\ updated \in NativeEnds /\ ended \in NativeEnds
        /\ os < 162 => native = "unsupportedOS" /\ updated = "unsupportedOS" /\ ended = "unsupportedOS"
        /\ decode(content) => native # "decodingFailed" /\ updated # "decodingFailed"
        /\ native \in Resolved => /\ native = (IF asked THEN "channel" ELSE "token")
                                  /\ areActivitiesEnabled(os, able)
    BY DEF NativeStart, NativeUpdate, NativeEnd, pushTypeDecision, NativeEnds, Resolved, Versions,
           areActivitiesEnabled, dismissalPolicyIsImmediate
  <2> HIDE DEF native, updated, ended
  <2>4. /\ LiveActivityStart(os, content, asked, able) =
             IF Accepts(ActivityContentState, content) THEN Settled(native) ELSE InvalidContentState
        /\ LiveActivityUpdate(os, content, able) =
             IF Accepts(ActivityContentState, content) THEN Settled(updated) ELSE InvalidContentState
        /\ LiveActivityEnd(os, "default", able) = Settled(ended)
    BY DEF LiveActivityStart, LiveActivityUpdate, LiveActivityEnd, parseContentState, native, updated, ended
  <2>5. InvalidContentState.name = "InvalidContentStateError" /\ InvalidContentState.trap = {38} /\ 38 \in TrapIds
    BY DEF InvalidContentState, TrapIds
  <2>6. \A end \in {Settled(native), Settled(updated), Settled(ended), InvalidContentState} :
          /\ end.trap \subseteq TrapIds
          /\ end.trap # {} => end.name \notin {"ok", "LiveActivityNativeError"}
          /\ os < 162 /\ end # InvalidContentState => end.trap = {12}
    BY <2>3, <2>5, SettledFacts
  <2>7. \A end \in {LiveActivityStart(os, content, asked, able), LiveActivityUpdate(os, content, able)} :
          /\ end = InvalidContentState <=> ~Accepts(ActivityContentState, content)
          /\ end.name # "LiveActivityDecodingError"
    BY <2>1, <2>3, <2>4, <2>5, SettledFacts
  <2>8. LiveActivityStart(os, content, asked, able).name = "ok" => native \in Resolved
    BY <2>3, <2>4, <2>5, SettledFacts
  <2>9. /\ safeParse(i.snapshot) => LiveActivityStart(os, content, asked, able) # InvalidContentState
        /\ LiveActivityStart(os, content, asked, able).name = "ok" =>
             native = (IF asked THEN "channel" ELSE "token") /\ areActivitiesEnabled(os, able)
    BY <2>2, <2>3, <2>7, <2>8
  <2> QED
    BY <2>4, <2>6, <2>7, <2>9 DEF native
<1> QED
  BY <1>1, <1>2

-----------------------------------------------------------------------------
(* The reference producer.                                                 *)

(* The orders its users can come to.                                       *)
SoundOrder(order) ==
  /\ order.stage \in DeliveryStages
  /\ order.eta = "none" <=> order.stage = "delivered"
  /\ order.stage = "out_for_delivery" => order.driver

LEMMA OrdersAreSound == \A order \in Orders : SoundOrder(order)
<1>1. SoundOrder(initialDeliveryOrder)
  BY DEF SoundOrder, initialDeliveryOrder, DeliveryStages
<1>2. ASSUME NEW order, SoundOrder(order), NEW next \in DeliveryStages
      PROVE  SoundOrder(mockTickOrder(order, next))
  BY <1>2 DEF SoundOrder, mockTickOrder, DeliveryStages
<1>3. ASSUME NEW S, \A order \in S : SoundOrder(order) PROVE \A order \in Ticked(S) : SoundOrder(order)
  BY <1>2, <1>3 DEF Ticked
<1> QED
  BY <1>1, <1>3 DEF Orders

(* Each of its snapshots parses.                                           *)
LEMMA DeliveriesParse ==
  ASSUME NEW order, NEW kind \in Kinds
  PROVE  safeParse(deliveryToSnapshot(order, kind)) /\ deliveryToSnapshot(order, kind).kind = kind
<1> DEFINE s == deliveryToSnapshot(order, kind)
<1>1. s.kind = kind /\ s.base = Values(DOMAIN Base) /\ DOMAIN s.slices = {kind}
  BY DEF deliveryToSnapshot
<1>2. Accepts(Base, s.base)
  BY <1>1 DEF Values, Base, Accepts, At, Required
<1>3. Accepts(Slices[kind], s.slices[kind])
  <2>1. CASE kind = "liveActivity"
    BY <2>1 DEF deliveryToSnapshot, toLiveActivity, Values, Slices, LiveActivitySlice, Accepts, At,
                Required, Optional, AnyText
  <2>2. CASE kind = "widget"
    BY <2>2 DEF deliveryToSnapshot, toWidget, Values, Slices, WidgetSlice, Accepts, At,
                Required, Optional, AnyText
  <2>3. CASE kind = "control"
    BY <2>3 DEF deliveryToSnapshot, toControl, Values, Slices, ControlSlice, Accepts, At,
                Required, Optional, AnyText
  <2>4. CASE kind = "lockAccessory"
    BY <2>4 DEF deliveryToSnapshot, toLockAccessory, Values, Slices, LockAccessorySlice, Accepts, At,
                Required, Optional, AnyText
  <2>5. CASE kind = "standby"
    BY <2>5 DEF deliveryToSnapshot, toStandby, Values, Slices, StandbySlice, Accepts, At,
                Required, Optional, AnyText
  <2>6. CASE kind = "notification"
    BY <2>6 DEF deliveryToSnapshot, toNotification, Values, Slices, NotificationSlice, Accepts, At,
                Required, Optional, AnyText
  <2> QED
    BY <2>1, <2>2, <2>3, <2>4, <2>5, <2>6 DEF Kinds, Slices
<1> HIDE DEF s
<1>4. safeParse(s)
  BY <1>1, <1>2, <1>3 DEF safeParse
<1> QED
  BY <1>1, <1>4 DEF s

(* The surfaces of an order show it, and tell the same of it.              *)
LEMMA DeliveriesHold == DeliveriesAreShown
<1>1. ASSUME NEW order \in Orders, NEW kind \in Kinds
      PROVE  LET s == deliveryToSnapshot(order, kind) IN
             safeParse(s) /\ ensureProjection(s) /\ Decodes(kind, Project(s))
  BY <1>1, DeliveriesParse, ProjectionHolds
<1>2. ASSUME NEW order \in Orders
      PROVE  /\ (stageToProgress[order.stage] = 3) = (stageToState[order.stage] = "completed")
             /\ (stageToLiveSurfaceStage[order.stage] = "completing") = (shortEta(order) = "done")
             /\ subtitleFor(order) # "soon" /\ shortEta(order) # "soon"
             /\ subtitleFor(order) = "eta" => order.driver
  <2>1. SoundOrder(order)
    BY OrdersAreSound
  <2> QED
    BY <2>1 DEF SoundOrder, DeliveryStages, stageToProgress, stageToState, stageToLiveSurfaceStage,
                subtitleFor, shortEta
<1> QED
  BY <1>1, <1>2 DEF DeliveriesAreShown

-----------------------------------------------------------------------------
(* The calls run the loop of PushRetry.                                    *)

(* The step relation of the loop and of nothing else.                      *)
LEMMA StepRunsTheLoop == [ApiNext]_allVars => [Next]_vars
<1> SUFFICES ASSUME [ApiNext]_allVars PROVE [Next]_vars
  OBVIOUS
<1>1. CASE UNCHANGED allVars
  BY <1>1 DEF allVars
<1>2. ASSUME NEW c \in Calls, NEW i \in Inputs, Call(c, i) PROVE [Next]_vars
  BY <1>2 DEF Call, Next
<1>3. ASSUME NEW c \in Calls, Headers(c) \/ Deliver(c) PROVE [Next]_vars
  BY <1>3 DEF Headers, Deliver, Next, Continue
<1>4. ASSUME NEW c \in Calls, Loop(c) \/ Settles(c) PROVE [Next]_vars
  BY <1>4 DEF Loop, Next, Continue
<1>5. CASE Environs
  BY <1>5 DEF Environs, Next
<1>6. CASE Script \/ Wizard
  BY <1>6 DEF Script, Wizard
<1> QED
  BY <1>1, <1>2, <1>3, <1>4, <1>5, <1>6 DEF ApiNext, Client

(* Whatever holds of the loop holds of the composition: behind its checks, *)
(* before its answers are read, and next to the command line, a call does  *)
(* what PushRetry says of it.                                              *)
THEOREM ClientRunsTheLoop == ApiSpec => Spec
<1>1. ApiInit => Init
  BY DEF ApiInit
<1> QED
  BY <1>1, StepRunsTheLoop, PTL DEF ApiSpec, Spec

-----------------------------------------------------------------------------
(* What reaches the transport.                                             *)

Requests == {Request(i) : i \in Inputs} \cup {NoRequest}

(* A request is the one made of arguments that passed every check, and of  *)
(* the call's own while these are kept.                                    *)
HandedOver(c) ==
  /\ pc[c] = "idle" => request[c] = NoRequest
  /\ \/ request[c] = NoRequest
     \/ \E i \in Inputs : /\ Preflight(i) = "none" /\ PriorityOf(i) = Priority[c]
                          /\ request[c] = Request(i) /\ input[c] \in {i, NoInput}

ApiInv ==
  /\ TypeOK
  /\ input \in [Calls -> Inputs \cup {NoInput}] /\ request \in [Calls -> Requests]
  /\ \A c \in Calls : HandedOver(c)

(* A call leaves "idle" by its Send, and does not come back.               *)
LEMMA IdleStays ==
  ASSUME TypeOK, NEW c \in Calls, NEW d \in Calls,
         Continue(c) \/ Settles(c) \/ Abort(c) \/ \E f \in Failures : JwtFails(c, f)
  PROVE  pc'[d] = "idle" <=> pc[d] = "idle"
<1> DEFINE Same == pc'[d] = "idle" <=> pc[d] = "idle"
<1>1. ASSUME NEW v \in PCs \ {"idle"}, pc[c] # "idle", pc' = [pc EXCEPT ![c] = v] PROVE Same
  BY <1>1 DEF TypeOK
<1>2. ASSUME NEW how, pc[c] # "idle", Settle(c, how) PROVE Same
  BY <1>1, <1>2 DEF Settle, PCs
<1>3. ASSUME pc[c] # "idle", Issue(c) PROVE Same
  BY <1>1, <1>2, <1>3 DEF Issue, PCs
<1>4. ASSUME NEW f, pc[c] # "idle", Catch(c, f) PROVE Same
  BY <1>1, <1>2, <1>4 DEF Catch, PCs
<1>5. ASSUME Continue(c) PROVE Same
  BY <1>1, <1>2, <1>3, <1>5 DEF Continue, Begin, Wake, Refresh, Resend, PCs
<1>6. ASSUME NEW a \in Answers, Answer(c, a) PROVE Same
  <2>1. CASE AnswerIsFinal(c, a)
    BY <1>2, <1>6, <2>1 DEF AnswerIsFinal, Answer
  <2>2. CASE AnswerIsRetried(c, a)
    BY <1>1, <1>2, <1>6, <2>2 DEF AnswerIsRetried, Answer, PCs
  <2> QED
    BY <1>6, <2>1, <2>2 DEF Answer
<1>7. ASSUME NEW f \in Failures, RequestFails(c, f) \/ JwtFails(c, f) PROVE Same
  BY <1>2, <1>4, <1>7 DEF RequestFails, JwtFails
<1>8. ASSUME Abort(c) PROVE Same
  BY <1>2, <1>8 DEF Abort
<1> QED
  BY <1>5, <1>6, <1>7, <1>8 DEF Settles

LEMMA NeverIdleAgain ==
  ASSUME TypeOK, [Next]_vars, NEW d \in Calls
  PROVE  pc'[d] = "idle" => pc[d] = "idle"
<1>1. ASSUME NEW c \in Calls, Send(c) PROVE pc'[d] = "idle" => pc[d] = "idle"
  BY <1>1 DEF Send, Settle, TypeOK
<1>2. JwtAges \/ Close \/ Terminated \/ UNCHANGED vars => pc' = pc
  BY DEF JwtAges, Close, Terminated, vars
<1> QED
  BY <1>1, <1>2, IdleStays DEF Next

LEMMA ApiInvInit == ApiInit => ApiInv
BY TypeInit DEF ApiInit, ApiInv, HandedOver, Requests

LEMMA ApiInvStep == ApiInv /\ [ApiNext]_allVars => ApiInv'
<1> SUFFICES ASSUME ApiInv, [ApiNext]_allVars PROVE ApiInv'
  OBVIOUS
<1>1. TypeOK' /\ \A d \in Calls : pc'[d] = "idle" => pc[d] = "idle"
  BY StepRunsTheLoop, TypeStep, NeverIdleAgain DEF ApiInv
<1>2. ASSUME UNCHANGED <<input, request>> PROVE ApiInv'
  BY <1>1, <1>2 DEF ApiInv, HandedOver
<1>3. ASSUME NEW c \in Calls, NEW i \in Inputs, Untouched, Call(c, i) PROVE ApiInv'
  <2>1. input' = [input EXCEPT ![c] = i] /\ request[c] = NoRequest /\ pc[c] = "idle"
    BY <1>3 DEF Call, ApiInv, HandedOver, Untouched
  <2>2. CASE request' = request
    BY <1>1, <2>1, <2>2 DEF ApiInv, HandedOver
  <2>3. CASE /\ request' = [request EXCEPT ![c] = Request(i)]
             /\ Preflight(i) = "none" /\ PriorityOf(i) = Priority[c] /\ ~closed /\ Send(c)
    <3>1. pc'[c] # "idle"
      BY <2>3 DEF Send, ApiInv, TypeOK, Settle
    <3>2. request' \in [Calls -> Requests] /\ input' \in [Calls -> Inputs \cup {NoInput}]
      BY <2>1, <2>3 DEF ApiInv, Requests
    <3>3. HandedOver(c)'
      BY <2>1, <2>3, <3>1, <3>2 DEF ApiInv, HandedOver
    <3>4. \A d \in Calls \ {c} : HandedOver(d)'
      BY <1>1, <2>1, <2>3 DEF ApiInv, HandedOver
    <3> QED
      BY <1>1, <3>2, <3>3, <3>4 DEF ApiInv
  <2> QED
    BY <1>3, <2>2, <2>3 DEF Call
<1>4. ASSUME NEW c \in Calls, Headers(c) PROVE ApiInv'
  <2>1. /\ input' = [input EXCEPT ![c] = NoInput]
        /\ request' = [request EXCEPT ![c] = IF @.operation \in ManageOps THEN @ ELSE NoRequest]
        /\ pc[c] # "idle"
    BY <1>4 DEF Headers, Begin
  <2>2. request' \in [Calls -> Requests] /\ input' \in [Calls -> Inputs \cup {NoInput}]
    BY <2>1 DEF ApiInv, Requests
  <2>3. \A d \in Calls : HandedOver(d)'
    BY <1>1, <2>1 DEF ApiInv, HandedOver
  <2> QED
    BY <1>1, <2>2, <2>3 DEF ApiInv
<1>5. ASSUME NEW c \in Calls, Deliver(c) PROVE ApiInv'
  <2>1. input' = [input EXCEPT ![c] = NoInput] /\ request' = request
    BY <1>5 DEF Deliver
  <2> QED
    BY <1>1, <2>1 DEF ApiInv, HandedOver
<1> QED
  BY <1>2, <1>3, <1>4, <1>5 DEF ApiNext, Client, Script, Wizard, apiVars, allVars

(* Whatever the arguments, the environment, the policy and the priorities: *)
(* what reaches the transport is what APNs takes, a snapshot that parses   *)
(* can be projected and decoded, the adapter agrees with the schema, and   *)
(* the reference producer makes what its schema takes.                     *)
THEOREM SendsAreValid == ApiSpec => []RequestsAreValid
<1>1. ApiInv => RequestsAreValid
  <2> SUFFICES ASSUME ApiInv, NEW c \in Calls
               PROVE  /\ LET r == request[c] IN
                         r # NoRequest /\ r.operation \notin ManageOps =>
                           /\ r.priority = Priority[c]
                           /\ r.bytes <= PayloadLimit(r.operation)
                           /\ r.stale \in ValidTimes /\ r.dismissal \in ValidTimes
                      /\ LET i == input[c] IN
                         i # NoInput /\ i.op \notin ManageOps =>
                           /\ request[c] # NoRequest /\ i.expiration # "unset" =>
                                i.expiration \in {"zero", "seconds"}
                           /\ request[c] # NoRequest /\ i.op = "broadcast" =>
                                (request[c].expiration = "zero" <=> PolicyOf(i) = "no-storage")
                           /\ DeviceAgrees(i)
                           /\ LET s == i.snapshot IN
                              safeParse(s) =>
                                /\ ensureProjection(s)
                                /\ Decodes(s.kind, Project(s))
                                /\ s.kind = "liveActivity" => Accepts(AlertPayload, toApnsAlertPayload(s))
    BY DeliveriesHold DEF RequestsAreValid
  <2>1. HandedOver(c) /\ input[c] \in Inputs \cup {NoInput}
    BY DEF ApiInv
  <2>2. ASSUME request[c] # NoRequest, request[c].operation \notin ManageOps
        PROVE  /\ request[c].priority = Priority[c]
               /\ request[c].bytes <= PayloadLimit(request[c].operation)
               /\ request[c].stale \in ValidTimes /\ request[c].dismissal \in ValidTimes
    <3>1. PICK i \in Inputs : /\ Preflight(i) = "none" /\ PriorityOf(i) = Priority[c]
                              /\ request[c] = Request(i)
      BY <2>1, <2>2 DEF HandedOver
    <3>2. i.op \notin ManageOps
      BY <2>2, <3>1 DEF Request
    <3> QED
      BY <3>1, <3>2, RequestIsValid
  <2>3. ASSUME input[c] # NoInput, input[c].op \notin ManageOps, request[c] # NoRequest
        PROVE  /\ input[c].expiration # "unset" => input[c].expiration \in {"zero", "seconds"}
               /\ input[c].op = "broadcast" =>
                    (request[c].expiration = "zero" <=> PolicyOf(input[c]) = "no-storage")
    <3>1. input[c] \in Inputs /\ Preflight(input[c]) = "none" /\ request[c] = Request(input[c])
      BY <2>1, <2>3 DEF HandedOver
    <3> QED
      BY <2>3, <3>1, RequestIsValid
  <2>4. ASSUME input[c] # NoInput PROVE DeviceAgrees(input[c])
    BY <2>1, <2>4, DeviceAgreesWithSchema
  <2> QED
    BY <2>2, <2>3, <2>4, ProjectionHolds
<1> QED
  BY <1>1, ApiInvInit, ApiInvStep, PTL DEF ApiSpec

(* describeSend() and the command line judge the arguments of every call   *)
(* as the call itself does, and make the same request of them.             *)
THEOREM PathsAlwaysAgree == ApiSpec => []PathsAgree
<1>1. ApiInv => PathsAgree
  <2> SUFFICES ASSUME ApiInv, NEW c \in Calls, input[c] # NoInput, input[c].op \in DescribableOps
               PROVE  LET i == input[c]  error == Preflight(i) IN
                      /\ error # "TokenEnvironmentMismatchError" =>
                           (error = "none" <=> describeError(i) = "none" /\ withinLimit(i))
                      /\ error = "none" => finishDescription(i) = Request(i)
                      /\ error = "none" /\ i.op = "broadcast" =>
                           LET a == ArgsFor(i) IN
                           /\ parseAndValidateArgs(a) /\ StartCode(a) = 0 /\ FitsLimit(a)
                           /\ ScriptPriority(a) = Request(i).priority
                           /\ ScriptExpiration(a) = Request(i).expiration
    BY DEF PathsAgree
  <2>1. input[c] \in Inputs
    BY DEF ApiInv
  <2> QED
    BY <2>1, PathsAgreeFor
<1> QED
  BY <1>1, ApiInvInit, ApiInvStep, PTL DEF ApiSpec

-----------------------------------------------------------------------------
(* What a call's promise settles with.                                     *)

(* Every reason with a class is explained twice.                           *)
LEMMA ReasonsAreExplained == TypedReasons \subseteq ReasonGuide \cap ScriptGuide
<1>1. DOMAIN CallerErrors \subseteq ReasonGuide \cap ScriptGuide
  BY DEF CallerErrors, ReasonGuide, ScriptGuide
<1>2. DOMAIN RequestErrors \subseteq ReasonGuide \cap ScriptGuide
  BY DEF RequestErrors, ReasonGuide, ScriptGuide
<1>3. DOMAIN ServiceErrors \subseteq ReasonGuide \cap ScriptGuide
  BY DEF ServiceErrors, ReasonGuide, ScriptGuide
<1> QED
  BY <1>1, <1>2, <1>3 DEF TypedReasons

LEMMA TrapsAgree ==
  ASSUME NEW name
  PROVE  /\ \A trap \in findTrapByErrorClass(name) :
              trap \in TrapIds /\ name \in TrapBindings[trap]
         /\ \A trap \in TrapIds :
              name \in TrapBindings[trap] => trap \in findTrapByErrorClass(name)
<1>1. /\ name \in DOMAIN ErrorClassToTrap =>
           /\ ErrorClassToTrap[name] \in TrapIds /\ ErrorClassToTrap[name] \in 1..45
           /\ name \in TrapBindings[ErrorClassToTrap[name]]
  BY DEF ErrorClassToTrap, TrapIds, TrapBindings
<1>2. ASSUME NEW trap \in TrapIds, name \in TrapBindings[trap]
      PROVE  name \in DOMAIN ErrorClassToTrap /\ ErrorClassToTrap[name] = trap /\ trap \in 1..45
  BY <1>2 DEF ErrorClassToTrap, TrapIds, TrapBindings
<1>3. DOMAIN TrapBindings = 1..45
  BY DEF TrapBindings
<1> QED
  BY <1>1, <1>2, <1>3 DEF findTrapByErrorClass

LEMMA RetryableClasses ==
  ASSUME NEW reason \in TypedReasons \cup {"unreadable", "unlisted"},
         reasonToError(reason) \in {reasonToError(r) : r \in DEFAULT_RETRYABLE_REASONS}
  PROVE  reason \in DEFAULT_RETRYABLE_REASONS
<1>1. /\ reasonToError("ExpiredProviderToken") = "ExpiredProviderTokenError"
      /\ reasonToError("IdleTimeout") = "IdleTimeoutError"
      /\ reasonToError("InternalServerError") = "InternalServerError"
      /\ reasonToError("ServiceUnavailable") = "ServiceUnavailableError"
      /\ reasonToError("TooManyRequests") = "TooManyRequestsError"
  BY DEF reasonToError, ClassOf, TypedReasons, CallerErrors, RequestErrors, ServiceErrors
<1>2. reasonToError(reason) \in {"ExpiredProviderTokenError", "IdleTimeoutError", "InternalServerError",
                                 "ServiceUnavailableError", "TooManyRequestsError"}
  BY <1>1 DEF DEFAULT_RETRYABLE_REASONS
<1>3. CASE reason \in DOMAIN CallerErrors
  <2>1. reasonToError(reason) = CallerErrors[reason]
    BY <1>3 DEF reasonToError, ClassOf, TypedReasons, CallerErrors, RequestErrors, ServiceErrors
  <2> QED
    BY <1>2, <1>3, <2>1 DEF CallerErrors, DEFAULT_RETRYABLE_REASONS
<1>4. CASE reason \in DOMAIN RequestErrors
  <2>1. reasonToError(reason) = RequestErrors[reason]
    BY <1>4 DEF reasonToError, ClassOf, TypedReasons, CallerErrors, RequestErrors, ServiceErrors
  <2> QED
    BY <1>2, <1>4, <2>1 DEF RequestErrors, DEFAULT_RETRYABLE_REASONS
<1>5. CASE reason \in DOMAIN ServiceErrors
  <2>1. reasonToError(reason) = ServiceErrors[reason]
    BY <1>5 DEF reasonToError, ClassOf, TypedReasons, CallerErrors, RequestErrors, ServiceErrors
  <2> QED
    BY <1>2, <1>5, <2>1 DEF ServiceErrors, DEFAULT_RETRYABLE_REASONS
<1>6. CASE reason \notin TypedReasons
  BY <1>2, <1>6 DEF reasonToError
<1> QED
  BY <1>3, <1>4, <1>5, <1>6 DEF TypedReasons

(* What the loop would have tried again.                                   *)
LEMMA RetryableAnswers ==
  ASSUME NEW response \in Response, response.reason \in DEFAULT_RETRYABLE_REASONS,
         "expired" \in RetryableReasons
  PROVE  shouldRetry(AnswerOf(response)) /\ AnswerOf(response) # "terminal"
<1>1. response.reason \notin TERMINAL_REASONS
  BY DEF DEFAULT_RETRYABLE_REASONS, TERMINAL_REASONS
<1>2. retries(response, DEFAULT_RETRYABLE_REASONS)
  BY <1>1 DEF retries
<1> QED
  BY <1>1, <1>2 DEF AnswerOf, shouldRetry

(* The errors of the checks.                                               *)
LEMMA ClientErrors ==
  /\ {"BadDateError", "BadExpirationDateError", "PayloadTooLargeError", "BadPriorityError"}
       \subseteq {reasonToError(r) : r \in TypedReasons}
  /\ \A r : reasonToError(r) \in ApnsClasses
<1>1. /\ reasonToError("BadDate") = "BadDateError" /\ reasonToError("BadPriority") = "BadPriorityError"
      /\ reasonToError("BadExpirationDate") = "BadExpirationDateError"
      /\ reasonToError("PayloadTooLarge") = "PayloadTooLargeError"
      /\ {"BadDate", "BadPriority", "BadExpirationDate", "PayloadTooLarge"} \subseteq TypedReasons
  BY DEF reasonToError, ClassOf, TypedReasons, CallerErrors, RequestErrors, ServiceErrors
<1>2. \A r : reasonToError(r) \in ApnsClasses
  BY DEF reasonToError, ApnsClasses
<1> QED
  BY <1>1, <1>2

(* What the checks of a call may throw.  The projection is not among it.   *)
CheckErrors ==
  {"InvalidSnapshotError", "PayloadTooLargeError", "BadDateError", "BadExpirationDateError",
   "TokenEnvironmentMismatchError", "BadPriorityError"}

LEMMA PreflightErrors == ASSUME NEW i \in Inputs PROVE Preflight(i) \in CheckErrors \cup {"none"}
<1> DEFINE Errors == CheckErrors \cup {"none"}
           dates == <<assertValidActivityTimestamp(i.stale, "BadDateError"),
                      assertValidActivityTimestamp(i.dismissal, "BadDateError"),
                      IF i.expiration = "zero" THEN "none"
                      ELSE assertValidActivityTimestamp(i.expiration, "BadExpirationDateError")>>
           checks == <<checkSnapshot(i, "liveActivity"), assertActivityTimestampOptions(i),
                       assertValidPriority(i), checkProjection(i), assertPayloadWithinLimit(i),
                       checkBroadcastExpiration(i)>>
<1>1. assertActivityTimestampOptions(i) \in Errors
  <2>1. Len(dates) = 3 /\ assertActivityTimestampOptions(i) = FirstError(dates)
    BY DEF assertActivityTimestampOptions
  <2>2. \A n \in 1..3 : dates[n] \in Errors
    BY DEF assertValidActivityTimestamp, CheckErrors
  <2> HIDE DEF dates
  <2> QED
    BY <2>1, <2>2, FirstErrorFacts
<1>2. /\ \A kind : checkSnapshot(i, kind) \in Errors
      /\ checkProjection(i) = "none" /\ assertPayloadWithinLimit(i) \in Errors
      /\ assertTokenEnvironment(i) \in Errors /\ assertValidPriority(i) \in Errors
      /\ checkBroadcastExpiration(i) \in Errors
  BY ProjectionHolds DEF checkSnapshot, checkProjection, assertPayloadWithinLimit, assertTokenEnvironment,
     assertValidPriority, checkBroadcastExpiration, CheckErrors
<1>3. \A kind : sendDevice(i, kind) \in Errors
  BY <1>1, <1>2, DeviceChecks
<1>4. broadcast(i) \in Errors
  <2>1. Len(checks) = 6 /\ broadcast(i) = FirstError(checks)
    BY DEF broadcast
  <2>2. \A n \in 1..6 : checks[n] \in Errors
    BY <1>1, <1>2
  <2> HIDE DEF checks
  <2> QED
    BY <2>1, <2>2, FirstErrorFacts
<1>5. i.op \in Ops
  BY InputsAssumption DEF Ops
<1>6. i.op \in DeviceOps \/ i.op = "broadcast" \/ Preflight(i) = "none"
  BY <1>5 DEF Ops, Preflight, DeviceOps, ManageOps
<1> QED
  BY <1>3, <1>4, <1>5, <1>6, PreflightPasses

(* How a result came about: a check threw it before the first await, or it *)
(* is what the loop ended with, read.                                      *)
Explained(c) ==
  \/ result[c] = "none"
  \/ pc[c] = "idle" /\ \E i \in Inputs : result[c] = Preflight(i) /\ Preflight(i) # "none"
  \/ /\ pc[c] = "done"
     /\ \/ /\ outcome[c] \in Answers \ {"ok"}
           /\ \E response \in Response :
                AnswerOf(response) = outcome[c] /\ result[c] = reasonToError(response.reason)
        \/ /\ outcome[c] \notin Answers \/ (outcome[c] = "ok" /\ request[c].operation # "createChannel")
           /\ result[c] = outcome[c]
        \/ /\ outcome[c] = "ok" /\ request[c].operation = "createChannel"
           /\ \/ result[c] = "CreateChannelResponseError"
              \/ result[c] = "ok" /\ \E channel \in info[c] : channel.channelId

ResultInv ==
  /\ BudgetInv /\ DOMAIN result = Calls /\ DOMAIN info = Calls /\ DOMAIN request = Calls
  /\ \A c \in Calls : Explained(c)

(* A call that has settled stays as it is.                                 *)
LEMMA DoneStays ==
  ASSUME BudgetInv, [Next]_vars, NEW d \in Calls, pc[d] = "done"
  PROVE  pc'[d] = "done" /\ outcome'[d] = outcome[d]
BY StepHasLogEffect DEF LogEffect, LogUntouched, LogKept, RetryLogged, AttemptStarted, BudgetInv, TypeOK

LEMMA ResultInit == ApiInit => ResultInv
BY BudgetInit DEF ApiInit, ResultInv, Explained

LEMMA ResultStep == ResultInv /\ [ApiNext]_allVars => ResultInv'
<1> SUFFICES ASSUME ResultInv, [ApiNext]_allVars PROVE ResultInv'
  OBVIOUS
<1>1. BudgetInv' /\ [Next]_vars /\ TypeOK
  BY StepRunsTheLoop, BudgetStep DEF ResultInv, BudgetInv
<1>2. ASSUME NEW d \in Calls, result'[d] = result[d], pc'[d] = "idle" <=> pc[d] = "idle",
             pc[d] = "done" => request'[d] = request[d] /\ info'[d] = info[d]
      PROVE  Explained(d)'
  <2>1. pc[d] = "done" => pc'[d] = "done" /\ outcome'[d] = outcome[d]
    BY <1>1, DoneStays DEF ResultInv
  <2>2. Explained(d)
    BY DEF ResultInv
  <2> QED
    BY <1>2, <2>1, <2>2 DEF Explained
<1>3. ASSUME UNCHANGED apiVars, \A d \in Calls : pc'[d] = "idle" <=> pc[d] = "idle" PROVE ResultInv'
  BY <1>1, <1>2, <1>3 DEF apiVars, ResultInv
<1>4. ASSUME NEW c \in Calls, NEW i \in Inputs, Untouched, Call(c, i) PROVE ResultInv'
  <2>1. /\ DOMAIN result' = Calls /\ DOMAIN info' = Calls /\ DOMAIN request' = Calls
        /\ \A d \in Calls : result[d] = "none"
    BY <1>4 DEF Call, ResultInv, Untouched
  <2>2. CASE result' = result
    BY <1>1, <2>1, <2>2 DEF ResultInv, Explained
  <2>3. CASE result' = [result EXCEPT ![c] = Preflight(i)] /\ Preflight(i) # "none" /\ UNCHANGED vars
    <3>1. pc'[c] = "idle" /\ result'[c] = Preflight(i)
      BY <1>4, <2>1, <2>3 DEF Untouched, vars, ResultInv
    <3>2. \A d \in Calls \ {c} : result'[d] = "none"
      BY <2>1, <2>3 DEF ResultInv
    <3>3. \A d \in Calls : Explained(d)'
      BY <2>3, <3>1, <3>2 DEF Explained
    <3> QED
      BY <1>1, <2>1, <3>3 DEF ResultInv
  <2> QED
    BY <1>4, <2>2, <2>3 DEF Call
<1>5. ASSUME NEW c \in Calls, Headers(c) PROVE ResultInv'
  <2>1. \A d \in Calls : pc'[d] = "idle" <=> pc[d] = "idle"
    BY <1>1, <1>5, IdleStays DEF Headers, Continue
  <2>2. /\ result' = result /\ info' = info /\ DOMAIN request' = Calls /\ pc[c] # "done"
        /\ \A d \in Calls \ {c} : request'[d] = request[d]
    BY <1>5 DEF Headers, Begin, ResultInv
  <2> QED
    BY <1>1, <1>2, <2>1, <2>2 DEF ResultInv
<1>6. ASSUME NEW c \in Calls, Deliver(c) PROVE ResultInv'
  <2>1. /\ UNCHANGED <<vars, request>> /\ pc[c] = "done"
        /\ DOMAIN result' = Calls /\ DOMAIN info' = Calls
        /\ \A d \in Calls \ {c} : result'[d] = result[d] /\ info'[d] = info[d]
    BY <1>6 DEF Deliver, ResultInv
  <2>2. pc' = pc /\ outcome' = outcome
    BY <2>1 DEF vars, callVars
  <2>3. \A d \in Calls \ {c} : Explained(d)'
    BY <1>2, <2>1, <2>2
  <2>4. CASE /\ outcome[c] \in Answers \ {"ok"}
             /\ \E response \in Response :
                  AnswerOf(response) = outcome[c] /\ result' = [result EXCEPT ![c] = reasonToError(response.reason)]
    <3>1. PICK response \in Response :
            AnswerOf(response) = outcome[c] /\ result' = [result EXCEPT ![c] = reasonToError(response.reason)]
      BY <2>4
    <3>2. result'[c] = reasonToError(response.reason)
      BY <3>1 DEF ResultInv
    <3> QED
      BY <1>1, <2>1, <2>2, <2>3, <2>4, <3>1, <3>2 DEF ResultInv, Explained
  <2>5. CASE /\ \/ outcome[c] \notin Answers
                \/ outcome[c] = "ok" /\ request[c].operation # "createChannel"
             /\ result' = [result EXCEPT ![c] = outcome[c]]
    <3>1. result'[c] = outcome[c]
      BY <2>5 DEF ResultInv
    <3> QED
      BY <1>1, <2>1, <2>2, <2>3, <2>5, <3>1 DEF ResultInv, Explained
  <2>6. CASE /\ outcome[c] = "ok" /\ request[c].operation = "createChannel"
             /\ \/ result' = [result EXCEPT ![c] = "CreateChannelResponseError"]
                \/ /\ result' = [result EXCEPT ![c] = "ok"]
                   /\ info' = [info EXCEPT ![c] = {[channelId |-> TRUE, storagePolicy |-> request[c].policy]}]
    <3>1. \/ result'[c] = "CreateChannelResponseError"
          \/ result'[c] = "ok" /\ \E channel \in info'[c] : channel.channelId
      <4>1. CASE result' = [result EXCEPT ![c] = "CreateChannelResponseError"]
        BY <4>1 DEF ResultInv
      <4>2. CASE /\ result' = [result EXCEPT ![c] = "ok"]
                 /\ info' = [info EXCEPT ![c] = {[channelId |-> TRUE, storagePolicy |-> request[c].policy]}]
        BY <4>2 DEF ResultInv
      <4> QED
        BY <2>6, <4>1, <4>2
    <3> QED
      BY <1>1, <2>1, <2>2, <2>3, <2>6, <3>1 DEF ResultInv, Explained
  <2>7. CASE outcome[c] = "ok" /\ request[c].operation = "listChannels" /\ result' = [result EXCEPT ![c] = "ok"]
    BY <2>5, <2>7
  <2> QED
    BY <1>6, <2>4, <2>5, <2>6, <2>7 DEF Deliver
<1>7. ASSUME NEW c \in Calls, Loop(c) \/ Settles(c), UNCHANGED apiVars PROVE ResultInv'
  BY <1>1, <1>3, <1>7, IdleStays DEF Loop, Continue
<1>8. CASE Environs /\ UNCHANGED apiVars
  <2>1. JwtAges \/ Close => pc' = pc
    BY DEF JwtAges, Close
  <2> QED
    BY <1>1, <1>3, <1>8, <2>1, IdleStays DEF Environs
<1>9. CASE UNCHANGED <<vars, apiVars>>
  <2>1. pc' = pc
    BY <1>9 DEF vars
  <2> QED
    BY <1>3, <1>9, <2>1
<1> QED
  BY <1>4, <1>5, <1>6, <1>7, <1>8, <1>9 DEF ApiNext, Client, Script, Wizard, allVars

(* What a caller is told of a refusal.  The policy is to retry an expired  *)
(* token, as the default one does.                                         *)
LEMMA ErrorsFollow ==
  ASSUME ResultInv, RefusalsSpent, RetryBudget, TerminalNeverRetried, "expired" \in RetryableReasons
  PROVE  ErrorsAreTrue
<1> SUFFICES ASSUME NEW c \in Calls
             PROVE  /\ outcome[c] \in Answers \ {"ok"} /\ result[c] # "none" =>
                         /\ result[c] \in ApnsClasses
                         /\ result[c] \in {reasonToError(r) : r \in DEFAULT_RETRYABLE_REASONS} =>
                              attempt[c] = effectiveRetryPolicy(c)
                         /\ "terminal" \notin Range(retried[c])
                    /\ result[c] \notin Outcomes =>
                         /\ result[c] \in ApnsClasses \cup ClientClasses
                         /\ pc[c] = "idle" /\ result[c] \notin ClientClasses =>
                              result[c] \in {reasonToError(r) : r \in TypedReasons}
                         /\ \A trap \in findTrapByErrorClass(result[c]) :
                              trap \in TrapIds /\ result[c] \in TrapBindings[trap]
                         /\ \A trap \in TrapIds :
                              result[c] \in TrapBindings[trap] => trap \in findTrapByErrorClass(result[c])
                         /\ \A r \in TypedReasons : result[c] = ClassOf(r) =>
                              r \in ReasonGuide /\ printApnsReason(r)
  BY DEF ErrorsAreTrue
<1>1. /\ Explained(c) /\ outcome[c] \in Outcomes /\ attempt[c] \in Nat
      /\ pc[c] # "done" => outcome[c] = "none"
  BY DEF ResultInv, BudgetInv, TypeOK, LogMatchesAttempt
<1>2. ASSUME outcome[c] \in Answers \ {"ok"}, result[c] # "none"
      PROVE  /\ result[c] \in ApnsClasses
             /\ result[c] \in {reasonToError(r) : r \in DEFAULT_RETRYABLE_REASONS} =>
                  attempt[c] = effectiveRetryPolicy(c)
             /\ "terminal" \notin Range(retried[c])
  <2>1. outcome[c] # "none"
    BY <1>2 DEF Answers
  <2>2. PICK response \in Response :
          AnswerOf(response) = outcome[c] /\ result[c] = reasonToError(response.reason)
    BY <1>1, <1>2, <2>1 DEF Explained
  <2>3. response.reason \in TypedReasons \cup {"unreadable", "unlisted"}
    BY DEF Response
  <2>4. ASSUME result[c] \in {reasonToError(r) : r \in DEFAULT_RETRYABLE_REASONS}
        PROVE  attempt[c] = effectiveRetryPolicy(c)
    <3>1. response.reason \in DEFAULT_RETRYABLE_REASONS
      BY <2>2, <2>3, <2>4, RetryableClasses
    <3>2. ~HasBudget(c)
      BY <1>2, <2>2, <3>1, RetryableAnswers DEF RefusalsSpent
    <3>3. /\ attempt[c] <= Len(retried[c]) /\ Len(retried[c]) <= effectiveRetryPolicy(c)
          /\ effectiveRetryPolicy(c) \in Nat /\ Len(retried[c]) \in Nat
      BY PolicyIsNat DEF RetryBudget, ResultInv, BudgetInv, TypeOK
    <3> QED
      BY <1>1, <3>2, <3>3 DEF HasBudget
  <2> QED
    BY <2>2, <2>4, ClientErrors DEF TerminalNeverRetried
<1>3. ASSUME result[c] \notin Outcomes
      PROVE  /\ result[c] \in ApnsClasses \cup ClientClasses
             /\ pc[c] = "idle" /\ result[c] \notin ClientClasses =>
                  result[c] \in {reasonToError(r) : r \in TypedReasons}
  <2>1. "none" \in Outcomes /\ "ok" \in Outcomes
    BY DEF Outcomes, Answers
  <2>2. CASE pc[c] = "idle" /\ \E i \in Inputs : result[c] = Preflight(i)
    <3>1. result[c] \in CheckErrors
      BY <1>3, <2>1, <2>2, PreflightErrors
    <3>2. result[c] \in ClientClasses \/ result[c] \in {reasonToError(r) : r \in TypedReasons}
      BY <3>1, ClientErrors DEF CheckErrors, ClientClasses
    <3> QED
      BY <3>2, ClientErrors
  <2>3. CASE pc[c] = "done"
    <3>1. \/ \E response \in Response : result[c] = reasonToError(response.reason)
          \/ result[c] = "CreateChannelResponseError"
      BY <1>1, <1>3, <2>1, <2>3 DEF Explained
    <3> QED
      BY <2>3, <3>1, ClientErrors DEF ClientClasses
  <2> QED
    BY <1>1, <1>3, <2>1, <2>2, <2>3 DEF Explained
<1> QED
  BY <1>2, <1>3, TrapsAgree, ReasonsAreExplained DEF printApnsReason

-----------------------------------------------------------------------------
(* The command line and the wizard.                                        *)

(* The exit code of a script that connected tells how it was answered; one *)
(* that did not connect exits with the code of its dry run or of its first *)
(* obstacle.                                                               *)
ScriptInv ==
  /\ invocation = NoInvocation => session = "none" /\ exitCode = Running
  /\ session \in {"none", "open", "closed"}
  /\ session = "open" => exitCode = Running
  /\ session # "none" => invocation.dry = "no"
  /\ session = "closed" => exitCode \in {0, 1} /\ (exitCode = 0 => Succeeded(invocation))
  /\ session = "none" /\ exitCode # Running =>
       IF parseAndValidateArgs(invocation)
       THEN IF invocation.dry = "no" THEN exitCode = StartCode(invocation) /\ exitCode # 0
            ELSE exitCode = DryRunCode(invocation)
       ELSE exitCode = 2

LEMMA ScriptStep ==
  ASSUME ScriptInv, NEW args, NEW codes, NoInvocation \notin args, ScriptNext(args, codes)
  PROVE  ScriptInv' /\ (invocation' = invocation \/ (invocation = NoInvocation /\ invocation' \in args))
<1>1. ASSUME NEW a \in args, invocation = NoInvocation, Invoke(a)
      PROVE  ScriptInv' /\ invocation' \in args
  <2>1. /\ a # NoInvocation /\ invocation' = a /\ session = "none" /\ exitCode = Running
    BY <1>1 DEF Invoke, ScriptInv
  <2>2. CASE ~parseAndValidateArgs(a) /\ Exit(2)
    BY <2>1, <2>2 DEF Exit, ScriptInv
  <2>3. CASE parseAndValidateArgs(a) /\ a.dry # "no" /\ Exit(DryRunCode(a))
    BY <2>1, <2>3 DEF Exit, ScriptInv
  <2>4. CASE parseAndValidateArgs(a) /\ a.dry = "no" /\ StartCode(a) # 0 /\ Exit(StartCode(a))
    BY <2>1, <2>4 DEF Exit, ScriptInv
  <2>5. CASE /\ parseAndValidateArgs(a) /\ a.dry = "no" /\ StartCode(a) = 0
             /\ session' = "open" /\ UNCHANGED <<status, exitCode>>
    BY <2>1, <2>5 DEF ScriptInv
  <2> QED
    BY <1>1, <2>1, <2>2, <2>3, <2>4, <2>5 DEF Invoke
<1>2. ASSUME NEW code \in codes, Responds(code) PROVE ScriptInv' /\ invocation' = invocation
  BY <1>2 DEF Responds, ScriptInv
<1>3. Ends => ScriptInv' /\ invocation' = invocation
  BY DEF Ends, ScriptInv, Succeeded
<1>4. Fails => ScriptInv' /\ invocation' = invocation
  BY DEF Fails, ScriptInv
<1> QED
  BY <1>1, <1>2, <1>3, <1>4 DEF ScriptNext

(* What has been typed by the time each prompt is reached.                 *)
Asked(prompts) == wizard \in prompts \cup {"env", "probing", "confirm"}

(* What lets .env be written, and what it is then good for.                *)
Accepted == options.skipValidate \/ answer \in GoodReasons
Complete == /\ typed.keyPath = "path" /\ typed.keyId = "ten" /\ typed.teamId = "ten" /\ typed.bundleId = "bare"
            /\ typed.env \in {"development", "production"}

WizardInv ==
  /\ DOMAIN typed = {"keyPath", "keyId", "teamId", "bundleId", "env"}
  /\ wizard \in {"idle", "keyPath", "keyId", "teamId", "bundleId", "env", "probing", "confirm", "over"}
  /\ Asked({"keyId", "teamId", "bundleId"}) => typed.keyPath = "path"
  /\ Asked({"teamId", "bundleId"}) => typed.keyId = "ten"
  /\ Asked({"bundleId"}) => typed.teamId = "ten"
  /\ Asked({}) => typed.bundleId = "bare"
  /\ wizard \in {"probing", "confirm"} => Complete
  /\ wizard \notin {"probing", "confirm", "over"} => typed.env = "unset"
  /\ wizard = "idle" => envFile = "none"
  /\ wizard # "over" => setupCode = -1 /\ envFile # "written"
  /\ wizard = "confirm" => Accepted /\ ~options.noWrite
  /\ envFile = "written" => setupCode = 0 /\ Accepted /\ ~options.noWrite /\ Complete
  /\ wizard = "over" /\ setupCode = 0 => envFile = "written" \/ options.noWrite \/ typed.env = "unset"

LEMMA WizardStep ==
  ASSUME WizardInv, WizardNext
  PROVE  WizardInv' /\ wizard # "over" /\ wizard' # "idle"
<1>0. /\ Prompts[1] = "keyPath" /\ Prompts[2] = "keyId" /\ Prompts[3] = "teamId"
      /\ Prompts[4] = "bundleId" /\ Prompts[5] = "env"
      /\ \A i \in 1..5 : Prompts[i] \in {"keyPath", "keyId", "teamId", "bundleId", "env"}
  BY DEF Prompts
<1> DEFINE Goal == WizardInv' /\ wizard # "over" /\ wizard' # "idle"
<1>1. ASSUME NEW o, Setup(o) PROVE Goal
  BY <1>1 DEF Setup, WizardInv, Asked, Complete
<1>2. ASSUME NEW i \in 1..4, NEW v, Types(i, v) PROVE Goal
  <2>0. typed' = [typed EXCEPT ![wizard] = v] /\ UNCHANGED <<options, keyFile, envFile, answer, setupCode>>
    BY <1>2 DEF Types
  <2>1. CASE i = 1
    <3>0. wizard = "keyPath" /\ wizard' = "keyId" /\ Valid(wizard, v)
      BY <1>0, <1>2, <2>1 DEF Types
    <3>1. wizard = "keyPath" /\ wizard' = "keyId" /\ v = "path"
      BY <3>0 DEF Valid, validateP8Path
    <3>2. DOMAIN typed' = DOMAIN typed /\ typed'.keyPath = v
      BY <2>0, <3>1 DEF WizardInv
    <3>3. typed'.keyId = typed.keyId /\ typed'.teamId = typed.teamId /\ typed'.bundleId = typed.bundleId /\ typed'.env = typed.env
      BY <2>0, <3>1 DEF WizardInv
    <3> QED
      BY <2>0, <3>1, <3>2, <3>3 DEF WizardInv, Asked
  <2>2. CASE i = 2
    <3>0. wizard = "keyId" /\ wizard' = "teamId" /\ Valid(wizard, v)
      BY <1>0, <1>2, <2>2 DEF Types
    <3>1. wizard = "keyId" /\ wizard' = "teamId" /\ v = "ten"
      BY <3>0 DEF Valid, validateKeyId
    <3>2. DOMAIN typed' = DOMAIN typed /\ typed'.keyId = v
      BY <2>0, <3>1 DEF WizardInv
    <3>3. typed'.keyPath = typed.keyPath /\ typed'.teamId = typed.teamId /\ typed'.bundleId = typed.bundleId /\ typed'.env = typed.env
      BY <2>0, <3>1 DEF WizardInv
    <3> QED
      BY <2>0, <3>1, <3>2, <3>3 DEF WizardInv, Asked
  <2>3. CASE i = 3
    <3>0. wizard = "teamId" /\ wizard' = "bundleId" /\ Valid(wizard, v)
      BY <1>0, <1>2, <2>3 DEF Types
    <3>1. wizard = "teamId" /\ wizard' = "bundleId" /\ v = "ten"
      BY <3>0 DEF Valid, validateTeamId
    <3>2. DOMAIN typed' = DOMAIN typed /\ typed'.teamId = v
      BY <2>0, <3>1 DEF WizardInv
    <3>3. typed'.keyPath = typed.keyPath /\ typed'.keyId = typed.keyId /\ typed'.bundleId = typed.bundleId /\ typed'.env = typed.env
      BY <2>0, <3>1 DEF WizardInv
    <3> QED
      BY <2>0, <3>1, <3>2, <3>3 DEF WizardInv, Asked
  <2>4. CASE i = 4
    <3>0. wizard = "bundleId" /\ wizard' = "env" /\ Valid(wizard, v)
      BY <1>0, <1>2, <2>4 DEF Types
    <3>1. wizard = "bundleId" /\ wizard' = "env" /\ v = "bare"
      BY <3>0 DEF Valid, validateBundleId
    <3>2. DOMAIN typed' = DOMAIN typed /\ typed'.bundleId = v
      BY <2>0, <3>1 DEF WizardInv
    <3>3. typed'.keyPath = typed.keyPath /\ typed'.keyId = typed.keyId /\ typed'.teamId = typed.teamId /\ typed'.env = typed.env
      BY <2>0, <3>1 DEF WizardInv
    <3> QED
      BY <2>0, <3>1, <3>2, <3>3 DEF WizardInv, Asked
  <2> QED
    BY <2>1, <2>2, <2>3, <2>4
<1>3. ASSUME NEW v \in MayType.env, Chooses(v) PROVE Goal
  <2>1. /\ wizard = "env" /\ typed' = [typed EXCEPT !.env = v] /\ v \in {"development", "production"}
        /\ UNCHANGED <<options, keyFile, answer>>
    BY <1>3 DEF Chooses, MayType
  <2>2. Complete' /\ DOMAIN typed' = DOMAIN typed
    BY <2>1 DEF WizardInv, Asked, Complete
  <2>3. CASE options.skipValidate /\ WriteEnv
    BY <2>1, <2>2, <2>3 DEF WriteEnv, Exits, WizardInv, Asked, Accepted, Complete
  <2>4. CASE Exits(1) /\ UNCHANGED envFile
    BY <2>1, <2>2, <2>4 DEF Exits, WizardInv, Asked
  <2>5. CASE wizard' = "probing" /\ UNCHANGED <<envFile, setupCode>>
    BY <2>1, <2>2, <2>5 DEF WizardInv, Asked, Complete
  <2> QED
    BY <1>3, <2>3, <2>4, <2>5 DEF Chooses
<1>4. Cancels => Goal
  BY <1>0 DEF Cancels, Exits, WizardInv, Asked
<1>5. ASSUME NEW reason, ProbeAnswered(reason) PROVE Goal
  <2>1. wizard = "probing" /\ answer' = reason /\ UNCHANGED <<options, typed, keyFile>> /\ Complete /\ Complete'
    BY <1>5 DEF ProbeAnswered, WizardInv, Complete
  <2>2. CASE reason \in GoodReasons /\ WriteEnv
    BY <2>1, <2>2 DEF WriteEnv, Exits, WizardInv, Asked, Accepted, Complete
  <2>3. CASE Exits(1) /\ UNCHANGED envFile
    BY <2>1, <2>3 DEF Exits, WizardInv, Asked
  <2> QED
    BY <1>5, <2>2, <2>3 DEF ProbeAnswered
<1>6. ProbeFails \/ ProbeTimesOut => Goal
  BY DEF ProbeFails, ProbeTimesOut, Exits, WizardInv, Asked
<1>7. ASSUME NEW yes \in BOOLEAN, Confirms(yes) PROVE Goal
  BY <1>7 DEF Confirms, Exits, WizardInv, Asked, Accepted, Complete
<1>8. KeyMoves => Goal
  BY DEF KeyMoves, WizardInv, Asked, Accepted, Complete
<1> QED
  BY <1>1, <1>2, <1>3, <1>4, <1>5, <1>6, <1>7, <1>8 DEF WizardNext

(* The command line runs before the wizard, or after it with its .env.     *)
SetupInv ==
  /\ ScriptInv /\ WizardInv
  /\ invocation # NoInvocation /\ wizard # "idle" =>
       /\ wizard = "over"
       /\ envFile # "none" => invocation.bundleId = TRUE /\ invocation.credentials = TRUE

(* What the script finds in the shell is what .env has.                    *)
LEMMA LoadedEnv ==
  ASSUME NEW a, {"dry", "bundleId", "credentials", "keyFile"} \subseteq DOMAIN a
  PROVE  /\ "dry" \in DOMAIN LoadEnv(a)
         /\ LoadEnv(a).bundleId = (envFile # "none") /\ LoadEnv(a).credentials = (envFile # "none")
BY DEF LoadEnv

LEMMA SetupInvInit == ApiInit => SetupInv
BY DEF ApiInit, ScriptInit, SetupInit, SetupInv, ScriptInv, WizardInv, Asked, MayType

LEMMA SetupInvStep == SetupInv /\ [ApiNext]_allVars => SetupInv'
<1> SUFFICES ASSUME SetupInv, [ApiNext]_allVars PROVE SetupInv'
  OBVIOUS
<1>1. CASE UNCHANGED <<scriptVars, setupVars>>
  BY <1>1 DEF scriptVars, setupVars, SetupInv, ScriptInv, WizardInv, Asked, Accepted, Complete, Succeeded
<1>2. CASE Script
  <2> DEFINE args == IF wizard = "over"
                     THEN {LoadEnv(a) : a \in {x \in Invocations : ~x.bundleId /\ ~x.credentials}}
                     ELSE Invocations
  <2>1. ScriptNext(args, StatusCodes) /\ UNCHANGED setupVars
    BY <1>2 DEF Script
  <2>2. NoInvocation \notin args
    <3>1. "dry" \notin DOMAIN NoInvocation
      BY DEF NoInvocation
    <3>2. \A a \in args : "dry" \in DOMAIN a
      BY InvocationsAssumption, LoadedEnv
    <3> QED
      BY <3>1, <3>2
  <2>3. ScriptInv' /\ (invocation' = invocation \/ (invocation = NoInvocation /\ invocation' \in args))
    <3> HIDE DEF args
    <3> QED
      BY <2>1, <2>2, ScriptStep DEF SetupInv
  <2>4. WizardInv'
    BY <2>1 DEF setupVars, SetupInv, WizardInv, Asked, Accepted, Complete
  <2>5. CASE invocation' = invocation
    BY <2>1, <2>3, <2>4, <2>5 DEF setupVars, SetupInv
  <2>6. CASE invocation = NoInvocation /\ invocation' \in args
    <3>1. wizard \in {"idle", "over"}
      BY <1>2, <2>6 DEF Script, SetupInv, ScriptInv, Untouched
    <3>2. wizard = "over" =>
            invocation'.bundleId = (envFile # "none") /\ invocation'.credentials = (envFile # "none")
      BY <2>6, InvocationsAssumption, LoadedEnv
    <3> QED
      BY <2>1, <2>3, <2>4, <3>1, <3>2 DEF setupVars, SetupInv
  <2> QED
    BY <2>3, <2>5, <2>6
<1>3. CASE Wizard
  <2>1. WizardInv' /\ wizard # "over" /\ wizard' # "idle" /\ UNCHANGED scriptVars
    BY <1>3, WizardStep DEF Wizard, SetupInv
  <2>2. ScriptInv'
    BY <2>1 DEF scriptVars, SetupInv, ScriptInv, Succeeded
  <2>3. invocation = NoInvocation /\ invocation' = invocation
    BY <1>3, <2>1 DEF scriptVars, SetupInv, Wizard, Untouched
  <2> QED
    BY <2>1, <2>2, <2>3 DEF SetupInv
<1>4. Client => UNCHANGED <<scriptVars, setupVars>>
  BY DEF Client, Call, Headers, Deliver
<1> QED
  BY <1>1, <1>2, <1>3, <1>4 DEF ApiNext, allVars

LEMMA SetupFollows == ASSUME SetupInv PROVE SetupTellsTruth
<1>1. ASSUME envFile = "written"
      PROVE  /\ options.skipValidate \/ answer \in GoodReasons
             /\ ~options.noWrite /\ setupCode = 0
             /\ assertConfigComplete(typed) = "none"
             /\ createPushClient(typed) # "none" => keyFile \in {"huge", "missing"}
  <2>1. Complete /\ Accepted /\ ~options.noWrite /\ setupCode = 0
    BY <1>1 DEF SetupInv, WizardInv
  <2>2. assertConfigComplete(typed) = "none"
    BY <2>1 DEF Complete, assertConfigComplete
  <2> QED
    BY <2>1, <2>2 DEF Accepted, createPushClient, resolveKeyPem
<1>2. ASSUME envFile = "written", exitCode = 2, parseAndValidateArgs(invocation)
      PROVE  BuildCode(invocation) = 2
  <2>1. invocation # NoInvocation /\ session = "none"
    BY <1>2 DEF SetupInv, ScriptInv, Running
  <2>2. invocation.bundleId = TRUE /\ invocation.credentials = TRUE
    BY <1>2, <2>1 DEF SetupInv, WizardInv
  <2>3. DryRunCode(invocation) = 2 \/ StartCode(invocation) = 2
    BY <1>2, <2>1 DEF SetupInv, ScriptInv, Running
  <2>4. DryRunCode(invocation) = 2 => BuildCode(invocation) = 2
    BY <2>2 DEF DryRunCode
  <2>5. StartCode(invocation) = 2 => BuildCode(invocation) = 2
    BY <2>2 DEF StartCode
  <2> QED
    BY <2>3, <2>4, <2>5
<1>3. wizard = "over" /\ setupCode = 0 => envFile = "written" \/ options.noWrite \/ typed.env = "unset"
  BY DEF SetupInv, WizardInv
<1> QED
  BY <1>1, <1>2, <1>3 DEF SetupTellsTruth

(* A result says what happened, for every caller, operator and answer: an  *)
(* error is the one that occurred and no call is given up too early, an    *)
(* exit code tells how the script fared, a channel comes with its id, and  *)
(* the wizard wrote what was accepted.                                     *)
THEOREM ResultsAreAlwaysTrue ==
  "expired" \in RetryableReasons => (ApiSpec => []ResultsAreTrue)
<1> SUFFICES ASSUME "expired" \in RetryableReasons PROVE ApiSpec => []ResultsAreTrue
  OBVIOUS
<1>1. ResultInv => \A c \in Calls : result[c] = "ok" =>
        /\ outcome[c] = "ok"
        /\ request[c].operation = "createChannel" => \E channel \in info[c] : channel.channelId
  <2> SUFFICES ASSUME ResultInv, NEW c \in Calls, result[c] = "ok"
               PROVE  /\ outcome[c] = "ok"
                      /\ request[c].operation = "createChannel" => \E channel \in info[c] : channel.channelId
    OBVIOUS
  <2>1. \A i \in Inputs : Preflight(i) # "ok"
    BY PreflightErrors DEF CheckErrors
  <2>2. \A response \in Response : reasonToError(response.reason) # "ok"
    BY DEF reasonToError, ClassOf, TypedReasons, CallerErrors, RequestErrors, ServiceErrors
  <2> QED
    BY <2>1, <2>2 DEF ResultInv, Explained, Answers
<1>2. SetupInv => /\ exitCode = 0 =>
                       IF invocation.dry = "no" THEN session = "closed" /\ Succeeded(invocation)
                       ELSE session = "none" /\ DryRunCode(invocation) = 0
                  /\ exitCode # Running => session # "open"
  BY DEF SetupInv, ScriptInv, Running
<1>3. ResultInv /\ SetupInv /\ RefusalsSpent /\ RetryBudget /\ TerminalNeverRetried => ResultsAreTrue
  BY <1>1, <1>2, ErrorsFollow, SetupFollows DEF ResultsAreTrue
<1>4. ApiSpec => [](RefusalsSpent /\ RetryBudget /\ TerminalNeverRetried)
  BY ClientRunsTheLoop, RefusedWhenSpent, BudgetHolds, TerminalIsFinal, PTL
<1>5. ApiSpec => [](ResultInv /\ SetupInv)
  BY ResultInit, ResultStep, SetupInvInit, SetupInvStep, PTL DEF ApiSpec
<1> QED
  BY <1>3, <1>4, <1>5, PTL
=============================================================================
