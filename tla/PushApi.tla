------------------------------ MODULE PushApi ------------------------------
(***************************************************************************)
(* A call of PushClient from its arguments to its result: the checks of    *)
(* PushRequest, the loop of PushRetry, the reading of the answer.  Next to *)
(* it the command line of SendApns, which sends the same without the       *)
(* client, alone or after the wizard of SetupApns has written its .env.    *)
(*                                                                         *)
(* Bound: one call or one invocation per behaviour.  Calls that disturb    *)
(* each other are the subject of PushRetry.                                *)
(***************************************************************************)
EXTENDS PushRetry, SendApns, SetupApns, ApnsReasons, LiveActivityCalls, ExampleDomain

CONSTANTS
  Inputs,        \* what a caller may pass
  Invocations,   \* what an operator may type
  StatusCodes    \* what APNs may answer the script with

ASSUME InputsAssumption ==
  \A i \in Inputs :
    /\ i.op \in DeviceOps \cup {"broadcast"} \cup ManageOps
    /\ i.bytes \in Nat
    /\ i.policy \in {"unset", "no-storage", "most-recent-message"}

ASSUME InvocationsAssumption ==
  \A a \in Invocations : {"dry", "bundleId", "credentials", "keyFile"} \subseteq DOMAIN a

VARIABLES
  input,    \* the arguments of each call, while the code still reads them
  request,  \* what the call hands to the transport
  info,     \* the ChannelInfos of the result
  result    \* how the method's promise settles

apiVars == <<input, request, info, result>>
allVars == <<vars, scriptVars, setupVars, apiVars>>

NoInput   == [op |-> "none"]
NoRequest == [operation |-> "none"]

ApiInit ==
  /\ Init /\ ScriptInit /\ SetupInit
  /\ input = [c \in Calls |-> NoInput]
  /\ request = [c \in Calls |-> NoRequest]
  /\ info = [c \in Calls |-> {}]
  /\ result = [c \in Calls |-> "none"]

Untouched == (\A c \in Calls : pc[c] = "idle" /\ result[c] = "none") /\ invocation = NoInvocation
             /\ wizard = "idle"

-----------------------------------------------------------------------------
(* The method runs to its first await: #assertOpen, the checks, then the   *)
(* bearer.  A check that fails rejects the promise and leaves the rest of  *)
(* the client as it was.                                                   *)
Call(c, i) ==
  /\ input' = [input EXCEPT ![c] = i]
  /\ \/ /\ closed
        /\ Send(c)
        /\ UNCHANGED <<request, result>>
     \/ /\ ~closed /\ Preflight(i) # "none"
        /\ result' = [result EXCEPT ![c] = Preflight(i)]
        /\ UNCHANGED <<vars, request>>
     \/ /\ ~closed /\ Preflight(i) = "none" /\ PriorityOf(i) = Priority[c]
        /\ request' = [request EXCEPT ![c] = Request(i)]
        /\ Send(c)
        /\ UNCHANGED result
  /\ UNCHANGED <<info, scriptVars, setupVars>>

(* The headers are complete: the arguments are not read again.  The loop   *)
(* sends the request as it is; the variable keeps what the answer needs.   *)
Headers(c) ==
  /\ Begin(c)
  /\ input' = [input EXCEPT ![c] = NoInput]
  /\ request' = [request EXCEPT ![c] = IF @.operation \in ManageOps THEN @ ELSE NoRequest]
  /\ UNCHANGED <<info, result, scriptVars, setupVars>>

(* What the loop tells apart in an answer that is not a 2xx; "other" is    *)
(* not retried, with the default policy.                                   *)
AnswerOf(response) ==
  CASE response.reason \in TERMINAL_REASONS -> "terminal"
    [] response.reason = "ExpiredProviderToken" -> "expired"
    [] WaitsNot(response) -> "tooManyNow"
    [] OTHER -> IF retries(response, DEFAULT_RETRYABLE_REASONS) THEN "transient" ELSE "other"

(* The promise of the loop settled.  An answer is read: errorFromResponse  *)
(* gives a refusal the class of its reason.  createChannel() looks for *)
(* an id in a 2xx answer, listChannels() reads the list.                   *)
Deliver(c) ==
  /\ pc[c] = "done" /\ result[c] = "none"
  /\ input' = [input EXCEPT ![c] = NoInput]
  /\ \/ /\ outcome[c] \in Answers \ {"ok"}
        /\ \E response \in Response :
             /\ AnswerOf(response) = outcome[c]
             /\ result' = [result EXCEPT ![c] = reasonToError(response.reason)]
        /\ UNCHANGED info
     \/ /\ \/ outcome[c] \notin Answers
           \/ outcome[c] = "ok" /\ request[c].operation \notin {"createChannel", "listChannels"}
        /\ result' = [result EXCEPT ![c] = outcome[c]]
        /\ UNCHANGED info
     \/ /\ outcome[c] = "ok" /\ request[c].operation = "createChannel"
        /\ \E reply \in Replies :
             IF reply = "nowhere"
             THEN result' = [result EXCEPT ![c] = "CreateChannelResponseError"] /\ UNCHANGED info
             ELSE /\ result' = [result EXCEPT ![c] = "ok"]
                  /\ info' = [info EXCEPT ![c] =
                                {[channelId |-> TRUE, storagePolicy |-> request[c].policy]}]
     \/ /\ outcome[c] = "ok" /\ request[c].operation = "listChannels"
        /\ \E entries \in SUBSET Entries :
             info' = [info EXCEPT ![c] = {normalizeChannelEntry(e) : e \in entries}]
        /\ result' = [result EXCEPT ![c] = "ok"]
  /\ UNCHANGED <<vars, request, scriptVars, setupVars>>

Loop(c) == Wake(c) \/ Refresh(c) \/ Resend(c)

Environs ==
  \/ \E c \in Calls : (Untouched \/ pc[c] # "idle") /\ Abort(c)
  \/ \E c \in Calls, f \in Failures : JwtFails(c, f)
  \/ JwtAges \/ Close

Client ==
  \/ Untouched /\ \E c \in Calls, i \in Inputs : Call(c, i)
  \/ \E c \in Calls : Headers(c) \/ Deliver(c)
  \/ \E c \in Calls : (Loop(c) \/ Settles(c)) /\ UNCHANGED <<apiVars, scriptVars, setupVars>>
  \/ invocation = NoInvocation /\ wizard = "idle" /\ Environs /\ UNCHANGED <<apiVars, scriptVars, setupVars>>

(* The command line, in a shell that exports what it needs or, after the   *)
(* wizard, in one that exports nothing and loads .env.                     *)
Script ==
  /\ \/ session = "open"
     \/ Untouched /\ ~closed /\ \A c \in Calls : ~aborted[c]
     \/ wizard = "over" /\ invocation = NoInvocation
  /\ ScriptNext(IF wizard = "over"
                THEN {LoadEnv(a) : a \in {x \in Invocations : ~x.bundleId /\ ~x.credentials}}
                ELSE Invocations, StatusCodes)
  /\ UNCHANGED <<vars, setupVars, apiVars>>

Wizard ==
  /\ wizard = "idle" => Untouched /\ ~closed /\ \A c \in Calls : ~aborted[c]
  /\ WizardNext
  /\ UNCHANGED <<vars, scriptVars, apiVars>>

ApiNext == Client \/ Script \/ Wizard

(* Continuations run and a request settles (RequestsSettle of Http2Client). *)
(* Nothing is assumed of the script, which sets no timeout; the probe of   *)
(* the wizard has one.                                                     *)
ApiSpec ==
  /\ ApiInit /\ [][ApiNext]_allVars
  /\ \A c \in Calls :
       /\ WF_allVars(Headers(c) \/ Deliver(c))
       /\ WF_allVars((Loop(c) \/ Settles(c)) /\ UNCHANGED <<apiVars, scriptVars, setupVars>>)
  /\ WF_allVars(ProbeTimesOut /\ UNCHANGED <<vars, scriptVars, apiVars>>)

-----------------------------------------------------------------------------
(* Properties.                                                             *)

ValidTimes == {"unset", "seconds", "now"}

(* The arguments of an update given to the adapter on the device: what the *)
(* schema takes is never one the Swift struct cannot decode (MS003 is what *)
(* MS038 is there to prevent), what it does not take never crosses the     *)
(* bridge, and neither does a date push would send change; a channel is    *)
(* engaged or refused by name, never downgraded to a token                 *)
(* (LiveActivityModuleLogic.swift:19-22); and what the native side says of *)
(* its error survives the bridge (live-activity/src/index.ts:367-372).     *)
DeviceAgrees(i) ==
  LET s == i.snapshot IN
  i.op = "update" /\ s.kind = "liveActivity" /\ "liveActivity" \in DOMAIN s.slices =>
    /\ staleDateSeconds(i.stale) = i.stale \/ Preflight(i) # "none"
    /\ \A content \in {toLiveActivityContentState(s)}, os \in Versions, asked, able \in BOOLEAN :
         LET starts == LiveActivityStart(os, content, asked, able)
             updates == LiveActivityUpdate(os, content, able)
             ends == LiveActivityEnd(os, "default", able)
             native == NativeStart(os, content, asked, able) IN
         /\ \A end \in {starts, updates} :
              /\ end = InvalidContentState <=> ~Accepts(ActivityContentState, content)
              /\ end.name # "LiveActivityDecodingError"
         /\ safeParse(s) => starts # InvalidContentState
         /\ starts.name = "ok" =>
              native = (IF asked THEN "channel" ELSE "token") /\ areActivitiesEnabled(os, able)
         /\ \A end \in {starts, updates, ends} :
              /\ end.trap \subseteq TrapIds
              /\ end.trap # {} => end.name \notin {"ok", "LiveActivityNativeError"}
              /\ os < 162 /\ end # InvalidContentState => end.trap = {12}

(* The reference producer never makes a snapshot its own assertSnapshot    *)
(* refuses, for any kind of any order its users can come to, and the       *)
(* surfaces of an order tell the same of it (example-domain, index.ts:     *)
(* 143-149, 298-304).                                                      *)
DeliveriesAreShown ==
  \A order \in Orders :
    /\ \A kind \in Kinds :
         LET s == deliveryToSnapshot(order, kind) IN
         safeParse(s) /\ ensureProjection(s) /\ Decodes(kind, Project(s))
    /\ (stageToProgress[order.stage] = 3) = (stageToState[order.stage] = "completed")
    /\ (stageToLiveSurfaceStage[order.stage] = "completing") = (shortEta(order) = "done")
    /\ subtitleFor(order) # "soon" /\ shortEta(order) # "soon"
    /\ subtitleFor(order) = "eta" => order.driver

(* Whatever a caller passes, what reaches the transport is what APNs takes *)
(* (MS011, MS015, MS032; preflight.ts:1-13), with the priority its retry   *)
(* policy is made for; and a snapshot that parses can be projected, and    *)
(* what it becomes is decoded on the device (index.ts:109-121): "this      *)
(* error indicates a bug in the helper itself".                            *)
RequestsAreValid ==
  /\ DeliveriesAreShown
  /\ \A c \in Calls :
      /\ LET r == request[c] IN
         r # NoRequest /\ r.operation \notin ManageOps =>
           /\ r.priority = Priority[c]
           /\ r.bytes <= PayloadLimit(r.operation)
           /\ r.stale \in ValidTimes /\ r.dismissal \in ValidTimes
      /\ LET i == input[c] IN
         i # NoInput /\ i.op \notin ManageOps =>
           /\ request[c] # NoRequest /\ i.expiration # "unset" =>
                i.expiration \in {"zero", "seconds"}
           /\ request[c] # NoRequest /\ i.op = "broadcast" =>
                (request[c].expiration = "zero" <=> PolicyOf(i) = "no-storage")
           /\ DeviceAgrees(i)
           /\ LET s == i.snapshot IN
              safeParse(s) =>
                /\ ensureProjection(s)
                /\ Decodes(s.kind, Project(s))
                /\ s.kind = "liveActivity" => Accepts(AlertPayload, toApnsAlertPayload(s))

(* The other ways to the same request tell the truth: describeSend()       *)
(* rejects, or reports as too long, what the send would reject, and shows  *)
(* the request it would issue (client.ts:1077-1090); and the command line  *)
(* makes the request of a broadcast (send-apns.mjs:503-505, 805-807).      *)
PathsAgree ==
  \A c \in Calls :
    LET i == input[c]  error == Preflight(i) IN
    i # NoInput /\ i.op \in DescribableOps =>
      /\ error # "TokenEnvironmentMismatchError" =>
           (error = "none" <=> describeError(i) = "none" /\ withinLimit(i))
      /\ error = "none" => finishDescription(i) = Request(i)
      /\ error = "none" /\ i.op = "broadcast" =>
           LET a == ArgsFor(i) IN
           /\ parseAndValidateArgs(a) /\ StartCode(a) = 0 /\ FitsLimit(a)
           /\ ScriptPriority(a) = Request(i).priority
           /\ ScriptExpiration(a) = Request(i).expiration

(* What APNs refuses is reported as what it is: whatever the table calls   *)
(* retryable reaches a caller only once the budget is spent, whatever is   *)
(* terminal was not sent again (client.ts:1639-1669); a caller that        *)
(* catches ApnsError gets a class for every answer (errors.ts:3-9), and    *)
(* "buckets client-caught and server-returned variants together"           *)
(* (preflight.ts:6-9); and the trap an error names is one that explains it *)
(* and is still in the catalogue, the hand-written guide of the command    *)
(* line knowing the same reasons (send-apns.mjs:125, traps/src/index.ts).  *)
ErrorsAreTrue ==
  /\ \A c \in Calls : outcome[c] \in Answers \ {"ok"} /\ result[c] # "none" =>
       /\ result[c] \in ApnsClasses
       /\ result[c] \in {reasonToError(r) : r \in DEFAULT_RETRYABLE_REASONS} =>
            attempt[c] = effectiveRetryPolicy(c)
       /\ "terminal" \notin Range(retried[c])
  /\ \A c \in Calls : result[c] \notin Outcomes =>
       /\ result[c] \in ApnsClasses \cup ClientClasses
       /\ pc[c] = "idle" /\ result[c] \notin ClientClasses =>
            result[c] \in {reasonToError(r) : r \in TypedReasons}
       /\ \A trap \in findTrapByErrorClass(result[c]) :
            trap \in TrapIds /\ result[c] \in TrapBindings[trap]
       /\ \A trap \in TrapIds :
            result[c] \in TrapBindings[trap] => trap \in findTrapByErrorClass(result[c])
       /\ \A r \in TypedReasons : result[c] = ClassOf(r) =>
            r \in ReasonGuide /\ printApnsReason(r)

(* The wizard writes what APNs has accepted, or was told not to ask: what  *)
(* it wrote is enough for the command line and for createPushClient, which *)
(* can be stopped by the key file only, and whatever else happens (a       *)
(* refusal, a timeout, a key that moved, a no) leaves .env as it was.      *)
SetupTellsTruth ==
  /\ envFile = "written" =>
       /\ options.skipValidate \/ answer \in GoodReasons
       /\ ~options.noWrite /\ setupCode = 0
       /\ assertConfigComplete(typed) = "none"
       /\ createPushClient(typed) # "none" => keyFile \in {"huge", "missing"}
       /\ exitCode = 2 /\ parseAndValidateArgs(invocation) => BuildCode(invocation) = 2
  /\ wizard = "over" /\ setupCode = 0 => envFile = "written" \/ options.noWrite \/ typed.env = "unset"

(* A result says what happened: a script that exits with 0 showed what it  *)
(* was asked to show or was answered as its mode expects, and leaves no    *)
(* session; a channel that was created is returned with its id; an error   *)
(* is the one that occurred, and the wizard wrote what was accepted.       *)
ResultsAreTrue ==
  /\ ErrorsAreTrue /\ SetupTellsTruth
  /\ exitCode = 0 =>
       IF invocation.dry = "no" THEN session = "closed" /\ Succeeded(invocation)
       ELSE session = "none" /\ DryRunCode(invocation) = 0
  /\ exitCode # Running => session # "open"
  /\ \A c \in Calls : result[c] = "ok" =>
       /\ outcome[c] = "ok"
       /\ request[c].operation = "createChannel" =>
            \E channel \in info[c] : channel.channelId

(* Every call settles its promise, however the loop and its environment    *)
(* go, and the wizard does not hang on a probe nobody answers.             *)
CallsAnswer ==
  /\ \A c \in Calls : pc[c] # "idle" ~> result[c] # "none"
  /\ wizard = "probing" ~> wizard \in {"confirm", "over"}
=============================================================================
