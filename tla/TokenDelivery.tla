---------------------------- MODULE TokenDelivery ----------------------------
(***************************************************************************)
(* How a push token reaches the backend that pushes to it: the retrying    *)
(* forwarder (packages/tokens/src/forwarder.ts), the network, and the      *)
(* reference backend (apps/example-backend/src/server.mjs).                *)
(*                                                                         *)
(* Every record is forwarded at most once, all at the same time, under one *)
(* caller signal. The network loses, delays and reorders requests and      *)
(* answers, a request may still arrive after its attempt timed out, and a  *)
(* proxy may answer instead of the backend. The backend keeps its tokens   *)
(* in memory and forgets them when it restarts. Times of day (recordedAt)  *)
(* are numbers; tokens are known by their idempotency key.                 *)
(***************************************************************************)
EXTENDS Integers, FiniteSets

CONSTANTS
  Emissions,      \* the records that may be handed to forward()
  RecordOf,       \* emission -> its TokenRecord
  Invalid,        \* the emissions whose record fails wire validation
  Keys,           \* idempotency keys
  KindOf,         \* key -> kind of its token
  Advances,       \* calls of POST /delivery/:orderId/advance
  NoKey,
  MaxRetries,     \* cfg.maxRetries
  HasPushClient,  \* the APNs credentials are set
  MaxForwards,    \* bound: calls of forward()
  MaxRestarts     \* bound: restarts of the backend

Lifecycles == {"active", "ending", "dead"}
Kinds == {"perActivity", "pushToStart", "apnsDevice"}
Records == [key : Keys, at : Nat \ {0}, life : Lifecycles]

ASSUME DeliveryAssumption ==
  /\ RecordOf \in [Emissions -> Records] /\ Invalid \subseteq Emissions
  /\ IsFiniteSet(Keys) /\ KindOf \in [Keys -> Kinds] /\ NoKey \notin Keys
  /\ MaxRetries \in Int /\ HasPushClient \in BOOLEAN /\ MaxForwards \in Nat /\ MaxRestarts \in Nat

KeyOf(e) == RecordOf[e].key
AtOf(e) == RecordOf[e].at
total == IF MaxRetries < 0 THEN 1 ELSE MaxRetries + 1

(* An entry of the backend's Map; at = 0 where it has none.                *)
NoToken == [at |-> 0, life |-> "none"]
Stored == {NoToken} \cup [at : Nat \ {0}, life : Lifecycles]

Settled == {"invalid", "ok", "skipped", "rejected", "aborted", "exhausted", "gone"}
(* A status class; 429 is counted among the 5xx (isRetryableStatus).       *)
Statuses == {"2xx", "409", "4xx", "5xx"}

(* A request names its attempt; an answer also the run of the backend that *)
(* gave it.                                                                *)
Request == [from : Emissions, try : 1..total]
Answer == [from : Emissions, try : 1..total, status : Statuses, run : 0..MaxRestarts]

VARIABLES
  pc,       \* where each forward() stands
  tries,    \* attempts made by each forward()
  aborted,  \* cfg.signal.aborted
  network,  \* requests and answers under way
  ackRun,   \* history: the run of the backend that stored or knew the record, else -1
  tokens,   \* the backend's Map
  run,      \* restarts of the backend so far
  advance,  \* where each advance call stands
  pushedTo  \* the key of the token its push goes to

forwarderVars == <<pc, tries, aborted, ackRun>>
backendVars == <<tokens, run, advance, pushedTo>>
vars == <<forwarderVars, network, backendVars>>

Init ==
  /\ pc = [e \in Emissions |-> "idle"]
  /\ tries = [e \in Emissions |-> 0]
  /\ aborted = FALSE
  /\ network = {}
  /\ ackRun = [e \in Emissions |-> -1]
  /\ tokens = [k \in Keys |-> NoToken]
  /\ run = 0
  /\ advance = [a \in Advances |-> "idle"]
  /\ pushedTo = [a \in Advances |-> NoKey]

-----------------------------------------------------------------------------
(* The forwarder.                                                          *)

Settle(e, result) == pc' = [pc EXCEPT ![e] = result]

(* attempt(): fetch rejects at once when the signal has aborted.           *)
Attempt(e) ==
  /\ Settle(e, "posting")
  /\ tries' = [tries EXCEPT ![e] = @ + 1]
  /\ network' = IF aborted THEN network ELSE network \cup {[from |-> e, try |-> tries[e] + 1]}

Forward(e) ==
  /\ pc[e] = "idle" /\ Cardinality({f \in Emissions : pc[f] # "idle"}) < MaxForwards
  /\ IF e \in Invalid THEN Settle(e, "invalid") /\ UNCHANGED <<tries, network>> ELSE Attempt(e)
  /\ UNCHANGED <<aborted, ackRun, backendVars>>

(* Mutant: sleeps after the last attempt too.                              *)
RetryForever(e) == Settle(e, IF aborted THEN "aborted" ELSE "sleeping")

(* What follows a retryable failure: the last attempt ends the call, and   *)
(* sleep() rejects under an aborted signal.                                *)
Retry(e) ==
  Settle(e, IF tries[e] = total THEN "exhausted" ELSE IF aborted THEN "aborted" ELSE "sleeping")

(* What forward() makes of a status.                                       *)
Outcome(e, status) ==
  IF status = "409" THEN Settle(e, "skipped")
  ELSE IF status = "2xx" THEN Settle(e, "ok")
  ELSE IF status = "4xx" THEN Settle(e, "rejected")
  ELSE Retry(e)

(* The attempt under way is answered.                                      *)
Receive(m) ==
  /\ m \in network /\ m \in Answer
  /\ network' = network \ {m}
  /\ Outcome(m.from, m.status)
  /\ ackRun' = [ackRun EXCEPT ![m.from] = IF m.status \in {"2xx", "409"} THEN m.run ELSE @]
  /\ UNCHANGED <<tries, aborted, backendVars>>

(* Mutant: an attempt has no timer.                                        *)
FailWithoutTimer(e) ==
  /\ pc[e] = "posting" /\ aborted
  /\ Settle(e, "aborted")
  /\ network' = {m \in network : m \in Answer => m.from # e}
  /\ UNCHANGED <<tries, aborted, ackRun, backendVars>>

(* fetch rejects: the network, the attempt's timer, or the abort.          *)
Fail(e) ==
  /\ pc[e] = "posting"
  /\ IF aborted THEN Settle(e, "aborted") ELSE Retry(e)
  /\ network' = {m \in network : m \in Answer => m.from # e}
  /\ UNCHANGED <<tries, aborted, ackRun, backendVars>>

Wake(e) ==
  /\ pc[e] = "sleeping"
  /\ Attempt(e)
  /\ UNCHANGED <<aborted, ackRun, backendVars>>

(* The caller aborts: sleeping calls settle, posting ones when their fetch *)
(* rejects.                                                                *)
Abort ==
  /\ ~aborted
  /\ aborted' = TRUE
  /\ pc' = [e \in Emissions |-> IF pc[e] = "sleeping" THEN "aborted" ELSE pc[e]]
  /\ UNCHANGED <<tries, ackRun, network, backendVars>>

(* The app is killed; nothing remembers what was not forwarded.            *)
AppKilled ==
  /\ \E e \in Emissions : pc[e] \notin Settled
  /\ pc' = [e \in Emissions |-> IF pc[e] \in Settled THEN pc[e] ELSE "gone"]
  /\ network' = network \cap Request
  /\ UNCHANGED <<tries, aborted, ackRun, backendVars>>

-----------------------------------------------------------------------------
(* The network. What it loses is what no action ever takes from it.        *)

(* The answer to an attempt that has been given up reaches nobody.         *)
Reply(m, status) ==
  network' = (network \ {m}) \cup
    IF pc[m.from] = "posting" /\ tries[m.from] = m.try
    THEN {[from |-> m.from, try |-> m.try, status |-> status, run |-> run]} ELSE {}

(* A proxy, a rate limit or a failing handler answers; nothing is stored.  *)
Refuse(m) ==
  /\ m \in network /\ m \in Request
  /\ \E status \in {"4xx", "5xx"} : Reply(m, status)
  /\ UNCHANGED <<forwarderVars, backendVars>>

-----------------------------------------------------------------------------
(* The backend.                                                            *)

(* Mutant: the last writer wins.                                           *)
OverwritesAlways(e) ==
  tokens' = [tokens EXCEPT ![KeyOf(e)] = [at |-> AtOf(e), life |-> RecordOf[e].life]]

(* Only a later recordedAt overwrites.                                     *)
Store(e) ==
  tokens' = IF AtOf(e) <= tokens[KeyOf(e)].at THEN tokens
            ELSE [tokens EXCEPT ![KeyOf(e)] = [at |-> AtOf(e), life |-> RecordOf[e].life]]

(* POST /tokens. The reference backend answers a duplicate with 200; one   *)
(* that dedupes on the key answers 409 (forwarder.ts:14-16).               *)
PostTokens(m) ==
  /\ m \in network /\ m \in Request
  /\ Store(m.from)
  /\ \/ Reply(m, "2xx")
     \/ tokens' = tokens /\ Reply(m, "409")
  /\ UNCHANGED <<forwarderVars, run, advance, pushedTo>>

(* Mutant: any token of the kind will do.                                  *)
AnyToken(kind) == {k \in Keys : KindOf[k] = kind /\ tokens[k].life = "active"}

(* The newest active token of the kind; the first stored among equals.     *)
pickToken(kind) ==
  LET active == {k \in Keys : KindOf[k] = kind /\ tokens[k].life = "active"}
  IN {k \in active : \A j \in active : tokens[j].at <= tokens[k].at}

(* POST /delivery/:orderId/advance moves the order and starts its push.    *)
Advance(a) ==
  /\ advance[a] = "idle"
  /\ \E delivered \in BOOLEAN :
       LET targets == IF ~HasPushClient THEN {}
                      ELSE IF pickToken("perActivity") # {} THEN pickToken("perActivity")
                      ELSE IF delivered THEN pickToken("apnsDevice") ELSE {}
       IN IF targets = {}
          THEN advance' = [advance EXCEPT ![a] = "answered"] /\ UNCHANGED pushedTo
          ELSE /\ advance' = [advance EXCEPT ![a] = "pushing"]
               /\ \E k \in targets : pushedTo' = [pushedTo EXCEPT ![a] = k]
  /\ UNCHANGED <<forwarderVars, network, tokens, run>>

(* The push resolves or throws: the call is answered 200 or 500.           *)
PushSettles(a) ==
  /\ advance[a] = "pushing"
  /\ advance' = [advance EXCEPT ![a] = "answered"]
  /\ UNCHANGED <<forwarderVars, network, tokens, run, pushedTo>>

(* shutdown(), or a crash: both Maps are gone, and the calls unanswered.   *)
Restart ==
  /\ run < MaxRestarts
  /\ run' = run + 1
  /\ tokens' = [k \in Keys |-> NoToken]
  /\ advance' = [a \in Advances |-> IF advance[a] = "pushing" THEN "lost" ELSE advance[a]]
  /\ UNCHANGED <<forwarderVars, network, pushedTo>>

Timers == \E e \in Emissions : Fail(e) \/ Wake(e)

Next ==
  \/ \E e \in Emissions : Forward(e)
  \/ Timers
  \/ Abort \/ AppKilled
  \/ \E m \in network : Receive(m)
  \/ \E m \in network : Refuse(m)
  \/ \E m \in network : PostTokens(m)
  \/ \E a \in Advances : Advance(a)
  \/ \E a \in Advances : PushSettles(a)
  \/ Restart

Spec == Init /\ [][Next]_vars

(* The forwarder's own timers fire: the attempt's (timeoutMs) and the      *)
(* backoff's. Nothing is assumed of the network or of the backend.         *)
FairSpec == Spec /\ \A e \in Emissions : WF_vars(Fail(e)) /\ WF_vars(Wake(e))

-----------------------------------------------------------------------------
(* Properties.                                                             *)

(* Every variable has its type.                                            *)
TypeOK ==
  /\ pc \in [Emissions -> {"idle", "posting", "sleeping"} \cup Settled]
  /\ tries \in [Emissions -> 0..total]
  /\ aborted \in BOOLEAN
  /\ network \subseteq Request \cup Answer
  /\ ackRun \in [Emissions -> -1..MaxRestarts]
  /\ tokens \in [Keys -> Stored]
  /\ run \in 0..MaxRestarts
  /\ advance \in [Advances -> {"idle", "pushing", "answered", "lost"}]
  /\ pushedTo \in [Advances -> Keys \cup {NoKey}]

(* The emissions whose acknowledgement came from the backend's present run. *)
Acked == {e \in Emissions : pc[e] \in {"ok", "skipped"} /\ ackRun[e] = run}

(* A record reported as delivered is in the backend, or a later one of its *)
(* key is, whatever was lost, repeated or overtaken on the way, until the  *)
(* backend restarts (forwarder.ts:9-16, server.mjs:204-215).               *)
AckedIsStored ==
  /\ \A e \in Emissions : pc[e] \in {"ok", "skipped"} => ackRun[e] # -1
  /\ \A e \in Acked : AtOf(e) <= tokens[KeyOf(e)].at

(* A push goes to a token at least as new as every active token of a       *)
(* perActivity kind whose delivery was reported, if no dead record of that *)
(* key is about (pickToken).                                               *)
PushUsesNewestAcked ==
  [][\A a \in Advances : \A e \in Acked :
       (/\ HasPushClient /\ advance[a] = "idle" /\ advance'[a] # "idle"
        /\ KindOf[KeyOf(e)] = "perActivity"
        /\ \A f \in Emissions : (KeyOf(f) = KeyOf(e) /\ pc[f] # "idle") => RecordOf[f].life = "active") =>
         pushedTo'[a] # NoKey /\ AtOf(e) <= tokens[pushedTo'[a]].at]_vars

(* Every forward() settles, whatever the network does.                     *)
ForwardsSettle == \A e \in Emissions : pc[e] \in {"posting", "sleeping"} ~> pc[e] \in Settled

=============================================================================
