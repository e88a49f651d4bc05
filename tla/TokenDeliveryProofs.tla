-------------------------- MODULE TokenDeliveryProofs --------------------------
(***************************************************************************)
(* Theorems about TokenDelivery, for every set of records, of keys and of  *)
(* advance calls, every number of retries and every bound.                 *)
(***************************************************************************)
EXTENDS TokenDelivery, FiniteSetTheorems, WellFoundedInduction, TLAPS

-----------------------------------------------------------------------------
(* The inductive invariant.                                                *)

Requests == network \cap Request
Answers == network \cap Answer
Acks == {"2xx", "409"}

(* The backend holds the record of e, or a later one of its key.           *)
Delivered(e) == AtOf(e) <= tokens[KeyOf(e)].at

(* A call that sleeps has an attempt left, and an idle one made none.      *)
TriesLeft ==
  \A e \in Emissions : /\ pc[e] = "idle" => tries[e] = 0
                       /\ pc[e] = "sleeping" => tries[e] < total

(* A request was sent by an attempt made.                                  *)
RequestsWereSent == \A r \in Requests : pc[r.from] # "idle" /\ r.try <= tries[r.from]

(* An answer under way is for the attempt that waits for it, and what an   *)
(* acknowledgement of the present run says is true.                        *)
AnswersAreAwaited ==
  \A m \in Answers : /\ pc[m.from] = "posting" /\ tries[m.from] = m.try /\ m.run <= run
                     /\ (m.status \in Acks /\ m.run = run) => Delivered(m.from)

(* An attempt is answered at most once, and not while its request is under *)
(* way.                                                                    *)
OneAnswer ==
  \A m \in Answers : /\ \A n \in Answers : n.from = m.from => n = m
                     /\ \A r \in Requests : r.from = m.from => r.try # m.try

(* An acknowledgement says what a run of the backend knew.                 *)
AcksAreTrue ==
  \A e \in Emissions :
    /\ ackRun[e] <= run
    /\ pc[e] \in {"ok", "skipped"} => ackRun[e] # -1 /\ (ackRun[e] = run => Delivered(e))

DeliveryInv ==
  /\ TypeOK /\ TriesLeft /\ RequestsWereSent
  /\ AnswersAreAwaited /\ OneAnswer /\ AcksAreTrue

(* A token of the backend is that of a record handed to forward().         *)
TokensAreForwarded ==
  \A k \in Keys : tokens[k] # NoToken =>
    \E f \in Emissions : /\ KeyOf(f) = k /\ pc[f] # "idle"
                         /\ tokens[k] = [at |-> AtOf(f), life |-> RecordOf[f].life]

-----------------------------------------------------------------------------
(* Constants and messages.                                                 *)

LEMMA ConstantFacts ==
  /\ total \in Nat \ {0} /\ MaxRestarts \in Nat
  /\ \A e \in Emissions : KeyOf(e) \in Keys /\ AtOf(e) \in Nat \ {0} /\ RecordOf[e].life \in Lifecycles
BY DeliveryAssumption DEF total, Records, KeyOf, AtOf

(* A request is not an answer.                                             *)
LEMMA MessageFacts ==
  /\ Request \cap Answer = {}
  /\ \A e \in Emissions, t \in 1..total : [from |-> e, try |-> t] \in Request
  /\ \A e \in Emissions, t \in 1..total, s \in Statuses, r \in 0..MaxRestarts :
       [from |-> e, try |-> t, status |-> s, run |-> r] \in Answer
  /\ \A r \in Request : r.from \in Emissions /\ r.try \in 1..total
  /\ \A m \in Answer : m.from \in Emissions /\ m.try \in 1..total /\ m.status \in Statuses /\ m.run \in 0..MaxRestarts
<1>1. ASSUME NEW m \in Request, m \in Answer PROVE FALSE
  <2>1. DOMAIN m = {"from", "try"}
    BY <1>1 DEF Request
  <2>2. DOMAIN m = {"from", "try", "status", "run"}
    BY <1>1 DEF Answer
  <2> QED
    BY <2>1, <2>2
<1>2. Request \cap Answer = {}
  BY <1>1
<1>3. /\ \A e \in Emissions, t \in 1..total : [from |-> e, try |-> t] \in Request
      /\ \A r \in Request : r.from \in Emissions /\ r.try \in 1..total
  BY DEF Request
<1>4. /\ \A e \in Emissions, t \in 1..total, s \in Statuses, r \in 0..MaxRestarts :
           [from |-> e, try |-> t, status |-> s, run |-> r] \in Answer
      /\ \A m \in Answer : m.from \in Emissions /\ m.try \in 1..total /\ m.status \in Statuses /\ m.run \in 0..MaxRestarts
  BY DEF Answer
<1> QED
  BY <1>2, <1>3, <1>4

(* What an entry of the backend's Map may be.                              *)
LEMMA StoredFacts ==
  /\ NoToken \in Stored
  /\ \A t \in Stored : t.at \in Nat
  /\ \A n \in Nat \ {0}, l \in Lifecycles : [at |-> n, life |-> l] \in Stored
BY DEF NoToken, Stored

-----------------------------------------------------------------------------
(* The steps, by what they do to a call or to the network.                 *)

(* forward() begins an attempt: its request leaves, or its fetch is about  *)
(* to be aborted.                                                          *)
LEMMA AttemptPreserves ==
  ASSUME DeliveryInv, NEW e \in Emissions, pc[e] \in {"idle", "sleeping"}, Attempt(e),
         UNCHANGED <<aborted, ackRun, backendVars>>
  PROVE  DeliveryInv'
<1> USE ConstantFacts, MessageFacts DEF DeliveryInv, TypeOK
<1>1. /\ pc' = [pc EXCEPT ![e] = "posting"] /\ tries' = [tries EXCEPT ![e] = tries[e] + 1]
      /\ tries[e] \in 0..total /\ tries[e] < total
      /\ UNCHANGED <<aborted, ackRun, tokens, run, advance, pushedTo>>
  BY DEF Attempt, Settle, TriesLeft, backendVars
<1> DEFINE request == [from |-> e, try |-> tries[e] + 1]
<1>2. /\ request \in Request /\ request \notin Answer /\ request.from = e /\ request.try = tries[e] + 1
      /\ network' \subseteq network \cup {request} /\ network \subseteq network'
  BY <1>1 DEF Attempt
<1> HIDE DEF request
<1>3. Answers' = Answers /\ Requests' \subseteq Requests \cup {request}
  BY <1>2 DEF Answers, Requests
<1>4. TypeOK'
  BY <1>1, <1>2
<1>5. TriesLeft'
  BY <1>1 DEF TriesLeft
<1>6. RequestsWereSent'
  <2>1. ASSUME NEW r \in Requests' PROVE pc'[r.from] # "idle" /\ r.try <= tries'[r.from]
    <3>1. CASE r = request
      BY <3>1, <1>1, <1>2
    <3>2. CASE r \in Requests
      <4>1. r.from \in Emissions /\ r.try \in 1..total /\ pc[r.from] # "idle" /\ r.try <= tries[r.from]
        BY <3>2 DEF RequestsWereSent, Requests
      <4> QED
        BY <4>1, <1>1
    <3> QED
      BY <3>1, <3>2, <1>3
  <2> QED
    BY <2>1 DEF RequestsWereSent
<1>7. \A m \in Answers : m.from # e
  BY DEF AnswersAreAwaited
<1>8. AnswersAreAwaited'
  <2>1. ASSUME NEW m \in Answers'
        PROVE  /\ pc'[m.from] = "posting" /\ tries'[m.from] = m.try /\ m.run <= run'
               /\ (m.status \in Acks /\ m.run = run') => Delivered(m.from)'
    <3>1. m \in Answers /\ m.from \in Emissions /\ m.from # e
      BY <1>3, <1>7 DEF Answers
    <3> QED
      BY <3>1, <1>1 DEF AnswersAreAwaited, Delivered
  <2> QED
    BY <2>1 DEF AnswersAreAwaited
<1>9. OneAnswer'
  BY <1>2, <1>3, <1>7 DEF OneAnswer
<1>10. AcksAreTrue'
  BY <1>1 DEF AcksAreTrue, Delivered
<1> QED
  BY <1>4, <1>5, <1>6, <1>8, <1>9, <1>10

(* A call leaves the attempt it waited for; no answer for it stays.        *)
LEMMA SettlePreserves ==
  ASSUME DeliveryInv, NEW e \in Emissions, NEW result \in Settled \cup {"sleeping"}, NEW v \in -1..MaxRestarts,
         pc[e] = "posting", Settle(e, result),
         result = "sleeping" => tries[e] < total,
         network' = {m \in network : m \in Answer => m.from # e},
         ackRun' = [ackRun EXCEPT ![e] = v], v <= run,
         result \in {"ok", "skipped"} => v # -1 /\ (v = run => Delivered(e)),
         UNCHANGED <<tries, aborted, backendVars>>
  PROVE  DeliveryInv'
<1> USE ConstantFacts, MessageFacts DEF DeliveryInv, TypeOK
<1>1. /\ pc' = [pc EXCEPT ![e] = result] /\ result # "idle" /\ result # "posting"
      /\ UNCHANGED <<tries, aborted, tokens, run, advance, pushedTo>>
  BY DEF Settle, Settled, backendVars
<1>2. /\ network' \subseteq network /\ Requests' = Requests
      /\ Answers' = {m \in Answers : m.from # e}
  BY DEF Requests, Answers
<1>3. TypeOK'
  BY <1>1, <1>2
<1>4. TriesLeft'
  BY <1>1 DEF TriesLeft
<1>5. RequestsWereSent'
  BY <1>1, <1>2 DEF RequestsWereSent, Requests
<1>6. AnswersAreAwaited'
  <2>1. ASSUME NEW m \in Answers'
        PROVE  /\ pc'[m.from] = "posting" /\ tries'[m.from] = m.try /\ m.run <= run'
               /\ (m.status \in Acks /\ m.run = run') => Delivered(m.from)'
    <3>1. m \in Answers /\ m.from \in Emissions /\ m.from # e
      BY <1>2 DEF Answers
    <3> QED
      BY <3>1, <1>1 DEF AnswersAreAwaited, Delivered
  <2> QED
    BY <2>1 DEF AnswersAreAwaited
<1>7. OneAnswer'
  BY <1>2 DEF OneAnswer
<1>8. AcksAreTrue'
  BY <1>1 DEF AcksAreTrue, Delivered
<1> QED
  BY <1>3, <1>4, <1>5, <1>6, <1>7, <1>8

(* A request is answered, whether or not its record was stored. What is    *)
(* stored only gets newer, and an acknowledgement says so.                 *)
LEMMA ReplyPreserves ==
  ASSUME DeliveryInv, NEW m \in Requests, NEW status \in Statuses, Reply(m, status),
         tokens' \in [Keys -> Stored], \A k \in Keys : tokens[k].at <= tokens'[k].at,
         status \in Acks => Delivered(m.from)',
         UNCHANGED <<forwarderVars, run, advance, pushedTo>>
  PROVE  DeliveryInv'
<1> USE ConstantFacts, MessageFacts, StoredFacts DEF DeliveryInv, TypeOK
<1>1. UNCHANGED <<pc, tries, aborted, ackRun, run, advance, pushedTo>>
  BY DEF forwarderVars
<1> DEFINE answer == [from |-> m.from, try |-> m.try, status |-> status, run |-> run]
           waits == pc[m.from] = "posting" /\ tries[m.from] = m.try
<1>2. /\ m \in Request /\ m \in network /\ m.from \in Emissions /\ m.try \in 1..total
      /\ answer \in Answer /\ answer \notin Request
      /\ answer.from = m.from /\ answer.try = m.try /\ answer.status = status /\ answer.run = run
  BY DEF Requests
<1>3. network' = (network \ {m}) \cup (IF waits THEN {answer} ELSE {})
  BY DEF Reply
<1> HIDE DEF answer, waits
<1>4. Requests' = Requests \ {m} /\ Answers' = Answers \cup (IF waits THEN {answer} ELSE {})
  BY <1>2, <1>3 DEF Requests, Answers
<1>5. \A e \in Emissions : Delivered(e) => Delivered(e)'
  <2> SUFFICES ASSUME NEW e \in Emissions, Delivered(e) PROVE Delivered(e)'
    OBVIOUS
  <2>1. KeyOf(e) \in Keys /\ tokens[KeyOf(e)].at \in Nat /\ tokens'[KeyOf(e)].at \in Nat /\ AtOf(e) \in Nat
    OBVIOUS
  <2>2. tokens[KeyOf(e)].at <= tokens'[KeyOf(e)].at
    BY <2>1
  <2> QED
    BY <2>1, <2>2 DEF Delivered
<1>6. TypeOK'
  BY <1>1, <1>2, <1>3
<1>7. TriesLeft' /\ RequestsWereSent'
  BY <1>1, <1>4 DEF TriesLeft, RequestsWereSent
<1>8. AnswersAreAwaited'
  <2>1. ASSUME NEW n \in Answers'
        PROVE  /\ pc'[n.from] = "posting" /\ tries'[n.from] = n.try /\ n.run <= run'
               /\ (n.status \in Acks /\ n.run = run') => Delivered(n.from)'
    <3>1. CASE n \in Answers
      <4>1. n.from \in Emissions
        BY <3>1 DEF Answers
      <4> QED
        BY <3>1, <4>1, <1>1, <1>5 DEF AnswersAreAwaited
    <3>2. CASE waits /\ n = answer
      BY <3>2, <1>1, <1>2 DEF waits
    <3> QED
      BY <3>1, <3>2, <1>4
  <2> QED
    BY <2>1 DEF AnswersAreAwaited
<1>9. OneAnswer'
  <2>1. \A n \in Answers : n.from = m.from => ~waits
    BY DEF OneAnswer, AnswersAreAwaited, waits
  <2>2. \A r \in Requests' : r.from = m.from => r.try # m.try
    <3>1. ASSUME NEW r \in Requests, r.from = m.from, r.try = m.try PROVE r = m
      BY <3>1 DEF Requests, Request
    <3> QED
      BY <3>1, <1>4
  <2> QED
    BY <1>2, <1>4, <2>1, <2>2 DEF OneAnswer
<1>10. AcksAreTrue'
  BY <1>1, <1>5 DEF AcksAreTrue
<1> QED
  BY <1>6, <1>7, <1>8, <1>9, <1>10

(* A newer record overwrites, an older one does not, and either way the    *)
(* backend then holds the record or a later one (server.mjs:204-215).      *)
LEMMA StoreFacts ==
  ASSUME TypeOK, NEW e \in Emissions, Store(e)
  PROVE  /\ tokens' \in [Keys -> Stored]
         /\ \A k \in Keys : tokens[k].at <= tokens'[k].at
         /\ Delivered(e)'
<1> DEFINE new == [at |-> AtOf(e), life |-> RecordOf[e].life]
<1>1. KeyOf(e) \in Keys /\ AtOf(e) \in Nat /\ new \in Stored /\ new.at = AtOf(e)
  BY ConstantFacts, StoredFacts
<1>2. \A k \in Keys : tokens[k] \in Stored /\ tokens[k].at \in Nat
  BY StoredFacts DEF TypeOK
<1> HIDE DEF new
<1>3. CASE AtOf(e) <= tokens[KeyOf(e)].at
  BY <1>1, <1>2, <1>3 DEF Store, TypeOK, Delivered
<1>4. CASE ~(AtOf(e) <= tokens[KeyOf(e)].at)
  <2>1. tokens' = [tokens EXCEPT ![KeyOf(e)] = new]
    BY <1>4 DEF Store, new
  <2>2. tokens'[KeyOf(e)] = new /\ tokens[KeyOf(e)].at <= new.at
    BY <2>1, <1>1, <1>2, <1>4 DEF TypeOK
  <2>3. \A k \in Keys : tokens[k].at <= tokens'[k].at
    BY <2>1, <2>2, <1>2 DEF TypeOK
  <2> QED
    BY <2>1, <2>2, <2>3, <1>1 DEF TypeOK, Delivered
<1> QED
  BY <1>3, <1>4

-----------------------------------------------------------------------------
(* What holds in every state.                                              *)

LEMMA DeliveryInit == Init => DeliveryInv
<1> SUFFICES ASSUME Init PROVE DeliveryInv
  OBVIOUS
<1> USE ConstantFacts, StoredFacts DEF Init
<1>1. TypeOK
  <2>1. 0 \in 0..total /\ -1 \in -1..MaxRestarts /\ 0 \in 0..MaxRestarts
    OBVIOUS
  <2> QED
    BY <2>1 DEF TypeOK
<1>2. TriesLeft /\ AcksAreTrue
  BY DEF TriesLeft, AcksAreTrue
<1>3. RequestsWereSent /\ AnswersAreAwaited /\ OneAnswer
  BY DEF RequestsWereSent, AnswersAreAwaited, OneAnswer, Requests, Answers
<1> QED
  BY <1>1, <1>2, <1>3 DEF DeliveryInv

(* The last attempt ends a call; only with one left does it sleep.         *)
LEMMA RetryFacts ==
  ASSUME TypeOK, NEW e \in Emissions, Retry(e)
  PROVE  \E result \in {"exhausted", "aborted", "sleeping"} :
           Settle(e, result) /\ (result = "sleeping" => tries[e] < total)
<1>1. tries[e] \in 0..total /\ total \in Nat
  BY ConstantFacts DEF TypeOK
<1> QED
  BY <1>1 DEF Retry

LEMMA DeliveryNext == DeliveryInv /\ [Next]_vars => DeliveryInv'
<1> SUFFICES ASSUME DeliveryInv, [Next]_vars PROVE DeliveryInv'
  OBVIOUS
<1>0. TypeOK
  BY DEF DeliveryInv
<1>1. ASSUME NEW e \in Emissions, Forward(e) PROVE DeliveryInv'
  <2>1. CASE e \notin Invalid
    BY <2>1, <1>1, AttemptPreserves DEF Forward
  <2>2. CASE e \in Invalid
    <3>1. /\ pc' = [pc EXCEPT ![e] = "invalid"] /\ pc[e] = "idle"
          /\ UNCHANGED <<tries, aborted, ackRun, network, tokens, run, advance, pushedTo>>
      BY <2>2, <1>1 DEF Forward, Settle, backendVars
    <3>2. TypeOK' /\ TriesLeft'
      BY <3>1 DEF DeliveryInv, TypeOK, TriesLeft, Settled
    <3>3. Requests' = Requests /\ Answers' = Answers
      BY <3>1 DEF Requests, Answers
    <3>4. RequestsWereSent'
      BY <3>1, <3>3, MessageFacts DEF DeliveryInv, TypeOK, RequestsWereSent, Requests
    <3>5. AnswersAreAwaited' /\ OneAnswer'
      BY <3>1, <3>3, MessageFacts
      DEF DeliveryInv, TypeOK, AnswersAreAwaited, OneAnswer, Answers, Delivered
    <3>6. AcksAreTrue'
      BY <3>1 DEF DeliveryInv, TypeOK, AcksAreTrue, Delivered
    <3> QED
      BY <3>2, <3>4, <3>5, <3>6 DEF DeliveryInv
  <2> QED
    BY <2>1, <2>2
<1>2. ASSUME NEW e \in Emissions, Wake(e) PROVE DeliveryInv'
  BY <1>2, AttemptPreserves DEF Wake
<1>3. ASSUME NEW e \in Emissions, Fail(e) PROVE DeliveryInv'
  <2>1. PICK result \in {"exhausted", "aborted", "sleeping"} :
          Settle(e, result) /\ (result = "sleeping" => tries[e] < total)
    BY <1>0, <1>3, RetryFacts DEF Fail
  <2>2. /\ ackRun' = [ackRun EXCEPT ![e] = ackRun[e]] /\ ackRun[e] \in -1..MaxRestarts /\ ackRun[e] <= run
        /\ UNCHANGED <<tries, aborted, backendVars>>
    BY <1>3 DEF Fail, DeliveryInv, TypeOK, AcksAreTrue
  <2> QED
    BY <1>3, <2>1, <2>2, SettlePreserves DEF Fail, Settled
<1>4. ASSUME NEW m \in network, Receive(m) PROVE DeliveryInv'
  <2>1. /\ m \in Answers /\ m.from \in Emissions /\ m.status \in Statuses /\ m.run \in 0..MaxRestarts
        /\ pc[m.from] = "posting" /\ m.run <= run
        /\ (m.status \in Acks /\ m.run = run) => Delivered(m.from)
    BY <1>4, MessageFacts DEF Receive, Answers, DeliveryInv, AnswersAreAwaited
  <2>2. network' = {n \in network : n \in Answer => n.from # m.from}
    BY <1>4, <2>1 DEF Receive, DeliveryInv, OneAnswer, Answers
  <2>3. UNCHANGED <<tries, aborted, backendVars>>
    BY <1>4 DEF Receive
  <2> DEFINE v == IF m.status \in Acks THEN m.run ELSE ackRun[m.from]
  <2>4. /\ ackRun' = [ackRun EXCEPT ![m.from] = v]
        /\ v \in -1..MaxRestarts /\ v <= run /\ (m.status \in Acks => v # -1 /\ (v = run => Delivered(m.from)))
    BY <1>4, <2>1, ConstantFacts DEF Receive, DeliveryInv, TypeOK, AcksAreTrue, Acks
  <2> HIDE DEF v
  <2>5. PICK result \in Settled \cup {"sleeping"} :
          /\ Settle(m.from, result) /\ (result = "sleeping" => tries[m.from] < total)
          /\ result \in {"ok", "skipped"} => m.status \in Acks
    <3>1. CASE m.status \in Acks
      BY <3>1, <1>4 DEF Receive, Outcome, Acks, Settled
    <3>2. CASE m.status = "4xx"
      BY <3>2, <1>4 DEF Receive, Outcome, Settled
    <3>3. CASE m.status = "5xx"
      <4>1. Retry(m.from)
        BY <3>3, <1>4 DEF Receive, Outcome
      <4> QED
        BY <4>1, <2>1, <1>0, RetryFacts DEF Settled
    <3> QED
      BY <3>1, <3>2, <3>3, <2>1 DEF Statuses, Acks
  <2> QED
    BY <2>1, <2>2, <2>3, <2>4, <2>5, SettlePreserves
<1>5. ASSUME NEW m \in network, Refuse(m) PROVE DeliveryInv'
  <2>1. m \in Requests /\ UNCHANGED <<forwarderVars, run, advance, pushedTo, tokens>>
    BY <1>5 DEF Refuse, Requests, backendVars
  <2>2. PICK status \in {"4xx", "5xx"} : Reply(m, status)
    BY <1>5 DEF Refuse
  <2>3. status \in Statuses /\ status \notin Acks
    BY DEF Statuses, Acks
  <2>4. tokens' \in [Keys -> Stored] /\ \A k \in Keys : tokens[k].at <= tokens'[k].at
    BY <1>0, <2>1, StoredFacts DEF TypeOK
  <2> QED
    BY <2>1, <2>2, <2>3, <2>4, ReplyPreserves
<1>6. ASSUME NEW m \in network, PostTokens(m) PROVE DeliveryInv'
  <2>1. m \in Requests /\ m.from \in Emissions /\ Store(m.from) /\ UNCHANGED <<forwarderVars, run, advance, pushedTo>>
    BY <1>6, MessageFacts DEF PostTokens, Requests
  <2>2. PICK status \in Acks : Reply(m, status)
    BY <1>6 DEF PostTokens, Acks
  <2>3. status \in Statuses
    BY DEF Statuses, Acks
  <2> QED
    BY <1>0, <2>1, <2>2, <2>3, StoreFacts, ReplyPreserves
<1>7. ASSUME Abort PROVE DeliveryInv'
  <2>1. /\ pc' = [e \in Emissions |-> IF pc[e] = "sleeping" THEN "aborted" ELSE pc[e]] /\ aborted' = TRUE
        /\ UNCHANGED <<tries, ackRun, network, tokens, run, advance, pushedTo>>
        /\ Requests' = Requests /\ Answers' = Answers
    BY <1>7 DEF Abort, backendVars, Requests, Answers
  <2>2. TypeOK' /\ TriesLeft'
    BY <2>1 DEF DeliveryInv, TypeOK, TriesLeft, Settled
  <2>3. RequestsWereSent'
    BY <2>1, MessageFacts DEF DeliveryInv, TypeOK, RequestsWereSent, Requests
  <2>4. AnswersAreAwaited' /\ OneAnswer'
    BY <2>1, MessageFacts DEF DeliveryInv, TypeOK, AnswersAreAwaited, OneAnswer, Answers, Delivered
  <2>5. AcksAreTrue'
    BY <2>1 DEF DeliveryInv, TypeOK, AcksAreTrue, Delivered
  <2> QED
    BY <2>2, <2>3, <2>4, <2>5 DEF DeliveryInv
<1>8. ASSUME AppKilled PROVE DeliveryInv'
  <2>1. /\ pc' = [e \in Emissions |-> IF pc[e] \in Settled THEN pc[e] ELSE "gone"]
        /\ network' = network \cap Request /\ UNCHANGED <<tries, aborted, ackRun, tokens, run, advance, pushedTo>>
    BY <1>8 DEF AppKilled, backendVars
  <2>2. Requests' = Requests /\ Answers' = {}
    BY <2>1, MessageFacts DEF Requests, Answers
  <2>3. TypeOK' /\ TriesLeft'
    BY <2>1 DEF DeliveryInv, TypeOK, TriesLeft, Settled
  <2>4. RequestsWereSent'
    BY <2>1, <2>2, MessageFacts DEF DeliveryInv, TypeOK, RequestsWereSent, Requests, Settled
  <2>5. AnswersAreAwaited' /\ OneAnswer'
    BY <2>2 DEF AnswersAreAwaited, OneAnswer
  <2>6. AcksAreTrue'
    BY <2>1 DEF DeliveryInv, TypeOK, AcksAreTrue, Delivered, Settled
  <2> QED
    BY <2>3, <2>4, <2>5, <2>6 DEF DeliveryInv
<1>9. ASSUME UNCHANGED <<forwarderVars, network, tokens, run>>, TypeOK' PROVE DeliveryInv'
  <2>1. UNCHANGED <<pc, tries, aborted, ackRun, network, tokens, run>> /\ Requests' = Requests /\ Answers' = Answers
    BY <1>9 DEF forwarderVars, Requests, Answers
  <2> QED
    BY <1>9, <2>1 DEF DeliveryInv, TriesLeft, RequestsWereSent, AnswersAreAwaited, OneAnswer, AcksAreTrue, Delivered
<1>10. ASSUME NEW a \in Advances, Advance(a) PROVE DeliveryInv'
  <2>1. /\ UNCHANGED <<forwarderVars, network, tokens, run>>
        /\ advance' \in [Advances -> {"idle", "pushing", "answered", "lost"}]
        /\ pushedTo' \in [Advances -> Keys \cup {NoKey}]
    BY <1>0, <1>10 DEF Advance, TypeOK, pickToken
  <2> QED
    BY <1>0, <1>9, <2>1 DEF TypeOK, forwarderVars
<1>11. ASSUME NEW a \in Advances, PushSettles(a) PROVE DeliveryInv'
  <2>1. /\ UNCHANGED <<forwarderVars, network, tokens, run, pushedTo>>
        /\ advance' \in [Advances -> {"idle", "pushing", "answered", "lost"}]
    BY <1>0, <1>11 DEF PushSettles, TypeOK
  <2> QED
    BY <1>0, <1>9, <2>1 DEF TypeOK, forwarderVars
<1>12. ASSUME Restart PROVE DeliveryInv'
  <2>1. /\ run' = run + 1 /\ run < MaxRestarts /\ tokens' = [k \in Keys |-> NoToken]
        /\ advance' = [a \in Advances |-> IF advance[a] = "pushing" THEN "lost" ELSE advance[a]]
        /\ UNCHANGED <<pc, tries, aborted, ackRun, network, pushedTo>>
        /\ Requests' = Requests /\ Answers' = Answers
    BY <1>12 DEF Restart, forwarderVars, Requests, Answers
  <2>2. TypeOK'
    BY <2>1, ConstantFacts, StoredFacts DEF DeliveryInv, TypeOK
  <2>3. TriesLeft' /\ RequestsWereSent' /\ OneAnswer'
    BY <2>1 DEF DeliveryInv, TriesLeft, RequestsWereSent, OneAnswer
  <2>4. AnswersAreAwaited'
    BY <2>1, MessageFacts DEF DeliveryInv, TypeOK, AnswersAreAwaited, Answers
  <2>5. AcksAreTrue'
    BY <2>1 DEF DeliveryInv, TypeOK, AcksAreTrue
  <2> QED
    BY <2>2, <2>3, <2>4, <2>5 DEF DeliveryInv
<1>13. CASE UNCHANGED vars
  BY <1>0, <1>9, <1>13 DEF vars, TypeOK, forwarderVars, backendVars
<1> QED
  BY <1>1, <1>2, <1>3, <1>4, <1>5, <1>6, <1>7, <1>8, <1>10, <1>11, <1>12, <1>13 DEF Next, Timers

THEOREM DeliveryInvariant == Spec => []DeliveryInv
BY DeliveryInit, DeliveryNext, PTL DEF Spec

(* Every variable keeps its type: no call makes more than total attempts,  *)
(* whatever interleaves (forwarder.ts, attempt and the retry loop).        *)
THEOREM TypeCorrect == Spec => []TypeOK
<1>1. DeliveryInv => TypeOK
  BY DEF DeliveryInv
<1> QED
  BY <1>1, DeliveryInvariant, PTL

(* What forward() reported as delivered is at the backend until it         *)
(* restarts (forwarder.ts:9-16, server.mjs:204-215).                       *)
THEOREM ReportedIsStored == Spec => []AckedIsStored
<1>1. DeliveryInv => AckedIsStored
  BY DEF DeliveryInv, AcksAreTrue, AckedIsStored, Acked, Delivered
<1> QED
  BY <1>1, DeliveryInvariant, PTL

-----------------------------------------------------------------------------
(* The token a push goes to.                                               *)

(* Among finitely many keys with a time there is a latest: a set without   *)
(* one has a smallest subset without one, and taking any of its elements   *)
(* away leaves a smaller one.                                              *)
LEMMA LatestExists ==
  ASSUME NEW S, IsFiniteSet(S), S # {}, NEW time \in [S -> Nat]
  PROVE  \E x \in S : \A y \in S : time[y] <= time[x]
<1> DEFINE Latest(T) == {x \in T : \A y \in T : time[y] <= time[x]}
           Bad == {T \in SUBSET S : T # {} /\ Latest(T) = {}}
<1>1. SUFFICES Bad = {}
  OBVIOUS
<1>2. SUFFICES ASSUME Bad # {} PROVE FALSE
  OBVIOUS
<1>3. IsWellFoundedOn(StrictSubsetOrdering(S), SUBSET S)
  BY FS_StrictSubsetOrderingWellFounded, FS_FiniteSubsetsOfFinite
<1>4. Bad \subseteq SUBSET S
  OBVIOUS
<1> HIDE DEF Bad
<1>5. PICK T \in Bad : \A U \in Bad : ~(<<U, T>> \in StrictSubsetOrdering(S))
  BY <1>2, <1>3, <1>4, WFMin
<1>6. T \subseteq S /\ Latest(T) = {} /\ T # {}
  BY DEF Bad
<1>7. PICK x \in T : TRUE
  BY <1>6
<1> DEFINE U == T \ {x}
<1>8. U \notin Bad
  <2>1. <<U, T>> \in StrictSubsetOrdering(S)
    BY <1>6, <1>7 DEF StrictSubsetOrdering
  <2> QED
    BY <2>1, <1>5
<1>9. CASE U = {}
  BY <1>6, <1>7, <1>9
<1>10. CASE Latest(U) # {}
  <2>1. PICK y \in U : \A z \in U : time[z] <= time[y]
    BY <1>10
  <2>2. time[x] \in Nat /\ time[y] \in Nat /\ \A z \in U : time[z] \in Nat
    BY <1>6, <1>7
  <2>3. CASE time[x] <= time[y]
    BY <1>6, <2>1, <2>3
  <2>4. CASE time[y] < time[x]
    <3>1. \A z \in T : time[z] <= time[x]
      BY <2>1, <2>2, <2>4
    <3> QED
      BY <1>6, <1>7, <3>1
  <2> QED
    BY <2>2, <2>3, <2>4
<1> QED
  BY <1>6, <1>8, <1>9, <1>10 DEF Bad

LEMMA ForwardedInit == Init => TokensAreForwarded
BY DEF Init, TokensAreForwarded

LEMMA ForwardedNext == DeliveryInv /\ TokensAreForwarded /\ [Next]_vars => TokensAreForwarded'
<1> SUFFICES ASSUME DeliveryInv, TokensAreForwarded, [Next]_vars PROVE TokensAreForwarded'
  OBVIOUS
<1>1. TypeOK
  BY DEF DeliveryInv
<1>2. ASSUME NEW m \in network, PostTokens(m) PROVE TokensAreForwarded'
  <2>1. /\ m.from \in Emissions /\ pc[m.from] # "idle" /\ Store(m.from) /\ pc' = pc
        /\ KeyOf(m.from) \in Keys
    BY <1>2, MessageFacts, ConstantFacts DEF PostTokens, forwarderVars, DeliveryInv, RequestsWereSent, Requests
  <2>2. ASSUME NEW k \in Keys, tokens'[k] # NoToken, tokens'[k] # tokens[k]
        PROVE  KeyOf(m.from) = k /\ tokens'[k] = [at |-> AtOf(m.from), life |-> RecordOf[m.from].life]
    BY <1>1, <2>1, <2>2 DEF Store, TypeOK
  <2> QED
    BY <2>1, <2>2 DEF TokensAreForwarded
<1>3. ASSUME tokens' = tokens, \A e \in Emissions : pc[e] # "idle" => pc'[e] # "idle"
      PROVE  TokensAreForwarded'
  BY <1>3 DEF TokensAreForwarded
<1>4. CASE Restart
  BY <1>4 DEF Restart, TokensAreForwarded
<1>5. ASSUME NEW e \in Emissions, Forward(e) \/ Wake(e) PROVE TokensAreForwarded'
  <2>1. tokens' = tokens /\ \E v \in {"invalid", "posting"} : pc' = [pc EXCEPT ![e] = v]
    BY <1>5 DEF Forward, Wake, Attempt, Settle, backendVars
  <2> QED
    BY <1>1, <1>3, <2>1 DEF TypeOK
<1>6. ASSUME NEW e \in Emissions, Fail(e) PROVE TokensAreForwarded'
  <2>1. tokens' = tokens /\ \E v \in {"aborted", "exhausted", "sleeping"} : pc' = [pc EXCEPT ![e] = v]
    BY <1>6 DEF Fail, Retry, Settle, backendVars
  <2> QED
    BY <1>1, <1>3, <2>1 DEF TypeOK
<1>7. ASSUME NEW m \in network, Receive(m) PROVE TokensAreForwarded'
  <2>1. tokens' = tokens /\ m.from \in Emissions /\ \E v \in Settled \cup {"sleeping"} : pc' = [pc EXCEPT ![m.from] = v]
    BY <1>7, MessageFacts DEF Receive, Outcome, Retry, Settle, Settled, backendVars
  <2> QED
    BY <1>1, <1>3, <2>1 DEF TypeOK, Settled
<1>8. CASE Abort \/ AppKilled
  BY <1>1, <1>3, <1>8 DEF Abort, AppKilled, TypeOK, backendVars
<1>9. ASSUME NEW m \in network, Refuse(m) PROVE TokensAreForwarded'
  BY <1>3, <1>9 DEF Refuse, forwarderVars, backendVars
<1>10. ASSUME NEW a \in Advances, Advance(a) \/ PushSettles(a) PROVE TokensAreForwarded'
  BY <1>3, <1>10 DEF Advance, PushSettles, forwarderVars
<1>11. CASE UNCHANGED vars
  BY <1>3, <1>11 DEF vars, forwarderVars, backendVars
<1> QED
  BY <1>2, <1>4, <1>5, <1>6, <1>7, <1>8, <1>9, <1>10, <1>11 DEF Next, Timers

(* A token that is at least as new as a reported record is a token, and an *)
(* active one if every record of its key that was handed over is.          *)
LEMMA AckedIsActive ==
  ASSUME DeliveryInv, TokensAreForwarded, NEW e \in Acked,
         \A f \in Emissions : (KeyOf(f) = KeyOf(e) /\ pc[f] # "idle") => RecordOf[f].life = "active"
  PROVE  Delivered(e) /\ tokens[KeyOf(e)].life = "active"
<1>1. e \in Emissions /\ Delivered(e) /\ KeyOf(e) \in Keys /\ AtOf(e) \in Nat \ {0}
  BY ConstantFacts DEF Acked, DeliveryInv, AcksAreTrue
<1>2. tokens[KeyOf(e)] # NoToken
  BY <1>1 DEF Delivered, NoToken
<1>3. PICK f \in Emissions : /\ KeyOf(f) = KeyOf(e) /\ pc[f] # "idle"
                             /\ tokens[KeyOf(e)] = [at |-> AtOf(f), life |-> RecordOf[f].life]
  BY <1>1, <1>2 DEF TokensAreForwarded
<1> QED
  BY <1>1, <1>3

(* pickToken finds a token where one is active, and none is newer.         *)
LEMMA PickTokenFacts ==
  ASSUME TypeOK, NEW kind, NEW k \in Keys, KindOf[k] = kind, tokens[k].life = "active"
  PROVE  /\ pickToken(kind) # {} /\ pickToken(kind) \subseteq Keys
         /\ \A p \in pickToken(kind) : tokens[k].at <= tokens[p].at
<1> DEFINE active == {j \in Keys : KindOf[j] = kind /\ tokens[j].life = "active"}
           time == [j \in active |-> tokens[j].at]
<1>1. IsFiniteSet(active) /\ k \in active /\ active \subseteq Keys
  BY DeliveryAssumption, FS_Subset
<1>2. time \in [active -> Nat]
  BY StoredFacts DEF TypeOK
<1>3. pickToken(kind) = {p \in active : \A j \in active : tokens[j].at <= tokens[p].at}
  BY DEF pickToken
<1> HIDE DEF active
<1>4. PICK p \in active : \A j \in active : time[j] <= time[p]
  <2> HIDE DEF time
  <2> QED
    BY <1>1, <1>2, LatestExists
<1> QED
  BY <1>1, <1>3, <1>4

LEMMA AdvancePushesNewest ==
  ASSUME DeliveryInv, TokensAreForwarded, NEW a \in Advances, Advance(a), NEW e \in Acked, HasPushClient,
         KindOf[KeyOf(e)] = "perActivity",
         \A f \in Emissions : (KeyOf(f) = KeyOf(e) /\ pc[f] # "idle") => RecordOf[f].life = "active"
  PROVE  pushedTo'[a] # NoKey /\ AtOf(e) <= tokens[pushedTo'[a]].at
<1> DEFINE picked == pickToken("perActivity")
<1>1. TypeOK /\ e \in Emissions /\ KeyOf(e) \in Keys /\ AtOf(e) \in Nat
  BY ConstantFacts DEF DeliveryInv, Acked
<1>2. AtOf(e) <= tokens[KeyOf(e)].at /\ tokens[KeyOf(e)].life = "active"
  BY AckedIsActive DEF Delivered
<1>3. picked # {} /\ picked \subseteq Keys /\ \A p \in picked : tokens[KeyOf(e)].at <= tokens[p].at
  BY <1>1, <1>2, PickTokenFacts
<1> HIDE DEF picked
<1>4. PICK p \in picked : pushedTo' = [pushedTo EXCEPT ![a] = p]
  BY <1>3 DEF Advance, picked
<1>5. pushedTo'[a] = p /\ p \in Keys
  BY <1>1, <1>3, <1>4 DEF TypeOK
<1>6. tokens[KeyOf(e)].at \in Nat /\ tokens[p].at \in Nat
  BY <1>1, <1>5, StoredFacts DEF TypeOK
<1> QED
  BY <1>1, <1>2, <1>3, <1>5, <1>6, DeliveryAssumption

(* A push goes to a token at least as new as every active one that was     *)
(* reported as delivered (server.mjs, pickToken).                          *)
THEOREM PushesGoToNewest == Spec => PushUsesNewestAcked
<1> DEFINE Newest ==
      \A a \in Advances : \A e \in Acked :
        (/\ HasPushClient /\ advance[a] = "idle" /\ advance'[a] # "idle"
         /\ KindOf[KeyOf(e)] = "perActivity"
         /\ \A f \in Emissions : (KeyOf(f) = KeyOf(e) /\ pc[f] # "idle") => RecordOf[f].life = "active") =>
          pushedTo'[a] # NoKey /\ AtOf(e) <= tokens[pushedTo'[a]].at
<1>1. DeliveryInv /\ TokensAreForwarded /\ [Next]_vars => [Newest]_vars
  <2> SUFFICES ASSUME DeliveryInv, TokensAreForwarded, Next,
                      NEW a \in Advances, NEW e \in Acked, HasPushClient,
                      advance[a] = "idle", advance'[a] # "idle", KindOf[KeyOf(e)] = "perActivity",
                      \A f \in Emissions : (KeyOf(f) = KeyOf(e) /\ pc[f] # "idle") => RecordOf[f].life = "active"
               PROVE  pushedTo'[a] # NoKey /\ AtOf(e) <= tokens[pushedTo'[a]].at
    OBVIOUS
  <2>1. Advance(a)
    <3>1. advance \in [Advances -> {"idle", "pushing", "answered", "lost"}]
      BY DEF DeliveryInv, TypeOK
    <3>2. ASSUME NEW b \in Advances, Advance(b) PROVE b = a
      <4>1. \E v \in {"answered", "pushing"} : advance' = [advance EXCEPT ![b] = v]
        BY <3>2 DEF Advance
      <4> QED
        BY <3>1, <4>1
    <3>3. ASSUME NEW b \in Advances, PushSettles(b) PROVE FALSE
      BY <3>1, <3>3 DEF PushSettles
    <3>4. ~Restart
      BY <3>1 DEF Restart
    <3>5. advance' # advance
      OBVIOUS
    <3> QED
      BY <3>2, <3>3, <3>4, <3>5
      DEF Next, Timers, Forward, Fail, Wake, Abort, AppKilled, Receive, Refuse, PostTokens, backendVars
  <2> QED
    BY <2>1, AdvancePushesNewest
<1>2. Spec => []TokensAreForwarded
  BY DeliveryInvariant, ForwardedInit, ForwardedNext, PTL DEF Spec
<1> QED
  BY <1>1, <1>2, DeliveryInvariant, PTL DEF Spec, PushUsesNewestAcked

=============================================================================
