-------------------------- MODULE Http2ClientProofs --------------------------
(***************************************************************************)
(* Proofs about Http2Client for every set of requests, every cap and every *)
(* bound.  The argument has two layers.  SlotEffect classifies what a step *)
(* of the client may do to slots and queue into seven effects; lemma       *)
(* StepHasSlotEffect proves it action by action.  The invariants and the   *)
(* refinement of SlotPool then follow from the effects alone.              *)
(***************************************************************************)
EXTENDS Http2Client, TLAPS, FiniteSetTheorems, SequenceTheorems

Queued == {r \in Requests : pc[r] = "queued"}

OwnCap == effectiveStreamCap(userMaxConcurrentStreams, Infinity)

KeepsSlots ==
  /\ SlotHolders' = SlotHolders
  /\ Queued' = Queued
  /\ UNCHANGED slotVars

Admits(r) ==
  /\ r \notin SlotHolders \cup Queued
  /\ inFlight < EffectiveCap
  /\ inFlight' = inFlight + 1
  /\ SlotHolders' = SlotHolders \cup {r}
  /\ Queued' = Queued
  /\ waiters' = waiters

Enqueues(r) ==
  /\ r \notin SlotHolders \cup Queued
  /\ inFlight >= EffectiveCap
  /\ inFlight' = inFlight
  /\ SlotHolders' = SlotHolders
  /\ Queued' = Queued \cup {r}
  /\ waiters' = Append(waiters, r)

HandsOff(r) ==
  /\ r \in SlotHolders
  /\ waiters # <<>>
  /\ inFlight' = inFlight
  /\ SlotHolders' = (SlotHolders \ {r}) \cup {Head(waiters)}
  /\ Queued' = Queued \ {Head(waiters)}
  /\ waiters' = Tail(waiters)

Releases(r) ==
  /\ r \in SlotHolders
  /\ waiters = <<>>
  /\ inFlight' = inFlight - 1
  /\ SlotHolders' = SlotHolders \ {r}
  /\ Queued' = Queued
  /\ waiters' = waiters

Leaves(i) ==
  /\ inFlight' = inFlight
  /\ SlotHolders' = SlotHolders
  /\ Queued' = Queued \ {waiters[i]}
  /\ waiters' = RemoveAt(waiters, i)

Drains ==
  /\ inFlight' = inFlight
  /\ SlotHolders' = SlotHolders
  /\ Queued' = {}
  /\ waiters' = <<>>

SlotEffect ==
  \/ KeepsSlots
  \/ \E r \in Requests : Admits(r) \/ Enqueues(r) \/ HandsOff(r) \/ Releases(r)
  \/ \E i \in 1..Len(waiters) : Leaves(i)
  \/ Drains

-----------------------------------------------------------------------------
(* The two operators that move slots have the effects their names say.     *)

LEMMA AcquireEffect ==
  ASSUME TypeOK, NEW r \in Requests, pc[r] = "unsent", AcquireSlot(r)
  PROVE  Admits(r) \/ Enqueues(r)
<1>1. CASE inFlight < EffectiveCap /\ inFlight' = inFlight + 1
            /\ pc' = [pc EXCEPT ![r] = "granted"] /\ UNCHANGED waiters
  BY <1>1 DEF TypeOK, Admits, SlotHolders, Queued, SlotStates
<1>2. CASE inFlight >= EffectiveCap /\ waiters' = Append(waiters, r)
            /\ pc' = [pc EXCEPT ![r] = "queued"] /\ UNCHANGED inFlight
  BY <1>2 DEF TypeOK, Enqueues, SlotHolders, Queued, SlotStates
<1>3. QED BY <1>1, <1>2 DEF AcquireSlot

LEMMA ReleaseEffect ==
  ASSUME TypeOK, QueueExact, NEW r \in Requests, pc[r] \in SlotStates,
         ReleaseSlot([pc EXCEPT ![r] = "done"])
  PROVE  HandsOff(r) \/ Releases(r)
<1>1. CASE waiters # <<>> /\ pc' = [[pc EXCEPT ![r] = "done"] EXCEPT ![Head(waiters)] = "granted"]
            /\ waiters' = Tail(waiters) /\ UNCHANGED inFlight
  <2>1. 1 \in 1..Len(waiters) /\ Head(waiters) = waiters[1] /\ waiters[1] \in Requests
    BY <1>1 DEF TypeOK
  <2>2. Head(waiters) \in Requests /\ pc[Head(waiters)] = "queued"
    BY <2>1 DEF QueueExact
  <2>3. Head(waiters) # r
    BY <2>2 DEF SlotStates
  <2>4. QED BY <1>1, <2>2, <2>3 DEF TypeOK, HandsOff, SlotHolders, Queued, SlotStates
<1>2. CASE waiters = <<>> /\ inFlight' = inFlight - 1
            /\ pc' = [pc EXCEPT ![r] = "done"] /\ UNCHANGED waiters
  BY <1>2 DEF TypeOK, Releases, SlotHolders, Queued, SlotStates
<1>3. QED BY <1>1, <1>2 DEF ReleaseSlot

(* A request that moves within the slot-owning awaits keeps its slot.      *)
LEMMA MoveEffect ==
  ASSUME TypeOK, NEW r \in Requests, pc[r] \in SlotStates, NEW to \in SlotStates,
         pc' = [pc EXCEPT ![r] = to], UNCHANGED slotVars
  PROVE  KeepsSlots
BY DEF TypeOK, KeepsSlots, SlotHolders, Queued, SlotStates

LEMMA EnsureMoves ==
  ASSUME NEW r \in Requests, NEW awaiting \in SlotStates, NEW ready \in SlotStates,
         EnsureSession(r, awaiting, ready)
  PROVE  \E to \in SlotStates : pc' = [pc EXCEPT ![r] = to]
BY DEF EnsureSession

LEMMA ExecuteMoves ==
  ASSUME NEW r \in Requests, ExecuteRequest(r)
  PROVE  \E to \in SlotStates : pc' = [pc EXCEPT ![r] = to]
BY DEF ExecuteRequest, Settle, SlotStates

LEMMA SamePcKeepsSlots ==
  ASSUME UNCHANGED <<pc, inFlight, waiters>>
  PROVE  KeepsSlots
BY DEF KeepsSlots, SlotHolders, Queued, slotVars

(* Every step of the client has one of the seven effects.                  *)
LEMMA StepHasSlotEffect ==
  ASSUME TypeOK, QueueExact, [Next]_vars
  PROVE  SlotEffect
<1> USE DEF reqVars, slotVars, connVars, lifeVars
<1>1. ASSUME NEW r \in Requests, Request(r) PROVE SlotEffect
  <2>1. CASE (closed \/ aborted[r]) /\ pc' = [pc EXCEPT ![r] = "done"] /\ UNCHANGED slotVars
    BY <1>1, <2>1 DEF Request, TypeOK, SlotEffect, KeepsSlots, SlotHolders, Queued, SlotStates
  <2>2. CASE AcquireSlot(r)
    BY <1>1, <2>2, AcquireEffect DEF Request, SlotEffect
  <2>3. QED BY <1>1, <2>1, <2>2 DEF Request
<1>2. ASSUME NEW r \in Requests, Abort(r) PROVE SlotEffect
  <2>1. CASE pc[r] = "queued"
    <3>1. PICK i \in 1..Len(waiters) : waiters[i] = r /\ waiters' = RemoveAt(waiters, i)
      BY <1>2, <2>1 DEF Abort
    <3>2. pc' = [pc EXCEPT ![r] = "done"] /\ inFlight' = inFlight
      BY <1>2, <2>1 DEF Abort
    <3>3. Leaves(i)
      BY <2>1, <3>1, <3>2 DEF TypeOK, Leaves, SlotHolders, Queued, SlotStates
    <3>4. QED BY <3>3 DEF SlotEffect
  <2>2. CASE pc[r] = "streaming"
    <3>1. pc' = [pc EXCEPT ![r] = "settled"] /\ UNCHANGED slotVars
      BY <1>2, <2>2 DEF Abort, Settle
    <3>2. QED BY <2>2, <3>1, MoveEffect DEF SlotEffect, SlotStates
  <2>3. CASE pc[r] \notin {"queued", "streaming"}
    BY <1>2, <2>3, SamePcKeepsSlots DEF Abort, SlotEffect
  <2>4. QED BY <2>1, <2>2, <2>3
<1>3. ASSUME NEW r \in Requests, Proceed(r) PROVE SlotEffect
  <2>1. pc[r] \in SlotStates BY <1>3 DEF Proceed, SlotStates
  <2>2. CASE ReleaseSlot([pc EXCEPT ![r] = "done"])
    BY <2>1, <2>2, ReleaseEffect DEF SlotEffect
  <2>3. CASE EnsureSession(r, "dialing", "ensured") /\ UNCHANGED slotVars
    <3>1. \E to \in SlotStates : pc' = [pc EXCEPT ![r] = to]
      BY <2>3, EnsureMoves DEF SlotStates
    <3>2. QED BY <2>1, <2>3, <3>1, MoveEffect DEF SlotEffect
  <2>4. QED BY <1>3, <2>2, <2>3 DEF Proceed
<1>4. ASSUME NEW r \in Requests, Dispatch(r) PROVE SlotEffect
  <2>1. pc[r] \in SlotStates /\ UNCHANGED slotVars
    BY <1>4 DEF Dispatch, SlotStates
  <2>2. \E to \in SlotStates : pc' = [pc EXCEPT ![r] = to]
    BY <1>4, EnsureMoves, ExecuteMoves DEF Dispatch, SlotStates
  <2>3. QED BY <2>1, <2>2, MoveEffect DEF SlotEffect
<1>5. ASSUME NEW r \in Requests, DispatchAgain(r) PROVE SlotEffect
  <2>1. pc[r] \in SlotStates /\ UNCHANGED slotVars
    BY <1>5 DEF DispatchAgain, SlotStates
  <2>2. \E to \in SlotStates : pc' = [pc EXCEPT ![r] = to]
    BY <1>5, ExecuteMoves DEF DispatchAgain
  <2>3. QED BY <2>1, <2>2, MoveEffect DEF SlotEffect
<1>6. ASSUME NEW r \in Requests, Finish(r) PROVE SlotEffect
  BY <1>6, ReleaseEffect DEF Finish, SlotEffect, SlotStates
<1>7. ASSUME NEW r \in Requests, StreamEvent(r) PROVE SlotEffect
  <2>1. pc[r] \in SlotStates /\ pc' = [pc EXCEPT ![r] = "settled"] /\ UNCHANGED slotVars
    BY <1>7 DEF StreamEvent, StreamEnd, StreamError, StreamTimeout, StreamSettles, Settle, SlotStates
  <2>2. QED BY <2>1, MoveEffect DEF SlotEffect, SlotStates
<1>8. ASSUME NEW s \in Sessions, SessionEvent(s) PROVE SlotEffect
  BY <1>8, SamePcKeepsSlots
  DEF SessionEvent, Settings, GoAway, SessionDestroyed, SessionClosed, SlotEffect
<1>9. CASE Connect
  BY <1>9, SamePcKeepsSlots DEF Connect, SlotEffect
<1>10. CASE ConnectFails
  BY <1>10, SamePcKeepsSlots DEF ConnectFails, SlotEffect
<1>11. CASE DialFinally
  <2>1. pc' = [r \in Requests |-> pc'[r]] /\ UNCHANGED slotVars
    BY <1>11 DEF DialFinally
  <2>2. \A r \in Requests :
          \/ pc'[r] = pc[r]
          \/ pc[r] \in {"dialing", "redialing"} /\ pc'[r] \in {"ensured", "reensured", "settled"}
    BY <1>11 DEF DialFinally, DialWaiters
  <2>3. QED BY <2>1, <2>2 DEF TypeOK, SlotEffect, KeepsSlots, SlotHolders, Queued, SlotStates
<1>12. CASE IdleTimeout
  BY <1>12, SamePcKeepsSlots DEF IdleTimeout, SlotEffect
<1>13. CASE Close
  BY <1>13 DEF Close, TypeOK, SlotEffect, Drains, SlotHolders, Queued, SlotStates
<1>14. CASE ForcedDestroy
  BY <1>14, SamePcKeepsSlots DEF ForcedDestroy, SlotEffect
<1>15. CASE Terminated \/ UNCHANGED vars
  BY <1>15, SamePcKeepsSlots DEF Terminated, vars, SlotEffect
<1>16. QED
  BY <1>1, <1>2, <1>3, <1>4, <1>5, <1>6, <1>7, <1>8, <1>9, <1>10, <1>11, <1>12, <1>13,
     <1>14, <1>15 DEF Next, Continue

-----------------------------------------------------------------------------
(* What the effects preserve.                                              *)

LEMMA HoldersFinite == IsFiniteSet(SlotHolders) /\ IsFiniteSet(SlotHolders)'
<1>1. SlotHolders \subseteq Requests /\ SlotHolders' \subseteq Requests
  BY DEF SlotHolders
<1>2. QED BY <1>1, RequestsFinite, FS_Subset

LEMMA EffectKeepsAccounting ==
  ASSUME TypeOK, QueueExact, SlotAccounting, SlotEffect
  PROVE  SlotAccounting' /\ inFlight' \in Nat
<1> DEFINE holders == SlotHolders
           next == SlotHolders'
<1>1. /\ IsFiniteSet(holders) /\ IsFiniteSet(next)
      /\ Cardinality(holders) \in Nat /\ Cardinality(next) \in Nat
      /\ inFlight = Cardinality(holders)
  BY HoldersFinite, FS_CardinalityType DEF SlotAccounting
<1>2. CASE KeepsSlots \/ Drains \/ \E i \in 1..Len(waiters) : Leaves(i)
  BY <1>1, <1>2 DEF KeepsSlots, Drains, Leaves, SlotAccounting, slotVars
<1>3. ASSUME NEW r \in Requests, Admits(r) PROVE inFlight' = Cardinality(next)
  <2>1. r \notin holders /\ next = holders \cup {r} /\ inFlight' = inFlight + 1
    BY <1>3 DEF Admits
  <2>2. Cardinality(next) = Cardinality(holders) + 1
    BY <1>1, <2>1, FS_AddElement
  <2>3. QED BY <1>1, <2>1, <2>2
<1>4. ASSUME NEW r \in Requests, Enqueues(r) PROVE inFlight' = Cardinality(next)
  BY <1>1, <1>4 DEF Enqueues
<1>5. ASSUME NEW r \in Requests, HandsOff(r) PROVE inFlight' = Cardinality(next)
  <2> DEFINE w == Head(waiters)
             rest == holders \ {r}
  <2>1. r \in holders /\ next = rest \cup {w} /\ inFlight' = inFlight
    BY <1>5 DEF HandsOff
  <2>2. Len(waiters) >= 1 /\ w = waiters[1]
    BY <1>5 DEF HandsOff, TypeOK
  <2>3. pc[w] = "queued"
    BY <2>2 DEF QueueExact, TypeOK
  <2>4. w \notin holders
    BY <2>3 DEF SlotHolders, SlotStates
  <2>5. Cardinality(rest) = Cardinality(holders) - 1 /\ IsFiniteSet(rest)
    BY <1>1, <2>1, FS_RemoveElement
  <2>6. Cardinality(rest \cup {w}) = Cardinality(rest) + 1
    BY <2>4, <2>5, FS_AddElement
  <2>7. QED BY <1>1, <2>1, <2>5, <2>6
<1>6. ASSUME NEW r \in Requests, Releases(r) PROVE inFlight' = Cardinality(next)
  <2>1. r \in holders /\ next = holders \ {r} /\ inFlight' = inFlight - 1
    BY <1>6 DEF Releases
  <2>2. Cardinality(next) = Cardinality(holders) - 1
    BY <1>1, <2>1, FS_RemoveElement
  <2>3. QED BY <1>1, <2>1, <2>2
<1>7. inFlight' = Cardinality(next)
  BY <1>1, <1>2, <1>3, <1>4, <1>5, <1>6
  DEF SlotEffect, KeepsSlots, Drains, Leaves, slotVars
<1>8. QED BY <1>1, <1>7 DEF SlotAccounting

(* q lists the elements of X, each once.                                   *)
Lists(q, X) ==
  /\ \A i, j \in 1..Len(q) : q[i] = q[j] => i = j
  /\ \A v : v \in X <=> \E i \in 1..Len(q) : q[i] = v

(* Removing one entry of a list without duplicates removes its value.      *)
LEMMA RemoveAtLists ==
  ASSUME NEW S, NEW q \in Seq(S), NEW X, Lists(q, X), NEW i \in 1..Len(q)
  PROVE  RemoveAt(q, i) \in Seq(S) /\ Lists(RemoveAt(q, i), X \ {q[i]})
<1> DEFINE front == SubSeq(q, 1, i - 1)
           back == SubSeq(q, i + 1, Len(q))
           p == front \o back
           n == Len(q)
<1>1. n \in Nat /\ i \in 1..n /\ n >= 1
  OBVIOUS
<1>2. front \in Seq(S) /\ Len(front) = i - 1 /\ \A j \in 1..(i - 1) : front[j] = q[j]
  BY <1>1
<1>3. back \in Seq(S) /\ Len(back) = n - i /\ \A j \in 1..(n - i) : back[j] = q[i + j]
  BY <1>1
<1> HIDE DEF front, back, p
<1>4. p \in Seq(S) /\ Len(p) = n - 1
  <2>1. p \in Seq(S) /\ Len(p) = Len(front) + Len(back)
    BY <1>2, <1>3, ConcatProperties DEF p
  <2>2. QED BY <1>1, <1>2, <1>3, <2>1
<1>5. \A j \in 1..(n - 1) : p[j] = IF j < i THEN q[j] ELSE q[j + 1]
  <2>1. TAKE j \in 1..(n - 1)
  <2>2. p[j] = IF j <= Len(front) THEN front[j] ELSE back[j - Len(front)]
    BY <1>1, <1>2, <1>3, ConcatProperties DEF p
  <2>3. CASE j < i
    BY <1>1, <1>2, <2>2, <2>3
  <2>4. CASE j >= i
    <3>1. j - (i - 1) \in 1..(n - i) /\ i + (j - (i - 1)) = j + 1
      BY <1>1, <2>4
    <3>2. p[j] = back[j - (i - 1)]
      BY <1>1, <1>2, <2>2, <2>4
    <3>3. back[j - (i - 1)] = q[j + 1]
      BY <1>3, <3>1
    <3>4. QED BY <1>1, <2>4, <3>2, <3>3
  <2>5. QED BY <1>1, <2>3, <2>4
<1>6. \A j, k \in 1..Len(p) : p[j] = p[k] => j = k
  <2>1. SUFFICES ASSUME NEW j \in 1..(n - 1), NEW k \in 1..(n - 1), p[j] = p[k]
                 PROVE  j = k
    BY <1>4
  <2>2. DEFINE orig(m) == IF m < i THEN m ELSE m + 1
  <2>3. q[orig(j)] = q[orig(k)] /\ orig(j) \in 1..n /\ orig(k) \in 1..n
    BY <1>1, <1>5, <2>1
  <2>4. orig(j) = orig(k)
    BY <2>3 DEF Lists
  <2>5. QED BY <1>1, <2>4
<1>7. ASSUME NEW v PROVE v \in X \ {q[i]} <=> \E j \in 1..(n - 1) : p[j] = v
  <2>1. ASSUME NEW j \in 1..(n - 1), p[j] = v PROVE v \in X \ {q[i]}
    <3>1. CASE j < i
      BY <1>1, <1>5, <2>1, <3>1 DEF Lists
    <3>2. CASE j >= i
      <4>1. v = q[j + 1] /\ j + 1 \in 1..n /\ j + 1 # i
        BY <1>1, <1>5, <2>1, <3>2
      <4>2. QED BY <4>1 DEF Lists
    <3>3. QED BY <1>1, <3>1, <3>2
  <2>2. ASSUME v \in X \ {q[i]} PROVE \E j \in 1..(n - 1) : p[j] = v
    <3>1. PICK m \in 1..n : v = q[m] /\ m # i
      BY <2>2 DEF Lists
    <3>2. CASE m < i
      <4>1. m \in 1..(n - 1) /\ p[m] = q[m]
        BY <1>1, <1>5, <3>2
      <4>2. QED BY <3>1, <4>1
    <3>3. CASE m > i
      <4>1. m - 1 \in 1..(n - 1) /\ p[m - 1] = q[m]
        BY <1>1, <1>5, <3>3
      <4>2. QED BY <3>1, <4>1
    <3>4. QED BY <1>1, <3>1, <3>2, <3>3
  <2>3. QED BY <2>1, <2>2
<1>8. Lists(p, X \ {q[i]})
  BY <1>4, <1>6, <1>7 DEF Lists
<1>9. QED BY <1>4, <1>8 DEF RemoveAt, p, front, back

LEMMA QueueListsQueued ==
  ASSUME TypeOK
  PROVE  QueueExact <=> Lists(waiters, Queued)
<1>1. \A i \in 1..Len(waiters) : waiters[i] \in Requests
  BY DEF TypeOK
<1>2. QED BY <1>1 DEF QueueExact, Lists, Queued

LEMMA EffectKeepsQueue ==
  ASSUME waiters \in Seq(Requests), Lists(waiters, Queued), SlotEffect
  PROVE  waiters' \in Seq(Requests) /\ Lists(waiters', Queued')
<1> DEFINE n == Len(waiters)
           Goal == waiters' \in Seq(Requests) /\ Lists(waiters', Queued')
<1>1. n \in Nat
  OBVIOUS
<1>2. CASE KeepsSlots
  BY <1>2 DEF KeepsSlots, slotVars
<1>3. CASE Drains
  BY <1>3 DEF Drains, Lists
<1>4. ASSUME NEW i \in 1..n, Leaves(i) PROVE Goal
  BY <1>4, RemoveAtLists DEF Leaves
<1>5. ASSUME NEW r \in Requests, Admits(r) \/ Releases(r) PROVE Goal
  BY <1>5 DEF Admits, Releases
<1>6. ASSUME NEW r \in Requests, Enqueues(r) PROVE Goal
  <2>1. waiters' = Append(waiters, r) /\ r \notin Queued /\ Queued' = Queued \cup {r}
    BY <1>6 DEF Enqueues
  <2>2. /\ waiters' \in Seq(Requests) /\ Len(waiters') = n + 1
        /\ \A i \in 1..n : waiters'[i] = waiters[i]
        /\ waiters'[n + 1] = r
    BY <2>1
  <2>3. \A i \in 1..n : waiters[i] # r
    BY <2>1 DEF Lists
  <2>4. \A i, j \in 1..(n + 1) : waiters'[i] = waiters'[j] => i = j
    BY <1>1, <2>2, <2>3 DEF Lists
  <2>5. ASSUME NEW v PROVE v \in Queued' <=> \E i \in 1..(n + 1) : waiters'[i] = v
    <3>1. v \in Queued <=> \E i \in 1..n : waiters[i] = v
      BY DEF Lists
    <3>2. QED BY <1>1, <2>1, <2>2, <3>1
  <2>6. QED BY <2>2, <2>4, <2>5 DEF Lists
<1>7. ASSUME NEW r \in Requests, HandsOff(r) PROVE Goal
  <2>1. 1 \in 1..n /\ Head(waiters) = waiters[1]
    BY <1>7 DEF HandsOff
  <2>2. RemoveAt(waiters, 1) = Tail(waiters)
    BY <2>1 DEF RemoveAt
  <2>3. Tail(waiters) \in Seq(Requests) /\ Lists(Tail(waiters), Queued \ {waiters[1]})
    <3>1. /\ RemoveAt(waiters, 1) \in Seq(Requests)
          /\ Lists(RemoveAt(waiters, 1), Queued \ {waiters[1]})
      BY <2>1, RemoveAtLists
    <3>2. QED BY <2>2, <3>1
  <2>4. QED BY <1>7, <2>1, <2>3 DEF HandsOff
<1>8. QED BY <1>2, <1>3, <1>4, <1>5, <1>6, <1>7 DEF SlotEffect

-----------------------------------------------------------------------------
(* Types.  inFlight and waiters are left to the effects above.             *)

SessionStates == {"unborn", "connecting", "open", "closing", "destroyed", "gone"}

OtherTypes ==
  /\ pc \in [Requests -> PCs]
  /\ got \in [Requests -> Sessions \cup {NoSession}]
  /\ outcome \in [Requests -> Outcomes]
  /\ aborted \in [Requests -> BOOLEAN]
  /\ session \in Sessions \cup {NoSession}
  /\ sessionPromise \in {"none", "pending", "resolved", "rejected"}
  /\ sessionGeneration \in 0..MaxSessions
  /\ sess \in [Sessions -> SessionStates]
  /\ remoteCap \in [Sessions -> Nat]
  /\ idleTimer \in BOOLEAN
  /\ closed \in BOOLEAN
  /\ closePromise \in {"none", "pending", "resolved"}
  /\ closing \in Sessions \cup {NoSession}

LEMMA TypesSplit == TypeOK <=> OtherTypes /\ inFlight \in Nat /\ waiters \in Seq(Requests)
BY DEF TypeOK, OtherTypes, SessionStates

LEMMA InfinityIsNat == Infinity \in Nat
BY CapsAreNumbers DEF Infinity

LEMMA GenerationIsSession == sessionGeneration \in 0..MaxSessions
                               => sessionGeneration \in Sessions \cup {NoSession}
BY SomeSession DEF Sessions, NoSession

LEMMA ConnTypes ==
  ASSUME TypeOK, NEW r \in Requests, NEW awaiting \in SlotStates, NEW ready \in SlotStates,
         EnsureSession(r, awaiting, ready)
  PROVE  /\ pc' \in [Requests -> PCs]
         /\ got' \in [Requests -> Sessions \cup {NoSession}]
         /\ session' \in Sessions \cup {NoSession}
         /\ sessionPromise' \in {"none", "pending", "resolved", "rejected"}
         /\ sessionGeneration' \in 0..MaxSessions
         /\ sess' \in [Sessions -> SessionStates]
         /\ remoteCap' \in [Sessions -> Nat]
<1>1. pc' \in [Requests -> PCs] /\ got' \in [Requests -> Sessions \cup {NoSession}]
  BY DEF TypeOK, EnsureSession, PCs
<1>2. JoinOrDial \/ UNCHANGED connVars
  BY DEF EnsureSession
<1>3. CASE UNCHANGED connVars
  BY <1>1, <1>3 DEF TypeOK, connVars, SessionStates
<1>4. CASE JoinOrDial
  <2>1. sessionGeneration' \in 0..MaxSessions
    BY <1>4, SomeSession DEF TypeOK, JoinOrDial, Dial, connVars
  <2>2. QED BY <1>1, <1>4, <2>1 DEF TypeOK, JoinOrDial, Dial, connVars, SessionStates
<1>5. QED BY <1>2, <1>3, <1>4

LEMMA StepKeepsTypes ==
  ASSUME TypeOK, QueueExact, [Next]_vars
  PROVE  OtherTypes'
<1> USE DEF reqVars, slotVars, connVars, lifeVars, SessionStates
<1>1. ASSUME NEW r \in Requests, Request(r) PROVE OtherTypes'
  <2>1. pc' \in [Requests -> PCs]
    BY <1>1 DEF TypeOK, Request, AcquireSlot, PCs, SlotStates
  <2>2. QED BY <1>1, <2>1 DEF TypeOK, OtherTypes, Request, Outcomes
<1>2. ASSUME NEW r \in Requests, Abort(r) PROVE OtherTypes'
  BY <1>2 DEF TypeOK, OtherTypes, Abort, Settle, PCs, SlotStates, Outcomes
<1>3. ASSUME NEW r \in Requests, Proceed(r) PROVE OtherTypes'
  <2>1. CASE EnsureSession(r, "dialing", "ensured") /\ idleTimer' = FALSE /\ UNCHANGED outcome
    <3>1. "dialing" \in SlotStates /\ "ensured" \in SlotStates
      BY DEF SlotStates
    <3>2. QED BY <1>3, <2>1, <3>1, ConnTypes DEF TypeOK, OtherTypes, Proceed
  <2>2. CASE /\ ReleaseSlot([pc EXCEPT ![r] = "done"])
             /\ outcome' = [outcome EXCEPT ![r] = "closed"]
             /\ UNCHANGED <<got, connVars, idleTimer>>
    <3>1. pc' \in [Requests -> PCs]
      BY <2>2 DEF TypeOK, ReleaseSlot, PCs, SlotStates
    <3>2. QED BY <1>3, <2>2, <3>1 DEF TypeOK, OtherTypes, Proceed, Outcomes
  <2>3. QED BY <1>3, <2>1, <2>2 DEF Proceed
<1>4. ASSUME NEW r \in Requests, Dispatch(r) PROVE OtherTypes'
  <2>1. CASE EnsureSession(r, "redialing", "reensured") /\ UNCHANGED outcome
    <3>1. "redialing" \in SlotStates /\ "reensured" \in SlotStates
      BY DEF SlotStates
    <3>2. QED BY <1>4, <2>1, <3>1, ConnTypes DEF TypeOK, OtherTypes, Dispatch
  <2>2. CASE ExecuteRequest(r) /\ UNCHANGED <<got, connVars>>
    BY <1>4, <2>2
    DEF TypeOK, OtherTypes, Dispatch, ExecuteRequest, Settle, PCs, SlotStates, Outcomes
  <2>3. QED BY <1>4, <2>1, <2>2 DEF Dispatch
<1>5. ASSUME NEW r \in Requests, DispatchAgain(r) PROVE OtherTypes'
  BY <1>5
  DEF TypeOK, OtherTypes, DispatchAgain, ExecuteRequest, Settle, PCs, SlotStates, Outcomes
<1>6. ASSUME NEW r \in Requests, Finish(r) PROVE OtherTypes'
  <2>1. pc' \in [Requests -> PCs]
    BY <1>6 DEF TypeOK, Finish, ReleaseSlot, PCs, SlotStates
  <2>2. idleTimer' \in BOOLEAN
    BY <1>6 DEF TypeOK, Finish, ScheduleIdleTimer
  <2>3. QED BY <1>6, <2>1, <2>2 DEF TypeOK, OtherTypes, Finish
<1>7. ASSUME NEW r \in Requests, StreamEvent(r) PROVE OtherTypes'
  BY <1>7
  DEF TypeOK, OtherTypes, StreamEvent, StreamEnd, StreamError, StreamTimeout, StreamSettles,
      Settle, PCs, SlotStates, Outcomes
<1>8. ASSUME NEW s \in Sessions, SessionEvent(s) PROVE OtherTypes'
  <2>1. CASE Settings(s)
    BY <2>1, CapsAreNumbers DEF TypeOK, OtherTypes, Settings
  <2>2. CASE GoAway(s)
    BY <2>2 DEF TypeOK, OtherTypes, GoAway, DropSession
  <2>3. CASE SessionDestroyed(s)
    BY <2>3, InfinityIsNat DEF TypeOK, OtherTypes, SessionDestroyed
  <2>4. CASE SessionClosed(s)
    BY <2>4 DEF TypeOK, OtherTypes, SessionClosed, DropSession
  <2>5. QED BY <1>8, <2>1, <2>2, <2>3, <2>4 DEF SessionEvent
<1>9. CASE Connect
  <2>1. session' \in Sessions \cup {NoSession} /\ sess' \in [Sessions -> SessionStates]
    BY <1>9, GenerationIsSession DEF TypeOK, Connect
  <2>2. QED BY <1>9, <2>1 DEF TypeOK, OtherTypes, Connect
<1>10. CASE ConnectFails
  BY <1>10 DEF TypeOK, OtherTypes, ConnectFails
<1>11. CASE DialFinally
  <2>1. got' \in [Requests -> Sessions \cup {NoSession}]
    BY <1>11, GenerationIsSession DEF TypeOK, DialFinally
  <2>2. pc' \in [Requests -> PCs] /\ outcome' \in [Requests -> Outcomes]
    BY <1>11 DEF TypeOK, DialFinally, PCs, SlotStates, Outcomes
  <2>3. QED BY <1>11, <2>1, <2>2 DEF TypeOK, OtherTypes, DialFinally
<1>12. CASE IdleTimeout
  BY <1>12 DEF TypeOK, OtherTypes, IdleTimeout
<1>13. CASE Close
  BY <1>13 DEF TypeOK, OtherTypes, Close, PCs, Outcomes
<1>14. CASE ForcedDestroy
  <2>1. sess' \in [Sessions -> SessionStates]
    BY <1>14 DEF TypeOK, ForcedDestroy
  <2>2. remoteCap' \in [Sessions -> Nat]
    BY <1>14, InfinityIsNat DEF TypeOK, ForcedDestroy
  <2>3. QED BY <1>14, <2>1, <2>2 DEF TypeOK, OtherTypes, ForcedDestroy
<1>15. CASE Terminated \/ UNCHANGED vars
  BY <1>15 DEF TypeOK, OtherTypes, Terminated, vars
<1>16. QED
  BY <1>1, <1>2, <1>3, <1>4, <1>5, <1>6, <1>7, <1>8, <1>9, <1>10, <1>11, <1>12, <1>13,
     <1>14, <1>15 DEF Next, Continue

-----------------------------------------------------------------------------
(* The inductive invariant of every instance.                              *)

IInv == TypeOK /\ SlotAccounting /\ QueueExact

LEMMA InitIInv == Init => IInv
<1> SUFFICES ASSUME Init PROVE IInv
  OBVIOUS
<1>1. TypeOK
  <2>1. 0 \in 0..MaxSessions
    BY SomeSession
  <2>2. pc \in [Requests -> PCs] /\ outcome \in [Requests -> Outcomes]
    BY DEF Init, PCs, Outcomes
  <2>3. /\ got \in [Requests -> Sessions \cup {NoSession}]
        /\ aborted \in [Requests -> BOOLEAN]
    BY DEF Init
  <2>4. sess \in [Sessions -> SessionStates] /\ remoteCap \in [Sessions -> Nat]
    BY InfinityIsNat DEF Init, SessionStates
  <2>5. /\ inFlight \in Nat /\ waiters \in Seq(Requests)
        /\ idleTimer \in BOOLEAN /\ closed \in BOOLEAN
    <3>1. inFlight \in Nat BY DEF Init
    <3>2. waiters \in Seq(Requests) BY EmptySeq DEF Init
    <3>3. idleTimer \in BOOLEAN /\ closed \in BOOLEAN BY DEF Init
    <3>4. QED BY <3>1, <3>2, <3>3
  <2>6. /\ session \in Sessions \cup {NoSession} /\ closing \in Sessions \cup {NoSession}
        /\ sessionGeneration \in 0..MaxSessions
    BY <2>1 DEF Init
  <2>7. /\ sessionPromise \in {"none", "pending", "resolved", "rejected"}
        /\ closePromise \in {"none", "pending", "resolved"}
    BY DEF Init
  <2>8. QED BY <2>2, <2>3, <2>4, <2>5, <2>6, <2>7 DEF TypeOK, SessionStates
<1>2. SlotHolders = {} /\ Queued = {}
  BY DEF Init, SlotHolders, SlotStates, Queued
<1>3. SlotAccounting
  BY <1>2, FS_EmptySet DEF Init, SlotAccounting
<1>4. QueueExact
  BY <1>2 DEF Init, QueueExact, Queued
<1>5. QED BY <1>1, <1>3, <1>4 DEF IInv

LEMMA NextIInv == IInv /\ [Next]_vars => IInv'
<1> SUFFICES ASSUME IInv, [Next]_vars PROVE IInv'
  OBVIOUS
<1>1. TypeOK /\ SlotAccounting /\ QueueExact
  BY DEF IInv
<1>2. SlotEffect
  BY <1>1, StepHasSlotEffect
<1>3. SlotAccounting' /\ inFlight' \in Nat
  BY <1>1, <1>2, EffectKeepsAccounting
<1>4. waiters' \in Seq(Requests) /\ Lists(waiters', Queued')
  BY <1>1, <1>2, QueueListsQueued, EffectKeepsQueue DEF TypeOK
<1>5. TypeOK'
  BY <1>1, <1>3, <1>4, StepKeepsTypes DEF TypeOK, OtherTypes, SessionStates
<1>6. QueueExact'
  BY <1>4 DEF QueueExact, Lists, Queued
<1>7. QED BY <1>3, <1>5, <1>6 DEF IInv

THEOREM Invariance == Spec => []IInv
BY InitIInv, NextIInv, PTL DEF Spec

(* The state of http.ts keeps its types for every instance.                *)
THEOREM TypeCorrect == Spec => []TypeOK
BY Invariance, PTL DEF IInv

(* #inFlight always counts the slot-owning requests (http.ts:183-187).     *)
THEOREM SlotsAccounted == Spec => []SlotAccounting
BY Invariance, PTL DEF IInv

(* The queue is always exactly the queued requests (http.ts:191-195).      *)
THEOREM QueueIsExact == Spec => []QueueExact
BY Invariance, PTL DEF IInv

-----------------------------------------------------------------------------
(* The cap, the lost wake-up and the slot pool.                            *)

RemoteCapsPositive == \A s \in Sessions : remoteCap[s] > 0

LEMMA OwnCapBounds ==
  ASSUME TypeOK
  PROVE  /\ EffectiveCap \in Int /\ OwnCap \in Int
         /\ EffectiveCap <= OwnCap
         /\ RemoteCapsPositive => EffectiveCap > 0
<1>2. PeerCap \in Nat
  BY InfinityIsNat DEF TypeOK, PeerCap
<1>3. RemoteCapsPositive => PeerCap > 0
  BY InfinityIsNat, CapsAreNumbers DEF TypeOK, PeerCap, RemoteCapsPositive, Infinity
<1>4. userMaxConcurrentStreams \in Nat /\ userMaxConcurrentStreams > 0
  BY CapsAreNumbers DEF userMaxConcurrentStreams, Infinity
<1>5. QED
  BY <1>2, <1>3, <1>4, CapsAreNumbers
  DEF EffectiveCap, OwnCap, effectiveStreamCap, SmallerOf, Infinity

LEMMA StepKeepsCapsPositive ==
  ASSUME TypeOK, RemoteCapsPositive, 0 \notin PeerCaps, [Next]_vars
  PROVE  RemoteCapsPositive'
<1> USE DEF reqVars, slotVars, connVars, lifeVars
<1>1. Infinity > 0
  BY CapsAreNumbers DEF Infinity
<1>2. CASE UNCHANGED remoteCap
  BY <1>2 DEF RemoteCapsPositive
<1>3. ASSUME NEW s \in Sessions, Settings(s) PROVE RemoteCapsPositive'
  <2>1. PICK c \in PeerCaps : remoteCap' = [remoteCap EXCEPT ![s] = c]
    BY <1>3 DEF Settings
  <2>2. c > 0
    BY <2>1, CapsAreNumbers
  <2>3. QED BY <2>1, <2>2 DEF TypeOK, RemoteCapsPositive
<1>4. ASSUME NEW s \in Sessions, SessionDestroyed(s) PROVE RemoteCapsPositive'
  BY <1>1, <1>4 DEF TypeOK, RemoteCapsPositive, SessionDestroyed
<1>5. CASE ForcedDestroy
  BY <1>1, <1>5 DEF TypeOK, RemoteCapsPositive, ForcedDestroy
<1>6. \/ UNCHANGED remoteCap
      \/ \E s \in Sessions : Settings(s) \/ SessionDestroyed(s)
      \/ ForcedDestroy
  BY DEF Next, Continue, Request, Abort, Proceed, Dispatch, DispatchAgain, Finish,
         EnsureSession, JoinOrDial, Dial, StreamEvent, StreamEnd, StreamError, StreamTimeout,
         StreamSettles, SessionEvent, GoAway, SessionClosed, Connect, ConnectFails,
         DialFinally, IdleTimeout, Close, Terminated, vars
<1>7. QED BY <1>2, <1>3, <1>4, <1>5, <1>6

(* The client's own cap holds for every instance (http.ts:59-78).          *)
THEOREM OwnCapAlwaysHeld == Spec => []OwnCapHeld
<1>1. Init => OwnCapHeld
  <2>1. SUFFICES ASSUME Init PROVE OwnCapHeld
    OBVIOUS
  <2>2. OwnCap >= 0
    BY CapsAreNumbers
    DEF OwnCap, effectiveStreamCap, SmallerOf, userMaxConcurrentStreams, Infinity
  <2>3. QED BY <2>1, <2>2 DEF Init, OwnCapHeld, OwnCap
<1>2. IInv /\ OwnCapHeld /\ [Next]_vars => OwnCapHeld'
  <2>1. SUFFICES ASSUME IInv, inFlight <= OwnCap, [Next]_vars PROVE inFlight' <= OwnCap
    BY DEF OwnCapHeld, OwnCap, effectiveStreamCap, SmallerOf, userMaxConcurrentStreams, Infinity
  <2>2. SlotEffect /\ inFlight \in Nat
    BY <2>1, StepHasSlotEffect DEF IInv, TypeOK
  <2>3. EffectiveCap \in Int /\ OwnCap \in Int /\ EffectiveCap <= OwnCap
    BY <2>1, OwnCapBounds DEF IInv
  <2>4. \/ inFlight' = inFlight \/ inFlight' = inFlight - 1
        \/ inFlight < EffectiveCap /\ inFlight' = inFlight + 1
    BY <2>2 DEF SlotEffect, KeepsSlots, Admits, Enqueues, HandsOff, Releases, Leaves, Drains, slotVars
  <2>5. QED BY <2>1, <2>2, <2>3, <2>4
<1>3. QED BY <1>1, <1>2, Invariance, PTL DEF Spec

(* Nobody waits for a slot while nothing is in flight, for every instance  *)
(* whose peer never advertises a cap of zero (http.ts:62-63): with a cap   *)
(* of zero a request queues while nothing is in flight.                    *)
WaitersServed == IInv /\ RemoteCapsPositive /\ QueuedBehindStream

LEMMA WaitersServedInvariant ==
  ASSUME 0 \notin PeerCaps
  PROVE  Spec => []WaitersServed
<1>1. Init => RemoteCapsPositive /\ QueuedBehindStream
  BY CapsAreNumbers DEF Init, RemoteCapsPositive, QueuedBehindStream, Infinity
<1>2. WaitersServed /\ [Next]_vars => RemoteCapsPositive' /\ QueuedBehindStream'
  <2>1. SUFFICES ASSUME WaitersServed, [Next]_vars
                 PROVE  RemoteCapsPositive' /\ QueuedBehindStream'
    OBVIOUS
  <2>2. SlotEffect /\ inFlight \in Nat /\ waiters \in Seq(Requests)
    BY <2>1, StepHasSlotEffect DEF WaitersServed, IInv, TypeOK
  <2>3. EffectiveCap \in Int /\ EffectiveCap > 0
    BY <2>1, OwnCapBounds DEF WaitersServed, IInv
  <2>4. RemoteCapsPositive'
    BY <2>1, StepKeepsCapsPositive DEF WaitersServed, IInv
  <2>5. ASSUME waiters' # <<>> PROVE inFlight' > 0
    <3>1. ASSUME NEW i \in 1..Len(waiters), Leaves(i) PROVE inFlight' > 0
      <4>1. waiters # <<>>
        BY <2>2, <3>1
      <4>2. QED BY <2>1, <2>2, <3>1, <4>1 DEF WaitersServed, QueuedBehindStream, Leaves
    <3>2. ASSUME NEW r \in Requests, HandsOff(r) PROVE inFlight' > 0
      BY <2>1, <2>2, <3>2 DEF WaitersServed, QueuedBehindStream, HandsOff
    <3>3. ASSUME NEW r \in Requests, Enqueues(r) PROVE inFlight' > 0
      BY <2>2, <2>3, <3>3 DEF Enqueues
    <3>4. ASSUME NEW r \in Requests, Admits(r) PROVE inFlight' > 0
      BY <2>2, <3>4 DEF Admits
    <3>5. CASE KeepsSlots
      BY <2>1, <2>5, <3>5 DEF WaitersServed, QueuedBehindStream, KeepsSlots, slotVars
    <3>6. ~Drains /\ \A r \in Requests : ~Releases(r)
      BY <2>5 DEF Drains, Releases
    <3>7. QED BY <2>2, <3>1, <3>2, <3>3, <3>4, <3>5, <3>6 DEF SlotEffect
  <2>6. QED BY <2>4, <2>5 DEF QueuedBehindStream
<1>3. Init => WaitersServed
  BY <1>1, InitIInv DEF WaitersServed
<1>4. WaitersServed /\ [Next]_vars => WaitersServed'
  BY <1>2, NextIInv DEF WaitersServed
<1>5. QED BY <1>3, <1>4, PTL DEF Spec

(* No wake-up is lost in the queue behind the cap (http.ts:62-63).         *)
THEOREM NoLostWakeup ==
  ASSUME 0 \notin PeerCaps
  PROVE  Spec => []QueuedBehindStream
BY WaitersServedInvariant, PTL DEF WaitersServed

LEMMA EffectIsPoolStep ==
  ASSUME WaitersServed, SlotEffect
  PROVE  [Pool!PoolNext]_(Pool!poolVars)
<1>1. /\ waiters \in Seq(Requests) /\ Lists(waiters, Queued)
      /\ inFlight = Cardinality(SlotHolders)
  BY QueueListsQueued DEF WaitersServed, IInv, TypeOK, SlotAccounting
<1>2. EffectiveCap \in Int /\ OwnCap \in Int /\ EffectiveCap <= OwnCap /\ EffectiveCap > 0
  BY OwnCapBounds DEF WaitersServed, IInv
<1>3. inFlight \in Nat
  BY DEF WaitersServed, IInv, TypeOK
<1>4. ASSUME NEW r \in Requests, r \notin SlotHolders \cup Queued PROVE Pool!Idle(r)
  BY <1>1, <1>4 DEF Lists, Pool!Idle
<1>5. CASE KeepsSlots
  BY <1>5 DEF KeepsSlots, slotVars, Pool!poolVars
<1>6. CASE Drains
  BY <1>6 DEF Drains, Pool!Drain, Pool!PoolNext
<1>7. ASSUME NEW i \in 1..Len(waiters), Leaves(i) PROVE Pool!PoolNext
  BY <1>7 DEF Leaves, RemoveAt, Pool!Leave, Pool!RemoveAt, Pool!PoolNext
<1>8. ASSUME NEW r \in Requests, Admits(r) PROVE Pool!PoolNext
  <2>1. Cardinality(SlotHolders) < OwnCap
    BY <1>1, <1>2, <1>3, <1>8 DEF Admits
  <2>2. Pool!Cardinality(SlotHolders) = Cardinality(SlotHolders)
    BY Zenon DEF Cardinality, Pool!Cardinality
  <2>3. Pool!Admit(r)
    BY <1>4, <1>8, <2>1, <2>2 DEF Admits, Pool!Admit, OwnCap
  <2>4. QED BY <2>3 DEF Pool!PoolNext
<1>9. ASSUME NEW r \in Requests, Enqueues(r) PROVE Pool!PoolNext
  <2>1. SlotHolders # {}
    BY <1>1, <1>2, <1>3, <1>9, HoldersFinite, FS_EmptySet DEF Enqueues
  <2>2. Pool!Enqueue(r)
    BY <1>4, <1>9, <2>1 DEF Enqueues, Pool!Enqueue
  <2>3. QED BY <2>2 DEF Pool!PoolNext
<1>10. ASSUME NEW r \in Requests, HandsOff(r) PROVE Pool!PoolNext
  BY <1>10 DEF HandsOff, Pool!HandOff, Pool!PoolNext
<1>11. ASSUME NEW r \in Requests, Releases(r) PROVE Pool!PoolNext
  BY <1>11 DEF Releases, Pool!Release, Pool!PoolNext
<1>12. QED BY <1>5, <1>6, <1>7, <1>8, <1>9, <1>10, <1>11 DEF SlotEffect

(* The client implements the abstract slot pool: its cap, its FIFO order   *)
(* and its direct hand-off (README.md:191-193 of packages/push).           *)
THEOREM Refinement ==
  ASSUME 0 \notin PeerCaps
  PROVE  Spec => ImplementsSlotPool
<1>1. Init => Pool!PoolInit
  BY DEF Init, Pool!PoolInit, SlotHolders, SlotStates
<1>2. WaitersServed /\ [Next]_vars => [Pool!PoolNext]_(Pool!poolVars)
  BY EffectIsPoolStep, StepHasSlotEffect DEF WaitersServed, IInv
<1>3. QED
  BY <1>1, <1>2, WaitersServedInvariant, PTL DEF Spec, ImplementsSlotPool, Pool!PoolSpec
-----------------------------------------------------------------------------
(* One session, and its idle timer.                                        *)

(* Whoever dials waits for the dial; only the newest session connects, and *)
(* only while the dial is pending; and nothing is open then.               *)
DialInv ==
  /\ sessionPromise # "none" => DialWaiters # {}
  /\ \A s \in Sessions :
       /\ sess[s] = "connecting" => sessionPromise = "pending" /\ s = sessionGeneration
       /\ sess[s] = "open" => sessionPromise # "pending" /\ session = s

(* A session nobody uses has its timer armed.                              *)
IdleInv == ~closed /\ session # NoSession /\ inFlight = 0 /\ IdleTimeoutMs > 0 => idleTimer

SessionInv == IInv /\ DialInv /\ IdleInv

LEMMA WaitersHold ==
  /\ DialWaiters \subseteq SlotHolders
  /\ DialWaiters = {r \in Requests : pc[r] \in {"dialing", "redialing"}}
BY DEF DialWaiters, SlotHolders, SlotStates

(* The dial waits for whoever joins or starts it.                          *)
LEMMA EnsureKeepsDial ==
  ASSUME TypeOK, DialInv, NEW r \in Requests, NEW awaiting \in {"dialing", "redialing"}, NEW ready \in SlotStates,
         pc[r] \notin {"dialing", "redialing"}, EnsureSession(r, awaiting, ready)
  PROVE  DialInv' /\ session' = session
<1>1. ASSUME pc' \in [Requests -> PCs], \A q \in Requests : q # r => pc'[q] = pc[q]
      PROVE  DialWaiters # {} => DialWaiters' # {}
  BY <1>1 DEF DialWaiters
<1>2. CASE Healthy(session) /\ pc' = [pc EXCEPT ![r] = ready] /\ UNCHANGED connVars
  <2>1. DialWaiters # {} => DialWaiters' # {}
    BY <1>2 DEF DialWaiters, TypeOK
  <2> QED
    BY <1>2, <2>1 DEF DialInv, connVars
<1>3. CASE ~Healthy(session) /\ pc' = [pc EXCEPT ![r] = awaiting] /\ JoinOrDial
  <2>1. r \in DialWaiters'
    BY <1>3 DEF DialWaiters, TypeOK
  <2>2. CASE UNCHANGED connVars
    BY <2>1, <2>2 DEF DialInv, connVars
  <2>3. CASE sessionPromise = "none" /\ Dial
    <3>1. \A s \in Sessions : sess[s] \notin {"connecting", "open"}
      BY <1>3, <2>3 DEF DialInv, Healthy, Sessions, NoSession
    <3>2. /\ sess' = [sess EXCEPT ![sessionGeneration + 1] = "connecting"] /\ sessionGeneration' = sessionGeneration + 1
          /\ sessionPromise' = "pending" /\ session' = session
      BY <2>3 DEF Dial
    <3> QED
      BY <2>1, <3>1, <3>2 DEF DialInv, TypeOK
  <2> QED
    BY <1>3, <2>2, <2>3 DEF JoinOrDial, connVars
<1> QED
  BY <1>2, <1>3 DEF EnsureSession

(* No step disturbs the dial.                                              *)
LEMMA StepKeepsDial ==
  ASSUME TypeOK, QueueExact, DialInv, [Next]_vars
  PROVE  DialInv'
<1> USE DEF reqVars, slotVars, connVars, lifeVars
<1>1. ASSUME UNCHANGED connVars, \A r \in Requests : pc[r] \in {"dialing", "redialing"} => pc'[r] = pc[r]
      PROVE  DialInv'
  <2>1. DialWaiters # {} => DialWaiters' # {}
    BY <1>1 DEF DialWaiters
  <2> QED
    BY <1>1, <2>1 DEF DialInv
<1>2. ASSUME NEW r \in Requests, ReleaseSlot([pc EXCEPT ![r] = "done"]), pc[r] \in {"granted", "settled"}
      PROVE  \A q \in Requests : pc[q] \in {"dialing", "redialing"} => pc'[q] = pc[q]
  <2>1. CASE waiters = <<>>
    BY <1>2, <2>1 DEF ReleaseSlot, TypeOK
  <2>2. CASE waiters # <<>>
    <3>1. 1 \in 1..Len(waiters) /\ Head(waiters) = waiters[1] /\ waiters[1] \in Requests
      BY <2>2 DEF TypeOK
    <3>2. pc[Head(waiters)] = "queued"
      BY <3>1 DEF QueueExact
    <3> QED
      BY <1>2, <2>2, <3>1, <3>2 DEF ReleaseSlot, TypeOK
  <2> QED
    BY <2>1, <2>2
<1>3. ASSUME NEW r \in Requests, Request(r) PROVE DialInv'
  BY <1>1, <1>3 DEF Request, AcquireSlot, TypeOK
<1>4. ASSUME NEW r \in Requests, Abort(r) PROVE DialInv'
  BY <1>1, <1>4 DEF Abort, Settle, TypeOK
<1>5. ASSUME NEW r \in Requests, Proceed(r) PROVE DialInv'
  <2>1. CASE ReleaseSlot([pc EXCEPT ![r] = "done"]) /\ UNCHANGED connVars
    BY <1>1, <1>2, <1>5, <2>1 DEF Proceed
  <2>2. CASE EnsureSession(r, "dialing", "ensured")
    BY <1>5, <2>2, EnsureKeepsDial DEF Proceed, SlotStates
  <2> QED
    BY <1>5, <2>1, <2>2 DEF Proceed
<1>6. ASSUME NEW r \in Requests, Dispatch(r) PROVE DialInv'
  <2>1. CASE ExecuteRequest(r) /\ UNCHANGED connVars
    BY <1>1, <1>6, <2>1 DEF Dispatch, ExecuteRequest, Settle, TypeOK
  <2>2. CASE EnsureSession(r, "redialing", "reensured")
    BY <1>6, <2>2, EnsureKeepsDial DEF Dispatch, SlotStates
  <2> QED
    BY <1>6, <2>1, <2>2 DEF Dispatch
<1>7. ASSUME NEW r \in Requests, DispatchAgain(r) PROVE DialInv'
  BY <1>1, <1>7 DEF DispatchAgain, ExecuteRequest, Settle, TypeOK
<1>8. ASSUME NEW r \in Requests, Finish(r) PROVE DialInv'
  BY <1>1, <1>2, <1>8 DEF Finish
<1>9. ASSUME NEW r \in Requests, StreamEvent(r) PROVE DialInv'
  BY <1>1, <1>9 DEF StreamEvent, StreamEnd, StreamError, StreamTimeout, StreamSettles, Settle, TypeOK
<1>10. ASSUME NEW s \in Sessions, SessionEvent(s) PROVE DialInv'
  <2>1. pc' = pc /\ sessionPromise' = sessionPromise /\ sessionGeneration' = sessionGeneration
    BY <1>10 DEF SessionEvent, Settings, GoAway, SessionDestroyed, SessionClosed
  <2>2. \/ sess' = sess /\ session' = session
        \/ \E to \in {"closing", "destroyed", "gone"} : sess' = [sess EXCEPT ![s] = to] /\ session' = session
        \/ /\ \E to \in {"closing", "destroyed", "gone"} : sess' = [sess EXCEPT ![s] = to]
           /\ session = s /\ session' = NoSession
    BY <1>10 DEF SessionEvent, Settings, GoAway, SessionDestroyed, SessionClosed, DropSession
  <2> QED
    BY <2>1, <2>2 DEF DialInv, DialWaiters, TypeOK
<1>11. CASE Connect
  BY <1>11 DEF Connect, DialInv, DialWaiters, TypeOK
<1>12. CASE ConnectFails
  BY <1>12 DEF ConnectFails, DialInv, DialWaiters, TypeOK
<1>13. CASE DialFinally
  BY <1>13 DEF DialFinally, DialInv, TypeOK
<1>14. CASE IdleTimeout
  BY <1>14 DEF IdleTimeout, DialInv, DialWaiters, TypeOK
<1>15. CASE Close
  <2>1. pc' = [r \in Requests |-> IF pc[r] = "queued" THEN "done" ELSE pc[r]]
    BY <1>15 DEF Close
  <2>2. DialWaiters # {} => DialWaiters' # {}
    BY <2>1 DEF DialWaiters
  <2>3. \A s \in Sessions : sess'[s] # "open"
    <3>1. \A s \in Sessions : sess[s] = "open" => session = s /\ Healthy(session)
      BY DEF DialInv, Healthy, Sessions, NoSession
    <3>2. CASE Healthy(session) /\ sess' = [sess EXCEPT ![session] = "closing"]
      BY <3>1, <3>2 DEF TypeOK
    <3>3. CASE ~Healthy(session) /\ sess' = sess
      BY <3>1, <3>3
    <3> QED
      BY <1>15, <3>2, <3>3 DEF Close
  <2>4. \A s \in Sessions : sess'[s] = "connecting" => sess[s] = "connecting"
    BY <1>15 DEF Close, TypeOK
  <2>5. sessionPromise' = sessionPromise /\ sessionGeneration' = sessionGeneration
    BY <1>15 DEF Close
  <2> QED
    BY <2>2, <2>3, <2>4, <2>5 DEF DialInv
<1>16. CASE ForcedDestroy
  BY <1>16 DEF ForcedDestroy, DialInv, DialWaiters, TypeOK
<1>17. CASE UNCHANGED vars
  BY <1>1, <1>17 DEF vars
<1> QED
  BY <1>3, <1>4, <1>5, <1>6, <1>7, <1>8, <1>9, <1>10, <1>11, <1>12, <1>13, <1>14, <1>15, <1>16, <1>17
  DEF Next, Continue, Terminated

(* The timer is armed when the last slot is released, and disarmed when    *)
(* one is taken; a session comes up only while somebody waits for it.      *)
LEMMA StepKeepsIdle ==
  ASSUME IInv, DialInv, IdleInv, [Next]_vars
  PROVE  IdleInv'
<1> USE DEF reqVars, slotVars, connVars, lifeVars
<1>1. TypeOK /\ SlotAccounting /\ QueueExact /\ inFlight \in Nat
  BY DEF IInv, TypeOK
<1>2. ASSUME NEW r \in SlotHolders PROVE inFlight > 0
  BY <1>1, <1>2, HoldersFinite, FS_EmptySet, FS_CardinalityType DEF SlotAccounting
<1>3. ASSUME UNCHANGED <<session, idleTimer, closed>>, inFlight' = inFlight \/ inFlight' > 0 PROVE IdleInv'
  BY <1>3 DEF IdleInv
<1>4. ASSUME NEW r \in Requests, Request(r) PROVE IdleInv'
  BY <1>1, <1>3, <1>4 DEF Request, AcquireSlot
<1>5. ASSUME NEW r \in Requests, Abort(r) PROVE IdleInv'
  BY <1>3, <1>5 DEF Abort
<1>6. ASSUME NEW r \in Requests, Proceed(r) PROVE IdleInv'
  <2>1. CASE closed
    BY <1>6, <2>1 DEF Proceed, IdleInv
  <2>2. CASE ~closed
    <3>1. r \in SlotHolders /\ inFlight' = inFlight
      BY <1>6, <2>2 DEF Proceed, SlotHolders, SlotStates
    <3> QED
      BY <1>2, <3>1 DEF IdleInv
  <2> QED
    BY <2>1, <2>2
<1>7. ASSUME NEW r \in Requests, Dispatch(r) PROVE IdleInv'
  <2>1. r \in SlotHolders /\ inFlight' = inFlight
    BY <1>7 DEF Dispatch, SlotHolders, SlotStates
  <2> QED
    BY <1>2, <2>1 DEF IdleInv
<1>8. ASSUME NEW r \in Requests, DispatchAgain(r) PROVE IdleInv'
  BY <1>3, <1>8 DEF DispatchAgain
<1>9. ASSUME NEW r \in Requests, Finish(r) PROVE IdleInv'
  BY <1>9 DEF Finish, ScheduleIdleTimer, IdleInv
<1>10. ASSUME NEW r \in Requests, StreamEvent(r) PROVE IdleInv'
  BY <1>3, <1>10 DEF StreamEvent, StreamEnd, StreamError, StreamTimeout, StreamSettles
<1>11. ASSUME NEW s \in Sessions, SessionEvent(s) PROVE IdleInv'
  BY <1>11 DEF SessionEvent, Settings, GoAway, SessionDestroyed, SessionClosed, DropSession, IdleInv
<1>12. CASE Connect
  <2>1. PICK r : r \in DialWaiters
    BY <1>12 DEF Connect, DialInv
  <2>2. inFlight > 0 /\ inFlight' = inFlight
    BY <1>2, <1>12, <2>1, WaitersHold DEF Connect
  <2> QED
    BY <2>2 DEF IdleInv
<1>13. CASE ConnectFails \/ DialFinally \/ ForcedDestroy \/ UNCHANGED vars
  BY <1>3, <1>13 DEF ConnectFails, DialFinally, ForcedDestroy, vars
<1>14. CASE IdleTimeout
  BY <1>1, <1>14 DEF IdleTimeout, IdleInv
<1>15. CASE Close
  BY <1>15 DEF Close, IdleInv
<1> QED
  BY <1>4, <1>5, <1>6, <1>7, <1>8, <1>9, <1>10, <1>11, <1>12, <1>13, <1>14, <1>15 DEF Next, Continue, Terminated

LEMMA SessionInvariant == Spec => []SessionInv
<1>1. Init => SessionInv
  <2> SUFFICES ASSUME Init PROVE SessionInv
    OBVIOUS
  <2>1. DialInv /\ IdleInv
    BY DEF Init, DialInv, IdleInv
  <2> QED
    BY <2>1, InitIInv DEF SessionInv
<1>2. SessionInv /\ [Next]_vars => SessionInv'
  <2> SUFFICES ASSUME SessionInv, [Next]_vars PROVE SessionInv'
    OBVIOUS
  <2>1. IInv /\ TypeOK /\ QueueExact /\ DialInv /\ IdleInv
    BY DEF SessionInv, IInv
  <2> QED
    BY <2>1, NextIInv, StepKeepsDial, StepKeepsIdle DEF SessionInv
<1> QED
  BY <1>1, <1>2, PTL DEF Spec

(* Never two sessions that connect or are open, an open one is in the      *)
(* cache, and one that nobody uses has its timer armed (http.ts:180-183;   *)
(* README.md:187 of packages/push).                                        *)
THEOREM OnlyOneSession == Spec => []OneSession
<1>1. SessionInv => OneSession
  <2> SUFFICES ASSUME SessionInv PROVE OneSession
    OBVIOUS
  <2>1. IInv /\ DialInv /\ IdleInv /\ SlotAccounting
    BY DEF SessionInv, IInv
  <2>2. SlotHolders = {} => inFlight = 0
    BY <2>1, FS_EmptySet DEF SlotAccounting
  <2> QED
    BY <2>1, <2>2 DEF OneSession, DialInv, IdleInv
<1> QED
  BY <1>1, SessionInvariant, PTL

(* The idle timer takes the session away only when no request has a slot   *)
(* (the callback of #scheduleIdleTimer, http.ts).                          *)
THEOREM IdleSpares == Spec => IdleSparesBusySession
<1>1. IInv /\ [Next]_vars =>
        [idleTimer /\ ~idleTimer' /\ session # NoSession /\ session' = NoSession /\ ~closed' => SlotHolders = {}]_vars
  <2> SUFFICES ASSUME IInv, [Next]_vars, idleTimer, ~idleTimer', session # NoSession, session' = NoSession, ~closed'
               PROVE  SlotHolders = {}
    OBVIOUS
  <2> USE DEF reqVars, slotVars, connVars, lifeVars
  <2>1. CASE IdleTimeout
    <3>1. inFlight = 0
      BY <2>1 DEF IdleTimeout
    <3> QED
      BY <3>1, HoldersFinite, FS_EmptySet DEF IInv, SlotAccounting
  <2>2. idleTimer' = idleTimer \/ session' = session \/ closed' \/ IdleTimeout
    BY DEF Next, Continue, Request, Abort, Proceed, Dispatch, DispatchAgain, Finish, EnsureSession, JoinOrDial, Dial,
           StreamEvent, StreamEnd, StreamError, StreamTimeout, StreamSettles, SessionEvent, Settings, GoAway,
           SessionDestroyed, SessionClosed, Connect, ConnectFails, DialFinally, Close, ForcedDestroy, Terminated, vars
  <2> QED
    BY <2>1, <2>2
<1> QED
  BY <1>1, Invariance, PTL DEF Spec, IdleSparesBusySession

=============================================================================
