--------------------------- MODULE TokenStoreProofs ---------------------------
(***************************************************************************)
(* Theorems about TokenStore, for every set of emissions, tokens and       *)
(* activities, and on every runtime.                                       *)
(***************************************************************************)
EXTENDS TokenStore, TLAPS

-----------------------------------------------------------------------------
(* Records and stores.                                                     *)

LEMMA RecordFacts ==
  /\ NoRecord \in Records
  /\ \A l \in Lifecycles, n \in Nat : [life |-> l, at |-> n] \in Records
  /\ \A l \in Lifecycles, n \in Nat : [life |-> l, at |-> n] # NoRecord
  /\ \A r \in Records, l \in Lifecycles :
       r.life # "none" => [r EXCEPT !.life = l] \in Records /\ r # NoRecord
<1>1. NoRecord \in Records
  BY DEF Records
<1>2. \A l \in Lifecycles, n \in Nat : [life |-> l, at |-> n] \in Records
  BY DEF Records
<1>3. \A l \in Lifecycles, n \in Nat : [life |-> l, at |-> n] # NoRecord
  BY DEF Lifecycles, NoRecord
<1>4. ASSUME NEW r \in Records, NEW l \in Lifecycles, r.life # "none"
      PROVE  [r EXCEPT !.life = l] \in Records /\ r # NoRecord
  <2>1. r # NoRecord
    BY <1>4 DEF NoRecord
  <2>2. r \in [life : Lifecycles, at : Nat]
    BY <2>1, <1>4 DEF Records
  <2>3. [r EXCEPT !.life = l] \in [life : Lifecycles, at : Nat]
    BY <2>2
  <2> QED
    BY <2>1, <2>3 DEF Records
<1> QED
  BY <1>1, <1>2, <1>3, <1>4

(* The durable part of a store is a store and has no other part.           *)
LEMMA DurableFacts ==
  /\ Empty \in Stores /\ Durable(Empty) = Empty
  /\ \A rs \in Stores : Durable(rs) \in Stores /\ Durable(Durable(rs)) = Durable(rs)
BY RecordFacts DEF Empty, Durable, Stores

(* Tail keeps the last element, Append makes a new one.                    *)
LEMMA QueueFacts ==
  ASSUME NEW S, NEW q \in Seq(S), NEW x \in S
  PROVE  /\ Append(q, x) \in Seq(S) /\ Append(q, x) # <<>> /\ Last(Append(q, x)) = x
         /\ q # <<>> => /\ Head(q) \in S /\ Tail(q) \in Seq(S)
                        /\ IF Tail(q) = <<>> THEN Head(q) = Last(q)
                                             ELSE Last(Tail(q)) = Last(q)
<1>0. Append(q, x) \in Seq(S) /\ Len(Append(q, x)) = Len(q) + 1
  OBVIOUS
<1>1. Append(q, x) # <<>>
  BY <1>0, Len(<<>>) = 0, Len(q) \in Nat
<1>2. Last(Append(q, x)) = x
  BY DEF Last
<1>3. ASSUME q # <<>>
      PROVE  /\ Head(q) \in S /\ Tail(q) \in Seq(S)
             /\ IF Tail(q) = <<>> THEN Head(q) = Last(q) ELSE Last(Tail(q)) = Last(q)
  <2>1. Head(q) \in S /\ Tail(q) \in Seq(S) /\ Len(Tail(q)) = Len(q) - 1 /\ Len(q) > 0
    BY <1>3
  <2>2. CASE Tail(q) = <<>>
    BY <2>1, <2>2 DEF Last
  <2>3. CASE Tail(q) # <<>>
    <3>1. Len(Tail(q)) > 0
      BY <2>1, <2>3
    <3>2. Tail(q)[Len(Tail(q))] = q[Len(q)]
      BY <1>3, <2>1, <3>1
    <3> QED
      BY <2>1, <2>3, <3>2 DEF Last
  <2> QED
    BY <2>1, <2>2, <2>3
<1> QED
  BY <1>0, <1>1, <1>2, <1>3

-----------------------------------------------------------------------------
(* Types.                                                                  *)

LEMMA TypeInit == Init => TypeOK
<1> SUFFICES ASSUME Init PROVE TypeOK
  OBVIOUS
<1>1. disk \in Stores
  BY RecordFacts DEF Init, Stores, Lifecycles
<1>2. saving \in Seq(Stores) /\ records \in Stores
  BY DurableFacts DEF Init
<1> QED
  BY <1>1, <1>2 DEF Init, TypeOK

(* A scheduled save keeps the types of the flag and the timer.             *)
LEMMA ScheduleType ==
  ASSUME TypeOK, scheduleSave
  PROVE  saveQueued' \in BOOLEAN /\ saveTimer' \in BOOLEAN
BY DEF TypeOK, scheduleSave

LEMMA PutType ==
  ASSUME TypeOK, NEW t \in Tokens, NEW h \in Hashes, Put(t, h)
  PROVE  /\ now' \in Nat /\ records' \in Stores
         /\ saveQueued' \in BOOLEAN /\ saveTimer' \in BOOLEAN
<1>1. now' \in Nat /\ [life |-> "active", at |-> now + 1] \in Records
  BY RecordFacts DEF Put, TypeOK, Lifecycles
<1>2. records' \in Stores
  BY <1>1 DEF Put, TypeOK, Stores
<1> QED
  BY <1>1, <1>2, ScheduleType DEF Put, TypeOK, saveVars

LEMMA HashType ==
  ASSUME TypeOK, NEW e \in Emissions, NEW node \in BOOLEAN, Hash(e, node)
  PROVE  /\ pc' \in [Emissions -> {"idle", "importing", "digesting", "done"}]
         /\ now' \in Nat /\ records' \in Stores
         /\ saveQueued' \in BOOLEAN /\ saveTimer' \in BOOLEAN
<1>1. TokenOf[e] \in Tokens /\ HashWith(node) \in Hashes
  BY StoreAssumption DEF HashWith, Hashes
<1>2. pc' \in [Emissions -> {"idle", "importing", "digesting", "done"}]
  BY DEF Hash, TypeOK
<1>3. CASE Put(TokenOf[e], HashWith(node))
  BY <1>1, <1>2, <1>3, PutType
<1>4. CASE UNCHANGED <<now, records, saveVars>>
  BY <1>2, <1>4 DEF TypeOK, saveVars
<1> QED
  BY <1>3, <1>4 DEF Hash

LEMMA TransitionType ==
  ASSUME TypeOK, NEW S \in SUBSET Keys, NEW next \in Lifecycles, transition(S, next)
  PROVE  records' \in Stores /\ saveQueued' \in BOOLEAN /\ saveTimer' \in BOOLEAN
<1> DEFINE hit == {k \in S : records[k].life \notin {"none", next}}
<1>1. CASE UNCHANGED <<records, saveVars>>
  BY <1>1 DEF TypeOK, saveVars
<1>2. CASE /\ records' = [k \in Keys |->
                 IF k \in hit THEN [records[k] EXCEPT !.life = next] ELSE records[k]]
           /\ scheduleSave
  <2>1. \A k \in Keys : records[k] \in Records
    BY DEF TypeOK, Stores
  <2>2. \A k \in hit : records[k] \in Records /\ records[k].life # "none"
    BY <2>1
  <2>3. \A k \in hit : [records[k] EXCEPT !.life = next] \in Records
    BY <2>2, RecordFacts
  <2>4. records' \in Stores
    BY <1>2, <2>1, <2>3 DEF Stores
  <2> QED
    BY <1>2, <2>4, ScheduleType
<1> QED
  BY <1>1, <1>2 DEF transition

LEMMA TypeUpsert ==
  ASSUME TypeOK, NEW e \in Emissions, Upsert(e)
  PROVE  TypeOK'
<1>1. /\ pc' \in [Emissions -> {"idle", "importing", "digesting", "done"}]
      /\ now' \in Nat /\ records' \in Stores
      /\ saveQueued' \in BOOLEAN /\ saveTimer' \in BOOLEAN
      /\ probe' \in {"untried", "importing", "node", "absent"}
  <2>1. CASE Emit(e)
    <3>1. CASE Hash(e, probe = "node") /\ UNCHANGED probe
      <4>1. (probe = "node") \in BOOLEAN
        OBVIOUS
      <4> QED
        BY <3>1, <4>1, HashType DEF TypeOK
    <3>2. CASE /\ probe' = "importing"
               /\ pc' = [pc EXCEPT ![e] = "importing"]
               /\ UNCHANGED <<now, records, saveVars>>
      BY <3>2 DEF TypeOK, saveVars
    <3> QED
      BY <2>1, <3>1, <3>2 DEF Emit
  <2>2. CASE ImportSettles(e)
    <3>1. HasNodeCrypto \in BOOLEAN
      BY StoreAssumption
    <3> QED
      BY <2>2, <3>1, HashType DEF ImportSettles
  <2>3. CASE DigestSettles(e)
    <3>1. TokenOf[e] \in Tokens /\ "sha256" \in Hashes
      BY StoreAssumption DEF Hashes
    <3>2. /\ now' \in Nat /\ records' \in Stores
          /\ saveQueued' \in BOOLEAN /\ saveTimer' \in BOOLEAN
      BY <2>3, <3>1, PutType DEF DigestSettles
    <3>3. pc' \in [Emissions -> {"idle", "importing", "digesting", "done"}] /\ probe' = probe
      BY <2>3 DEF DigestSettles, TypeOK
    <3> QED
      BY <3>2, <3>3 DEF TypeOK
  <2> QED
    BY <2>1, <2>2, <2>3 DEF Upsert
<1>2. ended' \subseteq Tokens
  BY DEF Upsert, Emit, ImportSettles, DigestSettles, TypeOK
<1>3. UNCHANGED <<hydration, clearing, clearAwaits, diskVars, restarts>>
  BY DEF Upsert, Emit, ImportSettles, DigestSettles
<1> QED
  BY <1>1, <1>2, <1>3 DEF TypeOK, diskVars

LEMMA TypeLifecycle ==
  ASSUME TypeOK,
         \/ \E a \in Activities : markEnding(a) \/ markDead(a)
         \/ \E t \in Tokens : markDeadByToken(t)
  PROVE  TypeOK'
<1>1. "ending" \in Lifecycles /\ "dead" \in Lifecycles
  BY DEF Lifecycles
<1>2. /\ \A a \in Activities : KeysOfActivity(a) \in SUBSET Keys
      /\ \A t \in Tokens : {t} \X Hashes \in SUBSET Keys
  BY DEF KeysOfActivity, Keys
<1>3. records' \in Stores /\ saveQueued' \in BOOLEAN /\ saveTimer' \in BOOLEAN
  <2>1. CASE \E a \in Activities : markEnding(a)
    BY <1>1, <1>2, <2>1, TransitionType DEF markEnding
  <2>2. CASE \E a \in Activities : markDead(a)
    BY <1>1, <1>2, <2>2, TransitionType DEF markDead
  <2>3. CASE \E t \in Tokens : markDeadByToken(t)
    BY <1>1, <1>2, <2>3, TransitionType DEF markDeadByToken
  <2> QED
    BY <2>1, <2>2, <2>3
<1>4. ended' \subseteq Tokens
  BY DEF markEnding, markDead, markDeadByToken, TypeOK
<1>5. UNCHANGED <<callVars, now, hydration, clearing, clearAwaits, diskVars, restarts>>
  BY DEF markEnding, markDead, markDeadByToken
<1> QED
  BY <1>3, <1>4, <1>5 DEF TypeOK, callVars, diskVars

LEMMA TypeClear ==
  ASSUME TypeOK, clearDead \/ clearAll
  PROVE  TypeOK'
<1>1. \A k \in Keys : records[k] \in Records
  BY DEF TypeOK, Stores
<1>2. records' \in Stores
  <2>1. CASE clearDead
    BY <1>1, <2>1, RecordFacts DEF clearDead, Stores
  <2>2. CASE clearAll
    BY <2>2, DurableFacts DEF clearAll, TypeOK
  <2> QED
    BY <2>1, <2>2
<1>3. saveQueued' \in BOOLEAN /\ saveTimer' \in BOOLEAN
  BY ScheduleType DEF clearDead, clearAll, TypeOK, saveVars
<1>4. clearAwaits' \in Nat /\ clearing' \in {"idle", "waiting", "done"}
  <2>1. Len(saving) \in Nat
    BY DEF TypeOK
  <2> QED
    BY <2>1 DEF clearDead, clearAll, TypeOK
<1>5. UNCHANGED <<callVars, now, hydration, diskVars, ended, restarts>>
  BY DEF clearDead, clearAll
<1> QED
  BY <1>2, <1>3, <1>4, <1>5 DEF TypeOK, callVars, diskVars

LEMMA TypeStorage ==
  ASSUME TypeOK, LoadResolves \/ LoadRejects \/ SaveTimer \/ SaveSettles \/ Restart
  PROVE  TypeOK'
<1>0. \A k \in Keys : records[k] \in Records /\ disk[k] \in Records
  BY DEF TypeOK, Stores
<1>1. CASE LoadResolves
  <2>1. records' \in Stores
    BY <1>0, <1>1 DEF LoadResolves, MergeLoaded, Stores
  <2>2. saveQueued' \in BOOLEAN /\ saveTimer' \in BOOLEAN
    BY <1>1 DEF LoadResolves, finishHydration, TypeOK, saveVars
  <2> QED
    BY <1>1, <2>1, <2>2 DEF LoadResolves, TypeOK, callVars, diskVars
<1>2. CASE LoadRejects
  <2>1. saveQueued' \in BOOLEAN /\ saveTimer' \in BOOLEAN
    BY <1>2 DEF LoadRejects, finishHydration, TypeOK, saveVars
  <2> QED
    BY <1>2, <2>1 DEF LoadRejects, TypeOK, callVars, diskVars
<1>3. CASE SaveTimer
  <2>1. saving' \in Seq(Stores)
    BY <1>3, DurableFacts, QueueFacts DEF SaveTimer, TypeOK
  <2> QED
    BY <1>3, <2>1 DEF SaveTimer, TypeOK, callVars
<1>4. CASE SaveSettles
  <2>1. Head(saving) \in Stores /\ saving' \in Seq(Stores)
    BY <1>4, QueueFacts, DurableFacts DEF SaveSettles, TypeOK
  <2>2. disk' \in Stores /\ saveFailed' \in BOOLEAN
    BY <1>4, <2>1 DEF SaveSettles, TypeOK
  <2>3. clearAwaits' \in Nat /\ clearing' \in {"idle", "waiting", "done"}
    BY <1>4 DEF SaveSettles, TypeOK
  <2> QED
    BY <1>4, <2>1, <2>2, <2>3 DEF SaveSettles, TypeOK, callVars, saveVars
<1>5. CASE Restart
  <2>1. \A i \in 1..Len(saving) : saving[i] \in Stores
    BY DEF TypeOK
  <2>2. disk' \in Stores
    BY <1>5, <2>1 DEF Restart, TypeOK
  <2>3. records' \in Stores /\ saving' \in Seq(Stores)
    BY <1>5, DurableFacts DEF Restart
  <2>4. pc' \in [Emissions -> {"idle", "importing", "digesting", "done"}]
    BY <1>5 DEF Restart
  <2>5. ended' \subseteq Tokens
    BY <1>5 DEF Restart
  <2>6. /\ probe' \in {"untried", "importing", "node", "absent"}
        /\ hydration' \in {"loading", "loaded", "failed"}
        /\ clearing' \in {"idle", "waiting", "done"}
    BY <1>5 DEF Restart
  <2>7. saveQueued' \in BOOLEAN /\ saveTimer' \in BOOLEAN /\ saveFailed' \in BOOLEAN
    BY <1>5 DEF Restart
  <2>8. now' \in Nat /\ clearAwaits' \in Nat /\ restarts' \in Nat
    BY <1>5 DEF Restart, TypeOK
  <2> QED
    BY <2>2, <2>3, <2>4, <2>5, <2>6, <2>7, <2>8 DEF TypeOK
<1> QED
  BY <1>1, <1>2, <1>3, <1>4, <1>5

LEMMA TypeNext == TypeOK /\ [Next]_vars => TypeOK'
<1> SUFFICES ASSUME TypeOK, [Next]_vars PROVE TypeOK'
  OBVIOUS
<1>1. CASE UNCHANGED vars
  BY <1>1 DEF vars, TypeOK, callVars, saveVars, diskVars
<1> QED
  BY <1>1, TypeUpsert, TypeLifecycle, TypeClear, TypeStorage DEF Next

(* The state of the store has the declared types.                          *)
THEOREM TypeCorrect == Spec => []TypeOK
BY TypeInit, TypeNext, PTL DEF Spec

-----------------------------------------------------------------------------
(* Storage catches up.                                                     *)

(* What a pending save, a queued save or storage itself owes to the        *)
(* durable records.  While storage is loading nothing is under way, and    *)
(* without a queued save there is nothing durable in memory; afterwards    *)
(* the newest snapshot on its way is the durable part of the records.      *)
WhileLoading ==
  hydration = "loading" =>
    /\ saving = <<>> /\ ~saveTimer
    /\ ~saveQueued => Durable(records) = Empty

NewestSnapshot ==
  hydration = "loaded" /\ ~saveTimer =>
    IF saving = <<>> THEN ~saveFailed => disk = Durable(records)
                     ELSE Last(saving) = Durable(records)

SaveInv ==
  /\ TypeOK
  /\ WhileLoading
  /\ NewestSnapshot
  /\ hydration # "loading" => ~saveQueued
  /\ Durable(disk) = disk
  /\ \A i \in 1..Len(saving) : Durable(saving[i]) = saving[i]

LEMMA SaveInit == Init => SaveInv
<1> SUFFICES ASSUME Init PROVE SaveInv
  OBVIOUS
<1>1. Durable(disk) = disk
  BY DEF Init, Durable
<1>2. Durable(records) = Empty
  BY DurableFacts DEF Init
<1>3. WhileLoading /\ NewestSnapshot
  BY <1>2 DEF Init, WhileLoading, NewestSnapshot
<1>4. saving = <<>> /\ hydration = "loading"
  BY DEF Init
<1> QED
  BY TypeInit, <1>1, <1>3, <1>4 DEF SaveInv

(* What the calls of the store do to what is saved: nothing durable        *)
(* changes, or a save is scheduled.                                        *)
MutationSaved ==
  /\ UNCHANGED <<hydration, saving, disk, saveFailed>>
  /\ \/ scheduleSave
     \/ UNCHANGED saveVars /\ Durable(records') = Durable(records)

LEMMA PutSaved ==
  ASSUME TypeOK, NEW t \in Tokens, NEW h \in Hashes, Put(t, h)
  PROVE  scheduleSave \/ (UNCHANGED saveVars /\ Durable(records') = Durable(records))
<1>1. CASE t \notin Persisted
  <2>1. \A k \in Keys : k[1] \in Persisted => records'[k] = records[k]
    BY <1>1 DEF Put, TypeOK, Stores, Keys
  <2> QED
    BY <1>1, <2>1 DEF Put, Durable
<1> QED
  BY <1>1 DEF Put

LEMMA UpsertSaved ==
  ASSUME TypeOK, NEW e \in Emissions, Upsert(e)
  PROVE  MutationSaved
<1>1. UNCHANGED <<hydration, saving, disk, saveFailed>>
  BY DEF Upsert, Emit, ImportSettles, DigestSettles, diskVars
<1>2. TokenOf[e] \in Tokens /\ "sha256" \in Hashes /\ \A n \in BOOLEAN : HashWith(n) \in Hashes
  BY StoreAssumption DEF HashWith, Hashes
<1>3. \/ UNCHANGED <<records, saveVars>>
      \/ \E h \in Hashes : Put(TokenOf[e], h)
  <2>1. (probe = "node") \in BOOLEAN /\ HasNodeCrypto \in BOOLEAN
    BY StoreAssumption
  <2> QED
    BY <1>2, <2>1 DEF Upsert, Emit, ImportSettles, DigestSettles, Hash
<1> QED
  BY <1>1, <1>2, <1>3, PutSaved DEF MutationSaved

LEMMA LifecycleSaved ==
  ASSUME \/ \E a \in Activities : markEnding(a) \/ markDead(a)
         \/ \E t \in Tokens : markDeadByToken(t)
  PROVE  MutationSaved
BY DEF markEnding, markDead, markDeadByToken, transition, MutationSaved, diskVars

LEMMA ClearSaved ==
  ASSUME clearDead \/ clearAll
  PROVE  MutationSaved
BY DEF clearDead, clearAll, MutationSaved, diskVars

LEMMA MutationKeepsSaveInv ==
  ASSUME SaveInv, TypeOK', MutationSaved
  PROVE  SaveInv'
<1>1. CASE scheduleSave
  <2>1. WhileLoading'
    BY <1>1 DEF scheduleSave, MutationSaved, SaveInv, WhileLoading
  <2>2. NewestSnapshot'
    BY <1>1 DEF scheduleSave, MutationSaved, SaveInv, NewestSnapshot
  <2>3. hydration' # "loading" => ~saveQueued'
    BY <1>1 DEF scheduleSave, MutationSaved, SaveInv
  <2> QED
    BY <2>1, <2>2, <2>3 DEF SaveInv, MutationSaved
<1>2. CASE UNCHANGED saveVars /\ Durable(records') = Durable(records)
  BY <1>2 DEF MutationSaved, SaveInv, WhileLoading, NewestSnapshot, saveVars
<1> QED
  BY <1>1, <1>2 DEF MutationSaved

LEMMA LoadKeepsSaveInv ==
  ASSUME SaveInv, TypeOK', LoadResolves \/ LoadRejects
  PROVE  SaveInv'
<1>1. saving = <<>> /\ ~saveTimer /\ (~saveQueued => Durable(records) = Empty)
  BY DEF LoadResolves, LoadRejects, SaveInv, WhileLoading
<1>2. UNCHANGED <<saving, disk, saveFailed>> /\ ~saveQueued' /\ saveTimer' = saveQueued
  BY <1>1 DEF LoadResolves, LoadRejects, finishHydration, saveVars, diskVars, SaveInv, TypeOK
<1>3. hydration' # "loading"
  BY DEF LoadResolves, LoadRejects
<1>4. ASSUME LoadResolves, ~saveQueued
      PROVE  disk = Durable(records')
  <2>1. \A k \in Keys : k[1] \in Persisted => records[k] = NoRecord
    BY <1>1, <1>4 DEF Durable, Empty
  <2>2. Durable(records') = Durable(disk)
    BY <1>4, <2>1 DEF LoadResolves, MergeLoaded, Durable
  <2> QED
    BY <2>2 DEF SaveInv
<1>5. hydration' = "loaded" => LoadResolves
  BY DEF LoadRejects
<1>6. NewestSnapshot'
  BY <1>1, <1>2, <1>4, <1>5 DEF NewestSnapshot
<1>7. WhileLoading'
  BY <1>3 DEF WhileLoading
<1> QED
  BY <1>1, <1>2, <1>6, <1>7 DEF SaveInv

LEMMA SaveTimerKeepsSaveInv ==
  ASSUME SaveInv, TypeOK', SaveTimer
  PROVE  SaveInv'
<1>1. Durable(records) \in Stores /\ Durable(Durable(records)) = Durable(records)
  BY DurableFacts DEF SaveInv, TypeOK
<1>2. /\ saving' # <<>> /\ Last(saving') = Durable(records)
      /\ UNCHANGED <<records, hydration, saveQueued, disk>>
  BY <1>1, QueueFacts DEF SaveTimer, SaveInv, TypeOK
<1>3. hydration # "loading"
  BY DEF SaveTimer, SaveInv, WhileLoading
<1>4. \A i \in 1..Len(saving') : Durable(saving'[i]) = saving'[i]
  <2>1. saving' = Append(saving, Durable(records)) /\ saving \in Seq(Stores)
    BY DEF SaveTimer, SaveInv, TypeOK
  <2>2. \A i \in 1..Len(saving') :
          \/ i \in 1..Len(saving) /\ saving'[i] = saving[i]
          \/ saving'[i] = Durable(records)
    BY <1>1, <2>1
  <2> QED
    BY <1>1, <2>2 DEF SaveInv
<1>5. NewestSnapshot' /\ WhileLoading'
  BY <1>2, <1>3 DEF NewestSnapshot, WhileLoading
<1> QED
  BY <1>2, <1>4, <1>5 DEF SaveInv

LEMMA SaveSettlesKeepsSaveInv ==
  ASSUME SaveInv, TypeOK', SaveSettles
  PROVE  SaveInv'
<1>1. /\ saving # <<>> /\ saving \in Seq(Stores) /\ saving' = Tail(saving)
      /\ UNCHANGED <<records, hydration, saveQueued, saveTimer>>
  BY DEF SaveSettles, SaveInv, TypeOK, saveVars
<1>2. IF saving' = <<>> THEN Head(saving) = Last(saving) ELSE Last(saving') = Last(saving)
  BY <1>1, QueueFacts, DurableFacts
<1>3. hydration # "loading"
  BY <1>1 DEF SaveInv, WhileLoading
<1>4. NewestSnapshot'
  BY <1>1, <1>2 DEF SaveSettles, NewestSnapshot, SaveInv
<1>5. Head(saving) = saving[1] /\ \A i \in 1..Len(saving') : saving'[i] = saving[i + 1]
  BY <1>1
<1>6. Len(saving) \in Nat /\ Len(saving) > 0 /\ Len(saving') = Len(saving) - 1
  BY <1>1
<1>7. /\ Durable(disk') = disk'
      /\ \A i \in 1..Len(saving') : Durable(saving'[i]) = saving'[i]
  <2>1. Durable(Head(saving)) = Head(saving)
    BY <1>5, <1>6 DEF SaveInv
  <2>2. \A i \in 1..Len(saving') : i + 1 \in 1..Len(saving)
    BY <1>6
  <2>3. Durable(disk') = disk'
    BY <2>1 DEF SaveSettles, SaveInv
  <2>4. \A i \in 1..Len(saving') : Durable(saving[i + 1]) = saving[i + 1]
    BY <2>2 DEF SaveInv
  <2> QED
    BY <1>5, <2>3, <2>4
<1> QED
  BY <1>1, <1>3, <1>4, <1>7 DEF SaveInv, WhileLoading

LEMMA RestartKeepsSaveInv ==
  ASSUME SaveInv, TypeOK', Restart
  PROVE  SaveInv'
<1>1. /\ hydration' = "loading" /\ saving' = <<>> /\ saveTimer' = FALSE
      /\ records' = Empty
  BY DEF Restart
<1>2. Durable(disk') = disk'
  BY DEF Restart, SaveInv
<1>3. WhileLoading' /\ NewestSnapshot'
  BY <1>1, DurableFacts DEF WhileLoading, NewestSnapshot
<1>4. \A i \in 1..Len(saving') : Durable(saving'[i]) = saving'[i]
  BY <1>1
<1> QED
  BY <1>1, <1>2, <1>3, <1>4 DEF SaveInv

LEMMA SaveNext == SaveInv /\ [Next]_vars => SaveInv'
<1> SUFFICES ASSUME SaveInv, [Next]_vars PROVE SaveInv'
  OBVIOUS
<1>0. TypeOK /\ TypeOK'
  BY TypeNext DEF SaveInv
<1>1. CASE UNCHANGED vars
  BY <1>0, <1>1
     DEF vars, SaveInv, WhileLoading, NewestSnapshot, saveVars, diskVars
<1>2. CASE \/ \E e \in Emissions : Upsert(e)
           \/ \E a \in Activities : markEnding(a) \/ markDead(a)
           \/ \E t \in Tokens : markDeadByToken(t)
           \/ clearDead \/ clearAll
  <2>1. MutationSaved
    BY <1>0, <1>2, UpsertSaved, LifecycleSaved, ClearSaved
  <2> QED
    BY <1>0, <2>1, MutationKeepsSaveInv
<1>3. CASE LoadResolves \/ LoadRejects
  BY <1>0, <1>3, LoadKeepsSaveInv
<1>4. CASE SaveTimer
  BY <1>0, <1>4, SaveTimerKeepsSaveInv
<1>5. CASE SaveSettles
  BY <1>0, <1>5, SaveSettlesKeepsSaveInv
<1>6. CASE Restart
  BY <1>0, <1>6, RestartKeepsSaveInv
<1> QED
  BY <1>1, <1>2, <1>3, <1>4, <1>5, <1>6 DEF Next

(* Once no save is pending storage holds the durable records, unless the   *)
(* last save was rejected (scheduleSave, finishHydration).                 *)
THEOREM DiskHolds == Spec => []DiskCatchesUp
<1>1. SaveInv => DiskCatchesUp
  BY DEF SaveInv, NewestSnapshot, DiskCatchesUp, Quiet
<1> QED
  BY SaveInit, SaveNext, <1>1, PTL DEF Spec

(* While storage is loading nothing is written to it.                      *)
THEOREM LoadingIsSafe == Spec => LoadingSparesDisk
<1>1. ASSUME SaveInv, [Next]_vars, hydration = "loading", hydration' = "loading"
      PROVE  disk' = disk
  <2>1. saving = <<>> /\ ~saveTimer
    BY <1>1 DEF SaveInv, WhileLoading
  <2>2. CASE UNCHANGED vars
    BY <2>2 DEF vars, diskVars
  <2>3. CASE \/ \E e \in Emissions : Upsert(e)
             \/ \E a \in Activities : markEnding(a) \/ markDead(a)
             \/ \E t \in Tokens : markDeadByToken(t)
             \/ clearDead \/ clearAll
    BY <1>1, <2>3, UpsertSaved, LifecycleSaved, ClearSaved DEF MutationSaved, SaveInv
  <2>4. CASE LoadResolves \/ LoadRejects \/ SaveTimer \/ SaveSettles
    BY <1>1, <2>1, <2>4 DEF LoadResolves, LoadRejects, SaveTimer, SaveSettles
  <2>5. CASE Restart
    BY <2>1, <2>5 DEF Restart
  <2> QED
    BY <1>1, <2>2, <2>3, <2>4, <2>5 DEF Next
<1>2. SaveInv /\ [Next]_vars =>
        [hydration = "loading" /\ hydration' = "loading" => disk' = disk]_vars
  BY <1>1
<1> QED
  BY SaveInit, SaveNext, <1>2, PTL DEF Spec, LoadingSparesDisk

(* A record the app has when the loaded ones arrive is kept as it is, also *)
(* when the load is rejected (MergeLoaded, index.ts:148-151).              *)
THEOREM LiveRecordsWin == Spec => LiveBeatsLoaded
<1>1. ASSUME [Next]_vars, hydration = "loading", hydration' # "loading",
             NEW k \in Keys, records[k] # NoRecord
      PROVE  records'[k] = records[k]
  <2>1. CASE LoadResolves
    BY <1>1, <2>1 DEF LoadResolves, MergeLoaded
  <2>2. CASE LoadRejects
    BY <2>2 DEF LoadRejects
  <2>3. \/ UNCHANGED vars \/ SaveTimer \/ SaveSettles \/ Restart
        \/ \E e \in Emissions : Upsert(e)
        \/ \E a \in Activities : markEnding(a) \/ markDead(a)
        \/ \E t \in Tokens : markDeadByToken(t)
        \/ clearDead \/ clearAll
        => hydration' = hydration \/ hydration' = "loading"
    BY DEF vars, SaveTimer, SaveSettles, Restart, Upsert, Emit, ImportSettles, DigestSettles,
           markEnding, markDead, markDeadByToken, clearDead, clearAll
  <2> QED
    BY <1>1, <2>1, <2>2, <2>3 DEF Next
<1>2. [Next]_vars => [hydration = "loading" /\ hydration' # "loading" =>
                        \A k \in Keys : records[k] # NoRecord => records'[k] = records[k]]_vars
  BY <1>1
<1> QED
  BY <1>2, PTL DEF Spec, LiveBeatsLoaded

-----------------------------------------------------------------------------
(* One key per token.                                                      *)

(* No store holds a record under a key of the fallback hash.               *)
NoFallbackIn(rs) == \A t \in Tokens : rs[<<t, "fnv1a">>] = NoRecord

KeyInv ==
  /\ TypeOK
  /\ NoFallbackIn(records) /\ NoFallbackIn(disk)
  /\ \A i \in 1..Len(saving) : NoFallbackIn(saving[i])

LEMMA KeyFacts ==
  \A t \in Tokens, h \in Hashes : <<t, h>> \in Keys
BY DEF Keys

LEMMA KeyInit == HasSubtle /\ Init => KeyInv
<1> SUFFICES ASSUME HasSubtle, Init PROVE KeyInv
  OBVIOUS
<1>1. HashWith(HasNodeCrypto) = "sha256"
  BY DEF HashWith
<1>2. NoFallbackIn(disk)
  BY <1>1, KeyFacts DEF Init, NoFallbackIn, Hashes
<1>3. NoFallbackIn(records)
  BY KeyFacts DEF Init, Empty, NoFallbackIn, Hashes
<1>4. saving = <<>>
  BY DEF Init
<1> QED
  BY <1>2, <1>3, <1>4, TypeInit DEF KeyInv

LEMMA PutKeepsKeys ==
  ASSUME TypeOK, NoFallbackIn(records), NEW t \in Tokens, Put(t, "sha256")
  PROVE  NoFallbackIn(records')
<1>1. \A u \in Tokens : <<u, "fnv1a">> \in Keys /\ <<u, "fnv1a">> # <<t, "sha256">>
  BY KeyFacts DEF Hashes
<1> QED
  BY <1>1 DEF Put, NoFallbackIn, TypeOK, Stores

LEMMA TransitionKeepsKeys ==
  ASSUME TypeOK, NoFallbackIn(records), NEW S \in SUBSET Keys, NEW next, transition(S, next)
  PROVE  NoFallbackIn(records')
<1> DEFINE hit == {k \in S : records[k].life \notin {"none", next}}
<1>0. NoRecord.life = "none"
  BY DEF NoRecord
<1>1. ASSUME NEW t \in Tokens
      PROVE  <<t, "fnv1a">> \in Keys /\ <<t, "fnv1a">> \notin hit
  <2>1. <<t, "fnv1a">> \in Keys
    BY KeyFacts DEF Hashes
  <2>2. records[<<t, "fnv1a">>] = NoRecord
    BY DEF NoFallbackIn
  <2> QED
    BY <1>0, <2>1, <2>2
<1>2. CASE records' = [k \in Keys |->
             IF k \in hit THEN [records[k] EXCEPT !.life = next] ELSE records[k]]
  <2>1. \A t \in Tokens : records'[<<t, "fnv1a">>] = records[<<t, "fnv1a">>]
    BY <1>1, <1>2
  <2> QED
    BY <2>1 DEF NoFallbackIn
<1> QED
  BY <1>2 DEF transition

LEMMA CallsKeepKeys ==
  ASSUME KeyInv, HasSubtle,
         \/ \E e \in Emissions : Upsert(e)
         \/ \E a \in Activities : markEnding(a) \/ markDead(a)
         \/ \E t \in Tokens : markDeadByToken(t)
         \/ clearDead \/ clearAll
  PROVE  NoFallbackIn(records')
<1>1. CASE \E e \in Emissions : Upsert(e)
  <2>1. PICK e \in Emissions : Upsert(e)
    BY <1>1
  <2>2. \/ UNCHANGED records
        \/ Put(TokenOf[e], "sha256")
    BY <2>1 DEF Upsert, Emit, ImportSettles, DigestSettles, Hash, HashWith
  <2>3. TokenOf[e] \in Tokens
    BY StoreAssumption
  <2> QED
    BY <2>2, <2>3, PutKeepsKeys DEF KeyInv, NoFallbackIn
<1>2. CASE \/ \E a \in Activities : markEnding(a) \/ markDead(a)
           \/ \E t \in Tokens : markDeadByToken(t)
  <2>1. /\ \A a \in Activities : KeysOfActivity(a) \in SUBSET Keys
        /\ \A t \in Tokens : {t} \X Hashes \in SUBSET Keys
    BY DEF KeysOfActivity, Keys
  <2> QED
    BY <1>2, <2>1, TransitionKeepsKeys DEF KeyInv, markEnding, markDead, markDeadByToken
<1>3. CASE clearDead
  <2>1. \A k \in Keys : records'[k] \in {records[k], NoRecord}
    BY <1>3 DEF clearDead
  <2> QED
    BY <2>1, KeyFacts DEF KeyInv, NoFallbackIn, Hashes
<1>4. CASE clearAll
  <2>1. \A k \in Keys : records'[k] = NoRecord
    BY <1>4 DEF clearAll, Empty
  <2> QED
    BY <2>1, KeyFacts DEF NoFallbackIn, Hashes
<1> QED
  BY <1>1, <1>2, <1>3, <1>4

LEMMA StorageKeepsKeys ==
  ASSUME KeyInv, LoadResolves \/ LoadRejects \/ SaveTimer \/ SaveSettles \/ Restart
  PROVE  /\ NoFallbackIn(records') /\ NoFallbackIn(disk')
         /\ \A i \in 1..Len(saving') : NoFallbackIn(saving'[i])
<1>0. \A t \in Tokens : <<t, "fnv1a">> \in Keys
  BY KeyFacts DEF Hashes
<1>1. CASE LoadResolves \/ LoadRejects
  <2>1. NoFallbackIn(records')
    BY <1>0, <1>1 DEF LoadResolves, LoadRejects, MergeLoaded, KeyInv, NoFallbackIn
  <2> QED
    BY <1>1, <2>1 DEF LoadResolves, LoadRejects, KeyInv, diskVars
<1>2. CASE SaveTimer
  <2>1. NoFallbackIn(Durable(records))
    BY <1>0 DEF KeyInv, NoFallbackIn, Durable
  <2>2. saving' = Append(saving, Durable(records)) /\ saving \in Seq(Stores)
    BY <1>2 DEF SaveTimer, KeyInv, TypeOK
  <2>3. Durable(records) \in Stores
    BY DurableFacts DEF KeyInv, TypeOK
  <2>4. \A i \in 1..Len(saving') :
          \/ i \in 1..Len(saving) /\ saving'[i] = saving[i]
          \/ saving'[i] = Durable(records)
    BY <2>2, <2>3
  <2>5. UNCHANGED <<records, disk>>
    BY <1>2 DEF SaveTimer
  <2> QED
    BY <2>1, <2>4, <2>5 DEF KeyInv
<1>3. CASE SaveSettles
  <2>1. saving \in Seq(Stores) /\ saving # <<>> /\ saving' = Tail(saving)
    BY <1>3 DEF SaveSettles, KeyInv, TypeOK
  <2>2. /\ Head(saving) = saving[1] /\ 1 \in 1..Len(saving)
        /\ \A i \in 1..Len(saving') :
             i + 1 \in 1..Len(saving) /\ saving'[i] = saving[i + 1]
    BY <2>1
  <2>3. NoFallbackIn(disk') /\ records' = records
    BY <1>3, <2>2 DEF SaveSettles, KeyInv
  <2> QED
    BY <2>2, <2>3 DEF KeyInv
<1>4. CASE Restart
  <2>1. NoFallbackIn(records')
    BY <1>0, <1>4 DEF Restart, Empty, NoFallbackIn
  <2>2. NoFallbackIn(disk') /\ saving' = <<>>
    BY <1>4 DEF Restart, KeyInv
  <2> QED
    BY <2>1, <2>2
<1> QED
  BY <1>1, <1>2, <1>3, <1>4

LEMMA KeyNext == HasSubtle /\ KeyInv /\ [Next]_vars => KeyInv'
<1> SUFFICES ASSUME HasSubtle, KeyInv, [Next]_vars PROVE KeyInv'
  OBVIOUS
<1>0. TypeOK'
  BY TypeNext DEF KeyInv
<1>1. CASE UNCHANGED vars
  BY <1>0, <1>1 DEF vars, KeyInv, NoFallbackIn, diskVars
<1>2. CASE \/ \E e \in Emissions : Upsert(e)
           \/ \E a \in Activities : markEnding(a) \/ markDead(a)
           \/ \E t \in Tokens : markDeadByToken(t)
           \/ clearDead \/ clearAll
  <2>1. UNCHANGED <<disk, saving>>
    BY <1>2, UpsertSaved, LifecycleSaved, ClearSaved DEF MutationSaved, KeyInv
  <2> QED
    BY <1>0, <1>2, <2>1, CallsKeepKeys DEF KeyInv
<1>3. CASE LoadResolves \/ LoadRejects \/ SaveTimer \/ SaveSettles \/ Restart
  BY <1>0, <1>3, StorageKeepsKeys DEF KeyInv
<1> QED
  BY <1>1, <1>2, <1>3 DEF Next

(* On a runtime with Web Crypto a token has one key, whichever of its      *)
(* emissions raced the import (hashString).                                *)
THEOREM OneKeyPerToken == ASSUME HasSubtle PROVE Spec => []OneRecordPerToken
<1>1. KeyInv => OneRecordPerToken
  BY DEF KeyInv, NoFallbackIn, OneRecordPerToken, Hashes
<1>2. HasSubtle
  OBVIOUS
<1>3. Init => KeyInv
  BY <1>2, KeyInit
<1>4. KeyInv /\ [Next]_vars => KeyInv'
  BY <1>2, KeyNext
<1> QED
  BY <1>1, <1>3, <1>4, PTL DEF Spec

=============================================================================
