------------------------------ MODULE TokenStore ------------------------------
(***************************************************************************)
(* The token store of packages/tokens (src/packages/tokens/src/index.ts):  *)
(* a map from idempotency key to record, filled by the adapter's events    *)
(* (react.ts), hydrated from storage in the background, and saved by a     *)
(* debounced timer.  The key is an asynchronous hash (hash.ts), so a token *)
(* emission is two steps with other events in between.                     *)
(***************************************************************************)
EXTENDS Integers, FiniteSets, SequencesExt

CONSTANTS
  Emissions,      \* the token events of the adapter, each delivered once
  Tokens,         \* token values
  Activities,     \* Live Activities
  TokenOf,        \* the token each emission carries
  ActivityOf,     \* activityId of a perActivity token, else NoActivity
  NoActivity,
  Persisted,      \* the tokens whose kind is in persistKinds
  HasNodeCrypto,  \* import("node:crypto") succeeds
  HasSubtle,      \* globalThis.crypto.subtle exists
  MaxSaves,       \* bound: storage.save() calls in flight at once
  MaxRestarts     \* bound: times the app is killed and started again

ASSUME StoreAssumption ==
  /\ TokenOf \in [Emissions -> Tokens]
  /\ ActivityOf \in [Tokens -> Activities \cup {NoActivity}]
  /\ NoActivity \notin Activities
  /\ Persisted \subseteq Tokens
  /\ HasNodeCrypto \in BOOLEAN /\ HasSubtle \in BOOLEAN
  /\ MaxSaves \in Nat \ {0} /\ MaxRestarts \in Nat

(* An idempotency key: the token (with its kind and activity) under the    *)
(* hash that computed it.                                                  *)
Hashes == {"sha256", "fnv1a"}
Keys == Tokens \X Hashes

Lifecycles == {"active", "ending", "dead"}
NoRecord == [life |-> "none", at |-> 0]
Records == {NoRecord} \cup [life : Lifecycles, at : Nat]

VARIABLES
  pc,          \* the await each emission's upsert stands at
  probe,       \* nodeProbeAttempted and cachedNodeHash of hash.ts
  records,     \* records: NoRecord where the Map has no entry
  now,         \* clock(): the number of upserts stamped so far
  hydration,   \* loading, loaded or failed; `hydrated` is # "loading"
  saveQueued,  \* saveQueuedDuringHydration
  saveTimer,   \* saveTimer is armed
  saving,      \* snapshots handed to storage.save() and not yet settled
  clearing,    \* where the one clearAll() call stands
  clearAwaits, \* how many saves in flight it still waits for
  disk,        \* what storage holds
  saveFailed,  \* history: the last save to settle was rejected
  ended,       \* history: tokens emitted before their activity ended, and not since
  restarts

callVars == <<pc, probe>>
saveVars == <<saveQueued, saveTimer>>
diskVars == <<saving, disk, saveFailed>>
vars == <<callVars, records, now, hydration, saveVars, clearing, clearAwaits,
          diskVars, ended, restarts>>

Empty == [k \in Keys |-> NoRecord]
Durable(rs) == [k \in Keys |-> IF k[1] \in Persisted THEN rs[k] ELSE NoRecord]

(* hashString once loadNodeHash returned: Node's hash, else Web Crypto's,  *)
(* else the fallback.                                                      *)
HashWith(node) == IF node \/ HasSubtle THEN "sha256" ELSE "fnv1a"

(* Storage holds what an earlier process saved.                            *)
Init ==
  /\ pc = [e \in Emissions |-> "idle"]
  /\ probe = "untried"
  /\ records = Empty
  /\ now = 0
  /\ hydration = "loading"
  /\ saveQueued = FALSE
  /\ saveTimer = FALSE
  /\ saving = <<>>
  /\ clearing = "idle"
  /\ clearAwaits = 0
  /\ \E T \in SUBSET Persisted, l \in {"active", "dead"} :
       disk = [k \in Keys |-> IF k \in T \X {HashWith(HasNodeCrypto)}
                              THEN [life |-> l, at |-> 0] ELSE NoRecord]
  /\ saveFailed = FALSE
  /\ ended = {}
  /\ restarts = 0

-----------------------------------------------------------------------------
(* Saving.                                                                 *)

(* Mutant: forgets a mutation made while storage was loading.              *)
scheduleSaveOnceHydrated ==
  /\ saveTimer' = (saveTimer \/ hydration # "loading")
  /\ UNCHANGED saveQueued

(* Mutant: arms the timer while storage is still loading.                  *)
scheduleSaveAnyway == saveTimer' = TRUE /\ UNCHANGED saveQueued

scheduleSave ==
  \/ hydration = "loading" /\ saveQueued' = TRUE /\ UNCHANGED saveTimer
  \/ hydration # "loading" /\ saveTimer' = TRUE /\ UNCHANGED saveQueued

(* Mutant: fires and leaves the timer armed.                               *)
SaveTimerKept ==
  /\ saveTimer
  /\ Len(saving) < MaxSaves
  /\ saving' = Append(saving, Durable(records))
  /\ UNCHANGED <<callVars, records, now, hydration, saveVars, clearing, clearAwaits,
                 disk, saveFailed, ended, restarts>>

(* The debounce timer fires.  Re-arming it is not a state of its own: an   *)
(* armed timer saves whatever the records are when it fires.               *)
SaveTimer ==
  /\ saveTimer
  /\ Len(saving) < MaxSaves
  /\ saveTimer' = FALSE
  /\ saving' = Append(saving, Durable(records))
  /\ UNCHANGED <<callVars, records, now, hydration, saveQueued, clearing, clearAwaits,
                 disk, saveFailed, ended, restarts>>

(* The oldest save settles: storage writes in order, and a rejection is    *)
(* swallowed.  clearAll() counts the saves it waits for.                   *)
SaveSettles ==
  /\ saving # <<>>
  /\ saving' = Tail(saving)
  /\ \/ disk' = Head(saving) /\ saveFailed' = FALSE
     \/ UNCHANGED disk /\ saveFailed' = TRUE
  /\ clearAwaits' = IF clearAwaits > 0 THEN clearAwaits - 1 ELSE 0
  /\ clearing' = IF clearAwaits = 1 THEN "done" ELSE clearing
  /\ UNCHANGED <<callVars, records, now, hydration, saveVars, ended, restarts>>

-----------------------------------------------------------------------------
(* Hydration.                                                              *)

(* finishHydration                                                         *)
finishHydration ==
  \/ saveQueued /\ saveQueued' = FALSE /\ saveTimer' = TRUE
  \/ ~saveQueued /\ UNCHANGED saveVars

MergeLoaded ==
  records' = [k \in Keys |-> IF k[1] \in Persisted /\ records[k] = NoRecord
                             THEN disk[k] ELSE records[k]]

LoadResolves ==
  /\ hydration = "loading"
  /\ hydration' = "loaded"
  /\ MergeLoaded
  /\ finishHydration
  /\ UNCHANGED <<callVars, now, clearing, clearAwaits, diskVars, ended, restarts>>

LoadRejects ==
  /\ hydration = "loading"
  /\ hydration' = "failed"
  /\ finishHydration
  /\ UNCHANGED <<callVars, records, now, clearing, clearAwaits, diskVars, ended, restarts>>

-----------------------------------------------------------------------------
(* upsert(): the key is awaited, then the record is inserted.  The events  *)
(* of the adapter are macrotasks: only the import and Web Crypto's digest  *)
(* let another one in between.                                             *)

(* Mutant: inserts a record without its lifecycle.                         *)
PutBare(t, h) ==
  /\ now' = now + 1
  /\ records' = [records EXCEPT ![<<t, h>>] = [life |-> "none", at |-> now + 1]]
  /\ \/ t \in Persisted /\ scheduleSave
     \/ t \notin Persisted /\ UNCHANGED saveVars

(* Stamp the record and insert it as active.                               *)
Put(t, h) ==
  /\ now' = now + 1
  /\ records' = [records EXCEPT ![<<t, h>>] = [life |-> "active", at |-> now + 1]]
  /\ \/ t \in Persisted /\ scheduleSave
     \/ t \notin Persisted /\ UNCHANGED saveVars

(* hashString after loadNodeHash.                                          *)
Hash(e, node) ==
  \/ /\ ~node /\ HasSubtle
     /\ pc' = [pc EXCEPT ![e] = "digesting"]
     /\ UNCHANGED <<now, records, saveVars>>
  \/ /\ node \/ ~HasSubtle
     /\ pc' = [pc EXCEPT ![e] = "done"]
     /\ Put(TokenOf[e], HashWith(node))

(* A token event.  Only the first caller awaits the import; the others get *)
(* what is cached, which is nothing while the import is under way.         *)
Emit(e) ==
  /\ pc[e] = "idle"
  /\ ended' = ended \ {TokenOf[e]}
  /\ \/ /\ probe = "untried"
        /\ probe' = "importing"
        /\ pc' = [pc EXCEPT ![e] = "importing"]
        /\ UNCHANGED <<now, records, saveVars>>
     \/ /\ probe # "untried"
        /\ UNCHANGED probe
        /\ Hash(e, probe = "node")
  /\ UNCHANGED <<hydration, clearing, clearAwaits, diskVars, restarts>>

ImportSettles(e) ==
  /\ pc[e] = "importing"
  /\ probe' = IF HasNodeCrypto THEN "node" ELSE "absent"
  /\ Hash(e, HasNodeCrypto)
  /\ UNCHANGED <<hydration, clearing, clearAwaits, diskVars, ended, restarts>>

DigestSettles(e) ==
  /\ pc[e] = "digesting"
  /\ pc' = [pc EXCEPT ![e] = "done"]
  /\ Put(TokenOf[e], "sha256")
  /\ UNCHANGED <<probe, hydration, clearing, clearAwaits, diskVars, ended, restarts>>

-----------------------------------------------------------------------------
(* The lifecycle.                                                          *)

(* transition(): the records of the keys S that are not in state next yet. *)
transition(S, next) ==
  LET hit == {k \in S : records[k].life \notin {"none", next}} IN
  \/ /\ hit = {}
     /\ UNCHANGED <<records, saveVars>>
  \/ /\ hit # {}
     /\ records' = [k \in Keys |->
                      IF k \in hit THEN [records[k] EXCEPT !.life = next] ELSE records[k]]
     /\ scheduleSave

KeysOfActivity(a) == {k \in Keys : ActivityOf[k[1]] = a}

(* onActivityStateChange: stale.                                           *)
markEnding(a) ==
  /\ transition(KeysOfActivity(a), "ending")
  /\ UNCHANGED <<callVars, now, hydration, clearing, clearAwaits, diskVars, ended, restarts>>

(* onActivityStateChange: ended or dismissed.                              *)
markDead(a) ==
  /\ transition(KeysOfActivity(a), "dead")
  /\ ended' = ended \cup {t \in Tokens : /\ ActivityOf[t] = a
                                         /\ \E e \in Emissions : TokenOf[e] = t /\ pc[e] # "idle"}
  /\ UNCHANGED <<callVars, now, hydration, clearing, clearAwaits, diskVars, restarts>>

(* The sweep after APNs answered 410 for the token.                        *)
markDeadByToken(t) ==
  /\ transition({t} \X Hashes, "dead")
  /\ UNCHANGED <<callVars, now, hydration, clearing, clearAwaits, diskVars, ended, restarts>>

clearDead ==
  /\ \E k \in Keys : records[k].life = "dead"
  /\ records' = [k \in Keys |-> IF records[k].life = "dead" THEN NoRecord ELSE records[k]]
  /\ scheduleSave
  /\ UNCHANGED <<callVars, now, hydration, clearing, clearAwaits, diskVars, ended, restarts>>

(* The save it scheduled is behind the timer; it awaits the last one that  *)
(* was started before.                                                     *)
clearAll ==
  /\ clearing = "idle"
  /\ \/ /\ records = Empty
        /\ clearing' = "done"
        /\ UNCHANGED <<records, saveVars, clearAwaits>>
     \/ /\ records # Empty
        /\ records' = Empty
        /\ scheduleSave
        /\ clearAwaits' = Len(saving)
        /\ clearing' = IF saving = <<>> THEN "done" ELSE "waiting"
  /\ UNCHANGED <<callVars, now, hydration, diskVars, ended, restarts>>

-----------------------------------------------------------------------------
(* The app is killed and starts again.  Of the saves in flight any prefix  *)
(* was written; the rest of the memory is gone.                            *)
Restart ==
  /\ restarts < MaxRestarts
  /\ restarts' = restarts + 1
  /\ disk' \in {disk} \cup {saving[i] : i \in 1..Len(saving)}
  /\ pc' = [e \in Emissions |-> IF pc[e] = "idle" THEN "idle" ELSE "done"]
  /\ probe' = "untried"
  /\ records' = Empty
  /\ hydration' = "loading"
  /\ saveQueued' = FALSE /\ saveTimer' = FALSE
  /\ saving' = <<>> /\ saveFailed' = FALSE
  /\ clearing' = "idle" /\ clearAwaits' = 0
  /\ ended' = {}
  /\ UNCHANGED now

Upsert(e) == Emit(e) \/ ImportSettles(e) \/ DigestSettles(e)

Next ==
  \/ \E e \in Emissions : Upsert(e)
  \/ \E a \in Activities : markEnding(a) \/ markDead(a)
  \/ \E t \in Tokens : markDeadByToken(t)
  \/ clearDead \/ clearAll
  \/ LoadResolves \/ LoadRejects \/ SaveTimer \/ SaveSettles \/ Restart

Spec == Init /\ [][Next]_vars

(* The event loop runs timers and continuations; storage answers.          *)
FairSpec ==
  /\ Spec
  /\ \A e \in Emissions : WF_vars(ImportSettles(e)) /\ WF_vars(DigestSettles(e))
  /\ WF_vars(LoadResolves \/ LoadRejects) /\ WF_vars(SaveTimer) /\ WF_vars(SaveSettles)

-----------------------------------------------------------------------------
(* Properties.                                                             *)

Stores == [Keys -> Records]

TypeOK ==
  /\ pc \in [Emissions -> {"idle", "importing", "digesting", "done"}]
  /\ probe \in {"untried", "importing", "node", "absent"}
  /\ records \in Stores
  /\ now \in Nat
  /\ hydration \in {"loading", "loaded", "failed"}
  /\ saveQueued \in BOOLEAN /\ saveTimer \in BOOLEAN
  /\ saving \in Seq(Stores) /\ disk \in Stores
  /\ clearing \in {"idle", "waiting", "done"}
  /\ clearAwaits \in Nat
  /\ saveFailed \in BOOLEAN
  /\ ended \subseteq Tokens
  /\ restarts \in Nat

Quiet == hydration # "loading" /\ ~saveTimer /\ saving = <<>>

(* "save() after every mutation that touches a persisted kind, debounced"  *)
(* (index.ts:46-48): once no save is pending, storage holds exactly the    *)
(* durable records, also after a mutation that raced the hydration or a    *)
(* save in flight -- unless the last save was rejected.                    *)
DiskCatchesUp ==
  Quiet /\ hydration = "loaded" /\ ~saveFailed => disk = Durable(records)

(* Until the stored records were loaded, nothing is written over them      *)
(* (index.ts:124-128).                                                     *)
LoadingSparesDisk ==
  [][hydration = "loading" /\ hydration' = "loading" => disk' = disk]_vars

(* "Loaded records lose to anything the consumer upserted during the       *)
(* hydration window" (index.ts:148-151).                                   *)
LiveBeatsLoaded ==
  [][hydration = "loading" /\ hydration' # "loading" =>
       \A k \in Keys : records[k] # NoRecord => records'[k] = records[k]]_vars

(* "The key is stable across re-emissions of the same triple"              *)
(* (index.ts:25-26): a token never has two live records.                   *)
OneRecordPerToken ==
  \A t \in Tokens :
    ~\A h \in Hashes : records[<<t, h>>] # NoRecord

(* Once the app leaves the store alone, everything it owes storage is      *)
(* written or rejected: no save is forgotten by the debounce, by the flag  *)
(* of the hydration window or by a restart.                                *)
SavesDrain == <>[][records' = records]_vars => <>[]Quiet

-----------------------------------------------------------------------------
(* What the documentation says and the code does not do (see README).      *)

Settled(t) == \A e \in Emissions : TokenOf[e] = t => pc[e] \in {"idle", "done"}

(* "terminal ActivityKit lifecycle states flip every perActivity record    *)
(* matching activityId to dead" (react.ts:14-16): a token that was emitted *)
(* before its activity ended is not active once its upsert is done.        *)
EndedTokensNotActive ==
  \A t \in ended : Settled(t) => \A h \in Hashes : records[<<t, h>>].life # "active"

=============================================================================
