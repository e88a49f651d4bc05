---------------------------- MODULE SurfaceStorage ----------------------------
(***************************************************************************)
(* The App Group through which the app feeds its widgets.                  *)
(*                                                                         *)
(* The app (surfaceStorage/index.ts and the two screens that call it)      *)
(* writes an entry under surface.snapshot.<id>, points the surface's       *)
(* current id at it, stamps it, and asks the system to reload the surface. *)
(* The extension (MobileSurfacesSharedState.swift and its providers) reads *)
(* from a process of its own, and its toggle intent writes an entry back.  *)
(* There is no lock: the extension may run between any two of the app's    *)
(* writes, and the app may be killed there.                                *)
(*                                                                         *)
(* On the JavaScript thread a refresh is not interrupted, and between two  *)
(* refreshes a task only lets other tasks on, not the user's events.       *)
(* Leaving a tab unmounts its screen, whose task goes on.                  *)
(***************************************************************************)
EXTENDS Integers, SequencesExt

CONSTANTS
  Kinds,      \* the surfaces the project was generated with
  Shapes,     \* <<k, j>>: a j entry decodes as the struct of k (its fields)
  MaxWrites,  \* bound: presses of a button
  MaxToggles  \* bound: toggles in Control Center

AllKinds == {"widget", "control", "lockAccessory", "standby"}

ASSUME KindsAssumption == Kinds \subseteq AllKinds /\ Kinds # {} /\ \A k \in Kinds : <<k, k>> \in Shapes
ASSUME BoundsAssumption == MaxWrites \in Nat /\ MaxToggles \in Nat

(* Each fixture has an id of its own, named here for its kind; all the     *)
(* snapshots of an order have the same one (surfaceId).                    *)
Ids == Kinds \cup {"order"}

(* "n" counts the presses. An entry that an earlier version left has n = 0 *)
(* and another schemaVersion, or ("none") a shape that cannot be probed.   *)
Entry == [kind : Kinds, n : 0..MaxWrites, value : BOOLEAN, version : {"current", "old", "none"}]
Nothing == [kind |-> "nothing", n |-> 0, value |-> FALSE, version |-> "none"]
Stored == Entry \cup {Nothing}

(* What a surface renders: the entry with "live", or one of its fallbacks. *)
Fallback(is) == [is |-> is, n |-> 0, value |-> FALSE]
Rendered == [is : {"placeholder", "mismatch", "live"}, n : 0..MaxWrites, value : BOOLEAN]

VARIABLES
  store,        \* surface.snapshot.<id>
  current,      \* surface.<kind>.currentSurfaceId
  writtenAt,    \* surface.snapshot.<id>.writtenAt: the press it was stamped in, 0 for none
  decodeError,  \* the ids with a breadcrumb
  tab,          \* the screen that is mounted
  status,       \* the Delivery screen's message: none, advanced
  controlOn,    \* the Diagnostics screen's toggle
  tasks,        \* the handlers that have not settled
  turn, step,   \* the task inside a refresh and the write it is at; 0 between two refreshes
  presses, toggles,  \* bounded
  reloads,      \* the surfaces the system has been asked to reload
  reads,        \* reads under way: surface, id and what was there
  intents,      \* toggle intents under way
  shown,        \* what each surface renders
  spanned,      \* history: a task outlived its screen
  unasked       \* history: ids written since their reload was asked for

groupVars == <<store, current, writtenAt>>
screenVars == <<tab, status, controlOn>>
boundVars == <<presses, toggles>>
extensionVars == <<reads, intents, shown>>
vars == <<groupVars, decodeError, screenVars, tasks, turn, step, boundVars, reloads, extensionVars, spanned, unasked>>

Task == [n : 1..MaxWrites, id : Ids, todo : Seq(Kinds), value : BOOLEAN,
         stage : {"activity", "writing", "notify"}, mounted : BOOLEAN]
Read == [kind : Kinds, id : Ids, raw : Stored]
Intent == [id : Ids, raw : Stored, value : BOOLEAN]

(* JSONDecoder: the fields the struct of k requires are there.             *)
Decodes(k, raw) == raw # Nothing /\ raw.version # "none" /\ <<k, raw.kind>> \in Shapes

(* readSnapshot compares the schemaVersion first; decodeSnapshot, which    *)
(* the control and its intent use, does not.                               *)
Mismatch(k, raw) == k # "control" /\ raw.version = "old"

Render(k, raw) ==
  IF Mismatch(k, raw) THEN Fallback("mismatch")
  ELSE IF Decodes(k, raw) THEN [is |-> "live", n |-> raw.n, value |-> raw.value] ELSE Fallback("placeholder")

Old(k, version) == [kind |-> k, n |-> 0, value |-> FALSE, version |-> version]

(* The extension has rendered what an earlier version of the app left.     *)
Init ==
  /\ \E left \in {"absent", "old", "none"} :
       /\ store = [i \in Ids |-> IF i \in Kinds /\ left # "absent" THEN Old(i, left) ELSE Nothing]
       /\ current = [k \in Kinds |-> IF left = "absent" THEN "absent" ELSE k]
  /\ writtenAt = [i \in Ids |-> 0]
  /\ tab = "delivery" /\ status = "none" /\ controlOn = FALSE
  /\ tasks = {} /\ turn = 0 /\ step = 1 /\ presses = 0 /\ toggles = 0
  /\ reloads = {} /\ reads = {} /\ intents = {}
  /\ shown = [k \in Kinds |-> Render(k, store[k])]
  /\ decodeError = {k \in Kinds : current[k] = k /\ ~Mismatch(k, store[k]) /\ ~Decodes(k, store[k])}
  /\ spanned = FALSE /\ unasked = {}

-----------------------------------------------------------------------------
(* The screens.                                                            *)

(* writeNonActivitySurfaces: widget, control, lockAccessory, standby, each *)
(* if the project was generated with it.                                   *)
IfGenerated(k) == IF k \in Kinds THEN <<k>> ELSE <<>>
InSequence == IfGenerated("widget") \o IfGenerated("control") \o IfGenerated("lockAccessory") \o IfGenerated("standby")

(* Events reach the thread when nothing runs on it.                        *)
Idle == \A t \in tasks : t.stage # "writing"

(* setBusy(true) until the handler ends, while its screen is mounted.      *)
busy == \E t \in tasks : t.mounted

Press(id, todo, value) ==
  /\ Idle /\ presses < MaxWrites /\ presses' = presses + 1
  /\ tasks' = tasks \cup {[n |-> presses + 1, id |-> id, todo |-> todo, value |-> value,
                           stage |-> IF id = "order" THEN "activity" ELSE "writing", mounted |-> TRUE]}
  /\ UNCHANGED <<groupVars, decodeError, tab, controlOn, turn, step, toggles, reloads, extensionVars, spanned, unasked>>

(* Mutant: the buttons are not disabled while a task runs.                 *)
TransitionWhileBusy == tab = "delivery" /\ status' = "none" /\ Press("order", InSequence, FALSE)

(* A stage button; the task awaits the Live Activity first.                *)
transitionTo == tab = "delivery" /\ ~busy /\ status' = "none" /\ Press("order", InSequence, FALSE)

(* handleRefreshWidget and its siblings, handleToggleControl: one fixture. *)
handleRefresh(k) ==
  tab = "diagnostics" /\ ~busy /\ UNCHANGED status /\ Press(k, <<k>>, k = "control" /\ ~controlOn)

(* The end of a handler: it sets no state of a screen that is unmounted.   *)
Settle(t, ok) ==
  /\ tasks' = tasks \ {t}
  /\ status' = IF t.mounted /\ t.id = "order" /\ ok THEN "advanced" ELSE status
  /\ controlOn' = IF t.mounted /\ t.id = "control" /\ ok THEN t.value ELSE controlOn
  /\ UNCHANGED tab

(* projectAndRunLiveActivity settles. When it throws nothing is written.   *)
ActivityAnswers(t) ==
  /\ turn = 0 /\ t.stage = "activity"
  /\ \/ tasks' = (tasks \ {t}) \cup {[t EXCEPT !.stage = "writing"]} /\ UNCHANGED screenVars
     \/ Settle(t, FALSE)
  /\ UNCHANGED <<groupVars, decodeError, turn, step, boundVars, reloads, extensionVars, spanned, unasked>>

(* The user changes tabs: one screen is unmounted, the other mounted anew. *)
SwitchTab ==
  /\ Idle /\ presses < MaxWrites
  /\ tab' = (IF tab = "delivery" THEN "diagnostics" ELSE "delivery")
  /\ status' = "none" /\ controlOn' = FALSE
  /\ tasks' = {[t EXCEPT !.mounted = FALSE] : t \in tasks}
  /\ spanned' = (spanned \/ tasks # {})
  /\ UNCHANGED <<groupVars, decodeError, turn, step, boundVars, reloads, extensionVars, unasked>>

(* The app is killed, between any two writes, and started again.           *)
Kill ==
  /\ tasks # {}
  /\ tasks' = {} /\ turn' = 0 /\ step' = 1
  /\ tab' = "delivery" /\ status' = "none" /\ controlOn' = FALSE
  /\ UNCHANGED <<groupVars, decodeError, boundVars, reloads, extensionVars, spanned, unasked>>

-----------------------------------------------------------------------------
(* refreshWidgetSurface, toggleControlSurface, refreshLockAccessorySurface *)
(* and refreshStandbySurface: the same four writes, in the same order.     *)

(* Mutant: the pointer before the entry it points at.                      *)
PointerFirst == <<"pointer", "snapshot", "stamp", "reload">>

(* Mutant: the reload before what it is to show.                           *)
ReloadFirst == <<"reload", "snapshot", "pointer", "stamp">>

Sets == <<"snapshot", "pointer", "stamp", "reload">>

Projected(t) == [kind |-> Head(t.todo), n |-> t.n, value |-> t.value, version |-> "current"]

(* The next write of the task whose turn it is. After the last the task    *)
(* awaits; when all its surfaces are refreshed it settles, or awaits the   *)
(* notification of some stages.                                            *)
Refresh(t) ==
  LET k == Head(t.todo) IN
  /\ t.stage = "writing" /\ turn \in {0, t.n}
  /\ store' = IF Sets[step] = "snapshot" THEN [store EXCEPT ![t.id] = Projected(t)] ELSE store
  /\ current' = IF Sets[step] = "pointer" THEN [current EXCEPT ![k] = t.id] ELSE current
  /\ writtenAt' = IF Sets[step] = "stamp" THEN [writtenAt EXCEPT ![t.id] = t.n] ELSE writtenAt
  /\ reloads' = IF Sets[step] = "reload" THEN reloads \cup {k} ELSE reloads
  /\ unasked' = CASE step = Len(Sets) -> unasked \ {t.id}
                  [] OTHER -> unasked \cup {t.id}
  /\ IF step < Len(Sets)
     THEN turn' = t.n /\ step' = step + 1 /\ UNCHANGED <<tasks, screenVars>>
     ELSE /\ turn' = 0 /\ step' = 1
          /\ IF Len(t.todo) > 1
             THEN tasks' = (tasks \ {t}) \cup {[t EXCEPT !.todo = Tail(@)]} /\ UNCHANGED screenVars
             ELSE \/ Settle(t, TRUE)
                  \/ t.id = "order" /\ tasks' = (tasks \ {t}) \cup {[t EXCEPT !.stage = "notify"]} /\ UNCHANGED screenVars
  /\ UNCHANGED <<decodeError, boundVars, extensionVars, spanned>>

(* storage.set throws: SurfaceStorageError, the rest of the task is lost.  *)
SetFails(t) ==
  /\ t.stage = "writing" /\ turn \in {0, t.n}
  /\ Settle(t, FALSE)
  /\ turn' = 0 /\ step' = 1
  /\ UNCHANGED <<groupVars, decodeError, boundVars, reloads, extensionVars, spanned, unasked>>

(* fireDeliveredNotification settles.                                      *)
Notified(t) ==
  /\ turn = 0 /\ t.stage = "notify"
  /\ \E ok \in BOOLEAN : Settle(t, ok)
  /\ UNCHANGED <<groupVars, decodeError, turn, step, boundVars, reloads, extensionVars, spanned, unasked>>

-----------------------------------------------------------------------------
(* The extension.                                                          *)

(* The breadcrumb: recordDecodeError, or removed by a successful decode.   *)
Breadcrumb(k, id, raw) ==
  IF raw = Nothing \/ Mismatch(k, raw) THEN decodeError
  ELSE IF Decodes(k, raw) THEN decodeError \ {id} ELSE decodeError \cup {id}

(* The system asks for a timeline or a value; nothing is read without a    *)
(* current id.                                                             *)
BeginRead(k) ==
  /\ k \in reloads /\ \A r \in reads : r.kind # k
  /\ reloads' = reloads \ {k}
  /\ reads' = IF current[k] = "absent" THEN reads
              ELSE reads \cup {[kind |-> k, id |-> current[k], raw |-> store[current[k]]]}
  /\ UNCHANGED <<groupVars, decodeError, screenVars, tasks, turn, step, boundVars, intents, shown, spanned, unasked>>

(* Mutant: answers the reloads that were asked for while it was reading.   *)
FinishAnsweringAll(r) ==
  /\ reads' = reads \ {r} /\ reloads' = reloads \ {r.kind}
  /\ shown' = [shown EXCEPT ![r.kind] = Render(r.kind, r.raw)]
  /\ decodeError' = Breadcrumb(r.kind, r.id, r.raw)
  /\ UNCHANGED <<groupVars, screenVars, tasks, turn, step, boundVars, intents, spanned, unasked>>

FinishRead(r) ==
  /\ reads' = reads \ {r}
  /\ shown' = [shown EXCEPT ![r.kind] = Render(r.kind, r.raw)]
  /\ decodeError' = Breadcrumb(r.kind, r.id, r.raw)
  /\ UNCHANGED <<groupVars, screenVars, tasks, turn, step, boundVars, reloads, intents, spanned, unasked>>

(* perform() and what writeControlValue reads first.                       *)
Toggle(value) ==
  /\ "control" \in Kinds /\ toggles < MaxToggles /\ toggles' = toggles + 1
  /\ LET id == current["control"] IN
       intents' = intents \cup {[id |-> IF id = "absent" THEN "control" ELSE id,
                                 raw |-> IF id = "absent" THEN Nothing ELSE store[id], value |-> value]}
  /\ UNCHANGED <<groupVars, decodeError, screenVars, tasks, turn, step, presses, reloads, reads, shown, spanned, unasked>>

(* Mutant: writes back whatever it has read.                               *)
ToggleUndecoded(i) ==
  /\ intents' = intents \ {i}
  /\ decodeError' = Breadcrumb("control", i.id, i.raw)
  /\ store' = [store EXCEPT ![i.id] = [i.raw EXCEPT !.value = i.value]]
  /\ reloads' = Kinds
  /\ UNCHANGED <<current, writtenAt, screenVars, tasks, turn, step, boundVars, reads, shown, spanned, unasked>>

(* It writes back what it decoded, with the new value, and has every       *)
(* surface reloaded whether it wrote or not.                               *)
FinishToggle(i) ==
  /\ intents' = intents \ {i}
  /\ decodeError' = Breadcrumb("control", i.id, i.raw)
  /\ store' = IF Decodes("control", i.raw) THEN [store EXCEPT ![i.id] = [i.raw EXCEPT !.value = i.value]] ELSE store
  /\ reloads' = Kinds
  /\ UNCHANGED <<current, writtenAt, screenVars, tasks, turn, step, boundVars, reads, shown, spanned, unasked>>

App == \E t \in tasks : ActivityAnswers(t) \/ Refresh(t) \/ SetFails(t) \/ Notified(t)
Extension == (\E k \in Kinds : BeginRead(k)) \/ (\E r \in reads : FinishRead(r)) \/ (\E i \in intents : FinishToggle(i))

Next ==
  \/ transitionTo \/ (\E k \in Kinds : handleRefresh(k))
  \/ SwitchTab \/ Kill
  \/ App
  \/ \E value \in BOOLEAN : Toggle(value)
  \/ Extension

Spec == Init /\ [][Next]_vars

(* A handler runs to its end while the app lives, and the system serves    *)
(* the reloads of every surface. The user is free.                         *)
FairSpec ==
  /\ Spec
  /\ WF_vars(App) /\ WF_vars(\E i \in intents : FinishToggle(i))
  /\ \A k \in Kinds : WF_vars(BeginRead(k)) /\ WF_vars(\E r \in reads : r.kind = k /\ FinishRead(r))

-----------------------------------------------------------------------------
(* Properties.                                                             *)

(* Every variable has its type.                                            *)
TypeOK ==
  /\ store \in [Ids -> Stored] /\ current \in [Kinds -> Ids \cup {"absent"}]
  /\ writtenAt \in [Ids -> 0..MaxWrites] /\ decodeError \subseteq Ids
  /\ tab \in {"delivery", "diagnostics"} /\ controlOn \in BOOLEAN
  /\ status \in {"none", "advanced"}
  /\ tasks \subseteq Task /\ turn \in 0..MaxWrites /\ step \in 1..Len(Sets)
  /\ presses \in 0..MaxWrites /\ toggles \in 0..MaxToggles
  /\ reloads \subseteq Kinds /\ reads \subseteq Read /\ intents \subseteq Intent
  /\ shown \in [Kinds -> Rendered] /\ spanned \in BOOLEAN /\ unasked \subseteq Ids

(* At every moment at which the extension may look or the app may be killed*)
(* a surface's current id has an entry, and a stamp does not claim that an *)
(* older entry is the one it was made for, so that the staleness hint errs *)
(* on the side of "stale" (refreshWidgetSurface, stampWrittenAt).          *)
ReadableAnytime ==
  /\ \A k \in Kinds : current[k] # "absent" => store[current[k]] # Nothing
  /\ \A k \in Kinds \ {"control"} : writtenAt[k] <= store[k].n

(* The surface has its own entry, complete, and nobody is about to read.   *)
AtRest(k) == current[k] = k /\ k \notin unasked /\ k \notin reloads /\ reads = {} /\ intents = {}

(* Whatever order the app's writes, the reads and the toggles took, a      *)
(* surface at rest shows what is stored, and its breadcrumb tells whether  *)
(* that can be decoded: one that has recovered is not flagged              *)
(* (reloadWidget, reloadControls, decodeSnapshot).                         *)
RestIsTrue ==
  \A k \in Kinds : AtRest(k) =>
    /\ shown[k] = Render(k, store[k])
    /\ ~Mismatch(k, store[k]) => (k \in decodeError <=> ~Decodes(k, store[k]))

(* The app never overwrites the surfaces of an order with those of an      *)
(* earlier stage, unless a task outlived its screen (the busy flag).       *)
OrderNeverGoesBack ==
  [][(~spanned /\ intents' = intents) => store'["order"].n >= store["order"].n]_vars

(* A surface whose reload was asked for comes to show what is stored.      *)
ReloadIsShown ==
  \A k \in Kinds :
    (k \in reloads /\ current[k] = k) ~>
      (shown[k] = Render(k, store[k]) \/ current[k] # k \/ k \in unasked)

(* "Writing in sequence keeps the App Group container in a consistent      *)
(* shape across surfaces" (DeliveryExampleScreen): when the screen reports *)
(* the new stage, every surface of the order can decode its entry.         *)
ConsistentAcrossSurfaces ==
  status = "advanced" => \A k \in Kinds : current[k] = "order" => Decodes(k, store["order"])
=============================================================================
