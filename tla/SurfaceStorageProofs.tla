-------------------------- MODULE SurfaceStorageProofs --------------------------
(***************************************************************************)
(* Theorems about SurfaceStorage, for every non-empty set of surfaces,     *)
(* every table of shapes and every number of presses and toggles.          *)
(***************************************************************************)
EXTENDS SurfaceStorage, TLAPS

-----------------------------------------------------------------------------
(* The inductive invariant.                                                *)

(* A task has a surface left to write; one that was pressed on its own     *)
(* writes at once, before anything else can be pressed.                    *)
TaskOK(t) ==
  /\ t.todo # <<>> /\ t.n <= presses
  /\ t.id # "order" => t.stage = "writing" /\ t.todo = <<t.id>> /\ t.n = presses

(* Two tasks come of two presses, and there is one task as long as none    *)
(* has outlived its screen: the busy flag.                                 *)
TasksInv ==
  /\ \A t \in tasks : TaskOK(t)
  /\ \A t, u \in tasks : t.n = u.n => t = u
  /\ ~spanned => \A t, u \in tasks : t = u /\ t.mounted /\ t.n = presses

(* In the middle of a refresh the task is there, its entry is written, and *)
(* only a toggle can have written over it.                                 *)
TurnInv ==
  /\ turn = 0 => step = 1
  /\ turn # 0 => step # 1 /\ \E t \in tasks : t.n = turn /\ t.stage = "writing"
  /\ \A t \in tasks : turn = t.n => store[t.id] # Nothing /\ t.id \in unasked
  /\ \A t \in tasks : (turn = t.n /\ t.id \notin {"control", "order"}) => store[t.id].n = t.n

(* Nothing comes of a press yet to come; toggles are about the control.    *)
PressesInv ==
  /\ \A i \in Ids : store[i].n <= presses /\ writtenAt[i] <= presses
  /\ \A i \in intents : i.raw.n <= presses /\ i.id \in {"control", "order"}

(* A surface points at its own entry or at the order's, and is read once   *)
(* at a time.                                                              *)
PointersInv ==
  /\ \A k \in Kinds : current[k] \in {k, "order", "absent"}
  /\ \A r \in reads : r.id \in {r.kind, "order"}
  /\ \A r, s \in reads : r.kind = s.kind => r = s

(* What the surface shows, and its breadcrumb, are those of what is stored.*)
Told(k) ==
  /\ shown[k] = Render(k, store[k])
  /\ ~Mismatch(k, store[k]) => (k \in decodeError <=> ~Decodes(k, store[k]))

(* A surface with its own entry that is complete and not to be reloaded is *)
(* being read as it is stored, or shows what is stored.                    *)
CaughtUp ==
  \A k \in Kinds : (current[k] = k /\ k \notin unasked \cup reloads) =>
    \/ \E r \in reads : r.kind = k /\ r.id = k /\ r.raw = store[k]
    \/ (\A r \in reads : r.kind # k) /\ Told(k)

SurfaceInv ==
  TypeOK /\ TasksInv /\ TurnInv /\ PressesInv /\ PointersInv /\ ReadableAnytime /\ CaughtUp

-----------------------------------------------------------------------------
(* Tasks, entries and the writes of a refresh.                             *)

LEMMA StepFacts ==
  Len(Sets) = 4 /\ Sets[1] = "snapshot" /\ Sets[2] = "pointer" /\ Sets[3] = "stamp" /\ Sets[4] = "reload"
BY DEF Sets

LEMMA KindFacts ==
  /\ "order" \notin Kinds /\ "nothing" \notin Kinds /\ "absent" \notin Kinds
  /\ Ids = Kinds \cup {"order"}
BY KindsAssumption DEF AllKinds, Ids

LEMMA InSequenceFacts ==
  InSequence \in Seq(Kinds) /\ InSequence # <<>>
<1>1. \A k : IfGenerated(k) \in Seq(Kinds) /\ (k \in Kinds => Len(IfGenerated(k)) = 1)
  BY DEF IfGenerated
<1> DEFINE a == IfGenerated("widget")
           b == IfGenerated("control")
           c == IfGenerated("lockAccessory")
           d == IfGenerated("standby")
<1>2. a \in Seq(Kinds) /\ b \in Seq(Kinds) /\ c \in Seq(Kinds) /\ d \in Seq(Kinds)
  BY <1>1
<1>3. Len(a) = 1 \/ Len(b) = 1 \/ Len(c) = 1 \/ Len(d) = 1
  BY <1>1, KindsAssumption DEF AllKinds
<1>4. InSequence = a \o b \o c \o d
  BY DEF InSequence
<1> HIDE DEF a, b, c, d
<1>5. a \o b \o c \o d \in Seq(Kinds) /\ Len(a \o b \o c \o d) = Len(a) + Len(b) + Len(c) + Len(d)
  BY <1>2
<1>6. Len(a) \in Nat /\ Len(b) \in Nat /\ Len(c) \in Nat /\ Len(d) \in Nat
  BY <1>2
<1> QED
  BY <1>3, <1>4, <1>5, <1>6

LEMMA TailFacts ==
  ASSUME NEW S, NEW q \in Seq(S), Len(q) > 1
  PROVE  Tail(q) \in Seq(S) /\ Tail(q) # <<>> /\ \A x : q # <<x>>
<1>1. q # <<>>
  OBVIOUS
<1>2. Tail(q) \in Seq(S) /\ Len(Tail(q)) = Len(q) - 1 /\ Len(q) \in Nat
  BY <1>1
<1> DEFINE r == Tail(q)
<1> HIDE DEF r
<1>3. Len(r) # 0
  BY <1>2 DEF r
<1>4. Len(<<>>) = 0
  OBVIOUS
<1>5. r # <<>>
  BY <1>3, <1>4
<1>6. ASSUME NEW x PROVE q # <<x>>
  <2>1. Len(q) # 1
    BY <1>2
  <2>2. Len(<<x>>) = 1
    OBVIOUS
  <2> QED
    BY <2>1, <2>2, Zenon
<1> QED
  BY <1>2, <1>5, <1>6 DEF r

LEMMA EntryFacts ==
  /\ \A raw \in Stored : raw.n \in 0..MaxWrites
  /\ \A raw \in Entry, v \in BOOLEAN : /\ [raw EXCEPT !.value = v] \in Entry
                                       /\ [raw EXCEPT !.value = v].n = raw.n
  /\ \A raw \in Stored : raw # Nothing => raw \in Entry
  /\ Nothing \notin Entry /\ Nothing.n = 0 /\ Nothing \in Stored
  /\ \A k \in Kinds, v \in {"old", "none"} : Old(k, v) \in Entry /\ Old(k, v).n = 0
BY KindFacts, BoundsAssumption DEF Stored, Entry, Nothing, Old

LEMMA RenderFacts ==
  ASSUME NEW k \in Kinds, NEW raw \in Stored
  PROVE  Render(k, raw) \in Rendered
<1>1. CASE Mismatch(k, raw) \/ ~Decodes(k, raw)
  BY <1>1, BoundsAssumption DEF Render, Rendered, Fallback
<1>2. CASE ~Mismatch(k, raw) /\ Decodes(k, raw)
  <2>1. raw \in Entry
    BY <1>2, EntryFacts DEF Decodes
  <2> QED
    BY <1>2, <2>1 DEF Render, Rendered, Entry
<1> QED
  BY <1>1, <1>2

LEMMA TaskFacts ==
  ASSUME NEW t \in Task
  PROVE  /\ t.n \in 1..MaxWrites /\ t.id \in Ids /\ t.todo \in Seq(Kinds) /\ t.value \in BOOLEAN /\ t.mounted \in BOOLEAN
         /\ t.todo # <<>> => Head(t.todo) \in Kinds /\ Projected(t) \in Entry /\ Projected(t).n = t.n
BY DEF Task, Projected, Entry

-----------------------------------------------------------------------------
(* What a step leaves of the invariant.                                    *)

LEMMA SurfaceInit == Init => SurfaceInv
<1> SUFFICES ASSUME Init PROVE SurfaceInv
  OBVIOUS
<1>1. PICK left \in {"absent", "old", "none"} :
        /\ store = [i \in Ids |-> IF i \in Kinds /\ left # "absent" THEN Old(i, left) ELSE Nothing]
        /\ current = [k \in Kinds |-> IF left = "absent" THEN "absent" ELSE k]
  BY DEF Init
<1>2. /\ \A i \in Ids : store[i] \in Stored /\ store[i].n = 0
      /\ \A k \in Kinds : left # "absent" => store[k] # Nothing
  BY <1>1, EntryFacts, KindFacts DEF Stored
<1>3. /\ tab = "delivery" /\ status = "none" /\ controlOn = FALSE /\ writtenAt = [i \in Ids |-> 0]
      /\ tasks = {} /\ turn = 0 /\ step = 1 /\ presses = 0 /\ toggles = 0
      /\ reloads = {} /\ reads = {} /\ intents = {} /\ spanned = FALSE /\ unasked = {}
      /\ shown = [k \in Kinds |-> Render(k, store[k])]
      /\ decodeError = {k \in Kinds : current[k] = k /\ ~Mismatch(k, store[k]) /\ ~Decodes(k, store[k])}
  BY DEF Init
<1>4. TypeOK
  <2>1. store \in [Ids -> Stored] /\ current \in [Kinds -> Ids \cup {"absent"}]
    BY <1>1, <1>2, KindFacts
  <2>2. \A k \in Kinds : Render(k, store[k]) \in Rendered
    BY <1>2, KindFacts, RenderFacts
  <2>3. shown \in [Kinds -> Rendered] /\ writtenAt \in [Ids -> 0..MaxWrites] /\ decodeError \subseteq Ids
    BY <1>3, <2>2, BoundsAssumption, KindFacts
  <2>4. step \in 1..Len(Sets) /\ presses \in 0..MaxWrites /\ toggles \in 0..MaxToggles /\ turn \in 0..MaxWrites
    BY <1>3, BoundsAssumption, StepFacts
  <2> QED
    BY <1>3, <2>1, <2>3, <2>4 DEF TypeOK
<1>5. TasksInv /\ TurnInv /\ PressesInv /\ PointersInv
  BY <1>1, <1>2, <1>3 DEF TasksInv, TurnInv, PressesInv, PointersInv
<1>6. ReadableAnytime
  BY <1>1, <1>2, <1>3, KindFacts DEF ReadableAnytime
<1>7. CaughtUp
  BY <1>1, <1>3 DEF CaughtUp, Told
<1> QED
  BY <1>4, <1>5, <1>6, <1>7 DEF SurfaceInv

(* A step of the app that writes nothing to the App Group.                 *)
LEMMA GroupKept ==
  ASSUME SurfaceInv, UNCHANGED <<store, current, writtenAt, reloads, unasked, reads, intents, shown, decodeError>>,
         presses' \in Nat, presses' >= presses
  PROVE  PressesInv' /\ PointersInv' /\ ReadableAnytime' /\ CaughtUp'
<1>1. /\ presses \in Nat
      /\ \A i \in Ids : store[i].n \in Nat /\ writtenAt[i] \in Nat
      /\ \A i \in intents : i.raw.n \in Nat
  BY EntryFacts, BoundsAssumption DEF SurfaceInv, TypeOK, Intent
<1>2. PressesInv'
  <2>1. \A n \in Nat : n <= presses => n <= presses'
    BY <1>1
  <2>2. \A i \in Ids : store[i].n <= presses' /\ writtenAt[i] <= presses'
    BY <1>1, <2>1 DEF SurfaceInv, PressesInv
  <2>3. \A i \in intents : i.raw.n <= presses' /\ i.id \in {"control", "order"}
    BY <1>1, <2>1 DEF SurfaceInv, PressesInv
  <2> QED
    BY <2>2, <2>3 DEF PressesInv
<1> QED
  BY <1>2 DEF SurfaceInv, PointersInv, ReadableAnytime, CaughtUp, Told

(* The tasks that are left go on, with no more mounted than before.        *)
LEMMA TasksKept ==
  ASSUME SurfaceInv, UNCHANGED presses, spanned => spanned',
         \A u \in tasks' : \E t \in tasks :
           /\ u.n = t.n /\ u.id = t.id /\ u.todo # <<>> /\ (u.mounted = t.mounted \/ spanned')
           /\ t.id # "order" => u.stage = "writing" /\ u.todo = t.todo,
         \A u, v \in tasks' : u.n = v.n => u = v
  PROVE  TasksInv'
<1>1. ASSUME NEW u \in tasks' PROVE TaskOK(u)'
  <2>1. PICK t \in tasks : /\ u.n = t.n /\ u.id = t.id /\ u.todo # <<>>
                           /\ t.id # "order" => u.stage = "writing" /\ u.todo = t.todo
    OBVIOUS
  <2>2. TaskOK(t)
    BY DEF SurfaceInv, TasksInv
  <2> QED
    BY <2>1, <2>2 DEF TaskOK
<1>2. ASSUME ~spanned', NEW u \in tasks', NEW v \in tasks' PROVE u = v /\ u.mounted /\ u.n = presses'
  <2>1. PICK t \in tasks : u.n = t.n /\ u.mounted = t.mounted
    BY <1>2
  <2>2. PICK w \in tasks : v.n = w.n
    OBVIOUS
  <2>3. t = w /\ t.mounted /\ t.n = presses
    BY <1>2 DEF SurfaceInv, TasksInv
  <2> QED
    BY <2>1, <2>2, <2>3
<1> QED
  BY <1>1, <1>2 DEF TasksInv

(* Between two refreshes.                                                  *)
LEMMA TurnOver ==
  ASSUME turn' = 0, step' = 1, tasks' \subseteq Task
  PROVE  TurnInv'
<1>1. \A t \in tasks' : t.n # 0
  BY TaskFacts
<1> QED
  BY <1>1 DEF TurnInv

(* Events reach the thread between two refreshes.                          *)
LEMMA IdleFacts ==
  ASSUME SurfaceInv, Idle
  PROVE  turn = 0 /\ step = 1 /\ \A t \in tasks : t.id = "order"
BY DEF SurfaceInv, TurnInv, TasksInv, TaskOK, Idle

-----------------------------------------------------------------------------
(* The screens.                                                            *)

LEMMA PressSurface ==
  ASSUME SurfaceInv, ~busy, NEW id \in Ids, NEW todo \in Seq(Kinds), NEW value \in BOOLEAN, Press(id, todo, value),
         todo # <<>>, id # "order" => todo = <<id>>, status' \in {"none", "advanced"}
  PROVE  SurfaceInv'
<1>0. PICK new : new = [n |-> presses + 1, id |-> id, todo |-> todo, value |-> value,
                        stage |-> IF id = "order" THEN "activity" ELSE "writing", mounted |-> TRUE]
  OBVIOUS
<1>1. /\ UNCHANGED <<store, current, writtenAt, decodeError, tab, controlOn, turn, step, toggles, reloads, reads, intents, shown,
                     spanned, unasked>>
      /\ presses < MaxWrites /\ presses' = presses + 1 /\ tasks' = tasks \cup {new}
      /\ turn = 0 /\ step = 1 /\ \A t \in tasks : t.id = "order"
  BY <1>0, IdleFacts DEF Press, groupVars, extensionVars
<1>2. presses' \in 0..MaxWrites /\ presses' \in 1..MaxWrites /\ presses \in Nat /\ MaxWrites \in Nat
  BY <1>1, BoundsAssumption DEF SurfaceInv, TypeOK
<1>3. /\ new \in Task /\ new.n = presses' /\ new.id = id /\ new.todo = todo /\ new.mounted
      /\ id # "order" => new.stage = "writing"
  BY <1>0, <1>1, <1>2 DEF Task
<1>4. TypeOK'
  BY <1>1, <1>2, <1>3 DEF SurfaceInv, TypeOK
<1>5. TurnInv'
  BY <1>1, <1>4, TurnOver DEF TypeOK
<1>6. TasksInv'
  <2>1. \A t \in tasks : t.n \in Nat /\ t.n < presses'
    BY <1>1, <1>2, TaskFacts DEF SurfaceInv, TypeOK, TasksInv, TaskOK
  <2>2. \A t \in tasks' : TaskOK(t)'
    <3>1. TaskOK(new)'
      BY <1>2, <1>3 DEF TaskOK
    <3>2. \A t \in tasks : TaskOK(t)'
      BY <1>1, <1>2, <2>1 DEF SurfaceInv, TasksInv, TaskOK
    <3> QED
      BY <1>1, <3>1, <3>2
  <2>3. \A t, u \in tasks' : t.n = u.n => t = u
    BY <1>1, <1>2, <1>3, <2>1 DEF SurfaceInv, TasksInv
  <2>4. ~spanned => tasks = {}
    BY DEF SurfaceInv, TasksInv, busy
  <2> QED
    BY <1>1, <1>3, <2>2, <2>3, <2>4 DEF TasksInv
<1>7. PressesInv' /\ PointersInv' /\ ReadableAnytime' /\ CaughtUp'
  BY <1>1, <1>2, GroupKept
<1> QED
  BY <1>4, <1>5, <1>6, <1>7 DEF SurfaceInv

(* A task ends, or goes on.                                                *)
LEMMA TaskGoesOn ==
  ASSUME SurfaceInv, NEW t \in tasks, UNCHANGED <<presses, spanned>>,
         \/ tasks' = tasks \ {t}
         \/ \E u \in Task : /\ tasks' = (tasks \ {t}) \cup {u} /\ u.n = t.n /\ u.id = t.id /\ u.todo # <<>>
                            /\ u.mounted = t.mounted /\ t.id = "order"
  PROVE  tasks' \subseteq Task /\ TasksInv'
<1>1. \A u, v \in tasks : u.n = v.n => u = v
  BY DEF SurfaceInv, TasksInv
<1>2. tasks' \subseteq Task
  BY DEF SurfaceInv, TypeOK
<1>3. \A u \in tasks' : \E v \in tasks :
         /\ u.n = v.n /\ u.id = v.id /\ u.todo # <<>> /\ (u.mounted = v.mounted \/ spanned')
         /\ v.id # "order" => u.stage = "writing" /\ u.todo = v.todo
  <2>1. \A v \in tasks : v.todo # <<>> /\ (v.id # "order" => v.stage = "writing")
    BY DEF SurfaceInv, TasksInv, TaskOK
  <2> QED
    BY <2>1
<1>4. \A u, v \in tasks' : u.n = v.n => u = v
  BY <1>1
<1> QED
  BY <1>2, <1>3, <1>4, TasksKept

(* Between two refreshes.                                                  *)
LEMMA TaskMoves ==
  ASSUME SurfaceInv, NEW t \in tasks, turn' = 0, step' = 1,
         UNCHANGED <<store, current, writtenAt, reloads, unasked, reads, intents, shown, decodeError, presses, toggles, spanned>>,
         \/ Settle(t, TRUE) \/ Settle(t, FALSE)
         \/ /\ t.id = "order" /\ UNCHANGED <<tab, status, controlOn>>
            /\ \E s \in {"writing", "notify"} : tasks' = (tasks \ {t}) \cup {[t EXCEPT !.stage = s]}
  PROVE  SurfaceInv'
<1>1. t \in Task /\ TaskOK(t)
  BY DEF SurfaceInv, TypeOK, TasksInv
<1>2. \/ tasks' = tasks \ {t}
      \/ \E u \in Task : /\ tasks' = (tasks \ {t}) \cup {u} /\ u.n = t.n /\ u.id = t.id /\ u.todo = t.todo
                         /\ u.mounted = t.mounted /\ t.id = "order"
  <2>1. CASE Settle(t, TRUE) \/ Settle(t, FALSE)
    BY <2>1 DEF Settle
  <2>2. ASSUME t.id = "order", NEW s \in {"writing", "notify"}, tasks' = (tasks \ {t}) \cup {[t EXCEPT !.stage = s]}
        PROVE  \E u \in Task : /\ tasks' = (tasks \ {t}) \cup {u} /\ u.n = t.n /\ u.id = t.id /\ u.todo = t.todo
                               /\ u.mounted = t.mounted
    <3>1. LET u == [t EXCEPT !.stage = s] IN
          u \in Task /\ u.n = t.n /\ u.id = t.id /\ u.todo = t.todo /\ u.mounted = t.mounted
      BY <1>1 DEF Task
    <3> QED
      BY <2>2, <3>1
  <2> QED
    BY <2>1, <2>2
<1>3. tasks' \subseteq Task /\ TasksInv'
  <2>1. t.todo # <<>>
    BY <1>1 DEF TaskOK
  <2> QED
    BY <1>2, <2>1, TaskGoesOn
<1>4. status' \in {"none", "advanced"} /\ controlOn' \in BOOLEAN /\ tab' = tab
  BY <1>1, TaskFacts DEF Settle, SurfaceInv, TypeOK
<1>5. TypeOK'
  BY <1>3, <1>4, BoundsAssumption, StepFacts DEF SurfaceInv, TypeOK
<1>6. TurnInv'
  BY <1>3, TurnOver
<1>7. PressesInv' /\ PointersInv' /\ ReadableAnytime' /\ CaughtUp'
  BY GroupKept DEF SurfaceInv, TypeOK
<1> QED
  BY <1>3, <1>5, <1>6, <1>7 DEF SurfaceInv

LEMMA ScreenSurface ==
  ASSUME SurfaceInv, transitionTo \/ (\E k \in Kinds : handleRefresh(k)) \/ SwitchTab \/ Kill
  PROVE  SurfaceInv'
<1>1. CASE transitionTo
  <2>1. ~busy /\ status' = "none" /\ Press("order", InSequence, FALSE)
    BY <1>1 DEF transitionTo
  <2>2. "order" \in Ids
    BY KindFacts
  <2> QED
    BY <2>1, <2>2, InSequenceFacts, PressSurface
<1>2. ASSUME NEW k \in Kinds, handleRefresh(k) PROVE SurfaceInv'
  <2>1. ~busy /\ status' = status /\ Press(k, <<k>>, k = "control" /\ ~controlOn)
    BY <1>2 DEF handleRefresh
  <2>2. k \in Ids /\ <<k>> \in Seq(Kinds) /\ <<k>> # <<>> /\ (k = "control" /\ ~controlOn) \in BOOLEAN
    BY KindFacts
  <2>3. status' \in {"none", "advanced"}
    BY <2>1 DEF SurfaceInv, TypeOK
  <2> QED
    BY <2>1, <2>2, <2>3, PressSurface
<1>3. CASE SwitchTab
  <2> DEFINE f == [t \in tasks |-> [t EXCEPT !.mounted = FALSE]]
  <2>1. /\ UNCHANGED <<store, current, writtenAt, decodeError, turn, step, presses, toggles, reloads, reads, intents, shown, unasked>>
        /\ tab' \in {"delivery", "diagnostics"} /\ status' = "none" /\ controlOn' = FALSE
        /\ tasks' = {f[t] : t \in tasks} /\ spanned' = (spanned \/ tasks # {}) /\ turn = 0 /\ step = 1
    BY <1>3, IdleFacts DEF SwitchTab, groupVars, boundVars, extensionVars
  <2>2. ASSUME NEW t \in tasks
        PROVE  f[t] \in Task /\ f[t].n = t.n /\ f[t].id = t.id /\ f[t].todo = t.todo /\ f[t].stage = t.stage
    <3>1. t \in Task
      BY DEF SurfaceInv, TypeOK
    <3> QED
      BY <3>1 DEF Task
  <2> HIDE DEF f
  <2>3. tasks' \subseteq Task
    BY <2>1, <2>2
  <2>4. TasksInv'
    <3>1. \A v \in tasks : v.todo # <<>> /\ (v.id # "order" => v.stage = "writing")
      BY DEF SurfaceInv, TasksInv, TaskOK
    <3>2. \A u \in tasks' : \E v \in tasks :
             /\ u.n = v.n /\ u.id = v.id /\ u.todo # <<>> /\ (u.mounted = v.mounted \/ spanned')
             /\ v.id # "order" => u.stage = "writing" /\ u.todo = v.todo
      <4>1. ASSUME NEW u \in tasks' PROVE spanned' /\ \E v \in tasks : u = f[v]
        BY <2>1
      <4> QED
        BY <2>2, <3>1, <4>1
    <3>3. \A u, v \in tasks : u.n = v.n => u = v
      BY DEF SurfaceInv, TasksInv
    <3>4. \A u, v \in tasks' : u.n = v.n => u = v
      BY <2>1, <2>2, <3>3
    <3> QED
      BY <2>1, <3>2, <3>4, TasksKept
  <2>5. TypeOK'
    BY <2>1, <2>3 DEF SurfaceInv, TypeOK
  <2>6. TurnInv'
    BY <2>1, <2>3, TurnOver
  <2>7. PressesInv' /\ PointersInv' /\ ReadableAnytime' /\ CaughtUp'
    BY <2>1, GroupKept DEF SurfaceInv, TypeOK
  <2> QED
    BY <2>4, <2>5, <2>6, <2>7 DEF SurfaceInv
<1>4. CASE Kill
  <2>1. /\ UNCHANGED <<store, current, writtenAt, decodeError, presses, toggles, reloads, reads, intents, shown, spanned, unasked>>
        /\ tab' = "delivery" /\ status' = "none" /\ controlOn' = FALSE /\ tasks' = {} /\ turn' = 0 /\ step' = 1
    BY <1>4 DEF Kill, groupVars, boundVars, extensionVars
  <2>2. TypeOK'
    <3>1. 1 \in 1..Len(Sets) /\ 0 \in 0..MaxWrites /\ {} \subseteq Task
      BY BoundsAssumption, StepFacts
    <3> QED
      BY <2>1, <3>1 DEF SurfaceInv, TypeOK
  <2>3. TasksInv' /\ TurnInv'
    BY <2>1 DEF TasksInv, TurnInv
  <2>4. PressesInv' /\ PointersInv' /\ ReadableAnytime' /\ CaughtUp'
    BY <2>1, GroupKept DEF SurfaceInv, TypeOK
  <2> QED
    BY <2>2, <2>3, <2>4 DEF SurfaceInv
<1> QED
  BY <1>1, <1>2, <1>3, <1>4

(* The handlers, but for the writes of a refresh.                          *)
LEMMA TaskSurface ==
  ASSUME SurfaceInv, NEW t \in tasks, ActivityAnswers(t) \/ SetFails(t) \/ Notified(t)
  PROVE  SurfaceInv'
<1>1. UNCHANGED <<store, current, writtenAt, reloads, unasked, reads, intents, shown, decodeError, presses, toggles, spanned>>
  BY DEF ActivityAnswers, SetFails, Notified, groupVars, boundVars, extensionVars
<1>2. turn' = 0 /\ step' = 1
  BY DEF ActivityAnswers, SetFails, Notified, SurfaceInv, TurnInv
<1>3. \/ Settle(t, TRUE) \/ Settle(t, FALSE)
      \/ /\ t.id = "order" /\ UNCHANGED <<tab, status, controlOn>>
         /\ tasks' = (tasks \ {t}) \cup {[t EXCEPT !.stage = "writing"]}
  <2>1. t.stage = "activity" => t.id = "order"
    BY DEF SurfaceInv, TasksInv, TaskOK
  <2> QED
    BY <2>1 DEF ActivityAnswers, SetFails, Notified, screenVars
<1> QED
  BY <1>1, <1>2, <1>3, TaskMoves

-----------------------------------------------------------------------------
(* The four writes of a refresh.                                           *)

LEMMA RefreshFacts ==
  ASSUME SurfaceInv, NEW t \in tasks, Refresh(t)
  PROVE  /\ UNCHANGED <<decodeError, presses, toggles, reads, intents, shown, spanned>>
         /\ t.stage = "writing" /\ step \in 1..4 /\ (step # 1 => turn = t.n)
         /\ store' = IF step = 1 THEN [store EXCEPT ![t.id] = Projected(t)] ELSE store
         /\ current' = IF step = 2 THEN [current EXCEPT ![Head(t.todo)] = t.id] ELSE current
         /\ writtenAt' = IF step = 3 THEN [writtenAt EXCEPT ![t.id] = t.n] ELSE writtenAt
         /\ reloads' = IF step = 4 THEN reloads \cup {Head(t.todo)} ELSE reloads
         /\ unasked' = IF step = 4 THEN unasked \ {t.id} ELSE unasked \cup {t.id}
         /\ step # 4 => turn' = t.n /\ step' = step + 1 /\ UNCHANGED <<tasks, tab, status, controlOn>>
         /\ step = 4 =>
              /\ turn' = 0 /\ step' = 1
              /\ IF Len(t.todo) > 1
                 THEN tasks' = (tasks \ {t}) \cup {[t EXCEPT !.todo = Tail(@)]} /\ UNCHANGED <<tab, status, controlOn>>
                 ELSE \/ Settle(t, TRUE)
                      \/ /\ t.id = "order" /\ tasks' = (tasks \ {t}) \cup {[t EXCEPT !.stage = "notify"]}
                         /\ UNCHANGED <<tab, status, controlOn>>
<1>1. step \in 1..4 /\ (step # 1 => turn # 0)
  BY StepFacts DEF SurfaceInv, TypeOK, TurnInv
<1>2. /\ Sets[step] = "snapshot" <=> step = 1
      /\ Sets[step] = "pointer" <=> step = 2
      /\ Sets[step] = "stamp" <=> step = 3
      /\ Sets[step] = "reload" <=> step = 4
  <2>1. step = 1 \/ step = 2 \/ step = 3 \/ step = 4
    BY <1>1
  <2> QED
    BY <2>1, StepFacts
<1>3. (step < Len(Sets) <=> step # 4) /\ Len(Sets) = 4
  BY <1>1, StepFacts
<1>4. UNCHANGED <<decodeError, presses, toggles, reads, intents, shown, spanned>>
  BY DEF Refresh, boundVars, extensionVars
<1>5. t.stage = "writing" /\ turn \in {0, t.n}
  BY DEF Refresh
<1>6. /\ store' = IF step = 1 THEN [store EXCEPT ![t.id] = Projected(t)] ELSE store
      /\ current' = IF step = 2 THEN [current EXCEPT ![Head(t.todo)] = t.id] ELSE current
      /\ writtenAt' = IF step = 3 THEN [writtenAt EXCEPT ![t.id] = t.n] ELSE writtenAt
      /\ reloads' = IF step = 4 THEN reloads \cup {Head(t.todo)} ELSE reloads
  BY <1>2 DEF Refresh
<1>7. unasked' = IF step = 4 THEN unasked \ {t.id} ELSE unasked \cup {t.id}
  BY <1>3 DEF Refresh
<1>8. step # 4 => turn' = t.n /\ step' = step + 1 /\ UNCHANGED <<tasks, tab, status, controlOn>>
  BY <1>3 DEF Refresh, screenVars
<1>9. step = 4 =>
        /\ turn' = 0 /\ step' = 1
        /\ IF Len(t.todo) > 1
           THEN tasks' = (tasks \ {t}) \cup {[t EXCEPT !.todo = Tail(@)]} /\ UNCHANGED <<tab, status, controlOn>>
           ELSE \/ Settle(t, TRUE)
                \/ /\ t.id = "order" /\ tasks' = (tasks \ {t}) \cup {[t EXCEPT !.stage = "notify"]}
                   /\ UNCHANGED <<tab, status, controlOn>>
  BY <1>3 DEF Refresh, screenVars
<1> QED
  BY <1>1, <1>4, <1>5, <1>6, <1>7, <1>8, <1>9

LEMMA RefreshSurface ==
  ASSUME SurfaceInv, NEW t \in tasks, Refresh(t)
  PROVE  SurfaceInv'
<1> DEFINE k == Head(t.todo)
<1>1. /\ UNCHANGED <<decodeError, presses, toggles, reads, intents, shown, spanned>>
      /\ t.stage = "writing" /\ step \in 1..4 /\ (step # 1 => turn = t.n)
      /\ store' = IF step = 1 THEN [store EXCEPT ![t.id] = Projected(t)] ELSE store
      /\ current' = IF step = 2 THEN [current EXCEPT ![k] = t.id] ELSE current
      /\ writtenAt' = IF step = 3 THEN [writtenAt EXCEPT ![t.id] = t.n] ELSE writtenAt
      /\ reloads' = IF step = 4 THEN reloads \cup {k} ELSE reloads
      /\ unasked' = IF step = 4 THEN unasked \ {t.id} ELSE unasked \cup {t.id}
      /\ step # 4 => turn' = t.n /\ step' = step + 1 /\ UNCHANGED <<tasks, tab, status, controlOn>>
      /\ step = 4 => turn' = 0 /\ step' = 1
  BY RefreshFacts
<1>2. t \in Task /\ TaskOK(t) /\ t.n \in 1..MaxWrites /\ t.id \in Ids /\ t.n <= presses
  BY TaskFacts DEF SurfaceInv, TypeOK, TasksInv, TaskOK
<1>3. k \in Kinds /\ (t.id # "order" => k = t.id) /\ t.id \in {k, "order"}
  <2>1. t.todo # <<>> /\ t.todo \in Seq(Kinds) /\ (t.id # "order" => t.todo = <<t.id>>)
    BY <1>2, TaskFacts DEF TaskOK
  <2> QED
    BY <2>1
<1>4. Projected(t) \in Entry /\ Projected(t).n = t.n /\ Projected(t) # Nothing /\ Projected(t) \in Stored
  <2>1. t.todo # <<>>
    BY <1>2 DEF TaskOK
  <2> QED
    BY <1>2, <2>1, TaskFacts, EntryFacts DEF Stored
<1>5. tasks' \subseteq Task /\ TasksInv' /\ status' \in {"none", "advanced"} /\ controlOn' \in BOOLEAN /\ tab' = tab
  <2>1. CASE step # 4
    BY <1>1, <2>1 DEF SurfaceInv, TypeOK, TasksInv, TaskOK
  <2>2. CASE step = 4 /\ Len(t.todo) > 1
    <3>1. t.id = "order"
      <4>1. t.todo \in Seq(Kinds)
        BY <1>2, TaskFacts
      <4> QED
        BY <1>2, <2>2, <4>1, TailFacts DEF TaskOK
    <3>2. tasks' = (tasks \ {t}) \cup {[t EXCEPT !.todo = Tail(@)]} /\ UNCHANGED <<tab, status, controlOn>>
      BY <2>2, RefreshFacts
    <3>3. t.todo \in Seq(Kinds) /\ Tail(t.todo) \in Seq(Kinds) /\ Tail(t.todo) # <<>>
      BY <1>2, <2>2, TaskFacts, TailFacts
    <3>4. PICK u : u = [t EXCEPT !.todo = Tail(@)]
      OBVIOUS
    <3>5. u \in Task /\ u.n = t.n /\ u.id = t.id /\ u.todo = Tail(t.todo) /\ u.mounted = t.mounted
      BY <1>2, <3>3, <3>4 DEF Task
    <3>6. tasks' \subseteq Task /\ TasksInv'
      BY <1>1, <3>1, <3>2, <3>3, <3>4, <3>5, TaskGoesOn
    <3> QED
      BY <3>2, <3>6 DEF SurfaceInv, TypeOK
  <2>3. CASE step = 4 /\ Settle(t, TRUE)
    <3>1. tasks' = tasks \ {t}
      BY <2>3 DEF Settle
    <3>2. status' \in {"none", "advanced"} /\ controlOn' \in BOOLEAN /\ tab' = tab
      BY <1>2, <2>3, TaskFacts DEF Settle, SurfaceInv, TypeOK
    <3> QED
      BY <1>1, <3>1, <3>2, TaskGoesOn
  <2>4. CASE /\ step = 4 /\ t.id = "order" /\ tasks' = (tasks \ {t}) \cup {[t EXCEPT !.stage = "notify"]}
             /\ UNCHANGED <<tab, status, controlOn>>
    <3>1. PICK u : u = [t EXCEPT !.stage = "notify"]
      OBVIOUS
    <3>2. u \in Task /\ u.n = t.n /\ u.id = t.id /\ u.todo = t.todo /\ u.mounted = t.mounted /\ t.todo # <<>>
      BY <1>2, <3>1 DEF Task, TaskOK
    <3>3. tasks' \subseteq Task /\ TasksInv'
      BY <1>1, <2>4, <3>1, <3>2, TaskGoesOn
    <3> QED
      BY <2>4, <3>3 DEF SurfaceInv, TypeOK
  <2> QED
    BY <2>1, <2>2, <2>3, <2>4, RefreshFacts
<1> HIDE DEF k
<1>6. TypeOK'
  <2>1. store' \in [Ids -> Stored] /\ current' \in [Kinds -> Ids \cup {"absent"}] /\ writtenAt' \in [Ids -> 0..MaxWrites]
    BY <1>1, <1>2, <1>3, <1>4 DEF SurfaceInv, TypeOK
  <2>2. reloads' \subseteq Kinds /\ unasked' \subseteq Ids
    BY <1>1, <1>2, <1>3 DEF SurfaceInv, TypeOK
  <2>3. turn' \in 0..MaxWrites /\ step' \in 1..Len(Sets)
    BY <1>1, <1>2, StepFacts, BoundsAssumption
  <2> QED
    BY <1>1, <1>5, <2>1, <2>2, <2>3 DEF SurfaceInv, TypeOK
<1>7. TurnInv'
  <2>1. CASE step = 4
    BY <1>1, <1>5, <2>1, TurnOver
  <2>2. CASE step # 4
    <3>1. turn' # 0 /\ turn' = t.n /\ step' # 1 /\ tasks' = tasks /\ t.id \in unasked'
      BY <1>1, <1>2, <2>2
    <3>2. \A u \in tasks : u.n = t.n => u = t
      BY DEF SurfaceInv, TasksInv
    <3>3. store'[t.id] # Nothing
      BY <1>1, <1>2, <1>4 DEF SurfaceInv, TypeOK, TurnInv
    <3>4. t.id \notin {"control", "order"} => store'[t.id].n = t.n
      BY <1>1, <1>2, <1>4 DEF SurfaceInv, TypeOK, TurnInv
    <3> QED
      BY <1>1, <3>1, <3>2, <3>3, <3>4 DEF TurnInv
  <2> QED
    BY <2>1, <2>2
<1>8. PressesInv'
  BY <1>1, <1>2, <1>4 DEF SurfaceInv, TypeOK, PressesInv
<1>9. PointersInv'
  BY <1>1, <1>3 DEF SurfaceInv, TypeOK, PointersInv
<1>10. ReadableAnytime'
  <2>1. \A i \in Ids : store[i] # Nothing => store'[i] # Nothing
    BY <1>1, <1>2, <1>4 DEF SurfaceInv, TypeOK
  <2>2. ASSUME NEW j \in Kinds, current'[j] # "absent" PROVE store'[current'[j]] # Nothing
    <3>1. CASE current'[j] = current[j]
      BY <2>1, <2>2, <3>1 DEF SurfaceInv, TypeOK, ReadableAnytime
    <3>2. CASE current'[j] # current[j]
      <4>1. step = 2 /\ current'[j] = t.id
        BY <1>1, <1>3, <3>2 DEF SurfaceInv, TypeOK
      <4> QED
        BY <1>1, <4>1 DEF SurfaceInv, TurnInv
    <3> QED
      BY <3>1, <3>2
  <2>3. ASSUME NEW j \in Kinds \ {"control"} PROVE writtenAt'[j] <= store'[j].n
    <3>0. j \in Ids /\ j # "order"
      BY KindFacts
    <3>1. CASE j # t.id
      BY <1>1, <3>0, <3>1 DEF SurfaceInv, TypeOK, ReadableAnytime
    <3>2. CASE j = t.id
      <4>1. t.n = presses
        BY <1>2, <3>0, <3>2 DEF TaskOK
      <4>2. CASE step = 1
        <5>1. store'[j].n = presses /\ writtenAt'[j] = writtenAt[j]
          BY <1>1, <1>2, <1>4, <3>2, <4>1, <4>2 DEF SurfaceInv, TypeOK
        <5> QED
          BY <3>0, <5>1 DEF SurfaceInv, PressesInv
      <4>3. CASE step = 3
        <5>1. store'[j].n = t.n
          BY <1>1, <2>3, <3>0, <3>2, <4>3 DEF SurfaceInv, TurnInv
        <5>2. writtenAt'[j] = t.n
          BY <1>1, <1>2, <3>2, <4>3 DEF SurfaceInv, TypeOK
        <5> QED
          BY <1>2, <5>1, <5>2
      <4>4. CASE step \notin {1, 3}
        BY <1>1, <4>4 DEF SurfaceInv, ReadableAnytime
      <4> QED
        BY <4>2, <4>3, <4>4
    <3> QED
      BY <3>1, <3>2
  <2> QED
    BY <2>2, <2>3 DEF ReadableAnytime
<1>11. CaughtUp'
  <2>1. ASSUME NEW j \in Kinds, current'[j] = j, j \notin unasked' \cup reloads'
        PROVE  /\ current[j] = j /\ j \notin unasked \cup reloads /\ store'[j] = store[j]
    <3>1. j # "order" /\ j \in Ids
      BY KindFacts
    <3>2. j # t.id
      BY <1>1, <1>3, <2>1, <3>1
    <3>3. j \notin unasked /\ j \notin reloads /\ store'[j] = store[j]
      BY <1>1, <2>1, <3>1, <3>2 DEF SurfaceInv, TypeOK
    <3>4. current[j] = j
      BY <1>1, <1>3, <2>1, <3>1, <3>2 DEF SurfaceInv, TypeOK
    <3> QED
      BY <3>3, <3>4
  <2> QED
    BY <1>1, <2>1 DEF SurfaceInv, CaughtUp, Told
<1> QED
  BY <1>5, <1>6, <1>7, <1>8, <1>9, <1>10, <1>11 DEF SurfaceInv

-----------------------------------------------------------------------------
(* The extension.                                                          *)

LEMMA BeginReadSurface ==
  ASSUME SurfaceInv, NEW k \in Kinds, BeginRead(k) PROVE SurfaceInv'
<1>1. /\ UNCHANGED <<store, current, writtenAt, decodeError, tab, status, controlOn, tasks, turn, step, presses, toggles,
                     intents, shown, spanned, unasked>>
      /\ reloads' = reloads \ {k} /\ k \in reloads /\ \A r \in reads : r.kind # k
      /\ reads' = IF current[k] = "absent" THEN reads
                  ELSE reads \cup {[kind |-> k, id |-> current[k], raw |-> store[current[k]]]}
  BY DEF BeginRead, groupVars, screenVars, boundVars
<1>2. current[k] \in {k, "order", "absent"} /\ k \in Ids /\ "order" \in Ids
  BY KindFacts DEF SurfaceInv, PointersInv
<1>3. PICK new : new = [kind |-> k, id |-> current[k], raw |-> store[current[k]]]
  OBVIOUS
<1>4. /\ new.kind = k /\ new.id = current[k] /\ new.raw = store[current[k]]
      /\ current[k] # "absent" => new \in Read
  BY <1>2, <1>3 DEF SurfaceInv, TypeOK, Read
<1>5. reads' = IF current[k] = "absent" THEN reads ELSE reads \cup {new}
  BY <1>1, <1>3
<1>6. TypeOK'
  BY <1>1, <1>4, <1>5 DEF SurfaceInv, TypeOK
<1>7. TasksInv' /\ TurnInv' /\ PressesInv' /\ ReadableAnytime'
  BY <1>1 DEF SurfaceInv, TasksInv, TaskOK, TurnInv, PressesInv, ReadableAnytime
<1>8. PointersInv'
  <2>1. \A r \in reads' : r.id \in {r.kind, "order"}
    BY <1>2, <1>4, <1>5 DEF SurfaceInv, PointersInv
  <2>2. \A r, s \in reads' : r.kind = s.kind => r = s
    BY <1>1, <1>4, <1>5 DEF SurfaceInv, PointersInv
  <2> QED
    BY <1>1, <2>1, <2>2 DEF SurfaceInv, PointersInv
<1>9. CaughtUp'
  <2>1. ASSUME NEW j \in Kinds, current[j] = j, j \notin unasked \cup reloads'
        PROVE  \/ \E r \in reads' : r.kind = j /\ r.id = j /\ r.raw = store[j]
               \/ (\A r \in reads' : r.kind # j) /\ Told(j)
    <3>1. CASE j = k
      <4>1. current[k] # "absent"
        BY <2>1, <3>1, KindFacts
      <4> QED
        BY <1>4, <1>5, <2>1, <3>1, <4>1
    <3>2. CASE j # k
      <4>1. \/ \E r \in reads : r.kind = j /\ r.id = j /\ r.raw = store[j]
            \/ (\A r \in reads : r.kind # j) /\ Told(j)
        BY <1>1, <2>1, <3>2 DEF SurfaceInv, CaughtUp
      <4> QED
        BY <1>4, <1>5, <3>2, <4>1
    <3> QED
      BY <3>1, <3>2
  <2> QED
    BY <1>1, <2>1 DEF CaughtUp, Told
<1> QED
  BY <1>6, <1>7, <1>8, <1>9 DEF SurfaceInv

(* The breadcrumb that a decode leaves.                                    *)
LEMMA BreadcrumbFacts ==
  ASSUME SurfaceInv, NEW k, NEW id \in Ids, NEW raw, decodeError' = Breadcrumb(k, id, raw)
  PROVE  /\ decodeError' \subseteq Ids
         /\ \A i : i # id => (i \in decodeError' <=> i \in decodeError)
         /\ (raw # Nothing /\ ~Mismatch(k, raw)) => (id \in decodeError' <=> ~Decodes(k, raw))
<1>1. decodeError \subseteq Ids
  BY DEF SurfaceInv, TypeOK
<1> QED
  BY <1>1 DEF Breadcrumb

LEMMA FinishReadSurface ==
  ASSUME SurfaceInv, NEW r \in reads, FinishRead(r) PROVE SurfaceInv'
<1>1. /\ UNCHANGED <<store, current, writtenAt, tab, status, controlOn, tasks, turn, step, presses, toggles, reloads,
                     intents, spanned, unasked>>
      /\ reads' = reads \ {r}
      /\ shown' = [shown EXCEPT ![r.kind] = Render(r.kind, r.raw)]
      /\ decodeError' = Breadcrumb(r.kind, r.id, r.raw)
  BY DEF FinishRead, groupVars, screenVars, boundVars
<1>2. r.kind \in Kinds /\ r.id \in Ids /\ r.raw \in Stored /\ r.id \in {r.kind, "order"}
  BY DEF SurfaceInv, TypeOK, Read, PointersInv
<1>3. /\ decodeError' \subseteq Ids
      /\ \A i : i # r.id => (i \in decodeError' <=> i \in decodeError)
      /\ (r.raw # Nothing /\ ~Mismatch(r.kind, r.raw)) => (r.id \in decodeError' <=> ~Decodes(r.kind, r.raw))
  BY <1>1, <1>2, BreadcrumbFacts
<1>4. TypeOK'
  <2>1. shown' \in [Kinds -> Rendered]
    BY <1>1, <1>2, RenderFacts DEF SurfaceInv, TypeOK
  <2> QED
    BY <1>1, <1>3, <2>1 DEF SurfaceInv, TypeOK
<1>5. TasksInv' /\ TurnInv' /\ PressesInv' /\ PointersInv' /\ ReadableAnytime'
  BY <1>1 DEF SurfaceInv, TasksInv, TaskOK, TurnInv, PressesInv, PointersInv, ReadableAnytime
<1>6. CaughtUp'
  <2>1. ASSUME NEW j \in Kinds, current[j] = j, j \notin unasked \cup reloads
        PROVE  \/ \E q \in reads' : q.kind = j /\ q.id = j /\ q.raw = store[j]
               \/ (\A q \in reads' : q.kind # j) /\ Told(j)'
    <3>0. j # "order" /\ store[j] # Nothing
      BY <2>1, KindFacts DEF SurfaceInv, ReadableAnytime
    <3>1. \/ \E q \in reads : q.kind = j /\ q.id = j /\ q.raw = store[j]
          \/ (\A q \in reads : q.kind # j) /\ Told(j)
      BY <2>1 DEF SurfaceInv, CaughtUp
    <3>2. CASE j = r.kind
      <4>1. \A q \in reads : q.kind = j => q = r
        BY <3>2 DEF SurfaceInv, PointersInv
      <4>2. r.id = j /\ r.raw = store[j]
        BY <3>1, <3>2, <4>1
      <4>3. shown'[j] = Render(j, store[j])
        BY <1>1, <1>2, <3>2, <4>2 DEF SurfaceInv, TypeOK
      <4>4. ~Mismatch(j, store[j]) => (j \in decodeError' <=> ~Decodes(j, store[j]))
        BY <1>3, <3>0, <3>2, <4>2
      <4>5. \A q \in reads' : q.kind # j
        BY <1>1, <4>1
      <4> QED
        BY <1>1, <4>3, <4>4, <4>5 DEF Told
    <3>3. CASE j # r.kind
      <4>1. shown'[j] = shown[j] /\ (j \in decodeError' <=> j \in decodeError)
        BY <1>1, <1>2, <1>3, <3>0, <3>3 DEF SurfaceInv, TypeOK
      <4>2. Told(j) => Told(j)'
        BY <1>1, <4>1 DEF Told
      <4> QED
        BY <1>1, <3>1, <3>3, <4>2
    <3> QED
      BY <3>2, <3>3
  <2> QED
    BY <1>1, <2>1 DEF CaughtUp, Told
<1> QED
  BY <1>4, <1>5, <1>6 DEF SurfaceInv

LEMMA ToggleSurface ==
  ASSUME SurfaceInv, NEW value \in BOOLEAN, Toggle(value) PROVE SurfaceInv'
<1>1. /\ UNCHANGED <<store, current, writtenAt, decodeError, tab, status, controlOn, tasks, turn, step, presses, reloads,
                     reads, shown, spanned, unasked>>
      /\ "control" \in Kinds /\ toggles < MaxToggles /\ toggles' = toggles + 1
      /\ \E id : /\ id = current["control"]
                 /\ intents' = intents \cup {[id |-> IF id = "absent" THEN "control" ELSE id,
                                              raw |-> IF id = "absent" THEN Nothing ELSE store[id], value |-> value]}
  BY DEF Toggle, groupVars, screenVars, extensionVars
<1>2. PICK id : /\ id = current["control"]
                /\ intents' = intents \cup {[id |-> IF id = "absent" THEN "control" ELSE id,
                                             raw |-> IF id = "absent" THEN Nothing ELSE store[id], value |-> value]}
  BY <1>1
<1>3. id \in {"control", "order", "absent"} /\ "control" \in Ids /\ "order" \in Ids
  BY <1>1, <1>2, KindFacts DEF SurfaceInv, PointersInv
<1>4. PICK new : new = [id |-> IF id = "absent" THEN "control" ELSE id,
                        raw |-> IF id = "absent" THEN Nothing ELSE store[id], value |-> value]
  OBVIOUS
<1>5. /\ new \in Intent /\ new.id \in {"control", "order"} /\ intents' = intents \cup {new}
      /\ new.raw = Nothing \/ (new.raw = store[id] /\ id \in Ids)
  BY <1>2, <1>3, <1>4, EntryFacts DEF SurfaceInv, TypeOK, Intent
<1>6. new.raw.n <= presses
  BY <1>5, EntryFacts DEF SurfaceInv, TypeOK, PressesInv
<1>7. TypeOK'
  <2>1. toggles' \in 0..MaxToggles
    BY <1>1, BoundsAssumption DEF SurfaceInv, TypeOK
  <2> QED
    BY <1>1, <1>5, <2>1 DEF SurfaceInv, TypeOK
<1>8. TasksInv' /\ TurnInv' /\ PointersInv' /\ ReadableAnytime' /\ CaughtUp'
  BY <1>1 DEF SurfaceInv, TasksInv, TaskOK, TurnInv, PointersInv, ReadableAnytime, CaughtUp, Told
<1>9. PressesInv'
  BY <1>1, <1>5, <1>6 DEF SurfaceInv, PressesInv
<1> QED
  BY <1>7, <1>8, <1>9 DEF SurfaceInv

LEMMA FinishToggleSurface ==
  ASSUME SurfaceInv, NEW i \in intents, FinishToggle(i) PROVE SurfaceInv'
<1>1. /\ UNCHANGED <<current, writtenAt, tab, status, controlOn, tasks, turn, step, presses, toggles, reads, shown, spanned, unasked>>
      /\ intents' = intents \ {i} /\ reloads' = Kinds
      /\ decodeError' = Breadcrumb("control", i.id, i.raw)
      /\ store' = IF Decodes("control", i.raw) THEN [store EXCEPT ![i.id] = [i.raw EXCEPT !.value = i.value]] ELSE store
  BY DEF FinishToggle, screenVars, boundVars
<1>2. i.id \in Ids /\ i.raw \in Stored /\ i.value \in BOOLEAN /\ i.id \in {"control", "order"} /\ i.raw.n <= presses
  BY DEF SurfaceInv, TypeOK, Intent, PressesInv
<1>3. decodeError' \subseteq Ids
  BY <1>1, <1>2, BreadcrumbFacts
<1>4. /\ \A j \in Ids : store'[j] \in Stored /\ store'[j].n <= presses /\ (store[j] # Nothing => store'[j] # Nothing)
      /\ \A j \in Ids : j \notin {"control", "order"} => store'[j] = store[j]
      /\ store' \in [Ids -> Stored]
  <2>1. CASE ~Decodes("control", i.raw)
    BY <1>1, <2>1 DEF SurfaceInv, TypeOK, PressesInv
  <2>2. CASE Decodes("control", i.raw)
    <3>1. i.raw \in Entry
      BY <1>2, <2>2, EntryFacts DEF Decodes
    <3>2. PICK new : new = [i.raw EXCEPT !.value = i.value]
      OBVIOUS
    <3>3. new \in Stored /\ new.n <= presses /\ new # Nothing
      BY <1>2, <3>1, <3>2, EntryFacts DEF Stored
    <3>4. store' = [store EXCEPT ![i.id] = new]
      BY <1>1, <2>2, <3>2
    <3> QED
      BY <1>2, <3>3, <3>4 DEF SurfaceInv, TypeOK, PressesInv
  <2> QED
    BY <2>1, <2>2
<1>5. TypeOK'
  BY <1>1, <1>3, <1>4 DEF SurfaceInv, TypeOK
<1>6. TasksInv' /\ PointersInv' /\ PressesInv'
  BY <1>1, <1>4 DEF SurfaceInv, TasksInv, TaskOK, PointersInv, PressesInv
<1>7. TurnInv'
  <2>1. \A t \in tasks : t.id \in Ids
    BY TaskFacts DEF SurfaceInv, TypeOK
  <2> QED
    BY <1>1, <1>4, <2>1 DEF SurfaceInv, TurnInv
<1>8. ReadableAnytime'
  <2>1. \A k \in Kinds : current[k] # "absent" => current[k] \in Ids
    BY DEF SurfaceInv, TypeOK
  <2>2. \A k \in Kinds : k \in Ids /\ k # "order"
    BY KindFacts
  <2> QED
    BY <1>1, <1>4, <2>1, <2>2 DEF SurfaceInv, ReadableAnytime
<1>9. CaughtUp'
  BY <1>1 DEF CaughtUp
<1> QED
  BY <1>5, <1>6, <1>7, <1>8, <1>9 DEF SurfaceInv

-----------------------------------------------------------------------------
(* The theorems.                                                           *)

LEMMA SurfaceNext == SurfaceInv /\ [Next]_vars => SurfaceInv'
<1> SUFFICES ASSUME SurfaceInv, [Next]_vars PROVE SurfaceInv'
  OBVIOUS
<1>1. CASE transitionTo \/ (\E k \in Kinds : handleRefresh(k)) \/ SwitchTab \/ Kill
  BY <1>1, ScreenSurface
<1>2. CASE App
  BY <1>2, TaskSurface, RefreshSurface DEF App
<1>3. CASE \E value \in BOOLEAN : Toggle(value)
  BY <1>3, ToggleSurface
<1>4. CASE Extension
  BY <1>4, BeginReadSurface, FinishReadSurface, FinishToggleSurface DEF Extension
<1>5. CASE UNCHANGED vars
  <2>1. UNCHANGED <<store, current, writtenAt, decodeError, tab, status, controlOn, tasks, turn, step, presses, toggles,
                    reloads, reads, intents, shown, spanned, unasked>>
    BY <1>5 DEF vars, groupVars, screenVars, boundVars, extensionVars
  <2> QED
    BY <2>1
    DEF SurfaceInv, TypeOK, TasksInv, TaskOK, TurnInv, PressesInv, PointersInv, ReadableAnytime, CaughtUp, Told
<1> QED
  BY <1>1, <1>2, <1>3, <1>4, <1>5 DEF Next

THEOREM SurfaceInvariant == Spec => []SurfaceInv
BY SurfaceInit, SurfaceNext, PTL DEF Spec

(* Every variable keeps its type: in particular a task is never inside a   *)
(* refresh with no surface left to write.                                  *)
THEOREM TypeCorrect == Spec => []TypeOK
<1>1. SurfaceInv => TypeOK
  BY DEF SurfaceInv
<1> QED
  BY <1>1, SurfaceInvariant, PTL

(* Wherever the app is killed and whenever the extension looks, a current  *)
(* id has an entry and a stamp is not newer than its entry                 *)
(* (refreshWidgetSurface, stampWrittenAt).                                 *)
THEOREM AlwaysReadable == Spec => []ReadableAnytime
<1>1. SurfaceInv => ReadableAnytime
  BY DEF SurfaceInv
<1> QED
  BY <1>1, SurfaceInvariant, PTL

(* A surface at rest shows what is stored, whatever order the writes, the  *)
(* reads and the toggles took (reloadWidget, decodeSnapshot).              *)
THEOREM AtRestIsTrue == Spec => []RestIsTrue
<1>1. SurfaceInv => RestIsTrue
  BY DEF SurfaceInv, CaughtUp, RestIsTrue, AtRest, Told
<1> QED
  BY <1>1, SurfaceInvariant, PTL

(* As long as no task outlives its screen, the busy flag keeps an earlier  *)
(* stage from overwriting a later one (DeliveryExampleScreen, busy).       *)
THEOREM StagesAdvance == Spec => OrderNeverGoesBack
<1>1. ASSUME SurfaceInv, [Next]_vars, ~spanned, intents' = intents
      PROVE  store'["order"].n >= store["order"].n
  <2>0. /\ "order" \in Ids /\ store["order"].n \in Nat /\ presses \in Nat
        /\ store["order"].n <= presses
    BY <1>1, KindFacts, EntryFacts, BoundsAssumption DEF SurfaceInv, TypeOK, PressesInv
  <2>1. CASE store' = store
    BY <2>0, <2>1
  <2>2. ASSUME NEW t \in tasks, Refresh(t) PROVE store'["order"].n >= store["order"].n
    <3>1. t.n = presses /\ t \in Task /\ t.todo # <<>>
      BY <1>1 DEF SurfaceInv, TypeOK, TasksInv, TaskOK
    <3>2. Projected(t).n = presses
      BY <3>1, TaskFacts
    <3>3. store' = store \/ store' = [store EXCEPT ![t.id] = Projected(t)]
      BY <1>1, <2>2, RefreshFacts
    <3> QED
      BY <1>1, <2>0, <3>2, <3>3 DEF SurfaceInv, TypeOK
  <2>3. ASSUME NEW i \in intents, FinishToggle(i) PROVE FALSE
    BY <1>1, <2>3 DEF FinishToggle
  <2>4. CASE \/ transitionTo \/ (\E k \in Kinds : handleRefresh(k)) \/ SwitchTab \/ Kill
             \/ (\E value \in BOOLEAN : Toggle(value)) \/ UNCHANGED vars
    <3>1. store' = store
      BY <2>4 DEF transitionTo, handleRefresh, Press, SwitchTab, Kill, Toggle, vars, groupVars
    <3> QED
      BY <2>1, <3>1
  <2>5. ASSUME NEW t \in tasks, ActivityAnswers(t) \/ SetFails(t) \/ Notified(t) PROVE store' = store
    BY <2>5 DEF ActivityAnswers, SetFails, Notified, groupVars
  <2>6. CASE (\E k \in Kinds : BeginRead(k)) \/ (\E r \in reads : FinishRead(r))
    <3>1. store' = store
      BY <2>6 DEF BeginRead, FinishRead, groupVars
    <3> QED
      BY <2>1, <3>1
  <2> QED
    BY <1>1, <2>1, <2>2, <2>3, <2>4, <2>5, <2>6 DEF Next, App, Extension
<1>2. SurfaceInv /\ [Next]_vars => [(~spanned /\ intents' = intents) => store'["order"].n >= store["order"].n]_vars
  BY <1>1
<1> QED
  BY <1>2, SurfaceInvariant, PTL DEF Spec, OrderNeverGoesBack

=============================================================================
