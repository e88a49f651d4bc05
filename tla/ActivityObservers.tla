-------------------------- MODULE ActivityObservers --------------------------
(***************************************************************************)
(* How the Live Activity module follows ActivityKit (LiveActivityModule    *)
(* .swift): drain tasks that iterate ActivityKit's streams and send events *)
(* to JavaScript, and the actor that holds their handles                   *)
(* (ObserverRegistry.swift).                                               *)
(*                                                                         *)
(* There is a slot for each activity, one for the push-to-start tokens and *)
(* one for the activities ActivityKit starts. Every call of the actor is   *)
(* made from an unstructured task of its own, and nothing but practice     *)
(* (LiveActivityModule.swift:250-251) has them arrive in the order in      *)
(* which they were made: the actor may take them in any. A drain holds     *)
(* what it has taken from its stream while it acts on it, and a            *)
(* cancellation ends it only when it would take the next.                  *)
(***************************************************************************)
EXTENDS Integers, SequencesExt

CONSTANTS
  Activities,
  TokenSlot, UpdatesSlot,  \* the class-level slots
  MaxSurprises,            \* bound: tokens issued and calls taken out of turn, together
  MaxStarts,               \* bound: times JavaScript starts to observe
  MaxTokens                \* bound: push-to-start tokens ActivityKit issues

Slots == Activities \cup {TokenSlot, UpdatesSlot}
Items == Activities \cup 1..MaxTokens

ASSUME ObserversAssumption ==
  /\ TokenSlot # UpdatesSlot /\ {TokenSlot, UpdatesSlot} \cap Activities = {}
  /\ Activities \cap 1..MaxTokens = {} /\ IsFiniteSet(Activities)
  /\ MaxSurprises \in Nat /\ MaxStarts \in Nat /\ MaxTokens \in Nat

VARIABLES
  observing,  \* JavaScript has listeners
  starts,     \* times it began to observe
  outOfTurn,  \* times the actor took a call out of turn
  overtaken,  \* history: one of them was a begin and a clearObservers crossing
  life,       \* each activity: none, running, over
  calls,      \* actor calls under way
  handles,    \* slot -> the drain in handles, pushToStartHandle, ...; 0 for none
  drains,     \* the drain tasks that have not returned
  issued,     \* the newest token ActivityKit issued
  cached,     \* latestPushToStartToken
  told,       \* history: the activities whose end was sent to a listener
  expected    \* history: the activities this observation should follow

appVars == <<observing, starts, outOfTurn, overtaken>>
systemVars == <<life, issued>>
registryVars == <<handles, cached>>
vars == <<appVars, systemVars, registryVars, calls, drains, told, expected>>

(* What a drain does: it waits for its stream, holds an item it has taken, *)
(* or waits for the actor. "earlier" is history: JavaScript has stopped    *)
(* observing since it was spawned.                                         *)
Stages == {"waits", "holds", "calls"}
Drain == [id : Nat \ {0}, slot : Slots, cancelled : BOOLEAN, pending : SUBSET Items,
          stage : Stages, item : Items \cup {0}, earlier : BOOLEAN]

Begin(slot) == [op |-> "begin", slot |-> slot]
ClearObservers == [op |-> "clearObservers"]
Clear(a, d) == [op |-> "clear", slot |-> a, by |-> d]
SetToken(t, d) == [op |-> "setToken", token |-> t, by |-> d]
Call == {Begin(s) : s \in Slots} \cup {ClearObservers}
        \cup [op : {"clear"}, slot : Activities, by : Nat] \cup [op : {"setToken"}, token : 1..MaxTokens, by : Nat]

Init ==
  /\ observing = FALSE /\ starts = 0 /\ outOfTurn = 0 /\ overtaken = FALSE
  /\ life \in [Activities -> {"none", "running"}]
  /\ calls = <<>>
  /\ handles = [s \in Slots |-> 0]
  /\ drains = {}
  /\ issued = 0 /\ cached = 0
  /\ told = {} /\ expected = {}

-----------------------------------------------------------------------------
(* JavaScript and ActivityKit.                                             *)

Put(newCalls) == calls' = calls \o newCalls

(* OnStartObserving: Activity.activities lists the ended ones until they   *)
(* are dismissed.                                                          *)
OnStartObserving ==
  /\ ~observing /\ starts < MaxStarts
  /\ observing' = TRUE /\ starts' = starts + 1 /\ overtaken' = FALSE
  /\ \E listed \in SUBSET {a \in Activities : life[a] # "none"} :
       /\ {a \in Activities : life[a] = "running"} \subseteq listed
       /\ \E order \in SetToSeqs(listed) :
            Put([i \in 1..Len(order) |-> Begin(order[i])] \o <<Begin(TokenSlot), Begin(UpdatesSlot)>>)
  /\ expected' = {a \in Activities : life[a] = "running"}
  /\ UNCHANGED <<outOfTurn, systemVars, registryVars, drains, told>>

OnStopObserving ==
  /\ observing
  /\ observing' = FALSE /\ overtaken' = FALSE
  /\ Put(<<ClearObservers>>)
  /\ expected' = {} /\ drains' = {[d EXCEPT !.earlier = TRUE] : d \in drains}
  /\ UNCHANGED <<starts, outOfTurn, systemVars, registryVars, told>>

(* What a stream yields reaches the drains that iterate it.                *)
Yield(slot, item) ==
  drains' = {IF d.slot = slot /\ ~d.cancelled THEN [d EXCEPT !.pending = @ \cup {item}] ELSE d : d \in drains}

(* start() called from JavaScript observes the new activity itself.        *)
start(a) ==
  /\ life[a] = "none"
  /\ life' = [life EXCEPT ![a] = "running"]
  /\ Yield(UpdatesSlot, a)
  /\ Put(<<Begin(a)>>)
  /\ expected' = IF observing THEN expected \cup {a} ELSE expected
  /\ UNCHANGED <<appVars, issued, registryVars, told>>

(* The updates drain that runs is there to stay.                           *)
UpdatesDrained ==
  /\ observing
  /\ \E d \in drains : d.slot = UpdatesSlot /\ ~d.cancelled
  /\ \A i \in 1..Len(calls) : calls[i] \notin {ClearObservers, Begin(UpdatesSlot)}

(* A push-to-start delivery starts one.                                    *)
Delivered(a) ==
  /\ life[a] = "none"
  /\ life' = [life EXCEPT ![a] = "running"]
  /\ Yield(UpdatesSlot, a)
  /\ expected' = IF UpdatesDrained THEN expected \cup {a} ELSE expected
  /\ UNCHANGED <<appVars, issued, registryVars, calls, told>>

(* end(), the user, or the system ends one.                                *)
Over(a) ==
  /\ life[a] = "running"
  /\ life' = [life EXCEPT ![a] = "over"]
  /\ Yield(a, a)
  /\ UNCHANGED <<appVars, issued, registryVars, calls, told, expected>>

Issue ==
  /\ issued < MaxTokens /\ issued + outOfTurn < MaxSurprises
  /\ issued' = issued + 1
  /\ Yield(TokenSlot, issued + 1)
  /\ UNCHANGED <<appVars, life, registryVars, calls, told, expected>>

-----------------------------------------------------------------------------
(* The actor.                                                              *)

(* A cancelled drain that waits for its stream returns: for await ends.    *)
Cancel(ids) ==
  {IF d.id \in ids THEN [d EXCEPT !.cancelled = TRUE, !.pending = {}] ELSE d :
     d \in {e \in drains : e.id \in ids => e.stage # "waits"}}

(* A new iterator may or may not be given the present value.               *)
Present(slot) ==
  CASE slot = TokenSlot -> {{}, {issued} \ {0}}
    [] slot = UpdatesSlot -> {{}, {a \in Activities : life[a] = "running"}}
    [] OTHER -> {IF life[slot] = "over" THEN {slot} ELSE {}}

(* A task handle: no drain that goes on has it.                            *)
Fresh == CHOOSE i \in 1..(Cardinality(drains) + 1) : \A d \in drains : d.id # i

NewDrain(slot, items) ==
  [id |-> Fresh, slot |-> slot, cancelled |-> FALSE, pending |-> items, stage |-> "waits", item |-> 0, earlier |-> FALSE]

(* Mutant: replaces the handle and lets the old drain run.                 *)
BeginWithoutCancel(slot) ==
  /\ \E items \in Present(slot) : drains' = drains \cup {NewDrain(slot, items)}
  /\ handles' = [handles EXCEPT ![slot] = Fresh]
  /\ UNCHANGED cached

(* beginObservation and its siblings.                                      *)
beginObservation(slot) ==
  /\ \E items \in Present(slot) : drains' = Cancel({handles[slot]}) \cup {NewDrain(slot, items)}
  /\ handles' = [handles EXCEPT ![slot] = Fresh]
  /\ UNCHANGED cached

(* Mutant: forgets the class-level drains.                                 *)
ClearActivitiesOnly ==
  /\ drains' = Cancel({handles[a] : a \in Activities})
  /\ handles' = [s \in Slots |-> IF s \in Activities THEN 0 ELSE handles[s]]
  /\ UNCHANGED cached

clearObservers ==
  /\ drains' = Cancel({handles[s] : s \in Slots})
  /\ handles' = [s \in Slots |-> 0]
  /\ UNCHANGED cached

(* clear(id:), awaited by the drain that saw the end, which then returns.  *)
clear(slot, by) ==
  /\ drains' = {d \in Cancel({handles[slot]}) : d.id # by}
  /\ handles' = [handles EXCEPT ![slot] = 0]
  /\ UNCHANGED cached

(* The drain waits again, unless it has been cancelled.                    *)
Resume(d) == {e \in {[d EXCEPT !.stage = "waits", !.item = 0]} : ~e.cancelled}

setPushToStartToken(t, by) ==
  /\ cached' = t
  /\ drains' = UNION {IF d.id = by THEN Resume(d) ELSE {d} : d \in drains}
  /\ UNCHANGED handles

(* The i-th call under way overtakes one that was made before it: while    *)
(* JavaScript observes, a begin a clearObservers that will undo it; when   *)
(* it has stopped, a clearObservers a begin that it should have undone.    *)
Overtakes(i) ==
  \E j \in 1..(i - 1) :
    IF observing THEN calls[i].op = "begin" /\ calls[j].op = "clearObservers"
                 ELSE calls[i].op = "clearObservers" /\ calls[j].op = "begin"

(* The actor takes a call.                                                 *)
Serve ==
  /\ \E i \in 1..Len(calls) :
       /\ i > 1 => issued + outOfTurn < MaxSurprises
       /\ outOfTurn' = IF i > 1 THEN outOfTurn + 1 ELSE outOfTurn
       /\ calls' = RemoveAt(calls, i)
       /\ overtaken' = (overtaken \/ Overtakes(i))
       /\ LET c == calls[i] IN
            \/ c.op = "begin" /\ beginObservation(c.slot)
            \/ c.op = "clearObservers" /\ clearObservers
            \/ c.op = "clear" /\ clear(c.slot, c.by)
            \/ c.op = "setToken" /\ setPushToStartToken(c.token, c.by)
  /\ UNCHANGED <<observing, starts, systemVars, told, expected>>

-----------------------------------------------------------------------------
(* The drains.                                                             *)

Becomes(d, es) == drains' = (drains \ {d}) \cup es

(* The streams are in order: the oldest token first.                       *)
Oldest(d) == {x \in d.pending : d.slot = TokenSlot => \A y \in d.pending : x <= y}

Take(d) ==
  /\ d.stage = "waits"
  /\ \E x \in Oldest(d) : Becomes(d, {[d EXCEPT !.stage = "holds", !.item = x, !.pending = @ \ {x}]})
  /\ UNCHANGED <<appVars, systemVars, registryVars, calls, told, expected>>

(* The updates drain observes an activity ActivityKit started.             *)
ObserveStarted(d) ==
  /\ d.stage = "holds" /\ d.slot = UpdatesSlot
  /\ Put(<<Begin(d.item)>>)
  /\ Becomes(d, Resume(d))
  /\ UNCHANGED <<appVars, systemVars, registryVars, told, expected>>

(* A token is cached, and sent when the actor has answered.                *)
CacheToken(d) ==
  /\ d.stage = "holds" /\ d.slot = TokenSlot
  /\ Put(<<SetToken(d.item, d.id)>>)
  /\ Becomes(d, {[d EXCEPT !.stage = "calls"]})
  /\ UNCHANGED <<appVars, systemVars, registryVars, told, expected>>

(* Mutant: takes whatever a stream yields for the end of its activity.     *)
SendAnyItem(d) ==
  /\ d.stage = "holds" /\ d.slot # TokenSlot
  /\ told' = IF observing THEN told \cup {d.slot} ELSE told
  /\ Put(<<Clear(d.slot, d.id)>>)
  /\ Becomes(d, {[d EXCEPT !.stage = "calls"]})
  /\ UNCHANGED <<appVars, systemVars, registryVars, expected>>

(* Mutant: clears the slot first, which cancels the drain before it sends. *)
ClearFirst(d) ==
  /\ d.stage = "holds" /\ d.slot \in Activities
  /\ Put(<<Clear(d.slot, d.id)>>)
  /\ Becomes(d, {[d EXCEPT !.stage = "calls"]})
  /\ UNCHANGED <<appVars, systemVars, registryVars, told, expected>>

(* The end of an activity is sent; then its slot is cleared.               *)
SendEnd(d) ==
  /\ d.stage = "holds" /\ d.slot \in Activities
  /\ told' = IF observing THEN told \cup {d.slot} ELSE told
  /\ Put(<<Clear(d.slot, d.id)>>)
  /\ Becomes(d, {[d EXCEPT !.stage = "calls"]})
  /\ UNCHANGED <<appVars, systemVars, registryVars, expected>>

DrainStep == \E d \in drains : Take(d) \/ ObserveStarted(d) \/ CacheToken(d) \/ SendEnd(d)

Next ==
  \/ OnStartObserving \/ OnStopObserving \/ Issue
  \/ \E a \in Activities : start(a) \/ Delivered(a) \/ Over(a)
  \/ Serve
  \/ DrainStep

Spec == Init /\ [][Next]_vars

(* As long as a call waits for the actor or a drain has something to do,   *)
(* one of them goes on; the app and the system are free.                   *)
FairSpec == Spec /\ WF_vars(Serve \/ DrainStep)

-----------------------------------------------------------------------------
(* Properties.                                                             *)

(* Every variable has its type.                                            *)
TypeOK ==
  /\ observing \in BOOLEAN /\ starts \in 0..MaxStarts
  /\ outOfTurn \in Nat /\ overtaken \in BOOLEAN
  /\ life \in [Activities -> {"none", "running", "over"}]
  /\ calls \in Seq(Call)
  /\ handles \in [Slots -> Nat]
  /\ drains \subseteq Drain /\ expected \subseteq Activities
  /\ issued \in 0..MaxTokens /\ cached \in 0..MaxTokens
  /\ told \subseteq Activities

(* A drain that nobody has cancelled is the one the registry would cancel: *)
(* none runs untracked, and no slot has two (ObserverRegistry.swift:66-85). *)
NoUntrackedDrain == \A d \in drains : ~d.cancelled => handles[d.slot] = d.id

Live(slot) == \E d \in drains : d.slot = slot /\ ~d.cancelled

(* Every call has been taken and every drain waits for its stream.         *)
Quiet == calls = <<>> /\ \A d \in drains : d.stage = "waits" /\ d.pending = {}

(* Once the module has caught up with a JavaScript side that observes, the *)
(* class-level streams are drained, and so is every running activity that  *)
(* was there when it began to observe, that it has started itself, or that *)
(* was delivered to the updates drain. Once it has caught up with one that *)
(* has stopped, no class-level drain and no drain of an earlier observation*)
(* goes on (OnStartObserving, OnStopObserving). The one thing that spoils  *)
(* it is a begin and a clearObservers that cross on their way to the actor *)
(* (LiveActivityModule.swift:247-251), and what is spoilt is made good by  *)
(* the next start or stop (252-255).                                       *)
DrainsFollowListeners ==
  Quiet /\ ~overtaken =>
    IF observing
    THEN Live(TokenSlot) /\ Live(UpdatesSlot) /\ \A a \in expected : life[a] = "running" => Live(a)
    ELSE \A d \in drains : ~d.cancelled => d.slot \in Activities /\ ~d.earlier

(* The end of an activity that an observation should follow is told to a   *)
(* JavaScript side that goes on observing, whichever drains replace or     *)
(* clear each other meanwhile (activityStateUpdates, clear(id:)), unless   *)
(* a begin of this observation overtook the clearObservers of the last.    *)
EndsAreTold ==
  \A a \in Activities :
    (observing /\ a \in expected /\ life[a] = "over") ~> (a \in told \/ ~observing \/ overtaken)
=============================================================================
