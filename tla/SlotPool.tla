------------------------------ MODULE SlotPool -------------------------------
(***************************************************************************)
(* What the stream cap of packages/push promises (src/packages/push/       *)
(* README.md:191-193, http.ts:59-78), without saying how: at most Cap      *)
(* requests hold a slot, the others wait in arrival order, nobody waits    *)
(* while no slot is held, and a freed slot goes straight to the longest    *)
(* waiter.  Http2Client implements this specification.                     *)
(***************************************************************************)
EXTENDS Naturals, FiniteSets, SequencesExt

CONSTANTS Clients, Cap

VARIABLES holding, queue

poolVars == <<holding, queue>>

Idle(c) == c \notin holding /\ \A i \in 1..Len(queue) : queue[i] # c

PoolInit == holding = {} /\ queue = <<>>

Admit(c) ==
  /\ Idle(c)
  /\ Cardinality(holding) < Cap
  /\ holding' = holding \cup {c}
  /\ UNCHANGED queue

Enqueue(c) ==
  /\ Idle(c)
  /\ holding # {}
  /\ queue' = Append(queue, c)
  /\ UNCHANGED holding

HandOff(c) ==
  /\ c \in holding
  /\ queue # <<>>
  /\ holding' = (holding \ {c}) \cup {Head(queue)}
  /\ queue' = Tail(queue)

Release(c) ==
  /\ c \in holding
  /\ queue = <<>>
  /\ holding' = holding \ {c}
  /\ UNCHANGED queue

Leave(i) ==
  /\ queue' = RemoveAt(queue, i)
  /\ UNCHANGED holding

Drain == queue' = <<>> /\ UNCHANGED holding

PoolNext ==
  \/ \E c \in Clients : Admit(c) \/ Enqueue(c) \/ HandOff(c) \/ Release(c)
  \/ \E i \in 1..Len(queue) : Leave(i)
  \/ Drain

PoolSpec == PoolInit /\ [][PoolNext]_poolVars

=============================================================================
