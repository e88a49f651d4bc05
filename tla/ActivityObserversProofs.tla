------------------------ MODULE ActivityObserversProofs ------------------------
(***************************************************************************)
(* Theorems about ActivityObservers, for every set of activities, every    *)
(* number of observations and every number of tokens.                      *)
(***************************************************************************)
EXTENDS ActivityObservers, FiniteSetTheorems, TLAPS

-----------------------------------------------------------------------------
(* The inductive invariant of the registry, in whichever order calls       *)
(* arrive.                                                                 *)

(* What a drain has taken is what its stream yields; the stream of an      *)
(* activity yields when it is over, and only that makes its drain act.     *)
ItemsOK(d) ==
  /\ d.slot = UpdatesSlot => d.pending \subseteq Activities /\ (d.stage = "holds" => d.item \in Activities)
  /\ d.slot = TokenSlot => d.pending \subseteq 1..MaxTokens /\ (d.stage = "holds" => d.item \in 1..MaxTokens)
  /\ (d.slot \in Activities /\ (d.pending # {} \/ d.stage # "waits")) => life[d.slot] = "over"

ItemsInv == \A d \in drains : ItemsOK(d)

(* A task handle is that of one drain; one that the registry holds is that *)
(* of a drain of its slot that goes on.                                    *)
HandlesInv ==
  /\ \A d, e \in drains : d.id = e.id => d = e
  /\ \A s \in Slots : handles[s] # 0 => \E d \in drains : d.id = handles[s] /\ d.slot = s /\ ~d.cancelled

(* The calls under way that a drain waits for.                             *)
Awaited == {i \in 1..Len(calls) : calls[i].op \in {"clear", "setToken"}}

Waits(d, c) ==
  /\ d.id = c.by /\ d.stage = "calls"
  /\ IF c.op = "clear" THEN d.slot = c.slot ELSE d.slot = TokenSlot

(* A drain waits for at most one call, and only for the slot of its own;   *)
(* the slot of an activity is cleared when it is over.                     *)
CallsInv ==
  /\ \A i \in Awaited : \E d \in drains : Waits(d, calls[i])
  /\ \A i, j \in Awaited : calls[i].by = calls[j].by => i = j
  /\ \A i \in 1..Len(calls) : calls[i].op = "clear" => life[calls[i].slot] = "over"

RegistryInv ==
  TypeOK /\ IsFiniteSet(drains) /\ ItemsInv /\ HandlesInv /\ NoUntrackedDrain /\ CallsInv

-----------------------------------------------------------------------------
(* Sequences and finite sets.                                              *)

LEMMA AppendedFacts ==
  ASSUME NEW S, NEW q \in Seq(S), NEW r \in Seq(S)
  PROVE  /\ q \o r \in Seq(S) /\ Len(q \o r) = Len(q) + Len(r)
         /\ \A j \in 1..Len(q) : (q \o r)[j] = q[j]
         /\ \A j \in (Len(q) + 1)..(Len(q) + Len(r)) : (q \o r)[j] = r[j - Len(q)]
OBVIOUS

LEMMA RemoveAtFacts ==
  ASSUME NEW S, NEW q \in Seq(S), NEW i \in 1..Len(q)
  PROVE  /\ RemoveAt(q, i) \in Seq(S) /\ Len(RemoveAt(q, i)) = Len(q) - 1
         /\ \A j \in 1..(Len(q) - 1) : RemoveAt(q, i)[j] = IF j < i THEN q[j] ELSE q[j + 1]
<1> DEFINE before == SubSeq(q, 1, i - 1)
           after == SubSeq(q, i + 1, Len(q))
<1>1. before \in Seq(S) /\ Len(before) = i - 1 /\ \A j \in 1..(i - 1) : before[j] = q[j]
  OBVIOUS
<1>2. after \in Seq(S) /\ Len(after) = Len(q) - i /\ \A j \in 1..(Len(q) - i) : after[j] = q[i + j]
  OBVIOUS
<1>3. RemoveAt(q, i) = before \o after
  BY DEF RemoveAt
<1> HIDE DEF before, after
<1>0. Len(q) \in Nat /\ i \in 1..Len(q)
  OBVIOUS
<1>4. /\ before \o after \in Seq(S) /\ Len(before \o after) = (i - 1) + (Len(q) - i)
      /\ \A j \in 1..(i - 1) : (before \o after)[j] = before[j]
      /\ \A j \in ((i - 1) + 1)..((i - 1) + (Len(q) - i)) : (before \o after)[j] = after[j - (i - 1)]
  <2>1. /\ before \o after \in Seq(S) /\ Len(before \o after) = Len(before) + Len(after)
        /\ \A j \in 1..Len(before) : (before \o after)[j] = before[j]
        /\ \A j \in (Len(before) + 1)..(Len(before) + Len(after)) : (before \o after)[j] = after[j - Len(before)]
    BY <1>1, <1>2, AppendedFacts
  <2>2. Len(before) = i - 1 /\ Len(after) = Len(q) - i
    BY <1>1, <1>2
  <2> QED
    BY <2>1, <2>2
<1>5. ASSUME NEW j \in 1..(Len(q) - 1)
      PROVE  (before \o after)[j] = IF j < i THEN q[j] ELSE q[j + 1]
  <2>1. CASE j < i
    BY <2>1, <1>0, <1>1, <1>4
  <2>2. CASE j >= i
    <3>1. /\ j - (i - 1) \in 1..(Len(q) - i) /\ i + (j - (i - 1)) = j + 1 /\ ~(j < i)
          /\ j \in ((i - 1) + 1)..((i - 1) + (Len(q) - i))
      BY <2>2, <1>0
    <3> QED
      BY <3>1, <1>2, <1>4
  <2>3. j < i \/ j >= i
    BY <1>0
  <2> QED
    BY <2>1, <2>2, <2>3
<1> QED
  BY <1>0, <1>3, <1>4, <1>5

(* A set in one-to-one order is listed from its first to its last member.  *)
LEMMA ListFacts ==
  ASSUME NEW S, IsFiniteSet(S), NEW order \in SetToSeqs(S)
  PROVE  order \in Seq(S) /\ \A x \in S : \E i \in 1..Len(order) : order[i] = x
<1> DEFINE n == Cardinality(S)
<1>1. n \in Nat
  BY FS_CardinalityType
<1>2. order \in [1..n -> S] /\ \A i, j \in 1..n : i # j => order[i] # order[j]
  BY DEF SetToSeqs
<1>3. order \in Injection(1..n, S)
  BY <1>2 DEF Injection, IsInjective
<1>4. Cardinality(1..n) = n
  BY <1>1, FS_Interval
<1>5. order \in Surjection(1..n, S)
  BY <1>3, <1>4, FS_Injection
<1>6. \A x \in S : \E i \in 1..n : order[i] = x
  BY <1>5 DEF Surjection
<1>7. order \in Seq(S) /\ Len(order) = n
  BY <1>1, <1>2
<1> QED
  BY <1>6, <1>7

LEMMA FiniteImage ==
  ASSUME NEW S, IsFiniteSet(S), NEW f
  PROVE  IsFiniteSet({f[x] : x \in S})
<1> DEFINE T == {f[x] : x \in S}
           g == [x \in S |-> f[x]]
<1>1. g \in Surjection(S, T)
  BY DEF Surjection
<1> QED
  BY <1>1, FS_Surjection

(* A fresh handle is there, and nobody has it.                             *)
LEMMA FreshFacts ==
  ASSUME IsFiniteSet(drains), drains \subseteq Drain
  PROVE  Fresh \in Nat \ {0} /\ \A d \in drains : d.id # Fresh
<1> DEFINE n == Cardinality(drains)
           owner == [i \in 1..(n + 1) |-> CHOOSE d \in drains : d.id = i]
<1>1. n \in Nat
  BY FS_CardinalityType
<1>2. \E i \in 1..(n + 1) : \A d \in drains : d.id # i
  <2>1. SUFFICES ASSUME \A i \in 1..(n + 1) : \E d \in drains : d.id = i PROVE FALSE
    OBVIOUS
  <2>2. owner \in [1..(n + 1) -> drains] /\ \A i \in 1..(n + 1) : owner[i].id = i
    BY <2>1
  <2>3. IsFiniteSet(1..(n + 1)) /\ Cardinality(1..(n + 1)) = n + 1
    BY <1>1, FS_Interval
  <2>4. n < n + 1
    BY <1>1
  <2> HIDE DEF owner
  <2>5. \E x, y \in 1..(n + 1) : x # y /\ owner[x] = owner[y]
    BY <2>2, <2>3, <2>4, FS_PigeonHole
  <2> QED
    BY <2>2, <2>5
<1>3. Fresh \in 1..(n + 1) /\ \A d \in drains : d.id # Fresh
  BY <1>2 DEF Fresh
<1> QED
  BY <1>1, <1>3

-----------------------------------------------------------------------------
(* What a step does to the drains, and what is left of the invariant.      *)

(* e is what becomes of d when nobody cancels it.                          *)
From(d, e) == e.id = d.id /\ e.slot = d.slot /\ e.cancelled = d.cancelled

(* No activity comes back to life.                                         *)
OverStays == \A a \in Activities : life[a] = "over" => life'[a] = "over"

LEMMA DrainFacts ==
  ASSUME NEW d \in Drain
  PROVE  /\ d.id \in Nat \ {0} /\ d.slot \in Slots /\ d.cancelled \in BOOLEAN /\ d.pending \subseteq Items
         /\ d.stage \in Stages /\ d.item \in Items \cup {0}
BY DEF Drain

(* If the drains that go on are the same, so is what the registry knows.   *)
LEMMA HandlesKept ==
  ASSUME RegistryInv, handles' = handles,
         \A e \in drains' : \E d \in drains : From(d, e),
         \A d \in drains : ~d.cancelled => \E e \in drains' : From(d, e),
         \A e, f \in drains' : e.id = f.id => e = f
  PROVE  HandlesInv' /\ NoUntrackedDrain'
<1>1. NoUntrackedDrain'
  BY DEF RegistryInv, NoUntrackedDrain, From
<1>2. ASSUME NEW s \in Slots, handles[s] # 0
      PROVE  \E e \in drains' : e.id = handles[s] /\ e.slot = s /\ ~e.cancelled
  <2>1. PICK d \in drains : d.id = handles[s] /\ d.slot = s /\ ~d.cancelled
    BY <1>2 DEF RegistryInv, HandlesInv
  <2> QED
    BY <2>1 DEF From
<1> QED
  BY <1>1, <1>2 DEF HandlesInv

(* One drain goes on, or returns because it was cancelled.                 *)
LEMMA BecomesFacts ==
  ASSUME RegistryInv, NEW d \in drains, NEW es, Becomes(d, es), handles' = handles, life' = life,
         \/ es = {} /\ d.cancelled
         \/ \E e \in Drain : es = {e} /\ From(d, e) /\ ItemsOK(e)
  PROVE  /\ drains' \subseteq Drain /\ IsFiniteSet(drains')
         /\ ItemsInv' /\ HandlesInv' /\ NoUntrackedDrain'
<1>1. drains' = (drains \ {d}) \cup es
  BY DEF Becomes
<1>2. \A e \in es : e \in Drain /\ From(d, e) /\ ItemsOK(e)
  OBVIOUS
<1>3. drains' \subseteq Drain
  BY <1>1, <1>2 DEF RegistryInv, TypeOK
<1>4. IsFiniteSet(drains')
  <2>1. IsFiniteSet(drains \ {d})
    BY FS_RemoveElement DEF RegistryInv
  <2>2. CASE es = {}
    BY <1>1, <2>1, <2>2
  <2>3. CASE \E e \in Drain : es = {e}
    BY <1>1, <2>1, <2>3, FS_AddElement
  <2> QED
    BY <2>2, <2>3
<1>5. ItemsInv'
  BY <1>1, <1>2 DEF RegistryInv, ItemsInv, ItemsOK
<1>6. \A e, f \in drains : e.id = f.id => e = f
  BY DEF RegistryInv, HandlesInv
<1>7. /\ \A e \in drains' : \E f \in drains : From(f, e)
      /\ \A f \in drains : ~f.cancelled => \E e \in drains' : From(f, e)
      /\ \A e, f \in drains' : e.id = f.id => e = f
  <2>1. \A e \in drains' : \E f \in drains : From(f, e)
    <3>1. \A f \in drains : From(f, f)
      BY DEF From
    <3> QED
      BY <1>1, <1>2, <3>1
  <2>2. \A f \in drains : ~f.cancelled => \E e \in drains' : From(f, e)
    BY <1>1, <1>2 DEF From
  <2>3. ASSUME NEW e \in drains', NEW f \in drains', e.id = f.id PROVE e = f
    <3>1. \A g \in es : g.id = d.id
      BY <1>2 DEF From
    <3>2. \A g, h \in es : g = h
      OBVIOUS
    <3> QED
      BY <1>1, <1>6, <2>3, <3>1, <3>2
  <2> QED
    BY <2>1, <2>2, <2>3
<1>8. HandlesInv' /\ NoUntrackedDrain'
  BY <1>7, HandlesKept
<1> QED
  BY <1>3, <1>4, <1>5, <1>8

(* A stream yields, or JavaScript stops to observe: drains come to have    *)
(* more pending, and stay what they are otherwise.                         *)
LEMMA MappedFacts ==
  ASSUME RegistryInv, NEW f, drains' = {f[d] : d \in drains}, handles' = handles, OverStays,
         \A d \in drains : /\ f[d] \in Drain /\ From(d, f[d]) /\ f[d].stage = d.stage /\ f[d].item = d.item
                           /\ \/ f[d].pending = d.pending
                              \/ /\ d.slot = UpdatesSlot => f[d].pending \subseteq d.pending \cup Activities
                                 /\ d.slot = TokenSlot => f[d].pending \subseteq d.pending \cup 1..MaxTokens
                                 /\ d.slot \in Activities => life'[d.slot] = "over"
  PROVE  /\ drains' \subseteq Drain /\ IsFiniteSet(drains')
         /\ ItemsInv' /\ HandlesInv' /\ NoUntrackedDrain'
<1>1. drains' \subseteq Drain
  OBVIOUS
<1>2. IsFiniteSet(drains')
  BY FiniteImage DEF RegistryInv
<1>3. ASSUME NEW d \in drains PROVE ItemsOK(f[d])'
  <2>1. ItemsOK(d)
    BY DEF RegistryInv, ItemsInv
  <2> QED
    BY <2>1 DEF ItemsOK, From, OverStays
<1>4. ItemsInv'
  BY <1>3 DEF ItemsInv
<1>5. HandlesInv' /\ NoUntrackedDrain'
  <2>1. \A d, e \in drains : d.id = e.id => d = e
    BY DEF RegistryInv, HandlesInv
  <2>2. /\ \A e \in drains' : \E d \in drains : From(d, e)
        /\ \A d \in drains : ~d.cancelled => \E e \in drains' : From(d, e)
    OBVIOUS
  <2>3. \A e, g \in drains' : e.id = g.id => e = g
    BY <2>1 DEF From
  <2> QED
    BY <2>2, <2>3, HandlesKept
<1> QED
  BY <1>1, <1>2, <1>4, <1>5

-----------------------------------------------------------------------------
(* What a step does to the calls under way.                                *)

(* A drain that waits for the actor waits on.                              *)
WaitsOn(d) == \E e \in drains' : e.id = d.id /\ e.slot = d.slot /\ e.stage = "calls"

Unawaited == {Begin(s) : s \in Slots} \cup {ClearObservers}

LEMMA CallFacts ==
  /\ Unawaited \subseteq Call /\ \A c \in Unawaited : c.op \notin {"clear", "setToken"}
  /\ \A c \in Call : c.op = "clear" => c.slot \in Activities /\ c.by \in Nat
  /\ \A c \in Call : c.op = "setToken" => c.token \in 1..MaxTokens /\ c.by \in Nat
  /\ \A c \in Call : c.op = "begin" => c.slot \in Slots /\ c = Begin(c.slot)
  /\ \A c \in Call : c.op = "clearObservers" <=> c = ClearObservers
  /\ \A c \in Call : c.op \in {"begin", "clearObservers", "clear", "setToken"}
  /\ \A a \in Activities, n \in Nat : Clear(a, n) \in Call
  /\ \A t \in 1..MaxTokens, n \in Nat : SetToken(t, n) \in Call
BY DEF Unawaited, Call, Begin, ClearObservers, Clear, SetToken

LEMMA CallsAppended ==
  ASSUME RegistryInv, NEW r \in Seq(Unawaited), calls' = calls \o r, OverStays,
         \A d \in drains : d.stage = "calls" => WaitsOn(d)
  PROVE  calls' \in Seq(Call) /\ CallsInv'
<1>0. r \in Seq(Call) /\ calls \in Seq(Call)
  BY CallFacts DEF RegistryInv, TypeOK
<1>1. /\ calls' \in Seq(Call) /\ Len(calls') = Len(calls) + Len(r)
      /\ \A i \in 1..Len(calls) : calls'[i] = calls[i]
      /\ \A i \in (Len(calls) + 1)..(Len(calls) + Len(r)) : calls'[i] = r[i - Len(calls)]
  BY <1>0, AppendedFacts
<1>2. \A i \in 1..Len(r) : r[i] \in Unawaited
  OBVIOUS
<1>3. ASSUME NEW i \in 1..Len(calls')
      PROVE  (i \in 1..Len(calls) /\ calls'[i] = calls[i]) \/ calls'[i] \in Unawaited
  <2>1. Len(calls) \in Nat /\ Len(r) \in Nat
    BY <1>0
  <2> QED
    BY <1>1, <1>2, <1>3, <2>1
<1>4. Awaited' = Awaited
  <2>1. 1..Len(calls) \subseteq 1..Len(calls')
    BY <1>0, <1>1
  <2> QED
    BY <1>1, <1>3, <2>1, CallFacts DEF Awaited
<1>5. \A i \in Awaited : calls'[i] = calls[i]
  BY <1>1 DEF Awaited
<1>6. ASSUME NEW i \in Awaited PROVE \E e \in drains' : Waits(e, calls[i])
  <2>1. PICK d \in drains : Waits(d, calls[i])
    BY DEF RegistryInv, CallsInv
  <2> QED
    BY <2>1 DEF Waits, WaitsOn
<1>7. ASSUME NEW i \in 1..Len(calls'), calls'[i].op = "clear" PROVE life'[calls'[i].slot] = "over"
  <2>1. i \in 1..Len(calls) /\ calls'[i] = calls[i] /\ calls[i] \in Call
    BY <1>0, <1>3, <1>7, CallFacts
  <2>2. life[calls[i].slot] = "over" /\ calls[i].slot \in Activities
    BY <1>7, <2>1, CallFacts DEF RegistryInv, CallsInv
  <2> QED
    BY <2>1, <2>2 DEF OverStays
<1>8. \A i, j \in Awaited : calls[i].by = calls[j].by => i = j
  BY DEF RegistryInv, CallsInv
<1>9. \A i \in Awaited' : \E e \in drains' : Waits(e, calls'[i])
  BY <1>4, <1>5, <1>6
<1>10. ASSUME NEW i \in Awaited', NEW j \in Awaited', calls'[i].by = calls'[j].by PROVE i = j
  <2>1. i \in Awaited /\ j \in Awaited /\ calls'[i] = calls[i] /\ calls'[j] = calls[j]
    BY <1>4, <1>5
  <2>2. calls[i].by = calls[j].by
    BY <1>10, <2>1
  <2> QED
    BY <1>8, <2>1, <2>2
<1>11. CallsInv'
  BY <1>7, <1>9, <1>10 DEF CallsInv
<1> QED
  BY <1>1, <1>11

(* A drain calls the actor, and waits for it.                              *)
LEMMA CallMade ==
  ASSUME RegistryInv, NEW d \in drains, d.stage # "calls", NEW c \in Call, calls' = calls \o <<c>>,
         c.op \in {"clear", "setToken"}, c.op = "clear" => life[c.slot] = "over", life' = life,
         Becomes(d, {[d EXCEPT !.stage = "calls"]}), Waits([d EXCEPT !.stage = "calls"], c)
  PROVE  calls' \in Seq(Call) /\ CallsInv'
<1> DEFINE n == Len(calls)
<1>0. calls \in Seq(Call) /\ n \in Nat /\ <<c>> \in Seq(Call) /\ Len(<<c>>) = 1 /\ <<c>>[1] = c
  BY DEF RegistryInv, TypeOK
<1>1. /\ calls' \in Seq(Call) /\ Len(calls') = n + 1 /\ calls'[n + 1] = c
      /\ \A i \in 1..n : calls'[i] = calls[i]
  <2>1. /\ calls \o <<c>> \in Seq(Call) /\ Len(calls \o <<c>>) = n + 1
        /\ \A i \in 1..n : (calls \o <<c>>)[i] = calls[i]
        /\ \A i \in (n + 1)..(n + 1) : (calls \o <<c>>)[i] = <<c>>[i - n]
    BY <1>0, AppendedFacts
  <2>2. n + 1 \in (n + 1)..(n + 1) /\ (n + 1) - n = 1
    BY <1>0
  <2> QED
    BY <1>0, <2>1, <2>2
<1> HIDE DEF n
<1>2. Awaited' = Awaited \cup {n + 1} /\ \A i \in Awaited : calls'[i] = calls[i]
  BY <1>0, <1>1 DEF Awaited, n
<1>3. ASSUME NEW i \in Awaited PROVE (\E e \in drains' : Waits(e, calls[i])) /\ calls[i].by # c.by
  <2>1. PICK e \in drains : Waits(e, calls[i])
    BY DEF RegistryInv, CallsInv
  <2>2. e # d /\ e \in drains'
    BY <2>1 DEF Waits, Becomes
  <2>3. e.id # d.id
    BY <2>2 DEF RegistryInv, HandlesInv
  <2>4. c.by = d.id
    <3>1. d \in Drain
      BY DEF RegistryInv, TypeOK
    <3> QED
      BY <3>1 DEF Waits, Drain
  <2> QED
    BY <2>1, <2>2, <2>3, <2>4 DEF Waits
<1>4. ASSUME NEW i \in Awaited' PROVE \E e \in drains' : Waits(e, calls'[i])
  <2>1. CASE i \in Awaited
    BY <1>2, <1>3, <2>1
  <2>2. CASE i = n + 1
    <3>1. [d EXCEPT !.stage = "calls"] \in drains' /\ calls'[i] = c
      BY <1>1, <2>2 DEF Becomes
    <3> QED
      BY <3>1
  <2> QED
    BY <1>2, <2>1, <2>2
<1>5. ASSUME NEW i \in Awaited', NEW j \in Awaited', calls'[i].by = calls'[j].by PROVE i = j
  <2>1. \A k, l \in Awaited : calls[k].by = calls[l].by => k = l
    BY DEF RegistryInv, CallsInv
  <2>2. CASE i \in Awaited /\ j \in Awaited
    <3>1. calls'[i] = calls[i] /\ calls'[j] = calls[j]
      BY <1>2, <2>2
    <3> QED
      BY <1>5, <2>1, <2>2, <3>1
  <2>3. CASE i \in Awaited /\ j = n + 1
    BY <1>1, <1>2, <1>3, <1>5, <2>3
  <2>4. CASE j \in Awaited /\ i = n + 1
    BY <1>1, <1>2, <1>3, <1>5, <2>4
  <2> QED
    BY <1>2, <2>2, <2>3, <2>4
<1>6. ASSUME NEW i \in 1..Len(calls'), calls'[i].op = "clear" PROVE life'[calls'[i].slot] = "over"
  <2>1. \A k \in 1..n : calls[k].op = "clear" => life[calls[k].slot] = "over"
    BY DEF RegistryInv, CallsInv, n
  <2>2. i \in 1..n \/ i = n + 1
    BY <1>0, <1>1 DEF n
  <2> QED
    BY <1>1, <1>6, <2>1, <2>2
<1>7. CallsInv'
  BY <1>4, <1>5, <1>6 DEF CallsInv
<1> QED
  BY <1>1, <1>7

(* The actor has taken a call; the drain that waited for it does so no     *)
(* more.                                                                   *)
LEMMA CallServed ==
  ASSUME RegistryInv, NEW k \in 1..Len(calls), calls' = RemoveAt(calls, k), life' = life,
         \A d \in drains : (d.stage = "calls" /\ ~(k \in Awaited /\ d.id = calls[k].by)) => WaitsOn(d)
  PROVE  calls' \in Seq(Call) /\ CallsInv'
<1> DEFINE n == Len(calls)
           old(i) == IF i < k THEN i ELSE i + 1
<1>0. calls \in Seq(Call) /\ n \in Nat /\ k \in 1..n
  BY DEF RegistryInv, TypeOK
<1>1. calls' \in Seq(Call) /\ Len(calls') = n - 1 /\ \A i \in 1..(n - 1) : calls'[i] = calls[old(i)]
  BY <1>0, RemoveAtFacts
<1>2. /\ \A i \in 1..(n - 1) : old(i) \in 1..n /\ old(i) # k
      /\ \A i, j \in 1..(n - 1) : old(i) = old(j) => i = j
  BY <1>0
<1> HIDE DEF old
<1>3. \A i \in Awaited' : i \in 1..(n - 1) /\ calls'[i] = calls[old(i)] /\ old(i) \in Awaited /\ old(i) # k
  BY <1>1, <1>2 DEF Awaited
<1>4. \A i, j \in Awaited : calls[i].by = calls[j].by => i = j
  BY DEF RegistryInv, CallsInv
<1>5. ASSUME NEW i \in Awaited' PROVE \E e \in drains' : Waits(e, calls'[i])
  <2>1. PICK d \in drains : Waits(d, calls[old(i)])
    BY <1>3 DEF RegistryInv, CallsInv
  <2>2. ~(k \in Awaited /\ d.id = calls[k].by)
    BY <1>3, <1>4, <2>1 DEF Waits
  <2>3. WaitsOn(d)
    BY <2>1, <2>2 DEF Waits
  <2> QED
    BY <1>3, <2>1, <2>3 DEF Waits, WaitsOn
<1>6. ASSUME NEW i \in Awaited', NEW j \in Awaited', calls'[i].by = calls'[j].by PROVE i = j
  <2>1. calls[old(i)].by = calls[old(j)].by
    BY <1>3, <1>6
  <2>2. old(i) = old(j)
    BY <1>3, <1>4, <2>1
  <2> QED
    BY <1>2, <1>3, <2>2
<1>7. ASSUME NEW i \in 1..Len(calls'), calls'[i].op = "clear" PROVE life'[calls'[i].slot] = "over"
  <2>1. calls'[i] = calls[old(i)] /\ old(i) \in 1..n
    BY <1>1, <1>2
  <2> QED
    BY <1>7, <2>1 DEF RegistryInv, CallsInv
<1>8. CallsInv'
  BY <1>5, <1>6, <1>7 DEF CallsInv
<1> QED
  BY <1>1, <1>8

-----------------------------------------------------------------------------
(* JavaScript and ActivityKit.                                             *)

LEMMA RegistryInit == Init => RegistryInv
<1> SUFFICES ASSUME Init PROVE RegistryInv
  OBVIOUS
<1>1. TypeOK
  <2>1. calls \in Seq(Call)
    BY DEF Init
  <2>2. handles \in [Slots -> Nat]
    BY DEF Init
  <2>3. starts \in 0..MaxStarts /\ issued \in 0..MaxTokens /\ cached \in 0..MaxTokens
    BY ObserversAssumption DEF Init
  <2>4. life \in [Activities -> {"none", "running", "over"}]
    BY DEF Init
  <2> QED
    BY <2>1, <2>2, <2>3, <2>4 DEF Init, TypeOK
<1>2. IsFiniteSet(drains)
  BY FS_EmptySet DEF Init
<1>3. HandlesInv /\ ItemsInv /\ NoUntrackedDrain
  BY DEF Init, HandlesInv, ItemsInv, NoUntrackedDrain
<1>4. CallsInv
  BY DEF Init, CallsInv, Awaited
<1> QED
  BY <1>1, <1>2, <1>3, <1>4 DEF RegistryInv

(* A listener that starts to observe asks for what it lists.               *)
LEMMA OnStartFacts ==
  ASSUME RegistryInv, OnStartObserving
  PROVE  \E r \in Seq(Unawaited) :
           /\ calls' = calls \o r
           /\ \A i \in 1..Len(r) : r[i] # ClearObservers
           /\ \A s \in expected' \cup {TokenSlot, UpdatesSlot} : \E i \in 1..Len(r) : r[i] = Begin(s)
<1>0. PICK listed \in SUBSET {a \in Activities : life[a] # "none"} :
        /\ {a \in Activities : life[a] = "running"} \subseteq listed
        /\ \E order \in SetToSeqs(listed) :
             Put([i \in 1..Len(order) |-> Begin(order[i])] \o <<Begin(TokenSlot), Begin(UpdatesSlot)>>)
  BY DEF OnStartObserving
<1>1. PICK order \in SetToSeqs(listed) :
        Put([i \in 1..Len(order) |-> Begin(order[i])] \o <<Begin(TokenSlot), Begin(UpdatesSlot)>>)
  BY <1>0
<1>2. IsFiniteSet(listed)
  BY ObserversAssumption, FS_Subset
<1>3. order \in Seq(listed) /\ \A a \in listed : \E i \in 1..Len(order) : order[i] = a
  BY <1>2, ListFacts
<1> DEFINE n == Len(order)
           each == [i \in 1..n |-> Begin(order[i])]
           class == <<Begin(TokenSlot), Begin(UpdatesSlot)>>
           Begins == {Begin(s) : s \in Slots}
<1>4. n \in Nat /\ \A i \in 1..n : order[i] \in listed
  BY <1>3
<1>5. listed \subseteq Slots /\ TokenSlot \in Slots /\ UpdatesSlot \in Slots
  BY DEF Slots
<1>6. each \in Seq(Begins) /\ Len(each) = n /\ \A i \in 1..n : each[i] = Begin(order[i])
  BY <1>4, <1>5
<1>7. class \in Seq(Begins) /\ Len(class) = 2 /\ class[1] = Begin(TokenSlot) /\ class[2] = Begin(UpdatesSlot)
  BY <1>5
<1>8. calls' = calls \o (each \o class)
  BY <1>1 DEF Put
<1> HIDE DEF n, each, class
<1>9. /\ each \o class \in Seq(Begins) /\ Len(each \o class) = n + 2
      /\ \A j \in 1..n : (each \o class)[j] = each[j]
      /\ \A j \in (n + 1)..(n + 2) : (each \o class)[j] = class[j - n]
  <2> HIDE DEF Begins
  <2>1. /\ each \o class \in Seq(Begins) /\ Len(each \o class) = Len(each) + Len(class)
        /\ \A j \in 1..Len(each) : (each \o class)[j] = each[j]
        /\ \A j \in (Len(each) + 1)..(Len(each) + Len(class)) : (each \o class)[j] = class[j - Len(each)]
    BY <1>6, <1>7, AppendedFacts
  <2> QED
    BY <1>6, <1>7, <2>1
<1>10. (each \o class)[n + 1] = Begin(TokenSlot) /\ (each \o class)[n + 2] = Begin(UpdatesSlot)
  <2>1. n + 1 \in (n + 1)..(n + 2) /\ n + 2 \in (n + 1)..(n + 2) /\ (n + 1) - n = 1 /\ (n + 2) - n = 2
    BY <1>4
  <2> QED
    BY <1>7, <1>9, <2>1
<1>11. n + 1 \in 1..(n + 2) /\ n + 2 \in 1..(n + 2) /\ 1..n \subseteq 1..(n + 2)
  BY <1>4
<1>12. \A s \in expected' : \E i \in 1..(n + 2) : (each \o class)[i] = Begin(s)
  <2>1. expected' \subseteq listed
    BY <1>0 DEF OnStartObserving
  <2>2. \A s \in listed : \E i \in 1..n : each[i] = Begin(s)
    BY <1>3, <1>6 DEF n
  <2> QED
    BY <2>1, <2>2, <1>9, <1>11
<1>13. Begins \subseteq Unawaited /\ \A c \in Begins : c # ClearObservers
  BY DEF Unawaited, Begin, ClearObservers
<1>14. each \o class \in Seq(Unawaited) /\ \A i \in 1..Len(each \o class) : (each \o class)[i] # ClearObservers
  <2> HIDE DEF Begins
  <2> QED
    BY <1>9, <1>13
<1> DEFINE r == each \o class
<1>15. r \in Seq(Unawaited) /\ calls' = calls \o r /\ Len(r) = n + 2
  BY <1>8, <1>9, <1>14
<1>16. \A i \in 1..Len(r) : r[i] # ClearObservers
  BY <1>14
<1>17. \A s \in expected' \cup {TokenSlot, UpdatesSlot} : \E i \in 1..(n + 2) : r[i] = Begin(s)
  BY <1>10, <1>11, <1>12
<1> HIDE DEF r
<1> QED
  BY <1>15, <1>16, <1>17

LEMMA OnStartRegistry ==
  ASSUME RegistryInv, OnStartObserving PROVE RegistryInv'
<1>1. PICK r \in Seq(Unawaited) : calls' = calls \o r
  BY OnStartFacts
<1>2. UNCHANGED <<outOfTurn, life, issued, handles, cached, drains, told>>
  BY DEF OnStartObserving, systemVars, registryVars
<1>3. OverStays /\ \A d \in drains : d.stage = "calls" => WaitsOn(d)
  BY <1>2 DEF OverStays, WaitsOn
<1>4. calls' \in Seq(Call) /\ CallsInv'
  BY <1>1, <1>3, CallsAppended
<1>5. TypeOK'
  <2>1. observing' = TRUE /\ starts' = starts + 1 /\ overtaken' = FALSE /\ starts < MaxStarts
    BY DEF OnStartObserving
  <2>2. expected' \subseteq Activities
    BY DEF OnStartObserving
  <2>3. starts' \in 0..MaxStarts
    BY <2>1, ObserversAssumption DEF RegistryInv, TypeOK
  <2>4. observing' \in BOOLEAN /\ overtaken' \in BOOLEAN
    BY <2>1
  <2>5. /\ outOfTurn' \in Nat /\ life' \in [Activities -> {"none", "running", "over"}]
        /\ handles' \in [Slots -> Nat] /\ drains' \subseteq Drain
        /\ issued' \in 0..MaxTokens /\ cached' \in 0..MaxTokens /\ told' \subseteq Activities
    BY <1>2 DEF RegistryInv, TypeOK
  <2> QED
    BY <1>4, <2>2, <2>3, <2>4, <2>5 DEF TypeOK
<1>6. ItemsInv' /\ HandlesInv' /\ NoUntrackedDrain'
  BY <1>2 DEF RegistryInv, ItemsInv, ItemsOK, HandlesInv, NoUntrackedDrain
<1> QED
  BY <1>2, <1>4, <1>5, <1>6 DEF RegistryInv

LEMMA OnStopRegistry ==
  ASSUME RegistryInv, OnStopObserving PROVE RegistryInv'
<1> DEFINE f == [d \in drains |-> [d EXCEPT !.earlier = TRUE]]
<1>1. /\ UNCHANGED <<starts, outOfTurn, life, issued, handles, cached, told>> /\ observing' = FALSE /\ overtaken' = FALSE /\ expected' = {}
      /\ calls' = calls \o <<ClearObservers>> /\ drains' = {f[d] : d \in drains}
  BY DEF OnStopObserving, systemVars, registryVars, Put
<1>2. \A d \in drains : /\ f[d] \in Drain /\ From(d, f[d]) /\ f[d].stage = d.stage
                        /\ f[d].item = d.item /\ f[d].pending = d.pending
  BY DEF RegistryInv, TypeOK, Drain, From
<1> HIDE DEF f
<1>3. OverStays
  BY <1>1 DEF OverStays
<1>4. /\ drains' \subseteq Drain /\ IsFiniteSet(drains')
      /\ ItemsInv' /\ HandlesInv' /\ NoUntrackedDrain'
  BY <1>1, <1>2, <1>3, MappedFacts
<1>5. <<ClearObservers>> \in Seq(Unawaited)
  BY DEF Unawaited
<1>6. \A d \in drains : d.stage = "calls" => WaitsOn(d)
  BY <1>1, <1>2 DEF WaitsOn, From
<1>7. calls' \in Seq(Call) /\ CallsInv'
  BY <1>1, <1>3, <1>5, <1>6, CallsAppended
<1>8. TypeOK'
  BY <1>1, <1>4, <1>7 DEF RegistryInv, TypeOK
<1> QED
  BY <1>4, <1>7, <1>8 DEF RegistryInv

(* A stream yields; whatever calls JavaScript or ActivityKit adds are      *)
(* observations.                                                           *)
LEMMA YieldRegistry ==
  ASSUME RegistryInv, NEW slot \in Slots, NEW item \in Items, Yield(slot, item), NEW r \in Seq(Unawaited),
         calls' = calls \o r, UNCHANGED <<observing, starts, outOfTurn, overtaken, handles, cached, told>>, OverStays,
         life' \in [Activities -> {"none", "running", "over"}], issued' \in 0..MaxTokens, expected' \subseteq Activities,
         slot = UpdatesSlot => item \in Activities, slot = TokenSlot => item \in 1..MaxTokens,
         slot \in Activities => life'[slot] = "over"
  PROVE  RegistryInv'
<1> DEFINE f == [d \in drains |-> IF d.slot = slot /\ ~d.cancelled THEN [d EXCEPT !.pending = @ \cup {item}] ELSE d]
<1>1. drains' = {f[d] : d \in drains}
  BY DEF Yield
<1>2. ASSUME NEW d \in drains
      PROVE  /\ f[d] \in Drain /\ From(d, f[d]) /\ f[d].stage = d.stage /\ f[d].item = d.item
             /\ \/ f[d].pending = d.pending
                \/ f[d].pending = d.pending \cup {item} /\ d.slot = slot
  <2>1. d \in Drain
    BY DEF RegistryInv, TypeOK
  <2>2. CASE d.slot = slot /\ ~d.cancelled
    BY <2>1, <2>2 DEF Drain, From
  <2>3. CASE ~(d.slot = slot /\ ~d.cancelled)
    BY <2>1, <2>3 DEF From
  <2> QED
    BY <2>2, <2>3
<1> HIDE DEF f
<1>3. /\ drains' \subseteq Drain /\ IsFiniteSet(drains')
      /\ ItemsInv' /\ HandlesInv' /\ NoUntrackedDrain'
  <2>1. ASSUME NEW d \in drains, d.slot = slot, f[d].pending = d.pending \cup {item}
        PROVE  /\ d.slot = UpdatesSlot => f[d].pending \subseteq d.pending \cup Activities
               /\ d.slot = TokenSlot => f[d].pending \subseteq d.pending \cup 1..MaxTokens
               /\ d.slot \in Activities => life'[d.slot] = "over"
    BY <2>1
  <2>2. \A d \in drains :
          /\ f[d] \in Drain /\ From(d, f[d]) /\ f[d].stage = d.stage /\ f[d].item = d.item
          /\ \/ f[d].pending = d.pending
             \/ /\ d.slot = UpdatesSlot => f[d].pending \subseteq d.pending \cup Activities
                /\ d.slot = TokenSlot => f[d].pending \subseteq d.pending \cup 1..MaxTokens
                /\ d.slot \in Activities => life'[d.slot] = "over"
    BY <1>2, <2>1
  <2>3. handles' = handles
    OBVIOUS
  <2> QED
    BY <1>1, <2>2, <2>3, MappedFacts
<1>4. \A d \in drains : d.stage = "calls" => WaitsOn(d)
  BY <1>1, <1>2 DEF WaitsOn, From
<1>5. calls' \in Seq(Call) /\ CallsInv'
  BY <1>4, CallsAppended
<1>6. TypeOK'
  BY <1>3, <1>5 DEF RegistryInv, TypeOK
<1> QED
  BY <1>3, <1>5, <1>6 DEF RegistryInv

LEMMA SystemRegistry ==
  ASSUME RegistryInv, NEW a \in Activities, start(a) \/ Delivered(a) \/ Over(a)
  PROVE  RegistryInv'
<1>0. /\ calls \in Seq(Call) /\ life \in [Activities -> {"none", "running", "over"}] /\ issued \in 0..MaxTokens
      /\ expected \subseteq Activities /\ a \in Slots /\ UpdatesSlot \in Slots /\ TokenSlot \in Slots /\ a \in Items
      /\ a # UpdatesSlot /\ a # TokenSlot /\ UpdatesSlot # TokenSlot /\ UpdatesSlot \notin Activities
      /\ TokenSlot \notin Activities
  BY ObserversAssumption DEF RegistryInv, TypeOK, Slots, Items
<1>1. <<>> \in Seq(Unawaited) /\ calls = calls \o <<>> /\ <<Begin(a)>> \in Seq(Unawaited)
  BY <1>0 DEF Unawaited
<1>2. CASE start(a)
  <2>1. /\ Yield(UpdatesSlot, a) /\ calls' = calls \o <<Begin(a)>> /\ life' = [life EXCEPT ![a] = "running"] /\ life[a] = "none"
        /\ issued' = issued /\ expected' \subseteq Activities /\ UNCHANGED <<observing, starts, outOfTurn, overtaken, handles, cached, told>>
    BY <1>0, <1>2 DEF start, Put, appVars, registryVars
  <2>2. OverStays /\ life' \in [Activities -> {"none", "running", "over"}]
    BY <1>0, <2>1 DEF OverStays
  <2> QED
    BY <1>0, <1>1, <2>1, <2>2, YieldRegistry
<1>3. CASE Delivered(a)
  <2>1. /\ Yield(UpdatesSlot, a) /\ calls' = calls \o <<>> /\ life' = [life EXCEPT ![a] = "running"] /\ life[a] = "none"
        /\ issued' = issued /\ expected' \subseteq Activities /\ UNCHANGED <<observing, starts, outOfTurn, overtaken, handles, cached, told>>
    BY <1>0, <1>1, <1>3 DEF Delivered, appVars, registryVars
  <2>2. OverStays /\ life' \in [Activities -> {"none", "running", "over"}]
    BY <1>0, <2>1 DEF OverStays
  <2> QED
    BY <1>0, <1>1, <2>1, <2>2, YieldRegistry
<1>4. CASE Over(a)
  <2>1. /\ Yield(a, a) /\ calls' = calls \o <<>> /\ life' = [life EXCEPT ![a] = "over"]
        /\ issued' = issued /\ expected' = expected /\ UNCHANGED <<observing, starts, outOfTurn, overtaken, handles, cached, told>>
    BY <1>0, <1>1, <1>4 DEF Over, appVars, registryVars
  <2>2. OverStays /\ life' \in [Activities -> {"none", "running", "over"}] /\ life'[a] = "over"
    BY <1>0, <2>1 DEF OverStays
  <2> QED
    BY <1>0, <1>1, <2>1, <2>2, YieldRegistry
<1> QED
  BY <1>2, <1>3, <1>4

-----------------------------------------------------------------------------
(* The actor.                                                              *)

(* Cancelling cancels the drains named and leaves the others alone; one    *)
(* that acts on an item does so to its end.                                *)
LEMMA CancelFacts ==
  ASSUME RegistryInv, NEW ids
  PROVE  /\ Cancel(ids) \subseteq Drain /\ IsFiniteSet(Cancel(ids))
         /\ \A e \in Cancel(ids) : ItemsOK(e) /\ (~e.cancelled => e \in drains /\ e.id \notin ids)
         /\ \A e \in Cancel(ids) : \E d \in drains : e.id = d.id /\ e.slot = d.slot
         /\ \A d \in drains : d.id \notin ids => d \in Cancel(ids)
         /\ \A d \in drains : d.stage = "calls" => \E e \in Cancel(ids) : e.id = d.id /\ e.slot = d.slot /\ e.stage = "calls"
         /\ \A e, f \in Cancel(ids) : e.id = f.id => e = f
<1> DEFINE kept == {e \in drains : e.id \in ids => e.stage # "waits"}
           f == [d \in kept |-> IF d.id \in ids THEN [d EXCEPT !.cancelled = TRUE, !.pending = {}] ELSE d]
<1>1. Cancel(ids) = {f[d] : d \in kept}
  BY DEF Cancel
<1>2. ASSUME NEW d \in kept
      PROVE  /\ d \in drains /\ f[d] \in Drain /\ f[d].id = d.id /\ f[d].slot = d.slot /\ f[d].stage = d.stage
             /\ f[d].item = d.item /\ ItemsOK(f[d])
             /\ d.id \notin ids => f[d] = d
             /\ ~f[d].cancelled => f[d] = d /\ d.id \notin ids
  <2>1. d \in Drain /\ ItemsOK(d)
    BY DEF RegistryInv, TypeOK, ItemsInv
  <2>2. CASE d.id \in ids
    <3>1. f[d] = [d EXCEPT !.cancelled = TRUE, !.pending = {}]
      BY <2>2
    <3>2. f[d] \in Drain /\ f[d].id = d.id /\ f[d].slot = d.slot /\ f[d].stage = d.stage /\ f[d].item = d.item
          /\ f[d].cancelled = TRUE /\ f[d].pending = {}
      BY <2>1, <3>1 DEF Drain
    <3> QED
      BY <2>1, <2>2, <3>2 DEF ItemsOK
  <2>3. CASE d.id \notin ids
    BY <2>1, <2>3
  <2> QED
    BY <2>2, <2>3
<1>3. /\ \A d \in drains : d.id \notin ids => d \in kept
      /\ \A d \in drains : d.stage = "calls" => d \in kept
      /\ kept \subseteq drains
  OBVIOUS
<1>4. IsFiniteSet(kept)
  BY <1>3, FS_Subset DEF RegistryInv
<1> HIDE DEF kept, f
<1>5. IsFiniteSet(Cancel(ids))
  BY <1>1, <1>4, FiniteImage
<1>6. \A d, e \in drains : d.id = e.id => d = e
  BY DEF RegistryInv, HandlesInv
<1>7. \A e, g \in Cancel(ids) : e.id = g.id => e = g
  BY <1>1, <1>2, <1>6
<1>8. \A d \in drains : d.stage = "calls" => \E e \in Cancel(ids) : e.id = d.id /\ e.slot = d.slot /\ e.stage = "calls"
  BY <1>1, <1>2, <1>3
<1>9. \A d \in drains : d.id \notin ids => d \in Cancel(ids)
  BY <1>1, <1>2, <1>3
<1>10. /\ Cancel(ids) \subseteq Drain
       /\ \A e \in Cancel(ids) : ItemsOK(e) /\ (~e.cancelled => e \in drains /\ e.id \notin ids)
       /\ \A e \in Cancel(ids) : \E d \in drains : e.id = d.id /\ e.slot = d.slot
  BY <1>1, <1>2
<1> QED
  BY <1>5, <1>7, <1>8, <1>9, <1>10

LEMMA PresentFacts ==
  ASSUME RegistryInv, NEW slot \in Slots, NEW items \in Present(slot)
  PROVE  /\ items \subseteq Items
         /\ slot = UpdatesSlot => items \subseteq Activities
         /\ slot = TokenSlot => items \subseteq 1..MaxTokens
         /\ (slot \in Activities /\ items # {}) => life[slot] = "over"
<1>1. CASE slot = TokenSlot
  <2>1. items \subseteq {issued} \ {0}
    BY <1>1, ObserversAssumption DEF Present
  <2>2. {issued} \ {0} \subseteq 1..MaxTokens
    BY DEF RegistryInv, TypeOK
  <2> QED
    BY <1>1, <2>1, <2>2, ObserversAssumption DEF Items
<1>2. CASE slot = UpdatesSlot
  <2>1. items \subseteq Activities
    BY <1>2, ObserversAssumption DEF Present
  <2> QED
    BY <1>2, <2>1, ObserversAssumption DEF Items
<1>3. CASE slot \in Activities
  <2>1. items = IF life[slot] = "over" THEN {slot} ELSE {}
    BY <1>3, ObserversAssumption DEF Present
  <2> QED
    BY <1>3, <2>1, ObserversAssumption DEF Items
<1> QED
  BY <1>1, <1>2, <1>3 DEF Slots

(* begin: the drain of the slot is replaced by one with a fresh handle.    *)
LEMMA BeginRegistry ==
  ASSUME RegistryInv, NEW slot \in Slots, beginObservation(slot), life' = life
  PROVE  /\ drains' \subseteq Drain /\ IsFiniteSet(drains') /\ handles' \in [Slots -> Nat]
         /\ ItemsInv' /\ HandlesInv' /\ NoUntrackedDrain'
         /\ \A d \in drains : d.stage = "calls" => WaitsOn(d)
<1> DEFINE old == Cancel({handles[slot]})
<1>1. PICK items \in Present(slot) : drains' = old \cup {NewDrain(slot, items)}
  BY DEF beginObservation
<1> DEFINE new == NewDrain(slot, items)
<1>2. handles' = [handles EXCEPT ![slot] = Fresh] /\ handles \in [Slots -> Nat]
  BY DEF beginObservation, RegistryInv, TypeOK
<1>3. Fresh \in Nat \ {0} /\ \A d \in drains : d.id # Fresh
  BY FreshFacts DEF RegistryInv, TypeOK
<1>4. /\ new \in Drain /\ new.id = Fresh /\ new.slot = slot /\ new.cancelled = FALSE /\ new.pending = items
      /\ new.stage = "waits"
  BY <1>3, PresentFacts DEF NewDrain, Drain, Stages
<1>5. ItemsOK(new)
  BY <1>4, PresentFacts DEF ItemsOK
<1> DEFINE C == {handles[slot]}
<1>6. /\ old \subseteq Drain /\ IsFiniteSet(old)
      /\ \A e \in old : ItemsOK(e) /\ (~e.cancelled => e \in drains /\ e.id \notin {handles[slot]})
      /\ \A e \in old : \E d \in drains : e.id = d.id /\ e.slot = d.slot
      /\ \A d \in drains : d.id \notin {handles[slot]} => d \in old
      /\ \A d \in drains : d.stage = "calls" => \E e \in old : e.id = d.id /\ e.slot = d.slot /\ e.stage = "calls"
      /\ \A e, f \in old : e.id = f.id => e = f
  BY CancelFacts
<1> HIDE DEF old, new
<1>7. drains' = old \cup {new}
  BY <1>1 DEF new
<1>8. drains' \subseteq Drain /\ IsFiniteSet(drains') /\ handles' \in [Slots -> Nat]
  BY <1>2, <1>3, <1>4, <1>6, <1>7, FS_AddElement
<1>9. ItemsInv'
  BY <1>5, <1>6, <1>7 DEF ItemsInv, ItemsOK
<1>10. \A e \in old : e.id # Fresh
  BY <1>3, <1>6
<1>11. HandlesInv'
  <2>1. \A e, f \in drains' : e.id = f.id => e = f
    BY <1>4, <1>6, <1>7, <1>10
  <2>2. ASSUME NEW s \in Slots, handles'[s] # 0
        PROVE  \E d \in drains' : d.id = handles'[s] /\ d.slot = s /\ ~d.cancelled
    <3>1. CASE s = slot
      BY <1>2, <1>4, <1>7, <3>1
    <3>2. CASE s # slot
      <4>1. handles'[s] = handles[s]
        BY <1>2, <3>2
      <4>2. PICK d \in drains : d.id = handles[s] /\ d.slot = s /\ ~d.cancelled
        BY <2>2, <4>1 DEF RegistryInv, HandlesInv
      <4>3. d.id # handles[slot]
        <5>1. SUFFICES ASSUME d.id = handles[slot] PROVE FALSE
          OBVIOUS
        <5>2. PICK g \in drains : g.id = handles[slot] /\ g.slot = slot
          BY <2>2, <4>1, <4>2, <5>1 DEF RegistryInv, HandlesInv
        <5>3. g = d
          BY <4>2, <5>1, <5>2 DEF RegistryInv, HandlesInv
        <5> QED
          BY <3>2, <4>2, <5>2, <5>3
      <4> QED
        BY <1>6, <1>7, <4>1, <4>2, <4>3
    <3> QED
      BY <3>1, <3>2
  <2> QED
    BY <2>1, <2>2 DEF HandlesInv
<1>12. NoUntrackedDrain'
  <2>1. ASSUME NEW d \in drains', ~d.cancelled PROVE handles'[d.slot] = d.id
    <3>1. CASE d = new
      BY <1>2, <1>4, <3>1
    <3>2. CASE d \in old
      <4>1. d \in drains /\ d.id # handles[slot] /\ d.slot \in Slots
        BY <1>6, <2>1, <3>2, DrainFacts
      <4>2. handles[d.slot] = d.id
        BY <2>1, <4>1 DEF RegistryInv, NoUntrackedDrain
      <4> QED
        BY <1>2, <4>1, <4>2
    <3> QED
      BY <1>7, <3>1, <3>2
  <2> QED
    BY <2>1 DEF NoUntrackedDrain
<1>13. \A d \in drains : d.stage = "calls" => WaitsOn(d)
  BY <1>6, <1>7 DEF WaitsOn
<1> QED
  BY <1>8, <1>9, <1>11, <1>12, <1>13

(* A slot is cleared: its drain is cancelled, and the one that asked for   *)
(* it returns.                                                             *)
LEMMA ClearRegistry ==
  ASSUME RegistryInv, NEW a \in Activities, NEW by, clear(a, by), life' = life,
         \E d \in drains : d.id = by /\ d.slot = a
  PROVE  /\ drains' \subseteq Drain /\ IsFiniteSet(drains') /\ handles' \in [Slots -> Nat]
         /\ ItemsInv' /\ HandlesInv' /\ NoUntrackedDrain'
         /\ \A d \in drains : (d.stage = "calls" /\ d.id # by) => WaitsOn(d)
<1> DEFINE old == Cancel({handles[a]})
<1>1. drains' = {d \in old : d.id # by} /\ handles' = [handles EXCEPT ![a] = 0] /\ handles \in [Slots -> Nat] /\ a \in Slots
  BY DEF clear, RegistryInv, TypeOK, Slots
<1>2. /\ old \subseteq Drain /\ IsFiniteSet(old)
      /\ \A e \in old : ItemsOK(e) /\ (~e.cancelled => e \in drains /\ e.id \notin {handles[a]})
      /\ \A e \in old : \E d \in drains : e.id = d.id /\ e.slot = d.slot
      /\ \A d \in drains : d.id \notin {handles[a]} => d \in old
      /\ \A d \in drains : d.stage = "calls" => \E e \in old : e.id = d.id /\ e.slot = d.slot /\ e.stage = "calls"
      /\ \A e, f \in old : e.id = f.id => e = f
  BY CancelFacts
<1> HIDE DEF old
<1>3. drains' \subseteq Drain /\ IsFiniteSet(drains') /\ handles' \in [Slots -> Nat]
  BY <1>1, <1>2, FS_Subset
<1>4. ItemsInv'
  BY <1>1, <1>2 DEF ItemsInv, ItemsOK
<1>5. HandlesInv'
  <2>1. \A e, f \in drains' : e.id = f.id => e = f
    BY <1>1, <1>2
  <2>2. ASSUME NEW s \in Slots, handles'[s] # 0
        PROVE  \E d \in drains' : d.id = handles'[s] /\ d.slot = s /\ ~d.cancelled
    <3>1. s # a /\ handles'[s] = handles[s]
      BY <1>1, <2>2
    <3>2. PICK d \in drains : d.id = handles[s] /\ d.slot = s /\ ~d.cancelled
      BY <2>2, <3>1 DEF RegistryInv, HandlesInv
    <3>3. \A g \in drains : g.id = d.id => g.slot = s
      BY <3>2 DEF RegistryInv, HandlesInv
    <3>4. d.id # by
      BY <3>1, <3>3
    <3>5. d.id # handles[a]
      <4>1. SUFFICES ASSUME d.id = handles[a] PROVE FALSE
        OBVIOUS
      <4>2. PICK g \in drains : g.id = handles[a] /\ g.slot = a
        BY <1>1, <2>2, <3>1, <3>2, <4>1 DEF RegistryInv, HandlesInv
      <4> QED
        BY <3>1, <3>3, <4>1, <4>2
    <3> QED
      BY <1>1, <1>2, <3>1, <3>2, <3>4, <3>5
  <2> QED
    BY <2>1, <2>2 DEF HandlesInv
<1>6. NoUntrackedDrain'
  <2>1. ASSUME NEW d \in drains', ~d.cancelled PROVE handles'[d.slot] = d.id
    <3>1. d \in drains /\ d.id # handles[a] /\ d.slot \in Slots
      BY <1>1, <1>2, <2>1, DrainFacts
    <3>2. handles[d.slot] = d.id
      BY <2>1, <3>1 DEF RegistryInv, NoUntrackedDrain
    <3> QED
      BY <1>1, <3>1, <3>2
  <2> QED
    BY <2>1 DEF NoUntrackedDrain
<1>7. \A d \in drains : (d.stage = "calls" /\ d.id # by) => WaitsOn(d)
  BY <1>1, <1>2 DEF WaitsOn
<1> QED
  BY <1>3, <1>4, <1>5, <1>6, <1>7

LEMMA ClearObserversRegistry ==
  ASSUME RegistryInv, clearObservers, life' = life
  PROVE  /\ drains' \subseteq Drain /\ IsFiniteSet(drains') /\ handles' \in [Slots -> Nat]
         /\ ItemsInv' /\ HandlesInv' /\ NoUntrackedDrain'
         /\ \A d \in drains : d.stage = "calls" => WaitsOn(d)
         /\ \A d \in drains' : d.cancelled
<1> DEFINE ids == {handles[s] : s \in Slots}
<1>1. drains' = Cancel(ids) /\ handles' = [s \in Slots |-> 0]
  BY DEF clearObservers
<1>2. /\ Cancel(ids) \subseteq Drain /\ IsFiniteSet(Cancel(ids))
      /\ \A e \in Cancel(ids) : ItemsOK(e) /\ (~e.cancelled => e \in drains /\ e.id \notin ids)
      /\ \A d \in drains : d.stage = "calls" => \E e \in Cancel(ids) : e.id = d.id /\ e.slot = d.slot /\ e.stage = "calls"
      /\ \A e, f \in Cancel(ids) : e.id = f.id => e = f
  <2> HIDE DEF ids
  <2> QED
    BY CancelFacts
<1>3. \A d \in drains' : d.cancelled
  <2>1. ASSUME NEW d \in drains', ~d.cancelled PROVE FALSE
    <3>1. d \in drains /\ d.id \notin ids /\ d.slot \in Slots
      BY <1>1, <1>2, <2>1, DrainFacts
    <3>2. handles[d.slot] = d.id
      BY <2>1, <3>1 DEF RegistryInv, NoUntrackedDrain
    <3> QED
      BY <3>1, <3>2
  <2>2. \A d \in drains' : d.cancelled \in BOOLEAN
    BY <1>1, <1>2, DrainFacts
  <2> QED
    BY <2>1, <2>2
<1> HIDE DEF ids
<1>4. HandlesInv' /\ NoUntrackedDrain' /\ handles' \in [Slots -> Nat]
  BY <1>1, <1>2, <1>3 DEF HandlesInv, NoUntrackedDrain
<1>5. ItemsInv'
  BY <1>1, <1>2 DEF ItemsInv, ItemsOK
<1>6. \A d \in drains : d.stage = "calls" => WaitsOn(d)
  BY <1>1, <1>2 DEF WaitsOn
<1> QED
  BY <1>1, <1>2, <1>3, <1>4, <1>5, <1>6

(* A drain that resumes is the one it was, unless it was cancelled.        *)
LEMMA ResumeFacts ==
  ASSUME RegistryInv, NEW d \in drains, d.slot \notin Activities
  PROVE  \/ Resume(d) = {} /\ d.cancelled
         \/ \E e \in Drain : Resume(d) = {e} /\ From(d, e) /\ ItemsOK(e) /\ ~d.cancelled
                               /\ e.pending = d.pending /\ e.earlier = d.earlier
<1> DEFINE e == [d EXCEPT !.stage = "waits", !.item = 0]
<1>1. d \in Drain /\ ItemsOK(d)
  BY DEF RegistryInv, TypeOK, ItemsInv
<1>2. e \in Drain /\ From(d, e) /\ e.pending = d.pending /\ e.earlier = d.earlier /\ e.stage = "waits" /\ e.slot = d.slot /\ e.cancelled = d.cancelled
  BY <1>1 DEF Drain, From, Stages
<1> HIDE DEF e
<1>3. ItemsOK(e)
  BY <1>1, <1>2 DEF ItemsOK
<1>4. Resume(d) = IF d.cancelled THEN {} ELSE {e}
  BY <1>2 DEF Resume, e
<1> QED
  BY <1>2, <1>3, <1>4

LEMMA SetTokenBecomes ==
  ASSUME RegistryInv, NEW t, NEW by, setPushToStartToken(t, by), NEW w \in drains, w.id = by
  PROVE  Becomes(w, Resume(w))
<1>1. \A d \in drains : d.id = by <=> d = w
  BY DEF RegistryInv, HandlesInv
<1>2. drains' = UNION {IF d.id = by THEN Resume(d) ELSE {d} : d \in drains}
  BY DEF setPushToStartToken
<1> QED
  BY <1>1, <1>2 DEF Becomes

LEMMA SetTokenRegistry ==
  ASSUME RegistryInv, NEW t, NEW by, setPushToStartToken(t, by), life' = life,
         \E d \in drains : d.id = by /\ d.slot = TokenSlot
  PROVE  /\ drains' \subseteq Drain /\ IsFiniteSet(drains') /\ handles' \in [Slots -> Nat]
         /\ ItemsInv' /\ HandlesInv' /\ NoUntrackedDrain'
         /\ \A d \in drains : (d.stage = "calls" /\ d.id # by) => WaitsOn(d)
<1>1. PICK w \in drains : w.id = by /\ w.slot = TokenSlot
  OBVIOUS
<1>2. Becomes(w, Resume(w)) /\ handles' = handles /\ handles \in [Slots -> Nat]
  BY <1>1, SetTokenBecomes DEF setPushToStartToken, RegistryInv, TypeOK
<1>3. \/ Resume(w) = {} /\ w.cancelled
      \/ \E e \in Drain : Resume(w) = {e} /\ From(w, e) /\ ItemsOK(e)
  BY <1>1, ObserversAssumption, ResumeFacts
<1>4. /\ drains' \subseteq Drain /\ IsFiniteSet(drains')
      /\ ItemsInv' /\ HandlesInv' /\ NoUntrackedDrain'
  BY <1>2, <1>3, BecomesFacts
<1>5. \A d \in drains : (d.stage = "calls" /\ d.id # by) => WaitsOn(d)
  BY <1>1, <1>2 DEF Becomes, WaitsOn
<1> QED
  BY <1>2, <1>4, <1>5

LEMMA ServeRegistry ==
  ASSUME RegistryInv, Serve PROVE RegistryInv'
<1>0. UNCHANGED <<observing, starts, life, issued, told, expected>>
  BY DEF Serve, systemVars
<1>1. PICK k \in 1..Len(calls) :
        /\ calls' = RemoveAt(calls, k)
        /\ outOfTurn' \in {outOfTurn, outOfTurn + 1} /\ overtaken' = (overtaken \/ Overtakes(k))
        /\ \/ calls[k].op = "begin" /\ beginObservation(calls[k].slot)
           \/ calls[k].op = "clearObservers" /\ clearObservers
           \/ calls[k].op = "clear" /\ clear(calls[k].slot, calls[k].by)
           \/ calls[k].op = "setToken" /\ setPushToStartToken(calls[k].token, calls[k].by)
  BY DEF Serve
<1> DEFINE c == calls[k]
<1>2. c \in Call
  BY DEF RegistryInv, TypeOK
<1>3. /\ drains' \subseteq Drain /\ IsFiniteSet(drains') /\ handles' \in [Slots -> Nat] /\ cached' \in 0..MaxTokens
      /\ ItemsInv' /\ HandlesInv' /\ NoUntrackedDrain'
      /\ \A d \in drains : (d.stage = "calls" /\ ~(k \in Awaited /\ d.id = calls[k].by)) => WaitsOn(d)
  <2>1. CASE c.op = "begin" /\ beginObservation(c.slot)
    <3>1. c.slot \in Slots /\ cached' = cached
      BY <1>2, <2>1, CallFacts DEF beginObservation
    <3> QED
      BY <1>0, <2>1, <3>1, BeginRegistry DEF RegistryInv, TypeOK
  <2>2. CASE c.op = "clearObservers" /\ clearObservers
    <3>1. cached' = cached
      BY <2>2 DEF clearObservers
    <3> QED
      BY <1>0, <2>2, <3>1, ClearObserversRegistry DEF RegistryInv, TypeOK
  <2>3. CASE c.op = "clear" /\ clear(c.slot, c.by)
    <3>1. c.slot \in Activities /\ cached' = cached /\ k \in Awaited
      BY <1>2, <2>3, CallFacts DEF clear, Awaited
    <3>2. \E d \in drains : d.id = c.by /\ d.slot = c.slot
      BY <2>3, <3>1 DEF RegistryInv, CallsInv, Waits
    <3> QED
      BY <1>0, <2>3, <3>1, <3>2, ClearRegistry DEF RegistryInv, TypeOK
  <2>4. CASE c.op = "setToken" /\ setPushToStartToken(c.token, c.by)
    <3>1. cached' \in 0..MaxTokens /\ k \in Awaited
      <4>1. c.token \in 1..MaxTokens /\ cached' = c.token
        BY <1>2, <2>4, CallFacts DEF setPushToStartToken
      <4> QED
        BY <2>4, <4>1, ObserversAssumption DEF Awaited
    <3>2. \E d \in drains : d.id = c.by /\ d.slot = TokenSlot
      BY <2>4, <3>1 DEF RegistryInv, CallsInv, Waits
    <3> QED
      BY <1>0, <2>4, <3>1, <3>2, SetTokenRegistry
  <2> QED
    BY <1>1, <2>1, <2>2, <2>3, <2>4
<1>4. calls' \in Seq(Call) /\ CallsInv'
  BY <1>0, <1>1, <1>3, CallServed
<1>5. outOfTurn' \in Nat /\ overtaken' \in BOOLEAN
  <2>1. outOfTurn' \in Nat
    BY <1>1 DEF RegistryInv, TypeOK
  <2>2. overtaken' \in BOOLEAN
    BY <1>1 DEF RegistryInv, TypeOK, Overtakes
  <2> QED
    BY <2>1, <2>2
<1>6. TypeOK'
  BY <1>0, <1>3, <1>4, <1>5 DEF RegistryInv, TypeOK
<1> QED
  BY <1>3, <1>4, <1>6 DEF RegistryInv

-----------------------------------------------------------------------------
(* The drains.                                                             *)

LEMMA TakeRegistry ==
  ASSUME RegistryInv, NEW d \in drains, Take(d) PROVE RegistryInv'
<1>0. UNCHANGED <<observing, starts, outOfTurn, overtaken, life, issued, handles, cached, calls, told, expected>> /\ d.stage = "waits"
  BY DEF Take, appVars, systemVars, registryVars
<1>1. PICK x \in Oldest(d) : Becomes(d, {[d EXCEPT !.stage = "holds", !.item = x, !.pending = @ \ {x}]})
  BY DEF Take
<1> DEFINE e == [d EXCEPT !.stage = "holds", !.item = x, !.pending = @ \ {x}]
<1>2. d \in Drain /\ ItemsOK(d) /\ x \in d.pending
  BY DEF RegistryInv, TypeOK, ItemsInv, Oldest
<1>3. /\ e \in Drain /\ From(d, e) /\ e.slot = d.slot /\ e.pending \subseteq d.pending /\ e.item = x /\ e.stage = "holds"
  BY <1>2 DEF Drain, From, Stages
<1> HIDE DEF e
<1>4. ItemsOK(e)
  BY <1>2, <1>3 DEF ItemsOK
<1>5. /\ drains' \subseteq Drain /\ IsFiniteSet(drains') /\ ItemsInv' /\ HandlesInv' /\ NoUntrackedDrain'
  BY <1>0, <1>1, <1>3, <1>4, BecomesFacts DEF e
<1>6. \A f \in drains : f.stage = "calls" => WaitsOn(f)
  BY <1>0, <1>1 DEF Becomes, WaitsOn
<1>7. Awaited' = Awaited
  BY <1>0 DEF Awaited
<1>8. CallsInv'
  <2>1. ASSUME NEW i \in Awaited PROVE \E f \in drains' : Waits(f, calls[i])
    <3>1. PICK f \in drains : Waits(f, calls[i])
      BY DEF RegistryInv, CallsInv
    <3> QED
      BY <1>6, <3>1 DEF Waits, WaitsOn
  <2> QED
    BY <1>0, <1>7, <2>1 DEF RegistryInv, CallsInv
<1>9. TypeOK'
  BY <1>0, <1>5 DEF RegistryInv, TypeOK
<1> QED
  BY <1>5, <1>8, <1>9 DEF RegistryInv

LEMMA ObserveStartedRegistry ==
  ASSUME RegistryInv, NEW d \in drains, ObserveStarted(d)
  PROVE  RegistryInv' /\ d.item \in Activities
<1>0. /\ UNCHANGED <<observing, starts, outOfTurn, overtaken, life, issued, handles, cached, told, expected>>
      /\ d.stage = "holds" /\ d.slot = UpdatesSlot /\ calls' = calls \o <<Begin(d.item)>> /\ Becomes(d, Resume(d))
  BY DEF ObserveStarted, appVars, systemVars, registryVars, Put
<1>1. d.item \in Activities
  BY <1>0 DEF RegistryInv, ItemsInv, ItemsOK
<1>2. /\ drains' \subseteq Drain /\ IsFiniteSet(drains') /\ ItemsInv' /\ HandlesInv' /\ NoUntrackedDrain'
  <2>1. \/ Resume(d) = {} /\ d.cancelled
        \/ \E e \in Drain : Resume(d) = {e} /\ From(d, e) /\ ItemsOK(e)
    BY <1>0, ObserversAssumption, ResumeFacts
  <2> QED
    BY <1>0, <2>1, BecomesFacts
<1>3. \A f \in drains : f.stage = "calls" => WaitsOn(f)
  BY <1>0 DEF Becomes, WaitsOn
<1>4. OverStays /\ <<Begin(d.item)>> \in Seq(Unawaited)
  BY <1>0, <1>1 DEF OverStays, Unawaited, Slots
<1>5. calls' \in Seq(Call) /\ CallsInv'
  BY <1>0, <1>3, <1>4, CallsAppended
<1>6. TypeOK'
  BY <1>0, <1>2, <1>5 DEF RegistryInv, TypeOK
<1> QED
  BY <1>1, <1>2, <1>5, <1>6 DEF RegistryInv

(* A token to cache, or an end that was sent: the drain calls the actor.   *)
LEMMA CallingRegistry ==
  ASSUME RegistryInv, NEW d \in drains, CacheToken(d) \/ SendEnd(d) PROVE RegistryInv'
<1>0. /\ UNCHANGED <<observing, starts, outOfTurn, overtaken, life, issued, handles, cached, expected>>
      /\ d.stage = "holds" /\ Becomes(d, {[d EXCEPT !.stage = "calls"]})
  BY DEF CacheToken, SendEnd, appVars, systemVars, registryVars
<1> DEFINE e == [d EXCEPT !.stage = "calls"]
<1>1. d \in Drain /\ ItemsOK(d) /\ d.id \in Nat
  BY DrainFacts DEF RegistryInv, TypeOK, ItemsInv
<1>2. /\ e \in Drain /\ From(d, e) /\ e.slot = d.slot /\ e.pending = d.pending /\ e.stage = "calls"
      /\ e.id = d.id
  BY <1>1 DEF Drain, From, Stages
<1>3. PICK c \in Call : /\ calls' = calls \o <<c>> /\ c.op \in {"clear", "setToken"} /\ Waits(e, c)
                        /\ c.op = "clear" => life[c.slot] = "over"
  <2> HIDE DEF e
  <2>1. CASE CacheToken(d)
    <3> DEFINE c == SetToken(d.item, d.id)
    <3>1. d.slot = TokenSlot /\ d.item \in 1..MaxTokens /\ calls' = calls \o <<c>>
      BY <1>0, <1>1, <2>1 DEF CacheToken, ItemsOK, Put
    <3>2. c \in Call /\ c.op = "setToken" /\ c.by = d.id
      BY <1>1, <3>1, CallFacts DEF SetToken
    <3>3. Waits(e, c)
      BY <1>2, <3>1, <3>2 DEF Waits
    <3> HIDE DEF c
    <3> QED
      BY <3>1, <3>2, <3>3
  <2>2. CASE SendEnd(d)
    <3> DEFINE c == Clear(d.slot, d.id)
    <3>1. d.slot \in Activities /\ life[d.slot] = "over" /\ calls' = calls \o <<c>>
      BY <1>0, <1>1, <2>2 DEF SendEnd, ItemsOK, Put
    <3>2. c \in Call /\ c.op = "clear" /\ c.by = d.id /\ c.slot = d.slot
      BY <1>1, <3>1, CallFacts DEF Clear
    <3>3. Waits(e, c)
      BY <1>2, <3>2 DEF Waits
    <3> HIDE DEF c
    <3> QED
      BY <3>1, <3>2, <3>3
  <2> QED
    BY <2>1, <2>2
<1>4. ItemsOK(e)
  <2>1. d.slot \in Activities => life[d.slot] = "over"
    BY <1>0, <1>1 DEF ItemsOK
  <2> HIDE DEF e
  <2> QED
    BY <1>1, <1>2, <2>1 DEF ItemsOK
<1>5. /\ drains' \subseteq Drain /\ IsFiniteSet(drains') /\ ItemsInv' /\ HandlesInv' /\ NoUntrackedDrain'
  <2>1. Becomes(d, {e})
    BY <1>0
  <2> HIDE DEF e
  <2> QED
    BY <1>0, <1>2, <1>4, <2>1, BecomesFacts
<1>6. calls' \in Seq(Call) /\ CallsInv'
  <2>1. d.stage # "calls" /\ life' = life /\ (c.op = "clear" => life[c.slot] = "over")
    BY <1>0, <1>3
  <2>2. Waits([d EXCEPT !.stage = "calls"], c)
    BY <1>3
  <2>3. calls' = calls \o <<c>> /\ c.op \in {"clear", "setToken"}
    BY <1>3
  <2> HIDE DEF e
  <2> QED
    BY <1>0, <2>1, <2>2, <2>3, CallMade
<1>7. told' \subseteq Activities
  BY DEF CacheToken, SendEnd, RegistryInv, TypeOK
<1>8. TypeOK'
  BY <1>0, <1>5, <1>6, <1>7 DEF RegistryInv, TypeOK
<1> QED
  BY <1>5, <1>6, <1>8 DEF RegistryInv

LEMMA RegistryNext == RegistryInv /\ [Next]_vars => RegistryInv'
<1> SUFFICES ASSUME RegistryInv, [Next]_vars PROVE RegistryInv'
  OBVIOUS
<1>1. CASE OnStartObserving
  BY <1>1, OnStartRegistry
<1>2. CASE OnStopObserving
  BY <1>2, OnStopRegistry
<1>3. CASE Issue
  <2>1. UNCHANGED <<observing, starts, outOfTurn, overtaken, life, handles, cached, told, expected, calls>> /\ issued' = issued + 1 /\ issued < MaxTokens
        /\ Yield(TokenSlot, issued + 1)
    BY <1>3 DEF Issue, appVars, registryVars
  <2>2. <<>> \in Seq(Unawaited) /\ calls' = calls \o <<>>
    BY <2>1 DEF RegistryInv, TypeOK
  <2>3. /\ OverStays /\ issued' \in 0..MaxTokens /\ issued + 1 \in 1..MaxTokens /\ issued + 1 \in Items
        /\ TokenSlot \in Slots /\ TokenSlot # UpdatesSlot /\ TokenSlot \notin Activities
        /\ life' \in [Activities -> {"none", "running", "over"}] /\ expected' \subseteq Activities
    BY <2>1, ObserversAssumption DEF OverStays, Items, Slots, RegistryInv, TypeOK
  <2> QED
    BY <2>1, <2>2, <2>3, YieldRegistry
<1>4. ASSUME NEW a \in Activities, start(a) \/ Delivered(a) \/ Over(a) PROVE RegistryInv'
  BY <1>4, SystemRegistry
<1>5. CASE Serve
  BY <1>5, ServeRegistry
<1>6. CASE DrainStep
  BY <1>6, TakeRegistry, ObserveStartedRegistry, CallingRegistry DEF DrainStep
<1>7. CASE UNCHANGED vars
  <2>1. UNCHANGED <<observing, starts, outOfTurn, overtaken, life, issued, handles, cached, calls, drains, told, expected>>
    BY <1>7 DEF vars, appVars, systemVars, registryVars
  <2> QED
    BY <2>1 DEF RegistryInv, TypeOK, ItemsInv, ItemsOK, HandlesInv, NoUntrackedDrain, CallsInv, Awaited
<1> QED
  BY <1>1, <1>2, <1>3, <1>4, <1>5, <1>6, <1>7 DEF Next

THEOREM RegistryInvariant == Spec => []RegistryInv
BY RegistryInit, RegistryNext, PTL DEF Spec

(* Every variable keeps its type: in particular every call under way names *)
(* a slot, an activity or a token, whichever drain made it.                *)
THEOREM TypeCorrect == Spec => []TypeOK
<1>1. RegistryInv => TypeOK
  BY DEF RegistryInv
<1> QED
  BY <1>1, RegistryInvariant, PTL

(* In whichever order the actor takes its calls, a drain that goes on is   *)
(* the one the registry would cancel (ObserverRegistry.swift:66-85).       *)
THEOREM NoneUntracked == Spec => []NoUntrackedDrain
<1>1. RegistryInv => NoUntrackedDrain
  BY DEF RegistryInv
<1> QED
  BY <1>1, RegistryInvariant, PTL

-----------------------------------------------------------------------------
(* What the registry will have caught up with, unless a begin and a        *)
(* clearObservers have crossed since JavaScript began to observe, or       *)
(* stopped.                                                                *)

ClearsAfter(i) == \E j \in 1..Len(calls) : j > i /\ calls[j] = ClearObservers

(* The slot has a drain, or is about to; no call will take it away.        *)
WillDrain(s) ==
  \/ Live(s) /\ ~ClearsAfter(0)
  \/ \E i \in 1..Len(calls) : calls[i] = Begin(s) /\ ~ClearsAfter(i)

HasTaken(d, a) == d.slot = UpdatesSlot /\ ~d.cancelled /\ (a \in d.pending \/ (d.stage = "holds" /\ d.item = a))

(* The updates drain, which is there to stay, will ask for one.            *)
WillObserve(a) ==
  /\ \E d \in drains : HasTaken(d, a)
  /\ \A i \in 1..Len(calls) : calls[i] \notin {ClearObservers, Begin(UpdatesSlot)}

ClassBegins == {Begin(TokenSlot), Begin(UpdatesSlot)}

(* The observers are about to be cleared, or have been.                    *)
WillStop ==
  \/ \E i \in 1..Len(calls) :
       calls[i] = ClearObservers /\ \A j \in 1..Len(calls) : j > i => calls[j] \notin ClassBegins
  \/ /\ \A d \in drains : ~d.cancelled => d.slot \in Activities /\ ~d.earlier
     /\ \A j \in 1..Len(calls) : calls[j] \notin ClassBegins

FollowInv ==
  /\ \A a \in expected : life[a] # "none"
  /\ observing /\ ~overtaken =>
       /\ WillDrain(TokenSlot) /\ WillDrain(UpdatesSlot)
       /\ \A a \in expected : life[a] = "running" => WillDrain(a) \/ WillObserve(a)
  /\ ~observing => expected = {}
  /\ ~observing /\ ~overtaken => WillStop

(* Calls added at the end, and drains that go on: nothing is lost.         *)
LEMMA NothingLost ==
  ASSUME RegistryInv, NEW r \in Seq(Call), calls' = calls \o r,
         \A i \in 1..Len(r) : r[i] \notin ClassBegins \cup {ClearObservers},
         \A e \in drains' : ~e.cancelled => \E d \in drains : ~d.cancelled /\ e.slot = d.slot /\ e.earlier = d.earlier,
         \A d \in drains : ~d.cancelled => \E e \in drains' : ~e.cancelled /\ e.slot = d.slot
  PROVE  /\ \A s \in Slots : WillDrain(s) => WillDrain(s)'
         /\ \A s \in Slots : (\E i \in 1..Len(r) : r[i] = Begin(s)) => WillDrain(s)'
         /\ WillStop => WillStop'
         /\ \A i \in 1..Len(calls') : (i \in 1..Len(calls) /\ calls'[i] = calls[i]) \/ calls'[i] \notin ClassBegins \cup {ClearObservers}
<1> DEFINE n == Len(calls)
<1>0. calls \in Seq(Call) /\ n \in Nat /\ Len(r) \in Nat
  BY DEF RegistryInv, TypeOK
<1>1. /\ Len(calls') = n + Len(r)
      /\ \A i \in 1..n : calls'[i] = calls[i]
      /\ \A i \in (n + 1)..(n + Len(r)) : calls'[i] = r[i - n]
  BY <1>0, AppendedFacts
<1>2. ASSUME NEW i \in 1..(n + Len(r)), i \notin 1..n PROVE calls'[i] \notin ClassBegins \cup {ClearObservers}
  <2>1. i \in (n + 1)..(n + Len(r)) /\ i - n \in 1..Len(r)
    BY <1>0, <1>2
  <2> QED
    BY <1>1, <2>1
<1>3. 1..n \subseteq 1..(n + Len(r))
  BY <1>0
<1>4. ASSUME NEW i \in Nat, ~ClearsAfter(i) PROVE ~ClearsAfter(i)'
  BY <1>1, <1>2, <1>4 DEF ClearsAfter
<1>5. \A s \in Slots : Live(s) => Live(s)'
  BY DEF Live
<1>6. ASSUME NEW s \in Slots, WillDrain(s) PROVE WillDrain(s)'
  <2>1. CASE Live(s) /\ ~ClearsAfter(0)
    BY <1>4, <1>5, <2>1 DEF WillDrain
  <2>2. ASSUME NEW i \in 1..n, calls[i] = Begin(s), ~ClearsAfter(i) PROVE WillDrain(s)'
    BY <1>1, <1>3, <1>4, <2>2 DEF WillDrain
  <2> QED
    BY <1>6, <2>1, <2>2 DEF WillDrain
<1>7. ASSUME NEW s \in Slots, NEW i \in 1..Len(r), r[i] = Begin(s) PROVE WillDrain(s)'
  <2>1. n + i \in (n + 1)..(n + Len(r)) /\ (n + i) - n = i /\ n + i \in 1..(n + Len(r))
    BY <1>0
  <2>2. calls'[n + i] = Begin(s)
    BY <1>1, <1>7, <2>1
  <2>3. ASSUME NEW j \in 1..Len(calls'), j > n + i PROVE calls'[j] # ClearObservers
    <3>1. j \in 1..(n + Len(r)) /\ j \notin 1..n
      BY <1>0, <1>1, <2>3
    <3> QED
      BY <1>2, <3>1
  <2> QED
    BY <1>1, <2>1, <2>2, <2>3 DEF WillDrain, ClearsAfter
<1>8. ASSUME WillStop PROVE WillStop'
  <2>1. ASSUME NEW i \in 1..n, calls[i] = ClearObservers, \A j \in 1..n : j > i => calls[j] \notin ClassBegins PROVE WillStop'
    BY <1>1, <1>2, <1>3, <2>1 DEF WillStop, ClassBegins
  <2>2. CASE /\ \A d \in drains : ~d.cancelled => d.slot \in Activities /\ ~d.earlier
             /\ \A j \in 1..n : calls[j] \notin ClassBegins
    <3>1. \A d \in drains' : ~d.cancelled => d.slot \in Activities /\ ~d.earlier
      BY <2>2
    <3>2. \A j \in 1..Len(calls') : calls'[j] \notin ClassBegins
      BY <1>1, <1>2, <2>2
    <3> QED
      BY <3>1, <3>2 DEF WillStop, ClassBegins
  <2> QED
    BY <1>8, <2>1, <2>2 DEF WillStop
<1>9. \A i \in 1..Len(calls') : (i \in 1..n /\ calls'[i] = calls[i]) \/ calls'[i] \notin ClassBegins \cup {ClearObservers}
  BY <1>1, <1>2
<1> QED
  BY <1>6, <1>7, <1>8, <1>9

(* The same, with what is expected of a step that neither starts nor stops *)
(* an observation and that the registry takes no part in.                  *)
LEMMA FollowKept ==
  ASSUME RegistryInv, FollowInv, NEW r \in Seq(Call), calls' = calls \o r,
         \A i \in 1..Len(r) : r[i] \notin ClassBegins \cup {ClearObservers},
         \A e \in drains' : ~e.cancelled => \E d \in drains : ~d.cancelled /\ e.slot = d.slot /\ e.earlier = d.earlier,
         \A d \in drains : ~d.cancelled => \E e \in drains' : ~e.cancelled /\ e.slot = d.slot,
         observing' = observing, overtaken' = overtaken, expected' \subseteq Activities,
         ~observing => expected' = {},
         \A a \in expected' : life'[a] # "none",
         \A a \in expected' : life'[a] = "running" =>
            \/ \E i \in 1..Len(r) : r[i] = Begin(a)
            \/ /\ a \in expected /\ life[a] = "running"
               /\ \A d \in drains : HasTaken(d, a) =>
                    (\E e \in drains' : HasTaken(e, a)) \/ (\E i \in 1..Len(r) : r[i] = Begin(a))
            \/ UpdatesDrained /\ \E e \in drains' : HasTaken(e, a)
  PROVE  FollowInv'
<1>1. /\ \A s \in Slots : WillDrain(s) => WillDrain(s)'
      /\ \A s \in Slots : (\E i \in 1..Len(r) : r[i] = Begin(s)) => WillDrain(s)'
      /\ WillStop => WillStop'
      /\ \A i \in 1..Len(calls') : (i \in 1..Len(calls) /\ calls'[i] = calls[i]) \/ calls'[i] \notin ClassBegins \cup {ClearObservers}
  BY NothingLost
<1>2. TokenSlot \in Slots /\ UpdatesSlot \in Slots /\ Activities \subseteq Slots
  BY DEF Slots
<1>3. ASSUME observing', ~overtaken' PROVE WillDrain(TokenSlot)' /\ WillDrain(UpdatesSlot)'
  BY <1>1, <1>2, <1>3 DEF FollowInv
<1>4. ASSUME observing', ~overtaken', NEW a \in expected', life'[a] = "running"
      PROVE  WillDrain(a)' \/ WillObserve(a)'
  <2>0. a \in Slots
    BY <1>2
  <2>1. CASE \E i \in 1..Len(r) : r[i] = Begin(a)
    BY <1>1, <2>0, <2>1
  <2>2. CASE /\ a \in expected /\ life[a] = "running"
             /\ \A d \in drains : HasTaken(d, a) =>
                  (\E e \in drains' : HasTaken(e, a)) \/ (\E i \in 1..Len(r) : r[i] = Begin(a))
    <3>1. WillDrain(a) \/ WillObserve(a)
      BY <1>4, <2>2 DEF FollowInv
    <3>2. CASE WillDrain(a)
      BY <1>1, <2>0, <3>2
    <3>3. CASE WillObserve(a)
      <4>1. \A i \in 1..Len(calls') : calls'[i] \notin {ClearObservers, Begin(UpdatesSlot)}
        BY <1>1, <3>3 DEF WillObserve, ClassBegins
      <4>2. PICK d \in drains : HasTaken(d, a)
        BY <3>3 DEF WillObserve
      <4>3. (\E e \in drains' : HasTaken(e, a)) \/ (\E i \in 1..Len(r) : r[i] = Begin(a))
        BY <2>2, <4>2
      <4>4. CASE \E i \in 1..Len(r) : r[i] = Begin(a)
        BY <1>1, <2>0, <4>4
      <4>5. CASE \E e \in drains' : HasTaken(e, a)
        BY <4>1, <4>5 DEF WillObserve, HasTaken
      <4> QED
        BY <4>3, <4>4, <4>5
    <3> QED
      BY <3>1, <3>2, <3>3
  <2>3. CASE UpdatesDrained /\ \E e \in drains' : HasTaken(e, a)
    <3>1. \A i \in 1..Len(calls') : calls'[i] \notin {ClearObservers, Begin(UpdatesSlot)}
      BY <1>1, <2>3 DEF UpdatesDrained, ClassBegins
    <3> QED
      BY <2>3, <3>1 DEF WillObserve, HasTaken
  <2> QED
    BY <1>4, <2>1, <2>2, <2>3
<1>5. ~observing' => expected' = {} /\ (~overtaken' => WillStop')
  BY <1>1 DEF FollowInv
<1> QED
  BY <1>3, <1>4, <1>5 DEF FollowInv

LEMMA FollowInit == Init => FollowInv
BY DEF Init, FollowInv, WillStop

LEMMA OnStartFollow ==
  ASSUME RegistryInv, OnStartObserving PROVE FollowInv'
<1>1. PICK r \in Seq(Unawaited) :
        /\ calls' = calls \o r
        /\ \A i \in 1..Len(r) : r[i] # ClearObservers
        /\ \A s \in expected' \cup {TokenSlot, UpdatesSlot} : \E i \in 1..Len(r) : r[i] = Begin(s)
  BY OnStartFacts
<1>2. /\ observing' = TRUE /\ expected' = {a \in Activities : life[a] = "running"} /\ life' = life
  BY DEF OnStartObserving, systemVars
<1> DEFINE n == Len(calls)
<1>3. calls \in Seq(Call) /\ n \in Nat /\ Len(r) \in Nat /\ r \in Seq(Call)
  BY CallFacts DEF RegistryInv, TypeOK
<1>4. /\ Len(calls') = n + Len(r)
      /\ \A i \in (n + 1)..(n + Len(r)) : calls'[i] = r[i - n]
  BY <1>1, <1>3, AppendedFacts
<1>5. ASSUME NEW s, NEW i \in 1..Len(r), r[i] = Begin(s) PROVE WillDrain(s)'
  <2>1. n + i \in (n + 1)..(n + Len(r)) /\ (n + i) - n = i /\ n + i \in 1..(n + Len(r))
    BY <1>3
  <2>2. calls'[n + i] = Begin(s)
    BY <1>4, <1>5, <2>1
  <2>3. ASSUME NEW j \in 1..Len(calls'), j > n + i PROVE calls'[j] # ClearObservers
    <3>1. j \in (n + 1)..(n + Len(r)) /\ j - n \in 1..Len(r)
      BY <1>3, <1>4, <2>3
    <3> QED
      BY <1>1, <1>4, <3>1
  <2> QED
    BY <1>4, <2>1, <2>2, <2>3 DEF WillDrain, ClearsAfter
<1>6. \A s \in expected' \cup {TokenSlot, UpdatesSlot} : WillDrain(s)'
  BY <1>1, <1>5
<1>7. \A a \in expected' : life'[a] # "none"
  BY <1>2
<1> QED
  BY <1>2, <1>6, <1>7 DEF FollowInv

LEMMA OnStopFollow ==
  ASSUME RegistryInv, FollowInv, OnStopObserving PROVE FollowInv'
<1> DEFINE n == Len(calls)
<1>1. /\ observing' = FALSE /\ expected' = {} /\ calls' = calls \o <<ClearObservers>>
  BY DEF OnStopObserving, Put
<1>2. calls \in Seq(Call) /\ n \in Nat
  BY DEF RegistryInv, TypeOK
<1>3. Len(calls') = n + 1 /\ calls'[n + 1] = ClearObservers
  BY <1>1, <1>2
<1>4. n + 1 \in 1..Len(calls') /\ \A j \in 1..Len(calls') : ~(j > n + 1)
  BY <1>2, <1>3
<1>5. WillStop'
  BY <1>3, <1>4 DEF WillStop
<1> QED
  BY <1>1, <1>5 DEF FollowInv

(* What a stream yields reaches the drains that go on.                     *)
LEMMA YieldFacts ==
  ASSUME RegistryInv, NEW slot, NEW item, Yield(slot, item)
  PROVE  /\ \A e \in drains' : ~e.cancelled => \E d \in drains : ~d.cancelled /\ e.slot = d.slot /\ e.earlier = d.earlier
         /\ \A d \in drains : ~d.cancelled => \E e \in drains' : ~e.cancelled /\ e.slot = d.slot
         /\ \A a : \A d \in drains : HasTaken(d, a) => \E e \in drains' : HasTaken(e, a)
         /\ \A d \in drains : (d.slot = slot /\ ~d.cancelled) => \E e \in drains' : e.slot = slot /\ ~e.cancelled /\ item \in e.pending
<1> DEFINE f == [d \in drains |-> IF d.slot = slot /\ ~d.cancelled THEN [d EXCEPT !.pending = @ \cup {item}] ELSE d]
<1>1. drains' = {f[d] : d \in drains}
  BY DEF Yield
<1>2. ASSUME NEW d \in drains
      PROVE  /\ f[d].slot = d.slot /\ f[d].cancelled = d.cancelled /\ f[d].earlier = d.earlier
             /\ f[d].stage = d.stage /\ f[d].item = d.item /\ d.pending \subseteq f[d].pending
             /\ (d.slot = slot /\ ~d.cancelled) => item \in f[d].pending
  <2>1. d \in Drain
    BY DEF RegistryInv, TypeOK
  <2> QED
    BY <2>1 DEF Drain
<1> HIDE DEF f
<1>3. ASSUME NEW a, NEW d \in drains, HasTaken(d, a) PROVE \E e \in drains' : HasTaken(e, a)
  BY <1>1, <1>2, <1>3 DEF HasTaken
<1> QED
  BY <1>1, <1>2, <1>3

LEMMA SystemFollow ==
  ASSUME RegistryInv, FollowInv, NEW a \in Activities, start(a) \/ Delivered(a) \/ Over(a) PROVE FollowInv'
<1>0. /\ calls \in Seq(Call) /\ life \in [Activities -> {"none", "running", "over"}] /\ expected \subseteq Activities
      /\ observing' = observing /\ overtaken' = overtaken /\ a # TokenSlot /\ a # UpdatesSlot
      /\ \A b \in expected : life[b] # "none" /\ (~observing => expected = {})
  BY ObserversAssumption DEF RegistryInv, TypeOK, FollowInv, start, Delivered, Over, appVars
<1>1. CASE start(a)
  <2>1. /\ Yield(UpdatesSlot, a) /\ calls' = calls \o <<Begin(a)>> /\ life' = [life EXCEPT ![a] = "running"] /\ life[a] = "none"
        /\ expected' = IF observing THEN expected \cup {a} ELSE expected
    BY <1>1 DEF start, Put
  <2>2. <<Begin(a)>> \in Seq(Call) /\ Len(<<Begin(a)>>) = 1 /\ <<Begin(a)>>[1] = Begin(a)
    BY CallFacts DEF Unawaited, Slots
  <2>3. Begin(a) \notin ClassBegins \cup {ClearObservers}
    BY <1>0 DEF ClassBegins, Begin, ClearObservers
  <2>4. \A i \in 1..Len(<<Begin(a)>>) : <<Begin(a)>>[i] \notin ClassBegins \cup {ClearObservers}
    BY <2>2, <2>3
  <2>5. ASSUME NEW b \in expected'
        PROVE  /\ life'[b] # "none"
               /\ life'[b] = "running" => (b = a \/ (b \in expected /\ life[b] = "running"))
    BY <1>0, <2>1
  <2>6. \E i \in 1..Len(<<Begin(a)>>) : <<Begin(a)>>[i] = Begin(a)
    BY <2>2
  <2>7. expected' \subseteq Activities /\ (~observing => expected' = {})
    BY <1>0, <2>1
  <2> DEFINE r == <<Begin(a)>>
  <2>8. r \in Seq(Call) /\ calls' = calls \o r
    BY <2>1, <2>2
  <2> HIDE DEF r
  <2>9. \A i \in 1..Len(r) : r[i] \notin ClassBegins \cup {ClearObservers}
    BY <2>4 DEF r
  <2>10. \E i \in 1..Len(r) : r[i] = Begin(a)
    BY <2>6 DEF r
  <2>11. \A b \in expected' : life'[b] = "running" =>
           \/ \E i \in 1..Len(r) : r[i] = Begin(b)
           \/ /\ b \in expected /\ life[b] = "running"
              /\ \A d \in drains : HasTaken(d, b) => \E e \in drains' : HasTaken(e, b)
    BY <2>1, <2>5, <2>10, YieldFacts
  <2> QED
    BY <1>0, <2>1, <2>5, <2>7, <2>8, <2>9, <2>11, YieldFacts, FollowKept
<1>2. CASE Delivered(a)
  <2>1. /\ Yield(UpdatesSlot, a) /\ calls' = calls \o <<>> /\ life' = [life EXCEPT ![a] = "running"] /\ life[a] = "none"
        /\ expected' = IF UpdatesDrained THEN expected \cup {a} ELSE expected
    BY <1>0, <1>2 DEF Delivered
  <2>2. ASSUME NEW b \in expected'
        PROVE  /\ life'[b] # "none"
               /\ life'[b] = "running" => ((b = a /\ UpdatesDrained) \/ (b \in expected /\ life[b] = "running"))
    BY <1>0, <2>1
  <2>3. expected' \subseteq Activities /\ (~observing => expected' = {})
    BY <1>0, <2>1 DEF UpdatesDrained
  <2>4. UpdatesDrained => \E e \in drains' : HasTaken(e, a)
    BY <2>1, YieldFacts DEF UpdatesDrained, HasTaken
  <2> DEFINE r == <<>>
  <2>5. r \in Seq(Call) /\ calls' = calls \o r /\ \A i \in 1..Len(r) : r[i] \notin ClassBegins \cup {ClearObservers}
    BY <2>1
  <2> HIDE DEF r
  <2>6. \A b \in expected' : life'[b] = "running" =>
          \/ /\ b \in expected /\ life[b] = "running"
             /\ \A d \in drains : HasTaken(d, b) => \E e \in drains' : HasTaken(e, b)
          \/ UpdatesDrained /\ \E e \in drains' : HasTaken(e, b)
    BY <2>1, <2>2, <2>4, YieldFacts
  <2> QED
    BY <1>0, <2>1, <2>2, <2>3, <2>5, <2>6, YieldFacts, FollowKept
<1>3. CASE Over(a)
  <2>1. /\ Yield(a, a) /\ calls' = calls \o <<>> /\ life' = [life EXCEPT ![a] = "over"] /\ expected' = expected
    BY <1>0, <1>3 DEF Over
  <2>2. ASSUME NEW b \in expected' PROVE life'[b] # "none" /\ (life'[b] = "running" => life[b] = "running")
    BY <1>0, <2>1
  <2> DEFINE r == <<>>
  <2>3. r \in Seq(Call) /\ calls' = calls \o r /\ \A i \in 1..Len(r) : r[i] \notin ClassBegins \cup {ClearObservers}
    BY <2>1
  <2> HIDE DEF r
  <2>4. \A b \in expected' : life'[b] = "running" =>
          /\ b \in expected /\ life[b] = "running"
          /\ \A d \in drains : HasTaken(d, b) => \E e \in drains' : HasTaken(e, b)
    BY <2>1, <2>2, YieldFacts
  <2>5. /\ \A e \in drains' : ~e.cancelled => \E d \in drains : ~d.cancelled /\ e.slot = d.slot /\ e.earlier = d.earlier
        /\ \A d \in drains : ~d.cancelled => \E e \in drains' : ~e.cancelled /\ e.slot = d.slot
    BY <2>1, YieldFacts
  <2>6. /\ observing' = observing /\ overtaken' = overtaken
        /\ expected' \subseteq Activities /\ (~observing => expected' = {})
    BY <1>0, <2>1
  <2> QED
    BY <2>2, <2>3, <2>4, <2>5, <2>6, FollowKept
<1> QED
  BY <1>1, <1>2, <1>3

LEMMA IssueFollow ==
  ASSUME RegistryInv, FollowInv, Issue PROVE FollowInv'
<1>0. /\ calls \in Seq(Call) /\ expected \subseteq Activities /\ Yield(TokenSlot, issued + 1)
      /\ UNCHANGED <<observing, overtaken, life, expected, calls>>
      /\ \A b \in expected : life[b] # "none" /\ (~observing => expected = {})
  BY DEF RegistryInv, TypeOK, FollowInv, Issue, appVars
<1> DEFINE r == <<>>
<1>1. r \in Seq(Call) /\ calls' = calls \o r /\ \A i \in 1..Len(r) : r[i] \notin ClassBegins \cup {ClearObservers}
  BY <1>0
<1> HIDE DEF r
<1>2. /\ \A e \in drains' : ~e.cancelled => \E d \in drains : ~d.cancelled /\ e.slot = d.slot /\ e.earlier = d.earlier
      /\ \A d \in drains : ~d.cancelled => \E e \in drains' : ~e.cancelled /\ e.slot = d.slot
      /\ \A b : \A d \in drains : HasTaken(d, b) => \E e \in drains' : HasTaken(e, b)
  BY <1>0, YieldFacts
<1> QED
  BY <1>0, <1>1, <1>2, FollowKept

(* A drain goes about its work; one that was cancelled may return.         *)
LEMMA BecomesFollow ==
  ASSUME RegistryInv, FollowInv, NEW d \in drains, NEW es, Becomes(d, es),
         UNCHANGED <<observing, overtaken, life, expected>>,
         NEW r \in Seq(Call), calls' = calls \o r,
         \A i \in 1..Len(r) : r[i] \notin ClassBegins \cup {ClearObservers},
         \/ es = {} /\ d.cancelled
         \/ \E e \in Drain : es = {e} /\ e.slot = d.slot /\ e.cancelled = d.cancelled /\ e.earlier = d.earlier,
         \A a : HasTaken(d, a) => (\E e \in es : HasTaken(e, a)) \/ (\E i \in 1..Len(r) : r[i] = Begin(a))
  PROVE  FollowInv'
<1>1. drains' = (drains \ {d}) \cup es
  BY DEF Becomes
<1>2. \A e \in drains' : ~e.cancelled => \E f \in drains : ~f.cancelled /\ e.slot = f.slot /\ e.earlier = f.earlier
  BY <1>1
<1>3. \A f \in drains : ~f.cancelled => \E e \in drains' : ~e.cancelled /\ e.slot = f.slot
  BY <1>1
<1>4. ASSUME NEW a, NEW f \in drains, HasTaken(f, a)
      PROVE  (\E e \in drains' : HasTaken(e, a)) \/ (\E i \in 1..Len(r) : r[i] = Begin(a))
  <2>1. CASE f = d
    BY <1>1, <1>4, <2>1
  <2>2. CASE f # d
    BY <1>1, <1>4, <2>2
  <2> QED
    BY <2>1, <2>2
<1>5. /\ expected' \subseteq Activities /\ (~observing => expected' = {}) /\ \A a \in expected' : life'[a] # "none"
  BY DEF RegistryInv, TypeOK, FollowInv
<1>6. \A a \in expected' : life'[a] = "running" =>
        /\ a \in expected /\ life[a] = "running"
        /\ \A f \in drains : HasTaken(f, a) =>
             (\E e \in drains' : HasTaken(e, a)) \/ (\E i \in 1..Len(r) : r[i] = Begin(a))
  BY <1>4
<1> QED
  BY <1>2, <1>3, <1>5, <1>6, FollowKept

LEMMA DrainStepFollow ==
  ASSUME RegistryInv, FollowInv, NEW d \in drains, Take(d) \/ ObserveStarted(d) \/ CacheToken(d) \/ SendEnd(d)
  PROVE  FollowInv'
<1>0. /\ UNCHANGED <<observing, overtaken, life, expected>> /\ d \in Drain /\ ItemsOK(d)
      /\ TokenSlot # UpdatesSlot /\ UpdatesSlot \notin Activities /\ TokenSlot \notin Activities
  BY ObserversAssumption
  DEF Take, ObserveStarted, CacheToken, SendEnd, appVars, systemVars, RegistryInv, TypeOK, ItemsInv
<1>1. CASE Take(d)
  <2>1. PICK x \in Oldest(d) : Becomes(d, {[d EXCEPT !.stage = "holds", !.item = x, !.pending = @ \ {x}]})
    BY <1>1 DEF Take
  <2> DEFINE e == [d EXCEPT !.stage = "holds", !.item = x, !.pending = @ \ {x}]
             r == <<>>
  <2>2. /\ e \in Drain /\ e.slot = d.slot /\ e.cancelled = d.cancelled /\ e.earlier = d.earlier
        /\ e.pending = d.pending \ {x} /\ e.item = x /\ e.stage = "holds"
    BY <1>0 DEF Drain, Stages, Oldest
  <2>3. r \in Seq(Call) /\ calls' = calls \o r /\ \A i \in 1..Len(r) : r[i] \notin ClassBegins \cup {ClearObservers}
    <3>1. calls' = calls /\ calls \in Seq(Call)
      BY <1>1 DEF Take, RegistryInv, TypeOK
    <3> QED
      BY <3>1
  <2>4. Becomes(d, {e}) /\ d.stage = "waits"
    BY <1>1, <2>1 DEF Take
  <2> HIDE DEF e, r
  <2>5. \A a : HasTaken(d, a) => HasTaken(e, a)
    BY <2>2, <2>4 DEF HasTaken
  <2> QED
    BY <1>0, <2>2, <2>3, <2>4, <2>5, BecomesFollow
<1>2. CASE ObserveStarted(d)
  <2>1. d.item \in Activities /\ d.stage = "holds" /\ d.slot = UpdatesSlot /\ Becomes(d, Resume(d))
    BY <1>2, ObserveStartedRegistry DEF ObserveStarted
  <2> DEFINE r == <<Begin(d.item)>>
  <2>2. r \in Seq(Call) /\ calls' = calls \o r /\ Len(r) = 1 /\ r[1] = Begin(d.item)
    BY <1>2, <2>1, CallFacts DEF ObserveStarted, Put, Unawaited, Slots
  <2> HIDE DEF r
  <2>3. \A i \in 1..Len(r) : r[i] \notin ClassBegins \cup {ClearObservers}
    <3>1. Begin(d.item) \notin ClassBegins \cup {ClearObservers}
      BY <1>0, <2>1 DEF ClassBegins, Begin, ClearObservers
    <3> QED
      BY <2>2, <3>1
  <2>4. \/ Resume(d) = {} /\ d.cancelled
        \/ \E e \in Drain : /\ Resume(d) = {e} /\ e.slot = d.slot /\ e.cancelled = d.cancelled /\ e.earlier = d.earlier
                            /\ e.pending = d.pending
    BY <1>0, <2>1, ResumeFacts DEF From
  <2>5. ASSUME NEW a, HasTaken(d, a)
        PROVE  (\E e \in Resume(d) : HasTaken(e, a)) \/ (\E i \in 1..Len(r) : r[i] = Begin(a))
    <3>1. CASE a \in d.pending
      BY <2>4, <2>5, <3>1 DEF HasTaken
    <3>2. CASE d.item = a
      BY <2>2, <3>2
    <3> QED
      BY <2>5, <3>1, <3>2 DEF HasTaken
  <2> QED
    BY <1>0, <2>1, <2>2, <2>3, <2>4, <2>5, BecomesFollow
<1>3. CASE CacheToken(d) \/ SendEnd(d)
  <2> DEFINE e == [d EXCEPT !.stage = "calls"]
  <2>1. /\ Becomes(d, {e}) /\ d.slot # UpdatesSlot /\ e \in Drain /\ e.slot = d.slot
        /\ e.cancelled = d.cancelled /\ e.earlier = d.earlier
    BY <1>0, <1>3 DEF CacheToken, SendEnd, Drain, Stages
  <2>2. PICK c : calls' = calls \o <<c>> /\ c \in Call /\ c \notin ClassBegins \cup {ClearObservers}
    <3>1. CASE CacheToken(d)
      <4>1. SetToken(d.item, d.id) \in Call
        BY <1>0, <3>1, CallFacts, DrainFacts DEF CacheToken, ItemsOK
      <4>2. SetToken(d.item, d.id) \notin ClassBegins \cup {ClearObservers}
        BY DEF ClassBegins, ClearObservers, Begin, SetToken
      <4>3. calls' = calls \o <<SetToken(d.item, d.id)>>
        BY <3>1 DEF CacheToken, Put
      <4> QED
        BY <4>1, <4>2, <4>3
    <3>2. CASE SendEnd(d)
      <4>1. Clear(d.slot, d.id) \in Call
        BY <1>0, <3>2, CallFacts, DrainFacts DEF SendEnd
      <4>2. Clear(d.slot, d.id) \notin ClassBegins \cup {ClearObservers}
        BY DEF ClassBegins, ClearObservers, Begin, Clear
      <4>3. calls' = calls \o <<Clear(d.slot, d.id)>>
        BY <3>2 DEF SendEnd, Put
      <4> QED
        BY <4>1, <4>2, <4>3
    <3> QED
      BY <1>3, <3>1, <3>2
  <2> DEFINE r == <<c>>
  <2>3. r \in Seq(Call) /\ calls' = calls \o r /\ \A i \in 1..Len(r) : r[i] \notin ClassBegins \cup {ClearObservers}
    BY <2>2
  <2>4. \A a : ~HasTaken(d, a)
    BY <2>1 DEF HasTaken
  <2> HIDE DEF e, r
  <2> QED
    BY <1>0, <2>1, <2>3, <2>4, BecomesFollow
<1> QED
  BY <1>1, <1>2, <1>3

(* The actor has taken the call c.                                         *)
Served(c) ==
  \/ c.op = "begin" /\ beginObservation(c.slot)
  \/ c.op = "clearObservers" /\ clearObservers
  \/ c.op = "clear" /\ clear(c.slot, c.by)
  \/ c.op = "setToken" /\ setPushToStartToken(c.token, c.by)

(* A handle is that of the slot's own drain.                               *)
LEMMA OwnHandle ==
  ASSUME RegistryInv, NEW d \in drains, NEW s \in Slots, d.slot # s
  PROVE  d.id # handles[s]
<1>1. d.id # 0
  BY DrainFacts DEF RegistryInv, TypeOK
<1> QED
  BY <1>1 DEF RegistryInv, HandlesInv

(* A call changes nothing in the slots it is not about, and a drain that   *)
(* it leaves behind was there before or is the one it begins.              *)
LEMMA ServeKeeps ==
  ASSUME RegistryInv, NEW k \in Awaited \cup {i \in 1..Len(calls) : calls[i].op = "begin"}, Served(calls[k])
  PROVE  /\ \A d \in drains : (~d.cancelled /\ ~(calls[k].op \in {"begin", "clear"} /\ calls[k].slot = d.slot))
              => \E e \in drains' : e.slot = d.slot /\ ~e.cancelled /\ (d.slot # TokenSlot => e = d)
         /\ \A e \in drains' : ~e.cancelled
              => \/ \E d \in drains : ~d.cancelled /\ e.slot = d.slot /\ e.earlier = d.earlier
                 \/ calls[k].op = "begin" /\ e.slot = calls[k].slot /\ ~e.earlier
         /\ calls[k].op = "begin" => \E e \in drains' : e.slot = calls[k].slot /\ ~e.cancelled
<1> DEFINE c == calls[k]
<1>1. c \in Call /\ k \in 1..Len(calls) /\ Activities \subseteq Slots
  BY DEF RegistryInv, TypeOK, Awaited, Slots
<1>2. CASE c.op = "begin"
  <2>1. c.slot \in Slots /\ beginObservation(c.slot)
    BY <1>1, <1>2, CallFacts DEF Served
  <2>2. PICK items \in Present(c.slot) : drains' = Cancel({handles[c.slot]}) \cup {NewDrain(c.slot, items)}
    BY <2>1 DEF beginObservation
  <2>3. /\ \A e \in Cancel({handles[c.slot]}) : ~e.cancelled => e \in drains
        /\ \A d \in drains : d.id # handles[c.slot] => d \in Cancel({handles[c.slot]})
    BY CancelFacts
  <2>4. LET e == NewDrain(c.slot, items) IN e.slot = c.slot /\ e.cancelled = FALSE /\ e.earlier = FALSE
    BY DEF NewDrain
  <2>5. \E e \in drains' : e.slot = c.slot /\ ~e.cancelled
    BY <2>2, <2>4
  <2>6. \A d \in drains : (~d.cancelled /\ c.slot # d.slot) => d \in drains'
    BY <2>1, <2>2, <2>3, OwnHandle
  <2> QED
    BY <1>2, <2>2, <2>3, <2>4, <2>5, <2>6
<1>3. CASE c.op = "clear"
  <2>1. c.slot \in Activities /\ clear(c.slot, c.by)
    BY <1>1, <1>3, CallFacts DEF Served
  <2>2. PICK w \in drains : w.id = c.by /\ w.slot = c.slot
    BY <1>3 DEF RegistryInv, CallsInv, Awaited, Waits
  <2>3. drains' = {d \in Cancel({handles[c.slot]}) : d.id # c.by}
    BY <2>1 DEF clear
  <2>4. /\ \A e \in Cancel({handles[c.slot]}) : ~e.cancelled => e \in drains
        /\ \A d \in drains : d.id # handles[c.slot] => d \in Cancel({handles[c.slot]})
    BY CancelFacts
  <2>5. ASSUME NEW d \in drains, ~d.cancelled, c.slot # d.slot PROVE d \in drains'
    <3>1. d.id # handles[c.slot]
      BY <1>1, <2>1, <2>5, OwnHandle
    <3>2. d.id # c.by
      BY <2>2, <2>5 DEF RegistryInv, HandlesInv
    <3> QED
      BY <2>3, <2>4, <3>1, <3>2
  <2> QED
    BY <1>3, <2>3, <2>4, <2>5
<1>4. CASE c.op = "setToken"
  <2>1. setPushToStartToken(c.token, c.by)
    BY <1>4 DEF Served
  <2>2. PICK w \in drains : w.id = c.by /\ w.slot = TokenSlot
    BY <1>4 DEF RegistryInv, CallsInv, Awaited, Waits
  <2>3. drains' = (drains \ {w}) \cup Resume(w)
    BY <2>1, <2>2, SetTokenBecomes DEF Becomes
  <2>4. \/ Resume(w) = {} /\ w.cancelled
        \/ \E e \in Drain : Resume(w) = {e} /\ e.slot = w.slot /\ e.cancelled = w.cancelled /\ e.earlier = w.earlier
    BY <2>2, ObserversAssumption, ResumeFacts DEF From
  <2>5. ASSUME NEW d \in drains, ~d.cancelled
        PROVE  \E e \in drains' : e.slot = d.slot /\ ~e.cancelled /\ (d.slot # TokenSlot => e = d)
    BY <2>2, <2>3, <2>4, <2>5
  <2>6. ASSUME NEW e \in drains', ~e.cancelled
        PROVE  \E d \in drains : ~d.cancelled /\ e.slot = d.slot /\ e.earlier = d.earlier
    BY <2>3, <2>4, <2>6
  <2> QED
    BY <1>4, <2>5, <2>6
<1> QED
  BY <1>1, <1>2, <1>3, <1>4 DEF Awaited

(* The call at k is taken; the others stay, in the order they were in.     *)
LEMMA OthersStay ==
  ASSUME NEW q \in Seq(Call), NEW k \in 1..Len(q)
  PROVE  /\ \A j \in 1..Len(RemoveAt(q, k)) : \E h \in 1..Len(q) : h # k /\ RemoveAt(q, k)[j] = q[h]
         /\ \A i \in 1..Len(q) : i # k =>
              \E m \in 1..Len(RemoveAt(q, k)) :
                /\ RemoveAt(q, k)[m] = q[i]
                /\ \A j \in 1..Len(RemoveAt(q, k)) : j > m =>
                     \E h \in 1..Len(q) : h > i /\ RemoveAt(q, k)[j] = q[h]
<1> DEFINE n == Len(q)
           p == RemoveAt(q, k)
           Old(j) == IF j < k THEN j ELSE j + 1
           New(i) == IF i < k THEN i ELSE i - 1
<1>1. n \in Nat /\ k \in 1..n /\ Len(p) = n - 1 /\ \A j \in 1..(n - 1) : p[j] = q[Old(j)]
  BY RemoveAtFacts
<1>2. \A j \in 1..(n - 1) : Old(j) \in 1..n /\ Old(j) # k
  BY <1>1
<1>3. \A i \in 1..n : i # k =>
        New(i) \in 1..(n - 1) /\ Old(New(i)) = i /\ \A j \in 1..(n - 1) : j > New(i) => Old(j) > i
  <2>1. ASSUME NEW i \in 1..n, i < k
        PROVE  /\ New(i) \in 1..(n - 1) /\ Old(New(i)) = i
               /\ \A j \in 1..(n - 1) : j > New(i) => Old(j) > i
    <3>1. New(i) = i /\ Old(i) = i
      BY <2>1
    <3>2. \A j \in 1..(n - 1) : Old(j) >= j
      BY <1>1
    <3> HIDE DEF New, Old
    <3> QED
      BY <1>1, <1>2, <2>1, <3>1, <3>2
  <2>2. ASSUME NEW i \in 1..n, i > k
        PROVE  /\ New(i) \in 1..(n - 1) /\ Old(New(i)) = i
               /\ \A j \in 1..(n - 1) : j > New(i) => Old(j) > i
    <3>1. New(i) = i - 1 /\ i - 1 \in 1..(n - 1) /\ Old(i - 1) = i
      BY <1>1, <2>2
    <3>2. \A j \in 1..(n - 1) : j > i - 1 => Old(j) = j + 1
      BY <1>1, <2>2
    <3> HIDE DEF New, Old
    <3> QED
      BY <1>1, <1>2, <2>2, <3>1, <3>2
  <2>3. \A i \in 1..n : i # k => i < k \/ i > k
    BY <1>1
  <2> QED
    BY <2>1, <2>2, <2>3
<1> HIDE DEF n, p, Old, New
<1>4. ASSUME NEW i \in 1..n, i # k
      PROVE  \E m \in 1..(n - 1) :
               /\ p[m] = q[i]
               /\ \A j \in 1..(n - 1) : j > m => \E h \in 1..n : h > i /\ p[j] = q[h]
  <2>1. New(i) \in 1..(n - 1) /\ p[New(i)] = q[i]
    BY <1>1, <1>3, <1>4
  <2>2. \A j \in 1..(n - 1) : j > New(i) => Old(j) \in 1..n /\ Old(j) > i /\ p[j] = q[Old(j)]
    BY <1>1, <1>2, <1>3, <1>4
  <2> QED
    BY <2>1, <2>2
<1>5. \A j \in 1..(n - 1) : \E h \in 1..n : h # k /\ p[j] = q[h]
  BY <1>1, <1>2
<1> QED
  BY <1>1, <1>4, <1>5 DEF n, p

(* A call taken out of turn loses nothing unless it overtakes.             *)
LEMMA ServeFollow ==
  ASSUME RegistryInv, FollowInv, Serve PROVE FollowInv'
<1> DEFINE n == Len(calls)
<1>0. PICK k \in 1..n : /\ calls' = RemoveAt(calls, k) /\ Served(calls[k])
                        /\ overtaken' = (overtaken \/ Overtakes(k))
  BY DEF Serve, Served
<1> DEFINE c == calls[k]
<1>1. /\ k \in 1..n /\ Served(c)
      /\ UNCHANGED <<observing, life, expected>>
  BY <1>0 DEF Serve, systemVars
<1>2. c \in Call /\ calls \in Seq(Call) /\ n \in Nat
  BY <1>1 DEF RegistryInv, TypeOK
<1> DEFINE q == RemoveAt(calls, k)
<1>moved. /\ \A j \in 1..Len(calls') : \E h \in 1..n : h # k /\ calls'[j] = calls[h]
          /\ \A i \in 1..n : i # k =>
               \E m \in 1..Len(calls') :
                 /\ calls'[m] = calls[i]
                 /\ \A j \in 1..Len(calls') : j > m => \E h \in 1..n : h > i /\ calls'[j] = calls[h]
  <2>1. /\ \A j \in 1..Len(q) : \E h \in 1..n : h # k /\ q[j] = calls[h]
        /\ \A i \in 1..n : i # k =>
             \E m \in 1..Len(q) :
               /\ q[m] = calls[i]
               /\ \A j \in 1..Len(q) : j > m => \E h \in 1..n : h > i /\ q[j] = calls[h]
    BY <1>1, <1>2, OthersStay, Zenon
  <2>2. calls' = q
    BY <1>0
  <2> HIDE DEF q
  <2> QED
    BY <2>1, <2>2
<1>3. \A j \in 1..Len(calls') : \E h \in 1..n : h # k /\ calls'[j] = calls[h]
  BY <1>moved
<1>4. \A i \in 1..n : i # k =>
        \E m \in 1..Len(calls') :
          /\ calls'[m] = calls[i]
          /\ \A j \in 1..Len(calls') : j > m => \E h \in 1..n : h > i /\ calls'[j] = calls[h]
  BY <1>moved
<1> HIDE DEF q
<1>5. \A i \in 1..n : i < k \/ i = k \/ i > k
  BY <1>1, <1>2
<1>6. c.op \in {"begin", "clear", "setToken"} => k \in Awaited \cup {i \in 1..n : calls[i].op = "begin"}
  BY <1>1 DEF Awaited
<1>7. c.op = "begin" => c.slot \in Slots /\ c = Begin(c.slot)
  BY <1>2, CallFacts
<1>8. c.op = "clear" => c.slot \in Activities /\ life[c.slot] = "over"
  BY <1>1, <1>2, CallFacts DEF RegistryInv, CallsInv
<1>9. /\ c.op = "clearObservers" <=> c = ClearObservers
      /\ c.op \in {"begin", "clearObservers", "clear", "setToken"}
  BY <1>2, CallFacts
<1>10. /\ TokenSlot \notin Activities /\ UpdatesSlot \notin Activities /\ TokenSlot # UpdatesSlot
       /\ \A s, t : Begin(s) = Begin(t) => s = t
       /\ ClearObservers.op = "clearObservers" /\ \A s : Begin(s).op = "begin"
  BY ObserversAssumption DEF Begin, ClearObservers
<1>11. ASSUME c.op \in {"begin", "clear", "setToken"}
       PROVE  /\ \A d \in drains : (~d.cancelled /\ ~(c.op \in {"begin", "clear"} /\ c.slot = d.slot))
                   => \E e \in drains' : e.slot = d.slot /\ ~e.cancelled /\ (d.slot # TokenSlot => e = d)
              /\ \A e \in drains' : ~e.cancelled
                   => \/ \E d \in drains : ~d.cancelled /\ e.slot = d.slot /\ e.earlier = d.earlier
                      \/ c.op = "begin" /\ e.slot = c.slot /\ ~e.earlier
              /\ c.op = "begin" => \E e \in drains' : e.slot = c.slot /\ ~e.cancelled
  <2>1. k \in Awaited \cup {i \in 1..Len(calls) : calls[i].op = "begin"}
    BY <1>6, <1>11
  <2> QED
    BY <1>1, <2>1, ServeKeeps
<1>12. /\ ~overtaken' => ~overtaken
       /\ ~overtaken' /\ observing /\ c.op = "begin" => \A j \in 1..n : j < k => calls[j] # ClearObservers
       /\ ~overtaken' /\ ~observing /\ c.op = "clearObservers" => \A j \in 1..n : j < k => calls[j] \notin ClassBegins
  <2>1. ~overtaken' => ~overtaken /\ ~Overtakes(k)
    BY <1>0
  <2>2. \A j \in 1..n : j < k => j \in 1..(k - 1)
    BY <1>1, <1>2
  <2> QED
    BY <1>10, <2>1, <2>2 DEF Overtakes, ClassBegins
<1> HIDE DEF n, c
<1>13. ASSUME observing, ~overtaken', NEW s, s \in Activities => life[s] # "over", WillDrain(s)
       PROVE  WillDrain(s)'
  <2>1. ASSUME \E e \in drains' : e.slot = s /\ ~e.cancelled, \A i \in 1..n : calls[i] # ClearObservers
        PROVE  WillDrain(s)'
    <3>1. ASSUME NEW j \in 1..Len(calls') PROVE calls'[j] # ClearObservers
      <4>1. PICK i \in 1..n : calls'[j] = calls[i]
        BY <1>3
      <4> QED
        BY <2>1, <4>1
    <3> QED
      BY <2>1, <3>1 DEF WillDrain, Live, ClearsAfter
  <2>2. CASE c = Begin(s) /\ ~ClearsAfter(k)
    <3>1. c.op = "begin" /\ c.slot = s
      BY <2>2 DEF Begin
    <3>2. c # ClearObservers
      BY <1>10, <3>1
    <3>3. \A i \in 1..n : calls[i] # ClearObservers
      BY <1>5, <1>12, <1>13, <2>2, <3>1, <3>2 DEF ClearsAfter, c, n
    <3> QED
      BY <1>11, <2>1, <3>1, <3>3
  <2>3. CASE Live(s) /\ ~ClearsAfter(0)
    <3>1. \A i \in 1..n : calls[i] # ClearObservers
      BY <1>2, <2>3 DEF ClearsAfter, n
    <3>2. c # ClearObservers /\ ~ClearsAfter(k)
      BY <1>1, <3>1 DEF ClearsAfter, c, n
    <3>3. CASE c = Begin(s)
      BY <2>2, <3>2, <3>3
    <3>4. CASE c # Begin(s)
      <4>1. c.op \in {"begin", "clear", "setToken"} /\ ~(c.op \in {"begin", "clear"} /\ c.slot = s)
        BY <1>7, <1>8, <1>9, <1>13, <3>2, <3>4
      <4> QED
        BY <1>11, <2>1, <2>3, <3>1, <4>1 DEF Live
    <3> QED
      BY <3>3, <3>4
  <2>4. ASSUME NEW i \in 1..n, i # k, calls[i] = Begin(s), ~ClearsAfter(i) PROVE WillDrain(s)'
    <3>1. PICK m \in 1..Len(calls') :
            /\ calls'[m] = Begin(s)
            /\ \A j \in 1..Len(calls') : j > m => \E h \in 1..n : h > i /\ calls'[j] = calls[h]
      BY <1>4, <2>4
    <3>2. ~ClearsAfter(m)'
      BY <2>4, <3>1 DEF ClearsAfter, n
    <3> QED
      BY <3>1, <3>2 DEF WillDrain
  <2>5. ASSUME NEW i \in 1..n, calls[i] = Begin(s), ~ClearsAfter(i) PROVE WillDrain(s)'
    BY <2>2, <2>4, <2>5 DEF c
  <2> QED
    BY <1>13, <2>3, <2>5 DEF WillDrain, n
<1>14. ASSUME NEW a, WillObserve(a) PROVE WillObserve(a)'
  <2>1. c # ClearObservers /\ c # Begin(UpdatesSlot)
    BY <1>1, <1>14 DEF WillObserve, c, n
  <2>2. PICK d \in drains : HasTaken(d, a)
    BY <1>14 DEF WillObserve
  <2>3. c.op \in {"begin", "clear", "setToken"} /\ ~(c.op \in {"begin", "clear"} /\ c.slot = UpdatesSlot)
    BY <1>7, <1>8, <1>9, <1>10, <2>1
  <2>4. d \in drains'
    <3>1. d.slot = UpdatesSlot /\ ~d.cancelled
      BY <2>2 DEF HasTaken
    <3> QED
      BY <1>10, <1>11, <2>3, <3>1
  <2>5. \A i \in 1..Len(calls') : calls'[i] \notin {ClearObservers, Begin(UpdatesSlot)}
    BY <1>3, <1>14 DEF WillObserve, n
  <2> QED
    BY <2>2, <2>4, <2>5 DEF WillObserve, HasTaken
<1>15. ASSUME ~observing, ~overtaken', WillStop PROVE WillStop'
  <2>1. ASSUME NEW i \in 1..n, i # k, calls[i] = ClearObservers, \A j \in 1..n : j > i => calls[j] \notin ClassBegins
        PROVE  WillStop'
    <3>1. PICK m \in 1..Len(calls') :
            /\ calls'[m] = ClearObservers
            /\ \A j \in 1..Len(calls') : j > m => \E h \in 1..n : h > i /\ calls'[j] = calls[h]
      BY <1>4, <2>1
    <3>2. \A j \in 1..Len(calls') : j > m => calls'[j] \notin ClassBegins
      BY <2>1, <3>1
    <3> QED
      BY <3>1, <3>2 DEF WillStop, ClassBegins
  <2>2. CASE c = ClearObservers /\ \A j \in 1..n : j > k => calls[j] \notin ClassBegins
    <3>1. \A d \in drains' : d.cancelled
      BY <1>1, <1>9, <2>2, ClearObserversRegistry DEF Served
    <3>2. \A h \in 1..n : h # k => calls[h] \notin ClassBegins
      BY <1>5, <1>9, <1>12, <1>15, <2>2
    <3>3. \A j \in 1..Len(calls') : calls'[j] \notin ClassBegins
      BY <1>3, <3>2
    <3> QED
      BY <3>1, <3>3 DEF WillStop, ClassBegins
  <2>3. CASE /\ c # ClearObservers
             /\ \A d \in drains : ~d.cancelled => d.slot \in Activities /\ ~d.earlier
             /\ \A j \in 1..n : calls[j] \notin ClassBegins
    <3>1. c \notin ClassBegins
      BY <1>1, <2>3 DEF c
    <3>2. c.op = "begin" => c.slot \in Activities
      BY <1>7, <3>1 DEF ClassBegins, Slots
    <3>3. ASSUME NEW d \in drains', ~d.cancelled PROVE d.slot \in Activities /\ ~d.earlier
      BY <1>9, <1>11, <2>3, <3>2, <3>3
    <3>4. \A j \in 1..Len(calls') : calls'[j] \notin ClassBegins
      BY <1>3, <2>3
    <3> QED
      BY <3>3, <3>4 DEF WillStop, ClassBegins
  <2>4. ASSUME NEW i \in 1..n, calls[i] = ClearObservers, \A j \in 1..n : j > i => calls[j] \notin ClassBegins
        PROVE  WillStop'
    <3>1. CASE i = k
      BY <2>2, <2>4, <3>1 DEF c
    <3>2. CASE i # k
      BY <2>1, <2>4, <3>2
    <3> QED
      BY <3>1, <3>2
  <2>5. CASE /\ \A d \in drains : ~d.cancelled => d.slot \in Activities /\ ~d.earlier
             /\ \A j \in 1..n : calls[j] \notin ClassBegins
    <3>1. CASE c = ClearObservers
      BY <2>2, <2>5, <3>1
    <3>2. CASE c # ClearObservers
      BY <2>3, <2>5, <3>2
    <3> QED
      BY <3>1, <3>2
  <2> QED
    BY <1>15, <2>4, <2>5 DEF WillStop, n
<1>16. ASSUME observing', ~overtaken' PROVE WillDrain(TokenSlot)' /\ WillDrain(UpdatesSlot)'
  BY <1>1, <1>10, <1>12, <1>13, <1>16 DEF FollowInv
<1>17. ASSUME observing', ~overtaken', NEW a \in expected', life'[a] = "running"
       PROVE  WillDrain(a)' \/ WillObserve(a)'
  <2>1. life[a] # "over" /\ (WillDrain(a) \/ WillObserve(a))
    BY <1>1, <1>12, <1>17 DEF FollowInv
  <2> QED
    BY <1>1, <1>13, <1>14, <1>17, <2>1
<1>18. /\ ~observing' => expected' = {}
       /\ ~observing' /\ ~overtaken' => WillStop'
       /\ \A a \in expected' : life'[a] # "none"
  BY <1>1, <1>12, <1>15 DEF FollowInv
<1> QED
  BY <1>16, <1>17, <1>18 DEF FollowInv

LEMMA FollowNext ==
  ASSUME RegistryInv, FollowInv, [Next]_vars PROVE FollowInv'
<1>1. CASE OnStartObserving
  BY <1>1, OnStartFollow
<1>2. CASE OnStopObserving
  BY <1>2, OnStopFollow
<1>3. CASE Issue
  BY <1>3, IssueFollow
<1>4. ASSUME NEW a \in Activities, start(a) \/ Delivered(a) \/ Over(a) PROVE FollowInv'
  BY <1>4, SystemFollow
<1>5. CASE Serve
  BY <1>5, ServeFollow
<1>6. CASE DrainStep
  BY <1>6, DrainStepFollow DEF DrainStep
<1>7. CASE UNCHANGED vars
  <2>1. UNCHANGED <<observing, overtaken, life, calls, drains, expected>>
    BY <1>7 DEF vars, appVars, systemVars, registryVars
  <2> QED
    BY <2>1
    DEF FollowInv, WillDrain, WillObserve, WillStop, Live, HasTaken, ClearsAfter
<1> QED
  BY <1>1, <1>2, <1>3, <1>4, <1>5, <1>6, <1>7 DEF Next

(* In whichever order the actor takes its calls: the module that has       *)
(* caught up drains the class-level streams and every running activity of  *)
(* an observation that goes on, and nothing of one that has stopped,       *)
(* however long the queue of calls was and however often JavaScript        *)
(* started and stopped, unless a begin and a clearObservers crossed since  *)
(* the last start or stop (OnStartObserving, OnStopObserving).             *)
THEOREM DrainsFollow == Spec => []DrainsFollowListeners
<1>1. (RegistryInv /\ FollowInv) /\ [Next]_vars => (RegistryInv /\ FollowInv)'
  BY RegistryNext, FollowNext
<1>2. Init => RegistryInv /\ FollowInv
  BY RegistryInit, FollowInit
<1>3. RegistryInv /\ FollowInv => DrainsFollowListeners
  <2> SUFFICES ASSUME RegistryInv, FollowInv, Quiet, ~overtaken PROVE
      IF observing
      THEN Live(TokenSlot) /\ Live(UpdatesSlot) /\ \A a \in expected : life[a] = "running" => Live(a)
      ELSE \A d \in drains : ~d.cancelled => d.slot \in Activities /\ ~d.earlier
    BY DEF DrainsFollowListeners
  <2>1. 1..Len(calls) = {}
    BY DEF Quiet
  <2>2. \A s : WillDrain(s) => Live(s)
    BY <2>1 DEF WillDrain
  <2>3. \A a : ~WillObserve(a)
    BY DEF WillObserve, HasTaken, Quiet
  <2>4. WillStop => \A d \in drains : ~d.cancelled => d.slot \in Activities /\ ~d.earlier
    BY <2>1 DEF WillStop
  <2> QED
    BY <2>2, <2>3, <2>4 DEF FollowInv, RegistryInv, TypeOK
<1> QED
  BY <1>1, <1>2, <1>3, PTL DEF Spec

=============================================================================
