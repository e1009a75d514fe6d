------------------------ MODULE QueueRegistryProofs ------------------------
(***************************************************************************)
(* Proofs about three parts of a leader that have no state in common.      *)
(*                                                                         *)
(* ReadyQueue: the heap keeps its order and its indexes, and so implements *)
(* ReadyOrder, for any jobs and any priorities.                            *)
(*                                                                         *)
(* Backoff: the delay of every retry is the documented one, for any        *)
(* policies.                                                               *)
(*                                                                         *)
(* Registry: types, VerdictIsEarned and DeadLeavesNoLease, for any number  *)
(* of workers, handlers and tasks, any timeouts and any faults.  Bucket    *)
(* and cache are written with records that handlers and the reaper copied  *)
(* earlier, so the invariant speaks of the copies too.  SweepInv says      *)
(* where the sweep still meets a lease of a worker it declared dead.       *)
(***************************************************************************)
EXTENDS ReadyQueue, Backoff, Registry, WellFoundedInduction, TLAPS

-----------------------------------------------------------------------------
(* Loops.                                                                  *)

\* A set of numbers that is not empty has a least member.
LEMMA LeastNat ==
    ASSUME NEW S \in SUBSET Nat, S # {}
    PROVE  \E m \in S : \A l \in S : m <= l
<1>1. PICK m \in S : \A l \in S : <<l, m>> \notin OpToRel(<, Nat)
  BY NatLessThanWellFounded, WFMin, Zenon
<1>2. \A l \in S : ~(l < m)
  BY <1>1, Zenon DEF OpToRel
<1> QED
  BY <1>2

\* What holds at first, and after a round if before it, holds after every round.
LEMMA EveryRound ==
    ASSUME NEW n \in Nat, NEW S, 0 \in S, \A k \in 0 .. n - 1 : k \in S => k + 1 \in S
    PROVE  \A k \in 0 .. n : k \in S
<1> SUFFICES ASSUME NEW b \in 0 .. n, b \notin S PROVE FALSE
  OBVIOUS
<1> DEFINE B == {k \in 0 .. n : k \notin S}
<1>1. PICK m \in B : \A l \in B : m <= l
  <2>1. B \in SUBSET Nat /\ B # {}
    OBVIOUS
  <2> HIDE DEF B
  <2> QED
    BY <2>1, LeastNat, Zenon
<1>2. m \in 0 .. n /\ m \notin S /\ m # 0
  OBVIOUS
<1>3. m - 1 \in 0 .. n - 1 /\ m - 1 \in 0 .. n /\ (m - 1) + 1 = m /\ ~(m <= m - 1)
  BY <1>2
<1>4. m - 1 \in S
  BY <1>1, <1>3
<1> QED
  BY <1>2, <1>3, <1>4

\* A loop in T with n rounds is at f[k] after k rounds.
Iteration(T, step, s, n, f) ==
    /\ f \in [0 .. n -> T] /\ f[0] = s
    /\ \A k \in 1 .. n : f[k] = step[f[k - 1]]

\* A loop has a state after every number of rounds.
LEMMA Iterates ==
    ASSUME NEW T, NEW step \in [T -> T], NEW s \in T, NEW n \in Nat
    PROVE  \E f : Iteration(T, step, s, n, f)
<1> DEFINE Runs(m, f) == /\ f \in [0 .. m -> T] /\ f[0] = s
                         /\ \A k \in 1 .. m : f[k] = step[f[k - 1]]
           S == {m \in 0 .. n : \E f : Runs(m, f)}
<1>1. 0 \in S
  <2>1. Runs(0, [k \in 0 .. 0 |-> s]) /\ 0 \in 0 .. n
    OBVIOUS
  <2> HIDE DEF Runs
  <2> QED
    BY <2>1
<1>2. ASSUME NEW m \in 0 .. n - 1, m \in S PROVE m + 1 \in S
  <2>1. PICK f : Runs(m, f)
    BY <1>2
  <2> DEFINE g == [k \in 0 .. m + 1 |-> IF k = m + 1 THEN step[f[m]] ELSE f[k]]
  <2>2. f[m] \in T /\ step[f[m]] \in T
    BY <2>1
  <2>3. g \in [0 .. m + 1 -> T] /\ g[0] = s
    BY <2>1, <2>2
  <2>4. ASSUME NEW k \in 1 .. m + 1 PROVE g[k] = step[g[k - 1]]
    <3>1. CASE k = m + 1
      BY <3>1
    <3>2. CASE k # m + 1
      <4>1. k \in 1 .. m /\ k \in 0 .. m + 1 /\ k - 1 \in 0 .. m + 1 /\ k - 1 # m + 1
        BY <3>2
      <4> QED
        BY <2>1, <3>2, <4>1, Zenon
    <3> QED
      BY <3>1, <3>2
  <2>5. Runs(m + 1, g)
    <3> HIDE DEF g
    <3> QED
      BY <2>3, <2>4, Zenon
  <2>6. m + 1 \in 0 .. n
    OBVIOUS
  <2> QED
    BY <2>5, <2>6, Zenon
<1>3. n \in S
  <2> HIDE DEF S
  <2> QED
    BY <1>1, <1>2, EveryRound
<1> QED
  BY <1>3 DEF Iteration

-----------------------------------------------------------------------------
(* The order.                                                              *)

\* What is compared are numbers.
LEMMA ItemFields ==
    ASSUME NEW a \in item
    PROVE  a.priority \in Int /\ a.createdAt \in Int /\ a.jobID \in Int /\ a.jobID \in Job
<1>1. a.jobID \in Job /\ a.priority \in Priority /\ a.createdAt \in Created
  BY DEF item
<1>2. a.jobID \in Nat \ {0} /\ a.priority \in Int /\ a.createdAt \in Int
  BY <1>1, QueueAssumption, Zenon
<1> QED
  BY <1>1, <1>2

\* innerHeap.Less is the order of ReadyOrder,
LEMMA LessIsBefore ==
    ASSUME NEW a \in item, NEW b \in item
    PROVE  Less(a, b) <=> Order!Before(a, b)
BY ItemFields DEF Less, Order!Before

\* which is strict,
LEMMA LessIsStrict ==
    ASSUME NEW a \in item, NEW b \in item, Less(a, b)
    PROVE  ~Less(b, a) /\ a # b
BY ItemFields DEF Less

\* transitive,
LEMMA LessIsTransitive ==
    ASSUME NEW a \in item, NEW b \in item, NEW c \in item, Less(a, b), Less(b, c)
    PROVE  Less(a, c)
BY ItemFields DEF Less

\* and total on items of different jobs;
LEMMA LessIsTotal ==
    ASSUME NEW a \in item, NEW b \in item, a.jobID # b.jobID, ~Less(a, b)
    PROVE  Less(b, a)
BY ItemFields DEF Less

\* and so is what it leaves.
LEMMA NotLessIsTransitive ==
    ASSUME NEW a \in item, NEW b \in item, NEW c \in item, ~Less(a, b), ~Less(b, c)
    PROVE  ~Less(a, c)
BY ItemFields DEF Less

-----------------------------------------------------------------------------
(* The items know their places.                                            *)

\* Heaps with the places of their items.
Queue == [h : Seq(item), index : [Job -> Nat]]

\* Every item is where its index says, and the others have no place.
Good(q) ==
    /\ q \in Queue
    /\ \A i \in 1 .. Len(q.h) : q.index[q.h[i].jobID] = i
    /\ \A j \in Job : q.index[j] # 0 =>
           q.index[j] \in 1 .. Len(q.h) /\ q.h[q.index[j]].jobID = j

\* A good heap is a function of its places, and its items have different ids.
LEMMA GoodShape ==
    ASSUME NEW q, Good(q)
    PROVE  /\ Len(q.h) \in Nat /\ q.h \in [1 .. Len(q.h) -> item] /\ q.h \in Seq(item)
           /\ q.index \in [Job -> Nat] /\ DOMAIN q.h = 1 .. Len(q.h)
           /\ \A i \in 1 .. Len(q.h) : q.h[i] \in item /\ q.h[i].jobID \in Job
           /\ \A i, j \in 1 .. Len(q.h) : q.h[i].jobID = q.h[j].jobID => i = j
<1>1. q.h \in Seq(item) /\ q.index \in [Job -> Nat]
  BY DEF Good, Queue
<1>2. Len(q.h) \in Nat /\ q.h \in [1 .. Len(q.h) -> item] /\ DOMAIN q.h = 1 .. Len(q.h)
  BY <1>1
<1>3. \A i \in 1 .. Len(q.h) : q.h[i] \in item /\ q.h[i].jobID \in Job
  BY <1>2 DEF item
<1>4. \A i, j \in 1 .. Len(q.h) : q.h[i].jobID = q.h[j].jobID => i = j
  BY Zenon DEF Good
<1> QED
  BY <1>1, <1>2, <1>3, <1>4

\* A function on places is a sequence.
LEMMA Places ==
    ASSUME NEW n \in Nat, NEW x \in [1 .. n -> item]
    PROVE  x \in Seq(item) /\ Len(x) = n
OBVIOUS

\* A sequence with one more item,
LEMMA OneMore ==
    ASSUME NEW s \in Seq(item), NEW x \in item, NEW n, n = Len(s), NEW z, z = Append(s, x)
    PROVE  /\ z \in Seq(item) /\ Len(z) = n + 1 /\ z[n + 1] = x /\ DOMAIN z = 1 .. n + 1
           /\ \A m \in 1 .. n : z[m] = s[m]
OBVIOUS

\* and with one less.
Shorter(s, n, z) ==
    /\ z \in Seq(item) /\ Len(z) = n - 1 /\ DOMAIN z = 1 .. n - 1
    /\ \A m \in 1 .. n - 1 : z[m] = s[m]

\* Taking the last item off leaves the others where they are.
LEMMA OneLess ==
    ASSUME NEW s \in Seq(item), NEW n, n = Len(s), n >= 1
    PROVE  Shorter(s, n, SubSeq(s, 1, n - 1))
BY DEF Shorter

\* Two items change places.
LEMMA SwapFacts ==
    ASSUME NEW q, Good(q), NEW i \in 1 .. Len(q.h), NEW j \in 1 .. Len(q.h),
           NEW r, r = Swap(q, i, j)
    PROVE  /\ Good(r) /\ Len(r.h) = Len(q.h) /\ Range(r.h) = Range(q.h)
           /\ r.h[i] = q.h[j] /\ r.h[j] = q.h[i]
           /\ \A m \in 1 .. Len(q.h) : m # i /\ m # j => r.h[m] = q.h[m]
<1> DEFINE n == Len(q.h)
           x == [q.h EXCEPT ![i] = q.h[j], ![j] = q.h[i]]
           a == q.h[i].jobID
           b == q.h[j].jobID
           y == [q.index EXCEPT ![a] = j, ![b] = i]
<1>0. r.h = x /\ r.index = y /\ r = [h |-> x, index |-> y]
  BY DEF Swap, Heap
<1>1. /\ n \in Nat /\ q.h \in [1 .. n -> item] /\ DOMAIN q.h = 1 .. n /\ q.index \in [Job -> Nat]
      /\ a \in Job /\ b \in Job /\ q.h[i] \in item /\ q.h[j] \in item
      /\ \A m \in 1 .. n : q.h[m] \in item /\ q.h[m].jobID \in Job
  BY GoodShape
<1>2. a = b => i = j
  BY GoodShape
<1>3. /\ x \in [1 .. n -> item] /\ x[i] = q.h[j] /\ x[j] = q.h[i]
      /\ \A m \in 1 .. n : m # i /\ m # j => x[m] = q.h[m]
  BY <1>1, Zenon
<1>4. x \in Seq(item) /\ Len(x) = n
  <2> HIDE DEF x, n
  <2> QED
    BY <1>1, <1>3, Places
<1>5. /\ y \in [Job -> Nat] /\ y[a] = j /\ y[b] = i
      /\ \A l \in Job : l # a /\ l # b => y[l] = q.index[l]
  <2>1. i \in Nat /\ j \in Nat
    BY <1>1
  <2>2. y \in [Job -> Nat] /\ y[b] = i /\ \A l \in Job : l # a /\ l # b => y[l] = q.index[l]
    BY <1>1, <2>1
  <2>3. a # b => y[a] = j
    BY <1>1
  <2> QED
    BY <1>2, <2>2, <2>3, Zenon
<1> HIDE DEF x, y
<1>6. \A m \in 1 .. n : y[x[m].jobID] = m
  <2> SUFFICES ASSUME NEW m \in 1 .. n PROVE y[x[m].jobID] = m
    OBVIOUS
  <2>1. CASE m = i \/ m = j
    BY <1>3, <1>5, <2>1
  <2>2. CASE m # i /\ m # j
    <3>1. q.h[m].jobID # a /\ q.h[m].jobID # b
      BY <2>2, GoodShape
    <3>2. q.index[q.h[m].jobID] = m
      BY Zenon DEF Good
    <3> QED
      BY <1>1, <1>3, <1>5, <2>2, <3>1, <3>2, Zenon
  <2> QED
    BY <2>1, <2>2
<1>7. \A l \in Job : y[l] # 0 => y[l] \in 1 .. n /\ x[y[l]].jobID = l
  <2> SUFFICES ASSUME NEW l \in Job, y[l] # 0 PROVE y[l] \in 1 .. n /\ x[y[l]].jobID = l
    OBVIOUS
  <2>1. CASE l = a \/ l = b
    BY <1>3, <1>5, <2>1
  <2>2. CASE l # a /\ l # b
    <3>1. y[l] = q.index[l] /\ y[l] \in 1 .. n /\ q.h[y[l]].jobID = l
      BY <1>5, <2>2 DEF Good
    <3>2. y[l] # i /\ y[l] # j
      BY <2>2, <3>1
    <3> QED
      BY <1>3, <3>1, <3>2
  <2> QED
    BY <2>1, <2>2
<1>8. Good(r)
  BY <1>0, <1>4, <1>5, <1>6, <1>7 DEF Good, Queue
<1>9. Range(x) = Range(q.h)
  <2>1. DOMAIN x = 1 .. n
    BY <1>3
  <2>2. \A m \in 1 .. n : \E l \in 1 .. n : x[m] = q.h[l]
    BY <1>3
  <2>3. \A m \in 1 .. n : \E l \in 1 .. n : q.h[m] = x[l]
    BY <1>3
  <2> QED
    <3>1. ASSUME NEW v \in Range(x) PROVE v \in Range(q.h)
      BY <1>1, <2>1, <2>2, <3>1, Zenon DEF Range
    <3>2. ASSUME NEW v \in Range(q.h) PROVE v \in Range(x)
      BY <1>1, <2>1, <2>3, <3>2, ZenonT(30) DEF Range
    <3> QED
      BY <3>1, <3>2, Zenon
<1> QED
  BY <1>0, <1>3, <1>4, <1>8, <1>9

-----------------------------------------------------------------------------
(* The loops of container/heap.                                            *)

\* The states of a loop over a heap with n items.
States(n) == {s \in [heap : Queue, at : 1 .. n] : Good(s.heap) /\ Len(s.heap.h) = n}

\* The first n items are in the order of a heap.
Ordered(x, n) == \A m \in 2 .. n : ~Less(x[m], x[m \div 2])

\* They are but for the item at j, which may have to rise.
Rising(x, j, n) ==
    /\ \A m \in 2 .. n : m # j => ~Less(x[m], x[m \div 2])
    /\ j > 1 => \A m \in 2 .. n : m \div 2 = j => ~Less(x[m], x[j \div 2])

\* They are but for the item at i, which may have to sink,
Sinking(x, i, n) ==
    /\ \A m \in 2 .. n : m \div 2 # i => ~Less(x[m], x[m \div 2])
    /\ i > 1 => \A m \in 2 .. n : m \div 2 = i => ~Less(x[m], x[i \div 2])

\* or to rise or to sink.
Gap(x, i, n) ==
    /\ \A m \in 2 .. n : m \div 2 # i /\ m # i => ~Less(x[m], x[m \div 2])
    /\ i > 1 => \A m \in 2 .. n : m \div 2 = i => ~Less(x[m], x[i \div 2])

\* The children of a place, and its parent.
LEMMA Half ==
    ASSUME NEW m \in Nat
    PROVE  /\ m \div 2 \in Nat /\ 2 * (m \div 2) <= m /\ m <= 2 * (m \div 2) + 1
           /\ m > 1 => m \div 2 >= 1 /\ m \div 2 < m
OBVIOUS

\* What a state of a loop is made of.
LEMMA StateFacts ==
    ASSUME NEW n \in Nat, NEW s \in States(n)
    PROVE  /\ Good(s.heap) /\ Len(s.heap.h) = n /\ s.at \in 1 .. n
           /\ \A m \in 1 .. n : s.heap.h[m] \in item
<1>1. Good(s.heap) /\ Len(s.heap.h) = n /\ s.at \in 1 .. n
  BY DEF States
<1> QED
  BY <1>1, GoodShape

\* A loop over a good heap is in a state.
LEMMA LoopFacts ==
    ASSUME NEW n \in Nat, NEW q, Good(q), Len(q.h) = n, NEW i \in 1 .. n
    PROVE  Loop(q, i) \in States(n) /\ Loop(q, i).heap = q /\ Loop(q, i).at = i
BY DEF Loop, States, Good

\* Two items have changed places, and the loop goes on at k.
Exchanged(n, s, i, j, k, t) ==
    /\ t \in States(n) /\ t.at = k /\ Range(t.heap.h) = Range(s.heap.h)
    /\ t.heap.h[i] = s.heap.h[j] /\ t.heap.h[j] = s.heap.h[i]
    /\ \A m \in 1 .. n : m # i /\ m # j => t.heap.h[m] = s.heap.h[m]

\* Swapping in a loop does that.
LEMMA Exchange ==
    ASSUME NEW n \in Nat, NEW s \in States(n), NEW i \in 1 .. n, NEW j \in 1 .. n, NEW k \in 1 .. n
    PROVE  Exchanged(n, s, i, j, k, Loop(Swap(s.heap, i, j), k))
<1>1. Good(s.heap) /\ Len(s.heap.h) = n
  BY StateFacts
<1>2. PICK r : r = Swap(s.heap, i, j)
  OBVIOUS
<1>3. /\ Good(r) /\ Len(r.h) = n /\ Range(r.h) = Range(s.heap.h)
      /\ r.h[i] = s.heap.h[j] /\ r.h[j] = s.heap.h[i]
      /\ \A m \in 1 .. n : m # i /\ m # j => r.h[m] = s.heap.h[m]
  BY <1>1, <1>2, SwapFacts
<1>4. Loop(r, k) \in States(n) /\ Loop(r, k).heap = r /\ Loop(r, k).at = k
  BY <1>3, LoopFacts
<1> QED
  BY <1>2, <1>3, <1>4 DEF Exchanged

\* A round of up stops, or the item changes places with its parent.
LEMMA UpRoundCases ==
    ASSUME NEW n \in Nat, NEW s \in States(n), NEW i, i = s.at \div 2
    PROVE  \/ UpRound(s) = s /\ (s.at = 1 \/ ~Less(s.heap.h[s.at], s.heap.h[i]))
           \/ /\ UpRound(s) = Loop(Swap(s.heap, i, s.at), i)
              /\ s.at # 1 /\ Less(s.heap.h[s.at], s.heap.h[i]) /\ i \in 1 .. n /\ i < s.at
<1>1. s.at \in 1 .. n
  BY StateFacts
<1>2. s.at # 1 => i \in 1 .. n /\ i < s.at
  BY <1>1, Half
<1>3. CASE s.at = 1 \/ ~Less(s.heap.h[s.at], s.heap.h[i])
  BY <1>3 DEF UpRound
<1>4. CASE ~(s.at = 1 \/ ~Less(s.heap.h[s.at], s.heap.h[i]))
  BY <1>2, <1>4 DEF UpRound
<1> QED
  BY <1>3, <1>4

\* A round of up keeps the items.
LEMMA UpRoundKeeps ==
    ASSUME NEW n \in Nat, NEW s \in States(n)
    PROVE  UpRound(s) \in States(n) /\ Range(UpRound(s).heap.h) = Range(s.heap.h)
<1>1. PICK i : i = s.at \div 2
  OBVIOUS
<1>2. CASE UpRound(s) = s
  BY <1>2
<1>3. CASE UpRound(s) = Loop(Swap(s.heap, i, s.at), i) /\ i \in 1 .. n
  <2>1. s.at \in 1 .. n
    BY StateFacts
  <2>2. Exchanged(n, s, i, s.at, i, UpRound(s))
    BY <1>3, <2>1, Exchange
  <2> QED
    BY <2>2 DEF Exchanged
<1> QED
  BY <1>1, <1>2, <1>3, UpRoundCases

\* A round of up keeps the rest in order, and what is behind it.
LEMMA UpRoundRises ==
    ASSUME NEW l \in Nat, NEW n \in 1 .. l, NEW s \in States(l), s.at \in 1 .. n,
           Rising(s.heap.h, s.at, n), NEW t, t = UpRound(s)
    PROVE  /\ t.at \in 1 .. n /\ Rising(t.heap.h, t.at, n)
           /\ \A m \in n + 1 .. l : t.heap.h[m] = s.heap.h[m]
<1> DEFINE x == s.heap.h
           y == t.heap.h
           j == s.at
<1>1. PICK i : i = s.at \div 2
  OBVIOUS
<1>2. CASE t = s
  BY <1>2
<1>3. CASE t = Loop(Swap(s.heap, i, j), i) /\ j # 1 /\ Less(x[j], x[i]) /\ i \in 1 .. l /\ i < j
  <2>0. i \in 1 .. n /\ j \in 2 .. n /\ j \in 1 .. l /\ n \in Nat /\ l \in Nat
    BY <1>3
  <2>1. /\ t.at = i /\ y[i] = x[j] /\ y[j] = x[i]
        /\ \A m \in 1 .. l : m # i /\ m # j => y[m] = x[m]
    <3>1. Exchanged(l, s, i, j, i, t)
      BY <1>3, <2>0, Exchange
    <3> QED
      BY <3>1 DEF Exchanged
  <2>2. \A m \in 1 .. l : x[m] \in item
    BY StateFacts
  <2>3. /\ \A m \in 2 .. n : m # j => ~Less(x[m], x[m \div 2])
        /\ \A m \in 2 .. n : m \div 2 = j => ~Less(x[m], x[i])
    BY <1>1, <2>0 DEF Rising
  <2>h. \A m \in 2 .. n : m \in 1 .. l /\ m \div 2 \in 1 .. l /\ m \div 2 < m
    BY <2>0, Half
  <2> HIDE DEF x, y, j
  <2>4. ASSUME NEW m \in 2 .. n, m # i PROVE ~Less(y[m], y[m \div 2])
    <3>1. CASE m = j
      BY <1>1, <1>3, <2>0, <2>1, <2>2, <2>h, <3>1, LessIsStrict DEF j
    <3>2. CASE m # j /\ m \div 2 = j
      BY <2>1, <2>3, <2>4, <2>h, <3>2
    <3>3. CASE m # j /\ m \div 2 = i
      <4>1. ~Less(x[m], x[i])
        BY <2>3, <3>3
      <4>2. ~Less(x[m], x[j])
        BY <1>3, <2>0, <2>2, <2>h, <4>1, LessIsTransitive
      <4> QED
        BY <2>1, <2>4, <2>h, <3>3, <4>2
    <3>4. CASE m # j /\ m \div 2 # j /\ m \div 2 # i
      BY <2>1, <2>3, <2>4, <2>h, <3>4
    <3> QED
      BY <3>1, <3>2, <3>3, <3>4
  <2>5. ASSUME i > 1, NEW m \in 2 .. n, m \div 2 = i PROVE ~Less(y[m], y[i \div 2])
    <3>0. i \in 2 .. n /\ i # j /\ i \div 2 \in 1 .. l /\ i \div 2 # i /\ i \div 2 # j /\ m \in 1 .. l
      BY <1>3, <2>0, <2>5, <2>h
    <3>1. ~Less(x[i], x[i \div 2]) /\ y[i \div 2] = x[i \div 2]
      BY <2>1, <2>3, <3>0
    <3>2. CASE m = j
      BY <2>1, <3>1, <3>2
    <3>3. CASE m # j
      <4>1. ~Less(x[m], x[i]) /\ m # i
        BY <2>3, <2>5, <2>h, <3>3
      <4>2. ~Less(x[m], x[i \div 2])
        BY <2>0, <2>2, <3>0, <3>1, <4>1, NotLessIsTransitive
      <4> QED
        BY <2>1, <3>0, <3>1, <3>3, <4>1, <4>2
    <3> QED
      BY <3>2, <3>3
  <2>6. Rising(y, i, n)
    BY <2>4, <2>5 DEF Rising
  <2>7. \A m \in n + 1 .. l : y[m] = x[m]
    <3>1. \A m \in n + 1 .. l : m \in 1 .. l /\ m # i /\ m # j
      BY <2>0
    <3> QED
      BY <2>1, <3>1
  <2> QED
    BY <2>0, <2>1, <2>6, <2>7 DEF x, y
<1> QED
  BY <1>1, <1>2, <1>3, UpRoundCases

\* The rounds of up.
UpLoop(q, j, n, f) ==
    /\ f \in [0 .. n -> States(n)]
    /\ f[0] = Loop(q, j) /\ up(q, j) = f[n].heap
    /\ \A k \in 1 .. n : f[k] = UpRound(f[k - 1])

\* up is at the end of such a loop.
LEMMA UpRuns ==
    ASSUME NEW q, Good(q), NEW n, n = Len(q.h), NEW j \in 1 .. n
    PROVE  \E f : UpLoop(q, j, n, f)
<1> DEFINE T == States(n)
           step == [s \in T |-> UpRound(s)]
           Sol(f) == f = [k \in 0 .. n |-> IF k = 0 THEN Loop(q, j) ELSE UpRound(f[k - 1])]
           F == CHOOSE f : Sol(f)
<1>0. n \in Nat
  BY GoodShape
<1>1. step \in [T -> T] /\ Loop(q, j) \in T
  BY <1>0, UpRoundKeeps, LoopFacts
<1>2. PICK g \in [0 .. n -> T] : g[0] = Loop(q, j) /\ \A k \in 1 .. n : g[k] = step[g[k - 1]]
  <2> HIDE DEF T, step
  <2>1. \E g : Iteration(T, step, Loop(q, j), n, g)
    BY <1>0, <1>1, Iterates
  <2> QED
    BY <2>1, Zenon DEF Iteration
<1>3. \A k \in 1 .. n : k - 1 \in 0 .. n /\ g[k] = UpRound(g[k - 1])
  <2>1. \A k \in 1 .. n : k - 1 \in 0 .. n
    BY <1>0
  <2> QED
    BY <1>2, <2>1, Zenon
<1>4. Sol(g)
  <2>1. \A k \in 0 .. n : k # 0 => k \in 1 .. n
    BY <1>0
  <2> HIDE DEF T
  <2> QED
    BY <1>2, <1>3, <2>1
<1>5. Sol(F)
  <2> HIDE DEF Sol
  <2> QED
    BY <1>4
<1>6. up(q, j) = F[n].heap
  BY DEF up
<1>7. /\ F[0] = Loop(q, j) /\ DOMAIN F = 0 .. n
      /\ \A k \in 1 .. n : F[k] = UpRound(F[k - 1])
  <2> HIDE DEF F
  <2>1. 0 \in 0 .. n /\ \A k \in 1 .. n : k \in 0 .. n /\ k # 0
    BY <1>0
  <2> QED
    BY <1>5, <2>1, Zenon
<1>8. \A k \in 0 .. n : F[k] \in T
  <2> DEFINE S == {k \in 0 .. n : F[k] \in T}
  <2>1. 0 \in S
    BY <1>0, <1>1, <1>7
  <2>2. ASSUME NEW k \in 0 .. n - 1, k \in S PROVE k + 1 \in S
    <3>1. k + 1 \in 1 .. n /\ (k + 1) - 1 = k /\ k + 1 \in 0 .. n
      BY <1>0
    <3>2. F[k] \in T /\ F[k + 1] = UpRound(F[k])
      BY <1>7, <2>2, <3>1, Zenon
    <3>3. F[k + 1] \in T
      BY <1>0, <3>2, UpRoundKeeps
    <3> QED
      BY <3>1, <3>3, Zenon
  <2>3. \A k \in 0 .. n : k \in S
    <3> HIDE DEF S
    <3> QED
      BY <1>0, <2>1, <2>2, EveryRound, Zenon
  <2> QED
    BY <2>3
<1>9. F \in [0 .. n -> T]
  <2>1. F = [k \in 0 .. n |-> F[k]]
    <3> HIDE DEF F
    <3> QED
      BY <1>5
  <2> HIDE DEF F, T
  <2> QED
    BY <1>8, <2>1, Zenon
<1> QED
  BY <1>6, <1>7, <1>9, Zenon DEF UpLoop

\* What up does: the first n items are in order again.
Risen(q, l, n, r) ==
    /\ Good(r) /\ Len(r.h) = l /\ Range(r.h) = Range(q.h) /\ Ordered(r.h, n)
    /\ \A m \in n + 1 .. l : r.h[m] = q.h[m]

\* up does that, from any place that may have to rise.
LEMMA UpResult ==
    ASSUME NEW q, Good(q), NEW l, l = Len(q.h), NEW n \in 1 .. l, NEW j \in 1 .. n,
           Rising(q.h, j, n), NEW r, r = up(q, j)
    PROVE  Risen(q, l, n, r)
<1>0. l \in Nat /\ j \in 1 .. l
  BY GoodShape
<1>1. PICK f \in [0 .. l -> States(l)] :
          /\ f[0] = Loop(q, j) /\ r = f[l].heap
          /\ \A k \in 1 .. l : f[k] = UpRound(f[k - 1])
  <2>1. \E f : UpLoop(q, j, l, f)
    BY <1>0, UpRuns
  <2> QED
    BY <2>1 DEF UpLoop
<1>2. f[0].heap = q /\ f[0].at = j
  BY <1>0, <1>1, LoopFacts
<1> DEFINE P(k) == /\ f[k].at \in 1 .. n /\ Rising(f[k].heap.h, f[k].at, n)
                   /\ Range(f[k].heap.h) = Range(q.h)
                   /\ \A m \in n + 1 .. l : f[k].heap.h[m] = q.h[m]
                   /\ UpRound(f[k]) = f[k] \/ f[k].at + k <= j
           S == {k \in 0 .. l : P(k)}
<1>3. 0 \in S
  BY <1>0, <1>2
<1>4. ASSUME NEW k \in 0 .. l - 1, k \in S PROVE k + 1 \in S
  <2>1. k + 1 \in 0 .. l /\ f[k + 1] = UpRound(f[k]) /\ f[k] \in States(l) /\ k \in Nat
    <3>1. k + 1 \in 1 .. l /\ (k + 1) - 1 = k /\ k \in 0 .. l /\ k + 1 \in 0 .. l
      BY <1>0
    <3>2. f[k + 1] = UpRound(f[k])
      BY <1>1, <3>1, Zenon
    <3> QED
      BY <3>1, <3>2
  <2>2. P(k)
    BY <1>4
  <2> HIDE DEF P
  <2>3. /\ f[k + 1].at \in 1 .. n /\ Rising(f[k + 1].heap.h, f[k + 1].at, n)
        /\ \A m \in n + 1 .. l : f[k + 1].heap.h[m] = f[k].heap.h[m]
    <3>1. f[k].at \in 1 .. n /\ Rising(f[k].heap.h, f[k].at, n)
      BY <2>2, Zenon DEF P
    <3> QED
      BY <1>0, <2>1, <3>1, UpRoundRises, ZenonT(30)
  <2>4. Range(f[k + 1].heap.h) = Range(q.h)
    BY <1>0, <2>1, <2>2, UpRoundKeeps DEF P
  <2>5. UpRound(f[k + 1]) = f[k + 1] \/ f[k + 1].at + (k + 1) <= j
    <3>1. CASE UpRound(f[k]) = f[k]
      BY <2>1, <3>1
    <3>2. CASE UpRound(f[k]) # f[k]
      <4>1. f[k].at \in 1 .. l /\ j \in Nat
        BY <1>0, <2>1, StateFacts
      <4>2. PICK i : i = f[k].at \div 2
        OBVIOUS
      <4>3. f[k + 1] = Loop(Swap(f[k].heap, i, f[k].at), i) /\ i \in 1 .. l /\ i < f[k].at
        BY <1>0, <2>1, <3>2, <4>2, UpRoundCases
      <4>4. f[k + 1].at = i
        BY <4>3 DEF Loop
      <4>5. f[k].at + k <= j
        BY <2>2, <3>2 DEF P
      <4> QED
        BY <2>1, <4>1, <4>3, <4>4, <4>5
    <3> QED
      BY <3>1, <3>2
  <2> QED
    BY <2>1, <2>2, <2>3, <2>4, <2>5 DEF P
<1>5. P(l)
  <2> HIDE DEF S
  <2>1. \A k \in 0 .. l : k \in S
    BY <1>0, <1>3, <1>4, EveryRound, Zenon
  <2>2. l \in S
    BY <1>0, <2>1
  <2> QED
    BY <2>2, Zenon DEF S
<1>6. f[l] \in States(l) /\ f[l].at \in 1 .. l
  <2>1. l \in 0 .. l
    BY <1>0
  <2>2. f[l] \in States(l)
    BY <1>1, <2>1, Zenon
  <2> QED
    BY <1>0, <2>2, StateFacts, Zenon
<1>7. UpRound(f[l]) = f[l]
  <2>1. UpRound(f[l]) # f[l] => f[l].at + l <= j
    BY <1>5, Zenon
  <2> QED
    BY <1>0, <1>6, <2>1
<1>8. f[l].at = 1 \/ ~Less(f[l].heap.h[f[l].at], f[l].heap.h[f[l].at \div 2])
  <2>1. PICK i : i = f[l].at \div 2
    OBVIOUS
  <2>2. CASE f[l] = Loop(Swap(f[l].heap, i, f[l].at), i) /\ i < f[l].at
    <3>1. f[l].at = i
      BY <2>2 DEF Loop
    <3> QED
      BY <1>6, <2>2, <3>1
  <2> QED
    BY <1>0, <1>6, <1>7, <2>1, <2>2, UpRoundCases
<1>9. Ordered(r.h, n)
  <2>1. Rising(r.h, f[l].at, n) /\ \A m \in 2 .. n : m # 1
    BY <1>1, <1>5
  <2> HIDE DEF P
  <2> QED
    BY <1>1, <1>8, <2>1, Zenon DEF Ordered, Rising
<1> QED
  <2>1. Good(r) /\ Len(r.h) = l
    BY <1>0, <1>1, <1>6, StateFacts, Zenon
  <2> QED
    BY <1>1, <1>5, <1>9, <2>1, Zenon DEF Risen

\* A round of down stops, with no child before the item, or the item changes places with a
\* child that is before both it and the other one.
LEMMA DownRoundCases ==
    ASSUME NEW l \in Nat, NEW n \in 0 .. l, NEW s \in States(l)
    PROVE  \/ /\ DownRound(s, n) = s
              /\ \A m \in 2 .. n : m \div 2 = s.at => ~Less(s.heap.h[m], s.heap.h[s.at])
           \/ \E j \in 2 .. n :
                  /\ DownRound(s, n) = Loop(Swap(s.heap, s.at, j), j)
                  /\ j \div 2 = s.at /\ Less(s.heap.h[j], s.heap.h[s.at])
                  /\ \A m \in 2 .. n : m \div 2 = s.at => ~Less(s.heap.h[m], s.heap.h[j])
<1> DEFINE x == s.heap.h
           i == s.at
           left == 2 * i
           right == left + 1
<1>1. i \in 1 .. l /\ \A m \in 1 .. l : x[m] \in item
  BY StateFacts
<1>2. PICK j : j = IF right <= n /\ Less(x[right], x[left]) THEN right ELSE left
  OBVIOUS
<1>3. DownRound(s, n) = IF left > n \/ ~Less(x[j], x[i]) THEN s ELSE Loop(Swap(s.heap, i, j), j)
  BY <1>2 DEF DownRound
<1>4. \A m \in 2 .. n : m \div 2 = i => m = left \/ m = right
  BY <1>1, Half
<1>5. CASE left > n
  <2>1. \A m \in 2 .. n : m \div 2 # i
    BY <1>1, <1>4, <1>5
  <2> QED
    BY <1>3, <1>5, <2>1
<1>6. CASE ~(left > n)
  <2>1. left \in 2 .. n /\ left \in 1 .. l /\ left \div 2 = i /\ (right <= n => right \in 2 .. n /\ right \in 1 .. l /\ right \div 2 = i)
    BY <1>1, <1>6
  <2> HIDE DEF x, i, left, right
  <2>2. j \in 2 .. n /\ j \in 1 .. l /\ j \div 2 = i
    BY <1>2, <2>1
  <2>3. x[left] \in item /\ (right <= n => x[right] \in item) /\ x[j] \in item /\ x[i] \in item
    BY <1>1, <2>1, <2>2
  <2>4. \A m \in 2 .. n : m \div 2 = i => ~Less(x[m], x[j])
    <3> SUFFICES ASSUME NEW m \in 2 .. n, m \div 2 = i PROVE ~Less(x[m], x[j])
      OBVIOUS
    <3>0. m = left \/ (m = right /\ right <= n)
      BY <1>4
    <3>1. CASE right <= n /\ Less(x[right], x[left])
      BY <1>2, <2>3, <3>0, <3>1, LessIsStrict
    <3>2. CASE ~(right <= n /\ Less(x[right], x[left]))
      BY <1>2, <2>3, <3>0, <3>2, LessIsStrict
    <3> QED
      BY <3>1, <3>2
  <2>5. CASE Less(x[j], x[i])
    BY <1>3, <1>6, <2>2, <2>4, <2>5 DEF x, i
  <2>6. CASE ~Less(x[j], x[i])
    <3>1. \A m \in 2 .. n : m \div 2 = i => ~Less(x[m], x[i])
      <4> SUFFICES ASSUME NEW m \in 2 .. n, m \div 2 = i PROVE ~Less(x[m], x[i])
        OBVIOUS
      <4>1. m \in 1 .. l
        OBVIOUS
      <4> QED
        BY <1>1, <2>3, <2>4, <2>6, <4>1, NotLessIsTransitive
    <3> QED
      BY <1>3, <2>6, <3>1 DEF x, i
  <2> QED
    BY <2>5, <2>6
<1> QED
  BY <1>5, <1>6

\* A round of down keeps the items, and what is behind the first n of them.
LEMMA DownRoundKeeps ==
    ASSUME NEW l \in Nat, NEW n \in 0 .. l, NEW s \in States(l), NEW t, t = DownRound(s, n)
    PROVE  /\ t \in States(l) /\ Range(t.heap.h) = Range(s.heap.h)
           /\ \A m \in n + 1 .. l : t.heap.h[m] = s.heap.h[m]
           /\ t = s \/ (t.at > s.at /\ t.at <= n)
<1>1. CASE t = s
  BY <1>1
<1>2. ASSUME NEW j \in 2 .. n, t = Loop(Swap(s.heap, s.at, j), j), j \div 2 = s.at
      PROVE  /\ t \in States(l) /\ Range(t.heap.h) = Range(s.heap.h)
             /\ \A m \in n + 1 .. l : t.heap.h[m] = s.heap.h[m]
             /\ t.at > s.at /\ t.at <= n
  <2>1. j \in 1 .. l /\ s.at \in 1 .. l /\ s.at < j /\ j <= n
    BY <1>2, StateFacts, Half
  <2>2. /\ t \in States(l) /\ t.at = j /\ Range(t.heap.h) = Range(s.heap.h)
        /\ \A m \in 1 .. l : m # s.at /\ m # j => t.heap.h[m] = s.heap.h[m]
    <3>1. Exchanged(l, s, s.at, j, j, t)
      BY <1>2, <2>1, Exchange
    <3> QED
      BY <3>1 DEF Exchanged
  <2>3. \A m \in n + 1 .. l : m \in 1 .. l /\ m # s.at /\ m # j
    BY <2>1
  <2> QED
    BY <2>1, <2>2, <2>3
<1> QED
  BY <1>1, <1>2, DownRoundCases

\* Once the item has moved, everything above it is in order.
LEMMA DownRoundSinks ==
    ASSUME NEW l \in Nat, NEW n \in 0 .. l, NEW s \in States(l), Gap(s.heap.h, s.at, n),
           NEW t, t = DownRound(s, n), t # s
    PROVE  Sinking(t.heap.h, t.at, n)
<1> DEFINE x == s.heap.h
           y == t.heap.h
           i == s.at
<1>1. PICK j \in 2 .. n :
          /\ t = Loop(Swap(s.heap, i, j), j) /\ j \div 2 = i /\ Less(x[j], x[i])
          /\ \A m \in 2 .. n : m \div 2 = i => ~Less(x[m], x[j])
  BY DownRoundCases, Zenon
<1>2. i \in 1 .. l /\ j \in 1 .. l /\ i < j
  BY <1>1, StateFacts, Half
<1>3. /\ t.at = j /\ y[i] = x[j] /\ y[j] = x[i]
      /\ \A m \in 1 .. l : m # i /\ m # j => y[m] = x[m]
  <2>1. Exchanged(l, s, i, j, j, t)
    BY <1>1, <1>2, Exchange
  <2> QED
    BY <2>1 DEF Exchanged
<1>4. \A m \in 1 .. l : x[m] \in item
  BY StateFacts
<1>5. \A m \in 2 .. n : m \in 1 .. l /\ m \div 2 \in 1 .. l /\ m \div 2 < m
  BY Half
<1>6. /\ \A m \in 2 .. n : m \div 2 # i /\ m # i => ~Less(x[m], x[m \div 2])
      /\ i > 1 => \A m \in 2 .. n : m \div 2 = i => ~Less(x[m], x[i \div 2])
  BY DEF Gap
<1> HIDE DEF x, y, i
<1>7. ASSUME NEW m \in 2 .. n, m \div 2 # j PROVE ~Less(y[m], y[m \div 2])
  <2>1. CASE m = i
    <3>1. i > 1 /\ m \div 2 # i /\ m \div 2 # j /\ m \div 2 \in 1 .. l
      BY <1>2, <1>5, <2>1
    <3> QED
      BY <1>1, <1>3, <1>6, <2>1, <3>1
  <2>2. CASE m # i /\ m = j
    BY <1>1, <1>2, <1>3, <1>4, <2>2, LessIsStrict
  <2>3. CASE m # i /\ m # j /\ m \div 2 = i
    BY <1>1, <1>3, <1>5, <2>3
  <2>4. CASE m # i /\ m # j /\ m \div 2 # i
    BY <1>3, <1>5, <1>6, <1>7, <2>4
  <2> QED
    BY <2>1, <2>2, <2>3, <2>4
<1>8. ASSUME NEW m \in 2 .. n, m \div 2 = j PROVE ~Less(y[m], y[j \div 2])
  <2>1. m # i /\ m # j /\ m \div 2 # i /\ m \in 1 .. l
    BY <1>2, <1>5, <1>8
  <2> QED
    BY <1>1, <1>3, <1>6, <1>8, <2>1
<1> QED
  BY <1>3, <1>7, <1>8 DEF Sinking, y

\* An item that may have to sink is a gap.
LEMMA SinkingIsGap ==
    ASSUME NEW x, NEW i, NEW n, Sinking(x, i, n) PROVE Gap(x, i, n)
BY DEF Sinking, Gap

\* The rounds of down.
DownLoop(q, i, n, l, f) ==
    /\ f \in [0 .. l -> States(l)]
    /\ f[0] = Loop(q, i) /\ down(q, i, n) = f[l]
    /\ \A k \in 1 .. l : f[k] = DownRound(f[k - 1], n)

\* down is at the end of such a loop.
LEMMA DownRuns ==
    ASSUME NEW q, Good(q), NEW l, l = Len(q.h), NEW n \in 0 .. l, NEW i \in 1 .. l
    PROVE  \E f : DownLoop(q, i, n, l, f)
<1> DEFINE T == States(l)
           step == [s \in T |-> DownRound(s, n)]
           Sol(f) == f = [k \in 0 .. l |-> IF k = 0 THEN Loop(q, i) ELSE DownRound(f[k - 1], n)]
           F == CHOOSE f : Sol(f)
<1>0. l \in Nat
  BY GoodShape
<1>1. step \in [T -> T] /\ Loop(q, i) \in T
  BY <1>0, DownRoundKeeps, LoopFacts
<1>2. PICK g \in [0 .. l -> T] : g[0] = Loop(q, i) /\ \A k \in 1 .. l : g[k] = step[g[k - 1]]
  <2> HIDE DEF T, step
  <2>1. \E g : Iteration(T, step, Loop(q, i), l, g)
    BY <1>0, <1>1, Iterates
  <2> QED
    BY <2>1, Zenon DEF Iteration
<1>3. \A k \in 1 .. l : k - 1 \in 0 .. l /\ g[k] = DownRound(g[k - 1], n)
  <2>1. \A k \in 1 .. l : k - 1 \in 0 .. l
    BY <1>0
  <2> QED
    BY <1>2, <2>1, Zenon
<1>4. Sol(g)
  <2>1. \A k \in 0 .. l : k # 0 => k \in 1 .. l
    BY <1>0
  <2> HIDE DEF T
  <2> QED
    BY <1>2, <1>3, <2>1
<1>5. Sol(F)
  <2> HIDE DEF Sol
  <2> QED
    BY <1>4
<1>6. down(q, i, n) = F[l]
  BY DEF down
<1>7. /\ F[0] = Loop(q, i) /\ DOMAIN F = 0 .. l
      /\ \A k \in 1 .. l : F[k] = DownRound(F[k - 1], n)
  <2> HIDE DEF F
  <2>1. 0 \in 0 .. l /\ \A k \in 1 .. l : k \in 0 .. l /\ k # 0
    BY <1>0
  <2> QED
    BY <1>5, <2>1, Zenon
<1>8. \A k \in 0 .. l : F[k] \in T
  <2> DEFINE S == {k \in 0 .. l : F[k] \in T}
  <2>1. 0 \in S
    BY <1>0, <1>1, <1>7
  <2>2. ASSUME NEW k \in 0 .. l - 1, k \in S PROVE k + 1 \in S
    <3>1. k + 1 \in 1 .. l /\ (k + 1) - 1 = k /\ k + 1 \in 0 .. l
      BY <1>0
    <3>2. F[k] \in T /\ F[k + 1] = DownRound(F[k], n)
      BY <1>7, <2>2, <3>1, Zenon
    <3>3. F[k + 1] \in T
      BY <1>0, <3>2, DownRoundKeeps
    <3> QED
      BY <3>1, <3>3, Zenon
  <2>3. \A k \in 0 .. l : k \in S
    <3> HIDE DEF S
    <3> QED
      BY <1>0, <2>1, <2>2, EveryRound, Zenon
  <2> QED
    BY <2>3
<1>9. F \in [0 .. l -> T]
  <2>1. F = [k \in 0 .. l |-> F[k]]
    <3> HIDE DEF F
    <3> QED
      BY <1>5
  <2> HIDE DEF F, T
  <2> QED
    BY <1>8, <2>1
<1> QED
  BY <1>6, <1>7, <1>9, Zenon DEF DownLoop

\* What down does: the item has moved and everything is in order, or nothing has changed and
\* no child is before the item.
Sunk(q, l, i, n, d) ==
    /\ Good(d.heap) /\ Len(d.heap.h) = l /\ Range(d.heap.h) = Range(q.h)
    /\ \A m \in n + 1 .. l : d.heap.h[m] = q.h[m]
    /\ d.at > i => Ordered(d.heap.h, n)
    /\ ~(d.at > i) =>
           d.heap = q /\ \A m \in 2 .. n : m \div 2 = i => ~Less(q.h[m], q.h[i])

\* down does that, from any place that may have to sink.
LEMMA DownResult ==
    ASSUME NEW q, Good(q), NEW l, l = Len(q.h), NEW n \in 0 .. l, NEW i \in 1 .. l,
           Gap(q.h, i, n), NEW d, d = down(q, i, n)
    PROVE  Sunk(q, l, i, n, d)
<1>0. l \in Nat
  BY GoodShape
<1>1. PICK f \in [0 .. l -> States(l)] :
          /\ f[0] = Loop(q, i) /\ d = f[l]
          /\ \A k \in 1 .. l : f[k] = DownRound(f[k - 1], n)
  <2>1. \E f : DownLoop(q, i, n, l, f)
    BY <1>0, DownRuns
  <2> QED
    BY <2>1 DEF DownLoop
<1>2. f[0].heap = q /\ f[0].at = i
  BY <1>0, <1>1, LoopFacts
<1> DEFINE P(k) == /\ Range(f[k].heap.h) = Range(q.h)
                   /\ \A m \in n + 1 .. l : f[k].heap.h[m] = q.h[m]
                   /\ \/ f[k] = f[0]
                      \/ f[k].at > i /\ Sinking(f[k].heap.h, f[k].at, n)
                   /\ DownRound(f[k], n) = f[k] \/ f[k].at >= i + k
           S == {k \in 0 .. l : P(k)}
<1>3. 0 \in S
  BY <1>0, <1>2
<1>4. ASSUME NEW k \in 0 .. l - 1, k \in S PROVE k + 1 \in S
  <2>1. k + 1 \in 0 .. l /\ f[k + 1] = DownRound(f[k], n) /\ f[k] \in States(l) /\ k \in Nat
    <3>1. k + 1 \in 1 .. l /\ (k + 1) - 1 = k /\ k \in 0 .. l /\ k + 1 \in 0 .. l
      BY <1>0
    <3>2. f[k + 1] = DownRound(f[k], n)
      BY <1>1, <3>1, Zenon
    <3> QED
      BY <3>1, <3>2
  <2>2. P(k)
    BY <1>4
  <2> HIDE DEF P
  <2>3. CASE f[k + 1] = f[k]
    <3>1. P(k + 1)
      BY <2>1, <2>2, <2>3, Zenon DEF P
    <3> QED
      BY <2>1, <3>1
  <2>4. CASE f[k + 1] # f[k]
    <3>1. /\ f[k + 1] \in States(l) /\ Range(f[k + 1].heap.h) = Range(f[k].heap.h)
          /\ \A m \in n + 1 .. l : f[k + 1].heap.h[m] = f[k].heap.h[m]
          /\ f[k + 1].at > f[k].at
      BY <1>0, <2>1, <2>4, DownRoundKeeps
    <3>2. f[k].at \in 1 .. l /\ f[k + 1].at \in 1 .. l
      BY <1>0, <2>1, <3>1, StateFacts
    <3>3. Gap(f[k].heap.h, f[k].at, n) /\ (f[k].at = i \/ f[k].at > i)
      BY <1>2, <2>2, SinkingIsGap DEF P
    <3>4. Sinking(f[k + 1].heap.h, f[k + 1].at, n)
      BY <1>0, <2>1, <2>4, <3>3, DownRoundSinks
    <3>5. f[k].at >= i + k
      BY <2>1, <2>2, <2>4 DEF P
    <3>6. f[k + 1].at > i /\ f[k + 1].at >= i + (k + 1)
      BY <2>1, <3>1, <3>2, <3>3, <3>5
    <3>7. P(k + 1)
      BY <2>2, <3>1, <3>4, <3>6 DEF P
    <3> QED
      BY <2>1, <3>7
  <2> QED
    BY <2>3, <2>4
<1>5. P(l)
  <2> HIDE DEF S
  <2>1. \A k \in 0 .. l : k \in S
    BY <1>0, <1>3, <1>4, EveryRound, Zenon
  <2>2. l \in S
    BY <1>0, <2>1
  <2> QED
    BY <2>2, Zenon DEF S
<1>6. d \in States(l) /\ d.at \in 1 .. l
  <2>1. l \in 0 .. l
    BY <1>0
  <2>2. d \in States(l)
    BY <1>1, <2>1, Zenon
  <2> QED
    BY <1>0, <2>2, StateFacts, Zenon
<1>7. DownRound(d, n) = d
  BY <1>0, <1>1, <1>5, <1>6
<1>8. \A m \in 2 .. n : m \div 2 = d.at => ~Less(d.heap.h[m], d.heap.h[d.at])
  <2>1. ASSUME NEW j \in 2 .. n, d = Loop(Swap(d.heap, d.at, j), j), j \div 2 = d.at PROVE FALSE
    <3>1. d.at = j
      BY <2>1 DEF Loop
    <3> QED
      BY <2>1, <3>1, Half
  <2> QED
    BY <1>0, <1>6, <1>7, <2>1, DownRoundCases, ZenonT(30)
<1>9. ASSUME d.at > i PROVE Ordered(d.heap.h, n)
  <2>1. Sinking(d.heap.h, d.at, n)
    BY <1>1, <1>2, <1>5, <1>9
  <2> QED
    BY <1>8, <2>1, Zenon DEF Sinking, Ordered
<1>10. ASSUME ~(d.at > i)
       PROVE  d.heap = q /\ \A m \in 2 .. n : m \div 2 = i => ~Less(q.h[m], q.h[i])
  <2>1. d.heap = q /\ d.at = i
    BY <1>1, <1>2, <1>5, <1>10
  <2> QED
    BY <1>8, <2>1
<1>11. Good(d.heap) /\ Len(d.heap.h) = l
  BY <1>0, <1>6, StateFacts, Zenon
<1> QED
  BY <1>1, <1>5, <1>9, <1>10, <1>11, Zenon DEF Sunk

-----------------------------------------------------------------------------
(* The operations of container/heap.                                       *)

\* innerHeap.Push.
Pushed(q, x, n, r) ==
    /\ Good(r) /\ n \in Nat /\ Len(r.h) = n + 1 /\ Range(r.h) = Range(q.h) \cup {x}
    /\ r.h[n + 1] = x /\ \A m \in 1 .. n : r.h[m] = q.h[m]

\* It adds an item at the end, and nothing else.
LEMMA PushLastFacts ==
    ASSUME NEW q, Good(q), NEW x \in item, q.index[x.jobID] = 0, NEW r, r = PushLast(q, x),
           NEW n, n = Len(q.h)
    PROVE  Pushed(q, x, n, r)
<1> DEFINE z == Append(q.h, x)
           y == [q.index EXCEPT ![x.jobID] = n + 1]
<1>0. r.h = z /\ r.index = y /\ r = [h |-> z, index |-> y]
  BY DEF PushLast, Heap
<1>1. /\ n \in Nat /\ q.h \in Seq(item) /\ DOMAIN q.h = 1 .. n /\ q.index \in [Job -> Nat]
      /\ \A m \in 1 .. n : q.h[m] \in item /\ q.h[m].jobID \in Job
      /\ x.jobID \in Job
  <2>1. x.jobID \in Job
    BY DEF item
  <2> QED
    BY <2>1, GoodShape
<1>2. /\ z \in Seq(item) /\ Len(z) = n + 1 /\ z[n + 1] = x /\ DOMAIN z = 1 .. n + 1
      /\ \A m \in 1 .. n : z[m] = q.h[m]
  <2> HIDE DEF y
  <2> QED
    BY <1>1, OneMore
<1>3. y \in [Job -> Nat] /\ y[x.jobID] = n + 1 /\ \A j \in Job : j # x.jobID => y[j] = q.index[j]
  BY <1>1
<1> HIDE DEF z, y
<1>4. \A m \in 1 .. n + 1 : y[z[m].jobID] = m
  <2> SUFFICES ASSUME NEW m \in 1 .. n + 1 PROVE y[z[m].jobID] = m
    OBVIOUS
  <2>1. CASE m = n + 1
    BY <1>2, <1>3, <2>1
  <2>2. CASE m \in 1 .. n
    <3>1. q.index[q.h[m].jobID] = m /\ m # 0
      BY <1>1, <2>2 DEF Good
    <3> QED
      BY <1>1, <1>2, <1>3, <2>2, <3>1
  <2> QED
    BY <1>1, <2>1, <2>2
<1>5. \A j \in Job : y[j] # 0 => y[j] \in 1 .. n + 1 /\ z[y[j]].jobID = j
  <2> SUFFICES ASSUME NEW j \in Job, y[j] # 0 PROVE y[j] \in 1 .. n + 1 /\ z[y[j]].jobID = j
    OBVIOUS
  <2>1. CASE j = x.jobID
    BY <1>1, <1>2, <1>3, <2>1
  <2>2. CASE j # x.jobID
    <3>1. y[j] \in 1 .. n /\ q.h[y[j]].jobID = j
      BY <1>3, <2>2 DEF Good
    <3> QED
      BY <1>1, <1>2, <3>1
  <2> QED
    BY <2>1, <2>2
<1>6. Good(r)
  BY <1>0, <1>2, <1>3, <1>4, <1>5 DEF Good, Queue
<1>7. Range(z) = Range(q.h) \cup {x}
  <2>1. \A m \in 1 .. n + 1 : m \in 1 .. n \/ m = n + 1
    BY <1>1
  <2>2. \A m \in 1 .. n : m \in 1 .. n + 1
    BY <1>1
  <2>3. n + 1 \in 1 .. n + 1
    BY <1>1
  <2> QED
    BY <1>1, <1>2, <2>1, <2>2, <2>3, Zenon DEF Range
<1> QED
  BY <1>0, <1>1, <1>2, <1>6, <1>7, Zenon DEF Pushed

\* innerHeap.Pop.
Popped(q, n, r) ==
    /\ Good(r) /\ Len(r.h) = n - 1 /\ Range(r.h) = Range(q.h) \ {q.h[n]}
    /\ \A m \in 1 .. n - 1 : r.h[m] = q.h[m]

\* It takes the last item out, and nothing else.
LEMMA PopLastFacts ==
    ASSUME NEW q, Good(q), NEW n, n = Len(q.h), n >= 1
    PROVE  Popped(q, n, PopLast(q))
<1> DEFINE z == SubSeq(q.h, 1, n - 1)
           b == q.h[n].jobID
           y == [q.index EXCEPT ![b] = 0]
<1> DEFINE r == PopLast(q)
<1>0. r.h = z /\ r.index = y /\ r = [h |-> z, index |-> y]
  BY DEF PopLast, Heap
<1>1. /\ n \in Nat /\ q.h \in Seq(item) /\ DOMAIN q.h = 1 .. n /\ q.index \in [Job -> Nat]
      /\ \A m \in 1 .. n : q.h[m] \in item /\ q.h[m].jobID \in Job
      /\ n \in 1 .. n /\ \A m \in 1 .. n - 1 : m \in 1 .. n /\ m # n
  <2>1. n \in Nat
    BY GoodShape
  <2> QED
    BY <2>1, GoodShape
<1>2. b \in Job /\ \A m \in 1 .. n - 1 : q.h[m].jobID # b
  BY <1>1, GoodShape
<1>3. /\ z \in Seq(item) /\ Len(z) = n - 1 /\ DOMAIN z = 1 .. n - 1
      /\ \A m \in 1 .. n - 1 : z[m] = q.h[m]
  <2>1. Shorter(q.h, n, z)
    BY <1>1, OneLess, Zenon
  <2> QED
    BY <2>1, Zenon DEF Shorter
<1>4. y \in [Job -> Nat] /\ y[b] = 0 /\ \A j \in Job : j # b => y[j] = q.index[j]
  BY <1>1, <1>2, Zenon
<1> HIDE DEF z, y, b, r
<1>5. \A m \in 1 .. n - 1 : y[z[m].jobID] = m
  <2> SUFFICES ASSUME NEW m \in 1 .. n - 1 PROVE y[z[m].jobID] = m
    OBVIOUS
  <2>1. q.index[q.h[m].jobID] = m
    BY <1>1, Zenon DEF Good
  <2> QED
    BY <1>1, <1>2, <1>3, <1>4, <2>1, Zenon
<1>6. \A j \in Job : y[j] # 0 => y[j] \in 1 .. n - 1 /\ z[y[j]].jobID = j
  <2> SUFFICES ASSUME NEW j \in Job, y[j] # 0 PROVE y[j] \in 1 .. n - 1 /\ z[y[j]].jobID = j
    OBVIOUS
  <2>1. j # b /\ y[j] \in 1 .. n /\ q.h[y[j]].jobID = j
    BY <1>4 DEF Good
  <2>2. y[j] # n
    BY <2>1 DEF b
  <2>3. y[j] \in 1 .. n - 1
    BY <1>1, <2>1, <2>2
  <2> QED
    BY <1>3, <2>1, <2>3
<1>7. Good(r)
  BY <1>0, <1>3, <1>4, <1>5, <1>6 DEF Good, Queue
<1>8. Range(z) = Range(q.h) \ {q.h[n]}
  <2>1. \A m \in 1 .. n : m = n \/ m \in 1 .. n - 1
    BY <1>1
  <2>2. \A m \in 1 .. n - 1 : q.h[m] # q.h[n]
    BY <1>2 DEF b
  <2> QED
    BY <1>1, <1>3, <2>1, <2>2, Zenon DEF Range
<1> QED
  BY <1>0, <1>3, <1>7, <1>8 DEF Popped, r

\* heap.Push.
LEMMA HeapPushFacts ==
    ASSUME NEW q, Good(q), Ordered(q.h, Len(q.h)), NEW x \in item, q.index[x.jobID] = 0,
           NEW r, r = HeapPush(q, x)
    PROVE  Good(r) /\ Ordered(r.h, Len(r.h)) /\ Range(r.h) = Range(q.h) \cup {x}
<1>1. PICK p, n : p = PushLast(q, x) /\ n = Len(q.h)
  OBVIOUS
<1>2. /\ Good(p) /\ n \in Nat /\ Len(p.h) = n + 1 /\ Range(p.h) = Range(q.h) \cup {x}
      /\ \A m \in 1 .. n : p.h[m] = q.h[m]
  <2>1. Pushed(q, x, n, p)
    BY <1>1, PushLastFacts
  <2> QED
    BY <2>1, Zenon DEF Pushed
<1>3. Rising(p.h, n + 1, n + 1)
  <2>1. ASSUME NEW m \in 2 .. n + 1, m # n + 1 PROVE ~Less(p.h[m], p.h[m \div 2])
    <3>1. m \in 2 .. n /\ m \in 1 .. n /\ m \div 2 \in 1 .. n
      BY <1>2, <2>1, Half
    <3> QED
      BY <1>1, <1>2, <3>1 DEF Ordered
  <2>2. \A m \in 2 .. n + 1 : m \div 2 # n + 1
    BY <1>2, Half
  <2> QED
    BY <2>1, <2>2 DEF Rising
<1>4. r = up(p, n + 1) /\ n + 1 \in 1 .. n + 1
  BY <1>1, <1>2 DEF HeapPush
<1>5. PICK k : k = n + 1
  OBVIOUS
<1>6. k = Len(p.h) /\ k \in 1 .. k /\ Rising(p.h, k, k) /\ r = up(p, k)
  BY <1>2, <1>3, <1>4, <1>5
<1>7. Risen(p, k, k, r)
  BY <1>2, <1>6, UpResult
<1> QED
  BY <1>2, <1>6, <1>7, Zenon DEF Risen

\* heap.Pop.
LEMMA HeapPopFacts ==
    ASSUME NEW q, Good(q), Ordered(q.h, Len(q.h)), Len(q.h) # 0, NEW r, r = HeapPop(q)
    PROVE  Good(r) /\ Ordered(r.h, Len(r.h)) /\ Range(r.h) = Range(q.h) \ {q.h[1]}
<1>0. PICK l, n, p : l = Len(q.h) /\ n = l - 1 /\ p = Swap(q, 1, l)
  OBVIOUS
<1>1. l \in Nat /\ l >= 1 /\ n \in 0 .. l /\ 1 \in 1 .. l /\ l \in 1 .. l /\ l \in n + 1 .. l
  BY <1>0, GoodShape
<1>2. /\ Good(p) /\ Len(p.h) = l /\ Range(p.h) = Range(q.h) /\ p.h[l] = q.h[1]
      /\ \A m \in 1 .. l : m # 1 /\ m # l => p.h[m] = q.h[m]
  BY <1>0, <1>1, SwapFacts
<1>3. Gap(p.h, 1, n)
  <2>1. ASSUME NEW m \in 2 .. n, m \div 2 # 1 PROVE ~Less(p.h[m], p.h[m \div 2])
    <3>1. m \in 2 .. l /\ m \in 1 .. l /\ m \div 2 \in 1 .. l /\ m # 1 /\ m # l /\ m \div 2 # l
      BY <1>0, <1>1, <2>1, Half
    <3>2. p.h[m] = q.h[m] /\ p.h[m \div 2] = q.h[m \div 2]
      BY <1>2, <2>1, <3>1
    <3> QED
      BY <1>0, <3>1, <3>2 DEF Ordered
  <2> QED
    BY <2>1 DEF Gap
<1>4. PICK d : d = down(p, 1, n)
  OBVIOUS
<1>5. /\ Good(d.heap) /\ Len(d.heap.h) = l /\ Range(d.heap.h) = Range(q.h)
      /\ d.heap.h[l] = q.h[1]
      /\ d.at > 1 => Ordered(d.heap.h, n)
      /\ ~(d.at > 1) => d.heap = p /\ \A m \in 2 .. n : m \div 2 = 1 => ~Less(p.h[m], p.h[1])
  <2>1. Sunk(p, l, 1, n, d)
    BY <1>1, <1>2, <1>3, <1>4, DownResult
  <2> QED
    BY <1>1, <1>2, <2>1, Zenon DEF Sunk
<1>6. Ordered(d.heap.h, n)
  <2>1. CASE d.at > 1
    BY <1>5, <2>1
  <2>2. CASE ~(d.at > 1)
    <3>1. \A m \in 2 .. n : m # 1
      OBVIOUS
    <3> QED
      BY <1>3, <1>5, <2>2, <3>1 DEF Ordered, Gap
  <2> QED
    BY <2>1, <2>2
<1>7. r = PopLast(d.heap)
  BY <1>0, <1>4 DEF HeapPop
<1>8. /\ Good(r) /\ Len(r.h) = n /\ Range(r.h) = Range(q.h) \ {q.h[1]}
      /\ \A m \in 1 .. n : r.h[m] = d.heap.h[m]
  <2>1. /\ Good(r) /\ Len(r.h) = l - 1 /\ Range(r.h) = Range(d.heap.h) \ {d.heap.h[l]}
        /\ \A m \in 1 .. l - 1 : r.h[m] = d.heap.h[m]
    <3>1. Popped(d.heap, l, r)
      BY <1>1, <1>5, <1>7, PopLastFacts
    <3> QED
      BY <3>1, Zenon DEF Popped
  <2> QED
    BY <1>0, <1>5, <2>1, Zenon
<1>9. \A m \in 2 .. n : m \in 1 .. n /\ m \div 2 \in 1 .. n
  BY <1>1, Half
<1> QED
  BY <1>6, <1>8, <1>9 DEF Ordered

\* heap.Remove.
LEMMA HeapRemoveFacts ==
    ASSUME NEW q, Good(q), Ordered(q.h, Len(q.h)), NEW i \in 1 .. Len(q.h),
           NEW r, r = HeapRemove(q, i)
    PROVE  Good(r) /\ Ordered(r.h, Len(r.h)) /\ Range(r.h) = Range(q.h) \ {q.h[i]}
<1>0. PICK l, n : l = Len(q.h) /\ n = l - 1
  OBVIOUS
<1>1. /\ l \in Nat /\ l >= 1 /\ n \in 0 .. l /\ l \in 1 .. l /\ l \in n + 1 .. l /\ i \in 1 .. l
      /\ \A m \in 1 .. l : q.h[m] \in item
      /\ \A m \in 2 .. n : m \in 2 .. l /\ m \in 1 .. n /\ m \in 1 .. l /\ m # l
                           /\ m \div 2 \in 1 .. n /\ m \div 2 \in 1 .. l /\ m \div 2 # l
  <2>1. l \in Nat /\ \A m \in 1 .. l : q.h[m] \in item
    BY <1>0, GoodShape
  <2>2. l >= 1 /\ n \in 0 .. l /\ l \in 1 .. l /\ l \in n + 1 .. l /\ i \in 1 .. l
    BY <1>0, <2>1
  <2>3. \A m \in 2 .. n : m \in 2 .. l /\ m \in 1 .. n /\ m \in 1 .. l /\ m # l
                           /\ m \div 2 \in 1 .. n /\ m \div 2 \in 1 .. l /\ m \div 2 # l
    BY <1>0, <2>2, Half
  <2> QED
    BY <2>1, <2>2, <2>3
<1>2. \A m \in 2 .. n : ~Less(q.h[m], q.h[m \div 2])
  BY <1>0, <1>1, ZenonT(30) DEF Ordered
<1>3. \E z : /\ r = PopLast(z) /\ Good(z) /\ Len(z.h) = l /\ Range(z.h) = Range(q.h)
             /\ z.h[l] = q.h[i] /\ Ordered(z.h, n)
  <2>1. CASE i = l
    <3>1. r = PopLast(q)
      BY <1>0, <2>1 DEF HeapRemove
    <3> QED
      BY <1>0, <1>2, <2>1, <3>1, Zenon DEF Ordered
  <2>2. CASE i # l
    <3>1. PICK p, d : p = Swap(q, i, l) /\ d = down(p, i, n)
      OBVIOUS
    <3>2. r = PopLast(IF d.at > i THEN d.heap ELSE up(p, i))
      BY <1>0, <2>2, <3>1 DEF HeapRemove
    <3>3. /\ Good(p) /\ Len(p.h) = l /\ Range(p.h) = Range(q.h) /\ p.h[l] = q.h[i]
          /\ \A m \in 1 .. l : m # i /\ m # l => p.h[m] = q.h[m]
      <4>1. i \in 1 .. Len(q.h) /\ l \in 1 .. Len(q.h)
        BY <1>0, <1>1, Zenon
      <4> QED
        BY <1>0, <3>1, <4>1, SwapFacts
    <3>4. i \in 1 .. n /\ n \in 1 .. l
      <4>1. l \in Nat /\ n = l - 1 /\ i \in 1 .. l
        BY <1>0, <1>1, Zenon
      <4> QED
        BY <2>2, <4>1
    <3>5. \A m \in 2 .. n : m \div 2 # i /\ m # i => ~Less(p.h[m], p.h[m \div 2])
      BY <1>1, <1>2, <3>3
    <3>6. ASSUME i > 1, NEW m \in 2 .. n, m \div 2 = i PROVE ~Less(p.h[m], p.h[i \div 2])
      <4>1. i \in 2 .. n /\ m # i /\ i \div 2 # i
        BY <3>4, <3>6, Half
      <4>2. p.h[m] = q.h[m] /\ p.h[i \div 2] = q.h[i \div 2]
        BY <1>1, <3>3, <4>1
      <4>3. ~Less(q.h[m], q.h[i]) /\ ~Less(q.h[i], q.h[i \div 2])
        BY <1>2, <3>6, <4>1
      <4>4. q.h[m] \in item /\ q.h[i] \in item /\ q.h[i \div 2] \in item
        BY <1>1, <4>1
      <4> QED
        BY <4>2, <4>3, <4>4, NotLessIsTransitive
    <3>7. Gap(p.h, i, n)
      BY <3>5, <3>6, Zenon DEF Gap
    <3>8. /\ Good(d.heap) /\ Len(d.heap.h) = l /\ Range(d.heap.h) = Range(q.h)
          /\ d.heap.h[l] = q.h[i]
          /\ d.at > i => Ordered(d.heap.h, n)
          /\ ~(d.at > i) => \A m \in 2 .. n : m \div 2 = i => ~Less(p.h[m], p.h[i])
      <4>1. Sunk(p, l, i, n, d)
        BY <1>1, <3>1, <3>3, <3>7, DownResult
      <4> QED
        BY <1>1, <3>3, <4>1, Zenon DEF Sunk
    <3>9. CASE d.at > i
      BY <3>2, <3>8, <3>9
    <3>10. CASE ~(d.at > i)
      <4>1. Rising(p.h, i, n)
        BY <3>5, <3>6, <3>8, <3>10 DEF Rising
      <4>2. PICK u : u = up(p, i)
        OBVIOUS
      <4>3. /\ Good(u) /\ Len(u.h) = l /\ Range(u.h) = Range(q.h) /\ Ordered(u.h, n)
            /\ u.h[l] = q.h[i]
        <5>1. Risen(p, l, n, u)
          BY <3>3, <3>4, <4>1, <4>2, UpResult
        <5> QED
          BY <1>1, <3>3, <5>1, Zenon DEF Risen
      <4> QED
        BY <3>2, <3>10, <4>2, <4>3
    <3> QED
      BY <3>9, <3>10
  <2> QED
    BY <2>1, <2>2
<1>4. PICK z : /\ r = PopLast(z) /\ Good(z) /\ Len(z.h) = l /\ Range(z.h) = Range(q.h)
               /\ z.h[l] = q.h[i] /\ Ordered(z.h, n)
  BY <1>3
<1>5. /\ Good(r) /\ Len(r.h) = n /\ Range(r.h) = Range(q.h) \ {q.h[i]}
      /\ \A m \in 1 .. n : r.h[m] = z.h[m]
  <2>1. /\ Good(r) /\ Len(r.h) = l - 1 /\ Range(r.h) = Range(z.h) \ {z.h[l]}
        /\ \A m \in 1 .. l - 1 : r.h[m] = z.h[m]
    <3>1. Popped(z, l, r)
      BY <1>1, <1>4, PopLastFacts
    <3> QED
      BY <3>1, Zenon DEF Popped
  <2> QED
    BY <1>0, <1>4, <2>1, Zenon
<1> QED
  <2>1. \A m \in 2 .. n : m \in 1 .. n /\ m \div 2 \in 1 .. n
    BY <1>1, Zenon
  <2> QED
    BY <1>4, <1>5, <2>1, Zenon DEF Ordered

\* The first item of a heap is before all others.
LEMMA FirstIsFirst ==
    ASSUME NEW q, Good(q), Ordered(q.h, Len(q.h)), NEW i \in 1 .. Len(q.h), i # 1
    PROVE  Less(q.h[1], q.h[i])
<1> DEFINE l == Len(q.h)
           x == q.h
           B == {m \in 1 .. l : Less(x[m], x[1])}
<1>1. l \in Nat /\ 1 \in 1 .. l /\ \A m \in 1 .. l : x[m] \in item
  BY GoodShape
<1>2. B = {}
  <2> SUFFICES ASSUME B # {} PROVE FALSE
    OBVIOUS
  <2>1. B \in SUBSET Nat
    BY <1>1
  <2>2. PICK m \in B : \A k \in B : m <= k
    <3> HIDE DEF B
    <3> QED
      BY <2>1, LeastNat
  <2>3. m \in 1 .. l /\ Less(x[m], x[1]) /\ m # 1
    BY <1>1, LessIsStrict
  <2>4. m \in 2 .. l /\ m \div 2 \in 1 .. l /\ ~(m <= m \div 2)
    BY <1>1, <2>3, Half
  <2>5. ~Less(x[m \div 2], x[1])
    BY <2>2, <2>4
  <2>6. ~Less(x[m], x[m \div 2])
    BY <2>4 DEF Ordered
  <2> QED
    BY <1>1, <2>3, <2>4, <2>5, <2>6, NotLessIsTransitive
<1>3. x[i].jobID # x[1].jobID
  BY <1>1, GoodShape
<1>4. ~Less(x[i], x[1])
  BY <1>2
<1> QED
  BY <1>1, <1>3, <1>4, LessIsTotal

-----------------------------------------------------------------------------
(* The queue.                                                              *)

\* The inductive invariant: a good heap, in order, of the jobs in the map.
QInv ==
    /\ Good(Heap(h, index)) /\ Ordered(h, Len(h))
    /\ byID = {x.jobID : x \in Range(h)}
    /\ out \in [op : {"Push", "Pop", "Remove", "Clear"}, ok : BOOLEAN, jobID : Job \cup {0}]

\* What the invariant says of the fields.
LEMMA QShape ==
    ASSUME QInv
    PROVE  /\ Len(h) \in Nat /\ h \in Seq(item) /\ index \in [Job -> Nat]
           /\ DOMAIN h = 1 .. Len(h)
           /\ \A i \in 1 .. Len(h) : h[i] \in item /\ index[h[i].jobID] = i
           /\ \A j \in Job : index[j] # 0 => index[j] \in 1 .. Len(h) /\ h[index[j]].jobID = j
           /\ \A x, y \in Range(h) : x.jobID = y.jobID => x = y
           /\ \A j \in Job : j \in byID <=> index[j] # 0
           /\ \A j : j \in byID <=> \E x \in Range(h) : x.jobID = j
<1>1. PICK q : q = Heap(h, index)
  OBVIOUS
<1>2. q.h = h /\ q.index = index /\ Good(q)
  BY <1>1 DEF Heap, QInv
<1>3. /\ Len(h) \in Nat /\ h \in Seq(item) /\ index \in [Job -> Nat] /\ DOMAIN h = 1 .. Len(h)
      /\ \A i \in 1 .. Len(h) : h[i] \in item /\ h[i].jobID \in Job
      /\ \A i, j \in 1 .. Len(h) : h[i].jobID = h[j].jobID => i = j
  BY <1>2, GoodShape
<1>4. /\ \A i \in 1 .. Len(h) : index[h[i].jobID] = i
      /\ \A j \in Job : index[j] # 0 => index[j] \in 1 .. Len(h) /\ h[index[j]].jobID = j
  BY <1>2 DEF Good
<1>5. \A x, y \in Range(h) : x.jobID = y.jobID => x = y
  BY <1>3, Zenon DEF Range
<1>6. \A j : j \in byID <=> \E x \in Range(h) : x.jobID = j
  BY Zenon DEF QInv
<1>7. \A j \in Job : j \in byID <=> index[j] # 0
  <2>1. ASSUME NEW j \in Job, j \in byID PROVE index[j] # 0
    <3>1. PICK i \in DOMAIN h : h[i].jobID = j
      BY <1>6, <2>1, Zenon DEF Range
    <3> QED
      BY <1>3, <1>4, <3>1
  <2>2. ASSUME NEW j \in Job, index[j] # 0 PROVE j \in byID
    <3>1. index[j] \in DOMAIN h /\ h[index[j]].jobID = j
      BY <1>3, <1>4, <2>2
    <3> QED
      BY <1>6, <3>1, Zenon DEF Range
  <2> QED
    BY <2>1, <2>2
<1> QED
  BY <1>3, <1>4, <1>5, <1>6, <1>7

\* A heap that an operation returns.
LEMMA Returned ==
    ASSUME NEW r, Good(r), Ordered(r.h, Len(r.h)), Becomes(r),
           byID' = {x.jobID : x \in Range(r.h)},
           out' \in [op : {"Push", "Pop", "Remove", "Clear"}, ok : BOOLEAN, jobID : Job \cup {0}]
    PROVE  QInv' /\ Range(h') = Range(r.h)
<1>1. r = Heap(r.h, r.index)
  BY DEF Heap, Good, Queue
<1>2. h' = r.h /\ index' = r.index
  BY DEF Becomes
<1>3. Heap(h', index') = r
  BY <1>1, <1>2
<1> QED
  BY <1>2, <1>3 DEF QInv

\* The queue begins empty.
LEMMA QInit == QueueInit => QInv
<1> SUFFICES ASSUME QueueInit PROVE QInv
  OBVIOUS
<1>1. h = <<>> /\ index = [j \in Job |-> 0] /\ byID = {} /\ out = Order!Result("Clear", TRUE, 0)
  BY DEF QueueInit
<1>2. h \in Seq(item) /\ Len(h) = 0 /\ Range(h) = {}
  BY <1>1 DEF Range
<1>3. Good(Heap(h, index))
  BY <1>1, <1>2 DEF Good, Queue, Heap
<1>4. Ordered(h, Len(h))
  BY <1>2 DEF Ordered
<1> QED
  BY <1>1, <1>2, <1>3, <1>4 DEF QInv, Order!Result

\* Clear.
LEMMA ClearKeeps == ASSUME QInv, Clear PROVE QInv' /\ Order!Clear
<1>1. h' = <<>> /\ index' = [j \in Job |-> 0] /\ byID' = {} /\ out' = Order!Result("Clear", TRUE, 0)
  BY DEF Clear
<1>2. h' \in Seq(item) /\ Len(h') = 0 /\ Range(h') = {}
  BY <1>1 DEF Range
<1>3. Good(Heap(h', index'))
  BY <1>1, <1>2 DEF Good, Queue, Heap
<1>4. Ordered(h', Len(h'))
  BY <1>2 DEF Ordered
<1> QED
  BY <1>1, <1>2, <1>3, <1>4 DEF QInv, Order!Result, Order!Clear

\* Push.
LEMMA PushKeeps == ASSUME QInv, NEW x \in Submitted, Push(x) PROVE QInv' /\ Order!Push(x)
<1>0. x \in item /\ x.jobID \in Job
  BY QueueAssumption DEF item
<1>1. out' = Order!Result("Push", x.jobID \notin byID, x.jobID)
  BY DEF Push
<1>2. out' \in [op : {"Push", "Pop", "Remove", "Clear"}, ok : BOOLEAN, jobID : Job \cup {0}]
  BY <1>0, <1>1 DEF Order!Result
<1>3. Order!Queued(x.jobID) <=> x.jobID \in byID
  BY QShape, Zenon DEF Order!Queued
<1>4. CASE x.jobID \in byID
  <2>1. UNCHANGED <<h, index, byID>>
    BY <1>4 DEF Push
  <2> QED
    BY <1>1, <1>2, <1>3, <1>4, <2>1 DEF QInv, Order!Push
<1>5. CASE x.jobID \notin byID
  <2>1. PICK q, r : q = Heap(h, index) /\ r = HeapPush(q, x)
    OBVIOUS
  <2>2. Becomes(r) /\ byID' = byID \cup {x.jobID}
    BY <1>5, <2>1, ZenonT(30) DEF Push
  <2>3. q.h = h /\ q.index = index /\ Good(q) /\ Ordered(q.h, Len(q.h)) /\ index[x.jobID] = 0
    BY <1>0, <1>5, <2>1, QShape DEF QInv, Heap
  <2>4. Good(r) /\ Ordered(r.h, Len(r.h)) /\ Range(r.h) = Range(h) \cup {x}
    BY <1>0, <2>1, <2>3, HeapPushFacts, ZenonT(30)
  <2>5. byID' = {y.jobID : y \in Range(r.h)}
    BY <2>2, <2>4, ZenonT(30) DEF QInv
  <2>6. QInv' /\ Range(h') = Range(h) \cup {x}
    BY <1>2, <2>2, <2>4, <2>5, Returned
  <2> QED
    BY <1>1, <1>3, <1>5, <2>6, Zenon DEF Order!Push
<1> QED
  BY <1>4, <1>5

\* Pop.
LEMMA PopKeeps == ASSUME QInv, Pop PROVE QInv' /\ Order!Pop
<1>1. CASE h = <<>>
  <2>1. out' = Order!Result("Pop", FALSE, 0) /\ UNCHANGED <<h, index, byID>> /\ Range(h) = {}
    BY <1>1 DEF Pop, Range
  <2> QED
    BY <2>1 DEF QInv, Order!Result, Order!Pop
<1>2. CASE h # <<>>
  <2>1. PICK q, r : q = Heap(h, index) /\ r = HeapPop(q)
    OBVIOUS
  <2>2. Becomes(r) /\ byID' = byID \ {h[1].jobID} /\ out' = Order!Result("Pop", TRUE, h[1].jobID)
    BY <1>2, <2>1 DEF Pop
  <2>3. q.h = h /\ Good(q) /\ Ordered(q.h, Len(q.h))
    BY <2>1 DEF QInv, Heap
  <2>4. Len(h) \in Nat /\ Len(h) # 0 /\ 1 \in 1 .. Len(h) /\ h[1] \in item /\ h[1] \in Range(h)
    <3>1. Len(h) # 0
      BY <1>2, QShape
    <3> QED
      BY <3>1, QShape DEF Range
  <2>5. Good(r) /\ Ordered(r.h, Len(r.h)) /\ Range(r.h) = Range(h) \ {h[1]}
    BY <2>1, <2>3, <2>4, HeapPopFacts
  <2>6. byID' = {y.jobID : y \in Range(r.h)}
    <3>1. byID = {y.jobID : y \in Range(h)} /\ \A y \in Range(h) : y.jobID = h[1].jobID => y = h[1]
      BY <2>4, QShape, Zenon DEF QInv
    <3> QED
      BY <2>2, <2>5, <3>1, Zenon
  <2>7. out' \in [op : {"Push", "Pop", "Remove", "Clear"}, ok : BOOLEAN, jobID : Job \cup {0}]
    BY <2>2, <2>4 DEF Order!Result, item
  <2>8. QInv' /\ Range(h') = Range(h) \ {h[1]}
    BY <2>2, <2>5, <2>6, <2>7, Returned, ZenonT(30)
  <2>9. ASSUME NEW y \in Range(h) \ {h[1]} PROVE Order!Before(h[1], y)
    <3>1. PICK i \in 1 .. Len(h) : y = h[i]
      BY QShape, Zenon DEF Range
    <3>2. i # 1 /\ h[i] \in item
      BY <2>9, <3>1, QShape
    <3>3. Less(h[1], h[i])
      BY <2>3, <3>2, FirstIsFirst
    <3> QED
      BY <2>4, <3>1, <3>2, <3>3, LessIsBefore
  <2> QED
    BY <2>2, <2>4, <2>8, <2>9, Zenon DEF Order!Pop
<1> QED
  BY <1>1, <1>2

\* Remove.
LEMMA RemoveKeeps == ASSUME QInv, NEW j \in Job, Remove(j) PROVE QInv' /\ Order!Remove(j)
<1>1. out' = Order!Result("Remove", j \in byID, j)
  BY DEF Remove
<1>2. out' \in [op : {"Push", "Pop", "Remove", "Clear"}, ok : BOOLEAN, jobID : Job \cup {0}]
  BY <1>1 DEF Order!Result
<1>3. Order!Queued(j) <=> j \in byID
  BY QShape, Zenon DEF Order!Queued
<1>4. CASE j \notin byID
  <2>1. UNCHANGED <<h, index, byID>>
    BY <1>4 DEF Remove
  <2>2. Range(h) = {x \in Range(h) : x.jobID # j}
    BY <1>4, QShape, Zenon
  <2>3. QInv'
    BY <1>2, <2>1 DEF QInv
  <2>4. Range(h)' = Range(h)
    BY <2>1
  <2>5. out' = Order!Result("Remove", Order!Queued(j), j)
    <3>1. (j \in byID) = FALSE /\ Order!Queued(j) = FALSE
      BY <1>3, <1>4 DEF Order!Queued
    <3> QED
      BY <1>1, <3>1, Zenon
  <2> QED
    BY <2>2, <2>3, <2>4, <2>5 DEF Order!Remove
<1>5. CASE j \in byID
  <2>1. PICK q, r : q = Heap(h, index) /\ r = HeapRemove(q, index[j])
    OBVIOUS
  <2>2. Becomes(r) /\ byID' = byID \ {j}
    BY <1>5, <2>1 DEF Remove
  <2>3. /\ q.h = h /\ Good(q) /\ Ordered(q.h, Len(q.h))
        /\ index[j] \in 1 .. Len(h) /\ h[index[j]].jobID = j /\ h[index[j]] \in Range(h)
    <3>1. index[j] \in 1 .. Len(h) /\ h[index[j]].jobID = j /\ index[j] \in DOMAIN h
      BY <1>5, QShape
    <3> QED
      BY <2>1, <3>1 DEF QInv, Heap, Range
  <2>4. Good(r) /\ Ordered(r.h, Len(r.h)) /\ Range(r.h) = Range(h) \ {h[index[j]]}
    <3>1. PICK i : i = index[j]
      OBVIOUS
    <3>2. i \in 1 .. Len(q.h) /\ r = HeapRemove(q, i)
      BY <2>1, <2>3, <3>1
    <3>3. Good(r) /\ Ordered(r.h, Len(r.h)) /\ Range(r.h) = Range(q.h) \ {q.h[i]}
      BY <2>3, <3>2, HeapRemoveFacts, Zenon
    <3> QED
      BY <2>3, <3>1, <3>3
  <2>5. Range(r.h) = {x \in Range(h) : x.jobID # j}
    <3>1. \A y \in Range(h) : y.jobID = j => y = h[index[j]]
      <4> SUFFICES ASSUME NEW y \in Range(h), y.jobID = j PROVE y = h[index[j]]
        OBVIOUS
      <4>1. y.jobID = h[index[j]].jobID
        BY <2>3
      <4> QED
        BY <2>3, <4>1, QShape, Zenon
    <3> QED
      BY <2>3, <2>4, <3>1, Zenon
  <2>6. byID' = {y.jobID : y \in Range(r.h)}
    BY <2>2, <2>5, Zenon DEF QInv
  <2>7. QInv' /\ Range(h') = {x \in Range(h) : x.jobID # j}
    BY <1>2, <2>2, <2>4, <2>5, <2>6, Returned
  <2> QED
    BY <1>1, <1>3, <1>5, <2>7, Zenon DEF Order!Remove
<1> QED
  BY <1>4, <1>5

\* Every operation keeps the invariant, and does what ReadyOrder says.
LEMMA QNext == QInv /\ [QueueNext]_queueVars => QInv' /\ [Order!Next]_Order!vars
<1> SUFFICES ASSUME QInv, [QueueNext]_queueVars PROVE QInv' /\ [Order!Next]_Order!vars
  OBVIOUS
<1>1. CASE UNCHANGED queueVars
  BY <1>1 DEF queueVars, QInv, Order!vars
<1>2. ASSUME NEW x \in Submitted, Push(x) PROVE QInv' /\ Order!Next
  <2>1. x \in Order!Item
    BY QueueAssumption DEF Order!Item, item
  <2> QED
    BY <1>2, <2>1, PushKeeps DEF Order!Next
<1>3. CASE Pop
  BY <1>3, PopKeeps DEF Order!Next
<1>4. ASSUME NEW j \in Job, Remove(j) PROVE QInv' /\ Order!Next
  BY <1>4, RemoveKeeps DEF Order!Next
<1>5. CASE Clear
  BY <1>5, ClearKeeps DEF Order!Next
<1> QED
  BY <1>1, <1>2, <1>3, <1>4, <1>5 DEF QueueNext

\* The invariant gives the types of the fields.
LEMMA QInvGivesTypes == QInv => QueueTypeOK
<1> SUFFICES ASSUME QInv PROVE QueueTypeOK
  OBVIOUS
<1>1. ASSUME NEW j \in Job PROVE index[j] \in 0 .. Len(h)
  BY QShape
<1>2. index \in [Job -> 0 .. Len(h)]
  <2>1. index \in [Job -> Nat]
    BY QShape
  <2> QED
    BY <1>1, <2>1
<1>3. byID \subseteq Job
  <2>1. \A x \in Range(h) : x.jobID \in Job
    <3>1. \A i \in DOMAIN h : h[i] \in item
      BY QShape
    <3>2. \A x \in Range(h) : x \in item
      BY <3>1, Zenon DEF Range
    <3> QED
      BY <3>2, ItemFields, Zenon
  <2> QED
    BY <2>1, Zenon DEF QInv
<1>4. h \in Seq(item)
  BY QShape
<1> QED
  BY <1>2, <1>3, <1>4 DEF QueueTypeOK, QInv

\* The invariant gives what Remove relies on.
LEMMA QInvGivesMap == QInv => MapMatchesHeap
<1> SUFFICES ASSUME QInv PROVE MapMatchesHeap
  OBVIOUS
<1>1. byID = {x.jobID : x \in Range(h)}
  BY DEF QInv
<1> QED
  BY <1>1, QShape DEF MapMatchesHeap

\* Heap, map and indexes always have their types: no place is outside the heap.
THEOREM QueueTypes == QueueSpec => []QueueTypeOK
BY QInit, QNext, QInvGivesTypes, PTL DEF QueueSpec

\* Heap, id map and item indexes agree after every operation, for any jobs, priorities and
\* creation times: whatever Swap, up and down did, Remove takes out the item it was asked for.
THEOREM PlacesAreKnown == QueueSpec => []MapMatchesHeap
BY QInit, QNext, QInvGivesMap, PTL DEF QueueSpec

\* The heap of container/heap under Push, Pop, Remove and Clear does and returns what the
\* set ordered by priority, age and id does: Pop returns the first of all queued jobs.
THEOREM QueueIsOrdered == QueueSpec => ImplementsReadyOrder
<1>1. QueueInit => Order!Init
  BY DEF QueueInit, Order!Init, Range
<1> QED
  BY <1>1, QInit, QNext, PTL DEF QueueSpec, ImplementsReadyOrder, Order!Spec

-----------------------------------------------------------------------------
(* Backoff.                                                                *)

\* The greater of two numbers.
LEMMA MaxOf ==
    ASSUME NEW a \in Int, NEW b \in Int
    PROVE  Max({a, b}) = IF a >= b THEN a ELSE b
<1> DEFINE Greatest(x) == x \in {a, b} /\ \A y \in {a, b} : x >= y
<1>1. Greatest(IF a >= b THEN a ELSE b)
  OBVIOUS
<1>2. ASSUME NEW x, Greatest(x) PROVE x = IF a >= b THEN a ELSE b
  BY <1>2
<1>3. Max({a, b}) = CHOOSE x : Greatest(x)
  BY DEF Max
<1> HIDE DEF Greatest
<1> QED
  BY <1>1, <1>2, <1>3

\* The smaller of two numbers.
LEMMA MinOf ==
    ASSUME NEW a \in Int, NEW b \in Int
    PROVE  Min({a, b}) = IF a <= b THEN a ELSE b
<1> DEFINE Least(x) == x \in {a, b} /\ \A y \in {a, b} : x <= y
<1>1. Least(IF a <= b THEN a ELSE b)
  OBVIOUS
<1>2. ASSUME NEW x, Least(x) PROVE x = IF a <= b THEN a ELSE b
  BY <1>2
<1>3. Min({a, b}) = CHOOSE x : Least(x)
  BY DEF Min
<1> HIDE DEF Least
<1> QED
  BY <1>1, <1>2, <1>3

\* A function that is defined from its value before has a value everywhere.
Unfolds(T, step, s, n, f) ==
    f \in [1 .. n -> T] /\ f = [i \in 1 .. n |-> IF i = 1 THEN s ELSE step[f[i - 1]]]

\* There is such a function.
LEMMA Recursion ==
    ASSUME NEW T, NEW step \in [T -> T], NEW s \in T, NEW n \in Nat, n >= 1
    PROVE  \E f : Unfolds(T, step, s, n, f)
<1>1. n - 1 \in Nat
  OBVIOUS
<1>2. PICK g : Iteration(T, step, s, n - 1, g)
  BY <1>1, Iterates
<1>3. /\ g \in [0 .. n - 1 -> T] /\ g[0] = s
      /\ \A k \in 1 .. n - 1 : g[k] = step[g[k - 1]]
  BY <1>2, Zenon DEF Iteration
<1> DEFINE f == [i \in 1 .. n |-> g[i - 1]]
<1>4. \A i \in 1 .. n : i - 1 \in 0 .. n - 1
  OBVIOUS
<1>5. f \in [1 .. n -> T]
  BY <1>3, <1>4, Zenon
<1>6. ASSUME NEW i \in 1 .. n PROVE f[i] = IF i = 1 THEN s ELSE step[f[i - 1]]
  <2>1. CASE i = 1
    BY <1>3, <2>1
  <2>2. CASE i # 1
    <3>1. i - 1 \in 1 .. n - 1 /\ i - 1 \in 1 .. n
      BY <2>2
    <3> QED
      BY <1>3, <2>2, <3>1
  <2> QED
    BY <2>1, <2>2
<1>7. f = [i \in 1 .. n |-> IF i = 1 THEN s ELSE step[f[i - 1]]]
  BY <1>6, Zenon
<1> HIDE DEF f
<1> QED
  BY <1>5, <1>7, Zenon DEF Unfolds

\* An unset field has a default that is not 0.
LEMMA PolicyFields ==
    ASSUME NEW p \in RetryPolicy
    PROVE  /\ initial(p) \in Nat /\ maxB(p) \in Nat /\ mult(p) \in Nat /\ jitter(p) \in Nat
           /\ initial(p) >= 1 /\ maxB(p) >= 1 /\ mult(p) >= 1
BY DEF RetryPolicy, initial, maxB, mult, jitter, Or

\* Multiplying by a percentage.
LEMMA Scaled ==
    ASSUME NEW a \in Nat, NEW m \in Nat, NEW x, x = (a * m) \div 100
    PROVE  x \in Nat /\ (m >= 100 => x >= a) /\ (m < 100 => x <= a /\ (a >= 1 => x < a))
<1>1. PICK y : y = a * m
  OBVIOUS
<1>2. y \in Nat /\ (m >= 100 => y >= 100 * a) /\ (m < 100 => y <= 99 * a)
  BY <1>1
<1>3. x = y \div 100
  BY <1>1
<1> QED
  BY <1>2, <1>3

\* How long the loop of Backoff has made the delay after i attempts, and the documented one.
Follows(p, r, e) ==
    /\ e \in Nat
    /\ \/ r.stop = TRUE /\ r.base = maxB(p) /\ e >= maxB(p) /\ mult(p) >= 100
       \/ r.stop = FALSE /\ r.base = e /\ e <= maxB(p)

\* A round of the loop keeps them together: once the maximum is met, the power stays above it.
LEMMA FollowsOn ==
    ASSUME NEW p \in RetryPolicy, NEW r, NEW e, Follows(p, r, e),
           NEW r2, r2 = IF r.stop THEN r ELSE Grown(p, r.base),
           NEW e2, e2 = (e * mult(p)) \div 100
    PROVE  Follows(p, r2, e2)
<1>1. /\ maxB(p) \in Nat /\ mult(p) \in Nat /\ maxB(p) >= 1
  BY PolicyFields
<1>2. /\ e2 \in Nat /\ (mult(p) >= 100 => e2 >= e)
      /\ (mult(p) < 100 => e2 <= e /\ (e >= 1 => e2 < e))
  <2>1. e \in Nat
    BY DEF Follows
  <2> QED
    BY <1>1, <2>1, Scaled
<1>3. CASE r.stop = TRUE /\ r.base = maxB(p) /\ e >= maxB(p) /\ mult(p) >= 100 /\ e \in Nat
  <2>1. r2 = r
    BY <1>3
  <2>2. e2 >= maxB(p)
    BY <1>1, <1>2, <1>3
  <2> QED
    BY <1>2, <1>3, <2>1, <2>2 DEF Follows
<1>4. CASE r.stop = FALSE /\ r.base = e /\ e <= maxB(p) /\ e \in Nat
  <2>1. r2 = IF e2 >= maxB(p) THEN [base |-> maxB(p), stop |-> TRUE]
             ELSE [base |-> e2, stop |-> FALSE]
    BY <1>4 DEF Grown
  <2>2. e2 >= maxB(p) => mult(p) >= 100
    BY <1>1, <1>2, <1>4
  <2>3. CASE e2 >= maxB(p)
    BY <1>2, <2>1, <2>2, <2>3 DEF Follows
  <2>4. CASE ~(e2 >= maxB(p))
    <3>1. e2 <= maxB(p)
      BY <1>1, <1>2, <2>4
    <3> QED
      BY <1>2, <2>1, <2>4, <3>1 DEF Follows
  <2> QED
    BY <2>3, <2>4
<1> QED
  BY <1>3, <1>4, Zenon DEF Follows

\* The loop of Backoff computes min(max_backoff, initial * multiplier^(n - 1)).
LEMMA BaseIsDocumented ==
    ASSUME NEW p \in RetryPolicy, NEW n \in Nat, n >= 1, initial(p) <= maxB(p)
    PROVE  Base(p, n) \in Nat /\ Base(p, n) = Min({maxB(p), Exponential(p, n)})
<1> DEFINE T == [base : Nat, stop : BOOLEAN]
           first == [base |-> initial(p), stop |-> FALSE]
           grow == [s \in T |-> IF s.stop THEN s ELSE Grown(p, s.base)]
           times == [e \in Nat |-> (e * mult(p)) \div 100]
           IsR(f) == f = [i \in 1 .. n |-> IF i = 1 THEN first
                                           ELSE IF f[i - 1].stop THEN f[i - 1] ELSE Grown(p, f[i - 1].base)]
           IsE(f) == f = [i \in 1 .. n |-> IF i = 1 THEN initial(p) ELSE (f[i - 1] * mult(p)) \div 100]
           R == CHOOSE f : IsR(f)
           E == CHOOSE f : IsE(f)
<1>1. /\ initial(p) \in Nat /\ maxB(p) \in Nat /\ mult(p) \in Nat
  BY PolicyFields
<1>2. first \in T /\ grow \in [T -> T] /\ times \in [Nat -> Nat]
  <2>1. first \in T
    BY <1>1
  <2>2. \A e \in Nat : (e * mult(p)) \div 100 \in Nat
    BY <1>1, Scaled
  <2>3. ASSUME NEW s \in T PROVE (IF s.stop THEN s ELSE Grown(p, s.base)) \in T
    <3>1. s.base \in Nat /\ (s.base * mult(p)) \div 100 \in Nat
      BY <2>2
    <3> QED
      BY <1>1, <3>1 DEF Grown
  <2> HIDE DEF T, first
  <2> QED
    BY <2>1, <2>2, <2>3
<1>3. \E f : IsR(f)
  <2> HIDE DEF T, first, grow
  <2>1. PICK f \in [1 .. n -> T] : f = [i \in 1 .. n |-> IF i = 1 THEN first ELSE grow[f[i - 1]]]
    <3>1. \E f : Unfolds(T, grow, first, n, f)
      BY <1>2, Recursion
    <3> QED
      BY <3>1, Zenon DEF Unfolds
  <2>2. ASSUME NEW i \in 1 .. n
        PROVE  f[i] = IF i = 1 THEN first
                      ELSE IF f[i - 1].stop THEN f[i - 1] ELSE Grown(p, f[i - 1].base)
    <3>1. CASE i = 1
      BY <2>1, <3>1
    <3>2. CASE i # 1
      <4>1. i - 1 \in 1 .. n
        BY <3>2
      <4>2. f[i - 1] \in T /\ f[i] = grow[f[i - 1]]
        BY <2>1, <3>2, <4>1, Zenon
      <4> QED
        BY <3>2, <4>2 DEF grow
    <3> QED
      BY <3>1, <3>2
  <2>3. f = [i \in 1 .. n |-> f[i]]
    BY <2>1, Zenon
  <2>4. IsR(f)
    BY <2>2, <2>3, Zenon
  <2> HIDE DEF IsR
  <2> QED
    BY <2>4
<1>4. \E f : IsE(f)
  <2> HIDE DEF times
  <2>1. PICK f \in [1 .. n -> Nat] : f = [i \in 1 .. n |-> IF i = 1 THEN initial(p) ELSE times[f[i - 1]]]
    <3>1. \E f : Unfolds(Nat, times, initial(p), n, f)
      BY <1>1, <1>2, Recursion, Zenon
    <3> QED
      BY <3>1, Zenon DEF Unfolds
  <2>2. ASSUME NEW i \in 1 .. n
        PROVE  f[i] = IF i = 1 THEN initial(p) ELSE (f[i - 1] * mult(p)) \div 100
    <3>1. CASE i = 1
      BY <2>1, <3>1
    <3>2. CASE i # 1
      <4>1. i - 1 \in 1 .. n
        BY <3>2
      <4>2. f[i - 1] \in Nat /\ f[i] = times[f[i - 1]]
        BY <2>1, <3>2, <4>1, Zenon
      <4> QED
        BY <3>2, <4>2 DEF times
    <3> QED
      BY <3>1, <3>2
  <2>3. f = [i \in 1 .. n |-> f[i]]
    BY <2>1, Zenon
  <2>4. IsE(f)
    BY <2>2, <2>3, Zenon
  <2> HIDE DEF IsE
  <2> QED
    BY <2>4
<1>5. IsR(R) /\ IsE(E)
  <2> HIDE DEF IsR, IsE
  <2> QED
    BY <1>3, <1>4
<1>6. Base(p, n) = R[n].base /\ Exponential(p, n) = E[n]
  <2>1. Max({n, 1}) = n
    BY MaxOf
  <2> QED
    BY <2>1, Zenon DEF Base, Exponential
<1> HIDE DEF R, E
<1>7. /\ R[1] = first /\ E[1] = initial(p)
      /\ \A i \in 2 .. n : /\ R[i] = IF R[i - 1].stop THEN R[i - 1] ELSE Grown(p, R[i - 1].base)
                           /\ E[i] = (E[i - 1] * mult(p)) \div 100
  <2>1. 1 \in 1 .. n /\ \A i \in 2 .. n : i \in 1 .. n /\ i # 1
    OBVIOUS
  <2> HIDE DEF first
  <2> QED
    BY <1>5, <2>1, Zenon
<1> DEFINE S == {k \in 0 .. n - 1 : Follows(p, R[k + 1], E[k + 1])}
<1>8. 0 \in S
  BY <1>1, <1>7 DEF Follows
<1>9. ASSUME NEW k \in 0 .. n - 2, k \in S PROVE k + 1 \in S
  <2>1. /\ (k + 1) + 1 \in 2 .. n /\ ((k + 1) + 1) - 1 = k + 1 /\ k + 1 \in 0 .. n - 1
    OBVIOUS
  <2>2. Follows(p, R[k + 1], E[k + 1])
    BY <1>9
  <2>3. Follows(p, R[(k + 1) + 1], E[(k + 1) + 1])
    BY <1>7, <2>1, <2>2, FollowsOn
  <2> QED
    BY <2>1, <2>3
<1>10. Follows(p, R[n], E[n])
  <2> HIDE DEF S
  <2>1. n - 1 \in Nat /\ (n - 1) - 1 = n - 2 /\ n - 1 \in 0 .. n - 1 /\ (n - 1) + 1 = n
    OBVIOUS
  <2>2. \A k \in 0 .. n - 1 : k \in S
    BY <1>8, <1>9, <2>1, EveryRound
  <2>3. n - 1 \in S
    BY <2>1, <2>2
  <2> QED
    BY <2>1, <2>3 DEF S
<1>11. Min({maxB(p), E[n]}) = IF maxB(p) <= E[n] THEN maxB(p) ELSE E[n]
  BY <1>1, <1>10, MinOf DEF Follows
<1> QED
  BY <1>1, <1>6, <1>10, <1>11 DEF Follows

\* Jitter moves a delay by no more than its share, but for the fraction that is cut off.
Within(D, j, d) == d * 100 <= D * (100 + j) /\ d * 100 > D * (100 - j) - 100

\* Backoff's jitter does that.
LEMMA JitterWithin ==
    ASSUME NEW D \in Nat, NEW j \in Nat, NEW r \in -100 .. 100
    PROVE  Within(D, j, Jittered(D, j, r))
<1>0. PICK d : d = Jittered(D, j, r)
  OBVIOUS
<1>1. PICK u, w, x : u = D * j /\ w = r * u /\ x = D * (10000 + r * j)
  OBVIOUS
<1>2. u \in Nat /\ w \in Int /\ x \in Int
  BY <1>1
<1>3. x = 10000 * D + w
  BY <1>1
<1>4. w <= 100 * u /\ w >= -100 * u
  BY <1>1, <1>2
<1>5. D * (100 + j) = 100 * D + u /\ D * (100 - j) = 100 * D - u
  BY <1>1
<1>6. PICK k : k = x \div 10000
  OBVIOUS
<1>7. k \in Int /\ 10000 * k <= x /\ x < 10000 * k + 10000
  BY <1>2, <1>6
<1>8. d = IF 0 >= k THEN 0 ELSE k
  BY <1>0, <1>1, <1>6, <1>7, MaxOf DEF Jittered
<1>9. d * 100 <= D * (100 + j) /\ d * 100 > D * (100 - j) - 100
  BY <1>2, <1>3, <1>4, <1>5, <1>7, <1>8
<1> QED
  BY <1>0, <1>9 DEF Within

\* What a job that waits remembers.
RInv ==
    /\ attempt \in Nat
    /\ attempt > 0 => policy \in RetryPolicy /\ delay \in BackoffDelays(policy, attempt)

\* A retried job keeps it.
LEMMA RetryKeeps == RInv /\ [Retry \/ Ends]_retryVars => RInv'
<1> SUFFICES ASSUME RInv, [Retry \/ Ends]_retryVars PROVE RInv'
  OBVIOUS
<1>1. CASE Retry
  <2>1. /\ policy' \in IF attempt = 0 THEN Policies ELSE {policy}
        /\ attempt' = attempt + 1 /\ delay' \in BackoffDelays(policy', attempt + 1)
    BY <1>1 DEF Retry
  <2>2. attempt \in Nat /\ attempt' \in Nat
    BY <2>1 DEF RInv
  <2>3. policy' \in RetryPolicy
    BY <2>1, <2>2, BackoffAssumption DEF RInv
  <2> QED
    BY <2>1, <2>2, <2>3 DEF RInv
<1>2. CASE Ends
  BY <1>2 DEF Ends, RInv
<1>3. CASE UNCHANGED retryVars
  BY <1>3 DEF retryVars, RInv
<1> QED
  BY <1>1, <1>2, <1>3

\* A delay that Backoff may return is the documented one.
LEMMA RInvGivesDelay == RInv => DelayIsDocumented
<1> SUFFICES ASSUME RInv, attempt > 0, initial(policy) <= maxB(policy)
             PROVE  LET documented == Min({maxB(policy), Exponential(policy, attempt)}) IN
                    /\ delay * 100 <= documented * (100 + jitter(policy))
                    /\ delay * 100 > documented * (100 - jitter(policy)) - 100
  BY DEF DelayIsDocumented
<1>1. policy \in RetryPolicy /\ attempt \in Nat /\ attempt >= 1 /\ delay \in BackoffDelays(policy, attempt)
  BY DEF RInv
<1>2. PICK D, j : D = Base(policy, attempt) /\ j = jitter(policy)
  OBVIOUS
<1>3. D \in Nat /\ j \in Nat /\ D = Min({maxB(policy), Exponential(policy, attempt)})
  BY <1>1, <1>2, BaseIsDocumented, PolicyFields
<1>4. PICK r \in Random : delay = Jittered(D, j, r)
  <2>1. \E r \in Random : delay = Jittered(Base(policy, attempt), jitter(policy), r)
    BY <1>1, Zenon DEF BackoffDelays
  <2> QED
    BY <1>2, <2>1, Zenon
<1>5. r \in -100 .. 100
  BY BackoffAssumption
<1>6. Within(D, j, delay)
  BY <1>3, <1>4, <1>5, JitterWithin, Zenon
<1> QED
  BY <1>2, <1>3, <1>6 DEF Within

\* Every delay is the documented one, for every policy whose first delay is within its
\* maximum, however often it is applied: Backoff's loop, which stops at the maximum, computes
\* the minimum of the maximum and the power, and jitter and rounding stay within their share.
THEOREM DelaysAreDocumented == RetrySpec => []DelayIsDocumented
<1>1. RetryInit => RInv
  BY DEF RetryInit, RInv
<1> QED
  BY <1>1, RetryKeeps, RInvGivesDelay, PTL DEF RetrySpec

-----------------------------------------------------------------------------
(* The worker registry.                                                    *)

\* A record whose verdict fits its age.
Earned(info) ==
    /\ info.state = "DEAD" => info.age > Timeout
    /\ info.state = "SUSPECT" => info.age > Timeout \div 2

Info == {info \in WorkerInfo : Earned(info)}

RecordsInv ==
    /\ bucket \in [Worker -> Info \cup {Unknown}]
    /\ workers \in [Worker -> Info \cup {Unknown}]

\* A handler's locals.
Fine(r) ==
    /\ r \in {Idle} \cup Putting \cup Polling
    /\ r.pc \in {"put", "cache"} => r.info \in Info

HandlersInv ==
    /\ handlers \in [Handler -> {Idle} \cup Putting \cup Polling]
    /\ \A k \in Handler : Fine(handlers[k])

\* A sweep's copies.
Proper(s) ==
    /\ s \in Sweep
    /\ \A v \in s.todo : v.info \in Info
    /\ s.pc = "cache" => s.cur \in Verdicts /\ s.cur.info \in Info

RestInv ==
    /\ leader \in BOOLEAN /\ faults \in 0 .. MaxFaults
    /\ leases \in [Task -> {Free} \cup Lease]

SweepInv ==
    /\ reaper.pc \in {"idle", "dead", "expired"} => reaper.tasks = {}
    /\ reaper.pc \in {"idle", "expired"} => reaper.dead = {}
    /\ \A t \in Task : leases[t] # Free /\ leases[t].doomed =>
           t \in reaper.tasks \/ leases[t].worker \in reaper.dead

IInv == RecordsInv /\ HandlersInv /\ Proper(reaper) /\ RestInv /\ SweepInv

-----------------------------------------------------------------------------
(* Records and sweeps.                                                     *)

LEMMA HalfTimeout ==
    /\ Timeout \in Nat /\ Timeout \div 2 \in Nat /\ Overdue \in Nat /\ Expired \in Nat
    /\ 0 \in 0 .. Overdue /\ 0 \in 0 .. Expired
BY TimeoutAssumption DEF Overdue, Expired

LEMMA AliveInfo == Alive \in Info /\ Alive \in WorkerInfo
BY TimeoutAssumption DEF Alive, Info, WorkerInfo, State, Earned, Overdue

LEMMA RefreshedInfo == ASSUME NEW info \in WorkerInfo PROVE Refreshed(info) \in Info
<1>1. Refreshed(info) \in WorkerInfo /\ Refreshed(info).state = "ALIVE"
  BY HalfTimeout, Zenon DEF Refreshed, WorkerInfo, State
<1>. QED  BY <1>1 DEF Info, Earned

LEMMA JudgedInfo ==
    ASSUME NEW age \in 0 .. Overdue, NEW info, info = [state |-> Verdict(age), age |-> age]
    PROVE  info \in Info
<1>1. info \in WorkerInfo
  BY DEF WorkerInfo, State, Verdict
<1>2. Earned(info)
  BY DEF Earned, Verdict
<1>. QED  BY <1>1, <1>2 DEF Info

\* A verdict stays earned as time passes.
LEMMA OlderInfo ==
    ASSUME NEW info \in WorkerInfo \cup {Unknown}
    PROVE  /\ Older(info) \in WorkerInfo \cup {Unknown}
           /\ info \in WorkerInfo => Older(info) \in WorkerInfo
           /\ info \in Info => Older(info) \in Info
<1>1. CASE info = Unknown \/ info.age = Overdue
  BY <1>1 DEF Older
<1>2. CASE ~(info = Unknown \/ info.age = Overdue)
  <2>1. info \in WorkerInfo /\ Older(info) = [info EXCEPT !.age = info.age + 1]
    BY <1>2 DEF Older
  <2>2. info.age \in Nat /\ info.age < Overdue /\ info.age + 1 \in 0 .. Overdue
    BY <1>2, <2>1, HalfTimeout DEF WorkerInfo
  <2>3. Older(info) \in WorkerInfo /\ Older(info).age = info.age + 1 /\ Older(info).state = info.state
    BY <2>1, <2>2 DEF WorkerInfo
  <2>4. Earned(info) => Earned(Older(info))
    BY <2>2, <2>3, HalfTimeout DEF Earned
  <2>. QED  BY <2>3, <2>4 DEF Info
<1>. QED  BY <1>1, <1>2

\* A sweep that goes on: it has something to do, or is over.
LEMMA ContinueSweep ==
    ASSUME NEW s \in Sweep
    PROVE  LET c == Continue(s) IN
           /\ c \in Sweep /\ c.pc # "cache"
           /\ c.todo = s.todo /\ c.cur = s.cur /\ c.dead = s.dead /\ c.tasks = s.tasks
           /\ c.pc \in {"idle", "dead", "expired"} => s.tasks = {}
           /\ c.pc \in {"idle", "expired"} => s.dead = {}
BY ZenonT(30) DEF Continue, Sweep

LEMMA NoSweepTyped == NoSweep \in Sweep /\ NoSweep.pc = "idle" /\ NoSweep.todo = {} /\ NoSweep.dead = {}
                      /\ NoSweep.tasks = {}
BY ZenonT(30) DEF NoSweep, Sweep

\* What a handler is at its program counter.
LEMMA HandlerKinds ==
    ASSUME NEW r \in {Idle} \cup Putting \cup Polling
    PROVE  /\ r.pc \in {"put", "cache"} => r \in Putting
           /\ r.pc = "poll" => r \in Polling
           /\ r \in Putting => r.pc \in {"put", "cache"}
BY DEF Idle, Putting, Polling

LEMMA FineLocals ==
    /\ Fine(Idle)
    /\ \A w \in Worker : Fine([pc |-> "poll", worker |-> w])
    /\ \A w \in Worker, info \in Info : Fine([pc |-> "put", worker |-> w, info |-> info])
<1>1. Fine(Idle)
  BY DEF Fine, Idle
<1>2. ASSUME NEW w \in Worker PROVE Fine([pc |-> "poll", worker |-> w])
  BY DEF Fine, Polling
<1>3. ASSUME NEW w \in Worker, NEW info \in Info PROVE Fine([pc |-> "put", worker |-> w, info |-> info])
  <2>1. info \in WorkerInfo
    BY DEF Info
  <2>. QED  BY <2>1 DEF Fine, Putting
<1>. QED  BY <1>1, <1>2, <1>3

-----------------------------------------------------------------------------
(* Steps.                                                                  *)

\* One handler changes its locals.
LEMMA HandlerStep ==
    ASSUME IInv, NEW k \in Handler, NEW r, Fine(r), handlers' = [handlers EXCEPT ![k] = r]
    PROVE  HandlersInv'
<1>1. r \in {Idle} \cup Putting \cup Polling
  BY DEF Fine
<1>2. handlers' \in [Handler -> {Idle} \cup Putting \cup Polling]
  BY <1>1 DEF IInv, HandlersInv
<1>3. ASSUME NEW g \in Handler PROVE Fine(handlers'[g])
  BY DEF IInv, HandlersInv
<1>. QED  BY <1>2, <1>3 DEF HandlersInv

\* A handler begins.
LEMMA StepBegin ==
    ASSUME IInv, NEW k \in Handler, NEW r, Fine(r), Begin(k, r) PROVE IInv'
<1>1. HandlersInv'
  BY HandlerStep, ZenonT(30) DEF Begin
<1>2. RecordsInv' /\ RestInv' /\ SweepInv' /\ reaper' = reaper
  BY DEF Begin, IInv, RecordsInv, RestInv, SweepInv
<1>. QED  BY <1>1, <1>2 DEF IInv

LEMMA StepCalls ==
    ASSUME IInv, NEW k \in Handler, NEW w \in Worker,
           \/ RegisterWorker(k, w) \/ Heartbeat(k, w) \/ PollTask(k, w)
           \/ \E age \in 0 .. Overdue : Replicate(k, w, age)
    PROVE  IInv'
<1>1. CASE RegisterWorker(k, w)
  BY <1>1, AliveInfo, FineLocals, StepBegin, ZenonT(30) DEF RegisterWorker
<1>2. CASE Heartbeat(k, w)
  <2>1. workers[w] \in WorkerInfo
    BY <1>2, Zenon DEF Heartbeat, IInv, RecordsInv, Info
  <2>. QED  BY <1>2, <2>1, RefreshedInfo, FineLocals, StepBegin DEF Heartbeat
<1>3. CASE PollTask(k, w)
  BY <1>3, FineLocals, StepBegin, ZenonT(30) DEF PollTask
<1>4. ASSUME NEW age \in 0 .. Overdue, Replicate(k, w, age) PROVE IInv'
  <2>1. [state |-> Verdict(age), age |-> age] \in Info
    BY JudgedInfo
  <2>. QED  BY <1>4, <2>1, FineLocals, StepBegin, ZenonT(30) DEF Replicate
<1>. QED  BY <1>1, <1>2, <1>3, <1>4, Zenon

LEMMA StepaddLease ==
    ASSUME IInv, NEW k \in Handler, NEW t \in Task, addLease(k, t) PROVE IInv'
<1>. DEFINE l == [worker |-> handlers[k].worker, age |-> 0, late |-> FALSE, doomed |-> FALSE]
<1>1. handlers[k] \in Polling
  BY HandlerKinds, ZenonT(30) DEF addLease, IInv, HandlersInv
<1>2. l \in Lease /\ ~l.doomed
  BY <1>1, HalfTimeout DEF Lease, Polling
<1>3. leases' = [leases EXCEPT ![t] = l]
  BY DEF addLease
<1>. HIDE DEF l
<1>4. RestInv'
  BY <1>2, <1>3, ZenonT(30) DEF addLease, IInv, RestInv
<1>5. SweepInv'
  BY <1>2, <1>3 DEF addLease, IInv, SweepInv, RestInv
<1>6. HandlersInv'
  BY FineLocals, HandlerStep, ZenonT(30) DEF addLease
<1>7. RecordsInv' /\ reaper' = reaper
  BY Zenon DEF addLease, IInv, RecordsInv
<1>. QED  BY <1>4, <1>5, <1>6, <1>7 DEF IInv

LEMMA StepNoTask ==
    ASSUME IInv, NEW k \in Handler, NoTask(k) PROVE IInv'
<1>1. HandlersInv'
  BY FineLocals, HandlerStep, ZenonT(30) DEF NoTask
<1>2. RecordsInv' /\ RestInv' /\ SweepInv' /\ reaper' = reaper
  BY ZenonT(30) DEF NoTask, IInv, RecordsInv, RestInv, SweepInv
<1>. QED  BY <1>1, <1>2 DEF IInv

LEMMA StepremoveLease ==
    ASSUME IInv, NEW t \in Task, removeLease(t) PROVE IInv'
<1>1. RestInv' /\ SweepInv'
  BY DEF removeLease, IInv, RestInv, SweepInv
<1>2. RecordsInv' /\ HandlersInv' /\ reaper' = reaper
  BY DEF removeLease, IInv, RecordsInv, HandlersInv
<1>. QED  BY <1>1, <1>2, Zenon DEF IInv

LEMMA StepPutWorker ==
    ASSUME IInv, NEW k \in Handler, PutWorker(k) PROVE IInv'
<1>. DEFINE r == handlers[k]
<1>1. r \in Putting /\ r.info \in Info /\ r.worker \in Worker
  BY HandlerKinds DEF PutWorker, IInv, HandlersInv, Fine, Putting
<1>2. reaper' = reaper /\ SweepInv'
  BY DEF PutWorker, IInv, SweepInv
<1>3. CASE /\ bucket' = [bucket EXCEPT ![r.worker] = r.info]
           /\ handlers' = [handlers EXCEPT ![k].pc = "cache"] /\ UNCHANGED faults
  <2>. DEFINE x == [r EXCEPT !.pc = "cache"]
  <2>1. x \in Putting /\ x.info = r.info
    BY <1>1 DEF Putting
  <2>2. Fine(x)
    BY <1>1, <2>1 DEF Fine
  <2>3. handlers' = [handlers EXCEPT ![k] = x]
    BY <1>3 DEF IInv, HandlersInv
  <2>. HIDE DEF x
  <2>4. HandlersInv'
    BY <2>2, <2>3, HandlerStep, Zenon
  <2>5. RecordsInv'
    BY <1>1, <1>3 DEF PutWorker, IInv, RecordsInv
  <2>6. RestInv'
    BY <1>3 DEF PutWorker, IInv, RestInv
  <2>. QED  BY <1>2, <2>4, <2>5, <2>6 DEF IInv
<1>4. CASE /\ faults < MaxFaults /\ faults' = faults + 1
           /\ handlers' = [handlers EXCEPT ![k] = Idle] /\ UNCHANGED bucket
  <2>1. HandlersInv'
    BY <1>4, FineLocals, HandlerStep, Zenon
  <2>2. faults' \in 0 .. MaxFaults
    BY <1>4, TimeoutAssumption DEF IInv, RestInv
  <2>3. RecordsInv' /\ RestInv'
    BY <1>4, <2>2 DEF PutWorker, IInv, RecordsInv, RestInv
  <2>. QED  BY <1>2, <2>1, <2>3 DEF IInv
<1>. QED  BY <1>3, <1>4 DEF PutWorker

LEMMA StepCacheWorker ==
    ASSUME IInv, NEW k \in Handler, CacheWorker(k) PROVE IInv'
<1>1. handlers[k].info \in Info /\ handlers[k].worker \in Worker
  BY HandlerKinds DEF CacheWorker, IInv, HandlersInv, Fine, Putting
<1>2. HandlersInv'
  BY FineLocals, HandlerStep, Zenon DEF CacheWorker
<1>3. RecordsInv'
  BY <1>1 DEF CacheWorker, IInv, RecordsInv
<1>4. RestInv' /\ SweepInv' /\ reaper' = reaper
  BY DEF CacheWorker, IInv, RestInv, SweepInv
<1>. QED  BY <1>2, <1>3, <1>4 DEF IInv

-----------------------------------------------------------------------------
(* The sweep.                                                              *)

\* The sweep goes on without touching records, handlers or leases.
LEMMA SweepStep ==
    ASSUME IInv, NEW s, Proper(s), s.pc # "cache", reaper' = Continue(s),
           \A t \in Task : leases'[t] # Free /\ leases'[t].doomed => t \in s.tasks \/ leases'[t].worker \in s.dead
    PROVE  Proper(reaper)' /\ SweepInv'
<1>1. s \in Sweep
  BY Zenon DEF Proper
<1>2. /\ reaper' \in Sweep /\ reaper'.pc # "cache"
      /\ reaper'.todo = s.todo /\ reaper'.dead = s.dead /\ reaper'.tasks = s.tasks
      /\ reaper'.pc \in {"idle", "dead", "expired"} => s.tasks = {}
      /\ reaper'.pc \in {"idle", "expired"} => s.dead = {}
  BY <1>1, ContinueSweep
<1>3. Proper(reaper)'
  BY <1>2 DEF Proper
<1>4. SweepInv'
  BY <1>2 DEF SweepInv
<1>. QED  BY <1>3, <1>4

\* A lease that is marked doomed is one of a worker the sweep goes on to.
LEMMA StepScan ==
    ASSUME IInv, Scan PROVE IInv'
<1>. DEFINE dead == {w \in Judged : Target(workers[w]) = "DEAD"}
            V(w) == [worker |-> w, info |-> [workers[w] EXCEPT !.state = Target(workers[w])]]
            todo == {V(w) : w \in Judged}
            s == [NoSweep EXCEPT !.todo = todo, !.dead = dead]
            l(t) == [leases[t] EXCEPT !.late = leases[t].age = Expired,
                                      !.doomed = leases[t].doomed \/ leases[t].worker \in dead]
<1>1. /\ reaper' = Continue(s)
      /\ leases' = [t \in Task |-> IF leases[t] = Free THEN Free ELSE l(t)]
      /\ UNCHANGED <<leader, bucket, workers, handlers, faults>>
  BY Zenon DEF Scan
<1>2. Judged \subseteq Worker /\ dead \subseteq Worker
  BY DEF Judged
<1>3. ASSUME NEW w \in Judged PROVE V(w) \in Verdicts /\ V(w).info \in Info
  <2>1. workers[w] \in WorkerInfo
    BY DEF Judged, IInv, RecordsInv, Info
  <2>2. workers[w].age \in 0 .. Overdue
    BY <2>1 DEF WorkerInfo
  <2>3. [workers[w] EXCEPT !.state = Target(workers[w])] = [state |-> Verdict(workers[w].age), age |-> workers[w].age]
    BY <2>1 DEF WorkerInfo, Target
  <2>4. [workers[w] EXCEPT !.state = Target(workers[w])] \in Info
    BY <2>2, <2>3, JudgedInfo
  <2>. QED  BY <1>2, <2>4 DEF Verdicts, Info
<1>4. todo \subseteq Verdicts /\ \A v \in todo : v.info \in Info
  BY <1>3
<1>. HIDE DEF todo, dead
<1>5. s \in Sweep /\ s.pc = "idle" /\ s.todo = todo /\ s.dead = dead /\ s.tasks = {}
  BY <1>2, <1>4, NoSweepTyped, Zenon DEF NoSweep, Sweep
<1>. HIDE DEF s
<1>6. Proper(s)
  BY <1>4, <1>5 DEF Proper
<1>7. ASSUME NEW t \in Task, leases[t] # Free
      PROVE  /\ l(t) \in Lease /\ l(t).worker = leases[t].worker
             /\ l(t).doomed => leases[t].doomed \/ leases[t].worker \in dead
  <2>1. leases[t] \in Lease
    BY <1>7 DEF IInv, RestInv
  <2>. QED  BY <2>1, ZenonT(30) DEF Lease
<1>8. ASSUME NEW t \in Task, leases[t] # Free PROVE ~leases[t].doomed
  BY <1>8, Zenon DEF Scan, IInv, SweepInv
<1>. HIDE DEF l
<1>9. RestInv'
  BY <1>1, <1>7 DEF IInv, RestInv
<1>10. ASSUME NEW t \in Task, leases'[t] # Free, leases'[t].doomed PROVE leases'[t].worker \in s.dead
  BY <1>1, <1>5, <1>7, <1>8, <1>10, Zenon
<1>11. Proper(reaper)' /\ SweepInv'
  BY <1>1, <1>5, <1>6, <1>10, SweepStep, Zenon
<1>12. RecordsInv' /\ HandlersInv'
  BY <1>1 DEF IInv, RecordsInv, HandlersInv
<1>. QED  BY <1>9, <1>11, <1>12 DEF IInv

LEMMA StepPersistVerdict ==
    ASSUME IInv, PersistVerdict PROVE IInv'
<1>1. PICK v \in reaper.todo :
        \/ /\ bucket' = [bucket EXCEPT ![v.worker] = v.info]
           /\ reaper' = [reaper EXCEPT !.pc = "cache", !.cur = v]
           /\ UNCHANGED faults
        \/ /\ faults < MaxFaults
           /\ faults' = faults + 1
           /\ reaper' = NotSaved(v)
           /\ UNCHANGED bucket
  BY Zenon DEF PersistVerdict
<1>2. reaper \in Sweep /\ v \in Verdicts /\ v.info \in Info /\ v.worker \in Worker
  BY DEF IInv, Proper, Sweep, Verdicts
<1>3. HandlersInv' /\ UNCHANGED <<leader, workers, leases>>
  BY DEF PersistVerdict, IInv, HandlersInv
<1>4. CASE /\ bucket' = [bucket EXCEPT ![v.worker] = v.info]
           /\ reaper' = [reaper EXCEPT !.pc = "cache", !.cur = v] /\ UNCHANGED faults
  <2>1. /\ reaper' \in Sweep /\ reaper'.pc = "cache" /\ reaper'.cur = v /\ reaper'.todo = reaper.todo
        /\ reaper'.tasks = reaper.tasks /\ reaper'.dead = reaper.dead
    BY <1>2, <1>4, Zenon DEF Sweep
  <2>2. Proper(reaper)'
    BY <1>2, <2>1 DEF Proper, IInv
  <2>3. SweepInv'
    BY <1>3, <2>1 DEF SweepInv, IInv
  <2>4. RecordsInv' /\ RestInv'
    BY <1>2, <1>3, <1>4 DEF RecordsInv, RestInv, IInv
  <2>. QED  BY <1>3, <2>2, <2>3, <2>4 DEF IInv
<1>5. CASE faults < MaxFaults /\ faults' = faults + 1 /\ reaper' = NotSaved(v) /\ UNCHANGED bucket
  <2>. DEFINE s == [reaper EXCEPT !.todo = reaper.todo \ {v}]
  <2>1. reaper' = Continue(s)
    BY <1>5 DEF NotSaved
  <2>2. /\ s \in Sweep /\ s.pc = "put" /\ s.todo = reaper.todo \ {v}
        /\ s.tasks = reaper.tasks /\ s.dead = reaper.dead
    BY <1>2 DEF Sweep, PersistVerdict
  <2>. HIDE DEF s
  <2>3. Proper(s)
    BY <2>2, Zenon DEF Proper, IInv
  <2>4. Proper(reaper)' /\ SweepInv'
    BY <1>3, <2>1, <2>2, <2>3, SweepStep DEF IInv, SweepInv
  <2>5. faults' \in 0 .. MaxFaults
    BY <1>5, TimeoutAssumption DEF IInv, RestInv
  <2>6. RecordsInv' /\ RestInv'
    BY <1>3, <1>5, <2>5 DEF RecordsInv, RestInv, IInv
  <2>. QED  BY <1>3, <2>4, <2>6 DEF IInv
<1>. QED  BY <1>1, <1>4, <1>5

LEMMA StepCacheVerdict ==
    ASSUME IInv, CacheVerdict PROVE IInv'
<1>. DEFINE s == [reaper EXCEPT !.pc = "idle", !.todo = reaper.todo \ {reaper.cur}, !.cur = Nobody]
<1>1. reaper \in Sweep /\ reaper.cur \in Verdicts /\ reaper.cur.info \in Info /\ reaper.cur.worker \in Worker
  BY DEF CacheVerdict, IInv, Proper, Verdicts
<1>2. /\ s \in Sweep /\ s.pc = "idle" /\ s.todo = reaper.todo \ {reaper.cur}
      /\ s.tasks = reaper.tasks /\ s.dead = reaper.dead
  BY <1>1, Zenon DEF Sweep
<1>3. reaper' = Continue(s)
  BY <1>1, ZenonT(30) DEF CacheVerdict, Continue, Sweep
<1>. HIDE DEF s
<1>4. Proper(s)
  BY <1>2 DEF Proper, IInv
<1>5. UNCHANGED <<leader, bucket, handlers, leases, faults>>
  BY Zenon DEF CacheVerdict
<1>6. Proper(reaper)' /\ SweepInv'
  BY <1>2, <1>3, <1>4, <1>5, SweepStep DEF IInv, SweepInv
<1>7. RecordsInv'
  BY <1>1 DEF CacheVerdict, IInv, RecordsInv
<1>8. RestInv' /\ HandlersInv'
  BY <1>5 DEF IInv, RestInv, HandlersInv
<1>. QED  BY <1>6, <1>7, <1>8 DEF IInv

LEMMA SteprequeueLeasesForWorker ==
    ASSUME IInv, requeueLeasesForWorker PROVE IInv'
<1>1. PICK w \in reaper.dead :
        reaper' = Continue([reaper EXCEPT !.dead = reaper.dead \ {w},
                                          !.tasks = {t \in Task : leases[t] # Free /\ leases[t].worker = w}])
  BY ZenonT(30) DEF requeueLeasesForWorker
<1>. DEFINE tasks == {t \in Task : leases[t] # Free /\ leases[t].worker = w}
            s == [reaper EXCEPT !.dead = reaper.dead \ {w}, !.tasks = tasks]
<1>2. /\ s \in Sweep /\ s.pc = "dead" /\ s.todo = reaper.todo
      /\ s.tasks = tasks /\ s.dead = reaper.dead \ {w}
  BY ZenonT(30) DEF Sweep, requeueLeasesForWorker, IInv, Proper
<1>. HIDE DEF s
<1>3. Proper(s)
  BY <1>2 DEF Proper, IInv
<1>4. UNCHANGED <<leader, bucket, workers, handlers, leases, faults>> /\ reaper.tasks = {}
  BY DEF requeueLeasesForWorker, IInv, SweepInv
<1>5. Proper(reaper)' /\ SweepInv'
  BY <1>1, <1>2, <1>3, <1>4, SweepStep, ZenonT(30) DEF IInv, SweepInv, s
<1>6. RecordsInv' /\ RestInv' /\ HandlersInv'
  BY <1>4 DEF IInv, RecordsInv, RestInv, HandlersInv
<1>. QED  BY <1>5, <1>6 DEF IInv

LEMMA StepExpiredLeases ==
    ASSUME IInv, ExpiredLeases PROVE IInv'
<1>. DEFINE tasks == {t \in Task : Late(t)}
            s == [reaper EXCEPT !.tasks = tasks, !.last = TRUE]
<1>1. reaper' = Continue(s) /\ UNCHANGED <<leader, bucket, workers, handlers, leases, faults>>
  BY DEF ExpiredLeases
<1>2. s \in Sweep /\ s.pc = "expired" /\ s.todo = reaper.todo /\ s.tasks = tasks /\ s.dead = reaper.dead
  BY Zenon DEF Sweep, ExpiredLeases, IInv, Proper
<1>3. reaper.tasks = {} /\ reaper.dead = {}
  BY DEF ExpiredLeases, IInv, SweepInv
<1>. HIDE DEF s
<1>4. Proper(s)
  BY <1>2, ZenonT(30) DEF Proper, IInv
<1>5. Proper(reaper)' /\ SweepInv'
  BY <1>1, <1>2, <1>3, <1>4, SweepStep DEF IInv, SweepInv
<1>6. RecordsInv' /\ RestInv' /\ HandlersInv'
  BY <1>1 DEF IInv, RecordsInv, RestInv, HandlersInv
<1>. QED  BY <1>5, <1>6 DEF IInv

LEMMA SteprequeueLease ==
    ASSUME IInv, requeueLease PROVE IInv'
<1>1. PICK t \in reaper.tasks :
        /\ leases' = [leases EXCEPT ![t] = Free]
        /\ reaper' = Continue([reaper EXCEPT !.tasks = reaper.tasks \ {t}])
  BY Zenon DEF requeueLease
<1>. DEFINE s == [reaper EXCEPT !.tasks = reaper.tasks \ {t}]
<1>2. /\ s \in Sweep /\ s.pc = "take" /\ s.todo = reaper.todo
      /\ s.tasks = reaper.tasks \ {t} /\ s.dead = reaper.dead
  BY DEF Sweep, requeueLease, IInv, Proper
<1>. HIDE DEF s
<1>3. Proper(s)
  BY <1>2 DEF Proper, IInv
<1>4. ASSUME NEW u \in Task, leases'[u] # Free, leases'[u].doomed
      PROVE  u \in s.tasks \/ leases'[u].worker \in s.dead
  BY <1>1, <1>2, <1>4 DEF IInv, SweepInv, RestInv
<1>5. Proper(reaper)' /\ SweepInv'
  BY <1>1, <1>2, <1>3, <1>4, SweepStep, Zenon DEF s
<1>6. RecordsInv' /\ RestInv' /\ HandlersInv'
  BY <1>1, ZenonT(30) DEF requeueLease, IInv, RecordsInv, RestInv, HandlersInv
<1>. QED  BY <1>5, <1>6 DEF IInv

-----------------------------------------------------------------------------
(* Time, leadership and restarts.                                          *)

LEMMA OlderVerdictInfo ==
    ASSUME NEW v \in Verdicts
    PROVE  /\ OlderVerdict(v) \in Verdicts
           /\ v.info \in Info => OlderVerdict(v).info \in Info
<1>1. v.info \in WorkerInfo
  BY DEF Verdicts
<1>2. Older(v.info) \in WorkerInfo /\ (v.info \in Info => Older(v.info) \in Info)
  BY <1>1, OlderInfo
<1>. QED  BY <1>2 DEF OlderVerdict, Verdicts

LEMMA StepTick ==
    ASSUME IInv, Tick PROVE IInv'
<1>1. ASSUME NEW info \in Info \cup {Unknown} PROVE Older(info) \in Info \cup {Unknown}
  BY OlderInfo DEF Info, Older
<1>2. RecordsInv'
  BY <1>1 DEF Tick, IInv, RecordsInv
<1>3. ASSUME NEW k \in Handler PROVE Fine(handlers'[k])
  <2>1. Fine(handlers[k]) /\ handlers[k] \in {Idle} \cup Putting \cup Polling
    BY DEF IInv, HandlersInv
  <2>2. CASE handlers[k] \in Putting
    <3>1. handlers'[k] = [handlers[k] EXCEPT !.info = Older(handlers[k].info)]
      BY <2>2 DEF Tick, OlderVerdict
    <3>2. handlers[k].info \in Info
      BY <2>1, <2>2, HandlerKinds DEF Fine
    <3>3. Older(handlers[k].info) \in Info /\ Older(handlers[k].info) \in WorkerInfo
      BY <3>2, OlderInfo DEF Info
    <3>. QED  BY <2>2, <3>1, <3>3 DEF Putting, Fine
  <2>3. CASE handlers[k] \notin Putting
    BY <2>1, <2>3 DEF Tick
  <2>. QED  BY <2>2, <2>3
<1>4. HandlersInv'
  BY <1>3 DEF HandlersInv, Tick, Fine
<1>. DEFINE todo == {OlderVerdict(v) : v \in reaper.todo}
            cur == IF reaper.cur = Nobody THEN reaper.cur ELSE OlderVerdict(reaper.cur)
<1>5. reaper \in Sweep /\ reaper' = [reaper EXCEPT !.todo = todo, !.cur = cur]
  BY DEF Tick, IInv, Proper
<1>6. todo \in SUBSET Verdicts /\ \A v \in todo : v.info \in Info
  BY OlderVerdictInfo DEF IInv, Proper, Sweep
<1>7. cur \in Verdicts \cup {Nobody}
  BY <1>5, OlderVerdictInfo DEF Sweep
<1>8. reaper.pc = "cache" => cur \in Verdicts /\ cur.info \in Info
  BY OlderVerdictInfo DEF IInv, Proper
<1>. HIDE DEF todo, cur
<1>9. /\ reaper' \in Sweep /\ reaper'.pc = reaper.pc /\ reaper'.todo = todo /\ reaper'.cur = cur
      /\ reaper'.tasks = reaper.tasks /\ reaper'.dead = reaper.dead
  BY <1>5, <1>6, <1>7, ZenonT(30) DEF Sweep
<1>10. Proper(reaper)'
  BY <1>6, <1>8, <1>9, Zenon DEF Proper
<1>11. ASSUME NEW t \in Task
       PROVE  /\ leases'[t] \in {Free} \cup Lease
              /\ leases'[t] # Free => leases[t] # Free /\ leases'[t].doomed = leases[t].doomed
                                                       /\ leases'[t].worker = leases[t].worker
  <2>1. leases[t] \in {Free} \cup Lease
    BY DEF IInv, RestInv
  <2>2. CASE leases[t] = Free \/ leases[t].age = Expired
    BY <2>1, <2>2 DEF Tick
  <2>3. CASE ~(leases[t] = Free \/ leases[t].age = Expired)
    <3>1. leases[t] \in Lease /\ leases[t] # Free /\ leases'[t] = [leases[t] EXCEPT !.age = leases[t].age + 1]
      BY <2>1, <2>3 DEF Tick
    <3>2. leases[t].age + 1 \in 0 .. Expired
      BY <2>3, <3>1, HalfTimeout DEF Lease
    <3>. QED  BY <3>1, <3>2 DEF Lease
  <2>. QED  BY <2>2, <2>3
<1>12. RestInv'
  BY <1>11, Zenon DEF Tick, IInv, RestInv
<1>13. SweepInv'
  BY <1>9, <1>11, Zenon DEF IInv, SweepInv
<1>. QED  BY <1>2, <1>4, <1>10, <1>12, <1>13 DEF IInv

LEMMA StepLeadership ==
    ASSUME IInv, StepDown \/ Win PROVE IInv'
<1>1. UNCHANGED <<bucket, workers, handlers, reaper>> /\ leases' = [t \in Task |-> Free]
  BY DEF StepDown, Win
<1>2. faults' \in 0 .. MaxFaults
  BY TimeoutAssumption DEF IInv, RestInv, StepDown, Win
<1>3. leader' \in BOOLEAN
  BY ZenonT(30) DEF StepDown, Win
<1>4. RecordsInv' /\ HandlersInv' /\ Proper(reaper)'
  BY <1>1 DEF IInv, RecordsInv, HandlersInv
<1>5. RestInv' /\ SweepInv'
  BY <1>1, <1>2, <1>3 DEF IInv, RestInv, SweepInv
<1>. QED  BY <1>4, <1>5 DEF IInv

\* A process that has just started.
LEMMA Started ==
    ASSUME handlers' = [k \in Handler |-> Idle], reaper' = NoSweep, leases' = [t \in Task |-> Free]
    PROVE  HandlersInv' /\ Proper(reaper)' /\ SweepInv' /\ leases' \in [Task -> {Free} \cup Lease]
<1>1. HandlersInv'
  BY FineLocals, Zenon DEF HandlersInv
<1>2. Proper(reaper)'
  BY NoSweepTyped DEF Proper
<1>3. SweepInv'
  BY NoSweepTyped DEF SweepInv
<1>. QED  BY <1>1, <1>2, <1>3, Zenon

LEMMA StepRestart ==
    ASSUME IInv, Restart PROVE IInv'
<1>1. HandlersInv' /\ Proper(reaper)' /\ SweepInv' /\ leases' \in [Task -> {Free} \cup Lease]
  BY Started DEF Restart
<1>2. faults' \in 0 .. MaxFaults
  BY TimeoutAssumption DEF IInv, RestInv, Restart
<1>3. RecordsInv'
  BY DEF IInv, RecordsInv, Restart, Recovered
<1>4. RestInv'
  BY <1>1, <1>2 DEF RestInv, Restart
<1>. QED  BY <1>1, <1>3, <1>4 DEF IInv

-----------------------------------------------------------------------------
LEMMA InitIInv == Init => IInv
<1>. SUFFICES ASSUME Init PROVE IInv
  OBVIOUS
<1>1. HandlersInv
  BY FineLocals, Zenon DEF Init, HandlersInv
<1>2. Proper(reaper)
  BY NoSweepTyped, ZenonT(30) DEF Init, Proper
<1>3. SweepInv
  BY NoSweepTyped DEF Init, SweepInv
<1>4. RecordsInv /\ RestInv
  BY TimeoutAssumption DEF Init, RecordsInv, RestInv
<1>. QED  BY <1>1, <1>2, <1>3, <1>4, Zenon DEF IInv

LEMMA NextIInv == IInv /\ [Next]_vars => IInv'
<1>. SUFFICES ASSUME IInv, [Next]_vars PROVE IInv'
  OBVIOUS
<1>1. ASSUME NEW k \in Handler, NEW w \in Worker,
             \/ RegisterWorker(k, w) \/ Heartbeat(k, w) \/ PollTask(k, w)
             \/ \E age \in 0 .. Overdue : Replicate(k, w, age)
      PROVE  IInv'
  BY <1>1, StepCalls
<1>2. ASSUME NEW k \in Handler, Handle(k) PROVE IInv'
  BY <1>2, StepPutWorker, StepCacheWorker, StepNoTask, StepaddLease DEF Handle
<1>3. ASSUME NEW t \in Task, removeLease(t) PROVE IInv'
  BY <1>3, StepremoveLease
<1>4. CASE Reap
  BY <1>4, StepScan, StepPersistVerdict, StepCacheVerdict, SteprequeueLeasesForWorker,
     StepExpiredLeases, SteprequeueLease DEF Reap
<1>5. CASE Tick \/ StepDown \/ Win \/ Restart
  BY <1>5, StepTick, StepLeadership, StepRestart, ZenonT(30)
<1>6. CASE UNCHANGED vars
  BY <1>6 DEF vars, IInv, RecordsInv, HandlersInv, RestInv, SweepInv
<1>. QED  BY <1>1, <1>2, <1>3, <1>4, <1>5, <1>6 DEF Next

LEMMA Inductive == Spec => []IInv
BY InitIInv, NextIInv, PTL DEF Spec

-----------------------------------------------------------------------------
\* Types: bucket, cache, leases, and the locals of the RPC handlers and of reapOnce.
THEOREM TypeCorrect == Spec => []TypeOK
<1>1. IInv => TypeOK
  BY Zenon DEF IInv, RecordsInv, HandlersInv, Proper, RestInv, TypeOK, Info
<1>. QED  BY <1>1, Inductive, PTL

\* No record in the bucket or the cache says SUSPECT or DEAD of a heartbeat that is
\* recent enough, for any timeout and any number of racing putWorker calls.
THEOREM VerdictSafety == Spec => []VerdictIsEarned
<1>1. IInv => VerdictIsEarned
  <2>. SUFFICES ASSUME IInv, NEW w \in Worker, NEW info \in {bucket[w], workers[w]} PROVE Earned(info)
    BY DEF VerdictIsEarned, Earned
  <2>1. info \in Info \cup {Unknown}
    BY DEF IInv, RecordsInv
  <2>. QED  BY <2>1 DEF Info, Unknown, Earned
<1>. QED  BY <1>1, Inductive, PTL

\* After a sweep of reapOnce, no lease is left that a worker had when it was declared
\* dead, also when putWorker failed on the verdict.
THEOREM ReclaimSafety == Spec => []DeadLeavesNoLease
<1>1. IInv => DeadLeavesNoLease
  BY DEF IInv, SweepInv, DeadLeavesNoLease
<1>. QED  BY <1>1, Inductive, PTL
=============================================================================
