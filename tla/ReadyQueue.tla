----------------------------- MODULE ReadyQueue -----------------------------
(***************************************************************************)
(* The ready queue, internal/queue/queue.go: a binary heap of items kept   *)
(* by container/heap, and a map from job ids to items, each of which knows *)
(* its place in the heap.  Every operation holds the queue's mutex, so it  *)
(* is one action.  Places are numbered from 1 here.                        *)
(***************************************************************************)
EXTENDS Integers, Sequences, Functions

CONSTANTS
    Job,                 \* job ids, as numbers: ids are compared
    Priority,            \* priorities
    Created,             \* creation times
    Submitted            \* the items that are pushed

VARIABLES
    h,                   \* PriorityQueue.h
    index,               \* the field index of the item of each job (0: none)
    byID,                \* the ids in PriorityQueue.byID
    out                  \* what the last operation returned

queueVars == <<h, index, byID, out>>

Order == INSTANCE ReadyOrder WITH items <- Range(h)

\* The heap with the indexes of its items: what innerHeap's methods change.
Heap(items, places) == [h |-> items, index |-> places]

item == [jobID : Job, priority : Priority, createdAt : Created]

\* Ids, priorities and times are compared as numbers; 0 is the id of no job.
ASSUME QueueAssumption ==
    /\ Job \subseteq Nat \ {0} /\ Priority \subseteq Int /\ Created \subseteq Int
    /\ Submitted \subseteq item

\* Heap, map and indexes name jobs; no entry is nil.
QueueTypeOK ==
    /\ h \in Seq(item)
    /\ index \in [Job -> 0 .. Len(h)]
    /\ byID \subseteq Job
    /\ out \in [op : {"Push", "Pop", "Remove", "Clear"}, ok : BOOLEAN, jobID : Job \cup {0}]

QueueInit ==
    /\ h = <<>>
    /\ index = [j \in Job |-> 0]
    /\ byID = {}
    /\ out = Order!Result("Clear", TRUE, 0)

-----------------------------------------------------------------------------
(* innerHeap.                                                              *)

Less(a, b) ==
    IF a.priority # b.priority THEN a.priority > b.priority
    ELSE IF a.createdAt # b.createdAt THEN a.createdAt < b.createdAt
    ELSE a.jobID < b.jobID

\* Mutant: the indexes are not swapped with the items.
Swap_KeepsIndex(q, i, j) ==
    Heap([q.h EXCEPT ![i] = q.h[j], ![j] = q.h[i]], q.index)

Swap(q, i, j) ==
    Heap([q.h EXCEPT ![i] = q.h[j], ![j] = q.h[i]],
         [q.index EXCEPT ![q.h[i].jobID] = j, ![q.h[j].jobID] = i])

\* innerHeap.Push: at the end.
PushLast(q, x) == Heap(Append(q.h, x), [q.index EXCEPT ![x.jobID] = Len(q.h) + 1])

\* innerHeap.Pop: from the end.
PopLast(q) ==
    LET n == Len(q.h) IN
    Heap(SubSeq(q.h, 1, n - 1), [q.index EXCEPT ![q.h[n].jobID] = 0])

-----------------------------------------------------------------------------
(* container/heap.  Its loops are functions from the number of rounds to   *)
(* where they are then; a loop has stopped when a round changes nothing,   *)
(* which is after no more rounds than the heap has items.                  *)

\* A loop that has got to the item in place at.
Loop(q, i) == [heap |-> q, at |-> i]

\* One round of up: the item changes places with its parent.
UpRound(s) ==
    LET q == s.heap
        i == s.at \div 2 IN
    IF s.at = 1 \/ ~Less(q.h[s.at], q.h[i]) THEN s ELSE Loop(Swap(q, i, s.at), i)

up(q, j) ==
    LET round[k \in 0 .. Len(q.h)] == IF k = 0 THEN Loop(q, j) ELSE UpRound(round[k - 1]) IN
    round[Len(q.h)].heap

\* One round of down: the item changes places with its first child, among the first n.
DownRound(s, n) ==
    LET q == s.heap
        left == 2 * s.at
        right == left + 1
        j == IF right <= n /\ Less(q.h[right], q.h[left]) THEN right ELSE left IN
    IF left > n \/ ~Less(q.h[j], q.h[s.at]) THEN s ELSE Loop(Swap(q, s.at, j), j)

\* Where down has got to, too: it reports whether the item has moved.
down(q, i, n) ==
    LET round[k \in 0 .. Len(q.h)] == IF k = 0 THEN Loop(q, i) ELSE DownRound(round[k - 1], n) IN
    round[Len(q.h)]

HeapPush(q, x) == up(PushLast(q, x), Len(q.h) + 1)

HeapPop(q) == PopLast(down(Swap(q, 1, Len(q.h)), 1, Len(q.h) - 1).heap)

\* Mutant: the item moved into the gap only sinks.
HeapRemove_NoUp(q, i) ==
    LET n == Len(q.h) IN
    PopLast(IF i = n THEN q ELSE down(Swap(q, i, n), i, n - 1).heap)

\* heap.Remove: the last item fills the gap and sinks, or else rises.
HeapRemove(q, i) ==
    LET n == Len(q.h)
        moved == Swap(q, i, n)
        sunk == down(moved, i, n - 1) IN
    PopLast(IF i = n THEN q ELSE IF sunk.at > i THEN sunk.heap ELSE up(moved, i))

-----------------------------------------------------------------------------
(* PriorityQueue.                                                          *)

Becomes(q) == h' = q.h /\ index' = q.index

Push(x) ==
    /\ IF x.jobID \in byID THEN UNCHANGED <<h, index, byID>>
       ELSE /\ Becomes(HeapPush(Heap(h, index), x))
            /\ byID' = byID \cup {x.jobID}
    /\ out' = Order!Result("Push", x.jobID \notin byID, x.jobID)

Pop ==
    IF h = <<>> THEN out' = Order!Result("Pop", FALSE, 0) /\ UNCHANGED <<h, index, byID>>
    ELSE /\ Becomes(HeapPop(Heap(h, index)))
         /\ byID' = byID \ {h[1].jobID}
         /\ out' = Order!Result("Pop", TRUE, h[1].jobID)

Remove(j) ==
    /\ IF j \notin byID THEN UNCHANGED <<h, index, byID>>
       ELSE /\ Becomes(HeapRemove(Heap(h, index), index[j]))
            /\ byID' = byID \ {j}
    /\ out' = Order!Result("Remove", j \in byID, j)

Clear ==
    /\ h' = <<>> /\ byID' = {}
    /\ index' = [j \in Job |-> 0]
    /\ out' = Order!Result("Clear", TRUE, 0)

QueueNext ==
    \/ \E x \in Submitted : Push(x)
    \/ \E j \in Job : Remove(j)
    \/ Pop
    \/ Clear

QueueSpec == QueueInit /\ [][QueueNext]_queueVars

-----------------------------------------------------------------------------
\* The map has exactly the ids of the heap, and every item knows its place, so that
\* Remove takes out the item it was asked for (byID, Swap).
MapMatchesHeap ==
    /\ byID = {x.jobID : x \in Range(h)}
    /\ \A j \in Job : index[j] # 0 => h[index[j]].jobID = j
    /\ \A i \in DOMAIN h : index[h[i].jobID] = i

\* Every operation does and returns what it does to a set of jobs in the order of the
\* queue: Pop takes the first one of all, Push ignores queued ids, Remove takes one out.
ImplementsReadyOrder == Order!Spec
=============================================================================
