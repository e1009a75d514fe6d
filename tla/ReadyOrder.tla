----------------------------- MODULE ReadyOrder -----------------------------
(***************************************************************************)
(* What the ready queue (internal/queue) promises: a set of queued jobs,   *)
(* at most one entry for each id, from which Pop takes the job of highest  *)
(* priority, the oldest of those, and the smallest id of those.            *)
(***************************************************************************)
EXTENDS Integers

CONSTANTS
    Job,                 \* job ids, as numbers: ids are compared
    Priority,            \* priorities
    Created              \* creation times

VARIABLES
    items,               \* the queued jobs
    out                  \* what the last operation returned

vars == <<items, out>>

Item == [jobID : Job, priority : Priority, createdAt : Created]

\* The order of the queue.
Before(a, b) ==
    \/ a.priority > b.priority
    \/ a.priority = b.priority /\ a.createdAt < b.createdAt
    \/ a.priority = b.priority /\ a.createdAt = b.createdAt /\ a.jobID < b.jobID

Result(op, ok, j) == [op |-> op, ok |-> ok, jobID |-> j]

Init == items = {} /\ out = Result("Clear", TRUE, 0)

Queued(j) == \E x \in items : x.jobID = j

Push(x) ==
    /\ items' = IF Queued(x.jobID) THEN items ELSE items \cup {x}
    /\ out' = Result("Push", ~Queued(x.jobID), x.jobID)

Pop ==
    \/ /\ items = {} /\ out' = Result("Pop", FALSE, 0)
       /\ UNCHANGED items
    \/ \E x \in items :
           /\ \A y \in items \ {x} : Before(x, y)
           /\ items' = items \ {x}
           /\ out' = Result("Pop", TRUE, x.jobID)

Remove(j) ==
    /\ items' = {x \in items : x.jobID # j}
    /\ out' = Result("Remove", Queued(j), j)

Clear == items' = {} /\ out' = Result("Clear", TRUE, 0)

Next ==
    \/ \E x \in Item : Push(x)
    \/ \E j \in Job : Remove(j)
    \/ Pop
    \/ Clear

Spec == Init /\ [][Next]_vars
=============================================================================
