--------------------------- MODULE DispatchProofs ---------------------------
(***************************************************************************)
(* What holds of Dispatch for any number of jobs and goroutines, whatever  *)
(* the interleaving, the failing writes, the crashes and the changes of    *)
(* leadership, with the records that other leaders ship in the meantime:   *)
(* types, AttemptsWithinPolicy, RunsAfterDependencies,                     *)
(* FailedIsDeadLettered and CronKeepsRunning.                              *)
(*                                                                         *)
(* None of them is inductive: a goroutine writes a copy of a job that it   *)
(* read some steps before.  The invariant says of every copy, at every     *)
(* program counter, what makes the write that follows harmless.            *)
(***************************************************************************)
EXTENDS Dispatch, TLAPS

\* What is said of a record: its attempts, and that its dependencies (or those before
\* position k) are among the jobs S.
Counted(rec) == rec.max >= 1 /\ rec.attempt <= rec.max
HasTry(rec) == rec.attempt < rec.max
Met(rec, S) == SeqSet(rec.deps) \subseteq S
MetBefore(rec, k, S) == \A i \in DOMAIN rec.deps : i < k => rec.deps[i] \in S

\* A record that may be stored, when the jobs of S have SUCCEEDED at some time.
Sound(rec, S) ==
    /\ rec \in Record /\ Counted(rec)
    /\ rec.state \in {"PENDING", "QUEUED"} => HasTry(rec)
    /\ rec.state \in {"QUEUED", "RUNNING", "SUCCEEDED", "FAILED"} => Met(rec, S)

Listed(list, S) == \A p \in list : Sound(p[2], S)

\* The program counters at which a goroutine has a copy of a job with a try left ...
Untried == {"deps", "ready", "placePending", "dispatch"}

\* ... and of one whose dependencies have succeeded.
Unblocked == {"ready", "dispatch", "release", "failure", "succeed", "cronOk", "cronFail", "bury",
              "fail terminally"}

\* What a goroutine with locals r knows of its copy, when the jobs of S have SUCCEEDED
\* and those of D are in the dead-letter bucket.
Fine(r, S, D) ==
    /\ Counted(r.rec)
    /\ r.pc \in Working => r.job \in Job
    /\ r.pc \in Untried => HasTry(r.rec)
    /\ r.pc \in Unblocked => Met(r.rec, S)
    /\ r.pc = "deps" => MetBefore(r.rec, r.k, S)
    /\ r.pc = "fail terminally" => r.job \in D
    /\ Listed(r.list, S)

StoreInv ==
    /\ jobs \in [Job -> Record]
    /\ \A j \in Job :
        /\ Sound(jobs[j], succeeded)
        /\ jobs[j].state = "SUCCEEDED" => j \in succeeded

ThreadInv ==
    /\ th \in [Thread -> Locals]
    /\ \A t \in Thread : Fine(th[t], succeeded, deadLetter)

\* The rest of TypeOK.
MemoryInv ==
    /\ deadLetter \subseteq Job /\ succeeded \subseteq Job
    /\ queue \subseteq Job /\ timers \subseteq Job
    /\ leases \subseteq [task : Nat, job : Job, attempt : Nat]
    /\ revIndex \in [Job -> SUBSET Job]
    /\ leader \in BOOLEAN
    /\ callbacks \subseteq ({"lead", "down"} \X Nat)
    /\ nextTask \in Nat /\ results \subseteq (Nat \X {"ok", "fail"})
    /\ submits \in [Job -> Nat] /\ errors \in Nat /\ crashes \in Nat /\ stepDowns \in Nat

IInv == StoreInv /\ ThreadInv /\ MemoryInv

-----------------------------------------------------------------------------
(* Records.                                                                *)

LEMMA AbsentCounted == Absent \in Record /\ Counted(Absent) /\ Absent.state = "ABSENT"
BY DEF Absent, Record, JobState, Counted

LEMMA AbsentSound == ASSUME NEW S PROVE Sound(Absent, S)
BY AbsentCounted DEF Sound

\* A record with another state and due time ...
LEMMA Restated ==
    ASSUME NEW rec \in Record, NEW st \in JobState, NEW b \in BOOLEAN, NEW S
    PROVE  LET new == [rec EXCEPT !.state = st, !.sched = b] IN
           /\ new \in Record /\ new.state = st
           /\ Counted(rec) => Counted(new)
           /\ HasTry(rec) => HasTry(new)
           /\ Met(rec, S) => Met(new, S)
BY Zenon DEF Record, Counted, HasTry, Met

LEMMA Renamed ==
    ASSUME NEW rec \in Record, NEW st \in JobState, NEW S
    PROVE  LET new == [rec EXCEPT !.state = st] IN
           /\ new \in Record /\ new.state = st
           /\ Counted(rec) => Counted(new)
           /\ HasTry(rec) => HasTry(new)
           /\ Met(rec, S) => Met(new, S)
BY DEF Record, Counted, HasTry, Met

\* ... with one more attempt, when there is one left ...
LEMMA Tried ==
    ASSUME NEW rec \in Record, HasTry(rec), Counted(rec), NEW S, Met(rec, S)
    PROVE  LET new == [rec EXCEPT !.state = "RUNNING", !.attempt = @ + 1, !.sched = FALSE] IN
           Sound(new, S) /\ new.state = "RUNNING"
<1>. DEFINE new == [rec EXCEPT !.state = "RUNNING", !.attempt = @ + 1, !.sched = FALSE]
<1>1. rec.attempt + 1 \in Nat
  BY DEF Record
<1>4. new \in Record /\ new.state = "RUNNING"
  BY <1>1, Zenon DEF Record, JobState
<1>2. Counted(new)
  BY DEF Record, Counted, HasTry
<1>3. Met(new, S)
  BY DEF Record, Met
<1>. QED  BY <1>2, <1>3, <1>4 DEF Sound

\* ... and with its attempts reset.
LEMMA Reset ==
    ASSUME NEW rec \in Record, Counted(rec), NEW S, Met(rec, S)
    PROVE  LET new == [rec EXCEPT !.state = "QUEUED", !.attempt = 0, !.sched = TRUE] IN
           Sound(new, S) /\ new.state = "QUEUED"
<1>. DEFINE new == [rec EXCEPT !.state = "QUEUED", !.attempt = 0, !.sched = TRUE]
<1>1. new \in Record /\ new.state = "QUEUED"
  BY Zenon DEF Record, JobState
<1>2. Counted(new) /\ HasTry(new)
  BY DEF Record, Counted, HasTry
<1>3. Met(new, S)
  BY DEF Record, Met
<1>. QED  BY <1>1, <1>2, <1>3 DEF Sound

LEMMA SoundGrows ==
    ASSUME NEW rec, NEW S, NEW S2, S \subseteq S2, Sound(rec, S) PROVE Sound(rec, S2)
BY DEF Sound, Met

LEMMA ListedGrows ==
    ASSUME NEW list, NEW S, NEW S2, S \subseteq S2, Listed(list, S) PROVE Listed(list, S2)
BY SoundGrows DEF Listed

-----------------------------------------------------------------------------
(* Goroutines.                                                             *)

\* Knowledge only grows: what a goroutine knows of its copy stays true.
LEMMA FineGrows ==
    ASSUME NEW r, NEW S, NEW D, NEW S2, NEW D2, S \subseteq S2, D \subseteq D2, Fine(r, S, D)
    PROVE  Fine(r, S2, D2)
<1>1. Listed(r.list, S2)
  BY ListedGrows, Zenon DEF Fine
<1>2. r.pc \in Unblocked => Met(r.rec, S2)
  BY Zenon DEF Fine, Met
<1>3. r.pc = "deps" => MetBefore(r.rec, r.k, S2)
  BY DEF Fine, MetBefore
<1>. QED  BY <1>1, <1>2, <1>3, Zenon DEF Fine

\* At the other program counters little has to be known.
LEMMA PlainFine ==
    ASSUME NEW r, NEW S, NEW D, r.pc \notin Untried, r.pc \notin Unblocked, Counted(r.rec),
           r.pc \in Working => r.job \in Job, Listed(r.list, S)
    PROVE  Fine(r, S, D)
BY Zenon DEF Fine, Untried, Unblocked

LEMMA FirstPosition == 1 \in Position
BY DEF Position

LEMMA IdleFine ==
    ASSUME NEW S, NEW D PROVE Idle \in Locals /\ Fine(Idle, S, D)
<1>1. Idle \in Locals
  BY AbsentCounted, FirstPosition DEF Idle, Locals, Between, Working
<1>2. Idle.pc = "idle" /\ Idle.rec = Absent /\ Idle.list = {}
  BY DEF Idle
<1>3. Idle.pc \notin Untried /\ Idle.pc \notin Unblocked /\ Idle.pc \notin Working
  BY <1>2 DEF Untried, Unblocked, Working
<1>. QED  BY <1>1, <1>2, <1>3, AbsentCounted, PlainFine DEF Listed

\* A goroutine begins: its list is empty and its copy is none.
LEMMA FreshFine ==
    ASSUME NEW S, NEW D, NEW r, r.rec = Absent, r.list = {}, r.pc \notin Untried, r.pc \notin Unblocked,
           r.pc \in Working => r.job \in Job
    PROVE  Fine(r, S, D)
BY AbsentCounted, PlainFine DEF Listed

\* Resume knows nothing of a job.
LEMMA ResumeFine ==
    ASSUME NEW r \in Locals, NEW S, NEW D, Listed(r.list, S)
    PROVE  Resume(r) \in Locals /\ Fine(Resume(r), S, D)
<1>. DEFINE s == [r EXCEPT !.job = Nil, !.rec = Absent, !.flag = FALSE, !.k = 1]
<1>1. s \in Locals
  BY AbsentCounted, FirstPosition, Zenon DEF Locals
<1>2. s.rec = Absent /\ s.list = r.list
  BY DEF Locals
<1>. HIDE DEF s
<1>3. ASSUME NEW pc \in {"cascade", "rebuild", "promote", "drop"}, NEW q \in SUBSET Job,
             NEW x, x = [s EXCEPT !.pc = pc, !.seen = q]
      PROVE  x \in Locals /\ Fine(x, S, D)
  <2>1. pc \in Between /\ pc \notin Working /\ pc \notin Untried /\ pc \notin Unblocked
    BY Zenon DEF Between, Working, Untried, Unblocked
  <2>2. x \in Locals
    BY <1>1, <1>3, <2>1, Zenon DEF Locals
  <2>3. x.rec = s.rec /\ x.list = s.list /\ x.pc = pc
    BY <1>1, <1>3 DEF Locals
  <2>. QED  BY <2>1, <2>2, <2>3, <1>2, AbsentCounted, PlainFine
<1>4. [s EXCEPT !.pc = "cascade"] = [s EXCEPT !.pc = "cascade", !.seen = s.seen] /\ s.seen \in SUBSET Job
  BY <1>1, Zenon DEF Locals
<1>. QED  BY <1>3, <1>4, IdleFine, Zenon DEF Resume, s

\* A goroutine moves on: with its copy, without it, with another one.
LEMMA GotoFine ==
    ASSUME NEW r \in Locals, NEW S, NEW D, Fine(r, S, D),
           NEW pc \in Between \cup Working, pc \in Working => r.pc \in Working, pc \notin Untried, pc \notin Unblocked,
           NEW x, x = [r EXCEPT !.pc = pc]
    PROVE  x \in Locals /\ Fine(x, S, D)
<1>1. x \in Locals /\ x.pc = pc /\ x.rec = r.rec /\ x.job = r.job /\ x.list = r.list
  BY DEF Locals
<1>2. Counted(r.rec) /\ (r.pc \in Working => r.job \in Job) /\ Listed(r.list, S)
  BY Zenon DEF Fine
<1>. QED  BY <1>1, <1>2, PlainFine, Zenon

LEMMA ForgetFine ==
    ASSUME NEW r \in Locals, NEW S, NEW D, Fine(r, S, D), r.pc \in Working,
           NEW pc \in Between \cup Working, pc \notin Untried, pc \notin Unblocked,
           NEW x, x = [r EXCEPT !.pc = pc, !.rec = Absent]
    PROVE  x \in Locals /\ Fine(x, S, D)
<1>1. x \in Locals /\ x.pc = pc /\ x.rec = Absent /\ x.job = r.job /\ x.list = r.list
  BY AbsentCounted, ZenonT(30) DEF Locals
<1>2. r.job \in Job /\ Listed(r.list, S)
  BY Zenon DEF Fine
<1>. QED  BY <1>1, <1>2, AbsentCounted, PlainFine, Zenon

LEMMA CopyFine ==
    ASSUME NEW r \in Locals, NEW S, NEW D, Fine(r, S, D), NEW j \in Job,
           NEW pc \in Working, pc # "deps", pc # "fail terminally",
           NEW rec \in Record, Counted(rec), pc \in Untried => HasTry(rec), pc \in Unblocked => Met(rec, S),
           NEW x, x = [r EXCEPT !.pc = pc, !.job = j, !.rec = rec]
    PROVE  x \in Locals /\ Fine(x, S, D)
<1>1. x \in Locals /\ x.pc = pc /\ x.rec = rec /\ x.job = j /\ x.list = r.list
  BY Zenon DEF Locals
<1>2. Listed(r.list, S)
  BY Zenon DEF Fine
<1>. QED  BY <1>1, <1>2, Zenon DEF Fine

\* Its own job is the one it works on.
LEMMA SameJob ==
    ASSUME NEW r \in Locals, NEW pc, NEW rec
    PROVE  [r EXCEPT !.pc = pc, !.rec = rec] = [r EXCEPT !.pc = pc, !.job = r.job, !.rec = rec]
BY Zenon DEF Locals

\* It goes on with the loop it is in, with whatever is left of it.
LEMMA LoopFine ==
    ASSUME NEW r \in Locals, NEW S, NEW D, Fine(r, S, D), NEW x \in Locals, x.list = r.list
    PROVE  Resume(x) \in Locals /\ Fine(Resume(x), S, D)
BY ResumeFine, Zenon DEF Fine

LEMMA ArmedFine ==
    ASSUME NEW r \in Locals, NEW S, NEW D, Fine(r, S, D), r.pc \in Working,
           NEW x, x = IF r.flag THEN [r EXCEPT !.pc = "unindex"] ELSE Resume(r)
    PROVE  x \in Locals /\ Fine(x, S, D)
<1>1. "unindex" \in Working /\ "unindex" \notin Untried /\ "unindex" \notin Unblocked
  BY Zenon DEF Working, Untried, Unblocked
<1>2. [r EXCEPT !.pc = "unindex"] \in Locals /\ Fine([r EXCEPT !.pc = "unindex"], S, D)
  BY <1>1, GotoFine
<1>3. Resume(r) \in Locals /\ Fine(Resume(r), S, D)
  BY LoopFine
<1>. QED  BY <1>2, <1>3

-----------------------------------------------------------------------------
(* The graph of the jobs.                                                  *)

Edges(J) == [j \in Job |-> SeqSet(J[j].deps)]

\* The graph once job j is stored with its dependencies.
Extended(J, j, deps) == [i \in Job |-> IF i = j THEN SeqSet(deps) ELSE SeqSet(J[i].deps)]

Acyclic(G) == \A j \in Job : j \notin Upstream(G, j)

LEMMA UpstreamClosed ==
    ASSUME NEW G, NEW j \in Job, NEW S \in SUBSET Job, G[j] \subseteq S, \A x \in S : G[x] \subseteq S
    PROVE  Upstream(G, j) \subseteq S
BY DEF Upstream

\* A cycle of the new graph that does not go through what is upstream of j is one of the
\* old graph: to look at what is upstream of j is enough.
LEMMA NewEdges ==
    ASSUME NEW G \in [Job -> SUBSET Job], NEW H \in [Job -> SUBSET Job], NEW j \in Job,
           \A i \in Job \ {j} : H[i] = G[i], Acyclic(G),
           \A k \in {j} \cup Upstream(H, j) : k \notin Upstream(H, k)
    PROVE  Acyclic(H)
<1>. DEFINE U == Upstream(H, j)
<1>1. U \in SUBSET Job
  BY DEF Upstream
<1>2. \A x \in U \cup {j} : H[x] \subseteq U
  BY DEF Upstream
<1>. SUFFICES ASSUME NEW k \in Job, k \in Upstream(H, k), k \notin U, k # j PROVE FALSE
  BY DEF Acyclic
<1>. HIDE DEF U
<1>3. ASSUME NEW S \in SUBSET Job, G[k] \subseteq S, \A x \in S : G[x] \subseteq S PROVE k \in S
  <2>. DEFINE T == S \cup U \cup {j}
  <2>1. T \in SUBSET Job /\ H[k] \subseteq T /\ \A x \in T : H[x] \subseteq T
    BY <1>1, <1>2, <1>3, ZenonT(30)
  <2>. HIDE DEF T
  <2>2. k \in T
    BY <2>1, UpstreamClosed, ZenonT(30)
  <2>. QED  BY <2>2 DEF T
<1>4. k \in Upstream(G, k)
  BY <1>3 DEF Upstream
<1>. QED  BY <1>4 DEF Acyclic

LEMMA EdgesTyped ==
    ASSUME NEW J \in [Job -> Record], NEW j \in Job, NEW deps \in Seq(Job)
    PROVE  /\ Edges(J) \in [Job -> SUBSET Job] /\ Extended(J, j, deps) \in [Job -> SUBSET Job]
           /\ Extended(J, j, deps)[j] = SeqSet(deps)
           /\ \A i \in Job \ {j} : Extended(J, j, deps)[i] = Edges(J)[i]
<1>1. \A s \in Seq(Job) : SeqSet(s) \in SUBSET Job
  BY DEF SeqSet
<1>2. \A i \in Job : J[i].deps \in Seq(Job)
  BY DEF Record
<1>. QED  BY <1>1, <1>2, ZenonT(30) DEF Edges, Extended

\* wouldCreateCycle is right: what it lets through closes no cycle.
LEMMA CheckedAcyclic ==
    ASSUME IInv, Acyclic(Edges(jobs)), NEW j \in Job, NEW deps \in Seq(Job), ~wouldCreateCycle(j, deps)
    PROVE  Acyclic(Extended(jobs, j, deps))
<1>. DEFINE G == Edges(jobs)
            H == Extended(jobs, j, deps)
<1>1. /\ G \in [Job -> SUBSET Job] /\ H \in [Job -> SUBSET Job] /\ H[j] = SeqSet(deps)
      /\ \A i \in Job \ {j} : H[i] = G[i]
  BY EdgesTyped, ZenonT(30) DEF IInv, StoreInv
<1>2. CASE deps = <<>>
  <2>1. H[j] = {}
    BY <1>1, <1>2 DEF SeqSet
  <2>2. Upstream(H, j) \subseteq {}
    BY <2>1, UpstreamClosed, ZenonT(30)
  <2>. QED  BY <1>1, <2>2, NewEdges, ZenonT(30)
<1>3. CASE deps # <<>>
  <2>1. \A k \in {j} \cup Upstream(H, j) : k \notin Upstream(H, k)
    BY <1>3, Zenon DEF wouldCreateCycle, Extended
  <2>. HIDE DEF G, H
  <2>2. Acyclic(G)
    BY DEF G
  <2>3. Acyclic(H)
    BY <1>1, <2>1, <2>2, NewEdges, ZenonT(30)
  <2>. QED  BY <2>3 DEF H
<1>. QED  BY <1>2, <1>3, ZenonT(30)

-----------------------------------------------------------------------------
(* Steps.                                                                  *)

\* What a goroutine may rely on.
LEMMA Mine ==
    ASSUME IInv, NEW t \in Thread
    PROVE  th[t] \in Locals /\ Fine(th[t], succeeded, deadLetter)
BY DEF IInv, ThreadInv

LEMMA Stored ==
    ASSUME IInv, NEW j \in Job
    PROVE  /\ Sound(jobs[j], succeeded) /\ jobs[j] \in Record
           /\ jobs[j].state = "SUCCEEDED" => j \in succeeded
BY DEF IInv, StoreInv, Sound

\* One goroutine changes its locals, and the history grows.
LEMMA ThreadStep ==
    ASSUME IInv, NEW t \in Thread, NEW r \in Locals, th' = [th EXCEPT ![t] = r],
           succeeded \subseteq succeeded', deadLetter \subseteq deadLetter',
           Fine(r, succeeded, deadLetter) \/ Fine(r, succeeded', deadLetter')
    PROVE  ThreadInv'
<1>1. th' \in [Thread -> Locals]
  BY DEF IInv, ThreadInv
<1>2. Fine(r, succeeded', deadLetter')
  BY FineGrows
<1>3. ASSUME NEW u \in Thread PROVE Fine(th'[u], succeeded', deadLetter')
  <2>1. CASE u = t
    BY <1>2, <2>1 DEF IInv, ThreadInv
  <2>2. CASE u # t
    <3>1. th'[u] = th[u] /\ Fine(th[u], succeeded, deadLetter)
      BY <2>2 DEF IInv, ThreadInv
    <3>. QED  BY <3>1, FineGrows
  <2>. QED  BY <2>1, <2>2
<1>. QED  BY <1>1, <1>3 DEF ThreadInv

LEMMA StoreKept ==
    ASSUME IInv, UNCHANGED store
    PROVE  StoreInv' /\ succeeded' = succeeded /\ deadLetter' = deadLetter
BY DEF IInv, StoreInv, store

\* A step that leaves the store alone.
LEMMA MemoryStep ==
    ASSUME IInv, NEW t \in Thread, NEW r \in Locals, Become(t, r), UNCHANGED store, MemoryInv',
           Fine(r, succeeded, deadLetter)
    PROVE  IInv'
BY StoreKept, ThreadStep, Zenon DEF IInv, Become

\* A step of a goroutine by itself.
LEMMA LocalStep ==
    ASSUME IInv, NEW t \in Thread, NEW r \in Locals, Become(t, r), Local,
           Fine(r, succeeded, deadLetter)
    PROVE  IInv'
<1>1. MemoryInv'
  BY DEF IInv, MemoryInv, Local, store, memory, rest, node
<1>. QED  BY <1>1, MemoryStep DEF Local

\* A step that writes a record, and one whose write fails.
LEMMA PutStep ==
    ASSUME IInv, NEW t \in Thread, NEW r \in Locals, Become(t, r), Fine(r, succeeded, deadLetter),
           NEW j \in Job, NEW rec, Sound(rec, succeeded),
           putJob(j, rec), Storing
    PROVE  IInv'
<1>1. succeeded \subseteq succeeded' /\ succeeded' \subseteq Job /\ deadLetter' = deadLetter
  BY DEF IInv, MemoryInv, putJob, Storing
<1>2. rec \in Record
  BY DEF Sound
<1>3. jobs' = [jobs EXCEPT ![j] = rec] /\ jobs \in [Job -> Record]
  BY DEF putJob, IInv, StoreInv
<1>4. rec.state = "SUCCEEDED" => j \in succeeded'
  BY DEF putJob
<1>5. StoreInv'
  <2>1. ASSUME NEW i \in Job
        PROVE  /\ Sound(jobs'[i], succeeded')
               /\ jobs'[i].state = "SUCCEEDED" => i \in succeeded'
    <3>1. CASE i = j
      <4>1. jobs'[i] = rec
        BY <1>3, <3>1
      <4>. QED  BY <4>1, <3>1, <1>1, <1>4, SoundGrows
    <3>2. CASE i # j
      <4>1. jobs'[i] = jobs[i]
        BY <1>3, <3>2
      <4>2. Sound(jobs[i], succeeded')
        BY <1>1, SoundGrows DEF IInv, StoreInv
      <4>. QED  BY <4>1, <4>2, <1>1 DEF IInv, StoreInv
    <3>. QED  BY <3>1, <3>2
  <2>2. jobs' \in [Job -> Record]
    BY <1>2, <1>3
  <2>. QED  BY <2>1, <2>2 DEF StoreInv
<1>6. MemoryInv'
  BY <1>1 DEF IInv, MemoryInv, putJob, Storing, memory, node
<1>7. ThreadInv'
  BY <1>1, ThreadStep, ZenonT(30) DEF Become
<1>. QED  BY <1>5, <1>6, <1>7 DEF IInv

LEMMA PutFailsStep ==
    ASSUME IInv, NEW t \in Thread, NEW r \in Locals, Become(t, r), Fine(r, succeeded, deadLetter),
           PutFails, UNCHANGED deadLetter, UNCHANGED <<memory, node, nextTask, results, submits>>
    PROVE  IInv'
<1>1. UNCHANGED store
  BY DEF PutFails, store
<1>2. errors' \in Nat
  BY DEF IInv, MemoryInv, PutFails
<1>3. MemoryInv'
  BY <1>1, <1>2 DEF IInv, MemoryInv, memory, node, store
<1>. QED  BY <1>1, <1>3, MemoryStep

\* Steps that change one of the leader's maps.
LEMMA IndexStep ==
    ASSUME IInv, NEW t \in Thread, NEW r \in Locals, Become(t, r), Fine(r, succeeded, deadLetter),
           revIndex' \in [Job -> SUBSET Job], UNCHANGED <<store, queue, timers, leases, rest>>
    PROVE  IInv'
<1>1. MemoryInv'
  BY DEF IInv, MemoryInv, store, rest, node
<1>. QED  BY <1>1, MemoryStep

LEMMA QueueStep ==
    ASSUME IInv, NEW t \in Thread, NEW r \in Locals, Become(t, r), Fine(r, succeeded, deadLetter),
           queue' \subseteq Job, UNCHANGED <<store, timers, leases, revIndex, rest>>
    PROVE  IInv'
<1>1. MemoryInv'
  BY DEF IInv, MemoryInv, store, rest, node
<1>. QED  BY <1>1, MemoryStep

LEMMA TimersStep ==
    ASSUME IInv, NEW t \in Thread, NEW r \in Locals, Become(t, r), Fine(r, succeeded, deadLetter),
           timers' \subseteq Job, UNCHANGED <<store, queue, leases, revIndex, rest>>
    PROVE  IInv'
<1>1. MemoryInv'
  BY DEF IInv, MemoryInv, store, rest, node
<1>. QED  BY <1>1, MemoryStep

LEMMA LeasesStep ==
    ASSUME IInv, NEW t \in Thread, NEW r \in Locals, Become(t, r), Fine(r, succeeded, deadLetter),
           leases' \subseteq leases, UNCHANGED <<store, queue, timers, revIndex, rest>>
    PROVE  IInv'
<1>1. MemoryInv'
  BY DEF IInv, MemoryInv, store, rest, node
<1>. QED  BY <1>1, MemoryStep

\* The reverse index of a job is a set of jobs.
LEMMA IndexTyped ==
    ASSUME IInv, NEW j \in Job, NEW deps, removeFromIndex(j) \/ addDeps(j, deps)
    PROVE  revIndex' \in [Job -> SUBSET Job]
BY DEF IInv, MemoryInv, removeFromIndex, addDeps

\* The program counters at which nothing is known of the copy.
Plain == {"index", "arm", "enqueue", "push", "unindex", "polled", "ok", "fail", "succeeded", "dependents",
          "lease", "failed", "cancel", "canceled", "cascade cancel", "cascade dequeue", "cascade visit",
          "cascade unindex", "reclaim", "placeCanceled"}

LEMMA PlainPcs ==
    ASSUME NEW pc \in Plain
    PROVE  pc \in Working /\ pc \notin Untried /\ pc \notin Unblocked /\ pc # "deps" /\ pc # "fail terminally"
BY ZenonT(30) DEF Plain, Working, Untried, Unblocked

-----------------------------------------------------------------------------
(* Submissions and promotions.                                             *)

LEMMA StepSubmitJob ==
    ASSUME IInv, NEW t \in Thread, SubmitJob(t) PROVE IInv'
<1>1. PICK q \in Request :
        /\ Become(t, [Idle EXCEPT !.pc = "deps", !.job = q.job,
                                  !.rec = [Absent EXCEPT !.deps = q.deps, !.max = q.max, !.kind = q.kind]])
        /\ submits' = [submits EXCEPT ![q.job] = @ + 1]
  BY Zenon DEF SubmitJob
<1>. DEFINE rec == [Absent EXCEPT !.deps = q.deps, !.max = q.max, !.kind = q.kind]
            r == [Idle EXCEPT !.pc = "deps", !.job = q.job, !.rec = rec]
<1>2. q.job \in Job /\ q.deps \in Seq(Job) /\ q.max \in Nat \ {0} /\ q.kind \in {"once", "at", "cron"}
  BY RequestAssumption
<1>3. rec \in Record
  BY <1>2, Zenon DEF Absent, Record, JobState
<1>4. Counted(rec) /\ HasTry(rec)
  BY <1>2 DEF Absent, Counted, HasTry
<1>. HIDE DEF rec
<1>5. r \in Locals
  BY <1>2, <1>3, FirstPosition, ZenonT(30) DEF Idle, Locals, Working
<1>6. r.pc = "deps" /\ r.job = q.job /\ r.rec = rec /\ r.list = {} /\ r.k = 1
  BY DEF Idle
<1>. HIDE DEF r
<1>7. "deps" \in Untried /\ "deps" \notin Unblocked
  BY DEF Untried, Unblocked
<1>8. MetBefore(rec, 1, succeeded)
  BY <1>3 DEF MetBefore, Record
<1>9. Fine(r, succeeded, deadLetter)
  BY <1>2, <1>4, <1>6, <1>7, <1>8 DEF Fine, Listed
<1>10. submits' \in [Job -> Nat]
  BY <1>1, <1>2 DEF IInv, MemoryInv
<1>11. MemoryInv'
  BY <1>10 DEF IInv, MemoryInv, SubmitJob, store, memory, node
<1>12. Become(t, r) /\ UNCHANGED store
  BY <1>1 DEF SubmitJob, r, rec
<1>. QED  BY <1>5, <1>9, <1>11, <1>12, MemoryStep

\* A dependency that has SUCCEEDED is one of succeeded.
LEMMA StepdepsSatisfied ==
    ASSUME IInv, NEW t \in Thread, depsSatisfied(t) PROVE IInv'
<1>. DEFINE r == th[t]
            d == r.rec.deps[r.k]
<1>1. r \in Locals /\ Fine(r, succeeded, deadLetter) /\ r.pc = "deps"
  BY Mine, ZenonT(30) DEF depsSatisfied, At
<1>2. r.rec \in Record /\ r.k \in Position /\ r.job \in Job /\ r.flag \in BOOLEAN
  BY <1>1, ZenonT(30) DEF Locals, Fine, Working
<1>3. MetBefore(r.rec, r.k, succeeded) /\ HasTry(r.rec) /\ Counted(r.rec) /\ Listed(r.list, succeeded)
  BY <1>1 DEF Fine, Untried
<1>4. r.rec.deps \in Seq(Job)
  BY <1>2 DEF Record
<1>5. CASE r.k > Len(r.rec.deps)
  <2>. DEFINE x == [r EXCEPT !.pc = "ready", !.k = 1]
  <2>1. Become(t, x)
    BY <1>5, ZenonT(30) DEF depsSatisfied
  <2>2. Met(r.rec, succeeded)
    BY <1>2, <1>3, <1>4, <1>5 DEF Met, MetBefore, SeqSet, Position
  <2>3. x \in Locals /\ x.pc = "ready" /\ x.rec = r.rec /\ x.job = r.job /\ x.list = r.list
    BY <1>1, FirstPosition, ZenonT(30) DEF Locals, Working
  <2>. HIDE DEF x
  <2>4. Fine(x, succeeded, deadLetter)
    BY <2>2, <2>3, <1>2, <1>3 DEF Fine
  <2>. QED  BY <2>1, <2>3, <2>4, LocalStep, ZenonT(30) DEF depsSatisfied
<1>6. CASE ~(r.k > Len(r.rec.deps)) /\ DepMet(d)
  <2>. DEFINE x == [r EXCEPT !.k = @ + 1]
  <2>1. Become(t, x)
    BY <1>6 DEF depsSatisfied
  <2>2. r.k \in DOMAIN r.rec.deps /\ r.k + 1 \in Position
    BY <1>2, <1>4, <1>6 DEF Position
  <2>3. d \in Job
    BY <2>2, <1>4
  <2>4. d \in succeeded
    BY <2>3, <1>6, Stored, ZenonT(30) DEF DepMet
  <2>5. MetBefore(r.rec, r.k + 1, succeeded)
    <3>1. ASSUME NEW i \in DOMAIN r.rec.deps, i < r.k + 1 PROVE i < r.k \/ i = r.k
      BY <3>1, <1>2, <1>4 DEF Position
    <3>. QED  BY <3>1, <2>4, <1>3 DEF MetBefore
  <2>6. x \in Locals /\ x.pc = "deps" /\ x.rec = r.rec /\ x.job = r.job /\ x.list = r.list /\ x.k = r.k + 1
    BY <1>1, <2>2 DEF Locals
  <2>. HIDE DEF x
  <2>7. "deps" \notin Unblocked
    BY DEF Unblocked
  <2>8. Fine(x, succeeded, deadLetter)
    BY <2>5, <2>6, <2>7, <1>2, <1>3 DEF Fine
  <2>. QED  BY <2>1, <2>6, <2>8, LocalStep, ZenonT(30) DEF depsSatisfied
<1>7. CASE ~(r.k > Len(r.rec.deps)) /\ ~DepMet(d)
  <2>1. ASSUME NEW pc \in {"placeCanceled", "placePending"}, Become(t, [r EXCEPT !.pc = pc, !.k = 1]) PROVE IInv'
    <3>. DEFINE x == [r EXCEPT !.pc = pc, !.k = 1]
    <3>1. pc \in Working /\ pc \notin Unblocked
      BY ZenonT(30) DEF Working, Unblocked
    <3>2. x \in Locals /\ x.pc = pc /\ x.rec = r.rec /\ x.job = r.job /\ x.list = r.list
      BY <1>1, <3>1, FirstPosition, ZenonT(30) DEF Locals
    <3>. HIDE DEF x
    <3>3. Fine(x, succeeded, deadLetter)
      BY <3>1, <3>2, <1>2, <1>3, Zenon DEF Fine
    <3>. QED  BY <2>1, <3>2, <3>3, LocalStep, ZenonT(30) DEF depsSatisfied, x
  <2>2. ASSUME NEW w \in {{r.job}, r.work}, Become(t, Resume([r EXCEPT !.work = w])) PROVE IInv'
    <3>1. [r EXCEPT !.work = w] \in Locals /\ [r EXCEPT !.work = w].list = r.list
      BY <1>1, <1>2 DEF Locals
    <3>. QED  BY <2>2, <3>1, <1>1, LoopFine, LocalStep, ZenonT(30) DEF depsSatisfied
  <2>3. [r EXCEPT !.work = r.work] = r
    BY <1>1 DEF Locals
  <2>. QED  BY <1>7, <2>1, <2>2, <2>3, ZenonT(30) DEF depsSatisfied
<1>. QED  BY <1>5, <1>6, <1>7

LEMMA StepplaceCanceled ==
    ASSUME IInv, NEW t \in Thread, placeCanceled(t) PROVE IInv'
<1>. DEFINE r == th[t]
            rec == [r.rec EXCEPT !.state = "CANCELED"]
<1>1. r \in Locals /\ Fine(r, succeeded, deadLetter) /\ r.pc = "placeCanceled"
  BY Mine DEF placeCanceled, At
<1>2. r.rec \in Record /\ Counted(r.rec) /\ r.job \in Job
  BY <1>1, ZenonT(30) DEF Locals, Fine, Working
<1>3. Sound(rec, succeeded)
  BY <1>2, Renamed, ZenonT(30) DEF Sound, JobState
<1>4. Resume(r) \in Locals /\ Fine(Resume(r), succeeded, deadLetter)
  BY <1>1, LoopFine
<1>. HIDE DEF rec
<1>5. Become(t, Resume(r)) /\ Storing /\ (putJob(r.job, rec) \/ PutFails)
  BY DEF placeCanceled, PutLogged, rec
<1>. HIDE DEF r
<1>6. CASE putJob(r.job, rec)
  BY <1>2, <1>3, <1>4, <1>5, <1>6, PutStep
<1>7. CASE PutFails
  BY <1>4, <1>5, <1>7, PutFailsStep DEF Storing
<1>. QED  BY <1>5, <1>6, <1>7

LEMMA StepplacePending ==
    ASSUME IInv, NEW t \in Thread, placePending(t) PROVE IInv'
<1>. DEFINE r == th[t]
            rec == [r.rec EXCEPT !.state = "PENDING"]
            x == [r EXCEPT !.pc = "index"]
<1>1. r \in Locals /\ Fine(r, succeeded, deadLetter) /\ r.pc = "placePending"
  BY Mine DEF placePending, At
<1>2. r.rec \in Record /\ Counted(r.rec) /\ HasTry(r.rec) /\ r.job \in Job /\ r.pc \in Working
  BY <1>1, ZenonT(30) DEF Locals, Fine, Working, Untried
<1>3. Sound(rec, succeeded)
  BY <1>2, Renamed, ZenonT(30) DEF Sound, JobState
<1>4. x \in Locals /\ Fine(x, succeeded, deadLetter)
  BY <1>1, <1>2, PlainPcs, GotoFine, Zenon DEF Plain
<1>. HIDE DEF rec
<1>5. Become(t, x) /\ Storing /\ (putJob(r.job, rec) \/ PutFails)
  BY DEF placePending, PutLogged, Goto, rec
<1>. HIDE DEF r, x
<1>6. CASE putJob(r.job, rec)
  BY <1>2, <1>3, <1>4, <1>5, <1>6, PutStep
<1>7. CASE PutFails
  BY <1>4, <1>5, <1>7, PutFailsStep DEF Storing
<1>. QED  BY <1>5, <1>6, <1>7

LEMMA StepplaceIndex ==
    ASSUME IInv, NEW t \in Thread, placeIndex(t) PROVE IInv'
<1>1. th[t] \in Locals /\ Fine(th[t], succeeded, deadLetter) /\ th[t].pc = "index"
  BY Mine DEF placeIndex, At
<1>2. th[t].job \in Job
  BY <1>1 DEF Fine, Working
<1>3. revIndex' \in [Job -> SUBSET Job]
  BY <1>2, IndexTyped DEF placeIndex
<1>. QED  BY <1>1, <1>3, LoopFine, IndexStep DEF placeIndex

LEMMA StepmakeReady ==
    ASSUME IInv, NEW t \in Thread, makeReady(t) PROVE IInv'
<1>. DEFINE r == th[t]
<1>1. r \in Locals /\ Fine(r, succeeded, deadLetter) /\ r.pc = "ready"
  BY Mine, ZenonT(30) DEF makeReady, At
<1>2. r.rec \in Record /\ Counted(r.rec) /\ HasTry(r.rec) /\ Met(r.rec, succeeded) /\ r.job \in Job
      /\ r.pc \in Working /\ r.rec.sched \in BOOLEAN
  BY <1>1, ZenonT(30) DEF Locals, Record, Fine, Working, Untried, Unblocked
<1>3. Storing
  BY ZenonT(30) DEF makeReady
<1>4. ASSUME PutFails, Armed(t) PROVE IInv'
  BY <1>1, <1>2, <1>3, <1>4, ArmedFine, PutFailsStep DEF Armed, Storing
<1>5. ASSUME NEW sched \in BOOLEAN, putJob(r.job, [r.rec EXCEPT !.state = "QUEUED", !.sched = sched]),
             NEW pc \in {"enqueue", "arm"}, Forget(t, pc)
      PROVE  IInv'
  <2>. DEFINE rec == [r.rec EXCEPT !.state = "QUEUED", !.sched = sched]
              x == [r EXCEPT !.pc = pc, !.rec = Absent]
  <2>1. Sound(rec, succeeded)
    BY <1>2, Restated, ZenonT(60) DEF Sound, JobState
  <2>2. pc \in Plain
    BY Zenon DEF Plain
  <2>3. x \in Locals /\ Fine(x, succeeded, deadLetter)
    BY <1>1, <1>2, <2>2, PlainPcs, ForgetFine, Zenon
  <2>4. Become(t, x) /\ putJob(r.job, rec)
    BY <1>5 DEF Forget
  <2>. HIDE DEF rec, x
  <2>. QED  BY <1>2, <1>3, <2>1, <2>3, <2>4, PutStep, ZenonT(30)
<1>6. \/ PutFails /\ Armed(t)
      \/ \E sched \in {r.rec.sched, TRUE} :
            /\ putJob(r.job, [r.rec EXCEPT !.state = "QUEUED", !.sched = sched])
            /\ \E pc \in {"enqueue", "arm"} : Forget(t, pc)
  <2>1. r.rec.kind \in {"once", "at", "cron"}
    BY <1>2 DEF Record
  <2>. QED  BY <2>1, ZenonT(30) DEF makeReady
<1>. QED  BY <1>2, <1>4, <1>5, <1>6, ZenonT(30)

LEMMA StepEnqueue ==
    ASSUME IInv, NEW t \in Thread, armEnqueue(t) \/ enqueueJob(t) \/ Push(t) PROVE IInv'
<1>. DEFINE r == th[t]
            x == IF r.flag THEN [r EXCEPT !.pc = "unindex"] ELSE Resume(r)
            y == [r EXCEPT !.pc = "push", !.rec = Absent]
<1>1. r \in Locals /\ Fine(r, succeeded, deadLetter) /\ r.pc \in {"arm", "enqueue", "push"}
  BY Mine DEF armEnqueue, enqueueJob, Push, At
<1>2. r.pc \in Working /\ r.job \in Job
  BY <1>1, ZenonT(30) DEF Fine, Working
<1>3. x \in Locals /\ Fine(x, succeeded, deadLetter)
  BY <1>1, <1>2, ArmedFine
<1>4. y \in Locals /\ Fine(y, succeeded, deadLetter)
  BY <1>1, <1>2, PlainPcs, ForgetFine, ZenonT(30) DEF Plain
<1>. HIDE DEF x, y
<1>5. Armed(t) => Become(t, x)
  BY DEF Armed, x
<1>6. CASE armEnqueue(t)
  <2>1. timers' \subseteq Job
    BY <1>2, <1>6 DEF armEnqueue, IInv, MemoryInv
  <2>. QED  BY <1>3, <1>5, <1>6, <2>1, TimersStep DEF armEnqueue
<1>7. CASE enqueueJob(t)
  <2>1. Become(t, x) \/ Become(t, y)
    BY <1>5, <1>7 DEF enqueueJob, Forget, y
  <2>. QED  BY <1>3, <1>4, <1>7, <2>1, LocalStep DEF enqueueJob
<1>8. CASE Push(t)
  <2>1. queue' \subseteq Job
    BY <1>2, <1>8 DEF Push, IInv, MemoryInv
  <2>. QED  BY <1>3, <1>5, <1>8, <2>1, QueueStep DEF Push
<1>. QED  BY <1>6, <1>7, <1>8

LEMMA StepTimerFires ==
    ASSUME IInv, NEW t \in Thread, TimerFires(t) PROVE IInv'
<1>1. PICK j \in timers : timers' = timers \ {j} /\ Become(t, [Idle EXCEPT !.pc = "enqueue", !.job = j])
  BY ZenonT(30) DEF TimerFires
<1>. DEFINE r == [Idle EXCEPT !.pc = "enqueue", !.job = j]
<1>2. j \in Job /\ timers' \subseteq Job
  BY <1>1 DEF IInv, MemoryInv
<1>3. r \in Locals /\ r.pc = "enqueue" /\ r.job = j /\ r.rec = Absent /\ r.list = {}
  BY <1>2, AbsentCounted, FirstPosition, ZenonT(30) DEF Idle, Locals, Working
<1>. HIDE DEF r
<1>4. Fine(r, succeeded, deadLetter)
  BY <1>2, <1>3, PlainPcs, FreshFine, ZenonT(30) DEF Plain
<1>. QED  BY <1>1, <1>2, <1>3, <1>4, TimersStep DEF TimerFires, r

LEMMA SteppromoteUnindex ==
    ASSUME IInv, NEW t \in Thread, promoteUnindex(t) PROVE IInv'
<1>. DEFINE r == [th[t] EXCEPT !.flag = FALSE]
<1>1. th[t] \in Locals /\ Fine(th[t], succeeded, deadLetter) /\ th[t].pc = "unindex"
  BY Mine DEF promoteUnindex, At
<1>2. th[t].job \in Job
  BY <1>1, Zenon DEF Fine, Working
<1>3. revIndex' \in [Job -> SUBSET Job]
  BY <1>2, IndexTyped DEF promoteUnindex
<1>4. r \in Locals /\ r.list = th[t].list
  BY <1>1, ZenonT(30) DEF Locals
<1>. QED  BY <1>1, <1>3, <1>4, LoopFine, IndexStep, ZenonT(30) DEF promoteUnindex

\* A job that is PENDING in the store has a try left.
LEMMA SteptryPromote ==
    ASSUME IInv, NEW t \in Thread, tryPromote(t) PROVE IInv'
<1>1. PICK j \in th[t].todo :
        LET r == [th[t] EXCEPT !.todo = @ \ {j}] IN
        Become(t, IF jobs[j].state = "PENDING"
                  THEN [r EXCEPT !.pc = "deps", !.job = j, !.rec = jobs[j], !.flag = TRUE, !.k = 1]
                  ELSE Resume(r))
  BY Zenon DEF tryPromote
<1>. DEFINE r == [th[t] EXCEPT !.todo = @ \ {j}]
            x == [r EXCEPT !.pc = "deps", !.job = j, !.rec = jobs[j], !.flag = TRUE, !.k = 1]
<1>2. th[t] \in Locals /\ Fine(th[t], succeeded, deadLetter) /\ j \in Job
  BY <1>1, Mine DEF Locals
<1>3. r \in Locals /\ r.list = th[t].list
  BY <1>2 DEF Locals
<1>. HIDE DEF r
<1>4. Sound(jobs[j], succeeded) /\ jobs[j] \in Record
  BY <1>2, Stored
<1>5. x \in Locals /\ x.pc = "deps" /\ x.job = j /\ x.rec = jobs[j] /\ x.k = 1 /\ x.list = r.list
  BY <1>2, <1>3, <1>4, FirstPosition, ZenonT(60) DEF Locals, Working
<1>. HIDE DEF x
<1>6. CASE jobs[j].state = "PENDING"
  <2>1. "deps" \in Untried /\ "deps" \notin Unblocked
    BY DEF Untried, Unblocked
  <2>2. HasTry(jobs[j]) /\ Counted(jobs[j])
    BY <1>4, <1>6, ZenonT(30) DEF Sound
  <2>3. jobs[j].deps \in Seq(Job)
    BY <1>4, ZenonT(30) DEF Record
  <2>4. MetBefore(jobs[j], 1, succeeded)
    BY <2>3 DEF MetBefore
  <2>5. Fine(x, succeeded, deadLetter)
    BY <1>2, <1>3, <1>5, <2>1, <2>2, <2>4, ZenonT(30) DEF Fine
  <2>. QED  BY <1>1, <1>5, <1>6, <2>5, LocalStep DEF tryPromote, r, x
<1>7. CASE jobs[j].state # "PENDING"
  <2>1. Become(t, Resume(r)) /\ Local
    BY <1>1, <1>7 DEF tryPromote, r
  <2>. QED  BY <1>2, <1>3, <2>1, LoopFine, LocalStep, ZenonT(30)
<1>. QED  BY <1>6, <1>7

-----------------------------------------------------------------------------
(* Polls.                                                                  *)

LEMMA StepPollTask ==
    ASSUME IInv, NEW t \in Thread, PollTask(t) PROVE IInv'
<1>. DEFINE x == [th[t] EXCEPT !.pc = "pop"]
<1>1. "pop" \in Between /\ "pop" \notin Working /\ "pop" \notin Untried /\ "pop" \notin Unblocked
  BY DEF Between, Working, Untried, Unblocked
<1>2. x \in Locals /\ Fine(x, succeeded, deadLetter)
  BY <1>1, Mine, GotoFine
<1>3. Become(t, x) /\ Local
  BY DEF PollTask, Goto
<1>. HIDE DEF x
<1>. QED  BY <1>2, <1>3, LocalStep

LEMMA StepPop ==
    ASSUME IInv, NEW t \in Thread, Pop(t) PROVE IInv'
<1>1. CASE Become(t, Idle) /\ UNCHANGED queue
  <2>1. queue' \subseteq Job
    BY <1>1 DEF IInv, MemoryInv
  <2>. QED  BY <1>1, <2>1, IdleFine, QueueStep, ZenonT(30) DEF Pop
<1>2. ASSUME NEW j \in queue, queue' = queue \ {j}, Become(t, [Idle EXCEPT !.pc = "polled", !.job = j])
      PROVE  IInv'
  <2>. DEFINE r == [Idle EXCEPT !.pc = "polled", !.job = j]
  <2>1. j \in Job /\ queue' \subseteq Job
    BY <1>2 DEF IInv, MemoryInv
  <2>2. r \in Locals /\ r.pc = "polled" /\ r.job = j /\ r.rec = Absent /\ r.list = {}
    BY <2>1, AbsentCounted, FirstPosition, ZenonT(30) DEF Idle, Locals, Working
  <2>. HIDE DEF r
  <2>3. Fine(r, succeeded, deadLetter)
    BY <2>1, <2>2, PlainPcs, FreshFine, ZenonT(30) DEF Plain
  <2>. QED  BY <1>2, <2>1, <2>2, <2>3, QueueStep, ZenonT(30) DEF Pop, r
<1>. QED  BY <1>1, <1>2, ZenonT(30) DEF Pop

\* A job that is QUEUED in the store has a try left, and its dependencies are met.
LEMMA StepPollLoad ==
    ASSUME IInv, NEW t \in Thread, PollLoad(t) PROVE IInv'
<1>. DEFINE r == th[t]
            j == r.job
            x == [r EXCEPT !.pc = "dispatch", !.rec = jobs[j]]
            y == [Idle EXCEPT !.pc = "pop"]
<1>1. r \in Locals /\ Fine(r, succeeded, deadLetter) /\ r.pc = "polled"
  BY Mine DEF PollLoad, At
<1>2. j \in Job
  BY <1>1, ZenonT(30) DEF Fine, Working
<1>3. Sound(jobs[j], succeeded) /\ jobs[j] \in Record
  BY <1>2, Stored
<1>4. CASE jobs[j].state = "QUEUED"
  <2>1. HasTry(jobs[j]) /\ Counted(jobs[j]) /\ Met(jobs[j], succeeded)
    BY <1>3, <1>4, ZenonT(30) DEF Sound
  <2>2. "dispatch" \in Working
    BY DEF Working
  <2>3. x = [r EXCEPT !.pc = "dispatch", !.job = j, !.rec = jobs[j]]
    BY <1>1, SameJob, ZenonT(30)
  <2>4. x \in Locals /\ Fine(x, succeeded, deadLetter)
    BY <1>1, <1>2, <1>3, <2>1, <2>2, <2>3, CopyFine, ZenonT(60)
  <2>5. Become(t, x) /\ Local
    BY <1>4 DEF PollLoad
  <2>. HIDE DEF x
  <2>. QED  BY <2>4, <2>5, LocalStep
<1>5. CASE jobs[j].state # "QUEUED"
  <2>1. y \in Locals /\ y.pc = "pop" /\ y.rec = Absent /\ y.list = {}
    BY AbsentCounted, FirstPosition, ZenonT(30) DEF Idle, Locals, Between
  <2>2. "pop" \notin Working /\ "pop" \notin Untried /\ "pop" \notin Unblocked
    BY DEF Working, Untried, Unblocked
  <2>3. Become(t, y) /\ Local
    BY <1>5 DEF PollLoad
  <2>. HIDE DEF y
  <2>4. Fine(y, succeeded, deadLetter)
    BY <2>1, <2>2, FreshFine
  <2>. QED  BY <2>1, <2>3, <2>4, LocalStep
<1>. QED  BY <1>4, <1>5, ZenonT(30)

LEMMA StepPollPut ==
    ASSUME IInv, NEW t \in Thread, PollPut(t) PROVE IInv'
<1>. DEFINE r == th[t]
            rec == [r.rec EXCEPT !.state = "RUNNING", !.attempt = @ + 1, !.sched = FALSE]
            x == [r EXCEPT !.pc = "lease", !.rec = rec]
            y == [r EXCEPT !.pc = "push", !.rec = Absent]
<1>1. r \in Locals /\ Fine(r, succeeded, deadLetter) /\ r.pc = "dispatch"
  BY Mine DEF PollPut, At
<1>2. /\ r.rec \in Record /\ Counted(r.rec) /\ HasTry(r.rec) /\ Met(r.rec, succeeded)
      /\ r.job \in Job /\ r.pc \in Working
  BY <1>1, ZenonT(30) DEF Locals, Fine, Working, Untried, Unblocked
<1>3. Sound(rec, succeeded) /\ rec.state = "RUNNING"
  BY <1>2, Tried, ZenonT(30)
<1>4. Storing /\ ((putJob(r.job, rec) /\ Become(t, x)) \/ (PutFails /\ Become(t, y)))
  BY DEF PollPut, Forget
<1>. HIDE DEF rec
<1>5. rec \in Record /\ Counted(rec)
  BY <1>3 DEF Sound
<1>6. x = [r EXCEPT !.pc = "lease", !.job = r.job, !.rec = rec]
  BY <1>1, SameJob, ZenonT(30)
<1>7. x \in Locals /\ Fine(x, succeeded, deadLetter)
  BY <1>1, <1>2, <1>5, <1>6, PlainPcs, CopyFine, ZenonT(30) DEF Plain
<1>8. y \in Locals /\ Fine(y, succeeded, deadLetter)
  BY <1>1, <1>2, PlainPcs, ForgetFine, ZenonT(30) DEF Plain
<1>. HIDE DEF x, y
<1>9. CASE putJob(r.job, rec) /\ Become(t, x)
  BY <1>2, <1>3, <1>4, <1>7, <1>9, PutStep
<1>10. CASE PutFails /\ Become(t, y)
  BY <1>4, <1>8, <1>10, PutFailsStep DEF Storing
<1>. QED  BY <1>4, <1>9, <1>10

LEMMA StepaddLease ==
    ASSUME IInv, NEW t \in Thread, addLease(t) PROVE IInv'
<1>1. th[t] \in Locals /\ Fine(th[t], succeeded, deadLetter) /\ th[t].pc = "lease"
  BY Mine, ZenonT(30) DEF addLease, At
<1>2. th[t].job \in Job /\ th[t].rec.attempt \in Nat
  BY <1>1, ZenonT(30) DEF Fine, Working, Locals, Record
<1>6. nextTask' = nextTask + 1 /\ nextTask \in Nat
  BY Zenon DEF addLease, IInv, MemoryInv
<1>3. nextTask' \in Nat /\ nextTask \in Nat
  BY <1>6
<1>7. /\ leases' = leases \cup {[task |-> nextTask, job |-> th[t].job, attempt |-> th[t].rec.attempt]}
      /\ leases \subseteq [task : Nat, job : Job, attempt : Nat]
  BY Zenon DEF addLease, IInv, MemoryInv
<1>4. leases' \subseteq [task : Nat, job : Job, attempt : Nat]
  BY <1>2, <1>3, <1>7
<1>5. MemoryInv'
  BY <1>3, <1>4, ZenonT(30) DEF addLease, IInv, MemoryInv, store, node
<1>. QED  BY <1>5, IdleFine, MemoryStep DEF addLease

-----------------------------------------------------------------------------
(* Reports.                                                                *)

LEMMA StepReportTask ==
    ASSUME IInv, NEW t \in Thread, ReportTask(t) PROVE IInv'
<1>1. PICK l \in leases, res \in {"ok", "fail"} :
        /\ results' = results \cup {<<l.task, res>>}
        /\ Become(t, [Idle EXCEPT !.pc = res, !.job = l.job, !.task = l.task])
  BY ZenonT(30) DEF ReportTask
<1>. DEFINE r == [Idle EXCEPT !.pc = res, !.job = l.job, !.task = l.task]
<1>2. l.job \in Job /\ l.task \in Nat
  BY DEF IInv, MemoryInv
<1>3. res \in Plain /\ res \in Working
  BY ZenonT(30) DEF Plain, Working
<1>4. r \in Locals /\ r.pc = res /\ r.job = l.job /\ r.rec = Absent /\ r.list = {}
  BY <1>2, <1>3, AbsentCounted, FirstPosition, ZenonT(30) DEF Idle, Locals
<1>5. results' \subseteq (Nat \X {"ok", "fail"})
  BY <1>1, <1>2 DEF IInv, MemoryInv
<1>6. MemoryInv'
  BY <1>5 DEF IInv, MemoryInv, ReportTask, store, memory, node
<1>7. Become(t, r) /\ UNCHANGED store
  BY <1>1 DEF ReportTask
<1>. HIDE DEF r
<1>8. Fine(r, succeeded, deadLetter)
  BY <1>2, <1>3, <1>4, PlainPcs, FreshFine, ZenonT(30)
<1>. QED  BY <1>4, <1>6, <1>7, <1>8, MemoryStep, ZenonT(30)

\* A job that is RUNNING in the store has its dependencies met.
LEMMA StepReportLoad ==
    ASSUME IInv, NEW t \in Thread, ReportLoad(t) PROVE IInv'
<1>1. PICK pc \in {"ok", "fail"}, next \in {"release", "failure"} : LoadRunning(t, pc, next)
  BY DEF ReportLoad
<1>. DEFINE r == th[t]
            j == r.job
            x == [r EXCEPT !.pc = next, !.rec = jobs[j]]
<1>2. r \in Locals /\ Fine(r, succeeded, deadLetter) /\ r.pc = pc
  BY <1>1, Mine DEF LoadRunning, At
<1>3. j \in Job
  BY <1>2, ZenonT(30) DEF Fine, Working
<1>4. Sound(jobs[j], succeeded) /\ jobs[j] \in Record
  BY <1>3, Stored
<1>5. CASE jobs[j].state = "RUNNING"
  <2>1. Counted(jobs[j]) /\ Met(jobs[j], succeeded)
    BY <1>4, <1>5 DEF Sound
  <2>2. next \in Working /\ next \notin Untried /\ next # "deps" /\ next # "fail terminally"
    BY ZenonT(30) DEF Working, Untried
  <2>3. x = [r EXCEPT !.pc = next, !.job = j, !.rec = jobs[j]]
    BY <1>2, SameJob, ZenonT(30)
  <2>4. x \in Locals /\ Fine(x, succeeded, deadLetter)
    BY <1>2, <1>3, <1>4, <2>1, <2>2, <2>3, CopyFine, ZenonT(30)
  <2>5. Become(t, x) /\ Local
    BY <1>1, <1>5 DEF LoadRunning
  <2>. HIDE DEF x
  <2>. QED  BY <2>4, <2>5, LocalStep
<1>6. CASE jobs[j].state # "RUNNING"
  <2>1. Become(t, Resume(r)) /\ Local
    BY <1>1, <1>6 DEF LoadRunning
  <2>. QED  BY <1>2, <2>1, LoopFine, LocalStep
<1>. QED  BY <1>5, <1>6

\* A lease is dropped and the goroutine goes on with the same copy.
LEMMA StepRelease ==
    ASSUME IInv, NEW t \in Thread, ReportRelease(t) \/ RequeueRelease(t) PROVE IInv'
<1>. DEFINE r == th[t]
<1>1. r \in Locals /\ Fine(r, succeeded, deadLetter)
  BY Mine
<1>2. PICK pc \in {"cronOk", "succeed", "fail"} :
        /\ th' = [th EXCEPT ![t] = [[r EXCEPT !.pc = pc] EXCEPT !.task = 0]]
        /\ r.pc = "release" \/ (r.pc = "reclaim" /\ pc = "fail")
        /\ leases' = {l \in leases : l.task # r.task}
        /\ UNCHANGED <<store, queue, timers, revIndex, rest>>
  BY ZenonT(30) DEF ReportRelease, RequeueRelease, removeLease, Become, At
<1>. DEFINE x == [[r EXCEPT !.pc = pc] EXCEPT !.task = 0]
<1>3. r.rec \in Record /\ Counted(r.rec) /\ r.job \in Job /\ Listed(r.list, succeeded)
  BY <1>1, <1>2, ZenonT(30) DEF Locals, Fine, Working
<1>4. pc \in Unblocked => Met(r.rec, succeeded)
  BY <1>1, <1>2, Zenon DEF Fine, Unblocked
<1>5. pc \in Working /\ pc \notin Untried /\ pc # "deps" /\ pc # "fail terminally"
  BY ZenonT(30) DEF Working, Untried
<1>6. x \in Locals /\ x.pc = pc /\ x.job = r.job /\ x.rec = r.rec /\ x.list = r.list
  BY <1>1, <1>5, ZenonT(30) DEF Locals
<1>7. Become(t, x) /\ leases' \subseteq leases
  BY <1>2 DEF Become
<1>. HIDE DEF x
<1>8. Fine(x, succeeded, deadLetter)
  BY <1>3, <1>4, <1>5, <1>6, ZenonT(30) DEF Fine
<1>. QED  BY <1>2, <1>6, <1>7, <1>8, LeasesStep

LEMMA StepReportDrop ==
    ASSUME IInv, NEW t \in Thread, ReportDrop(t) PROVE IInv'
<1>. DEFINE x == [Idle EXCEPT !.task = 0]
<1>1. x \in Locals /\ x.pc = "idle" /\ x.rec = Absent /\ x.list = {}
  BY AbsentCounted, FirstPosition, ZenonT(30) DEF Idle, Locals, Between
<1>2. "idle" \notin Working /\ "idle" \notin Untried /\ "idle" \notin Unblocked
  BY DEF Working, Untried, Unblocked
<1>3. Become(t, x) /\ leases' \subseteq leases /\ UNCHANGED <<store, queue, timers, revIndex, rest>>
  BY DEF ReportDrop, removeLease
<1>. HIDE DEF x
<1>4. Fine(x, succeeded, deadLetter)
  BY <1>1, <1>2, FreshFine
<1>. QED  BY <1>1, <1>3, <1>4, LeasesStep, ZenonT(30)

LEMMA StepReportSuccess ==
    ASSUME IInv, NEW t \in Thread, ReportSuccess(t) PROVE IInv'
<1>. DEFINE r == th[t]
            rec == [r.rec EXCEPT !.state = "SUCCEEDED"]
            x == [r EXCEPT !.pc = "succeeded", !.rec = Absent]
<1>1. r \in Locals /\ Fine(r, succeeded, deadLetter) /\ r.pc = "succeed"
  BY Mine DEF ReportSuccess, At
<1>2. r.rec \in Record /\ Counted(r.rec) /\ Met(r.rec, succeeded) /\ r.job \in Job /\ r.pc \in Working
  BY <1>1, ZenonT(30) DEF Locals, Fine, Working, Unblocked
<1>3. Sound(rec, succeeded)
  BY <1>2, Renamed, ZenonT(30) DEF Sound, JobState
<1>4. x \in Locals /\ Fine(x, succeeded, deadLetter)
  BY <1>1, <1>2, PlainPcs, ForgetFine, Zenon DEF Plain
<1>5. Storing /\ ((putJob(r.job, rec) /\ Become(t, x)) \/ (PutFails /\ Become(t, Idle)))
  BY DEF ReportSuccess, Forget
<1>. HIDE DEF rec, x
<1>6. CASE putJob(r.job, rec) /\ Become(t, x)
  BY <1>2, <1>3, <1>4, <1>5, <1>6, PutStep, ZenonT(30)
<1>7. CASE PutFails /\ Become(t, Idle)
  BY <1>5, <1>7, IdleFine, PutFailsStep DEF Storing
<1>. QED  BY <1>5, <1>6, <1>7

LEMMA StepReportUnindex ==
    ASSUME IInv, NEW t \in Thread, ReportUnindex(t) PROVE IInv'
<1>. DEFINE x == [th[t] EXCEPT !.pc = "dependents"]
<1>1. th[t] \in Locals /\ Fine(th[t], succeeded, deadLetter) /\ th[t].pc = "succeeded"
  BY Mine DEF ReportUnindex, At
<1>2. th[t].job \in Job /\ th[t].pc \in Working
  BY <1>1, ZenonT(30) DEF Fine, Working
<1>3. revIndex' \in [Job -> SUBSET Job]
  BY <1>2, IndexTyped DEF ReportUnindex
<1>4. x \in Locals /\ Fine(x, succeeded, deadLetter)
  BY <1>1, <1>2, PlainPcs, GotoFine, ZenonT(30) DEF Plain
<1>5. Become(t, x)
  BY DEF ReportUnindex, Goto
<1>. HIDE DEF x
<1>. QED  BY <1>3, <1>4, <1>5, IndexStep DEF ReportUnindex

LEMMA SteppromoteDependents ==
    ASSUME IInv, NEW t \in Thread, promoteDependents(t) PROVE IInv'
<1>. DEFINE x == [th[t] EXCEPT !.todo = revIndex[th[t].job]]
<1>1. th[t] \in Locals /\ Fine(th[t], succeeded, deadLetter) /\ th[t].pc = "dependents"
  BY Mine DEF promoteDependents, At
<1>2. revIndex[th[t].job] \in SUBSET Job
  BY <1>1, Zenon DEF Fine, Working, IInv, MemoryInv
<1>3. x \in Locals /\ x.list = th[t].list
  BY <1>1, <1>2 DEF Locals
<1>. QED  BY <1>1, <1>3, LoopFine, LocalStep, ZenonT(30) DEF promoteDependents

-----------------------------------------------------------------------------
(* Failures.                                                               *)

LEMMA StepGiveUp ==
    ASSUME IInv, NEW t \in Thread, GiveUp(t), UNCHANGED deadLetter,
           UNCHANGED <<memory, node, nextTask, results, submits>>
    PROVE  IInv'
<1>. DEFINE x == [th[t] EXCEPT !.task = 0]
<1>1. th[t] \in Locals /\ Fine(th[t], succeeded, deadLetter)
  BY Mine
<1>2. x \in Locals /\ x.list = th[t].list
  BY <1>1 DEF Locals
<1>. QED  BY <1>1, <1>2, LoopFine, PutFailsStep, Zenon DEF GiveUp

LEMMA StephandleFailure ==
    ASSUME IInv, NEW t \in Thread, handleFailure(t) PROVE IInv'
<1>. DEFINE r == th[t]
            rec == [r.rec EXCEPT !.state = "QUEUED", !.sched = TRUE]
<1>1. r \in Locals /\ Fine(r, succeeded, deadLetter) /\ r.pc = "failure"
  BY Mine DEF handleFailure, At
<1>2. r.rec \in Record /\ Counted(r.rec) /\ Met(r.rec, succeeded) /\ r.job \in Job /\ r.pc \in Working
  BY <1>1, Zenon DEF Locals, Fine, Working, Unblocked
<1>3. Storing
  BY DEF handleFailure
<1>4. ASSUME r.rec.attempt < r.rec.max, putJob(r.job, rec), NEW next \in {"arm", "enqueue"}, Forget(t, next)
      PROVE  IInv'
  <2>. DEFINE x == [r EXCEPT !.pc = next, !.rec = Absent]
  <2>1. HasTry(r.rec)
    BY <1>4 DEF HasTry
  <2>2. Sound(rec, succeeded)
    BY <1>2, <2>1, Restated, ZenonT(30) DEF Sound, JobState
  <2>3. next \in Plain
    BY Zenon DEF Plain
  <2>4. x \in Locals /\ Fine(x, succeeded, deadLetter)
    BY <1>1, <1>2, <2>3, PlainPcs, ForgetFine, Zenon
  <2>5. Become(t, x) /\ putJob(r.job, rec)
    BY <1>4 DEF Forget
  <2>. HIDE DEF rec, x
  <2>. QED  BY <1>2, <1>3, <2>2, <2>4, <2>5, PutStep
<1>5. CASE GiveUp(t)
  BY <1>3, <1>5, StepGiveUp DEF Storing
<1>6. ASSUME NEW pc \in {"cronFail", "bury"}, Goto(t, pc), UNCHANGED <<jobs, succeeded, errors>>
      PROVE  IInv'
  <2>. DEFINE x == [r EXCEPT !.pc = pc]
  <2>1. pc \in Working /\ pc \notin Untried /\ pc # "deps" /\ pc # "fail terminally"
    BY Zenon DEF Working, Untried
  <2>2. x \in Locals /\ x.pc = pc /\ x.rec = r.rec /\ x.job = r.job /\ x.list = r.list
    BY <1>1, <2>1, Zenon DEF Locals
  <2>3. Become(t, x) /\ Local
    BY <1>3, <1>6 DEF Goto, Local, Storing, store, rest
  <2>. HIDE DEF x
  <2>4. Fine(x, succeeded, deadLetter)
    BY <1>1, <1>2, <2>1, <2>2, Zenon DEF Fine
  <2>. QED  BY <2>2, <2>3, <2>4, LocalStep
<1>. QED  BY <1>4, <1>5, <1>6 DEF handleFailure

LEMMA StepmaybeRescheduleCron ==
    ASSUME IInv, NEW t \in Thread, maybeRescheduleCron(t) PROVE IInv'
<1>. DEFINE r == th[t]
            rec == [r.rec EXCEPT !.state = "QUEUED", !.attempt = 0, !.sched = TRUE]
<1>1. r \in Locals /\ Fine(r, succeeded, deadLetter) /\ r.pc \in {"cronOk", "cronFail"}
  BY Mine DEF maybeRescheduleCron, At
<1>2. r.rec \in Record /\ Counted(r.rec) /\ Met(r.rec, succeeded) /\ r.job \in Job /\ r.pc \in Working
  BY <1>1, ZenonT(30) DEF Locals, Fine, Working, Unblocked
<1>3. Sound(rec, succeeded) /\ rec.state = "QUEUED"
  BY <1>2, Reset, Zenon
<1>4. /\ Storing
      /\ \/ putJob(r.job, rec) /\ \E next \in {"arm", "enqueue"} : Forget(t, next)
         \/ PutFails /\ \E pc \in {"succeed", "bury"} : Become(t, [r EXCEPT !.pc = pc, !.rec = rec])
  BY ZenonT(30) DEF maybeRescheduleCron
<1>. HIDE DEF rec
<1>5. rec \in Record /\ Counted(rec) /\ Met(rec, succeeded)
  BY <1>3 DEF Sound
<1>6. ASSUME putJob(r.job, rec), NEW next \in {"arm", "enqueue"}, Forget(t, next) PROVE IInv'
  <2>. DEFINE x == [r EXCEPT !.pc = next, !.rec = Absent]
  <2>1. next \in Plain
    BY Zenon DEF Plain
  <2>2. x \in Locals /\ Fine(x, succeeded, deadLetter)
    BY <1>1, <1>2, <2>1, PlainPcs, ForgetFine, Zenon
  <2>3. Become(t, x) /\ putJob(r.job, rec)
    BY <1>6 DEF Forget
  <2>. HIDE DEF x
  <2>. QED  BY <1>2, <1>3, <1>4, <1>5, <2>2, <2>3, PutStep
<1>7. ASSUME PutFails, NEW pc \in {"succeed", "bury"}, Become(t, [r EXCEPT !.pc = pc, !.rec = rec]) PROVE IInv'
  <2>. DEFINE x == [r EXCEPT !.pc = pc, !.rec = rec]
  <2>1. pc \in Working /\ pc \notin Untried /\ pc # "deps" /\ pc # "fail terminally"
    BY ZenonT(30) DEF Working, Untried
  <2>2. x = [r EXCEPT !.pc = pc, !.job = r.job, !.rec = rec]
    BY <1>1, SameJob, ZenonT(30)
  <2>3. x \in Locals /\ Fine(x, succeeded, deadLetter)
    BY <1>1, <1>2, <1>5, <2>1, <2>2, CopyFine, ZenonT(30)
  <2>. HIDE DEF x
  <2>. QED  BY <1>4, <1>7, <2>3, PutFailsStep DEF Storing, x
<1>. QED  BY <1>4, <1>6, <1>7

\* The job is in the dead-letter bucket when the goroutine gets to FailTerminally.
LEMMA StepPutDeadLetter ==
    ASSUME IInv, NEW t \in Thread, PutDeadLetter(t) PROVE IInv'
<1>. DEFINE r == th[t]
            x == [r EXCEPT !.pc = "fail terminally"]
<1>1. r \in Locals /\ Fine(r, succeeded, deadLetter) /\ r.pc = "bury"
  BY Mine, Zenon DEF PutDeadLetter, At
<1>2. Counted(r.rec) /\ Met(r.rec, succeeded) /\ r.job \in Job /\ Listed(r.list, succeeded)
  BY <1>1 DEF Fine, Working, Unblocked
<1>3. CASE GiveUp(t) /\ UNCHANGED deadLetter
  BY <1>3, StepGiveUp DEF PutDeadLetter
<1>4. CASE deadLetter' = deadLetter \cup {r.job} /\ Goto(t, "fail terminally") /\ UNCHANGED <<jobs, succeeded, errors>>
  <2>1. x \in Locals /\ x.pc = "fail terminally" /\ x.rec = r.rec /\ x.job = r.job /\ x.list = r.list
    BY <1>1, ZenonT(30) DEF Locals, Working
  <2>2. th' = [th EXCEPT ![t] = x]
    BY <1>4, Zenon DEF Goto, Become
  <2>. HIDE DEF x
  <2>3. "fail terminally" \notin Untried /\ "fail terminally" # "deps"
    BY DEF Untried
  <2>4. deadLetter' \subseteq Job /\ deadLetter \subseteq deadLetter' /\ r.job \in deadLetter'
    BY <1>2, <1>4, Zenon DEF IInv, MemoryInv
  <2>5. Fine(x, succeeded', deadLetter')
    BY <1>2, <1>4, <2>1, <2>3, <2>4, Zenon DEF Fine
  <2>6. ThreadInv'
    BY <1>4, <2>1, <2>2, <2>4, <2>5, ThreadStep, ZenonT(30)
  <2>7. StoreInv'
    BY <1>4, <2>4, ZenonT(30) DEF IInv, StoreInv
  <2>8. MemoryInv'
    BY <1>4, <2>4, ZenonT(30) DEF IInv, MemoryInv, PutDeadLetter, memory, node
  <2>. QED  BY <2>6, <2>7, <2>8 DEF IInv
<1>. QED  BY <1>3, <1>4, Zenon DEF PutDeadLetter

LEMMA StepFailTerminally ==
    ASSUME IInv, NEW t \in Thread, FailTerminally(t) PROVE IInv'
<1>. DEFINE r == th[t]
            rec == [r.rec EXCEPT !.state = "FAILED"]
            x == [r EXCEPT !.pc = "failed", !.rec = Absent]
<1>1. r \in Locals /\ Fine(r, succeeded, deadLetter) /\ r.pc = "fail terminally"
  BY Mine, ZenonT(30) DEF FailTerminally, At
<1>2. /\ r.rec \in Record /\ Counted(r.rec) /\ Met(r.rec, succeeded) /\ r.job \in Job /\ r.pc \in Working
      /\ r.job \in deadLetter
  BY <1>1, ZenonT(30) DEF Locals, Fine, Working, Unblocked
<1>3. Sound(rec, succeeded)
  BY <1>2, Renamed, ZenonT(30) DEF Sound, JobState
<1>4. x \in Locals /\ Fine(x, succeeded, deadLetter)
  BY <1>1, <1>2, PlainPcs, ForgetFine, Zenon DEF Plain
<1>5. Storing /\ ((putJob(r.job, rec) /\ Become(t, x)) \/ GiveUp(t))
  BY Zenon DEF FailTerminally, Forget
<1>. HIDE DEF rec, x
<1>6. CASE putJob(r.job, rec) /\ Become(t, x)
  BY <1>2, <1>3, <1>4, <1>5, <1>6, PutStep
<1>7. CASE GiveUp(t)
  BY <1>5, <1>7, StepGiveUp DEF Storing
<1>. QED  BY <1>5, <1>6, <1>7

LEMMA StepFailUnindex ==
    ASSUME IInv, NEW t \in Thread, FailUnindex(t) PROVE IInv'
<1>. DEFINE x == [th[t] EXCEPT !.work = {th[t].job}]
<1>1. th[t] \in Locals /\ Fine(th[t], succeeded, deadLetter) /\ th[t].pc = "failed"
  BY Mine DEF FailUnindex, At
<1>2. th[t].job \in Job
  BY <1>1 DEF Fine, Working
<1>3. revIndex' \in [Job -> SUBSET Job]
  BY <1>2, IndexTyped DEF FailUnindex
<1>4. x \in Locals /\ x.list = th[t].list
  BY <1>1, <1>2 DEF Locals
<1>. QED  BY <1>1, <1>3, <1>4, LoopFine, IndexStep, Zenon DEF FailUnindex

-----------------------------------------------------------------------------
(* Cancels and expired leases.                                             *)

LEMMA StepCancelJob ==
    ASSUME IInv, NEW t \in Thread, CancelJob(t) PROVE IInv'
<1>1. PICK j \in Job : Become(t, [Idle EXCEPT !.pc = "cancel", !.job = j, !.rec = jobs[j]])
  BY Zenon DEF CancelJob
<1>2. jobs[j] \in Record /\ Counted(jobs[j])
  BY Stored DEF Sound
<1>. DEFINE x == [Idle EXCEPT !.pc = "cancel", !.job = j, !.rec = jobs[j]]
<1>3. x \in Locals /\ Fine(x, succeeded, deadLetter)
  BY <1>2, IdleFine, PlainPcs, CopyFine, ZenonT(30) DEF Plain
<1>. HIDE DEF x
<1>. QED  BY <1>1, <1>3, LocalStep DEF CancelJob, x

LEMMA StepCancelPut ==
    ASSUME IInv, NEW t \in Thread, CancelPut(t) PROVE IInv'
<1>. DEFINE r == th[t]
            rec == [r.rec EXCEPT !.state = "CANCELED"]
            x == [r EXCEPT !.pc = "canceled", !.rec = Absent]
<1>1. r \in Locals /\ Fine(r, succeeded, deadLetter) /\ r.pc = "cancel"
  BY Mine DEF CancelPut, At
<1>2. r.rec \in Record /\ Counted(r.rec) /\ r.job \in Job /\ r.pc \in Working
  BY <1>1, ZenonT(30) DEF Locals, Fine, Working
<1>3. Sound(rec, succeeded)
  BY <1>2, Renamed, ZenonT(30) DEF Sound, JobState
<1>4. x \in Locals /\ Fine(x, succeeded, deadLetter)
  BY <1>1, <1>2, PlainPcs, ForgetFine, Zenon DEF Plain
<1>5. Storing /\ ((putJob(r.job, rec) /\ Become(t, x)) \/ (PutFails /\ Become(t, Idle)))
  BY DEF CancelPut, Forget
<1>. HIDE DEF rec, x
<1>6. CASE putJob(r.job, rec) /\ Become(t, x)
  BY <1>2, <1>3, <1>4, <1>5, <1>6, PutStep
<1>7. CASE PutFails /\ Become(t, Idle)
  BY <1>5, <1>7, IdleFine, PutFailsStep DEF Storing
<1>. QED  BY <1>5, <1>6, <1>7

LEMMA StepCancelDequeue ==
    ASSUME IInv, NEW t \in Thread, CancelDequeue(t) PROVE IInv'
<1>. DEFINE x == [th[t] EXCEPT !.work = {th[t].job}]
<1>1. th[t] \in Locals /\ Fine(th[t], succeeded, deadLetter) /\ th[t].pc = "canceled"
  BY Mine DEF CancelDequeue, At
<1>2. th[t].job \in Job
  BY <1>1 DEF Fine, Working
<1>3. queue' \subseteq Job
  BY DEF CancelDequeue, IInv, MemoryInv
<1>4. x \in Locals /\ x.list = th[t].list
  BY <1>1, <1>2 DEF Locals
<1>. QED  BY <1>1, <1>3, <1>4, LoopFine, QueueStep, ZenonT(30) DEF CancelDequeue

LEMMA StepcancelCascade ==
    ASSUME IInv, NEW t \in Thread, cancelCascade(t) PROVE IInv'
<1>1. PICK j \in th[t].work :
        Become(t, IF jobs[j].state = "ABSENT" \/ terminal(jobs[j].state)
                  THEN [th[t] EXCEPT !.pc = "cascade visit", !.job = j]
                  ELSE [th[t] EXCEPT !.pc = "cascade cancel", !.job = j, !.rec = jobs[j]])
  BY ZenonT(30) DEF cancelCascade
<1>. DEFINE r == th[t]
            x == [r EXCEPT !.pc = "cascade visit", !.job = j]
            y == [r EXCEPT !.pc = "cascade cancel", !.job = j, !.rec = jobs[j]]
<1>2. r \in Locals /\ Fine(r, succeeded, deadLetter) /\ j \in Job
  BY <1>1, Mine DEF Locals
<1>3. jobs[j] \in Record /\ Counted(jobs[j])
  BY <1>2, Stored DEF Sound
<1>4. x \in Locals /\ x.pc = "cascade visit" /\ x.job = j /\ x.rec = r.rec /\ x.list = r.list
  BY <1>2, ZenonT(30) DEF Locals, Working
<1>5. y \in Locals /\ Fine(y, succeeded, deadLetter)
  BY <1>2, <1>3, PlainPcs, CopyFine, Zenon DEF Plain
<1>6. (Become(t, x) \/ Become(t, y)) /\ Local
  BY <1>1 DEF cancelCascade
<1>. HIDE DEF x, y
<1>7. Fine(x, succeeded, deadLetter)
  BY <1>2, <1>4, PlainPcs, PlainFine, ZenonT(30) DEF Fine, Plain
<1>. QED  BY <1>4, <1>5, <1>6, <1>7, LocalStep, ZenonT(30)

LEMMA StepCascadePut ==
    ASSUME IInv, NEW t \in Thread, CascadePut(t) PROVE IInv'
<1>. DEFINE r == th[t]
            rec == [r.rec EXCEPT !.state = "CANCELED"]
            x == [r EXCEPT !.pc = "cascade dequeue", !.rec = Absent]
<1>1. r \in Locals /\ Fine(r, succeeded, deadLetter) /\ r.pc = "cascade cancel"
  BY Mine, ZenonT(30) DEF CascadePut, At
<1>2. r.rec \in Record /\ Counted(r.rec) /\ r.job \in Job /\ r.pc \in Working
  BY <1>1, ZenonT(30) DEF Locals, Fine, Working
<1>3. Sound(rec, succeeded)
  BY <1>2, Renamed, Zenon DEF Sound, JobState
<1>4. x \in Locals /\ Fine(x, succeeded, deadLetter)
  BY <1>1, <1>2, PlainPcs, ForgetFine, ZenonT(30) DEF Plain
<1>5. Become(t, x) /\ Storing /\ (putJob(r.job, rec) \/ PutFails)
  BY ZenonT(30) DEF CascadePut, PutLogged, Forget
<1>. HIDE DEF rec, x
<1>6. CASE putJob(r.job, rec)
  BY <1>2, <1>3, <1>4, <1>5, <1>6, PutStep
<1>7. CASE PutFails
  BY <1>4, <1>5, <1>7, PutFailsStep DEF Storing
<1>. QED  BY <1>5, <1>6, <1>7

LEMMA StepCascadeDequeue ==
    ASSUME IInv, NEW t \in Thread, CascadeDequeue(t) PROVE IInv'
<1>. DEFINE x == [th[t] EXCEPT !.pc = "cascade visit"]
<1>1. th[t] \in Locals /\ Fine(th[t], succeeded, deadLetter) /\ th[t].pc \in Working
  BY Mine, Zenon DEF CascadeDequeue, At, Working
<1>2. x \in Locals /\ Fine(x, succeeded, deadLetter)
  BY <1>1, PlainPcs, GotoFine, ZenonT(30) DEF Plain
<1>3. queue' \subseteq Job /\ Become(t, x)
  BY ZenonT(30) DEF CascadeDequeue, Goto, IInv, MemoryInv
<1>. HIDE DEF x
<1>. QED  BY <1>2, <1>3, QueueStep, ZenonT(30) DEF CascadeDequeue

LEMMA StepCascadeVisit ==
    ASSUME IInv, NEW t \in Thread, CascadeVisit(t) PROVE IInv'
<1>. DEFINE r == th[t]
            seen == r.seen \cup {r.job}
            work == (r.work \cup revIndex[r.job]) \ seen
            x == [r EXCEPT !.pc = "cascade unindex", !.seen = seen, !.work = work]
<1>1. r \in Locals /\ Fine(r, succeeded, deadLetter) /\ r.pc = "cascade visit"
  BY Mine, ZenonT(30) DEF CascadeVisit, At
<1>2. r.job \in Job
  BY <1>1, ZenonT(30) DEF Fine, Working
<1>3. seen \in SUBSET Job /\ work \in SUBSET Job
  BY <1>1, <1>2, ZenonT(30) DEF IInv, MemoryInv, Locals
<1>4. Become(t, x) /\ Local
  BY Zenon DEF CascadeVisit
<1>. HIDE DEF seen, work
<1>5. /\ x \in Locals /\ x.pc = "cascade unindex"
      /\ x.list = r.list /\ x.rec = r.rec /\ x.job = r.job
  BY <1>1, <1>3, ZenonT(30) DEF Locals, Working
<1>. HIDE DEF x
<1>6. Fine(x, succeeded, deadLetter)
  BY <1>1, <1>2, <1>5, PlainPcs, PlainFine, ZenonT(30) DEF Plain, Fine
<1>. QED  BY <1>4, <1>5, <1>6, LocalStep, Zenon

LEMMA StepCascadeUnindex ==
    ASSUME IInv, NEW t \in Thread, CascadeUnindex(t) PROVE IInv'
<1>1. th[t] \in Locals /\ Fine(th[t], succeeded, deadLetter) /\ th[t].job \in Job
  BY Mine, ZenonT(30) DEF CascadeUnindex, At, Fine, Working
<1>2. revIndex' \in [Job -> SUBSET Job]
  BY <1>1, IndexTyped, ZenonT(30) DEF CascadeUnindex
<1>. QED  BY <1>1, <1>2, LoopFine, IndexStep, ZenonT(30) DEF CascadeUnindex

LEMMA SteprequeueLease ==
    ASSUME IInv, NEW t \in Thread, requeueLease(t) PROVE IInv'
<1>1. PICK l \in leases :
        Become(t, [Idle EXCEPT !.pc = "reclaim", !.job = l.job, !.task = l.task, !.reaper = TRUE])
  BY Zenon DEF requeueLease
<1>. DEFINE x == [Idle EXCEPT !.pc = "reclaim", !.job = l.job, !.task = l.task, !.reaper = TRUE]
<1>2. l.job \in Job /\ l.task \in Nat
  BY DEF IInv, MemoryInv
<1>3. x \in Locals /\ x.pc = "reclaim" /\ x.job = l.job /\ x.rec = Absent /\ x.list = {}
  BY <1>2, AbsentCounted, FirstPosition, ZenonT(30) DEF Idle, Locals, Working
<1>. HIDE DEF x
<1>4. Fine(x, succeeded, deadLetter)
  BY <1>2, <1>3, PlainPcs, FreshFine, Zenon DEF Plain
<1>. QED  BY <1>1, <1>3, <1>4, LocalStep DEF requeueLease, x

-----------------------------------------------------------------------------
(* Leadership.                                                             *)

LEMMA StepNode ==
    ASSUME IInv, BecomeLeader \/ StepDown PROVE IInv'
<1>1. UNCHANGED store /\ th' = th
  BY DEF BecomeLeader, StepDown, store
<1>2. stepDowns' \in Nat /\ stepDowns \in Nat
  BY DEF BecomeLeader, StepDown, IInv, MemoryInv
<1>5. leader' \in BOOLEAN
  BY Zenon DEF BecomeLeader, StepDown
<1>6. callbacks' \subseteq ({"lead", "down"} \X Nat)
  BY <1>2 DEF BecomeLeader, StepDown, IInv, MemoryInv
<1>3. MemoryInv'
  BY <1>1, <1>2, <1>5, <1>6 DEF BecomeLeader, StepDown, IInv, MemoryInv, store, memory
<1>4. ThreadInv'
  BY <1>1, StoreKept DEF IInv, ThreadInv
<1>. QED  BY <1>1, <1>3, <1>4, StoreKept DEF IInv

\* The record that another leader ships is sound, and what succeeded there counts.
LEMMA StepapplyEntry ==
    ASSUME IInv, applyEntry PROVE IInv'
<1>1. PICK e \in Replicated : jobs' = [jobs EXCEPT ![e.job] = e.rec] /\ succeeded' = succeeded \cup e.done
  BY Zenon DEF applyEntry
<1>2. UNCHANGED <<deadLetter, memory, th, rest>>
  BY Zenon DEF applyEntry
<1>3. e.job \in Job /\ e.rec \in Record /\ Sound(e.rec, e.done) /\ e.done \subseteq Job
  BY ReplicatedAssumption DEF Sound, Counted, HasTry, Met
<1>4. succeeded \subseteq succeeded' /\ e.done \subseteq succeeded' /\ succeeded' \subseteq Job
  BY <1>1, <1>3, Zenon DEF IInv, MemoryInv
<1>5. StoreInv'
  <2>1. jobs \in [Job -> Record]
    BY DEF IInv, StoreInv
  <2>2. ASSUME NEW i \in Job
        PROVE  Sound(jobs'[i], succeeded') /\ (jobs'[i].state = "SUCCEEDED" => i \in succeeded')
    <3>1. CASE i = e.job
      <4>1. jobs'[i] = e.rec
        BY <1>1, <1>3, <2>1, <3>1
      <4>2. Sound(e.rec, succeeded')
        BY <1>3, <1>4, SoundGrows
      <4>3. e.rec.state = "SUCCEEDED" => i \in succeeded'
        BY <1>4, <3>1, ReplicatedAssumption
      <4>. QED  BY <4>1, <4>2, <4>3
    <3>2. CASE i # e.job
      <4>1. jobs'[i] = jobs[i]
        BY <1>1, <2>1, <3>2
      <4>2. Sound(jobs[i], succeeded')
        BY <1>4, SoundGrows DEF IInv, StoreInv
      <4>. QED  BY <4>1, <4>2, <1>4 DEF IInv, StoreInv
    <3>. QED  BY <3>1, <3>2
  <2>3. jobs' \in [Job -> Record]
    BY <1>1, <1>3, <2>1
  <2>. QED  BY <2>2, <2>3 DEF StoreInv
<1>6. MemoryInv'
  BY <1>2, <1>4 DEF IInv, MemoryInv, memory, rest, node
<1>7. ThreadInv'
  <2>1. ASSUME NEW u \in Thread PROVE Fine(th[u], succeeded', deadLetter)
    BY <1>4, FineGrows DEF IInv, ThreadInv
  <2>. QED  BY <1>2, <2>1 DEF IInv, ThreadInv
<1>. QED  BY <1>5, <1>6, <1>7 DEF IInv

LEMMA StepCrash ==
    ASSUME IInv, Crash PROVE IInv'
<1>1. UNCHANGED store /\ th' = [t \in Thread |-> Idle]
  BY DEF Crash, store
<1>2. crashes' \in Nat
  BY DEF Crash, IInv, MemoryInv
<1>5. leader' \in BOOLEAN /\ revIndex' \in [Job -> SUBSET Job]
  BY ZenonT(30) DEF Crash
<1>3. MemoryInv'
  BY <1>1, <1>2, <1>5 DEF Crash, IInv, MemoryInv, store
<1>4. ThreadInv'
  BY <1>1, IdleFine DEF ThreadInv
<1>. QED  BY <1>1, <1>3, <1>4, StoreKept DEF IInv

LEMMA StepCallback ==
    ASSUME IInv, NEW t \in Thread, Callback(t) PROVE IInv'
<1>1. PICK c \in callbacks :
        /\ callbacks' = callbacks \ {c}
        /\ Become(t, [Idle EXCEPT !.pc = "clear queue", !.flag = (c[1] = "lead")])
  BY ZenonT(30) DEF Callback
<1>. DEFINE x == [Idle EXCEPT !.pc = "clear queue", !.flag = (c[1] = "lead")]
<1>2. x \in Locals /\ x.pc = "clear queue" /\ x.rec = Absent /\ x.list = {}
  BY AbsentCounted, FirstPosition, ZenonT(30) DEF Idle, Locals, Between
<1>3. "clear queue" \notin Working /\ "clear queue" \notin Untried /\ "clear queue" \notin Unblocked
  BY DEF Working, Untried, Unblocked
<1>4. MemoryInv' /\ UNCHANGED store
  BY <1>1 DEF Callback, IInv, MemoryInv, store, memory
<1>. HIDE DEF x
<1>5. Fine(x, succeeded, deadLetter)
  BY <1>2, <1>3, FreshFine, ZenonT(30)
<1>. QED  BY <1>1, <1>2, <1>4, <1>5, MemoryStep DEF x

LEMMA StepClear ==
    ASSUME IInv, NEW t \in Thread, ClearQueue(t) \/ ClearLeases(t) \/ ClearIndex(t) PROVE IInv'
<1>1. th[t] \in Locals /\ Fine(th[t], succeeded, deadLetter)
  BY Mine
<1>2. ASSUME NEW pc \in {"clear leases", "clear index"}, NEW x, x = [th[t] EXCEPT !.pc = pc]
      PROVE  x \in Locals /\ Fine(x, succeeded, deadLetter)
  <2>1. pc \in Between /\ pc \notin Working /\ pc \notin Untried /\ pc \notin Unblocked
    BY ZenonT(30) DEF Between, Working, Untried, Unblocked
  <2>. QED  BY <1>1, <1>2, <2>1, GotoFine, ZenonT(30)
<1>3. CASE ClearQueue(t)
  BY <1>2, <1>3, QueueStep, ZenonT(30) DEF ClearQueue, Goto
<1>4. CASE ClearLeases(t)
  <2>1. MemoryInv' /\ UNCHANGED store
    BY <1>4, ZenonT(30) DEF ClearLeases, IInv, MemoryInv, store, rest, node
  <2>. QED  BY <1>2, <1>4, <2>1, MemoryStep, ZenonT(30) DEF ClearLeases, Goto
<1>5. CASE ClearIndex(t)
  <2>. DEFINE x == [Idle EXCEPT !.pc = "list"]
  <2>1. x \in Locals /\ x.pc = "list" /\ x.rec = Absent /\ x.list = {}
    BY AbsentCounted, FirstPosition, ZenonT(30) DEF Idle, Locals, Between
  <2>2. "list" \notin Working /\ "list" \notin Untried /\ "list" \notin Unblocked
    BY DEF Working, Untried, Unblocked
  <2>3. revIndex' \in [Job -> SUBSET Job] /\ (Become(t, x) \/ Become(t, Idle))
    BY <1>5, ZenonT(30) DEF ClearIndex
  <2>. HIDE DEF x
  <2>4. Fine(x, succeeded, deadLetter)
    BY <2>1, <2>2, FreshFine
  <2>. QED  BY <1>5, <2>1, <2>3, <2>4, IdleFine, IndexStep, ZenonT(30) DEF ClearIndex
<1>. QED  BY <1>3, <1>4, <1>5

LEMMA StepRebuildList ==
    ASSUME IInv, NEW t \in Thread, RebuildList(t) PROVE IInv'
<1>. DEFINE all == {j \in Job : jobs[j].state # "ABSENT"}
            list == {<<j, jobs[j]>> : j \in all}
            todo == {j \in all : jobs[j].state = "PENDING"}
            x == [th[t] EXCEPT !.list = list, !.todo = todo]
<1>1. th[t] \in Locals
  BY Mine
<1>2. Become(t, Resume(x)) /\ Local
  BY DEF RebuildList
<1>3. list \in SUBSET (Job \X Record) /\ todo \in SUBSET Job
  BY Stored
<1>4. Listed(list, succeeded)
  BY Stored DEF Listed
<1>. HIDE DEF list, todo
<1>5. x \in Locals /\ x.list = list
  BY <1>1, <1>3, ZenonT(30) DEF Locals
<1>. HIDE DEF x
<1>. QED  BY <1>2, <1>4, <1>5, ResumeFine, LocalStep

LEMMA SteprebuildSchedulingState ==
    ASSUME IInv, NEW t \in Thread, rebuildSchedulingState(t) PROVE IInv'
<1>1. PICK p \in th[t].list :
        LET r == [th[t] EXCEPT !.list = @ \ {p}, !.job = p[1], !.rec = p[2]] IN
        /\ IF terminal(p[2].state) THEN UNCHANGED revIndex ELSE addDeps(p[1], p[2].deps)
        /\ CASE p[2].state = "QUEUED" ->
                   \E pc \in {"push"} \cup (IF p[2].sched THEN {"arm"} ELSE {}) :
                       Become(t, [r EXCEPT !.pc = pc, !.rec = Absent])
             [] p[2].state = "RUNNING" -> Become(t, [r EXCEPT !.pc = "failure"])
             [] OTHER -> Become(t, Resume(r))
  BY Zenon DEF rebuildSchedulingState
<1>. DEFINE rec == p[2]
            r == [th[t] EXCEPT !.list = @ \ {p}, !.job = p[1], !.rec = rec]
            x == [r EXCEPT !.pc = "failure"]
<1>2. th[t] \in Locals /\ Fine(th[t], succeeded, deadLetter)
  BY Mine
<1>3. p[1] \in Job /\ rec \in Record
  BY <1>2 DEF Locals
<1>4. Sound(rec, succeeded) /\ Listed(th[t].list \ {p}, succeeded)
  BY <1>2, ZenonT(30) DEF Fine, Listed
<1>5. r \in Locals /\ r.list = th[t].list \ {p} /\ r.job = p[1] /\ r.rec = rec
  BY <1>2, <1>3, ZenonT(30) DEF Locals
<1>6. revIndex' \in [Job -> SUBSET Job] /\ UNCHANGED <<store, queue, timers, leases, rest>>
  BY <1>1, <1>3, IndexTyped, Zenon DEF rebuildSchedulingState, IInv, MemoryInv
<1>7. \/ \E pc \in {"push", "arm"} : Become(t, [r EXCEPT !.pc = pc, !.rec = Absent])
      \/ rec.state = "RUNNING" /\ Become(t, x)
      \/ Become(t, Resume(r))
  BY <1>1, ZenonT(30)
<1>. HIDE DEF rec, r
<1>8. ASSUME NEW pc \in {"push", "arm"}, Become(t, [r EXCEPT !.pc = pc, !.rec = Absent]) PROVE IInv'
  <2>. DEFINE y == [r EXCEPT !.pc = pc, !.rec = Absent]
  <2>1. pc \in Plain /\ pc \in Working
    BY ZenonT(30) DEF Plain, Working
  <2>2. y \in Locals /\ y.pc = pc /\ y.rec = Absent /\ y.job = r.job /\ y.list = r.list
    BY <1>5, <2>1, AbsentCounted, ZenonT(30) DEF Locals
  <2>. HIDE DEF y
  <2>3. Fine(y, succeeded, deadLetter)
    BY <1>3, <1>4, <1>5, <2>1, <2>2, AbsentCounted, PlainPcs, PlainFine, Zenon
  <2>. QED  BY <1>6, <1>8, <2>2, <2>3, IndexStep DEF y
<1>9. CASE rec.state = "RUNNING" /\ Become(t, x)
  <2>1. x \in Locals /\ x.pc = "failure" /\ x.rec = rec /\ x.job = r.job /\ x.list = r.list
    BY <1>5, ZenonT(30) DEF Locals, Working
  <2>2. Counted(rec) /\ Met(rec, succeeded)
    BY <1>4, <1>9 DEF Sound
  <2>3. "failure" \notin Untried
    BY DEF Untried
  <2>. HIDE DEF x
  <2>4. Fine(x, succeeded, deadLetter)
    BY <1>3, <1>4, <1>5, <2>1, <2>2, <2>3 DEF Fine
  <2>. QED  BY <1>6, <1>9, <2>1, <2>4, IndexStep
<1>10. CASE Become(t, Resume(r))
  BY <1>4, <1>5, <1>6, <1>10, ResumeFine, IndexStep, ZenonT(30)
<1>. QED  BY <1>7, <1>8, <1>9, <1>10

-----------------------------------------------------------------------------
(* The invariant and the theorems.                                         *)

LEMMA InitIInv == Init => IInv
<1>. SUFFICES ASSUME Init PROVE IInv
  OBVIOUS
<1>1. StoreInv
  BY AbsentCounted, AbsentSound DEF Init, StoreInv
<1>2. ThreadInv
  BY IdleFine DEF Init, ThreadInv
<1>3. MemoryInv
  BY DEF Init, MemoryInv
<1>. QED  BY <1>1, <1>2, <1>3 DEF IInv

LEMMA StepStutter == ASSUME IInv, UNCHANGED vars PROVE IInv'
<1>1. StoreInv' /\ succeeded' = succeeded /\ deadLetter' = deadLetter
  BY StoreKept DEF vars
<1>2. ThreadInv'
  BY <1>1 DEF vars, IInv, ThreadInv
<1>3. MemoryInv'
  BY DEF vars, IInv, MemoryInv, store, memory, rest, node
<1>. QED  BY <1>1, <1>2, <1>3 DEF IInv

LEMMA StepBegin == ASSUME IInv, NEW t \in Thread, Begin(t) PROVE IInv'
BY StepSubmitJob, StepPollTask, StepReportTask, StepCancelJob, SteprequeueLease, StepTimerFires, StepCallback
   DEF Begin

LEMMA StepContinue == ASSUME IInv, NEW t \in Thread, Continue(t) PROVE IInv'
BY StepdepsSatisfied, StepplaceCanceled, StepplacePending, StepplaceIndex, StepmakeReady, StepEnqueue,
   SteppromoteUnindex, SteptryPromote, StepPop, StepPollLoad, StepPollPut, StepaddLease,
   StepReportLoad, StepRelease, StepReportSuccess, StepReportUnindex, SteppromoteDependents, StepReportDrop,
   StephandleFailure, StepmaybeRescheduleCron, StepPutDeadLetter, StepFailTerminally, StepFailUnindex,
   StepCancelPut, StepCancelDequeue, StepcancelCascade, StepCascadePut, StepCascadeDequeue, StepCascadeVisit, StepCascadeUnindex,
   StepClear, StepRebuildList, SteprebuildSchedulingState, ZenonT(30)
   DEF Continue

LEMMA NextIInv == IInv /\ [Next]_vars => IInv'
BY StepBegin, StepContinue, StepNode, StepapplyEntry, StepCrash, StepStutter DEF Next

LEMMA Invariance == Spec => []IInv
BY InitIInv, NextIInv, PTL DEF Spec

\* The store, the leader's maps and every goroutine's locals keep their shape.
THEOREM TypeCorrect == Spec => []TypeOK
<1>1. IInv => TypeOK
  BY ZenonT(30) DEF IInv, StoreInv, ThreadInv, MemoryInv, TypeOK
<1>. QED  BY <1>1, Invariance, PTL

\* Whatever the interleaving of PollTask, ReportTask, requeueLease, the rebuild and the
\* cancels, no job is run more often than its retry policy allows.
THEOREM AttemptSafety == Spec => []AttemptsWithinPolicy
<1>1. IInv => AttemptsWithinPolicy
  BY DEF IInv, StoreInv, Sound, Counted, HasTry, AttemptsWithinPolicy
<1>. QED  BY <1>1, Invariance, PTL

\* No job is queued, run or ended by running before all its dependencies SUCCEEDED.
THEOREM DependencySafety == Spec => []RunsAfterDependencies
<1>1. IInv => RunsAfterDependencies
  BY DEF IInv, StoreInv, Sound, Met, RunsAfterDependencies
<1>. QED  BY <1>1, Invariance, PTL

-----------------------------------------------------------------------------
(* The dead-letter bucket.                                                 *)

\* The writes of a job that do not make it FAILED.
LEMMA WritesOther ==
    ASSUME IInv, NEW k \in Job, NEW rec \in Record, NEW st, st # "FAILED",
           NEW sched, NEW n,
           \/ putJob(k, [rec EXCEPT !.state = st]) \/ putJob(k, [rec EXCEPT !.state = st, !.sched = sched])
           \/ putJob(k, [rec EXCEPT !.state = st, !.attempt = n, !.sched = sched])
    PROVE  \A j \in Job : jobs'[j] = jobs[j] \/ jobs'[j].state # "FAILED"
<1>1. /\ [rec EXCEPT !.state = st].state = st /\ [rec EXCEPT !.state = st, !.sched = sched].state = st
      /\ [rec EXCEPT !.state = st, !.attempt = n, !.sched = sched].state = st
  BY DEF Record
<1>2. PICK new : putJob(k, new) /\ new.state = st
  BY <1>1, Zenon
<1>. QED  BY <1>2 DEF putJob, IInv, StoreInv

LEMMA Unfailing ==
    ASSUME IInv, NEW t \in Thread,
           \/ placeCanceled(t) \/ placePending(t) \/ makeReady(t) \/ PollPut(t) \/ CancelPut(t) \/ CascadePut(t)
           \/ ReportSuccess(t) \/ maybeRescheduleCron(t)
           \/ (handleFailure(t) /\ th[t].rec.attempt < th[t].rec.max)
    PROVE  \A j \in Job : jobs'[j] = jobs[j] \/ jobs'[j].state # "FAILED"
<1>. DEFINE r == th[t]
            Kept == \A j \in Job : jobs'[j] = jobs[j] \/ jobs'[j].state # "FAILED"
<1>1. r.rec \in Record /\ (r.pc \in Working => r.job \in Job)
  BY Mine, Zenon DEF Locals, Fine
<1>2. CASE PutFails
  BY <1>2, Zenon DEF PutFails
<1>3. \A st \in {"CANCELED", "PENDING", "QUEUED", "RUNNING", "SUCCEEDED"} : st # "FAILED"
  BY Zenon
<1>4. CASE placeCanceled(t) \/ CancelPut(t) \/ CascadePut(t)
  <2>1. r.job \in Job
    BY <1>1, <1>4, Zenon DEF placeCanceled, CancelPut, CascadePut, At, Working
  <2>2. PutFails \/ putJob(r.job, [r.rec EXCEPT !.state = "CANCELED"])
    BY <1>4, Zenon DEF placeCanceled, CancelPut, CascadePut, PutLogged
  <2>. QED  BY <1>1, <1>2, <1>3, <2>1, <2>2, WritesOther, Zenon
<1>5. CASE placePending(t)
  <2>1. r.job \in Job
    BY <1>1, <1>5, Zenon DEF placePending, At, Working
  <2>2. PutFails \/ putJob(r.job, [r.rec EXCEPT !.state = "PENDING"])
    BY <1>5, Zenon DEF placePending, PutLogged
  <2>. QED  BY <1>1, <1>2, <1>3, <2>1, <2>2, WritesOther, Zenon
<1>6. CASE makeReady(t) \/ (handleFailure(t) /\ r.rec.attempt < r.rec.max)
  <2>1. r.job \in Job
    BY <1>1, <1>6, Zenon DEF makeReady, handleFailure, At, Working
  <2>2. ~(r.rec.attempt >= r.rec.max) \/ makeReady(t)
    BY <1>1, <1>6 DEF Record
  <2>3. PutFails \/ \E sched : putJob(r.job, [r.rec EXCEPT !.state = "QUEUED", !.sched = sched])
    BY <1>6, <2>2, Zenon DEF makeReady, handleFailure, GiveUp
  <2>. QED  BY <1>1, <1>2, <1>3, <2>1, <2>3, WritesOther, Zenon
<1>7. CASE PollPut(t) \/ maybeRescheduleCron(t)
  <2>1. r.job \in Job
    BY <1>1, <1>7, Zenon DEF PollPut, maybeRescheduleCron, At, Working
  <2>2. PutFails \/ \E st \in {"RUNNING", "QUEUED"} : \E n, sched :
            putJob(r.job, [r.rec EXCEPT !.state = st, !.attempt = n, !.sched = sched])
    BY <1>7, Zenon DEF PollPut, maybeRescheduleCron, GiveUp
  <2>. QED  BY <1>1, <1>2, <1>3, <2>1, <2>2, WritesOther, Zenon
<1>8. CASE ReportSuccess(t)
  <2>1. r.job \in Job
    BY <1>1, <1>8, Zenon DEF ReportSuccess, At, Working
  <2>2. PutFails \/ putJob(r.job, [r.rec EXCEPT !.state = "SUCCEEDED"])
    BY <1>8, Zenon DEF ReportSuccess
  <2>. QED  BY <1>1, <1>2, <1>3, <2>1, <2>2, WritesOther, Zenon
<1>. QED  BY <1>4, <1>5, <1>6, <1>7, <1>8, Zenon

\* A goroutine makes a job FAILED only when it has put it into the dead-letter bucket.
LEMMA Buries ==
    ASSUME IInv, NEW t \in Thread, Begin(t) \/ Continue(t)
    PROVE  /\ deadLetter \subseteq deadLetter'
           /\ \A j \in Job : jobs'[j].state = "FAILED" /\ jobs'[j] # jobs[j] => j \in deadLetter'
<1>1. CASE PutDeadLetter(t)
  BY <1>1, Zenon DEF PutDeadLetter, GiveUp, PutFails
<1>2. CASE FailTerminally(t)
  <2>1. th[t].job \in deadLetter
    BY <1>2, Mine, Zenon DEF FailTerminally, At, Fine
  <2>2. UNCHANGED deadLetter
    BY <1>2, Zenon DEF FailTerminally, Storing
  <2>3. UNCHANGED jobs \/ \E rec : jobs' = [jobs EXCEPT ![th[t].job] = rec]
    BY <1>2, Zenon DEF FailTerminally, GiveUp, PutFails, putJob
  <2>4. \A j \in Job : j # th[t].job => jobs'[j] = jobs[j]
    BY <2>3 DEF IInv, StoreInv
  <2>. QED  BY <2>1, <2>2, <2>4, Zenon
<1>3. CASE UNCHANGED jobs /\ deadLetter \subseteq deadLetter'
  BY <1>3, Zenon
<1>4. ASSUME UNCHANGED store PROVE UNCHANGED jobs /\ deadLetter \subseteq deadLetter'
  BY <1>4, Zenon DEF store
<1>5. CASE Begin(t)
  BY <1>3, <1>4, <1>5, Zenon DEF Begin, SubmitJob, PollTask, ReportTask, CancelJob, requeueLease, TimerFires, Callback, Local
<1>6. CASE \/ depsSatisfied(t) \/ tryPromote(t) \/ placeIndex(t) \/ armEnqueue(t) \/ enqueueJob(t) \/ Push(t)
           \/ promoteUnindex(t) \/ Pop(t) \/ PollLoad(t) \/ addLease(t) \/ ReportLoad(t) \/ ReportRelease(t)
           \/ ReportUnindex(t) \/ promoteDependents(t) \/ ReportDrop(t) \/ FailUnindex(t)
  <2>1. UNCHANGED store
    BY <1>6, ZenonT(30) DEF depsSatisfied, tryPromote, placeIndex, armEnqueue, enqueueJob, Push, promoteUnindex, Pop, PollLoad,
       addLease, ReportLoad, LoadRunning, ReportRelease, removeLease, ReportUnindex, promoteDependents, ReportDrop, FailUnindex,
       Local
  <2>. QED  BY <1>3, <1>4, <2>1, Zenon
<1>7. CASE \/ CancelDequeue(t) \/ cancelCascade(t) \/ CascadeDequeue(t) \/ CascadeVisit(t)
          \/ CascadeUnindex(t) \/ RequeueRelease(t)
           \/ ClearQueue(t) \/ ClearLeases(t) \/ ClearIndex(t) \/ RebuildList(t) \/ rebuildSchedulingState(t)
  <2>1. UNCHANGED store
    BY <1>7, ZenonT(30) DEF CancelDequeue, cancelCascade, CascadeDequeue, CascadeVisit, CascadeUnindex, RequeueRelease, removeLease,
       ClearQueue, ClearLeases, ClearIndex, RebuildList, rebuildSchedulingState, Local
  <2>. QED  BY <1>3, <1>4, <2>1, Zenon
<1>8. CASE \/ placeCanceled(t) \/ placePending(t) \/ makeReady(t) \/ PollPut(t) \/ CancelPut(t) \/ CascadePut(t)
           \/ ReportSuccess(t) \/ maybeRescheduleCron(t) \/ handleFailure(t)
  <2>1. UNCHANGED deadLetter
    BY <1>8, ZenonT(30) DEF placeCanceled, placePending, makeReady, PollPut, CancelPut, CascadePut, ReportSuccess,
       maybeRescheduleCron, handleFailure, Storing
  <2>2. CASE handleFailure(t) /\ ~(th[t].rec.attempt < th[t].rec.max)
    <3>1. UNCHANGED jobs
      BY <2>2, Zenon DEF handleFailure
    <3>. QED  BY <1>3, <2>1, <3>1, Zenon
  <2>. QED  BY <1>8, <2>1, <2>2, Unfailing, Zenon
<1>. QED  BY <1>1, <1>2, <1>5, <1>6, <1>7, <1>8, Zenon DEF Continue

\* handleFailure: in every interleaving, with crashes, failing writes and changes of
\* leadership, a job that this node makes FAILED is in its dead-letter bucket, and stays
\* there; a FAILED job without an entry was shipped by another leader.
THEOREM DeadLetterSafety == Spec => FailedIsDeadLettered
<1>1. ASSUME IInv, [Next]_vars
      PROVE  /\ deadLetter \subseteq deadLetter'
             /\ \A j \in Job : jobs'[j].state = "FAILED" /\ jobs'[j] # jobs[j] => j \in deadLetter' \/ applyEntry
  <2>1. CASE BecomeLeader \/ StepDown \/ Crash \/ UNCHANGED vars
    BY <2>1, Zenon DEF BecomeLeader, StepDown, Crash, vars, store
  <2>2. CASE applyEntry
    BY <2>2, Zenon DEF applyEntry
  <2>. QED  BY <1>1, <2>1, <2>2, Buries, Zenon DEF Next
<1>. QED  BY <1>1, Invariance, PTL DEF Spec, FailedIsDeadLettered

-----------------------------------------------------------------------------
(* Cron jobs.                                                              *)

\* The leaders that ship records have ended no cron job but by canceling it.
CronShipped == \A e \in Replicated : e.rec.state \in {"SUCCEEDED", "FAILED"} => e.rec.kind # "cron"

\* The program counters from which a job ends as SUCCEEDED or FAILED.
Ending == {"succeed", "bury", "fail terminally"}

\* Those, and the ones at which placeNewJob or tryPromote has a job.
Watched == Ending \cup {"deps", "ready", "placeCanceled", "placePending"}

\* As long as no write has failed, no copy of a cron job gets there.
CronInv ==
    errors = 0 => /\ \A j \in Job : jobs[j].state \in {"SUCCEEDED", "FAILED"} => jobs[j].kind # "cron"
                  /\ \A t \in Thread : th[t].pc \in Ending => th[t].rec.kind # "cron"

\* Where Resume leads, and a step that only moves a goroutine.
LEMMA ResumeEnds == ASSUME NEW r \in Locals PROVE Resume(r).pc \notin Watched
<1>. DEFINE s == [r EXCEPT !.job = Nil, !.rec = Absent, !.flag = FALSE, !.k = 1]
<1>1. s \in Locals
  BY AbsentCounted, FirstPosition, Zenon DEF Locals
<1>. HIDE DEF s
<1>3. Resume(r) \in {[s EXCEPT !.pc = "cascade"], [s EXCEPT !.pc = "rebuild", !.seen = {}],
                     [s EXCEPT !.pc = "promote", !.seen = {}], [s EXCEPT !.pc = "drop", !.seen = {}], Idle}
  BY Zenon DEF Resume, s
<1>4. Idle.pc = "idle"
  BY DEF Idle
<1>5. /\ [s EXCEPT !.pc = "cascade"].pc = "cascade" /\ [s EXCEPT !.pc = "rebuild", !.seen = {}].pc = "rebuild"
      /\ [s EXCEPT !.pc = "promote", !.seen = {}].pc = "promote" /\ [s EXCEPT !.pc = "drop", !.seen = {}].pc = "drop"
  BY <1>1 DEF Locals
<1>6. Resume(r).pc \in {"cascade", "rebuild", "promote", "drop", "idle"}
  BY <1>3, <1>4, <1>5, Zenon
<1>. QED  BY <1>6, Zenon DEF Watched, Ending

LEMMA GotoEnds ==
    ASSUME NEW r \in Locals, NEW pc, NEW rec
    PROVE  /\ [r EXCEPT !.pc = pc].pc = pc /\ [r EXCEPT !.pc = pc].rec = r.rec
           /\ [r EXCEPT !.pc = pc, !.rec = rec].pc = pc /\ [r EXCEPT !.pc = pc, !.rec = rec].rec = rec
BY DEF Locals

\* A goroutine steps; unless its write fails it writes no cron job that ended.
LEMMA CronStep ==
    ASSUME IInv, IInv', CronInv, NEW t \in Thread, NEW x, Become(t, x),
           \/ PutFails
           \/ /\ UNCHANGED errors
              /\ errors = 0 => /\ x.pc \in Ending => x.rec.kind # "cron"
                               /\ \A j \in Job : \/ jobs'[j] = jobs[j]
                                                 \/ jobs'[j].state \notin {"SUCCEEDED", "FAILED"}
                                                 \/ jobs'[j].kind # "cron"
    PROVE  CronInv'
<1>1. CASE PutFails
  <2>1. errors' # 0
    BY <1>1 DEF PutFails, IInv, MemoryInv
  <2>. QED  BY <2>1 DEF CronInv
<1>2. CASE UNCHANGED errors
  <2>. SUFFICES ASSUME errors = 0, ~PutFails
                PROVE  /\ \A j \in Job : jobs'[j].state \in {"SUCCEEDED", "FAILED"} => jobs'[j].kind # "cron"
                       /\ \A u \in Thread : th'[u].pc \in Ending => th'[u].rec.kind # "cron"
    BY <1>1, <1>2 DEF CronInv
  <2>1. \A u \in Thread : th'[u] = IF u = t THEN x ELSE th[u]
    BY DEF Become, IInv, ThreadInv
  <2>. QED  BY <2>1 DEF CronInv
<1>. QED  BY <1>1, <1>2

\* A step of goroutine t that leads to none of them.
Moves(t) == \E x : Become(t, x) /\ x.pc \notin Watched

LEMMA GotoMoves ==
    ASSUME IInv, NEW t \in Thread, NEW pc, pc \notin Watched, NEW rec,
           \/ Become(t, [th[t] EXCEPT !.pc = pc]) \/ Become(t, [th[t] EXCEPT !.pc = pc, !.rec = rec])
    PROVE  Moves(t)
<1>1. [th[t] EXCEPT !.pc = pc].pc = pc /\ [th[t] EXCEPT !.pc = pc, !.rec = rec].pc = pc
  BY Mine, GotoEnds
<1>. QED  BY <1>1, Zenon DEF Moves

LEMMA ForgetMoves == ASSUME IInv, NEW t \in Thread, NEW pc, pc \notin Watched, Goto(t, pc) \/ Forget(t, pc) PROVE Moves(t)
BY GotoMoves, Zenon DEF Goto, Forget

LEMMA ResumeMoves == ASSUME NEW t \in Thread, NEW r \in Locals, Become(t, Resume(r)) PROVE Moves(t)
BY ResumeEnds, Zenon DEF Moves

LEMMA ArmedMoves == ASSUME IInv, NEW t \in Thread, Armed(t) PROVE Moves(t)
<1>1. "unindex" \notin Watched
  BY DEF Watched, Ending
<1>2. CASE th[t].flag
  BY <1>1, <1>2, GotoMoves, Zenon DEF Armed
<1>3. CASE ~th[t].flag
  BY <1>3, Mine, ResumeMoves, Zenon DEF Armed
<1>. QED  BY <1>2, <1>3

LEMMA IdleMoves ==
    ASSUME NEW t \in Thread, NEW pc, pc \notin Watched, NEW job, NEW rec, NEW task, NEW b,
           \/ Become(t, Idle) \/ Become(t, [Idle EXCEPT !.pc = pc]) \/ Become(t, [Idle EXCEPT !.pc = pc, !.job = job])
           \/ Become(t, [Idle EXCEPT !.pc = pc, !.job = job, !.rec = rec])
           \/ Become(t, [Idle EXCEPT !.pc = pc, !.job = job, !.task = task])
           \/ Become(t, [Idle EXCEPT !.pc = pc, !.job = job, !.task = task, !.reaper = TRUE])
           \/ Become(t, [Idle EXCEPT !.pc = pc, !.flag = b])
    PROVE  Moves(t)
<1>1. /\ Idle.pc = "idle" /\ [Idle EXCEPT !.pc = pc].pc = pc /\ [Idle EXCEPT !.pc = pc, !.job = job].pc = pc
      /\ [Idle EXCEPT !.pc = pc, !.job = job, !.rec = rec].pc = pc
      /\ [Idle EXCEPT !.pc = pc, !.job = job, !.task = task].pc = pc
      /\ [Idle EXCEPT !.pc = pc, !.job = job, !.task = task, !.reaper = TRUE].pc = pc
      /\ [Idle EXCEPT !.pc = pc, !.flag = b].pc = pc
  BY DEF Idle
<1>2. "idle" \notin Watched
  BY Zenon DEF Watched, Ending
<1>. QED  BY <1>1, <1>2, Zenon DEF Moves

\* A step that leaves the jobs bucket alone, and one that writes a job.
LEMMA CronMove ==
    ASSUME IInv, IInv', CronInv, NEW t \in Thread, Moves(t), UNCHANGED <<jobs, errors>> PROVE CronInv'
BY CronStep DEF Moves, Watched

LEMMA CronPut ==
    ASSUME IInv, IInv', CronInv, NEW t \in Thread, Moves(t), NEW rec, putJob(th[t].job, rec),
           errors = 0 => rec.state \notin {"SUCCEEDED", "FAILED"} \/ rec.kind # "cron"
    PROVE  CronInv'
<1>1. \A j \in Job : jobs'[j] = jobs[j] \/ jobs'[j] = rec
  BY DEF putJob, IInv, StoreInv
<1>2. UNCHANGED errors
  BY DEF putJob
<1>3. PICK x : Become(t, x) /\ x.pc \notin Watched
  BY DEF Moves
<1>. QED  BY <1>1, <1>2, <1>3, CronStep DEF Watched

LEMMA CronPutFails ==
    ASSUME IInv, IInv', CronInv, NEW t \in Thread, NEW x, Become(t, x), PutFails PROVE CronInv'
BY CronStep

\* The steps that begin something, submissions apart.
LEMMA BeginMoves ==
    ASSUME IInv, NEW t \in Thread,
           \/ PollTask(t) \/ ReportTask(t) \/ CancelJob(t) \/ requeueLease(t) \/ TimerFires(t) \/ Callback(t)
    PROVE  Moves(t) /\ UNCHANGED <<jobs, errors>>
<1>1. \A pc \in {"pop", "ok", "fail", "cancel", "reclaim", "enqueue", "clear queue"} : pc \notin Watched
  BY Zenon DEF Watched, Ending
<1>2. UNCHANGED <<jobs, errors>>
  BY Zenon DEF PollTask, ReportTask, CancelJob, requeueLease, TimerFires, Callback, Local, store, rest
<1>3. CASE CancelJob(t)
  BY <1>1, <1>2, <1>3, IdleMoves, Zenon DEF CancelJob
<1>4. CASE PollTask(t)
  BY <1>1, <1>2, <1>4, ForgetMoves, Zenon DEF PollTask
<1>5. CASE ReportTask(t) \/ requeueLease(t)
  BY <1>1, <1>2, <1>5, IdleMoves, Zenon DEF ReportTask, requeueLease
<1>6. CASE TimerFires(t) \/ Callback(t)
  BY <1>1, <1>2, <1>6, IdleMoves, Zenon DEF TimerFires, Callback
<1>. QED  BY <1>3, <1>4, <1>5, <1>6, Zenon

\* The steps that neither write a job nor end one.
LEMMA QuietMoves ==
    ASSUME IInv, NEW t \in Thread,
           \/ placeIndex(t) \/ armEnqueue(t) \/ enqueueJob(t) \/ Push(t) \/ promoteUnindex(t)
           \/ Pop(t) \/ PollLoad(t) \/ addLease(t) \/ ReportLoad(t) \/ ReportUnindex(t)
           \/ promoteDependents(t) \/ ReportDrop(t) \/ FailUnindex(t) \/ CancelDequeue(t) \/ cancelCascade(t)
           \/ CascadeDequeue(t) \/ CascadeVisit(t) \/ CascadeUnindex(t) \/ RequeueRelease(t) \/ ClearQueue(t)
           \/ ClearLeases(t)
           \/ ClearIndex(t) \/ RebuildList(t) \/ rebuildSchedulingState(t)
    PROVE  /\ UNCHANGED <<jobs, errors>>
           /\ Moves(t)
<1>. DEFINE r == th[t]
<1>1. r \in Locals /\ revIndex \in [Job -> SUBSET Job] /\ Idle \in Locals
  BY Mine, IdleFine, ZenonT(30) DEF IInv, MemoryInv
<1>5. \A pc \in (Plain \ {"placeCanceled"}) \cup Between \cup {"dispatch", "release", "failure"} : pc \notin Watched
  BY ZenonT(30) DEF Watched, Ending, Plain, Between
<1>6. \A W \in SUBSET Job : [r EXCEPT !.work = W] \in Locals /\ [r EXCEPT !.todo = W] \in Locals
  BY <1>1 DEF Locals
<1>7. UNCHANGED <<jobs, errors>>
  BY Zenon DEF placeIndex, armEnqueue, enqueueJob, Push, promoteUnindex, Pop, PollLoad,
     addLease, ReportLoad, LoadRunning, ReportUnindex, promoteDependents, ReportDrop, FailUnindex, CancelDequeue,
     cancelCascade, CascadeDequeue, CascadeVisit, CascadeUnindex, RequeueRelease, removeLease, ClearQueue,
     ClearLeases, ClearIndex, RebuildList, rebuildSchedulingState, Local, store, rest
<1>8. Moves(t)
  <2>1. CASE placeIndex(t)
    BY <1>1, <2>1, ResumeMoves, Zenon DEF placeIndex
  <2>2. CASE armEnqueue(t) \/ Push(t) \/ enqueueJob(t)
    <3>1. "push" \in Plain \ {"placeCanceled"}
      BY DEF Plain
    <3>. QED  BY <1>5, <2>2, <3>1, ArmedMoves, ForgetMoves, Zenon DEF armEnqueue, Push, enqueueJob
  <2>3. CASE promoteUnindex(t)
    <3>1. [r EXCEPT !.flag = FALSE] \in Locals
      BY <1>1, ZenonT(30) DEF Locals
    <3>. QED  BY <2>3, <3>1, ResumeMoves, Zenon DEF promoteUnindex
  <2>4. CASE Pop(t) \/ addLease(t)
    <3>1. "polled" \in Plain \ {"placeCanceled"}
      BY DEF Plain
    <3>. QED  BY <1>5, <2>4, <3>1, IdleMoves, Zenon DEF Pop, addLease
  <2>5. CASE PollLoad(t)
    <3>1. "pop" \in Between
      BY DEF Between
    <3>. QED  BY <1>5, <2>5, <3>1, IdleMoves, GotoMoves, Zenon DEF PollLoad
  <2>6. CASE ReportLoad(t)
    BY <1>1, <1>5, <2>6, ResumeMoves, GotoMoves, Zenon DEF ReportLoad, LoadRunning
  <2>7. CASE ReportUnindex(t) \/ CascadeDequeue(t) \/ ClearQueue(t) \/ ClearLeases(t)
    <3>1. "dependents" \in Plain \ {"placeCanceled"} /\ "cascade visit" \in Plain \ {"placeCanceled"} /\ "clear leases" \in Between /\ "clear index" \in Between
      BY DEF Plain, Between
    <3>. QED  BY <1>5, <2>7, <3>1, ForgetMoves, Zenon DEF ReportUnindex, CascadeDequeue, ClearQueue, ClearLeases
  <2>8. CASE promoteDependents(t)
    <3>1. r.job \in Job
      BY <2>8, Mine, Zenon DEF promoteDependents, At, Fine, Working
    <3>2. [r EXCEPT !.todo = revIndex[r.job]] \in Locals
      BY <1>1, <1>6, <3>1, Zenon
    <3>. QED  BY <2>8, <3>2, ResumeMoves, Zenon DEF promoteDependents
  <2>9. CASE ReportDrop(t) \/ RequeueRelease(t)
    <3>1. [Idle EXCEPT !.task = 0].pc = "idle" /\ [[r EXCEPT !.pc = "fail"] EXCEPT !.task = 0].pc = "fail"
      BY <1>1 DEF Idle, Locals
    <3>2. "idle" \in Between /\ "fail" \in Plain \ {"placeCanceled"}
      BY DEF Between, Plain
    <3>. QED  BY <1>5, <2>9, <3>1, <3>2, Zenon DEF ReportDrop, RequeueRelease, removeLease, Moves
  <2>10. CASE FailUnindex(t) \/ CancelDequeue(t)
    <3>1. r.job \in Job
      BY <2>10, Mine, Zenon DEF FailUnindex, CancelDequeue, At, Fine, Working
    <3>2. [r EXCEPT !.work = {r.job}] \in Locals
      BY <1>6, <3>1, Zenon
    <3>. QED  BY <2>10, <3>2, ResumeMoves, Zenon DEF FailUnindex, CancelDequeue
  <2>11. CASE cancelCascade(t)
    <3>1. PICK j \in r.work :
             \/ Become(t, [r EXCEPT !.pc = "cascade visit", !.job = j])
             \/ Become(t, [r EXCEPT !.pc = "cascade cancel", !.job = j, !.rec = jobs[j]])
      BY <2>11, Zenon DEF cancelCascade
    <3>2. /\ [r EXCEPT !.pc = "cascade visit", !.job = j].pc = "cascade visit"
          /\ [r EXCEPT !.pc = "cascade cancel", !.job = j, !.rec = jobs[j]].pc = "cascade cancel"
      BY <1>1, ZenonT(30) DEF Locals
    <3>3. "cascade visit" \in Plain \ {"placeCanceled"} /\ "cascade cancel" \in Plain \ {"placeCanceled"}
      BY DEF Plain
    <3>. QED  BY <1>5, <3>1, <3>2, <3>3, Zenon DEF Moves
  <2>12. CASE CascadeVisit(t)
    <3>1. r.job \in Job
      BY <2>12, Mine, ZenonT(30) DEF CascadeVisit, At, Fine, Working
    <3>. DEFINE seen == r.seen \cup {r.job}
                W == (r.work \cup revIndex[r.job]) \ seen
                x == [r EXCEPT !.pc = "cascade unindex", !.seen = seen, !.work = W]
    <3>2. x.pc = "cascade unindex"
      BY <1>1, <3>1, ZenonT(30) DEF Locals
    <3>3. Become(t, x)
      BY <2>12, Zenon DEF CascadeVisit
    <3>. HIDE DEF x
    <3>4. "cascade unindex" \in Plain \ {"placeCanceled"}
      BY DEF Plain
    <3>. QED  BY <1>5, <3>2, <3>3, <3>4, Zenon DEF Moves
  <2>16. CASE CascadeUnindex(t)
    BY <1>1, <2>16, ResumeMoves, Zenon DEF CascadeUnindex
  <2>13. CASE ClearIndex(t)
    <3>1. "list" \in Between
      BY DEF Between
    <3>. QED  BY <1>5, <2>13, <3>1, IdleMoves, Zenon DEF ClearIndex
  <2>14. CASE RebuildList(t)
    <3>. DEFINE all == {j \in Job : jobs[j].state # "ABSENT"}
                L == {<<j, jobs[j]>> : j \in all}
                P == {j \in all : jobs[j].state = "PENDING"}
    <3>1. L \in SUBSET (Job \X Record) /\ P \in SUBSET Job
      BY DEF IInv, StoreInv
    <3>2. Become(t, Resume([r EXCEPT !.list = L, !.todo = P]))
      BY <2>14, Zenon DEF RebuildList
    <3>. HIDE DEF L, P
    <3>3. [r EXCEPT !.list = L, !.todo = P] \in Locals
      BY <1>1, <3>1, Zenon DEF Locals
    <3>. QED  BY <3>2, <3>3, ResumeMoves, ZenonT(30)
  <2>15. CASE rebuildSchedulingState(t)
    <3>1. PICK p \in r.list : LET s == [r EXCEPT !.list = @ \ {p}, !.job = p[1], !.rec = p[2]] IN
              \/ \E pc \in {"push"} \cup (IF p[2].sched THEN {"arm"} ELSE {}) : Become(t, [s EXCEPT !.pc = pc, !.rec = Absent])
              \/ Become(t, [s EXCEPT !.pc = "failure"])
              \/ Become(t, Resume(s))
      BY <2>15, Zenon DEF rebuildSchedulingState
    <3>. DEFINE s == [r EXCEPT !.list = @ \ {p}, !.job = p[1], !.rec = p[2]]
    <3>2. s \in Locals
      BY <1>1, Zenon DEF Locals
    <3>. HIDE DEF s
    <3>3. PICK pc \in {"push", "arm", "failure"} :
             \/ Become(t, [s EXCEPT !.pc = pc, !.rec = Absent]) \/ Become(t, [s EXCEPT !.pc = pc]) \/ Become(t, Resume(s))
      BY <3>1, Zenon DEF s
    <3>4. [s EXCEPT !.pc = pc, !.rec = Absent].pc = pc /\ [s EXCEPT !.pc = pc].pc = pc
      BY <3>2, GotoEnds
    <3>5. pc \notin Watched
      BY <3>3, ZenonT(30) DEF Watched, Ending
    <3>6. Resume(s).pc \notin Watched
      BY <3>2, ResumeEnds
    <3>. QED  BY <3>3, <3>4, <3>5, <3>6, Zenon DEF Moves
  <2>. QED  BY <2>1, <2>2, <2>3, <2>4, <2>5, <2>6, <2>7, <2>8, <2>9, <2>10, <2>11, <2>12, <2>13,
               <2>14, <2>15, <2>16, Zenon
<1>. QED  BY <1>7, <1>8

\* depsSatisfied keeps the copy of its job; tryPromote takes one of a stored job.
LEMMA DepsMoves ==
    ASSUME IInv, NEW t \in Thread, depsSatisfied(t)
    PROVE  /\ UNCHANGED <<jobs, errors>>
           /\ \E x : /\ Become(t, x) /\ x.pc \notin Ending
                     /\ x.pc \in Watched => x.job = th[t].job /\ x.rec = th[t].rec /\ x.flag = th[t].flag
<1>. DEFINE r == th[t]
            w == [r EXCEPT !.work = {r.job}]
<1>1. r \in Locals /\ r.pc = "deps" /\ r.job \in Job
  BY Mine, Zenon DEF depsSatisfied, At, Fine, Working
<1>2. w \in Locals
  BY <1>1 DEF Locals
<1>3. Resume(w).pc \notin Watched /\ Resume(r).pc \notin Watched
  BY <1>1, <1>2, ResumeEnds
<1>4. PICK x : /\ Become(t, x)
               /\ \/ x = Resume(w) \/ x = Resume(r) \/ x = [r EXCEPT !.k = @ + 1]
                  \/ \E pc \in {"ready", "placeCanceled", "placePending"} : x = [r EXCEPT !.pc = pc, !.k = 1]
  BY Zenon DEF depsSatisfied
<1>5. ASSUME x = [r EXCEPT !.k = @ + 1]
      PROVE  x.pc \notin Ending /\ x.job = r.job /\ x.rec = r.rec /\ x.flag = r.flag
  BY <1>1, <1>5, Zenon DEF Locals, Ending
<1>6. ASSUME NEW pc \in {"ready", "placeCanceled", "placePending"}, x = [r EXCEPT !.pc = pc, !.k = 1]
      PROVE  x.pc \notin Ending /\ x.job = r.job /\ x.rec = r.rec /\ x.flag = r.flag
  BY <1>1, <1>6, Zenon DEF Locals, Ending
<1>7. UNCHANGED <<jobs, errors>>
  BY Zenon DEF depsSatisfied, Local, store, rest
<1>. HIDE DEF r, w
<1>8. x.pc \notin Ending /\ (x.pc \in Watched => x.job = r.job /\ x.rec = r.rec /\ x.flag = r.flag)
  BY <1>1, <1>3, <1>4, <1>5, <1>6 DEF Watched, r
<1>. QED  BY <1>4, <1>7, <1>8 DEF r

LEMMA PromoteMoves ==
    ASSUME IInv, NEW t \in Thread, tryPromote(t)
    PROVE  /\ UNCHANGED <<jobs, errors>>
           /\ \E x : Become(t, x) /\ x.pc \notin Ending /\ (x.pc \in Watched => x.flag)
<1>. DEFINE r == th[t]
<1>1. r \in Locals
  BY Mine
<1>2. PICK j \in r.todo :
         LET s == [r EXCEPT !.todo = @ \ {j}] IN
         \/ Become(t, [s EXCEPT !.pc = "deps", !.job = j, !.rec = jobs[j], !.flag = TRUE, !.k = 1])
         \/ Become(t, Resume(s))
  BY Zenon DEF tryPromote
<1>. DEFINE s == [r EXCEPT !.todo = @ \ {j}]
            x == [s EXCEPT !.pc = "deps", !.job = j, !.rec = jobs[j], !.flag = TRUE, !.k = 1]
<1>3. s \in Locals
  BY <1>1 DEF Locals
<1>. HIDE DEF s
<1>4. x.pc = "deps" /\ x.flag
  BY <1>3 DEF Locals
<1>5. Resume(s).pc \notin Watched
  BY <1>3, ResumeEnds
<1>6. Become(t, x) \/ Become(t, Resume(s))
  BY <1>2 DEF s
<1>7. "deps" \notin Ending
  BY DEF Ending
<1>8. UNCHANGED <<jobs, errors>>
  BY Zenon DEF tryPromote, Local, store, rest
<1>. HIDE DEF x
<1>. QED  BY <1>4, <1>5, <1>6, <1>7, <1>8 DEF Watched

\* SubmitJob has its request in hand, once the check for cycles has passed.
LEMMA SubmitMoves ==
    ASSUME IInv, NEW t \in Thread, SubmitJob(t)
    PROVE  /\ UNCHANGED <<jobs, errors>>
           /\ \E q \in Request : \E x :
                 /\ Become(t, x) /\ x.pc = "deps" /\ x.job = q.job /\ x.rec.deps = q.deps
                 /\ ~wouldCreateCycle(q.job, q.deps)
<1>1. PICK q \in Request :
         /\ ~wouldCreateCycle(q.job, q.deps)
         /\ Become(t, [Idle EXCEPT !.pc = "deps", !.job = q.job,
                                   !.rec = [Absent EXCEPT !.deps = q.deps, !.max = q.max, !.kind = q.kind]])
  BY Zenon DEF SubmitJob
<1>. DEFINE rec == [Absent EXCEPT !.deps = q.deps, !.max = q.max, !.kind = q.kind]
            x == [Idle EXCEPT !.pc = "deps", !.job = q.job, !.rec = rec]
<1>2. rec.deps = q.deps
  BY DEF Absent
<1>. HIDE DEF rec
<1>3. x.pc = "deps" /\ x.job = q.job /\ x.rec = rec
  BY DEF Idle
<1>4. UNCHANGED <<jobs, errors>>
  BY Zenon DEF SubmitJob, store, rest
<1>5. Become(t, x)
  BY <1>1, Zenon DEF rec
<1>. HIDE DEF x
<1>. QED  BY <1>1, <1>2, <1>3, <1>4, <1>5

\* The steps that write a job, and when the write succeeds what they write.
LEMMA PutMoves ==
    ASSUME IInv, NEW t \in Thread, ~PutFails,
           \/ placeCanceled(t) \/ placePending(t) \/ makeReady(t) \/ PollPut(t) \/ CancelPut(t) \/ CascadePut(t)
           \/ ReportSuccess(t) \/ FailTerminally(t) \/ maybeRescheduleCron(t)
           \/ (handleFailure(t) /\ th[t].rec.attempt < th[t].rec.max)
    PROVE  /\ Moves(t)
           /\ \E rec : /\ putJob(th[t].job, rec) /\ rec.deps = th[t].rec.deps
                       /\ \/ rec.state \notin {"SUCCEEDED", "FAILED"}
                          \/ th[t].pc \in Ending /\ rec.kind = th[t].rec.kind
<1>. DEFINE r == th[t]
<1>1. r \in Locals /\ r.rec \in Record
  BY Mine DEF Locals
<1>2. ASSUME NEW st, putJob(r.job, [r.rec EXCEPT !.state = st]), Moves(t), st \in {"SUCCEEDED", "FAILED"} => r.pc \in Ending
      PROVE  /\ Moves(t)
             /\ \E rec : /\ putJob(r.job, rec) /\ rec.deps = r.rec.deps
                         /\ rec.state \notin {"SUCCEEDED", "FAILED"} \/ (r.pc \in Ending /\ rec.kind = r.rec.kind)
  <2>. DEFINE rec == [r.rec EXCEPT !.state = st]
  <2>1. rec.state = st /\ rec.kind = r.rec.kind /\ rec.deps = r.rec.deps
    BY <1>1 DEF Record
  <2>2. putJob(r.job, rec)
    BY <1>2
  <2>. HIDE DEF rec
  <2>. QED  BY <1>2, <2>1, <2>2
<1>3. \A pc \in {"index", "arm", "enqueue", "lease", "canceled", "cascade dequeue", "succeeded", "failed"} : pc \notin Watched
  BY Zenon DEF Watched, Ending
<1>4. CASE placeCanceled(t)
  <2>1. Moves(t) /\ putJob(r.job, [r.rec EXCEPT !.state = "CANCELED"])
    BY <1>1, <1>4, ResumeMoves, Zenon DEF placeCanceled, PutLogged
  <2>. QED  BY <1>2, <2>1
<1>5. CASE placePending(t)
  <2>1. Moves(t) /\ putJob(r.job, [r.rec EXCEPT !.state = "PENDING"])
    BY <1>3, <1>5, ForgetMoves, Zenon DEF placePending, PutLogged
  <2>. QED  BY <1>2, <2>1
<1>6. CASE makeReady(t)
  <2>1. PICK sched : /\ putJob(r.job, [r.rec EXCEPT !.state = "QUEUED", !.sched = sched])
                     /\ \E pc \in {"enqueue"} \cup (IF sched THEN {"arm"} ELSE {}) : Forget(t, pc)
    BY <1>6, Zenon DEF makeReady
  <2>2. LET rec == [r.rec EXCEPT !.state = "QUEUED", !.sched = sched] IN rec.state = "QUEUED" /\ rec.deps = r.rec.deps
    BY <1>1 DEF Record
  <2>3. PICK pc \in {"enqueue", "arm"} : Forget(t, pc)
    BY <2>1
  <2>4. Moves(t)
    BY <1>3, <2>3, ForgetMoves, Zenon
  <2>. QED  BY <2>1, <2>2, <2>4, Zenon
<1>7. CASE PollPut(t)
  <2>. DEFINE rec == [r.rec EXCEPT !.state = "RUNNING", !.attempt = @ + 1, !.sched = FALSE]
  <2>1. putJob(r.job, rec) /\ Become(t, [r EXCEPT !.pc = "lease", !.rec = rec])
    BY <1>7, Zenon DEF PollPut
  <2>2. rec.state = "RUNNING" /\ rec.deps = r.rec.deps
    BY <1>1 DEF Record
  <2>. HIDE DEF rec
  <2>3. Moves(t)
    BY <1>3, <2>1, GotoMoves, Zenon
  <2>. QED  BY <2>1, <2>2, <2>3
<1>8. CASE CancelPut(t) \/ CascadePut(t)
  <2>1. putJob(r.job, [r.rec EXCEPT !.state = "CANCELED"]) /\ Moves(t)
    BY <1>3, <1>8, ForgetMoves, Zenon DEF CancelPut, CascadePut, PutLogged
  <2>. QED  BY <1>2, <2>1
<1>9. CASE ReportSuccess(t) \/ FailTerminally(t)
  <2>1. r.pc \in Ending
    BY <1>9, Zenon DEF ReportSuccess, FailTerminally, At, Ending
  <2>2. PICK st \in {"SUCCEEDED", "FAILED"} : putJob(r.job, [r.rec EXCEPT !.state = st]) /\ Moves(t)
    BY <1>3, <1>9, ForgetMoves, ZenonT(30) DEF ReportSuccess, FailTerminally, GiveUp
  <2>. QED  BY <1>2, <2>1, <2>2
<1>10. CASE maybeRescheduleCron(t)
  <2>. DEFINE rec == [r.rec EXCEPT !.state = "QUEUED", !.attempt = 0, !.sched = TRUE]
  <2>1. putJob(r.job, rec) /\ Moves(t)
    BY <1>3, <1>10, ForgetMoves, Zenon DEF maybeRescheduleCron
  <2>2. rec.state = "QUEUED" /\ rec.deps = r.rec.deps
    BY <1>1, ZenonT(30) DEF Record
  <2>. HIDE DEF rec
  <2>. QED  BY <2>1, <2>2
<1>11. CASE handleFailure(t) /\ r.rec.attempt < r.rec.max
  <2>. DEFINE rec == [r.rec EXCEPT !.state = "QUEUED", !.sched = TRUE]
  <2>1. ~(r.rec.attempt >= r.rec.max)
    BY <1>1, <1>11 DEF Record
  <2>2. putJob(r.job, rec) /\ Moves(t)
    BY <1>3, <1>11, <2>1, ForgetMoves, Zenon DEF handleFailure, GiveUp
  <2>3. rec.state = "QUEUED" /\ rec.deps = r.rec.deps
    BY <1>1 DEF Record
  <2>. HIDE DEF rec
  <2>. QED  BY <2>2, <2>3
<1>. QED  BY <1>4, <1>5, <1>6, <1>7, <1>8, <1>9, <1>10, <1>11, ZenonT(30)

\* The steps that decide how a run of a job ends: a cron job is armed again.
LEMMA EndMoves ==
    ASSUME IInv, NEW t \in Thread, ~PutFails,
           \/ ReportRelease(t) \/ PutDeadLetter(t)
           \/ (handleFailure(t) /\ ~(th[t].rec.attempt < th[t].rec.max))
    PROVE  /\ UNCHANGED <<jobs, errors>>
           /\ \E x : /\ Become(t, x) /\ x.rec = th[t].rec
                     /\ x.pc \in {"succeed", "cronOk", "bury", "cronFail", "fail terminally"}
                     /\ x.pc \in Ending => th[t].pc \in Ending \/ th[t].rec.kind # "cron"
<1>. DEFINE r == th[t]
<1>1. r \in Locals
  BY Mine
<1>2. "cronOk" \notin Ending /\ "cronFail" \notin Ending
  BY DEF Ending
<1>3. CASE ReportRelease(t)
  <2>. DEFINE pc == IF r.rec.kind = "cron" THEN "cronOk" ELSE "succeed"
              x == [[r EXCEPT !.pc = pc] EXCEPT !.task = 0]
  <2>1. Become(t, x) /\ UNCHANGED <<jobs, errors>>
    BY <1>3, Zenon DEF ReportRelease, removeLease, store, rest
  <2>2. x.pc = pc /\ x.rec = r.rec
    BY <1>1 DEF Locals
  <2>. HIDE DEF x
  <2>. QED  BY <1>2, <2>1, <2>2, Zenon
<1>4. CASE handleFailure(t) /\ ~(r.rec.attempt < r.rec.max)
  <2>. DEFINE pc == IF r.rec.kind = "cron" THEN "cronFail" ELSE "bury"
              x == [r EXCEPT !.pc = pc]
  <2>1. Become(t, x) /\ UNCHANGED <<jobs, errors>>
    BY <1>4, Zenon DEF handleFailure, Goto
  <2>2. x.pc = pc /\ x.rec = r.rec
    BY <1>1, GotoEnds
  <2>. HIDE DEF x
  <2>. QED  BY <1>2, <2>1, <2>2, ZenonT(30)
<1>5. CASE PutDeadLetter(t)
  <2>. DEFINE x == [r EXCEPT !.pc = "fail terminally"]
  <2>1. Become(t, x) /\ UNCHANGED <<jobs, errors>>
    BY <1>5, Zenon DEF PutDeadLetter, GiveUp, Goto
  <2>2. r.pc \in Ending
    BY <1>5, Zenon DEF PutDeadLetter, At, Ending
  <2>3. x.pc = "fail terminally" /\ x.rec = r.rec
    BY <1>1, GotoEnds
  <2>. HIDE DEF x
  <2>. QED  BY <2>1, <2>2, <2>3, Zenon
<1>. QED  BY <1>3, <1>4, <1>5, Zenon

LEMMA CronPuts ==
    ASSUME IInv, IInv', CronInv, NEW t \in Thread,
           \/ placeCanceled(t) \/ placePending(t) \/ makeReady(t) \/ PollPut(t) \/ CancelPut(t) \/ CascadePut(t)
           \/ ReportSuccess(t) \/ FailTerminally(t) \/ maybeRescheduleCron(t)
           \/ ReportRelease(t) \/ handleFailure(t) \/ PutDeadLetter(t)
    PROVE  CronInv'
<1>1. CASE PutFails
  <2>1. \E x : Become(t, x)
    BY ZenonT(30) DEF placeCanceled, placePending, makeReady, PollPut, CancelPut, CascadePut, ReportSuccess, FailTerminally,
       maybeRescheduleCron, ReportRelease, removeLease, handleFailure, PutDeadLetter, GiveUp, Goto, Forget, Armed
  <2>. QED  BY <1>1, <2>1, CronPutFails
<1>2. CASE /\ ~PutFails
           /\ Moves(t)
           /\ \E rec : /\ putJob(th[t].job, rec)
                       /\ \/ rec.state \notin {"SUCCEEDED", "FAILED"}
                          \/ th[t].pc \in Ending /\ rec.kind = th[t].rec.kind
  <2>1. errors = 0 /\ th[t].pc \in Ending => th[t].rec.kind # "cron"
    BY ZenonT(30) DEF CronInv
  <2>. QED  BY <1>2, <2>1, CronPut, ZenonT(30)
<1>3. CASE /\ UNCHANGED <<jobs, errors>>
           /\ \E x : /\ Become(t, x) /\ x.rec = th[t].rec
                     /\ x.pc \in Ending => th[t].pc \in Ending \/ th[t].rec.kind # "cron"
  <2>1. errors = 0 /\ th[t].pc \in Ending => th[t].rec.kind # "cron"
    BY DEF CronInv
  <2>. QED  BY <1>3, <2>1, CronStep
<1>. QED  BY <1>1, <1>2, <1>3, PutMoves, EndMoves, Zenon

LEMMA CronNode == ASSUME CronInv, BecomeLeader \/ StepDown \/ Crash \/ UNCHANGED vars PROVE CronInv'
<1>1. UNCHANGED <<jobs, errors>> /\ (th' = th \/ th' = [t \in Thread |-> Idle])
  BY Zenon DEF BecomeLeader, StepDown, Crash, vars, store, rest
<1>2. Idle.pc \notin Ending
  BY DEF Idle, Ending
<1>3. CASE th' = th
  BY <1>1, <1>3 DEF CronInv
<1>4. CASE th' = [t \in Thread |-> Idle]
  BY <1>1, <1>2, <1>4 DEF CronInv
<1>. QED  BY <1>1, <1>3, <1>4

LEMMA CronEntry == ASSUME IInv, CronInv, CronShipped, applyEntry PROVE CronInv'
<1>1. PICK e \in Replicated : jobs' = [jobs EXCEPT ![e.job] = e.rec]
  BY Zenon DEF applyEntry
<1>2. UNCHANGED <<errors, th>>
  BY Zenon DEF applyEntry, rest
<1>3. \A j \in Job : jobs'[j] = jobs[j] \/ jobs'[j] = e.rec
  BY <1>1 DEF IInv, StoreInv
<1>. QED  BY <1>2, <1>3 DEF CronInv, CronShipped

LEMMA CronNext == ASSUME CronShipped PROVE IInv /\ CronInv /\ [Next]_vars => CronInv'
<1>. SUFFICES ASSUME IInv, CronInv, [Next]_vars PROVE CronInv'
  OBVIOUS
<1>1. IInv'
  BY NextIInv
<1>2. ASSUME NEW t \in Thread, UNCHANGED <<jobs, errors>>, \E x : Become(t, x) /\ x.pc \notin Ending PROVE CronInv'
  BY <1>1, <1>2, CronStep
<1>3. ASSUME NEW t \in Thread, Begin(t) PROVE CronInv'
  <2>1. CASE SubmitJob(t)
    <3>1. "deps" \notin Ending
      BY DEF Ending
    <3>. QED  BY <1>2, <2>1, <3>1, SubmitMoves, Zenon
  <2>. QED  BY <1>1, <1>3, <2>1, BeginMoves, CronMove, Zenon DEF Begin
<1>4. ASSUME NEW t \in Thread, Continue(t) PROVE CronInv'
  <2>1. CASE depsSatisfied(t) \/ tryPromote(t)
    BY <1>2, <2>1, DepsMoves, PromoteMoves, Zenon
  <2>2. \/ placeIndex(t) \/ armEnqueue(t) \/ enqueueJob(t) \/ Push(t) \/ promoteUnindex(t)
        \/ Pop(t) \/ PollLoad(t) \/ addLease(t) \/ ReportLoad(t) \/ ReportUnindex(t)
        \/ promoteDependents(t) \/ ReportDrop(t) \/ FailUnindex(t) \/ CancelDequeue(t) \/ cancelCascade(t)
        \/ CascadeDequeue(t) \/ CascadeVisit(t) \/ CascadeUnindex(t) \/ RequeueRelease(t) \/ ClearQueue(t)
        \/ ClearLeases(t)
        \/ ClearIndex(t) \/ RebuildList(t) \/ rebuildSchedulingState(t)
        => UNCHANGED <<jobs, errors>> /\ Moves(t)
    BY QuietMoves
  <2>3. UNCHANGED <<jobs, errors>> /\ Moves(t) => CronInv'
    BY <1>1, CronMove
  <2>. QED  BY <1>1, <1>4, <2>1, <2>2, <2>3, CronPuts, Zenon DEF Continue
<1>. QED  BY <1>3, <1>4, CronNode, CronEntry, Zenon DEF Next

\* ReportTask, handleFailure and maybeRescheduleCron: in every interleaving, with crashes
\* and changes of leadership, a cron job ends only by being canceled, until a write fails,
\* provided the same holds of the records that other leaders ship.
THEOREM CronSafety == ASSUME CronShipped PROVE Spec => []CronKeepsRunning
<1>1. Init => CronInv
  <2>. SUFFICES ASSUME Init PROVE CronInv
    OBVIOUS
  <2>1. \A j \in Job : jobs[j].state = "ABSENT"
    BY AbsentCounted DEF Init
  <2>2. \A t \in Thread : th[t].pc \notin Ending
    BY Zenon DEF Init, Idle, Ending
  <2>. QED  BY <2>1, <2>2 DEF CronInv
<1>2. IInv /\ CronInv => CronKeepsRunning
  BY DEF CronInv, CronKeepsRunning, terminal
<1>. QED  BY <1>1, <1>2, CronNext, InitIInv, NextIInv, PTL DEF Spec
=============================================================================
