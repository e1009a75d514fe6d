------------------------------ MODULE Dispatch ------------------------------
(***************************************************************************)
(* The leader's scheduling state and the handlers that work on it:         *)
(* internal/scheduler/{job,dispatch,deps,recovery,server}.go on one node.  *)
(*                                                                         *)
(* Handlers (RPCs, the reaper, timers, leadership callbacks) are goroutines *)
(* without a common lock.  A goroutine is a member of Thread; th[t] is its *)
(* program counter and locals.  Each step makes one access to one shared   *)
(* structure: a BoltDB transaction, the queue, the lease and timer maps    *)
(* under dispatchMu, or the reverse index under depMu.  With one thread    *)
(* the handlers are serialised; with two they interleave.                  *)
(*                                                                         *)
(* The ready queue is a set (its order is a matter of package queue);      *)
(* deadlines and delays are not measured: any lease may expire and any     *)
(* timer may fire.  A PollTask of n tasks is n polls of one task, and a    *)
(* sweep of the reaper is a sequence of requeueLease calls.                *)
(***************************************************************************)
EXTENDS Integers, Sequences, FiniteSets

CONSTANTS
    Job,              \* job ids
    Thread,           \* goroutines that may be active at the same time
    Nil,              \* no job
    Request,          \* the SubmitJob requests, records [job, deps, max, kind]
    MaxSubmits,       \* bound: submissions of one job id
    MaxTasks,         \* bound: PollTask hands out no task beyond this number
    MaxErrors,        \* bound: failing store writes
    MaxCrashes,       \* bound: crashes of the node
    MaxStepDowns,     \* bound: losses of leadership
    Canceling,        \* whether clients cancel jobs
    Replicated        \* the entries another leader may ship, records [job, rec, done]

\* MaxAttempts allows every job at least one attempt.
ASSUME RequestAssumption ==
    Request \subseteq [job : Job, deps : Seq(Job), max : Nat \ {0}, kind : {"once", "at", "cron"}]

VARIABLES
    jobs,             \* the jobs bucket: job id -> record
    deadLetter,       \* the dead_letter bucket: a set of job ids
    queue,            \* Server.queue: a set of job ids
    timers,           \* Server.retryTimers: the ids with a pending timer
    leases,           \* Server.leases: records [task, job, attempt]
    revIndex,         \* Server.revIndex: job id -> ids that wait for it
    leader,           \* Node.IsLeader
    callbacks,        \* onBecomeLeader / onStepDown goroutines not yet running
    th,               \* the goroutines
    nextTask,         \* the next task id
    results,          \* what workers report: pairs <<task, result>>
    submits, errors, crashes, stepDowns,   \* counters of the bounds
    succeeded         \* history: the jobs that were SUCCEEDED at some time

store == <<jobs, deadLetter, succeeded>>
memory == <<queue, timers, leases, revIndex>>
node == <<leader, callbacks, crashes, stepDowns>>
rest == <<node, nextTask, results, submits, errors>>
vars == <<store, memory, rest, th>>

JobState == {"ABSENT", "PENDING", "QUEUED", "RUNNING", "SUCCEEDED", "FAILED", "CANCELED"}

\* A stored job.  sched stands for a non-nil ScheduledAt; kind tells a plain
\* job from one with a run_at or a cron_expr.
Record == [state : JobState, attempt : Nat, deps : Seq(Job), max : Nat,
           kind : {"once", "at", "cron"}, sched : BOOLEAN]

Absent == [state |-> "ABSENT", attempt |-> 0, deps |-> <<>>, max |-> 1,
           kind |-> "once", sched |-> FALSE]

\* An idle goroutine.  job and rec: the job it works on and the copy it read;
\* flag: inside tryPromote, or inside onBecomeLeader; k: position in depsSatisfied;
\* task: the lease to drop at the end; work, seen: the locals of cancelCascade;
\* todo: jobs to promote; list: what is left of rebuildSchedulingState's list;
\* reaper: whether this is the reaper's goroutine.
Idle == [pc |-> "idle", job |-> Nil, rec |-> Absent, flag |-> FALSE, k |-> 1, task |-> 0,
         work |-> {}, seen |-> {}, todo |-> {}, list |-> {}, reaper |-> FALSE]

SeqSet(s) == {s[i] : i \in DOMAIN s}

\* An entry carries the record of a job as a leader stored it; done are the jobs that
\* had SUCCEEDED by then.  That leader runs this same code, so its records obey the
\* retry policies and the dependencies.
ASSUME ReplicatedAssumption ==
    \A e \in Replicated :
        /\ e.job \in Job /\ e.rec \in Record /\ e.done \subseteq Job
        /\ e.rec.max >= 1 /\ e.rec.attempt <= e.rec.max
        /\ e.rec.state \in {"PENDING", "QUEUED"} => e.rec.attempt < e.rec.max
        /\ e.rec.state \in {"QUEUED", "RUNNING", "SUCCEEDED", "FAILED"} => SeqSet(e.rec.deps) \subseteq e.done
        /\ e.rec.state = "SUCCEEDED" => e.job \in e.done

terminal(s) == s \in {"SUCCEEDED", "FAILED", "CANCELED"}

\* Steps of goroutine t.
At(t, pc) == th[t].pc = pc

Become(t, r) == th' = [th EXCEPT ![t] = r]

Goto(t, pc) == Become(t, [th[t] EXCEPT !.pc = pc])

\* The same, when the copy of the job is of no further use.
Forget(t, pc) == Become(t, [th[t] EXCEPT !.pc = pc, !.rec = Absent])

\* Where a goroutine with locals r goes on: the innermost unfinished loop.
Resume(r) ==
    LET s == [r EXCEPT !.job = Nil, !.rec = Absent, !.flag = FALSE, !.k = 1] IN
    IF s.work # {} THEN [s EXCEPT !.pc = "cascade"]
    ELSE IF s.list # {} THEN [s EXCEPT !.pc = "rebuild", !.seen = {}]
    ELSE IF s.todo # {} THEN [s EXCEPT !.pc = "promote", !.seen = {}]
    ELSE IF s.task # 0 THEN [s EXCEPT !.pc = "drop", !.seen = {}]
    ELSE Idle

Init ==
    /\ jobs = [j \in Job |-> Absent]
    /\ deadLetter = {} /\ queue = {} /\ timers = {} /\ leases = {}
    /\ revIndex = [j \in Job |-> {}]
    /\ leader = TRUE /\ callbacks = {}
    /\ th = [t \in Thread |-> Idle]
    /\ nextTask = 1 /\ results = {}
    /\ submits = [j \in Job |-> 0] /\ errors = 0 /\ crashes = 0 /\ stepDowns = 0
    /\ succeeded = {}

-----------------------------------------------------------------------------
(* The store and the reverse index.                                        *)

\* putJob on the leader's store (its replication is another component).
putJob(j, rec) ==
    /\ jobs' = [jobs EXCEPT ![j] = rec]
    /\ succeeded' = IF rec.state = "SUCCEEDED" THEN succeeded \cup {j} ELSE succeeded
    /\ UNCHANGED errors

\* A write that returns an error.
PutFails ==
    /\ errors < MaxErrors
    /\ errors' = errors + 1
    /\ UNCHANGED <<jobs, succeeded>>

\* A write whose error is only logged.
PutLogged(j, rec) == putJob(j, rec) \/ PutFails

addDeps(j, deps) ==
    revIndex' = [d \in Job |-> revIndex[d] \cup (IF d \in SeqSet(deps) THEN {j} ELSE {})]

removeFromIndex(j) == revIndex' = [d \in Job |-> revIndex[d] \ {j}]

\* The jobs that j depends on, directly or not, in dependency graph G.
Upstream(G, j) ==
    {k \in Job : \A S \in SUBSET Job :
        (G[j] \subseteq S /\ \A x \in S : G[x] \subseteq S) => k \in S}

\* Mutant: only the dependencies' own dependencies are looked at.
wouldCreateCycle_Shallow(j, deps) ==
    j \in SeqSet(deps) \/ \E d \in SeqSet(deps) : j \in SeqSet(jobs[d].deps)

\* The depth-first search of wouldCreateCycle finds every cycle that can be
\* reached from the new job.
wouldCreateCycle(j, deps) ==
    LET G == [i \in Job |-> IF i = j THEN SeqSet(deps) ELSE SeqSet(jobs[i].deps)] IN
    deps # <<>> /\ \E k \in {j} \cup Upstream(G, j) : k \in Upstream(G, k)

-----------------------------------------------------------------------------
(* SubmitJob, placeNewJob and tryPromote.                                  *)

\* An RPC starts: a free goroutine, and requireLeader passes.
Accept(t) == At(t, "idle") /\ leader

SubmitJob(t) ==
    /\ Accept(t)
    /\ \E q \in Request :
        /\ submits[q.job] < MaxSubmits
        /\ ~wouldCreateCycle(q.job, q.deps)
        /\ Become(t, [Idle EXCEPT !.pc = "deps", !.job = q.job,
                                  !.rec = [Absent EXCEPT !.deps = q.deps, !.max = q.max, !.kind = q.kind]])
        /\ submits' = [submits EXCEPT ![q.job] = @ + 1]
    /\ UNCHANGED <<store, memory, node, nextTask, results, errors>>

\* Steps that only move the goroutine, and steps that only write the jobs bucket.
Local == UNCHANGED <<store, memory, rest>>
Storing == UNCHANGED <<deadLetter, memory, node, nextTask, results, submits>>

\* Mutant: a dependency that is over counts as met.
DepMet_Over(d) == terminal(jobs[d].state)

DepMet(d) == jobs[d].state = "SUCCEEDED"

\* depsSatisfied reads the dependencies one after the other and returns at the
\* first that has not SUCCEEDED; then placeNewJob and tryPromote branch on it.
depsSatisfied(t) ==
    /\ At(t, "deps")
    /\ LET r == th[t]
           d == r.rec.deps[r.k] IN
       Become(t, IF r.k > Len(r.rec.deps) THEN [r EXCEPT !.pc = "ready", !.k = 1]
                 ELSE IF DepMet(d) THEN [r EXCEPT !.k = @ + 1]
                 ELSE IF terminal(jobs[d].state)
                      THEN IF r.flag THEN Resume([r EXCEPT !.work = {r.job}])
                                     ELSE [r EXCEPT !.pc = "placeCanceled", !.k = 1]
                 ELSE IF r.flag THEN Resume(r)
                                ELSE [r EXCEPT !.pc = "placePending", !.k = 1])
    /\ Local

placeCanceled(t) ==
    /\ At(t, "placeCanceled")
    /\ PutLogged(th[t].job, [th[t].rec EXCEPT !.state = "CANCELED"])
    /\ Become(t, Resume(th[t]))
    /\ Storing

placePending(t) ==
    /\ At(t, "placePending")
    /\ PutLogged(th[t].job, [th[t].rec EXCEPT !.state = "PENDING"])
    /\ Goto(t, "index")
    /\ Storing

placeIndex(t) ==
    /\ At(t, "index")
    /\ addDeps(th[t].job, th[t].rec.deps)
    /\ Become(t, Resume(th[t]))
    /\ UNCHANGED <<store, queue, timers, leases, rest>>

\* What follows makeReady and armEnqueue: tryPromote still has to drop the job
\* from the index, whether or not makeReady could persist.
Armed(t) == Become(t, IF th[t].flag THEN [th[t] EXCEPT !.pc = "unindex"] ELSE Resume(th[t]))

\* makeReady up to its armEnqueue: a run_at job may be due already, a cron job
\* always gets a time, which may have come when time.Until is called.
makeReady(t) ==
    /\ At(t, "ready")
    /\ \/ \E sched \in CASE th[t].rec.kind = "once" -> {th[t].rec.sched}
                         [] th[t].rec.kind = "at" -> {th[t].rec.sched, TRUE}
                         [] OTHER -> {TRUE} :
           /\ putJob(th[t].job, [th[t].rec EXCEPT !.state = "QUEUED", !.sched = sched])
           /\ \E pc \in {"enqueue"} \cup (IF sched THEN {"arm"} ELSE {}) : Forget(t, pc)
       \/ PutFails /\ Armed(t)
    /\ Storing

\* Mutant: no timer is started.
armEnqueue_Nothing(t) == At(t, "arm") /\ Armed(t) /\ Local

\* armEnqueue with a positive delay.
armEnqueue(t) ==
    /\ At(t, "arm")
    /\ timers' = timers \cup {th[t].job}
    /\ Armed(t)
    /\ UNCHANGED <<store, queue, leases, revIndex, rest>>

\* A timer's callback removes its entry and calls enqueueJob.
TimerFires(t) ==
    /\ At(t, "idle")
    /\ \E j \in timers :
        /\ timers' = timers \ {j}
        /\ Become(t, [Idle EXCEPT !.pc = "enqueue", !.job = j])
    /\ UNCHANGED <<store, queue, leases, revIndex, rest>>

enqueueJob(t) ==
    /\ At(t, "enqueue")
    /\ IF leader /\ jobs[th[t].job].state = "QUEUED" THEN Forget(t, "push") ELSE Armed(t)
    /\ Local

\* queue.Push: of enqueueJob, of PollTask's error path and of the rebuild.
Push(t) ==
    /\ At(t, "push")
    /\ queue' = queue \cup {th[t].job}
    /\ Armed(t)
    /\ UNCHANGED <<store, timers, leases, revIndex, rest>>

promoteUnindex(t) ==
    /\ At(t, "unindex")
    /\ removeFromIndex(th[t].job)
    /\ Become(t, Resume([th[t] EXCEPT !.flag = FALSE]))
    /\ UNCHANGED <<store, queue, timers, leases, rest>>

\* tryPromote loads the next job of the loop.
tryPromote(t) ==
    /\ At(t, "promote")
    /\ \E j \in th[t].todo :
        LET r == [th[t] EXCEPT !.todo = @ \ {j}] IN
        Become(t, IF jobs[j].state = "PENDING"
                  THEN [r EXCEPT !.pc = "deps", !.job = j, !.rec = jobs[j], !.flag = TRUE, !.k = 1]
                  ELSE Resume(r))
    /\ Local

-----------------------------------------------------------------------------
(* PollTask.                                                               *)

PollTask(t) == Accept(t) /\ nextTask <= MaxTasks /\ Goto(t, "pop") /\ Local

Pop(t) ==
    /\ At(t, "pop")
    /\ \/ queue = {} /\ Become(t, Idle) /\ UNCHANGED queue
       \/ \E j \in queue :
            /\ queue' = queue \ {j}
            /\ Become(t, [Idle EXCEPT !.pc = "polled", !.job = j])
    /\ UNCHANGED <<store, timers, leases, revIndex, rest>>

\* A stale queue entry is dropped and the loop goes on.
PollLoad(t) ==
    /\ At(t, "polled")
    /\ LET rec == jobs[th[t].job] IN
       Become(t, IF rec.state = "QUEUED" THEN [th[t] EXCEPT !.pc = "dispatch", !.rec = rec]
                                         ELSE [Idle EXCEPT !.pc = "pop"])
    /\ Local

PollPut(t) ==
    /\ At(t, "dispatch")
    /\ LET rec == [th[t].rec EXCEPT !.state = "RUNNING", !.attempt = @ + 1, !.sched = FALSE] IN
       \/ putJob(th[t].job, rec) /\ Become(t, [th[t] EXCEPT !.pc = "lease", !.rec = rec])
       \/ PutFails /\ Forget(t, "push")
    /\ Storing

addLease(t) ==
    /\ At(t, "lease")
    /\ leases' = leases \cup {[task |-> nextTask, job |-> th[t].job, attempt |-> th[t].rec.attempt]}
    /\ nextTask' = nextTask + 1
    /\ Become(t, Idle)
    /\ UNCHANGED <<store, queue, timers, revIndex, node, results, submits, errors>>

-----------------------------------------------------------------------------
(* ReportTask, handleFailure, maybeRescheduleCron.                         *)

\* A worker reports a task; it repeats the same result when it reports again.
\* A report for an unknown task is acked and changes nothing.
ReportTask(t) ==
    /\ Accept(t)
    /\ \E l \in leases, res \in {"ok", "fail"} :
        /\ \A p \in results : p[1] = l.task => p[2] = res
        /\ results' = results \cup {<<l.task, res>>}
        /\ Become(t, [Idle EXCEPT !.pc = res, !.job = l.job, !.task = l.task])
    /\ UNCHANGED <<store, memory, node, nextTask, submits, errors>>

\* Mutant: the job's state is not checked.
LoadRunning_Always(t, pc, next) ==
    /\ At(t, pc)
    /\ Become(t, [th[t] EXCEPT !.pc = next, !.rec = jobs[th[t].job]])
    /\ Local

\* The job is loaded; a report (or a reaped lease) of a job that is not RUNNING
\* only drops the lease.
LoadRunning(t, pc, next) ==
    /\ At(t, pc)
    /\ LET rec == jobs[th[t].job] IN
       Become(t, IF rec.state = "RUNNING" THEN [th[t] EXCEPT !.pc = next, !.rec = rec] ELSE Resume(th[t]))
    /\ Local

removeLease(t, pc, next) ==
    /\ At(t, pc)
    /\ leases' = {l \in leases : l.task # th[t].task}
    /\ Become(t, [next EXCEPT !.task = 0])
    /\ UNCHANGED <<store, queue, timers, revIndex, rest>>

ReportLoad(t) ==
    \/ LoadRunning(t, "ok", "release")
    \/ LoadRunning(t, "fail", "failure")

\* Mutant: a cron job succeeds like any other.
ReportRelease_NoCron(t) == removeLease(t, "release", [th[t] EXCEPT !.pc = "succeed"])

\* The success case drops the lease first.
ReportRelease(t) ==
    removeLease(t, "release", [th[t] EXCEPT !.pc = IF th[t].rec.kind = "cron" THEN "cronOk" ELSE "succeed"])

ReportSuccess(t) ==
    /\ At(t, "succeed")
    /\ \/ putJob(th[t].job, [th[t].rec EXCEPT !.state = "SUCCEEDED"]) /\ Forget(t, "succeeded")
       \/ PutFails /\ Become(t, Idle)
    /\ Storing

ReportUnindex(t) ==
    /\ At(t, "succeeded")
    /\ removeFromIndex(th[t].job)
    /\ Goto(t, "dependents")
    /\ UNCHANGED <<store, queue, timers, leases, rest>>

\* Mutant: nobody is promoted.
promoteDependents_None(t) == At(t, "dependents") /\ Become(t, Idle) /\ Local

promoteDependents(t) ==
    /\ At(t, "dependents")
    /\ Become(t, Resume([th[t] EXCEPT !.todo = revIndex[th[t].job]]))
    /\ Local

ReportDrop(t) == removeLease(t, "drop", Idle)

\* An error of handleFailure: the report keeps its lease, the rebuild goes on.
GiveUp(t) == PutFails /\ Become(t, Resume([th[t] EXCEPT !.task = 0]))

\* Mutant: one try too many.
handleFailure_OneMore(t) ==
    /\ At(t, "failure")
    /\ LET rec == th[t].rec IN
       \/ /\ rec.attempt <= rec.max
          /\ \/ /\ putJob(th[t].job, [rec EXCEPT !.state = "QUEUED", !.sched = TRUE])
                /\ \E next \in {"arm", "enqueue"} : Forget(t, next)
             \/ GiveUp(t)
       \/ /\ rec.attempt > rec.max
          /\ Goto(t, IF rec.kind = "cron" THEN "cronFail" ELSE "bury")
          /\ UNCHANGED <<jobs, succeeded, errors>>
    /\ Storing

handleFailure(t) ==
    /\ At(t, "failure")
    /\ LET rec == th[t].rec IN
       \/ /\ rec.attempt < rec.max
          /\ \/ /\ putJob(th[t].job, [rec EXCEPT !.state = "QUEUED", !.sched = TRUE])
                /\ \E next \in {"arm", "enqueue"} : Forget(t, next)
             \/ GiveUp(t)
       \/ /\ rec.attempt >= rec.max
          /\ Goto(t, IF rec.kind = "cron" THEN "cronFail" ELSE "bury")
          /\ UNCHANGED <<jobs, succeeded, errors>>
    /\ Storing

\* When the write fails the caller goes on with the job it has already reset.
maybeRescheduleCron(t) ==
    \E pc \in {"cronOk", "cronFail"} :
        /\ At(t, pc)
        /\ LET rec == [th[t].rec EXCEPT !.state = "QUEUED", !.attempt = 0, !.sched = TRUE] IN
           \/ putJob(th[t].job, rec) /\ \E next \in {"arm", "enqueue"} : Forget(t, next)
           \/ /\ PutFails
              /\ Become(t, [th[t] EXCEPT !.pc = IF pc = "cronOk" THEN "succeed" ELSE "bury", !.rec = rec])
        /\ Storing

\* Mutant: an error of the dead-letter write is ignored.
PutDeadLetter_Ignored(t) ==
    /\ At(t, "bury")
    /\ Goto(t, "fail terminally")
    /\ \/ deadLetter' = deadLetter \cup {th[t].job} /\ UNCHANGED <<jobs, succeeded, errors>>
       \/ PutFails /\ UNCHANGED deadLetter
    /\ UNCHANGED <<memory, node, nextTask, results, submits>>

PutDeadLetter(t) ==
    /\ At(t, "bury")
    /\ \/ /\ deadLetter' = deadLetter \cup {th[t].job}
          /\ Goto(t, "fail terminally")
          /\ UNCHANGED <<jobs, succeeded, errors>>
       \/ GiveUp(t) /\ UNCHANGED deadLetter
    /\ UNCHANGED <<memory, node, nextTask, results, submits>>

FailTerminally(t) ==
    /\ At(t, "fail terminally")
    /\ \/ putJob(th[t].job, [th[t].rec EXCEPT !.state = "FAILED"]) /\ Forget(t, "failed")
       \/ GiveUp(t)
    /\ Storing

FailUnindex(t) ==
    /\ At(t, "failed")
    /\ removeFromIndex(th[t].job)
    /\ Become(t, Resume([th[t] EXCEPT !.work = {th[t].job}]))
    /\ UNCHANGED <<store, queue, timers, leases, rest>>

-----------------------------------------------------------------------------
(* CancelJob, cancelCascade, requeueLease.                                 *)

CancelJob(t) ==
    /\ Canceling
    /\ Accept(t)
    /\ \E j \in Job :
        /\ jobs[j].state # "ABSENT" /\ ~terminal(jobs[j].state)
        /\ Become(t, [Idle EXCEPT !.pc = "cancel", !.job = j, !.rec = jobs[j]])
    /\ Local

CancelPut(t) ==
    /\ At(t, "cancel")
    /\ \/ putJob(th[t].job, [th[t].rec EXCEPT !.state = "CANCELED"]) /\ Forget(t, "canceled")
       \/ PutFails /\ Become(t, Idle)
    /\ Storing

CancelDequeue(t) ==
    /\ At(t, "canceled")
    /\ queue' = queue \ {th[t].job}
    /\ Become(t, Resume([th[t] EXCEPT !.work = {th[t].job}]))
    /\ UNCHANGED <<store, timers, leases, revIndex, rest>>

\* One turn of cancelCascade's loop: load, cancel, dequeue, visit the dependents.
cancelCascade(t) ==
    /\ At(t, "cascade")
    /\ \E j \in th[t].work :
        Become(t, IF jobs[j].state = "ABSENT" \/ terminal(jobs[j].state)
                  THEN [th[t] EXCEPT !.pc = "cascade visit", !.job = j]
                  ELSE [th[t] EXCEPT !.pc = "cascade cancel", !.job = j, !.rec = jobs[j]])
    /\ Local

CascadePut(t) ==
    /\ At(t, "cascade cancel")
    /\ PutLogged(th[t].job, [th[t].rec EXCEPT !.state = "CANCELED"])
    /\ Forget(t, "cascade dequeue")
    /\ Storing

CascadeDequeue(t) ==
    /\ At(t, "cascade dequeue")
    /\ queue' = queue \ {th[t].job}
    /\ Goto(t, "cascade visit")
    /\ UNCHANGED <<store, timers, leases, revIndex, rest>>

CascadeVisit(t) ==
    /\ At(t, "cascade visit")
    /\ LET seen == th[t].seen \cup {th[t].job} IN
       Become(t, [th[t] EXCEPT !.pc = "cascade unindex", !.seen = seen,
                               !.work = (@ \cup revIndex[th[t].job]) \ seen])
    /\ Local

CascadeUnindex(t) ==
    /\ At(t, "cascade unindex")
    /\ removeFromIndex(th[t].job)
    /\ Become(t, Resume(th[t]))
    /\ UNCHANGED <<store, queue, timers, leases, rest>>

\* The one reaper goroutine gets to a lease that expired or whose worker is dead.
\* It looks for leadership only before a sweep, which may outlast it.
requeueLease(t) ==
    /\ At(t, "idle")
    /\ \A u \in Thread : ~th[u].reaper
    /\ \E l \in leases :
        Become(t, [Idle EXCEPT !.pc = "reclaim", !.job = l.job, !.task = l.task, !.reaper = TRUE])
    /\ Local

RequeueRelease(t) == removeLease(t, "reclaim", [th[t] EXCEPT !.pc = "fail"])

-----------------------------------------------------------------------------
(* Leadership, crashes, rebuildSchedulingState, clearSchedulingState.      *)

\* The node wins an election and starts onBecomeLeader in a goroutine.
BecomeLeader ==
    /\ ~leader
    /\ leader' = TRUE
    /\ callbacks' = callbacks \cup {<<"lead", stepDowns>>}
    /\ UNCHANGED <<store, memory, th, nextTask, results, submits, errors, crashes, stepDowns>>

\* The node sees a newer term and starts onStepDown in a goroutine.
StepDown ==
    /\ leader /\ stepDowns < MaxStepDowns
    /\ leader' = FALSE
    /\ stepDowns' = stepDowns + 1
    /\ callbacks' = callbacks \cup {<<"down", stepDowns>>}
    /\ UNCHANGED <<store, memory, th, nextTask, results, submits, errors, crashes>>

\* A leader that came after this node ships a record, and applyEntries writes it to the
\* jobs bucket alone: no dead-letter entry comes with it, and no map of the scheduling
\* state is touched.  A call accepted as a follower may still be applied, or arrive
\* again, after the node has won an election.
applyEntry ==
    /\ crashes + stepDowns > 0
    /\ \E e \in Replicated :
        /\ jobs' = [jobs EXCEPT ![e.job] = e.rec]
        /\ succeeded' = succeeded \cup e.done
    /\ UNCHANGED <<deadLetter, memory, th, rest>>

\* The process dies and restarts: only the store survives.
Crash ==
    /\ crashes < MaxCrashes
    /\ crashes' = crashes + 1
    /\ leader' = FALSE /\ callbacks' = {}
    /\ queue' = {} /\ timers' = {} /\ leases' = {}
    /\ revIndex' = [j \in Job |-> {}]
    /\ th' = [t \in Thread |-> Idle]
    /\ UNCHANGED <<store, nextTask, results, submits, errors, stepDowns>>

\* Both callbacks begin with clearSchedulingState; onBecomeLeader rebuilds then.
Callback(t) ==
    /\ At(t, "idle")
    /\ \E c \in callbacks :
        /\ callbacks' = callbacks \ {c}
        /\ Become(t, [Idle EXCEPT !.pc = "clear queue", !.flag = (c[1] = "lead")])
    /\ UNCHANGED <<store, memory, leader, crashes, stepDowns, nextTask, results, submits, errors>>

ClearQueue(t) ==
    /\ At(t, "clear queue")
    /\ queue' = {}
    /\ Goto(t, "clear leases")
    /\ UNCHANGED <<store, timers, leases, revIndex, rest>>

ClearLeases(t) ==
    /\ At(t, "clear leases")
    /\ timers' = {} /\ leases' = {}
    /\ Goto(t, "clear index")
    /\ UNCHANGED <<store, queue, revIndex, rest>>

ClearIndex(t) ==
    /\ At(t, "clear index")
    /\ revIndex' = [j \in Job |-> {}]
    /\ Become(t, IF th[t].flag THEN [Idle EXCEPT !.pc = "list"] ELSE Idle)
    /\ UNCHANGED <<store, queue, timers, leases, rest>>

\* Mutant: PENDING jobs are not looked at again.
RebuildList_NoPending(t) ==
    /\ At(t, "list")
    /\ Become(t, Resume([th[t] EXCEPT !.list = {<<j, jobs[j]>> : j \in {i \in Job : jobs[i].state # "ABSENT"}}]))
    /\ Local

RebuildList(t) ==
    /\ At(t, "list")
    /\ LET all == {j \in Job : jobs[j].state # "ABSENT"} IN
       Become(t, Resume([th[t] EXCEPT !.list = {<<j, jobs[j]>> : j \in all},
                                      !.todo = {j \in all : jobs[j].state = "PENDING"}]))
    /\ Local

\* Mutant: RUNNING jobs are not reclaimed.
rebuildSchedulingState_Orphans(t) ==
    /\ At(t, "rebuild")
    /\ \E p \in th[t].list :
        LET r == [th[t] EXCEPT !.list = @ \ {p}, !.job = p[1]] IN
        /\ IF terminal(p[2].state) THEN UNCHANGED revIndex ELSE addDeps(p[1], p[2].deps)
        /\ Become(t, IF p[2].state = "QUEUED" THEN [r EXCEPT !.pc = "push"] ELSE Resume(r))
    /\ UNCHANGED <<store, queue, timers, leases, rest>>

\* One job of the list, as it was when the list was read.
rebuildSchedulingState(t) ==
    /\ At(t, "rebuild")
    /\ \E p \in th[t].list :
        LET r == [th[t] EXCEPT !.list = @ \ {p}, !.job = p[1], !.rec = p[2]] IN
        /\ IF terminal(p[2].state) THEN UNCHANGED revIndex ELSE addDeps(p[1], p[2].deps)
        /\ CASE p[2].state = "QUEUED" ->
                   \E pc \in {"push"} \cup (IF p[2].sched THEN {"arm"} ELSE {}) :
                       Become(t, [r EXCEPT !.pc = pc, !.rec = Absent])
             [] p[2].state = "RUNNING" -> Become(t, [r EXCEPT !.pc = "failure"])
             [] OTHER -> Become(t, Resume(r))
    /\ UNCHANGED <<store, queue, timers, leases, rest>>

-----------------------------------------------------------------------------
\* The steps of a goroutine that is running, and those that start one.
Continue(t) ==
    \/ depsSatisfied(t) \/ placeCanceled(t) \/ placePending(t) \/ placeIndex(t)
    \/ makeReady(t) \/ armEnqueue(t) \/ enqueueJob(t) \/ Push(t) \/ promoteUnindex(t) \/ tryPromote(t)
    \/ Pop(t) \/ PollLoad(t) \/ PollPut(t) \/ addLease(t)
    \/ ReportLoad(t) \/ ReportRelease(t) \/ ReportSuccess(t) \/ ReportUnindex(t)
    \/ promoteDependents(t) \/ ReportDrop(t)
    \/ handleFailure(t) \/ maybeRescheduleCron(t) \/ PutDeadLetter(t) \/ FailTerminally(t) \/ FailUnindex(t)
    \/ CancelPut(t) \/ CancelDequeue(t)
    \/ cancelCascade(t) \/ CascadePut(t) \/ CascadeDequeue(t) \/ CascadeVisit(t) \/ CascadeUnindex(t)
    \/ RequeueRelease(t)
    \/ ClearQueue(t) \/ ClearLeases(t) \/ ClearIndex(t) \/ RebuildList(t) \/ rebuildSchedulingState(t)

Begin(t) ==
    \/ SubmitJob(t) \/ PollTask(t) \/ ReportTask(t) \/ CancelJob(t) \/ requeueLease(t)
    \/ TimerFires(t) \/ Callback(t)

Next ==
    \/ \E t \in Thread : Begin(t) \/ Continue(t)
    \/ BecomeLeader \/ StepDown \/ applyEntry \/ Crash

Spec == Init /\ [][Next]_vars

\* The Go scheduler runs every goroutine, timers fire, elections succeed, workers
\* keep polling, and a lease is reported or expires.
FairSpec ==
    /\ Spec
    /\ WF_vars(BecomeLeader)
    /\ \A t \in Thread :
        /\ WF_vars(Continue(t))
        /\ SF_vars(Callback(t))
        /\ SF_vars(TimerFires(t))
        /\ SF_vars(PollTask(t))
        /\ SF_vars(ReportTask(t) \/ requeueLease(t))

-----------------------------------------------------------------------------
(* Properties.                                                             *)

\* Where a goroutine is between two jobs, and where it works on one.
Between == {"idle", "promote", "pop", "drop", "cascade", "clear queue", "clear leases", "clear index",
            "list", "rebuild"}
Working == {"deps", "placeCanceled", "placePending", "index", "ready", "arm", "enqueue", "push",
            "unindex", "polled", "dispatch", "lease", "ok", "fail", "release", "succeed", "succeeded",
            "dependents", "failure", "cronOk", "cronFail", "bury", "fail terminally", "failed",
            "cancel", "canceled", "cascade cancel", "cascade dequeue", "cascade visit", "cascade unindex",
            "reclaim"}

\* Places in a sequence.
Position == Nat \ {0}

Locals == [pc : Between \cup Working, job : Job \cup {Nil}, rec : Record, flag : BOOLEAN, k : Position, task : Nat,
           work : SUBSET Job, seen : SUBSET Job, todo : SUBSET Job, list : SUBSET (Job \X Record),
           reaper : BOOLEAN]

\* The shape of the store, of the leader's maps and of a goroutine's locals.
TypeOK ==
    /\ jobs \in [Job -> Record]
    /\ deadLetter \subseteq Job /\ succeeded \subseteq Job
    /\ queue \subseteq Job /\ timers \subseteq Job
    /\ leases \subseteq [task : Nat, job : Job, attempt : Nat]
    /\ revIndex \in [Job -> SUBSET Job]
    /\ leader \in BOOLEAN
    /\ callbacks \subseteq ({"lead", "down"} \X Nat)
    /\ th \in [Thread -> Locals]
    /\ nextTask \in Nat /\ results \subseteq (Nat \X {"ok", "fail"})
    /\ submits \in [Job -> Nat] /\ errors \in Nat /\ crashes \in Nat /\ stepDowns \in Nat

\* handleFailure and PollTask: whatever the interleaving, no job runs more often
\* than its retry policy allows, and a job that is to run again has a try left.
AttemptsWithinPolicy ==
    \A j \in Job :
        /\ jobs[j].attempt <= jobs[j].max
        /\ jobs[j].state \in {"PENDING", "QUEUED"} => jobs[j].attempt < jobs[j].max

\* handleFailure: "an observer that sees the job FAILED is guaranteed to also see
\* it in the dead-letter queue": whatever this node does, through crashes and failing
\* writes, it makes no job FAILED that is not in its dead-letter bucket, where it stays.
\* Only a job that another leader made FAILED comes without an entry.
FailedIsDeadLettered ==
    [][/\ deadLetter \subseteq deadLetter'
       /\ \A j \in Job : jobs'[j].state = "FAILED" /\ jobs'[j] # jobs[j]
                           => j \in deadLetter' \/ applyEntry]_vars

\* placeNewJob and tryPromote: a job is queued, run or finished by running only
\* after each of its dependencies has SUCCEEDED.
RunsAfterDependencies ==
    \A j \in Job : jobs[j].state \in {"QUEUED", "RUNNING", "SUCCEEDED", "FAILED"}
                    => SeqSet(jobs[j].deps) \subseteq succeeded

\* Nothing is in progress on the leader.
Settled == leader /\ callbacks = {} /\ \A t \in Thread : At(t, "idle")

\* A QUEUED job is in the ready queue or has a timer that will put it there.
QueuedIsScheduled ==
    Settled => \A j \in Job : jobs[j].state = "QUEUED" => j \in queue \cup timers

\* A RUNNING job has exactly one lease, for its current attempt.
RunningIsLeased ==
    Settled => \A j \in Job : jobs[j].state = "RUNNING" =>
        \E l \in leases : l.attempt = jobs[j].attempt /\ {m \in leases : m.job = j} = {l}

\* A PENDING job waits, in the reverse index, for a dependency not yet SUCCEEDED.
PendingIsWaiting ==
    Settled => \A j \in Job : jobs[j].state = "PENDING" =>
        \E d \in SeqSet(jobs[j].deps) : jobs[d].state # "SUCCEEDED" /\ j \in revIndex[d]

\* "terminal reports whether a job state is final" (deps.go): a terminal job stays
\* as it is.
TerminalIsFinal == [][\A j \in Job : terminal(jobs[j].state) => jobs'[j] = jobs[j]]_vars

\* handleFailure and ReportTask: a cron job "re-arms for its next occurrence ... so a
\* single bad run does not stop the schedule"; unless a write fails, only a cancel
\* ends it.
CronKeepsRunning ==
    errors = 0 => \A j \in Job :
        jobs[j].kind = "cron" /\ terminal(jobs[j].state) => jobs[j].state = "CANCELED"

\* wouldCreateCycle: "The existing job graph is acyclic by this same check", when
\* submissions are serialised, in whatever order the jobs arrive.
JobGraphIsAcyclic ==
    LET G == [j \in Job |-> SeqSet(jobs[j].deps)] IN \A j \in Job : j \notin Upstream(G, j)

\* placeNewJob and cancelCascade: no job is left waiting for one that ended without
\* success, "since they can never run".
NoDoomedPending ==
    Settled => \A j \in Job : jobs[j].state = "PENDING" =>
        \A d \in SeqSet(jobs[j].deps) : jobs[d].state \notin {"FAILED", "CANCELED"}

\* Once all jobs are submitted they all reach a terminal state: retries, timers, the
\* reaper, promotion and the rebuild after a crash leave none of them behind, except
\* the doomed ones of NoDoomedPending and what waits for those.
JobsFinish ==
    LET G == [j \in Job |-> SeqSet(jobs[j].deps)]
        Doomed(j) == \E d \in Upstream(G, j) : jobs[d].state \in {"FAILED", "CANCELED"}
    IN (\A j \in Job : jobs[j].state # "ABSENT")
           ~> (\A j \in Job : terminal(jobs[j].state) \/ Doomed(j))
=============================================================================
