------------------------------ MODULE Registry ------------------------------
(***************************************************************************)
(* The worker registry of a scheduler and its reaper,                      *)
(* internal/scheduler/{worker,recovery}.go with putWorker and recover of   *)
(* server.go and the worker part of applyEntries: registrations and        *)
(* heartbeats race with the reaper's verdicts, which are taken under a     *)
(* lock and written without it, first to the bucket, then to the cache.    *)
(*                                                                         *)
(* Time passes in ticks.  Instead of the time of the last heartbeat, a     *)
(* record has its age, which stops counting when the worker is overdue;    *)
(* so has a lease.                                                         *)
(***************************************************************************)
EXTENDS Naturals, FiniteSets

CONSTANTS
    Worker,              \* worker ids
    Handler,             \* goroutines of RPC handlers
    Task,                \* task ids
    Timeout,             \* HeartbeatTimeout, in ticks
    TTL,                 \* LeaseTTL, in ticks
    MaxFaults            \* bound: failing writes, restarts and losses of leadership

ASSUME TimeoutAssumption ==
    Timeout \in Nat \ {0} /\ TTL \in Nat \ {0} /\ MaxFaults \in Nat

VARIABLES
    leader,              \* Node.IsLeader
    bucket,              \* the workers bucket
    workers,             \* Server.workers, the cache
    handlers,            \* handlers in progress
    reaper,              \* reaperLoop
    leases,              \* Server.leases
    faults               \* faults so far

vars == <<leader, bucket, workers, handlers, reaper, leases, faults>>

\* One of the two counts as overdue.
Overdue == Timeout + 1
Expired == TTL + 1

State == {"ALIVE", "SUSPECT", "DEAD"}

\* A WorkerInfo, or its absence.
WorkerInfo == [state : State, age : 0 .. Overdue]
Unknown == [state |-> "UNKNOWN", age |-> 0]

\* A handler that stores a record of a worker, or leases a task to it.
Idle == [pc |-> "idle"]
Putting == [pc : {"put", "cache"}, worker : Worker, info : WorkerInfo]
Polling == [pc : {"poll"}, worker : Worker]

\* A lease.  late: its deadline had passed when the sweep began; doomed: its worker
\* has been declared dead since.
Lease == [worker : Worker, age : 0 .. Expired, late : BOOLEAN, doomed : BOOLEAN]
Free == [age |-> 0]

\* The reaper: verdicts to persist and the one being persisted, workers that died,
\* leases to take back.
Verdicts == [worker : Worker, info : WorkerInfo]
Nobody == [worker |-> "none"]
Sweep ==
    [pc : {"idle", "put", "cache", "dead", "take", "expired"}, todo : SUBSET Verdicts,
     cur : Verdicts \cup {Nobody}, dead : SUBSET Worker, tasks : SUBSET Task, last : BOOLEAN]
NoSweep ==
    [pc |-> "idle", todo |-> {}, cur |-> Nobody, dead |-> {}, tasks |-> {}, last |-> FALSE]

Init ==
    /\ leader = TRUE
    /\ bucket = [w \in Worker |-> Unknown] /\ workers = bucket
    /\ handlers = [h \in Handler |-> Idle]
    /\ reaper = NoSweep
    /\ leases = [t \in Task |-> Free]
    /\ faults = 0

TypeOK ==
    /\ leader \in BOOLEAN
    /\ bucket \in [Worker -> WorkerInfo \cup {Unknown}]
    /\ workers \in [Worker -> WorkerInfo \cup {Unknown}]
    /\ handlers \in [Handler -> {Idle} \cup Putting \cup Polling]
    /\ reaper \in Sweep
    /\ leases \in [Task -> {Free} \cup Lease]
    /\ faults \in 0 .. MaxFaults

-----------------------------------------------------------------------------
(* RPC handlers.                                                           *)

Alive == [state |-> "ALIVE", age |-> 0]

\* Mutant: only the running tasks are updated.
Refreshed_Nothing(info) == info

\* A heartbeat's copy of the cached record.
Refreshed(info) == [info EXCEPT !.state = "ALIVE", !.age = 0]

Begin(h, locals) ==
    /\ handlers[h] = Idle
    /\ handlers' = [handlers EXCEPT ![h] = locals]
    /\ UNCHANGED <<leader, bucket, workers, reaper, leases, faults>>

RegisterWorker(h, w) ==
    /\ leader
    /\ Begin(h, [pc |-> "put", worker |-> w, info |-> Alive])

\* An unknown worker is told to register.
Heartbeat(h, w) ==
    /\ leader /\ workers[w] # Unknown
    /\ Begin(h, [pc |-> "put", worker |-> w, info |-> Refreshed(workers[w])])

\* PollTask: a known worker may get a lease.
PollTask(h, w) ==
    /\ leader /\ workers[w] # Unknown
    /\ Begin(h, [pc |-> "poll", worker |-> w])

addLease(h, t) ==
    /\ handlers[h].pc = "poll" /\ leases[t] = Free
    /\ leases' = [leases EXCEPT ![t] =
           [worker |-> handlers[h].worker, age |-> 0, late |-> FALSE, doomed |-> FALSE]]
    /\ handlers' = [handlers EXCEPT ![h] = Idle]
    /\ UNCHANGED <<leader, bucket, workers, reaper, faults>>

\* The queue is empty.
NoTask(h) ==
    /\ handlers[h].pc = "poll"
    /\ handlers' = [handlers EXCEPT ![h] = Idle]
    /\ UNCHANGED <<leader, bucket, workers, reaper, leases, faults>>

\* A report removes a lease.
removeLease(t) ==
    /\ leader /\ leases[t] # Free
    /\ leases' = [leases EXCEPT ![t] = Free]
    /\ UNCHANGED <<leader, bucket, workers, handlers, reaper, faults>>

\* What a record says of its age: SUSPECT at half the timeout, DEAD past it.
Verdict(age) ==
    IF age > Timeout THEN "DEAD" ELSE IF age > Timeout \div 2 THEN "SUSPECT" ELSE "ALIVE"

\* applyEntries on a follower: a record as the leader makes it, which ages on its way.
Replicate(h, w, age) ==
    /\ ~leader
    /\ Begin(h, [pc |-> "put", worker |-> w, info |-> [state |-> Verdict(age), age |-> age]])

\* putWorker, or applyEntries: first the bucket (a failing write ends the handler), ...
PutWorker(h) ==
    /\ handlers[h].pc = "put"
    /\ \/ /\ bucket' = [bucket EXCEPT ![handlers[h].worker] = handlers[h].info]
          /\ handlers' = [handlers EXCEPT ![h].pc = "cache"]
          /\ UNCHANGED faults
       \/ /\ faults < MaxFaults
          /\ faults' = faults + 1
          /\ handlers' = [handlers EXCEPT ![h] = Idle]
          /\ UNCHANGED bucket
    /\ UNCHANGED <<leader, workers, reaper, leases>>

\* ... then the cache.
CacheWorker(h) ==
    /\ handlers[h].pc = "cache"
    /\ workers' = [workers EXCEPT ![handlers[h].worker] = handlers[h].info]
    /\ handlers' = [handlers EXCEPT ![h] = Idle]
    /\ UNCHANGED <<leader, bucket, reaper, leases, faults>>

-----------------------------------------------------------------------------
(* reapOnce.                                                               *)

\* Mutant: half the timeout is enough to be declared dead.
Target_Early(info) == IF info.age > Timeout \div 2 THEN "DEAD" ELSE "ALIVE"

\* The verdict on a cached record.
Target(info) == Verdict(info.age)

\* Mutant: only workers that were alive are judged.
Judged_Once == {w \in Worker : workers[w].state = "ALIVE" /\ Target(workers[w]) # "ALIVE"}

\* The workers whose record the sweep changes.
Judged == {w \in Worker : workers[w] # Unknown /\ Target(workers[w]) \notin {"ALIVE", workers[w].state}}

\* Where the sweep goes on: verdicts to persist, then leases of dead workers, one
\* worker after the other, then leases past their deadline.
Continue(sweep) ==
    [sweep EXCEPT !.pc =
        IF sweep.todo # {} THEN "put"
        ELSE IF sweep.tasks # {} THEN "take"
        ELSE IF sweep.dead # {} THEN "dead"
        ELSE IF ~sweep.last THEN "expired" ELSE "idle"]

\* Phase 1, under workersMu: copies with their verdicts, and the workers that died.
\* Deadlines are compared with the time read here.
Scan ==
    /\ reaper.pc = "idle" /\ leader
    /\ LET dead == {w \in Judged : Target(workers[w]) = "DEAD"} IN
       /\ reaper' = Continue(
              [NoSweep EXCEPT
                  !.todo = {[worker |-> w, info |-> [workers[w] EXCEPT !.state = Target(workers[w])]] :
                               w \in Judged},
                  !.dead = dead])
       /\ leases' = [t \in Task |->
              IF leases[t] = Free THEN Free
              ELSE [leases[t] EXCEPT !.late = leases[t].age = Expired,
                                     !.doomed = @ \/ leases[t].worker \in dead]]
    /\ UNCHANGED <<leader, bucket, workers, handlers, faults>>

\* Mutant: a worker whose verdict was not saved is not dead.
NotSaved_Forgiven(v) == Continue([reaper EXCEPT !.todo = @ \ {v}, !.dead = @ \ {v.worker}])

\* A failing write leaves the cache alone; the sweep goes on.
NotSaved(v) == Continue([reaper EXCEPT !.todo = @ \ {v}])

\* putWorker of a verdict: the bucket ...
PersistVerdict ==
    /\ reaper.pc = "put"
    /\ \E v \in reaper.todo :
           \/ /\ bucket' = [bucket EXCEPT ![v.worker] = v.info]
              /\ reaper' = [reaper EXCEPT !.pc = "cache", !.cur = v]
              /\ UNCHANGED faults
           \/ /\ faults < MaxFaults
              /\ faults' = faults + 1
              /\ reaper' = NotSaved(v)
              /\ UNCHANGED bucket
    /\ UNCHANGED <<leader, workers, handlers, leases>>

\* ... then the cache.
CacheVerdict ==
    /\ reaper.pc = "cache"
    /\ workers' = [workers EXCEPT ![reaper.cur.worker] = reaper.cur.info]
    /\ reaper' = Continue([reaper EXCEPT !.todo = @ \ {reaper.cur}, !.cur = Nobody])
    /\ UNCHANGED <<leader, bucket, handlers, leases, faults>>

\* requeueLeasesForWorker: the leases a dead worker has now.
requeueLeasesForWorker ==
    /\ reaper.pc = "dead"
    /\ \E w \in reaper.dead :
           reaper' = Continue([reaper EXCEPT
               !.dead = @ \ {w},
               !.tasks = {t \in Task : leases[t] # Free /\ leases[t].worker = w}])
    /\ UNCHANGED <<leader, bucket, workers, handlers, leases, faults>>

\* Mutant: leases of workers that are not alive are left to phase 1.
Late_Alive(t) ==
    /\ leases[t] # Free /\ leases[t].late
    /\ workers[leases[t].worker].state = "ALIVE"

\* A lease past its deadline.
Late(t) == leases[t] # Free /\ leases[t].late

\* Phase 2: the leases past their deadline.
ExpiredLeases ==
    /\ reaper.pc = "expired"
    /\ reaper' = Continue([reaper EXCEPT !.tasks = {t \in Task : Late(t)}, !.last = TRUE])
    /\ UNCHANGED <<leader, bucket, workers, handlers, leases, faults>>

\* requeueLease, if the lease is still there.
requeueLease ==
    /\ reaper.pc = "take"
    /\ \E t \in reaper.tasks :
           /\ leases' = [leases EXCEPT ![t] = Free]
           /\ reaper' = Continue([reaper EXCEPT !.tasks = @ \ {t}])
    /\ UNCHANGED <<leader, bucket, workers, handlers, faults>>

-----------------------------------------------------------------------------
(* Time, leadership and restarts.                                          *)

\* The age of a record stops at the first value past the timeout.
Older(info) == IF info = Unknown \/ info.age = Overdue THEN info ELSE [info EXCEPT !.age = @ + 1]
OlderVerdict(v) == [v EXCEPT !.info = Older(@)]

\* A tick: everything that has a time is older.
Tick ==
    /\ bucket' = [w \in Worker |-> Older(bucket[w])]
    /\ workers' = [w \in Worker |-> Older(workers[w])]
    /\ handlers' = [h \in Handler |->
           IF handlers[h] \in Putting THEN OlderVerdict(handlers[h]) ELSE handlers[h]]
    /\ reaper' = [reaper EXCEPT !.todo = {OlderVerdict(v) : v \in @},
                                !.cur = IF @ = Nobody THEN @ ELSE OlderVerdict(@)]
    /\ leases' = [t \in Task |->
           IF leases[t] = Free \/ leases[t].age = Expired THEN leases[t]
           ELSE [leases[t] EXCEPT !.age = @ + 1]]
    /\ UNCHANGED <<leader, faults>>

\* The election deposes the node, and onStepDown drops the leases.  (That the callback
\* may run late is in Dispatch.)
StepDown ==
    /\ leader /\ faults < MaxFaults
    /\ leader' = FALSE
    /\ faults' = faults + 1
    /\ leases' = [t \in Task |-> Free]
    /\ UNCHANGED <<bucket, workers, handlers, reaper>>

\* The node is leader again, and onBecomeLeader drops the leases.
Win ==
    /\ ~leader
    /\ leader' = TRUE
    /\ leases' = [t \in Task |-> Free]
    /\ UNCHANGED <<bucket, workers, handlers, reaper, faults>>

\* recover: the cache is loaded from the bucket.
Recovered == bucket

\* The process dies and starts again; a node without peers is leader at once.
Restart ==
    /\ faults < MaxFaults
    /\ leader' \in BOOLEAN
    /\ faults' = faults + 1
    /\ workers' = Recovered
    /\ handlers' = [h \in Handler |-> Idle]
    /\ reaper' = NoSweep
    /\ leases' = [t \in Task |-> Free]
    /\ UNCHANGED bucket

-----------------------------------------------------------------------------
Handle(h) == PutWorker(h) \/ CacheWorker(h) \/ NoTask(h) \/ \E t \in Task : addLease(h, t)

Reap ==
    \/ Scan \/ PersistVerdict \/ CacheVerdict
    \/ requeueLeasesForWorker \/ ExpiredLeases \/ requeueLease

Next ==
    \/ \E h \in Handler, w \in Worker :
           \/ RegisterWorker(h, w) \/ Heartbeat(h, w) \/ PollTask(h, w)
           \/ \E age \in 0 .. Overdue : Replicate(h, w, age)
    \/ \E h \in Handler : Handle(h)
    \/ \E t \in Task : removeLease(t)
    \/ Reap \/ Tick \/ StepDown \/ Win \/ Restart

Spec == Init /\ [][Next]_vars

\* Goroutines run, time passes, elections succeed.  Nothing is assumed of workers.
Fairness ==
    /\ WF_vars(Reap) /\ WF_vars(Tick) /\ WF_vars(Win)
    /\ \A h \in Handler : WF_vars(Handle(h))

LiveSpec == Spec /\ Fairness

-----------------------------------------------------------------------------
(* Properties.                                                             *)

\* No record says SUSPECT or DEAD of a heartbeat that is recent enough: a verdict and
\* the heartbeat it is about are written together, whatever the order in which
\* heartbeats, sweeps, replicated records and restarts write bucket and cache.
VerdictIsEarned ==
    \A info \in {bucket[w] : w \in Worker} \cup {workers[w] : w \in Worker} :
        /\ info.state = "DEAD" => info.age > Timeout
        /\ info.state = "SUSPECT" => info.age > Timeout \div 2

\* When a sweep is over, no lease is left that its worker had when the sweep, or an
\* earlier one, declared it dead, even if that verdict could not be saved: "a dead
\* worker's in-flight tasks are requeued immediately".
DeadLeavesNoLease ==
    reaper.pc = "idle" => \A t \in Task : leases[t] # Free => ~leases[t].doomed

\* A call of the worker, or a replicated record of it, is being handled.
Heard(w) == \E h \in Handler : handlers[h] # Idle /\ handlers[h].worker = w

\* A worker that keeps sending heartbeats to the leader is alive again after every
\* verdict, also one that overwrote a heartbeat it raced with.
AliveAgain ==
    \A w \in Worker :
        []<>(leader /\ \E h \in Handler : handlers[h] \in Putting /\ handlers[h].worker = w)
            => []<>(workers[w].state = "ALIVE")

\* A worker that falls silent is declared dead, and stays so.
SilentIsDead ==
    \A w \in Worker : <>[]~Heard(w) => <>[](workers[w].state \in {"UNKNOWN", "DEAD"})

\* Every lease ends, whatever its worker does, also one given to a worker that was
\* already declared dead, for which phase 1 does nothing.
LeasesEnd == \A t \in Task : leases[t] # Free ~> leases[t] = Free
=============================================================================
