# TLA+ specification of distsched

distsched is a job scheduler: a small cluster of scheduler replicas elects a
leader, the leader keeps jobs in BoltDB, hands them to polling workers under
leases, retries or dead-letters failures, resolves dependencies between jobs,
re-arms recurring ones, and replicates what it stores to the other replicas. This
directory models the parts of it whose behaviour depends on interleavings, crashes
and failures, checks them with TLC on small instances, and proves the safety
properties of the election, of dispatching, of replication, of the ready queue and the
retry delays, of the worker registry, of the agent and of the scheduler process with TLAPS
for all instances.

## The system

| Part | Source | State | Operations | Module |
| --- | --- | --- | --- | --- |
| leader election | `internal/cluster/cluster.go`, heartbeats in `internal/scheduler/cluster.go` | role, term, vote, leader hint, saved term and vote | start, campaign, vote, count, heartbeat, step down | `Election` (abstract: `Leadership`) |
| job service | `internal/scheduler/job.go` | jobs bucket | submit, cancel, get, list | `Dispatch`, `Service` |
| dispatch | `internal/scheduler/dispatch.go` | queue, leases | poll, report, failure handling | `Dispatch` |
| dependencies, schedules | `internal/scheduler/deps.go` | reverse index, timers | place, promote, cascade, cron reschedule, cycle check | `Dispatch` |
| worker registry | `internal/scheduler/worker.go` | worker cache, workers bucket | register, heartbeat | `Registry` |
| reaper | `internal/scheduler/recovery.go` | worker cache, leases | judge workers, take leases back, requeue their jobs | `Registry`, `Dispatch` |
| leadership callbacks | `internal/scheduler/server.go` | all of the above | clear, rebuild, seed | `Dispatch`, `Replication` |
| metadata replication | `internal/scheduler/cluster.go`, `server.go` | log, acknowledged positions | append, seed, ship, apply, acknowledge | `Replication` (on `Leadership`) |
| ready queue | `internal/queue/queue.go` | heap, id map | push, pop, remove, clear | `ReadyQueue` (abstract: `ReadyOrder`) |
| retry policy | `internal/retry/retry.go` | none | backoff | `Backoff` |
| worker agent | `internal/worker/agent.go` | leader, identity, running and recent tasks | discover, register, poll, run, report, drain | `Agent` |
| scheduler process | `cmd/scheduler/main.go`, `internal/scheduler/server.go` | open store, listener | start, serve, stop, crash | `Service` |
| client library | `internal/ctl` | none | find the leader, one request | `Service` |

How they interact: `Node` (election) calls `onBecomeLeader` and `onStepDown` of the
server in goroutines of their own; `requireLeader` guards the RPCs that change state;
every write of a job or a worker goes through `putJob` or `putWorker`, which also append
to the replication log; the replication loop is at once the election's heartbeat; the
reaper takes leases away from workers the registry declares dead; agents and clients
find the leader through `GetClusterStatus` of any replica.

What makes it hard: handlers share no lock (each access to the store, the queue, the
lease map and the reverse index is atomic, sequences of them are not); the store and
the leader's memory are updated one after the other, and the process may die in
between; calls are lost, late or repeated; writes may fail, and some callers only log
it; leadership callbacks are not ordered; and what a goroutine copied under a lock may
be old when it is written.

## Modules

* `Leadership` - what the election promises: terms on disk do not fall, a term is won
  once, leadership begins by winning.
* `Election` - the state machine of `Node`. One action per critical section of
  `Node.mu`, or per step of the goroutine that issues an RPC. An RPC is one record of
  `calls`, so it can be lost (the caller gives up, by timeout or crash), delayed (it
  stays in the set) and handled after its caller is gone; the nodes of `Lossy` may never
  get the calls that are made to them. `persistLocked` may keep the old record on the nodes
  of `FaultyDisk`. Two history variables, `cast` and `elected`,
  record the votes and the victories.
* `ElectionProofs` - the proofs about `Election`: operators, types, the inductive invariant,
  the steps that keep it, and the theorems.
* `Dispatch` - the leader's scheduling state. A goroutine is a member of `Thread`, with
  a program counter and the locals of the handler it runs; every step makes one access
  to one shared structure. The nested loops of the code (cascade inside rebuild inside
  callback, promotion after a report) are the sets `work`, `list` and `todo` of a
  goroutine; `Resume` goes on with the innermost that is not empty. One thread gives
  serialised handlers, two give every interleaving of two. `applyEntry` is what a node
  stores of another leader's jobs once it has lost its own leadership (`Replicated`).
* `DispatchProofs` - the proofs about `Dispatch` that hold under every interleaving.
* `DispatchSerial`, `DispatchSerialProofs` - the proofs about `Dispatch` that need
  serialised handlers: the invariant, and half of the steps; the others, and the theorems.
* `Replication` - `putJob` and `putWorker` (store, then append), `seedReplication`,
  `replicationLoop` with `broadcastReplicate`, `ackPeer`, and the `Replicate` handler,
  which checks the term once and then applies one entry after the other. Elections are
  the actions of an instance of `Leadership`, which `Election` implements: the two
  modules compose through it.
* `ReplicationProofs` - the proofs about `Replication`.
* `ReadyOrder`, `ReadyQueue` - a set from which the first job in the queue's order is
  taken, and the binary heap with its id map and item indexes, including
  `container/heap` (external). The loops `up` and `down` are functions of the number of
  rounds, applied to as many as the heap has items: a loop that has stopped stays where it
  is. `ReadyQueue` implements `ReadyOrder`.
* `Backoff` - the retry policy's defaults and the loop of `Backoff`, in integers, as a
  job that fails again and again meets them.
* `Registry` - `RegisterWorker`, `Heartbeat` and replicated records against the reaper:
  `putWorker` writes the bucket and then the cache, the reaper copies the cache, and
  persists its verdicts one by one, then takes leases back, worker by worker, then the
  expired ones. A record carries the age of its last heartbeat.
* `QueueRegistryProofs` - the proofs about `ReadyQueue`, `Backoff` and `Registry`, which have
  no state in common.
* `Agent` - the goroutine of `Run` (bootstrap, heartbeat, poll, drain) and one goroutine
  per task (execute, report with retries). Every call is a state of its goroutine, and
  `connectLeader` by one goroutine ends calls of the others.
* `AgentProofs` - the proofs about `Agent`.
* `Service` - processes that start, serve, stop gracefully and crash, the job RPCs they
  serve with the ways they refuse a request, and a client that asks its seeds for the
  leader. `Shutdown` takes `dispatchMu` to stop the timers, and a submission of a delayed
  job needs it for its own.
* `ServiceProofs` - the proofs about `Service`.
* `MCElection`, `MCDispatch`, `MCReplication`, `MCReadyQueue`, `MCRegistry`, `MCAgent`,
  `MCService` - the instances for TLC, with one `.cfg` per run.

Operators whose name has the form `X_Y` and whose comment begins with "Mutant" are
plausible wrong versions of `X`. They are used by no specification; each property is
known to fail when `X` is replaced by one of them.

### Abstractions

* Time is not measured, except in `Registry`, where heartbeats and leases have an age
  that stops at the first value past the limit. Elsewhere deadlines, timers and due
  times are nondeterministic choices; a zero delay is one of them.
* Jobs are records of state, attempt, dependencies, attempts allowed, kind (plain,
  `run_at`, cron) and whether `ScheduledAt` is set; commands and results are left out.
  In `Replication` a job or a worker is a key whose contents are the number of a write.
* In `Dispatch` the ready queue is a set: a poll may take any element. What is shown
  therefore does not depend on priorities.
* A poll for n tasks is n polls for one task; in `Dispatch` a sweep of the reaper is a
  sequence of `requeueLease` calls, each of which looks its lease up again, as the code
  does, and which may go on after leadership was lost.
* Reads of the store do not fail; writes may. A timer that expires runs its deletion
  from the map at once.
* What other leaders replicate comes to `Dispatch` as any of the entries of `Replicated`,
  at any moment after the node has lost its leadership, also when it has won it back: a
  call of the other leader may still be being applied. `ReplicatedAssumption` says that
  each entry is one such a leader, which runs the same code, can have stored.
* `wouldCreateCycle` is given by what its depth-first search decides (a cycle can be
  reached from the new job), not by its recursion.
* `Agent` sees of the cluster who leads, whom each scheduler believes to lead and where
  the worker is registered. A result is forgotten `doneRetention` after the task ended,
  which is any moment (`finish`). `Service` sees of a job whether it is stored, canceled or
  over, and of a submission whether it is plain, delayed, has dependencies or is invalid;
  one with dependencies may be refused (the cycle check) or canceled at once.
* Background loops are not awaited by `Shutdown`. A sweep that finds the store closed
  fails as if the process had died there, which `Dispatch` covers by `Crash`.
* Floating point in `Backoff` is replaced by hundredths, rounded down.

## Runs

| Run | Instance | Shows |
| --- | --- | --- |
| `election_safety` | three members, two of which campaign, two terms, two faults, one heartbeat round | types, one winner per term, one vote per term and member, leaders won their term, leaders step down only for newer terms, refinement of `Leadership` |
| `election_fencing` | the same without crashes; members start late, and calls to one of the two that campaign may never reach it | liveness: that one, when it leads and is replaced, steps down, which only the answers to its own heartbeats can tell it (`MaybeStepDown`); `startElection` of the other returns, although a peer does not answer (`voteTimeout`) |
| `dispatch_serial` | one handler at a time, three jobs submitted in any order, cancels, expiring leases, a crash at any step | QUEUED jobs are in the queue or have a timer, RUNNING jobs have one lease, PENDING jobs wait in the index, terminal jobs do not change, no cycle is accepted; liveness: all submitted jobs finish, apart from doomed ones (see below) |
| `dispatch_races` | two handlers, a chain of two jobs, a failing write, cancels | attempts stay within the policy, no job runs before its dependencies succeeded |
| `dispatch_failover` | two handlers, a failing write, leadership lost and won back with callbacks in any order, another leader's jobs replicated meanwhile, one of them recurring, one FAILED | a job the node itself makes FAILED is dead-lettered, and stays so; a recurring job is re-armed unless a write failed or it was canceled. The properties of `dispatch_races` are not repeated: they are proved for this instance too |
| `dispatch_lost_wakeup` | two handlers, a chain of two jobs | violated: a dependency succeeds while a job is being placed, and the job waits for ever |
| `replication` | two members, two terms, two keys, two writes, a lost call or a crash, `Calm` | a follower has each key as its leader's log says at or after what it has acknowledged, a follower that has acknowledged everything has what the leader has, followers converge |
| `replication_overlap` | the same with every interleaving | violated: a job stored while `seedReplication` reads the buckets reaches no follower |
| `queue` | six jobs in a heap, two priorities, two ages; 128 retry policies | every item knows its place, the heap implements `ReadyOrder`; the delay after every failed attempt is the documented one |
| `agent` | two schedulers, two tasks, an election, a lost call, a task delivered twice | no polled task is turned away, none runs twice while its result is remembered, the worker keeps its identity; liveness: it rejoins the leader, stops when told, and its tasks end (checked for one task, the other being its mirror image) |
| `registry` | one worker with two overlapping calls, one task, one fault | verdicts are earned, a dead worker keeps no lease; liveness: live workers become ALIVE again, silent ones DEAD, and leases end |
| `service` | two schedulers, two commands, a stop or crash, two elections, a lost call, a failing write | handlers never meet a closed store, stops lose no acknowledged job, commands given to a cluster in order get the leader's own answer, which is a refusal only for what they carry or for the state of their job; liveness: commands end, and so do graceful stops, also when a handler waits for the timers' lock |

The violated properties are statements of comments or documents of the repository;
`PROJECT.json` quotes them. Deadlock is not checked, except in `queue` and `registry`,
because the bounded models stop when their budgets are used up, and a scheduler without
jobs has nothing to do.

The properties of `Dispatch` that need `Settled` (no handler in progress on a leader)
relate the store to memory; while a handler is between two writes they need not hold.
They hold when handlers are serialised and fail under interleavings, which is what
`dispatch_serial` and `dispatch_lost_wakeup` show together. `CaughtUpIsEqual` is checked
in both `replication` runs for the same reason.

### What `Calm` excludes

With `Calm`, `Replication` leaves out these overlaps, of the kind that breaks its
properties:

* a call that its caller gave up is handled later;
* a second call is accepted while one is being applied;
* a node wins while its handlers are storing, or while it applies a predecessor's entries;
* a leader is deposed between `IsLeader` and `Term` of the replication loop, or while a
  handler is admitted but has not stored;
* a write between the list and the reset of `seedReplication`;
* a log is reset while calls with the old log are outstanding, or while the loop that ships
  is in the middle of a round: a round begun in an earlier term would go on with the new log;
* the loop ships before the log is seeded;
* two handlers write one key at the same time.

None of them is prevented by the code; what `replication` shows holds as long as none
occurs.

### Behaviours seen and not run

These are not separate runs; the constants to reproduce them are given.

* `FaultyDisk = {n3}`, a voter whose `persistLocked` fails before it crashes: two nodes win
  one term (`OneLeaderPerTerm`). The error is only logged.
* Two threads with `Canceling`: a poll that loaded the job overwrites a cancel
  (`TerminalIsFinal`).
* A chain of three jobs, serialised: a job that `placeNewJob` cancels does not cancel
  those that wait for it (`NoDoomedPending`).
* `MaxErrors = 1`, serialised: a failing write during a successful report leaves a RUNNING
  job without a lease (`RunningIsLeased`), although the comment on `ReportTask` says that
  the lease is removed only after the state change is persisted. Two threads that report one failed task at once
  can also schedule two retries of one attempt.
* `MaxErrors = 1` in `Service`: `placeNewJob` logs a failing write and the client is told
  that its job was accepted (`AckedIsDurable`). A failing write in `maybeRescheduleCron`
  ends a recurring job.
* `MaxErrors = 1` in `Replication`: `applyEntries` logs a failing write and acknowledges the
  entry (`CaughtUpIsEqual`).
* `MaxWrites = 5`, `MaxFaults = 2`, `MaxTerm = 1` in `Replication`, two members, two keys,
  `Calm`: the answer to a call is lost, and a crash of the follower cuts the second delivery
  short. One key is then as of an earlier, the other as of a later position: what a follower
  holds is not the leader's state after any prefix of its log, although each key is as new as
  what was acknowledged, which is why `FollowerHoldsAcknowledged` speaks of each key.
* `MaxStepDowns = 1`: a late `onStepDown` clears what the next `onBecomeLeader` rebuilt
  (`QueuedIsScheduled`).
* Two submissions at once that name each other are both accepted (`JobGraphIsAcyclic`).
* The dead-letter bucket is not replicated: on the node that takes over, a job that the
  former leader made FAILED has no entry (`FailedIsDeadLettered` therefore speaks of the
  jobs a node itself makes FAILED).
* What a deposed leader alone had stored is never removed from its store, although
  `docs/DESIGN.md` says that such writes "will be discarded"
  (`StaleWritesAreDiscarded` in the instance of `replication`).
* Two `putWorker` calls may write the bucket in one order and the cache in the other; the
  next heartbeat makes them agree. A lease given to a worker that came back between a
  verdict and `requeueLeasesForWorker` is taken back with the old ones.
* The first delay of `Backoff` is not capped by `max_backoff`, though the comment on it
  says `min(max_backoff, ...)`: the cap is in the loop that multiplies.
* `GetJob` and `ListJobs` do not call `requireLeader`, so followers answer them from what
  was replicated, although the service's comment says that all calls are served by the
  leader.
* The replication log and the worker map only grow.
* A job id that is submitted again while a task of its earlier submission runs is decided
  by that task's report. The runs submit an id once.

### Bounds

Two or three jobs are enough for a chain, a join and a cycle that is not a pair; two
attempts for a retry and an exhausted retry; two threads for every race between two
handlers, or between a handler and a callback, timer or reaper (races of three are not
covered by the runs; the proofs cover any number). One failing write, one crash and one
loss of leadership hit every step. Two terms suffice for a replaced leader and its
successor, two writes of two keys for entries that overtake each other. Six items give a
heap of three levels in which the item that fills a gap may have to rise. `Timeout = 1` and
`TTL = 1` tell the ages alive, dead and beyond apart (a half of the timeout is then zero, so
that SUSPECT occurs too). `Campaigner` restricts whose election timer expires, so that
members remain that only vote.

### Fairness

* `Election`: the run loop, the replication loop and the handlers are goroutines, which
  the Go runtime schedules (weak fairness); RPCs have timeouts, so calls end. None on the
  handlers of `Lossy` nodes, on starting and on campaigning.
* `Dispatch`: goroutines continue (weak fairness); elections succeed eventually. Timers,
  callbacks, polls, and reports or expiries of leases are strongly fair, because in the
  serialised model they compete for one thread; in the code they are separate goroutines
  or workers that keep polling. No fairness on submitting, canceling or crashing.
* `Replication`: `onBecomeLeader`, the loops and the handlers go on, and calls are answered
  (weak fairness). None on elections: `Converges` speaks of a leader that stays.
* `Registry`: the reaper's ticker fires, time passes, handlers return, the node wins again
  (weak fairness). Nothing is assumed of workers: what they have to do for `AliveAgain` and
  `SilentIsDead` is the left-hand side of those properties.
* `Agent`: goroutines and subprocesses go on, somebody is elected and heard of (weak
  fairness). Calls are served (strong fairness): another goroutine's `connectLeader` may end
  a call, but not every one of a sequence whose waits grow. The selects on the context
  notice a cancel (strong fairness).
* `Service`: stops, handlers and the client go on (weak fairness; calls have deadlines). A
  handler that needs a lock goes on only when the lock is free.

## Proofs

Thirty-three theorems, each for every value of the constants, or for those its hypothesis
names. Every safety property of a passing run is among them.

`ElectionProofs`, for every finite set of members and every bound:

* `TypeCorrect` - types;
* `ElectionSafety` - one winner per term;
* `VoteSafety` - one vote per member and term;
* `LeadershipIsWon` - a leader has won its term;
* `StepDownSafety` - leaders step down only for newer terms;
* `Refinement` - `Election` implements `Leadership`.

Assumptions: `NodeAssumption` and `BoundAssumption` of `Election`; all but `TypeCorrect` and
`StepDownSafety` also assume `FaultyDisk = {}`, without which they are false.
The argument: two majorities share a member (`MajoritiesMeet`, from the cardinality
theorems of the library), so two winners of a term would need a member that voted twice.
That no member does is not inductive by itself. The invariant `IInv` adds: memory agrees
with the disk while a node is up (`DiskInv`); no vote has been cast in a term beyond the
one on the voter's disk, and a vote of that term is the one on disk (`CastInv`) - this is
what survives a crash; what a candidate counts, and every granted answer on its way, is
a cast vote (`TallyInv`); every victory has a majority of cast votes (`ElectedInv`); a
candidate has voted for itself (`CandidateInv`).

`DispatchProofs`, for any jobs, goroutines and requests, with failing writes, crashes,
cancels and changes of leadership:

* `TypeCorrect` - types;
* `AttemptSafety` - no job runs more often than its policy allows;
* `DeadLetterSafety` - a node makes no job FAILED that is not in its dead-letter bucket, and
  the bucket only grows;
* `DependencySafety` - no job is queued or run before its dependencies have succeeded;
* `CronSafety` - as long as no write has failed, a recurring job does not end as SUCCEEDED
  or FAILED, provided it does not with the leaders whose jobs are replicated (`CronShipped`).

Assumptions: `RequestAssumption` of `Dispatch` (a request names jobs, and
`MaxAttempts` is at least one, which `retry.MaxAttempts` makes sure of) and
`ReplicatedAssumption`: what `AttemptSafety` and `DependencySafety` say of this node holds of
the entries other leaders ship, and the dependencies those have seen succeed are known to
this node's history. Every leader runs this code, so each relies on what the others
are shown to do before. The argument: every
write of a job stores a copy that its goroutine made some steps before, so that nothing can
be concluded from the store alone. `StoreInv` states the two properties of what is stored
(`Sound`), `ThreadInv` says for each program counter what is known of the copy (`Fine`): it
has a try left from the load to the dispatch; its dependencies have succeeded from the
check on, because what has succeeded once stays in the history `succeeded`; it is in the
dead-letter bucket, which only grows, before it is stored as FAILED (`Buries`); and the
lists of a rebuild hold sound copies. `MemoryInv` is the rest of the types. For recurring
jobs, `CronInv` adds that no copy of one is at a program counter from which a job is stored
as SUCCEEDED or FAILED: the branches of `ReportTask` and `handleFailure` look at the copy
they go on to write, and a write that fails ends the claim. Which steps can get to those
program counters is said once, by `Moves` and one lemma per group of actions.

`DispatchSerialProofs`, for any jobs, requests, tasks and crashes, with cancels, timers,
expiring leases and rebuilds cut off by a crash at any step:

* `QueuedJobsAreScheduled` - a QUEUED job is in the queue or has a timer;
* `RunningJobsAreLeased` - a RUNNING job has exactly one lease, for its current attempt;
* `PendingJobsWait` - a PENDING job is in the index of a dependency that has not succeeded;
* `TerminalJobsStay` - a job that has ended is not written again;
* `GraphStaysAcyclic` - the dependencies of the stored jobs have no cycle.

The hypothesis, `Serial`, is that of `dispatch_serial`: one handler at a time, no failing
write, leadership lost only by a crash, nothing replicated by others, ids submitted once. Each part is needed: "Behaviours
seen and not run" has a counterexample without it (for ids that are submitted again, a
terminal job is written by its second submission). Nothing is assumed of the number of jobs,
their graph, the tasks or the crashes. The argument: the properties speak of the moments
when nothing is in progress, so the invariant `SInv` has to say where each job is at every
other moment. `Current` says for each program counter that the goroutine's copy is what the
store holds and which state the job is in; `Held` names the job that is on its way from one
of the maps to another; every other job is where it belongs (`Placed`), and a PENDING job has
something to wait for or is about to be looked at (`Waits`): it is in `todo`, or the job that
has just succeeded is one of its dependencies. A rebuild starts from empty maps, so all this
is said only of the jobs it has got to, and `Listing` says that the maps hold nothing of the
others and that the copies in its list are those of the store. `Ids` is what is needed of
tasks, leases, submissions and callbacks: that tasks are fresh is why a report, which drops
its lease at the end, does not drop another one's. For the graph, `GInv` carries the verdict
of `wouldCreateCycle` from `SubmitJob` to the write of `placeNewJob`; that a search from the
new job is enough is the lemma `NewEdges`: a cycle of the new graph that does not touch what
the new job leads to is a cycle of the old one.

`ReplicationProofs`, for any members, terms, finite set of keys, writes, lost calls and
crashes:

* `TypesHold` - types, with and without `Calm`;
* `ElectionIsLeadership` - `Replication` never does to terms and leadership what `Leadership`
  does not allow, with and without `Calm`: with `Refinement` of `ElectionProofs`, the two
  modules meet in `Leadership`;
* `FollowersHoldAcknowledged` - a follower has each key as its leader's log says, at or after
  the position it has acknowledged;
* `CaughtUpFollowersAreEqual` - a follower that has acknowledged the whole log has what the
  leader has.

Assumption: `ReplicationAssumption` of `Replication` (finitely many keys, bounds are numbers).
The last two also assume `Undisturbed`: `Calm`, and no failing write of a follower; without
either they are false (`replication_overlap`, and "Behaviours seen and not run"). The argument:
neither property is inductive, since the next acknowledgement says nothing of the store it is
about. The invariant `RInv` speaks of a leader whose log is seeded (`Serving`). Its log says
what its store says, but for what a handler has stored and not yet appended, and its calls
carry pieces of that log from where the peer is (`LogFine`). A peer is in one of two
conditions (`PeerFine`): nothing of this log has come to it, because it is in an older term or
still applies a predecessor's call (`Untouched`); or it has each key as of some position from
the acknowledged one on, and, while a call is applied, from the last applied entry on, and,
while the answer is under way, from the end of the call on (`Reached`). That is what a lost
answer and a crash in the middle of a call leave intact. The rest says why no other leader
interferes: calls and loops work for a term that was won (`LoopInv`, `CallInv`), a term is won
once (`OfficeInv`, from `Leadership`), and nothing is written between the list and the reset of
`seedReplication` (`ListInv`). What a log says of a key is that of the last entry about it
(`LastPosition`), so that `After` can be followed through `Append` and `Snapshot` without
induction over the log.

`QueueRegistryProofs`, on the registry, for any workers, handlers, tasks, timeouts and faults:

* `TypeCorrect` - types;
* `VerdictSafety` - no record says SUSPECT or DEAD of a recent heartbeat;
* `ReclaimSafety` - after a sweep no lease is left that a worker had when it was declared
  dead.

Assumption: `TimeoutAssumption` of `Registry`. The argument: bucket and cache are written
with copies, so `HandlersInv` and `Proper` say of every copy in a handler or in the sweep
what `RecordsInv` says of the records; a verdict stays earned as its record ages
(`OlderInfo`). `SweepInv` says where a doomed lease is met: it is among the leases the sweep
is about to take, or its worker is among those whose leases are still to be listed; and
both sets are empty when a sweep ends (`ContinueSweep`).

`AgentProofs`, for any schedulers, any finite set of tasks, any capacity and any bounds:

* `NoTaskIsRefused` - no delivered task is turned away;
* `TasksExecuteOnce` - no task runs twice while its result is remembered;
* `IdentityIsKept` - the worker's id does not change once it has one.

Assumption: `AgentAssumption` of `Agent` (the list of schedulers is not empty, tasks are
finitely many, a report is tried at least once). The argument: the room that `poll` asked
for is still there when the answer comes, because only `Main` adds to `running` (`Room`,
with the cardinality theorems of the library); a task that is delivered is running, done,
forgotten, or was never executed (`Fresh`); a goroutine of a task exists only when the worker has an
id, so that an id other than the present one can be granted only to `Main` of a worker that
has none (`Granted`).

`QueueRegistryProofs`, on the queue and the delays, for any jobs, priorities, times and
policies, and a queue of any length:

* `QueueTypes` - types;
* `PlacesAreKnown` - every item knows its place in the heap, and the map has exactly the
  queued jobs;
* `QueueIsOrdered` - `ReadyQueue` implements `ReadyOrder`;
* `DelaysAreDocumented` - every delay is the documented one.

Assumptions: `QueueAssumption` of `ReadyQueue` (ids, priorities and times are numbers, and 0
is no job's id) and `BackoffAssumption` of `Backoff` (policies are policies, and the random
number is between -1 and 1). The argument: `Good` ties the indexes to the heap, so that an
id occurs once, and `Ordered` says that no item is before its parent. While the item at a
place rises (`Rising`), every other is in order and its children are not before its parent;
while one sinks (`Sinking`), the same below it. A round keeps this and moves the item up or
down, so that a loop has stopped after as many rounds as there are items (`UpResult`,
`DownResult`). `Remove` puts the last item into the gap (`Gap`); if it does not sink there,
it may have to rise, and does. The first item of an ordered heap is before all others
(`FirstIsFirst`), by way of the least place that is not behind it. The loop of `Backoff`
computes the minimum of the maximum and the power, because a delay can reach the maximum
only by a multiplier of at least 1, and then the power stays above it (`Follows`).

`ServiceProofs`, for any seeds, jobs and bounds:

* `HandlersAlwaysHaveStore` - no handler runs on a closed store;
* `NothingIsLostByStops` - while no write fails, acknowledged jobs stay in the store;
* `CommandsServedInOrder` - a command given to a cluster that stays in order gets the
  leader's own answer.

Assumption: `SeedsAssumption` of `Service` (there is a seed). The argument: `StoreInv` ties
the store to the point `main` and `Shutdown` have got to; `AwaitedInv` ties the handler to
the client's current call, of which there is one; `CalmInv` says that an undisturbed
command is being served, by the leader.

Each invariant has one lemma per action, or per group of actions with one effect. Those of
`Election`, `Dispatch` and `Replication` were checked with TLC before they were proved, that of
`Replication` with three members and three terms too.

Only model-checked: the liveness properties, because the prover handles neither fairness nor
`ENABLED`.

## Not modelled

* Metrics, logging, build information and id generation change nothing that is stated
  here; ids are distinct.
* Flags, printing and the file formats of the command line client; the client's search for
  the leader is in `Service`.
* Generated protobuf code: the messages appear as records; encoding is left out, and a
  failing decode with it.
* Store operations the scheduler does not call (`DeleteJob`, `DeleteWorker`, `GetWorker`,
  `ListDeadLetter`); BoltDB itself: transactions are atomic and durable.
* The subprocess of a task: it ends, with either result.
* Deployment files and scripts.
