------------------------------- MODULE Agent -------------------------------
(***************************************************************************)
(* The worker agent, internal/worker/agent.go: one goroutine (Main) finds  *)
(* the leader, registers, sends heartbeats and polls; one goroutine per    *)
(* task executes it and reports.  Each of them rediscovers the leader when *)
(* a call fails, and so replaces the connection the others use.            *)
(*                                                                         *)
(* The cluster is reduced to what the agent sees of it: who leads, whom    *)
(* each scheduler believes to lead, and where the worker is registered.    *)
(***************************************************************************)
EXTENDS Naturals, Sequences, FiniteSets

CONSTANTS
    Schedulers,          \* Config.Schedulers, the list of seeds
    Task,                \* task ids
    None, Main,          \* no scheduler; the goroutine of Run
    Capacity,            \* Config.Capacity
    ReportAttempts,      \* 5
    MaxChanges,          \* bound: changes of leadership
    MaxLosses,           \* bound: calls that fail
    MaxRepeats           \* bound: task ids delivered again

ASSUME AgentAssumption ==
    /\ LET given == {Schedulers[i] : i \in DOMAIN Schedulers} IN
       Schedulers \in Seq(given) /\ Schedulers # <<>> /\ None \notin given
    /\ IsFiniteSet(Task) /\ Main \notin Task
    /\ Capacity \in Nat /\ ReportAttempts \in Nat \ {0}

VARIABLES
    leader,              \* the scheduler that leads, or None
    hint,                \* hint[s]: Node.leaderID of scheduler s
    registered,          \* registered[s]: the ids of this worker that s knows
    issued,              \* the number of worker ids made up so far
    minted,              \* task ids handed out so far
    conn,                \* Agent.leaderAddr
    id,                  \* Agent.workerID (0: none)
    running, done,       \* Agent.running, Agent.done
    old,                 \* tasks forgotten after doneRetention
    th,                  \* the goroutines
    canceled,            \* ctx of Run
    executed,            \* history: how often each task was executed
    refused,             \* history: tasks that found no room
    changes, losses, repeats

cluster == <<leader, hint, registered, issued, minted>>
tasks == <<running, done, old, executed, refused>>
bounds == <<changes, losses, repeats>>
vars == <<cluster, conn, id, tasks, th, canceled, bounds>>

Scheduler == {Schedulers[i] : i \in DOMAIN Schedulers}

Goroutine == {Main} \cup Task

Reply == {"ok", "unknown", "FailedPrecondition", "Unavailable", "Other"}

\* A goroutine: where it is, the state of the call it makes, the next seed to ask,
\* the tasks or the id of an answer, the tasks it wants, and its attempts to report.
Locals ==
    [pc : {"none", "discover", "register", "sleep", "idle", "heartbeat", "reregister", "poll",
           "start", "drain", "stopped", "execute", "report", "finish"},
     call : {"no", "sent"} \cup Reply,
     seed : DOMAIN Schedulers, got : SUBSET Task, newID : Nat, want : Nat, tries : 0 .. ReportAttempts]

At(pc) == [pc |-> pc, call |-> "no", seed |-> 1, got |-> {}, newID |-> 0, want |-> 0, tries |-> 0]

\* The goroutine starts bootstrap.
Bootstrapping(tries) == [At("discover") EXCEPT !.tries = tries]

Calling(pc, tries) == [At(pc) EXCEPT !.call = "sent", !.tries = tries]

\* The shape of the agent's state; a worker never runs more than its capacity.
TypeOK ==
    /\ leader \in Scheduler \cup {None} /\ hint \in [Scheduler -> Scheduler \cup {None}]
    /\ registered \in [Scheduler -> SUBSET Nat] /\ issued \in Nat
    /\ minted \subseteq Task
    /\ conn \in Scheduler \cup {None} /\ id \in 0 .. issued
    /\ running \subseteq Task /\ done \subseteq Task /\ old \subseteq Task
    /\ Cardinality(running) <= Capacity
    /\ th \in [Goroutine -> Locals]
    /\ canceled \in BOOLEAN
    /\ executed \in [Task -> Nat] /\ refused \subseteq Task
    /\ changes \in Nat /\ losses \in Nat /\ repeats \in Nat

Init ==
    /\ leader \in Scheduler \cup {None} /\ hint = [s \in Scheduler |-> leader]
    /\ registered = [s \in Scheduler |-> {}] /\ issued = 0
    /\ minted = {}
    /\ conn = None /\ id = 0
    /\ running = {} /\ done = {} /\ old = {}
    /\ th = [g \in Goroutine |-> IF g = Main THEN Bootstrapping(0) ELSE At("none")]
    /\ canceled = FALSE
    /\ executed = [t \in Task |-> 0] /\ refused = {}
    /\ changes = 0 /\ losses = 0 /\ repeats = 0

Goto(g, locals) == th' = [th EXCEPT ![g] = locals]

\* Whether the context of a goroutine's calls is canceled: reports have their own.
Canceled(g) == g = Main /\ canceled

-----------------------------------------------------------------------------
(* The cluster.                                                            *)

\* A scheduler wins an election.  It may or may not have the worker's registration.
Elect(s) ==
    /\ leader # s /\ changes < MaxChanges
    /\ changes' = changes + 1
    /\ leader' = s
    /\ hint' = [hint EXCEPT ![s] = s]
    /\ \E other \in Scheduler :
           registered' = [registered EXCEPT ![s] = @ \cup registered[other]]
    /\ UNCHANGED <<issued, minted, conn, id, tasks, th, canceled, losses, repeats>>

\* The leader's heartbeat reaches a scheduler.
Inform(s) ==
    /\ leader # None /\ hint[s] # leader
    /\ hint' = [hint EXCEPT ![s] = leader]
    /\ UNCHANGED <<leader, registered, issued, minted, conn, id, tasks, th, canceled, bounds>>

\* Task g is at a call of the given kind, to a scheduler that does or does not lead.
Called(g, kinds) == th[g].call = "sent" /\ th[g].pc \in kinds

Answer(g, reply) == Goto(g, [th[g] EXCEPT !.call = reply])

\* requireLeader redirects.
Redirect(g) ==
    /\ th[g].call = "sent" /\ conn # leader
    /\ Answer(g, "FailedPrecondition")
    /\ UNCHANGED <<cluster, conn, id, tasks, canceled, bounds>>

\* Mutant: every registration gets an id of its own.
AssignedID_Fresh(known) == issued + 1

\* A worker may bring its id.
AssignedID(known) == IF known = 0 THEN issued + 1 ELSE known

RegisterWorker(g) ==
    /\ Called(g, {"register", "reregister"}) /\ conn = leader
    /\ LET new == AssignedID(id) IN
       /\ issued' = IF new > issued THEN new ELSE issued
       /\ registered' = [registered EXCEPT ![leader] = @ \cup {new}]
       /\ Goto(g, [th[g] EXCEPT !.call = "ok", !.newID = new])
    /\ UNCHANGED <<leader, hint, minted, conn, id, tasks, canceled, bounds>>

Heartbeat(g) ==
    /\ Called(g, {"heartbeat"}) /\ conn = leader
    /\ Answer(g, IF id \in registered[leader] THEN "ok" ELSE "unknown")
    /\ UNCHANGED <<cluster, conn, id, tasks, canceled, bounds>>

\* An unknown worker is told to register again.
PollUnknown(g) ==
    /\ Called(g, {"poll"}) /\ conn = leader /\ id \notin registered[leader]
    /\ Answer(g, "FailedPrecondition")
    /\ UNCHANGED <<cluster, conn, id, tasks, canceled, bounds>>

\* New leases, under new task ids; the network may deliver an id again.
PollTask(g) ==
    /\ Called(g, {"poll"}) /\ conn = leader /\ id \in registered[leader]
    /\ \E new \in SUBSET (Task \ minted), again \in SUBSET minted :
           /\ Cardinality(new \cup again) <= th[g].want
           /\ repeats' = repeats + Cardinality(again) /\ repeats' <= MaxRepeats
           /\ minted' = minted \cup new
           /\ Goto(g, [th[g] EXCEPT !.call = "ok", !.got = new \cup again])
    /\ UNCHANGED <<leader, hint, registered, issued, conn, id, tasks, canceled, changes, losses>>

\* A report is acknowledged, whether or not there is a lease (see Dispatch).
ReportTask(g) ==
    /\ Called(g, {"report"}) /\ conn = leader
    /\ Answer(g, "ok")
    /\ UNCHANGED <<cluster, conn, id, tasks, canceled, bounds>>

\* A call fails, before or after it was handled.
Lose(g) ==
    /\ th[g].call \in {"sent", "ok", "unknown"}
    /\ losses < MaxLosses
    /\ losses' = losses + 1
    /\ \E error \in {"Unavailable", "Other"} :
           Goto(g, [At(th[g].pc) EXCEPT !.call = error, !.tries = th[g].tries])
    /\ UNCHANGED <<cluster, conn, id, tasks, canceled, changes, repeats>>

\* The canceled context of Run ends a call of Main.
Interrupt ==
    /\ canceled /\ th[Main].call \in {"sent", "ok", "unknown"}
    /\ Goto(Main, [At(th[Main].pc) EXCEPT !.call = "Other"])
    /\ UNCHANGED <<cluster, conn, id, tasks, canceled, bounds>>

-----------------------------------------------------------------------------
(* bootstrap, discoverLeader, connectLeader, register.                     *)

\* What the goroutine does after bootstrap.
Resumed(g) ==
    IF g = Main THEN At("idle")
    ELSE IF th[g].tries < ReportAttempts THEN Calling("report", th[g].tries)
    ELSE At("finish")

\* connectLeader: the old connection is closed, which ends the calls made over it.
Connect(g, addr) ==
    /\ conn' = addr
    /\ th' = [x \in Goroutine |->
                 IF x = g THEN Calling("register", th[g].tries)
                 ELSE IF th[x].call = "sent" THEN [th[x] EXCEPT !.call = "Other"]
                 ELSE th[x]]

\* discoverLeader asks a seed.  One that cannot be reached or knows no leader is passed
\* over; after the last one the agent waits.
Discover(g) ==
    /\ th[g].pc = "discover"
    /\ LET s == Schedulers[th[g].seed]
           skip == /\ IF th[g].seed < Len(Schedulers)
                      THEN Goto(g, [th[g] EXCEPT !.seed = @ + 1])
                      ELSE Goto(g, [At("sleep") EXCEPT !.tries = th[g].tries])
                   /\ UNCHANGED conn IN
       \/ /\ ~Canceled(g) /\ hint[s] # None
          /\ Connect(g, hint[s])
          /\ UNCHANGED losses
       \/ /\ Canceled(g) \/ hint[s] = None
          /\ skip
          /\ UNCHANGED losses
       \/ /\ losses < MaxLosses
          /\ losses' = losses + 1
          /\ skip
    /\ UNCHANGED <<cluster, id, tasks, canceled, changes, repeats>>

\* The answer to register, in bootstrap.
Registered(g) ==
    /\ th[g].pc = "register" /\ th[g].call \in Reply
    /\ IF th[g].call = "ok" THEN id' = th[g].newID /\ Goto(g, Resumed(g))
       ELSE UNCHANGED id /\ Goto(g, [At("sleep") EXCEPT !.tries = th[g].tries])
    /\ UNCHANGED <<cluster, conn, tasks, canceled, bounds>>

\* Mutant: bootstrap does not notice that its context is canceled.
Awake_Stubborn(g) ==
    /\ th[g].pc = "sleep"
    /\ Goto(g, Bootstrapping(th[g].tries))
    /\ UNCHANGED <<cluster, conn, id, tasks, canceled, bounds>>

\* After the wait: again, or, when the context is canceled, bootstrap fails.  Run then
\* returns if it has not registered yet.
Awake(g) ==
    /\ th[g].pc = "sleep"
    /\ \/ Goto(g, Bootstrapping(th[g].tries))
       \/ Canceled(g) /\ Goto(g, At(IF id = 0 THEN "stopped" ELSE "idle"))
    /\ UNCHANGED <<cluster, conn, id, tasks, canceled, bounds>>

-----------------------------------------------------------------------------
(* Run: heartbeat, poll, drain.                                            *)

\* Mutant: room is counted with one task too few.
freeCapacity_OffByOne == Capacity + 1 - Cardinality(running)

freeCapacity == Capacity - Cardinality(running)

\* A tick of the heartbeat ticker.
Beat ==
    /\ th[Main].pc = "idle"
    /\ Goto(Main, Calling("heartbeat", 0))
    /\ UNCHANGED <<cluster, conn, id, tasks, canceled, bounds>>

\* A tick of the poll ticker, with room for a task.
Poll ==
    /\ th[Main].pc = "idle" /\ freeCapacity > 0
    /\ Goto(Main, [Calling("poll", 0) EXCEPT !.want = freeCapacity])
    /\ UNCHANGED <<cluster, conn, id, tasks, canceled, bounds>>

\* Mutant: a redirect does not make the agent look for the leader.
onLeadershipError_Unreachable(reply) == reply = "Unavailable"

\* The errors that make the agent look for the leader.
onLeadershipError(reply) == reply \in {"FailedPrecondition", "Unavailable"}

\* The answer to a heartbeat, to a registration it led to, or to a poll.
Answered ==
    LET me == th[Main] IN
    /\ me.pc \in {"heartbeat", "reregister", "poll"} /\ me.call \in Reply
    /\ id' = IF me.pc = "reregister" /\ me.call = "ok" THEN me.newID ELSE id
    /\ Goto(Main,
            IF me.pc # "reregister" /\ onLeadershipError(me.call) THEN Bootstrapping(0)
            ELSE IF me.call = "unknown" THEN Calling("reregister", 0)
            ELSE IF me.got # {} THEN [At("start") EXCEPT !.got = me.got]
            ELSE At("idle"))
    /\ UNCHANGED <<cluster, conn, tasks, canceled, bounds>>

\* Mutant: finished tasks are started again.
tryStart_Forgets(t) == t \notin running /\ Cardinality(running) < Capacity

tryStart(t) == t \notin running /\ t \notin done /\ Cardinality(running) < Capacity

\* The tasks of a poll are started one after the other.
Start ==
    /\ th[Main].pc = "start"
    /\ \E t \in th[Main].got :
           LET left == th[Main].got \ {t}
               rest == IF left = {} THEN At("idle") ELSE [At("start") EXCEPT !.got = left] IN
           IF tryStart(t)
           THEN /\ running' = running \cup {t}
                /\ th' = [th EXCEPT ![Main] = rest, ![t] = At("execute")]
                /\ UNCHANGED refused
           ELSE /\ refused' = refused \cup ({t} \ (running \cup done))
                /\ Goto(Main, rest)
                /\ UNCHANGED running
    /\ UNCHANGED <<cluster, conn, id, done, old, executed, canceled, bounds>>

\* A signal.
Cancel ==
    /\ ~canceled
    /\ canceled' = TRUE
    /\ UNCHANGED <<cluster, conn, id, tasks, th, bounds>>

Drain ==
    /\ th[Main].pc = "idle" /\ canceled
    /\ Goto(Main, At("drain"))
    /\ UNCHANGED <<cluster, conn, id, tasks, canceled, bounds>>

\* The tasks have ended, or drainTimeout has passed: the process exits.
Exit ==
    /\ th[Main].pc = "drain"
    /\ th' = [g \in Goroutine |-> At(IF g = Main THEN "stopped" ELSE "none")]
    /\ UNCHANGED <<cluster, conn, id, tasks, canceled, bounds>>

-----------------------------------------------------------------------------
(* run, report and finish of a task.                                       *)

\* The subprocess ends, and its result is reported.
Execute(t) ==
    /\ th[t].pc = "execute"
    /\ executed' = [executed EXCEPT ![t] = @ + 1]
    /\ Goto(t, Calling("report", 0))
    /\ UNCHANGED <<cluster, conn, id, running, done, old, refused, canceled, bounds>>

\* The next attempt after a wait, unless there were enough.
Repeated(t) ==
    IF th[t].tries + 1 < ReportAttempts THEN Calling("report", th[t].tries + 1)
    ELSE At("finish")

\* The answer to a report.
Reported(t) ==
    /\ th[t].pc = "report" /\ th[t].call \in Reply
    /\ Goto(t, IF th[t].call = "ok" THEN At("finish")
               ELSE IF onLeadershipError(th[t].call) THEN Bootstrapping(th[t].tries + 1)
               ELSE Repeated(t))
    /\ UNCHANGED <<cluster, conn, id, tasks, canceled, bounds>>

\* Mutant: the slot of a finished task is not released.
finish_Leaks(t) ==
    /\ th[t].pc = "finish"
    /\ done' = done \cup {t}
    /\ Goto(t, At("none"))
    /\ UNCHANGED <<cluster, conn, id, running, old, executed, refused, canceled, bounds>>

\* finish forgets what is older than doneRetention: any of the finished tasks.
finish(t) ==
    /\ th[t].pc = "finish"
    /\ running' = running \ {t}
    /\ \E stale \in SUBSET done :
           /\ done' = (done \cup {t}) \ stale
           /\ old' = old \cup stale
    /\ Goto(t, At("none"))
    /\ UNCHANGED <<cluster, conn, id, executed, refused, canceled, bounds>>
-----------------------------------------------------------------------------
Serve(g) ==
    Redirect(g) \/ RegisterWorker(g) \/ Heartbeat(g) \/ PollUnknown(g) \/ PollTask(g) \/ ReportTask(g)

Boot(g) == Discover(g) \/ Registered(g) \/ Awake(g)

RunLoop == Beat \/ Poll \/ Answered \/ Start \/ Drain \/ Exit

RunTask(t) == Execute(t) \/ Reported(t) \/ finish(t)

Next ==
    \/ \E s \in Scheduler : Elect(s) \/ Inform(s)
    \/ \E t \in Task : RunTask(t)
    \/ \E g \in Goroutine : Serve(g) \/ Lose(g) \/ Boot(g)
    \/ Interrupt \/ RunLoop \/ Cancel

\* Somebody is elected, and the leader's heartbeats arrive.  Goroutines and subprocesses
\* run on.  Calls that are made again and again are served at last, although another
\* goroutine's connectLeader may end one: the waits between them grow.  The selects of
\* bootstrap and Run notice a canceled context.
Fairness ==
    /\ WF_vars(leader = None /\ \E s \in Scheduler : Elect(s))
    /\ \A s \in Scheduler : WF_vars(Inform(s))
    /\ \A g \in Goroutine : SF_vars(Serve(g)) /\ WF_vars(Boot(g))
    /\ \A t \in Task : WF_vars(RunTask(t))
    /\ WF_vars(Interrupt) /\ WF_vars(RunLoop)
    /\ SF_vars(Drain) /\ SF_vars(canceled /\ Awake(Main) /\ th'[Main].pc # "discover")

Spec == Init /\ [][Next]_vars

LiveSpec == Spec /\ Fairness

-----------------------------------------------------------------------------
(* What the agent promises.                                                *)

\* A task that was leased and delivered is never turned away for want of room: only Main
\* starts tasks, so the room it asked for is still there (poll, tryStart).
NoTaskRefused == refused = {}

\* A task id is executed at most once, however often it is delivered while its result is
\* remembered (tryStart, finish, doneRetention).
ExecutedOnce == \A t \in Task \ old : executed[t] <= 1

\* A worker keeps the identity it was first given, across leaders, registrations by
\* several goroutines and lost answers (register).
OneIdentity == [][id # 0 => id' = id]_vars

\* When leaders stop changing, the worker ends up connected to the leader and registered
\* there, whatever stale hints it followed.
Rejoins == <>[](canceled \/ (leader # None /\ conn = leader /\ id \in registered[leader]))

\* A canceled worker stops, even if there is no leader.
Stops == canceled ~> th[Main].pc = "stopped"

\* Task t, once it was started, ends, its report delivered or given up.
TaskEnds(t) == t \in running ~> (t \notin running \/ th[Main].pc = "stopped")
=============================================================================
