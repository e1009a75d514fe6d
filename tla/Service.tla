------------------------------ MODULE Service ------------------------------
(***************************************************************************)
(* Scheduler processes as their clients see them: the start and the        *)
(* graceful stop of a process (cmd/scheduler/main.go, New and Shutdown of  *)
(* internal/scheduler/server.go), the job RPCs it serves meanwhile, and    *)
(* the client library (internal/ctl), which asks the seeds for the leader  *)
(* and sends one request to it.                                            *)
(*                                                                         *)
(* Of scheduling there is what the answers tell apart: a job in a store is *)
(* not finished (QUEUED), canceled, or over (FINISHED: it succeeded or it  *)
(* failed).  Elections are abstract; a scheduler that was replaced serves  *)
(* as leader until it is told, and one that was told names the leader it   *)
(* knows.                                                                  *)
(***************************************************************************)
EXTENDS Naturals, Sequences, FiniteSets

CONSTANTS
    Seeds,               \* the addresses given to the client, a sequence
    Job,                 \* job ids
    None,                \* no scheduler
    MaxCommands,         \* bound: commands of the client
    MaxStops,            \* bound: signals, crashes and failing starts
    MaxChanges,          \* bound: elections
    MaxLosses,           \* bound: calls that fail or time out
    MaxErrors            \* bound: failing writes of an open store

ASSUME SeedsAssumption ==
    LET given == {Seeds[i] : i \in DOMAIN Seeds} IN
    Seeds \in Seq(given) /\ Seeds # <<>> /\ None \notin given

VARIABLES
    main,                \* where a process is: main, New, Serve and Shutdown
    db,                  \* its store is open
    dispatchMu,          \* Shutdown holds the lock of the retry timers
    disk,                \* the jobs bucket
    leader,              \* the scheduler that won the last election
    leads,               \* the schedulers that take themselves for the leader
    hint,                \* Node.LeaderID
    handlers,            \* RPC handlers in progress
    client,              \* the command of the client
    acked,               \* history: the submissions each scheduler acknowledged
    commands, stops, changes, losses, errors

processes == <<main, db, dispatchMu>>
election == <<leader, leads, hint>>
bounds == <<commands, stops, changes, losses, errors>>
vars == <<processes, disk, election, handlers, client, acked, bounds>>

Scheduler == {Seeds[i] : i \in DOMAIN Seeds}

JobState == {"none", "QUEUED", "CANCELED", "FINISHED"}

\* The commands that need the leader, and status.
Command == {"submit", "get", "list", "cancel", "status"}

\* What a submission may carry: a job that starts now, one that starts later, one with
\* dependencies, or none that is valid (no job, no command, a bad cron expression).  The
\* other commands are plain: the command line asks for the job id they need.
Form == {"plain", "delayed", "deps", "invalid"}
FormsOf(cmd) == IF cmd = "submit" THEN Form ELSE {"plain"}

Result == {"ok", "error", "NotFound", "InvalidArgument", "FailedPrecondition"}

\* An RPC on a server; awaited: the client still waits for the answer.
Handler ==
    [at : Scheduler, cmd : Command, job : Job, form : Form,
     pc : {"called", "admitted", "arming"}, awaited : BOOLEAN]

\* A command: the seed it asks, the leader it was told, how it ended, and whether the
\* cluster has been in order all the time.
Run ==
    [cmd : Command, job : Job, form : Form,
     pc : {"idle", "ask", "asked", "call", "sent", "done"},
     seed : DOMAIN Seeds, leader : Scheduler \cup {None},
     result : Result \cup {""}, calm : BOOLEAN]

Main == {"down", "started", "serving", "locked", "closing", "graceful", "drained"}

TypeOK ==
    /\ main \in [Scheduler -> Main]
    /\ db \in [Scheduler -> BOOLEAN] /\ dispatchMu \in [Scheduler -> BOOLEAN]
    /\ disk \in [Scheduler -> [Job -> JobState]]
    /\ leader \in Scheduler \cup {None} /\ leads \subseteq Scheduler
    /\ hint \in [Scheduler -> Scheduler \cup {None}]
    /\ handlers \subseteq Handler
    /\ client \in Run
    /\ acked \in [Scheduler -> SUBSET Job]
    /\ commands \in Nat /\ stops \in Nat /\ changes \in Nat /\ losses \in Nat /\ errors \in Nat

Init ==
    /\ main = [p \in Scheduler |-> "down"]
    /\ db = [p \in Scheduler |-> FALSE] /\ dispatchMu = [p \in Scheduler |-> FALSE]
    /\ disk = [p \in Scheduler |-> [j \in Job |-> "none"]]
    /\ leader = None /\ leads = {} /\ hint = [p \in Scheduler |-> None]
    /\ handlers = {}
    /\ \E j \in Job :
           client = [cmd |-> "status", job |-> j, form |-> "plain", pc |-> "idle", seed |-> 1,
                     leader |-> None, result |-> "", calm |-> FALSE]
    /\ acked = [p \in Scheduler |-> {}]
    /\ commands = 0 /\ stops = 0 /\ changes = 0 /\ losses = 0 /\ errors = 0

-----------------------------------------------------------------------------
(* The process.                                                            *)

\* The process is gone: its handlers, its loops and its memory with it.
Gone(p) ==
    /\ main' = [main EXCEPT ![p] = "down"]
    /\ db' = [db EXCEPT ![p] = FALSE] /\ dispatchMu' = [dispatchMu EXCEPT ![p] = FALSE]
    /\ leader' = IF leader = p THEN None ELSE leader
    /\ leads' = leads \ {p} /\ hint' = [hint EXCEPT ![p] = None]
    /\ handlers' = {h \in handlers : h.at # p}

Disturbed == [client EXCEPT !.calm = FALSE]

\* New: the store is opened and the loops are started.
New(p) ==
    /\ main[p] = "down"
    /\ main' = [main EXCEPT ![p] = "started"]
    /\ db' = [db EXCEPT ![p] = TRUE]
    /\ UNCHANGED <<dispatchMu, disk, election, handlers, client, acked, bounds>>

\* net.Listen and Serve.
Serve(p) ==
    /\ main[p] = "started"
    /\ main' = [main EXCEPT ![p] = "serving"]
    /\ UNCHANGED <<db, dispatchMu, disk, election, handlers, client, acked, bounds>>

\* The address is taken, and main exits without Shutdown; or the process is killed.
Die(p) ==
    /\ stops < MaxStops /\ main[p] # "down"
    /\ stops' = stops + 1
    /\ Gone(p)
    /\ client' = Disturbed
    /\ UNCHANGED <<disk, acked, commands, changes, losses, errors>>

\* A signal, or an error of Serve: Shutdown closes the server to timers, cancels the
\* loops, and takes dispatchMu to stop the timers.  RPCs are still accepted.
Shutdown(p) ==
    /\ stops < MaxStops /\ main[p] = "serving"
    /\ stops' = stops + 1
    /\ main' = [main EXCEPT ![p] = "locked"]
    /\ dispatchMu' = [dispatchMu EXCEPT ![p] = TRUE]
    /\ client' = Disturbed
    /\ UNCHANGED <<db, disk, election, handlers, acked, commands, changes, losses, errors>>

\* Mutant: the lock is given back when Shutdown returns.
StopTimers_Deferred(p) ==
    /\ main[p] = "locked"
    /\ main' = [main EXCEPT ![p] = "closing"]
    /\ UNCHANGED <<db, dispatchMu, disk, election, handlers, client, acked, bounds>>

\* The timers are stopped: Shutdown gives the lock back, before it stops the metrics
\* endpoint and waits for the handlers.
StopTimers(p) ==
    /\ main[p] = "locked"
    /\ main' = [main EXCEPT ![p] = "closing"]
    /\ dispatchMu' = [dispatchMu EXCEPT ![p] = FALSE]
    /\ UNCHANGED <<db, disk, election, handlers, client, acked, bounds>>

\* GracefulStop begins: no new RPCs.
Refuse(p) ==
    /\ main[p] = "closing"
    /\ main' = [main EXCEPT ![p] = "graceful"]
    /\ UNCHANGED <<db, dispatchMu, disk, election, handlers, client, acked, bounds>>

\* Mutant: running handlers are not waited for.
Served_Stop(p) == TRUE

\* GracefulStop returns when the running handlers have.
Served(p) == \A h \in handlers : h.at # p

GracefulStop(p) ==
    /\ main[p] = "graceful"
    /\ Served(p)
    /\ main' = [main EXCEPT ![p] = "drained"]
    /\ UNCHANGED <<db, dispatchMu, disk, election, handlers, client, acked, bounds>>

\* The peers' connections and the store are closed.
Close(p) ==
    /\ main[p] = "drained" /\ db[p]
    /\ db' = [db EXCEPT ![p] = FALSE]
    /\ UNCHANGED <<main, dispatchMu, disk, election, handlers, client, acked, bounds>>

\* main returns.
Exit(p) ==
    /\ main[p] = "drained" /\ ~db[p]
    /\ Gone(p)
    /\ UNCHANGED <<disk, client, acked, bounds>>

-----------------------------------------------------------------------------
(* The cluster: elections and heartbeats, which need the background loops. *)

\* Node.run and replicationLoop are running.
Looping(p) == main[p] \in {"started", "serving"}

\* Serve accepts RPCs.
Accepting(p) == main[p] \in {"serving", "locked", "closing"}

\* Mutant: what the sender does not have is dropped.
Upserted_Replaces(p, q, got) == [j \in Job |-> IF j \in got THEN disk[q][j] ELSE disk[p][j]]

\* The store of p after jobs of q were replicated to it.
Upserted(p, q, got) ==
    [j \in Job |-> IF j \in got /\ disk[q][j] # "none" THEN disk[q][j] ELSE disk[p][j]]

\* A scheduler wins, with some of the jobs of another.
Elect(p) ==
    /\ Looping(p) /\ leader # p /\ changes < MaxChanges
    /\ changes' = changes + 1
    /\ leader' = p
    /\ leads' = leads \cup {p}
    /\ hint' = [hint EXCEPT ![p] = p]
    /\ \E q \in Scheduler, got \in SUBSET Job : disk' = [disk EXCEPT ![p] = Upserted(p, q, got)]
    /\ client' = Disturbed
    /\ UNCHANGED <<processes, handlers, acked, commands, stops, losses, errors>>

\* A heartbeat of the leader arrives.
Inform(p) ==
    /\ leader # None /\ Looping(leader) /\ Accepting(p) /\ hint[p] # leader
    /\ leads' = leads \ {p}
    /\ hint' = [hint EXCEPT ![p] = leader]
    /\ UNCHANGED <<processes, disk, leader, handlers, client, acked, bounds>>

\* Scheduling: a task of the job is reported to the leader, and the job is over.
Finish(p, j) ==
    /\ p \in leads /\ Accepting(p) /\ disk[p][j] = "QUEUED"
    /\ disk' = [disk EXCEPT ![p][j] = "FINISHED"]
    /\ UNCHANGED <<processes, election, handlers, client, acked, bounds>>

-----------------------------------------------------------------------------
(* The client.                                                             *)

\* Everyone serves, and knows the leader.
InOrder ==
    /\ \A p \in Scheduler : main[p] = "serving" /\ hint[p] = leader
    /\ leads = {leader}

\* A command begins with Status.
Begin(cmd, j) ==
    /\ client.pc \in {"idle", "done"} /\ commands < MaxCommands
    /\ commands' = commands + 1
    /\ client' = [cmd |-> cmd, job |-> j, form |-> "plain", pc |-> "ask", seed |-> 1,
                  leader |-> None, result |-> "", calm |-> InOrder]
    /\ UNCHANGED <<processes, disk, election, handlers, acked, stops, changes, losses, errors>>

Ended(result) == [client EXCEPT !.pc = "done", !.result = result]

\* Mutant: the client asks the seeds again and again.
NextSeed_Cycles == [client EXCEPT !.pc = "ask", !.seed = IF @ = Len(Seeds) THEN 1 ELSE @ + 1]

\* Status goes on with the next seed, if there is one.
NextSeed ==
    IF client.seed = Len(Seeds) THEN Ended("error")
    ELSE [client EXCEPT !.pc = "ask", !.seed = @ + 1]

\* An RPC: the server handles it, or the call fails.
Call(p, cmd, form, next, failed) ==
    IF Accepting(p)
    THEN /\ handlers' = handlers \cup
                {[at |-> p, cmd |-> cmd, job |-> client.job, form |-> form,
                  pc |-> "called", awaited |-> TRUE]}
         /\ client' = [client EXCEPT !.pc = next, !.form = form]
    ELSE client' = failed /\ UNCHANGED handlers

AskSeed ==
    /\ client.pc = "ask"
    /\ Call(Seeds[client.seed], "status", "plain", "asked", NextSeed)
    /\ UNCHANGED <<processes, disk, election, acked, bounds>>

\* Mutant: the request goes to the seed that answered.
leaderConn_Seed(holder) ==
    IF holder = None THEN Ended("error")
    ELSE [client EXCEPT !.pc = "call", !.leader = Seeds[client.seed]]

\* The first status decides: a connection to the leader it names, or none.
leaderConn(holder) ==
    IF holder = None THEN Ended("error")
    ELSE [client EXCEPT !.pc = "call", !.leader = holder]

\* Submit, Get, List, Cancel: one request to the leader.
CallLeader ==
    /\ client.pc = "call"
    /\ \E form \in FormsOf(client.cmd) :
           Call(client.leader, client.cmd, form, "sent", Ended("error"))
    /\ UNCHANGED <<processes, disk, election, acked, bounds>>

\* What the client makes of a call that failed.
Failed == IF client.pc = "asked" THEN NextSeed ELSE Ended("error")

\* A call fails or times out.  Its handler, if there is one, goes on.
Lose(h) ==
    /\ h.awaited /\ losses < MaxLosses
    /\ losses' = losses + 1
    /\ \/ handlers' = (handlers \ {h}) \cup {[h EXCEPT !.awaited = FALSE]}
       \/ h.pc = "called" /\ handlers' = handlers \ {h}
    /\ client' = [Failed EXCEPT !.calm = FALSE]
    /\ UNCHANGED <<processes, disk, election, acked, commands, stops, changes, errors>>

\* The server died.
Broken ==
    /\ client.pc \in {"asked", "sent"} /\ \A h \in handlers : ~h.awaited
    /\ client' = Failed
    /\ UNCHANGED <<processes, disk, election, handlers, acked, bounds>>

-----------------------------------------------------------------------------
(* The handlers.                                                           *)

\* A handler returns; its answer reaches a client that waits for it.
Return(h, answer) ==
    /\ handlers' = handlers \ {h}
    /\ client' = IF h.awaited THEN answer ELSE client

\* GetClusterStatus, on any scheduler: it lists the workers and names the leader.
GetClusterStatus(h) ==
    /\ h.cmd = "status"
    /\ Return(h, IF ~db[h.at] THEN NextSeed
                 ELSE IF client.cmd = "status" THEN Ended("ok") ELSE leaderConn(hint[h.at]))
    /\ UNCHANGED <<processes, disk, election, acked, bounds>>

\* A handler goes on.
Proceed(h, pc) ==
    /\ handlers' = (handlers \ {h}) \cup {[h EXCEPT !.pc = pc]}
    /\ UNCHANGED client

\* requireLeader redirects, and the client does not follow.
requireLeader(h) ==
    IF h.at \in leads THEN Proceed(h, "admitted") ELSE Return(h, Ended("error"))

Admit(h) ==
    /\ h.cmd \in {"submit", "cancel"} /\ h.pc = "called"
    /\ requireLeader(h)
    /\ UNCHANGED <<processes, disk, election, acked, bounds>>

\* A write of a job: a closed store refuses it, an open one may fail.
PutJob(h, state) ==
    /\ db[h.at]
    /\ disk' = [disk EXCEPT ![h.at][h.job] = state]
    /\ UNCHANGED errors

PutFails(h) ==
    /\ db[h.at] => errors < MaxErrors
    /\ errors' = IF db[h.at] THEN errors + 1 ELSE errors
    /\ UNCHANGED disk

Acknowledge(h) ==
    /\ Return(h, Ended("ok"))
    /\ acked' = IF h.awaited THEN [acked EXCEPT ![h.at] = @ \cup {h.job}] ELSE acked

\* A request that is not valid is refused, and so are dependencies that would close a
\* cycle; the graph is Dispatch's.
Reject(h) ==
    /\ h.form \in {"invalid", "deps"}
    /\ Return(h, Ended("InvalidArgument"))
    /\ UNCHANGED <<disk, errors, acked>>

\* The job is stored; it is canceled at once if a dependency did not succeed.  One that
\* is to start later has its timer armed before the answer.
Place(h) ==
    /\ h.form # "invalid"
    /\ \/ PutJob(h, "QUEUED")
       \/ h.form = "deps" /\ PutJob(h, "CANCELED")
    /\ IF h.form = "delayed" THEN Proceed(h, "arming") /\ UNCHANGED acked ELSE Acknowledge(h)

\* A job whose write failed is acknowledged: placeNewJob only logs it.
PlaceFails(h) ==
    /\ h.form # "invalid"
    /\ PutFails(h)
    /\ Acknowledge(h)

\* SubmitJob.  A job id that is submitted again starts afresh.
SubmitJob(h) ==
    /\ h.cmd = "submit" /\ h.pc = "admitted"
    /\ Reject(h) \/ Place(h) \/ PlaceFails(h)
    /\ UNCHANGED <<processes, election, commands, stops, changes, losses>>

\* armEnqueue needs dispatchMu for the timer; then SubmitJob returns.
armEnqueue(h) ==
    /\ h.pc = "arming" /\ ~dispatchMu[h.at]
    /\ Acknowledge(h)
    /\ UNCHANGED <<processes, disk, election, bounds>>

\* loadJob's answer when the job is not there or cannot be read.
loadJob(h, found) ==
    Ended(IF ~db[h.at] THEN "error" ELSE IF disk[h.at][h.job] = "none" THEN "NotFound" ELSE found)

\* CancelJob.
CancelJob(h) ==
    /\ h.cmd = "cancel" /\ h.pc = "admitted"
    /\ IF db[h.at] /\ disk[h.at][h.job] = "QUEUED"
       THEN \/ PutJob(h, "CANCELED") /\ Return(h, Ended("ok"))
            \/ PutFails(h) /\ Return(h, Ended("error"))
       ELSE /\ Return(h, loadJob(h, IF disk[h.at][h.job] = "FINISHED"
                                   THEN "FailedPrecondition" ELSE "ok"))
            /\ UNCHANGED <<disk, errors>>
    /\ UNCHANGED <<processes, election, acked, commands, stops, changes, losses>>

\* GetJob and ListJobs do not ask whether the scheduler leads.
GetJob(h) ==
    /\ h.cmd = "get"
    /\ Return(h, loadJob(h, "ok"))
    /\ UNCHANGED <<processes, disk, election, acked, bounds>>

ListJobs(h) ==
    /\ h.cmd = "list"
    /\ Return(h, Ended(IF db[h.at] THEN "ok" ELSE "error"))
    /\ UNCHANGED <<processes, disk, election, acked, bounds>>

-----------------------------------------------------------------------------
Starting(p) == New(p) \/ Serve(p)
Stopping(p) == StopTimers(p) \/ Refuse(p) \/ GracefulStop(p) \/ Close(p) \/ Exit(p)
Asking == AskSeed \/ CallLeader \/ Broken
Handle(h) ==
    \/ GetClusterStatus(h) \/ GetJob(h) \/ ListJobs(h)
    \/ Admit(h) \/ SubmitJob(h) \/ armEnqueue(h) \/ CancelJob(h)

Next ==
    \/ \E p \in Scheduler :
           Starting(p) \/ Stopping(p) \/ Die(p) \/ Shutdown(p) \/ Elect(p) \/ Inform(p)
    \/ \E p \in Scheduler, j \in Job : Finish(p, j)
    \/ \E cmd \in Command, j \in Job : Begin(cmd, j)
    \/ Asking
    \/ \E h \in handlers : Handle(h) \/ Lose(h)

Spec == Init /\ [][Next]_vars

\* Goroutines run; nothing is assumed of elections, signals and users.
Fairness ==
    /\ \A p \in Scheduler : WF_vars(Stopping(p))
    /\ WF_vars(Asking) /\ WF_vars(\E h \in handlers : Handle(h))

LiveSpec == Spec /\ Fairness

-----------------------------------------------------------------------------
(* Properties.                                                             *)

\* While an RPC is handled, the store of its process is open, at every point of a
\* graceful stop: Shutdown closes it after GracefulStop.
HandlersHaveStore == \A h \in handlers : db[h.at]

\* A job whose submission was acknowledged is in the store of the scheduler that
\* acknowledged it, through stops, crashes, restarts and what other leaders
\* replicate: "persists them durably".
AckedIsDurable == \A p \in Scheduler : \A j \in acked[p] : disk[p][j] # "none"

\* The same as long as the open store fails no write: that an acknowledged job may be
\* lost is due to the write errors placeNewJob only logs, never to a stop.
StopsLoseNothing == errors = 0 => AckedIsDurable

\* Status, leaderConn and requireLeader: a command given to a cluster that is, and stays,
\* in order, and whose writes succeed, gets the leader's own answer, whichever seed is
\* asked.  A submission is refused only for what it carries, only a cancel for the state
\* of its job, and the jobs the leader has acknowledged are found.
InOrderIsServed ==
    client.pc = "done" /\ client.calm /\ errors = 0 =>
        /\ client.result # "error"
        /\ client.result = "InvalidArgument" => client.form \in {"invalid", "deps"}
        /\ client.result = "FailedPrecondition" => client.cmd = "cancel"
        /\ client.result = "NotFound" => client.job \notin acked[leader]

\* Every command returns, with whichever schedulers dead, stopping or without leader.
CommandsEnd == client.pc = "ask" ~> client.pc = "done"

\* A graceful stop ends: every handler it waits for returns, also one that is waiting
\* for the timers' lock when Shutdown begins.
StopEnds == \A p \in Scheduler : main[p] = "locked" ~> main[p] = "down"
=============================================================================
