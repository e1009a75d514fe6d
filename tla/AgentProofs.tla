---------------------------- MODULE AgentProofs ----------------------------
(***************************************************************************)
(* What holds of Agent for any schedulers, any finite set of tasks, any    *)
(* capacity and any bounds: NoTaskRefused, ExecutedOnce and OneIdentity.   *)
(*                                                                         *)
(* The invariant says of each goroutine what it holds, wherever it is: the *)
(* tasks Main was given and has not started fit beside the running ones    *)
(* and are not forgotten ones; a goroutine of a task has its task in       *)
(* running; and a new worker id is only given to a worker that has none,   *)
(* while no goroutine but Main can be asking for one.                      *)
(***************************************************************************)
EXTENDS Agent, FiniteSetTheorems, TLAPS

\* Where the goroutines can be, and where Main has been registered before.
MainPc == {"discover", "register", "sleep", "idle", "heartbeat", "reregister", "poll", "start",
           "drain", "stopped"}
TaskPc == {"none", "discover", "register", "sleep", "execute", "report", "finish"}
WithID == {"idle", "heartbeat", "reregister", "poll", "start", "drain"}

\* What Main was given, or asks for, fits beside the running tasks.
Room(r) ==
    /\ Cardinality(r.got) + Cardinality(running) <= Capacity
    /\ r.want + Cardinality(running) <= Capacity

FineMain(r) ==
    /\ r.pc \in MainPc /\ (r.pc \in WithID => id # 0)
    /\ r.got \subseteq minted /\ (r.pc # "poll" => r.want = 0)
    /\ Room(r)

\* Another report may be tried.
MoreTries(r) == r.tries < ReportAttempts

FineTask(t, r) ==
    /\ r.pc \in TaskPc /\ r.got = {}
    /\ r.pc = "report" => MoreTries(r)
    /\ r.pc # "none" => t \in running /\ id # 0
    /\ r.pc = "execute" => t \in old \/ executed[t] = 0

\* A granted id is new only for a worker without one.
Granted(n) == n # 0 /\ n <= issued /\ (id # 0 => n = id)
Identified(r) == r.pc \in {"register", "reregister"} /\ r.call = "ok" => Granted(r.newID)

Fine(g, r) ==
    /\ IF g = Main THEN FineMain(r) ELSE FineTask(g, r)
    /\ Identified(r)

\* Of the tasks that were never forgotten, one that is not remembered was not executed.
Fresh(t) == t \notin running /\ t \notin done /\ t \notin old
TasksInv ==
    /\ running \subseteq minted /\ done \subseteq minted /\ old \subseteq minted
    /\ refused = {}
    /\ \A t \in Task \ old : executed[t] \in {0, 1} /\ (Fresh(t) => executed[t] = 0)

IInv == TypeOK /\ (\A g \in Goroutine : Fine(g, th[g])) /\ TasksInv

-----------------------------------------------------------------------------
(* Facts about the constants and the operators.                            *)

LEMMA SchedulersFacts ==
    /\ None \notin Scheduler
    /\ Len(Schedulers) \in Nat /\ DOMAIN Schedulers = 1 .. Len(Schedulers) /\ 1 \in DOMAIN Schedulers
    /\ \A i \in DOMAIN Schedulers : Schedulers[i] \in Scheduler
  BY AgentAssumption DEF Scheduler

\* Numbers of attempts.
Tries == 0 .. ReportAttempts

LEMMA TriesFacts ==
    /\ 0 \in Tries
    /\ \A r : r.tries = 0 => MoreTries(r)
    /\ \A r, q : r.tries \in Tries /\ MoreTries(r) /\ q.tries = r.tries + 1 => q.tries \in Tries
  BY AgentAssumption DEF Tries, MoreTries

\* How many tasks there are in a set, when one joins or leaves it.
LEMMA CardFacts ==
    ASSUME NEW S \in SUBSET Task
    PROVE  /\ IsFiniteSet(S) /\ Cardinality(S) \in Nat
           /\ \A t \in S : Cardinality(S \ {t}) = Cardinality(S) - 1 /\ Cardinality(S) > 0
           /\ \A t \in Task : t \notin S => Cardinality(S \cup {t}) = Cardinality(S) + 1
           /\ \A t \in Task : Cardinality(S \ {t}) <= Cardinality(S)
<1>1. IsFiniteSet(S) /\ Cardinality(S) \in Nat
  BY AgentAssumption, FS_Subset, FS_CardinalityType
<1>2. ASSUME NEW t \in S PROVE Cardinality(S \ {t}) = Cardinality(S) - 1 /\ Cardinality(S) > 0
  BY <1>1, FS_RemoveElement, FS_EmptySet
<1>3. ASSUME NEW t \in Task, t \notin S PROVE Cardinality(S \cup {t}) = Cardinality(S) + 1
  BY <1>1, <1>3, FS_AddElement, Zenon
<1>4. ASSUME NEW t \in Task PROVE Cardinality(S \ {t}) <= Cardinality(S)
  <2>1. CASE t \in S
    BY <1>1, <1>2, <2>1
  <2>2. CASE t \notin S
    <3>1. S \ {t} = S
      BY <2>2
    <3> QED
      BY <1>1, <3>1
  <2> QED
    BY <2>1, <2>2
<1> QED
  BY <1>1, <1>2, <1>3, <1>4

LEMMA EmptyCard == Cardinality({}) = 0
  BY FS_EmptySet

\* A goroutine that has just arrived somewhere holds nothing.
Arrived(r, pc, call, tries) ==
    /\ r \in Locals /\ r.pc = pc /\ r.call = call /\ r.got = {} /\ r.newID = 0 /\ r.want = 0
    /\ r.tries = tries

LEMMA ArrivesAt ==
    ASSUME NEW pc \in MainPc \cup TaskPc PROVE Arrived(At(pc), pc, "no", 0)
<1>1. 0 \in Tries /\ 1 \in DOMAIN Schedulers
  BY TriesFacts, SchedulersFacts
<1> QED
  BY <1>1 DEF Arrived, At, Locals, MainPc, TaskPc, Tries

LEMMA ArrivesTried ==
    ASSUME NEW r, NEW pc, NEW call, Arrived(r, pc, call, 0), NEW tries \in Tries
    PROVE  Arrived([r EXCEPT !.tries = tries], pc, call, tries)
  BY DEF Arrived, Locals, Tries

LEMMA ArrivesCalled ==
    ASSUME NEW r, NEW pc, Arrived(r, pc, "no", 0), NEW call \in {"no", "sent"} \cup Reply
    PROVE  Arrived([r EXCEPT !.call = call], pc, call, 0)
  BY DEF Arrived, Locals

LEMMA ArrivesCalling ==
    ASSUME NEW pc \in MainPc \cup TaskPc, NEW tries \in Tries
    PROVE  Arrived(Calling(pc, tries), pc, "sent", tries)
<1>1. Arrived([At(pc) EXCEPT !.call = "sent"], pc, "sent", 0)
  BY ArrivesAt, ArrivesCalled
<1> QED
  BY <1>1, ArrivesTried, Zenon DEF Calling

LEMMA ArrivesBootstrapping ==
    ASSUME NEW tries \in Tries PROVE Arrived(Bootstrapping(tries), "discover", "no", tries)
  BY ArrivesAt, ArrivesTried DEF Bootstrapping, MainPc

\* Such a goroutine is fine where it may be.
LEMMA ArrivedMain ==
    ASSUME TypeOK, NEW r, NEW pc \in MainPc, NEW call, NEW tries, Arrived(r, pc, call, tries),
           pc \in WithID => id # 0, call # "ok" \/ pc \notin {"register", "reregister"}
    PROVE  Fine(Main, r)
<1>1. Room(r)
  <2>1. r.got = {} /\ r.want = 0 /\ Cardinality(running) <= Capacity /\ Cardinality(running) \in Nat
    BY CardFacts DEF Arrived, TypeOK
  <2> QED
    BY <2>1, EmptyCard, AgentAssumption DEF Room
<1> QED
  BY <1>1 DEF Fine, FineMain, Arrived, Identified

LEMMA ArrivedTask ==
    ASSUME TypeOK, NEW t \in Task, NEW r, NEW pc \in TaskPc, NEW call, NEW tries, Arrived(r, pc, call, tries),
           pc = "report" => MoreTries(r), pc # "none" => t \in running /\ id # 0,
           pc = "execute" => t \in old \/ executed[t] = 0, call # "ok" \/ pc # "register"
    PROVE  Fine(t, r)
<1>1. t # Main
  BY AgentAssumption
<1> QED
  BY <1>1 DEF Fine, FineTask, Arrived, Identified, TaskPc

LEMMA InvInit == Init => IInv
<1> SUFFICES ASSUME Init PROVE IInv
  OBVIOUS
<1>1. /\ Arrived(Bootstrapping(0), "discover", "no", 0) /\ Arrived(At("none"), "none", "no", 0)
  BY ArrivesAt, ArrivesBootstrapping, TriesFacts DEF TaskPc
<1>2. TypeOK
  <2>1. th \in [Goroutine -> Locals]
    BY <1>1 DEF Init, Arrived
  <2>2. Cardinality(running) <= Capacity
    BY EmptyCard, AgentAssumption DEF Init
  <2>3. /\ leader \in Scheduler \cup {None} /\ hint \in [Scheduler -> Scheduler \cup {None}]
        /\ registered \in [Scheduler -> SUBSET Nat] /\ issued \in Nat /\ id \in 0 .. issued
    BY DEF Init
  <2>4. executed \in [Task -> Nat] /\ changes \in Nat /\ losses \in Nat /\ repeats \in Nat
    BY DEF Init
  <2>5. /\ minted \subseteq Task /\ conn \in Scheduler \cup {None} /\ refused \subseteq Task
        /\ running \subseteq Task /\ done \subseteq Task /\ old \subseteq Task /\ canceled \in BOOLEAN
    BY Zenon DEF Init
  <2> QED
    BY <2>1, <2>2, <2>3, <2>4, <2>5 DEF TypeOK
<1>3. ASSUME NEW g \in Goroutine PROVE Fine(g, th[g])
  <2>1. CASE g = Main
    BY <1>1, <1>2, <2>1, ArrivedMain DEF Init, MainPc, WithID
  <2>2. CASE g # Main
    BY <1>1, <1>2, <2>2, ArrivedTask DEF Init, TaskPc, Goroutine
  <2> QED
    BY <2>1, <2>2
<1>4. TasksInv
  BY DEF Init, TasksInv
<1> QED
  BY <1>2, <1>3, <1>4 DEF IInv

-----------------------------------------------------------------------------
(* Steps that only move a goroutine.                                       *)

\* What is known of the goroutines.
LEMMA Mine ==
    ASSUME IInv, NEW g \in Goroutine
    PROVE  /\ TypeOK /\ Fine(g, th[g]) /\ th[g] \in Locals
           /\ g = Main => FineMain(th[g])
           /\ g # Main => g \in Task /\ FineTask(g, th[g])
  BY DEF IInv, TypeOK, Fine, Goroutine

\* Nothing but the locals of a goroutine and the bounds changes.
LEMMA GotoKeeps ==
    ASSUME IInv, NEW g \in Goroutine, NEW r \in Locals, Goto(g, r), Fine(g, r),
           UNCHANGED <<cluster, conn, id, tasks, canceled>>,
           changes' \in Nat, losses' \in Nat, repeats' \in Nat
    PROVE  IInv'
<1> USE DEF cluster, tasks
<1>1. TypeOK'
  BY DEF IInv, TypeOK, Goto
<1>2. ASSUME NEW x \in Goroutine PROVE Fine(x, th'[x])
  BY DEF IInv, TypeOK, Goto
<1>3. ASSUME NEW x \in Goroutine PROVE Fine(x, th[x])'
  BY <1>2 DEF Fine, FineMain, FineTask, Identified, Granted, Room, MoreTries
<1>4. TasksInv'
  BY DEF IInv, TasksInv, Fresh
<1> QED
  BY <1>1, <1>3, <1>4 DEF IInv

LEMMA BoundsType == IInv => changes \in Nat /\ losses \in Nat /\ losses + 1 \in Nat /\ repeats \in Nat
  BY DEF IInv, TypeOK

\* An answer that is no grant arrives.
LEMMA AnswerFine ==
    ASSUME IInv, NEW g \in Goroutine, NEW reply \in Reply,
           reply = "ok" => th[g].pc \notin {"register", "reregister"}
    PROVE  /\ [th[g] EXCEPT !.call = reply] \in Locals
           /\ Fine(g, [th[g] EXCEPT !.call = reply])
<1> DEFINE r == [th[g] EXCEPT !.call = reply]
<1>1. /\ r \in Locals /\ r.call = reply /\ r.pc = th[g].pc /\ r.got = th[g].got /\ r.want = th[g].want
      /\ r.tries = th[g].tries
  BY Mine DEF Locals
<1> HIDE DEF r
<1>2. Room(th[g]) => Room(r)
  BY <1>1 DEF Room
<1>3. MoreTries(th[g]) => MoreTries(r)
  BY <1>1 DEF MoreTries
<1>4. Fine(g, r)
  BY <1>1, <1>2, <1>3, Mine DEF Fine, FineMain, FineTask, Identified
<1> QED
  BY <1>1, <1>4 DEF r

LEMMA StepRedirect ==
    ASSUME IInv, NEW g \in Goroutine, Redirect(g) PROVE IInv'
  BY AnswerFine, GotoKeeps, BoundsType, Zenon DEF Redirect, Answer, Reply, bounds

LEMMA StepHeartbeat ==
    ASSUME IInv, NEW g \in Goroutine, Heartbeat(g) PROVE IInv'
  BY AnswerFine, GotoKeeps, BoundsType, Zenon DEF Heartbeat, Called, Answer, Reply, bounds

LEMMA StepPollUnknown ==
    ASSUME IInv, NEW g \in Goroutine, PollUnknown(g) PROVE IInv'
  BY AnswerFine, GotoKeeps, BoundsType, Zenon DEF PollUnknown, Answer, Reply, bounds

LEMMA StepReportTask ==
    ASSUME IInv, NEW g \in Goroutine, ReportTask(g) PROVE IInv'
  BY AnswerFine, GotoKeeps, BoundsType, ZenonT(30) DEF ReportTask, Called, Answer, Reply, bounds

\* A goroutine that stays where it is and drops what it holds.
LEMMA DropFine ==
    ASSUME IInv, NEW g \in Goroutine, NEW r, NEW call, NEW tries, Arrived(r, th[g].pc, call, tries),
           call # "ok", g # Main => tries = th[g].tries
    PROVE  r \in Locals /\ Fine(g, r)
<1>1. CASE g = Main
  BY <1>1, Mine, ArrivedMain DEF FineMain, Arrived
<1>2. CASE g # Main
  <2>1. g \in Task /\ FineTask(g, th[g]) /\ TypeOK
    BY <1>2, Mine
  <2>2. MoreTries(th[g]) => MoreTries(r)
    BY <1>2 DEF MoreTries, Arrived
  <2> QED
    BY <2>1, <2>2, ArrivedTask DEF FineTask, Arrived
<1> QED
  BY <1>1, <1>2

\* The places and the numbers of attempts of a goroutine are legal ones.
LEMMA LocalsFacts ==
    ASSUME IInv, NEW g \in Goroutine
    PROVE  th[g].pc \in MainPc \cup TaskPc /\ th[g].tries \in Tries /\ th[g].seed \in DOMAIN Schedulers
  BY Mine DEF Locals, MainPc, TaskPc, Tries

LEMMA StepLose ==
    ASSUME IInv, NEW g \in Goroutine, Lose(g) PROVE IInv'
<1>1. PICK error \in {"Unavailable", "Other"} :
          Goto(g, [At(th[g].pc) EXCEPT !.call = error, !.tries = th[g].tries])
  BY Zenon DEF Lose
<1> DEFINE r == [At(th[g].pc) EXCEPT !.call = error, !.tries = th[g].tries]
<1>2. Arrived(r, th[g].pc, error, th[g].tries)
  <2>1. Arrived([At(th[g].pc) EXCEPT !.call = error], th[g].pc, error, 0)
    BY LocalsFacts, ArrivesAt, ArrivesCalled, Zenon DEF Reply
  <2> QED
    BY <2>1, LocalsFacts, ArrivesTried, ZenonT(30)
<1> HIDE DEF r
<1>3. r \in Locals /\ Fine(g, r)
  BY <1>2, DropFine, ZenonT(30)
<1> QED
  BY <1>1, <1>3, GotoKeeps, BoundsType DEF Lose, r

LEMMA StepInterrupt ==
    ASSUME IInv, Interrupt PROVE IInv'
<1> DEFINE r == [At(th[Main].pc) EXCEPT !.call = "Other"]
<1>1. Main \in Goroutine
  BY DEF Goroutine
<1>2. Arrived(r, th[Main].pc, "Other", 0)
  BY <1>1, LocalsFacts, ArrivesAt, ArrivesCalled, Zenon DEF Reply
<1> HIDE DEF r
<1>3. r \in Locals /\ Fine(Main, r)
  BY <1>1, <1>2, DropFine, ZenonT(30)
<1> QED
  BY <1>1, <1>3, GotoKeeps, BoundsType DEF Interrupt, r, bounds

\* A goroutine in bootstrap.
LEMMA BootFine ==
    ASSUME IInv, NEW g \in Goroutine, th[g].pc \in {"discover", "register", "sleep"},
           NEW r, NEW pc \in {"discover", "register", "sleep"}, NEW call, NEW tries,
           Arrived(r, pc, call, tries), call # "ok"
    PROVE  r \in Locals /\ Fine(g, r)
<1>1. CASE g = Main
  BY <1>1, Mine, ArrivedMain DEF MainPc, WithID, Arrived
<1>2. CASE g # Main
  BY <1>2, Mine, ArrivedTask DEF FineTask, TaskPc, Arrived
<1> QED
  BY <1>1, <1>2

LEMMA StepAwake ==
    ASSUME IInv, NEW g \in Goroutine, Awake(g) PROVE IInv'
<1>1. CASE Goto(g, Bootstrapping(th[g].tries))
  <2>1. Arrived(Bootstrapping(th[g].tries), "discover", "no", th[g].tries)
    BY LocalsFacts, ArrivesBootstrapping
  <2>2. Bootstrapping(th[g].tries) \in Locals /\ Fine(g, Bootstrapping(th[g].tries))
    BY <2>1, BootFine DEF Awake
  <2> QED
    BY <1>1, <2>2, GotoKeeps, BoundsType DEF Awake, bounds
<1>2. CASE Canceled(g) /\ Goto(g, At(IF id = 0 THEN "stopped" ELSE "idle"))
  <2> DEFINE pc == IF id = 0 THEN "stopped" ELSE "idle"
  <2>1. g = Main /\ pc \in MainPc /\ (pc \in WithID => id # 0) /\ pc \notin {"register", "reregister"}
    BY <1>2 DEF Canceled, MainPc, WithID
  <2> HIDE DEF pc
  <2>2. Arrived(At(pc), pc, "no", 0)
    BY <2>1, ArrivesAt
  <2>3. At(pc) \in Locals /\ Fine(g, At(pc))
    BY <2>1, <2>2, Mine, ArrivedMain DEF Arrived
  <2> QED
    BY <1>2, <2>3, GotoKeeps, BoundsType DEF Awake, bounds, pc
<1> QED
  BY <1>1, <1>2 DEF Awake

LEMMA StepBeat ==
    ASSUME IInv, Beat PROVE IInv'
<1>1. Main \in Goroutine /\ id # 0
  BY Mine DEF Goroutine, Beat, FineMain, WithID
<1>2. Arrived(Calling("heartbeat", 0), "heartbeat", "sent", 0)
  BY ArrivesCalling, TriesFacts DEF MainPc
<1>3. Calling("heartbeat", 0) \in Locals /\ Fine(Main, Calling("heartbeat", 0))
  BY <1>1, <1>2, Mine, ArrivedMain DEF MainPc, Arrived
<1> QED
  BY <1>1, <1>3, GotoKeeps, BoundsType DEF Beat, bounds

LEMMA StepDrain ==
    ASSUME IInv, Drain PROVE IInv'
<1>1. Main \in Goroutine /\ id # 0
  BY Mine DEF Goroutine, Drain, FineMain, WithID
<1>2. Arrived(At("drain"), "drain", "no", 0)
  BY ArrivesAt DEF MainPc
<1>3. At("drain") \in Locals /\ Fine(Main, At("drain"))
  BY <1>1, <1>2, Mine, ArrivedMain DEF MainPc, Arrived
<1> QED
  BY <1>1, <1>3, GotoKeeps, BoundsType DEF Drain, bounds

\* Main asks for as many tasks as there is room for.
LEMMA StepPoll ==
    ASSUME IInv, Poll PROVE IInv'
<1> DEFINE r == [Calling("poll", 0) EXCEPT !.want = freeCapacity]
<1>1. Main \in Goroutine /\ id # 0 /\ TypeOK
  BY Mine DEF Goroutine, Poll, FineMain, WithID
<1>2. /\ freeCapacity \in Nat /\ freeCapacity + Cardinality(running) <= Capacity
      /\ Cardinality(running) \in Nat /\ Cardinality(running) <= Capacity
  BY <1>1, CardFacts, AgentAssumption DEF TypeOK, freeCapacity
<1>3. Arrived(Calling("poll", 0), "poll", "sent", 0)
  BY ArrivesCalling, TriesFacts DEF MainPc
<1>4. r \in Locals /\ r.pc = "poll" /\ r.call = "sent" /\ r.got = {} /\ r.want = freeCapacity
  BY <1>2, <1>3 DEF Arrived, Locals
<1> HIDE DEF r
<1>5. Room(r)
  BY <1>2, <1>4, EmptyCard DEF Room
<1>6. Fine(Main, r)
  BY <1>1, <1>4, <1>5 DEF Fine, FineMain, Identified, MainPc, WithID
<1> QED
  BY <1>1, <1>4, <1>6, GotoKeeps, BoundsType DEF Poll, bounds, r

\* A report was answered: the task is over, or it is tried again, or after bootstrap.
LEMMA StepReported ==
    ASSUME IInv, NEW t \in Task, Reported(t) PROVE IInv'
<1>1. /\ t \in Goroutine /\ t # Main /\ TypeOK /\ FineTask(t, th[t]) /\ th[t].pc = "report"
      /\ th[t].tries \in Tries
  BY Mine, LocalsFacts, AgentAssumption, ZenonT(30) DEF Goroutine, Reported
<1>2. t \in running /\ id # 0 /\ MoreTries(th[t])
  BY <1>1 DEF FineTask
<1>3. th[t].tries + 1 \in Tries
  BY <1>1, <1>2, AgentAssumption DEF Tries, MoreTries
<1>4. PICK r \in {At("finish"), Bootstrapping(th[t].tries + 1), Repeated(t)} : Goto(t, r)
  BY DEF Reported
<1>5. CASE r = At("finish")
  <2>1. Arrived(r, "finish", "no", 0)
    BY <1>5, ArrivesAt DEF TaskPc
  <2>2. r \in Locals /\ Fine(t, r)
    BY <1>1, <1>2, <2>1, ArrivedTask, ZenonT(30) DEF TaskPc, Arrived
  <2> QED
    BY <1>1, <1>4, <2>2, GotoKeeps, BoundsType DEF Reported, bounds
<1>6. CASE r = Bootstrapping(th[t].tries + 1)
  <2>1. Arrived(r, "discover", "no", th[t].tries + 1)
    BY <1>3, <1>6, ArrivesBootstrapping
  <2>2. r \in Locals /\ Fine(t, r)
    BY <1>1, <1>2, <2>1, ArrivedTask DEF TaskPc, Arrived
  <2> QED
    BY <1>1, <1>4, <2>2, GotoKeeps, BoundsType DEF Reported, bounds
<1>7. CASE r = Calling("report", th[t].tries + 1) /\ th[t].tries + 1 < ReportAttempts
  <2>1. Arrived(r, "report", "sent", th[t].tries + 1)
    BY <1>3, <1>7, ArrivesCalling DEF TaskPc
  <2>2. MoreTries(r)
    BY <1>7, <2>1 DEF MoreTries, Arrived
  <2>3. r \in Locals /\ Fine(t, r)
    BY <1>1, <1>2, <2>1, <2>2, ArrivedTask, ZenonT(30) DEF TaskPc, Arrived
  <2> QED
    BY <1>1, <1>4, <2>3, GotoKeeps, BoundsType DEF Reported, bounds
<1> QED
  BY <1>4, <1>5, <1>6, <1>7 DEF Repeated

-----------------------------------------------------------------------------
(* The cluster.                                                            *)

\* Registrations, elections and hints are nothing the goroutines hold.
LEMMA ClusterKeeps ==
    ASSUME IInv, UNCHANGED <<issued, minted, conn, id, tasks, th>>,
           leader' \in Scheduler \cup {None}, hint' \in [Scheduler -> Scheduler \cup {None}],
           registered' \in [Scheduler -> SUBSET Nat], canceled' \in BOOLEAN,
           changes' \in Nat, losses' \in Nat, repeats' \in Nat
    PROVE  IInv'
<1> USE DEF tasks
<1>1. TypeOK'
  BY DEF IInv, TypeOK
<1>2. \A x \in Goroutine : Fine(x, th[x])'
  BY DEF IInv, Fine, FineMain, FineTask, Identified, Granted, Room, MoreTries
<1>3. TasksInv'
  BY DEF IInv, TasksInv, Fresh
<1> QED
  BY <1>1, <1>2, <1>3 DEF IInv

LEMMA StepElect ==
    ASSUME IInv, NEW s \in Scheduler, Elect(s) PROVE IInv'
<1>1. TypeOK
  BY DEF IInv
<1>2. /\ hint \in [Scheduler -> Scheduler \cup {None}] /\ registered \in [Scheduler -> SUBSET Nat]
      /\ changes \in Nat /\ losses \in Nat /\ repeats \in Nat /\ canceled \in BOOLEAN
  BY <1>1, Zenon DEF TypeOK
<1>3. /\ changes' = changes + 1 /\ leader' = s /\ hint' = [hint EXCEPT ![s] = s]
      /\ UNCHANGED <<issued, minted, conn, id, tasks, th, canceled, losses, repeats>>
  BY Zenon DEF Elect
<1>4. PICK other \in Scheduler : registered' = [registered EXCEPT ![s] = @ \cup registered[other]]
  BY Zenon DEF Elect
<1>5. leader' \in Scheduler \cup {None} /\ hint' \in [Scheduler -> Scheduler \cup {None}]
  BY <1>2, <1>3
<1>6. registered' \in [Scheduler -> SUBSET Nat]
  BY <1>2, <1>4
<1>7. changes' \in Nat
  BY <1>2, <1>3
<1> QED
  BY <1>2, <1>3, <1>5, <1>6, <1>7, ClusterKeeps

LEMMA StepInform ==
    ASSUME IInv, NEW s \in Scheduler, Inform(s) PROVE IInv'
<1>1. TypeOK
  BY DEF IInv
<1>2. /\ leader \in Scheduler \cup {None} /\ hint \in [Scheduler -> Scheduler \cup {None}]
      /\ registered \in [Scheduler -> SUBSET Nat]
      /\ changes \in Nat /\ losses \in Nat /\ repeats \in Nat /\ canceled \in BOOLEAN
  BY <1>1, Zenon DEF TypeOK
<1>3. /\ hint' = [hint EXCEPT ![s] = leader]
      /\ UNCHANGED <<leader, registered, issued, minted, conn, id, tasks, th, canceled, changes, losses, repeats>>
  BY Zenon DEF Inform, bounds
<1> QED
  BY <1>2, <1>3, ClusterKeeps

LEMMA StepCancel ==
    ASSUME IInv, Cancel PROVE IInv'
<1>1. TypeOK
  BY DEF IInv
<1>2. /\ leader \in Scheduler \cup {None} /\ hint \in [Scheduler -> Scheduler \cup {None}]
      /\ registered \in [Scheduler -> SUBSET Nat]
      /\ changes \in Nat /\ losses \in Nat /\ repeats \in Nat
  BY <1>1, Zenon DEF TypeOK
<1>3. /\ canceled' = TRUE
      /\ UNCHANGED <<leader, hint, registered, issued, minted, conn, id, tasks, th, changes, losses, repeats>>
  BY Zenon DEF Cancel, bounds, cluster
<1> QED
  BY <1>2, <1>3, ClusterKeeps

\* A registration grants the id the worker brings, or a new one if it has none.
LEMMA StepRegisterWorker ==
    ASSUME IInv, NEW g \in Goroutine, RegisterWorker(g) PROVE IInv'
<1>0. PICK new : new = AssignedID(id)
  OBVIOUS
<1> DEFINE r == [th[g] EXCEPT !.call = "ok", !.newID = new]
<1>1. /\ TypeOK /\ issued \in Nat /\ id \in 0 .. issued
      /\ issued' = IF new > issued THEN new ELSE issued
  BY <1>0 DEF IInv, TypeOK, RegisterWorker
<1>2. new \in Nat /\ new # 0 /\ (id # 0 => new = id) /\ issued' \in Nat /\ issued' >= issued /\ new <= issued'
  BY <1>0, <1>1 DEF AssignedID
<1>3. id' = id /\ id \in 0 .. issued'
  BY <1>1, <1>2 DEF RegisterWorker
<1>4. Goto(g, r) /\ registered' = [registered EXCEPT ![leader] = @ \cup {new}]
  BY <1>0 DEF RegisterWorker
<1>5. /\ r \in Locals /\ r.newID = new /\ r.pc = th[g].pc /\ r.got = th[g].got /\ r.want = th[g].want
      /\ r.tries = th[g].tries
  BY <1>2, Mine, ZenonT(30) DEF Locals, Reply
<1> HIDE DEF r
<1>6. registered' \in [Scheduler -> SUBSET Nat]
  BY <1>1, <1>2, <1>4, Zenon DEF TypeOK
<1>7. TypeOK'
  <2>1. th' \in [Goroutine -> Locals]
    BY <1>1, <1>4, <1>5 DEF TypeOK, Goto
  <2> QED
    BY <1>1, <1>2, <1>3, <1>6, <2>1 DEF TypeOK, RegisterWorker, tasks, bounds
<1>8. ASSUME NEW x \in Goroutine PROVE Fine(x, th[x])'
  <2>1. \A n \in Nat : Granted(n) => Granted(n)'
    BY <1>1, <1>2, <1>3 DEF Granted
  <2>2. Granted(new)'
    BY <1>2, <1>3 DEF Granted
  <2>3. th'[x] \in Locals /\ th'[x].newID \in Nat /\ th[x].newID \in Nat
    BY <1>7, Mine DEF TypeOK, Locals
  <2>4. CASE x = g
    <3>1. th'[x] = r
      BY <1>1, <1>4, <2>4 DEF TypeOK, Goto
    <3>2. Identified(th[x])'
      BY <1>5, <2>2, <3>1 DEF Identified
    <3>3. Room(th[x]) => Room(th[x])'
      BY <1>5, <2>4, <3>1 DEF Room, RegisterWorker, tasks
    <3>4. MoreTries(th[x]) => MoreTries(th[x])'
      BY <1>5, <2>4, <3>1 DEF MoreTries
    <3> QED
      BY <1>3, <1>5, <2>4, <3>1, <3>2, <3>3, <3>4, Mine
         DEF Fine, FineMain, FineTask, RegisterWorker, tasks
  <2>5. CASE x # g
    <3>1. th'[x] = th[x]
      BY <1>1, <1>4, <2>5 DEF TypeOK, Goto
    <3>2. Identified(th[x])'
      BY <2>1, <2>3, <3>1, Mine DEF Identified, Fine
    <3> QED
      BY <1>3, <3>1, <3>2, Mine
         DEF Fine, FineMain, FineTask, Room, MoreTries, RegisterWorker, tasks
  <2> QED
    BY <2>4, <2>5
<1>9. TasksInv'
  BY DEF IInv, TasksInv, Fresh, RegisterWorker, tasks
<1> QED
  BY <1>7, <1>8, <1>9 DEF IInv

\* The tasks of an answer are new ones, or delivered again; they fit into the room that
\* was asked for.
LEMMA StepPollTask ==
    ASSUME IInv, NEW g \in Goroutine, PollTask(g) PROVE IInv'
<1>1. PICK new \in SUBSET (Task \ minted), again \in SUBSET minted :
          /\ Cardinality(new \cup again) <= th[g].want
          /\ repeats' = repeats + Cardinality(again)
          /\ minted' = minted \cup new
          /\ Goto(g, [th[g] EXCEPT !.call = "ok", !.got = new \cup again])
  BY Zenon DEF PollTask
<1>2. TypeOK /\ TasksInv /\ g = Main
  BY Mine DEF IInv, PollTask, Called, FineTask, TaskPc
<1>3. FineMain(th[g]) /\ th[g] \in Locals
  BY <1>2, Mine
<1> DEFINE got == new \cup again
           r == [th[g] EXCEPT !.call = "ok", !.got = got]
<1>4. got \in SUBSET Task /\ got \subseteq minted' /\ minted' \in SUBSET Task
  BY <1>1, <1>2 DEF TypeOK, TasksInv
<1>5. /\ Cardinality(got) \in Nat /\ Cardinality(again) \in Nat /\ Cardinality(running) \in Nat
      /\ Cardinality(got) <= th[g].want
      /\ repeats' \in Nat
  <2>1. again \in SUBSET Task /\ running \in SUBSET Task /\ repeats \in Nat
    BY <1>2 DEF TypeOK
  <2>2. Cardinality(got) \in Nat /\ Cardinality(again) \in Nat /\ Cardinality(running) \in Nat
    BY <1>4, <2>1, CardFacts
  <2> QED
    BY <1>1, <2>1, <2>2
<1> HIDE DEF got
<1>6. r \in Locals /\ r.call = "ok" /\ r.got = got /\ r.pc = "poll" /\ r.want = th[g].want
  BY <1>3, <1>4, ZenonT(30) DEF Locals, Reply, PollTask, Called
<1>7. Goto(g, r)
  BY <1>1 DEF got
<1> HIDE DEF r
<1>8. UNCHANGED <<leader, hint, registered, issued, conn, id, running, done, old, executed, refused, canceled, changes, losses>>
  BY DEF PollTask, tasks
<1>9. TypeOK'
  <2>1. th' \in [Goroutine -> Locals]
    BY <1>2, <1>6, <1>7 DEF TypeOK, Goto
  <2> QED
    BY <1>2, <1>4, <1>5, <1>8, <2>1 DEF TypeOK
<1>10. ASSUME NEW x \in Goroutine PROVE Fine(x, th[x])'
  <2>1. CASE x = g
    <3>1. th'[x] = r
      BY <1>2, <1>7, <2>1 DEF TypeOK, Goto
    <3>2. Room(th[x])'
      <4>1. th[g].want \in Nat /\ th[g].want + Cardinality(running) <= Capacity
        BY <1>3 DEF FineMain, Room, Locals
      <4>2. th'[x].got = got /\ th'[x].want = th[g].want /\ running' = running
        BY <1>6, <1>8, <3>1
      <4> QED
        BY <1>5, <4>1, <4>2, AgentAssumption DEF Room
    <3> QED
      BY <1>2, <1>3, <1>4, <1>6, <1>8, <2>1, <3>1, <3>2 DEF Fine, FineMain, Identified, PollTask, Called
  <2>2. CASE x # g
    <3>1. th'[x] = th[x] /\ x # Main
      BY <1>2, <1>7, <2>2 DEF TypeOK, Goto
    <3> QED
      BY <1>8, <3>1, Mine DEF Fine, FineTask, Identified, Granted, MoreTries
  <2> QED
    BY <2>1, <2>2
<1>11. TasksInv'
  BY <1>1, <1>2, <1>8 DEF TasksInv, Fresh
<1> QED
  BY <1>9, <1>10, <1>11 DEF IInv

-----------------------------------------------------------------------------
(* Discovery, registration and the answers of Run.                         *)

\* The goroutine connects, and the calls of the others fail.
LEMMA ConnectKeeps ==
    ASSUME IInv, NEW g \in Goroutine, NEW addr \in Scheduler, Connect(g, addr), th[g].pc = "discover",
           UNCHANGED <<cluster, id, tasks, canceled, bounds>>
    PROVE  IInv'
<1>1. ASSUME NEW x \in Goroutine PROVE th'[x] \in Locals /\ Fine(x, th'[x])
  <2>1. CASE x = g
    <3>1. th'[x] = Calling("register", th[g].tries)
      BY <2>1 DEF Connect
    <3>2. Arrived(Calling("register", th[g].tries), "register", "sent", th[g].tries)
      BY LocalsFacts, ArrivesCalling DEF MainPc
    <3> QED
      BY <2>1, <3>1, <3>2, BootFine
  <2>2. CASE x # g /\ th[x].call = "sent"
    <3>1. th'[x] = [th[x] EXCEPT !.call = "Other"]
      BY <2>2 DEF Connect
    <3> QED
      BY <3>1, AnswerFine, ZenonT(30) DEF Reply
  <2>3. CASE x # g /\ th[x].call # "sent"
    <3>1. th'[x] = th[x]
      BY <2>3 DEF Connect
    <3> QED
      BY <3>1, Mine
  <2> QED
    BY <2>1, <2>2, <2>3
<1>2. TypeOK'
  <2>1. th' \in [Goroutine -> Locals]
    BY <1>1 DEF Connect
  <2> QED
    BY <2>1 DEF IInv, TypeOK, cluster, tasks, bounds, Connect
<1>3. ASSUME NEW x \in Goroutine PROVE Fine(x, th[x])'
  BY <1>1 DEF Fine, FineMain, FineTask, Identified, Granted, Room, MoreTries, cluster, tasks
<1>4. TasksInv'
  BY DEF IInv, TasksInv, Fresh, cluster, tasks
<1> QED
  BY <1>2, <1>3, <1>4 DEF IInv

\* The next seed, or a wait.
LEMMA SkipFine ==
    ASSUME IInv, NEW g \in Goroutine, th[g].pc = "discover"
    PROVE  /\ th[g].seed < Len(Schedulers) =>
                  [th[g] EXCEPT !.seed = @ + 1] \in Locals /\ Fine(g, [th[g] EXCEPT !.seed = @ + 1])
           /\ [At("sleep") EXCEPT !.tries = th[g].tries] \in Locals
           /\ Fine(g, [At("sleep") EXCEPT !.tries = th[g].tries])
<1>1. ASSUME th[g].seed < Len(Schedulers)
      PROVE  [th[g] EXCEPT !.seed = @ + 1] \in Locals /\ Fine(g, [th[g] EXCEPT !.seed = @ + 1])
  <2>1. PICK k : k = th[g].seed + 1
    OBVIOUS
  <2>2. k \in DOMAIN Schedulers
    <3>1. th[g].seed \in DOMAIN Schedulers
      BY LocalsFacts
    <3> QED
      BY <1>1, <2>1, <3>1, SchedulersFacts
  <2> DEFINE r == [th[g] EXCEPT !.seed = k]
  <2>3. /\ r \in Locals /\ r.pc = th[g].pc /\ r.call = th[g].call /\ r.newID = th[g].newID
        /\ r.got = th[g].got /\ r.want = th[g].want /\ r.tries = th[g].tries
    BY <2>2, Mine DEF Locals
  <2> HIDE DEF r
  <2>4. Room(th[g]) => Room(r)
    BY <2>3 DEF Room
  <2>5. Fine(g, r)
    BY <2>3, <2>4, Mine DEF Fine, FineMain, FineTask, Identified
  <2> QED
    BY <2>1, <2>3, <2>5 DEF r
<1>2. Arrived([At("sleep") EXCEPT !.tries = th[g].tries], "sleep", "no", th[g].tries)
  BY LocalsFacts, ArrivesAt, ArrivesTried DEF MainPc
<1> QED
  BY <1>1, <1>2, BootFine

LEMMA StepDiscover ==
    ASSUME IInv, NEW g \in Goroutine, Discover(g) PROVE IInv'
<1>1. /\ th[g].pc = "discover" /\ UNCHANGED <<cluster, id, tasks, canceled, changes, repeats>>
  BY DEF Discover
<1>2. CASE hint[Schedulers[th[g].seed]] # None /\ Connect(g, hint[Schedulers[th[g].seed]]) /\ losses' = losses
  <2>1. hint[Schedulers[th[g].seed]] \in Scheduler
    BY <1>2, LocalsFacts, SchedulersFacts, Mine DEF TypeOK
  <2> QED
    BY <1>1, <1>2, <2>1, ConnectKeeps DEF bounds
<1>3. CASE /\ IF th[g].seed < Len(Schedulers)
              THEN Goto(g, [th[g] EXCEPT !.seed = @ + 1])
              ELSE Goto(g, [At("sleep") EXCEPT !.tries = th[g].tries])
           /\ UNCHANGED conn
           /\ losses' \in {losses, losses + 1}
  <2>1. \E r \in Locals : Goto(g, r) /\ Fine(g, r)
    BY <1>1, <1>3, SkipFine
  <2>2. losses' \in Nat
    BY <1>3, BoundsType
  <2> QED
    BY <1>1, <1>3, <2>1, <2>2, GotoKeeps, BoundsType
<1> QED
  BY <1>2, <1>3 DEF Discover

\* Where a goroutine goes on after bootstrap, once the worker has an id.
LEMMA ResumedFacts ==
    ASSUME IInv, NEW g \in Goroutine, th[g].pc = "register"
    PROVE  /\ g = Main => Arrived(Resumed(g), "idle", "no", 0)
           /\ g # Main => /\ Resumed(g) \in Locals
                          /\ Fine(g, Resumed(g))
<1>1. CASE g = Main
  BY <1>1, ArrivesAt DEF Resumed, MainPc
<1>2. CASE g # Main /\ th[g].tries < ReportAttempts
  <2>1. Arrived(Resumed(g), "report", "sent", th[g].tries)
    BY <1>2, LocalsFacts, ArrivesCalling DEF Resumed, TaskPc
  <2>2. MoreTries(Resumed(g))
    BY <1>2, <2>1 DEF MoreTries, Arrived
  <2> QED
    BY <1>2, <2>1, <2>2, Mine, ArrivedTask DEF FineTask, TaskPc, Arrived
<1>3. CASE g # Main /\ ~(th[g].tries < ReportAttempts)
  <2>1. Arrived(Resumed(g), "finish", "no", 0)
    BY <1>3, ArrivesAt DEF Resumed, TaskPc
  <2> QED
    BY <1>3, <2>1, Mine, ArrivedTask DEF FineTask, TaskPc, Arrived
<1> QED
  BY <1>1, <1>2, <1>3

\* A worker without an id has no goroutine but Main.
LEMMA AloneWithoutID ==
    ASSUME IInv, id = 0, NEW x \in Goroutine, x # Main PROVE th[x].pc = "none"
  BY Mine DEF FineTask

LEMMA StepRegistered ==
    ASSUME IInv, NEW g \in Goroutine, Registered(g) PROVE IInv'
<1>1. /\ th[g].pc = "register" /\ UNCHANGED <<cluster, conn, tasks, canceled, bounds>>
      /\ TypeOK /\ Fine(g, th[g])
  BY Mine DEF Registered
<1>2. CASE th[g].call # "ok"
  <2> DEFINE r == [At("sleep") EXCEPT !.tries = th[g].tries]
  <2>1. Arrived(r, "sleep", "no", th[g].tries)
    BY LocalsFacts, ArrivesAt, ArrivesTried DEF MainPc
  <2>2. Goto(g, r) /\ id' = id
    BY <1>2 DEF Registered
  <2> HIDE DEF r
  <2>3. r \in Locals /\ Fine(g, r)
    BY <1>1, <2>1, BootFine
  <2> QED
    BY <1>1, <2>2, <2>3, GotoKeeps, BoundsType DEF bounds
<1>3. CASE th[g].call = "ok"
  <2>1. id' = th[g].newID /\ Goto(g, Resumed(g)) /\ Granted(th[g].newID)
    BY <1>1, <1>3 DEF Registered, Fine, Identified
  <2>2. CASE id # 0
    <3>1. id' = id
      BY <2>1, <2>2 DEF Granted
    <3>2. Resumed(g) \in Locals /\ Fine(g, Resumed(g))
      <4>1. CASE g = Main
        BY <1>1, <2>2, <4>1, ResumedFacts, ArrivedMain DEF Arrived, MainPc
      <4>2. CASE g # Main
        BY <1>1, <4>2, ResumedFacts
      <4> QED
        BY <4>1, <4>2
    <3> QED
      BY <1>1, <2>1, <3>1, <3>2, GotoKeeps, BoundsType DEF bounds
  <2>3. CASE id = 0
    <3>1. g = Main
      BY <1>1, <2>3, AloneWithoutID
    <3>2. Arrived(Resumed(g), "idle", "no", 0)
      BY <1>1, <3>1, ResumedFacts
    <3>3. TypeOK'
      <4>1. th' \in [Goroutine -> Locals]
        BY <1>1, <2>1, <3>2 DEF TypeOK, Goto, Arrived
      <4>2. id' \in 0 .. issued'
        <5>1. th[g].newID \in Nat /\ issued \in Nat /\ issued' = issued
          BY <1>1, Mine DEF Locals, TypeOK, cluster
        <5> QED
          BY <2>1, <5>1 DEF Granted
      <4> QED
        BY <1>1, <4>1, <4>2 DEF TypeOK, cluster, tasks, bounds
    <3>4. ASSUME NEW x \in Goroutine PROVE Fine(x, th[x])'
      <4>1. CASE x = Main
        <5>1. th'[x] = Resumed(g)
          BY <1>1, <2>1, <3>1, <4>1 DEF TypeOK, Goto
        <5>2. Room(th[x])'
          <6>1. Cardinality(running) \in Nat /\ Cardinality(running) <= Capacity /\ running' = running
            BY <1>1, CardFacts DEF TypeOK, tasks
          <6>2. th'[x].got = {} /\ th'[x].want = 0
            BY <3>2, <5>1 DEF Arrived
          <6> QED
            BY <6>1, <6>2, EmptyCard, AgentAssumption DEF Room
        <5>3. id' # 0
          BY <2>1 DEF Granted
        <5> QED
          BY <3>2, <4>1, <5>1, <5>2, <5>3 DEF Fine, FineMain, Identified, Arrived, MainPc
      <4>2. CASE x # Main
        <5>1. th'[x] = th[x] /\ th[x].pc = "none"
          BY <1>1, <2>1, <2>3, <3>1, <4>2, AloneWithoutID DEF TypeOK, Goto
        <5> QED
          BY <4>2, <5>1, Mine DEF Fine, FineTask, Identified
      <4> QED
        BY <4>1, <4>2
    <3>5. TasksInv'
      BY <1>1 DEF IInv, TasksInv, Fresh, cluster, tasks
    <3> QED
      BY <3>3, <3>4, <3>5 DEF IInv
  <2> QED
    BY <2>2, <2>3
<1> QED
  BY <1>2, <1>3

\* An answer to Run leaves the worker its id: one that registers again brings it.
LEMMA AnsweredKeepsID ==
    ASSUME IInv, Answered PROVE id' = id
<1>1. Fine(Main, th[Main]) /\ FineMain(th[Main])
  BY Mine DEF Goroutine
<1> QED
  BY <1>1 DEF Answered, Fine, FineMain, WithID, Identified, Granted

LEMMA StepAnswered ==
    ASSUME IInv, Answered PROVE IInv'
<1>1. Main \in Goroutine /\ TypeOK /\ FineMain(th[Main]) /\ th[Main] \in Locals
  BY Mine DEF Goroutine
<1>2. id # 0
  BY <1>1 DEF FineMain, Answered, WithID
<1>3. id' = id /\ UNCHANGED <<cluster, conn, tasks, canceled, bounds>>
  BY AnsweredKeepsID DEF Answered
<1>4. PICK r \in {Bootstrapping(0), Calling("reregister", 0), [At("start") EXCEPT !.got = th[Main].got],
                  At("idle")} : Goto(Main, r)
  BY DEF Answered
<1>5. CASE r = [At("start") EXCEPT !.got = th[Main].got]
  <2>1. Arrived(At("start"), "start", "no", 0)
    BY ArrivesAt DEF MainPc
  <2>2. r \in Locals /\ r.pc = "start" /\ r.call = "no" /\ r.got = th[Main].got /\ r.want = 0
    BY <1>1, <1>5, <2>1 DEF Arrived, Locals
  <2>3. Room(r)
    <3>1. Cardinality(running) \in Nat /\ Cardinality(running) <= Capacity
      BY <1>1, CardFacts DEF TypeOK
    <3>2. Cardinality(th[Main].got) + Cardinality(running) <= Capacity
      BY <1>1 DEF FineMain, Room
    <3>3. r.got = th[Main].got /\ r.want = 0
      BY <2>2
    <3> QED
      BY <3>1, <3>2, <3>3 DEF Room
  <2>4. Fine(Main, r)
    BY <1>1, <1>2, <2>2, <2>3 DEF Fine, FineMain, Identified, MainPc
  <2> QED
    BY <1>1, <1>3, <1>4, <2>2, <2>4, GotoKeeps, BoundsType DEF bounds
<1>6. CASE r # [At("start") EXCEPT !.got = th[Main].got]
  <2>1. \/ Arrived(r, "discover", "no", 0)
        \/ Arrived(r, "reregister", "sent", 0)
        \/ Arrived(r, "idle", "no", 0)
    BY <1>4, <1>6, ArrivesAt, ArrivesCalling, ArrivesBootstrapping, TriesFacts DEF MainPc
  <2>2. r \in Locals /\ Fine(Main, r)
    BY <1>1, <1>2, <2>1, ArrivedMain DEF Arrived, MainPc
  <2> QED
    BY <1>1, <1>3, <1>4, <2>2, GotoKeeps, BoundsType DEF bounds
<1> QED
  BY <1>5, <1>6

-----------------------------------------------------------------------------
(* Tasks.                                                                  *)

\* What is left to start holds nothing else.
LEMMA RestFacts ==
    ASSUME NEW left \in SUBSET Task, NEW r,
           r = IF left = {} THEN At("idle") ELSE [At("start") EXCEPT !.got = left]
    PROVE  /\ r \in Locals /\ r.pc \in {"idle", "start"} /\ r.call = "no" /\ r.got = left /\ r.want = 0
<1>1. Arrived(At("idle"), "idle", "no", 0) /\ Arrived(At("start"), "start", "no", 0)
  BY ArrivesAt DEF MainPc
<1>2. CASE left = {}
  BY <1>1, <1>2 DEF Arrived
<1>3. CASE left # {}
  BY <1>1, <1>3 DEF Arrived, Locals
<1> QED
  BY <1>2, <1>3

\* Every task of an answer finds room, unless it is running or done already.
LEMMA StepStart ==
    ASSUME IInv, Start PROVE IInv'
<1>1. PICK t \in th[Main].got :
          LET left == th[Main].got \ {t}
              rest == IF left = {} THEN At("idle") ELSE [At("start") EXCEPT !.got = left] IN
          IF tryStart(t)
          THEN /\ running' = running \cup {t}
               /\ th' = [th EXCEPT ![Main] = rest, ![t] = At("execute")]
               /\ UNCHANGED refused
          ELSE /\ refused' = refused \cup ({t} \ (running \cup done))
               /\ Goto(Main, rest)
               /\ UNCHANGED running
  BY Zenon DEF Start
<1>2. /\ Main \in Goroutine /\ TypeOK /\ TasksInv /\ FineMain(th[Main]) /\ th[Main] \in Locals
      /\ th[Main].pc = "start" /\ id # 0
      /\ UNCHANGED <<cluster, conn, id, done, old, executed, canceled, bounds>>
  BY Mine DEF Goroutine, Start, IInv, FineMain, WithID
<1>3. PICK left : left = th[Main].got \ {t}
  BY Zenon
<1>4. PICK rest : rest = IF left = {} THEN At("idle") ELSE [At("start") EXCEPT !.got = left]
  BY Zenon
<1>5. /\ t \in Task /\ t # Main /\ t \in Goroutine /\ t \in minted
      /\ th[Main].got \in SUBSET Task /\ left \in SUBSET Task /\ left \subseteq minted
  BY <1>2, <1>3, AgentAssumption DEF FineMain, Locals, Goroutine
<1>6. /\ rest \in Locals /\ rest.pc \in {"idle", "start"} /\ rest.call = "no" /\ rest.got = left
      /\ rest.want = 0
  BY <1>4, <1>5, RestFacts, ZenonT(30)
<1>7. /\ Cardinality(left) \in Nat /\ Cardinality(running) \in Nat
      /\ Cardinality(left) + Cardinality(running) + 1 <= Capacity
  <2>1. /\ Cardinality(left) \in Nat /\ Cardinality(running) \in Nat /\ Cardinality(th[Main].got) \in Nat
        /\ Cardinality(left) = Cardinality(th[Main].got) - 1
    BY <1>2, <1>3, <1>5, CardFacts DEF TypeOK
  <2>2. Cardinality(th[Main].got) + Cardinality(running) <= Capacity
    BY <1>2 DEF FineMain, Room
  <2> QED
    BY <2>1, <2>2, AgentAssumption
<1>8. Cardinality(running) < Capacity
  BY <1>7, AgentAssumption
<1>9. CASE tryStart(t)
  <2>1. /\ t \notin running /\ t \notin done
        /\ running' = running \cup {t} /\ th' = [th EXCEPT ![Main] = rest, ![t] = At("execute")]
        /\ refused' = refused
    BY <1>1, <1>3, <1>4, <1>9 DEF tryStart
  <2>2. Cardinality(running') = Cardinality(running) + 1
    BY <1>2, <1>5, <2>1, CardFacts DEF TypeOK
  <2>3. (t \in old \/ executed[t] = 0) /\ executed' = executed
    BY <1>2, <1>5, <2>1 DEF TasksInv, Fresh
  <2>4. Arrived(At("execute"), "execute", "no", 0)
    BY ArrivesAt DEF TaskPc
  <2>5. TypeOK'
    <3>1. th' \in [Goroutine -> Locals]
      BY <1>2, <1>6, <2>1, <2>4, ZenonT(30) DEF TypeOK, Arrived
    <3>2. Cardinality(running') <= Capacity
      BY <1>7, <2>2, AgentAssumption
    <3> QED
      BY <1>2, <1>5, <2>1, <3>1, <3>2 DEF TypeOK, cluster, bounds
  <2>6. ASSUME NEW x \in Goroutine PROVE Fine(x, th[x])'
    <3>1. CASE x = Main
      <4>1. th'[x] = rest
        BY <1>2, <1>5, <2>1, <3>1 DEF TypeOK
      <4>2. Room(th[x])'
        <5>1. th'[x].got = left /\ th'[x].want = 0
          BY <1>6, <4>1
        <5> QED
          BY <1>7, <2>2, <5>1, AgentAssumption DEF Room
      <4> QED
        BY <1>2, <1>5, <1>6, <3>1, <4>1, <4>2 DEF Fine, FineMain, Identified, MainPc, cluster
    <3>2. CASE x = t
      <4>1. th'[x] = At("execute")
        BY <1>2, <1>5, <2>1, <3>2 DEF TypeOK
      <4> QED
        BY <1>2, <1>5, <2>1, <2>3, <2>4, <3>2, <4>1, ZenonT(30) DEF Fine, FineTask, Identified, TaskPc, Arrived
    <3>3. CASE x # Main /\ x # t
      <4>1. th'[x] = th[x]
        BY <1>2, <2>1, <3>3 DEF TypeOK
      <4> QED
        BY <1>2, <2>1, <3>3, <4>1, Mine, ZenonT(30)
           DEF Fine, FineTask, Identified, Granted, MoreTries, cluster
    <3> QED
      BY <3>1, <3>2, <3>3
  <2>7. TasksInv'
    BY <1>2, <1>5, <2>1 DEF TasksInv, Fresh, cluster
  <2> QED
    BY <2>5, <2>6, <2>7 DEF IInv
<1>10. CASE ~tryStart(t)
  <2>1. t \in running \/ t \in done
    BY <1>8, <1>10 DEF tryStart
  <2>2. refused' = refused /\ running' = running /\ Goto(Main, rest)
    BY <1>1, <1>3, <1>4, <1>10, <2>1
  <2>3. Room(rest)
    <3>1. rest.got = left /\ rest.want = 0
      BY <1>6
    <3> QED
      BY <1>7, <3>1, AgentAssumption DEF Room
  <2>4. Fine(Main, rest)
    BY <1>2, <1>5, <1>6, <2>3, ZenonT(30) DEF Fine, FineMain, Identified, MainPc
  <2> QED
    BY <1>2, <1>6, <2>2, <2>4, GotoKeeps, BoundsType DEF bounds, tasks
<1> QED
  BY <1>9, <1>10

\* The process exits: no goroutine is left.
LEMMA StepExit ==
    ASSUME IInv, Exit PROVE IInv'
<1>1. /\ TypeOK /\ UNCHANGED <<cluster, conn, id, tasks, canceled, bounds>>
      /\ th' = [g \in Goroutine |-> At(IF g = Main THEN "stopped" ELSE "none")]
  BY DEF IInv, Exit
<1>2. Arrived(At("stopped"), "stopped", "no", 0) /\ Arrived(At("none"), "none", "no", 0)
  BY ArrivesAt DEF MainPc, TaskPc
<1>3. ASSUME NEW x \in Goroutine PROVE th'[x] \in Locals /\ Fine(x, th'[x])
  <2>1. CASE x = Main
    BY <1>1, <1>2, <2>1, ArrivedMain DEF MainPc, WithID, Arrived
  <2>2. CASE x # Main
    <3>1. x \in Task /\ th'[x] = At("none")
      BY <1>1, <2>2 DEF Goroutine
    <3> QED
      BY <1>1, <1>2, <3>1, ArrivedTask DEF TaskPc, Arrived
  <2> QED
    BY <2>1, <2>2
<1>4. TypeOK'
  <2>1. th' \in [Goroutine -> Locals]
    BY <1>1, <1>3
  <2> QED
    BY <1>1, <2>1 DEF TypeOK, cluster, tasks, bounds
<1>5. ASSUME NEW x \in Goroutine PROVE Fine(x, th[x])'
  BY <1>1, <1>3 DEF Fine, FineMain, FineTask, Identified, Granted, Room, MoreTries, cluster, tasks
<1>6. TasksInv'
  BY <1>1 DEF IInv, TasksInv, Fresh, cluster, tasks
<1> QED
  BY <1>4, <1>5, <1>6 DEF IInv

\* A task is executed for the first time, or has been forgotten.
LEMMA StepExecute ==
    ASSUME IInv, NEW t \in Task, Execute(t) PROVE IInv'
<1>1. /\ TypeOK /\ TasksInv /\ t \in Goroutine /\ t # Main /\ FineTask(t, th[t])
      /\ Goto(t, Calling("report", 0)) /\ executed' = [executed EXCEPT ![t] = @ + 1]
      /\ UNCHANGED <<cluster, conn, id, running, done, old, refused, canceled, bounds>>
  BY Mine, AgentAssumption DEF IInv, Goroutine, Execute
<1>2. t \in running /\ id # 0 /\ (t \in old \/ executed[t] = 0)
  BY <1>1 DEF FineTask, Execute
<1>3. (t \in old \/ executed'[t] = 1) /\ (\A x \in Task \ {t} : executed'[x] = executed[x]) /\ executed' \in [Task -> Nat]
  BY <1>1, <1>2 DEF TypeOK
<1>4. Arrived(Calling("report", 0), "report", "sent", 0)
  BY ArrivesCalling, TriesFacts DEF TaskPc
<1>5. TypeOK'
  <2>1. th' \in [Goroutine -> Locals]
    BY <1>1, <1>4 DEF TypeOK, Goto, Arrived
  <2> QED
    BY <1>1, <1>3, <2>1 DEF TypeOK, cluster, bounds
<1>6. ASSUME NEW x \in Goroutine PROVE Fine(x, th[x])'
  <2>1. CASE x = t
    <3>1. th'[x] = Calling("report", 0)
      BY <1>1, <2>1 DEF TypeOK, Goto
    <3>2. MoreTries(th[x])'
      BY <1>4, <3>1, AgentAssumption DEF MoreTries, Arrived
    <3> QED
      BY <1>1, <1>2, <1>4, <2>1, <3>1, <3>2 DEF Fine, FineTask, Identified, TaskPc, Arrived
  <2>2. CASE x # t
    <3>1. th'[x] = th[x]
      BY <1>1, <2>2 DEF TypeOK, Goto
    <3> QED
      BY <1>1, <1>3, <2>2, <3>1, Mine, ZenonT(30)
         DEF Fine, FineMain, FineTask, Identified, Granted, Room, MoreTries, cluster
  <2> QED
    BY <2>1, <2>2
<1>7. TasksInv'
  <2>1. ASSUME NEW x \in Task \ old PROVE executed'[x] \in {0, 1} /\ (Fresh(x)' => executed'[x] = 0)
    <3>1. CASE x = t
      BY <1>1, <1>2, <1>3, <3>1 DEF Fresh
    <3>2. CASE x # t
      BY <1>1, <1>3, <3>2 DEF TasksInv, Fresh
    <3> QED
      BY <3>1, <3>2
  <2> QED
    BY <1>1, <2>1 DEF TasksInv, cluster
<1> QED
  BY <1>5, <1>6, <1>7 DEF IInv

\* A finished task leaves its place and is remembered, until it is old.
LEMMA Stepfinish ==
    ASSUME IInv, NEW t \in Task, finish(t) PROVE IInv'
<1>1. /\ TypeOK /\ TasksInv /\ t \in Goroutine /\ t # Main /\ Main \in Goroutine /\ FineTask(t, th[t])
      /\ Goto(t, At("none")) /\ running' = running \ {t}
      /\ UNCHANGED <<cluster, conn, id, executed, refused, canceled, bounds>>
  BY Mine, AgentAssumption, ZenonT(30) DEF IInv, Goroutine, finish
<1>2. PICK stale \in SUBSET done : done' = (done \cup {t}) \ stale /\ old' = old \cup stale
  BY DEF finish
<1>3. t \in running /\ t \in minted
  BY <1>1, ZenonT(30) DEF FineTask, finish, TasksInv
<1>4. /\ Cardinality(running) \in Nat /\ Cardinality(running') \in Nat
      /\ Cardinality(running') <= Cardinality(running)
  <2>1. running \in SUBSET Task /\ running' \in SUBSET Task
    BY <1>1, ZenonT(30) DEF TypeOK
  <2> QED
    BY <1>1, <2>1, CardFacts, ZenonT(30)
<1>5. Arrived(At("none"), "none", "no", 0)
  BY ArrivesAt DEF TaskPc
<1>6. TypeOK'
  <2>1. th' \in [Goroutine -> Locals]
    BY <1>1, <1>5, ZenonT(30) DEF TypeOK, Goto, Arrived
  <2>2. running' \subseteq Task /\ done' \subseteq Task /\ old' \subseteq Task
    BY <1>1, <1>2 DEF TypeOK
  <2>3. Cardinality(running') <= Capacity
    <3>1. Cardinality(running) <= Capacity
      BY <1>1 DEF TypeOK
    <3> QED
      BY <1>4, <3>1, AgentAssumption
  <2> QED
    BY <1>1, <2>1, <2>2, <2>3, ZenonT(30) DEF TypeOK, cluster, bounds
<1>7. ASSUME NEW x \in Goroutine PROVE Fine(x, th[x])'
  <2>1. CASE x = t
    <3>1. th'[x] = At("none")
      BY <1>1, <2>1 DEF TypeOK, Goto
    <3> QED
      BY <1>1, <1>5, <2>1, <3>1, ZenonT(30) DEF Fine, FineTask, Identified, TaskPc, Arrived
  <2>2. CASE x = Main
    <3>1. th'[x] = th[x] /\ FineMain(th[x]) /\ Identified(th[x]) /\ th[x] \in Locals
      BY <1>1, <2>2, Mine, ZenonT(30) DEF TypeOK, Goto, Fine
    <3>2. Room(th[x])'
      <4>1. /\ Cardinality(th[x].got) + Cardinality(running) <= Capacity
            /\ th[x].want + Cardinality(running) <= Capacity
            /\ th[x].want \in Nat /\ Cardinality(th[x].got) \in Nat
        BY <3>1, CardFacts, ZenonT(30) DEF FineMain, Room, Locals
      <4>2. th'[x].got = th[x].got /\ th'[x].want = th[x].want
        BY <3>1
      <4>3. \A n \in Nat : n + Cardinality(running) <= Capacity => n + Cardinality(running') <= Capacity
        BY <1>4, AgentAssumption
      <4> QED
        BY <4>1, <4>2, <4>3, Zenon DEF Room
    <3>3. th[x].got \subseteq minted'
      BY <1>1, <3>1 DEF FineMain, cluster
    <3> QED
      BY <1>1, <2>2, <3>1, <3>2, <3>3, ZenonT(30) DEF Fine, FineMain, Identified, Granted, cluster
  <2>3. CASE x # t /\ x # Main
    <3>1. th'[x] = th[x]
      BY <1>1, <2>3 DEF TypeOK, Goto
    <3>2. old \subseteq old'
      BY <1>2
    <3>3. x \in Task /\ FineTask(x, th[x]) /\ Identified(th[x])
      BY <2>3, Mine DEF Goroutine, Fine
    <3>4. FineTask(x, th[x])'
      BY <1>1, <2>3, <3>1, <3>2, <3>3, ZenonT(30) DEF FineTask, MoreTries
    <3> QED
      BY <1>1, <2>3, <3>1, <3>3, <3>4, ZenonT(30) DEF Fine, Identified, Granted, cluster
  <2> QED
    BY <2>1, <2>2, <2>3
<1>8. TasksInv'
  BY <1>1, <1>2, <1>3, ZenonT(30) DEF TasksInv, Fresh, cluster
<1> QED
  BY <1>6, <1>7, <1>8 DEF IInv

-----------------------------------------------------------------------------
(* Theorems.                                                               *)

LEMMA InvNext == IInv /\ [Next]_vars => IInv'
<1> SUFFICES ASSUME IInv, [Next]_vars PROVE IInv'
  OBVIOUS
<1>1. ASSUME NEW s \in Scheduler, Elect(s) \/ Inform(s) PROVE IInv'
  BY <1>1, StepElect, StepInform
<1>2. ASSUME NEW t \in Task, RunTask(t) PROVE IInv'
  BY <1>2, StepExecute, StepReported, Stepfinish DEF RunTask
<1>3. ASSUME NEW g \in Goroutine, Serve(g) PROVE IInv'
  BY <1>3, StepRedirect, StepRegisterWorker, StepHeartbeat, StepPollUnknown, StepPollTask, StepReportTask
     DEF Serve
<1>4. ASSUME NEW g \in Goroutine, Lose(g) \/ Boot(g) PROVE IInv'
  BY <1>4, StepLose, StepDiscover, StepRegistered, StepAwake DEF Boot
<1>5. CASE Interrupt \/ Cancel
  BY <1>5, StepInterrupt, StepCancel
<1>6. CASE RunLoop
  BY <1>6, StepBeat, StepPoll, StepAnswered, StepStart, StepDrain, StepExit DEF RunLoop
<1>7. CASE UNCHANGED vars
  BY <1>7, Zenon DEF vars, cluster, tasks, bounds, IInv, TypeOK, Fine, FineMain, FineTask, Identified, Granted,
     Room, MoreTries, TasksInv, Fresh
<1> QED
  BY <1>1, <1>2, <1>3, <1>4, <1>5, <1>6, <1>7 DEF Next

LEMMA InvHolds == Spec => []IInv
  BY InvInit, InvNext, PTL DEF Spec

\* A task that was leased and delivered always finds room, with any capacity and any number
\* of tasks, however many run when it arrives (poll, tryStart, freeCapacity).
THEOREM NoTaskIsRefused == Spec => []NoTaskRefused
<1>1. IInv => NoTaskRefused
  BY DEF IInv, TasksInv, NoTaskRefused
<1> QED
  BY <1>1, InvHolds, PTL

\* No task id is executed twice, however often it is delivered, as long as its result is not
\* forgotten (tryStart, finish).
THEOREM TasksExecuteOnce == Spec => []ExecutedOnce
<1>1. IInv => ExecutedOnce
  BY DEF IInv, TasksInv, ExecutedOnce
<1> QED
  BY <1>1, InvHolds, PTL

\* A worker never changes the id it was first given, whichever goroutines register it
\* again, with whichever leaders (register, bootstrap, RegisterWorker).
THEOREM IdentityIsKept == Spec => OneIdentity
<1>1. ASSUME IInv, [Next]_vars, id # 0 PROVE id' = id
  <2>1. ASSUME NEW g \in Goroutine, Registered(g) PROVE id' = id
    BY <1>1, <2>1, Mine DEF Registered, Fine, Identified, Granted
  <2>2. CASE Answered
    BY <1>1, <2>2, AnsweredKeepsID
  <2>3. CASE UNCHANGED vars
    BY <2>3 DEF vars
  <2>4. ASSUME NEW s \in Scheduler, Elect(s) \/ Inform(s) PROVE id' = id
    BY <2>4 DEF Elect, Inform
  <2>5. ASSUME NEW t \in Task, RunTask(t) PROVE id' = id
    BY <2>5 DEF RunTask, Execute, Reported, finish
  <2>6. ASSUME NEW g \in Goroutine, Serve(g) \/ Lose(g) PROVE id' = id
    BY <2>6, ZenonT(30) DEF Serve, Redirect, RegisterWorker, Heartbeat, PollUnknown, PollTask, ReportTask, Lose
  <2>7. ASSUME NEW g \in Goroutine, Discover(g) \/ Awake(g) PROVE id' = id
    BY <2>7 DEF Discover, Awake
  <2>8. CASE Interrupt \/ Cancel \/ Beat \/ Poll \/ Start \/ Drain \/ Exit
    BY <2>8 DEF Interrupt, Cancel, Beat, Poll, Start, Drain, Exit
  <2> QED
    BY <1>1, <2>1, <2>2, <2>3, <2>4, <2>5, <2>6, <2>7, <2>8 DEF Next, Boot, RunLoop
<1>2. IInv /\ [Next]_vars => [id # 0 => id' = id]_vars
  BY <1>1
<1> QED
  BY <1>2, InvHolds, PTL DEF Spec, OneIdentity
=============================================================================
