--------------------------- MODULE ServiceProofs ---------------------------
(***************************************************************************)
(* What holds of Service for any list of seeds, any jobs and any bounds:   *)
(* HandlersHaveStore, StopsLoseNothing and InOrderIsServed.                *)
(*                                                                         *)
(* The invariant ties three things together: where a process is and its    *)
(* store, the call the client waits for and the handler that serves it,    *)
(* and the order of the cluster since the command began.                   *)
(***************************************************************************)
EXTENDS Service, TLAPS

\* Where a process has an open store, and where it may be running handlers.
Open == {"started", "serving", "locked", "closing", "graceful"}
Handling == {"serving", "locked", "closing", "graceful"}

StoreInv ==
    /\ \A p \in Scheduler : main[p] \in Open => db[p]
    /\ \A h \in handlers : main[h.at] \in Handling

\* A job whose timer is being armed is stored.
ArmedInv == \A h \in handlers : h.pc = "arming" => disk[h.at][h.job] # "none"

\* The call the client waits for.
Current(h) ==
    \/ client.pc = "asked" /\ h.cmd = "status"
    \/ /\ client.pc = "sent" /\ h.at = client.leader
       /\ h.cmd = client.cmd /\ h.job = client.job /\ h.form = client.form

\* At most one handler is waited for, and it serves the client's current call.
AwaitedInv ==
    /\ client.pc \in {"call", "sent"} => client.leader \in Scheduler /\ client.cmd # "status"
    /\ \A h \in handlers : h.awaited => Current(h)
    /\ \A g, h \in handlers : g.awaited /\ h.awaited => g = h

\* A command that was not disturbed: the cluster is in order, the call is being served,
\* and it was sent to the leader.
CalmInv ==
    client.calm =>
        /\ InOrder
        /\ client.pc \in {"asked", "sent"} => \E h \in handlers : h.awaited
        /\ client.pc \in {"call", "sent"} => client.leader = leader

IInv ==
    /\ TypeOK /\ StoreInv /\ ArmedInv /\ AwaitedInv /\ CalmInv
    /\ StopsLoseNothing /\ InOrderIsServed

\* What a command in an orderly cluster may be told, by a leader that acknowledged the
\* known jobs: the conclusion of InOrderIsServed.
Due(r, known) ==
    /\ r # "error"
    /\ r = "InvalidArgument" => client.form \in {"invalid", "deps"}
    /\ r = "FailedPrecondition" => client.cmd = "cancel"
    /\ r = "NotFound" => client.job \notin known

-----------------------------------------------------------------------------
(* Facts about the constants and the operators.                            *)

LEMMA SeedsFacts ==
    /\ None \notin Scheduler
    /\ Len(Seeds) \in Nat /\ DOMAIN Seeds = 1 .. Len(Seeds) /\ 1 \in DOMAIN Seeds
    /\ \A i \in DOMAIN Seeds : Seeds[i] \in Scheduler
  BY SeedsAssumption DEF Scheduler

\* A command that ends keeps everything but its place and its result.
LEMMA EndedFacts ==
    ASSUME client \in Run, NEW r \in Result \cup {""}
    PROVE  /\ Ended(r) \in Run
           /\ Ended(r).pc = "done" /\ Ended(r).result = r /\ Ended(r).calm = client.calm
           /\ Ended(r).cmd = client.cmd /\ Ended(r).job = client.job /\ Ended(r).form = client.form
  BY Zenon DEF Ended, Run

LEMMA NextSeedFacts ==
    ASSUME client \in Run
    PROVE  /\ NextSeed \in Run
           /\ NextSeed.calm = client.calm /\ NextSeed.cmd = client.cmd
           /\ NextSeed.pc \in {"ask", "done"}
           /\ NextSeed.pc = "done" => NextSeed.result = "error"
<1>1. CASE client.seed = Len(Seeds)
  BY <1>1, EndedFacts, Zenon DEF NextSeed, Result
<1>2. CASE client.seed # Len(Seeds)
  <2> DEFINE k == client.seed + 1
  <2>0. client.seed \in 1 .. Len(Seeds) /\ Len(Seeds) \in Nat
    BY SeedsFacts, Zenon DEF Run
  <2>1. k \in DOMAIN Seeds
    BY <1>2, <2>0, SeedsFacts
  <2>2. NextSeed = [client EXCEPT !.pc = "ask", !.seed = k]
    BY <1>2 DEF NextSeed
  <2> HIDE DEF k
  <2> QED
    BY <2>1, <2>2, Zenon DEF Run
<1> QED
  BY <1>1, <1>2

LEMMA FailedFacts ==
    ASSUME client \in Run
    PROVE  /\ Failed \in Run /\ Failed.calm = client.calm /\ Failed.pc \in {"ask", "done"}
  BY NextSeedFacts, EndedFacts, Zenon DEF Failed, Result

LEMMA DisturbedFacts ==
    ASSUME client \in Run
    PROVE  /\ Disturbed \in Run /\ Disturbed.calm = FALSE
           /\ Disturbed.pc = client.pc /\ Disturbed.cmd = client.cmd
           /\ Disturbed.job = client.job /\ Disturbed.leader = client.leader
           /\ Disturbed.form = client.form
  BY Zenon DEF Disturbed, Run

LEMMA leaderConnFacts ==
    ASSUME client \in Run, NEW holder \in Scheduler \cup {None}
    PROVE  /\ leaderConn(holder) \in Run
           /\ leaderConn(holder).calm = client.calm /\ leaderConn(holder).cmd = client.cmd
           /\ holder = None => leaderConn(holder).pc = "done"
           /\ holder # None => leaderConn(holder).pc = "call" /\ leaderConn(holder).leader = holder
  BY EndedFacts, ZenonT(30) DEF leaderConn, Run, Result

LEMMA InvInit == Init => IInv
<1> SUFFICES ASSUME Init PROVE IInv
  OBVIOUS
<1>1. PICK j \in Job :
        client = [cmd |-> "status", job |-> j, form |-> "plain", pc |-> "idle", seed |-> 1,
                  leader |-> None, result |-> "", calm |-> FALSE]
  BY Zenon DEF Init
<1>2. client \in Run /\ client.pc = "idle" /\ client.calm = FALSE
  BY <1>1, SeedsFacts, Zenon DEF Run, Command, Form
<1>3. TypeOK
  <2>1. disk \in [Scheduler -> [Job -> JobState]]
    BY Zenon DEF Init, JobState
  <2>2. commands \in Nat /\ stops \in Nat /\ changes \in Nat /\ losses \in Nat /\ errors \in Nat
    BY Zenon DEF Init
  <2>3. /\ main \in [Scheduler -> Main]
        /\ db \in [Scheduler -> BOOLEAN] /\ dispatchMu \in [Scheduler -> BOOLEAN]
        /\ leader \in Scheduler \cup {None} /\ leads \subseteq Scheduler
        /\ hint \in [Scheduler -> Scheduler \cup {None}]
        /\ handlers \subseteq Handler
        /\ acked \in [Scheduler -> SUBSET Job]
    BY Zenon DEF Init, Main
  <2> QED
    BY <1>2, <2>1, <2>2, <2>3 DEF TypeOK
<1>4. StoreInv /\ ArmedInv
  BY Zenon DEF Init, StoreInv, Open, ArmedInv
<1>5. AwaitedInv /\ CalmInv
  BY <1>2, Zenon DEF Init, AwaitedInv, CalmInv
<1>6. StopsLoseNothing /\ InOrderIsServed
  BY <1>2, Zenon DEF Init, StopsLoseNothing, AckedIsDurable, InOrderIsServed
<1> QED
  BY <1>3, <1>4, <1>5, <1>6 DEF IInv

-----------------------------------------------------------------------------
(* The process.                                                            *)

\* The client and what it waits for are left alone, and the cluster was not in order, or
\* still is.
LEMMA ClientKept ==
    ASSUME IInv, UNCHANGED <<client, handlers, acked, leader, errors>>,
           client.calm => InOrder'
    PROVE  AwaitedInv' /\ CalmInv' /\ InOrderIsServed'
  BY DEF IInv, AwaitedInv, CalmInv, InOrderIsServed, Current

\* Jobs stay stored, and so does what was acknowledged and what is being armed.
LEMMA DiskKept ==
    ASSUME IInv, UNCHANGED acked, errors' = 0 => errors = 0,
           \A p \in Scheduler, j \in Job : disk[p][j] # "none" => disk'[p][j] # "none",
           \A h \in handlers' : h.pc = "arming" =>
               \E g \in handlers : g.pc = "arming" /\ g.at = h.at /\ g.job = h.job
    PROVE  StopsLoseNothing' /\ ArmedInv'
<1>1. StopsLoseNothing'
  BY DEF IInv, TypeOK, StopsLoseNothing, AckedIsDurable
<1>2. ArmedInv'
  BY DEF IInv, TypeOK, ArmedInv, Handler
<1> QED
  BY <1>1, <1>2

LEMMA StepNew ==
    ASSUME IInv, NEW p \in Scheduler, New(p) PROVE IInv'
<1> USE DEF IInv, New, election, bounds
<1>1. TypeOK'
  BY DEF TypeOK, Main
<1>2. StoreInv'
  BY DEF StoreInv, TypeOK, Open, Handling, Handler
<1>3. StopsLoseNothing' /\ ArmedInv' /\ ~client.calm
  BY DEF StopsLoseNothing, AckedIsDurable, ArmedInv, CalmInv, InOrder
<1> QED
  BY <1>1, <1>2, <1>3, ClientKept

LEMMA StepServe ==
    ASSUME IInv, NEW p \in Scheduler, Serve(p) PROVE IInv'
<1> USE DEF IInv, Serve, election, bounds
<1>1. TypeOK'
  BY DEF TypeOK, Main
<1>2. StoreInv'
  BY DEF StoreInv, TypeOK, Open, Handling, Handler
<1>3. StopsLoseNothing' /\ ArmedInv' /\ ~client.calm
  BY DEF StopsLoseNothing, AckedIsDurable, ArmedInv, CalmInv, InOrder
<1> QED
  BY <1>1, <1>2, <1>3, ClientKept

\* Handlers of a process that is gone are gone, and so may be the one that was awaited.
LEMMA GoneKeeps ==
    ASSUME IInv, NEW p \in Scheduler, Gone(p), client' \in Run, client'.calm = FALSE,
           client'.pc = client.pc, client'.cmd = client.cmd, client'.job = client.job,
           client'.form = client.form, client'.leader = client.leader,
           UNCHANGED <<disk, acked, errors>>,
           commands' \in Nat, stops' \in Nat, changes' \in Nat, losses' \in Nat
    PROVE  IInv'
<1> USE DEF IInv, Gone
<1>1. TypeOK'
  BY DEF TypeOK, Main
<1>2. StoreInv'
  BY DEF StoreInv, TypeOK, Open, Handling, Handler
<1>3. AwaitedInv'
  BY DEF AwaitedInv, Current
<1>4. CalmInv' /\ StopsLoseNothing' /\ ArmedInv' /\ InOrderIsServed'
  BY DEF CalmInv, StopsLoseNothing, AckedIsDurable, ArmedInv, InOrderIsServed
<1> QED
  BY <1>1, <1>2, <1>3, <1>4

LEMMA StepDie ==
    ASSUME IInv, NEW p \in Scheduler, Die(p) PROVE IInv'
<1>1. client \in Run /\ stops + 1 \in Nat /\ commands \in Nat /\ changes \in Nat /\ losses \in Nat
  BY DEF IInv, TypeOK
<1> QED
  BY <1>1, GoneKeeps, DisturbedFacts, Zenon DEF Die

LEMMA StepExit ==
    ASSUME IInv, NEW p \in Scheduler, Exit(p) PROVE IInv'
<1>1. /\ client \in Run /\ stops \in Nat /\ commands \in Nat /\ changes \in Nat /\ losses \in Nat
      /\ client.calm \in BOOLEAN
  BY Zenon DEF IInv, TypeOK, Run
<1>2. ~client.calm
  BY DEF IInv, CalmInv, InOrder, Exit
<1> QED
  BY <1>1, <1>2, GoneKeeps, Zenon DEF Exit, bounds

LEMMA StepShutdown ==
    ASSUME IInv, NEW p \in Scheduler, Shutdown(p) PROVE IInv'
<1> USE DEF IInv, Shutdown, election
<1>0. /\ client' \in Run /\ client'.calm = FALSE /\ client'.pc = client.pc
      /\ client'.cmd = client.cmd /\ client'.job = client.job /\ client'.form = client.form
      /\ client'.leader = client.leader
  BY DisturbedFacts, Zenon DEF TypeOK
<1>1. TypeOK'
  BY <1>0 DEF TypeOK, Main
<1>2. StoreInv'
  BY DEF StoreInv, TypeOK, Open, Handling, Handler
<1>3. AwaitedInv'
  BY <1>0 DEF AwaitedInv, Current
<1>4. CalmInv' /\ StopsLoseNothing' /\ ArmedInv' /\ InOrderIsServed'
  BY <1>0 DEF CalmInv, StopsLoseNothing, AckedIsDurable, ArmedInv, InOrderIsServed
<1> QED
  BY <1>1, <1>2, <1>3, <1>4

LEMMA StepStopTimers ==
    ASSUME IInv, NEW p \in Scheduler, StopTimers(p) PROVE IInv'
<1> USE DEF IInv, StopTimers, election, bounds
<1>1. TypeOK'
  BY DEF TypeOK, Main
<1>2. StoreInv'
  BY DEF StoreInv, TypeOK, Open, Handling, Handler
<1>3. StopsLoseNothing' /\ ArmedInv' /\ ~client.calm
  BY DEF StopsLoseNothing, AckedIsDurable, ArmedInv, CalmInv, InOrder
<1> QED
  BY <1>1, <1>2, <1>3, ClientKept

LEMMA StepRefuse ==
    ASSUME IInv, NEW p \in Scheduler, Refuse(p) PROVE IInv'
<1> USE DEF IInv, Refuse, election, bounds
<1>1. TypeOK'
  BY DEF TypeOK, Main
<1>2. StoreInv'
  BY DEF StoreInv, TypeOK, Open, Handling, Handler
<1>3. StopsLoseNothing' /\ ArmedInv' /\ ~client.calm
  BY DEF StopsLoseNothing, AckedIsDurable, ArmedInv, CalmInv, InOrder
<1> QED
  BY <1>1, <1>2, <1>3, ClientKept

\* GracefulStop returns: no handler is left that would need the store.
LEMMA StepGracefulStop ==
    ASSUME IInv, NEW p \in Scheduler, GracefulStop(p) PROVE IInv'
<1> USE DEF IInv, GracefulStop, election, bounds
<1>1. TypeOK'
  BY DEF TypeOK, Main
<1>2. StoreInv'
  BY DEF StoreInv, TypeOK, Open, Handling, Handler, Served
<1>3. StopsLoseNothing' /\ ArmedInv' /\ ~client.calm
  BY DEF StopsLoseNothing, AckedIsDurable, ArmedInv, CalmInv, InOrder
<1> QED
  BY <1>1, <1>2, <1>3, ClientKept

LEMMA StepClose ==
    ASSUME IInv, NEW p \in Scheduler, Close(p) PROVE IInv'
<1> USE DEF IInv, Close, election, bounds
<1>1. TypeOK'
  BY DEF TypeOK, Main
<1>2. StoreInv'
  BY DEF StoreInv, TypeOK, Open, Handling, Handler
<1>3. StopsLoseNothing' /\ ArmedInv' /\ ~client.calm
  BY DEF StopsLoseNothing, AckedIsDurable, ArmedInv, CalmInv, InOrder
<1> QED
  BY <1>1, <1>2, <1>3, ClientKept

-----------------------------------------------------------------------------
(* Elections.                                                              *)

\* Replication adds jobs and overwrites them, and removes none.
LEMMA UpsertedFacts ==
    ASSUME TypeOK, NEW p \in Scheduler, NEW q \in Scheduler, NEW got \in SUBSET Job
    PROVE  /\ Upserted(p, q, got) \in [Job -> JobState]
           /\ \A j \in Job : disk[p][j] # "none" => Upserted(p, q, got)[j] # "none"
  BY DEF Upserted, TypeOK

LEMMA StepElect ==
    ASSUME IInv, NEW p \in Scheduler, Elect(p) PROVE IInv'
<1> USE DEF IInv
<1>0. /\ client' \in Run /\ client'.calm = FALSE /\ client'.pc = client.pc
      /\ client'.cmd = client.cmd /\ client'.job = client.job /\ client'.form = client.form
      /\ client'.leader = client.leader
  BY DisturbedFacts, Zenon DEF TypeOK, Elect
<1>1. PICK q \in Scheduler, got \in SUBSET Job : disk' = [disk EXCEPT ![p] = Upserted(p, q, got)]
  BY ZenonT(30) DEF Elect
<1>2. changes' \in Nat
  BY DEF Elect, TypeOK
<1>3. TypeOK'
  <2>1. disk' \in [Scheduler -> [Job -> JobState]]
    BY <1>1, UpsertedFacts DEF TypeOK
  <2> QED
    BY <1>0, <1>2, <2>1 DEF TypeOK, Elect, processes
<1>4. StoreInv' /\ AwaitedInv'
  BY <1>0 DEF StoreInv, AwaitedInv, Current, Elect, processes
<1>5. CalmInv' /\ InOrderIsServed'
  BY <1>0 DEF CalmInv, InOrderIsServed
<1>6. StopsLoseNothing' /\ ArmedInv'
  <2>1. \A r \in Scheduler : disk'[r] = IF r = p THEN Upserted(p, q, got) ELSE disk[r]
    BY <1>1 DEF TypeOK
  <2>2. \A r \in Scheduler, j \in Job : disk[r][j] # "none" => disk'[r][j] # "none"
    BY <2>1, UpsertedFacts
  <2> QED
    BY <2>2, DiskKept DEF Elect
<1> QED
  BY <1>3, <1>4, <1>5, <1>6

\* A job that ends stays stored.
LEMMA StepFinish ==
    ASSUME IInv, NEW p \in Scheduler, NEW j \in Job, Finish(p, j) PROVE IInv'
<1> USE DEF IInv, Finish, processes, election, bounds
<1>1. TypeOK'
  BY DEF TypeOK, JobState
<1>2. StoreInv'
  BY DEF StoreInv
<1>3. StopsLoseNothing' /\ ArmedInv'
  <2>1. \A r \in Scheduler, i \in Job : disk[r][i] # "none" => disk'[r][i] # "none"
    BY DEF TypeOK
  <2> QED
    BY <2>1, DiskKept
<1>4. client.calm => InOrder'
  BY DEF CalmInv, InOrder
<1> QED
  BY <1>1, <1>2, <1>3, <1>4, ClientKept

LEMMA StepInform ==
    ASSUME IInv, NEW p \in Scheduler, Inform(p) PROVE IInv'
<1> USE DEF IInv, Inform, processes, bounds
<1>1. TypeOK'
  BY DEF TypeOK
<1>2. StoreInv'
  BY DEF StoreInv
<1>3. StopsLoseNothing' /\ ArmedInv' /\ ~client.calm
  BY DEF StopsLoseNothing, AckedIsDurable, ArmedInv, CalmInv, InOrder
<1> QED
  BY <1>1, <1>2, <1>3, ClientKept

-----------------------------------------------------------------------------
(* The client.                                                             *)

\* Steps of the client and of handlers that do not write leave the processes alone.
LEMMA ProcessesKept ==
    ASSUME IInv, UNCHANGED <<processes, disk, election, acked, bounds>>,
           client' \in Run, handlers' \subseteq Handler,
           \A h \in handlers' :
               main[h.at] \in Handling /\ (h.pc = "arming" => disk[h.at][h.job] # "none")
    PROVE  TypeOK' /\ StoreInv' /\ ArmedInv' /\ StopsLoseNothing' /\ (InOrder <=> InOrder')
<1> USE DEF IInv, processes, election, bounds
<1>1. TypeOK'
  BY DEF TypeOK
<1>2. StoreInv' /\ ArmedInv'
  BY DEF StoreInv, ArmedInv
<1>3. StopsLoseNothing' /\ (InOrder <=> InOrder')
  BY DEF StopsLoseNothing, AckedIsDurable, InOrder
<1> QED
  BY <1>1, <1>2, <1>3

LEMMA StepBegin ==
    ASSUME IInv, NEW cmd \in Command, NEW j \in Job, Begin(cmd, j) PROVE IInv'
<1> USE DEF IInv
<1>0. /\ client' = [cmd |-> cmd, job |-> j, form |-> "plain", pc |-> "ask", seed |-> 1,
                    leader |-> None, result |-> "", calm |-> InOrder]
      /\ InOrder \in BOOLEAN
  BY ZenonT(30) DEF Begin, InOrder
<1>1. client' \in Run /\ client'.pc = "ask" /\ client'.calm = InOrder
  BY <1>0, SeedsFacts, Zenon DEF Run, Form
<1>2. commands' \in Nat
  <2>1. commands \in Nat /\ commands' = commands + 1
    BY ZenonT(30) DEF Begin, TypeOK
  <2> QED
    BY <2>1
<1>3. TypeOK'
  BY <1>1, <1>2, ZenonT(30) DEF TypeOK, Begin, processes, election
<1>4. \A h \in handlers : ~h.awaited
  BY ZenonT(30) DEF Begin, AwaitedInv, Current
<1>5. StoreInv' /\ AwaitedInv'
  BY <1>1, <1>4, ZenonT(30) DEF StoreInv, AwaitedInv, Begin, processes
<1>6. CalmInv' /\ InOrderIsServed'
  BY <1>1, ZenonT(30) DEF CalmInv, InOrderIsServed, InOrder, Begin, processes, election
<1>7. StopsLoseNothing' /\ ArmedInv'
  BY Zenon DEF StopsLoseNothing, AckedIsDurable, ArmedInv, Begin
<1> QED
  BY <1>3, <1>5, <1>6, <1>7

\* The facts about a process that accepts a call.
LEMMA AcceptingFacts ==
    ASSUME IInv, NEW p \in Scheduler, Accepting(p) PROVE main[p] \in Handling
  BY DEF Accepting, Handling

\* In order, every scheduler accepts calls and the leader is one of them.
LEMMA InOrderFacts ==
    ASSUME TypeOK, InOrder
    PROVE  leader \in Scheduler /\ \A p \in Scheduler : Accepting(p) /\ hint[p] = leader
  BY DEF TypeOK, InOrder, Accepting

\* A call is served by a new handler, the only one that is waited for, or it fails.
LEMMA Called ==
    ASSUME IInv, NEW p \in Scheduler, NEW cmd \in Command, NEW form \in Form, Accepting(p),
           \A h \in handlers : ~h.awaited,
           NEW next \in {"asked", "sent"},
           next = "asked" => cmd = "status",
           next = "sent" => cmd = client.cmd /\ p = client.leader /\ client.cmd # "status",
           client.calm /\ next = "sent" => p = leader,
           handlers' = handlers \cup
                {[at |-> p, cmd |-> cmd, job |-> client.job, form |-> form,
                  pc |-> "called", awaited |-> TRUE]},
           client' = [client EXCEPT !.pc = next, !.form = form],
           UNCHANGED <<processes, disk, election, acked, bounds>>
    PROVE  IInv'
<1> DEFINE new == [at |-> p, cmd |-> cmd, job |-> client.job, form |-> form,
                   pc |-> "called", awaited |-> TRUE]
<1>1. /\ client' \in Run /\ client'.pc = next /\ client'.calm = client.calm /\ client'.form = form
      /\ client'.cmd = client.cmd /\ client'.job = client.job /\ client'.leader = client.leader
  BY Zenon DEF IInv, TypeOK, Run
<1>2. /\ new \in Handler /\ new.at = p /\ new.cmd = cmd /\ new.job = client.job /\ new.form = form
      /\ new.pc = "called" /\ new.awaited = TRUE
  BY Zenon DEF IInv, TypeOK, Run, Handler
<1>3. handlers' = handlers \cup {new}
  OBVIOUS
<1> HIDE DEF new
<1>4. TypeOK' /\ StoreInv' /\ ArmedInv' /\ StopsLoseNothing' /\ (InOrder <=> InOrder')
  BY <1>1, <1>2, <1>3, ProcessesKept, AcceptingFacts DEF IInv, TypeOK, StoreInv, ArmedInv
<1>5. AwaitedInv'
  BY <1>1, <1>2, <1>3 DEF AwaitedInv, Current
<1>6. CalmInv'
  BY <1>1, <1>2, <1>3, <1>4 DEF IInv, CalmInv, election
<1>7. InOrderIsServed'
  BY <1>1 DEF InOrderIsServed
<1> QED
  BY <1>4, <1>5, <1>6, <1>7 DEF IInv

\* A call that is given up while the cluster is not in order.
LEMMA GivenUp ==
    ASSUME IInv, \A h \in handlers : ~h.awaited, UNCHANGED <<processes, disk, election, acked, bounds, handlers>>,
           client' \in Run, client'.calm = FALSE, client'.pc \in {"ask", "done"}
    PROVE  IInv'
<1>1. TypeOK' /\ StoreInv' /\ ArmedInv' /\ StopsLoseNothing'
  BY ProcessesKept DEF IInv, TypeOK, StoreInv, ArmedInv
<1>2. AwaitedInv' /\ CalmInv' /\ InOrderIsServed'
  BY DEF AwaitedInv, CalmInv, InOrderIsServed
<1> QED
  BY <1>1, <1>2 DEF IInv

LEMMA StepAskSeed ==
    ASSUME IInv, AskSeed PROVE IInv'
<1> DEFINE p == Seeds[client.seed]
<1>1. /\ TypeOK /\ client \in Run /\ client.calm \in BOOLEAN /\ client.pc = "ask"
      /\ Call(p, "status", "plain", "asked", NextSeed)
      /\ UNCHANGED <<processes, disk, election, acked, bounds>>
  BY ZenonT(30) DEF IInv, TypeOK, Run, AskSeed
<1>2. p \in Scheduler
  BY <1>1, SeedsFacts, ZenonT(30) DEF Run
<1>3. \A h \in handlers : ~h.awaited
  BY <1>1 DEF IInv, AwaitedInv, Current
<1> HIDE DEF p
<1>4. CASE Accepting(p)
  BY <1>1, <1>2, <1>3, <1>4, Called DEF Call, Command, Form
<1>5. CASE ~Accepting(p)
  <2>1. ~client.calm
    BY <1>1, <1>2, <1>5, InOrderFacts DEF IInv, CalmInv
  <2> QED
    BY <1>1, <1>3, <1>5, <2>1, GivenUp, NextSeedFacts, ZenonT(30) DEF Call
<1> QED
  BY <1>4, <1>5

LEMMA StepCallLeader ==
    ASSUME IInv, CallLeader PROVE IInv'
<1> DEFINE p == client.leader
<1>1. /\ TypeOK /\ client \in Run /\ client.calm \in BOOLEAN /\ client.cmd \in Command /\ client.pc = "call"
      /\ UNCHANGED <<processes, disk, election, acked, bounds>>
  BY Zenon DEF IInv, TypeOK, Run, CallLeader
<1>a. PICK form \in Form : Call(p, client.cmd, form, "sent", Ended("error"))
  BY Zenon DEF CallLeader, FormsOf, Form
<1>2. p \in Scheduler /\ client.cmd # "status" /\ (client.calm => p = leader)
  BY <1>1 DEF IInv, AwaitedInv, CalmInv
<1>3. \A h \in handlers : ~h.awaited
  BY <1>1 DEF IInv, AwaitedInv, Current
<1>4. CASE Accepting(p)
  BY <1>1, <1>a, <1>2, <1>3, <1>4, Called DEF Call
<1>5. CASE ~Accepting(p)
  <2>1. ~client.calm
    BY <1>1, <1>2, <1>5, InOrderFacts DEF IInv, CalmInv
  <2> QED
    BY <1>1, <1>a, <1>3, <1>5, <2>1, GivenUp, EndedFacts, ZenonT(30) DEF Call, Result
<1> QED
  BY <1>4, <1>5

\* The server died: not in order, for nobody handles the call.
LEMMA StepBroken ==
    ASSUME IInv, Broken PROVE IInv'
<1>1. client \in Run /\ client.calm \in BOOLEAN
  BY Zenon DEF IInv, TypeOK, Run
<1>2. ~client.calm
  BY DEF IInv, CalmInv, Broken
<1> QED
  BY <1>1, <1>2, GivenUp, FailedFacts, Zenon DEF Broken

LEMMA StepLose ==
    ASSUME IInv, NEW h \in handlers, Lose(h) PROVE IInv'
<1> USE DEF IInv
<1>1. client \in Run /\ h \in Handler /\ h.awaited /\ losses \in Nat /\ losses' = losses + 1
  BY DEF TypeOK, Lose
<1>2. client' \in Run /\ client'.calm = FALSE /\ client'.pc \in {"ask", "done"}
  BY <1>1, FailedFacts, Zenon DEF Lose, Run
<1>3. /\ [h EXCEPT !.awaited = FALSE] \in Handler
      /\ [h EXCEPT !.awaited = FALSE].at = h.at /\ [h EXCEPT !.awaited = FALSE].awaited = FALSE
      /\ [h EXCEPT !.awaited = FALSE].job = h.job /\ [h EXCEPT !.awaited = FALSE].pc = h.pc
  BY <1>1, Zenon DEF Handler
<1>4. \A g \in handlers' : g \in Handler /\ ~g.awaited /\ main[g.at] \in Handling
  BY <1>1, <1>3, ZenonT(30) DEF Lose, AwaitedInv, StoreInv, TypeOK
<1>5. losses' \in Nat
  BY <1>1
<1>6. TypeOK' /\ StoreInv'
  BY <1>2, <1>4, <1>5 DEF Lose, TypeOK, StoreInv, processes, election
<1>7. AwaitedInv' /\ CalmInv' /\ InOrderIsServed'
  BY <1>2, <1>4 DEF AwaitedInv, CalmInv, InOrderIsServed
<1>8. StopsLoseNothing' /\ ArmedInv'
  BY <1>3 DEF StopsLoseNothing, AckedIsDurable, ArmedInv, Lose
<1> QED
  BY <1>6, <1>7, <1>8

-----------------------------------------------------------------------------
(* The handlers.                                                           *)

\* What is known of a handler that is in progress.
LEMMA HandlerFacts ==
    ASSUME IInv, NEW h \in handlers
    PROVE  /\ h \in Handler /\ h.at \in Scheduler /\ h.job \in Job /\ h.awaited \in BOOLEAN
           /\ main[h.at] \in Handling /\ db[h.at]
           /\ h.awaited => Current(h) /\ \A g \in handlers \ {h} : ~g.awaited
           /\ h.awaited /\ client.calm =>
                 /\ hint[h.at] = leader /\ leader \in Scheduler
                 /\ h.cmd # "status" => h.at = leader /\ h.at \in leads
<1> USE DEF IInv
<1>1. h \in Handler /\ h.at \in Scheduler /\ h.job \in Job /\ h.awaited \in BOOLEAN
  BY DEF TypeOK, Handler
<1>2. main[h.at] \in Handling /\ db[h.at]
  BY <1>1 DEF StoreInv, Open, Handling
<1>3. h.awaited => Current(h) /\ \A g \in handlers \ {h} : ~g.awaited
  BY DEF AwaitedInv
<1>4. h.awaited /\ client.calm =>
          /\ hint[h.at] = leader /\ leader \in Scheduler
          /\ h.cmd # "status" => h.at = leader /\ h.at \in leads
  BY <1>1, <1>3, InOrderFacts DEF CalmInv, Current, InOrder
<1> QED
  BY <1>1, <1>2, <1>3, <1>4, ZenonT(30)

\* A handler that nobody waits for returns.
LEMMA UnawaitedReturns ==
    ASSUME IInv, NEW h \in handlers, ~h.awaited, handlers' = handlers \ {h},
           UNCHANGED <<client, leader, leads, hint, acked, processes>>, errors' = 0 => errors = 0
    PROVE  AwaitedInv' /\ CalmInv' /\ InOrderIsServed' /\ StoreInv'
<1>1. AwaitedInv' /\ CalmInv' /\ InOrderIsServed'
  BY DEF IInv, AwaitedInv, CalmInv, InOrderIsServed, Current, InOrder, processes
<1>2. StoreInv'
  BY DEF IInv, StoreInv, processes
<1> QED
  BY <1>1, <1>2

\* A handler returns the answer the client waits for.
LEMMA AwaitedReturns ==
    ASSUME IInv, NEW h \in handlers, h.awaited, handlers' = handlers \ {h},
           UNCHANGED <<leader, leads, hint, processes>>, client' \in Run,
           client'.calm = client.calm, client'.pc \in {"ask", "call", "done"},
           client'.pc = "call" => client'.leader \in Scheduler /\ client'.cmd # "status"
                                    /\ (client.calm => client'.leader = leader)
    PROVE  AwaitedInv' /\ CalmInv' /\ StoreInv'
<1>1. \A g \in handlers' : ~g.awaited
  BY HandlerFacts
<1>2. AwaitedInv'
  BY <1>1 DEF AwaitedInv
<1>3. CalmInv'
  BY DEF IInv, CalmInv, InOrder, processes
<1>4. StoreInv'
  BY DEF IInv, StoreInv, processes
<1> QED
  BY <1>2, <1>3, <1>4

LEMMA StepGetClusterStatus ==
    ASSUME IInv, NEW h \in handlers, GetClusterStatus(h) PROVE IInv'
<1>1. /\ h.cmd = "status" /\ handlers' = handlers \ {h}
      /\ UNCHANGED <<processes, disk, election, acked, bounds>>
  BY DEF GetClusterStatus, Return
<1>2. client \in Run /\ hint[h.at] \in Scheduler \cup {None} /\ client.calm \in BOOLEAN
  BY HandlerFacts, ZenonT(30) DEF IInv, TypeOK, Run
<1>3. CASE ~h.awaited
  <2>1. client' = client
    BY <1>3 DEF GetClusterStatus, Return
  <2>2. AwaitedInv' /\ CalmInv' /\ InOrderIsServed' /\ StoreInv'
    BY <1>1, <1>3, <2>1, UnawaitedReturns DEF election, bounds
  <2>3. TypeOK' /\ ArmedInv' /\ StopsLoseNothing'
    BY <1>1, <1>2, <2>1, ProcessesKept DEF IInv, TypeOK, StoreInv, ArmedInv
  <2> QED
    BY <2>2, <2>3 DEF IInv
<1>4. CASE h.awaited
  <2>1. client' = IF client.cmd = "status" THEN Ended("ok") ELSE leaderConn(hint[h.at])
    BY <1>4, HandlerFacts, ZenonT(30) DEF GetClusterStatus, Return
  <2>2. /\ client' \in Run /\ client'.calm = client.calm /\ client'.pc \in {"ask", "call", "done"}
        /\ client'.cmd = client.cmd
        /\ client'.pc = "call" => client'.leader \in Scheduler /\ client'.cmd # "status"
                                    /\ client'.leader = hint[h.at]
        /\ client'.pc = "done" => \/ client.cmd = "status" /\ client'.result = "ok"
                                  \/ hint[h.at] = None
    BY <1>2, <2>1, EndedFacts, leaderConnFacts, ZenonT(30) DEF Result
  <2>3. client.calm => hint[h.at] = leader /\ leader # None
    BY <1>4, HandlerFacts, SeedsFacts, ZenonT(30)
  <2>4. AwaitedInv' /\ CalmInv' /\ StoreInv'
    BY <1>1, <1>4, <2>2, <2>3, AwaitedReturns, ZenonT(30) DEF election
  <2>5. TypeOK' /\ ArmedInv' /\ StopsLoseNothing'
    BY <1>1, <1>2, <2>2, ProcessesKept, ZenonT(30) DEF IInv, TypeOK, StoreInv, ArmedInv
  <2>6. InOrderIsServed'
    BY <2>2, <2>3 DEF InOrderIsServed
  <2> QED
    BY <2>4, <2>5, <2>6 DEF IInv
<1> QED
  BY <1>3, <1>4

\* A handler ends the command, or nobody waits for it.
LEMMA Answers ==
    ASSUME IInv, NEW h \in handlers, NEW r \in Result, Return(h, Ended(r)),
           UNCHANGED <<processes, election>>, errors' = 0 => errors = 0,
           ~h.awaited => acked' = acked,
           h.awaited /\ client.calm /\ errors' = 0 => Due(r, acked'[leader])
    PROVE  /\ client' \in Run /\ handlers' \subseteq Handler
           /\ AwaitedInv' /\ CalmInv' /\ StoreInv' /\ InOrderIsServed'
<1>1. handlers' = handlers \ {h} /\ UNCHANGED <<leader, leads, hint>>
  BY DEF Return, election
<1>2. client \in Run /\ handlers' \subseteq Handler
  BY <1>1 DEF IInv, TypeOK
<1>3. CASE ~h.awaited
  <2>1. client' = client /\ acked' = acked
    BY <1>3 DEF Return
  <2> QED
    BY <1>1, <1>2, <1>3, <2>1, UnawaitedReturns
<1>4. CASE h.awaited
  <2>1. client' = Ended(r)
    BY <1>4 DEF Return
  <2>2. /\ client' \in Run /\ client'.pc = "done" /\ client'.result = r /\ client'.calm = client.calm
        /\ client'.cmd = client.cmd /\ client'.job = client.job /\ client'.form = client.form
    BY <1>2, <2>1, EndedFacts, ZenonT(30)
  <2>3. AwaitedInv' /\ CalmInv' /\ StoreInv'
    BY <1>1, <1>4, <2>2, AwaitedReturns
  <2>4. InOrderIsServed'
    BY <1>1, <1>4, <2>2, ZenonT(30) DEF InOrderIsServed, Due
  <2> QED
    BY <1>2, <2>2, <2>3, <2>4
<1> QED
  BY <1>3, <1>4, ZenonT(30)

\* A handler that only reads answers.
LEMMA ReaderAnswers ==
    ASSUME IInv, NEW h \in handlers, NEW r \in Result, Return(h, Ended(r)),
           UNCHANGED <<processes, disk, election, acked, bounds>>,
           h.awaited /\ client.calm /\ errors = 0 => Due(r, acked[leader])
    PROVE  IInv'
<1>1. /\ client' \in Run /\ handlers' \subseteq Handler
      /\ AwaitedInv' /\ CalmInv' /\ StoreInv' /\ InOrderIsServed'
  BY Answers, ZenonT(30) DEF bounds
<1>2. TypeOK' /\ ArmedInv' /\ StopsLoseNothing'
  BY <1>1, ProcessesKept, ZenonT(30) DEF IInv, StoreInv, ArmedInv, Return
<1> QED
  BY <1>1, <1>2, ZenonT(30) DEF IInv

\* What loadJob says on a process whose store is open: never an error, and it finds what
\* the leader has acknowledged.
LEMMA loadJobFacts ==
    ASSUME IInv, NEW h \in handlers, NEW found \in {"ok", "FailedPrecondition"}
    PROVE  \E r \in {found, "NotFound"} :
               /\ loadJob(h, found) = Ended(r)
               /\ h.awaited /\ client.calm /\ errors = 0 /\ h.cmd # "status" /\ r = "NotFound"
                      => client.job \notin acked[leader]
<1>1. db[h.at] /\ h.at \in Scheduler
  BY HandlerFacts
<1>2. CASE disk[h.at][h.job] = "none"
  <2>1. loadJob(h, found) = Ended("NotFound")
    BY <1>1, <1>2 DEF loadJob
  <2>2. ASSUME h.awaited, client.calm, errors = 0, h.cmd # "status", client.job \in acked[leader]
        PROVE  FALSE
    <3>1. h.at = leader /\ h.job = client.job
      BY <2>2, HandlerFacts DEF Current
    <3> QED
      BY <1>1, <1>2, <2>2, <3>1 DEF IInv, StopsLoseNothing, AckedIsDurable
  <2> QED
    BY <2>1, <2>2
<1>3. CASE disk[h.at][h.job] # "none"
  BY <1>1, <1>3 DEF loadJob
<1> QED
  BY <1>2, <1>3

LEMMA StepGetJob ==
    ASSUME IInv, NEW h \in handlers, GetJob(h) PROVE IInv'
<1>1. PICK r \in {"ok", "NotFound"} :
          /\ loadJob(h, "ok") = Ended(r)
          /\ h.awaited /\ client.calm /\ errors = 0 /\ h.cmd # "status" /\ r = "NotFound"
                 => client.job \notin acked[leader]
  BY loadJobFacts
<1>2. h.cmd = "get" /\ Return(h, Ended(r)) /\ UNCHANGED <<processes, disk, election, acked, bounds>>
  BY <1>1 DEF GetJob
<1>3. h.awaited /\ client.calm /\ errors = 0 => Due(r, acked[leader])
  BY <1>1, <1>2 DEF Due
<1>4. r \in Result
  BY DEF Result
<1> QED
  BY <1>2, <1>3, <1>4, ReaderAnswers, Zenon

LEMMA StepListJobs ==
    ASSUME IInv, NEW h \in handlers, ListJobs(h) PROVE IInv'
<1>1. Return(h, Ended("ok")) /\ UNCHANGED <<processes, disk, election, acked, bounds>>
  BY HandlerFacts DEF ListJobs
<1> QED
  BY <1>1, ReaderAnswers, ZenonT(30) DEF Due, Result

\* A handler that goes on is the one it was.
LEMMA Proceeds ==
    ASSUME IInv, NEW h \in handlers, NEW pc \in {"admitted", "arming"}, Proceed(h, pc),
           UNCHANGED <<processes, election, acked, errors>>
    PROVE  /\ client' \in Run /\ handlers' \subseteq Handler
           /\ AwaitedInv' /\ CalmInv' /\ StoreInv' /\ InOrderIsServed'
           /\ \A f \in handlers' : f.pc = "arming" =>
                  \/ pc = "arming" /\ f.at = h.at /\ f.job = h.job
                  \/ f \in handlers
<1> DEFINE g == [h EXCEPT !.pc = pc]
<1>1. handlers' = (handlers \ {h}) \cup {g} /\ client' = client
  BY DEF Proceed
<1>2. /\ g \in Handler /\ g.at = h.at /\ g.cmd = h.cmd /\ g.job = h.job /\ g.form = h.form
      /\ g.pc = pc /\ g.awaited = h.awaited
  BY HandlerFacts, Zenon DEF Handler
<1> HIDE DEF g
<1>3. client' \in Run /\ handlers' \subseteq Handler
  BY <1>1, <1>2 DEF IInv, TypeOK
<1>4. StoreInv'
  BY <1>1, <1>2 DEF IInv, StoreInv, processes
<1>5. AwaitedInv'
  BY <1>1, <1>2, ZenonT(30) DEF IInv, AwaitedInv, Current
<1>6. CalmInv' /\ InOrderIsServed'
  <2>1. InOrder <=> InOrder'
    BY DEF InOrder, processes, election
  <2> QED
    BY <1>1, <1>2, <2>1, ZenonT(30) DEF IInv, CalmInv, InOrderIsServed, election
<1>7. \A f \in handlers' : f.pc = "arming" =>
          \/ pc = "arming" /\ f.at = h.at /\ f.job = h.job
          \/ f \in handlers
  BY <1>1, <1>2
<1> QED
  BY <1>3, <1>4, <1>5, <1>6, <1>7

LEMMA StepAdmit ==
    ASSUME IInv, NEW h \in handlers, Admit(h) PROVE IInv'
<1>1. CASE h.at \notin leads
  <2>1. Return(h, Ended("error")) /\ h.cmd # "status"
    BY <1>1 DEF Admit, requireLeader
  <2>2. ~(h.awaited /\ client.calm)
    BY <1>1, <2>1, HandlerFacts
  <2> QED
    BY <2>1, <2>2, ReaderAnswers, ZenonT(30) DEF Admit, Result
<1>2. CASE h.at \in leads
  <2>1. Proceed(h, "admitted") /\ UNCHANGED <<processes, disk, election, acked, bounds>>
    BY <1>2 DEF Admit, requireLeader
  <2>2. /\ client' \in Run /\ handlers' \subseteq Handler
        /\ AwaitedInv' /\ CalmInv' /\ StoreInv' /\ InOrderIsServed'
        /\ \A f \in handlers' : f.pc = "arming" => f \in handlers
    BY <2>1, Proceeds DEF bounds
  <2>3. TypeOK' /\ ArmedInv' /\ StopsLoseNothing'
    BY <2>1, <2>2, ProcessesKept DEF IInv, StoreInv, ArmedInv, processes
  <2> QED
    BY <2>2, <2>3 DEF IInv
<1> QED
  BY <1>1, <1>2

\* A write that succeeds makes the job one that is stored.
LEMMA PutJobFacts ==
    ASSUME IInv, NEW h \in handlers, NEW state \in JobState, PutJob(h, state)
    PROVE  /\ disk' \in [Scheduler -> [Job -> JobState]] /\ errors' \in Nat /\ errors' = errors
           /\ disk'[h.at][h.job] = state
           /\ \A p \in Scheduler, j \in Job :
                  p # h.at \/ j # h.job => disk'[p][j] = disk[p][j]
  BY HandlerFacts, ZenonT(30) DEF PutJob, IInv, TypeOK

\* A write to an open store that fails counts as an error.
LEMMA PutFailsFacts ==
    ASSUME IInv, NEW h \in handlers, PutFails(h)
    PROVE  disk' = disk /\ errors' \in Nat /\ errors' # 0
<1>1. disk' = disk /\ errors' = errors + 1 /\ errors \in Nat
  BY HandlerFacts DEF PutFails, IInv, TypeOK
<1> QED
  BY <1>1

\* A write leaves what was stored stored.
LEMMA StoredFacts ==
    ASSUME IInv, NEW h \in handlers, NEW state \in JobState \ {"none"},
           PutJob(h, state) \/ PutFails(h)
    PROVE  /\ disk' \in [Scheduler -> [Job -> JobState]] /\ errors' \in Nat
           /\ errors' = 0 => errors = 0 /\ disk'[h.at][h.job] # "none"
           /\ \A p \in Scheduler, j \in Job : disk[p][j] # "none" => disk'[p][j] # "none"
<1>1. CASE PutJob(h, state)
  BY <1>1, PutJobFacts, HandlerFacts
<1>2. CASE PutFails(h)
  BY <1>2, PutFailsFacts DEF IInv, TypeOK
<1> QED
  BY <1>1, <1>2

\* SubmitJob answers that the job was taken, and unless its write failed it is stored.
LEMMA Acknowledged ==
    ASSUME IInv, NEW h \in handlers, Acknowledge(h), UNCHANGED <<processes, election>>,
           UNCHANGED <<commands, stops, changes, losses>>,
           disk' \in [Scheduler -> [Job -> JobState]], errors' \in Nat,
           errors' = 0 => errors = 0 /\ disk'[h.at][h.job] # "none",
           \A p \in Scheduler, j \in Job : disk[p][j] # "none" => disk'[p][j] # "none"
    PROVE  IInv'
<1>1. /\ Return(h, Ended("ok")) /\ handlers' = handlers \ {h}
      /\ acked' = IF h.awaited THEN [acked EXCEPT ![h.at] = @ \cup {h.job}] ELSE acked
  BY DEF Acknowledge, Return
<1>2. /\ client' \in Run /\ handlers' \subseteq Handler
      /\ AwaitedInv' /\ CalmInv' /\ StoreInv' /\ InOrderIsServed'
  BY <1>1, Answers, ZenonT(30) DEF Due, Result
<1>3. TypeOK'
  <2>1. acked' \in [Scheduler -> SUBSET Job]
    BY <1>1, HandlerFacts DEF IInv, TypeOK
  <2> QED
    BY <1>2, <2>1 DEF IInv, TypeOK, processes, election
<1>4. ArmedInv'
  BY <1>1 DEF IInv, ArmedInv, TypeOK, Handler
<1>5. StopsLoseNothing'
  <2> SUFFICES ASSUME errors' = 0, NEW p \in Scheduler, NEW j \in acked'[p]
               PROVE  disk'[p][j] # "none"
    BY DEF StopsLoseNothing, AckedIsDurable
  <2>1. errors = 0 /\ j \in Job
    BY <1>3 DEF TypeOK
  <2>2. CASE p = h.at /\ j = h.job
    BY <2>2
  <2>3. CASE ~(p = h.at /\ j = h.job)
    <3>1. j \in acked[p]
      BY <1>1, <2>3, HandlerFacts, ZenonT(30) DEF IInv, TypeOK
    <3> QED
      BY <2>1, <3>1 DEF IInv, StopsLoseNothing, AckedIsDurable
  <2> QED
    BY <2>2, <2>3
<1> QED
  BY <1>2, <1>3, <1>4, <1>5 DEF IInv

LEMMA StepSubmitJob ==
    ASSUME IInv, NEW h \in handlers, SubmitJob(h) PROVE IInv'
<1>1. /\ h.cmd = "submit" /\ (Reject(h) \/ Place(h) \/ PlaceFails(h))
      /\ UNCHANGED <<processes, election, commands, stops, changes, losses>>
  BY DEF SubmitJob
<1>2. CASE Reject(h)
  <2>1. /\ h.form \in {"invalid", "deps"} /\ Return(h, Ended("InvalidArgument"))
        /\ UNCHANGED <<disk, errors, acked>>
    BY <1>2 DEF Reject
  <2>2. h.awaited => client.form = h.form
    BY <1>1, HandlerFacts DEF Current
  <2> QED
    BY <1>1, <2>1, <2>2, ReaderAnswers, ZenonT(30) DEF Due, Result, bounds
<1>3. CASE Place(h)
  <2>1. PICK state \in JobState \ {"none"} : PutJob(h, state)
    BY <1>3 DEF Place, JobState
  <2>2. /\ disk' \in [Scheduler -> [Job -> JobState]] /\ errors' \in Nat /\ errors' = errors
        /\ disk'[h.at][h.job] # "none"
        /\ \A p \in Scheduler, j \in Job : disk[p][j] # "none" => disk'[p][j] # "none"
    BY <2>1, PutJobFacts, StoredFacts
  <2>3. CASE h.form # "delayed"
    <3>1. Acknowledge(h)
      BY <1>3, <2>3 DEF Place
    <3> QED
      BY <1>1, <2>2, <3>1, Acknowledged
  <2>4. CASE h.form = "delayed"
    <3>1. Proceed(h, "arming") /\ UNCHANGED acked
      BY <1>3, <2>4 DEF Place
    <3>2. /\ client' \in Run /\ handlers' \subseteq Handler
          /\ AwaitedInv' /\ CalmInv' /\ StoreInv' /\ InOrderIsServed'
          /\ \A f \in handlers' : f.pc = "arming" =>
                 (f.at = h.at /\ f.job = h.job) \/ f \in handlers
      BY <1>1, <2>2, <3>1, Proceeds
    <3>3. TypeOK'
      BY <1>1, <2>2, <3>1, <3>2 DEF IInv, TypeOK, processes, election
    <3>4. ArmedInv'
      BY <2>2, <3>2 DEF IInv, ArmedInv, TypeOK, Handler
    <3>5. StopsLoseNothing'
      BY <2>2, <3>1 DEF IInv, TypeOK, StopsLoseNothing, AckedIsDurable
    <3> QED
      BY <3>2, <3>3, <3>4, <3>5 DEF IInv
  <2> QED
    BY <2>3, <2>4
<1>4. CASE PlaceFails(h)
  <2>1. Acknowledge(h) /\ disk' = disk /\ errors' \in Nat /\ errors' # 0
    BY <1>4, PutFailsFacts DEF PlaceFails
  <2> QED
    BY <1>1, <2>1, Acknowledged DEF IInv, TypeOK
<1> QED
  BY <1>1, <1>2, <1>3, <1>4

\* The job whose timer was armed is stored, whatever was written since.
LEMMA SteparmEnqueue ==
    ASSUME IInv, NEW h \in handlers, armEnqueue(h) PROVE IInv'
<1>1. /\ Acknowledge(h) /\ UNCHANGED <<processes, election>>
      /\ UNCHANGED <<commands, stops, changes, losses>> /\ disk' = disk /\ errors' = errors
  BY DEF armEnqueue, bounds
<1>2. disk[h.at][h.job] # "none"
  BY DEF IInv, ArmedInv, armEnqueue
<1> QED
  BY <1>1, <1>2, Acknowledged DEF IInv, TypeOK

LEMMA StepCancelJob ==
    ASSUME IInv, NEW h \in handlers, CancelJob(h) PROVE IInv'
<1>0. /\ h.cmd = "cancel"
      /\ UNCHANGED <<processes, election, acked, commands, stops, changes, losses>>
  BY ZenonT(30) DEF CancelJob
<1>1. CASE db[h.at] /\ disk[h.at][h.job] = "QUEUED"
  <2>1. \/ PutJob(h, "CANCELED") /\ Return(h, Ended("ok"))
        \/ PutFails(h) /\ Return(h, Ended("error"))
    BY <1>1, ZenonT(30) DEF CancelJob
  <2>2. /\ disk' \in [Scheduler -> [Job -> JobState]] /\ errors' \in Nat
        /\ errors' = 0 => errors = 0
        /\ \A p \in Scheduler, j \in Job : disk[p][j] # "none" => disk'[p][j] # "none"
    BY <2>1, StoredFacts DEF JobState
  <2>3. /\ client' \in Run /\ handlers' \subseteq Handler
        /\ AwaitedInv' /\ CalmInv' /\ StoreInv' /\ InOrderIsServed'
    <3>1. CASE PutJob(h, "CANCELED") /\ Return(h, Ended("ok"))
      BY <1>0, <2>2, <3>1, Answers, ZenonT(30) DEF Due, Result
    <3>2. CASE PutFails(h) /\ Return(h, Ended("error"))
      BY <1>0, <2>2, <3>2, Answers, PutFailsFacts, ZenonT(30) DEF Result
    <3> QED
      BY <2>1, <3>1, <3>2
  <2>4. TypeOK'
    BY <1>0, <2>2, <2>3 DEF IInv, TypeOK, processes, election
  <2>5. handlers' \subseteq handlers
    BY <2>1 DEF Return
  <2>6. StopsLoseNothing' /\ ArmedInv'
    BY <1>0, <2>2, <2>5, DiskKept
  <2> QED
    BY <2>3, <2>4, <2>6 DEF IInv
<1>2. CASE ~(db[h.at] /\ disk[h.at][h.job] = "QUEUED")
  <2>1. PICK found \in {"ok", "FailedPrecondition"} : Return(h, loadJob(h, found)) /\ UNCHANGED <<disk, errors>>
    BY <1>2 DEF CancelJob
  <2>2. PICK r \in {found, "NotFound"} :
            /\ loadJob(h, found) = Ended(r)
            /\ h.awaited /\ client.calm /\ errors = 0 /\ h.cmd # "status" /\ r = "NotFound"
                   => client.job \notin acked[leader]
    BY loadJobFacts
  <2>3. h.awaited => client.cmd = "cancel"
    BY <1>0, HandlerFacts DEF Current
  <2>4. r \in Result /\ (h.awaited /\ client.calm /\ errors = 0 => Due(r, acked[leader]))
    BY <1>0, <2>2, <2>3 DEF Due, Result
  <2> QED
    BY <1>0, <2>1, <2>2, <2>4, ReaderAnswers, ZenonT(30) DEF bounds
<1> QED
  BY <1>1, <1>2

-----------------------------------------------------------------------------
(* Theorems.                                                               *)

LEMMA InvNext == IInv /\ [Next]_vars => IInv'
<1> SUFFICES ASSUME IInv, [Next]_vars PROVE IInv'
  OBVIOUS
<1>1. ASSUME NEW p \in Scheduler, Starting(p) PROVE IInv'
  BY <1>1, StepNew, StepServe DEF Starting
<1>2. ASSUME NEW p \in Scheduler, Stopping(p) PROVE IInv'
  BY <1>2, StepStopTimers, StepRefuse, StepGracefulStop, StepClose, StepExit DEF Stopping
<1>3. ASSUME NEW p \in Scheduler, Die(p) \/ Shutdown(p) \/ Elect(p) \/ Inform(p) PROVE IInv'
  BY <1>3, StepDie, StepShutdown, StepElect, StepInform
<1>4. ASSUME NEW cmd \in Command, NEW j \in Job, Begin(cmd, j) PROVE IInv'
  BY <1>4, StepBegin
<1>8. ASSUME NEW p \in Scheduler, NEW j \in Job, Finish(p, j) PROVE IInv'
  BY <1>8, StepFinish
<1>5. CASE Asking
  BY <1>5, StepAskSeed, StepCallLeader, StepBroken DEF Asking
<1>6. ASSUME NEW h \in handlers, Handle(h) \/ Lose(h) PROVE IInv'
  BY <1>6, StepGetClusterStatus, StepAdmit, StepSubmitJob, SteparmEnqueue, StepCancelJob, StepGetJob,
     StepListJobs, StepLose DEF Handle
<1>7. CASE UNCHANGED vars
  <2>1. /\ main' = main /\ db' = db /\ dispatchMu' = dispatchMu
        /\ disk' = disk /\ leader' = leader /\ leads' = leads /\ hint' = hint
        /\ handlers' = handlers /\ client' = client /\ acked' = acked
        /\ commands' = commands /\ stops' = stops /\ changes' = changes /\ losses' = losses /\ errors' = errors
    BY <1>7, Zenon DEF vars, processes, election, bounds
  <2>2. TypeOK'
    BY <2>1, Zenon DEF IInv, TypeOK
  <2>3. StoreInv' /\ ArmedInv'
    BY <2>1, Zenon DEF IInv, StoreInv, ArmedInv
  <2>4. AwaitedInv'
    BY <2>1, Zenon DEF IInv, AwaitedInv, Current
  <2>5. CalmInv'
    BY <2>1, Zenon DEF IInv, CalmInv, InOrder
  <2>6. StopsLoseNothing' /\ InOrderIsServed'
    BY <2>1, Zenon DEF IInv, StopsLoseNothing, AckedIsDurable, InOrderIsServed
  <2> QED
    BY <2>2, <2>3, <2>4, <2>5, <2>6 DEF IInv
<1> QED
  BY <1>1, <1>2, <1>3, <1>4, <1>5, <1>6, <1>7, <1>8 DEF Next

LEMMA InvHolds == Spec => []IInv
  BY InvInit, InvNext, PTL DEF Spec

\* Whatever signals, crashes and failing starts there are, Shutdown never closes the store
\* under a handler: a handler runs only in a process that has not returned from
\* GracefulStop.
THEOREM HandlersAlwaysHaveStore == Spec => []HandlersHaveStore
<1>1. IInv => HandlersHaveStore
  BY HandlerFacts, Zenon DEF HandlersHaveStore
<1> QED
  BY <1>1, InvHolds, PTL

\* As long as no write to an open store fails, a job whose submission was acknowledged stays
\* in the store of the scheduler that acknowledged it (SubmitJob, placeNewJob, Shutdown).
THEOREM NothingIsLostByStops == Spec => []StopsLoseNothing
<1>1. IInv => StopsLoseNothing
  BY DEF IInv
<1> QED
  BY <1>1, InvHolds, PTL

\* A command given to a cluster that is and stays in order gets the leader's own answer,
\* with any number of seeds, whichever of them is asked: it is refused only for what it
\* carries or for the state of its job (Status, leaderConn, requireLeader, SubmitJob,
\* CancelJob, loadJob).
THEOREM CommandsServedInOrder == Spec => []InOrderIsServed
<1>1. IInv => InOrderIsServed
  BY DEF IInv
<1> QED
  BY <1>1, InvHolds, PTL
=============================================================================
