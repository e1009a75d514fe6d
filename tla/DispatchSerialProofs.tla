------------------------ MODULE DispatchSerialProofs ------------------------
(***************************************************************************)
(* The other steps of Dispatch keep the invariant of DispatchSerial, and   *)
(* the theorems that follow when handlers are serialised, writes do not    *)
(* fail and leadership is lost only by crashing.                           *)
(***************************************************************************)
EXTENDS DispatchSerial

-----------------------------------------------------------------------------
(* Jobs that are over, failures and cascades.                              *)

\* What is known of a job that is over.
LEMMA OverMine ==
    ASSUME SInv, NEW t \in Thread, th[t].pc \in Over
    PROVE  /\ th[t] \in Locals /\ th[t].job \in Job /\ th[t].pc \in Working /\ th[t].pc \notin Clearing
           /\ Listing(th[t], jobs, revIndex, leases) /\ th[t].job \notin Unread(th[t])
           /\ jobs[th[t].job].state \in {"ABSENT", "SUCCEEDED", "FAILED", "CANCELED"}
           /\ th[t].pc \in Reported => th[t].list = {} /\ th[t].todo = {}
           /\ \A j \in Job : ~Held(j, th[t], jobs)
<1>1. th[t].pc \in Working /\ th[t].pc \notin Clearing /\ \A st : ~InHand(th[t].pc, st)
  BY ZenonT(30) DEF Over, Working, Clearing, InHand, Arming, Leaving
<1>2. th[t] \in Locals /\ th[t].job \in Job /\ Current(th[t], jobs) /\ Listing(th[t], jobs, revIndex, leases)
  BY <1>1, MineSerial
<1>3. /\ jobs[th[t].job].state \in {"ABSENT", "SUCCEEDED", "FAILED", "CANCELED"}
      /\ th[t].pc \in Reported => th[t].list = {} /\ th[t].todo = {}
  BY <1>2, ZenonT(30) DEF Current
<1>. QED  BY <1>1, <1>2, <1>3, ZenonT(30) DEF Listing, Held

LEMMA SerialReportUnindex == ASSUME Serial, SInv, IInv', NEW t \in Thread, ReportUnindex(t) PROVE SInv'
<1>. DEFINE r == th[t]
            x == [r EXCEPT !.pc = "dependents"]
<1>1. /\ r.pc = "succeeded" /\ Become(t, x) /\ removeFromIndex(r.job)
      /\ UNCHANGED <<jobs, leases, rest, queue, timers>>
  BY Zenon DEF ReportUnindex, At, Goto, store
<1>2. r.pc \in Over /\ r.pc \in Reported
  BY <1>1 DEF Over, Reported
<1>3. /\ r \in Locals /\ r.job \in Job /\ r.pc \in Working
      /\ jobs[r.job].state \in {"ABSENT", "SUCCEEDED", "FAILED", "CANCELED"} /\ r.list = {} /\ r.todo = {}
      /\ \A j \in Job : ~Held(j, r, jobs)
  BY <1>2, OverMine, ZenonT(30)
<1>4. Stays(r, x) /\ x.pc = "dependents"
  BY <1>3, GotoStays
<1>. HIDE DEF x
<1>5. x.job = r.job /\ x.list = {} /\ x.todo = {}
  BY <1>3, <1>4 DEF Stays
<1>6. x.pc \in Over /\ x.pc \in Working /\ x.pc \notin Placing /\ \A st : ~InHand(x.pc, st)
  BY <1>4 DEF Over, Working, Placing, InHand, Arming, Leaving
<1>7. Current(x, jobs)
  BY <1>3, <1>5, <1>6, CurrentOver, ZenonT(30)
<1>8. \A j \in Job : Waits(j, r, jobs) => Waits(j, x, jobs)
  BY <1>1, <1>3, <1>4, <1>5, ZenonT(30) DEF Waits
<1>9. /\ \A d \in Job : \A j \in revIndex'[d] : j \in revIndex[d]
      /\ \A j \in Job : jobs[j].state = "PENDING" =>
             \A d \in SeqSet(jobs[j].deps) : j \in revIndex[d] => j \in revIndex'[d]
  BY <1>1, <1>3, Unindexed, ZenonT(30)
<1>10. ~InHand(r.pc, jobs[r.job].state)
  BY <1>3 DEF Held
<1>. HIDE DEF r
<1>. QED  BY <1>1, <1>3, <1>4, <1>6, <1>7, <1>8, <1>9, <1>10, GoOn, ZenonT(30) DEF r

LEMMA SerialpromoteDependents == ASSUME Serial, SInv, IInv', NEW t \in Thread, promoteDependents(t) PROVE SInv'
<1>. DEFINE r == th[t]
            y == [r EXCEPT !.todo = revIndex[r.job]]
<1>1. r.pc = "dependents" /\ Become(t, Resume(y)) /\ UNCHANGED <<jobs, leases, rest, queue, timers, revIndex>>
  BY Zenon DEF promoteDependents, At, Local, store, memory
<1>2. r.pc \in Over /\ r.pc \in Reported
  BY <1>1 DEF Over, Reported
<1>3. /\ r \in Locals /\ r.job \in Job /\ r.pc \notin Clearing /\ Listing(r, jobs, revIndex, leases)
      /\ r.list = {} /\ r.todo = {} /\ \A j \in Job : ~Held(j, r, jobs)
  BY <1>2, OverMine, ZenonT(30)
<1>4. revIndex \in [Job -> SUBSET Job]
  BY MineSerial
<1>5. y \in Locals /\ y.list = r.list /\ y.task = r.task /\ y.work = r.work /\ y.todo = revIndex[r.job]
  BY <1>3, <1>4 DEF Locals
<1>. HIDE DEF y
<1>6. \A j \in y.work : j \notin Unread(r)
  BY <1>3, <1>5, ZenonT(30) DEF Listing
<1>7. ASSUME NEW j \in Job, jobs[j].state = "PENDING", Waits(j, r, jobs),
             Agrees(r, jobs, queue \cup timers, leases, revIndex)
      PROVE  j \in y.todo \/ \E d \in SeqSet(jobs[j].deps) : jobs[d].state # "SUCCEEDED"
  <2>0. Unread(r) = {}
    BY <1>3 DEF Unread
  <2>1. Placed(j, r.task, jobs[j], queue \cup timers, leases, revIndex)
    BY <1>3, <1>7, <2>0, ZenonT(30) DEF Agrees, Found
  <2>2. \A d \in SeqSet(jobs[j].deps) : j \in revIndex[d]
    BY <1>7, <2>1, ZenonT(30) DEF Placed
  <2>3. \/ r.job \in SeqSet(jobs[j].deps)
        \/ \E d \in SeqSet(jobs[j].deps) : jobs[d].state # "SUCCEEDED"
    BY <1>1, <1>3, <1>7, ZenonT(30) DEF Waits
  <2>. QED  BY <1>5, <2>2, <2>3, ZenonT(30)
<1>. HIDE DEF r
<1>. QED  BY <1>1, <1>3, <1>5, <1>6, <1>7, GoBack, ZenonT(30) DEF r

\* A step to another place where the job is in hand as RUNNING.
LEMMA RanStep ==
    ASSUME Serial, SInv, IInv', NEW t \in Thread, NEW pc \in {"cronFail", "bury", "fail terminally"}, Goto(t, pc),
           UNCHANGED <<jobs, leases, rest, queue, timers, revIndex>>, th[t].pc \in {"failure", "bury"}
    PROVE  SInv'
<1>. DEFINE r == th[t]
            x == [r EXCEPT !.pc = pc]
<1>1. Become(t, x)
  BY ZenonT(30) DEF Goto
<1>2. r.pc \in Working /\ r.pc \in Ran /\ InHand(r.pc, "RUNNING") /\ r.pc \notin {"deps", "ready", "succeeded", "dependents"}
  BY ZenonT(30) DEF Working, Ran, InHand, Leaving
<1>3. r \in Locals /\ r.job \in Job /\ Current(r, jobs)
  BY <1>2, MineSerial, ZenonT(30)
<1>4. jobs[r.job].state = "RUNNING" /\ r.rec = jobs[r.job]
  BY <1>2, <1>3, ZenonT(30) DEF Current
<1>5. Stays(r, x) /\ x.pc = pc /\ x.rec = r.rec
  BY <1>3, ZenonT(30) DEF Locals, Stays
<1>. HIDE DEF x
<1>6. x.job = r.job
  BY <1>5, ZenonT(30) DEF Stays
<1>7. x.pc \in Working /\ x.pc \in Ran /\ x.pc \notin Placing /\ x.pc \notin Reported /\ InHand(x.pc, "RUNNING")
  BY <1>5, ZenonT(30) DEF Working, Ran, Placing, Reported, InHand, Leaving
<1>8. Current(x, jobs)
  BY <1>4, <1>5, <1>6, <1>7, CurrentRan, ZenonT(30)
<1>9. \A j \in Job : Waits(j, r, jobs) => Waits(j, x, jobs)
  BY <1>2, <1>5, WaitsMove, ZenonT(30) DEF Stays
<1>. HIDE DEF r
<1>. QED  BY <1>1, <1>2, <1>4, <1>5, <1>7, <1>8, <1>9, GoOn, ZenonT(30) DEF r

LEMMA SerialhandleFailure == ASSUME Serial, SInv, IInv', NEW t \in Thread, handleFailure(t) PROVE SInv'
<1>1. th[t].pc = "failure" /\ Storing /\ th[t].pc \in Ran
  BY Zenon DEF handleFailure, At, Ran
<1>2. PICK rec : rec = [th[t].rec EXCEPT !.state = "QUEUED", !.sched = TRUE]
  OBVIOUS
<1>3. rec.state = "QUEUED"
  BY <1>2, MineSerial, ZenonT(30) DEF Locals, Record
<1>4. CASE putJob(th[t].job, rec) /\ \E next \in {"arm", "enqueue"} : Forget(t, next)
  BY <1>1, <1>3, <1>4, QueuedStep, ZenonT(30)
<1>5. CASE /\ Goto(t, IF th[t].rec.kind = "cron" THEN "cronFail" ELSE "bury")
           /\ UNCHANGED <<jobs, succeeded, errors>>
  <2>1. PICK pc \in {"cronFail", "bury"} : Goto(t, pc)
    BY <1>5, Zenon
  <2>2. UNCHANGED <<jobs, leases, rest, queue, timers, revIndex>>
    BY <1>1, <1>5, Zenon DEF Storing, memory, rest
  <2>. QED  BY <1>1, <2>1, <2>2, RanStep, ZenonT(30)
<1>. QED  BY <1>2, <1>4, <1>5, NoErrors, Zenon DEF handleFailure, GiveUp

LEMMA SerialmaybeRescheduleCron == ASSUME Serial, SInv, IInv', NEW t \in Thread, maybeRescheduleCron(t) PROVE SInv'
<1>1. PICK pc \in {"cronOk", "cronFail"} : th[t].pc = pc
  BY Zenon DEF maybeRescheduleCron, At
<1>2. PICK rec : rec = [th[t].rec EXCEPT !.state = "QUEUED", !.attempt = 0, !.sched = TRUE]
  OBVIOUS
<1>3. rec.state = "QUEUED" /\ th[t].pc \in Ran
  BY <1>1, <1>2, MineSerial, ZenonT(30) DEF Locals, Record, Ran
<1>4. Storing /\ putJob(th[t].job, rec) /\ \E next \in {"arm", "enqueue"} : Forget(t, next)
  BY <1>2, NoErrors, Zenon DEF maybeRescheduleCron
<1>. QED  BY <1>3, <1>4, QueuedStep, ZenonT(30)

LEMMA SerialPutDeadLetter == ASSUME Serial, SInv, IInv', NEW t \in Thread, PutDeadLetter(t) PROVE SInv'
<1>1. th[t].pc = "bury" /\ Goto(t, "fail terminally") /\ UNCHANGED <<jobs, leases, rest, queue, timers, revIndex>>
  BY NoErrors, ZenonT(30) DEF PutDeadLetter, At, GiveUp, memory, rest
<1>. QED  BY <1>1, RanStep, ZenonT(30)

\* A handler goes on to the cascade, or to the next job of it.
LEMMA OverBack ==
    ASSUME Serial, SInv, IInv', NEW t \in Thread, NEW y \in Locals, Become(t, Resume(y)), th[t].pc \in Over \ Reported,
           UNCHANGED <<jobs, leases, rest, timers>>, queue' \in {queue, queue \ {th[t].job}},
           removeFromIndex(th[t].job) \/ UNCHANGED revIndex,
           y.list = th[t].list, y.task = th[t].task, y.todo = th[t].todo,
           \A j \in y.work : j \in th[t].work \/ j = th[t].job \/ j \in revIndex[th[t].job]
    PROVE  SInv'
<1>. DEFINE r == th[t]
<1>1. /\ r \in Locals /\ r.job \in Job /\ r.pc \in Working /\ r.pc \notin Clearing
      /\ Listing(r, jobs, revIndex, leases) /\ r.job \notin Unread(r)
      /\ jobs[r.job].state \in {"ABSENT", "SUCCEEDED", "FAILED", "CANCELED"}
      /\ \A j \in Job : ~Held(j, r, jobs)
  BY OverMine, ZenonT(30)
<1>2. \A j \in y.work : j \notin Unread(r)
  BY <1>1, ZenonT(30) DEF Listing
<1>3. /\ \A d \in Job : \A j \in revIndex'[d] : j \in revIndex[d]
      /\ \A j \in Job : jobs[j].state = "PENDING" =>
             \A d \in SeqSet(jobs[j].deps) : j \in revIndex[d] => j \in revIndex'[d]
  BY <1>1, Unindexed, ZenonT(30)
<1>4. r.pc \notin {"deps", "ready", "succeeded", "dependents"}
  BY ZenonT(30) DEF Over, Reported
<1>5. \A j \in Job : jobs[j].state = "PENDING" /\ Waits(j, r, jobs)
         => j \in y.todo \/ \E d \in SeqSet(jobs[j].deps) : jobs[d].state # "SUCCEEDED"
  BY <1>4, ZenonT(30) DEF Waits
<1>6. \A j \in Job : jobs[j].state = "QUEUED" /\ j \in queue \cup timers => j \in queue' \cup timers'
  BY <1>1, ZenonT(30)
<1>7. UNCHANGED <<jobs, leases, rest>> /\ y.list = r.list /\ y.task = r.task
  OBVIOUS
<1>. HIDE DEF r
<1>. QED  BY <1>1, <1>2, <1>3, <1>5, <1>6, <1>7, GoBack DEF r

LEMMA SerialFailUnindex == ASSUME Serial, SInv, IInv', NEW t \in Thread, FailUnindex(t) PROVE SInv'
<1>. DEFINE y == [th[t] EXCEPT !.work = {th[t].job}]
<1>1. /\ th[t].pc = "failed" /\ Become(t, Resume(y)) /\ removeFromIndex(th[t].job)
      /\ UNCHANGED <<jobs, leases, rest, queue, timers>>
  BY Zenon DEF FailUnindex, At, store
<1>2. th[t].pc \in Over \ Reported
  BY <1>1 DEF Over, Reported
<1>3. th[t] \in Locals /\ th[t].job \in Job
  BY <1>2, OverMine, ZenonT(30)
<1>4. y \in Locals /\ y.list = th[t].list /\ y.task = th[t].task /\ y.todo = th[t].todo /\ y.work = {th[t].job}
  BY <1>3, ZenonT(30) DEF Locals
<1>. HIDE DEF y
<1>. QED  BY <1>1, <1>2, <1>4, OverBack, ZenonT(30)

LEMMA SerialCancelDequeue == ASSUME Serial, SInv, IInv', NEW t \in Thread, CancelDequeue(t) PROVE SInv'
<1>. DEFINE y == [th[t] EXCEPT !.work = {th[t].job}]
<1>1. /\ th[t].pc = "canceled" /\ Become(t, Resume(y)) /\ queue' = queue \ {th[t].job}
      /\ UNCHANGED <<jobs, leases, rest, timers, revIndex>>
  BY Zenon DEF CancelDequeue, At, store
<1>2. th[t].pc \in Over \ Reported
  BY <1>1, ZenonT(30) DEF Over, Reported
<1>3. th[t] \in Locals /\ th[t].job \in Job
  BY <1>2, OverMine, Zenon
<1>4. y \in Locals /\ y.list = th[t].list /\ y.task = th[t].task /\ y.todo = th[t].todo /\ y.work = {th[t].job}
  BY <1>3 DEF Locals
<1>. HIDE DEF y
<1>. QED  BY <1>1, <1>2, <1>4, OverBack, ZenonT(30)

LEMMA SerialCascadeVisit == ASSUME Serial, SInv, IInv', NEW t \in Thread, CascadeVisit(t) PROVE SInv'
<1>. DEFINE seen == th[t].seen \cup {th[t].job}
            work == (th[t].work \cup revIndex[th[t].job]) \ seen
            x == [th[t] EXCEPT !.pc = "cascade unindex", !.seen = seen, !.work = work]
<1>. DEFINE r == th[t]
<1>1. /\ r.pc = "cascade visit" /\ Become(t, x)
      /\ UNCHANGED <<jobs, leases, rest, revIndex, queue, timers>>
  BY Zenon DEF CascadeVisit, At, Local, store, memory
<1>2. r.pc \in Over \ Reported /\ r.pc \notin {"deps", "ready", "succeeded", "dependents"}
  BY <1>1, ZenonT(30) DEF Over, Reported
<1>3. /\ r \in Locals /\ r.job \in Job /\ r.pc \notin Clearing
      /\ Listing(r, jobs, revIndex, leases) /\ r.job \notin Unread(r)
      /\ jobs[r.job].state \in {"ABSENT", "SUCCEEDED", "FAILED", "CANCELED"}
      /\ \A i \in Job : ~Held(i, r, jobs)
  BY <1>2, OverMine, ZenonT(30)
<1>4. \A l \in leases : l.job \in Job
  BY MineSerial, ZenonT(30)
<1>5. \A j \in work : j \in r.work \/ j \in revIndex[r.job]
  OBVIOUS
<1>6. \A j \in work : j \notin Unread(r)
  BY <1>3, <1>5, ZenonT(30) DEF Listing
<1>. HIDE DEF seen, work
<1>7. /\ x.pc = "cascade unindex" /\ x.job = r.job /\ x.list = r.list /\ x.task = r.task
      /\ x.todo = r.todo /\ x.work = work
  BY <1>3, ZenonT(30) DEF Locals
<1>. HIDE DEF x, r
<1>8. /\ x.pc \in Over /\ x.pc \notin Reported /\ x.pc \notin Clearing /\ x.pc \notin Placing
      /\ x.pc # "promote" /\ \A st : ~InHand(x.pc, st)
  BY <1>7, ZenonT(30) DEF Over, Reported, Clearing, Placing, InHand, Arming, Leaving
<1>9. Current(x, jobs)
  BY <1>3, <1>7, <1>8, CurrentOver, ZenonT(30)
<1>10. Listing(x, jobs, revIndex, leases)
  BY <1>3, <1>6, <1>7, <1>8, ListingMove, ZenonT(30)
<1>11. \A i \in Job : ~Held(i, r, jobs) /\ ~Held(i, x, jobs)
  BY <1>3, <1>8, ZenonT(30) DEF Held
<1>12. \A i \in Job : Waits(i, r, jobs) => Waits(i, x, jobs)
  BY <1>2, <1>7, WaitsMove, ZenonT(30)
<1>13. ASSUME Agrees(r, jobs, queue \cup timers, leases, revIndex)
       PROVE  Agrees(x, jobs, queue \cup timers, leases, revIndex)
  BY <1>4, <1>7, <1>11, <1>12, <1>13, AgreesSame, ZenonT(30)
<1>14. Listing(x, jobs, revIndex', leases)
  BY <1>1, <1>10, ZenonT(30)
<1>. QED  BY <1>1, <1>3, <1>8, <1>9, <1>13, <1>14, MoveStep, ZenonT(30) DEF r

LEMMA SerialCascadeUnindex == ASSUME Serial, SInv, IInv', NEW t \in Thread, CascadeUnindex(t) PROVE SInv'
<1>1. /\ th[t].pc = "cascade unindex" /\ Become(t, Resume(th[t])) /\ removeFromIndex(th[t].job)
      /\ UNCHANGED <<jobs, leases, rest, queue, timers>>
  BY Zenon DEF CascadeUnindex, At, store
<1>2. th[t].pc \in Over \ Reported
  BY <1>1, ZenonT(30) DEF Over, Reported
<1>3. th[t] \in Locals
  BY <1>2, OverMine, Zenon
<1>. QED  BY <1>1, <1>2, <1>3, OverBack, ZenonT(30)

LEMMA SerialCancelJob == ASSUME Serial, SInv, IInv', NEW t \in Thread, CancelJob(t) PROVE SInv'
<1>1. PICK j \in Job : /\ jobs[j].state # "ABSENT" /\ ~terminal(jobs[j].state)
                       /\ Become(t, [Idle EXCEPT !.pc = "cancel", !.job = j, !.rec = jobs[j]])
  BY Zenon DEF CancelJob
<1>2. th[t].pc = "idle" /\ UNCHANGED <<jobs, leases, rest, revIndex, queue, timers>>
  BY Zenon DEF CancelJob, Accept, At, Local, store, memory
<1>. DEFINE x == [Idle EXCEPT !.pc = "cancel", !.job = j, !.rec = jobs[j]]
<1>3. x.pc = "cancel" /\ x.job = j /\ x.rec = jobs[j] /\ x.list = {} /\ x.task = 0
  BY DEF Idle
<1>4. Become(t, x)
  BY <1>1
<1>. HIDE DEF x
<1>5. jobs[j].state \in {"PENDING", "QUEUED", "RUNNING"}
  BY <1>1, MineSerial DEF Record, JobState, terminal
<1>6. Current(x, jobs)
  BY <1>3, <1>5 DEF Current, Polling, Reported, Placing, Arming, Ran, Over
<1>7. x.pc \notin Clearing /\ x.pc \notin Placing /\ \A st : ~InHand(x.pc, st)
  BY <1>3 DEF Clearing, Placing, InHand, Arming, Leaving
<1>8. th[t].list = {} /\ th[t].task = 0 /\ th[t].todo = {}
  BY <1>2, Free
<1>9. \A i \in Job : ~Held(i, th[t], jobs) /\ ~Held(i, x, jobs)
  BY <1>2, <1>7, IdlePc, ZenonT(30) DEF Held
<1>10. th[t].pc \notin Clearing /\ th[t].pc \notin {"deps", "ready", "succeeded", "dependents"}
  BY <1>2, IdlePc
<1>. QED  BY <1>2, <1>3, <1>4, <1>6, <1>7, <1>8, <1>9, <1>10, BeginStep, ZenonT(30)

LEMMA SerialcancelCascade == ASSUME Serial, SInv, IInv', NEW t \in Thread, cancelCascade(t) PROVE SInv'
<1>. DEFINE r == th[t]
<1>1. r.pc = "cascade" /\ UNCHANGED <<jobs, leases, rest, revIndex, queue, timers>>
  BY Zenon DEF cancelCascade, At, Local, store, memory
<1>2. PICK j \in r.work :
        Become(t, IF jobs[j].state = "ABSENT" \/ terminal(jobs[j].state)
                  THEN [r EXCEPT !.pc = "cascade visit", !.job = j]
                  ELSE [r EXCEPT !.pc = "cascade cancel", !.job = j, !.rec = jobs[j]])
  BY Zenon DEF cancelCascade
<1>3. /\ r.pc \notin Clearing /\ r.pc \notin {"deps", "ready", "succeeded", "dependents"}
      /\ \A st : ~InHand(r.pc, st)
  BY <1>1 DEF Clearing, InHand, Arming, Leaving
<1>4. r \in Locals /\ Listing(r, jobs, revIndex, leases) /\ jobs \in [Job -> Record] /\ \A l \in leases : l.job \in Job
  BY MineSerial
<1>5. j \in Job /\ j \notin Unread(r) /\ \A i \in r.work : i \notin Unread(r)
  BY <1>4, ZenonT(30) DEF Listing, Locals
<1>6. ASSUME NEW x, Become(t, x), x.pc \in {"cascade visit", "cascade cancel"}, x.job = j, Current(x, jobs),
             x.list = r.list, x.todo = r.todo, x.work = r.work, x.task = r.task
      PROVE  SInv'
  <2>1. x.pc \notin Clearing /\ x.pc \notin Placing /\ x.pc # "promote" /\ \A st : ~InHand(x.pc, st)
    BY <1>6, ZenonT(30) DEF Clearing, Placing, InHand, Arming, Leaving
  <2>2. Listing(x, jobs, revIndex, leases)
    BY <1>4, <1>5, <1>6, <2>1, ListingMove, ZenonT(30)
  <2>3. \A i \in Job : ~Held(i, r, jobs) /\ ~Held(i, x, jobs)
    BY <1>3, <2>1, ZenonT(30) DEF Held
  <2>4. \A i \in Job : Waits(i, r, jobs) => Waits(i, x, jobs)
    BY <1>3, <1>6, WaitsMove, ZenonT(30)
  <2>5. ASSUME Agrees(r, jobs, queue \cup timers, leases, revIndex)
        PROVE  Agrees(x, jobs, queue \cup timers, leases, revIndex)
    BY <1>4, <1>6, <2>3, <2>4, <2>5, AgreesSame, ZenonT(30)
  <2>6. Listing(x, jobs, revIndex', leases)
    BY <1>1, <2>2, ZenonT(30)
  <2>. HIDE DEF r
  <2>. QED  BY <1>1, <1>3, <1>6, <2>1, <2>5, <2>6, MoveStep, ZenonT(30) DEF r
<1>7. CASE jobs[j].state = "ABSENT" \/ terminal(jobs[j].state)
  <2>. DEFINE x == [r EXCEPT !.pc = "cascade visit", !.job = j]
  <2>1. Become(t, x)
    BY <1>2, <1>7, Zenon
  <2>2. /\ x.pc = "cascade visit" /\ x.job = j
        /\ x.list = r.list /\ x.todo = r.todo /\ x.work = r.work /\ x.task = r.task
    BY <1>4, ZenonT(30) DEF Locals
  <2>. HIDE DEF x
  <2>3. Current(x, jobs)
    BY <1>7, <2>2, ZenonT(30) DEF Current, Polling, Reported, Placing, Arming, Ran, Over, terminal
  <2>. QED  BY <1>6, <2>1, <2>2, <2>3, ZenonT(30)
<1>8. CASE ~(jobs[j].state = "ABSENT" \/ terminal(jobs[j].state))
  <2>. DEFINE x == [r EXCEPT !.pc = "cascade cancel", !.job = j, !.rec = jobs[j]]
  <2>1. Become(t, x)
    BY <1>2, <1>8, Zenon
  <2>2. /\ x.pc = "cascade cancel" /\ x.job = j /\ x.rec = jobs[j]
        /\ x.list = r.list /\ x.todo = r.todo /\ x.work = r.work /\ x.task = r.task
    BY <1>4 DEF Locals
  <2>. HIDE DEF x
  <2>3. jobs[j].state \in {"PENDING", "QUEUED", "RUNNING"}
    BY <1>4, <1>5, <1>8, ZenonT(30) DEF Record, JobState, terminal
  <2>4. Current(x, jobs)
    BY <2>2, <2>3, ZenonT(30) DEF Current, Polling, Reported, Placing, Arming, Ran, Over
  <2>. QED  BY <1>6, <2>1, <2>2, <2>4, ZenonT(30)
<1>. QED  BY <1>7, <1>8

LEMMA SerialCascadeDequeue == ASSUME Serial, SInv, IInv', NEW t \in Thread, CascadeDequeue(t) PROVE SInv'
<1>. DEFINE r == th[t]
            x == [r EXCEPT !.pc = "cascade visit"]
<1>1. /\ r.pc = "cascade dequeue" /\ Become(t, x) /\ queue' = queue \ {r.job}
      /\ UNCHANGED <<jobs, leases, rest, revIndex, timers>>
  BY Zenon DEF CascadeDequeue, At, Goto, store
<1>2. r.pc \in Over /\ r.pc \notin {"deps", "ready", "succeeded", "dependents"}
  BY <1>1, ZenonT(30) DEF Over
<1>3. /\ r \in Locals /\ r.job \in Job /\ r.pc \in Working
      /\ jobs[r.job].state \in {"ABSENT", "SUCCEEDED", "FAILED", "CANCELED"}
      /\ \A j \in Job : ~Held(j, r, jobs)
  BY <1>2, OverMine, ZenonT(30)
<1>4. Stays(r, x) /\ x.pc = "cascade visit"
  BY <1>3 DEF Locals, Stays
<1>. HIDE DEF x
<1>5. x.job = r.job
  BY <1>4, ZenonT(30) DEF Stays
<1>6. /\ x.pc \in Over /\ x.pc \notin Reported /\ x.pc \in Working /\ x.pc \notin Placing
      /\ \A st : ~InHand(x.pc, st)
  BY <1>4, ZenonT(30) DEF Over, Reported, Working, Placing, InHand, Arming, Leaving
<1>7. Current(x, jobs)
  BY <1>3, <1>5, <1>6, CurrentOver, ZenonT(30)
<1>8. \A j \in Job : Waits(j, r, jobs) => Waits(j, x, jobs)
  BY <1>2, <1>4, WaitsMove, ZenonT(30) DEF Stays
<1>9. \A j \in Job : jobs[j].state = "QUEUED" /\ j \in queue \cup timers => j \in queue' \cup timers'
  BY <1>1, <1>3, ZenonT(30)
<1>10. ~InHand(r.pc, jobs[r.job].state)
  BY <1>3 DEF Held
<1>. HIDE DEF r
<1>. QED  BY <1>1, <1>3, <1>4, <1>6, <1>7, <1>8, <1>9, <1>10, GoOn, ZenonT(30) DEF r

-----------------------------------------------------------------------------
(* Leadership, crashes, the rebuild.                                       *)

\* Nothing is promised while the maps are cleared.
LEMMA ClearStep ==
    ASSUME Serial, SInv, IInv', NEW t \in Thread, NEW x, Become(t, x), x.pc \in Clearing,
           UNCHANGED <<jobs, submits, nextTask, stepDowns, errors>>,
           leases' \subseteq leases, callbacks' \subseteq callbacks,
           Listing(x, jobs, revIndex', leases')
    PROVE  SInv'
<1>1. x.pc \notin Placing /\ Current(x, jobs)
  BY ZenonT(30) DEF Clearing, Current, Polling, Reported, Placing, Arming, Ran, Over
<1>2. th'[t] = x /\ \A u \in Thread : u = t
  BY DEF SInv, IInv, ThreadInv, Become, Serial
<1>3. \A u \in Thread : th'[u].pc \in Placing => submits'[th'[u].job] # 0
  BY <1>1, <1>2, ZenonT(30)
<1>4. Ids'
  BY <1>3, ZenonT(30) DEF SInv, Ids
<1>. QED  BY <1>1, <1>4, SerialStep, ZenonT(30)

LEMMA SerialCallback == ASSUME Serial, SInv, IInv', NEW t \in Thread, Callback(t) PROVE SInv'
<1>1. PICK c \in callbacks : /\ callbacks' = callbacks \ {c}
                             /\ Become(t, [Idle EXCEPT !.pc = "clear queue", !.flag = (c[1] = "lead")])
  BY Zenon DEF Callback
<1>. DEFINE x == [Idle EXCEPT !.pc = "clear queue", !.flag = (c[1] = "lead")]
<1>2. c[1] = "lead"
  BY ZenonT(30) DEF SInv, Ids
<1>3. x.pc = "clear queue" /\ x.flag /\ x.list = {} /\ x.work = {}
  BY <1>2, ZenonT(30) DEF Idle
<1>4. Become(t, x)
  BY <1>1
<1>. HIDE DEF x
<1>5. UNCHANGED <<jobs, leases, revIndex, submits, nextTask, stepDowns, errors>>
  BY Zenon DEF Callback, store, memory
<1>6. x.pc \in Clearing /\ x.pc \notin Working
  BY <1>3, Zenon DEF Clearing, Working
<1>7. Unread(x) = {}
  BY <1>3, ZenonT(30) DEF Unread
<1>8. Listing(x, jobs, revIndex', leases')
  BY <1>3, <1>6, <1>7, ZenonT(30) DEF Listing
<1>. QED  BY <1>1, <1>4, <1>5, <1>6, <1>8, ClearStep, ZenonT(30)

LEMMA SerialClearQueue == ASSUME Serial, SInv, IInv', NEW t \in Thread, ClearQueue(t) PROVE SInv'
<1>. DEFINE r == th[t]
            x == [r EXCEPT !.pc = "clear leases"]
<1>1. r.pc = "clear queue" /\ Become(t, x) /\ UNCHANGED <<jobs, leases, revIndex, rest, timers>>
  BY Zenon DEF ClearQueue, At, Goto, store
<1>2. UNCHANGED <<submits, nextTask, stepDowns, errors, callbacks>>
  BY <1>1, Zenon DEF rest, node
<1>3. r \in Locals /\ Listing(r, jobs, revIndex, leases)
  BY MineSerial
<1>4. x.pc = "clear leases" /\ x.flag = r.flag /\ x.list = r.list /\ x.work = r.work
  BY <1>3 DEF Locals
<1>. HIDE DEF x
<1>5. x.pc \in Clearing /\ x.pc \notin Working /\ r.pc \in Clearing /\ r.pc # "list"
  BY <1>1, <1>4, ZenonT(30) DEF Clearing, Working
<1>6. Unread(x) = Unread(r)
  BY <1>4, ZenonT(30) DEF Unread
<1>7. Listing(x, jobs, revIndex', leases')
  BY <1>1, <1>3, <1>4, <1>5, <1>6, ZenonT(30) DEF Listing
<1>. QED  BY <1>1, <1>2, <1>5, <1>7, ClearStep, ZenonT(30)

LEMMA SerialClearLeases == ASSUME Serial, SInv, IInv', NEW t \in Thread, ClearLeases(t) PROVE SInv'
<1>. DEFINE r == th[t]
            x == [r EXCEPT !.pc = "clear index"]
<1>1. r.pc = "clear leases" /\ Become(t, x) /\ leases' = {} /\ UNCHANGED <<jobs, queue, revIndex, rest>>
  BY Zenon DEF ClearLeases, At, Goto, store
<1>2. UNCHANGED <<submits, nextTask, stepDowns, errors, callbacks>>
  BY <1>1, Zenon DEF rest, node
<1>3. r \in Locals /\ Listing(r, jobs, revIndex, leases)
  BY MineSerial
<1>4. x.pc = "clear index" /\ x.flag = r.flag /\ x.list = r.list /\ x.work = r.work
  BY <1>3 DEF Locals
<1>. HIDE DEF x
<1>5. x.pc \in Clearing /\ x.pc \notin Working /\ r.pc \in Clearing /\ r.pc # "list"
  BY <1>1, <1>4, ZenonT(30) DEF Clearing, Working
<1>6. Unread(x) = Unread(r)
  BY <1>4, ZenonT(30) DEF Unread
<1>7. Listing(x, jobs, revIndex', leases')
  BY <1>1, <1>3, <1>4, <1>5, <1>6, ZenonT(30) DEF Listing
<1>. QED  BY <1>1, <1>2, <1>5, <1>7, ClearStep, ZenonT(30)

LEMMA SerialClearIndex == ASSUME Serial, SInv, IInv', NEW t \in Thread, ClearIndex(t) PROVE SInv'
<1>. DEFINE x == [Idle EXCEPT !.pc = "list"]
<1>1. /\ th[t].pc = "clear index" /\ Become(t, IF th[t].flag THEN x ELSE Idle)
      /\ revIndex' = [j \in Job |-> {}] /\ UNCHANGED <<jobs, queue, timers, leases, rest>>
  BY Zenon DEF ClearIndex, At, store
<1>2. UNCHANGED <<submits, nextTask, stepDowns, errors, callbacks>>
  BY <1>1, Zenon DEF rest, node
<1>3. Listing(th[t], jobs, revIndex, leases) /\ th[t].pc \in Clearing /\ th[t].pc # "list"
  BY <1>1, MineSerial, ZenonT(30) DEF Clearing
<1>4. th[t].flag /\ leases = {}
  BY <1>1, <1>3, ZenonT(30) DEF Listing
<1>5. Become(t, x)
  BY <1>1, <1>4, Zenon
<1>6. x.pc = "list" /\ x.list = {} /\ x.work = {}
  BY DEF Idle
<1>. HIDE DEF x
<1>7. x.pc \in Clearing /\ x.pc \notin Working
  BY <1>6 DEF Clearing, Working
<1>8. Unread(x) = {}
  BY <1>6, ZenonT(30) DEF Unread
<1>9. \A d \in Job : revIndex'[d] = {}
  BY <1>1, ZenonT(30)
<1>10. Listing(x, jobs, revIndex', leases')
  BY <1>1, <1>4, <1>6, <1>7, <1>8, <1>9, ZenonT(30) DEF Listing
<1>. QED  BY <1>1, <1>2, <1>5, <1>7, <1>10, ClearStep, ZenonT(30)

LEMMA SerialRebuildList == ASSUME Serial, SInv, IInv', NEW t \in Thread, RebuildList(t) PROVE SInv'
<1>. DEFINE r == th[t]
            all == {j \in Job : jobs[j].state # "ABSENT"}
            list == {<<j, jobs[j]>> : j \in all}
            todo == {j \in all : jobs[j].state = "PENDING"}
            y == [r EXCEPT !.list = list, !.todo = todo]
            x == Resume(y)
<1>1. r.pc = "list" /\ Become(t, x) /\ UNCHANGED <<jobs, leases, rest, queue, timers, revIndex>>
  BY Zenon DEF RebuildList, At, Local, store, memory
<1>2. UNCHANGED <<submits, nextTask, stepDowns, errors, callbacks>>
  BY <1>1, Zenon DEF rest, node
<1>3. r \in Locals /\ Listing(r, jobs, revIndex, leases) /\ jobs \in [Job -> Record]
  BY MineSerial, ZenonT(30)
<1>4. leases = {} /\ r.work = {} /\ \A d \in Job : revIndex[d] = {}
  BY <1>1, <1>3, ZenonT(30) DEF Listing
<1>5. list \in SUBSET (Job \X Record) /\ todo \in SUBSET Job
  BY <1>3
<1>6. /\ \A p \in list : jobs[p[1]] = p[2]
      /\ \A j \in Job : jobs[j].state # "ABSENT" => \E p \in list : p[1] = j
      /\ \A j \in Job : jobs[j].state = "PENDING" => j \in todo
  <2>1. \A p \in list : jobs[p[1]] = p[2]
    OBVIOUS
  <2>2. ASSUME NEW j \in Job, jobs[j].state # "ABSENT" PROVE \E p \in list : p[1] = j
    <3>1. <<j, jobs[j]>> \in list /\ <<j, jobs[j]>>[1] = j
      BY <2>2
    <3>. QED  BY <3>1, Zenon
  <2>3. \A j \in Job : jobs[j].state = "PENDING" => j \in todo
    OBVIOUS
  <2>. QED  BY <2>1, <2>2, <2>3, ZenonT(30)
<1>. HIDE DEF list, todo
<1>7. y \in Locals /\ y.list = list /\ y.todo = todo /\ y.work = r.work
  BY <1>3, <1>5, Zenon DEF Locals
<1>8. /\ x.list = list /\ x.todo = todo /\ x.work = {} /\ x.pc \in Loops
      /\ (x.pc = "promote" => x.list = {}) /\ (x.pc = "idle" => x = Idle)
      /\ x.pc = "drop" => x.list = {} /\ x.todo = {}
  BY <1>4, <1>7, Resumed, ZenonT(30)
<1>. HIDE DEF x
<1>9. x.pc \notin Clearing /\ x.pc \notin Placing /\ x.pc \notin Working /\ \A st : ~InHand(x.pc, st)
  BY <1>8, LoopPcs
<1>10. Current(x, jobs)
  BY <1>8, LoopCurrent
<1>11. Listing(x, jobs, revIndex, leases)
  <2>1. x.pc \notin {"clear index", "list"}
    BY <1>9, ZenonT(30) DEF Clearing
  <2>. QED  BY <1>4, <1>6, <1>8, <1>9, <2>1, ZenonT(30) DEF Listing
<1>12. Agrees(x, jobs, queue \cup timers, leases, revIndex)
  <2>1. Droppable(x, jobs, leases)
    BY <1>4, ZenonT(30) DEF Droppable
  <2>2. ASSUME NEW j \in Job PROVE Waits(j, x, jobs)
    BY <1>6, <1>8 DEF Waits
  <2>3. ASSUME NEW j \in Job, j \notin Unread(x) PROVE Found(j, x, jobs, queue \cup timers, leases, revIndex)
    <3>1. jobs[j].state = "ABSENT"
      BY <1>6, <1>8, <2>3 DEF Unread
    <3>. QED  BY <1>4, <1>9, <3>1, ZenonT(30) DEF Found, Held, Placed, OnlyTask
  <2>. QED  BY <2>1, <2>2, <2>3, ZenonT(30) DEF Agrees
<1>13. th'[t] = x /\ \A u \in Thread : u = t
  BY <1>1, ZenonT(30) DEF SInv, IInv, ThreadInv, Become, Serial
<1>14. \A u \in Thread : th'[u].pc \in Placing => submits'[th'[u].job] # 0
  BY <1>9, <1>13
<1>15. Ids'
  BY <1>1, <1>2, <1>14, ZenonT(30) DEF SInv, Ids
<1>16. Listing(x, jobs', revIndex', leases') /\ Agrees(x, jobs', queue' \cup timers', leases', revIndex') /\ Current(x, jobs')
  BY <1>1, <1>10, <1>11, <1>12, ZenonT(30)
<1>. QED  BY <1>1, <1>15, <1>16, SerialStep, ZenonT(30)

\* The rebuild takes a job from its list.
LEMMA TakenListing ==
    ASSUME NEW r \in Locals, NEW J, NEW I, NEW L, Listing(r, J, I, L), NEW p \in r.list, NEW x, x.list = r.list \ {p},
           NEW I2, \A d \in Job : \A j \in I2[d] : j \in I[d] \/ j = p[1],
           x.work = r.work, x.pc \in Working => x.job = p[1], x.pc = "promote" => x.list = {}, x.pc \notin Clearing
    PROVE  /\ Listing(x, J, I2, L)
           /\ p[1] \in Job /\ p[1] \in Unread(r) /\ p[1] \notin Unread(x) /\ J[p[1]] = p[2]
           /\ \A j : j \in Unread(r) => j = p[1] \/ j \in Unread(x)
<1>1. \A q \in r.list : q[1] \in Job /\ q = <<q[1], q[2]>> /\ J[q[1]] = q[2]
  <2>1. \A q \in Job \X Record : q[1] \in Job /\ q = <<q[1], q[2]>>
    OBVIOUS
  <2>2. r.list \in SUBSET (Job \X Record)
    BY ZenonT(30) DEF Locals
  <2>3. \A q \in r.list : J[q[1]] = q[2]
    BY ZenonT(30) DEF Listing
  <2>. QED  BY <2>1, <2>2, <2>3, ZenonT(30)
<1>2. \A j : (j \in Unread(r) <=> \E q \in r.list : q[1] = j) /\ (j \in Unread(x) <=> \E q \in x.list : q[1] = j)
  BY DEF Unread
<1>3. p[1] \notin Unread(x)
  <2>1. SUFFICES ASSUME NEW q \in r.list, q # p, q[1] = p[1] PROVE FALSE
    BY <1>2, ZenonT(30)
  <2>2. q[2] = p[2]
    BY <1>1, <2>1, ZenonT(30)
  <2>. QED  BY <1>1, <2>1, <2>2, ZenonT(30)
<1>4. \A j : j \in Unread(x) => j \in Unread(r)
  BY <1>2, ZenonT(30)
<1>5. \A j : j \in Unread(r) => j = p[1] \/ j \in Unread(x)
  BY <1>2
<1>6. Listing(x, J, I2, L)
  BY <1>1, <1>3, <1>4, ZenonT(30) DEF Listing, Clearing
<1>. QED  BY <1>1, <1>2, <1>3, <1>5, <1>6, ZenonT(30)

\* It gets to its place, or it is in hand.
LEMMA TakenAgrees ==
    ASSUME NEW r \in Locals, NEW J \in [Job -> Record], NEW Q, NEW L, NEW I, NEW I2, NEW x, NEW i \in Job,
           Agrees(r, J, Q, L, I), x.task = r.task, x.todo = r.todo, r.pc = "rebuild",
           \A j : j \in Unread(r) => j = i \/ j \in Unread(x),
           \A l \in L : l.job # i,
           \A j \in Job : Held(j, x, J) => j = i,
           J[i].state \in {"QUEUED", "RUNNING"} => Held(i, x, J),
           J[i].state = "PENDING" => \A d \in SeqSet(J[i].deps) : i \in I2[d],
           \A d \in Job : \A j \in I[d] : j \in I2[d]
    PROVE  Agrees(x, J, Q, L, I2)
<1>1. /\ r.pc \notin {"deps", "ready", "succeeded", "dependents"} /\ r.pc \notin Leaving
      /\ \A st : ~InHand(r.pc, st)
  BY ZenonT(30) DEF InHand, Arming, Leaving
<1>2. Droppable(x, J, L)
  BY <1>1, ZenonT(30) DEF Agrees, Droppable
<1>3. ASSUME NEW j \in Job PROVE Waits(j, x, J)
  BY <1>1, WaitsMove, ZenonT(30) DEF Agrees
<1>4. Found(i, x, J, Q, L, I2)
  BY ZenonT(30) DEF Found, Placed, OnlyTask
<1>5. ASSUME NEW j \in Job, j \notin Unread(x), j # i PROVE Found(j, x, J, Q, L, I2)
  <2>1. Found(j, r, J, Q, L, I) /\ ~Held(j, r, J) /\ ~Held(j, x, J)
    BY <1>1, <1>5, ZenonT(30) DEF Agrees, Held
  <2>2. Placed(j, r.task, J[j], Q, L, I)
    BY <2>1, ZenonT(30) DEF Found
  <2>3. \A d \in SeqSet(J[j].deps) : d \in Job
    BY DEF SeqSet, Record
  <2>4. Placed(j, x.task, J[j], Q, L, I2)
    BY <2>2, <2>3, ZenonT(30) DEF Placed
  <2>. QED  BY <2>1, <2>4, ZenonT(30) DEF Found
<1>. QED  BY <1>2, <1>3, <1>4, <1>5, ZenonT(30) DEF Agrees

LEMMA SerialrebuildSchedulingState ==
    ASSUME Serial, SInv, IInv', NEW t \in Thread, rebuildSchedulingState(t) PROVE SInv'
<1>. DEFINE r == th[t]
<1>1. r.pc = "rebuild" /\ UNCHANGED <<jobs, leases, rest, queue, timers>>
  BY Zenon DEF rebuildSchedulingState, At, store
<1>2. PICK p \in r.list :
        LET s == [r EXCEPT !.list = @ \ {p}, !.job = p[1], !.rec = p[2]] IN
        /\ IF terminal(p[2].state) THEN UNCHANGED revIndex ELSE addDeps(p[1], p[2].deps)
        /\ CASE p[2].state = "QUEUED" ->
                   \E pc \in {"push"} \cup (IF p[2].sched THEN {"arm"} ELSE {}) :
                       Become(t, [s EXCEPT !.pc = pc, !.rec = Absent])
             [] p[2].state = "RUNNING" -> Become(t, [s EXCEPT !.pc = "failure"])
             [] OTHER -> Become(t, Resume(s))
  BY Zenon DEF rebuildSchedulingState
<1>3. /\ r \in Locals /\ Listing(r, jobs, revIndex, leases) /\ jobs \in [Job -> Record]
      /\ revIndex \in [Job -> SUBSET Job]
  BY MineSerial, ZenonT(30)
<1>4. r.pc \notin Clearing
  BY <1>1 DEF Clearing
<1>. DEFINE s == [r EXCEPT !.list = r.list \ {p}, !.job = p[1], !.rec = p[2]]
<1>5. /\ s \in Locals /\ s.pc = "rebuild" /\ s.list = r.list \ {p} /\ s.job = p[1] /\ s.rec = p[2]
      /\ s.work = r.work /\ s.todo = r.todo /\ s.task = r.task
  BY <1>1, <1>3, ZenonT(30) DEF Locals
<1>6. /\ p[1] \in Job /\ p[2] \in Record /\ jobs[p[1]] = p[2]
  BY <1>3, Zenon DEF Listing, Locals
<1>7. /\ \A d \in Job : \A j \in revIndex'[d] : j \in revIndex[d] \/ j = p[1]
      /\ \A d \in Job : \A j \in revIndex[d] : j \in revIndex'[d]
      /\ p[2].state = "PENDING" => \A d \in SeqSet(p[2].deps) : p[1] \in revIndex'[d]
  <2>1. CASE terminal(p[2].state)
    <3>1. revIndex' = revIndex
      BY <1>2, <2>1, Zenon
    <3>. QED  BY <2>1, <3>1 DEF terminal
  <2>2. CASE ~terminal(p[2].state)
    <3>1. revIndex' = [d \in Job |-> revIndex[d] \cup (IF d \in SeqSet(p[2].deps) THEN {p[1]} ELSE {})]
      BY <1>2, <2>2, Zenon DEF addDeps
    <3>2. SeqSet(p[2].deps) \subseteq Job
      BY <1>6 DEF SeqSet, Record
    <3>. QED  BY <3>1, <3>2, ZenonT(30)
  <2>. QED  BY <2>1, <2>2, ZenonT(30)
<1>8. ASSUME NEW x, Become(t, x), Current(x, jobs), x.list = r.list \ {p}, x.work = r.work, x.todo = r.todo,
             x.task = r.task, x.pc \in Working => x.job = p[1], x.pc = "promote" => x.list = {},
             x.pc \notin Clearing, x.pc \notin Placing,
             \A j \in Job : Held(j, x, jobs) => j = p[1],
             p[2].state \in {"QUEUED", "RUNNING"} => Held(p[1], x, jobs)
      PROVE  SInv'
  <2>1. /\ Listing(x, jobs, revIndex', leases)
        /\ p[1] \in Unread(r)
        /\ \A j : j \in Unread(r) => j = p[1] \/ j \in Unread(x)
    BY <1>3, <1>7, <1>8, TakenListing
  <2>2. \A l \in leases : l.job # p[1]
    BY <1>3, <2>1, Zenon DEF Listing
  <2>3. ASSUME Agrees(r, jobs, queue \cup timers, leases, revIndex)
        PROVE  Agrees(x, jobs, queue \cup timers, leases, revIndex')
    <3>1. /\ jobs[p[1]].state \in {"QUEUED", "RUNNING"} => Held(p[1], x, jobs)
          /\ jobs[p[1]].state = "PENDING" => \A d \in SeqSet(jobs[p[1]].deps) : p[1] \in revIndex'[d]
      BY <1>6, <1>7, <1>8, ZenonT(30)
    <3>2. \A d \in Job : \A j \in revIndex[d] : j \in revIndex'[d]
      BY <1>7, ZenonT(30)
    <3>3. x.task = r.task /\ x.todo = r.todo /\ \A j \in Job : Held(j, x, jobs) => j = p[1]
      BY <1>8, ZenonT(30)
    <3>. HIDE DEF r
    <3>. QED  BY ONLY <1>1, <1>3, <1>6, <2>1, <2>2, <2>3, <3>1, <3>2, <3>3, TakenAgrees, ZenonT(30)
  <2>. HIDE DEF r
  <2>. QED  BY <1>1, <1>4, <1>8, <2>1, <2>3, MoveStep, ZenonT(30) DEF r
<1>9. CASE p[2].state = "QUEUED"
  <2>1. PICK pc \in {"push", "arm"} : Become(t, [s EXCEPT !.pc = pc, !.rec = Absent])
    <3>1. \E pc \in {"push"} \cup (IF p[2].sched THEN {"arm"} ELSE {}) : Become(t, [s EXCEPT !.pc = pc, !.rec = Absent])
      BY <1>2, <1>9, ZenonT(30)
    <3>. QED  BY <3>1, ZenonT(30)
  <2>. DEFINE x == [s EXCEPT !.pc = pc, !.rec = Absent]
  <2>2. /\ x.pc = pc /\ x.job = s.job /\ x.list = s.list /\ x.work = s.work /\ x.todo = s.todo /\ x.task = s.task
    BY <1>5 DEF Locals
  <2>3. Become(t, x)
    BY <2>1
  <2>. HIDE DEF x, s
  <2>4. /\ x.pc \notin Clearing /\ x.pc \notin Placing /\ x.pc # "promote" /\ InHand(x.pc, "QUEUED")
    BY <2>2, ZenonT(30) DEF Clearing, Placing, InHand, Arming
  <2>5. Current(x, jobs)
    BY <1>5, <1>6, <1>9, <2>2, CurrentArming
  <2>6. (\A j \in Job : Held(j, x, jobs) => j = p[1]) /\ Held(p[1], x, jobs)
    BY <1>5, <1>6, <1>9, <2>2, <2>4, ZenonT(30) DEF Held
  <2>. QED  BY <1>5, <1>8, <2>2, <2>3, <2>4, <2>5, <2>6, ZenonT(30)
<1>10. CASE p[2].state = "RUNNING"
  <2>. DEFINE x == [s EXCEPT !.pc = "failure"]
  <2>1. Become(t, x)
    BY <1>2, <1>10, Zenon
  <2>2. /\ x.pc = "failure" /\ x.job = s.job /\ x.list = s.list /\ x.work = s.work /\ x.todo = s.todo
        /\ x.task = s.task /\ x.rec = s.rec
    BY <1>5, ZenonT(30) DEF Locals
  <2>. HIDE DEF x, s
  <2>3. /\ x.pc \notin Clearing /\ x.pc \notin Placing /\ x.pc # "promote" /\ InHand(x.pc, "RUNNING")
        /\ x.pc \in Ran /\ x.pc \notin Reported
    BY <2>2, ZenonT(30) DEF Clearing, Placing, InHand, Leaving, Ran, Reported
  <2>4. Current(x, jobs)
    BY <1>5, <1>6, <1>10, <2>2, <2>3, CurrentRan, ZenonT(30)
  <2>5. (\A j \in Job : Held(j, x, jobs) => j = p[1]) /\ Held(p[1], x, jobs)
    BY <1>5, <1>6, <1>10, <2>2, <2>3, ZenonT(30) DEF Held
  <2>. QED  BY <1>5, <1>8, <2>1, <2>2, <2>3, <2>4, <2>5, ZenonT(30)
<1>11. CASE p[2].state # "QUEUED" /\ p[2].state # "RUNNING"
  <2>. DEFINE x == Resume(s)
  <2>1. Become(t, x)
    BY <1>2, <1>11, ZenonT(30)
  <2>. HIDE DEF s
  <2>2. /\ x.list = s.list /\ x.task = s.task /\ x.todo = s.todo /\ x.work = s.work /\ x.pc \in Loops
        /\ (x.pc = "promote" => x.list = {}) /\ (x.pc = "idle" => x = Idle)
        /\ x.pc = "drop" => x.list = {} /\ x.todo = {}
    BY <1>5, Resumed
  <2>. HIDE DEF x
  <2>3. x.pc \notin Clearing /\ x.pc \notin Placing /\ x.pc \notin Working /\ \A st : ~InHand(x.pc, st)
    BY <2>2, LoopPcs, ZenonT(30)
  <2>4. Current(x, jobs)
    BY <2>2, LoopCurrent, ZenonT(30)
  <2>5. \A j \in Job : ~Held(j, x, jobs)
    BY <2>3 DEF Held
  <2>. QED  BY <1>5, <1>8, <1>11, <2>1, <2>2, <2>3, <2>4, <2>5, ZenonT(30)
<1>. QED  BY <1>9, <1>10, <1>11, ZenonT(30)

LEMMA SerialBecomeLeader == ASSUME Serial, SInv, IInv', BecomeLeader PROVE SInv'
<1>1. /\ callbacks' = callbacks \cup {<<"lead", stepDowns>>}
      /\ UNCHANGED <<jobs, leases, revIndex, th, nextTask, submits, errors, stepDowns>>
  BY ZenonT(30) DEF BecomeLeader, store, memory
<1>2. Ids'
  BY <1>1 DEF SInv, Ids
<1>3. \A t \in Thread : Current(th[t], jobs)' /\ Listing(th[t], jobs, revIndex, leases)'
  BY <1>1 DEF SInv
<1>4. callbacks' # {}
  BY <1>1, ZenonT(30)
<1>5. \A t \in Thread : ~Live(th[t])'
  BY <1>4 DEF Live
<1>. QED  BY <1>2, <1>3, <1>5, ZenonT(30) DEF SInv

LEMMA SerialCrash == ASSUME Serial, SInv, IInv', Crash PROVE SInv'
<1>1. /\ leader' = FALSE /\ callbacks' = {} /\ leases' = {} /\ th' = [t \in Thread |-> Idle]
      /\ UNCHANGED <<jobs, nextTask, submits, errors, stepDowns>>
  BY Zenon DEF Crash, store
<1>2. Idle.pc = "idle" /\ Idle.list = {} /\ Idle.pc \in Loops
  BY DEF Idle, Loops
<1>3. Current(Idle, jobs) /\ Idle.pc \notin Placing
  BY <1>2, LoopCurrent, LoopPcs, ZenonT(30)
<1>4. Listing(Idle, jobs, revIndex', leases')
  BY <1>2, IdlePc, EmptyListing, ZenonT(30)
<1>5. \A t \in Thread : th'[t] = Idle
  BY <1>1
<1>6. Ids'
  BY <1>1, <1>3, <1>5, ZenonT(30) DEF SInv, Ids
<1>7. \A t \in Thread : Current(th'[t], jobs') /\ Listing(th'[t], jobs', revIndex', leases') /\ ~Live(th[t])'
  BY <1>1, <1>3, <1>4, <1>5, ZenonT(30) DEF Live
<1>. QED  BY <1>6, <1>7, Zenon DEF SInv

LEMMA SerialStutter == ASSUME SInv, IInv', UNCHANGED vars PROVE SInv'
<1>1. UNCHANGED <<jobs, leases, revIndex, th, nextTask, submits, errors, stepDowns, callbacks, leader, queue, timers>>
  BY Zenon DEF vars, store, memory, rest, node
<1>2. Ids'
  BY <1>1, ZenonT(30) DEF SInv, Ids
<1>. QED  BY <1>1, <1>2, ZenonT(30) DEF SInv, Live

LEMMA SerialInit == Init => SInv
<1>. SUFFICES ASSUME Init PROVE SInv
  OBVIOUS
<1>1. Idle.pc = "idle" /\ Idle.list = {} /\ Idle.pc \in Loops /\ Unread(Idle) = {}
  BY ZenonT(30) DEF Idle, Loops, Unread
<1>2. Current(Idle, jobs) /\ Idle.pc \notin Placing
  BY <1>1, LoopCurrent, LoopPcs, ZenonT(30)
<1>3. Listing(Idle, jobs, revIndex, leases)
  BY <1>1, IdlePc, EmptyListing, ZenonT(30)
<1>4. \A t \in Thread : th[t] = Idle
  BY ZenonT(30) DEF Init
<1>5. \A j \in Job : jobs[j].state = "ABSENT"
  BY DEF Init, Absent
<1>6. Ids
  BY <1>2, <1>4, <1>5 DEF Init, Ids
<1>7. leases = {}
  BY DEF Init
<1>8. Agrees(Idle, jobs, queue \cup timers, leases, revIndex)
  <2>1. Droppable(Idle, jobs, leases)
    BY <1>7 DEF Droppable
  <2>2. ASSUME NEW j \in Job PROVE Waits(j, Idle, jobs)
    BY <1>5, ZenonT(30) DEF Waits
  <2>3. ASSUME NEW j \in Job PROVE Found(j, Idle, jobs, queue \cup timers, leases, revIndex)
    <3>1. ~Held(j, Idle, jobs)
      BY <1>1, IdlePc DEF Held
    <3>. QED  BY <1>5, <1>7, <3>1, ZenonT(30) DEF Found, Placed, OnlyTask
  <2>. QED  BY <2>1, <2>2, <2>3, ZenonT(30) DEF Agrees
<1>. QED  BY <1>2, <1>3, <1>4, <1>6, <1>8, InitIInv, ZenonT(30) DEF SInv

LEMMA SerialReportLoad == ASSUME Serial, SInv, IInv', NEW t \in Thread, ReportLoad(t) PROVE SInv'
<1>1. CASE LoadRunning(t, "ok", "release")
  BY <1>1, SerialLoadRunning
<1>2. CASE LoadRunning(t, "fail", "failure")
  BY <1>2, SerialLoadRunning
<1>. QED  BY <1>1, <1>2 DEF ReportLoad

LEMMA SerialNext == Serial /\ SInv /\ [Next]_vars => SInv'
<1>. SUFFICES ASSUME Serial, SInv, [Next]_vars PROVE SInv'
  OBVIOUS
<1>1. IInv'
  BY NextIInv DEF SInv
<1>2. ASSUME NEW t \in Thread, Begin(t) PROVE SInv'
  BY <1>1, <1>2, SerialSubmitJob, SerialPollTask, SerialReportTask, SerialCancelJob, SerialrequeueLease,
     SerialTimerFires, SerialCallback, ZenonT(30) DEF Begin
<1>3. ASSUME NEW t \in Thread, Continue(t) PROVE SInv'
  <2>1. CASE \/ depsSatisfied(t) \/ placeCanceled(t) \/ placePending(t) \/ placeIndex(t)
             \/ makeReady(t) \/ armEnqueue(t) \/ enqueueJob(t) \/ Push(t) \/ promoteUnindex(t) \/ tryPromote(t)
    BY <1>1, <2>1, SerialdepsSatisfied, SerialplaceCanceled, SerialplacePending, SerialplaceIndex, SerialmakeReady,
       SerialArm, SerialenqueueJob, SerialPush, SerialpromoteUnindex, SerialtryPromote, ZenonT(30)
  <2>2. CASE \/ Pop(t) \/ PollLoad(t) \/ PollPut(t) \/ addLease(t) \/ ReportLoad(t) \/ ReportRelease(t)
             \/ ReportSuccess(t) \/ ReportUnindex(t) \/ promoteDependents(t) \/ ReportDrop(t)
    BY <1>1, <2>2, SerialPop, SerialPollLoad, SerialPollPut, SerialaddLease, SerialReportLoad, SerialReportRelease,
       SerialReportSuccess, SerialReportUnindex, SerialpromoteDependents, SerialReportDrop, ZenonT(30)
  <2>3. CASE \/ handleFailure(t) \/ maybeRescheduleCron(t) \/ PutDeadLetter(t) \/ FailTerminally(t) \/ FailUnindex(t)
             \/ CancelPut(t) \/ CancelDequeue(t)
    BY <1>1, <2>3, SerialhandleFailure, SerialmaybeRescheduleCron, SerialPutDeadLetter, SerialFailTerminally,
       SerialFailUnindex, SerialCancelPut, SerialCancelDequeue, ZenonT(30)
  <2>4. CASE \/ cancelCascade(t) \/ CascadePut(t) \/ CascadeDequeue(t) \/ CascadeVisit(t) \/ CascadeUnindex(t)
             \/ RequeueRelease(t) \/ ClearQueue(t) \/ ClearLeases(t) \/ ClearIndex(t) \/ RebuildList(t) \/ rebuildSchedulingState(t)
    BY <1>1, <2>4, SerialcancelCascade, SerialCascadePut, SerialCascadeDequeue, SerialCascadeVisit, SerialCascadeUnindex,
       SerialRequeueRelease, SerialClearQueue, SerialClearLeases, SerialClearIndex, SerialRebuildList,
       SerialrebuildSchedulingState, ZenonT(30)
  <2>. QED  BY <1>3, <2>1, <2>2, <2>3, <2>4, ZenonT(30) DEF Continue
<1>4. ~StepDown
  BY DEF StepDown, Serial, SInv, Ids
<1>. QED  BY <1>1, <1>2, <1>3, <1>4, NoEntries, SerialBecomeLeader, SerialCrash, SerialStutter, ZenonT(30) DEF Next

LEMMA SerialInvariance == ASSUME Serial PROVE Spec => []SInv
<1>1. SInv /\ [Next]_vars => SInv'
  BY SerialNext
<1>. QED  BY <1>1, SerialInit, PTL DEF Spec

-----------------------------------------------------------------------------
(* Writes.                                                                 *)

\* Where the jobs bucket is written.
Writing == Placing \cup Ran \cup {"dispatch", "cancel", "cascade cancel"}

\* A step that writes the job a goroutine has, with the dependencies of its copy.
Writes(t) ==
    /\ th[t].pc \in Writing
    /\ Moves(t)
    /\ \E rec : putJob(th[t].job, rec) /\ rec.deps = th[t].rec.deps

LEMMA WritingCurrent ==
    ASSUME SInv, NEW t \in Thread, th[t].pc \in Writing
    PROVE  /\ ~terminal(jobs[th[t].job].state)
           /\ (th[t].pc \in Placing /\ ~th[t].flag) \/ th[t].rec = jobs[th[t].job]
<1>1. Current(th[t], jobs)
  BY MineSerial, ZenonT(30)
<1>2. CASE th[t].pc \in Placing
  BY <1>1, <1>2, ZenonT(30) DEF Current, terminal
<1>3. CASE th[t].pc \in Ran \cup {"dispatch", "cancel", "cascade cancel"}
  BY <1>1, <1>3, ZenonT(30) DEF Current, terminal
<1>. QED  BY <1>2, <1>3, ZenonT(30) DEF Writing

\* What a step of a goroutine does to the store and to the job it places.
Keeps(t) ==
    /\ UNCHANGED jobs
    /\ \E x : /\ Become(t, x)
              /\ x.pc \in Placing /\ ~x.flag =>
                     \/ th[t].pc = "deps" /\ ~th[t].flag /\ x.job = th[t].job /\ x.rec.deps = th[t].rec.deps
                     \/ x.job \in Job /\ x.rec.deps \in Seq(Job) /\ ~wouldCreateCycle(x.job, x.rec.deps)

LEMMA MovesKeep == ASSUME NEW t \in Thread, Moves(t), UNCHANGED jobs PROVE Keeps(t)
BY Zenon DEF Moves, Keeps, Watched, Placing

LEMMA SerialEffect ==
    ASSUME Serial, SInv, NEW t \in Thread, Begin(t) \/ Continue(t) PROVE Keeps(t) \/ Writes(t)
<1>1. ~PutFails
  BY NoErrors
<1>2. IInv
  BY ZenonT(30) DEF SInv
<1>3. CASE SubmitJob(t)
  BY <1>2, <1>3, SubmitMoves, RequestAssumption, ZenonT(30) DEF Keeps
<1>4. CASE \/ PollTask(t) \/ ReportTask(t) \/ CancelJob(t) \/ requeueLease(t) \/ TimerFires(t) \/ Callback(t)
  BY <1>2, <1>4, BeginMoves, MovesKeep, ZenonT(30)
<1>5. CASE depsSatisfied(t)
  <2>1. th[t].pc = "deps"
    BY <1>5 DEF depsSatisfied, At
  <2>. QED  BY <1>2, <1>5, <2>1, DepsMoves, ZenonT(30) DEF Keeps, Watched, Placing
<1>6. CASE tryPromote(t)
  BY <1>2, <1>6, PromoteMoves, ZenonT(30) DEF Keeps, Watched, Placing
<1>7. CASE \/ placeIndex(t) \/ armEnqueue(t) \/ enqueueJob(t) \/ Push(t) \/ promoteUnindex(t)
           \/ Pop(t) \/ PollLoad(t) \/ addLease(t) \/ ReportLoad(t) \/ ReportUnindex(t)
           \/ promoteDependents(t) \/ ReportDrop(t) \/ FailUnindex(t) \/ CancelDequeue(t) \/ cancelCascade(t)
           \/ CascadeDequeue(t) \/ CascadeVisit(t) \/ CascadeUnindex(t) \/ RequeueRelease(t) \/ ClearQueue(t)
           \/ ClearLeases(t)
           \/ ClearIndex(t) \/ RebuildList(t) \/ rebuildSchedulingState(t)
  <2>1. UNCHANGED <<jobs, errors>> /\ Moves(t)
    BY <1>2, <1>7, QuietMoves, ZenonT(30)
  <2>. QED  BY <2>1, MovesKeep, ZenonT(30)
<1>8. CASE \/ ReportRelease(t) \/ PutDeadLetter(t)
           \/ (handleFailure(t) /\ ~(th[t].rec.attempt < th[t].rec.max))
  <2>1. \A pc \in {"succeed", "cronOk", "bury", "cronFail", "fail terminally"} : pc \notin Placing
    BY ZenonT(30) DEF Placing
  <2>. QED  BY <1>1, <1>2, <1>8, <2>1, EndMoves, ZenonT(30) DEF Keeps
<1>9. CASE \/ placeCanceled(t) \/ placePending(t) \/ makeReady(t) \/ PollPut(t) \/ CancelPut(t) \/ CascadePut(t)
           \/ ReportSuccess(t) \/ FailTerminally(t) \/ maybeRescheduleCron(t)
           \/ (handleFailure(t) /\ th[t].rec.attempt < th[t].rec.max)
  <2>1. th[t].pc \in {"placeCanceled", "placePending", "ready", "dispatch", "cancel", "cascade cancel", "succeed",
                      "fail terminally", "cronOk", "cronFail", "failure"}
    BY <1>9, Zenon DEF placeCanceled, placePending, makeReady, PollPut, CancelPut, CascadePut, ReportSuccess,
       FailTerminally, maybeRescheduleCron, handleFailure, At
  <2>2. th[t].pc \in Writing
    BY <2>1, ZenonT(30) DEF Writing, Placing, Ran
  <2>. QED  BY <1>1, <1>2, <1>9, <2>2, PutMoves, ZenonT(30) DEF Writes
<1>. QED  BY <1>3, <1>4, <1>5, <1>6, <1>7, <1>8, <1>9, ZenonT(30) DEF Begin, Continue

LEMMA NodeEffect ==
    ASSUME BecomeLeader \/ StepDown \/ Crash \/ UNCHANGED vars
    PROVE  UNCHANGED jobs /\ (th' = th \/ th' = [t \in Thread |-> Idle])
BY Zenon DEF BecomeLeader, StepDown, Crash, vars, store

-----------------------------------------------------------------------------
(* The graph of the jobs.                                                  *)

\* The graph has no cycle, and the job that is being placed closes none.
GInv ==
    /\ Acyclic(Edges(jobs))
    /\ \A t \in Thread : th[t].pc \in Placing /\ ~th[t].flag => Acyclic(Extended(jobs, th[t].job, th[t].rec.deps))

\* The threads after a step.
LEMMA GraphStep ==
    ASSUME Serial, SInv, NEW t \in Thread, NEW x, Become(t, x), Acyclic(Edges(jobs')),
           x.pc \in Placing /\ ~x.flag => Acyclic(Extended(jobs', x.job, x.rec.deps))
    PROVE  GInv'
<1>1. \A u \in Thread : th'[u] = x
  BY DEF Serial, Become, SInv, IInv, ThreadInv
<1>. QED  BY <1>1, ZenonT(30) DEF GInv

LEMMA GraphKept == ASSUME Serial, SInv, GInv, NEW t \in Thread, Keeps(t) PROVE GInv'
<1>1. PICK x : /\ Become(t, x)
               /\ x.pc \in Placing /\ ~x.flag =>
                     \/ th[t].pc = "deps" /\ ~th[t].flag /\ x.job = th[t].job /\ x.rec.deps = th[t].rec.deps
                     \/ x.job \in Job /\ x.rec.deps \in Seq(Job) /\ ~wouldCreateCycle(x.job, x.rec.deps)
  BY ZenonT(30) DEF Keeps
<1>2. jobs' = jobs /\ Acyclic(Edges(jobs))
  BY DEF Keeps, GInv
<1>3. CASE x.pc \in Placing /\ ~x.flag
  <2>1. CASE th[t].pc = "deps" /\ ~th[t].flag /\ x.job = th[t].job /\ x.rec.deps = th[t].rec.deps
    <3>1. Acyclic(Extended(jobs, x.job, x.rec.deps))
      BY <2>1, ZenonT(30) DEF GInv, Placing
    <3>. QED  BY <1>1, <1>2, <3>1, GraphStep, ZenonT(30)
  <2>2. CASE x.job \in Job /\ x.rec.deps \in Seq(Job) /\ ~wouldCreateCycle(x.job, x.rec.deps)
    <3>1. Acyclic(Extended(jobs, x.job, x.rec.deps))
      BY <1>2, <2>2, CheckedAcyclic, ZenonT(30) DEF SInv
    <3>. QED  BY <1>1, <1>2, <3>1, GraphStep
  <2>. QED  BY <1>1, <1>3, <2>1, <2>2, ZenonT(30)
<1>4. CASE ~(x.pc \in Placing /\ ~x.flag)
  BY <1>1, <1>2, <1>4, GraphStep, ZenonT(30)
<1>. QED  BY <1>3, <1>4, ZenonT(30)

LEMMA GraphWritten == ASSUME Serial, SInv, GInv, NEW t \in Thread, Writes(t) PROVE GInv'
<1>. DEFINE r == th[t]
<1>1. PICK rec : jobs' = [jobs EXCEPT ![r.job] = rec] /\ rec.deps = r.rec.deps
  BY Zenon DEF Writes, putJob
<1>2. PICK x : Become(t, x) /\ x.pc \notin Placing
  BY ZenonT(30) DEF Writes, Moves, Watched, Placing
<1>3. jobs \in [Job -> Record] /\ r.pc \in Writing
  BY DEF SInv, IInv, StoreInv, Writes
<1>4. \A i \in Job : jobs'[i].deps = IF i = r.job THEN r.rec.deps ELSE jobs[i].deps
  BY <1>1, <1>3, ZenonT(30)
<1>5. Edges(jobs') = Extended(jobs, r.job, r.rec.deps)
  BY <1>4, ZenonT(30) DEF Edges, Extended
<1>6. CASE r.pc \in Placing /\ ~r.flag
  BY <1>2, <1>5, <1>6, GraphStep, ZenonT(30) DEF GInv
<1>7. CASE r.rec = jobs[r.job]
  <2>1. Edges(jobs') = Edges(jobs)
    BY <1>4, <1>7 DEF Edges
  <2>. QED  BY <1>2, <2>1, GraphStep, ZenonT(30) DEF GInv
<1>. QED  BY <1>3, <1>6, <1>7, WritingCurrent, ZenonT(30)

LEMMA GraphNext == Serial /\ SInv /\ GInv /\ [Next]_vars => GInv'
<1>. SUFFICES ASSUME Serial, SInv, GInv, [Next]_vars PROVE GInv'
  OBVIOUS
<1>1. ASSUME NEW t \in Thread, Begin(t) \/ Continue(t) PROVE GInv'
  BY <1>1, SerialEffect, GraphKept, GraphWritten, ZenonT(30)
<1>2. ASSUME BecomeLeader \/ StepDown \/ Crash \/ UNCHANGED vars PROVE GInv'
  <2>1. jobs' = jobs /\ (th' = th \/ th' = [t \in Thread |-> Idle])
    BY <1>2, NodeEffect, ZenonT(30)
  <2>2. Idle.pc \notin Placing
    BY DEF Idle, Placing
  <2>. QED  BY <2>1, <2>2, ZenonT(30) DEF GInv
<1>. QED  BY <1>1, <1>2, NoEntries, ZenonT(30) DEF Next

LEMMA GraphInit == Init => GInv
<1>. SUFFICES ASSUME Init PROVE GInv
  OBVIOUS
<1>1. \A j \in Job : Edges(jobs)[j] = {}
  <2>1. \A j \in Job : jobs[j] = Absent
    BY Zenon DEF Init
  <2>2. SeqSet(Absent.deps) = {}
    BY DEF Absent, SeqSet
  <2>. QED  BY <2>1, <2>2, Zenon DEF Edges
<1>2. \A j \in Job : Upstream(Edges(jobs), j) \subseteq {}
  BY <1>1, UpstreamClosed, ZenonT(30)
<1>3. \A t \in Thread : th[t].pc \notin Placing
  BY ZenonT(30) DEF Init, Idle, Placing
<1>. QED  BY <1>2, <1>3, ZenonT(30) DEF GInv, Acyclic

-----------------------------------------------------------------------------
(* The theorems.                                                           *)

\* When nothing is in progress every job is where it belongs.
LEMMA SettledPlaced ==
    ASSUME Serial, SInv, Settled, NEW j \in Job
    PROVE  Placed(j, 0, jobs[j], queue \cup timers, leases, revIndex) /\ Waits(j, Idle, jobs)
<1>1. PICK t \in Thread : TRUE
  BY ZenonT(30) DEF Serial
<1>2. th[t].pc = "idle" /\ Live(th[t])
  BY IdlePc DEF Settled, At, Live
<1>3. th[t] = Idle /\ th[t].list = {} /\ th[t].task = 0
  BY <1>2, Free, ZenonT(30)
<1>4. Agrees(Idle, jobs, queue \cup timers, leases, revIndex) /\ Unread(Idle) = {}
  BY <1>2, <1>3, ZenonT(30) DEF SInv, Unread
<1>5. ~Held(j, Idle, jobs)
  BY <1>2, <1>3, IdlePc, ZenonT(30) DEF Held
<1>. QED  BY <1>3, <1>4, <1>5, ZenonT(30) DEF Agrees, Found

\* enqueueJob, armEnqueue, PollTask, handleFailure and the rebuild never lose a QUEUED
\* job: when handlers are serialised, writes succeed and leadership is lost only by a
\* crash, it is in the ready queue or has a timer as soon as nothing is in progress.
THEOREM QueuedJobsAreScheduled == ASSUME Serial PROVE Spec => []QueuedIsScheduled
<1>1. SInv => QueuedIsScheduled
  BY SettledPlaced, ZenonT(30) DEF QueuedIsScheduled, Placed
<1>. QED  BY <1>1, SerialInvariance, PTL

\* Under the same conditions PollTask, ReportTask, requeueLease and the rebuild leave
\* every RUNNING job with exactly one lease, the one of its current attempt.
THEOREM RunningJobsAreLeased == ASSUME Serial PROVE Spec => []RunningIsLeased
<1>1. SInv => RunningIsLeased
  BY SettledPlaced, ZenonT(30) DEF RunningIsLeased, Placed, Leased
<1>. QED  BY <1>1, SerialInvariance, PTL

\* Under the same conditions placeNewJob, tryPromote, promoteDependents and the rebuild
\* leave no PENDING job behind: it waits, in the reverse index, for a dependency that
\* has not SUCCEEDED.
THEOREM PendingJobsWait == ASSUME Serial PROVE Spec => []PendingIsWaiting
<1>1. ASSUME SInv, Settled, NEW j \in Job, jobs[j].state = "PENDING"
      PROVE  \E d \in SeqSet(jobs[j].deps) : jobs[d].state # "SUCCEEDED" /\ j \in revIndex[d]
  <2>1. Placed(j, 0, jobs[j], queue \cup timers, leases, revIndex) /\ Waits(j, Idle, jobs)
    BY <1>1, SettledPlaced, ZenonT(30)
  <2>2. Idle.todo = {} /\ Idle.pc \notin {"deps", "ready", "succeeded", "dependents"}
    BY ZenonT(30) DEF Idle
  <2>3. PICK d \in SeqSet(jobs[j].deps) : jobs[d].state # "SUCCEEDED"
    BY <1>1, <2>1, <2>2, ZenonT(30) DEF Waits
  <2>. QED  BY <1>1, <2>1, <2>3, ZenonT(30) DEF Placed
<1>2. SInv => PendingIsWaiting
  BY <1>1 DEF PendingIsWaiting
<1>. QED  BY <1>2, SerialInvariance, PTL

\* "terminal reports whether a job state is final" (deps.go): under the same conditions
\* no handler, timer, cascade or rebuild writes a job that is SUCCEEDED, FAILED or CANCELED.
THEOREM TerminalJobsStay == ASSUME Serial PROVE Spec => TerminalIsFinal
<1>1. ASSUME SInv, [Next]_vars, NEW j \in Job, terminal(jobs[j].state) PROVE jobs'[j] = jobs[j]
  <2>1. CASE UNCHANGED jobs
    BY <2>1, ZenonT(30)
  <2>2. ASSUME NEW t \in Thread, Writes(t) PROVE jobs'[j] = jobs[j]
    <3>1. th[t].job # j
      BY <1>1, <2>2, WritingCurrent, ZenonT(30) DEF Writes
    <3>2. \E rec : jobs' = [jobs EXCEPT ![th[t].job] = rec]
      BY <2>2, Zenon DEF Writes, putJob
    <3>. QED  BY <1>1, <3>1, <3>2, ZenonT(30) DEF SInv, IInv, StoreInv
  <2>3. ASSUME NEW t \in Thread, Begin(t) \/ Continue(t) PROVE jobs'[j] = jobs[j]
    BY <1>1, <2>1, <2>2, <2>3, SerialEffect, ZenonT(30) DEF Keeps
  <2>. QED  BY <1>1, <2>1, <2>3, NoEntries, NodeEffect, ZenonT(30) DEF Next
<1>2. SInv /\ [Next]_vars => [\A j \in Job : terminal(jobs[j].state) => jobs'[j] = jobs[j]]_vars
  BY <1>1
<1>. QED  BY <1>2, SerialInvariance, PTL DEF Spec, TerminalIsFinal

\* wouldCreateCycle: under the same conditions the dependencies of the stored jobs never
\* form a cycle, although it looks only at what the new job leads to.
THEOREM GraphStaysAcyclic == ASSUME Serial PROVE Spec => []JobGraphIsAcyclic
<1>1. SInv /\ GInv /\ [Next]_vars => GInv'
  BY GraphNext
<1>2. GInv => JobGraphIsAcyclic
  BY DEF GInv, Acyclic, Edges, JobGraphIsAcyclic
<1>. QED  BY <1>1, <1>2, GraphInit, SerialInvariance, PTL DEF Spec
=============================================================================
