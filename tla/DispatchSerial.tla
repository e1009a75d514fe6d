--------------------------- MODULE DispatchSerial ---------------------------
(***************************************************************************)
(* What Dispatch promises when its handlers are serialised, writes do not  *)
(* fail, leadership is lost only by crashing, and no other node takes over *)
(* meanwhile: once nothing is in progress the leader's maps agree with the *)
(* store, for every job graph and any number of jobs and crashes.  The     *)
(* invariant, the shapes of a step, and the steps of SubmitJob,            *)
(* tryPromote, the timers and PollTask, those that begin and end a report  *)
(* or the work of the reaper, and those that store a job as over.          *)
(***************************************************************************)
EXTENDS DispatchProofs

\* The hypothesis of the theorems of this module.
Serial ==
    /\ \E t : Thread = {t}
    /\ MaxErrors = 0 /\ MaxStepDowns = 0 /\ MaxSubmits = 1 /\ Replicated = {}

-----------------------------------------------------------------------------
(* The inductive invariant.  Its operators take the state as arguments: r  *)
(* the locals of the goroutine, J the jobs bucket, Q the jobs that are     *)
(* queued or have a timer, L the leases, I the reverse index.              *)

\* The jobs that the rebuild has not got to.
Unread(r) == {p[1] : p \in r.list}

Clearing == {"clear queue", "clear leases", "clear index", "list"}
Polling == {"pop", "polled", "dispatch", "lease"}
Reported == {"ok", "release", "succeed", "succeeded", "dependents"}
Placing == {"deps", "ready", "placeCanceled", "placePending"}
Arming == {"arm", "enqueue", "push", "polled", "dispatch"}
Ran == {"release", "succeed", "cronOk", "failure", "cronFail", "bury", "fail terminally"}
Leaving == {"release", "succeed", "cronOk", "failure", "cronFail", "bury", "fail terminally",
            "lease", "ok", "fail", "reclaim"}
Over == {"succeeded", "dependents", "failed", "canceled", "cascade dequeue", "cascade visit", "cascade unindex"}

\* A goroutine's copy is what the store holds, and the state of its job is known.
Current(r, J) ==
    /\ r.pc = "idle" => r = Idle
    /\ r.pc \in {"placeCanceled", "placePending"} => ~r.flag
    /\ r.pc \in Placing => J[r.job].state = IF r.flag THEN "PENDING" ELSE "ABSENT"
    /\ r.pc \in Placing /\ r.flag => r.rec = J[r.job]
    /\ r.pc = "placePending" => \E d \in SeqSet(r.rec.deps) : J[d].state # "SUCCEEDED"
    /\ r.pc = "index" => J[r.job].state = "PENDING" /\ J[r.job].deps = r.rec.deps
    /\ r.pc \in Polling \cup Reported \cup {"drop"} => r.list = {} /\ r.todo = {}
    /\ r.pc \in Polling => r.task = 0
    /\ r.pc = "dispatch" => J[r.job].state = "QUEUED" /\ r.rec = J[r.job]
    /\ r.pc \in Ran \cup {"lease"} => J[r.job].state = "RUNNING" /\ r.rec = J[r.job]
    /\ r.pc \in {"cancel", "cascade cancel"} =>
           J[r.job].state \in {"PENDING", "QUEUED", "RUNNING"} /\ r.rec = J[r.job]
    /\ r.pc = "unindex" \/ (r.pc \in Arming /\ r.flag) => J[r.job].state # "PENDING"
    /\ r.pc \in Over => J[r.job].state \in {"ABSENT", "SUCCEEDED", "FAILED", "CANCELED"}

\* What the rebuild has not got to is as it was when the list was read, and nothing in
\* memory speaks of it.
Listing(r, J, I, L) ==
    /\ \A p \in r.list : J[p[1]] = p[2]
    /\ r.pc \in Working => r.job \notin Unread(r)
    /\ \A j \in r.work : j \notin Unread(r)
    /\ \A d \in Job : \A j \in I[d] : j \notin Unread(r)
    /\ \A l \in L : l.job \notin Unread(r)
    /\ r.pc = "promote" => r.list = {}
    /\ r.pc \in Clearing /\ r.pc # "list" => r.flag
    /\ r.pc \in {"clear index", "list"} => L = {}
    /\ r.pc = "list" => r.work = {} /\ \A d \in Job : I[d] = {}

\* Submissions and leases have their own ids, and callbacks only begin a leadership.
Ids ==
    /\ \A j \in Job : submits[j] = 0 => jobs[j].state = "ABSENT"
    /\ \A t \in Thread : th[t].pc \in Placing => submits[th[t].job] # 0
    /\ \A l \in leases : l.task # 0 /\ l.task < nextTask
    /\ \A l, m \in leases : l.task = m.task => l = m
    /\ nextTask # 0
    /\ \A c \in callbacks : c[1] = "lead"
    /\ stepDowns = 0 /\ errors = 0

\* A goroutine has a job in hand while it takes it from one of the maps to another.
InHand(pc, state) ==
    \/ state = "QUEUED" /\ pc \in Arming
    \/ state = "RUNNING" /\ pc \in Leaving
    \/ state = "PENDING" /\ pc = "index"

Held(j, r, J) == j = r.job /\ InHand(r.pc, J[j].state)

OnlyTask(j, n, L) == \A l \in L : l.job = j => l.task = n

\* A RUNNING job has exactly one lease, for its current attempt.
Leased(j, rec, L) == \E l \in L : l.attempt = rec.attempt /\ {m \in L : m.job = j} = {l}

\* Where a job is that nobody has in hand; a report drops its lease, task n, at the end.
Placed(j, n, rec, Q, L, I) ==
    /\ rec.state = "QUEUED" => j \in Q
    /\ rec.state = "RUNNING" => Leased(j, rec, L)
    /\ rec.state \in {"ABSENT", "PENDING", "QUEUED"} => OnlyTask(j, n, L)
    /\ rec.state = "PENDING" => \A d \in SeqSet(rec.deps) : j \in I[d]

Found(j, r, J, Q, L, I) ==
    IF Held(j, r, J) THEN OnlyTask(j, r.task, L) ELSE Placed(j, r.task, J[j], Q, L, I)

\* A PENDING job has a dependency to wait for, or it is about to be looked at.
Waits(j, r, J) ==
    J[j].state = "PENDING" =>
        \/ \E d \in SeqSet(J[j].deps) : J[d].state # "SUCCEEDED"
        \/ j \in r.todo
        \/ r.job = j /\ r.pc \in {"deps", "ready"}
        \/ r.job \in SeqSet(J[j].deps) /\ r.pc \in {"succeeded", "dependents"}

\* The lease that is to be dropped is not one that a RUNNING job needs.
Droppable(r, J, L) ==
    \A l \in L : l.task = r.task => J[l.job].state # "RUNNING" \/ (r.job = l.job /\ r.pc \in Leaving)

Agrees(r, J, Q, L, I) ==
    /\ Droppable(r, J, L)
    /\ \A j \in Job : Waits(j, r, J) /\ (j \notin Unread(r) => Found(j, r, J, Q, L, I))

\* From the moment the rebuild has its list until the next crash.
Live(r) == leader /\ callbacks = {} /\ r.pc \notin Clearing

SInv ==
    /\ IInv /\ Ids
    /\ \A t \in Thread :
        /\ Current(th[t], jobs) /\ Listing(th[t], jobs, revIndex, leases)
        /\ Live(th[t]) => Agrees(th[t], jobs, queue \cup timers, leases, revIndex)

-----------------------------------------------------------------------------
(* Lemmas on those operators.                                              *)

Loops == {"cascade", "rebuild", "promote", "drop", "idle"}

LEMMA Resumed ==
    ASSUME NEW r \in Locals, NEW x, x = Resume(r)
    PROVE  /\ x.list = r.list /\ x.task = r.task /\ x.todo = r.todo /\ x.work = r.work
           /\ x.pc \in Loops
           /\ x.pc = "promote" => x.list = {}
           /\ x.pc = "idle" => x = Idle
           /\ x.pc = "drop" => x.list = {} /\ x.todo = {}
<1>. DEFINE s == [r EXCEPT !.job = Nil, !.rec = Absent, !.flag = FALSE, !.k = 1]
<1>1. s \in Locals /\ s.list = r.list /\ s.task = r.task /\ s.todo = r.todo /\ s.work = r.work
  BY AbsentCounted, FirstPosition, Zenon DEF Locals
<1>2. x = IF s.work # {} THEN [s EXCEPT !.pc = "cascade"]
          ELSE IF s.list # {} THEN [s EXCEPT !.pc = "rebuild", !.seen = {}]
          ELSE IF s.todo # {} THEN [s EXCEPT !.pc = "promote", !.seen = {}]
          ELSE IF s.task # 0 THEN [s EXCEPT !.pc = "drop", !.seen = {}]
          ELSE Idle
  BY DEF Resume
<1>. HIDE DEF s
<1>3. [s EXCEPT !.pc = "cascade"] = [s EXCEPT !.pc = "cascade", !.seen = s.seen]
  BY <1>1, Zenon DEF Locals
<1>5. CASE s.work # {}
  <2>1. x = [s EXCEPT !.pc = "cascade", !.seen = s.seen]
    BY <1>2, <1>3, <1>5, Zenon
  <2>2. x.list = s.list /\ x.task = s.task /\ x.todo = s.todo /\ x.work = s.work /\ x.pc = "cascade"
    BY <1>1, <2>1 DEF Locals
  <2>. QED  BY <1>1, <1>5, <2>2 DEF Loops
<1>6. CASE s.work = {} /\ s.list # {}
  <2>1. x = [s EXCEPT !.pc = "rebuild", !.seen = {}]
    BY <1>2, <1>6, Zenon
  <2>2. x.list = s.list /\ x.task = s.task /\ x.todo = s.todo /\ x.work = s.work /\ x.pc = "rebuild"
    BY <1>1, <2>1 DEF Locals
  <2>. QED  BY <1>1, <1>6, <2>2 DEF Loops
<1>7. CASE s.work = {} /\ s.list = {} /\ s.todo # {}
  <2>1. x = [s EXCEPT !.pc = "promote", !.seen = {}]
    BY <1>2, <1>7, Zenon
  <2>2. x.list = s.list /\ x.task = s.task /\ x.todo = s.todo /\ x.work = s.work /\ x.pc = "promote"
    BY <1>1, <2>1 DEF Locals
  <2>. QED  BY <1>1, <1>7, <2>2 DEF Loops
<1>8. CASE s.work = {} /\ s.list = {} /\ s.todo = {} /\ s.task # 0
  <2>1. x = [s EXCEPT !.pc = "drop", !.seen = {}]
    BY <1>2, <1>8, Zenon
  <2>2. x.list = s.list /\ x.task = s.task /\ x.todo = s.todo /\ x.work = s.work /\ x.pc = "drop"
    BY <1>1, <2>1 DEF Locals
  <2>. QED  BY <1>1, <1>8, <2>2 DEF Loops
<1>9. CASE s.work = {} /\ s.list = {} /\ s.todo = {} /\ s.task = 0
  BY <1>1, <1>2, <1>9 DEF Loops, Idle
<1>. QED  BY <1>5, <1>6, <1>7, <1>8, <1>9

\* In its loops a goroutine has no copy.
LEMMA LoopCurrent ==
    ASSUME NEW x, NEW J, x.pc \in Loops, x.pc = "idle" => x = Idle, x.pc = "drop" => x.list = {} /\ x.todo = {}
    PROVE  Current(x, J)
BY Zenon DEF Current, Loops, Polling, Reported, Placing, Arming, Ran, Over

LEMMA LoopPcs ==
    ASSUME NEW pc \in Loops
    PROVE  /\ pc \notin Clearing /\ pc \notin Placing /\ pc \notin Working
           /\ \A st : ~InHand(pc, st)
BY Zenon DEF Loops, Clearing, Placing, Working, InHand, Arming, Leaving

\* The list stays as it is.
LEMMA ListingMove ==
    ASSUME NEW r, NEW x, NEW J, NEW I, NEW L, Listing(r, J, I, L), x.list = r.list,
           NEW J2, \A p \in r.list : J2[p[1]] = J[p[1]],
           NEW I2, \A d \in Job : \A j \in I2[d] : j \in I[d] \/ j \notin Unread(r),
           NEW L2, L2 \subseteq L,
           x.pc \in Working => x.job \notin Unread(r),
           \A j \in x.work : j \notin Unread(r),
           x.pc = "promote" => x.list = {}, x.pc \notin Clearing
    PROVE  Listing(x, J2, I2, L2)
<1>1. Unread(x) = Unread(r)
  BY DEF Unread
<1>. QED  BY <1>1, Zenon DEF Listing, Clearing

\* A write of another job is none to the list.
LEMMA ListPut ==
    ASSUME NEW r \in Locals, NEW j, j \notin Unread(r), NEW p \in r.list
    PROVE  p[1] \in Job /\ p[1] # j
BY DEF Locals, Unread

LEMMA WaitsMove ==
    ASSUME NEW r, NEW x, NEW J, NEW j, Waits(j, r, J), r.todo \subseteq x.todo,
           r.pc \notin {"deps", "ready", "succeeded", "dependents"}
    PROVE  Waits(j, x, J)
BY DEF Waits

\* The jobs bucket and the leases stay as they are; a job in hand stays in hand or gets
\* to its place.
Handed(r, x, J, Q, Q2, L, I, I2) ==
    /\ x.list = r.list /\ x.task = r.task /\ \A l \in L : l.job \in Job
    /\ \A j \in Job : Waits(j, r, J) => Waits(j, x, J)
    /\ \A j \in Job : Held(j, r, J) => \/ Held(j, x, J)
                                       \/ J[j].state = "QUEUED" /\ j \in Q2
                                       \/ J[j].state = "PENDING" /\ \A d \in SeqSet(J[j].deps) : j \in I2[d]
    /\ \A j \in Job : Held(j, x, J) => Held(j, r, J) \/ J[j].state # "RUNNING"
    /\ \A j \in Job : j \in Q /\ J[j].state = "QUEUED" => j \in Q2 \/ Held(j, x, J)
    /\ \A j \in Job : J[j].state = "PENDING" => \A d \in SeqSet(J[j].deps) : j \in I[d] => j \in I2[d]

\* The records then agree with it still.
LEMMA AgreesMove ==
    ASSUME NEW J, NEW Q, NEW L, NEW I, NEW Q2, NEW I2, NEW r, NEW x,
           Agrees(r, J, Q, L, I), Handed(r, x, J, Q, Q2, L, I, I2)
    PROVE  Agrees(x, J, Q2, L, I2)
<1>. USE DEF Handed
<1>1. Unread(x) = Unread(r)
  BY DEF Unread
<1>2. Droppable(x, J, L)
  <2>1. SUFFICES ASSUME NEW l \in L, l.task = r.task, J[l.job].state = "RUNNING"
                 PROVE  x.job = l.job /\ x.pc \in Leaving
    BY DEF Droppable
  <2>2. r.job = l.job /\ r.pc \in Leaving
    BY <2>1 DEF Agrees, Droppable
  <2>3. Held(l.job, r, J)
    BY <2>1, <2>2 DEF Held, InHand
  <2>4. Held(l.job, x, J)
    BY <2>1, <2>3
  <2>. QED  BY <2>1, <2>4 DEF Held, InHand
<1>3. ASSUME NEW j \in Job, j \notin Unread(r) PROVE Found(j, x, J, Q2, L, I2)
  <2>1. Found(j, r, J, Q, L, I)
    BY <1>3 DEF Agrees
  <2>2. CASE Held(j, r, J) /\ Held(j, x, J)
    BY <2>1, <2>2 DEF Found
  <2>3. CASE Held(j, r, J) /\ ~Held(j, x, J)
    <3>1. OnlyTask(j, x.task, L)
      BY <2>1, <2>3 DEF Found
    <3>2. \/ J[j].state = "QUEUED" /\ j \in Q2
          \/ J[j].state = "PENDING" /\ \A d \in SeqSet(J[j].deps) : j \in I2[d]
      BY <2>3
    <3>3. Placed(j, x.task, J[j], Q2, L, I2)
      BY <3>1, <3>2 DEF Placed
    <3>. QED  BY <2>3, <3>3 DEF Found
  <2>4. CASE ~Held(j, r, J) /\ Held(j, x, J)
    <3>1. Placed(j, x.task, J[j], Q, L, I) /\ J[j].state # "RUNNING"
      BY <2>1, <2>4 DEF Found
    <3>2. J[j].state \in {"QUEUED", "PENDING"}
      BY <2>4, <3>1 DEF Held, InHand
    <3>3. OnlyTask(j, x.task, L)
      BY <3>1, <3>2 DEF Placed
    <3>. QED  BY <2>4, <3>3 DEF Found
  <2>5. CASE ~Held(j, r, J) /\ ~Held(j, x, J)
    <3>1. Placed(j, x.task, J[j], Q, L, I)
      BY <2>1, <2>5 DEF Found
    <3>2. Placed(j, x.task, J[j], Q2, L, I2)
      BY <2>5, <3>1 DEF Placed
    <3>. QED  BY <2>5, <3>2 DEF Found
  <2>. QED  BY <2>2, <2>3, <2>4, <2>5
<1>. QED  BY <1>1, <1>2, <1>3 DEF Agrees

\* The same, when nothing but the locals changes.
LEMMA AgreesSame ==
    ASSUME NEW J, NEW Q, NEW L, NEW I, NEW r, NEW x,
           Agrees(r, J, Q, L, I), x.list = r.list, x.task = r.task, \A l \in L : l.job \in Job,
           \A j \in Job : Waits(j, r, J) => Waits(j, x, J),
           \A j \in Job : ~Held(j, r, J) /\ ~Held(j, x, J)
    PROVE  Agrees(x, J, Q, L, I)
<1>1. Handed(r, x, J, Q, Q, L, I, I)
  BY Zenon DEF Handed
<1>. QED  BY <1>1, AgreesMove, Zenon

\* One job is written: it ends, or it is in hand.
LEMMA AgreesPut ==
    ASSUME NEW J \in [Job -> Record], NEW Q, NEW L, NEW I, NEW r, NEW x, NEW rec,
           Agrees(r, J, Q, L, I), x.list = r.list, x.task = r.task, x.todo = r.todo,
           \A l \in L : l.job \in Job,
           r.job \in Job, r.job \notin Unread(r), r.pc \notin {"succeeded", "dependents"},
           x.job = r.job \/ x.pc \in Loops,
           \/ terminal(rec.state)
           \/ /\ x.job = r.job /\ InHand(x.pc, rec.state)
              /\ J[r.job].state \in {"ABSENT", "PENDING", "QUEUED"} \/ InHand(r.pc, J[r.job].state),
           rec.state = "SUCCEEDED" => x.pc = "succeeded" /\ x.job = r.job,
           rec.state = "PENDING" => \E d \in SeqSet(rec.deps) : J[d].state # "SUCCEEDED" /\ d \in Job
    PROVE  Agrees(x, [J EXCEPT ![r.job] = rec], Q, L, I)
<1>. DEFINE J2 == [J EXCEPT ![r.job] = rec]
<1>1. Unread(x) = Unread(r)
  BY DEF Unread
<1>2. J2[r.job] = rec /\ \A j \in Job : j # r.job => J2[j] = J[j]
  OBVIOUS
<1>3. \A st : x.pc \in Loops => ~InHand(x.pc, st)
  BY LoopPcs
<1>. HIDE DEF J2
<1>4. Droppable(x, J2, L)
  <2>1. SUFFICES ASSUME NEW l \in L, l.task = r.task, J2[l.job].state = "RUNNING"
                 PROVE  x.job = l.job /\ x.pc \in Leaving
    BY DEF Droppable
  <2>2. CASE l.job = r.job
    <3>1. x.job = r.job /\ InHand(x.pc, "RUNNING")
      BY <2>1, <2>2, <1>2 DEF terminal
    <3>. QED  BY <3>1, <2>2 DEF InHand
  <2>3. CASE l.job # r.job
    BY <2>1, <2>3, <1>2 DEF Agrees, Droppable
  <2>. QED  BY <2>2, <2>3
<1>5. ASSUME NEW j \in Job, j # r.job
      PROVE  Waits(j, x, J2) /\ (j \notin Unread(r) => Found(j, x, J2, Q, L, I))
  <2>1. Waits(j, r, J) /\ (j \notin Unread(r) => Found(j, r, J, Q, L, I))
    BY <1>5 DEF Agrees
  <2>2. ~Held(j, r, J) /\ ~Held(j, x, J2)
    BY <1>3, <1>5 DEF Held
  <2>3. j \notin Unread(r) => Placed(j, x.task, J2[j], Q, L, I)
    BY <1>2, <1>5, <2>1, <2>2, ZenonT(30) DEF Found
  <2>4. Waits(j, x, J2)
    <3>1. SUFFICES ASSUME J[j].state = "PENDING" PROVE Waits(j, x, J2)
      BY <1>2, <1>5 DEF Waits
    <3>2. CASE \E d \in SeqSet(J[j].deps) : J[d].state # "SUCCEEDED"
      <4>1. PICK d \in SeqSet(J[j].deps) : J[d].state # "SUCCEEDED"
        BY <3>2
      <4>2. d \in Job
        BY DEF SeqSet, Record
      <4>3. CASE J2[d].state # "SUCCEEDED"
        BY <4>1, <4>3, <1>2, <1>5 DEF Waits
      <4>4. CASE J2[d].state = "SUCCEEDED"
        <5>1. d = r.job /\ rec.state = "SUCCEEDED"
          BY <4>1, <4>2, <4>4, <1>2
        <5>. QED  BY <5>1, <1>2, <1>5 DEF Waits
      <4>. QED  BY <4>3, <4>4
    <3>3. CASE j \in r.todo
      BY <3>3 DEF Waits
    <3>. QED  BY <2>1, <3>1, <3>2, <3>3, <1>5 DEF Waits
  <2>. QED  BY <2>2, <2>3, <2>4 DEF Found
<1>6. Found(r.job, x, J2, Q, L, I)
  <2>1. Found(r.job, r, J, Q, L, I)
    BY DEF Agrees
  <2>2. CASE terminal(rec.state)
    <3>1. ~InHand(x.pc, rec.state)
      BY <2>2 DEF InHand, terminal
    <3>2. Placed(r.job, x.task, rec, Q, L, I)
      BY <2>2 DEF Placed, terminal
    <3>. QED  BY <3>1, <3>2, <1>2 DEF Found, Held
  <2>3. CASE ~terminal(rec.state)
    <3>1. OnlyTask(r.job, r.task, L)
      <4>1. CASE InHand(r.pc, J[r.job].state)
        BY <4>1, <2>1 DEF Found, Held
      <4>2. CASE ~InHand(r.pc, J[r.job].state)
        BY <4>2, <2>1, <2>3 DEF Found, Held, Placed
      <4>. QED  BY <4>1, <4>2
    <3>2. Held(r.job, x, J2)
      BY <2>3, <1>2 DEF Held
    <3>. QED  BY <3>1, <3>2 DEF Found
  <2>. QED  BY <2>2, <2>3
<1>7. Waits(r.job, x, J2)
  <2>1. SUFFICES ASSUME rec.state = "PENDING" PROVE \E d \in SeqSet(rec.deps) : J2[d].state # "SUCCEEDED"
    BY <1>2 DEF Waits
  <2>2. PICK d \in SeqSet(rec.deps) : J[d].state # "SUCCEEDED" /\ d \in Job
    BY <2>1
  <2>3. J2[d].state # "SUCCEEDED"
    BY <1>2, <2>1, <2>2
  <2>. QED  BY <2>3
<1>8. Agrees(x, J2, Q, L, I)
  BY <1>1, <1>4, <1>5, <1>6, <1>7 DEF Agrees
<1>. QED  BY <1>8 DEF J2

-----------------------------------------------------------------------------
(* The shapes of a step.                                                   *)

\* What a goroutine may rely on.
LEMMA MineSerial ==
    ASSUME SInv, NEW t \in Thread
    PROVE  /\ th[t] \in Locals /\ (th[t].pc \in Working => th[t].job \in Job)
           /\ Current(th[t], jobs) /\ Listing(th[t], jobs, revIndex, leases)
           /\ jobs \in [Job -> Record] /\ revIndex \in [Job -> SUBSET Job]
           /\ \A l \in leases : l.job \in Job
<1>1. IInv
  BY DEF SInv
<1>2. th[t] \in Locals /\ (th[t].pc \in Working => th[t].job \in Job)
  BY <1>1, Mine, ZenonT(30) DEF Fine
<1>3. jobs \in [Job -> Record] /\ revIndex \in [Job -> SUBSET Job]
  BY <1>1 DEF IInv, StoreInv, MemoryInv
<1>4. \A l \in leases : l.job \in Job
  BY <1>1 DEF IInv, MemoryInv
<1>. QED  BY <1>2, <1>3, <1>4 DEF SInv

LEMMA SerialStep ==
    ASSUME Serial, SInv, IInv', NEW t \in Thread, NEW x, Become(t, x), Ids',
           Current(x, jobs'), Listing(x, jobs', revIndex', leases'),
           leader' /\ callbacks' = {} /\ x.pc \notin Clearing
               => Agrees(x, jobs', queue' \cup timers', leases', revIndex')
    PROVE  SInv'
<1>1. th'[t] = x
  BY DEF SInv, IInv, ThreadInv, Become
<1>2. ASSUME NEW u \in Thread PROVE u = t
  BY DEF Serial
<1>3. (Live(th[t]) => Agrees(th[t], jobs, queue \cup timers, leases, revIndex))'
  BY <1>1 DEF Live
<1>4. Current(th[t], jobs)' /\ Listing(th[t], jobs, revIndex, leases)'
  BY <1>1
<1>. QED  BY <1>2, <1>3, <1>4 DEF SInv

\* Writes do not fail.
LEMMA NoEntries == ASSUME Serial PROVE ~applyEntry
BY Zenon DEF Serial, applyEntry

LEMMA NoErrors == ASSUME Serial, SInv PROVE ~PutFails
BY DEF Serial, SInv, Ids, PutFails

\* Ids survives a step that assigns no ids and stores no job that was not submitted.
LEMMA IdsStep ==
    ASSUME Ids, UNCHANGED <<leases, submits, nextTask, callbacks, stepDowns, errors>>,
           \A j \in Job : submits[j] = 0 => jobs'[j].state = "ABSENT",
           \A u \in Thread : th'[u].pc \in Placing => submits[th'[u].job] # 0
    PROVE  Ids'
BY ZenonT(30) DEF Ids

\* Only the locals, the queue, the timers or the index change.
LEMMA MoveStep ==
    ASSUME Serial, SInv, IInv', NEW t \in Thread, NEW x, Become(t, x),
           UNCHANGED <<jobs, leases, rest>>, th[t].pc \notin Clearing,
           x.pc \in Placing => submits[x.job] # 0,
           Current(x, jobs), Listing(x, jobs, revIndex', leases),
           Live(th[t]) /\ Agrees(th[t], jobs, queue \cup timers, leases, revIndex)
               => Agrees(x, jobs, queue' \cup timers', leases, revIndex')
    PROVE  SInv'
<1>1. UNCHANGED <<jobs, leases, submits, nextTask, callbacks, stepDowns, errors, leader>>
  BY DEF rest, node
<1>2. th'[t] = x /\ \A u \in Thread : u = t
  BY DEF SInv, IInv, ThreadInv, Become, Serial
<1>3. \A u \in Thread : th'[u].pc \in Placing => submits[th'[u].job] # 0
  BY <1>2
<1>4. Ids'
  <2>1. Ids /\ \A j \in Job : submits[j] = 0 => jobs'[j].state = "ABSENT"
    BY <1>1, ZenonT(30) DEF SInv, Ids
  <2>. QED  BY <1>1, <1>3, <2>1, IdsStep, ZenonT(30)
<1>5. leader' /\ callbacks' = {} /\ x.pc \notin Clearing
               => Agrees(x, jobs', queue' \cup timers', leases', revIndex')
  BY <1>1 DEF SInv, Live
<1>. QED  BY <1>1, <1>4, <1>5, SerialStep, ZenonT(30)

\* Only the locals and the job that was worked on change.
LEMMA SaveStep ==
    ASSUME Serial, SInv, IInv', NEW t \in Thread, NEW x, Become(t, x), NEW rec,
           putJob(th[t].job, rec), Storing, th[t].pc \in Working,
           x.pc \notin Placing, submits[th[t].job] # 0,
           Current(x, [jobs EXCEPT ![th[t].job] = rec]),
           Listing(x, [jobs EXCEPT ![th[t].job] = rec], revIndex, leases),
           Agrees(th[t], jobs, queue \cup timers, leases, revIndex)
               => Agrees(x, [jobs EXCEPT ![th[t].job] = rec], queue \cup timers, leases, revIndex)
    PROVE  SInv'
<1>1. /\ UNCHANGED <<leases, submits, nextTask, callbacks, stepDowns, errors, leader, queue, timers, revIndex>>
      /\ jobs' = [jobs EXCEPT ![th[t].job] = rec]
  BY ZenonT(30) DEF Storing, putJob, memory, node
<1>2. th'[t] = x /\ \A u \in Thread : u = t
  BY DEF SInv, IInv, ThreadInv, Become, Serial
<1>3. \A u \in Thread : th'[u].pc \in Placing => submits[th'[u].job] # 0
  BY <1>2, ZenonT(30)
<1>4. ASSUME NEW j \in Job, submits[j] = 0 PROVE jobs'[j].state = "ABSENT"
  BY <1>1, <1>4, MineSerial, ZenonT(30) DEF SInv, Ids
<1>5. Ids'
  <2>1. Ids
    BY DEF SInv
  <2>. QED  BY <1>1, <1>3, <1>4, <2>1, IdsStep, ZenonT(30)
<1>6. th[t].pc \notin Clearing
  BY ZenonT(30) DEF Working, Clearing
<1>7. leader' /\ callbacks' = {} /\ x.pc \notin Clearing
               => Agrees(x, jobs', queue' \cup timers', leases', revIndex')
  BY <1>1, <1>6, ZenonT(30) DEF SInv, Live
<1>. QED  BY <1>1, <1>5, <1>7, SerialStep, ZenonT(30)

\* The goroutine goes on with the job it works on.
Stays(r, x) ==
    x.job = r.job /\ x.list = r.list /\ x.work = r.work /\ x.todo = r.todo /\ x.task = r.task

LEMMA StaysListing ==
    ASSUME NEW r, NEW x, NEW J, NEW I, NEW L, Listing(r, J, I, L), Stays(r, x),
           r.pc \in Working, x.pc \in Working,
           NEW J2, \A p \in r.list : J2[p[1]] = J[p[1]],
           NEW I2, \A d \in Job : \A j \in I2[d] : j \in I[d] \/ j = r.job
    PROVE  Listing(x, J2, I2, L)
<1>1. r.job \notin Unread(r) /\ \A j \in x.work : j \notin Unread(r)
  BY Zenon DEF Listing, Stays
<1>2. x.pc # "promote" /\ x.pc \notin Clearing
  BY ZenonT(30) DEF Working, Clearing
<1>3. x.list = r.list /\ x.job = r.job
  BY DEF Stays
<1>4. \A d \in Job : \A j \in I2[d] : j \in I[d] \/ j \notin Unread(r)
  BY <1>1
<1>. QED  BY <1>1, <1>2, <1>3, <1>4, ListingMove

\* It returns to the loop it is in.
LEMMA ReturnListing ==
    ASSUME NEW r, NEW y \in Locals, NEW J, NEW I, NEW L, Listing(r, J, I, L), y.list = r.list,
           \A j \in y.work : j \notin Unread(r),
           NEW J2, \A p \in r.list : J2[p[1]] = J[p[1]],
           NEW I2, \A d \in Job : \A j \in I2[d] : j \in I[d] \/ j \notin Unread(r),
           NEW x, x = Resume(y)
    PROVE  Listing(x, J2, I2, L)
<1>1. x.list = y.list /\ x.work = y.work /\ x.pc \in Loops /\ (x.pc = "promote" => x.list = {})
  BY Resumed
<1>2. x.pc \notin Clearing /\ x.pc \notin Working
  BY <1>1, LoopPcs
<1>. QED  BY <1>1, <1>2, ListingMove

\* A step within a handler that is not one of the store.
LEMMA GoOn ==
    ASSUME Serial, SInv, IInv', NEW t \in Thread, NEW x, Become(t, x), UNCHANGED <<jobs, leases, rest>>,
           th[t].pc \in Working, x.pc \in Working, Stays(th[t], x), Current(x, jobs),
           x.pc \in Placing => th[t].pc \in Placing,
           \A d \in Job : \A j \in revIndex'[d] : j \in revIndex[d] \/ j = th[t].job,
           \A j \in Job : jobs[j].state = "PENDING" /\ Waits(j, th[t], jobs) => Waits(j, x, jobs),
           InHand(x.pc, jobs[th[t].job].state)
               => InHand(th[t].pc, jobs[th[t].job].state) \/ jobs[th[t].job].state # "RUNNING",
           Live(th[t]) /\ InHand(th[t].pc, jobs[th[t].job].state)
               => \/ InHand(x.pc, jobs[th[t].job].state)
                  \/ jobs[th[t].job].state = "QUEUED" /\ th[t].job \in queue' \cup timers',
           \A j \in Job : jobs[j].state = "QUEUED" /\ j \in queue \cup timers => j \in queue' \cup timers',
           \A j \in Job : jobs[j].state = "PENDING" =>
               \A d \in SeqSet(jobs[j].deps) : j \in revIndex[d] => j \in revIndex'[d]
    PROVE  SInv'
<1>1. /\ th[t] \in Locals /\ th[t].job \in Job /\ Listing(th[t], jobs, revIndex, leases)
      /\ \A l \in leases : l.job \in Job
  BY MineSerial, ZenonT(30)
<1>2. Listing(x, jobs, revIndex', leases)
  BY <1>1, StaysListing
<1>3. x.pc \in Placing => submits[x.job] # 0
  BY ZenonT(30) DEF SInv, Ids, Stays
<1>4. th[t].pc \notin Clearing
  BY ZenonT(30) DEF Working, Clearing
<1>5. x.job = th[t].job
  BY DEF Stays
<1>9. ASSUME NEW j \in Job, Held(j, x, jobs) PROVE Held(j, th[t], jobs) \/ jobs[j].state # "RUNNING"
  BY <1>5, <1>9, Zenon DEF Held
<1>10. ASSUME NEW j \in Job, Held(j, th[t], jobs), Live(th[t])
       PROVE  Held(j, x, jobs) \/ (jobs[j].state = "QUEUED" /\ j \in queue' \cup timers')
  BY <1>5, <1>10, ZenonT(30) DEF Held
<1>6. \A j \in Job : Waits(j, th[t], jobs) => Waits(j, x, jobs)
  BY ZenonT(30) DEF Waits
<1>7. x.list = th[t].list /\ x.task = th[t].task
  BY ZenonT(30) DEF Stays
<1>8. ASSUME Live(th[t]), Agrees(th[t], jobs, queue \cup timers, leases, revIndex)
      PROVE  Agrees(x, jobs, queue' \cup timers', leases, revIndex')
  <2>1. \A j \in Job : Held(j, x, jobs) => Held(j, th[t], jobs) \/ jobs[j].state # "RUNNING"
    BY <1>9, Zenon
  <2>2. \A j \in Job : Held(j, th[t], jobs) => \/ Held(j, x, jobs)
                                               \/ jobs[j].state = "QUEUED" /\ j \in queue' \cup timers'
    BY <1>8, <1>10, ZenonT(30)
  <2>3. \A j \in Job : j \in queue \cup timers /\ jobs[j].state = "QUEUED" => j \in queue' \cup timers'
    BY ZenonT(30)
  <2>4. \A j \in Job : jobs[j].state = "PENDING" =>
           \A d \in SeqSet(jobs[j].deps) : j \in revIndex[d] => j \in revIndex'[d]
    OBVIOUS
  <2>7. Handed(th[t], x, jobs, queue \cup timers, queue' \cup timers', leases, revIndex, revIndex')
    BY ONLY <1>1, <1>6, <1>7, <2>1, <2>2, <2>3, <2>4, ZenonT(30) DEF Handed
  <2>. QED  BY ONLY <1>8, <2>7, AgreesMove, ZenonT(30)
<1>. QED  BY <1>2, <1>3, <1>4, <1>8, MoveStep, ZenonT(30)

\* A handler is over, or a turn of a loop.
LEMMA GoBack ==
    ASSUME Serial, SInv, IInv', NEW t \in Thread, NEW y \in Locals, Become(t, Resume(y)),
           UNCHANGED <<jobs, leases, rest>>, th[t].pc \notin Clearing,
           y.list = th[t].list, y.task = th[t].task,
           \A j \in y.work : j \notin Unread(th[t]),
           \A d \in Job : \A j \in revIndex'[d] : j \in revIndex[d] \/ j \notin Unread(th[t]),
           \A j \in Job : /\ jobs[j].state = "PENDING" /\ Waits(j, th[t], jobs)
                          /\ Live(th[t]) /\ Agrees(th[t], jobs, queue \cup timers, leases, revIndex)
                          => j \in y.todo \/ \E d \in SeqSet(jobs[j].deps) : jobs[d].state # "SUCCEEDED",
           \A j \in Job : Held(j, th[t], jobs) /\ Live(th[t]) =>
               \/ jobs[j].state = "QUEUED" /\ j \in queue' \cup timers'
               \/ jobs[j].state = "PENDING" /\ \A d \in SeqSet(jobs[j].deps) : j \in revIndex'[d],
           \A j \in Job : jobs[j].state = "QUEUED" /\ j \in queue \cup timers => j \in queue' \cup timers',
           \A j \in Job : jobs[j].state = "PENDING" =>
               \A d \in SeqSet(jobs[j].deps) : j \in revIndex[d] => j \in revIndex'[d]
    PROVE  SInv'
<1>. DEFINE x == Resume(y)
<1>1. /\ x.list = y.list /\ x.task = y.task /\ x.todo = y.todo /\ x.work = y.work
      /\ x.pc \in Loops /\ (x.pc = "promote" => x.list = {}) /\ (x.pc = "idle" => x = Idle)
      /\ x.pc = "drop" => x.list = {} /\ x.todo = {}
  BY Resumed, ZenonT(30)
<1>2. Become(t, x)
  OBVIOUS
<1>3. Listing(th[t], jobs, revIndex, leases) /\ \A l \in leases : l.job \in Job
  BY MineSerial, ZenonT(30)
<1>4. Listing(x, jobs, revIndex', leases)
  BY <1>3, ReturnListing
<1>. HIDE DEF x
<1>5. Current(x, jobs)
  BY <1>1, LoopCurrent, Zenon
<1>6. x.pc \notin Placing /\ \A j \in Job : ~Held(j, x, jobs)
  BY <1>1, LoopPcs, ZenonT(30) DEF Held
<1>7. ASSUME Live(th[t]), Agrees(th[t], jobs, queue \cup timers, leases, revIndex),
             NEW j \in Job, Waits(j, th[t], jobs)
      PROVE  Waits(j, x, jobs)
  BY <1>1, <1>7, ZenonT(30) DEF Waits
<1>8. ASSUME Live(th[t]), Agrees(th[t], jobs, queue \cup timers, leases, revIndex)
      PROVE  Agrees(x, jobs, queue' \cup timers', leases, revIndex')
  <2>1. x.list = th[t].list /\ x.task = th[t].task
    BY <1>1, Zenon
  <2>2. \A j \in Job : Waits(j, th[t], jobs) => Waits(j, x, jobs)
    BY <1>7, <1>8, Zenon
  <2>3. \A j \in Job : Held(j, th[t], jobs) =>
           \/ Held(j, x, jobs)
           \/ jobs[j].state = "QUEUED" /\ j \in queue' \cup timers'
           \/ jobs[j].state = "PENDING" /\ \A d \in SeqSet(jobs[j].deps) : j \in revIndex'[d]
    BY <1>8, Zenon
  <2>4. \A j \in Job : Held(j, x, jobs) => Held(j, th[t], jobs) \/ jobs[j].state # "RUNNING"
    BY <1>6, ZenonT(30)
  <2>5. \A j \in Job : j \in queue \cup timers /\ jobs[j].state = "QUEUED" => j \in queue' \cup timers' \/ Held(j, x, jobs)
    BY ZenonT(30)
  <2>6. \A j \in Job : jobs[j].state = "PENDING" =>
           \A d \in SeqSet(jobs[j].deps) : j \in revIndex[d] => j \in revIndex'[d]
    OBVIOUS
  <2>7. Handed(th[t], x, jobs, queue \cup timers, queue' \cup timers', leases, revIndex, revIndex')
    BY ONLY <1>3, <2>1, <2>2, <2>3, <2>4, <2>5, <2>6, ZenonT(30) DEF Handed
  <2>. QED  BY ONLY <1>8, <2>7, AgreesMove, ZenonT(30)
<1>. QED  BY <1>2, <1>4, <1>5, <1>6, <1>8, MoveStep, Zenon

LEMMA GotoStays ==
    ASSUME NEW r \in Locals, NEW pc, NEW x, x = [r EXCEPT !.pc = pc]
    PROVE  Stays(r, x) /\ x.pc = pc /\ x.rec = r.rec /\ x.flag = r.flag
BY DEF Locals, Stays

\* armEnqueue and enqueueJob return.
LEMMA ArmedStep ==
    ASSUME Serial, SInv, IInv', NEW t \in Thread, Armed(t), UNCHANGED <<jobs, leases, rest, revIndex>>,
           th[t].pc \in {"arm", "enqueue", "push"},
           \A j \in Job : j \in queue \cup timers => j \in queue' \cup timers',
           Live(th[t]) /\ jobs[th[t].job].state = "QUEUED" => th[t].job \in queue' \cup timers'
    PROVE  SInv'
<1>. DEFINE r == th[t]
            x == [r EXCEPT !.pc = "unindex"]
<1>1. /\ r \in Locals /\ r.pc \in Working /\ r.job \in Job /\ Current(r, jobs) /\ r.pc \notin Clearing
      /\ Listing(r, jobs, revIndex, leases)
  BY MineSerial, ZenonT(30) DEF Working, Clearing
<1>2. r.pc \notin {"deps", "ready", "succeeded", "dependents"} /\ r.pc \in Arming /\ r.pc \notin Leaving /\ r.pc # "index"
  BY ZenonT(30) DEF Arming, Leaving
<1>3. \A st : InHand(r.pc, st) => st = "QUEUED"
  BY <1>2 DEF InHand
<1>4. CASE r.flag
  <2>1. Become(t, x)
    BY <1>4 DEF Armed
  <2>2. Stays(r, x) /\ x.pc = "unindex"
    BY <1>1, GotoStays
  <2>. HIDE DEF x
  <2>3. jobs[r.job].state # "PENDING"
    BY <1>1, <1>2, <1>4, ZenonT(30) DEF Current
  <2>4. x.job = r.job
    BY <2>2, ZenonT(30) DEF Stays
  <2>5. Current(x, jobs)
    BY <2>2, <2>3, <2>4, ZenonT(30) DEF Current, Polling, Reported, Placing, Arming, Ran, Over
  <2>6. x.pc \in Working /\ x.pc \notin Placing /\ \A st : ~InHand(x.pc, st)
    BY <2>2 DEF Working, Placing, InHand, Arming, Leaving
  <2>7. \A j \in Job : Waits(j, r, jobs) => Waits(j, x, jobs)
    BY <1>2, <2>2, WaitsMove DEF Stays
  <2>. QED  BY <1>1, <1>3, <2>1, <2>2, <2>5, <2>6, <2>7, GoOn, ZenonT(30)
<1>5. CASE ~r.flag
  <2>1. Become(t, Resume(r))
    BY <1>5 DEF Armed
  <2>2. \A j \in r.work : j \notin Unread(r)
    BY <1>1, ZenonT(30) DEF Listing
  <2>3. \A j \in Job : Held(j, r, jobs) => j = r.job /\ jobs[j].state = "QUEUED"
    BY <1>3 DEF Held
  <2>4. \A j \in Job : jobs[j].state = "PENDING" /\ Waits(j, r, jobs)
            => j \in r.todo \/ \E d \in SeqSet(jobs[j].deps) : jobs[d].state # "SUCCEEDED"
    BY <1>2 DEF Waits
  <2>. HIDE DEF r
  <2>. QED  BY <1>1, <2>1, <2>2, <2>3, <2>4, GoBack, ZenonT(30) DEF r
<1>. QED  BY <1>4, <1>5

LEMMA SerialArm == ASSUME Serial, SInv, IInv', NEW t \in Thread, armEnqueue(t) PROVE SInv'
<1>1. th[t].pc = "arm" /\ Armed(t) /\ timers' = timers \cup {th[t].job}
  BY DEF armEnqueue, At
<1>2. UNCHANGED <<jobs, leases, rest, revIndex, queue>>
  BY DEF armEnqueue, store
<1>. QED  BY <1>1, <1>2, ArmedStep

LEMMA SerialPush == ASSUME Serial, SInv, IInv', NEW t \in Thread, Push(t) PROVE SInv'
<1>1. th[t].pc = "push" /\ Armed(t) /\ queue' = queue \cup {th[t].job}
  BY DEF Push, At
<1>2. UNCHANGED <<jobs, leases, rest, revIndex, timers>>
  BY DEF Push, store
<1>. QED  BY <1>1, <1>2, ArmedStep

\* What has to be known at a program counter.
LEMMA CurrentArming ==
    ASSUME NEW x, NEW J, x.pc \in {"arm", "enqueue", "push"}, x.flag => J[x.job].state # "PENDING"
    PROVE  Current(x, J)
BY ZenonT(30) DEF Current, Polling, Reported, Placing, Arming, Ran, Over

LEMMA CurrentOver ==
    ASSUME NEW x, NEW J, x.pc \in Over, J[x.job].state \in {"ABSENT", "SUCCEEDED", "FAILED", "CANCELED"},
           x.pc \in Reported => x.list = {} /\ x.todo = {}
    PROVE  Current(x, J)
BY ZenonT(30) DEF Current, Polling, Reported, Placing, Arming, Ran, Over

LEMMA CurrentRan ==
    ASSUME NEW x, NEW J, x.pc \in Ran, J[x.job].state = "RUNNING", x.rec = J[x.job],
           x.pc \in Reported => x.list = {} /\ x.todo = {}
    PROVE  Current(x, J)
BY ZenonT(30) DEF Current, Polling, Reported, Placing, Arming, Ran, Over

\* Its job has been submitted.
LEMMA Submitted ==
    ASSUME SInv, NEW t \in Thread, th[t].pc \in Working,
           th[t].pc \in Placing \/ jobs[th[t].job].state # "ABSENT"
    PROVE  submits[th[t].job] # 0
BY MineSerial, ZenonT(30) DEF SInv, Ids

\* A write after which the handler goes on.
LEMMA SaveOn ==
    ASSUME Serial, SInv, IInv', NEW t \in Thread, NEW x, Become(t, x), NEW rec,
           putJob(th[t].job, rec), Storing, th[t].pc \in Working, x.pc \in Working, x.pc \notin Placing,
           Stays(th[t], x), th[t].pc \in Placing \/ jobs[th[t].job].state # "ABSENT",
           Current(x, [jobs EXCEPT ![th[t].job] = rec]), th[t].pc \notin {"succeeded", "dependents"},
           \/ terminal(rec.state)
           \/ /\ InHand(x.pc, rec.state)
              /\ \/ jobs[th[t].job].state \in {"ABSENT", "PENDING", "QUEUED"}
                 \/ InHand(th[t].pc, jobs[th[t].job].state),
           rec.state = "SUCCEEDED" => x.pc = "succeeded",
           rec.state = "PENDING" => \E d \in SeqSet(rec.deps) : jobs[d].state # "SUCCEEDED" /\ d \in Job
    PROVE  SInv'
<1>1. /\ th[t] \in Locals /\ th[t].job \in Job /\ Listing(th[t], jobs, revIndex, leases)
      /\ jobs \in [Job -> Record] /\ \A l \in leases : l.job \in Job
  BY MineSerial
<1>2. th[t].job \notin Unread(th[t])
  BY <1>1, ZenonT(30) DEF Listing
<1>3. ASSUME NEW p \in th[t].list PROVE [jobs EXCEPT ![th[t].job] = rec][p[1]] = jobs[p[1]]
  <2>1. p[1] \in Job /\ p[1] # th[t].job
    BY <1>1, <1>2, ListPut, Zenon
  <2>. QED  BY <1>1, <2>1
<1>4. Listing(x, [jobs EXCEPT ![th[t].job] = rec], revIndex, leases)
  BY <1>1, <1>3, StaysListing, ZenonT(30)
<1>5. x.list = th[t].list /\ x.task = th[t].task /\ x.todo = th[t].todo /\ x.job = th[t].job
  BY DEF Stays
<1>6. ASSUME Agrees(th[t], jobs, queue \cup timers, leases, revIndex)
      PROVE  Agrees(x, [jobs EXCEPT ![th[t].job] = rec], queue \cup timers, leases, revIndex)
  BY <1>1, <1>2, <1>5, <1>6, AgreesPut, ZenonT(30)
<1>. QED  BY <1>4, <1>6, Submitted, SaveStep, ZenonT(30)

\* A write that ends a job, after which it returns.
LEMMA SaveBack ==
    ASSUME Serial, SInv, IInv', NEW t \in Thread, Become(t, Resume(th[t])), NEW rec,
           putJob(th[t].job, rec), Storing, th[t].pc \in Working,
           th[t].pc \in Placing \/ jobs[th[t].job].state # "ABSENT",
           th[t].pc \notin {"succeeded", "dependents"},
           terminal(rec.state), rec.state # "SUCCEEDED"
    PROVE  SInv'
<1>. DEFINE x == Resume(th[t])
<1>1. /\ th[t] \in Locals /\ th[t].job \in Job /\ Listing(th[t], jobs, revIndex, leases)
      /\ jobs \in [Job -> Record] /\ \A l \in leases : l.job \in Job
  BY MineSerial, ZenonT(30)
<1>2. th[t].job \notin Unread(th[t]) /\ \A j \in th[t].work : j \notin Unread(th[t])
  BY <1>1, ZenonT(30) DEF Listing
<1>3. ASSUME NEW p \in th[t].list PROVE [jobs EXCEPT ![th[t].job] = rec][p[1]] = jobs[p[1]]
  <2>1. p[1] \in Job /\ p[1] # th[t].job
    BY <1>1, <1>2, ListPut, Zenon
  <2>. QED  BY <1>1, <2>1
<1>4. Listing(x, [jobs EXCEPT ![th[t].job] = rec], revIndex, leases)
  BY <1>1, <1>2, <1>3, ReturnListing, Zenon
<1>5. /\ x.list = th[t].list /\ x.task = th[t].task /\ x.todo = th[t].todo /\ x.pc \in Loops
      /\ x.pc = "idle" => x = Idle
      /\ x.pc = "drop" => x.list = {} /\ x.todo = {}
  BY <1>1, Resumed, ZenonT(30)
<1>6. Become(t, x)
  OBVIOUS
<1>. HIDE DEF x
<1>7. rec.state # "PENDING" /\ x.pc \notin Placing
  BY <1>5, LoopPcs DEF terminal
<1>8. ASSUME Agrees(th[t], jobs, queue \cup timers, leases, revIndex)
      PROVE  Agrees(x, [jobs EXCEPT ![th[t].job] = rec], queue \cup timers, leases, revIndex)
  BY <1>1, <1>2, <1>5, <1>7, <1>8, AgreesPut, ZenonT(30)
<1>9. Current(x, [jobs EXCEPT ![th[t].job] = rec])
  BY <1>5, LoopCurrent, ZenonT(30)
<1>. QED  BY <1>4, <1>6, <1>7, <1>8, <1>9, Submitted, SaveStep, ZenonT(30)

-----------------------------------------------------------------------------
(* Submissions and promotions.                                             *)

\* A free goroutine has an empty list and nothing in hand.
LEMMA Free ==
    ASSUME SInv, NEW t \in Thread, th[t].pc = "idle"
    PROVE  th[t] = Idle /\ th[t].list = {} /\ th[t].task = 0 /\ th[t].todo = {} /\ th[t].work = {}
<1>1. th[t] = Idle
  BY MineSerial, ZenonT(30) DEF Current
<1>. QED  BY <1>1 DEF Idle

\* With an empty list nothing has to be said of it.
LEMMA EmptyListing ==
    ASSUME NEW x, NEW J, NEW I, NEW L, x.list = {}, x.pc \notin Clearing
    PROVE  Listing(x, J, I, L) /\ Unread(x) = {}
<1>1. Unread(x) = {}
  BY ZenonT(30) DEF Unread
<1>. QED  BY <1>1, ZenonT(30) DEF Listing, Clearing

LEMMA SerialSubmitJob == ASSUME Serial, SInv, IInv', NEW t \in Thread, SubmitJob(t) PROVE SInv'
<1>1. PICK q \in Request :
        /\ submits[q.job] < MaxSubmits
        /\ Become(t, [Idle EXCEPT !.pc = "deps", !.job = q.job,
                                  !.rec = [Absent EXCEPT !.deps = q.deps, !.max = q.max, !.kind = q.kind]])
        /\ submits' = [submits EXCEPT ![q.job] = @ + 1]
  BY Zenon DEF SubmitJob
<1>2. q.job \in Job
  BY RequestAssumption
<1>. DEFINE x == [Idle EXCEPT !.pc = "deps", !.job = q.job,
                              !.rec = [Absent EXCEPT !.deps = q.deps, !.max = q.max, !.kind = q.kind]]
<1>3. Become(t, x) /\ th[t].pc = "idle"
  BY <1>1, Zenon DEF SubmitJob, Accept, At
<1>4. /\ x.pc = "deps" /\ x.job = q.job /\ x.flag = FALSE /\ x.list = {} /\ x.task = 0 /\ x.todo = {}
  BY DEF Idle
<1>. HIDE DEF x
<1>5. /\ UNCHANGED <<jobs, leases, nextTask, callbacks, stepDowns, errors, leader, queue, timers, revIndex>>
  BY Zenon DEF SubmitJob, store, memory, node
<1>6. submits \in [Job -> Nat]
  BY Zenon DEF SInv, IInv, MemoryInv
<1>7. submits[q.job] = 0 /\ submits'[q.job] = 1 /\ \A j \in Job : submits'[j] = 0 => submits[j] = 0
  BY <1>1, <1>2, <1>6 DEF Serial
<1>8. jobs[q.job].state = "ABSENT"
  BY <1>2, <1>7, ZenonT(30) DEF SInv, Ids
<1>9. th'[t] = x /\ \A u \in Thread : u = t
  BY <1>3 DEF SInv, IInv, ThreadInv, Become, Serial
<1>10. \A u \in Thread : th'[u].pc \in Placing => submits'[th'[u].job] # 0
  BY <1>4, <1>7, <1>9
<1>11. Ids'
  BY <1>5, <1>7, <1>10, ZenonT(30) DEF SInv, Ids
<1>12. Current(x, jobs)
  BY <1>4, <1>8 DEF Current, Polling, Reported, Placing, Arming, Ran, Over
<1>13. x.pc \notin Clearing /\ th[t].pc \notin Clearing /\ \A st : ~InHand(x.pc, st) /\ ~InHand(th[t].pc, st)
  BY <1>3, <1>4, ZenonT(30) DEF Clearing, InHand, Arming, Leaving
<1>14. Listing(x, jobs, revIndex, leases)
  BY <1>4, <1>13, EmptyListing, ZenonT(30)
<1>15. th[t].list = {} /\ th[t].task = 0 /\ th[t].todo = {} /\ \A l \in leases : l.job \in Job
  BY <1>3, Free, MineSerial, ZenonT(30)
<1>16. \A j \in Job : /\ ~Held(j, x, jobs) /\ ~Held(j, th[t], jobs)
                      /\ Waits(j, th[t], jobs) => Waits(j, x, jobs)
  BY <1>3, <1>4, <1>13, <1>15, WaitsMove, ZenonT(30) DEF Held
<1>17. ASSUME Agrees(th[t], jobs, queue \cup timers, leases, revIndex)
       PROVE  Agrees(x, jobs, queue \cup timers, leases, revIndex)
  BY <1>4, <1>15, <1>16, <1>17, AgreesSame, Zenon
<1>18. leader' /\ callbacks' = {} => Agrees(x, jobs', queue' \cup timers', leases', revIndex')
  BY <1>5, <1>13, <1>17, ZenonT(30) DEF SInv, Live
<1>. QED  BY <1>3, <1>5, <1>11, <1>12, <1>14, <1>18, SerialStep, ZenonT(30)

\* What placing goroutines know.
LEMMA PlacingMine ==
    ASSUME SInv, NEW t \in Thread, th[t].pc \in Placing
    PROVE  /\ th[t] \in Locals /\ th[t].job \in Job /\ th[t].pc \in Working /\ th[t].pc \notin Clearing
           /\ \A st : ~InHand(th[t].pc, st)
           /\ jobs[th[t].job].state = IF th[t].flag THEN "PENDING" ELSE "ABSENT"
           /\ th[t].flag => th[t].rec = jobs[th[t].job]
           /\ \A j \in th[t].work : j \notin Unread(th[t])
           /\ th[t].job \notin Unread(th[t])
<1>1. th[t].pc \in Working /\ th[t].pc \notin Clearing /\ \A st : ~InHand(th[t].pc, st)
  BY ZenonT(30) DEF Placing, Working, Clearing, InHand, Arming, Leaving
<1>2. th[t] \in Locals /\ th[t].job \in Job /\ Current(th[t], jobs) /\ Listing(th[t], jobs, revIndex, leases)
  BY <1>1, MineSerial
<1>3. /\ jobs[th[t].job].state = IF th[t].flag THEN "PENDING" ELSE "ABSENT"
      /\ th[t].flag => th[t].rec = jobs[th[t].job]
  BY <1>2, Zenon DEF Current
<1>. QED  BY <1>1, <1>2, <1>3, Zenon DEF Listing

LEMMA SerialdepsSatisfied == ASSUME Serial, SInv, IInv', NEW t \in Thread, depsSatisfied(t) PROVE SInv'
<1>. DEFINE r == th[t]
            d == r.rec.deps[r.k]
<1>1. r.pc = "deps" /\ UNCHANGED <<jobs, leases, rest, queue, timers, revIndex>>
  BY Zenon DEF depsSatisfied, At, Local, store, memory
<1>2. r.pc \in Placing
  BY <1>1, ZenonT(30) DEF Placing
<1>3. /\ r \in Locals /\ r.job \in Job /\ r.pc \in Working /\ r.pc \notin Clearing /\ \A st : ~InHand(r.pc, st)
      /\ jobs[r.job].state = IF r.flag THEN "PENDING" ELSE "ABSENT"
      /\ r.flag => r.rec = jobs[r.job]
      /\ \A j \in r.work : j \notin Unread(r)
      /\ r.job \notin Unread(r)
  BY <1>2, PlacingMine
<1>4. ASSUME NEW pc \in Placing, NEW k, Become(t, [r EXCEPT !.pc = pc, !.k = k]),
             pc \in {"placeCanceled", "placePending"} => ~r.flag,
             pc = "placePending" => \E e \in SeqSet(r.rec.deps) : jobs[e].state # "SUCCEEDED"
      PROVE  SInv'
  <2>. DEFINE x == [r EXCEPT !.pc = pc, !.k = k]
  <2>1. Stays(r, x) /\ x.pc = pc /\ x.rec = r.rec /\ x.flag = r.flag
    BY <1>3 DEF Locals, Stays
  <2>2. Become(t, x)
    BY <1>4
  <2>. HIDE DEF x
  <2>3. x.pc \in Working /\ \A st : ~InHand(x.pc, st)
    BY <2>1, ZenonT(30) DEF Placing, Working, InHand, Arming, Leaving
  <2>4. x.pc \notin Ran \cup {"lease"} /\ x.pc \notin Over /\ x.pc \notin Arming
        /\ x.pc \notin Polling \cup Reported \cup {"drop"} /\ x.pc \notin Polling
        /\ x.pc \notin {"idle", "index", "dispatch", "lease", "cancel", "cascade cancel", "unindex"}
    BY <2>1, Zenon DEF Polling, Reported, Placing, Ran, Over, Arming
  <2>5. Current(x, jobs)
    BY <1>3, <1>4, <2>1, <2>4, Zenon DEF Current, Stays
  <2>6. \A j \in Job : jobs[j].state = "PENDING" /\ Waits(j, r, jobs) => Waits(j, x, jobs)
    <3>1. SUFFICES ASSUME NEW j \in Job, jobs[j].state = "PENDING", Waits(j, r, jobs) PROVE Waits(j, x, jobs)
      OBVIOUS
    <3>2. CASE j = r.job
      <4>1. r.flag /\ x.pc \in {"deps", "ready"}
        BY <3>1, <3>2, <1>3, <1>4, <2>1, ZenonT(30) DEF Placing
      <4>. QED  BY <3>2, <4>1, <2>1 DEF Waits, Stays
    <3>3. CASE j # r.job
      BY <3>1, <3>3, <1>1, <2>1 DEF Waits, Stays
    <3>. QED  BY <3>2, <3>3
  <2>. HIDE DEF r
  <2>. QED  BY <1>1, <1>2, <1>3, <2>1, <2>2, <2>3, <2>5, <2>6, GoOn, ZenonT(30) DEF r
<1>5. ASSUME NEW w \in {{r.job}, r.work}, Become(t, Resume([r EXCEPT !.work = w])), r.flag,
             \E e \in SeqSet(r.rec.deps) : jobs[e].state # "SUCCEEDED"
      PROVE  SInv'
  <2>. DEFINE y == [r EXCEPT !.work = w]
  <2>1. y \in Locals /\ y.list = r.list /\ y.task = r.task /\ y.todo = r.todo /\ y.work = w
    BY <1>3 DEF Locals
  <2>2. Become(t, Resume(y))
    BY <1>5, ZenonT(30)
  <2>. HIDE DEF y
  <2>3. \A j \in y.work : j \notin Unread(r)
    BY <1>3, <2>1
  <2>4. ASSUME NEW j \in Job, jobs[j].state = "PENDING", Waits(j, r, jobs)
        PROVE  j \in y.todo \/ \E e \in SeqSet(jobs[j].deps) : jobs[e].state # "SUCCEEDED"
    <3>1. CASE j = r.job
      BY <3>1, <1>3, <1>5, ZenonT(30)
    <3>2. CASE j # r.job
      BY <3>2, <2>1, <2>4, <1>1, ZenonT(30) DEF Waits
    <3>. QED  BY <3>1, <3>2
  <2>5. \A j \in Job : ~Held(j, r, jobs)
    BY <1>3 DEF Held
  <2>. HIDE DEF r
  <2>. QED  BY <1>1, <1>3, <2>1, <2>2, <2>3, <2>4, <2>5, GoBack, ZenonT(30) DEF r
<1>6. CASE r.k > Len(r.rec.deps)
  BY <1>4, <1>6, Zenon DEF depsSatisfied, Placing
<1>7. CASE ~(r.k > Len(r.rec.deps)) /\ DepMet(d)
  <2>1. Become(t, [r EXCEPT !.k = r.k + 1])
    BY <1>7, Zenon DEF depsSatisfied
  <2>2. [r EXCEPT !.k = r.k + 1] = [r EXCEPT !.pc = "deps", !.k = r.k + 1]
    BY <1>1, <1>3, ZenonT(30) DEF Locals
  <2>. QED  BY <2>1, <2>2, <1>2, <1>1, <1>4, Zenon
<1>8. CASE ~(r.k > Len(r.rec.deps)) /\ ~DepMet(d)
  <2>1. r.k \in DOMAIN r.rec.deps
    BY <1>3, <1>8 DEF Locals, Record, Position
  <2>2. \E e \in SeqSet(r.rec.deps) : jobs[e].state # "SUCCEEDED"
    BY <1>8, <2>1 DEF SeqSet, DepMet
  <2>3. [r EXCEPT !.work = r.work] = r
    BY <1>3 DEF Locals
  <2>4. CASE r.flag
    <3>1. Become(t, Resume([r EXCEPT !.work = {r.job}])) \/ Become(t, Resume([r EXCEPT !.work = r.work]))
      BY <1>8, <2>3, <2>4, Zenon DEF depsSatisfied
    <3>. QED  BY <3>1, <2>2, <2>4, <1>5, Zenon
  <2>5. CASE ~r.flag
    <3>1. Become(t, [r EXCEPT !.pc = "placeCanceled", !.k = 1]) \/ Become(t, [r EXCEPT !.pc = "placePending", !.k = 1])
      BY <1>8, <2>5, Zenon DEF depsSatisfied
    <3>2. "placeCanceled" \in Placing /\ "placePending" \in Placing
      BY DEF Placing
    <3>. QED  BY <3>1, <3>2, <2>2, <2>5, <1>4, Zenon
  <2>. QED  BY <2>4, <2>5, ZenonT(30)
<1>. QED  BY <1>6, <1>7, <1>8

LEMMA SerialplaceCanceled == ASSUME Serial, SInv, IInv', NEW t \in Thread, placeCanceled(t) PROVE SInv'
<1>1. th[t].pc = "placeCanceled" /\ Become(t, Resume(th[t])) /\ Storing
  BY Zenon DEF placeCanceled, At
<1>2. PICK rec : putJob(th[t].job, rec) /\ rec = [th[t].rec EXCEPT !.state = "CANCELED"]
  BY NoErrors, Zenon DEF placeCanceled, PutLogged
<1>3. th[t].pc \in Placing /\ th[t].pc \in Working
  BY <1>1, ZenonT(30) DEF Placing, Working
<1>4. th[t].rec \in Record
  BY MineSerial DEF Locals
<1>5. rec.state = "CANCELED"
  BY <1>2, <1>4 DEF Record
<1>. QED  BY <1>1, <1>2, <1>3, <1>5, SaveBack, ZenonT(30) DEF terminal

LEMMA SerialplacePending == ASSUME Serial, SInv, IInv', NEW t \in Thread, placePending(t) PROVE SInv'
<1>. DEFINE r == th[t]
            x == [r EXCEPT !.pc = "index"]
<1>1. r.pc = "placePending" /\ Become(t, x) /\ Storing
  BY Zenon DEF placePending, At, Goto
<1>2. PICK rec : putJob(r.job, rec) /\ rec = [r.rec EXCEPT !.state = "PENDING"]
  BY NoErrors, Zenon DEF placePending, PutLogged
<1>3. r.pc \in Placing /\ r.pc \in Working /\ r.pc \notin {"succeeded", "dependents"}
  BY <1>1, ZenonT(30) DEF Placing, Working
<1>4. r \in Locals /\ r.rec \in Record /\ r.job \in Job /\ Current(r, jobs) /\ jobs \in [Job -> Record]
  BY <1>3, MineSerial DEF Locals
<1>5. rec.state = "PENDING" /\ rec.deps = r.rec.deps
  BY <1>2, <1>4 DEF Record
<1>6. Stays(r, x) /\ x.pc = "index" /\ x.rec = r.rec
  <2>. HIDE DEF r
  <2>. QED  BY ONLY <1>4, GotoStays
<1>. HIDE DEF x
<1>7. [jobs EXCEPT ![r.job] = rec][x.job] = rec
  BY <1>4, <1>6, ZenonT(30) DEF Stays
<1>8. Current(x, [jobs EXCEPT ![r.job] = rec])
  BY <1>5, <1>6, <1>7, ZenonT(30) DEF Current, Polling, Reported, Placing, Arming, Ran, Over
<1>9. x.pc \in Working /\ x.pc \notin Placing /\ InHand(x.pc, rec.state)
  BY <1>5, <1>6, ZenonT(30) DEF Working, Placing, InHand
<1>10. jobs[r.job].state = "ABSENT" /\ \E d \in SeqSet(r.rec.deps) : jobs[d].state # "SUCCEEDED"
  BY <1>1, <1>3, <1>4, ZenonT(30) DEF Current
<1>11. \E d \in SeqSet(rec.deps) : jobs[d].state # "SUCCEEDED" /\ d \in Job
  BY <1>4, <1>5, <1>10 DEF SeqSet, Record
<1>. HIDE DEF r
<1>. QED  BY <1>1, <1>2, <1>3, <1>5, <1>6, <1>8, <1>9, <1>10, <1>11, SaveOn, ZenonT(30) DEF r

LEMMA SerialplaceIndex == ASSUME Serial, SInv, IInv', NEW t \in Thread, placeIndex(t) PROVE SInv'
<1>. DEFINE r == th[t]
<1>1. r.pc = "index" /\ Become(t, Resume(r)) /\ UNCHANGED <<jobs, leases, rest, queue, timers>>
  BY Zenon DEF placeIndex, At, store
<1>2. r.pc \in Working /\ r.pc \notin Clearing /\ r.pc \notin {"deps", "ready", "succeeded", "dependents"}
  BY <1>1, ZenonT(30) DEF Working, Clearing
<1>3. /\ r \in Locals /\ r.job \in Job /\ Current(r, jobs) /\ Listing(r, jobs, revIndex, leases)
      /\ revIndex \in [Job -> SUBSET Job] /\ jobs \in [Job -> Record]
  BY <1>2, MineSerial
<1>4. jobs[r.job].state = "PENDING" /\ jobs[r.job].deps = r.rec.deps
  BY <1>1, <1>3, ZenonT(30) DEF Current
<1>5. revIndex' = [d \in Job |-> revIndex[d] \cup (IF d \in SeqSet(r.rec.deps) THEN {r.job} ELSE {})]
  BY Zenon DEF placeIndex, addDeps
<1>6. \A d \in Job : /\ \A j \in revIndex'[d] : j \in revIndex[d] \/ j = r.job
                     /\ \A j \in revIndex[d] : j \in revIndex'[d]
                     /\ d \in SeqSet(r.rec.deps) => r.job \in revIndex'[d]
  BY <1>5
<1>7. \A j \in r.work \cup {r.job} : j \notin Unread(r)
  BY <1>2, <1>3, ZenonT(30) DEF Listing
<1>8. \A j \in Job : \A d \in SeqSet(jobs[j].deps) : d \in Job
  BY <1>3 DEF SeqSet, Record
<1>9. \A j \in Job : jobs[j].state = "PENDING" /\ Waits(j, r, jobs)
         => j \in r.todo \/ \E d \in SeqSet(jobs[j].deps) : jobs[d].state # "SUCCEEDED"
  BY <1>2, ZenonT(30) DEF Waits
<1>10. \A j \in Job : Held(j, r, jobs) =>
          jobs[j].state = "PENDING" /\ \A d \in SeqSet(jobs[j].deps) : j \in revIndex'[d]
  BY <1>3, <1>4, <1>6, <1>8, ZenonT(30) DEF Held
<1>. HIDE DEF r
<1>. QED  BY <1>1, <1>2, <1>3, <1>6, <1>7, <1>8, <1>9, <1>10, GoBack, ZenonT(30) DEF r

\* A job is written QUEUED and goes on to a timer or the queue.
LEMMA QueuedStep ==
    ASSUME Serial, SInv, IInv', NEW t \in Thread, NEW pc \in {"arm", "enqueue"}, Forget(t, pc), NEW rec,
           putJob(th[t].job, rec), Storing, rec.state = "QUEUED", th[t].pc \in {"ready"} \cup Ran
    PROVE  SInv'
<1>. DEFINE r == th[t]
            x == [r EXCEPT !.pc = pc, !.rec = Absent]
<1>1. Become(t, x)
  BY DEF Forget
<1>2. r.pc \in Working /\ r.pc \notin {"succeeded", "dependents"}
  BY ZenonT(30) DEF Working, Ran
<1>3. r \in Locals /\ r.job \in Job /\ Current(r, jobs) /\ jobs \in [Job -> Record]
  BY <1>2, MineSerial
<1>4. Stays(r, x) /\ x.pc = pc
  BY <1>3, ZenonT(30) DEF Locals, Stays
<1>. HIDE DEF x
<1>. DEFINE J == [jobs EXCEPT ![r.job] = rec]
<1>5. J[x.job] = rec
  BY <1>3, <1>4, ZenonT(30) DEF Stays
<1>. HIDE DEF J
<1>10. Current(x, J)
  BY <1>4, <1>5, CurrentArming
<1>6. Current(x, [jobs EXCEPT ![r.job] = rec])
  BY <1>10 DEF J
<1>7. x.pc \in Working /\ x.pc \notin Placing /\ InHand(x.pc, rec.state)
  BY <1>4, ZenonT(30) DEF Working, Placing, InHand, Arming
<1>8. CASE r.pc = "ready"
  <2>1. r.pc \in Placing /\ jobs[r.job].state \in {"ABSENT", "PENDING", "QUEUED"}
    BY <1>8, <1>3, ZenonT(30) DEF Placing, Current
  <2>. HIDE DEF r
  <2>. QED  BY <1>1, <1>2, <1>4, <1>6, <1>7, <2>1, SaveOn, ZenonT(30) DEF r
<1>9. CASE r.pc \in Ran
  <2>1. jobs[r.job].state = "RUNNING" /\ InHand(r.pc, "RUNNING")
    BY <1>9, <1>3, ZenonT(30) DEF Current, InHand, Leaving, Ran
  <2>. HIDE DEF r
  <2>. QED  BY <1>1, <1>2, <1>4, <1>6, <1>7, <2>1, SaveOn, ZenonT(30) DEF r
<1>. QED  BY <1>8, <1>9

LEMMA SerialmakeReady == ASSUME Serial, SInv, IInv', NEW t \in Thread, makeReady(t) PROVE SInv'
<1>1. th[t].pc = "ready" /\ Storing
  BY Zenon DEF makeReady, At
<1>2. PICK sched \in {th[t].rec.sched, TRUE} :
         /\ putJob(th[t].job, [th[t].rec EXCEPT !.state = "QUEUED", !.sched = sched])
         /\ \E pc \in {"enqueue"} \cup (IF sched THEN {"arm"} ELSE {}) : Forget(t, pc)
  BY NoErrors, ZenonT(30) DEF makeReady
<1>3. PICK pc \in {"arm", "enqueue"} : Forget(t, pc)
  BY <1>2
<1>4. PICK rec : rec = [th[t].rec EXCEPT !.state = "QUEUED", !.sched = sched]
  BY ZenonT(30)
<1>5. th[t].rec \in Record
  BY MineSerial DEF Locals
<1>6. rec.state = "QUEUED" /\ putJob(th[t].job, rec)
  BY <1>2, <1>4, <1>5 DEF Record
<1>. QED  BY <1>1, <1>3, <1>6, QueuedStep

LEMMA SerialenqueueJob == ASSUME Serial, SInv, IInv', NEW t \in Thread, enqueueJob(t) PROVE SInv'
<1>. DEFINE r == th[t]
            x == [r EXCEPT !.pc = "push", !.rec = Absent]
<1>1. r.pc = "enqueue" /\ UNCHANGED <<jobs, leases, rest, queue, timers, revIndex>>
  BY Zenon DEF enqueueJob, At, Local, store, memory
<1>2. CASE leader /\ jobs[r.job].state = "QUEUED"
  <2>1. Become(t, x)
    BY <1>2, Zenon DEF enqueueJob, Forget
  <2>2. r.pc \in Working /\ r.pc \notin {"deps", "ready", "succeeded", "dependents"}
    BY <1>1, ZenonT(30) DEF Working
  <2>3. r \in Locals
    BY MineSerial
  <2>4. Stays(r, x) /\ x.pc = "push"
    BY <2>3 DEF Locals, Stays
  <2>. HIDE DEF x
  <2>5. jobs[x.job].state = "QUEUED"
    BY <1>2, <2>4, ZenonT(30) DEF Stays
  <2>6. Current(x, jobs)
    BY <2>4, <2>5, CurrentArming
  <2>7. x.pc \in Working /\ x.pc \notin Placing /\ InHand(x.pc, "QUEUED")
    BY <2>4 DEF Working, Placing, InHand, Arming
  <2>8. \A j \in Job : Waits(j, r, jobs) => Waits(j, x, jobs)
    BY <2>2, <2>4, WaitsMove, ZenonT(30) DEF Stays
  <2>. HIDE DEF r
  <2>. QED  BY <1>1, <1>2, <2>1, <2>2, <2>4, <2>6, <2>7, <2>8, GoOn, ZenonT(30) DEF r
<1>3. CASE ~(leader /\ jobs[r.job].state = "QUEUED")
  <2>1. Armed(t)
    BY <1>3, Zenon DEF enqueueJob
  <2>2. ~(Live(r) /\ jobs[r.job].state = "QUEUED")
    BY <1>3, Zenon DEF Live
  <2>. QED  BY <1>1, <2>1, <2>2, ArmedStep
<1>. QED  BY <1>2, <1>3

\* A free goroutine, or one that polls, begins with a job or with none.
LEMMA BeginStep ==
    ASSUME Serial, SInv, IInv', NEW t \in Thread, NEW x, Become(t, x),
           UNCHANGED <<jobs, leases, rest, revIndex>>,
           th[t].list = {}, th[t].todo = {}, th[t].task = 0, th[t].pc \notin Clearing,
           th[t].pc \notin {"deps", "ready", "succeeded", "dependents"},
           x.list = {}, x.task = 0, x.pc \notin Clearing, x.pc \notin Placing, Current(x, jobs),
           \A j \in Job : Held(j, th[t], jobs) => Held(j, x, jobs),
           \A j \in Job : Held(j, x, jobs) => jobs[j].state # "RUNNING",
           \A j \in Job : jobs[j].state = "QUEUED" /\ j \in queue \cup timers
                              => j \in queue' \cup timers' \/ Held(j, x, jobs)
    PROVE  SInv'
<1>1. Listing(x, jobs, revIndex', leases)
  BY EmptyListing, ZenonT(30)
<1>2. \A l \in leases : l.job \in Job
  BY MineSerial, ZenonT(30)
<1>3. \A j \in Job : Waits(j, th[t], jobs) => Waits(j, x, jobs)
  BY WaitsMove, ZenonT(30)
<1>5. revIndex' = revIndex /\ UNCHANGED <<jobs, leases, rest>>
  BY ZenonT(30)
<1>4. ASSUME Agrees(th[t], jobs, queue \cup timers, leases, revIndex)
      PROVE  Agrees(x, jobs, queue' \cup timers', leases, revIndex)
  <2>1. x.list = th[t].list /\ x.task = th[t].task
    BY Zenon
  <2>2. \A j \in Job : Held(j, th[t], jobs) =>
           \/ Held(j, x, jobs)
           \/ jobs[j].state = "QUEUED" /\ j \in queue' \cup timers'
           \/ jobs[j].state = "PENDING" /\ \A d \in SeqSet(jobs[j].deps) : j \in revIndex[d]
    BY Zenon
  <2>3. \A j \in Job : Held(j, x, jobs) => Held(j, th[t], jobs) \/ jobs[j].state # "RUNNING"
    BY Zenon
  <2>4. \A j \in Job : j \in queue \cup timers /\ jobs[j].state = "QUEUED" => j \in queue' \cup timers' \/ Held(j, x, jobs)
    OBVIOUS
  <2>5. \A j \in Job : jobs[j].state = "PENDING" =>
           \A d \in SeqSet(jobs[j].deps) : j \in revIndex[d] => j \in revIndex[d]
    OBVIOUS
  <2>7. Handed(th[t], x, jobs, queue \cup timers, queue' \cup timers', leases, revIndex, revIndex)
    BY ONLY <1>2, <1>3, <2>1, <2>2, <2>3, <2>4, <2>5, ZenonT(30) DEF Handed
  <2>. QED  BY ONLY <1>4, <2>7, AgreesMove, ZenonT(30)
<1>. QED  BY <1>1, <1>4, <1>5, MoveStep, ZenonT(30)

LEMMA IdlePc ==
    "idle" \notin Clearing /\ "idle" \notin {"deps", "ready", "succeeded", "dependents"} /\ \A st : ~InHand("idle", st)
BY DEF Clearing, InHand, Arming, Leaving

LEMMA SerialTimerFires == ASSUME Serial, SInv, IInv', NEW t \in Thread, TimerFires(t) PROVE SInv'
<1>1. PICK j \in timers : timers' = timers \ {j} /\ Become(t, [Idle EXCEPT !.pc = "enqueue", !.job = j])
  BY Zenon DEF TimerFires
<1>2. th[t].pc = "idle" /\ UNCHANGED <<jobs, leases, rest, revIndex, queue>>
  BY Zenon DEF TimerFires, At, store
<1>. DEFINE x == [Idle EXCEPT !.pc = "enqueue", !.job = j]
<1>3. x.pc = "enqueue" /\ x.job = j /\ x.list = {} /\ x.task = 0 /\ x.flag = FALSE
  BY DEF Idle
<1>4. Become(t, x)
  BY <1>1, ZenonT(30)
<1>. HIDE DEF x
<1>5. Current(x, jobs)
  BY <1>3, CurrentArming
<1>6. x.pc \notin Clearing /\ x.pc \notin Placing /\ InHand(x.pc, "QUEUED") /\ ~InHand(x.pc, "RUNNING")
  BY <1>3, ZenonT(30) DEF Clearing, Placing, InHand, Arming, Leaving
<1>7. th[t].list = {} /\ th[t].task = 0 /\ th[t].todo = {}
  BY <1>2, Free, ZenonT(30)
<1>8. \A i \in Job : /\ ~Held(i, th[t], jobs)
                     /\ Held(i, x, jobs) => jobs[i].state # "RUNNING"
                     /\ i = j /\ jobs[i].state = "QUEUED" => Held(i, x, jobs)
  BY <1>2, <1>3, <1>6, IdlePc DEF Held
<1>9. \A i \in Job : jobs[i].state = "QUEUED" /\ i \in queue \cup timers => i \in queue' \cup timers' \/ Held(i, x, jobs)
  BY <1>1, <1>2, <1>8, ZenonT(30)
<1>10. th[t].pc \notin Clearing /\ th[t].pc \notin {"deps", "ready", "succeeded", "dependents"}
  BY <1>2, IdlePc
<1>. QED  BY <1>2, <1>3, <1>4, <1>5, <1>6, <1>7, <1>8, <1>9, <1>10, BeginStep, ZenonT(30)

LEMMA SerialPollTask == ASSUME Serial, SInv, IInv', NEW t \in Thread, PollTask(t) PROVE SInv'
<1>. DEFINE x == [th[t] EXCEPT !.pc = "pop"]
<1>1. th[t].pc = "idle" /\ Become(t, x) /\ UNCHANGED <<jobs, leases, rest, revIndex, queue, timers>>
  BY Zenon DEF PollTask, Accept, At, Goto, Local, store, memory
<1>2. th[t].list = {} /\ th[t].task = 0 /\ th[t].todo = {} /\ th[t] = Idle
  BY <1>1, Free
<1>3. x.pc = "pop" /\ x.list = {} /\ x.task = 0 /\ x.todo = {}
  BY <1>2, ZenonT(30) DEF Idle
<1>. HIDE DEF x
<1>4. Current(x, jobs)
  BY <1>3 DEF Current, Polling, Reported, Placing, Arming, Ran, Over
<1>5. x.pc \notin Clearing /\ x.pc \notin Placing /\ \A st : ~InHand(x.pc, st)
  BY <1>3, ZenonT(30) DEF Clearing, Placing, InHand, Arming, Leaving
<1>6. \A i \in Job : ~Held(i, th[t], jobs) /\ ~Held(i, x, jobs)
  BY <1>1, <1>5, IdlePc DEF Held
<1>. QED  BY <1>1, <1>2, <1>3, <1>4, <1>5, <1>6, IdlePc, BeginStep, ZenonT(30)

\* A goroutine that polls has nothing else to do.
LEMMA PollingMine ==
    ASSUME SInv, NEW t \in Thread, th[t].pc \in Polling
    PROVE  /\ th[t].list = {} /\ th[t].todo = {} /\ th[t].task = 0 /\ th[t].pc \notin Clearing
           /\ th[t].pc \notin {"deps", "ready", "succeeded", "dependents"}
<1>1. Current(th[t], jobs)
  BY MineSerial
<1>2. th[t].list = {} /\ th[t].todo = {} /\ th[t].task = 0
  BY <1>1, ZenonT(30) DEF Current
<1>. QED  BY <1>2, ZenonT(30) DEF Polling, Clearing

LEMMA SerialPop == ASSUME Serial, SInv, IInv', NEW t \in Thread, Pop(t) PROVE SInv'
<1>1. th[t].pc = "pop" /\ UNCHANGED <<jobs, leases, rest, revIndex, timers>>
  BY Zenon DEF Pop, At, store
<1>2. th[t].pc \in Polling /\ \A st : ~InHand(th[t].pc, st)
  BY <1>1, ZenonT(30) DEF Polling, InHand, Arming, Leaving
<1>3. /\ th[t].list = {} /\ th[t].todo = {} /\ th[t].task = 0 /\ th[t].pc \notin Clearing
      /\ th[t].pc \notin {"deps", "ready", "succeeded", "dependents"}
  BY <1>2, PollingMine
<1>4. \A i \in Job : ~Held(i, th[t], jobs)
  BY <1>2 DEF Held
<1>5. CASE Become(t, Idle) /\ UNCHANGED queue
  <2>1. Idle.pc = "idle" /\ Idle.list = {} /\ Idle.task = 0 /\ Idle.pc \in Loops
    BY DEF Idle, Loops
  <2>2. Current(Idle, jobs) /\ Idle.pc \notin Placing
    BY <2>1, LoopCurrent, LoopPcs, ZenonT(30)
  <2>3. \A i \in Job : ~Held(i, Idle, jobs)
    BY <2>1, IdlePc, ZenonT(30) DEF Held
  <2>4. Idle.pc \notin Clearing
    BY <2>1 DEF Clearing
  <2>5. /\ \A i \in Job : Held(i, th[t], jobs) => Held(i, Idle, jobs)
        /\ \A i \in Job : Held(i, Idle, jobs) => jobs[i].state # "RUNNING"
    BY <1>4, <2>3, Zenon
  <2>6. \A i \in Job : jobs[i].state = "QUEUED" /\ i \in queue \cup timers
                          => i \in queue' \cup timers' \/ Held(i, Idle, jobs)
    BY <1>1, <1>5, Zenon
  <2>7. Become(t, Idle) /\ UNCHANGED <<jobs, leases, rest, revIndex>>
    BY <1>1, <1>5, Zenon
  <2>. QED  BY ONLY Serial, SInv, IInv', t \in Thread, <1>3, <2>1, <2>2, <2>4, <2>5, <2>6, <2>7, BeginStep, ZenonT(30)
<1>6. CASE \E j \in queue : queue' = queue \ {j} /\ Become(t, [Idle EXCEPT !.pc = "polled", !.job = j])
  <2>1. PICK j \in queue : queue' = queue \ {j} /\ Become(t, [Idle EXCEPT !.pc = "polled", !.job = j])
    BY <1>6, ZenonT(30)
  <2>. DEFINE x == [Idle EXCEPT !.pc = "polled", !.job = j]
  <2>2. x.pc = "polled" /\ x.job = j /\ x.list = {} /\ x.task = 0 /\ x.flag = FALSE /\ x.todo = {}
    BY DEF Idle
  <2>3. Become(t, x)
    BY <2>1, ZenonT(30)
  <2>. HIDE DEF x
  <2>4. Current(x, jobs)
    BY <2>2 DEF Current, Polling, Reported, Placing, Arming, Ran, Over
  <2>5. x.pc \notin Clearing /\ x.pc \notin Placing /\ InHand(x.pc, "QUEUED") /\ ~InHand(x.pc, "RUNNING")
    BY <2>2 DEF Clearing, Placing, InHand, Arming, Leaving
  <2>6. \A i \in Job : /\ Held(i, x, jobs) => jobs[i].state # "RUNNING"
                       /\ i = j /\ jobs[i].state = "QUEUED" => Held(i, x, jobs)
    BY <2>2, <2>5 DEF Held
  <2>7. \A i \in Job : jobs[i].state = "QUEUED" /\ i \in queue \cup timers => i \in queue' \cup timers' \/ Held(i, x, jobs)
    BY <2>1, <1>1, <2>6, ZenonT(30)
  <2>. QED  BY <1>1, <1>3, <1>4, <2>2, <2>3, <2>4, <2>5, <2>6, <2>7, BeginStep, ZenonT(30)
<1>. QED  BY <1>5, <1>6, Zenon DEF Pop


\* Dropping a job from the index does not matter to those that are PENDING.
LEMMA Unindexed ==
    ASSUME SInv, NEW i, removeFromIndex(i), i \in Job => jobs[i].state # "PENDING"
    PROVE  /\ \A d \in Job : \A j \in revIndex'[d] : j \in revIndex[d]
           /\ \A j \in Job : jobs[j].state = "PENDING" =>
                  \A d \in SeqSet(jobs[j].deps) : j \in revIndex[d] => j \in revIndex'[d]
<1>1. jobs \in [Job -> Record]
  BY DEF SInv, IInv, StoreInv
<1>2. \A d \in Job : revIndex'[d] = revIndex[d] \ {i}
  BY DEF removeFromIndex
<1>3. \A j \in Job : \A d \in SeqSet(jobs[j].deps) : d \in Job
  BY <1>1 DEF SeqSet, Record
<1>4. ASSUME NEW j \in Job, jobs[j].state = "PENDING" PROVE j # i
  BY <1>4
<1>. QED  BY <1>2, <1>3, <1>4, ZenonT(30)

LEMMA SerialpromoteUnindex == ASSUME Serial, SInv, IInv', NEW t \in Thread, promoteUnindex(t) PROVE SInv'
<1>. DEFINE r == th[t]
            y == [r EXCEPT !.flag = FALSE]
<1>1. /\ r.pc = "unindex" /\ Become(t, Resume(y)) /\ removeFromIndex(r.job)
      /\ UNCHANGED <<jobs, leases, rest, queue, timers>>
  BY Zenon DEF promoteUnindex, At, store
<1>2. /\ r.pc \in Working /\ r.pc \notin Clearing /\ r.pc \notin {"deps", "ready", "succeeded", "dependents"}
      /\ \A st : ~InHand(r.pc, st)
  BY <1>1 DEF Working, Clearing, InHand, Arming, Leaving
<1>3. r \in Locals /\ r.job \in Job /\ Current(r, jobs) /\ Listing(r, jobs, revIndex, leases)
  BY <1>2, MineSerial, ZenonT(30)
<1>4. jobs[r.job].state # "PENDING"
  BY <1>1, <1>3 DEF Current
<1>5. y \in Locals /\ y.list = r.list /\ y.task = r.task /\ y.todo = r.todo /\ y.work = r.work
  BY <1>3, ZenonT(30) DEF Locals
<1>. HIDE DEF y
<1>6. \A j \in y.work : j \notin Unread(r)
  BY <1>3, <1>5, Zenon DEF Listing
<1>7. /\ \A d \in Job : \A j \in revIndex'[d] : j \in revIndex[d]
      /\ \A j \in Job : jobs[j].state = "PENDING" =>
             \A d \in SeqSet(jobs[j].deps) : j \in revIndex[d] => j \in revIndex'[d]
  BY <1>1, <1>4, Unindexed, Zenon
<1>8. \A j \in Job : jobs[j].state = "PENDING" /\ Waits(j, r, jobs)
         => j \in y.todo \/ \E d \in SeqSet(jobs[j].deps) : jobs[d].state # "SUCCEEDED"
  BY <1>2, <1>5, ZenonT(30) DEF Waits
<1>9. \A j \in Job : ~Held(j, r, jobs)
  BY <1>2 DEF Held
<1>. HIDE DEF r
<1>. QED  BY <1>1, <1>2, <1>5, <1>6, <1>7, <1>8, <1>9, GoBack, ZenonT(60) DEF r

LEMMA SerialtryPromote == ASSUME Serial, SInv, IInv', NEW t \in Thread, tryPromote(t) PROVE SInv'
<1>. DEFINE r == th[t]
<1>1. r.pc = "promote" /\ UNCHANGED <<jobs, leases, rest, queue, timers, revIndex>>
  BY Zenon DEF tryPromote, At, Local, store, memory
<1>2. PICK j \in r.todo :
        Become(t, IF jobs[j].state = "PENDING"
                  THEN [[r EXCEPT !.todo = @ \ {j}] EXCEPT !.pc = "deps", !.job = j, !.rec = jobs[j], !.flag = TRUE, !.k = 1]
                  ELSE Resume([r EXCEPT !.todo = @ \ {j}]))
  BY Zenon DEF tryPromote
<1>3. /\ r.pc \notin Clearing /\ r.pc \notin {"deps", "ready", "succeeded", "dependents"}
      /\ \A st : ~InHand(r.pc, st)
  BY <1>1, ZenonT(30) DEF Clearing, InHand, Arming, Leaving
<1>4. r \in Locals /\ Listing(r, jobs, revIndex, leases) /\ \A l \in leases : l.job \in Job
  BY MineSerial
<1>5. r.list = {} /\ j \in Job /\ Unread(r) = {}
  BY <1>1, <1>4, ZenonT(30) DEF Listing, Locals, Unread
<1>6. \A i \in Job : ~Held(i, r, jobs)
  BY <1>3 DEF Held
<1>. DEFINE y == [r EXCEPT !.todo = r.todo \ {j}]
<1>7. y \in Locals /\ y.list = r.list /\ y.task = r.task /\ y.todo = r.todo \ {j} /\ y.work = r.work
  BY <1>4 DEF Locals
<1>8. CASE jobs[j].state = "PENDING"
  <2>. DEFINE x == [y EXCEPT !.pc = "deps", !.job = j, !.rec = jobs[j], !.flag = TRUE, !.k = 1]
  <2>1. Become(t, x)
    BY <1>2, <1>8, Zenon
  <2>2. /\ x.pc = "deps" /\ x.job = j /\ x.rec = jobs[j] /\ x.flag = TRUE
        /\ x.list = r.list /\ x.task = r.task /\ x.todo = y.todo
    BY <1>7 DEF Locals
  <2>. HIDE DEF x
  <2>3. Current(x, jobs)
    BY <2>2, <1>8 DEF Current, Polling, Reported, Placing, Arming, Ran, Over
  <2>4. x.pc \notin Clearing /\ \A i \in Job : ~Held(i, x, jobs)
    BY <2>2 DEF Clearing, Held, InHand, Arming, Leaving
  <2>5. Listing(x, jobs, revIndex', leases)
    BY <1>5, <2>2, <2>4, EmptyListing, ZenonT(30)
  <2>6. submits[x.job] # 0
    BY <1>5, <1>8, <2>2, ZenonT(30) DEF SInv, Ids
  <2>7. ASSUME NEW i \in Job, Waits(i, r, jobs) PROVE Waits(i, x, jobs)
    <3>1. CASE i = j
      BY <3>1, <2>2 DEF Waits
    <3>2. CASE i # j
      BY <3>2, <2>2, <2>7, <1>3, <1>7, ZenonT(30) DEF Waits
    <3>. QED  BY <3>1, <3>2
  <2>8. ASSUME Agrees(r, jobs, queue \cup timers, leases, revIndex)
        PROVE  Agrees(x, jobs, queue \cup timers, leases, revIndex)
    BY <1>4, <1>6, <2>2, <2>4, <2>7, <2>8, AgreesSame, ZenonT(30)
  <2>. HIDE DEF r
  <2>. QED  BY <1>1, <1>3, <2>1, <2>3, <2>5, <2>6, <2>8, MoveStep, ZenonT(30) DEF r
<1>9. CASE jobs[j].state # "PENDING"
  <2>1. Become(t, Resume(y))
    BY <1>2, <1>9, Zenon
  <2>. HIDE DEF y
  <2>2. \A i \in y.work : i \notin Unread(r)
    BY <1>5
  <2>3. \A i \in Job : jobs[i].state = "PENDING" /\ Waits(i, r, jobs)
           => i \in y.todo \/ \E d \in SeqSet(jobs[i].deps) : jobs[d].state # "SUCCEEDED"
    BY <1>3, <1>7, <1>9, ZenonT(30) DEF Waits
  <2>. HIDE DEF r
  <2>. QED  BY <1>1, <1>3, <1>6, <1>7, <2>1, <2>2, <2>3, GoBack, ZenonT(30) DEF r
<1>. QED  BY <1>8, <1>9

-----------------------------------------------------------------------------
(* PollTask.                                                               *)

LEMMA SerialPollLoad == ASSUME Serial, SInv, IInv', NEW t \in Thread, PollLoad(t) PROVE SInv'
<1>. DEFINE r == th[t]
<1>1. r.pc = "polled" /\ UNCHANGED <<jobs, leases, rest, queue, timers, revIndex>>
  BY Zenon DEF PollLoad, At, Local, store, memory
<1>2. r.pc \in Polling /\ r.pc \in Working /\ r.pc \notin {"deps", "ready", "succeeded", "dependents"}
  BY <1>1 DEF Polling, Working
<1>3. r.list = {} /\ r.todo = {} /\ r.task = 0 /\ r.pc \notin Clearing
  BY <1>2, PollingMine, ZenonT(30)
<1>4. r \in Locals /\ r.job \in Job
  BY <1>2, MineSerial, ZenonT(30)
<1>5. CASE jobs[r.job].state = "QUEUED"
  <2>. DEFINE x == [r EXCEPT !.pc = "dispatch", !.rec = jobs[r.job]]
  <2>1. Become(t, x)
    BY <1>5, Zenon DEF PollLoad
  <2>2. Stays(r, x) /\ x.pc = "dispatch" /\ x.rec = jobs[r.job]
    BY <1>4 DEF Locals, Stays
  <2>. HIDE DEF x
  <2>3. x.job = r.job /\ x.list = {} /\ x.todo = {} /\ x.task = 0
    BY <1>3, <2>2 DEF Stays
  <2>4. Current(x, jobs)
    BY <1>5, <2>2, <2>3, ZenonT(30) DEF Current, Polling, Reported, Placing, Arming, Ran, Over
  <2>5. x.pc \in Working /\ x.pc \notin Placing /\ InHand(x.pc, "QUEUED")
    BY <2>2, ZenonT(30) DEF Working, Placing, InHand, Arming
  <2>6. \A j \in Job : Waits(j, r, jobs) => Waits(j, x, jobs)
    BY <1>2, <1>3, WaitsMove, ZenonT(30)
  <2>. HIDE DEF r
  <2>. QED  BY <1>1, <1>2, <1>5, <2>1, <2>2, <2>4, <2>5, <2>6, GoOn, ZenonT(30) DEF r
<1>6. CASE jobs[r.job].state # "QUEUED"
  <2>. DEFINE x == [Idle EXCEPT !.pc = "pop"]
  <2>1. Become(t, x)
    BY <1>6, Zenon DEF PollLoad
  <2>2. x.pc = "pop" /\ x.list = {} /\ x.task = 0 /\ x.todo = {}
    BY DEF Idle
  <2>. HIDE DEF x
  <2>3. Current(x, jobs)
    BY <2>2, ZenonT(30) DEF Current, Polling, Reported, Placing, Arming, Ran, Over
  <2>4. x.pc \notin Clearing /\ x.pc \notin Placing /\ \A st : ~InHand(x.pc, st)
    BY <2>2 DEF Clearing, Placing, InHand, Arming, Leaving
  <2>5. \A st : InHand(r.pc, st) => st = "QUEUED"
    BY <1>1, ZenonT(30) DEF InHand, Leaving
  <2>6. \A i \in Job : ~Held(i, r, jobs) /\ ~Held(i, x, jobs)
    BY <1>6, <2>4, <2>5 DEF Held
  <2>. HIDE DEF r
  <2>. QED  BY <1>1, <1>2, <1>3, <2>1, <2>2, <2>3, <2>4, <2>6, BeginStep, ZenonT(30) DEF r
<1>. QED  BY <1>5, <1>6

LEMMA SerialPollPut == ASSUME Serial, SInv, IInv', NEW t \in Thread, PollPut(t) PROVE SInv'
<1>. DEFINE r == th[t]
<1>1. r.pc = "dispatch" /\ Storing
  BY Zenon DEF PollPut, At
<1>2. PICK rec : rec = [r.rec EXCEPT !.state = "RUNNING", !.attempt = @ + 1, !.sched = FALSE]
  OBVIOUS
<1>. DEFINE x == [r EXCEPT !.pc = "lease", !.rec = rec]
<1>3. putJob(r.job, rec) /\ Become(t, x)
  BY <1>2, NoErrors, Zenon DEF PollPut
<1>4. r.pc \in Polling /\ r.pc \in Working /\ r.pc \notin {"succeeded", "dependents"}
  BY <1>1, ZenonT(30) DEF Polling, Working
<1>5. r.list = {} /\ r.todo = {} /\ r.task = 0
  BY <1>4, PollingMine, ZenonT(30)
<1>6. r \in Locals /\ r.job \in Job /\ Current(r, jobs) /\ jobs \in [Job -> Record]
  BY <1>4, MineSerial
<1>7. jobs[r.job].state = "QUEUED"
  BY <1>1, <1>6, ZenonT(30) DEF Current
<1>8. rec.state = "RUNNING"
  BY <1>2, <1>6 DEF Locals, Record
<1>9. Stays(r, x) /\ x.pc = "lease" /\ x.rec = rec
  BY <1>6 DEF Locals, Stays
<1>. HIDE DEF x
<1>10. x.job = r.job /\ x.list = {} /\ x.todo = {} /\ x.task = 0
  BY <1>5, <1>9, ZenonT(30) DEF Stays
<1>. DEFINE J == [jobs EXCEPT ![r.job] = rec]
<1>11. J[x.job] = rec
  BY <1>6, <1>10, ZenonT(30)
<1>. HIDE DEF J
<1>12. Current(x, J)
  BY <1>8, <1>9, <1>10, <1>11, ZenonT(30) DEF Current, Polling, Reported, Placing, Arming, Ran, Over
<1>13. Current(x, [jobs EXCEPT ![r.job] = rec])
  BY <1>12 DEF J
<1>14. x.pc \in Working /\ x.pc \notin Placing /\ InHand(x.pc, rec.state)
  BY <1>8, <1>9 DEF Working, Placing, InHand, Leaving
<1>. HIDE DEF r
<1>. QED  BY <1>1, <1>3, <1>4, <1>7, <1>8, <1>9, <1>13, <1>14, SaveOn, ZenonT(30) DEF r

LEMMA SerialaddLease == ASSUME Serial, SInv, IInv', NEW t \in Thread, addLease(t) PROVE SInv'
<1>. DEFINE r == th[t]
            new == [task |-> nextTask, job |-> r.job, attempt |-> r.rec.attempt]
<1>1. /\ r.pc = "lease" /\ Become(t, Idle) /\ leases' = leases \cup {new} /\ nextTask' = nextTask + 1
      /\ UNCHANGED <<jobs, queue, timers, revIndex, submits, callbacks, stepDowns, errors, leader>>
  BY Zenon DEF addLease, At, store, node
<1>2. r.pc \in Polling /\ r.pc \in Working /\ r.pc \notin {"deps", "ready", "succeeded", "dependents"}
      /\ InHand(r.pc, "RUNNING")
  BY <1>1 DEF Polling, Working, InHand, Leaving
<1>3. r.list = {} /\ r.todo = {} /\ r.task = 0 /\ r.pc \notin Clearing
  BY <1>2, PollingMine, ZenonT(30)
<1>4. r \in Locals /\ r.job \in Job /\ Current(r, jobs)
  BY <1>2, MineSerial
<1>5. jobs[r.job].state = "RUNNING" /\ r.rec = jobs[r.job]
  BY <1>1, <1>4, ZenonT(30) DEF Current
<1>6. Idle.pc = "idle" /\ Idle.list = {} /\ Idle.task = 0 /\ Idle.pc \in Loops /\ Unread(Idle) = {} /\ Unread(r) = {}
  BY <1>3, ZenonT(30) DEF Idle, Loops, Unread
<1>7. Current(Idle, jobs) /\ Idle.pc \notin Placing
  BY <1>6, LoopCurrent, LoopPcs, ZenonT(30)
<1>8. Listing(Idle, jobs, revIndex, leases') /\ Idle.pc \notin Clearing
  BY <1>6, IdlePc, EmptyListing
<1>9. nextTask \in Nat /\ nextTask # 0 /\ \A l \in leases : l.task \in Nat /\ l.task # 0 /\ l.task < nextTask
  BY ZenonT(30) DEF SInv, IInv, MemoryInv, Ids
<1>10. new.task = nextTask /\ new.job = r.job /\ new.attempt = r.rec.attempt
  OBVIOUS
<1>. HIDE DEF new
<1>11. /\ nextTask' # 0
       /\ \A l \in leases' : l.task # 0 /\ l.task < nextTask'
       /\ \A l \in leases : l.task # new.task
  BY <1>1, <1>9, <1>10
<1>12. th'[t] = Idle /\ \A u \in Thread : u = t
  BY <1>1 DEF SInv, IInv, ThreadInv, Become, Serial
<1>13. Ids'
  <2>1. \A u \in Thread : th'[u].pc \in Placing => submits'[th'[u].job] # 0
    BY <1>7, <1>12, ZenonT(30)
  <2>2. \A l, m \in leases' : l.task = m.task => l = m
    <3>1. \A l, m \in leases : l.task = m.task => l = m
      BY ZenonT(30) DEF SInv, Ids
    <3>. QED  BY <1>1, <1>11, <3>1
  <2>3. \A j \in Job : submits'[j] = 0 => jobs'[j].state = "ABSENT"
    BY <1>1, ZenonT(30) DEF SInv, Ids
  <2>4. (\A c \in callbacks' : c[1] = "lead") /\ stepDowns' = 0 /\ errors' = 0
    BY <1>1, ZenonT(30) DEF SInv, Ids
  <2>. QED  BY <1>11, <2>1, <2>2, <2>3, <2>4, ZenonT(30) DEF Ids
<1>14. ASSUME Agrees(r, jobs, queue \cup timers, leases, revIndex)
       PROVE  Agrees(Idle, jobs, queue \cup timers, leases', revIndex)
  <2>1. Droppable(Idle, jobs, leases')
    BY <1>6, <1>11 DEF Droppable
  <2>2. ASSUME NEW j \in Job PROVE ~Held(j, Idle, jobs) /\ Found(j, r, jobs, queue \cup timers, leases, revIndex)
    BY <1>6, <1>14, IdlePc, ZenonT(30) DEF Held, Agrees
  <2>3. Placed(r.job, 0, jobs[r.job], queue \cup timers, leases', revIndex)
    <3>1. OnlyTask(r.job, 0, leases)
      BY <1>2, <1>3, <1>4, <1>5, <2>2, ZenonT(30) DEF Found, Held
    <3>2. {m \in leases' : m.job = r.job} = {new}
      BY <1>1, <1>9, <1>10, <3>1, ZenonT(30) DEF OnlyTask
    <3>3. new \in leases' /\ new.attempt = jobs[r.job].attempt
      BY <1>1, <1>5, <1>10, ZenonT(30)
    <3>4. Leased(r.job, jobs[r.job], leases')
      BY <3>2, <3>3, ZenonT(30) DEF Leased
    <3>. QED  BY <1>5, <3>4 DEF Placed
  <2>4. ASSUME NEW j \in Job, j # r.job PROVE Placed(j, 0, jobs[j], queue \cup timers, leases', revIndex)
    <3>1. Placed(j, 0, jobs[j], queue \cup timers, leases, revIndex)
      BY <1>3, <2>2, <2>4, ZenonT(30) DEF Found, Held
    <3>2. {m \in leases' : m.job = j} = {m \in leases : m.job = j}
      BY <1>1, <1>10, <2>4, ZenonT(30)
    <3>3. Leased(j, jobs[j], leases) => Leased(j, jobs[j], leases')
      BY <1>1, <3>2, ZenonT(30) DEF Leased
    <3>4. OnlyTask(j, 0, leases) => OnlyTask(j, 0, leases')
      BY <1>1, <1>10, <2>4, ZenonT(30) DEF OnlyTask
    <3>. QED  BY <3>1, <3>3, <3>4 DEF Placed
  <2>5. ASSUME NEW j \in Job PROVE Waits(j, Idle, jobs)
    <3>1. Waits(j, r, jobs)
      BY <1>6, <1>14, ZenonT(30) DEF Agrees
    <3>. QED  BY <1>2, <1>3, <3>1, WaitsMove
  <2>6. ASSUME NEW j \in Job PROVE Found(j, Idle, jobs, queue \cup timers, leases', revIndex)
    BY <1>6, <2>2, <2>3, <2>4, ZenonT(30) DEF Found
  <2>. QED  BY <2>1, <2>5, <2>6, ZenonT(30) DEF Agrees
<1>15. leader' /\ callbacks' = {} => Agrees(Idle, jobs', queue' \cup timers', leases', revIndex')
  BY <1>1, <1>3, <1>14, ZenonT(30) DEF SInv, Live
<1>. QED  BY <1>1, <1>7, <1>8, <1>13, <1>15, SerialStep, ZenonT(30)

-----------------------------------------------------------------------------
(* Reports and the reaper.                                                 *)

\* A goroutine begins with a lease.
LEMMA TaskStep ==
    ASSUME Serial, SInv, IInv', NEW t \in Thread, NEW x, Become(t, x),
           UNCHANGED <<jobs, leases, revIndex, queue, timers, submits, nextTask, callbacks, stepDowns, errors, leader>>,
           th[t].pc = "idle", NEW l \in leases,
           x.pc \in {"ok", "fail", "reclaim"}, x.job = l.job, x.task = l.task, x.list = {}, x.todo = {}
    PROVE  SInv'
<1>0. x.pc \notin Placing /\ x.pc \notin Clearing /\ x.pc \in Leaving /\ x.pc \notin Arming /\ x.pc # "index"
  BY Zenon DEF Placing, Clearing, Arming, Leaving
<1>1. x.pc \notin Placing /\ x.pc \notin Clearing /\ x.pc \in Leaving /\ \A st : InHand(x.pc, st) <=> st = "RUNNING"
  BY <1>0, Zenon DEF InHand
<1>2. Current(x, jobs)
  BY ZenonT(30) DEF Current, Polling, Reported, Placing, Arming, Ran, Over
<1>3. Listing(x, jobs, revIndex, leases) /\ Unread(x) = {}
  BY <1>1, EmptyListing
<1>4. th[t].list = {} /\ th[t].task = 0 /\ th[t].todo = {} /\ th[t].pc \notin Clearing /\ Unread(th[t]) = {}
  BY Free, IdlePc DEF Unread
<1>5. (\A m \in leases : m.task # 0 /\ (m.task = l.task => m = l)) /\ l.job \in Job
  BY MineSerial, ZenonT(30) DEF SInv, Ids
<1>6. th'[t] = x /\ \A u \in Thread : u = t
  BY ZenonT(30) DEF SInv, IInv, ThreadInv, Become, Serial
<1>7. \A u \in Thread : th'[u].pc \in Placing => submits[th'[u].job] # 0
  BY <1>1, <1>6
<1>8. Ids'
  BY <1>7, Zenon DEF SInv, Ids
<1>9. ASSUME Agrees(th[t], jobs, queue \cup timers, leases, revIndex)
      PROVE  Agrees(x, jobs, queue \cup timers, leases, revIndex)
  <2>1. Droppable(x, jobs, leases)
    BY <1>1, <1>5 DEF Droppable
  <2>2. ASSUME NEW j \in Job
        PROVE  Placed(j, 0, jobs[j], queue \cup timers, leases, revIndex) /\ Waits(j, th[t], jobs)
    BY <1>4, <1>9, IdlePc, ZenonT(30) DEF Agrees, Found, Held
  <2>3. ASSUME NEW j \in Job, Held(j, x, jobs) PROVE OnlyTask(j, x.task, leases)
    <3>1. j = l.job /\ jobs[j].state = "RUNNING"
      BY <1>1, <2>3 DEF Held
    <3>2. Leased(j, jobs[j], leases)
      BY <2>2, <3>1, ZenonT(30) DEF Placed
    <3>. QED  BY <3>1, <3>2 DEF Leased, OnlyTask
  <2>4. ASSUME NEW j \in Job PROVE OnlyTask(j, 0, leases) => OnlyTask(j, x.task, leases)
    BY <1>5 DEF OnlyTask
  <2>5. ASSUME NEW j \in Job PROVE Found(j, x, jobs, queue \cup timers, leases, revIndex)
    BY <2>2, <2>3, <2>4, ZenonT(30) DEF Found, Placed
  <2>6. ASSUME NEW j \in Job PROVE Waits(j, x, jobs)
    <3>1. th[t].todo \subseteq x.todo /\ th[t].pc \notin {"deps", "ready", "succeeded", "dependents"}
      BY <1>4, IdlePc, ZenonT(30)
    <3>. QED  BY <2>2, <3>1, WaitsMove, ZenonT(30)
  <2>. QED  BY <2>1, <2>5, <2>6, ZenonT(30) DEF Agrees
<1>10. leader' /\ callbacks' = {} => Agrees(x, jobs', queue' \cup timers', leases', revIndex')
  BY <1>4, <1>9, ZenonT(30) DEF SInv, Live
<1>. QED  BY <1>2, <1>3, <1>8, <1>10, SerialStep, ZenonT(30)

LEMMA SerialReportTask == ASSUME Serial, SInv, IInv', NEW t \in Thread, ReportTask(t) PROVE SInv'
<1>1. PICK l \in leases, res \in {"ok", "fail"} : Become(t, [Idle EXCEPT !.pc = res, !.job = l.job, !.task = l.task])
  BY Zenon DEF ReportTask
<1>. DEFINE x == [Idle EXCEPT !.pc = res, !.job = l.job, !.task = l.task]
<1>2. x.pc = res /\ x.job = l.job /\ x.task = l.task /\ x.list = {} /\ x.todo = {}
  BY DEF Idle
<1>3. Become(t, x)
  BY <1>1
<1>. HIDE DEF x
<1>4. /\ th[t].pc = "idle"
      /\ UNCHANGED <<jobs, leases, revIndex, queue, timers, submits, nextTask, callbacks, stepDowns, errors, leader>>
  BY Zenon DEF ReportTask, Accept, At, store, memory, node
<1>. QED  BY <1>2, <1>3, <1>4, TaskStep, ZenonT(30)

LEMMA SerialrequeueLease == ASSUME Serial, SInv, IInv', NEW t \in Thread, requeueLease(t) PROVE SInv'
<1>1. PICK l \in leases : Become(t, [Idle EXCEPT !.pc = "reclaim", !.job = l.job, !.task = l.task, !.reaper = TRUE])
  BY Zenon DEF requeueLease
<1>. DEFINE x == [Idle EXCEPT !.pc = "reclaim", !.job = l.job, !.task = l.task, !.reaper = TRUE]
<1>2. x.pc = "reclaim" /\ x.job = l.job /\ x.task = l.task /\ x.list = {} /\ x.todo = {}
  BY DEF Idle
<1>3. Become(t, x)
  BY <1>1
<1>. HIDE DEF x
<1>4. /\ th[t].pc = "idle"
      /\ UNCHANGED <<jobs, leases, revIndex, queue, timers, submits, nextTask, callbacks, stepDowns, errors, leader>>
  BY Zenon DEF requeueLease, At, Local, store, memory, node, rest
<1>. QED  BY <1>2, <1>3, <1>4, TaskStep, ZenonT(30)

LEMMA SerialLoadRunning ==
    ASSUME Serial, SInv, IInv', NEW t \in Thread, NEW pc \in {"ok", "fail"}, NEW next \in {"release", "failure"},
           pc = "fail" => next = "failure",
           LoadRunning(t, pc, next)
    PROVE  SInv'
<1>. DEFINE r == th[t]
<1>1. r.pc = pc /\ UNCHANGED <<jobs, leases, rest, queue, timers, revIndex>>
  BY Zenon DEF LoadRunning, At, Local, store, memory
<1>2. /\ r.pc \in Working /\ r.pc \notin Clearing /\ r.pc \notin {"deps", "ready", "succeeded", "dependents"}
      /\ \A st : InHand(r.pc, st) <=> st = "RUNNING"
  BY <1>1, ZenonT(30) DEF Working, Clearing, InHand, Arming, Leaving
<1>3. r \in Locals /\ r.job \in Job /\ Listing(r, jobs, revIndex, leases) /\ Current(r, jobs)
  BY <1>2, MineSerial
<1>6. next \in Reported => r.list = {} /\ r.todo = {}
  BY <1>1, <1>3, ZenonT(30) DEF Current, Reported
<1>4. CASE jobs[r.job].state = "RUNNING"
  <2>. DEFINE x == [r EXCEPT !.pc = next, !.rec = jobs[r.job]]
  <2>1. Become(t, x)
    BY <1>4, Zenon DEF LoadRunning
  <2>2. Stays(r, x) /\ x.pc = next /\ x.rec = jobs[r.job]
    BY <1>3 DEF Locals, Stays
  <2>. HIDE DEF x
  <2>3. x.job = r.job /\ (x.pc \in Reported => x.list = {} /\ x.todo = {})
    BY <1>6, <2>2, ZenonT(30) DEF Stays
  <2>4. x.pc \in Working /\ x.pc \notin Placing /\ InHand(x.pc, "RUNNING") /\ x.pc \in Ran
    BY <2>2, ZenonT(30) DEF Working, Placing, InHand, Leaving, Ran
  <2>5. Current(x, jobs)
    BY <1>4, <2>2, <2>3, <2>4, CurrentRan, ZenonT(30)
  <2>6. \A j \in Job : Waits(j, r, jobs) => Waits(j, x, jobs)
    BY <1>2, <2>2, WaitsMove DEF Stays
  <2>. HIDE DEF r
  <2>. QED  BY <1>1, <1>2, <1>4, <2>1, <2>2, <2>4, <2>5, <2>6, GoOn, ZenonT(30) DEF r
<1>5. CASE jobs[r.job].state # "RUNNING"
  <2>1. Become(t, Resume(r))
    BY <1>5, Zenon DEF LoadRunning
  <2>2. \A j \in r.work : j \notin Unread(r)
    BY <1>3, ZenonT(30) DEF Listing
  <2>3. \A j \in Job : ~Held(j, r, jobs)
    BY <1>2, <1>5, ZenonT(30) DEF Held
  <2>4. \A j \in Job : jobs[j].state = "PENDING" /\ Waits(j, r, jobs)
           => j \in r.todo \/ \E d \in SeqSet(jobs[j].deps) : jobs[d].state # "SUCCEEDED"
    BY <1>2 DEF Waits
  <2>. HIDE DEF r
  <2>. QED  BY <1>1, <1>2, <1>3, <2>1, <2>2, <2>3, <2>4, GoBack, ZenonT(30) DEF r
<1>. QED  BY <1>4, <1>5

\* The lease of the goroutine's task is dropped.
LEMMA AgreesDrop ==
    ASSUME NEW J, NEW Q, NEW L, NEW I, NEW L2, NEW r, NEW x,
           Agrees(r, J, Q, L, I), x.list = r.list, x.task = 0, L2 = {l \in L : l.task # r.task},
           \A l \in L : l.job \in Job /\ l.task # 0,
           \A j \in Job : Waits(j, r, J) => Waits(j, x, J),
           \A j \in Job : Held(j, r, J) <=> Held(j, x, J)
    PROVE  Agrees(x, J, Q, L2, I)
<1>1. Unread(x) = Unread(r)
  BY ZenonT(30) DEF Unread
<1>2. Droppable(x, J, L2)
  BY DEF Droppable
<1>3. ASSUME NEW j \in Job, j \notin Unread(r) PROVE Found(j, x, J, Q, L2, I)
  <2>1. Found(j, r, J, Q, L, I)
    BY <1>3 DEF Agrees
  <2>2. OnlyTask(j, r.task, L) => OnlyTask(j, 0, L2)
    BY DEF OnlyTask
  <2>3. CASE Held(j, r, J)
    BY <2>1, <2>2, <2>3, ZenonT(30) DEF Found
  <2>4. CASE ~Held(j, r, J)
    <3>1. Placed(j, r.task, J[j], Q, L, I) /\ ~Held(j, x, J)
      BY <2>1, <2>4, ZenonT(30) DEF Found
    <3>2. ASSUME J[j].state = "RUNNING" PROVE Leased(j, J[j], L2)
      <4>1. PICK l \in L : l.attempt = J[j].attempt /\ {m \in L : m.job = j} = {l}
        BY <3>1, <3>2, ZenonT(30) DEF Placed, Leased
      <4>2. l.job = j
        BY <4>1, ZenonT(30)
      <4>3. l.task # r.task
        <5>1. SUFFICES ASSUME l.task = r.task PROVE FALSE
          OBVIOUS
        <5>2. r.job = j /\ r.pc \in Leaving
          BY <3>2, <4>1, <4>2, <5>1, ZenonT(30) DEF Agrees, Droppable
        <5>. QED  BY <2>4, <3>2, <5>2, ZenonT(30) DEF Held, InHand
      <4>4. l \in L2 /\ {m \in L2 : m.job = j} = {l}
        BY <4>1, <4>2, <4>3, ZenonT(30)
      <4>. QED  BY <4>1, <4>4, ZenonT(30) DEF Leased
    <3>3. Placed(j, 0, J[j], Q, L2, I)
      BY <2>2, <3>1, <3>2, ZenonT(30) DEF Placed
    <3>. QED  BY <3>1, <3>3, ZenonT(30) DEF Found
  <2>. QED  BY <2>3, <2>4
<1>. QED  BY <1>1, <1>2, <1>3, ZenonT(30) DEF Agrees

LEMMA DropStep ==
    ASSUME Serial, SInv, IInv', NEW t \in Thread, NEW x, Become(t, x),
           leases' = {l \in leases : l.task # th[t].task}, UNCHANGED <<jobs, queue, timers, revIndex, rest>>,
           x.list = th[t].list, x.task = 0, th[t].todo \subseteq x.todo,
           th[t].pc \notin {"deps", "ready", "succeeded", "dependents"}, th[t].pc \notin Clearing,
           x.pc \notin Clearing, x.pc \notin Placing, x.pc # "promote", Current(x, jobs),
           x.pc \in Working => x.job \notin Unread(th[t]), \A j \in x.work : j \notin Unread(th[t]),
           \A j \in Job : Held(j, th[t], jobs) <=> Held(j, x, jobs)
    PROVE  SInv'
<1>1. UNCHANGED <<jobs, queue, timers, revIndex, submits, nextTask, callbacks, stepDowns, errors, leader>>
  BY ZenonT(30) DEF rest, node
<1>2. th'[t] = x /\ \A u \in Thread : u = t
  BY ZenonT(30) DEF SInv, IInv, ThreadInv, Become, Serial
<1>3. \A u \in Thread : th'[u].pc \in Placing => submits'[th'[u].job] # 0
  BY <1>2
<1>4. \A l \in leases : l.job \in Job /\ l.task # 0
  BY MineSerial, ZenonT(30) DEF SInv, Ids
<1>5. leases' \subseteq leases
  BY Zenon
<1>6. Ids'
  BY <1>1, <1>3, <1>5, ZenonT(30) DEF SInv, Ids
<1>7. Listing(th[t], jobs, revIndex, leases)
  BY MineSerial, ZenonT(30)
<1>8. Listing(x, jobs, revIndex, leases')
  BY <1>5, <1>7, ListingMove, ZenonT(30)
<1>9. \A j \in Job : Waits(j, th[t], jobs) => Waits(j, x, jobs)
  BY WaitsMove, ZenonT(30)
<1>10. ASSUME Agrees(th[t], jobs, queue \cup timers, leases, revIndex)
       PROVE  Agrees(x, jobs, queue \cup timers, leases', revIndex)
  BY <1>4, <1>9, <1>10, AgreesDrop, ZenonT(30)
<1>11. leader' /\ callbacks' = {} => Agrees(x, jobs', queue' \cup timers', leases', revIndex')
  BY <1>1, <1>10, ZenonT(30) DEF SInv, Live
<1>. QED  BY <1>1, <1>6, <1>8, <1>11, SerialStep, ZenonT(30)

\* A report, or the reaper, goes on without the lease.
LEMMA ReleaseStep ==
    ASSUME Serial, SInv, IInv', NEW t \in Thread, NEW pc, NEW x, Become(t, x),
           leases' = {l \in leases : l.task # th[t].task}, UNCHANGED <<jobs, queue, timers, revIndex, rest>>,
           \/ th[t].pc = "release" /\ pc \in {"succeed", "cronOk"}
           \/ th[t].pc = "reclaim" /\ pc = "fail",
           x.pc = pc, x.job = th[t].job, x.rec = th[t].rec, x.list = th[t].list, x.todo = th[t].todo,
           x.work = th[t].work, x.task = 0
    PROVE  SInv'
<1>. DEFINE r == th[t]
<1>1. r.pc \in {"release", "reclaim"} /\ pc \in {"succeed", "cronOk", "fail"}
  OBVIOUS
<1>2. /\ r.pc \in Working /\ r.pc \notin Clearing /\ r.pc \notin {"deps", "ready", "succeeded", "dependents"}
      /\ \A st : InHand(r.pc, st) <=> st = "RUNNING"
  BY <1>1, ZenonT(30) DEF Working, Clearing, InHand, Arming, Leaving
<1>3. r \in Locals /\ r.job \in Job /\ Current(r, jobs) /\ Listing(r, jobs, revIndex, leases)
  BY <1>2, MineSerial, ZenonT(30)
<1>4. /\ x.pc = pc /\ x.job = r.job /\ x.rec = r.rec /\ x.list = r.list /\ x.todo = r.todo /\ x.work = r.work
      /\ x.task = 0
  OBVIOUS
<1>5. /\ pc \notin Placing /\ pc \notin Clearing /\ pc # "promote"
      /\ \A st : InHand(pc, st) <=> st = "RUNNING"
  BY <1>1, ZenonT(30) DEF Placing, Clearing, InHand, Arming, Leaving
<1>6. Current(x, jobs)
  <2>1. CASE r.pc = "release"
    <3>1. jobs[r.job].state = "RUNNING" /\ r.rec = jobs[r.job] /\ r.list = {} /\ r.todo = {}
      BY <2>1, <1>3, ZenonT(30) DEF Current, Reported, Ran
    <3>2. pc \in Ran
      BY <2>1, ZenonT(30) DEF Ran
    <3>. QED  BY <3>1, <3>2, <1>4, CurrentRan, ZenonT(30)
  <2>2. CASE r.pc = "reclaim"
    <3>1. x.pc = "fail" /\ x.pc \notin Reported
      BY <2>2, <1>4 DEF Reported
    <3>. QED  BY <3>1 DEF Current, Polling, Placing, Arming, Ran, Over
  <2>. QED  BY <1>1, <2>1, <2>2, ZenonT(30)
<1>7. r.job \notin Unread(r) /\ \A j \in r.work : j \notin Unread(r)
  BY <1>2, <1>3, ZenonT(30) DEF Listing
<1>8. \A j \in Job : Held(j, r, jobs) <=> Held(j, x, jobs)
  BY <1>2, <1>4, <1>5, ZenonT(30) DEF Held
<1>9. x.list = r.list /\ r.todo \subseteq x.todo /\ (\A j \in x.work : j \notin Unread(r)) /\ x.job \notin Unread(r)
      /\ x.pc \notin Clearing /\ x.pc \notin Placing /\ x.pc # "promote" /\ x.task = 0
  BY <1>4, <1>5, <1>7
<1>. HIDE DEF r
<1>. QED  BY <1>2, <1>6, <1>8, <1>9, DropStep, ZenonT(30) DEF r

LEMMA SerialReportRelease == ASSUME Serial, SInv, IInv', NEW t \in Thread, ReportRelease(t) PROVE SInv'
<1>1. PICK pc : pc = IF th[t].rec.kind = "cron" THEN "cronOk" ELSE "succeed"
  OBVIOUS
<1>2. PICK x : x = [[th[t] EXCEPT !.pc = pc] EXCEPT !.task = 0]
  OBVIOUS
<1>3. /\ th[t].pc = "release" /\ Become(t, x)
      /\ leases' = {l \in leases : l.task # th[t].task} /\ UNCHANGED <<jobs, queue, timers, revIndex, rest>>
  BY <1>1, <1>2, Zenon DEF ReportRelease, removeLease, At, store
<1>4. pc \in {"succeed", "cronOk"}
  BY <1>1
<1>5. /\ x.pc = pc /\ x.job = th[t].job /\ x.rec = th[t].rec /\ x.list = th[t].list /\ x.todo = th[t].todo
      /\ x.work = th[t].work /\ x.task = 0
  BY <1>2, MineSerial DEF Locals
<1>. QED  BY <1>3, <1>4, <1>5, ReleaseStep, ZenonT(30)

LEMMA SerialRequeueRelease == ASSUME Serial, SInv, IInv', NEW t \in Thread, RequeueRelease(t) PROVE SInv'
<1>1. PICK pc : pc = "fail"
  OBVIOUS
<1>2. PICK x : x = [[th[t] EXCEPT !.pc = pc] EXCEPT !.task = 0]
  OBVIOUS
<1>3. /\ th[t].pc = "reclaim" /\ Become(t, x)
      /\ leases' = {l \in leases : l.task # th[t].task} /\ UNCHANGED <<jobs, queue, timers, revIndex, rest>>
  BY <1>1, <1>2, Zenon DEF RequeueRelease, removeLease, At, store
<1>5. /\ x.pc = pc /\ x.job = th[t].job /\ x.rec = th[t].rec /\ x.list = th[t].list /\ x.todo = th[t].todo
      /\ x.work = th[t].work /\ x.task = 0
  BY <1>2, MineSerial DEF Locals
<1>. QED  BY <1>1, <1>3, <1>5, ReleaseStep

LEMMA SerialReportDrop == ASSUME Serial, SInv, IInv', NEW t \in Thread, ReportDrop(t) PROVE SInv'
<1>. DEFINE r == th[t]
            x == [Idle EXCEPT !.task = 0]
<1>1. /\ r.pc = "drop" /\ Become(t, x)
      /\ leases' = {l \in leases : l.task # r.task} /\ UNCHANGED <<jobs, queue, timers, revIndex, rest>>
  BY Zenon DEF ReportDrop, removeLease, At, store
<1>0. [Idle EXCEPT !.task = 0] = Idle
  <2>1. \A s \in Locals : [s EXCEPT !.task = s.task] = s
    BY DEF Locals
  <2>2. Idle \in Locals /\ Idle.task = 0
    BY IdleFine, ZenonT(30) DEF Idle
  <2>. QED  BY <2>1, <2>2, Zenon
<1>2. x = Idle /\ x.pc = "idle" /\ x.list = {} /\ x.task = 0 /\ x.todo = {} /\ x.work = {} /\ x.pc \in Loops
  BY <1>0 DEF Idle, Loops
<1>. HIDE DEF x
<1>3. /\ r.pc \notin Clearing /\ r.pc \notin {"deps", "ready", "succeeded", "dependents"}
      /\ \A st : ~InHand(r.pc, st)
  BY <1>1 DEF Clearing, InHand, Arming, Leaving
<1>4. Current(r, jobs)
  BY MineSerial
<1>5. r.list = {} /\ r.todo = {}
  BY <1>1, <1>4, ZenonT(30) DEF Current
<1>6. Current(x, jobs)
  BY <1>2, LoopCurrent, ZenonT(30)
<1>7. x.pc \notin Clearing /\ x.pc \notin Placing /\ x.pc \notin Working /\ x.pc # "promote" /\ \A st : ~InHand(x.pc, st)
  BY <1>2, LoopPcs, ZenonT(30)
<1>8. \A j \in Job : Held(j, r, jobs) <=> Held(j, x, jobs)
  BY <1>3, <1>7, ZenonT(30) DEF Held
<1>. HIDE DEF r
<1>. QED  BY <1>1, <1>2, <1>3, <1>5, <1>6, <1>7, <1>8, DropStep, ZenonT(30) DEF r

\* A job is written as over.
LEMMA EndStep ==
    ASSUME Serial, SInv, IInv', NEW t \in Thread, NEW pc \in {"succeeded", "failed", "canceled", "cascade dequeue"},
           Forget(t, pc), NEW rec, putJob(th[t].job, rec), Storing,
           terminal(rec.state), rec.state = "SUCCEEDED" => pc = "succeeded",
           th[t].pc \in Ran \cup {"cancel", "cascade cancel"},
           pc = "succeeded" => th[t].pc = "succeed"
    PROVE  SInv'
<1>. DEFINE r == th[t]
            x == [r EXCEPT !.pc = pc, !.rec = Absent]
<1>1. Become(t, x)
  BY ZenonT(30) DEF Forget
<1>2. r.pc \in Working /\ r.pc \notin {"succeeded", "dependents"}
  BY ZenonT(30) DEF Working, Ran
<1>3. r \in Locals /\ r.job \in Job /\ Current(r, jobs) /\ jobs \in [Job -> Record]
  BY <1>2, MineSerial, ZenonT(30)
<1>4. Stays(r, x) /\ x.pc = pc
  BY <1>3, ZenonT(30) DEF Locals, Stays
<1>. HIDE DEF x
<1>5. jobs[r.job].state # "ABSENT"
  BY <1>3, ZenonT(30) DEF Current
<1>. DEFINE J == [jobs EXCEPT ![r.job] = rec]
<1>6. J[x.job] = rec
  BY <1>3, <1>4, ZenonT(30) DEF Stays
<1>. HIDE DEF J
<1>7. x.pc \in Reported => x.list = {} /\ x.todo = {}
  <2>1. r.pc = "succeed" => r.list = {} /\ r.todo = {}
    BY <1>3, ZenonT(30) DEF Current, Reported
  <2>2. x.pc \in Reported => x.pc = "succeeded"
    BY <1>4, ZenonT(30) DEF Reported
  <2>. QED  BY <1>4, <2>1, <2>2, ZenonT(30) DEF Stays
<1>8. Current(x, J)
  <2>1. x.pc \in Over
    BY <1>4, ZenonT(30) DEF Over
  <2>2. rec.state \in {"ABSENT", "SUCCEEDED", "FAILED", "CANCELED"}
    BY ZenonT(30) DEF terminal
  <2>. QED  BY <1>6, <1>7, <2>1, <2>2, CurrentOver, ZenonT(30)
<1>9. Current(x, [jobs EXCEPT ![r.job] = rec])
  BY <1>8, ZenonT(30) DEF J
<1>10. x.pc \in Working /\ x.pc \notin Placing /\ rec.state # "PENDING"
  BY <1>4, ZenonT(30) DEF Working, Placing, terminal
<1>. HIDE DEF r
<1>. QED  BY <1>1, <1>2, <1>4, <1>5, <1>9, <1>10, SaveOn, ZenonT(30) DEF r

LEMMA SerialReportSuccess == ASSUME Serial, SInv, IInv', NEW t \in Thread, ReportSuccess(t) PROVE SInv'
<1>1. PICK rec : rec = [th[t].rec EXCEPT !.state = "SUCCEEDED"]
  BY Zenon
<1>2. th[t].pc = "succeed" /\ Storing /\ putJob(th[t].job, rec) /\ Forget(t, "succeeded")
  BY <1>1, NoErrors, Zenon DEF ReportSuccess, At
<1>3. rec.state = "SUCCEEDED" /\ th[t].pc \in Ran
  BY <1>1, <1>2, MineSerial DEF Locals, Record, Ran
<1>. QED  BY <1>2, <1>3, EndStep, ZenonT(30) DEF terminal

LEMMA SerialFailTerminally == ASSUME Serial, SInv, IInv', NEW t \in Thread, FailTerminally(t) PROVE SInv'
<1>1. PICK rec : rec = [th[t].rec EXCEPT !.state = "FAILED"]
  BY Zenon
<1>2. th[t].pc = "fail terminally" /\ Storing /\ putJob(th[t].job, rec) /\ Forget(t, "failed")
  BY <1>1, NoErrors, Zenon DEF FailTerminally, At, GiveUp
<1>3. rec.state = "FAILED" /\ th[t].pc \in Ran
  BY <1>1, <1>2, MineSerial, ZenonT(30) DEF Locals, Record, Ran
<1>. QED  BY <1>2, <1>3, EndStep, Zenon DEF terminal

LEMMA SerialCancelPut == ASSUME Serial, SInv, IInv', NEW t \in Thread, CancelPut(t) PROVE SInv'
<1>1. PICK rec : rec = [th[t].rec EXCEPT !.state = "CANCELED"]
  BY Zenon
<1>2. th[t].pc = "cancel" /\ Storing /\ putJob(th[t].job, rec) /\ Forget(t, "canceled")
  BY <1>1, NoErrors, Zenon DEF CancelPut, At
<1>3. rec.state = "CANCELED"
  BY <1>1, MineSerial DEF Locals, Record
<1>. QED  BY <1>2, <1>3, EndStep, Zenon DEF terminal

LEMMA SerialCascadePut == ASSUME Serial, SInv, IInv', NEW t \in Thread, CascadePut(t) PROVE SInv'
<1>1. PICK rec : rec = [th[t].rec EXCEPT !.state = "CANCELED"]
  BY Zenon
<1>2. th[t].pc = "cascade cancel" /\ Storing /\ putJob(th[t].job, rec) /\ Forget(t, "cascade dequeue")
  BY <1>1, NoErrors, Zenon DEF CascadePut, At, PutLogged
<1>3. rec.state = "CANCELED"
  BY <1>1, MineSerial DEF Locals, Record
<1>. QED  BY <1>2, <1>3, EndStep, Zenon DEF terminal
=============================================================================
