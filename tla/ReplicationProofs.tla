------------------------- MODULE ReplicationProofs -------------------------
(***************************************************************************)
(* What holds of Replication for any cluster, any finite set of jobs and   *)
(* any bounds.  Whatever the overlaps: types, and that every step of the   *)
(* election it contains is one of Leadership.  With Calm and no failing    *)
(* writes: FollowerHoldsAcknowledged and CaughtUpIsEqual.                  *)
(*                                                                         *)
(* The invariant behind the last two follows a call on its way.  A call of *)
(* a serving leader carries a piece of its log that begins where the peer  *)
(* has acknowledged; while it is applied, the peer holds each key as of    *)
(* some position that is not before the entry being applied; and what an   *)
(* earlier leader still applies on the peer ends before any of it begins.  *)
(***************************************************************************)
EXTENDS Replication, TLAPS

-----------------------------------------------------------------------------
(* Logs.                                                                   *)

\* What the last of some entries says.
Newest(entries, at) ==
    IF at = {} THEN 0 ELSE entries[CHOOSE i \in at : \A l \in at : l <= i].val

\* After, in the terms of the newest position.
LEMMA AfterIsNewest ==
    \A x, j, k : After(x, j, k) = Newest(x, {i \in 1 .. j : x[i].key = k})
BY Zenon DEF After, Newest

\* No entry, no contents.
LEMMA AfterNothing ==
    ASSUME NEW entries, NEW k
    PROVE  After(entries, 0, k) = 0
<1>1. {i \in 1 .. 0 : entries[i].key = k} = {}
  OBVIOUS
<1> QED
  BY <1>1 DEF After

\* One more entry: its key has its contents, the others are as before.
LEMMA AfterNext ==
    ASSUME NEW x, NEW j \in Nat, NEW k
    PROVE  After(x, j + 1, k) = IF x[j + 1].key = k THEN x[j + 1].val ELSE After(x, j, k)
<1> DEFINE at == {i \in 1 .. j : x[i].key = k}
           next == {i \in 1 .. j + 1 : x[i].key = k}
<1>1. CASE x[j + 1].key = k
  <2>1. j + 1 \in next /\ \A l \in next : l <= j + 1
    BY <1>1
  <2> DEFINE m == CHOOSE i \in next : \A l \in next : l <= i
  <2>2. m \in next /\ \A l \in next : l <= m
    BY <2>1
  <2>3. m = j + 1
    BY <2>1, <2>2
  <2> QED
    BY <1>1, <2>1, <2>3 DEF After
<1>2. CASE x[j + 1].key # k
  <2>1. next = at
    BY <1>2
  <2> QED
    BY <1>2, <2>1, AfterIsNewest, Zenon
<1> QED
  BY <1>1, <1>2

\* The end of a log, from a position on.
LEMMA Rest ==
    ASSUME NEW x \in Seq(ReplicationEntry), NEW a \in Nat, a <= Len(x),
           NEW rest, rest = SubSeq(x, a + 1, Len(x))
    PROVE  /\ a + Len(rest) <= Len(x)
           /\ \A i \in 1 .. Len(rest) : rest[i] = x[a + i]
<1>1. Len(rest) = Len(x) - a
  OBVIOUS
<1>2. \A i \in 1 .. Len(x) - a : rest[i] = x[a + i]
  OBVIOUS
<1> QED
  BY <1>1, <1>2

\* The positions of a piece of a log.
LEMMA Within ==
    ASSUME NEW a \in Nat, NEW l \in Nat, NEW m \in Nat, a + l <= m
    PROVE  a + l <= m + 1 /\ \A i \in 1 .. l : a + i \in 1 .. m
OBVIOUS

-----------------------------------------------------------------------------
(* Types.                                                                  *)

\* The terms of a loop and of the calls are terms; nobody calls itself.
CallTyped(c) ==
    /\ c \in Call /\ c.term \in 0 .. MaxTerm /\ c.current \in 0 .. MaxTerm /\ c.from # c.to
    /\ c.k \in 1 .. Len(c.entries) + 1

TypeInv ==
    /\ term \in [Node -> 0 .. MaxTerm]
    /\ leads \in [Node -> BOOLEAN]
    /\ won \subseteq (Node \X (0 .. MaxTerm))
    /\ store \in [Node -> Contents]
    /\ replLog \in [Node -> Seq(ReplicationEntry)]
    /\ peerAcked \in [Node -> [Node -> Nat]]
    /\ seeding \in [Node -> Seeding]
    /\ puts \subseteq Put
    /\ loop \in [Node -> Loop]
    /\ \A n \in Node : n \notin loop[n].left /\ loop[n].term \in 0 .. MaxTerm
    /\ \A c \in calls : CallTyped(c)
    /\ writes \in Nat /\ faults \in Nat /\ errors \in Nat

ElectionTyped ==
    /\ term \in [Node -> 0 .. MaxTerm]
    /\ leads \in [Node -> BOOLEAN]
    /\ won \subseteq (Node \X (0 .. MaxTerm))

\* The fields of a handler that has moved on.
LEMMA PutEdited ==
    ASSUME NEW h \in Put, NEW pc \in {"admitted", "stored", "leading"}
    PROVE  LET g == [h EXCEPT !.pc = pc] IN
           g \in Put /\ g.node = h.node /\ g.key = h.key /\ g.val = h.val /\ g.pc = pc
BY DEF Put

\* The numbers of a node.
LEMMA Shapes ==
    ASSUME TypeInv, NEW n \in Node
    PROVE  /\ term[n] \in 0 .. MaxTerm /\ term[n] \in Nat
           /\ Len(replLog[n]) \in Nat /\ \A p \in Node : peerAcked[n][p] \in Nat
BY ReplicationAssumption DEF TypeInv

\* The length of a log is a number.
LEMMA LogLength ==
    ASSUME NEW f \in [Node -> Seq(ReplicationEntry)], NEW n \in Node
    PROVE  Len(f[n]) \in Nat
OBVIOUS

\* A loop that is quiet does not send.
LEMMA QuietSends == Quiet.pc = "idle" /\ Quiet.pc # "sending" /\ Quiet.pc # "checked"
BY DEF Quiet

\* The invariant of the types gives the types.
LEMMA TypeInvImplies == TypeInv => TypeOK
BY DEF TypeInv, TypeOK, CallTyped, Election!TypeOK

\* d is the request of c, wherever its handling is.
SameRequest(d, c) ==
    /\ d.from = c.from /\ d.to = c.to /\ d.term = c.term
    /\ d.base = c.base /\ d.entries = c.entries

\* A call in another state is the same request;
LEMMA Edited ==
    ASSUME NEW c \in Call, NEW s \in {"sent", "applying", "ok", "refused", "failed"}
    PROVE  LET d == [c EXCEPT !.state = s] IN
           /\ d \in Call /\ SameRequest(d, c)
           /\ d.state = s /\ d.k = c.k /\ d.current = c.current /\ d.waited = c.waited
BY DEF Call, SameRequest

\* so it is when it is refused,
LEMMA EditedRefused ==
    ASSUME NEW c \in Call, NEW t \in Nat
    PROVE  LET d == [c EXCEPT !.state = "refused", !.current = t] IN
           /\ d \in Call /\ SameRequest(d, c)
           /\ d.state = "refused" /\ d.k = c.k /\ d.current = t /\ d.waited = c.waited
BY Zenon DEF Call, SameRequest

\* when an entry of it has been applied,
LEMMA EditedNext ==
    ASSUME NEW c \in Call
    PROVE  LET d == [c EXCEPT !.k = @ + 1] IN
           /\ d \in Call /\ SameRequest(d, c)
           /\ d.state = c.state /\ d.k = c.k + 1 /\ d.current = c.current /\ d.waited = c.waited
BY DEF Call, SameRequest

\* and when its caller no longer waits.
LEMMA EditedOrphan ==
    ASSUME NEW c \in Call
    PROVE  LET d == [c EXCEPT !.waited = FALSE] IN
           /\ d \in Call /\ SameRequest(d, c)
           /\ d.state = c.state /\ d.k = c.k /\ d.current = c.current /\ d.waited = FALSE
BY Zenon DEF Call, SameRequest

\* What a step may do to the election: nothing, or a step of Leadership.
LEMMA AdoptTyped ==
    ASSUME TypeInv, NEW n \in Node, NEW t \in 0 .. MaxTerm, Election!Adopt(n, t)
    PROVE  ElectionTyped'
BY DEF TypeInv, ElectionTyped, Election!Adopt

\* Types: elections, and the list of seedReplication.
LEMMA LeadingTyped ==
    ASSUME TypeInv, NEW n \in Node, Win(n) \/ VoteRequested(n) \/ SeedList(n)
    PROVE  TypeInv'
<1> USE DEF TypeInv
<1>1. CASE Win(n)
  <2>1. seeding' \in [Node -> Seeding]
    BY <1>1, ZenonT(30) DEF Win, Seeding
  <2>2. ElectionTyped'
    BY <1>1, ReplicationAssumption DEF Win, ElectionTyped, Election!Win
  <2>3. UNCHANGED <<store, replLog, peerAcked, puts, loop, calls, writes, faults, errors>>
    BY <1>1 DEF Win, log, bounds
  <2> QED
    BY <2>1, <2>2, <2>3, Zenon DEF ElectionTyped
<1>2. CASE VoteRequested(n)
  <2>1. ElectionTyped'
    <3>1. \A t \in 1 .. MaxTerm : t \in 0 .. MaxTerm
      BY ReplicationAssumption
    <3> QED
      BY <1>2, <3>1, AdoptTyped, Zenon DEF VoteRequested
  <2>2. UNCHANGED <<store, replLog, peerAcked, seeding, puts, loop, calls, writes, faults, errors>>
    BY <1>2 DEF VoteRequested, log, bounds
  <2> QED
    BY <2>1, <2>2, Zenon DEF ElectionTyped
<1>3. CASE SeedList(n)
  <2>1. seeding' \in [Node -> Seeding]
    BY <1>3 DEF SeedList, Seeding
  <2>2. UNCHANGED <<term, leads, won, store, replLog, peerAcked, puts, loop, calls, writes, faults, errors>>
    BY <1>3, Zenon DEF SeedList, election, log, bounds
  <2> QED
    BY <2>1, <2>2, Zenon DEF ElectionTyped
<1> QED
  BY <1>1, <1>2, <1>3

\* Types: putJob and putWorker.
LEMMA StoringTyped ==
    ASSUME TypeInv, NEW h \in puts, Storing(h)
    PROVE  TypeInv'
<1> USE DEF TypeInv
<1>0. h \in Put
  OBVIOUS
<1>1. CASE StorePut(h)
  <2>1. store' \in [Node -> Contents]
    BY <1>0, <1>1 DEF StorePut, Put, Contents
  <2>2. puts' \subseteq Put
    <3>1. [h EXCEPT !.pc = "stored"] \in Put
      BY <1>0, PutEdited, Zenon
    <3> QED
      BY <1>1, <3>1, Zenon DEF StorePut, Moves
  <2>3. UNCHANGED <<term, leads, won, replLog, peerAcked, seeding, loop, calls, writes, faults, errors>>
    BY <1>1 DEF StorePut, election, log, bounds
  <2> QED
    BY <2>1, <2>2, <2>3, Zenon DEF ElectionTyped
<1>2. CASE CheckLeader(h)
  <2>1. puts' \subseteq Put
    <3>1. [h EXCEPT !.pc = "leading"] \in Put
      BY <1>0, PutEdited, Zenon
    <3> QED
      BY <1>2, <3>1, Zenon DEF CheckLeader, Moves
  <2>2. UNCHANGED <<term, leads, won, store, replLog, peerAcked, seeding, loop, calls, writes, faults, errors>>
    BY <1>2 DEF CheckLeader, election, log, bounds
  <2> QED
    BY <2>1, <2>2, Zenon DEF ElectionTyped
<1>3. CASE appendRepl(h)
  <2>1. replLog' \in [Node -> Seq(ReplicationEntry)]
    <3>1. [key |-> h.key, val |-> h.val] \in ReplicationEntry /\ h.node \in Node
      BY <1>0 DEF Put, ReplicationEntry
    <3> QED
      BY <1>3, <3>1 DEF appendRepl, Appended
  <2>2. puts' \subseteq Put
    BY <1>3 DEF appendRepl
  <2>3. UNCHANGED <<term, leads, won, store, peerAcked, seeding, loop, calls, writes, faults, errors>>
    BY <1>3 DEF appendRepl, election, bounds
  <2> QED
    BY <2>1, <2>2, <2>3, Zenon DEF ElectionTyped
<1> QED
  BY <1>1, <1>2, <1>3, Zenon DEF Storing

\* Types: a handler is admitted.
LEMMA AdmitTyped ==
    ASSUME TypeInv, NEW n \in Node, NEW k \in Key, Admit(n, k)
    PROVE  TypeInv'
<1> USE DEF TypeInv
<1>1. puts' \subseteq Put /\ writes' \in Nat
  BY DEF Admit, Put
<1>2. UNCHANGED <<term, leads, won, store, replLog, peerAcked, seeding, loop, calls, faults, errors>>
  BY DEF Admit, election, log
<1> QED
  BY <1>1, <1>2, Zenon

\* The request a leader sends.
Request(n, p) ==
    [from |-> n, to |-> p, term |-> loop[n].term, base |-> peerAcked[n][p],
     entries |-> SubSeq(replLog[n], peerAcked[n][p] + 1, Len(replLog[n])),
     state |-> "sent", k |-> 1, current |-> 0, waited |-> TRUE]

\* Types: the replication loop.
LEMMA ShippingTyped ==
    ASSUME TypeInv, NEW n \in Node, Shipping(n)
    PROVE  TypeInv'
<1> USE DEF TypeInv
<1>1. CASE Tick(n)
  <2>1. loop' = [loop EXCEPT ![n].pc = "checked"]
    BY <1>1 DEF Tick
  <2>2. /\ loop' \in [Node -> Loop]
        /\ \A m \in Node : loop'[m].left = loop[m].left /\ loop'[m].term = loop[m].term
    BY ONLY <2>1, loop \in [Node -> Loop] DEF Loop
  <2>3. UNCHANGED <<term, leads, won, store, replLog, peerAcked, seeding, puts, calls, writes, faults, errors>>
    BY <1>1 DEF Tick, election, log, bounds
  <2> QED
    BY <2>2, <2>3, Zenon
<1>2. CASE ReadTerm(n)
  <2>1. term[n] \in 0 .. MaxTerm /\ term[n] \in Nat
    BY ReplicationAssumption
  <2>2. loop' = [loop EXCEPT ![n] = [pc |-> "sending", term |-> term[n], left |-> Node \ {n}]]
    BY <1>2 DEF ReadTerm
  <2>3. loop' \in [Node -> Loop]
    BY <2>1, <2>2 DEF Loop
  <2>4. \A m \in Node : m \notin loop'[m].left /\ loop'[m].term \in 0 .. MaxTerm
    BY <2>1, <2>2
  <2>5. UNCHANGED <<term, leads, won, store, replLog, peerAcked, seeding, puts, calls, writes, faults, errors>>
    BY <1>2 DEF ReadTerm, election, log, bounds
  <2> QED
    BY <2>3, <2>4, <2>5, Zenon
<1>3. ASSUME NEW p \in Node, Ship(n, p) PROVE TypeInv'
  <2>1. loop' = [loop EXCEPT ![n].left = @ \ {p}] /\ p \in loop[n].left
    BY <1>3 DEF Ship
  <2>2. /\ loop' \in [Node -> Loop]
        /\ \A m \in Node : loop'[m].left \subseteq loop[m].left /\ loop'[m].term = loop[m].term
    BY ONLY <2>1, loop \in [Node -> Loop] DEF Loop
  <2>3. calls' = calls \cup {Request(n, p)}
    BY <1>3 DEF Ship, Request
  <2>4. p # n
    BY <2>1
  <2>5. CallTyped(Request(n, p))
    <3>1. loop[n].term \in 0 .. MaxTerm /\ loop[n].term \in Nat /\ 0 \in 0 .. MaxTerm
      BY ReplicationAssumption DEF Loop
    <3>2. peerAcked[n][p] \in Nat
      OBVIOUS
    <3>3. SubSeq(replLog[n], peerAcked[n][p] + 1, Len(replLog[n])) \in Seq(ReplicationEntry)
      BY <3>2
    <3> QED
      BY <2>4, <3>1, <3>2, <3>3 DEF CallTyped, Request, Call
  <2>6. UNCHANGED <<term, leads, won, store, replLog, peerAcked, seeding, puts, writes, faults, errors>>
    BY <1>3 DEF Ship, election, log, bounds
  <2>7. \A c \in calls' : CallTyped(c)
    BY <2>3, <2>5, Zenon
  <2> QED
    BY <2>2, <2>6, <2>7, Zenon
<1> QED
  BY <1>1, <1>2, <1>3, Zenon DEF Shipping

\* A write to a store.
LEMMA Written ==
    ASSUME NEW s \in [Node -> Contents], NEW n \in Node, NEW k \in Key, NEW v \in Nat
    PROVE  LET w == [s EXCEPT ![n][k] = v] IN
           /\ w \in [Node -> Contents]
           /\ w[n][k] = v
           /\ \A l \in Key : l # k => w[n][l] = s[n][l]
           /\ \A m \in Node : m # n => w[m] = s[m]
BY DEF Contents

\* A call keeps its type when its request stays.
LEMMA StillTyped ==
    ASSUME NEW c, CallTyped(c), NEW d \in Call, SameRequest(d, c), d.current \in 0 .. MaxTerm,
           d.k \in 1 .. Len(c.entries) + 1
    PROVE  CallTyped(d)
BY DEF CallTyped, SameRequest

\* Types: the Replicate handler.
LEMMA HandlingTyped ==
    ASSUME TypeInv, NEW c \in calls, Handling(c)
    PROVE  TypeInv'
<1>0. /\ CallTyped(c) /\ c \in Call /\ c.to \in Node /\ c.term \in 0 .. MaxTerm
      /\ c.current \in 0 .. MaxTerm /\ c.k \in 1 .. Len(c.entries) + 1
  BY DEF TypeInv, CallTyped, Call
<1>1. CASE Accept(c)
  <2> DEFINE d == [c EXCEPT !.state = "applying"]
  <2>1. CallTyped(d)
    BY <1>0, Edited, StillTyped, Zenon
  <2>2. ElectionTyped'
    <3>1. CASE c.term > term[c.to]
      BY <1>0, <1>1, <3>1, AdoptTyped DEF Accept, ObserveLeader
    <3>2. CASE ~(c.term > term[c.to])
      BY <1>1, <3>2 DEF Accept, ObserveLeader, election, ElectionTyped, TypeInv
    <3> QED
      BY <3>1, <3>2
  <2>3. calls' = (calls \ {c}) \cup {d}
    BY <1>1 DEF Accept
  <2> HIDE DEF d
  <2>4. UNCHANGED <<store, replLog, peerAcked, seeding, puts, loop, writes, faults, errors>>
    BY <1>1 DEF Accept, log, bounds
  <2> QED
    BY <2>1, <2>2, <2>3, <2>4, Zenon DEF TypeInv, ElectionTyped
<1>2. CASE Refuse(c)
  <2> DEFINE d == [c EXCEPT !.state = "refused", !.current = term[c.to]]
  <2>1. CallTyped(d)
    <3>1. term[c.to] \in 0 .. MaxTerm /\ term[c.to] \in Nat
      BY <1>0, ReplicationAssumption DEF TypeInv
    <3> QED
      BY <1>0, <3>1, EditedRefused, StillTyped, ZenonT(30)
  <2>2. calls' \subseteq calls \cup {d}
    BY <1>2 DEF Refuse, Reply
  <2> HIDE DEF d
  <2>3. UNCHANGED <<term, leads, won, store, replLog, peerAcked, seeding, puts, loop, writes, faults, errors>>
    BY <1>2 DEF Refuse, election, log, bounds
  <2> QED
    BY <2>1, <2>2, <2>3, Zenon DEF TypeInv
<1>3. CASE ApplyEntry(c)
  <2> DEFINE d == [c EXCEPT !.k = @ + 1]
  <2>1. CallTyped(d)
    <3>1. c.k + 1 \in 1 .. Len(c.entries) + 1
      BY <1>0, <1>3 DEF ApplyEntry, Call
    <3> QED
      BY <1>0, <3>1, EditedNext, StillTyped, Zenon
  <2>2. calls' = (calls \ {c}) \cup {d}
    BY <1>3 DEF ApplyEntry
  <2> HIDE DEF d
  <2>3. errors' \in Nat
    BY <1>3 DEF ApplyEntry, TypeInv
  <2>4. store' \in [Node -> Contents]
    <3>0. store \in [Node -> Contents]
      BY DEF TypeInv
    <3>1. c.entries[c.k].key \in Key /\ c.entries[c.k].val \in Nat
      <4>1. c.entries \in Seq(ReplicationEntry) /\ c.k \in 1 .. Len(c.entries)
        BY <1>0, <1>3 DEF ApplyEntry, Call
      <4>2. c.entries[c.k] \in ReplicationEntry
        BY <4>1
      <4> QED
        BY <4>2 DEF ReplicationEntry
    <3>2. \/ UNCHANGED store
          \/ store' = [store EXCEPT ![c.to][c.entries[c.k].key] = c.entries[c.k].val]
      BY <1>3, Zenon DEF ApplyEntry
    <3> QED
      BY <1>0, <3>0, <3>1, <3>2, Written
  <2>5. UNCHANGED <<term, leads, won, replLog, peerAcked, seeding, puts, loop, writes, faults>>
    BY <1>3 DEF ApplyEntry, election, log
  <2> QED
    BY <2>1, <2>2, <2>3, <2>4, <2>5, Zenon DEF TypeInv
<1>4. CASE Applied(c)
  <2> DEFINE d == [c EXCEPT !.state = "ok"]
  <2>1. CallTyped(d)
    BY <1>0, Edited, StillTyped, Zenon
  <2>2. calls' \subseteq calls \cup {d}
    BY <1>4 DEF Applied, Reply
  <2> HIDE DEF d
  <2>3. UNCHANGED <<term, leads, won, store, replLog, peerAcked, seeding, puts, loop, writes, faults, errors>>
    BY <1>4 DEF Applied, election, log, bounds
  <2> QED
    BY <2>1, <2>2, <2>3, Zenon DEF TypeInv
<1> QED
  BY <1>1, <1>2, <1>3, <1>4 DEF Handling

\* The loop goes on, or waits.
LEMMA AdvanceFacts ==
    ASSUME TypeInv, NEW n \in Node, Advance(n)
    PROVE  /\ loop' \in [Node -> Loop]
           /\ \A m \in Node : loop'[m] = loop[m] \/ (m = n /\ loop'[m] = Quiet)
           /\ \A m \in Node : m \notin loop'[m].left /\ loop'[m].term \in 0 .. MaxTerm
<1>1. Quiet \in Loop /\ Quiet.left = {} /\ Quiet.term = 0 /\ 0 \in 0 .. MaxTerm
  BY ReplicationAssumption DEF Quiet, Loop
<1>2. loop' = [loop EXCEPT ![n] = IF loop[n].left = {} THEN Quiet ELSE loop[n]]
  BY DEF Advance
<1>3. loop \in [Node -> Loop]
  BY DEF TypeInv
<1>4. loop' \in [Node -> Loop]
      /\ \A m \in Node : loop'[m] = loop[m] \/ (m = n /\ loop'[m] = Quiet)
  BY ONLY <1>1, <1>2, <1>3, n \in Node
<1> QED
  BY <1>1, <1>4, Zenon DEF TypeInv

\* Types: answers and timeouts.
LEMMA AnsweredTyped ==
    ASSUME TypeInv, NEW c \in calls, Answered(c) \/ Timeout(c)
    PROVE  TypeInv'
<1>0. /\ CallTyped(c) /\ c \in Call /\ c.from \in Node /\ c.to \in Node
      /\ c.current \in 0 .. MaxTerm /\ c.k \in 1 .. Len(c.entries) + 1
  BY DEF TypeInv, CallTyped, Call
<1>1. Advance(c.from)
  BY DEF Answered, Timeout
<1>2. /\ loop' \in [Node -> Loop]
      /\ \A m \in Node : m \notin loop'[m].left /\ loop'[m].term \in 0 .. MaxTerm
  BY <1>0, <1>1, AdvanceFacts
<1>3. CASE Answered(c)
  <2>1. peerAcked' \in [Node -> [Node -> Nat]]
    <3>1. CASE ackPeer(c.from, c.to, AppliedThrough(c))
      <4>1. AppliedThrough(c) \in Nat
        BY <1>0 DEF AppliedThrough, Call
      <4>2. peerAcked \in [Node -> [Node -> Nat]]
        BY DEF TypeInv
      <4> QED
        BY <1>0, <3>1, <4>1, <4>2, Zenon DEF ackPeer
    <3>2. CASE UNCHANGED peerAcked
      BY <3>2 DEF TypeInv
    <3> QED
      BY <1>3, <3>1, <3>2, Zenon DEF Answered
  <2>2. ElectionTyped'
    <3>1. CASE Election!Adopt(c.from, c.current)
      BY <1>0, <3>1, AdoptTyped
    <3>2. CASE UNCHANGED election
      BY <3>2 DEF election, ElectionTyped, TypeInv
    <3> QED
      BY <1>3, <3>1, <3>2, Zenon DEF Answered
  <2>3. UNCHANGED <<store, replLog, seeding, puts, writes, faults, errors>> /\ calls' = calls \ {c}
    BY <1>3 DEF Answered, bounds
  <2> QED
    BY <1>2, <2>1, <2>2, <2>3, Zenon DEF TypeInv, ElectionTyped
<1>4. CASE Timeout(c)
  <2> DEFINE d == [c EXCEPT !.waited = FALSE]
  <2>1. CallTyped(d)
    BY <1>0, EditedOrphan, StillTyped, Zenon
  <2>2. calls' \subseteq calls \cup {d}
    BY <1>4 DEF Timeout
  <2> HIDE DEF d
  <2>3. faults' \in Nat
    BY <1>4 DEF Timeout, TypeInv
  <2>4. UNCHANGED <<term, leads, won, store, replLog, peerAcked, seeding, puts, writes, errors>>
    BY <1>4 DEF Timeout, election, log
  <2> QED
    BY <1>2, <2>1, <2>2, <2>3, <2>4, Zenon DEF TypeInv
<1> QED
  BY <1>3, <1>4

\* What a crash of n does to the calls.
LEMMA CrashCalls ==
    ASSUME TypeInv, NEW n \in Node, Crash(n), NEW d, d \in calls'
    PROVE  \/ d \in calls /\ d.from # n /\ ~(d.to = n /\ d.state = "applying")
           \/ \E c \in calls : /\ c.from = n /\ d = [c EXCEPT !.waited = FALSE] /\ c.to # n
                               /\ c.state = "applying" \/ (~Calm /\ c.state = "sent")
           \/ \E c \in calls : /\ c.from # n /\ d = [c EXCEPT !.state = "failed"]
                               /\ c.to = n /\ c.state = "applying"
<1> DEFINE own == {c \in calls : c.from = n}
           died == {c \in calls : c.to = n /\ c.state = "applying"}
           left == {c \in own \ died : c.state = "applying" \/ (~Calm /\ c.state = "sent")}
<1>0. \A c \in calls : c.from # c.to
  BY DEF TypeInv, CallTyped
<1>1. calls' = (calls \ (own \cup died))
                    \cup {[c EXCEPT !.waited = FALSE] : c \in left}
                    \cup {[c EXCEPT !.state = "failed"] : c \in {e \in died \ own : e.waited}}
  BY DEF Crash, Applying
<1>2. CASE d \in calls \ (own \cup died)
  BY <1>2
<1>3. CASE d \in {[c EXCEPT !.waited = FALSE] : c \in left}
  <2>1. PICK c \in left : d = [c EXCEPT !.waited = FALSE]
    BY <1>3, Zenon
  <2> QED
    BY <1>0, <2>1, Zenon
<1>4. CASE d \in {[c EXCEPT !.state = "failed"] : c \in {e \in died \ own : e.waited}}
  BY <1>4, Zenon
<1> QED
  BY <1>1, <1>2, <1>3, <1>4, Zenon

\* Types: a crash.
LEMMA CrashTyped ==
    ASSUME TypeInv, NEW n \in Node, Crash(n)
    PROVE  TypeInv'
<1>1. ElectionTyped'
  BY Zenon DEF Crash, Election!Lose, election, TypeInv, ElectionTyped
<1>2. replLog' \in [Node -> Seq(ReplicationEntry)] /\ peerAcked' \in [Node -> [Node -> Nat]]
  BY DEF Crash, TypeInv
<1>3. seeding' \in [Node -> Seeding] /\ puts' \subseteq Put /\ faults' \in Nat
  BY DEF Crash, TypeInv, Seeding, NotSeeding, Nothing, Contents
<1>4. /\ loop' \in [Node -> Loop]
      /\ \A m \in Node : m \notin loop'[m].left /\ loop'[m].term \in 0 .. MaxTerm
  <2>1. Quiet \in Loop /\ Quiet.left = {} /\ Quiet.term = 0 /\ 0 \in 0 .. MaxTerm
    BY ReplicationAssumption DEF Quiet, Loop
  <2>2. loop' = [loop EXCEPT ![n] = Quiet]
    BY DEF Crash
  <2> QED
    BY <2>1, <2>2 DEF TypeInv
<1>5. ASSUME NEW d \in calls' PROVE CallTyped(d)
  <2>1. CASE d \in calls
    BY <2>1 DEF TypeInv
  <2>2. CASE \E c \in calls : d = [c EXCEPT !.waited = FALSE]
    <3>1. PICK c \in calls : d = [c EXCEPT !.waited = FALSE]
      BY <2>2, Zenon
    <3>2. CallTyped(c) /\ c \in Call /\ c.current \in 0 .. MaxTerm /\ c.k \in 1 .. Len(c.entries) + 1
      BY DEF TypeInv, CallTyped
    <3> QED
      BY <3>1, <3>2, EditedOrphan, StillTyped, Zenon
  <2>3. CASE \E c \in calls : d = [c EXCEPT !.state = "failed"]
    <3>1. PICK c \in calls : d = [c EXCEPT !.state = "failed"]
      BY <2>3
    <3>2. CallTyped(c) /\ c \in Call /\ c.current \in 0 .. MaxTerm /\ c.k \in 1 .. Len(c.entries) + 1
      BY DEF TypeInv, CallTyped
    <3> QED
      BY <3>1, <3>2, Edited, StillTyped, Zenon
  <2>4. \/ d \in calls
        \/ \E c \in calls : d = [c EXCEPT !.waited = FALSE]
        \/ \E c \in calls : d = [c EXCEPT !.state = "failed"]
    BY CrashCalls
  <2> QED
    BY <2>1, <2>2, <2>3, <2>4, Zenon
<1>6. UNCHANGED <<store, writes, errors>>
  BY DEF Crash
<1> QED
  BY <1>1, <1>2, <1>3, <1>4, <1>5, <1>6, Zenon DEF TypeInv, ElectionTyped

\* Types: the start.
LEMMA TypeStart == Init => TypeInv
<1> SUFFICES ASSUME Init PROVE TypeInv
  BY Zenon
<1>1. Quiet \in Loop /\ Quiet.left = {} /\ Quiet.term = 0 /\ 0 \in 0 .. MaxTerm
  BY ReplicationAssumption DEF Quiet, Loop
<1>2. NotSeeding \in Seeding /\ Nothing \in Contents
  BY DEF NotSeeding, Seeding, Nothing, Contents
<1> QED
  BY <1>1, <1>2 DEF Init, Election!Init, TypeInv

-----------------------------------------------------------------------------
(* The election inside.                                                    *)

\* A step of the election: a node that does not lead wins, or one is deposed or dies.
Wins(n) == ~leads[n] /\ \E t \in 1 .. MaxTerm : Election!Win(n, t)

Adopts(n) == \E t \in 0 .. MaxTerm : Election!Adopt(n, t)

ElectionMoves == \E n \in Node : Wins(n) \/ Adopts(n) \/ Election!Lose(n)

\* What every step does to terms and leadership is a step of the election, or nothing.
LEMMA EveryStepElects ==
    ASSUME TypeInv, Next
    PROVE  ElectionMoves \/ UNCHANGED election
<1> USE DEF ElectionMoves, Wins, Adopts
<1>1. ASSUME NEW n \in Node, Leading(n) PROVE ElectionMoves \/ UNCHANGED election
  <2>1. \A t \in 1 .. MaxTerm : t \in 0 .. MaxTerm
    BY ReplicationAssumption
  <2> QED
    BY <1>1, <2>1, Zenon DEF Leading, Win, VoteRequested, SeedList, SeedReset
<1>2. ASSUME NEW n \in Node, Shipping(n) PROVE UNCHANGED election
  BY <1>2, Zenon DEF Shipping, Tick, ReadTerm, Ship
<1>3. ASSUME NEW n \in Node, Crash(n) PROVE ElectionMoves \/ UNCHANGED election
  BY <1>3, Zenon DEF Crash
<1>4. ASSUME NEW n \in Node, NEW k \in Key, Admit(n, k) PROVE UNCHANGED election
  BY <1>4, Zenon DEF Admit
<1>5. ASSUME NEW h \in puts, Storing(h) PROVE UNCHANGED election
  BY <1>5, Zenon DEF Storing, StorePut, CheckLeader, appendRepl
<1>6. ASSUME NEW c \in calls, Handling(c) \/ Answered(c) \/ Timeout(c)
      PROVE  ElectionMoves \/ UNCHANGED election
  <2>1. c.to \in Node /\ c.from \in Node /\ c.term \in 0 .. MaxTerm /\ c.current \in 0 .. MaxTerm
    BY DEF TypeInv, CallTyped, Call
  <2> QED
    BY <1>6, <2>1, Zenon DEF Handling, Accept, ObserveLeader, Refuse, ApplyEntry, Applied, Answered, Timeout
<1> QED
  BY <1>1, <1>2, <1>3, <1>4, <1>5, <1>6, Zenon DEF Next

\* A leader has won its term, and nobody else has.
OfficeInv ==
    /\ \A n \in Node : leads[n] => <<n, term[n]>> \in won
    /\ \A n, m \in Node, t \in 0 .. MaxTerm : <<n, t>> \in won /\ <<m, t>> \in won => n = m

\* Every step of the election keeps that; terms do not fall, and an office is kept with its term.
LEMMA OfficeStep ==
    ASSUME TypeInv, OfficeInv, ElectionMoves \/ UNCHANGED election
    PROVE  /\ OfficeInv'
           /\ won \subseteq won'
           /\ \A m \in Node : term[m] <= term'[m]
           /\ \A m \in Node : leads[m] /\ leads'[m] => term'[m] = term[m]
<1>0. term \in [Node -> 0 .. MaxTerm] /\ leads \in [Node -> BOOLEAN] /\ \A m \in Node : term[m] \in Int
  BY ReplicationAssumption DEF TypeInv
<1>1. CASE UNCHANGED election
  BY <1>0, <1>1 DEF election, OfficeInv
<1>2. ASSUME NEW n \in Node, NEW t \in 1 .. MaxTerm, ~leads[n], Election!Win(n, t)
      PROVE  /\ OfficeInv'
             /\ won \subseteq won'
             /\ \A m \in Node : term[m] <= term'[m]
             /\ \A m \in Node : leads[m] /\ leads'[m] => term'[m] = term[m]
  <2>1. /\ t >= term[n] /\ \A m \in Node : <<m, t>> \notin won
        /\ term' = [term EXCEPT ![n] = t] /\ leads' = [leads EXCEPT ![n] = TRUE]
        /\ won' = won \cup {<<n, t>>}
    BY <1>2 DEF Election!Win
  <2> QED
    BY <1>0, <1>2, <2>1 DEF OfficeInv
<1>3. ASSUME NEW n \in Node, NEW t \in 0 .. MaxTerm, Election!Adopt(n, t)
      PROVE  /\ OfficeInv'
             /\ won \subseteq won'
             /\ \A m \in Node : term[m] <= term'[m]
             /\ \A m \in Node : leads[m] /\ leads'[m] => term'[m] = term[m]
  BY <1>0, <1>3 DEF OfficeInv, Election!Adopt
<1>4. ASSUME NEW n \in Node, Election!Lose(n)
      PROVE  /\ OfficeInv'
             /\ won \subseteq won'
             /\ \A m \in Node : term[m] <= term'[m]
             /\ \A m \in Node : leads[m] /\ leads'[m] => term'[m] = term[m]
  BY <1>0, <1>4 DEF OfficeInv, Election!Lose
<1> QED
  BY <1>1, <1>2, <1>3, <1>4, Zenon DEF ElectionMoves, Wins, Adopts

\* Two leaders are in different terms.
LEMMA OneLeader ==
    ASSUME TypeInv, OfficeInv, NEW n \in Node, NEW m \in Node,
           leads[n], leads[m], term[n] = term[m]
    PROVE  n = m
BY Zenon DEF OfficeInv, TypeInv

-----------------------------------------------------------------------------
(* The invariant.                                                          *)

\* The hypotheses of the run: none of the overlaps, no failing writes on followers.
Undisturbed == Calm /\ MaxErrors = 0

\* A loop works for an office its node has won.
LoopInv ==
    \A n \in Node : /\ loop[n].pc = "checked" => leads[n]
                    /\ loop[n].pc = "sending" => <<n, loop[n].term>> \in won

\* So does a call; a leader applies none; a loop waits for one call, a follower applies one.
CallInv ==
    /\ \A c \in calls : <<c.from, c.term>> \in won
    /\ \A c \in calls : c.state = "applying" => ~leads[c.to]
    /\ \A c \in calls : c.state = "sent" => c.k = 1
    /\ \A c, d \in calls : c.from = d.from /\ c.waited /\ d.waited => c = d
    /\ \A c, d \in calls :
           c.to = d.to /\ c.state = "applying" /\ d.state = "applying" => c = d

\* Handlers of a node write different keys; what they have stored on a leader is there.
PutInv ==
    /\ \A h \in puts : h.pc = "admitted" => leads[h.node]
    /\ \A g, h \in puts : g.node = h.node /\ g.key = h.key => g = h
    /\ \A h \in puts : h.pc # "admitted" /\ leads[h.node] => store[h.node][h.key] = h.val

\* A leader that has read its buckets writes nothing before its log is seeded.
ListInv ==
    \A n \in Node : leads[n] /\ seeding[n].pc = "listed" =>
        seeding[n].list = store[n] /\ \A h \in puts : h.node # n

\* A leader whose log is seeded.
Serving(n) == leads[n] /\ seeding[n].pc = "idle"

\* A handler of n has stored key k and not yet appended it.
Pending(n, k) == \E h \in puts : h.node = n /\ h.key = k /\ h.pc # "admitted"

End(c) == c.base + Len(c.entries)

\* A call of a serving leader carries a piece of its log, from where the peer is.
Carries(c, n) ==
    /\ c.term = term[n] /\ c.waited
    /\ End(c) <= Len(replLog[n])
    /\ \A i \in 1 .. Len(c.entries) : c.entries[i] = replLog[n][c.base + i]
    /\ c.state \in {"sent", "applying"} => c.base = peerAcked[n][c.to]

\* The log of a serving leader says what its store says, but for what is pending.
LogFine(n) ==
    /\ \A k \in Key : store[n][k] = After(replLog[n], Len(replLog[n]), k) \/ Pending(n, k)
    /\ \A p \in Node : peerAcked[n][p] <= Len(replLog[n])
    /\ loop[n].pc = "sending" => loop[n].term = term[n]
    /\ \A c \in calls : c.from = n => Carries(c, n)

\* p has each key as of some position of the log of n, from a given one on.
Holds(n, p, start) ==
    \A k \in Key : \E j \in start .. Len(replLog[n]) :
        After(replLog[n], j, k) \in {0, store[p][k]}

\* p is applying what somebody else than n has sent.
Foreign(n, p) == \E c \in calls : c.to = p /\ c.state = "applying" /\ c.from # n

\* Nothing of n's log has come to p.
Untouched(n, p) ==
    /\ peerAcked[n][p] = 0
    /\ \A c \in calls : c.from = n /\ c.to = p => c.state # "applying" /\ c.state # "ok"

\* How far a peer of a serving leader is.
Reached(n, p) ==
    /\ Holds(n, p, peerAcked[n][p])
    /\ \A c \in calls : c.from = n /\ c.to = p =>
           /\ c.state = "applying" => Holds(n, p, c.base + c.k - 1)
           /\ c.state = "ok" => Holds(n, p, End(c))

PeerFine(n, p) ==
    /\ term[p] < term[n] \/ (term[p] = term[n] /\ Foreign(n, p)) => Untouched(n, p)
    /\ term[p] = term[n] /\ ~Foreign(n, p) => Reached(n, p)

ServingInv == \A n \in Node : Serving(n) => LogFine(n) /\ \A p \in Node \ {n} : PeerFine(n, p)

RInv == TypeInv /\ OfficeInv /\ LoopInv /\ CallInv /\ PutInv /\ ListInv /\ ServingInv

-----------------------------------------------------------------------------
(* What keeps the parts of the invariant.                                  *)

\* Before its first entry a log says nothing, so everybody holds it from there on.
LEMMA HoldsFromStart ==
    ASSUME TypeInv, NEW n \in Node, NEW p \in Node
    PROVE  Holds(n, p, 0)
<1>1. Len(replLog[n]) \in Nat
  BY DEF TypeInv
<1>2. 0 \in 0 .. Len(replLog[n])
  BY <1>1
<1> QED
  BY <1>2, AfterNothing DEF Holds

\* A peer none of whose calls is touched stays fine, whatever term it joins.
LEMMA PeerKept ==
    ASSUME TypeInv, TypeInv', NEW n \in Node, NEW p \in Node,
           PeerFine(n, p), term'[n] = term[n], term[p] <= term'[p],
           replLog'[n] = replLog[n], peerAcked'[n][p] = peerAcked[n][p],
           term[p] = term[n] /\ ~Foreign(n, p) => store'[p] = store[p],
           \A d \in calls' : d.from = n /\ d.to = p /\ (d.state = "applying" \/ d.state = "ok") =>
               \E c \in calls : SameRequest(d, c) /\ c.state = d.state /\ c.k = d.k,
           term'[p] = term[n] /\ term[p] = term[n] /\ Foreign(n, p)' => Foreign(n, p)
    PROVE  PeerFine(n, p)'
<1>0. term[n] \in Int /\ term[p] \in Int /\ term'[n] \in Int /\ term'[p] \in Int
  BY ReplicationAssumption DEF TypeInv
<1>1. CASE Untouched(n, p)
  <2>1. Untouched(n, p)'
    BY <1>1, ZenonT(30) DEF Untouched, SameRequest
  <2>2. Holds(n, p, 0)'
    <3>1. Len(replLog'[n]) \in Nat
      BY DEF TypeInv
    <3>2. 0 \in 0 .. Len(replLog'[n])
      BY <3>1
    <3> QED
      BY <3>2, AfterNothing DEF Holds
  <2>3. Reached(n, p)'
    BY <2>1, <2>2, Zenon DEF Untouched, Reached
  <2> QED
    BY <2>1, <2>3, Zenon DEF PeerFine
<1>2. CASE ~Untouched(n, p)
  <2>1. ~(term[p] < term[n]) /\ ~(term[p] = term[n] /\ Foreign(n, p))
    BY <1>2, Zenon DEF PeerFine
  <2>2. CASE term'[p] > term'[n]
    BY <1>0, <2>2 DEF PeerFine
  <2>3. CASE ~(term'[p] > term'[n])
    <3>1. term[p] = term[n] /\ term'[p] = term'[n]
      BY <1>0, <2>1, <2>3
    <3>2. ~Foreign(n, p) /\ ~Foreign(n, p)'
      BY <2>1, <3>1
    <3>3. Reached(n, p) /\ store'[p] = store[p]
      BY <3>1, <3>2, Zenon DEF PeerFine
    <3>4. \A start : Holds(n, p, start) => Holds(n, p, start)'
      BY <3>3, Zenon DEF Holds
    <3>5. ASSUME NEW d \in calls', d.from = n, d.to = p
          PROVE  /\ d.state = "applying" => Holds(n, p, d.base + d.k - 1)
                 /\ d.state = "ok" => Holds(n, p, End(d))
      BY <3>3, <3>5, ZenonT(30) DEF Reached, SameRequest, End
    <3>6. Reached(n, p)'
      BY <3>3, <3>4, <3>5, Zenon DEF Reached, End
    <3> QED
      BY <1>0, <3>1, <3>2, <3>6 DEF PeerFine
  <2> QED
    BY <2>2, <2>3
<1> QED
  BY <1>1, <1>2

\* The log of a leader stays fine while only others' handlers and loops go on.
LEMMA LogKept ==
    ASSUME NEW n \in Node, LogFine(n), term'[n] = term[n],
           replLog'[n] = replLog[n], peerAcked'[n] = peerAcked[n], store'[n] = store[n],
           \A k \in Key : Pending(n, k) => Pending(n, k)',
           loop'[n].pc = "sending" => loop'[n].term = term[n],
           \A d \in calls' : d.from = n =>
               \E c \in calls : /\ SameRequest(d, c) /\ d.waited = c.waited
                                /\ d.state \in {"sent", "applying"} => c.state \in {"sent", "applying"}
    PROVE  LogFine(n)'
<1>1. ASSUME NEW d \in calls', d.from = n PROVE Carries(d, n)'
  <2>1. PICK c \in calls : /\ SameRequest(d, c) /\ d.waited = c.waited
                           /\ d.state \in {"sent", "applying"} => c.state \in {"sent", "applying"}
    BY <1>1
  <2>2. Carries(c, n) /\ c.from = n
    BY <1>1, <2>1, Zenon DEF LogFine, SameRequest
  <2>3. /\ d.term = c.term /\ d.base = c.base /\ d.entries = c.entries /\ d.to = c.to
        /\ d.waited = c.waited
    BY <2>1, Zenon DEF SameRequest
  <2>4. d.term = term'[n] /\ d.waited /\ End(d) <= Len(replLog'[n])
    BY <2>2, <2>3, Zenon DEF Carries, End
  <2>5. \A i \in 1 .. Len(d.entries) : d.entries[i] = replLog'[n][d.base + i]
    BY <2>2, <2>3 DEF Carries
  <2>6. d.state \in {"sent", "applying"} => d.base = peerAcked'[n][d.to]
    BY <2>1, <2>2, <2>3, Zenon DEF Carries
  <2> QED
    BY <2>4, <2>5, <2>6, Zenon DEF Carries, End
<1> QED
  BY <1>1, Zenon DEF LogFine

\* Calls that go on, or go away.
LEMMA CallsReplaced ==
    ASSUME CallInv, won \subseteq won', NEW c \in calls, NEW d, SameRequest(d, c),
           d.waited => c.waited, calls' \subseteq (calls \ {c}) \cup {d},
           d.state = "sent" => d.k = 1,
           d.state = "applying" => \A e \in calls \ {c} : ~(e.to = c.to /\ e.state = "applying"),
           \A e \in calls' : e.state = "applying" => ~leads'[e.to]
    PROVE  CallInv'
<1>1. d.from = c.from /\ d.to = c.to /\ d.term = c.term
  BY DEF SameRequest
<1>2. \A e \in calls' : <<e.from, e.term>> \in won'
  BY <1>1, Zenon DEF CallInv
<1>3. \A e \in calls' : e.state = "sent" => e.k = 1
  BY <1>1, Zenon DEF CallInv
<1>4. \A e, f \in calls' : e.from = f.from /\ e.waited /\ f.waited => e = f
  BY <1>1 DEF CallInv
<1>5. \A e, f \in calls' : e.to = f.to /\ e.state = "applying" /\ f.state = "applying" => e = f
  BY <1>1 DEF CallInv
<1> QED
  BY <1>2, <1>3, <1>4, <1>5, Zenon DEF CallInv

\* Fewer calls disturb nothing.
LEMMA CallsRemoved ==
    ASSUME CallInv, won \subseteq won', calls' \subseteq calls,
           \A e \in calls' : e.state = "applying" => ~leads'[e.to]
    PROVE  CallInv'
BY DEF CallInv

\* d is c, whose handling has not got further, at least not to where it matters to m.
Continues(d, c, m) ==
    /\ SameRequest(d, c)
    /\ d.from = m =>
           /\ d.waited = c.waited
           /\ d.state \in {"sent", "applying"} => c.state \in {"sent", "applying"}
           /\ d.state = "applying" \/ d.state = "ok" => c.state = d.state /\ c.k = d.k
    /\ d.state = "applying" => c.state = "applying"

\* A call that nobody touches continues.
LEMMA Unhandled == \A c, m : Continues(c, c, m)
BY Zenon DEF Continues, SameRequest

\* A serving leader and its peers, in a step that leaves its store and log alone.
LEMMA ServingApart ==
    ASSUME RInv, TypeInv', NEW m \in Node, Serving(m), term'[m] = term[m],
           \A p \in Node : term[p] <= term'[p],
           store'[m] = store[m], replLog'[m] = replLog[m], peerAcked'[m] = peerAcked[m],
           \A p \in Node \ {m} : term[p] = term[m] /\ ~Foreign(m, p) => store'[p] = store[p],
           \A k \in Key : Pending(m, k) => Pending(m, k)',
           loop'[m] = loop[m] \/ loop'[m].pc # "sending" \/ loop'[m].term = term[m],
           \A d \in calls' : \/ d.from # m /\ d.state = "sent"
                             \/ \E c \in calls : Continues(d, c, m)
    PROVE  LogFine(m)' /\ \A p \in Node \ {m} : PeerFine(m, p)'
<1>1. LogFine(m) /\ \A p \in Node \ {m} : PeerFine(m, p)
  BY Zenon DEF RInv, ServingInv
<1>2. LogFine(m)'
  <2>1. loop'[m].pc = "sending" => loop'[m].term = term[m]
    BY <1>1, Zenon DEF LogFine
  <2>2. \A d \in calls' : d.from = m =>
            \E c \in calls : /\ SameRequest(d, c) /\ d.waited = c.waited
                             /\ d.state \in {"sent", "applying"} => c.state \in {"sent", "applying"}
    BY Zenon DEF Continues
  <2> QED
    BY <1>1, <2>1, <2>2, LogKept
<1>3. ASSUME NEW p \in Node \ {m} PROVE PeerFine(m, p)'
  <2>1. \A d \in calls' : d.from = m /\ d.to = p /\ (d.state = "applying" \/ d.state = "ok") =>
            \E c \in calls : SameRequest(d, c) /\ c.state = d.state /\ c.k = d.k
    BY Zenon DEF Continues
  <2>2. Foreign(m, p)' => Foreign(m, p)
    <3>1. \A d \in calls' : d.state = "applying" =>
              \E c \in calls : c.state = "applying" /\ c.to = d.to /\ c.from = d.from
      BY Zenon DEF Continues, SameRequest
    <3> QED
      BY ONLY <3>1, Zenon DEF Foreign
  <2>3. PeerFine(m, p) /\ TypeInv
    BY <1>1 DEF RInv
  <2>4. /\ p \in Node /\ term[p] <= term'[p] /\ peerAcked'[m][p] = peerAcked[m][p]
        /\ term[p] = term[m] /\ ~Foreign(m, p) => store'[p] = store[p]
        /\ term'[p] = term[m] /\ term[p] = term[m] /\ Foreign(m, p)' => Foreign(m, p)
    BY <2>2, Zenon
  <2> QED
    BY <2>1, <2>3, <2>4, PeerKept
<1> QED
  BY <1>2, <1>3, Zenon

\* The same in a step that leaves all stores and logs alone.
LEMMA ServingKept ==
    ASSUME RInv, TypeInv', NEW m \in Node, Serving(m), term'[m] = term[m],
           \A p \in Node : term[p] <= term'[p],
           UNCHANGED <<store, replLog, peerAcked>>,
           \A k \in Key : Pending(m, k) => Pending(m, k)',
           loop'[m] = loop[m] \/ loop'[m].pc # "sending" \/ loop'[m].term = term[m],
           \A d \in calls' : \E c \in calls : Continues(d, c, m)
    PROVE  LogFine(m)' /\ \A p \in Node \ {m} : PeerFine(m, p)'
<1>1. /\ store'[m] = store[m] /\ replLog'[m] = replLog[m] /\ peerAcked'[m] = peerAcked[m]
      /\ \A p \in Node \ {m} : term[p] = term[m] /\ ~Foreign(m, p) => store'[p] = store[p]
  OBVIOUS
<1> QED
  BY <1>1, ServingApart

\* Only an election makes a leader.
LEMMA NoNewLeader ==
    ASSUME TypeInv, NEW n \in Node, Adopts(n) \/ Election!Lose(n) \/ UNCHANGED election
    PROVE  /\ \A m \in Node : leads'[m] => leads[m]
           /\ \A m \in Node : m # n => leads'[m] = leads[m] /\ term'[m] = term[m]
           /\ Adopts(n) => ~leads'[n]
<1>1. term \in [Node -> 0 .. MaxTerm] /\ leads \in [Node -> BOOLEAN]
  BY DEF TypeInv
<1> QED
  BY <1>1 DEF Adopts, Election!Adopt, Election!Lose, election

\* Whom a node that may be deposed has to wait for.
LEMMA MayAdoptFacts ==
    ASSUME Undisturbed, NEW n, MayAdopt(n)
    PROVE  loop[n].pc # "checked" /\ \A h \in puts : h.node = n => h.pc # "admitted"
BY DEF Undisturbed, MayAdopt, Putting

-----------------------------------------------------------------------------
(* Every step preserves the invariant.                                     *)

\* The parts a step of the election and the loops can disturb.
LEMMA WinKeeps ==
    ASSUME RInv, TypeInv', Undisturbed, NEW n \in Node, Win(n)
    PROVE  RInv'
<1>0. /\ ~leads[n] /\ Wins(n) /\ seeding[n].pc = "idle"
      /\ \A h \in puts : h.node # n
      /\ \A c \in calls : ~(c.to = n /\ c.state = "applying")
      /\ seeding' = [seeding EXCEPT ![n].pc = "rebuild"]
      /\ UNCHANGED <<store, replLog, peerAcked, puts, loop, calls>>
  BY DEF Win, Wins, Undisturbed, Putting, Applying, log
<1>1. /\ OfficeInv' /\ won \subseteq won' /\ \A m \in Node : term[m] <= term'[m]
      /\ \A m \in Node : leads[m] /\ leads'[m] => term'[m] = term[m]
  BY <1>0, OfficeStep, Zenon DEF RInv, ElectionMoves
<1>2. leads'[n] /\ \A m \in Node : m # n => leads'[m] = leads[m] /\ term'[m] = term[m]
  BY <1>0 DEF Wins, Election!Win, RInv, TypeInv
<1>3. seeding'[n].pc = "rebuild" /\ \A m \in Node : m # n => seeding'[m] = seeding[m]
  BY <1>0 DEF RInv, TypeInv, Seeding
<1>4. LoopInv'
  BY <1>0, <1>1, <1>2 DEF LoopInv, RInv
<1>5. CallInv'
  <2>1. \A c \in calls : c.state = "applying" => ~leads'[c.to]
    <3>1. \A c \in calls : c.to \in Node
      BY DEF RInv, TypeInv, CallTyped, Call
    <3> QED
      BY <1>0, <1>2, <3>1, Zenon DEF RInv, CallInv
  <2> QED
    BY <1>0, <1>1, <2>1, CallsRemoved DEF RInv
<1>6. PutInv'
  <2>1. \A h \in puts : h.node \in Node /\ h.node # n
    BY <1>0 DEF RInv, TypeInv, Put
  <2> QED
    BY <1>0, <1>2, <2>1, Zenon DEF RInv, PutInv
<1>7. ListInv'
  BY <1>0, <1>2, <1>3 DEF RInv, ListInv
<1>8. ASSUME NEW m \in Node, Serving(m)' PROVE LogFine(m)' /\ \A p \in Node \ {m} : PeerFine(m, p)'
  <2>1. m # n /\ Serving(m) /\ term'[m] = term[m]
    BY <1>2, <1>3, <1>8 DEF Serving
  <2>2. \A k \in Key : Pending(m, k) => Pending(m, k)'
    BY <1>0, Zenon DEF Pending
  <2>3. loop'[m] = loop[m]
    BY <1>0
  <2>4. \A d \in calls' : \E c \in calls : Continues(d, c, m)
    BY <1>0, Unhandled, Zenon
  <2> QED
    BY <1>0, <1>1, <2>1, <2>2, <2>3, <2>4, ServingKept
<1> QED
  BY <1>1, <1>4, <1>5, <1>6, <1>7, <1>8, Zenon DEF RInv, ServingInv

\* n adopts a term: what it does not have to do with stays.
LEMMA VoteRequestedKeeps ==
    ASSUME RInv, TypeInv', Undisturbed, NEW n \in Node, VoteRequested(n)
    PROVE  RInv'
<1>0. /\ Adopts(n) /\ MayAdopt(n)
      /\ UNCHANGED <<store, replLog, peerAcked, seeding, puts, loop, calls>>
  <2>1. \A t \in 1 .. MaxTerm : t \in 0 .. MaxTerm
    BY ReplicationAssumption
  <2> QED
    BY <2>1 DEF VoteRequested, Adopts, log
<1>1. /\ OfficeInv' /\ won \subseteq won' /\ \A m \in Node : term[m] <= term'[m]
      /\ \A m \in Node : leads[m] /\ leads'[m] => term'[m] = term[m]
  BY <1>0, OfficeStep, Zenon DEF RInv, ElectionMoves
<1>2. /\ \A m \in Node : leads'[m] => leads[m]
      /\ \A m \in Node : m # n => leads'[m] = leads[m]
      /\ ~leads'[n]
  BY <1>0, NoNewLeader, Zenon DEF RInv
<1>3. loop[n].pc # "checked" /\ \A h \in puts : h.node = n => h.pc # "admitted"
  BY <1>0, MayAdoptFacts
<1>4. LoopInv'
  BY <1>0, <1>1, <1>2, <1>3, Zenon DEF LoopInv, RInv
<1>5. CallInv'
  <2>1. \A c \in calls : c.state = "applying" => ~leads'[c.to]
    <3>1. \A c \in calls : c.to \in Node
      BY DEF RInv, TypeInv, CallTyped, Call
    <3> QED
      BY <1>2, <3>1, Zenon DEF RInv, CallInv
  <2> QED
    BY <1>0, <1>1, <2>1, CallsRemoved DEF RInv
<1>6. PutInv'
  <2>1. \A h \in puts : h.node \in Node
    BY DEF RInv, TypeInv, Put
  <2> QED
    BY <1>0, <1>2, <1>3, <2>1, Zenon DEF RInv, PutInv
<1>7. ListInv'
  BY <1>0, <1>2, Zenon DEF RInv, ListInv
<1>8. ASSUME NEW m \in Node, Serving(m)' PROVE LogFine(m)' /\ \A p \in Node \ {m} : PeerFine(m, p)'
  <2>1. Serving(m) /\ term'[m] = term[m]
    BY <1>0, <1>1, <1>2, <1>8, Zenon DEF Serving
  <2>2. \A k \in Key : Pending(m, k) => Pending(m, k)'
    BY <1>0, Zenon DEF Pending
  <2>3. \A d \in calls' : \E c \in calls : Continues(d, c, m)
    BY <1>0, Unhandled, Zenon
  <2> QED
    BY <1>0, <1>1, <2>1, <2>2, <2>3, ServingKept
<1> QED
  BY <1>1, <1>4, <1>5, <1>6, <1>7, <1>8, Zenon DEF RInv, ServingInv

\* In a step that leaves the election alone.
LEMMA SameOffice ==
    ASSUME RInv, UNCHANGED election
    PROVE  /\ OfficeInv' /\ leads' = leads /\ term' = term /\ won' = won
           /\ \A m \in Node : term[m] <= term'[m]
<1>1. \A m \in Node : term[m] \in Int
  BY ReplicationAssumption DEF RInv, TypeInv
<1> QED
  BY <1>1 DEF election, RInv, OfficeInv

\* The new leader reads its buckets.
LEMMA SeedListKeeps ==
    ASSUME RInv, TypeInv', Undisturbed, NEW n \in Node, SeedList(n)
    PROVE  RInv'
<1>0. /\ UNCHANGED election /\ \A h \in puts : h.node # n
      /\ seeding' = [seeding EXCEPT ![n] = [pc |-> "listed", list |-> store[n]]]
      /\ UNCHANGED <<store, replLog, peerAcked, puts, loop, calls>>
  BY DEF SeedList, Undisturbed, Putting, log
<1>1. /\ OfficeInv' /\ leads' = leads /\ term' = term /\ won' = won
      /\ \A m \in Node : term[m] <= term'[m]
  BY <1>0, SameOffice, Zenon
<1>2. /\ seeding'[n].pc = "listed" /\ seeding'[n].list = store[n]
      /\ \A m \in Node : m # n => seeding'[m] = seeding[m]
  BY <1>0 DEF RInv, TypeInv
<1>3. LoopInv' /\ CallInv' /\ PutInv'
  BY <1>0, <1>1, Zenon DEF RInv, LoopInv, CallInv, PutInv
<1>4. ListInv'
  BY <1>0, <1>1, <1>2, Zenon DEF RInv, ListInv
<1>5. ASSUME NEW m \in Node, Serving(m)' PROVE LogFine(m)' /\ \A p \in Node \ {m} : PeerFine(m, p)'
  <2>1. Serving(m) /\ term'[m] = term[m]
    BY <1>1, <1>2, <1>5 DEF Serving
  <2>2. \A k \in Key : Pending(m, k) => Pending(m, k)'
    BY <1>0, Zenon DEF Pending
  <2>3. \A d \in calls' : \E c \in calls : Continues(d, c, m)
    BY <1>0, Unhandled, Zenon
  <2> QED
    BY <1>0, <1>1, <2>1, <2>2, <2>3, ServingKept
<1> QED
  BY <1>1, <1>3, <1>4, <1>5, Zenon DEF RInv, ServingInv

\* A handler is admitted: it is the only one of its node with its key.
LEMMA AdmitKeeps ==
    ASSUME RInv, TypeInv', Undisturbed, NEW n \in Node, NEW k \in Key, Admit(n, k)
    PROVE  RInv'
<1> DEFINE g == [node |-> n, key |-> k, val |-> writes', pc |-> "admitted"]
<1>0. /\ UNCHANGED election /\ leads[n] /\ seeding[n].pc # "listed"
      /\ \A h \in puts : h.node = n => h.key # k
      /\ puts' = puts \cup {g}
      /\ UNCHANGED <<store, replLog, peerAcked, seeding, loop, calls>>
  BY DEF Admit, Undisturbed, Putting, log
<1>1. g.node = n /\ g.key = k /\ g.pc = "admitted"
  OBVIOUS
<1> HIDE DEF g
<1>2. /\ OfficeInv' /\ leads' = leads /\ term' = term /\ won' = won
      /\ \A m \in Node : term[m] <= term'[m]
  BY <1>0, SameOffice, Zenon
<1>3. LoopInv' /\ CallInv'
  BY <1>0, <1>2, Zenon DEF RInv, LoopInv, CallInv
<1>4. PutInv'
  <2>1. \A h \in puts' : h.pc = "admitted" => leads'[h.node]
    BY <1>0, <1>1, <1>2 DEF RInv, PutInv
  <2>2. \A f, h \in puts' : f.node = h.node /\ f.key = h.key => f = h
    BY <1>0, <1>1, Zenon DEF RInv, PutInv
  <2>3. \A h \in puts' : h.pc # "admitted" /\ leads'[h.node] => store'[h.node][h.key] = h.val
    BY <1>0, <1>1, <1>2, Zenon DEF RInv, PutInv
  <2> QED
    BY <2>1, <2>2, <2>3, Zenon DEF PutInv
<1>5. ListInv'
  BY <1>0, <1>1, <1>2, Zenon DEF RInv, ListInv
<1>6. ASSUME NEW m \in Node, Serving(m)' PROVE LogFine(m)' /\ \A p \in Node \ {m} : PeerFine(m, p)'
  <2>1. Serving(m) /\ term'[m] = term[m]
    BY <1>0, <1>2, <1>6 DEF Serving
  <2>2. \A l \in Key : Pending(m, l) => Pending(m, l)'
    BY <1>0, Zenon DEF Pending
  <2>3. \A d \in calls' : \E c \in calls : Continues(d, c, m)
    BY <1>0, Unhandled, Zenon
  <2> QED
    BY <1>0, <1>2, <2>1, <2>2, <2>3, ServingKept, Zenon
<1> QED
  BY <1>2, <1>3, <1>4, <1>5, <1>6, Zenon DEF RInv, ServingInv

\* A handler stores: only a leader's does, so no follower of another one is written to.
LEMMA StorePutKeeps ==
    ASSUME RInv, TypeInv', Undisturbed, NEW h \in puts, StorePut(h)
    PROVE  RInv'
<1> DEFINE g == [h EXCEPT !.pc = "stored"]
           n == h.node
<1>0. /\ UNCHANGED election /\ h.pc = "admitted"
      /\ store' = [store EXCEPT ![n][h.key] = h.val]
      /\ puts' = (puts \ {h}) \cup {g}
      /\ UNCHANGED <<replLog, peerAcked, seeding, loop, calls>>
  BY Zenon DEF StorePut, Moves, log
<1>1. h \in Put /\ n \in Node /\ h.key \in Key /\ h.val \in Nat
  BY DEF RInv, TypeInv, Put
<1>2. g.node = n /\ g.key = h.key /\ g.val = h.val /\ g.pc = "stored"
  BY <1>1, PutEdited
<1>3. /\ store'[n][h.key] = h.val
      /\ \A l \in Key : l # h.key => store'[n][l] = store[n][l]
      /\ \A m \in Node : m # n => store'[m] = store[m]
  <2>1. store \in [Node -> Contents]
    BY DEF RInv, TypeInv
  <2> QED
    BY <1>0, <1>1, <2>1, Written
<1>4. leads[n] /\ seeding[n].pc # "listed"
  BY <1>0, <1>1 DEF RInv, PutInv, ListInv
<1> HIDE DEF g
<1>5. /\ OfficeInv' /\ leads' = leads /\ term' = term /\ won' = won
      /\ \A m \in Node : term[m] <= term'[m]
  BY <1>0, SameOffice, Zenon
<1>6. LoopInv' /\ CallInv'
  BY <1>0, <1>5, Zenon DEF RInv, LoopInv, CallInv
<1>7. PutInv'
  <2>1. \A f \in puts' : f.pc = "admitted" => leads'[f.node]
    BY <1>0, <1>2, <1>4, <1>5 DEF RInv, PutInv
  <2>2. \A e, f \in puts' : e.node = f.node /\ e.key = f.key => e = f
    BY <1>0, <1>2 DEF RInv, PutInv
  <2>3. ASSUME NEW f \in puts', f.pc # "admitted", leads'[f.node]
        PROVE  store'[f.node][f.key] = f.val
    <3>1. CASE f = g
      BY <1>2, <1>3, <3>1, Zenon
    <3>2. CASE f \in puts \ {h}
      <4>1. store[f.node][f.key] = f.val /\ ~(f.node = n /\ f.key = h.key)
        BY <1>5, <2>3, <3>2, Zenon DEF RInv, PutInv
      <4>2. f.node \in Node /\ f.key \in Key
        BY <3>2, ZenonT(30) DEF RInv, TypeInv, Put
      <4> QED
        BY <1>3, <4>1, <4>2, Zenon
    <3> QED
      BY <1>0, <3>1, <3>2
  <2> QED
    BY <2>1, <2>2, <2>3, Zenon DEF PutInv
<1>8. ListInv'
  <2>1. ASSUME NEW m \in Node, leads'[m], seeding'[m].pc = "listed"
        PROVE  seeding'[m].list = store'[m] /\ \A f \in puts' : f.node # m
    <3>1. m # n /\ seeding[m].list = store[m] /\ \A f \in puts : f.node # m
      BY <1>0, <1>4, <1>5, <2>1 DEF RInv, ListInv
    <3> QED
      BY <1>0, <1>2, <1>3, <3>1
  <2> QED
    BY <2>1, Zenon DEF ListInv
<1>9. \A m \in Node : \A l \in Key : Pending(m, l) => Pending(m, l)'
  <2>1. \A f \in puts : f.pc # "admitted" => f \in puts'
    BY <1>0
  <2> QED
    BY <2>1, Zenon DEF Pending
<1>10. ASSUME NEW m \in Node, m # n, Serving(m)'
       PROVE  LogFine(m)' /\ \A p \in Node \ {m} : PeerFine(m, p)'
  <2>1. Serving(m) /\ leads[m] /\ term'[m] = term[m]
    BY <1>0, <1>5, <1>10 DEF Serving
  <2>2. term[n] # term[m]
    BY <1>1, <1>4, <1>10, <2>1, OneLeader DEF RInv
  <2>3. /\ store'[m] = store[m] /\ replLog'[m] = replLog[m] /\ peerAcked'[m] = peerAcked[m]
        /\ \A p \in Node \ {m} : term[p] = term[m] /\ ~Foreign(m, p) => store'[p] = store[p]
        /\ loop'[m] = loop[m]
    BY <1>0, <1>3, <1>10, <2>2
  <2>4. \A d \in calls' : \/ d.from # m /\ d.state = "sent"
                          \/ \E c \in calls : Continues(d, c, m)
    BY <1>0, Unhandled, Zenon
  <2> QED
    BY <1>5, <1>9, <2>1, <2>3, <2>4, ServingApart
<1>11. ASSUME Serving(n)' PROVE LogFine(n)' /\ \A p \in Node \ {n} : PeerFine(n, p)'
  <2>1. LogFine(n) /\ \A p \in Node \ {n} : PeerFine(n, p)
    BY <1>0, <1>1, <1>5, <1>11 DEF RInv, ServingInv, Serving
  <2>2. Pending(n, h.key)'
    BY <1>0, <1>2 DEF Pending
  <2>3. \A l \in Key : store'[n][l] = After(replLog'[n], Len(replLog'[n]), l) \/ Pending(n, l)'
    <3>1. ASSUME NEW l \in Key, l # h.key
          PROVE  store'[n][l] = After(replLog'[n], Len(replLog'[n]), l) \/ Pending(n, l)'
      <4>1. store'[n][l] = store[n][l] /\ replLog'[n] = replLog[n]
        BY <1>0, <1>3, <3>1
      <4>2. store[n][l] = After(replLog[n], Len(replLog[n]), l) \/ Pending(n, l)
        BY <2>1, Zenon DEF LogFine
      <4> QED
        BY <1>1, <1>9, <4>1, <4>2, Zenon
    <3> QED
      BY <2>2, <3>1, Zenon
  <2>4. LogFine(n)'
    BY <1>0, <1>5, <2>1, <2>3, Zenon DEF LogFine, Carries, End
  <2>5. ASSUME NEW p \in Node \ {n} PROVE PeerFine(n, p)'
    <3>1. /\ PeerFine(n, p) /\ TypeInv /\ p \in Node /\ term'[n] = term[n] /\ term[p] <= term'[p]
          /\ replLog'[n] = replLog[n] /\ peerAcked'[n][p] = peerAcked[n][p]
          /\ store'[p] = store[p]
      BY <1>0, <1>3, <1>5, <2>1 DEF RInv
    <3>2. \A d \in calls' : SameRequest(d, d)
      BY Zenon DEF SameRequest
    <3>3. Foreign(n, p)' => Foreign(n, p)
      BY ONLY <1>0, Zenon DEF Foreign
    <3> QED
      BY <1>0, <1>1, <3>1, <3>2, <3>3, PeerKept, Zenon
  <2> QED
    BY <2>4, <2>5
<1> QED
  BY <1>5, <1>6, <1>7, <1>8, <1>10, <1>11, Zenon DEF RInv, ServingInv

\* The numbers of a call.
LEMMA CallShape ==
    ASSUME TypeInv, NEW c \in calls
    PROVE  /\ c \in Call /\ c.from \in Node /\ c.to \in Node /\ c.from # c.to
           /\ c.term \in 0 .. MaxTerm
           /\ c.base \in Nat /\ Len(c.entries) \in Nat /\ c.k \in Nat
           /\ 1 <= c.k /\ c.k <= Len(c.entries) + 1
           /\ End(c) = c.base + Len(c.entries)
           /\ c.base + c.k - 1 \in Nat /\ End(c) \in Nat
<1>1. /\ c \in Call /\ c.k \in 1 .. Len(c.entries) + 1
      /\ c.from # c.to /\ c.term \in 0 .. MaxTerm
  BY DEF TypeInv, CallTyped
<1>2. c.base \in Nat /\ c.entries \in Seq(ReplicationEntry) /\ c.from \in Node /\ c.to \in Node
  BY <1>1 DEF Call
<1>3. Len(c.entries) \in Nat
  BY <1>2
<1>4. c.k \in Nat /\ 1 <= c.k /\ c.k <= Len(c.entries) + 1
  BY <1>1, <1>3
<1>5. c.base + c.k - 1 \in Nat /\ c.base + Len(c.entries) \in Nat
  BY ONLY <1>2, <1>3, <1>4
<1> QED
  BY <1>1, <1>2, <1>3, <1>4, <1>5, Zenon DEF End

\* A handler asks whether its node leads, and goes on if it does.
LEMMA CheckLeaderKeeps ==
    ASSUME RInv, TypeInv', Undisturbed, NEW h \in puts, CheckLeader(h)
    PROVE  RInv'
<1> DEFINE g == [h EXCEPT !.pc = "leading"]
<1>0. /\ UNCHANGED election /\ h.pc = "stored"
      /\ IF leads[h.node] THEN puts' = (puts \ {h}) \cup {g} ELSE puts' = puts \ {h}
      /\ UNCHANGED <<store, replLog, peerAcked, seeding, loop, calls>>
  BY DEF CheckLeader, Moves, log
<1>1. h \in Put /\ h.node \in Node
  BY DEF RInv, TypeInv, Put
<1>2. g.node = h.node /\ g.key = h.key /\ g.val = h.val /\ g.pc = "leading"
  BY <1>1, PutEdited
<1> HIDE DEF g
<1>3. puts' \subseteq (puts \ {h}) \cup {g} /\ (leads[h.node] => g \in puts')
      /\ \A f \in puts : f # h => f \in puts'
  BY <1>0
<1>4. /\ OfficeInv' /\ leads' = leads /\ term' = term /\ won' = won
      /\ \A m \in Node : term[m] <= term'[m]
  BY <1>0, SameOffice, Zenon
<1>5. LoopInv' /\ CallInv'
  BY <1>0, <1>4, Zenon DEF RInv, LoopInv, CallInv
<1>6. PutInv'
  <2>1. \A f \in puts' : f.pc = "admitted" => leads'[f.node]
    BY <1>2, <1>3, <1>4 DEF RInv, PutInv
  <2>2. \A e, f \in puts' : e.node = f.node /\ e.key = f.key => e = f
    BY <1>2, <1>3, ZenonT(30) DEF RInv, PutInv
  <2>3. \A f \in puts' : f.pc # "admitted" /\ leads'[f.node] => store'[f.node][f.key] = f.val
    BY <1>0, <1>2, <1>3, <1>4, Zenon DEF RInv, PutInv
  <2> QED
    BY <2>1, <2>2, <2>3, Zenon DEF PutInv
<1>7. ListInv'
  BY <1>0, <1>2, <1>3, <1>4 DEF RInv, ListInv
<1>8. ASSUME NEW m \in Node, Serving(m)' PROVE LogFine(m)' /\ \A p \in Node \ {m} : PeerFine(m, p)'
  <2>1. Serving(m) /\ term'[m] = term[m] /\ leads[m]
    BY <1>0, <1>4, <1>8 DEF Serving
  <2>2. \A l \in Key : Pending(m, l) => Pending(m, l)'
    <3>1. ASSUME NEW l \in Key, NEW f \in puts, f.node = m, f.key = l, f.pc # "admitted"
          PROVE  \E e \in puts' : e.node = m /\ e.key = l /\ e.pc # "admitted"
      <4>1. CASE f = h
        BY <1>2, <1>3, <2>1, <3>1, <4>1, Zenon
      <4>2. CASE f # h
        BY <1>3, <3>1, <4>2
      <4> QED
        BY <4>1, <4>2
    <3> QED
      BY <3>1, Zenon DEF Pending
  <2>3. \A d \in calls' : \E c \in calls : Continues(d, c, m)
    BY <1>0, Unhandled, Zenon
  <2> QED
    BY <1>0, <1>4, <2>1, <2>2, <2>3, ServingKept, Zenon
<1> QED
  BY <1>4, <1>5, <1>6, <1>7, <1>8, Zenon DEF RInv, ServingInv

\* The parts of the invariant that speak neither of loops nor of calls.
LEMMA StoresAside ==
    ASSUME RInv, UNCHANGED <<leads, store, seeding, puts>>
    PROVE  PutInv' /\ ListInv'
BY Zenon DEF RInv, PutInv, ListInv

\* What a serving leader was before a step that elects and seeds nobody.
LEMMA ServedBefore ==
    ASSUME NEW m \in Node, Serving(m)', UNCHANGED <<leads, term, seeding, puts>>
    PROVE  /\ Serving(m) /\ term'[m] = term[m]
           /\ \A k \in Key : Pending(m, k) => Pending(m, k)'
BY Zenon DEF Serving, Pending

\* A tick.
LEMMA TickKeeps ==
    ASSUME RInv, TypeInv', Undisturbed, NEW n \in Node, Tick(n)
    PROVE  RInv'
<1>0. /\ UNCHANGED election /\ leads[n]
      /\ loop' = [loop EXCEPT ![n].pc = "checked"]
      /\ UNCHANGED <<store, replLog, peerAcked, seeding, puts, calls>>
  BY DEF Tick, log
<1>1. loop'[n].pc = "checked" /\ \A m \in Node : m # n => loop'[m] = loop[m]
  BY ONLY <1>0, RInv, n \in Node DEF RInv, TypeInv, Loop
<1>2. /\ OfficeInv' /\ leads' = leads /\ term' = term /\ won' = won
      /\ \A m \in Node : term[m] <= term'[m]
  BY <1>0, SameOffice, Zenon
<1>3. LoopInv'
  BY <1>0, <1>1, <1>2 DEF RInv, LoopInv
<1>4. CallInv' /\ PutInv' /\ ListInv'
  BY <1>0, <1>2, StoresAside, Zenon DEF RInv, CallInv
<1>5. ASSUME NEW m \in Node, Serving(m)' PROVE LogFine(m)' /\ \A p \in Node \ {m} : PeerFine(m, p)'
  <2>1. /\ Serving(m) /\ term'[m] = term[m]
        /\ \A k \in Key : Pending(m, k) => Pending(m, k)'
    BY <1>0, <1>2, <1>5, ServedBefore
  <2>2. loop'[m] = loop[m] \/ loop'[m].pc # "sending"
    BY <1>1
  <2>3. \A d \in calls' : \E c \in calls : Continues(d, c, m)
    BY <1>0, Unhandled, Zenon
  <2> QED
    BY <1>0, <1>2, <2>1, <2>2, <2>3, ServingKept
<1> QED
  BY <1>2, <1>3, <1>4, <1>5, Zenon DEF RInv, ServingInv

\* The loop reads the term: its node still leads, so it is the term it has won.
LEMMA ReadTermKeeps ==
    ASSUME RInv, TypeInv', Undisturbed, NEW n \in Node, ReadTerm(n)
    PROVE  RInv'
<1>0. /\ UNCHANGED election /\ loop[n].pc = "checked"
      /\ loop' = [loop EXCEPT ![n] = [pc |-> "sending", term |-> term[n], left |-> Node \ {n}]]
      /\ UNCHANGED <<store, replLog, peerAcked, seeding, puts, calls>>
  BY Zenon DEF ReadTerm, log
<1>1. loop'[n].pc = "sending" /\ loop'[n].term = term[n] /\ \A m \in Node : m # n => loop'[m] = loop[m]
  BY ONLY <1>0, RInv, n \in Node DEF RInv, TypeInv
<1>2. /\ OfficeInv' /\ leads' = leads /\ term' = term /\ won' = won
      /\ \A m \in Node : term[m] <= term'[m]
  BY <1>0, SameOffice, Zenon
<1>3. LoopInv'
  <2>1. <<n, term[n]>> \in won
    BY <1>0, Zenon DEF RInv, LoopInv, OfficeInv
  <2> QED
    <3>1. ASSUME NEW m \in Node, m # n
          PROVE  /\ loop'[m].pc = "checked" => leads'[m]
                 /\ loop'[m].pc = "sending" => <<m, loop'[m].term>> \in won'
      BY <1>1, <1>2, <3>1, Zenon DEF RInv, LoopInv
    <3>2. loop'[n].pc # "checked" /\ <<n, loop'[n].term>> \in won'
      BY ONLY <1>1, <1>2, <2>1
    <3> QED
      BY <3>1, <3>2, Zenon DEF LoopInv
<1>4. CallInv' /\ PutInv' /\ ListInv'
  BY <1>0, <1>2, StoresAside, Zenon DEF RInv, CallInv
<1>5. ASSUME NEW m \in Node, Serving(m)' PROVE LogFine(m)' /\ \A p \in Node \ {m} : PeerFine(m, p)'
  <2>1. /\ Serving(m) /\ term'[m] = term[m]
        /\ \A k \in Key : Pending(m, k) => Pending(m, k)'
    BY <1>0, <1>2, <1>5, ServedBefore
  <2>2. loop'[m] = loop[m] \/ loop'[m].term = term[m]
    BY <1>1
  <2>3. \A d \in calls' : \E c \in calls : Continues(d, c, m)
    BY <1>0, Unhandled, Zenon
  <2> QED
    BY <1>0, <1>2, <2>1, <2>2, <2>3, ServingKept
<1> QED
  BY <1>2, <1>3, <1>4, <1>5, Zenon DEF RInv, ServingInv

\* A request goes out, with the log from where the peer is.
LEMMA ShipKeeps ==
    ASSUME RInv, TypeInv', Undisturbed, NEW n \in Node, NEW p \in Node, Ship(n, p)
    PROVE  RInv'
<1>d. PICK d : d = Request(n, p)
  OBVIOUS
<1>0. /\ UNCHANGED election /\ loop[n].pc = "sending" /\ p \in loop[n].left
      /\ \A c \in calls : ~(c.from = n /\ c.waited)
      /\ loop' = [loop EXCEPT ![n].left = @ \ {p}]
      /\ calls' = calls \cup {d}
      /\ UNCHANGED <<store, replLog, peerAcked, seeding, puts>>
  BY <1>d DEF Ship, log, Waiting, Request
<1>1. /\ loop'[n].pc = loop[n].pc /\ loop'[n].term = loop[n].term
      /\ \A m \in Node : m # n => loop'[m] = loop[m]
  BY ONLY <1>0, RInv, n \in Node DEF RInv, TypeInv, Loop
<1>2. /\ d.from = n /\ d.to = p /\ d.term = loop[n].term /\ d.base = peerAcked[n][p]
      /\ d.entries = SubSeq(replLog[n], peerAcked[n][p] + 1, Len(replLog[n]))
      /\ d.state = "sent" /\ d.k = 1 /\ d.waited
  BY <1>d, Zenon DEF Request
<1>3. /\ OfficeInv' /\ leads' = leads /\ term' = term /\ won' = won
      /\ \A m \in Node : term[m] <= term'[m]
  BY <1>0, SameOffice, Zenon
<1>4. LoopInv'
  BY <1>0, <1>1, <1>3 DEF RInv, LoopInv
<1>5. CallInv'
  <2>1. <<d.from, d.term>> \in won'
    BY <1>0, <1>2, <1>3 DEF RInv, LoopInv
  <2>2. \A c, e \in calls' : c.from = e.from /\ c.waited /\ e.waited => c = e
    BY <1>0, <1>2 DEF RInv, CallInv
  <2>3. \A c \in calls' : c.state = "applying" => c \in calls
    BY <1>0, <1>2
  <2>4. /\ \A c \in calls' : <<c.from, c.term>> \in won'
        /\ \A c \in calls' : c.state = "sent" => c.k = 1
    BY <1>0, <1>2, <1>3, <2>1 DEF RInv, CallInv
  <2>5. /\ \A c \in calls' : c.state = "applying" => ~leads'[c.to]
        /\ \A c, e \in calls' :
               c.to = e.to /\ c.state = "applying" /\ e.state = "applying" => c = e
    BY <1>3, <2>3, Zenon DEF RInv, CallInv
  <2> QED
    BY <2>2, <2>4, <2>5, Zenon DEF CallInv
<1>6. PutInv' /\ ListInv'
  BY <1>0, <1>3, StoresAside
<1>7. ASSUME NEW m \in Node, Serving(m)'
      PROVE  /\ Serving(m) /\ term'[m] = term[m]
             /\ \A k \in Key : Pending(m, k) => Pending(m, k)'
  BY <1>0, <1>3, <1>7, ServedBefore, Zenon
<1>8. ASSUME NEW m \in Node, m # n, Serving(m)'
      PROVE  LogFine(m)' /\ \A q \in Node \ {m} : PeerFine(m, q)'
  <2>1. /\ store'[m] = store[m] /\ replLog'[m] = replLog[m] /\ peerAcked'[m] = peerAcked[m]
        /\ \A q \in Node \ {m} : term[q] = term[m] /\ ~Foreign(m, q) => store'[q] = store[q]
        /\ loop'[m] = loop[m]
    BY <1>0, <1>1, <1>8
  <2>2. \A e \in calls' : \/ e.from # m /\ e.state = "sent"
                          \/ \E c \in calls : Continues(e, c, m)
    BY <1>0, <1>2, <1>8, Unhandled, Zenon
  <2> QED
    BY <1>3, <1>7, <1>8, <2>1, <2>2, ServingApart, Zenon
<1>9. ASSUME Serving(n)' PROVE LogFine(n)' /\ \A q \in Node \ {n} : PeerFine(n, q)'
  <2>1. Serving(n) /\ LogFine(n) /\ \A q \in Node \ {n} : PeerFine(n, q)
    BY <1>7, <1>9, Zenon DEF RInv, ServingInv
  <2>2. \A c \in calls : c.from # n
    BY <1>0, <2>1, Zenon DEF LogFine, Carries
  <2>3. Carries(d, n)'
    <3> DEFINE x == replLog[n]
               a == peerAcked[n][p]
    <3>1. x \in Seq(ReplicationEntry) /\ a \in Nat /\ a <= Len(x)
      BY <2>1 DEF RInv, TypeInv, LogFine
    <3>2. d.entries = SubSeq(x, a + 1, Len(x)) /\ d.base = a
      BY <1>2, Zenon
    <3> HIDE DEF x, a
    <3>3. a + Len(d.entries) <= Len(x) /\ \A i \in 1 .. Len(d.entries) : d.entries[i] = x[a + i]
      BY <3>1, <3>2, Rest, ZenonT(30)
    <3>5. \A i \in 1 .. Len(d.entries) : d.entries[i] = x[d.base + i]
      BY <3>2, <3>3, Zenon
    <3>6. End(d) <= Len(x)
      BY <3>2, <3>3, Zenon DEF End
    <3> USE DEF x, a
    <3>7. d.term = term[n]
      BY <1>0, <1>2, <2>1 DEF LogFine
    <3> QED
      BY <1>0, <1>2, <1>3, <3>5, <3>6, <3>7, Zenon DEF Carries, End
  <2>4. LogFine(n)'
    <3>1. \A c \in calls' : c.from = n => Carries(c, n)'
      BY <1>0, <2>2, <2>3, Zenon
    <3>2. loop'[n].pc = "sending" => loop'[n].term = term'[n]
      BY <1>1, <1>3, <2>1, Zenon DEF LogFine
    <3>3. /\ \A k \in Key : \/ store'[n][k] = After(replLog'[n], Len(replLog'[n]), k)
                            \/ Pending(n, k)'
          /\ \A q \in Node : peerAcked'[n][q] <= Len(replLog'[n])
      BY <1>0, <1>7, <1>9, <2>1, ZenonT(30) DEF LogFine
    <3> QED
      BY <3>1, <3>2, <3>3, Zenon DEF LogFine
  <2>5. ASSUME NEW q \in Node \ {n} PROVE PeerFine(n, q)'
    <3>1. \A e \in calls' : e.from = n /\ e.to = q /\ (e.state = "applying" \/ e.state = "ok") =>
              \E c \in calls : SameRequest(e, c) /\ c.state = e.state /\ c.k = e.k
      BY <1>0, <1>2, <2>2
    <3>2. Foreign(n, q)' => Foreign(n, q)
      <4>1. \A c \in calls' : c.state = "applying" => c \in calls
        BY <1>0, <1>2
      <4> QED
        BY <4>1, Zenon DEF Foreign
    <3>3. /\ q \in Node /\ PeerFine(n, q) /\ TypeInv /\ term'[n] = term[n] /\ term[q] <= term'[q]
          /\ replLog'[n] = replLog[n] /\ peerAcked'[n][q] = peerAcked[n][q]
          /\ store'[q] = store[q]
      BY <1>0, <1>3, <2>1 DEF RInv
    <3> QED
      BY <3>1, <3>2, <3>3, PeerKept
  <2> QED
    BY <2>4, <2>5
<1> QED
  BY <1>3, <1>4, <1>5, <1>6, <1>8, <1>9, Zenon DEF RInv, ServingInv

\* The parts of the invariant that the handling of a call cannot disturb.
LEMMA CallMoves ==
    ASSUME RInv, TypeInv', Undisturbed, NEW n \in Node,
           (Adopts(n) /\ MayAdopt(n)) \/ UNCHANGED election,
           \A m \in Node : leads[m] => store'[m] = store[m],
           UNCHANGED <<seeding, puts>>,
           \A m \in Node : loop'[m] = loop[m] \/ loop'[m] = Quiet
    PROVE  /\ OfficeInv' /\ LoopInv' /\ PutInv' /\ ListInv'
           /\ won \subseteq won' /\ \A m \in Node : term[m] <= term'[m]
           /\ \A m \in Node : leads'[m] => leads[m]
           /\ \A m \in Node : Serving(m)' =>
                  /\ Serving(m) /\ term'[m] = term[m] /\ store'[m] = store[m]
                  /\ \A k \in Key : Pending(m, k) => Pending(m, k)'
<1>1. /\ OfficeInv' /\ won \subseteq won' /\ \A m \in Node : term[m] <= term'[m]
      /\ \A m \in Node : leads[m] /\ leads'[m] => term'[m] = term[m]
  BY OfficeStep, Zenon DEF RInv, ElectionMoves
<1>2. /\ \A m \in Node : leads'[m] => leads[m]
      /\ \A m \in Node : m # n => leads'[m] = leads[m]
  BY NoNewLeader, Zenon DEF RInv
<1>3. \/ leads' = leads
      \/ loop[n].pc # "checked" /\ \A h \in puts : h.node = n => h.pc # "admitted"
  BY MayAdoptFacts, Zenon DEF election
<1>4. LoopInv'
  <2>1. ASSUME NEW m \in Node, loop'[m] = loop[m]
        PROVE  /\ loop'[m].pc = "checked" => leads'[m]
               /\ loop'[m].pc = "sending" => <<m, loop'[m].term>> \in won'
    BY <1>1, <1>2, <1>3, <2>1, ZenonT(30) DEF RInv, LoopInv
  <2> QED
    BY <2>1, QuietSends, Zenon DEF LoopInv
<1>5. \A h \in puts : h.node \in Node
  BY DEF RInv, TypeInv, Put
<1>6. PutInv'
  <2>1. \A h \in puts : h.pc = "admitted" => leads'[h.node]
    BY <1>2, <1>3, <1>5, Zenon DEF RInv, PutInv
  <2>2. \A h \in puts : h.pc # "admitted" /\ leads'[h.node] => store'[h.node][h.key] = h.val
    BY <1>2, <1>5, Zenon DEF RInv, PutInv
  <2> QED
    BY <2>1, <2>2, Zenon DEF RInv, PutInv
<1>7. ListInv'
  BY <1>2, Zenon DEF RInv, ListInv
<1>8. ASSUME NEW m \in Node, Serving(m)'
      PROVE  /\ Serving(m) /\ term'[m] = term[m] /\ store'[m] = store[m]
             /\ \A k \in Key : Pending(m, k) => Pending(m, k)'
  BY <1>1, <1>2, <1>8, Zenon DEF Serving, Pending
<1> QED
  BY <1>1, <1>2, <1>4, <1>6, <1>7, <1>8, Zenon

\* A caller gives up.
LEMMA TimeoutKeeps ==
    ASSUME RInv, TypeInv', Undisturbed, NEW c \in calls, Timeout(c)
    PROVE  RInv'
<1>0. /\ UNCHANGED election /\ calls' = calls \ {c} /\ Advance(c.from)
      /\ UNCHANGED <<store, replLog, peerAcked, seeding, puts>>
  BY DEF Timeout, log, Undisturbed
<1>1. c.from \in Node
  BY CallShape DEF RInv
<1>2. \A m \in Node : loop'[m] = loop[m] \/ loop'[m] = Quiet
  BY <1>0, <1>1, AdvanceFacts, Zenon DEF RInv
<1>3. /\ OfficeInv' /\ LoopInv' /\ PutInv' /\ ListInv'
      /\ won \subseteq won' /\ \A m \in Node : term[m] <= term'[m]
      /\ \A m \in Node : leads'[m] => leads[m]
      /\ \A m \in Node : Serving(m)' =>
             /\ Serving(m) /\ term'[m] = term[m] /\ store'[m] = store[m]
             /\ \A k \in Key : Pending(m, k) => Pending(m, k)'
  BY <1>0, <1>1, <1>2, CallMoves, Zenon
<1>4. CallInv'
  <2>1. leads' = leads
    BY <1>0, Zenon DEF election
  <2> QED
    BY <1>0, <1>3, <2>1, CallsRemoved, ZenonT(30) DEF RInv, CallInv
<1>5. ASSUME NEW m \in Node, Serving(m)' PROVE LogFine(m)' /\ \A p \in Node \ {m} : PeerFine(m, p)'
  <2>1. \A d \in calls' : \E e \in calls : Continues(d, e, m)
    BY <1>0, Unhandled, Zenon
  <2>2. loop'[m] = loop[m] \/ loop'[m].pc # "sending"
    BY <1>2, QuietSends, Zenon
  <2> QED
    BY <1>0, <1>3, <1>5, <2>1, <2>2, ServingKept, Zenon
<1> QED
  BY <1>3, <1>4, <1>5, Zenon DEF RInv, ServingInv

\* A handler refuses: its answer is not an acknowledgement.
LEMMA RefuseKeeps ==
    ASSUME RInv, TypeInv', Undisturbed, NEW c \in calls, Refuse(c)
    PROVE  RInv'
<1>1. c.to \in Node /\ c \in Call /\ term[c.to] \in Nat
  BY CallShape, Shapes, Zenon DEF RInv
<1>d. PICK d : d = [c EXCEPT !.state = "refused", !.current = term[c.to]]
  OBVIOUS
<1>0. /\ UNCHANGED election /\ calls' \subseteq (calls \ {c}) \cup {d} /\ c.state = "sent"
      /\ UNCHANGED <<store, replLog, peerAcked, seeding, puts, loop>>
  BY <1>d DEF Refuse, log, Reply
<1>2. SameRequest(d, c) /\ d.state = "refused" /\ d.k = c.k /\ d.waited = c.waited
  BY <1>1, <1>d, EditedRefused, ZenonT(30)
<1>3. /\ OfficeInv' /\ LoopInv' /\ PutInv' /\ ListInv'
      /\ won \subseteq won' /\ \A m \in Node : term[m] <= term'[m]
      /\ \A m \in Node : leads'[m] => leads[m]
      /\ \A m \in Node : Serving(m)' =>
             /\ Serving(m) /\ term'[m] = term[m] /\ store'[m] = store[m]
             /\ \A k \in Key : Pending(m, k) => Pending(m, k)'
  BY <1>0, <1>1, CallMoves, Zenon
<1>4. CallInv'
  <2>1. \A e \in calls' : e.state = "applying" => ~leads'[e.to]
    BY <1>0, <1>2, Zenon DEF RInv, CallInv, election
  <2> QED
    BY <1>0, <1>2, <1>3, <2>1, CallsReplaced, Zenon DEF RInv
<1>5. ASSUME NEW m \in Node, Serving(m)' PROVE LogFine(m)' /\ \A p \in Node \ {m} : PeerFine(m, p)'
  <2>1. Continues(d, c, m)
    BY <1>2 DEF Continues
  <2>2. \A e \in calls' : \E f \in calls : Continues(e, f, m)
    BY <1>0, <2>1, Unhandled
  <2>3. loop'[m] = loop[m]
    BY <1>0
  <2> QED
    BY <1>0, <1>3, <1>5, <2>2, <2>3, ServingKept, Zenon
<1> QED
  BY <1>3, <1>4, <1>5, Zenon DEF RInv, ServingInv

\* A call of a serving leader that has been accepted: its only one, to a peer of its term.
LEMMA OwnCall ==
    ASSUME RInv, NEW c \in calls, Serving(c.from), c.state = "applying" \/ c.state = "ok"
    PROVE  /\ Carries(c, c.from) /\ LogFine(c.from)
           /\ \A p \in Node \ {c.from} : PeerFine(c.from, p)
           /\ \A e \in calls : e.from = c.from => e = c
           /\ ~(term[c.to] < term[c.from])
           /\ term[c.to] = term[c.from] => ~Foreign(c.from, c.to) /\ Reached(c.from, c.to)
<1>1. c.from \in Node /\ c.to \in Node /\ c.from # c.to
  BY CallShape DEF RInv
<1>2. LogFine(c.from) /\ \A p \in Node \ {c.from} : PeerFine(c.from, p)
  BY <1>1, Zenon DEF RInv, ServingInv
<1>3. \A e \in calls : e.from = c.from => Carries(e, c.from)
  BY <1>2, Zenon DEF LogFine
<1>4. \A e \in calls : e.from = c.from => e.waited
  BY <1>3, Zenon DEF Carries
<1>5. \A e \in calls : e.from = c.from => e = c
  BY <1>4, Zenon DEF RInv, CallInv
<1>6. ~Untouched(c.from, c.to) /\ PeerFine(c.from, c.to)
  BY <1>1, <1>2, Zenon DEF Untouched
<1> QED
  BY <1>2, <1>3, <1>5, <1>6, Zenon DEF PeerFine

\* The peers a call is not addressed to.
LEMMA OtherPeers ==
    ASSUME RInv, TypeInv', NEW m \in Node, Serving(m), term'[m] = term[m],
           NEW p \in Node \ {m}, term[p] <= term'[p], store'[p] = store[p],
           replLog'[m] = replLog[m], peerAcked'[m][p] = peerAcked[m][p],
           \A d \in calls' : d.to = p => d \in calls
    PROVE  PeerFine(m, p)'
<1>1. \A d \in calls' : d.from = m /\ d.to = p /\ (d.state = "applying" \/ d.state = "ok") =>
          \E c \in calls : SameRequest(d, c) /\ c.state = d.state /\ c.k = d.k
  BY Zenon DEF SameRequest
<1>2. Foreign(m, p)' => Foreign(m, p)
  BY Zenon DEF Foreign
<1>3. PeerFine(m, p) /\ TypeInv /\ p \in Node
  BY Zenon DEF RInv, ServingInv
<1> QED
  BY <1>1, <1>2, <1>3, PeerKept

\* A caller takes an error or a refusal.
LEMMA NotAcknowledgedKeeps ==
    ASSUME RInv, TypeInv', Undisturbed, NEW c \in calls, Answered(c), c.state # "ok"
    PROVE  RInv'
<1>1. c.from \in Node /\ c.current \in 0 .. MaxTerm
  BY CallShape, Zenon DEF RInv, TypeInv, CallTyped
<1>0. /\ calls' = calls \ {c} /\ Advance(c.from)
      /\ (Adopts(c.from) /\ MayAdopt(c.from)) \/ UNCHANGED election
      /\ UNCHANGED <<store, replLog, peerAcked, seeding, puts>>
  BY <1>1, Zenon DEF Answered, Adopts
<1>2. \A m \in Node : loop'[m] = loop[m] \/ loop'[m] = Quiet
  BY <1>0, <1>1, AdvanceFacts, Zenon DEF RInv
<1>3. /\ OfficeInv' /\ LoopInv' /\ PutInv' /\ ListInv'
      /\ won \subseteq won' /\ \A m \in Node : term[m] <= term'[m]
      /\ \A m \in Node : leads'[m] => leads[m]
      /\ \A m \in Node : Serving(m)' =>
             /\ Serving(m) /\ term'[m] = term[m] /\ store'[m] = store[m]
             /\ \A k \in Key : Pending(m, k) => Pending(m, k)'
  BY <1>0, <1>1, <1>2, CallMoves, Zenon
<1>4. CallInv'
  <2>1. \A e \in calls' : e.to \in Node /\ e \in calls
    BY <1>0, CallShape, Zenon DEF RInv
  <2>2. \A e \in calls' : e.state = "applying" => ~leads'[e.to]
    BY <1>3, <2>1, Zenon DEF RInv, CallInv
  <2> QED
    BY <1>0, <1>3, <2>2, CallsRemoved, ZenonT(30) DEF RInv
<1>5. ASSUME NEW m \in Node, Serving(m)' PROVE LogFine(m)' /\ \A p \in Node \ {m} : PeerFine(m, p)'
  <2>1. \A d \in calls' : \E e \in calls : Continues(d, e, m)
    BY <1>0, Unhandled, Zenon
  <2>2. loop'[m] = loop[m] \/ loop'[m].pc # "sending"
    BY <1>2, QuietSends, Zenon
  <2> QED
    BY <1>0, <1>3, <1>5, <2>1, <2>2, ServingKept, ZenonT(30)
<1> QED
  BY <1>3, <1>4, <1>5, Zenon DEF RInv, ServingInv

\* A caller takes an acknowledgement: the peer holds what it acknowledges.
LEMMA AcknowledgedKeeps ==
    ASSUME RInv, TypeInv', Undisturbed, NEW c \in calls, Answered(c), c.state = "ok"
    PROVE  RInv'
<1> DEFINE n == c.from
           q == c.to
           a == peerAcked[n][q]
<1>1. n \in Node /\ q \in Node /\ n # q /\ a \in Nat /\ c.base \in Nat /\ Len(c.entries) \in Nat
      /\ End(c) = c.base + Len(c.entries)
  BY CallShape, ZenonT(30) DEF RInv, TypeInv
<1>0. /\ UNCHANGED election /\ calls' = calls \ {c} /\ Advance(n)
      /\ ackPeer(n, q, AppliedThrough(c))
      /\ UNCHANGED <<store, replLog, seeding, puts>>
  BY Zenon DEF Answered
<1>2. \A m \in Node : loop'[m] = loop[m] \/ loop'[m] = Quiet
  BY <1>0, <1>1, AdvanceFacts, Zenon DEF RInv
<1>3. /\ OfficeInv' /\ LoopInv' /\ PutInv' /\ ListInv'
      /\ won \subseteq won' /\ \A m \in Node : term[m] <= term'[m]
      /\ \A m \in Node : leads'[m] => leads[m]
      /\ \A m \in Node : Serving(m)' =>
             /\ Serving(m) /\ term'[m] = term[m] /\ store'[m] = store[m]
             /\ \A k \in Key : Pending(m, k) => Pending(m, k)'
  BY <1>0, <1>1, <1>2, CallMoves, ZenonT(30)
<1>4. CallInv'
  <2>1. leads' = leads
    BY <1>0, Zenon DEF election
  <2> QED
    BY <1>0, <1>3, <2>1, CallsRemoved, ZenonT(30) DEF RInv, CallInv
<1>5. /\ \A m \in Node : m # n => peerAcked'[m] = peerAcked[m]
      /\ \A p \in Node : p # q => peerAcked'[n][p] = peerAcked[n][p]
      /\ peerAcked'[n][q] = a \/ peerAcked'[n][q] = End(c)
  <2>1. peerAcked \in [Node -> [Node -> Nat]]
    BY DEF RInv, TypeInv
  <2>2. AppliedThrough(c) = 0 \/ AppliedThrough(c) = End(c)
    BY DEF AppliedThrough, End
  <2>3. peerAcked' = [peerAcked EXCEPT ![n][q] =
                         IF AppliedThrough(c) > peerAcked[n][q] THEN AppliedThrough(c)
                         ELSE peerAcked[n][q]]
    BY <1>0, Zenon DEF ackPeer
  <2>4. /\ \A m \in Node : m # n => peerAcked'[m] = peerAcked[m]
        /\ \A p \in Node : p # q => peerAcked'[n][p] = peerAcked[n][p]
        /\ peerAcked'[n][q] = IF AppliedThrough(c) > a THEN AppliedThrough(c) ELSE a
    BY ONLY <1>1, <2>1, <2>3, Zenon
  <2> QED
    BY ONLY <1>1, <2>2, <2>4
<1>6. ASSUME NEW m \in Node, m # n, Serving(m)'
      PROVE  LogFine(m)' /\ \A p \in Node \ {m} : PeerFine(m, p)'
  <2>1. \A d \in calls' : \/ d.from # m /\ d.state = "sent"
                          \/ \E e \in calls : Continues(d, e, m)
    BY <1>0, Unhandled, Zenon
  <2>2. loop'[m] = loop[m] \/ loop'[m].pc # "sending"
    BY <1>2, QuietSends, Zenon
  <2>3. /\ replLog'[m] = replLog[m] /\ peerAcked'[m] = peerAcked[m]
        /\ \A p \in Node \ {m} : store'[p] = store[p]
    BY <1>0, <1>5, <1>6, ZenonT(30)
  <2> QED
    BY <1>3, <1>6, <2>1, <2>2, <2>3, ServingApart, ZenonT(30)
<1>7. ASSUME Serving(n)' PROVE LogFine(n)' /\ \A p \in Node \ {n} : PeerFine(n, p)'
  <2>1. Serving(n) /\ term'[n] = term[n] /\ \A k \in Key : Pending(n, k) => Pending(n, k)'
    BY <1>1, <1>3, <1>7, Zenon
  <2>2. /\ Carries(c, n) /\ LogFine(n) /\ \A p \in Node \ {n} : PeerFine(n, p)
        /\ \A e \in calls : e.from = n => e = c
        /\ ~(term[q] < term[n])
        /\ term[q] = term[n] => ~Foreign(n, q) /\ Reached(n, q)
    BY <2>1, OwnCall, ZenonT(30)
  <2>3. \A e \in calls' : e.from # n
    BY <1>0, <2>2
  <2>4. LogFine(n)'
    <3>1. \A k \in Key : store'[n][k] = After(replLog'[n], Len(replLog'[n]), k) \/ Pending(n, k)'
      BY <1>0, <2>1, <2>2, Zenon DEF LogFine
    <3>2. \A p \in Node : peerAcked'[n][p] <= Len(replLog'[n])
      <4>1. \A p \in Node : peerAcked[n][p] <= Len(replLog[n])
        BY <2>2, Zenon DEF LogFine
      <4>2. End(c) <= Len(replLog[n])
        BY <2>2, Zenon DEF Carries
      <4> QED
        BY <1>0, <1>5, <4>1, <4>2, Zenon
    <3>3. loop'[n].pc = "sending" => loop'[n].term = term'[n]
      <4>1. loop'[n] = loop[n] \/ loop'[n].pc # "sending"
        BY <1>1, <1>2 DEF Quiet
      <4> QED
        BY <2>1, <2>2, <4>1, Zenon DEF LogFine
    <3> QED
      BY <2>3, <3>1, <3>2, <3>3, Zenon DEF LogFine
  <2>5. ASSUME NEW p \in Node \ {n}, p # q PROVE PeerFine(n, p)'
    <3>1. \A d \in calls' : d.to = p => d \in calls
      BY <1>0, Zenon
    <3>2. /\ term[p] <= term'[p] /\ store'[p] = store[p] /\ replLog'[n] = replLog[n]
          /\ peerAcked'[n][p] = peerAcked[n][p]
      BY <1>0, <1>3, <1>5, <2>5
    <3> QED
      BY <1>1, <2>1, <3>1, <3>2, OtherPeers, Zenon
  <2>6. PeerFine(n, q)'
    <3>1. term' = term
      BY <1>0 DEF election
    <3>2. ASSUME term[q] = term[n] PROVE ~Foreign(n, q)' /\ Reached(n, q)'
      <4>1. ~Foreign(n, q) /\ Reached(n, q)
        BY <2>2, <3>2
      <4>2. ~Foreign(n, q)'
        BY <1>0, <4>1, Zenon DEF Foreign
      <4>3. Holds(n, q, a) /\ Holds(n, q, End(c))
        BY <4>1, Zenon DEF Reached
      <4>4. Holds(n, q, peerAcked'[n][q])
        BY <1>5, <4>3, Zenon
      <4>5. \A start : Holds(n, q, start) => Holds(n, q, start)'
        BY <1>0, Zenon DEF Holds
      <4> QED
        BY <2>3, <4>2, <4>4, <4>5, Zenon DEF Reached
    <3> QED
      BY <2>2, <3>1, <3>2, Zenon DEF PeerFine
  <2> QED
    BY <2>4, <2>5, <2>6, Zenon
<1> QED
  BY <1>3, <1>4, <1>6, <1>7, Zenon DEF RInv, ServingInv

\* A peer holds what it has acknowledged to a serving leader, or is not in its term yet.
LEMMA HeldSoFar ==
    ASSUME RInv, NEW m \in Node, Serving(m), NEW p \in Node \ {m},
           term[p] <= term[m], ~Foreign(m, p)
    PROVE  /\ Holds(m, p, peerAcked[m][p])
           /\ \A c \in calls : c.from = m /\ c.to = p =>
                  /\ c.state = "applying" => Holds(m, p, c.base + c.k - 1)
                  /\ c.state = "ok" => Holds(m, p, End(c))
<1>0. PeerFine(m, p) /\ p \in Node /\ term[m] \in Int /\ term[p] \in Int
  BY ReplicationAssumption DEF RInv, ServingInv, TypeInv
<1>1. CASE term[p] = term[m]
  BY <1>0, <1>1, Zenon DEF PeerFine, Reached
<1>2. CASE term[p] # term[m]
  <2>1. term[p] < term[m]
    BY <1>0, <1>2
  <2>2. Untouched(m, p)
    BY <1>0, <2>1, Zenon DEF PeerFine
  <2>3. Holds(m, p, 0)
    BY <1>0, HoldsFromStart, Zenon DEF RInv
  <2> QED
    BY <2>2, <2>3, Zenon DEF Untouched
<1> QED
  BY <1>1, <1>2, Zenon

\* A node joins the term of a caller and begins to apply its entries.
LEMMA AcceptKeeps ==
    ASSUME RInv, TypeInv', Undisturbed, NEW c \in calls, Accept(c)
    PROVE  RInv'
<1> DEFINE q == c.to
<1>1. /\ c \in Call /\ c.from \in Node /\ q \in Node /\ c.from # q
      /\ c.term \in 0 .. MaxTerm /\ c.term \in Int /\ term[q] \in Int
      /\ c.base \in Nat /\ <<c.from, c.term>> \in won
  <2>1. c \in Call /\ c.from \in Node /\ q \in Node /\ c.from # q /\ c.term \in 0 .. MaxTerm
        /\ c.base \in Nat
    BY CallShape, Zenon DEF RInv
  <2>2. <<c.from, c.term>> \in won
    BY Zenon DEF RInv, CallInv
  <2>3. term[q] \in 0 .. MaxTerm
    BY <2>1 DEF RInv, TypeInv
  <2> QED
    BY <2>1, <2>2, <2>3, ReplicationAssumption
<1>d. PICK d : d = [c EXCEPT !.state = "applying"]
  BY Zenon
<1>0. /\ calls' = (calls \ {c}) \cup {d} /\ c.state = "sent" /\ MayAdopt(q)
      /\ \A e \in calls : ~(e.to = q /\ e.state = "applying")
      /\ c.term >= term[q]
      /\ IF c.term > term[q] THEN Election!Adopt(q, c.term) ELSE UNCHANGED election
      /\ UNCHANGED <<store, replLog, peerAcked, seeding, puts, loop>>
  BY <1>d DEF Accept, log, Undisturbed, Applying, ObserveLeader
<1>2. SameRequest(d, c) /\ d.state = "applying" /\ d.k = c.k /\ d.waited = c.waited
  BY <1>1, <1>d, Edited, ZenonT(30)
<1>3. (Adopts(q) /\ MayAdopt(q)) \/ UNCHANGED election
  BY <1>0, <1>1 DEF Adopts
<1>4. /\ OfficeInv' /\ LoopInv' /\ PutInv' /\ ListInv'
      /\ won \subseteq won' /\ \A m \in Node : term[m] <= term'[m]
      /\ \A m \in Node : leads'[m] => leads[m]
      /\ \A m \in Node : Serving(m)' =>
             /\ Serving(m) /\ term'[m] = term[m] /\ store'[m] = store[m]
             /\ \A k \in Key : Pending(m, k) => Pending(m, k)'
  BY <1>0, <1>1, <1>3, CallMoves, Zenon
<1>5. term'[q] = c.term /\ ~leads'[q]
  <2>1. CASE c.term > term[q]
    <3>1. Election!Adopt(q, c.term) /\ leads \in [Node -> BOOLEAN] /\ term \in [Node -> 0 .. MaxTerm]
      BY <1>0, <2>1, ZenonT(30) DEF RInv, TypeInv
    <3> QED
      BY <1>1, <3>1, Zenon DEF Election!Adopt
  <2>2. CASE ~(c.term > term[q])
    <3>1. UNCHANGED election /\ c.term = term[q]
      BY <1>0, <1>1, <2>2
    <3>2. ~leads[q]
      BY <1>1, <3>1, Zenon DEF RInv, OfficeInv
    <3> QED
      BY <3>1, <3>2, Zenon DEF election
  <2> QED
    BY <2>1, <2>2, Zenon
<1>6. CallInv'
  <2>1. \A e \in calls : e.to \in Node
    BY CallShape, Zenon DEF RInv
  <2>2. d.to = q
    BY <1>2, Zenon DEF SameRequest
  <2>3. \A e \in calls' : e.state = "applying" => ~leads'[e.to]
    BY <1>0, <1>4, <1>5, <2>1, <2>2, Zenon DEF RInv, CallInv
  <2> QED
    BY <1>0, <1>2, <1>4, <2>3, CallsReplaced DEF RInv
<1>7. ASSUME NEW m \in Node, Serving(m)' PROVE LogFine(m)' /\ \A p \in Node \ {m} : PeerFine(m, p)'
  <2>1. /\ Serving(m) /\ term'[m] = term[m] /\ store'[m] = store[m]
        /\ \A k \in Key : Pending(m, k) => Pending(m, k)'
        /\ LogFine(m) /\ \A p \in Node \ {m} : PeerFine(m, p)
    BY <1>4, <1>7, Zenon DEF RInv, ServingInv
  <2>2. m # q
    BY <1>5, <1>7, Zenon DEF Serving
  <2>3. LogFine(m)'
    <3>1. \A e \in calls' : e.from = m =>
              \E f \in calls : /\ SameRequest(e, f) /\ e.waited = f.waited
                               /\ e.state \in {"sent", "applying"} => f.state \in {"sent", "applying"}
      BY <1>0, <1>2, Zenon DEF SameRequest
    <3>2. loop'[m].pc = "sending" => loop'[m].term = term[m]
      BY <1>0, <2>1, Zenon DEF LogFine
    <3> QED
      BY <1>0, <2>1, <3>1, <3>2, LogKept, ZenonT(30)
  <2>4. ASSUME NEW p \in Node \ {m}, p # q PROVE PeerFine(m, p)'
    <3>1. \A e \in calls' : e.to = p => e \in calls
      BY <1>0, <1>2, <2>4, ZenonT(30) DEF SameRequest
    <3> QED
      BY <1>0, <1>4, <2>1, <3>1, OtherPeers, ZenonT(30)
  <2>5. CASE c.from = m
    <3>1. Carries(c, m)
      BY <2>1, <2>5, Zenon DEF LogFine
    <3>2. c.term = term[m] /\ c.base = peerAcked[m][q] /\ c.k = 1
      BY <1>0, <3>1, ZenonT(30) DEF Carries, RInv, CallInv
    <3>3. ~Foreign(m, q) /\ ~Foreign(m, q)'
      BY <1>0, <1>2, <2>5, Zenon DEF Foreign, SameRequest
    <3>4. term[q] <= term[m]
      BY <1>0, <1>1, <3>2, Zenon
    <3>5. /\ Holds(m, q, peerAcked[m][q])
          /\ \A e \in calls : e.from = m /\ e.to = q =>
                 /\ e.state = "applying" => Holds(m, q, e.base + e.k - 1)
                 /\ e.state = "ok" => Holds(m, q, End(e))
      BY <1>1, <2>1, <2>2, <3>3, <3>4, HeldSoFar, Zenon
    <3>6. d.base + d.k - 1 = peerAcked[m][q]
      BY <1>1, <1>2, <3>2 DEF SameRequest
    <3>7. \A start : Holds(m, q, start) => Holds(m, q, start)'
      BY <1>0, Zenon DEF Holds
    <3>8. ASSUME NEW e \in calls', e.from = m, e.to = q
          PROVE  /\ e.state = "applying" => Holds(m, q, e.base + e.k - 1)'
                 /\ e.state = "ok" => Holds(m, q, End(e))'
      <4>1. CASE e = d
        <5>1. Holds(m, q, d.base + d.k - 1)
          BY <3>5, <3>6, Zenon
        <5> QED
          BY <1>2, <3>7, <4>1, <5>1
      <4>2. CASE e # d
        BY <1>0, <3>5, <3>7, <3>8, <4>2, Zenon
      <4> QED
        BY <4>1, <4>2, Zenon
    <3>9. Reached(m, q)'
      BY <1>0, <3>5, <3>7, <3>8, Zenon DEF Reached, End
    <3>10. ~(term'[q] < term'[m])
      BY <1>1, <1>5, <2>1, <3>2
    <3>11. PeerFine(m, q)'
      BY <3>3, <3>9, <3>10, Zenon DEF PeerFine
    <3> QED
      BY <2>3, <2>4, <3>11
  <2>6. CASE c.from # m
    <3>1. term'[q] # term[m]
      <4>1. <<m, term[m]>> \in won
        BY <2>1, Zenon DEF Serving, RInv, OfficeInv
      <4> QED
        BY <1>1, <1>5, <2>6, <4>1, Zenon DEF RInv, OfficeInv
    <3>2. \A e \in calls' : e.from = m /\ e.to = q /\ (e.state = "applying" \/ e.state = "ok") =>
              \E f \in calls : SameRequest(e, f) /\ f.state = e.state /\ f.k = e.k
      BY <1>0, <1>2, <2>6, Zenon DEF SameRequest
    <3>3. PeerFine(m, q)'
      BY <1>0, <1>1, <1>4, <2>1, <2>2, <3>1, <3>2, PeerKept, ZenonT(30) DEF RInv
    <3> QED
      BY <2>3, <2>4, <3>3
  <2> QED
    BY <2>5, <2>6
<1> QED
  BY <1>4, <1>6, <1>7, Zenon DEF RInv, ServingInv

\* One more entry of the log, stored on a peer that has the log so far.
LEMMA HoldsNext ==
    ASSUME TypeInv, NEW m \in Node, NEW p \in Node, NEW s \in Nat, s + 1 <= Len(replLog[m]),
           replLog'[m] = replLog[m], Holds(m, p, s),
           store' = [store EXCEPT ![p][replLog[m][s + 1].key] = replLog[m][s + 1].val]
    PROVE  Holds(m, p, s + 1)'
<1> DEFINE x == replLog[m]
           e == x[s + 1]
<1>1. Len(x) \in Nat /\ s + 1 \in 1 .. Len(x) /\ x \in Seq(ReplicationEntry)
  BY DEF TypeInv
<1>2. e \in ReplicationEntry
  BY <1>1
<1>3. e.key \in Key
  BY <1>2 DEF ReplicationEntry
<1>4. /\ store'[p][e.key] = e.val
      /\ \A l \in Key : l # e.key => store'[p][l] = store[p][l]
  <2>1. store \in [Node -> [Key -> Nat]]
    BY Zenon DEF TypeInv, Contents
  <2> HIDE DEF e
  <2>2. store' = [store EXCEPT ![p][e.key] = e.val]
    BY DEF e
  <2> QED
    BY ONLY <1>3, <2>1, <2>2, p \in Node
<1> HIDE DEF e, x
<1>5. ASSUME NEW l \in Key
      PROVE  \E j \in s + 1 .. Len(x) : After(x, j, l) \in {0, store'[p][l]}
  <2>1. After(x, s + 1, l) = IF e.key = l THEN e.val ELSE After(x, s, l)
    BY AfterNext DEF e
  <2>2. s + 1 \in s + 1 .. Len(x)
    BY <1>1
  <2>3. CASE l = e.key
    BY <1>4, <2>1, <2>2, <2>3, Zenon
  <2>4. CASE l # e.key
    <3>1. PICK j \in s .. Len(x) : After(x, j, l) \in {0, store[p][l]}
      BY Zenon DEF Holds, x
    <3>2. CASE j = s
      BY <1>4, <2>1, <2>2, <2>4, <3>1, <3>2, Zenon
    <3>3. CASE j # s
      <4>1. j \in s + 1 .. Len(x)
        BY <1>1, <3>3
      <4> QED
        BY <1>4, <2>4, <3>1, <4>1, Zenon
    <3> QED
      BY <3>2, <3>3
  <2> QED
    BY <2>3, <2>4, Zenon
<1> QED
  BY <1>5, Zenon DEF Holds, x

\* A handler applies an entry: on a peer in the term of a serving leader, the next one of
\* the leader's log.
LEMMA ApplyEntryKeeps ==
    ASSUME RInv, TypeInv', Undisturbed, NEW c \in calls, ApplyEntry(c)
    PROVE  RInv'
<1> DEFINE q == c.to
           e == c.entries[c.k]
<1>1. /\ c \in Call /\ c.from \in Node /\ q \in Node /\ c.from # q
      /\ c.base \in Nat /\ Len(c.entries) \in Nat /\ c.k \in Nat /\ 1 <= c.k
      /\ End(c) = c.base + Len(c.entries)
  BY CallShape, Zenon DEF RInv
<1>d. PICK d : d = [c EXCEPT !.k = @ + 1]
  BY Zenon
<1>0. /\ UNCHANGED election /\ calls' = (calls \ {c}) \cup {d}
      /\ c.state = "applying" /\ c.k <= Len(c.entries)
      /\ store' = [store EXCEPT ![q][e.key] = e.val]
      /\ UNCHANGED <<replLog, peerAcked, seeding, puts, loop>>
  <2>1. ~(errors < MaxErrors)
    BY DEF RInv, TypeInv, Undisturbed
  <2> QED
    BY <1>d, <2>1 DEF ApplyEntry, log
<1>2. SameRequest(d, c) /\ d.state = c.state /\ d.k = c.k + 1 /\ d.waited = c.waited
  BY <1>1, <1>d, EditedNext
<1>3. ~leads[q] /\ leads' = leads /\ term' = term
  BY <1>0, Zenon DEF RInv, CallInv, election
<1>4. \A p \in Node : p # q => store'[p] = store[p]
  BY <1>0, <1>1 DEF RInv, TypeInv
<1>5. /\ OfficeInv' /\ LoopInv' /\ PutInv' /\ ListInv'
      /\ won \subseteq won' /\ \A m \in Node : term[m] <= term'[m]
      /\ \A m \in Node : leads'[m] => leads[m]
      /\ \A m \in Node : Serving(m)' =>
             /\ Serving(m) /\ term'[m] = term[m] /\ store'[m] = store[m]
             /\ \A k \in Key : Pending(m, k) => Pending(m, k)'
  BY <1>0, <1>1, <1>3, <1>4, CallMoves, Zenon
<1>6. CallInv'
  <2>1. d.to = q
    BY <1>2, Zenon DEF SameRequest
  <2>2. \A f \in calls' : f.state = "applying" => ~leads'[f.to]
    BY <1>0, <1>3, <2>1, Zenon DEF RInv, CallInv
  <2>3. \A f \in calls \ {c} : ~(f.to = c.to /\ f.state = "applying")
    BY <1>0, Zenon DEF RInv, CallInv
  <2> QED
    BY <1>0, <1>2, <1>5, <2>2, <2>3, CallsReplaced, Zenon DEF RInv
<1>7. ASSUME NEW m \in Node, Serving(m)', c.from # m
      PROVE  LogFine(m)' /\ \A p \in Node \ {m} : PeerFine(m, p)'
  <2>1. Foreign(m, q)
    BY <1>0, <1>7, Zenon DEF Foreign
  <2>2. /\ Serving(m) /\ replLog'[m] = replLog[m] /\ peerAcked'[m] = peerAcked[m] /\ loop'[m] = loop[m]
        /\ \A p \in Node \ {m} : term[p] = term[m] /\ ~Foreign(m, p) => store'[p] = store[p]
    BY <1>0, <1>4, <1>5, <1>7, <2>1, Zenon
  <2>3. Continues(d, c, m)
    BY <1>0, <1>2, <1>7, Zenon DEF Continues, SameRequest
  <2>4. \A f \in calls' : \/ f.from # m /\ f.state = "sent"
                          \/ \E g \in calls : Continues(f, g, m)
    BY <1>0, <2>3, Unhandled, Zenon
  <2> QED
    BY <1>5, <1>7, <2>2, <2>4, ServingApart, ZenonT(30)
<1>8. ASSUME Serving(c.from)'
      PROVE  LogFine(c.from)' /\ \A p \in Node \ {c.from} : PeerFine(c.from, p)'
  <2> DEFINE m == c.from
  <2>1. /\ Serving(m) /\ term'[m] = term[m] /\ store'[m] = store[m]
        /\ \A k \in Key : Pending(m, k) => Pending(m, k)'
    BY <1>1, <1>5, <1>8, ZenonT(30)
  <2>2. /\ Carries(c, m) /\ LogFine(m) /\ \A p \in Node \ {m} : PeerFine(m, p)
        /\ \A f \in calls : f.from = m => f = c
        /\ ~(term[q] < term[m])
        /\ term[q] = term[m] => ~Foreign(m, q) /\ Reached(m, q)
    BY <1>0, <2>1, OwnCall, Zenon
  <2>3. LogFine(m)'
    <3>1. \A f \in calls' : f.from = m =>
              \E g \in calls : /\ SameRequest(f, g) /\ f.waited = g.waited
                               /\ f.state \in {"sent", "applying"} => g.state \in {"sent", "applying"}
      BY <1>0, <1>2 DEF SameRequest
    <3>2. loop'[m].pc = "sending" => loop'[m].term = term[m]
      BY <1>0, <2>2, Zenon DEF LogFine
    <3> QED
      BY <1>0, <1>1, <2>1, <2>2, <3>1, <3>2, LogKept, Zenon
  <2>4. ASSUME NEW p \in Node \ {m}, p # q PROVE PeerFine(m, p)'
    <3>1. \A f \in calls' : f.to = p => f \in calls
      BY <1>0, <1>2, <2>4 DEF SameRequest
    <3> QED
      BY <1>0, <1>1, <1>4, <1>5, <2>1, <2>4, <3>1, OtherPeers, Zenon
  <2>5. PeerFine(m, q)'
    <3>1. ASSUME term[q] = term[m] PROVE ~Foreign(m, q)' /\ Reached(m, q)'
      <4>1. ~Foreign(m, q) /\ Reached(m, q)
        BY <2>2, <3>1, Zenon
      <4>2. ~Foreign(m, q)'
        BY <1>0, <1>2, <4>1, Zenon DEF Foreign, SameRequest
      <4> DEFINE s == c.base + c.k - 1
      <4>3. s \in Nat /\ s + 1 = c.base + c.k /\ s + 1 <= End(c) /\ c.k \in 1 .. Len(c.entries)
        <5>1. c.k <= Len(c.entries)
          BY <1>0, Zenon
        <5> QED
          BY ONLY <1>1, <5>1
      <4>4. replLog[m][s + 1] = e /\ s + 1 <= Len(replLog[m]) /\ c.base = peerAcked[m][q]
        <5>1. /\ End(c) <= Len(replLog[m]) /\ c.base = peerAcked[m][q]
              /\ \A i \in 1 .. Len(c.entries) : c.entries[i] = replLog[m][c.base + i]
          BY <1>0, <2>2, Zenon DEF Carries
        <5>2. Len(replLog[m]) \in Nat
          BY <1>1 DEF RInv, TypeInv
        <5>3. c.entries[c.k] = replLog[m][c.base + c.k]
          BY <4>3, <5>1, Zenon
        <5>4. replLog[m][s + 1] = e
          BY ONLY <4>3, <5>3
        <5>5. s + 1 <= Len(replLog[m])
          BY ONLY <1>1, <4>3, <5>1, <5>2
        <5> QED
          BY <5>1, <5>4, <5>5, Zenon
      <4>5. Holds(m, q, s)
        BY <1>0, <4>1, Zenon DEF Reached
      <4> HIDE DEF s
      <4>6. Holds(m, q, s + 1)'
        BY <1>0, <1>1, <4>3, <4>4, <4>5, HoldsNext, Zenon DEF RInv
      <4>7. Holds(m, q, c.base)'
        <5>1. \A l \in Key : \E j \in s + 1 .. Len(replLog'[m]) :
                  After(replLog'[m], j, l) \in {0, store'[q][l]}
          BY <4>6, Zenon DEF Holds, s
        <5>2. \A j \in s + 1 .. Len(replLog'[m]) : j \in c.base .. Len(replLog'[m])
          BY <1>1, <4>3
        <5>3. \A l \in Key : \E j \in c.base .. Len(replLog'[m]) :
                  After(replLog'[m], j, l) \in {0, store'[q][l]}
          BY <5>1, <5>2, Zenon
        <5> QED
          BY <5>3, Zenon DEF Holds
      <4>8. Holds(m, q, peerAcked[m][q])'
        BY <1>0, <4>4, <4>7, Zenon DEF Holds
      <4>9. ASSUME NEW f \in calls', f.from = m, f.to = q
            PROVE  /\ f.state = "applying" => Holds(m, q, f.base + f.k - 1)'
                   /\ f.state = "ok" => Holds(m, q, End(f))'
        <5>1. f = d
          BY <1>0, <2>2, <4>9, Zenon
        <5>2. d.state # "ok" /\ d.base + d.k - 1 = s + 1
          BY <1>0, <1>1, <1>2, <4>3 DEF SameRequest
        <5> QED
          BY <4>6, <5>1, <5>2, Zenon
      <4> QED
        BY <4>2, <4>8, <4>9, Zenon DEF Reached, End
    <3> QED
      BY <1>3, <2>2, <3>1, Zenon DEF PeerFine
  <2> QED
    BY <2>3, <2>4, <2>5, Zenon
<1> QED
  BY <1>5, <1>6, <1>7, <1>8, Zenon DEF RInv, ServingInv

\* A handler answers: the peer of a serving leader holds all that was sent.
LEMMA AppliedKeeps ==
    ASSUME RInv, TypeInv', Undisturbed, NEW c \in calls, Applied(c)
    PROVE  RInv'
<1> DEFINE q == c.to
<1>1. /\ c \in Call /\ c.from \in Node /\ q \in Node /\ c.from # q
      /\ c.base \in Nat /\ Len(c.entries) \in Nat /\ c.k \in Nat /\ c.k <= Len(c.entries) + 1
      /\ End(c) = c.base + Len(c.entries)
  BY CallShape, Zenon DEF RInv
<1>d. PICK d : d = [c EXCEPT !.state = "ok"]
  BY Zenon
<1>0. /\ UNCHANGED election /\ calls' \subseteq (calls \ {c}) \cup {d}
      /\ c.state = "applying" /\ c.k > Len(c.entries)
      /\ UNCHANGED <<store, replLog, peerAcked, seeding, puts, loop>>
  BY <1>d DEF Applied, log, Reply
<1>2. SameRequest(d, c) /\ d.state = "ok" /\ d.k = c.k /\ d.waited = c.waited
  BY <1>1, <1>d, Edited, ZenonT(30)
<1>3. leads' = leads /\ term' = term
  BY <1>0, Zenon DEF election
<1>4. /\ OfficeInv' /\ LoopInv' /\ PutInv' /\ ListInv'
      /\ won \subseteq won' /\ \A m \in Node : term[m] <= term'[m]
      /\ \A m \in Node : leads'[m] => leads[m]
      /\ \A m \in Node : Serving(m)' =>
             /\ Serving(m) /\ term'[m] = term[m] /\ store'[m] = store[m]
             /\ \A k \in Key : Pending(m, k) => Pending(m, k)'
  BY <1>0, <1>1, CallMoves, ZenonT(30)
<1>5. CallInv'
  <2>1. \A f \in calls' : f.state = "applying" => ~leads'[f.to]
    BY <1>0, <1>2, <1>3, ZenonT(30) DEF RInv, CallInv
  <2> QED
    BY <1>0, <1>2, <1>4, <2>1, CallsReplaced, ZenonT(30) DEF RInv
<1>6. ASSUME NEW m \in Node, Serving(m)', c.from # m
      PROVE  LogFine(m)' /\ \A p \in Node \ {m} : PeerFine(m, p)'
  <2>1. Continues(d, c, m)
    BY <1>2, <1>6 DEF Continues, SameRequest
  <2>2. \A f \in calls' : \E g \in calls : Continues(f, g, m)
    BY <1>0, <2>1, Unhandled, Zenon
  <2>3. loop'[m] = loop[m]
    BY <1>0, Zenon
  <2> QED
    BY <1>0, <1>4, <1>6, <2>2, <2>3, ServingKept, Zenon
<1>7. ASSUME Serving(c.from)'
      PROVE  LogFine(c.from)' /\ \A p \in Node \ {c.from} : PeerFine(c.from, p)'
  <2> DEFINE m == c.from
  <2>1. /\ Serving(m) /\ term'[m] = term[m] /\ store'[m] = store[m]
        /\ \A k \in Key : Pending(m, k) => Pending(m, k)'
    BY <1>1, <1>4, <1>7, Zenon
  <2>2. /\ Carries(c, m) /\ LogFine(m) /\ \A p \in Node \ {m} : PeerFine(m, p)
        /\ \A f \in calls : f.from = m => f = c
        /\ ~(term[q] < term[m])
        /\ term[q] = term[m] => ~Foreign(m, q) /\ Reached(m, q)
    BY <1>0, <2>1, OwnCall, Zenon
  <2>3. LogFine(m)'
    <3>1. \A f \in calls' : f.from = m =>
              \E g \in calls : /\ SameRequest(f, g) /\ f.waited = g.waited
                               /\ f.state \in {"sent", "applying"} => g.state \in {"sent", "applying"}
      BY <1>0, <1>2 DEF SameRequest
    <3>2. loop'[m].pc = "sending" => loop'[m].term = term[m]
      BY <1>0, <2>2, Zenon DEF LogFine
    <3> QED
      BY <1>0, <1>1, <2>1, <2>2, <3>1, <3>2, LogKept, ZenonT(30)
  <2>4. ASSUME NEW p \in Node \ {m}, p # q PROVE PeerFine(m, p)'
    <3>1. \A f \in calls' : f.to = p => f \in calls
      BY <1>0, <1>2, <2>4 DEF SameRequest
    <3> QED
      BY <1>0, <1>1, <1>4, <2>1, <2>4, <3>1, OtherPeers, ZenonT(30)
  <2>5. PeerFine(m, q)'
    <3>1. ASSUME term[q] = term[m] PROVE ~Foreign(m, q)' /\ Reached(m, q)'
      <4>1. ~Foreign(m, q) /\ Reached(m, q)
        BY <2>2, <3>1
      <4>2. ~Foreign(m, q)'
        BY <1>0, <1>2, <4>1, Zenon DEF Foreign, SameRequest
      <4>3. c.base + c.k - 1 = End(c)
        <5>1. c.k > Len(c.entries)
          BY <1>0, Zenon
        <5> QED
          BY ONLY <1>1, <5>1
      <4>4. Holds(m, q, End(c)) /\ Holds(m, q, peerAcked[m][q])
        BY <1>0, <4>1, <4>3 DEF Reached
      <4>5. \A start : Holds(m, q, start) => Holds(m, q, start)'
        BY <1>0, Zenon DEF Holds
      <4>6. ASSUME NEW f \in calls', f.from = m, f.to = q
            PROVE  f.state # "applying" /\ Holds(m, q, End(f))'
        <5>1. f = d
          BY <1>0, <2>2, <4>6, Zenon
        <5>2. End(d) = End(c)
          BY <1>2 DEF End, SameRequest
        <5> QED
          BY <1>2, <4>4, <4>5, <5>1, <5>2, Zenon
      <4> QED
        BY <1>0, <4>2, <4>4, <4>5, <4>6, Zenon DEF Reached, End
    <3> QED
      BY <1>3, <2>2, <3>1, Zenon DEF PeerFine
  <2> QED
    BY <2>3, <2>4, <2>5
<1> QED
  BY <1>4, <1>5, <1>6, <1>7, Zenon DEF RInv, ServingInv

\* What is left of a call after a crash of n.
Survives(d, c, n) ==
    \/ d = c /\ c.from # n /\ ~(c.to = n /\ c.state = "applying")
    \/ /\ c.from = n /\ c.to # n /\ c.state = "applying" /\ d = [c EXCEPT !.waited = FALSE]
       /\ d.state = "applying" /\ ~d.waited
    \/ /\ c.from # n /\ c.to = n /\ c.state = "applying" /\ d = [c EXCEPT !.state = "failed"]
       /\ d.state = "failed" /\ d.waited = c.waited

\* What a crash leaves of the calls.
LEMMA CrashSurvivors ==
    ASSUME RInv, Undisturbed, NEW n \in Node, Crash(n), NEW d \in calls'
    PROVE  \E c \in calls : SameRequest(d, c) /\ Survives(d, c, n)
<1>0. Calm /\ TypeInv
  BY DEF Undisturbed, RInv
<1>1. CASE d \in calls /\ d.from # n /\ ~(d.to = n /\ d.state = "applying")
  BY <1>1 DEF SameRequest, Survives
<1>2. ASSUME NEW c \in calls, c.from = n, d = [c EXCEPT !.waited = FALSE], c.to # n,
             c.state = "applying" \/ (~Calm /\ c.state = "sent")
      PROVE  SameRequest(d, c) /\ Survives(d, c, n)
  <2>1. c \in Call
    BY <1>0, CallShape
  <2>2. SameRequest(d, c) /\ d.state = c.state /\ ~d.waited
    BY <1>2, <2>1, EditedOrphan
  <2> QED
    BY <1>0, <1>2, <2>2, Zenon DEF Survives
<1>3. ASSUME NEW c \in calls, c.from # n, d = [c EXCEPT !.state = "failed"], c.to = n,
             c.state = "applying"
      PROVE  SameRequest(d, c) /\ Survives(d, c, n)
  <2>1. c \in Call
    BY <1>0, CallShape
  <2>2. SameRequest(d, c) /\ d.state = "failed" /\ d.waited = c.waited
    BY <1>3, <2>1, Edited, ZenonT(30)
  <2> QED
    BY <1>3, <2>2, Zenon DEF Survives
<1> QED
  BY <1>0, <1>1, <1>2, <1>3, CrashCalls, Zenon

\* A node crashes: its handlers, its loop and what it was applying are gone.
LEMMA CrashKeeps ==
    ASSUME RInv, TypeInv', Undisturbed, NEW n \in Node, Crash(n)
    PROVE  RInv'
<1>0. /\ Election!Lose(n) \/ UNCHANGED election
      /\ ~leads[n] \/ Election!Lose(n)
      /\ replLog' = [replLog EXCEPT ![n] = <<>>]
      /\ peerAcked' = [peerAcked EXCEPT ![n] = [p \in Node |-> 0]]
      /\ seeding' = [seeding EXCEPT ![n] = NotSeeding]
      /\ loop' = [loop EXCEPT ![n] = Quiet]
      /\ puts' = puts \ Putting(n)
      /\ UNCHANGED store
  BY DEF Crash
<1>1. /\ OfficeInv' /\ won \subseteq won' /\ \A m \in Node : term[m] <= term'[m]
      /\ \A m \in Node : leads[m] /\ leads'[m] => term'[m] = term[m]
  BY <1>0, OfficeStep, Zenon DEF RInv, ElectionMoves
<1>2. /\ \A m \in Node : leads'[m] => leads[m]
      /\ \A m \in Node : m # n => leads'[m] = leads[m] /\ term'[m] = term[m]
      /\ ~leads'[n]
  <2>1. /\ \A m \in Node : leads'[m] => leads[m]
        /\ \A m \in Node : m # n => leads'[m] = leads[m] /\ term'[m] = term[m]
    BY <1>0, NoNewLeader, Zenon DEF RInv
  <2>2. ~leads'[n]
    <3>1. leads \in [Node -> BOOLEAN]
      BY Zenon DEF RInv, TypeInv
    <3> QED
      BY <1>0, <2>1, <3>1 DEF Election!Lose
  <2> QED
    BY <2>1, <2>2
<1>3. /\ \A m \in Node : m # n => /\ replLog'[m] = replLog[m] /\ peerAcked'[m] = peerAcked[m]
                                  /\ seeding'[m] = seeding[m] /\ loop'[m] = loop[m]
      /\ loop'[n].pc = "idle"
  BY ONLY <1>0, RInv, n \in Node DEF RInv, TypeInv, Quiet
<1>4. /\ \A h \in puts' : h \in puts /\ h.node # n /\ h.node \in Node
      /\ \A h \in puts : h.node # n => h \in puts'
  BY <1>0, Zenon DEF Putting, RInv, TypeInv, Put
<1>5. LoopInv'
  <2>1. ASSUME NEW m \in Node, m # n
        PROVE  /\ loop'[m].pc = "checked" => leads'[m]
               /\ loop'[m].pc = "sending" => <<m, loop'[m].term>> \in won'
    BY <1>1, <1>2, <1>3, <2>1, ZenonT(30) DEF RInv, LoopInv
  <2>2. loop'[n].pc # "checked" /\ loop'[n].pc # "sending"
    BY <1>3
  <2> QED
    BY <2>1, <2>2, Zenon DEF LoopInv
<1>6. PutInv'
  BY <1>0, <1>2, <1>4, Zenon DEF RInv, PutInv
<1>7. ListInv'
  <2>1. ASSUME NEW m \in Node, leads'[m], seeding'[m].pc = "listed"
        PROVE  seeding'[m].list = store'[m] /\ \A h \in puts' : h.node # m
    <3>1. m # n /\ leads[m] /\ seeding'[m] = seeding[m]
      BY <1>2, <1>3, <2>1, Zenon
    <3>2. seeding[m].list = store[m] /\ \A h \in puts : h.node # m
      BY <2>1, <3>1, Zenon DEF RInv, ListInv
    <3> QED
      BY <1>0, <1>4, <3>1, <3>2, ZenonT(30)
  <2> QED
    BY <2>1, Zenon DEF ListInv
<1>8. \A d \in calls' : \E c \in calls : SameRequest(d, c) /\ Survives(d, c, n)
  BY CrashSurvivors
<1>9. CallInv'
  <2>1. \A d \in calls' : <<d.from, d.term>> \in won'
    BY <1>1, <1>8, Zenon DEF SameRequest, RInv, CallInv
  <2>2. \A d \in calls' : d.state = "applying" => ~leads'[d.to]
    <3>1. \A c \in calls : c.to \in Node
      BY CallShape, Zenon DEF RInv
    <3> QED
      BY <1>2, <1>8, <3>1 DEF SameRequest, Survives, RInv, CallInv
  <2>3. \A d \in calls' : d.state = "sent" => d.k = 1
    BY <1>8 DEF Survives, RInv, CallInv
  <2>4. ASSUME NEW d \in calls', NEW e \in calls', d.from = e.from, d.waited, e.waited
        PROVE  d = e
    <3>1. PICK c \in calls : SameRequest(d, c) /\ Survives(d, c, n)
      BY <1>8, Zenon
    <3>2. PICK f \in calls : SameRequest(e, f) /\ Survives(e, f, n)
      BY <1>8
    <3>3. c.waited /\ f.waited /\ c.from = f.from
      BY <2>4, <3>1, <3>2, Zenon DEF Survives, SameRequest
    <3>4. c = f
      BY <3>3 DEF RInv, CallInv
    <3> QED
      BY <2>4, <3>1, <3>2, <3>4, Zenon DEF Survives
  <2>5. ASSUME NEW d \in calls', NEW e \in calls', d.to = e.to, d.state = "applying", e.state = "applying"
        PROVE  d = e
    <3>1. PICK c \in calls : SameRequest(d, c) /\ Survives(d, c, n)
      BY <1>8
    <3>2. PICK f \in calls : SameRequest(e, f) /\ Survives(e, f, n)
      BY <1>8
    <3>3. c.state = "applying" /\ f.state = "applying" /\ c.to = f.to
      BY <2>5, <3>1, <3>2, Zenon DEF Survives, SameRequest
    <3>4. c = f
      BY <3>3, Zenon DEF RInv, CallInv
    <3>5. d.state # "failed" /\ e.state # "failed"
      BY <2>5, Zenon
    <3> QED
      BY <3>1, <3>2, <3>4, <3>5, Zenon DEF Survives
  <2> QED
    BY <2>1, <2>2, <2>3, <2>4, <2>5, Zenon DEF CallInv
<1>10. ASSUME NEW m \in Node, Serving(m)'
       PROVE  LogFine(m)' /\ \A p \in Node \ {m} : PeerFine(m, p)'
  <2>1. m # n
    BY <1>2, <1>10, Zenon DEF Serving
  <2>2. /\ Serving(m) /\ term'[m] = term[m] /\ loop'[m] = loop[m]
        /\ store'[m] = store[m] /\ replLog'[m] = replLog[m] /\ peerAcked'[m] = peerAcked[m]
        /\ \A p \in Node \ {m} : store'[p] = store[p]
    BY <1>0, <1>2, <1>3, <1>10, <2>1, ZenonT(30) DEF Serving
  <2>3. \A k \in Key : Pending(m, k) => Pending(m, k)'
    BY <1>4, <2>1, Zenon DEF Pending
  <2>4. \A d \in calls' : \E c \in calls : Continues(d, c, m)
    <3>1. ASSUME NEW d \in calls', NEW c \in calls, SameRequest(d, c), Survives(d, c, n)
          PROVE  Continues(d, c, m)
      BY <2>1, <3>1 DEF Continues, Survives, SameRequest
    <3> QED
      BY <1>8, <3>1, Zenon
  <2> QED
    BY <1>1, <2>2, <2>3, <2>4, ServingApart, ZenonT(30)
<1> QED
  BY <1>1, <1>5, <1>6, <1>7, <1>9, <1>10, Zenon DEF RInv, ServingInv

\* What the steps that write the log need to know of it, shown further down: a seeded
\* log says of each key what the list does, an appended entry speaks for its own key.
SnapshotSays == \A list \in Contents : \A k \in Key :
                    After(Snapshot(list), Len(Snapshot(list)), k) = list[k]

AppendSays ==
    \A x \in Seq(ReplicationEntry), e \in ReplicationEntry, k \in Key :
        /\ \A j \in 0 .. Len(x) : After(Append(x, e), j, k) = After(x, j, k)
        /\ After(Append(x, e), Len(x) + 1, k) = IF e.key = k THEN e.val ELSE After(x, Len(x), k)

\* The log is seeded: it says what the store says, and nobody has got any of it.
LEMMA SeedResetKeeps ==
    ASSUME RInv, TypeInv', Undisturbed, SnapshotSays, NEW n \in Node, SeedReset(n)
    PROVE  RInv'
<1>0. /\ UNCHANGED election /\ seeding[n].pc = "listed" /\ loop[n].pc = "idle"
      /\ \A c \in calls : c.from # n
      /\ seeding' = [seeding EXCEPT ![n] = NotSeeding]
      /\ replLog' = [replLog EXCEPT ![n] = Snapshot(seeding[n].list)]
      /\ peerAcked' = [peerAcked EXCEPT ![n] = [p \in Node |-> 0]]
      /\ UNCHANGED <<store, puts, loop, calls>>
  BY DEF SeedReset, seedReplication, Undisturbed
<1>1. /\ OfficeInv' /\ leads' = leads /\ term' = term /\ won' = won
      /\ \A m \in Node : term[m] <= term'[m]
  BY <1>0, SameOffice, Zenon
<1>2. seeding'[n].pc = "idle" /\ \A m \in Node : m # n => seeding'[m] = seeding[m]
  BY ONLY <1>0, RInv, n \in Node DEF RInv, TypeInv, NotSeeding
<1>3. /\ replLog'[n] = Snapshot(seeding[n].list) /\ \A p \in Node : peerAcked'[n][p] = 0
      /\ \A m \in Node : m # n => replLog'[m] = replLog[m] /\ peerAcked'[m] = peerAcked[m]
  BY <1>0 DEF RInv, TypeInv
<1>4. LoopInv' /\ CallInv' /\ PutInv'
  BY <1>0, <1>1, Zenon DEF RInv, LoopInv, CallInv, PutInv
<1>5. ListInv'
  BY <1>0, <1>1, <1>2, ZenonT(30) DEF RInv, ListInv
<1>6. ASSUME Serving(n)' PROVE LogFine(n)' /\ \A p \in Node \ {n} : PeerFine(n, p)'
  <2>1. seeding[n].list = store[n] /\ seeding[n].list \in Contents
    BY <1>0, <1>1, <1>6, Zenon DEF RInv, ListInv, Serving, TypeInv, Seeding
  <2>2. \A k \in Key : store[n][k] = After(replLog'[n], Len(replLog'[n]), k)
    BY <1>3, <2>1, Zenon DEF SnapshotSays
  <2>3. Len(replLog'[n]) \in Nat
    BY LogLength, Zenon DEF TypeInv
  <2>4. LogFine(n)'
    BY <1>0, <1>3, <2>2, <2>3 DEF LogFine
  <2>5. ASSUME NEW p \in Node \ {n} PROVE PeerFine(n, p)'
    <3>1. Untouched(n, p)'
      BY <1>0, <1>3, Zenon DEF Untouched
    <3>2. Holds(n, p, 0)'
      <4>1. 0 \in 0 .. Len(replLog'[n])
        BY <2>3
      <4> QED
        BY <4>1, AfterNothing, Zenon DEF Holds
    <3>3. Reached(n, p)'
      BY <3>1, <3>2, Zenon DEF Untouched, Reached
    <3> QED
      BY <3>1, <3>3, Zenon DEF PeerFine
  <2> QED
    BY <2>4, <2>5, Zenon
<1>7. ASSUME NEW m \in Node, m # n, Serving(m)'
      PROVE  LogFine(m)' /\ \A p \in Node \ {m} : PeerFine(m, p)'
  <2>1. Serving(m) /\ term'[m] = term[m]
    BY <1>1, <1>2, <1>7, Zenon DEF Serving
  <2>2. /\ store'[m] = store[m] /\ replLog'[m] = replLog[m] /\ peerAcked'[m] = peerAcked[m]
        /\ \A p \in Node \ {m} : term[p] = term[m] /\ ~Foreign(m, p) => store'[p] = store[p]
        /\ loop'[m] = loop[m]
    BY <1>0, <1>3, <1>7, ZenonT(30)
  <2>3. \A k \in Key : Pending(m, k) => Pending(m, k)'
    BY <1>0, Zenon DEF Pending
  <2>4. \A d \in calls' : \E c \in calls : Continues(d, c, m)
    BY <1>0, Unhandled, Zenon
  <2> QED
    BY <1>1, <2>1, <2>2, <2>3, <2>4, ServingApart, ZenonT(30)
<1> QED
  BY <1>1, <1>4, <1>5, <1>6, <1>7, Zenon DEF RInv, ServingInv

\* A handler appends: the log now says what the handler has stored.
LEMMA appendReplKeeps ==
    ASSUME RInv, TypeInv', Undisturbed, AppendSays, NEW h \in puts, appendRepl(h)
    PROVE  RInv'
<1> DEFINE n == h.node
           e == [key |-> h.key, val |-> h.val]
<1>0. /\ UNCHANGED election /\ h.pc = "leading"
      /\ replLog' = [replLog EXCEPT ![n] = Append(replLog[n], e)]
      /\ puts' = puts \ {h}
      /\ UNCHANGED <<store, peerAcked, seeding, loop, calls>>
  BY Zenon DEF appendRepl, Appended
<1>1. n \in Node /\ h.key \in Key /\ e \in ReplicationEntry /\ e.key = h.key /\ e.val = h.val
  BY ZenonT(30) DEF RInv, TypeInv, Put, ReplicationEntry
<1>2. replLog'[n] = Append(replLog[n], e) /\ \A m \in Node : m # n => replLog'[m] = replLog[m]
  BY <1>0, <1>1, ZenonT(30) DEF RInv, TypeInv
<1> HIDE DEF e
<1>3. /\ OfficeInv' /\ leads' = leads /\ term' = term /\ won' = won
      /\ \A m \in Node : term[m] <= term'[m]
  BY <1>0, SameOffice, Zenon
<1>4. LoopInv' /\ CallInv'
  BY <1>0, <1>3, Zenon DEF RInv, LoopInv, CallInv
<1>5. PutInv' /\ ListInv'
  BY <1>0, <1>3, Zenon DEF RInv, PutInv, ListInv
<1>6. \A m \in Node : \A l \in Key : Pending(m, l) /\ ~(m = n /\ l = h.key) => Pending(m, l)'
  <2>1. \A f \in puts : f # h => f \in puts'
    BY <1>0, Zenon
  <2> QED
    BY <2>1, Zenon DEF Pending
<1>7. ASSUME NEW m \in Node, m # n, Serving(m)'
      PROVE  LogFine(m)' /\ \A p \in Node \ {m} : PeerFine(m, p)'
  <2>1. Serving(m) /\ term'[m] = term[m]
    BY <1>0, <1>3, <1>7, Zenon DEF Serving
  <2>2. /\ store'[m] = store[m] /\ replLog'[m] = replLog[m] /\ peerAcked'[m] = peerAcked[m]
        /\ \A p \in Node \ {m} : term[p] = term[m] /\ ~Foreign(m, p) => store'[p] = store[p]
        /\ loop'[m] = loop[m]
    BY <1>0, <1>2, <1>7, ZenonT(30)
  <2>3. \A d \in calls' : \/ d.from # m /\ d.state = "sent"
                          \/ \E c \in calls : Continues(d, c, m)
    BY <1>0, Unhandled, Zenon
  <2>4. \A l \in Key : Pending(m, l) => Pending(m, l)'
    BY <1>6, <1>7, Zenon
  <2> QED
    BY <1>3, <2>1, <2>2, <2>3, <2>4, ServingApart, ZenonT(30)
<1>8. ASSUME Serving(n)' PROVE LogFine(n)' /\ \A p \in Node \ {n} : PeerFine(n, p)'
  <2> DEFINE x == replLog[n]
             y == replLog'[n]
  <2>1. leads[n] /\ LogFine(n) /\ \A p \in Node \ {n} : PeerFine(n, p)
    BY <1>0, <1>1, <1>3, <1>8, Zenon DEF RInv, ServingInv, Serving
  <2>2. store[n][h.key] = h.val
    BY <1>0, <2>1, Zenon DEF RInv, PutInv
  <2>3. x \in Seq(ReplicationEntry) /\ y = Append(x, e)
    BY <1>1, <1>2, Zenon DEF RInv, TypeInv
  <2>4. Len(x) \in Nat /\ Len(y) = Len(x) + 1 /\ \A i \in 1 .. Len(x) : y[i] = x[i]
    BY <1>1, <2>3
  <2>5. \A l \in Key : /\ \A j \in 0 .. Len(x) : After(y, j, l) = After(x, j, l)
                       /\ After(y, Len(y), l) = IF h.key = l THEN h.val ELSE After(x, Len(x), l)
    <3>1. \A l \in Key : /\ \A j \in 0 .. Len(x) : After(Append(x, e), j, l) = After(x, j, l)
                         /\ After(Append(x, e), Len(x) + 1, l) =
                                IF e.key = l THEN e.val ELSE After(x, Len(x), l)
      BY <1>1, <2>3, ZenonT(30) DEF AppendSays
    <3> HIDE DEF x, y
    <3> QED
      BY <1>1, <2>3, <2>4, <3>1, Zenon
  <2> HIDE DEF x, y
  <2>6. \A l \in Key : store'[n][l] = After(y, Len(y), l) \/ Pending(n, l)'
    <3>1. ASSUME NEW l \in Key, l # h.key PROVE store'[n][l] = After(y, Len(y), l) \/ Pending(n, l)'
      <4>1. store[n][l] = After(x, Len(x), l) \/ Pending(n, l)
        BY <2>1, Zenon DEF LogFine, x
      <4>2. After(y, Len(y), l) = After(x, Len(x), l) /\ store'[n][l] = store[n][l]
        BY <1>0, <2>5, <3>1, Zenon
      <4> QED
        BY <1>1, <1>6, <3>1, <4>1, <4>2, Zenon
    <3> QED
      BY <1>0, <1>1, <2>2, <2>5, <3>1
  <2>7. ASSUME NEW c \in calls', c.from = n PROVE Carries(c, n)'
    <3>1. Carries(c, n) /\ c.base \in Nat /\ Len(c.entries) \in Nat
      BY <1>0, <2>1, <2>7, CallShape, Zenon DEF LogFine, RInv
    <3>2. End(c) <= Len(x) /\ \A i \in 1 .. Len(c.entries) : c.entries[i] = x[c.base + i]
      BY <3>1, Zenon DEF Carries, x
    <3>3. End(c) <= Len(y) /\ \A i \in 1 .. Len(c.entries) : c.entries[i] = y[c.base + i]
      <4>1. /\ c.base + Len(c.entries) <= Len(x) + 1
            /\ \A i \in 1 .. Len(c.entries) : c.base + i \in 1 .. Len(x)
        BY <2>4, <3>1, <3>2, Within, Zenon DEF End
      <4> QED
        BY <2>4, <3>2, <4>1, Zenon DEF End
    <3>4. c.term = term'[n] /\ c.waited /\ (c.state \in {"sent", "applying"} => c.base = peerAcked'[n][c.to])
      BY <1>0, <1>3, <3>1, Zenon DEF Carries
    <3> QED
      BY <3>3, <3>4, Zenon DEF Carries, End, y
  <2>8. LogFine(n)'
    <3>1. \A p \in Node : peerAcked'[n][p] <= Len(y)
      <4>1. \A p \in Node : peerAcked[n][p] \in Nat /\ peerAcked[n][p] <= Len(x)
        BY <1>1, <2>1, Shapes, Zenon DEF LogFine, x, RInv
      <4>2. peerAcked' = peerAcked
        BY <1>0, Zenon
      <4> QED
        BY ONLY <2>4, <4>1, <4>2
    <3>2. loop'[n].pc = "sending" => loop'[n].term = term'[n]
      BY <1>0, <1>3, <2>1, Zenon DEF LogFine
    <3> QED
      BY <2>6, <2>7, <3>1, <3>2, Zenon DEF LogFine, y
  <2>9. ASSUME NEW p \in Node \ {n} PROVE PeerFine(n, p)'
    <3>1. PeerFine(n, p)
      BY <2>1
    <3>2. ASSUME NEW start \in Nat, Holds(n, p, start) PROVE Holds(n, p, start)'
      <4>1. ASSUME NEW l \in Key PROVE \E j \in start .. Len(y) : After(y, j, l) \in {0, store'[p][l]}
        <5>1. PICK j \in start .. Len(x) : After(x, j, l) \in {0, store[p][l]}
          BY <3>2, Zenon DEF Holds, x
        <5>2. j \in 0 .. Len(x) /\ j \in start .. Len(y)
          BY <2>4
        <5>3. After(y, j, l) = After(x, j, l)
          BY <2>5, <5>2, Zenon
        <5> QED
          BY <1>0, <5>1, <5>2, <5>3, Zenon
      <4> QED
        BY <4>1, Zenon DEF Holds, y
    <3>3. (Foreign(n, p)' <=> Foreign(n, p)) /\ (Untouched(n, p)' <=> Untouched(n, p))
      BY <1>0, Zenon DEF Foreign, Untouched
    <3>4. ASSUME Reached(n, p) PROVE Reached(n, p)'
      <4>1. peerAcked[n][p] \in Nat /\ peerAcked'[n][p] = peerAcked[n][p]
        BY <1>0, <1>1, Shapes, Zenon DEF RInv
      <4>2. Holds(n, p, peerAcked[n][p])'
        BY <1>0, <3>2, <3>4, <4>1, ZenonT(30) DEF Reached
      <4>3. ASSUME NEW c \in calls', c.from = n, c.to = p
            PROVE  /\ c.state = "applying" => Holds(n, p, c.base + c.k - 1)'
                   /\ c.state = "ok" => Holds(n, p, End(c))'
        <5>1. c \in calls /\ c.base + c.k - 1 \in Nat /\ End(c) \in Nat
          BY <1>0, CallShape, Zenon DEF RInv
        <5>2. /\ c.state = "applying" => Holds(n, p, c.base + c.k - 1)
              /\ c.state = "ok" => Holds(n, p, End(c))
          BY <3>4, <4>3, <5>1, Zenon DEF Reached
        <5> QED
          BY <3>2, <5>1, <5>2, Zenon
      <4> QED
        BY <1>0, <4>1, <4>2, <4>3, Zenon DEF Reached, End
    <3> QED
      BY <1>3, <3>1, <3>3, <3>4, Zenon DEF PeerFine
  <2> QED
    BY <2>8, <2>9
<1> QED
  BY <1>3, <1>4, <1>5, <1>7, <1>8, Zenon DEF RInv, ServingInv

\* The invariant holds at the start.
LEMMA RStart == Init => RInv
<1> SUFFICES ASSUME Init PROVE RInv
  OBVIOUS
<1>1. TypeInv
  BY TypeStart, Zenon
<1>2. /\ \A n \in Node : ~leads[n] /\ loop[n] = Quiet
      /\ won = {} /\ puts = {} /\ calls = {}
  BY Zenon DEF Init, Election!Init
<1>3. OfficeInv /\ CallInv /\ PutInv
  BY <1>2, Zenon DEF OfficeInv, CallInv, PutInv
<1>4. LoopInv
  BY <1>2, QuietSends, Zenon DEF LoopInv
<1>5. ListInv /\ ServingInv
  BY <1>2, Zenon DEF ListInv, ServingInv, Serving
<1> QED
  BY <1>1, <1>3, <1>4, <1>5, Zenon DEF RInv

\* It holds when nothing changes.
LEMMA RStutter == RInv /\ UNCHANGED vars => RInv'
<1> SUFFICES ASSUME RInv, UNCHANGED vars PROVE RInv'
  OBVIOUS
<1>1. /\ UNCHANGED <<term, leads, won, store, replLog, peerAcked, seeding, puts, loop, calls>>
      /\ UNCHANGED <<writes, faults, errors>>
  BY DEF vars, election, log, bounds
<1>2. TypeInv' /\ OfficeInv' /\ LoopInv' /\ CallInv' /\ PutInv' /\ ListInv'
  BY <1>1, Zenon DEF RInv, TypeInv, OfficeInv, LoopInv, CallInv, PutInv, ListInv
<1>3. ServingInv'
  <2>1. ASSUME NEW m \in Node, Serving(m)' PROVE LogFine(m)' /\ \A p \in Node \ {m} : PeerFine(m, p)'
    <3>1. /\ Serving(m) /\ term'[m] = term[m]
          /\ \A k \in Key : Pending(m, k) => Pending(m, k)'
      BY <1>1, <2>1, ServedBefore, Zenon
    <3>2. \A d \in calls' : \E c \in calls : Continues(d, c, m)
      BY <1>1, Unhandled, Zenon
    <3>3. loop'[m] = loop[m] /\ \A p \in Node : term[p] <= term'[p]
      BY <1>1, ReplicationAssumption DEF RInv, TypeInv
    <3> QED
      BY <1>1, <1>2, <3>1, <3>2, <3>3, ServingKept, Zenon
  <2> QED
    BY <2>1, Zenon DEF ServingInv
<1> QED
  BY <1>2, <1>3, Zenon DEF RInv

\* It says of every follower what FollowerHoldsAcknowledged says.
LEMMA RInvGivesHeld == RInv => FollowerHoldsAcknowledged
<1> SUFFICES ASSUME RInv, NEW n \in Node, NEW p \in Node, Follows(p, n)
             PROVE  \A k \in Key : \E j \in peerAcked[n][p] .. Len(replLog[n]) :
                        After(replLog[n], j, k) \in {0, store[p][k]}
  BY Zenon DEF FollowerHoldsAcknowledged
<1>1. p # n /\ term[p] = term[n] /\ Serving(n) /\ ~Foreign(n, p)
  BY DEF Follows, Applying, Serving, Foreign
<1>2. PeerFine(n, p)
  BY <1>1 DEF RInv, ServingInv
<1>3. Holds(n, p, peerAcked[n][p])
  BY <1>1, <1>2, Zenon DEF PeerFine, Reached
<1> QED
  BY <1>3, Zenon DEF Holds

\* And what CaughtUpIsEqual says.
LEMMA RInvGivesEqual == RInv => CaughtUpIsEqual
<1> SUFFICES ASSUME RInv, NEW n \in Node, NEW p \in Node,
                    Follows(p, n), Putting(n) = {}, peerAcked[n][p] = Len(replLog[n]), NEW k \in Key
             PROVE  store[n][k] \in {0, store[p][k]}
  BY Zenon DEF CaughtUpIsEqual
<1>1. \E j \in peerAcked[n][p] .. Len(replLog[n]) : After(replLog[n], j, k) \in {0, store[p][k]}
  BY RInvGivesHeld, Zenon DEF FollowerHoldsAcknowledged
<1>2. Len(replLog[n]) \in Nat /\ peerAcked[n][p] = Len(replLog[n])
  BY Shapes, Zenon DEF RInv
<1>3. After(replLog[n], Len(replLog[n]), k) \in {0, store[p][k]}
  BY ONLY <1>1, <1>2
<1>4. LogFine(n) /\ ~Pending(n, k)
  BY Zenon DEF Follows, Serving, RInv, ServingInv, Pending, Putting
<1>5. store[n][k] = After(replLog[n], Len(replLog[n]), k)
  BY <1>4, Zenon DEF LogFine
<1> QED
  BY <1>3, <1>5, Zenon

-----------------------------------------------------------------------------
(* What the library says of numbers and finite sets, and the steps that   *)
(* need it.                                                                *)

INSTANCE FiniteSetTheorems

\* A set of numbers that is not empty has a least member.
LEMMA LeastNat ==
    ASSUME NEW S \in SUBSET Nat, S # {}
    PROVE  \E m \in S : \A l \in S : m <= l
<1>1. PICK m \in S : \A l \in S : <<l, m>> \notin OpToRel(<, Nat)
  BY NatLessThanWellFounded, WFMin, Zenon
<1>2. \A l \in S : ~(l < m)
  BY <1>1, Zenon DEF OpToRel
<1> QED
  BY <1>2

\* A set of positions that is not empty has a last one.
LEMMA LastPosition ==
    ASSUME NEW j \in Nat, NEW S \in SUBSET (1 .. j), S # {}
    PROVE  \E m \in S : \A l \in S : l <= m
<1> DEFINE D == {j - i : i \in S}
<1>1. D \in SUBSET Nat /\ D # {}
  <2>1. \A i \in S : i \in Int /\ j - i \in Nat
    OBVIOUS
  <2> QED
    BY <2>1, Zenon
<1>2. PICK d \in D : \A l \in D : d <= l
  BY <1>1, LeastNat, ZenonT(30)
<1>3. \A l \in S : d <= j - l
  BY <1>2
<1>4. PICK m \in S : d = j - m
  OBVIOUS
<1> QED
  BY <1>3, <1>4

\* Logs with the same first entries say the same after them.
LEMMA AfterAgree ==
    ASSUME NEW x, NEW y, NEW j \in Nat, NEW k, \A i \in 1 .. j : x[i] = y[i]
    PROVE  After(x, j, k) = After(y, j, k)
<1> DEFINE at == {i \in 1 .. j : x[i].key = k}
<1>1. {i \in 1 .. j : y[i].key = k} = at
  OBVIOUS
<1>2. CASE at = {}
  BY <1>1, <1>2 DEF After
<1>3. CASE at # {}
  <2>1. PICK top \in at : \A l \in at : l <= top
    BY <1>3, LastPosition, ZenonT(30)
  <2> DEFINE m == CHOOSE i \in at : \A l \in at : l <= i
  <2>2. m \in at
    BY <2>1
  <2>3. x[m].val = y[m].val
    BY <2>2
  <2>4. Newest(x, at) = Newest(y, at)
    BY <1>3, <2>3 DEF Newest
  <2> QED
    BY <1>1, <2>4, AfterIsNewest, Zenon
<1> QED
  BY <1>2, <1>3

\* What an appended log says.
LEMMA AfterAppend ==
    ASSUME NEW x \in Seq(ReplicationEntry), NEW e \in ReplicationEntry, NEW k
    PROVE  /\ \A j \in 0 .. Len(x) : After(Append(x, e), j, k) = After(x, j, k)
           /\ After(Append(x, e), Len(x) + 1, k) =
                  IF e.key = k THEN e.val ELSE After(x, Len(x), k)
<1> DEFINE y == Append(x, e)
<1>1. Len(x) \in Nat /\ y[Len(x) + 1] = e /\ \A i \in 1 .. Len(x) : y[i] = x[i]
  OBVIOUS
<1>2. ASSUME NEW j \in 0 .. Len(x)
      PROVE  After(y, j, k) = After(x, j, k)
  <2>1. j \in Nat /\ \A i \in 1 .. j : y[i] = x[i]
    BY <1>1
  <2> HIDE DEF y
  <2> QED
    BY <2>1, AfterAgree
<1>3. After(y, Len(x) + 1, k) = IF y[Len(x) + 1].key = k THEN y[Len(x) + 1].val ELSE After(y, Len(x), k)
  <2> HIDE DEF y
  <2> QED
    BY <1>1, AfterNext, ZenonT(30)
<1>4. Len(x) \in 0 .. Len(x)
  BY <1>1
<1> HIDE DEF y
<1>5. After(y, Len(x), k) = After(x, Len(x), k)
  BY <1>2, <1>4
<1> QED
  BY <1>1, <1>2, <1>3, <1>5, Zenon DEF y

\* An order of the keys that are present, each of them once.
Listed(S) == CHOOSE f \in Bijection(1 .. Cardinality(S), S) : TRUE

\* The list of a finite set has each member once.
LEMMA ListedFacts ==
    ASSUME NEW S \in SUBSET Key
    PROVE  /\ Listed(S) \in Seq(S)
           /\ \A k \in S : \E i \in DOMAIN Listed(S) : Listed(S)[i] = k
           /\ \A i, j \in DOMAIN Listed(S) : Listed(S)[i] = Listed(S)[j] => i = j
<1> DEFINE n == Cardinality(S)
           f == Listed(S)
<1>1. IsFiniteSet(S)
  BY ReplicationAssumption, FS_Subset, Zenon
<1>2. n \in Nat /\ ExistsBijection(1 .. n, S)
  BY <1>1, FS_CardinalityType, Zenon
<1>3. f \in Bijection(1 .. n, S)
  BY <1>2, Zenon DEF ExistsBijection, Listed
<1> HIDE DEF f
<1>4. f \in [1 .. n -> S] /\ IsInjective(f) /\ \A k \in S : \E i \in 1 .. n : f[i] = k
  BY <1>3 DEF Bijection, Injection, Surjection
<1>5. f \in Seq(S) /\ DOMAIN f = 1 .. n
  BY <1>2, <1>4
<1> QED
  BY <1>4, <1>5 DEF f, IsInjective

\* A snapshot is a log that says what the list says.
LEMMA SnapshotFacts ==
    ASSUME NEW list \in Contents
    PROVE  /\ Snapshot(list) \in Seq(ReplicationEntry)
           /\ \A k \in Key : After(Snapshot(list), Len(Snapshot(list)), k) = list[k]
<1> DEFINE S == {k \in Key : list[k] # 0}
           f == Listed(S)
           x == Snapshot(list)
<1>1. /\ f \in Seq(S)
      /\ \A k \in S : \E i \in DOMAIN f : f[i] = k
      /\ \A i, j \in DOMAIN f : f[i] = f[j] => i = j
  BY ListedFacts, ZenonT(30)
<1>2. x = [i \in DOMAIN f |-> [key |-> f[i], val |-> list[f[i]]]]
  BY DEF Snapshot, Listed
<1> HIDE DEF f, x
<1>3. Len(f) \in Nat /\ DOMAIN f = 1 .. Len(f) /\ \A i \in 1 .. Len(f) : f[i] \in S
  BY <1>1
<1>4. \A i \in 1 .. Len(f) : [key |-> f[i], val |-> list[f[i]]] \in ReplicationEntry
  BY <1>3 DEF ReplicationEntry, Contents
<1>5. x \in [1 .. Len(f) -> ReplicationEntry]
  BY <1>2, <1>3, <1>4, Zenon
<1>6. x \in Seq(ReplicationEntry) /\ Len(x) = Len(f)
  BY <1>3, <1>5
<1>7. \A i \in 1 .. Len(f) : x[i].key = f[i] /\ x[i].val = list[f[i]]
  BY <1>2, <1>3, Zenon
<1>8. ASSUME NEW k \in Key
      PROVE  After(x, Len(x), k) = list[k]
  <2> DEFINE at == {i \in 1 .. Len(x) : x[i].key = k}
  <2>1. CASE k \in S
    <3>1. PICK i \in 1 .. Len(f) : f[i] = k
      BY <1>1, <1>3, <2>1, Zenon
    <3>2. \A l \in 1 .. Len(f) : f[l] = k => l = i
      BY <1>1, <1>3, <3>1, Zenon
    <3>3. at = {i}
      BY ONLY <1>6, <1>7, <3>1, <3>2
    <3>4. (CHOOSE m \in at : \A l \in at : l <= m) = i
      BY <3>3, <3>1
    <3>5. x[i].val = list[k]
      BY <1>7, <3>1, Zenon
    <3> QED
      BY <3>3, <3>4, <3>5, Zenon DEF After
  <2>2. CASE k \notin S
    <3>1. at = {}
      BY <1>3, <1>6, <1>7, <2>2
    <3>2. list[k] = 0
      BY <2>2, Zenon
    <3> QED
      BY <3>1, <3>2, Zenon DEF After
  <2> QED
    BY <2>1, <2>2, Zenon
<1> QED
  BY <1>6, <1>8, Zenon DEF x

\* What the steps that write the log need to know of it.
LEMMA LogSays == SnapshotSays /\ AppendSays
BY SnapshotFacts, AfterAppend, Zenon DEF SnapshotSays, AppendSays

\* Types: the reset of seedReplication.
LEMMA SeedResetTyped ==
    ASSUME TypeInv, NEW n \in Node, SeedReset(n)
    PROVE  TypeInv'
<1> USE DEF TypeInv
<1>1. seeding' \in [Node -> Seeding]
  BY Zenon DEF SeedReset, Seeding, NotSeeding, Nothing, Contents
<1>2. replLog' \in [Node -> Seq(ReplicationEntry)]
  <2>1. seeding[n].list \in Contents
    BY Zenon DEF Seeding
  <2> QED
    BY <2>1, SnapshotFacts, Zenon DEF SeedReset, seedReplication
<1>3. peerAcked' \in [Node -> [Node -> Nat]]
  BY Zenon DEF SeedReset, seedReplication
<1>4. UNCHANGED <<term, leads, won, store, puts, loop, calls, writes, faults, errors>>
  BY Zenon DEF SeedReset, election, bounds
<1> QED
  BY <1>1, <1>2, <1>3, <1>4, Zenon

\* Every step keeps the types.
LEMMA TypeStep == TypeInv /\ [Next]_vars => TypeInv'
<1> SUFFICES ASSUME TypeInv, [Next]_vars PROVE TypeInv'
  OBVIOUS
<1>1. CASE UNCHANGED vars
  BY <1>1, Zenon DEF vars, election, log, bounds, TypeInv
<1>2. CASE Next
  BY <1>2, LeadingTyped, SeedResetTyped, ShippingTyped, CrashTyped, AdmitTyped, StoringTyped,
     HandlingTyped, AnsweredTyped, Zenon DEF Next, Leading
<1> QED
  BY <1>1, <1>2

\* The stores, logs and calls of Replication keep their shape, and every term that is
\* sent, answered or read is one.
THEOREM TypesHold == Spec => []TypeOK
<1>1. Spec => []TypeInv
  BY TypeStart, TypeStep, PTL DEF Spec
<1> QED
  BY <1>1, TypeInvImplies, PTL

\* Terms, leaders and won elections change as Leadership allows, whatever the handlers,
\* loops and calls of the replicas do: what is shown of Leadership holds here.
THEOREM ElectionIsLeadership == Spec => Election!Spec
<1>1. Init => Election!Init
  BY DEF Init
<1>2. TypeInv /\ [Next]_vars => [Election!Next]_(Election!vars)
  <2> SUFFICES ASSUME TypeInv, [Next]_vars PROVE [Election!Next]_(Election!vars)
    OBVIOUS
  <2>1. CASE UNCHANGED election
    BY <2>1 DEF election, Election!vars
  <2>2. CASE ElectionMoves
    <3>1. \A t \in 1 .. MaxTerm : t \in 0 .. MaxTerm
      BY ReplicationAssumption
    <3> QED
      BY <2>2, <3>1, Zenon DEF ElectionMoves, Wins, Adopts, Election!Next
  <2> QED
    BY <2>1, <2>2, EveryStepElects, Zenon DEF vars
<1>3. Spec => []TypeInv
  BY TypeStart, TypeStep, PTL DEF Spec
<1> QED
  BY <1>1, <1>2, <1>3, PTL DEF Spec, Election!Spec

-----------------------------------------------------------------------------
(* The theorems.                                                           *)

\* Every step keeps the invariant.
LEMMA RStep == Undisturbed /\ RInv /\ [Next]_vars => RInv'
<1> SUFFICES ASSUME Undisturbed, RInv, [Next]_vars PROVE RInv'
  OBVIOUS
<1>0. TypeInv'
  BY TypeStep DEF RInv
<1>1. ASSUME NEW n \in Node, Leading(n) \/ Shipping(n) \/ Crash(n) PROVE RInv'
  BY <1>0, <1>1, WinKeeps, VoteRequestedKeeps, SeedListKeeps, SeedResetKeeps, LogSays,
     TickKeeps, ReadTermKeeps, ShipKeeps, CrashKeeps, Zenon DEF Leading, Shipping
<1>2. ASSUME NEW n \in Node, NEW k \in Key, Admit(n, k) PROVE RInv'
  BY <1>0, <1>2, AdmitKeeps, Zenon
<1>3. ASSUME NEW h \in puts, Storing(h) PROVE RInv'
  BY <1>0, <1>3, StorePutKeeps, CheckLeaderKeeps, appendReplKeeps, LogSays, Zenon DEF Storing
<1>4. ASSUME NEW c \in calls, Handling(c) \/ Answered(c) \/ Timeout(c) PROVE RInv'
  BY <1>0, <1>4, AcceptKeeps, RefuseKeeps, ApplyEntryKeeps, AppliedKeeps, AcknowledgedKeeps,
     NotAcknowledgedKeeps, TimeoutKeeps, Zenon DEF Handling
<1> QED
  BY <1>1, <1>2, <1>3, <1>4, RStutter, Zenon DEF Next

\* The invariant holds throughout.
LEMMA RInvHolds ==
    ASSUME Undisturbed
    PROVE  Spec => []RInv
<1>1. RInv /\ [Next]_vars => RInv'
  BY RStep
<1> QED
  BY <1>1, RStart, PTL DEF Spec

\* Without the overlaps and with stores that do not fail, every follower in the leader's
\* term has each job and worker as the log says at or after what it acknowledged, whatever
\* is lost, repeated, refused or cut short by a crash, and whoever led before
\* (entriesForPeer, applyEntries, ackPeer, seedReplication).
THEOREM FollowersHoldAcknowledged ==
    ASSUME Undisturbed
    PROVE  Spec => []FollowerHoldsAcknowledged
BY RInvHolds, RInvGivesHeld, PTL

\* So a follower that has acknowledged the whole log has what the leader has: "any follower
\* converges to leader state" (seedReplication).
THEOREM CaughtUpFollowersAreEqual ==
    ASSUME Undisturbed
    PROVE  Spec => []CaughtUpIsEqual
BY RInvHolds, RInvGivesEqual, PTL
=============================================================================
