---------------------------- MODULE Replication ----------------------------
(***************************************************************************)
(* Metadata replication between scheduler replicas: putJob and putWorker,  *)
(* the leader's replication log with its acknowledged positions, seeding   *)
(* after an election, and the Replicate RPC with its handler, from         *)
(* internal/scheduler/{server,cluster}.go.  Terms and leaders come from    *)
(* module Leadership, which the election implements.                       *)
(*                                                                         *)
(* A job or a worker is a key of the store, its contents the number of the *)
(* write that stored it (0: absent).  Entry i of a log has Seq i.  Several *)
(* goroutines of a node work at the same time: handlers that store a job   *)
(* and then append it, the replication loop, onBecomeLeader, and handlers  *)
(* of incoming Replicate calls, which check the term once and then apply   *)
(* one entry after the other.                                              *)
(***************************************************************************)
EXTENDS Naturals, Sequences, FiniteSets, Functions

CONSTANTS
    Node,             \* cluster members
    Key,              \* job and worker ids
    Calm,             \* whether the overlaps listed in the README are excluded
    MaxTerm,          \* bound: terms
    MaxWrites,        \* bound: writes by leaders
    MaxFaults,        \* bound: lost calls and crashes
    MaxErrors         \* bound: failing writes on followers

ASSUME ReplicationAssumption ==
    /\ IsFiniteSet(Key)
    /\ MaxTerm \in Nat /\ MaxWrites \in Nat /\ MaxFaults \in Nat /\ MaxErrors \in Nat

VARIABLES
    term, leads, won, \* the election, as in Leadership
    store,            \* store[n]: the buckets of n
    replLog,          \* Server.replLog, entries [key, val]; replSeq is its length
    peerAcked,        \* Server.peerAcked
    seeding,          \* onBecomeLeader: its progress and the list it has read
    puts,             \* handlers that store a job or a worker
    loop,             \* replicationLoop and broadcastReplicate
    calls,            \* Replicate RPCs
    writes, faults, errors    \* counters of the bounds

election == <<term, leads, won>>
log == <<replLog, peerAcked>>
bounds == <<writes, faults, errors>>
vars == <<election, store, log, seeding, puts, loop, calls, bounds>>

Election == INSTANCE Leadership WITH Term <- 0 .. MaxTerm

ReplicationEntry == [key : Key, val : Nat]

Contents == [Key -> Nat]

Seeding == [pc : {"idle", "rebuild", "listed"}, list : Contents]

Loop == [pc : {"idle", "checked", "sending"}, term : Nat, left : SUBSET Node]

\* A ReplicateRequest with its progress and answer.  base: the sequence number
\* before the first entry; k: the next entry to apply; waited: the caller waits.
Call == [from : Node, to : Node, term : Nat, base : Nat, entries : Seq(ReplicationEntry),
         state : {"sent", "applying", "ok", "refused", "failed"}, k : Nat, current : Nat,
         waited : BOOLEAN]

\* A handler past requireLeader, with what it will store.
Put == [node : Node, key : Key, val : Nat, pc : {"admitted", "stored", "leading"}]

Nothing == [k \in Key |-> 0]
NotSeeding == [pc |-> "idle", list |-> Nothing]
Quiet == [pc |-> "idle", term |-> 0, left |-> {}]

\* The shape of the stores, the logs and the calls.
TypeOK ==
    /\ Election!TypeOK
    /\ store \in [Node -> Contents]
    /\ replLog \in [Node -> Seq(ReplicationEntry)]
    /\ peerAcked \in [Node -> [Node -> Nat]]
    /\ seeding \in [Node -> Seeding]
    /\ puts \subseteq Put
    /\ loop \in [Node -> Loop] /\ \A n \in Node : n \notin loop[n].left
    /\ calls \subseteq Call
    /\ writes \in Nat /\ faults \in Nat /\ errors \in Nat

Init ==
    /\ Election!Init
    /\ store = [n \in Node |-> Nothing]
    /\ replLog = [n \in Node |-> <<>>]
    /\ peerAcked = [n \in Node |-> [p \in Node |-> 0]]
    /\ seeding = [n \in Node |-> NotSeeding]
    /\ puts = {}
    /\ loop = [n \in Node |-> Quiet]
    /\ calls = {}
    /\ writes = 0 /\ faults = 0 /\ errors = 0

-----------------------------------------------------------------------------
(* Elections and onBecomeLeader.                                           *)

Putting(n) == {h \in puts : h.node = n}

Applying(n) == {c \in calls : c.to = n /\ c.state = "applying"}

\* A node wins an election and starts onBecomeLeader.
Win(n) ==
    /\ ~leads[n]
    /\ \E t \in 1 .. MaxTerm : Election!Win(n, t)
    /\ seeding[n].pc = "idle"
    /\ Calm => Putting(n) = {} /\ Applying(n) = {}
    /\ seeding' = [seeding EXCEPT ![n].pc = "rebuild"]
    /\ UNCHANGED <<store, log, puts, loop, calls, bounds>>

\* Whether n may be deposed now: onStepDown changes nothing of what is modelled here.
MayAdopt(n) ==
    Calm => loop[n].pc # "checked" /\ \A h \in Putting(n) : h.pc # "admitted"

\* A candidate asks n for its vote in a newer term.
VoteRequested(n) ==
    /\ MayAdopt(n)
    /\ \E t \in 1 .. MaxTerm : Election!Adopt(n, t)
    /\ UNCHANGED <<store, log, seeding, puts, loop, calls, bounds>>

\* rebuildSchedulingState is over (it stores jobs with putJob, see below) and
\* seedReplication reads the buckets.
SeedList(n) ==
    /\ seeding[n].pc = "rebuild"
    /\ Calm => Putting(n) = {}
    /\ seeding' = [seeding EXCEPT ![n] = [pc |-> "listed", list |-> store[n]]]
    /\ UNCHANGED <<election, store, log, puts, loop, calls, bounds>>

\* The log that holds one entry for each job and worker of a list.
Snapshot(list) ==
    LET present == {k \in Key : list[k] # 0}
        listed == CHOOSE f \in Bijection(1 .. Cardinality(present), present) : TRUE IN
    [i \in DOMAIN listed |-> [key |-> listed[i], val |-> list[listed[i]]]]

\* Mutant: the positions acknowledged to the previous log are kept.
seedReplication_KeepsAcks(n) ==
    /\ replLog' = [replLog EXCEPT ![n] = Snapshot(seeding[n].list)]
    /\ UNCHANGED peerAcked

\* seedReplication, under replMu.
seedReplication(n) ==
    /\ replLog' = [replLog EXCEPT ![n] = Snapshot(seeding[n].list)]
    /\ peerAcked' = [peerAcked EXCEPT ![n] = [p \in Node |-> 0]]

SeedReset(n) ==
    /\ seeding[n].pc = "listed"
    /\ Calm => loop[n].pc = "idle" /\ \A c \in calls : c.from # n
    /\ seedReplication(n)
    /\ seeding' = [seeding EXCEPT ![n] = NotSeeding]
    /\ UNCHANGED <<election, store, puts, loop, calls, bounds>>

-----------------------------------------------------------------------------
(* Writes by the leader: putJob and putWorker.                             *)

\* A handler passes requireLeader, or rebuildSchedulingState comes to a job.
Admit(n, k) ==
    /\ writes < MaxWrites
    /\ leads[n]
    /\ Calm => /\ seeding[n].pc # "listed"
               /\ \A h \in Putting(n) : h.key # k
    /\ writes' = writes + 1
    /\ puts' = puts \cup {[node |-> n, key |-> k, val |-> writes', pc |-> "admitted"]}
    /\ UNCHANGED <<election, store, log, seeding, loop, calls, faults, errors>>

Moves(h, pc) == puts' = (puts \ {h}) \cup {[h EXCEPT !.pc = pc]}

\* store.PutJob, store.PutWorker.
StorePut(h) ==
    /\ h.pc = "admitted"
    /\ store' = [store EXCEPT ![h.node][h.key] = h.val]
    /\ Moves(h, "stored")
    /\ UNCHANGED <<election, log, seeding, loop, calls, bounds>>

\* appendRepl asks whether the node leads ...
CheckLeader(h) ==
    /\ h.pc = "stored"
    /\ IF leads[h.node] THEN Moves(h, "leading") ELSE puts' = puts \ {h}
    /\ UNCHANGED <<election, store, log, seeding, loop, calls, bounds>>

Appended(entries, h) == Append(entries, [key |-> h.key, val |-> h.val])

\* ... and appends under replMu.
appendRepl(h) ==
    /\ h.pc = "leading"
    /\ replLog' = [replLog EXCEPT ![h.node] = Appended(@, h)]
    /\ puts' = puts \ {h}
    /\ UNCHANGED <<election, store, peerAcked, seeding, loop, calls, bounds>>

-----------------------------------------------------------------------------
(* replicationLoop and broadcastReplicate.                                 *)

\* A tick on a leader.
Tick(n) ==
    /\ loop[n].pc = "idle"
    /\ leads[n]
    /\ Calm => seeding[n].pc = "idle"
    /\ loop' = [loop EXCEPT ![n].pc = "checked"]
    /\ UNCHANGED <<election, store, log, seeding, puts, calls, bounds>>

\* The term is read after the check, in another critical section.
ReadTerm(n) ==
    /\ loop[n].pc = "checked"
    /\ loop' = [loop EXCEPT ![n] = [pc |-> "sending", term |-> term[n], left |-> Node \ {n}]]
    /\ UNCHANGED <<election, store, log, seeding, puts, calls, bounds>>

Waiting(n) == {c \in calls : c.from = n /\ c.waited}

\* entriesForPeer and the request, to any of the peers that are left.
Ship(n, p) ==
    /\ loop[n].pc = "sending" /\ p \in loop[n].left /\ Waiting(n) = {}
    /\ loop' = [loop EXCEPT ![n].left = @ \ {p}]
    /\ LET acked == peerAcked[n][p] IN
       calls' = calls \cup
           {[from |-> n, to |-> p, term |-> loop[n].term, base |-> acked,
             entries |-> SubSeq(replLog[n], acked + 1, Len(replLog[n])),
             state |-> "sent", k |-> 1, current |-> 0, waited |-> TRUE]}
    /\ UNCHANGED <<election, store, log, seeding, puts, bounds>>

\* The loop goes on with the next peer, or waits for the next tick.
Advance(n) ==
    loop' = [loop EXCEPT ![n] = IF @.left = {} THEN Quiet ELSE @]

\* Mutant: a position older than the acknowledged one is stored.
ackPeer_Always(n, p, applied) == peerAcked' = [peerAcked EXCEPT ![n][p] = applied]

\* An empty request is answered with 0, which is no acknowledgement.
ackPeer(n, p, applied) ==
    peerAcked' = [peerAcked EXCEPT ![n][p] = IF applied > @ THEN applied ELSE @]

\* The position an answer carries: the sequence number of the last entry.
AppliedThrough(c) == IF c.entries = <<>> THEN 0 ELSE c.base + Len(c.entries)

\* An answer or an error arrives: acknowledge, step down or go on.
Answered(c) ==
    /\ c.waited /\ c.state \in {"ok", "refused", "failed"}
    /\ IF c.state = "ok" THEN ackPeer(c.from, c.to, AppliedThrough(c)) ELSE UNCHANGED peerAcked
    /\ IF c.state = "refused" /\ c.current > term[c.from]
       THEN MayAdopt(c.from) /\ Election!Adopt(c.from, c.current)
       ELSE UNCHANGED election
    /\ Advance(c.from)
    /\ calls' = calls \ {c}
    /\ UNCHANGED <<store, replLog, seeding, puts, bounds>>

\* The caller gives up.  Its request may still be handled, later.
Timeout(c) ==
    /\ faults < MaxFaults
    /\ c.waited
    /\ Calm => c.state # "applying"
    /\ faults' = faults + 1
    /\ \/ calls' = calls \ {c}
       \/ /\ ~Calm /\ c.state \in {"sent", "applying"}
          /\ calls' = (calls \ {c}) \cup {[c EXCEPT !.waited = FALSE]}
    /\ Advance(c.from)
    /\ UNCHANGED <<election, store, log, seeding, puts, writes, errors>>

-----------------------------------------------------------------------------
(* The Replicate handler.                                                  *)

\* A handler ends; nobody may be waiting for what it says.
Reply(c, answer) ==
    calls' = (calls \ {c}) \cup (IF c.waited THEN {answer} ELSE {})

\* Mutant: a leader of an older term is accepted too.
ObserveLeader_Any(p, t) ==
    IF t > term[p] THEN Election!Adopt(p, t) ELSE UNCHANGED election

\* ObserveLeader of an accepted call: a newer term is adopted.  In its own term, a
\* leader accepts as well.
ObserveLeader(p, t) ==
    /\ t >= term[p]
    /\ IF t > term[p] THEN Election!Adopt(p, t) ELSE UNCHANGED election

Accept(c) ==
    /\ c.state = "sent"
    /\ MayAdopt(c.to)
    /\ Calm => Applying(c.to) = {}
    /\ ObserveLeader(c.to, c.term)
    /\ calls' = (calls \ {c}) \cup {[c EXCEPT !.state = "applying"]}
    /\ UNCHANGED <<store, log, seeding, puts, loop, bounds>>

\* A leader of an older term is told the newer one.
Refuse(c) ==
    /\ c.state = "sent"
    /\ c.term < term[c.to]
    /\ Reply(c, [c EXCEPT !.state = "refused", !.current = term[c.to]])
    /\ UNCHANGED <<election, store, log, seeding, puts, loop, bounds>>

\* One round of the loop of applyEntries.  An entry that cannot be stored is logged
\* and counted as applied.
ApplyEntry(c) ==
    /\ c.state = "applying" /\ c.k <= Len(c.entries)
    /\ LET e == c.entries[c.k] IN
       \/ /\ store' = [store EXCEPT ![c.to][e.key] = e.val]
          /\ UNCHANGED errors
       \/ /\ errors < MaxErrors
          /\ errors' = errors + 1
          /\ UNCHANGED store
    /\ calls' = (calls \ {c}) \cup {[c EXCEPT !.k = @ + 1]}
    /\ UNCHANGED <<election, log, seeding, puts, loop, writes, faults>>

\* The handler answers.
Applied(c) ==
    /\ c.state = "applying" /\ c.k > Len(c.entries)
    /\ Reply(c, [c EXCEPT !.state = "ok"])
    /\ UNCHANGED <<election, store, log, seeding, puts, loop, bounds>>

\* A process dies and starts again as a follower, with its store.  Handlers it ran are
\* gone; its callers see an error; its own requests may still arrive.
Crash(n) ==
    /\ faults < MaxFaults
    /\ faults' = faults + 1
    /\ IF leads[n] THEN Election!Lose(n) ELSE UNCHANGED election
    /\ replLog' = [replLog EXCEPT ![n] = <<>>]
    /\ peerAcked' = [peerAcked EXCEPT ![n] = [p \in Node |-> 0]]
    /\ seeding' = [seeding EXCEPT ![n] = NotSeeding]
    /\ puts' = puts \ Putting(n)
    /\ loop' = [loop EXCEPT ![n] = Quiet]
    /\ LET own == {c \in calls : c.from = n}
           died == Applying(n)
           left == {c \in own \ died : c.state = "applying" \/ (~Calm /\ c.state = "sent")} IN
       calls' = (calls \ (own \cup died))
                    \cup {[c EXCEPT !.waited = FALSE] : c \in left}
                    \cup {[c EXCEPT !.state = "failed"] : c \in {d \in died \ own : d.waited}}
    /\ UNCHANGED <<store, writes, errors>>

-----------------------------------------------------------------------------
Leading(n) == Win(n) \/ VoteRequested(n) \/ SeedList(n) \/ SeedReset(n)
Storing(h) == StorePut(h) \/ CheckLeader(h) \/ appendRepl(h)
Shipping(n) == Tick(n) \/ ReadTerm(n) \/ \E p \in Node : Ship(n, p)
Handling(c) == Accept(c) \/ Refuse(c) \/ ApplyEntry(c) \/ Applied(c)

Next ==
    \/ \E n \in Node : Leading(n) \/ Shipping(n) \/ Crash(n)
    \/ \E n \in Node, k \in Key : Admit(n, k)
    \/ \E h \in puts : Storing(h)
    \/ \E c \in calls : Handling(c) \/ Answered(c) \/ Timeout(c)

\* Goroutines run on, calls are handled and answered, leaders keep ticking.
Fairness ==
    /\ \A n \in Node : WF_vars(SeedList(n)) /\ WF_vars(SeedReset(n)) /\ WF_vars(Shipping(n))
    /\ WF_vars(\E h \in puts : Storing(h))
    /\ WF_vars(\E c \in calls : Handling(c) \/ Answered(c))

Spec == Init /\ [][Next]_vars

LiveSpec == Spec /\ Fairness

-----------------------------------------------------------------------------
(* What replication promises.                                              *)

\* The contents of key k after the first j entries of a log; 0 if they have none.
After(entries, j, k) ==
    LET at == {i \in 1 .. j : entries[i].key = k} IN
    IF at = {} THEN 0 ELSE entries[CHOOSE i \in at : \A l \in at : l <= i].val

\* p has joined the term n leads, and only calls of n are being applied there.
Follows(p, n) ==
    /\ p # n /\ leads[n] /\ term[p] = term[n] /\ seeding[n].pc = "idle"
    /\ \A c \in Applying(p) : c.from = n

\* Each job or worker of the leader's log is on a follower as some position of the log
\* says, no older than what the follower has acknowledged, at any moment of a call:
\* entries are applied in order, none is skipped, and a repeated delivery, even one that
\* a crash cuts short, takes nothing back that was acknowledged (entriesForPeer,
\* applyEntries, ackPeer).
FollowerHoldsAcknowledged ==
    \A n, p \in Node : Follows(p, n) =>
        \A k \in Key : \E j \in peerAcked[n][p] .. Len(replLog[n]) :
            After(replLog[n], j, k) \in {0, store[p][k]}

\* A follower that has acknowledged the whole log has every job and worker of the leader
\* as the leader has it ("so any follower converges to leader state", seedReplication).
CaughtUpIsEqual ==
    \A n, p \in Node :
        Follows(p, n) /\ Putting(n) = {} /\ peerAcked[n][p] = Len(replLog[n]) =>
            \A k \in Key : store[n][k] \in {0, store[p][k]}

\* What a deposed leader alone had stored is discarded: a follower that has acknowledged
\* the whole log has nothing the leader does not have ("local writes that will be
\* discarded", docs/DESIGN.md).
StaleWritesAreDiscarded ==
    \A n, p \in Node :
        Follows(p, n) /\ Putting(n) = {} /\ peerAcked[n][p] = Len(replLog[n]) =>
            \A k \in Key : store[p][k] # 0 => store[n][k] # 0

\* A leader that stays in office brings every other member to its state, whatever was
\* lost, repeated or acknowledged before.
Converges ==
    \A n \in Node :
        <>[]leads[n] => <>[](\A p \in Node, k \in Key : store[n][k] \in {0, store[p][k]})
=============================================================================
