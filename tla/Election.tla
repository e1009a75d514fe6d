------------------------------ MODULE Election ------------------------------
(***************************************************************************)
(* Leader election between scheduler replicas: the state machine of        *)
(* internal/cluster (Node) together with the two RPCs that drive it from   *)
(* internal/scheduler/cluster.go: RequestVote, sent by a candidate, and    *)
(* Replicate, whose heartbeat half is sent by the replication loop.        *)
(*                                                                         *)
(* Every action is one critical section of Node.mu, or one step of the     *)
(* goroutine that issues an RPC.  Election deadlines are not measured: a   *)
(* node that is not the leader may campaign whenever its run loop is free. *)
(* An RPC is one record of the set calls: sent, then answered ("ok" or     *)
(* "refused") by its handler; a call whose caller gave up is "abandoned",  *)
(* and may still reach its handler, but nobody reads the answer.           *)
(***************************************************************************)
EXTENDS Naturals, FiniteSets

CONSTANTS
    Node,             \* cluster members (Config.Members)
    Nil,              \* the empty node id
    MaxTerm,          \* bound: no node starts an election beyond this term
    MaxFaults,        \* bound: crashes, and RPC timeouts on calls to other than Lossy nodes
    MaxTicks,         \* bound: rounds of heartbeats in a behaviour; 0 for no bound
    Campaigner,       \* bound: the nodes whose election timer may expire
    FaultyDisk,       \* the nodes whose SaveState may return an error
    Lossy             \* the nodes that calls may never reach, as often as they are made

ASSUME NodeAssumption ==
    /\ IsFiniteSet(Node) /\ Nil \notin Node
    /\ Campaigner \subseteq Node /\ Lossy \subseteq Node

ASSUME BoundAssumption == {MaxTerm, MaxFaults, MaxTicks} \subseteq Nat

VARIABLES
    up,               \* up[n]: the process of n is running
    role,             \* Node.role
    currentTerm,      \* Node.currentTerm
    votedFor,         \* Node.votedFor
    leaderID,         \* Node.leaderID
    saved,            \* the election record in n's BoltDB meta bucket
    votes,            \* who n's running startElection counts; {} when none runs
    broadcast,        \* the progress of n's replicationLoop
    calls,            \* the RPCs in flight
    faults,           \* crashes and timeouts so far
    ticks,            \* rounds of heartbeats so far
    cast,             \* history: every vote granted, <<voter, term, candidate>>
    elected           \* history: every election won, <<node, term>>

nodeVars == <<role, currentTerm, votedFor, leaderID, saved>>
history  == <<cast, elected>>
bounds   == <<faults, ticks>>
vars == <<up, nodeVars, votes, broadcast, calls, bounds, history>>

Term == 0 .. MaxTerm

peers(n) == Node \ {n}

\* Mutant: half of the members are enough.
majority_Half == Cardinality(Node) \div 2

\* Node.majority
majority == (Cardinality(Node) \div 2) + 1

Call == [rpc : {"RequestVote", "Replicate"}, from : Node, to : Node, term : Term,
         state : {"sent", "abandoned", "ok", "refused"}, current : Term]

Broadcast == [pc : {"idle", "checked", "sending"}, term : Term, left : SUBSET Node]

Quiet == [pc |-> "idle", term |-> 0, left |-> {}]

\* All variables hold values of the types of their counterparts in the code.
TypeOK ==
    /\ up \in [Node -> BOOLEAN]
    /\ role \in [Node -> {"Follower", "Candidate", "Leader"}]
    /\ currentTerm \in [Node -> Term]
    /\ votedFor \in [Node -> Node \cup {Nil}]
    /\ leaderID \in [Node -> Node \cup {Nil}]
    /\ saved \in [Node -> [term : Term, votedFor : Node \cup {Nil}]]
    /\ votes \in [Node -> SUBSET Node]
    /\ broadcast \in [Node -> Broadcast]
    /\ calls \subseteq Call
    /\ faults \in 0 .. MaxFaults
    /\ ticks \in 0 .. MaxTicks
    /\ cast \subseteq (Node \X Term \X Node)
    /\ elected \subseteq (Node \X Term)

Init ==
    /\ up = [n \in Node |-> FALSE]
    /\ role = [n \in Node |-> "Follower"]
    /\ currentTerm = [n \in Node |-> 0]
    /\ votedFor = [n \in Node |-> Nil]
    /\ leaderID = [n \in Node |-> Nil]
    /\ saved = [n \in Node |-> [term |-> 0, votedFor |-> Nil]]
    /\ votes = [n \in Node |-> {}]
    /\ broadcast = [n \in Node |-> Quiet]
    /\ calls = {}
    /\ faults = 0 /\ ticks = 0
    /\ cast = {} /\ elected = {}

-----------------------------------------------------------------------------
(* Calls.                                                                  *)

Send(rpc, n, P, t) ==
    [rpc : {rpc}, from : {n}, to : P, term : {t}, state : {"sent"}, current : {0}]

\* The calls of one kind that n still waits for.
Waiting(n, rpc) == {c \in calls : c.rpc = rpc /\ c.from = n /\ c.state # "abandoned"}

\* The calls that handlers of n may receive.
Incoming(n, rpc) == {c \in calls : c.rpc = rpc /\ c.to = n /\ c.state \in {"sent", "abandoned"}}

\* A handler returns: the answer travels back, if anybody waits for it.
Answer(c, state, current) ==
    calls' = (calls \ {c}) \cup
        (IF c.state = "abandoned" THEN {}
         ELSE {[c EXCEPT !.state = state, !.current = current]})

\* The caller gives up on calls C: answers are lost, requests are not recalled, but one
\* to a lossy node never arrives.
Abandoned(C) ==
    (calls \ C) \cup {[c EXCEPT !.state = "abandoned"] : c \in {d \in C : d.state = "sent" /\ d.to \notin Lossy}}

\* One more crash or timeout.
Fault == faults < MaxFaults /\ faults' = faults + 1

\* A call fails when it times out, or when the peer's process is down.
Fail(c) ==
    /\ \/ Fault
       \/ c.state = "sent" /\ ~up[c.to] /\ UNCHANGED faults
       \/ c.to \in Lossy /\ UNCHANGED faults
    /\ UNCHANGED ticks

-----------------------------------------------------------------------------
(* Persistence.                                                            *)

\* persistLocked writes the term and the vote; an error from the store is
\* only logged, so on a faulty disk the previous record may remain.
persistLocked(n, previous, t, v) ==
    \E rec \in {[term |-> t, votedFor |-> v]} \cup (IF n \in FaultyDisk THEN previous ELSE {}) :
        saved' = [saved EXCEPT ![n] = rec]

\* Mutant: the role is left alone.
becomeFollowerLocked_KeepsRole(n, t) ==
    /\ currentTerm' = [currentTerm EXCEPT ![n] = t]
    /\ votedFor' = [votedFor EXCEPT ![n] = Nil]
    /\ persistLocked(n, {saved[n]}, t, Nil)
    /\ UNCHANGED role

\* Mutant: the node goes one term too far.
becomeFollowerLocked_Past(n, t) ==
    /\ currentTerm' = [currentTerm EXCEPT ![n] = t + 1]
    /\ votedFor' = [votedFor EXCEPT ![n] = Nil]
    /\ persistLocked(n, {saved[n]}, t + 1, Nil)
    /\ role' = [role EXCEPT ![n] = "Follower"]

\* becomeFollowerLocked, for the newer term with which it is always called.
becomeFollowerLocked(n, t) ==
    /\ currentTerm' = [currentTerm EXCEPT ![n] = t]
    /\ votedFor' = [votedFor EXCEPT ![n] = Nil]
    /\ persistLocked(n, {saved[n]}, t, Nil)
    /\ role' = [role EXCEPT ![n] = "Follower"]

-----------------------------------------------------------------------------
(* Start and crash.                                                        *)

\* Mutant: the saved state is not loaded.
Start_Forgets(n) ==
    /\ ~up[n]
    /\ up' = [up EXCEPT ![n] = TRUE]
    /\ \/ majority > 1 /\ UNCHANGED <<role, currentTerm, votedFor, leaderID, saved, history>>
       \/ /\ majority <= 1
          /\ currentTerm' = [currentTerm EXCEPT ![n] = 1]
          /\ votedFor' = [votedFor EXCEPT ![n] = n]
          /\ persistLocked(n, {saved[n]}, 1, n)
          /\ role' = [role EXCEPT ![n] = "Leader"]
          /\ leaderID' = [leaderID EXCEPT ![n] = n]
          /\ cast' = cast \cup {<<n, 1, n>>}
          /\ elected' = elected \cup {<<n, 1>>}
    /\ UNCHANGED <<votes, broadcast, calls, bounds>>

\* A member of a larger cluster loads its saved term and vote; the member of
\* a single-node cluster then wins the next term at once.
Start(n) ==
    /\ ~up[n]
    /\ up' = [up EXCEPT ![n] = TRUE]
    /\ \/ /\ majority > 1
          /\ currentTerm' = [currentTerm EXCEPT ![n] = saved[n].term]
          /\ votedFor' = [votedFor EXCEPT ![n] = saved[n].votedFor]
          /\ UNCHANGED <<role, leaderID, saved, history>>
       \/ LET t == saved[n].term + 1 IN
          /\ majority <= 1
          /\ t <= MaxTerm
          /\ currentTerm' = [currentTerm EXCEPT ![n] = t]
          /\ votedFor' = [votedFor EXCEPT ![n] = n]
          /\ persistLocked(n, {saved[n]}, t, n)
          /\ role' = [role EXCEPT ![n] = "Leader"]
          /\ leaderID' = [leaderID EXCEPT ![n] = n]
          /\ cast' = cast \cup {<<n, t, n>>}
          /\ elected' = elected \cup {<<n, t>>}
    /\ UNCHANGED <<votes, broadcast, calls, bounds>>

\* Of a dead process there remain its disk and the requests it had sent.
Halt(n) ==
    /\ up[n]
    /\ Fault
    /\ up' = [up EXCEPT ![n] = FALSE]
    /\ role' = [role EXCEPT ![n] = "Follower"]
    /\ currentTerm' = [currentTerm EXCEPT ![n] = 0]
    /\ votedFor' = [votedFor EXCEPT ![n] = Nil]
    /\ leaderID' = [leaderID EXCEPT ![n] = Nil]
    /\ votes' = [votes EXCEPT ![n] = {}]
    /\ broadcast' = [broadcast EXCEPT ![n] = Quiet]
    /\ calls' = Abandoned(Waiting(n, "RequestVote") \cup Waiting(n, "Replicate"))
    /\ UNCHANGED <<ticks, history>>

Crash(n) == Halt(n) /\ UNCHANGED saved

\* A crash between the two SaveState calls of HandleVote: the newer term is on
\* disk, the vote is not, and no answer was sent.
CrashInHandleVote(n) ==
    /\ \E c \in Incoming(n, "RequestVote") :
          /\ c.term > currentTerm[n]
          /\ saved' = [saved EXCEPT ![n] = [term |-> c.term, votedFor |-> Nil]]
    /\ Halt(n)

-----------------------------------------------------------------------------
(* The candidate.                                                          *)

\* The first critical section of startElection, and its requests.  The run
\* loop calls startElection itself, so a node has one election at a time.
startElection(n) ==
    LET t == currentTerm[n] + 1 IN
    /\ up[n]
    /\ n \in Campaigner
    /\ role[n] # "Leader"
    /\ votes[n] = {}
    /\ t <= MaxTerm
    /\ role' = [role EXCEPT ![n] = "Candidate"]
    /\ currentTerm' = [currentTerm EXCEPT ![n] = t]
    /\ votedFor' = [votedFor EXCEPT ![n] = n]
    /\ persistLocked(n, {saved[n]}, t, n)
    /\ cast' = cast \cup {<<n, t, n>>}
    /\ votes' = [votes EXCEPT ![n] = {n}]
    /\ calls' = calls \cup Send("RequestVote", n, peers(n), t)
    /\ UNCHANGED <<up, leaderID, broadcast, bounds, elected>>

\* startElection returns; answers still to come go to a channel nobody reads.
Return(n) ==
    /\ votes' = [votes EXCEPT ![n] = {}]
    /\ calls' = Abandoned(Waiting(n, "RequestVote"))

\* Mutant: the loop waits for one more result than there are peers.
Continue_Forever(n, c, counted) ==
    /\ votes' = [votes EXCEPT ![n] = counted]
    /\ calls' = Abandoned({c})

\* startElection has used the result of call c, and waits for the others.
Continue(n, c, counted) ==
    /\ votes' = [votes EXCEPT ![n] = IF Waiting(n, "RequestVote") = {c} THEN {} ELSE counted]
    /\ calls' = Abandoned({c})

Candidacy(n, c) == role[n] = "Candidate" /\ currentTerm[n] = c.term

Superseded(n, c) ==
    /\ ~Candidacy(n, c)
    /\ Return(n)
    /\ UNCHANGED <<nodeVars, elected>>

\* The peer is in a newer term.
Outdated(n, c) ==
    /\ Candidacy(n, c)
    /\ c.current > currentTerm[n]
    /\ becomeFollowerLocked(n, c.current)
    /\ Return(n)
    /\ UNCHANGED <<leaderID, elected>>

\* A vote that makes a majority.
becomeLeaderLocked(n, c) ==
    /\ Candidacy(n, c)
    /\ c.current <= currentTerm[n]
    /\ c.state = "ok"
    /\ Cardinality(votes[n] \cup {c.to}) >= majority
    /\ role' = [role EXCEPT ![n] = "Leader"]
    /\ leaderID' = [leaderID EXCEPT ![n] = n]
    /\ elected' = elected \cup {<<n, currentTerm[n]>>}
    /\ Return(n)
    /\ UNCHANGED <<currentTerm, votedFor, saved>>

\* A refusal, or a vote that does not make a majority yet.
Counted(n, c) ==
    /\ Candidacy(n, c)
    /\ c.current <= currentTerm[n]
    /\ \/ c.state = "refused" /\ Continue(n, c, votes[n])
       \/ /\ c.state = "ok"
          /\ Cardinality(votes[n] \cup {c.to}) < majority
          /\ Continue(n, c, votes[n] \cup {c.to})
    /\ UNCHANGED <<nodeVars, elected>>

\* startElection reads one result from its channel.
VoteResult(n) ==
    /\ \E c \in Waiting(n, "RequestVote") :
          /\ c.state \in {"ok", "refused"}
          /\ Superseded(n, c) \/ Outdated(n, c) \/ becomeLeaderLocked(n, c) \/ Counted(n, c)
    /\ UNCHANGED <<up, broadcast, bounds, cast>>

\* SendVote fails: the peer is unreachable or voteTimeout has passed.
VoteError(n) ==
    /\ \E c \in Waiting(n, "RequestVote") : Fail(c) /\ Continue(n, c, votes[n])
    /\ UNCHANGED <<up, nodeVars, broadcast, history>>

-----------------------------------------------------------------------------
(* The voter.                                                              *)

\* Mutant: a refused candidate makes the node a follower all the same.
RefuseVote_StepsDown(n, c) ==
    /\ c.term <= currentTerm[n]
    /\ c.term = currentTerm[n] => votedFor[n] \notin {Nil, c.from}
    /\ Answer(c, "refused", currentTerm[n])
    /\ role' = [role EXCEPT ![n] = "Follower"]
    /\ UNCHANGED <<currentTerm, votedFor, leaderID, saved, cast>>

\* The candidate is behind, or the vote of this term went to another one.
RefuseVote(n, c) ==
    /\ c.term <= currentTerm[n]
    /\ c.term = currentTerm[n] => votedFor[n] \notin {Nil, c.from}
    /\ Answer(c, "refused", currentTerm[n])
    /\ UNCHANGED <<nodeVars, cast>>

\* Mutant: the vote already given in this term is not looked at.
GrantVote_Again(n, c) ==
    /\ c.term >= currentTerm[n]
    /\ role' = [role EXCEPT ![n] = IF c.term > currentTerm[n] THEN "Follower" ELSE @]
    /\ persistLocked(n, {saved[n]}, c.term, c.from)
    /\ currentTerm' = [currentTerm EXCEPT ![n] = c.term]
    /\ votedFor' = [votedFor EXCEPT ![n] = c.from]
    /\ cast' = cast \cup {<<n, c.term, c.from>>}
    /\ Answer(c, "ok", c.term)
    /\ UNCHANGED leaderID

\* The vote is granted; a newer term is first adopted and saved without a vote.
GrantVote(n, c) ==
    /\ \/ /\ c.term > currentTerm[n]
          /\ role' = [role EXCEPT ![n] = "Follower"]
          /\ persistLocked(n, {saved[n], [term |-> c.term, votedFor |-> Nil]}, c.term, c.from)
       \/ /\ c.term = currentTerm[n]
          /\ votedFor[n] \in {Nil, c.from}
          /\ persistLocked(n, {saved[n]}, c.term, c.from)
          /\ UNCHANGED role
    /\ currentTerm' = [currentTerm EXCEPT ![n] = c.term]
    /\ votedFor' = [votedFor EXCEPT ![n] = c.from]
    /\ cast' = cast \cup {<<n, c.term, c.from>>}
    /\ Answer(c, "ok", c.term)
    /\ UNCHANGED leaderID

HandleVote(n) ==
    /\ up[n]
    /\ \E c \in Incoming(n, "RequestVote") : RefuseVote(n, c) \/ GrantVote(n, c)
    /\ UNCHANGED <<up, votes, broadcast, bounds, elected>>

-----------------------------------------------------------------------------
(* Heartbeats.                                                             *)

\* A tick of replicationLoop on a node that IsLeader.
replicationLoop(n) ==
    /\ up[n]
    /\ role[n] = "Leader"
    /\ broadcast[n].pc = "idle"
    /\ broadcast' = [broadcast EXCEPT ![n].pc = "checked"]
    /\ \/ MaxTicks = 0 /\ UNCHANGED ticks
       \/ ticks < MaxTicks /\ ticks' = ticks + 1
    /\ UNCHANGED <<up, nodeVars, votes, calls, faults, history>>

\* broadcastReplicate begins: it reads the term, in a critical section of its own.
ReadTerm(n) ==
    /\ broadcast[n].pc = "checked"
    /\ broadcast' = [broadcast EXCEPT ![n] =
                        IF peers(n) = {} THEN Quiet
                        ELSE [pc |-> "sending", term |-> currentTerm[n], left |-> peers(n)]]
    /\ UNCHANGED <<up, nodeVars, votes, calls, bounds, history>>

\* broadcastReplicate calls its peers one after the other.
sendReplicate(n) ==
    /\ broadcast[n].pc = "sending"
    /\ Waiting(n, "Replicate") = {}
    /\ \E p \in broadcast[n].left :
          /\ broadcast' = [broadcast EXCEPT ![n].left = @ \ {p}]
          /\ calls' = calls \cup Send("Replicate", n, {p}, broadcast[n].term)
    /\ UNCHANGED <<up, nodeVars, votes, bounds, history>>

\* A call to a peer is over; after the last one the loop waits for its ticker.
CallDone(n, c) ==
    /\ broadcast' = [broadcast EXCEPT ![n] = IF @.left = {} THEN Quiet ELSE @]
    /\ calls' = Abandoned({c})

\* Mutant: the term of a refusal is not looked at.
ReplicateResult_Ignores(n) ==
    /\ \E c \in Waiting(n, "Replicate") : c.state \in {"ok", "refused"} /\ CallDone(n, c)
    /\ UNCHANGED <<up, nodeVars, votes, bounds, history>>

\* The call returns; the term of a refusal goes to MaybeStepDown.
ReplicateResult(n) ==
    /\ \E c \in Waiting(n, "Replicate") :
          /\ c.state \in {"ok", "refused"}
          /\ \/ /\ c.state = "refused"
                /\ c.current > currentTerm[n]
                /\ becomeFollowerLocked(n, c.current)
             \/ /\ c.state = "ok" \/ c.current <= currentTerm[n]
                /\ UNCHANGED <<role, currentTerm, votedFor, saved>>
          /\ CallDone(n, c)
    /\ UNCHANGED <<up, leaderID, votes, bounds, history>>

\* sendReplicate fails: the peer is unreachable or replicateTimeout has passed.
ReplicateError(n) ==
    /\ \E c \in Waiting(n, "Replicate") : Fail(c) /\ CallDone(n, c)
    /\ UNCHANGED <<up, nodeVars, votes, history>>

\* ObserveLeader on a heartbeat of an older, a newer and the current term; the
\* last disjunct is the branch for "Same-term heartbeat from another leader".
ObserveLeader(n) ==
    /\ up[n]
    /\ \E c \in Incoming(n, "Replicate") :
          \/ /\ c.term < currentTerm[n]
             /\ Answer(c, "refused", currentTerm[n])
             /\ UNCHANGED nodeVars
          \/ /\ c.term > currentTerm[n]
             /\ becomeFollowerLocked(n, c.term)
             /\ leaderID' = [leaderID EXCEPT ![n] = c.from]
             /\ Answer(c, "ok", c.term)
          \/ /\ c.term = currentTerm[n]
             /\ role[n] # "Leader"
             /\ role' = [role EXCEPT ![n] = "Follower"]
             /\ leaderID' = [leaderID EXCEPT ![n] = c.from]
             /\ Answer(c, "ok", c.term)
             /\ UNCHANGED <<currentTerm, votedFor, saved>>
          \/ /\ c.term = currentTerm[n]
             /\ role[n] = "Leader"
             /\ Answer(c, "ok", c.term)
             /\ UNCHANGED nodeVars
    /\ UNCHANGED <<up, votes, broadcast, bounds, history>>

-----------------------------------------------------------------------------
\* The run loop, while it is inside startElection.
RunLoop(n) == VoteResult(n) \/ VoteError(n)

ReplicationLoop(n) ==
    \/ replicationLoop(n) \/ ReadTerm(n) \/ sendReplicate(n)
    \/ ReplicateResult(n) \/ ReplicateError(n)

Next ==
    \E n \in Node :
        \/ Start(n) \/ Crash(n) \/ CrashInHandleVote(n)
        \/ startElection(n) \/ RunLoop(n)
        \/ HandleVote(n) \/ ObserveLeader(n)
        \/ ReplicationLoop(n)

Spec == Init /\ [][Next]_vars

\* The handler of a heartbeat of m runs.
ObserveLeaderOf(n, m) ==
    /\ ObserveLeader(n)
    /\ \E c \in Incoming(n, "Replicate") : c.from = m /\ c \notin calls'

(***************************************************************************)
(* Fairness.  The Go runtime schedules every runnable goroutine: the two   *)
(* loops of a node that campaigns go on (their calls return or time out)   *)
(* and requests are handled, each by a goroutine of its own, except by     *)
(* lossy nodes, which may get none of them.  Nothing obliges a node to     *)
(* start or to campaign: whether and when election timers expire is left   *)
(* to chance, as in the code.                                              *)
(***************************************************************************)
FairSpec ==
    /\ Spec
    /\ \A n \in Campaigner : WF_vars(RunLoop(n)) /\ WF_vars(ReplicationLoop(n))
    /\ \A n \in Node \ Lossy :
          /\ WF_vars(HandleVote(n))
          /\ \A m \in Campaigner \ {n} : WF_vars(ObserveLeaderOf(n, m))

-----------------------------------------------------------------------------
(* Properties.                                                             *)

\* No term is ever won by two nodes, whatever crashes, restarts, timeouts and
\* late votes happen between the two elections (package cluster: "at most one
\* leader per term, because a candidate needs votes from a majority").
OneLeaderPerTerm ==
    \A n, m \in Node, t \in Term :
        <<n, t>> \in elected /\ <<m, t>> \in elected => n = m

\* A node votes for at most one candidate in a term over its whole life,
\* restarts included: HandleVote and startElection save the vote before
\* anybody can count it.
OneVotePerTerm ==
    \A n, c, d \in Node, t \in Term :
        <<n, t, c>> \in cast /\ <<n, t, d>> \in cast => c = d

\* The node that believes it leads has won the term it is in; a vote or a
\* response that arrives late never makes a node leader of another term.
LeaderWonItsTerm ==
    \A n \in Node : role[n] = "Leader" => <<n, currentTerm[n]>> \in elected

\* A running leader stops leading only by moving to a newer term.
StepDownOnlyForNewerTerm ==
    [][\A n \in Node :
          role[n] = "Leader" /\ role'[n] # "Leader" /\ up'[n]
              => currentTerm'[n] > currentTerm[n]]_vars

\* When n leads and a newer leader has replaced it, n is fenced, also when no vote
\* request and no heartbeat of the newer leader ever reaches it: its own heartbeats are
\* refused with the newer term, on which MaybeStepDown acts.
StaleLeaderYields(n) ==
    (/\ role[n] = "Leader"
     /\ \E m \in Node : role[m] = "Leader" /\ currentTerm[m] > currentTerm[n])
        ~> (role[n] # "Leader")

\* The run loop of n is never stuck in startElection: every call it waits for returns,
\* or times out when the peer does not get it.
ElectionReturns(n) == (votes[n] # {}) ~> (votes[n] = {})

\* What the election promises to the rest of the node.
Promise == INSTANCE Leadership WITH
    term  <- [n \in Node |-> saved[n].term],
    leads <- [n \in Node |-> role[n] = "Leader"],
    won   <- elected

\* The election implements its abstract specification: terms on disk never
\* fall, terms are won once, and leadership begins only by winning.
KeepsPromise == Promise!Spec
=============================================================================
