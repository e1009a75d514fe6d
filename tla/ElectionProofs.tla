--------------------------- MODULE ElectionProofs ---------------------------
(***************************************************************************)
(* Proofs about module Election, for every finite set of nodes, every bound*)
(* and every schedule: its operators and the types of its variables; the   *)
(* inductive invariant that says why no term is won twice; the theorems;   *)
(* and that Election implements Leadership.                                *)
(***************************************************************************)
EXTENDS Election, TLAPS

-----------------------------------------------------------------------------
(* Facts about the operators.                                              *)

\* The arithmetic of Node.majority, shown further down from what the library says of finite
\* sets: a majority is a number of nodes, and two majorities have a member in common.
Majorities ==
    /\ majority \in Nat
    /\ \A n \in Node : Cardinality({n}) = 1
    /\ \A Q, R \in SUBSET Node :
           Cardinality(Q) >= majority /\ Cardinality(R) >= majority => Q \cap R # {}

LEMMA MajorityType == ASSUME Majorities PROVE majority \in Nat
  BY DEF Majorities

\* Giving up on calls leaves the others as they are.
LEMMA AbandonedCalls ==
    ASSUME calls \subseteq Call, NEW C, C \subseteq calls
    PROVE  /\ Abandoned(C) \subseteq Call
           /\ \A d \in Abandoned(C) : d \in calls \ C \/ d.state = "abandoned"
  BY DEF Abandoned, Call

-----------------------------------------------------------------------------
(* Type correctness.                                                       *)

\* The initial state has the types of a cluster whose members are all down.
LEMMA TypeInit == Init => TypeOK
  BY NodeAssumption, BoundAssumption DEF Init, TypeOK, Term, Broadcast, Quiet

\* A handler's answer is a call.
LEMMA AnswerType ==
    ASSUME calls \subseteq Call, NEW c \in calls, NEW t \in Term,
           NEW s \in {"ok", "refused"}, Answer(c, s, t)
    PROVE  calls' \subseteq Call
  BY ZenonT(30) DEF Answer, Call

\* persistLocked writes a well-typed record, on a faulty disk too.
LEMMA PersistType ==
    ASSUME TypeOK, NEW n \in Node, NEW t \in Term, NEW v \in Node \cup {Nil},
           NEW P \in SUBSET [term : Term, votedFor : Node \cup {Nil}],
           persistLocked(n, P, t, v)
    PROVE  saved' \in [Node -> [term : Term, votedFor : Node \cup {Nil}]]
  BY DEF TypeOK, persistLocked

\* becomeFollowerLocked leaves the fields it writes in their types.
LEMMA FollowerType ==
    ASSUME TypeOK, NEW n \in Node, NEW t \in Term, becomeFollowerLocked(n, t)
    PROVE  /\ role' \in [Node -> {"Follower", "Candidate", "Leader"}]
           /\ currentTerm' \in [Node -> Term]
           /\ votedFor' \in [Node -> Node \cup {Nil}]
           /\ saved' \in [Node -> [term : Term, votedFor : Node \cup {Nil}]]
<1>1. {saved[n]} \in SUBSET [term : Term, votedFor : Node \cup {Nil}]
  BY DEF TypeOK
<1>2. persistLocked(n, {saved[n]}, t, Nil)
  BY DEF becomeFollowerLocked
<1>3. saved' \in [Node -> [term : Term, votedFor : Node \cup {Nil}]]
  BY <1>1, <1>2, PersistType, ZenonT(30)
<1>4. QED
  BY <1>3, ZenonT(30) DEF TypeOK, becomeFollowerLocked

\* Every step of every action keeps all variables in their types.
LEMMA TypeNext == Majorities /\ TypeOK /\ [Next]_vars => TypeOK'
<1> SUFFICES ASSUME Majorities, TypeOK, [Next]_vars PROVE TypeOK'
  OBVIOUS
<1> USE BoundAssumption, NodeAssumption
<1>0. /\ calls \subseteq Call
      /\ \A n \in Node : {saved[n]} \in SUBSET [term : Term, votedFor : Node \cup {Nil}]
  BY DEF TypeOK
<1>1. CASE UNCHANGED vars
  BY <1>1 DEF TypeOK, vars, nodeVars, bounds, history
<1>2. ASSUME NEW n \in Node, Start(n) PROVE TypeOK'
  <2>1. CASE majority > 1 /\ saved' = saved
    <3>1. /\ up' = [up EXCEPT ![n] = TRUE]
          /\ currentTerm' = [currentTerm EXCEPT ![n] = saved[n].term]
          /\ votedFor' = [votedFor EXCEPT ![n] = saved[n].votedFor]
          /\ UNCHANGED <<role, leaderID, saved, votes, broadcast, calls, faults, ticks,
                         cast, elected>>
      BY <1>2, <2>1, MajorityType DEF Start, history, bounds
    <3>2. QED
      BY <3>1 DEF TypeOK
  <2>2. CASE majority <= 1 /\ saved[n].term + 1 <= MaxTerm
             /\ persistLocked(n, {saved[n]}, saved[n].term + 1, n)
    <3>1. saved[n].term + 1 \in Term
      BY <2>2 DEF TypeOK, Term
    <3>2. saved' \in [Node -> [term : Term, votedFor : Node \cup {Nil}]]
      BY <3>1, <2>2, <1>0, PersistType
    <3>3. /\ up' = [up EXCEPT ![n] = TRUE]
          /\ currentTerm' = [currentTerm EXCEPT ![n] = saved[n].term + 1]
          /\ votedFor' = [votedFor EXCEPT ![n] = n]
          /\ role' = [role EXCEPT ![n] = "Leader"]
          /\ leaderID' = [leaderID EXCEPT ![n] = n]
          /\ cast' = cast \cup {<<n, saved[n].term + 1, n>>}
          /\ elected' = elected \cup {<<n, saved[n].term + 1>>}
          /\ UNCHANGED <<votes, broadcast, calls, faults, ticks>>
      BY <1>2, <2>2, MajorityType DEF Start, bounds
    <3>4. cast' \subseteq (Node \X Term \X Node) /\ elected' \subseteq (Node \X Term)
      BY <3>1, <3>3 DEF TypeOK
    <3>5. QED
      BY <3>1, <3>2, <3>3, <3>4 DEF TypeOK
  <2>3. QED
    BY <1>2, <2>1, <2>2 DEF Start
<1>3. ASSUME NEW n \in Node, Halt(n),
             saved' \in [Node -> [term : Term, votedFor : Node \cup {Nil}]]
      PROVE  TypeOK'
  <2>1. calls' \subseteq Call
    BY <1>0, <1>3, AbandonedCalls DEF Halt, Waiting
  <2>2. faults' \in 0 .. MaxFaults
    BY <1>3 DEF Halt, Fault, TypeOK
  <2>3. 0 \in Term /\ Quiet \in Broadcast
    BY DEF Term, Quiet, Broadcast
  <2>4. QED
    BY <1>3, <2>1, <2>2, <2>3, ZenonT(30) DEF Halt, TypeOK, history
<1>4. ASSUME NEW n \in Node, Crash(n) PROVE TypeOK'
  BY <1>3, <1>4 DEF Crash, TypeOK
<1>5. ASSUME NEW n \in Node, CrashInHandleVote(n) PROVE TypeOK'
  <2>1. saved' \in [Node -> [term : Term, votedFor : Node \cup {Nil}]]
    BY <1>5 DEF CrashInHandleVote, Incoming, TypeOK, Call
  <2>2. QED
    BY <1>3, <1>5, <2>1 DEF CrashInHandleVote
<1>6. ASSUME NEW n \in Node, startElection(n) PROVE TypeOK'
  <2>1. currentTerm[n] + 1 \in Term /\ 0 \in Term
    BY <1>6 DEF startElection, TypeOK, Term
  <2>2. saved' \in [Node -> [term : Term, votedFor : Node \cup {Nil}]]
    BY <1>0, <1>6, <2>1, PersistType DEF startElection
  <2>3. calls' \subseteq Call
    BY <1>0, <1>6, <2>1 DEF startElection, Send, peers, Call
  <2>4. QED
    <3>1. cast' \subseteq (Node \X Term \X Node)
      BY <1>6, <2>1 DEF startElection, TypeOK
    <3>2. votes' \in [Node -> SUBSET Node]
      BY <1>6 DEF startElection, TypeOK
    <3>3. QED
      BY <1>6, <2>1, <2>2, <2>3, <3>1, <3>2 DEF startElection, TypeOK, bounds
<1>7. ASSUME NEW n \in Node, VoteResult(n) PROVE TypeOK'
  <2>1. PICK c \in Waiting(n, "RequestVote") :
           Superseded(n, c) \/ Outdated(n, c) \/ becomeLeaderLocked(n, c) \/ Counted(n, c)
    BY <1>7 DEF VoteResult
  <2>2. c \in calls /\ c.current \in Term /\ c.to \in Node
    BY <1>0 DEF Waiting, Call
  <2>3. calls' \subseteq Call
    BY <1>0, <2>1, <2>2, AbandonedCalls
      DEF Superseded, Outdated, becomeLeaderLocked, Counted, Return, Continue, Waiting
  <2>4. votes' \in [Node -> SUBSET Node]
    BY <2>1, <2>2 DEF Superseded, Outdated, becomeLeaderLocked, Counted, Return, Continue, TypeOK
  <2>5. CASE Outdated(n, c)
    BY <1>7, <2>2, <2>3, <2>4, <2>5, FollowerType DEF Outdated, VoteResult, TypeOK, bounds
  <2>6. CASE Superseded(n, c) \/ becomeLeaderLocked(n, c) \/ Counted(n, c)
    BY <1>7, <2>3, <2>4, <2>6
      DEF Superseded, becomeLeaderLocked, Counted, VoteResult, TypeOK, bounds, nodeVars
  <2>7. QED
    BY <2>1, <2>5, <2>6
<1>8. ASSUME NEW n \in Node, VoteError(n) PROVE TypeOK'
  <2>1. PICK c \in Waiting(n, "RequestVote") : Fail(c) /\ Continue(n, c, votes[n])
    BY <1>8 DEF VoteError
  <2>2. calls' \subseteq Call
    BY <1>0, <2>1, AbandonedCalls DEF Continue, Waiting
  <2>3. votes' \in [Node -> SUBSET Node]
    BY <2>1 DEF Continue, TypeOK
  <2>4. faults' \in 0 .. MaxFaults /\ ticks' = ticks
    BY <2>1 DEF Fail, Fault, TypeOK
  <2>5. QED
    BY <1>8, <2>2, <2>3, <2>4 DEF VoteError, TypeOK, nodeVars, history
<1>9. ASSUME NEW n \in Node, HandleVote(n) PROVE TypeOK'
  <2>1. PICK c \in Incoming(n, "RequestVote") : RefuseVote(n, c) \/ GrantVote(n, c)
    BY <1>9 DEF HandleVote
  <2>2. c \in calls /\ c.term \in Term /\ c.from \in Node /\ currentTerm[n] \in Term
    BY <1>0 DEF Incoming, Call, TypeOK
  <2>3. calls' \subseteq Call
    BY <1>0, <2>1, <2>2, AnswerType DEF RefuseVote, GrantVote
  <2>4. CASE RefuseVote(n, c)
    BY <1>9, <2>3, <2>4 DEF RefuseVote, HandleVote, TypeOK, bounds, nodeVars
  <2>5. CASE GrantVote(n, c)
    <3>1. {saved[n], [term |-> c.term, votedFor |-> Nil]}
              \in SUBSET [term : Term, votedFor : Node \cup {Nil}]
      BY <1>0, <2>2
    <3>2. saved' \in [Node -> [term : Term, votedFor : Node \cup {Nil}]]
      BY <1>0, <2>2, <2>5, <3>1, PersistType DEF GrantVote
    <3>3. cast' \subseteq (Node \X Term \X Node)
      BY <2>2, <2>5 DEF GrantVote, TypeOK
    <3>4. role' \in [Node -> {"Follower", "Candidate", "Leader"}]
      BY <2>5 DEF GrantVote, TypeOK
    <3>5. /\ currentTerm' = [currentTerm EXCEPT ![n] = c.term]
          /\ votedFor' = [votedFor EXCEPT ![n] = c.from]
          /\ leaderID' = leaderID
      BY <2>5 DEF GrantVote
    <3>6. QED
      BY <1>9, <2>2, <2>3, <3>2, <3>3, <3>4, <3>5 DEF HandleVote, TypeOK, bounds
  <2>6. QED
    BY <2>1, <2>4, <2>5
<1>10. ASSUME NEW n \in Node, ObserveLeader(n) PROVE TypeOK'
  <2>1. PICK c \in Incoming(n, "Replicate") :
          \/ /\ Answer(c, "refused", currentTerm[n])
             /\ UNCHANGED nodeVars
          \/ /\ becomeFollowerLocked(n, c.term)
             /\ leaderID' = [leaderID EXCEPT ![n] = c.from]
             /\ Answer(c, "ok", c.term)
          \/ /\ role' = [role EXCEPT ![n] = "Follower"]
             /\ leaderID' = [leaderID EXCEPT ![n] = c.from]
             /\ Answer(c, "ok", c.term)
             /\ UNCHANGED <<currentTerm, votedFor, saved>>
          \/ /\ Answer(c, "ok", c.term)
             /\ UNCHANGED nodeVars
    BY <1>10 DEF ObserveLeader
  <2>2. c \in calls /\ c.term \in Term /\ c.from \in Node /\ currentTerm[n] \in Term
    BY <1>0 DEF Incoming, Call, TypeOK
  <2>3. calls' \subseteq Call
    BY <1>0, <2>1, <2>2, AnswerType
  <2>4. CASE becomeFollowerLocked(n, c.term) /\ leaderID' = [leaderID EXCEPT ![n] = c.from]
    BY <1>10, <2>2, <2>3, <2>4, FollowerType DEF ObserveLeader, TypeOK, bounds, history
  <2>5. CASE UNCHANGED <<currentTerm, votedFor, saved>>
    BY <1>10, <2>1, <2>2, <2>3, <2>5 DEF ObserveLeader, TypeOK, bounds, history, nodeVars,
          becomeFollowerLocked
  <2>6. QED
    BY <2>1, <2>4, <2>5 DEF nodeVars
<1>11. ASSUME NEW n \in Node, replicationLoop(n) \/ ReadTerm(n) \/ sendReplicate(n)
       PROVE  TypeOK'
  <2>1. Quiet \in Broadcast /\ 0 \in Term
    BY DEF Quiet, Broadcast, Term
  <2>2. calls' \subseteq Call
    <3>1. CASE sendReplicate(n)
      BY <1>0, <2>1, <1>11, <3>1 DEF sendReplicate, Send, Call, TypeOK, Broadcast
    <3>2. QED
      BY <1>0, <1>11, <3>1 DEF replicationLoop, ReadTerm
  <2>3. broadcast' \in [Node -> Broadcast]
    <3>1. /\ broadcast \in [Node -> Broadcast]
          /\ currentTerm[n] \in Term
          /\ peers(n) \subseteq Node
      BY DEF TypeOK, peers
    <3>2. CASE replicationLoop(n)
      BY <3>1, <3>2 DEF replicationLoop, Broadcast
    <3>3. CASE ReadTerm(n)
      <4>1. [pc |-> "sending", term |-> currentTerm[n], left |-> peers(n)] \in Broadcast
        BY <3>1 DEF Broadcast
      <4>2. QED
        BY <2>1, <3>1, <3>3, <4>1 DEF ReadTerm
    <3>4. CASE sendReplicate(n)
      BY <3>1, <3>4 DEF sendReplicate, Broadcast
    <3>5. QED
      BY <1>11, <3>2, <3>3, <3>4
  <2>4. QED
    BY <1>11, <2>2, <2>3
      DEF replicationLoop, ReadTerm, sendReplicate, TypeOK, bounds, nodeVars, history
<1>12. ASSUME NEW n \in Node, ReplicateResult(n) \/ ReplicateError(n) PROVE TypeOK'
  <2>1. ASSUME NEW c \in Waiting(n, "Replicate"), CallDone(n, c)
        PROVE  calls' \subseteq Call /\ broadcast' \in [Node -> Broadcast] /\ c.current \in Term
    <3>1. c \in calls /\ c \in Call /\ c.current \in Term
      BY DEF Waiting, TypeOK, Call
    <3>2. calls' \subseteq Call
      BY <1>0, <2>1, <3>1, AbandonedCalls DEF CallDone
    <3>3. broadcast \in [Node -> Broadcast] /\ Quiet \in Broadcast
      BY DEF TypeOK, Quiet, Broadcast, Term
    <3>4. broadcast' \in [Node -> Broadcast]
      BY <2>1, <3>3 DEF CallDone
    <3> QED
      BY <3>1, <3>2, <3>4
  <2>2. CASE ReplicateError(n)
    BY <2>1, <2>2 DEF ReplicateError, Fail, Fault, TypeOK, nodeVars, history
  <2>3. CASE ReplicateResult(n)
    <3>1. PICK c \in Waiting(n, "Replicate") :
            /\ \/ becomeFollowerLocked(n, c.current)
               \/ UNCHANGED <<role, currentTerm, votedFor, saved>>
            /\ CallDone(n, c)
      BY <2>3 DEF ReplicateResult
    <3>2. CASE becomeFollowerLocked(n, c.current)
      BY <2>1, <2>3, <3>1, <3>2, FollowerType DEF ReplicateResult, TypeOK, bounds, history
    <3>3. CASE UNCHANGED <<role, currentTerm, votedFor, saved>>
      BY <2>1, <2>3, <3>1, <3>3 DEF ReplicateResult, TypeOK, bounds, history
    <3>4. QED
      BY <3>1, <3>2, <3>3
  <2>4. QED
    BY <1>12, <2>2, <2>3
<1>13. QED
  BY <1>1, <1>2, <1>4, <1>5, <1>6, <1>7, <1>8, <1>9, <1>10, <1>11, <1>12
    DEF Next, RunLoop, ReplicationLoop

-----------------------------------------------------------------------------
(* The inductive invariant.                                                *)

\* A running node's disk holds exactly what it has in memory; a node that is
\* down has no role, no election and no call that anybody waits for.
DiskInv ==
    \A n \in Node :
        /\ up[n] => saved[n] = [term |-> currentTerm[n], votedFor |-> votedFor[n]]
        /\ ~up[n] => /\ role[n] = "Follower"
                     /\ votes[n] = {}
                     /\ broadcast[n] = Quiet
                     /\ \A c \in calls : c.from = n => c.state = "abandoned"

\* Votes are cast in terms up to the saved one, and the saved vote is the one
\* cast in the saved term.
CastInv ==
    \A v, c \in Node, t \in Term :
        <<v, t, c>> \in cast =>
            /\ t <= saved[v].term
            /\ t = saved[v].term => saved[v].votedFor = c

\* A node waits for the votes of one term at a time, and what its election
\* counts has been cast for it in that term.
TallyInv ==
    /\ \A n \in Node : \A c, d \in Waiting(n, "RequestVote") : c.term = d.term
    /\ \A c \in calls :
          c.rpc = "RequestVote" /\ c.state = "ok" => <<c.to, c.term, c.from>> \in cast
    /\ \A c \in calls :
          c.rpc = "RequestVote" /\ c.state # "abandoned" =>
              /\ votes[c.from] # {}
              /\ \A v \in votes[c.from] : <<v, c.term, c.from>> \in cast

\* Q is a majority that voted for n in term t.
Backs(Q, n, t) ==
    /\ Q \subseteq Node
    /\ Cardinality(Q) >= majority
    /\ \A v \in Q : <<v, t, n>> \in cast

\* Every election was won with a majority, in a term the winner has recorded.
ElectedInv ==
    \A n \in Node, t \in Term :
        <<n, t>> \in elected =>
            /\ t <= saved[n].term
            /\ \E Q \in SUBSET Node : Backs(Q, n, t)

\* A candidate has not won the term it campaigns in.
CandidateInv ==
    \A n \in Node : role[n] = "Candidate" => <<n, currentTerm[n]>> \notin elected

IInv ==
    /\ TypeOK
    /\ DiskInv
    /\ CastInv
    /\ OneVotePerTerm
    /\ TallyInv
    /\ ElectedInv
    /\ LeaderWonItsTerm
    /\ CandidateInv

-----------------------------------------------------------------------------
(* The invariant is inductive when SaveState does not fail.                *)

\* Where SaveState succeeds, persistLocked writes the record it is given.
LEMMA PersistSaves ==
    ASSUME FaultyDisk = {}, NEW n, NEW P, NEW t, NEW v, persistLocked(n, P, t, v)
    PROVE  saved' = [saved EXCEPT ![n] = [term |-> t, votedFor |-> v]]
  BY ZenonT(30) DEF persistLocked

\* The invariant holds before any member has started.
LEMMA InvInit == Init => IInv
<1> SUFFICES ASSUME Init PROVE IInv
  OBVIOUS
<1>1. TypeOK
  BY TypeInit
<1>2. DiskInv /\ TallyInv
  BY DEF Init, DiskInv, TallyInv, Waiting
<1>3. CastInv /\ OneVotePerTerm /\ ElectedInv
  BY DEF Init, CastInv, OneVotePerTerm, ElectedInv
<1>4. LeaderWonItsTerm /\ CandidateInv
  BY DEF Init, LeaderWonItsTerm, CandidateInv
<1>5. QED
  BY <1>1, <1>2, <1>3, <1>4 DEF IInv

\* A node that moves to a newer term cannot have voted in it or won it.
LEMMA NewTermIsFresh ==
    ASSUME TypeOK, CastInv, ElectedInv, NEW n \in Node, NEW t \in Term, t > saved[n].term
    PROVE  /\ \A c \in Node : <<n, t, c>> \notin cast
           /\ <<n, t>> \notin elected
<1>1. saved[n].term \in Nat /\ t \in Nat
  BY BoundAssumption DEF TypeOK, Term
<1>2. QED
  BY <1>1 DEF CastInv, ElectedInv

\* The votes that were cast stay cast: what is backed by them stays so.
LEMMA VotesRemain ==
    ASSUME TypeOK, ElectedInv, cast \subseteq cast', elected' = elected,
           \A n \in Node : saved'[n].term >= saved[n].term,
           \A n \in Node : saved'[n].term \in Nat
    PROVE  ElectedInv'
<1> SUFFICES ASSUME NEW n \in Node, NEW t \in Term, <<n, t>> \in elected
             PROVE  t <= saved'[n].term /\ \E Q \in SUBSET Node : Backs(Q, n, t)'
  BY DEF ElectedInv, Term
<1>1. t \in Nat /\ saved[n].term \in Nat
  BY BoundAssumption DEF TypeOK, Term
<1>2. PICK Q \in SUBSET Node : Backs(Q, n, t)
  BY DEF ElectedInv
<1>3. Backs(Q, n, t)'
  BY <1>2 DEF Backs, majority
<1>4. t <= saved'[n].term
  BY <1>1 DEF ElectedInv
<1>5. QED
  BY <1>3, <1>4

\* Casting a vote in the term it saves keeps the votes of a node consistent.
LEMMA VoteSaved ==
    ASSUME TypeOK, CastInv, OneVotePerTerm,
           NEW n \in Node, NEW t \in Term, NEW d \in Node,
           saved' = [saved EXCEPT ![n] = [term |-> t, votedFor |-> d]],
           cast' = cast \cup {<<n, t, d>>},
           t > saved[n].term \/ (t = saved[n].term /\ saved[n].votedFor \in {Nil, d})
    PROVE  CastInv' /\ OneVotePerTerm'
<1>1. t \in Nat /\ \A v \in Node : saved[v].term \in Nat
  BY BoundAssumption DEF TypeOK, Term
<1>2. \A c \in Node : <<n, t, c>> \in cast => c = d
  BY <1>1, NodeAssumption DEF CastInv
<1>3. CastInv'
  <2> SUFFICES ASSUME NEW v \in Node, NEW c \in Node, NEW u \in Term, <<v, u, c>> \in cast'
               PROVE  u <= saved'[v].term /\ (u = saved'[v].term => saved'[v].votedFor = c)
    BY DEF CastInv, Term
  <2>1. u \in Nat
    BY BoundAssumption DEF Term
  <2>2. CASE v = n
    BY <1>1, <1>2, <2>1, <2>2 DEF CastInv, TypeOK
  <2>3. CASE v # n
    BY <2>3 DEF CastInv, TypeOK
  <2>4. QED
    BY <2>2, <2>3
<1>4. OneVotePerTerm'
  BY <1>2 DEF OneVotePerTerm, Term
<1>5. QED
  BY <1>3, <1>4

\* Moving to a newer term without a vote, too.
LEMMA TermSaved ==
    ASSUME TypeOK, CastInv, NEW n \in Node, NEW t \in Term, t > saved[n].term,
           saved' = [saved EXCEPT ![n] = [term |-> t, votedFor |-> Nil]], cast' = cast
    PROVE  CastInv'
<1>1. t \in Nat /\ \A v \in Node : saved[v].term \in Nat
  BY BoundAssumption DEF TypeOK, Term
<1> SUFFICES ASSUME NEW v \in Node, NEW c \in Node, NEW u \in Term, <<v, u, c>> \in cast
             PROVE  u <= saved'[v].term /\ (u = saved'[v].term => saved'[v].votedFor = c)
  BY DEF CastInv, Term
<1>2. u \in Nat
  BY BoundAssumption DEF Term
<1>3. QED
  BY <1>1, <1>2 DEF CastInv, TypeOK

\* Every becomeFollowerLocked of a running node keeps what depends on terms,
\* roles and votes.
LEMMA FollowerInv ==
    ASSUME FaultyDisk = {}, IInv, TypeOK', NEW n \in Node, NEW t \in Term,
           up[n], t > currentTerm[n], becomeFollowerLocked(n, t),
           UNCHANGED <<up, cast, elected>>
    PROVE  /\ CastInv' /\ OneVotePerTerm' /\ ElectedInv' /\ LeaderWonItsTerm' /\ CandidateInv'
           /\ \A m \in Node : up[m] =>
                 saved'[m] = [term |-> currentTerm'[m], votedFor |-> votedFor'[m]]
           /\ \A m \in Node : ~up[m] => role'[m] = "Follower"
<1>1. TypeOK /\ DiskInv /\ CastInv /\ OneVotePerTerm /\ ElectedInv
        /\ LeaderWonItsTerm /\ CandidateInv
  BY ZenonT(30) DEF IInv
<1>2. saved[n].term = currentTerm[n]
  BY <1>1 DEF DiskInv, TypeOK
<1>3. saved' = [saved EXCEPT ![n] = [term |-> t, votedFor |-> Nil]]
  BY PersistSaves DEF becomeFollowerLocked
<1>4. t \in Nat /\ \A v \in Node : saved[v].term \in Nat /\ saved'[v].term \in Nat
  BY <1>1, BoundAssumption DEF TypeOK, Term
<1>5. CastInv'
  BY <1>1, <1>2, <1>3, TermSaved, ZenonT(30)
<1>6. OneVotePerTerm'
  BY <1>1 DEF OneVotePerTerm, Term
<1>7. ElectedInv'
  <2>1. \A v \in Node : saved'[v].term >= saved[v].term
    BY <1>1, <1>2, <1>3, <1>4 DEF TypeOK
  <2>2. QED
    BY <1>1, <1>4, <2>1, VotesRemain, ZenonT(30)
<1>8. LeaderWonItsTerm' /\ CandidateInv'
  <2>1. role'[n] = "Follower"
          /\ \A m \in Node \ {n} : role'[m] = role[m] /\ currentTerm'[m] = currentTerm[m]
    BY <1>1 DEF becomeFollowerLocked, TypeOK
  <2>2. QED
    BY <1>1, <2>1 DEF LeaderWonItsTerm, CandidateInv
<1>9. \A m \in Node : up[m] =>
         saved'[m] = [term |-> currentTerm'[m], votedFor |-> votedFor'[m]]
  BY <1>1, <1>3 DEF DiskInv, becomeFollowerLocked, TypeOK
<1>10. \A m \in Node : ~up[m] => role'[m] = "Follower"
  BY <1>1 DEF DiskInv, becomeFollowerLocked, TypeOK
<1>11. QED
  BY <1>5, <1>6, <1>7, <1>8, <1>9, <1>10

\* Calls given up, with the election of their caller unchanged, ended, or
\* continued with votes cast for it, keep the tally.
LEMMA TallyKept ==
    ASSUME TypeOK, TallyInv, cast' = cast, NEW n \in Node,
           \/ Return(n)
           \/ \E c \in Waiting(n, "RequestVote") :
                 \/ Continue(n, c, votes[n])
                 \/ Continue(n, c, votes[n] \cup {c.to}) /\ c.state = "ok"
    PROVE  TallyInv'
<1>0. calls \subseteq Call /\ votes \in [Node -> SUBSET Node]
  BY DEF TypeOK
<1>1. CASE Return(n)
  <2>1. Waiting(n, "RequestVote") \subseteq calls
    BY DEF Waiting
  <2>2. \A d \in calls' : d \in calls \ Waiting(n, "RequestVote") \/ d.state = "abandoned"
    BY <1>0, <1>1, <2>1, AbandonedCalls DEF Return
  <2>3. \A m \in Node : Waiting(m, "RequestVote")' \subseteq Waiting(m, "RequestVote")
    BY <2>2 DEF Waiting
  <2>4. \A d \in calls' : d.rpc = "RequestVote" /\ d.state # "abandoned" =>
            d \in calls /\ d.from # n /\ d.from \in Node
    BY <1>0, <2>2 DEF Waiting, Call
  <2>5. \A m \in Node \ {n} : votes'[m] = votes[m]
    BY <1>0, <1>1 DEF Return
  <2>6. QED
    BY <2>3, <2>4, <2>5 DEF TallyInv
<1>2. ASSUME NEW c \in Waiting(n, "RequestVote"), NEW T \in SUBSET Node,
             Continue(n, c, T), votes[n] \subseteq T,
             \A v \in T : v \in votes[n] \/ (v = c.to /\ c.state = "ok")
      PROVE  TallyInv'
  <2>1. c \in calls /\ {c} \subseteq calls /\ c.from = n /\ c.rpc = "RequestVote"
          /\ c.state # "abandoned"
    BY DEF Waiting
  <2>2. \A d \in calls' : d \in calls \ {c} \/ d.state = "abandoned"
    BY <1>0, <1>2, <2>1, AbandonedCalls DEF Continue
  <2>3. \A m \in Node : Waiting(m, "RequestVote")' \subseteq Waiting(m, "RequestVote")
    BY <2>2 DEF Waiting
  <2>4. \A v \in T : <<v, c.term, n>> \in cast
    BY <1>2, <2>1 DEF TallyInv
  <2>5. T # {}
    BY <1>2, <2>1 DEF TallyInv
  <2>6. ASSUME NEW d \in calls', d.rpc = "RequestVote", d.state # "abandoned"
        PROVE  votes'[d.from] # {} /\ \A v \in votes'[d.from] : <<v, d.term, d.from>> \in cast
    <3>1. d \in calls /\ d # c /\ d.from \in Node
      BY <1>0, <2>2, <2>6 DEF Call
    <3>2. CASE d.from = n
      <4>1. d \in Waiting(n, "RequestVote")
        BY <2>6, <3>1, <3>2 DEF Waiting
      <4>2. votes'[n] = T
        BY <1>0, <1>2, <3>1, <4>1 DEF Continue
      <4>3. d.term = c.term
        BY <4>1 DEF TallyInv
      <4>4. QED
        BY <2>4, <2>5, <3>2, <4>2, <4>3
    <3>3. CASE d.from # n
      <4>1. votes'[d.from] = votes[d.from]
        BY <1>0, <1>2, <3>1, <3>3 DEF Continue
      <4>2. QED
        BY <2>6, <3>1, <4>1 DEF TallyInv
    <3>4. QED
      BY <3>2, <3>3
  <2>7. \A d \in calls' : d.rpc = "RequestVote" /\ d.state = "ok" => <<d.to, d.term, d.from>> \in cast
    BY <2>2 DEF TallyInv
  <2>8. QED
    BY <2>3, <2>6, <2>7 DEF TallyInv
<1>3. ASSUME NEW c \in Waiting(n, "RequestVote") PROVE c.to \in Node
  BY <1>0 DEF Waiting, Call
<1>4. QED
  BY <1>0, <1>1, <1>2, <1>3, ZenonT(30)

\* An answer to a RequestVote: the tally is kept, because a granted vote is
\* cast for the caller in the term of the call.
LEMMA AnswerKeepsTally ==
    ASSUME TypeOK, TallyInv, cast \subseteq cast', votes' = votes, NEW c \in calls,
           NEW s \in {"ok", "refused"}, NEW t \in Term, Answer(c, s, t),
           c.rpc = "RequestVote" /\ s = "ok" => <<c.to, c.term, c.from>> \in cast'
    PROVE  TallyInv'
<1>0. calls \subseteq Call
  BY DEF TypeOK
<1>1. \A d \in calls' :
         \/ d \in calls
         \/ /\ c.state # "abandoned" /\ d.state = s
            /\ d.rpc = c.rpc /\ d.from = c.from /\ d.to = c.to /\ d.term = c.term
  BY <1>0, ZenonT(30) DEF Answer, Call
<1>2. \A d \in calls' : d.rpc = "RequestVote" /\ d.state # "abandoned" =>
         \E e \in calls : /\ e.rpc = "RequestVote" /\ e.state # "abandoned"
                          /\ e.from = d.from /\ e.term = d.term
  BY <1>1
<1>3. \A n \in Node : \A d, e \in Waiting(n, "RequestVote")' : d.term = e.term
  <2> SUFFICES ASSUME NEW n \in Node, NEW d \in Waiting(n, "RequestVote")',
                      NEW e \in Waiting(n, "RequestVote")'
               PROVE  d.term = e.term
    OBVIOUS
  <2>1. \E f \in Waiting(n, "RequestVote") : f.term = d.term
    BY <1>2 DEF Waiting
  <2>2. \E f \in Waiting(n, "RequestVote") : f.term = e.term
    BY <1>2 DEF Waiting
  <2>3. QED
    BY <2>1, <2>2 DEF TallyInv
<1>4. \A d \in calls' : d.rpc = "RequestVote" /\ d.state = "ok" =>
         <<d.to, d.term, d.from>> \in cast'
  BY <1>1 DEF TallyInv
<1>5. \A d \in calls' : d.rpc = "RequestVote" /\ d.state # "abandoned" =>
         votes[d.from] # {} /\ \A v \in votes[d.from] : <<v, d.term, d.from>> \in cast'
  BY <1>2 DEF TallyInv
<1>6. QED
  BY <1>3, <1>4, <1>5 DEF TallyInv

\* Calls that are not RequestVote do not matter to the tally.
LEMMA OtherCallsKeepTally ==
    ASSUME TallyInv, UNCHANGED <<cast, votes>>,
           \A d \in calls' : d \in calls \/ d.state = "abandoned" \/ d.rpc # "RequestVote"
    PROVE  TallyInv'
<1>1. \A n \in Node : Waiting(n, "RequestVote")' \subseteq Waiting(n, "RequestVote")
  BY DEF Waiting
<1>2. QED
  BY <1>1 DEF TallyInv

\* When no role, term, vote or disk changes, only the calls need a look.
LEMMA NodesUnchanged ==
    ASSUME IInv, UNCHANGED <<up, role, currentTerm, votedFor, saved, cast, elected>>
    PROVE  CastInv' /\ OneVotePerTerm' /\ ElectedInv' /\ LeaderWonItsTerm' /\ CandidateInv'
<1>1. CastInv' /\ OneVotePerTerm' /\ LeaderWonItsTerm' /\ CandidateInv'
  BY DEF IInv, CastInv, OneVotePerTerm, LeaderWonItsTerm, CandidateInv, Term
<1>2. ElectedInv'
  BY DEF IInv, ElectedInv, Term, Backs, majority
<1>3. QED
  BY <1>1, <1>2

\* Start: a restarted node resumes with the term and vote of its disk, and a
\* node that is alone wins a term nobody voted in.
LEMMA StartInv ==
    ASSUME Majorities, FaultyDisk = {}, IInv, TypeOK', NEW n \in Node, Start(n)
    PROVE  IInv'
<1>1. TypeOK /\ DiskInv /\ CastInv /\ OneVotePerTerm /\ TallyInv /\ ElectedInv
        /\ LeaderWonItsTerm /\ CandidateInv
  BY ZenonT(30) DEF IInv
<1>2. role[n] = "Follower"
  BY <1>1 DEF Start, DiskInv, TypeOK
<1>3. up' = [up EXCEPT ![n] = TRUE] /\ votes' = votes /\ broadcast' = broadcast /\ calls' = calls
  BY DEF Start
<1>4. CASE majority > 1
  <2>1. /\ currentTerm' = [currentTerm EXCEPT ![n] = saved[n].term]
        /\ votedFor' = [votedFor EXCEPT ![n] = saved[n].votedFor]
        /\ UNCHANGED <<role, saved, cast, elected>>
    BY <1>4, MajorityType DEF Start, history
  <2>2. DiskInv'
    BY <1>1, <1>3, <2>1 DEF DiskInv, TypeOK
  <2>3. CastInv' /\ OneVotePerTerm'
    BY <1>1, <2>1, ZenonT(30) DEF CastInv, OneVotePerTerm, Term
  <2>4. ElectedInv'
    BY <1>1, <2>1 DEF ElectedInv, Term, Backs, majority
  <2>5. TallyInv'
    BY <1>1, <1>3, <2>1 DEF TallyInv, Waiting
  <2>6. LeaderWonItsTerm' /\ CandidateInv'
    BY <1>1, <1>2, <2>1 DEF LeaderWonItsTerm, CandidateInv, TypeOK
  <2>7. QED
    BY <2>2, <2>3, <2>4, <2>5, <2>6, ZenonT(30) DEF IInv
<1>5. CASE ~ (majority > 1)
  <2>0. saved[n].term + 1 \in Term
    BY <1>1, <1>5, MajorityType, BoundAssumption DEF Start, TypeOK, Term
  <2>1. PICK t \in Term :
        /\ t = saved[n].term + 1
        /\ currentTerm' = [currentTerm EXCEPT ![n] = t]
        /\ votedFor' = [votedFor EXCEPT ![n] = n]
        /\ persistLocked(n, {saved[n]}, t, n)
        /\ role' = [role EXCEPT ![n] = "Leader"]
        /\ cast' = cast \cup {<<n, t, n>>}
        /\ elected' = elected \cup {<<n, t>>}
    BY <1>5, <2>0, MajorityType DEF Start
  <2>2. saved' = [saved EXCEPT ![n] = [term |-> t, votedFor |-> n]]
    BY <2>1, PersistSaves
  <2>3. t \in Term /\ t > saved[n].term /\ t \in Nat
          /\ \A v \in Node : saved[v].term \in Nat /\ saved'[v].term \in Nat
    BY <1>1, <2>1, BoundAssumption DEF TypeOK, Term
  <2>4. DiskInv'
    BY <1>1, <1>3, <2>1, <2>2 DEF DiskInv, TypeOK
  <2>5. CastInv' /\ OneVotePerTerm'
    BY <1>1, <2>1, <2>2, <2>3, VoteSaved, ZenonT(30)
  <2>6. TallyInv'
    BY <1>1, <1>3, <2>1 DEF TallyInv, Waiting
  <2>7. Backs({n}, n, t)'
    <3>1. Cardinality({n}) = 1
      BY Zenon DEF Majorities
    <3>2. QED
      BY <1>5, <2>1, <3>1, MajorityType DEF Backs, majority
  <2>8. ElectedInv'
    <3> SUFFICES ASSUME NEW m \in Node, NEW u \in Term, <<m, u>> \in elected'
                 PROVE  u <= saved'[m].term /\ \E Q \in SUBSET Node : Backs(Q, m, u)'
      BY DEF ElectedInv, Term
    <3>1. CASE m = n /\ u = t
      <4>1. u <= saved'[m].term
        BY <1>1, <2>2, <2>3, <3>1 DEF TypeOK
      <4>2. {n} \in SUBSET Node /\ Backs({n}, m, u)'
        BY <2>7, <3>1
      <4>3. QED
        BY <4>1, <4>2
    <3>2. CASE <<m, u>> \in elected
      <4>1. PICK Q \in SUBSET Node : Backs(Q, m, u)
        BY <1>1, <3>2 DEF ElectedInv
      <4>2. Backs(Q, m, u)'
        BY <2>1, <4>1 DEF Backs, majority
      <4>3. u <= saved[m].term /\ u \in Nat
        BY <1>1, <3>2, BoundAssumption DEF ElectedInv, Term
      <4>4. u <= saved'[m].term
        BY <1>1, <2>2, <2>3, <4>3 DEF TypeOK
      <4>5. QED
        BY <4>2, <4>4
    <3>3. QED
      BY <2>1, <3>1, <3>2
  <2>9. LeaderWonItsTerm' /\ CandidateInv'
    <3>1. /\ role'[n] = "Leader" /\ currentTerm'[n] = t
          /\ \A m \in Node \ {n} : role'[m] = role[m] /\ currentTerm'[m] = currentTerm[m]
      BY <1>1, <2>1 DEF TypeOK
    <3>2. QED
      BY <1>1, <2>1, <3>1 DEF LeaderWonItsTerm, CandidateInv
  <2>10. QED
    BY <2>4, <2>5, <2>6, <2>8, <2>9, ZenonT(30) DEF IInv
<1>6. QED
  BY <1>4, <1>5

\* A crash, at any moment: what is on disk suffices.
LEMMA HaltInv ==
    ASSUME FaultyDisk = {}, IInv, TypeOK', NEW n \in Node, Halt(n),
           \/ UNCHANGED saved
           \/ \E t \in Term : /\ t > currentTerm[n]
                              /\ saved' = [saved EXCEPT ![n] = [term |-> t, votedFor |-> Nil]]
    PROVE  IInv'
<1>1. TypeOK /\ DiskInv /\ CastInv /\ OneVotePerTerm /\ TallyInv /\ ElectedInv
        /\ LeaderWonItsTerm /\ CandidateInv
  BY DEF IInv
<1>2. /\ up[n]
      /\ up' = [up EXCEPT ![n] = FALSE]
      /\ role' = [role EXCEPT ![n] = "Follower"]
      /\ currentTerm' = [currentTerm EXCEPT ![n] = 0]
      /\ votedFor' = [votedFor EXCEPT ![n] = Nil]
      /\ votes' = [votes EXCEPT ![n] = {}]
      /\ broadcast' = [broadcast EXCEPT ![n] = Quiet]
      /\ calls' = Abandoned(Waiting(n, "RequestVote") \cup Waiting(n, "Replicate"))
      /\ UNCHANGED <<cast, elected>>
  BY DEF Halt, history
<1>3. saved[n].term = currentTerm[n]
  BY <1>1, <1>2 DEF DiskInv, TypeOK
<1>4. \A d \in calls' :
         \/ d.state = "abandoned"
         \/ d \in calls /\ d.from # n
  <2>1. Waiting(n, "RequestVote") \cup Waiting(n, "Replicate") \subseteq calls
    BY DEF Waiting
  <2>2. calls \subseteq Call
    BY <1>1 DEF TypeOK
  <2>3. \A d \in calls' : d.state = "abandoned" \/
           d \in calls \ (Waiting(n, "RequestVote") \cup Waiting(n, "Replicate"))
    BY <1>2, <2>1, <2>2, AbandonedCalls, ZenonT(30)
  <2>4. QED
    BY <2>2, <2>3 DEF Waiting, Call
<1>5. DiskInv'
  <2>1. ASSUME NEW m \in Node, m # n
        PROVE  saved'[m] = saved[m] /\ up'[m] = up[m] /\ role'[m] = role[m]
                 /\ votes'[m] = votes[m] /\ broadcast'[m] = broadcast[m]
                 /\ currentTerm'[m] = currentTerm[m] /\ votedFor'[m] = votedFor[m]
    BY <1>1, <1>2, <2>1 DEF TypeOK
  <2>2. ~up'[n] /\ role'[n] = "Follower" /\ votes'[n] = {} /\ broadcast'[n] = Quiet
    BY <1>1, <1>2 DEF TypeOK
  <2>3. QED
    BY <1>1, <1>4, <2>1, <2>2 DEF DiskInv, Quiet
<1>6. TallyInv'
  <2>1. \A m \in Node : Waiting(m, "RequestVote")' \subseteq Waiting(m, "RequestVote")
    BY <1>4 DEF Waiting
  <2>2. calls \subseteq Call /\ \A m \in Node \ {n} : votes'[m] = votes[m]
    BY <1>1, <1>2 DEF TypeOK
  <2>3. \A d \in calls' : d.state # "abandoned" => d \in calls /\ votes'[d.from] = votes[d.from]
    BY <1>4, <2>2 DEF Call
  <2>4. QED
    BY <1>1, <1>2, <2>1, <2>3, ZenonT(30) DEF TallyInv
<1>7. LeaderWonItsTerm' /\ CandidateInv'
  <2>1. role'[n] = "Follower"
          /\ \A m \in Node \ {n} : role'[m] = role[m] /\ currentTerm'[m] = currentTerm[m]
    BY <1>1, <1>2 DEF TypeOK
  <2>2. QED
    BY <1>1, <1>2, <2>1 DEF LeaderWonItsTerm, CandidateInv
<1>8. OneVotePerTerm'
  BY <1>1, <1>2 DEF OneVotePerTerm, Term
<1>9. CASE UNCHANGED saved
  <2>1. CastInv' /\ ElectedInv'
    BY <1>1, <1>2, <1>9 DEF CastInv, ElectedInv, Term, Backs, majority
  <2>2. QED
    BY <2>1, <1>5, <1>6, <1>7, <1>8, ZenonT(30) DEF IInv
<1>10. ASSUME NEW t \in Term, t > currentTerm[n],
              saved' = [saved EXCEPT ![n] = [term |-> t, votedFor |-> Nil]]
       PROVE  IInv'
  <2>1. CastInv'
    BY <1>1, <1>2, <1>3, <1>10, TermSaved, ZenonT(30)
  <2>2. \A v \in Node : saved'[v].term >= saved[v].term /\ saved'[v].term \in Nat
    BY <1>1, <1>3, <1>10, BoundAssumption DEF TypeOK, Term
  <2>3. ElectedInv'
    BY <1>1, <1>2, <2>2, VotesRemain
  <2>4. QED
    BY <2>1, <2>3, <1>5, <1>6, <1>7, <1>8, ZenonT(30) DEF IInv
<1>11. QED
  BY <1>9, <1>10

\* startElection: the candidate's own vote is the first of a fresh term.
LEMMA CampaignInv ==
    ASSUME FaultyDisk = {}, IInv, TypeOK', NEW n \in Node, startElection(n)
    PROVE  IInv'
<1>1. TypeOK /\ DiskInv /\ CastInv /\ OneVotePerTerm /\ TallyInv /\ ElectedInv
        /\ LeaderWonItsTerm /\ CandidateInv
  BY DEF IInv
<1>2. currentTerm[n] + 1 \in Term
  BY <1>1, BoundAssumption DEF startElection, TypeOK, Term
<1>3. PICK t \in Term :
      /\ t = currentTerm[n] + 1
      /\ up[n] /\ votes[n] = {}
      /\ role' = [role EXCEPT ![n] = "Candidate"]
      /\ currentTerm' = [currentTerm EXCEPT ![n] = t]
      /\ votedFor' = [votedFor EXCEPT ![n] = n]
      /\ persistLocked(n, {saved[n]}, t, n)
      /\ cast' = cast \cup {<<n, t, n>>}
      /\ votes' = [votes EXCEPT ![n] = {n}]
      /\ calls' = calls \cup Send("RequestVote", n, peers(n), t)
      /\ UNCHANGED <<up, broadcast, elected>>
  BY <1>2, ZenonT(30) DEF startElection
<1>4. saved' = [saved EXCEPT ![n] = [term |-> t, votedFor |-> n]]
  BY <1>3, PersistSaves, ZenonT(30)
<1>5. saved[n].term = currentTerm[n]
  BY <1>1, <1>3 DEF DiskInv, TypeOK
<1>6. t > saved[n].term /\ t \in Nat
        /\ \A v \in Node : saved[v].term \in Nat /\ saved'[v].term \in Nat
  BY <1>1, <1>3, <1>5, BoundAssumption DEF TypeOK, Term
<1>7. CastInv' /\ OneVotePerTerm'
  BY <1>1, <1>3, <1>4, <1>6, VoteSaved, ZenonT(30)
<1>8. ElectedInv'
  <2>1. \A v \in Node : saved'[v].term >= saved[v].term
    BY <1>1, <1>4, <1>6 DEF TypeOK
  <2>2. QED
    BY <1>1, <1>3, <1>6, <2>1, VotesRemain, ZenonT(30)
<1>9. \A d \in calls' :
         \/ d \in calls
         \/ d.from = n /\ d.term = t /\ d.state = "sent"
  BY <1>3, ZenonT(30) DEF Send
<1>10. DiskInv'
  <2>. DEFINE F(f) == f = [m \in Node |-> f[m]]
  <2>0. F(saved) /\ F(role) /\ F(votes) /\ F(currentTerm) /\ F(votedFor)
    BY <1>1 DEF TypeOK
  <2>1. ASSUME NEW m \in Node, m # n
        PROVE  saved'[m] = saved[m] /\ role'[m] = role[m] /\ votes'[m] = votes[m]
                 /\ currentTerm'[m] = currentTerm[m] /\ votedFor'[m] = votedFor[m]
    BY <1>3, <1>4, <2>0, <2>1, ZenonT(30)
  <2>2. saved'[n] = [term |-> currentTerm'[n], votedFor |-> votedFor'[n]]
    BY <1>3, <1>4, <2>0, Zenon
  <2>3. up' = up /\ broadcast' = broadcast /\ up[n]
    BY <1>3
  <2>4. ASSUME NEW m \in Node, up[m]
        PROVE  saved'[m] = [term |-> currentTerm'[m], votedFor |-> votedFor'[m]]
    <3>1. CASE m = n
      BY <2>2, <3>1, Zenon
    <3>2. CASE m # n
      BY <1>1, <2>1, <2>4, <3>2, Zenon DEF DiskInv
    <3> QED  BY <3>1, <3>2
  <2>5. ASSUME NEW m \in Node, ~up[m]
        PROVE  /\ role'[m] = "Follower" /\ votes'[m] = {} /\ broadcast'[m] = Quiet
               /\ \A c \in calls' : c.from = m => c.state = "abandoned"
    <3>1. m # n
      BY <2>3, <2>5
    <3>2. /\ role[m] = "Follower" /\ votes[m] = {} /\ broadcast[m] = Quiet
          /\ \A c \in calls : c.from = m => c.state = "abandoned"
      BY <1>1, <2>5, ZenonT(30) DEF DiskInv
    <3>3. \A c \in calls' : c.from = m => c.state = "abandoned"
      BY <1>9, <3>1, <3>2
    <3> QED  BY <2>1, <2>3, <3>1, <3>2, <3>3
  <2> QED
    BY <2>3, <2>4, <2>5, ZenonT(30) DEF DiskInv
<1>11. TallyInv'
  <2>1. \A d \in calls : d.from = n /\ d.rpc = "RequestVote" => d.state = "abandoned"
    BY <1>1, <1>3 DEF TallyInv
  <2>2. \A d \in calls' : d.rpc = "RequestVote" /\ d.state # "abandoned" =>
           \/ d.from = n /\ d.term = t /\ d.state = "sent"
           \/ d \in calls /\ d.from # n
    BY <1>9, <2>1
  <2>3. calls \subseteq Call /\ votes'[n] = {n} /\ \A m \in Node \ {n} : votes'[m] = votes[m]
    BY <1>1, <1>3 DEF TypeOK
  <2>4. \A m \in Node : \A c, d \in Waiting(m, "RequestVote")' : c.term = d.term
    <3> SUFFICES ASSUME NEW m \in Node, NEW c \in Waiting(m, "RequestVote")',
                        NEW d \in Waiting(m, "RequestVote")'
                 PROVE  c.term = d.term
      OBVIOUS
    <3>1. CASE m = n
      BY <2>2, <3>1 DEF Waiting
    <3>2. CASE m # n
      <4>1. c \in Waiting(m, "RequestVote") /\ d \in Waiting(m, "RequestVote")
        BY <2>2, <3>2, ZenonT(30) DEF Waiting
      <4>2. QED
        BY <1>1, <4>1 DEF TallyInv
    <3>3. QED
      BY <3>1, <3>2
  <2>5. \A d \in calls' : d.rpc = "RequestVote" /\ d.state = "ok" =>
           <<d.to, d.term, d.from>> \in cast'
    BY <1>1, <1>3, <2>2 DEF TallyInv
  <2>6. ASSUME NEW d \in calls', d.rpc = "RequestVote", d.state # "abandoned"
        PROVE  votes'[d.from] # {} /\ \A v \in votes'[d.from] : <<v, d.term, d.from>> \in cast'
    <3>1. CASE d.from = n /\ d.term = t
      BY <1>3, <2>3, <3>1, ZenonT(30)
    <3>2. CASE d \in calls /\ d.from # n
      <4>1. votes'[d.from] = votes[d.from]
        BY <2>3, <3>2, Zenon DEF Call
      <4>2. QED
        BY <1>1, <1>3, <2>6, <3>2, <4>1 DEF TallyInv
    <3>3. QED
      BY <2>2, <2>6, <3>1, <3>2, ZenonT(30)
  <2>7. QED
    BY <2>4, <2>5, <2>6, ZenonT(30) DEF TallyInv
<1>12. LeaderWonItsTerm' /\ CandidateInv'
  <2>1. <<n, t>> \notin elected
    BY <1>1, <1>6, NewTermIsFresh
  <2>2. /\ role'[n] = "Candidate" /\ currentTerm'[n] = t
        /\ \A m \in Node \ {n} : role'[m] = role[m] /\ currentTerm'[m] = currentTerm[m]
    BY <1>1, <1>3 DEF TypeOK
  <2>3. QED
    BY <1>1, <1>3, <2>1, <2>2 DEF LeaderWonItsTerm, CandidateInv
<1>13. QED
  BY <1>7, <1>8, <1>10, <1>11, <1>12, ZenonT(30) DEF IInv

\* A majority of votes for a candidate in its term excludes every other winner.
LEMMA WinnerIsAlone ==
    ASSUME Majorities, TypeOK, OneVotePerTerm, ElectedInv, NEW n \in Node, NEW t \in Term,
           NEW Q, Backs(Q, n, t)
    PROVE  \A m \in Node : <<m, t>> \in elected => m = n
<1> SUFFICES ASSUME NEW m \in Node, <<m, t>> \in elected PROVE m = n
  OBVIOUS
<1>1. PICK R \in SUBSET Node : Backs(R, m, t)
  BY DEF ElectedInv
<1>2. PICK v \in Q \cap R : TRUE
  BY <1>1 DEF Backs, Majorities
<1>3. v \in Node /\ <<v, t, n>> \in cast /\ <<v, t, m>> \in cast
  BY <1>1, <1>2 DEF Backs
<1>4. QED
  BY <1>3 DEF OneVotePerTerm

\* A step of a running node n keeps DiskInv if the disk of every running node
\* still matches, and nothing that belongs to a stopped node comes back.
LEMMA DiskKept ==
    ASSUME TypeOK, DiskInv, NEW n \in Node, up[n], up' = up,
           \A m \in Node : up[m] =>
               saved'[m] = [term |-> currentTerm'[m], votedFor |-> votedFor'[m]],
           \A m \in Node : ~up[m] => role'[m] = "Follower",
           \A m \in Node \ {n} : votes'[m] = votes[m] /\ broadcast'[m] = broadcast[m],
           \A d \in calls' :
               \/ d \in calls \/ d.state = "abandoned" \/ d.from = n
               \/ \E c \in calls : c.from = d.from /\ c.state # "abandoned"
    PROVE  DiskInv'
<1> SUFFICES ASSUME NEW m \in Node, ~up[m]
             PROVE  /\ votes'[m] = {}
                    /\ broadcast'[m] = Quiet
                    /\ \A d \in calls' : d.from = m => d.state = "abandoned"
  BY ZenonT(30) DEF DiskInv, Quiet
<1>1. m # n
  OBVIOUS
<1>2. votes[m] = {} /\ broadcast[m] = Quiet /\ \A d \in calls : d.from = m => d.state = "abandoned"
  BY ZenonT(30) DEF DiskInv
<1>3. QED
  BY <1>1, <1>2

\* When terms, votes and disks stay, the running nodes' disks still match.
LEMMA DisksUnchanged ==
    ASSUME TypeOK, DiskInv, UNCHANGED <<currentTerm, votedFor, saved>>
    PROVE  \A m \in Node : up[m] =>
               saved'[m] = [term |-> currentTerm'[m], votedFor |-> votedFor'[m]]
  BY DEF DiskInv, TypeOK

-----------------------------------------------------------------------------
(* Steps of a campaign and after it.                                       *)

\* The candidate counts a vote, wins, gives up or is overtaken.
LEMMA VoteResultInv ==
    ASSUME FaultyDisk = {}, IInv, TypeOK', NEW n \in Node, VoteResult(n)
    PROVE  IInv'
<1>1. TypeOK /\ DiskInv /\ CastInv /\ OneVotePerTerm /\ TallyInv /\ ElectedInv
        /\ LeaderWonItsTerm /\ CandidateInv
  BY DEF IInv
<1>2. PICK c \in Waiting(n, "RequestVote") :
         /\ c.state \in {"ok", "refused"}
         /\ Superseded(n, c) \/ Outdated(n, c) \/ becomeLeaderLocked(n, c) \/ Counted(n, c)
  BY DEF VoteResult
<1>3. UNCHANGED <<up, broadcast, cast>>
  BY DEF VoteResult
<1>4. /\ c \in calls /\ c.rpc = "RequestVote" /\ c.from = n /\ c.to \in Node
      /\ c.term \in Term /\ c.current \in Term /\ c.state # "abandoned"
      /\ calls \subseteq Call
  BY <1>1, <1>2, ZenonT(30) DEF Waiting, TypeOK, Call
<1>5. up[n]
  BY <1>1, <1>4 DEF DiskInv, TypeOK
<1>6. TallyInv'
  BY <1>1, <1>2, <1>3, TallyKept, ZenonT(30) DEF Superseded, Outdated, becomeLeaderLocked, Counted
<1>7. \A d \in calls' : d \in calls \/ d.state = "abandoned"
  <2>1. {c} \subseteq calls /\ Waiting(n, "RequestVote") \subseteq calls
    BY <1>4, ZenonT(30) DEF Waiting
  <2>2. QED
    BY <1>2, <1>4, <2>1, AbandonedCalls
      DEF Superseded, Outdated, becomeLeaderLocked, Counted, Return, Continue
<1>8. \A m \in Node \ {n} : votes'[m] = votes[m]
  BY <1>1, <1>2 DEF Superseded, Outdated, becomeLeaderLocked, Counted, Return, Continue, TypeOK
<1>9. CASE Superseded(n, c) \/ Counted(n, c)
  <2>1. UNCHANGED <<role, currentTerm, votedFor, saved, elected>>
    BY <1>9, ZenonT(30) DEF Superseded, Counted, nodeVars
  <2>2. DiskInv'
    BY <1>1, <1>3, <1>5, <1>7, <1>8, <2>1, ZenonT(30) DEF DiskInv, TypeOK, Quiet
  <2>3. QED
    BY <1>3, <1>6, <2>1, <2>2, NodesUnchanged, ZenonT(30) DEF IInv
<1>10. CASE Outdated(n, c)
  <2>1. becomeFollowerLocked(n, c.current) /\ c.current > currentTerm[n] /\ elected' = elected
    BY <1>10, ZenonT(30) DEF Outdated
  <2>2. /\ CastInv' /\ OneVotePerTerm' /\ ElectedInv' /\ LeaderWonItsTerm' /\ CandidateInv'
        /\ \A m \in Node : up[m] =>
              saved'[m] = [term |-> currentTerm'[m], votedFor |-> votedFor'[m]]
        /\ \A m \in Node : ~up[m] => role'[m] = "Follower"
    BY <1>3, <1>4, <1>5, <2>1, FollowerInv, ZenonT(30)
  <2>3. DiskInv'
    BY <1>1, <1>3, <1>5, <1>7, <1>8, <2>2, DiskKept, Zenon
  <2>4. QED
    BY <1>6, <2>2, <2>3, ZenonT(30) DEF IInv
<1>11. CASE becomeLeaderLocked(n, c)
  <2>1. /\ currentTerm[n] = c.term
        /\ c.state = "ok"
        /\ Cardinality(votes[n] \cup {c.to}) >= majority
        /\ role' = [role EXCEPT ![n] = "Leader"]
        /\ elected' = elected \cup {<<n, c.term>>}
        /\ UNCHANGED <<currentTerm, votedFor, saved>>
    BY <1>11, ZenonT(30) DEF becomeLeaderLocked, Candidacy
  <2>2. Backs(votes[n] \cup {c.to}, n, c.term)
    <3>1. votes[n] \subseteq Node
      BY <1>1 DEF TypeOK
    <3>2. \A v \in votes[n] \cup {c.to} : <<v, c.term, n>> \in cast
      BY <1>1, <1>4, <2>1, ZenonT(30) DEF TallyInv
    <3>3. QED
      BY <1>4, <2>1, <3>1, <3>2 DEF Backs
  <2>3. CastInv' /\ OneVotePerTerm'
    BY <1>1, <1>3, <2>1, ZenonT(30) DEF CastInv, OneVotePerTerm, Term
  <2>4. saved[n].term = c.term
    <3>1. saved[n] = [term |-> currentTerm[n], votedFor |-> votedFor[n]]
      BY <1>1, <1>5, ZenonT(30) DEF DiskInv
    <3>2. QED
      BY <2>1, <3>1
  <2>5. ElectedInv'
    <3> SUFFICES ASSUME NEW m \in Node, NEW u \in Term, <<m, u>> \in elected'
                 PROVE  u <= saved[m].term /\ \E Q \in SUBSET Node : Backs(Q, m, u)
      BY <1>3, <2>1, ZenonT(30) DEF ElectedInv, Term, Backs, majority
    <3>1. CASE m = n /\ u = c.term
      <4>1. u <= saved[m].term
        BY <1>4, <2>4, <3>1, BoundAssumption DEF Term
      <4>2. QED
        BY <2>2, <3>1, <4>1 DEF Backs
    <3>2. CASE <<m, u>> \in elected
      BY <1>1, <3>2 DEF ElectedInv
    <3>3. QED
      BY <2>1, <3>1, <3>2, ZenonT(30)
  <2>6. LeaderWonItsTerm' /\ CandidateInv'
    <3>1. role'[n] = "Leader" /\ \A m \in Node \ {n} : role'[m] = role[m]
      BY <1>1, <2>1, ZenonT(30) DEF TypeOK
    <3>2. QED
      BY <1>1, <2>1, <3>1, ZenonT(30) DEF LeaderWonItsTerm, CandidateInv
  <2>7. DiskInv'
    <3>1. \A m \in Node \ {n} : role'[m] = role[m]
      BY <1>1, <2>1 DEF TypeOK
    <3>2. \A m \in Node : ~up[m] => role'[m] = "Follower"
      BY <1>1, <1>5, <3>1, ZenonT(30) DEF DiskInv
    <3>3. \A m \in Node : up[m] =>
             saved'[m] = [term |-> currentTerm'[m], votedFor |-> votedFor'[m]]
      BY <1>1, <2>1, DisksUnchanged, ZenonT(30)
    <3>4. QED
      BY <1>1, <1>3, <1>5, <1>7, <1>8, <3>2, <3>3, DiskKept, ZenonT(30)
  <2>8. QED
    BY <1>6, <2>3, <2>5, <2>6, <2>7, ZenonT(30) DEF IInv
<1>12. QED
  BY <1>2, <1>9, <1>10, <1>11

\* An answer comes from a call that somebody waits for.
LEMMA AnswerCalls ==
    ASSUME calls \subseteq Call, NEW c \in calls, NEW s, NEW t, Answer(c, s, t)
    PROVE  \A d \in calls' : \/ d \in calls
                             \/ /\ d.rpc = c.rpc /\ d.from = c.from
                                /\ c.state # "abandoned"
  BY ZenonT(30) DEF Answer, Call

\* The voter: a vote is granted only when it can still be cast in its term.
LEMMA HandleVoteInv ==
    ASSUME FaultyDisk = {}, IInv, TypeOK', NEW n \in Node, HandleVote(n)
    PROVE  IInv'
<1>1. TypeOK /\ DiskInv /\ CastInv /\ OneVotePerTerm /\ TallyInv /\ ElectedInv
        /\ LeaderWonItsTerm /\ CandidateInv
  BY DEF IInv
<1>2. PICK c \in Incoming(n, "RequestVote") : RefuseVote(n, c) \/ GrantVote(n, c)
  BY DEF HandleVote
<1>3. UNCHANGED <<up, votes, broadcast, elected>> /\ up[n]
  BY DEF HandleVote
<1>4. /\ c \in calls /\ c.rpc = "RequestVote" /\ c.to = n /\ c.from \in Node
      /\ c.term \in Term /\ currentTerm[n] \in Term /\ calls \subseteq Call
  BY <1>1, <1>2 DEF Incoming, TypeOK, Call
<1>5. CASE RefuseVote(n, c)
  <2>1. /\ UNCHANGED <<role, currentTerm, votedFor, saved, cast>>
        /\ Answer(c, "refused", currentTerm[n])
    BY <1>5 DEF RefuseVote, nodeVars
  <2>2. TallyInv'
    BY <1>1, <1>3, <1>4, <2>1, AnswerKeepsTally, ZenonT(30)
  <2>3. \A d \in calls' : d \in calls \/ \E e \in calls : e.from = d.from /\ e.state # "abandoned"
    BY <1>4, <2>1, AnswerCalls
  <2>4. \A m \in Node : up[m] =>
           saved'[m] = [term |-> currentTerm'[m], votedFor |-> votedFor'[m]]
    BY <1>1, <2>1, DisksUnchanged, ZenonT(30)
  <2>5. \A m \in Node : ~up[m] => role'[m] = "Follower"
    BY <1>1, <2>1 DEF DiskInv, TypeOK
  <2>6. DiskInv'
    BY <1>1, <1>3, <2>3, <2>4, <2>5, DiskKept, ZenonT(30)
  <2>7. QED
    BY <1>3, <2>1, <2>2, <2>6, NodesUnchanged, ZenonT(30) DEF IInv
<1>6. CASE GrantVote(n, c)
  <2>1. /\ \/ c.term > currentTerm[n] /\ role' = [role EXCEPT ![n] = "Follower"]
           \/ c.term = currentTerm[n] /\ votedFor[n] \in {Nil, c.from} /\ role' = role
        /\ \E P : persistLocked(n, P, c.term, c.from)
        /\ currentTerm' = [currentTerm EXCEPT ![n] = c.term]
        /\ votedFor' = [votedFor EXCEPT ![n] = c.from]
        /\ cast' = cast \cup {<<n, c.term, c.from>>}
        /\ Answer(c, "ok", c.term)
    BY <1>6, ZenonT(30) DEF GrantVote
  <2>2. saved' = [saved EXCEPT ![n] = [term |-> c.term, votedFor |-> c.from]]
    BY <2>1, PersistSaves
  <2>3. saved[n].term = currentTerm[n] /\ saved[n].votedFor = votedFor[n]
    BY <1>1, <1>3 DEF DiskInv, TypeOK
  <2>4. CastInv' /\ OneVotePerTerm'
    BY <1>1, <1>4, <2>1, <2>2, <2>3, VoteSaved, ZenonT(30)
  <2>5. c.term \in Nat /\ \A v \in Node : saved[v].term \in Nat /\ saved'[v].term \in Nat
    BY <1>1, <1>4, BoundAssumption DEF TypeOK, Term
  <2>6. ElectedInv'
    <3>1. c.term >= saved[n].term
      <4>1. c.term > currentTerm[n] \/ c.term = currentTerm[n]
        BY <2>1, ZenonT(30)
      <4>2. QED
        BY <2>3, <2>5, <4>1
    <3>2. saved'[n].term = c.term /\ \A v \in Node \ {n} : saved'[v] = saved[v]
      BY <1>1, <2>2 DEF TypeOK
    <3>3. \A v \in Node : saved'[v].term >= saved[v].term
      BY <2>5, <3>1, <3>2
    <3>4. QED
      BY <1>1, <1>3, <2>1, <2>5, <3>3, VotesRemain, ZenonT(30)
  <2>7. TallyInv'
    BY <1>1, <1>3, <1>4, <2>1, AnswerKeepsTally, ZenonT(30)
  <2>8. \A d \in calls' : d \in calls \/ \E e \in calls : e.from = d.from /\ e.state # "abandoned"
    BY <1>4, <2>1, AnswerCalls, ZenonT(30)
  <2>9. \A m \in Node : up[m] =>
           saved'[m] = [term |-> currentTerm'[m], votedFor |-> votedFor'[m]]
    <3>1. /\ saved'[n] = [term |-> c.term, votedFor |-> c.from]
          /\ currentTerm'[n] = c.term
          /\ votedFor'[n] = c.from
      BY <1>1, <2>1, <2>2, ZenonT(30) DEF TypeOK
    <3>2. \A m \in Node \ {n} : /\ saved'[m] = saved[m]
                                /\ currentTerm'[m] = currentTerm[m]
                                /\ votedFor'[m] = votedFor[m]
      BY <1>1, <2>1, <2>2, ZenonT(30) DEF TypeOK
    <3>3. \A m \in Node : up[m] =>
             saved[m] = [term |-> currentTerm[m], votedFor |-> votedFor[m]]
      BY <1>1, ZenonT(30) DEF DiskInv
    <3>4. QED
      BY <3>1, <3>2, <3>3, Zenon
  <2>10. \A m \in Node : ~up[m] => role'[m] = "Follower"
    <3>1. role'[n] \in {"Follower", role[n]} /\ \A m \in Node \ {n} : role'[m] = role[m]
      BY <1>1, <2>1, ZenonT(30) DEF TypeOK
    <3>2. \A m \in Node : ~up[m] => role[m] = "Follower"
      BY <1>1, ZenonT(30) DEF DiskInv
    <3>3. QED
      BY <3>1, <3>2
  <2>11. DiskInv'
    BY <1>1, <1>3, <2>8, <2>9, <2>10, DiskKept, ZenonT(30)
  <2>12. LeaderWonItsTerm' /\ CandidateInv'
    <3>1. \A m \in Node \ {n} : role'[m] = role[m] /\ currentTerm'[m] = currentTerm[m]
      BY <1>1, <2>1, ZenonT(30) DEF TypeOK
    <3>2. \/ role'[n] = "Follower"
          \/ role'[n] = role[n] /\ currentTerm'[n] = currentTerm[n]
      BY <1>1, <2>1 DEF TypeOK
    <3>3. QED
      BY <1>1, <1>3, <3>1, <3>2, ZenonT(30) DEF LeaderWonItsTerm, CandidateInv
  <2>13. QED
    BY <2>4, <2>6, <2>7, <2>11, <2>12, ZenonT(30) DEF IInv
<1>7. QED
  BY <1>2, <1>5, <1>6

\* A heartbeat, real or stale, changes a role only towards follower.
LEMMA ObserveLeaderInv ==
    ASSUME FaultyDisk = {}, IInv, TypeOK', NEW n \in Node, ObserveLeader(n)
    PROVE  IInv'
<1>1. TypeOK /\ DiskInv /\ CastInv /\ OneVotePerTerm /\ TallyInv /\ ElectedInv
        /\ LeaderWonItsTerm /\ CandidateInv
  BY DEF IInv
<1>2. UNCHANGED <<up, votes, broadcast, cast, elected>> /\ up[n]
  BY ZenonT(30) DEF ObserveLeader, history
<1>3. PICK c \in Incoming(n, "Replicate") :
        /\ \/ Answer(c, "refused", currentTerm[n]) \/ Answer(c, "ok", c.term)
        /\ \/ UNCHANGED <<role, currentTerm, votedFor, saved>>
           \/ c.term > currentTerm[n] /\ becomeFollowerLocked(n, c.term)
           \/ /\ role' = [role EXCEPT ![n] = "Follower"]
              /\ UNCHANGED <<currentTerm, votedFor, saved>>
  BY ZenonT(30) DEF ObserveLeader, nodeVars
<1>4. /\ c \in calls /\ c.rpc = "Replicate" /\ c.term \in Term /\ currentTerm[n] \in Term
      /\ calls \subseteq Call
  BY <1>1, <1>3 DEF Incoming, TypeOK, Call
<1>5. TallyInv'
  BY <1>1, <1>2, <1>3, <1>4, AnswerKeepsTally, ZenonT(30)
<1>6. \A d \in calls' : d \in calls \/ \E e \in calls : e.from = d.from /\ e.state # "abandoned"
  BY <1>3, <1>4, AnswerCalls
<1>7. CASE c.term > currentTerm[n] /\ becomeFollowerLocked(n, c.term)
  <2>1. /\ CastInv' /\ OneVotePerTerm' /\ ElectedInv' /\ LeaderWonItsTerm' /\ CandidateInv'
        /\ \A m \in Node : up[m] =>
              saved'[m] = [term |-> currentTerm'[m], votedFor |-> votedFor'[m]]
        /\ \A m \in Node : ~up[m] => role'[m] = "Follower"
    BY <1>2, <1>4, <1>7, FollowerInv, ZenonT(30)
  <2>2. DiskInv'
    BY <1>1, <1>2, <1>6, <2>1, DiskKept, ZenonT(30)
  <2>3. QED
    BY <1>5, <2>1, <2>2, ZenonT(30) DEF IInv
<1>8. CASE /\ role' = role \/ role' = [role EXCEPT ![n] = "Follower"]
           /\ UNCHANGED <<currentTerm, votedFor, saved>>
  <2>1. \A m \in Node : role'[m] = role[m] \/ role'[m] = "Follower"
    BY <1>1, <1>8 DEF TypeOK
  <2>2. CastInv' /\ OneVotePerTerm'
    <3>1. CastInv'
      BY <1>1, <1>2, <1>8, ZenonT(30) DEF CastInv, Term
    <3>2. OneVotePerTerm'
      BY <1>1, <1>2, ZenonT(30) DEF OneVotePerTerm, Term
    <3>3. QED
      BY <3>1, <3>2
  <2>3. ElectedInv'
    BY <1>1, <1>2, <1>8, ZenonT(30) DEF ElectedInv, Term, Backs, majority
  <2>4. LeaderWonItsTerm' /\ CandidateInv'
    BY <1>1, <1>2, <1>8, <2>1, ZenonT(30) DEF LeaderWonItsTerm, CandidateInv
  <2>5. \A m \in Node : up[m] =>
           saved'[m] = [term |-> currentTerm'[m], votedFor |-> votedFor'[m]]
    BY <1>1, <1>8, DisksUnchanged, ZenonT(30)
  <2>6. \A m \in Node : ~up[m] => role'[m] = "Follower"
    BY <1>1, <2>1, ZenonT(30) DEF DiskInv, TypeOK
  <2>7. DiskInv'
    BY <1>1, <1>2, <1>6, <2>5, <2>6, DiskKept, ZenonT(30)
  <2>8. QED
    BY <1>5, <2>2, <2>3, <2>4, <2>7, ZenonT(30) DEF IInv
<1>9. QED
  BY <1>3, <1>7, <1>8

\* The loops: a vote call that fails, and every step of the replication loop.
LEMMA LoopInv ==
    ASSUME FaultyDisk = {}, IInv, TypeOK', NEW n \in Node, VoteError(n) \/ ReplicationLoop(n)
    PROVE  IInv'
<1>1. TypeOK /\ DiskInv /\ TallyInv
  BY ZenonT(30) DEF IInv
<1>2. calls \subseteq Call
  BY <1>1 DEF TypeOK
<1>3. UNCHANGED <<up, cast, elected>>
  BY DEF VoteError, ReplicationLoop, replicationLoop, ReadTerm, sendReplicate,
         ReplicateResult, ReplicateError, history
<1>4. up[n]
  <2>1. ASSUME NEW rpc, Waiting(n, rpc) # {} PROVE up[n]
    <3>1. \A c \in calls : c.from = n /\ c.state # "abandoned" => up[n]
      BY <1>1, ZenonT(30) DEF DiskInv
    <3>2. QED
      BY <2>1, <3>1 DEF Waiting
  <2>2. broadcast[n].pc # "idle" => up[n]
    BY <1>1 DEF DiskInv, Quiet, TypeOK
  <2>3. QED
    BY <2>1, <2>2, ZenonT(30) DEF VoteError, ReplicationLoop, replicationLoop, ReadTerm, sendReplicate,
           ReplicateResult, ReplicateError
<1>5. \A d \in calls' : d \in calls \/ d.state = "abandoned" \/ (d.from = n /\ d.rpc = "Replicate")
  <2>1. ASSUME NEW rpc, NEW c \in Waiting(n, rpc), calls' = Abandoned({c})
        PROVE  \A d \in calls' : d \in calls \/ d.state = "abandoned"
    <3>1. {c} \subseteq calls
      BY <2>1 DEF Waiting
    <3>2. QED
      BY <1>2, <2>1, <3>1, AbandonedCalls
  <2>2. CASE sendReplicate(n)
    BY <2>2 DEF sendReplicate, Send
  <2>3. CASE VoteError(n) \/ ReplicateResult(n) \/ ReplicateError(n)
    BY <2>1, <2>3, ZenonT(30) DEF VoteError, Continue, ReplicateResult, ReplicateError, CallDone
  <2>4. CASE replicationLoop(n) \/ ReadTerm(n)
    BY <2>4 DEF replicationLoop, ReadTerm
  <2>5. QED
    BY <2>2, <2>3, <2>4 DEF ReplicationLoop
<1>6. \A m \in Node \ {n} : votes'[m] = votes[m] /\ broadcast'[m] = broadcast[m]
  BY <1>1, ZenonT(30) DEF VoteError, Continue, ReplicationLoop, replicationLoop, ReadTerm, sendReplicate,
       ReplicateResult, ReplicateError, CallDone, TypeOK
<1>7. TallyInv'
  <2>1. CASE VoteError(n)
    BY <1>1, <1>3, <2>1, TallyKept DEF VoteError
  <2>2. CASE ReplicationLoop(n)
    <3>1. votes' = votes
      BY <2>2 DEF ReplicationLoop, replicationLoop, ReadTerm, sendReplicate,
           ReplicateResult, ReplicateError
    <3>2. QED
      BY <1>1, <1>3, <1>5, <3>1, OtherCallsKeepTally
  <2>3. QED
    BY <2>1, <2>2, ZenonT(30)
<1>8. CASE UNCHANGED <<role, currentTerm, votedFor, saved>>
  <2>1. \A m \in Node : up[m] =>
           saved'[m] = [term |-> currentTerm'[m], votedFor |-> votedFor'[m]]
    BY <1>1, <1>8, DisksUnchanged, ZenonT(30)
  <2>2. \A m \in Node : ~up[m] => role'[m] = "Follower"
    BY <1>1, <1>8, Zenon DEF DiskInv, TypeOK
  <2>3. DiskInv'
    BY <1>1, <1>3, <1>4, <1>5, <1>6, <2>1, <2>2, DiskKept, ZenonT(30)
  <2>4. QED
    BY <1>3, <1>7, <1>8, <2>3, NodesUnchanged, ZenonT(30) DEF IInv
<1>9. ASSUME NEW t \in Term, t > currentTerm[n], becomeFollowerLocked(n, t)
      PROVE  IInv'
  <2>1. /\ CastInv' /\ OneVotePerTerm' /\ ElectedInv' /\ LeaderWonItsTerm' /\ CandidateInv'
        /\ \A m \in Node : up[m] =>
              saved'[m] = [term |-> currentTerm'[m], votedFor |-> votedFor'[m]]
        /\ \A m \in Node : ~up[m] => role'[m] = "Follower"
    BY <1>3, <1>4, <1>9, FollowerInv, ZenonT(30)
  <2>2. DiskInv'
    BY <1>1, <1>3, <1>4, <1>5, <1>6, <2>1, DiskKept, ZenonT(30)
  <2>3. QED
    BY <1>7, <2>1, <2>2, ZenonT(30) DEF IInv
<1>10. \/ UNCHANGED <<role, currentTerm, votedFor, saved>>
       \/ \E t \in Term : t > currentTerm[n] /\ becomeFollowerLocked(n, t)
  <2>1. CASE ReplicateResult(n)
    <3>1. \A c \in Waiting(n, "Replicate") : c.current \in Term
      BY <1>2 DEF Waiting, Call
    <3>2. QED
      BY <2>1, <3>1 DEF ReplicateResult
  <2>2. CASE ~ReplicateResult(n)
    BY <2>2 DEF VoteError, ReplicationLoop, replicationLoop, ReadTerm, sendReplicate,
         ReplicateError, nodeVars
  <2>3. QED
    BY <2>1, <2>2
<1>11. QED
  BY <1>8, <1>9, <1>10

\* Every step keeps the invariant, provided SaveState does not fail: one case per action.
LEMMA InvNext == Majorities /\ FaultyDisk = {} /\ IInv /\ [Next]_vars => IInv'
<1> SUFFICES ASSUME Majorities, FaultyDisk = {}, IInv, [Next]_vars PROVE IInv'
  OBVIOUS
<1>1. TypeOK'
  BY TypeNext, ZenonT(30) DEF IInv
<1>2. CASE UNCHANGED vars
  <2>1. UNCHANGED <<up, role, currentTerm, votedFor, saved, votes, broadcast, calls, cast, elected>>
    BY <1>2 DEF vars, nodeVars, history
  <2>2. DiskInv' /\ TallyInv'
    BY <2>1, ZenonT(30) DEF IInv, DiskInv, TallyInv, Waiting, Quiet
  <2>3. QED
    BY <1>1, <2>1, <2>2, NodesUnchanged, ZenonT(30) DEF IInv
<1>3. ASSUME NEW n \in Node, CrashInHandleVote(n) PROVE IInv'
  <2>1. \E t \in Term : /\ t > currentTerm[n]
                        /\ saved' = [saved EXCEPT ![n] = [term |-> t, votedFor |-> Nil]]
    BY <1>3, ZenonT(30) DEF CrashInHandleVote, Incoming, Call, IInv, TypeOK
  <2>2. QED
    BY <1>1, <1>3, <2>1, HaltInv, ZenonT(30) DEF CrashInHandleVote
<1>4. ASSUME NEW n \in Node, Crash(n) PROVE IInv'
  BY <1>1, <1>4, HaltInv DEF Crash
<1>5. QED
  BY <1>1, <1>2, <1>3, <1>4, StartInv, CampaignInv, VoteResultInv, HandleVoteInv,
     ObserveLeaderInv, LoopInv DEF Next, RunLoop

\* Two winners of a term would each have a majority of its votes, and some member would have voted twice.
LEMMA InvOneLeader == Majorities /\ IInv => OneLeaderPerTerm
<1> SUFFICES ASSUME Majorities, IInv, NEW n \in Node, NEW m \in Node, NEW t \in Term,
                    <<n, t>> \in elected, <<m, t>> \in elected
             PROVE  n = m
  BY DEF OneLeaderPerTerm
<1>1. TypeOK /\ OneVotePerTerm /\ ElectedInv
  BY DEF IInv
<1>2. PICK Q \in SUBSET Node : Backs(Q, n, t)
  BY <1>1, Zenon DEF ElectedInv
<1>3. QED
  BY <1>1, <1>2, WinnerIsAlone

\* A step takes leadership from a running node only for a newer term.
LEMMA StepDownStep ==
    TypeOK /\ [Next]_vars =>
        [\A n \in Node : role[n] = "Leader" /\ role'[n] # "Leader" /\ up'[n]
            => currentTerm'[n] > currentTerm[n]]_vars
<1> SUFFICES ASSUME TypeOK, Next, NEW m \in Node,
                    role[m] = "Leader", role'[m] # "Leader", up'[m]
             PROVE  currentTerm'[m] > currentTerm[m]
  BY DEF vars
<1>1. PICK n \in Node :
        \/ Start(n) \/ Crash(n) \/ CrashInHandleVote(n)
        \/ startElection(n) \/ RunLoop(n)
        \/ HandleVote(n) \/ ObserveLeader(n)
        \/ ReplicationLoop(n)
  BY DEF Next
<1>2. ASSUME NEW t, becomeFollowerLocked(n, t), t > currentTerm[n]
      PROVE  currentTerm'[m] > currentTerm[m]
  BY <1>2 DEF becomeFollowerLocked, TypeOK
<1>3. CASE Start(n)
  BY <1>3, Zenon DEF Start, TypeOK
<1>4. CASE Crash(n) \/ CrashInHandleVote(n)
  BY <1>4 DEF Crash, CrashInHandleVote, Halt, TypeOK
<1>5. CASE startElection(n)
  BY <1>5 DEF startElection, TypeOK
<1>6. CASE RunLoop(n)
  BY <1>2, <1>6, ZenonT(30) DEF RunLoop, VoteResult, VoteError, Superseded, Outdated, becomeLeaderLocked,
        Counted, nodeVars, TypeOK
<1>7. CASE HandleVote(n)
  BY <1>7, ZenonT(30) DEF HandleVote, RefuseVote, GrantVote, nodeVars, TypeOK
<1>8. CASE ObserveLeader(n)
  BY <1>2, <1>8 DEF ObserveLeader, nodeVars, TypeOK
<1>9. CASE ReplicationLoop(n)
  BY <1>2, <1>9 DEF ReplicationLoop, replicationLoop, ReadTerm, sendReplicate,
        ReplicateResult, ReplicateError, nodeVars
<1>10. QED
  BY <1>1, <1>3, <1>4, <1>5, <1>6, <1>7, <1>8, <1>9, Zenon

-----------------------------------------------------------------------------
(* Election implements Leadership.                                         *)

\* A node moves to a newer term and does not lead it.
LEMMA AdoptStep ==
    ASSUME TypeOK, NEW n \in Node, NEW t \in Term, NEW v, NEW r, t > saved[n].term,
           saved' = [saved EXCEPT ![n] = [term |-> t, votedFor |-> v]],
           role' = [role EXCEPT ![n] = r], r # "Leader", elected' = elected
    PROVE  Promise!Next
<1>1. [m \in Node |-> saved[m].term]' =
        [[m \in Node |-> saved[m].term] EXCEPT ![n] = t]
  BY ZenonT(30) DEF TypeOK
<1>2. [m \in Node |-> role[m] = "Leader"]' =
        [[m \in Node |-> role[m] = "Leader"] EXCEPT ![n] = FALSE]
  BY ZenonT(30) DEF TypeOK
<1>3. Promise!Adopt(n, t)
  BY <1>1, <1>2 DEF Promise!Adopt
<1>4. QED
  BY <1>3 DEF Promise!Next

\* A node wins a term, its own or a newer one, that nobody has won.
LEMMA WinStep ==
    ASSUME TypeOK, NEW n \in Node, NEW t \in Term, t >= saved[n].term,
           \A m \in Node : <<m, t>> \notin elected,
           saved'[n].term = t, \A m \in Node \ {n} : saved'[m] = saved[m],
           role' = [role EXCEPT ![n] = "Leader"], elected' = elected \cup {<<n, t>>}
    PROVE  Promise!Next
<1>1. [m \in Node |-> saved[m].term]' =
        [[m \in Node |-> saved[m].term] EXCEPT ![n] = t]
  BY ZenonT(30) DEF TypeOK
<1>2. [m \in Node |-> role[m] = "Leader"]' =
        [[m \in Node |-> role[m] = "Leader"] EXCEPT ![n] = TRUE]
  BY ZenonT(30) DEF TypeOK
<1>3. Promise!Win(n, t)
  BY <1>1, <1>2, Zenon DEF Promise!Win
<1>4. QED
  BY <1>3 DEF Promise!Next

\* Nothing that Leadership can see has changed.
LEMMA StutterStep ==
    ASSUME \A m \in Node : saved'[m].term = saved[m].term,
           \A m \in Node : (role'[m] = "Leader") <=> (role[m] = "Leader"),
           elected' = elected
    PROVE  UNCHANGED Promise!vars
<1>1. [m \in Node |-> saved[m].term]' = [m \in Node |-> saved[m].term]
  OBVIOUS
<1>2. \A m \in Node : (role'[m] = "Leader") = (role[m] = "Leader")
  OBVIOUS
<1>3. [m \in Node |-> role[m] = "Leader"]' = [m \in Node |-> role[m] = "Leader"]
  BY <1>2
<1>4. QED
  BY <1>1, <1>3 DEF Promise!vars

\* Every becomeFollowerLocked of a running node adopts a newer term.
LEMMA FollowerStep ==
    ASSUME FaultyDisk = {}, IInv, NEW n \in Node, NEW t \in Term,
           up[n], t > currentTerm[n], becomeFollowerLocked(n, t), elected' = elected
    PROVE  Promise!Next
<1>1. TypeOK /\ DiskInv
  BY DEF IInv
<1>2. saved[n].term = currentTerm[n]
  BY <1>1 DEF DiskInv, TypeOK
<1>3. saved' = [saved EXCEPT ![n] = [term |-> t, votedFor |-> Nil]]
  BY PersistSaves DEF becomeFollowerLocked
<1>4. QED
  BY <1>1, <1>2, <1>3, AdoptStep, ZenonT(30) DEF becomeFollowerLocked

\* Every step of Election is a step of Leadership, or changes nothing in it.
LEMMA StepsRefine ==
    ASSUME Majorities, FaultyDisk = {}, IInv, [Next]_vars
    PROVE  [Promise!Next]_Promise!vars
<1>1. TypeOK /\ DiskInv /\ CastInv /\ OneVotePerTerm /\ TallyInv /\ ElectedInv
        /\ LeaderWonItsTerm /\ CandidateInv
  BY DEF IInv
<1>2. CASE UNCHANGED vars
  BY <1>2, StutterStep DEF vars, nodeVars, history
<1>3. ASSUME NEW n \in Node, Start(n) PROVE [Promise!Next]_Promise!vars
  <2>1. CASE majority > 1
    <3>1. ~ (majority <= 1)
      BY <2>1, MajorityType
    <3>2. UNCHANGED <<role, saved, elected>>
      BY <1>3, <3>1 DEF Start, history
    <3>3. QED
      BY <3>2, StutterStep
  <2>2. CASE ~ (majority > 1)
    <3>1. saved[n].term + 1 \in Term
      BY <1>1, <1>3, <2>2, MajorityType, BoundAssumption DEF Start, TypeOK, Term
    <3>2. PICK t \in Term :
            /\ t = saved[n].term + 1
            /\ persistLocked(n, {saved[n]}, t, n)
            /\ role' = [role EXCEPT ![n] = "Leader"]
            /\ elected' = elected \cup {<<n, t>>}
      BY <1>3, <2>2, <3>1, MajorityType, ZenonT(30) DEF Start
    <3>3. saved' = [saved EXCEPT ![n] = [term |-> t, votedFor |-> n]]
      BY <3>2, PersistSaves
    <3>4. saved'[n].term = t /\ \A m \in Node \ {n} : saved'[m] = saved[m]
      BY <1>1, <3>3 DEF TypeOK
    <3>5. t > saved[n].term /\ t >= saved[n].term
      BY <1>1, <3>2, BoundAssumption DEF TypeOK, Term
    <3>6. \A m \in Node : <<m, t>> \notin elected
      <4> SUFFICES ASSUME NEW m \in Node, <<m, t>> \in elected PROVE FALSE
        OBVIOUS
      <4>1. PICK Q \in SUBSET Node : Backs(Q, m, t)
        BY <1>1 DEF ElectedInv
      <4>2. {n} \subseteq Node /\ Cardinality({n}) >= majority
        BY <2>2, MajorityType DEF Majorities
      <4>3. n \in Q
        BY <4>1, <4>2 DEF Backs, Majorities
      <4>4. <<n, t, m>> \in cast
        BY <4>1, <4>3 DEF Backs
      <4>5. QED
        BY <1>1, <3>5, <4>4, NewTermIsFresh, ZenonT(30)
    <3>7. QED
      BY <1>1, <3>2, <3>4, <3>5, <3>6, WinStep, ZenonT(30)
  <2>3. QED
    BY <2>1, <2>2
<1>4. ASSUME NEW n \in Node, Crash(n) PROVE [Promise!Next]_Promise!vars
  <2>1. saved' = saved /\ elected' = elected /\ role' = [role EXCEPT ![n] = "Follower"]
    BY <1>4 DEF Crash, Halt, history
  <2>2. CASE role[n] = "Leader"
    <3>1. [m \in Node |-> role[m] = "Leader"]' =
            [[m \in Node |-> role[m] = "Leader"] EXCEPT ![n] = FALSE]
      BY <1>1, <2>1, ZenonT(30) DEF TypeOK
    <3>2. Promise!Lose(n)
      BY <2>1, <2>2, <3>1, ZenonT(30) DEF Promise!Lose
    <3>3. QED
      BY <3>2 DEF Promise!Next
  <2>3. CASE role[n] # "Leader"
    <3>1. \A m \in Node : (role'[m] = "Leader") <=> (role[m] = "Leader")
      BY <1>1, <2>1, <2>3 DEF TypeOK
    <3>2. QED
      BY <2>1, <3>1, StutterStep
  <2>4. QED
    BY <2>2, <2>3
<1>5. ASSUME NEW n \in Node, CrashInHandleVote(n) PROVE [Promise!Next]_Promise!vars
  <2>1. PICK t \in Term : /\ t > currentTerm[n]
                          /\ saved' = [saved EXCEPT ![n] = [term |-> t, votedFor |-> Nil]]
    BY <1>1, <1>5, ZenonT(30) DEF CrashInHandleVote, Incoming, Call, TypeOK
  <2>2. up[n] /\ role' = [role EXCEPT ![n] = "Follower"] /\ elected' = elected
    BY <1>5 DEF CrashInHandleVote, Halt, history
  <2>3. saved[n].term = currentTerm[n]
    BY <1>1, <2>2 DEF DiskInv, TypeOK
  <2>4. QED
    BY <1>1, <2>1, <2>2, <2>3, AdoptStep, ZenonT(30)
<1>6. ASSUME NEW n \in Node, startElection(n) PROVE [Promise!Next]_Promise!vars
  <2>1. currentTerm[n] + 1 \in Term /\ up[n]
    BY <1>1, <1>6, BoundAssumption DEF startElection, TypeOK, Term
  <2>2. PICK t \in Term : t = currentTerm[n] + 1 /\ persistLocked(n, {saved[n]}, t, n)
    BY <1>6, <2>1, ZenonT(30) DEF startElection
  <2>3. role' = [role EXCEPT ![n] = "Candidate"] /\ elected' = elected
    BY <1>6 DEF startElection
  <2>4. saved' = [saved EXCEPT ![n] = [term |-> t, votedFor |-> n]]
    BY <2>2, PersistSaves
  <2>5. saved[n].term = currentTerm[n]
    BY <1>1, <2>1 DEF DiskInv, TypeOK
  <2>6. t > saved[n].term
    BY <1>1, <2>2, <2>5, BoundAssumption DEF TypeOK, Term
  <2>7. QED
    BY <1>1, <2>3, <2>4, <2>6, AdoptStep, ZenonT(30)
<1>7. ASSUME NEW n \in Node, VoteResult(n) PROVE [Promise!Next]_Promise!vars
  <2>1. PICK c \in Waiting(n, "RequestVote") :
           /\ c.state \in {"ok", "refused"}
           /\ Superseded(n, c) \/ Outdated(n, c) \/ becomeLeaderLocked(n, c) \/ Counted(n, c)
    BY <1>7 DEF VoteResult
  <2>2. /\ c \in calls /\ c.rpc = "RequestVote" /\ c.from = n /\ c.to \in Node
        /\ c.term \in Term /\ c.current \in Term /\ c.state # "abandoned"
    BY <1>1, <2>1 DEF Waiting, TypeOK, Call
  <2>3. up[n]
    BY <1>1, <2>2 DEF DiskInv, TypeOK
  <2>4. CASE Superseded(n, c) \/ Counted(n, c)
    BY <2>4, StutterStep, Zenon DEF Superseded, Counted, nodeVars
  <2>5. CASE Outdated(n, c)
    BY <2>2, <2>3, <2>5, FollowerStep DEF Outdated
  <2>6. CASE becomeLeaderLocked(n, c)
    <3>1. /\ role[n] = "Candidate" /\ currentTerm[n] = c.term
          /\ c.state = "ok"
          /\ Cardinality(votes[n] \cup {c.to}) >= majority
          /\ role' = [role EXCEPT ![n] = "Leader"]
          /\ elected' = elected \cup {<<n, c.term>>}
          /\ saved' = saved
      BY <2>6 DEF becomeLeaderLocked, Candidacy
    <3>2. Backs(votes[n] \cup {c.to}, n, c.term)
      <4>1. votes[n] \subseteq Node
        BY <1>1 DEF TypeOK
      <4>2. \A v \in votes[n] \cup {c.to} : <<v, c.term, n>> \in cast
        BY <1>1, <2>2, <3>1 DEF TallyInv
      <4>3. QED
        BY <2>2, <3>1, <4>1, <4>2 DEF Backs
    <3>3. \A m \in Node : <<m, c.term>> \notin elected
      BY <1>1, <2>2, <3>1, <3>2, WinnerIsAlone DEF CandidateInv
    <3>4. saved[n].term = c.term /\ c.term >= saved[n].term
      BY <1>1, <2>2, <2>3, <3>1, BoundAssumption DEF DiskInv, TypeOK, Term
    <3>5. QED
      BY <1>1, <2>2, <3>1, <3>3, <3>4, WinStep, ZenonT(30)
  <2>7. QED
    BY <2>1, <2>4, <2>5, <2>6
<1>8. ASSUME NEW n \in Node, HandleVote(n) PROVE [Promise!Next]_Promise!vars
  <2>1. PICK c \in Incoming(n, "RequestVote") : RefuseVote(n, c) \/ GrantVote(n, c)
    BY <1>8 DEF HandleVote
  <2>2. c \in calls /\ c.from \in Node /\ c.term \in Term /\ up[n] /\ elected' = elected
    BY <1>1, <1>8, <2>1, Zenon DEF HandleVote, Incoming, TypeOK, Call
  <2>3. CASE RefuseVote(n, c)
    BY <2>2, <2>3, StutterStep DEF RefuseVote, nodeVars
  <2>4. CASE GrantVote(n, c)
    <3>1. /\ \/ c.term > currentTerm[n] /\ role' = [role EXCEPT ![n] = "Follower"]
             \/ c.term = currentTerm[n] /\ role' = role
          /\ \E P : persistLocked(n, P, c.term, c.from)
      BY <2>4 DEF GrantVote
    <3>2. saved' = [saved EXCEPT ![n] = [term |-> c.term, votedFor |-> c.from]]
      BY <3>1, PersistSaves
    <3>3. saved[n].term = currentTerm[n]
      BY <1>1, <2>2 DEF DiskInv, TypeOK
    <3>4. CASE c.term > currentTerm[n] /\ role' = [role EXCEPT ![n] = "Follower"]
      BY <1>1, <2>2, <3>2, <3>3, <3>4, AdoptStep, ZenonT(30)
    <3>5. CASE c.term = currentTerm[n] /\ role' = role
      <4>1. \A m \in Node : saved'[m].term = saved[m].term
        BY <1>1, <3>2, <3>3, <3>5 DEF TypeOK
      <4>2. QED
        BY <2>2, <3>5, <4>1, StutterStep
    <3>6. QED
      BY <3>1, <3>4, <3>5, Zenon
  <2>5. QED
    BY <2>1, <2>3, <2>4
<1>9. ASSUME NEW n \in Node, ObserveLeader(n) PROVE [Promise!Next]_Promise!vars
  <2>1. up[n] /\ elected' = elected
    BY <1>9, Zenon DEF ObserveLeader, history
  <2>2. PICK c \in Incoming(n, "Replicate") :
          \/ UNCHANGED <<role, saved>>
          \/ c.term > currentTerm[n] /\ becomeFollowerLocked(n, c.term)
          \/ /\ role[n] # "Leader"
             /\ role' = [role EXCEPT ![n] = "Follower"]
             /\ UNCHANGED saved
    BY <1>9 DEF ObserveLeader, nodeVars
  <2>3. c.term \in Term
    BY <1>1, <2>2 DEF Incoming, TypeOK, Call
  <2>4. CASE UNCHANGED <<role, saved>>
    BY <2>1, <2>4, StutterStep
  <2>5. CASE c.term > currentTerm[n] /\ becomeFollowerLocked(n, c.term)
    BY <2>1, <2>3, <2>5, FollowerStep
  <2>6. CASE /\ role[n] # "Leader"
             /\ role' = [role EXCEPT ![n] = "Follower"]
             /\ UNCHANGED saved
    <3>1. \A m \in Node : (role'[m] = "Leader") <=> (role[m] = "Leader")
      BY <1>1, <2>6 DEF TypeOK
    <3>2. QED
      BY <2>1, <2>6, <3>1, StutterStep
  <2>7. QED
    BY <2>2, <2>4, <2>5, <2>6, Zenon
<1>10. ASSUME NEW n \in Node, ReplicateResult(n) PROVE [Promise!Next]_Promise!vars
  <2>1. PICK c \in Waiting(n, "Replicate") :
          \/ c.current > currentTerm[n] /\ becomeFollowerLocked(n, c.current)
          \/ UNCHANGED <<role, saved>>
    BY <1>10 DEF ReplicateResult
  <2>2. c \in calls /\ c.from = n /\ c.state # "abandoned" /\ c.current \in Term
    BY <1>1, <2>1 DEF Waiting, TypeOK, Call
  <2>3. up[n]
    BY <1>1, <2>2, ZenonT(30) DEF DiskInv
  <2>4. elected' = elected
    BY <1>10 DEF ReplicateResult, history
  <2>5. CASE UNCHANGED <<role, saved>>
    BY <2>4, <2>5, StutterStep, Zenon
  <2>6. CASE c.current > currentTerm[n] /\ becomeFollowerLocked(n, c.current)
    BY <2>2, <2>3, <2>4, <2>6, FollowerStep, Zenon
  <2>7. QED
    BY <2>1, <2>5, <2>6
<1>11. ASSUME NEW n \in Node, \/ VoteError(n) \/ replicationLoop(n) \/ ReadTerm(n)
                              \/ sendReplicate(n) \/ ReplicateError(n)
       PROVE  [Promise!Next]_Promise!vars
  BY <1>11, StutterStep
    DEF VoteError, replicationLoop, ReadTerm, sendReplicate, ReplicateError, nodeVars, history
<1>12. QED
  BY <1>2, <1>3, <1>4, <1>5, <1>6, <1>7, <1>8, <1>9, <1>10, <1>11
    DEF Next, RunLoop, ReplicationLoop

-----------------------------------------------------------------------------
(* Majorities, from the library's theorems about finite sets.              *)

INSTANCE FiniteSetTheorems

\* The size of a majority is a number.
LEMMA MajorityIsNat == majority \in Nat
<1>1. Cardinality(Node) \in Nat
  BY NodeAssumption, FS_CardinalityType
<1>2. QED
  BY <1>1 DEF majority

\* Two majorities of the cluster have a member in common: the arithmetic of
\* Node.majority.
LEMMA MajoritiesMeet ==
    ASSUME NEW Q, Q \subseteq Node, Cardinality(Q) >= majority,
           NEW R, R \subseteq Node, Cardinality(R) >= majority
    PROVE  Q \cap R # {}
<1>1. IsFiniteSet(Node) /\ IsFiniteSet(Q) /\ IsFiniteSet(R)
  BY NodeAssumption, FS_Subset
<1>2. /\ Cardinality(Node) \in Nat
      /\ Cardinality(Q) \in Nat
      /\ Cardinality(R) \in Nat
      /\ Cardinality(Q \cap R) \in Nat
  BY <1>1, FS_CardinalityType, FS_Intersection, ZenonT(30)
<1>3. Cardinality(Q \cup R) = Cardinality(Q) + Cardinality(R) - Cardinality(Q \cap R)
  BY <1>1, FS_Union
<1>4. Cardinality(Q \cup R) <= Cardinality(Node)
  BY <1>1, FS_Subset, Q \cup R \subseteq Node
<1>5. 2 * majority > Cardinality(Node)
  BY <1>2 DEF majority
<1>7. Cardinality(Q \cap R) > 0
  BY <1>2, <1>3, <1>4, <1>5, MajorityIsNat
<1>8. QED
  BY <1>7, FS_EmptySet

LEMMA MajoritiesHold == Majorities
<1>1. \A n \in Node : Cardinality({n}) = 1
  BY FS_Singleton, ZenonT(30)
<1>2. QED
  BY <1>1, MajorityIsNat, MajoritiesMeet, ZenonT(30) DEF Majorities

-----------------------------------------------------------------------------
(* Theorems.                                                               *)

\* The variables of the model always have the types of the fields they stand
\* for: no action of the election leaves the terms, nodes and calls it names.
THEOREM TypeCorrect == Spec => []TypeOK
  BY MajoritiesHold, TypeInit, TypeNext, PTL DEF Spec

\* The invariant holds throughout every behaviour without failing saves.
LEMMA InvHolds == ASSUME FaultyDisk = {} PROVE Spec => []IInv
  BY MajoritiesHold, InvInit, InvNext, PTL DEF Spec

\* No term is won by two nodes, for any cluster and any number of crashes,
\* timeouts and elections, as long as SaveState succeeds (package cluster:
\* "there is at most one leader per term").
THEOREM ElectionSafety ==
    ASSUME FaultyDisk = {} PROVE Spec => []OneLeaderPerTerm
  BY MajoritiesHold, InvHolds, InvOneLeader, PTL

\* A node never votes twice in a term, across restarts: HandleVote and
\* startElection save the vote before it can be counted.
THEOREM VoteSafety ==
    ASSUME FaultyDisk = {} PROVE Spec => []OneVotePerTerm
<1>1. IInv => OneVotePerTerm
  BY DEF IInv
<1>2. QED
  BY <1>1, InvHolds, PTL

\* Whoever acts as leader has won the term it is in: no late vote and no late
\* response promotes a node outside the candidacy it was given for.
THEOREM LeadershipIsWon ==
    ASSUME FaultyDisk = {} PROVE Spec => []LeaderWonItsTerm
<1>1. IInv => LeaderWonItsTerm
  BY DEF IInv
<1>2. QED
  BY <1>1, InvHolds, PTL

\* A running leader gives up leadership only for a newer term.
THEOREM StepDownSafety == Spec => StepDownOnlyForNewerTerm
  BY StepDownStep, TypeCorrect, PTL DEF Spec, StepDownOnlyForNewerTerm

\* The election implements Leadership: terms on disk never fall, each is won at
\* most once, and a node leads only after winning.
THEOREM Refinement ==
    ASSUME FaultyDisk = {} PROVE Spec => KeepsPromise
<1>1. Init => Promise!Init
  <2> SUFFICES ASSUME Init PROVE Promise!Init
    OBVIOUS
  <2>1. [n \in Node |-> saved[n].term] = [n \in Node |-> 0]
    BY DEF Init
  <2>2. \A n \in Node : (role[n] = "Leader") = FALSE
    BY DEF Init
  <2>3. [n \in Node |-> role[n] = "Leader"] = [n \in Node |-> FALSE]
    BY <2>2, ZenonT(30)
  <2>4. QED
    BY <2>1, <2>3, ZenonT(30) DEF Init, Promise!Init
<1>2. IInv /\ [Next]_vars => [Promise!Next]_Promise!vars
  BY MajoritiesHold, StepsRefine
<1>3. QED
  BY <1>1, <1>2, InvHolds, PTL DEF Spec, KeepsPromise, Promise!Spec
=============================================================================
