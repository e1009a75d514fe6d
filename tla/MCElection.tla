----------------------------- MODULE MCElection -----------------------------
(* Small instances of Election for TLC. *)
EXTENDS Election, TLC

\* Nodes of the same kind (those that campaign, those that do not) are alike.
NodeSymmetry ==
    {f \in Permutations(Node) : {f[n] : n \in Campaigner} = Campaigner}

\* A leader that was replaced steps down, also when only the answers to its own calls
\* can tell it (MaybeStepDown on the term of a refused heartbeat).
StaleLeaderStepsDown == \A n \in Campaigner \cap Lossy : StaleLeaderYields(n)

\* A startElection returns to the run loop, also when a peer gets none of its calls
\* (voteTimeout).
ElectionEnds == \A n \in Campaigner \ Lossy : ElectionReturns(n)
=============================================================================
