---------------------------- MODULE MCReadyQueue ----------------------------
(* An instance of ReadyQueue and of Backoff for TLC. *)
EXTENDS ReadyQueue, Backoff

Jobs == 1 .. 6
Priorities == 0 .. 1
Times == 1 .. 2

\* Two items for each job: urgent, or of an age that depends on the job.
Items ==
    {[jobID |-> j, priority |-> p, createdAt |-> IF p = 1 THEN 1 ELSE 1 + (j % 2)] :
        j \in Jobs, p \in Priorities}

\* Unset, growing, constant, shrinking and jittery beyond zero; caps that are met
\* exactly, between two delays, and at once.
SomePolicies ==
    [maxAttempts : {0, 6}, initialBackoff : {0, 400}, maxBackoff : {0, 200, 800, 1000},
     multiplier : {0, 50, 100, 300}, jitter : {0, 150}]

Randoms == {-100, -37, 0, 50, 99}

\* The queue and the backoff have no state in common, so each of them is explored while
\* the other one is where it began.
QueueOrRetry ==
    \/ QueueNext /\ attempt = 0 /\ UNCHANGED <<policy, attempt, delay>>
    \/ (Retry \/ Ends) /\ h = <<>> /\ out.op = "Clear" /\ UNCHANGED queueVars

Start == QueueInit /\ RetryInit

BothSpec ==
    /\ Start
    /\ [][QueueOrRetry]_<<queueVars, policy, attempt, delay>>
=============================================================================
