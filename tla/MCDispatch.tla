----------------------------- MODULE MCDispatch -----------------------------
(* Instances of Dispatch for TLC.                                          *)
EXTENDS Dispatch, TLC

CONSTANTS a, b, c

Ask(j, deps, max, kind) == [job |-> j, deps |-> deps, max |-> max, kind |-> kind]

\* b waits for a; a may be tried twice.
Chain == {Ask(a, <<>>, 2, "once"), Ask(b, <<a>>, 1, "once")}

\* Three jobs that may form a chain, a join, or a cycle that has to be refused; b may
\* be delayed and a may be tried twice.
Graphs == {Ask(a, <<>>, 2, "once"), Ask(a, <<c>>, 1, "once"), Ask(b, <<a>>, 1, "at"),
           Ask(c, <<a, b>>, 1, "once"), Ask(c, <<b>>, 1, "once")}

\* A recurring job.
Recurring == {Ask(a, <<>>, 1, "cron")}

\* What another leader ships: a and b in the middle of a run, and b once its only attempt
\* has failed.
Running == [Absent EXCEPT !.state = "RUNNING", !.attempt = 1]
Shipped == {[job |-> a, rec |-> [Running EXCEPT !.kind = "cron"], done |-> {}],
            [job |-> b, rec |-> Running, done |-> {}],
            [job |-> b, rec |-> [Running EXCEPT !.state = "FAILED"], done |-> {}]}

ThreadSymmetry == Permutations(Thread)
=============================================================================
