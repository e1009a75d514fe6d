------------------------------ MODULE MCAgent ------------------------------
(* An instance of Agent for TLC. *)
EXTENDS Agent

CONSTANTS s1, s2, t1, t2

Seeds == <<s1, s2>>
Tasks == {t1, t2}

\* A task that was started ends, its report delivered or given up. The tasks are alike,
\* so what holds of one of them holds of all.
TasksEnd == TaskEnds(t1)
=============================================================================
