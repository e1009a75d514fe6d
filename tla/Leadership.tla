----------------------------- MODULE Leadership -----------------------------
(***************************************************************************)
(* What the election layer (internal/cluster) promises the rest of a       *)
(* scheduler node, stated without votes, messages or disks: terms only     *)
(* grow, a term is won at most once, and a node leads only a term it won.  *)
(* Module Election implements this specification.                          *)
(***************************************************************************)
EXTENDS Naturals

CONSTANTS
    Node,                \* the scheduler replicas
    Term                 \* the terms, numbered from 0

VARIABLES
    term,                \* term[n]: the newest term node n has recorded
    leads,               \* leads[n]: node n believes it is the leader
    won                  \* history: the pairs <<node, term>> of won elections

vars == <<term, leads, won>>

TypeOK ==
    /\ term \in [Node -> Term]
    /\ leads \in [Node -> BOOLEAN]
    /\ won \subseteq (Node \X Term)

Init ==
    /\ term = [n \in Node |-> 0]
    /\ leads = [n \in Node |-> FALSE]
    /\ won = {}

\* A node that hears of a newer term adopts it and no longer leads.
Adopt(n, t) ==
    /\ t > term[n]
    /\ term' = [term EXCEPT ![n] = t]
    /\ leads' = [leads EXCEPT ![n] = FALSE]
    /\ UNCHANGED won

\* A node wins a term, its own or a newer one, that nobody won before.
Win(n, t) ==
    /\ t >= term[n]
    /\ \A m \in Node : <<m, t>> \notin won
    /\ term' = [term EXCEPT ![n] = t]
    /\ leads' = [leads EXCEPT ![n] = TRUE]
    /\ won' = won \cup {<<n, t>>}

\* A leader stops: its process is gone.
Lose(n) ==
    /\ leads[n]
    /\ leads' = [leads EXCEPT ![n] = FALSE]
    /\ UNCHANGED <<term, won>>

Next ==
    \E n \in Node :
        \/ \E t \in Term : Adopt(n, t) \/ Win(n, t)
        \/ Lose(n)

Spec == Init /\ [][Next]_vars
=============================================================================
