--------------------------- MODULE MCReplication ---------------------------
(* Instances of Replication for TLC. *)
EXTENDS Replication

CONSTANTS a, b, j1, j2

Two == {a, b}
TwoKeys == {j1, j2}
=============================================================================
