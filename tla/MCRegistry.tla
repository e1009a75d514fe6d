----------------------------- MODULE MCRegistry -----------------------------
(* An instance of Registry for TLC. *)
EXTENDS Registry

CONSTANTS w1, h1, h2, t1

OneWorker == {w1}
TwoHandlers == {h1, h2}
OneTask == {t1}
=============================================================================
