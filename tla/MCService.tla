------------------------------ MODULE MCService ------------------------------
(* An instance of Service for TLC. *)
EXTENDS Service

CONSTANTS s1, s2, j1

TwoSeeds == <<s1, s2>>
OneJob == {j1}
==============================================================================
