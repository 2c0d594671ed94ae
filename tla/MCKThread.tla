------------------------------ MODULE MCKThread -----------------------------
(* Instances of KThread for TLC.                                           *)
EXTENDS KThread, TLC

CONSTANTS c1, c2

Perms == Permutations(CPU)
=============================================================================
