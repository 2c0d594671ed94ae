------------------------------- MODULE MCLog --------------------------------
(* Instances of Log for TLC.                                               *)
EXTENDS LogInv

CONSTANTS p1, p2, p3, s1, s2, s3, s4, v1, v2
=============================================================================
