------------------------------ MODULE MCBcache ------------------------------
(* Instances of Bcache for TLC.                                            *)
EXTENDS Bcache

CONSTANTS p1, p2, s1, s2, s3, v1, v2
=============================================================================
