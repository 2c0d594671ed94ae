------------------------------- MODULE MCPipe -------------------------------
(* Instances of Pipe for TLC.                                              *)
EXTENDS Pipe

CONSTANTS p1, p2, p3, a, b
=============================================================================
