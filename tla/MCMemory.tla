------------------------------ MODULE MCMemory ------------------------------
(* Instances of Memory for TLC.                                            *)
EXTENDS Memory

MCGrow     == {3, 20, -1, -6}
MCPrograms == {<<2>>, <<1, 3>>}
=============================================================================
