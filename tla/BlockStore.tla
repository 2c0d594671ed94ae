----------------------------- MODULE BlockStore -----------------------------
(***************************************************************************)
(* What the buffer cache promises to the file system: one process at a     *)
(* time has a block, it sees the value that was last given to the block,   *)
(* and it may give it another one.                                         *)
(***************************************************************************)
CONSTANTS Proc, Sector, Val, NoProc

VARIABLES
    val,      \* the value of a sector
    owner     \* the process that has the sector's buffer, or NoProc

Init == val \in [Sector -> Val] /\ owner = [s \in Sector |-> NoProc]

Get(p, s) == /\ owner[s] = NoProc
             /\ owner' = [owner EXCEPT ![s] = p] /\ UNCHANGED val

Set(p, s, v) == /\ owner[s] = p
                /\ val' = [val EXCEPT ![s] = v] /\ UNCHANGED owner

Put(p, s) == /\ owner[s] = p
             /\ owner' = [owner EXCEPT ![s] = NoProc] /\ UNCHANGED val

Next == \E p \in Proc, s \in Sector :
            Get(p, s) \/ Put(p, s) \/ \E v \in Val : Set(p, s, v)

Spec == Init /\ [][Next]_<<val, owner>>
=============================================================================
