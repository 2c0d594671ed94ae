----------------------------- MODULE AtomicDisk -----------------------------
(***************************************************************************)
(* What the logging layer (log.c) promises to the file system: a disk on   *)
(* which the updates of completed system calls become durable all at once, *)
(* and a crash falls back to the last such point.                          *)
(*                                                                         *)
(*   mem      the contents of every sector as system calls read it         *)
(*   durable  the contents a reboot after a crash would bring back         *)
(*   active   the system calls between begin_op() and end_op()             *)
(***************************************************************************)
CONSTANTS Proc, Sector, Val

VARIABLES mem, durable, active

vars == <<mem, durable, active>>

Init ==
    /\ mem \in [Sector -> Val]
    /\ durable = mem
    /\ active = {}

Begin(p) ==
    /\ p \notin active
    /\ active' = active \cup {p}
    /\ UNCHANGED <<mem, durable>>

Write(p, s, v) ==
    /\ p \in active
    /\ mem' = [mem EXCEPT ![s] = v]
    /\ UNCHANGED <<durable, active>>

End(p) ==
    /\ p \in active
    /\ active' = active \ {p}
    /\ UNCHANGED <<mem, durable>>

\* Only between system calls, and everything written so far at once.
Commit ==
    /\ active = {}
    /\ durable' = mem
    /\ UNCHANGED <<mem, active>>

Crash ==
    /\ mem' = durable
    /\ active' = {}
    /\ UNCHANGED durable

Next ==
    \/ \E p \in Proc : Begin(p) \/ End(p)
    \/ \E p \in Proc, s \in Sector, v \in Val : Write(p, s, v)
    \/ Commit
    \/ Crash

Spec == Init /\ [][Next]_vars
=============================================================================
