-------------------------------- MODULE Pipe --------------------------------
(***************************************************************************)
(* One pipe: pipe.c, with the reference counts of its two files.           *)
(*                                                                         *)
(* Processes have one thread each, so a process that is in a call does not *)
(* close the file it uses.  A step holds p->lock or ptable.lock; kill()    *)
(* takes only the latter, so it may come between a test of proc->killed    *)
(* and the sleep() that follows it.                                        *)
(***************************************************************************)
EXTENDS Integers, FiniteSets, Sequences

CONSTANTS
    Proc, Byte,
    PIPESIZE,
    WRAP,      \* a uint counter is taken modulo WRAP (2^32)
    MaxN,      \* the longest read or write
    First,     \* the process that calls pipe()
    Free,      \* nobody holds p->lock
    Kills      \* TRUE: processes are killed

ASSUME PipeAssumption ==
    /\ PIPESIZE \in Nat \ {0} /\ MaxN \in Nat /\ First \in Proc /\ Free \notin Proc
    /\ WRAP \in Nat /\ WRAP > PIPESIZE /\ WRAP % PIPESIZE = 0
    /\ Kills \in BOOLEAN /\ Byte # {}

VARIABLES
    data, nread, nwrite, readopen, writeopen,    \* struct pipe
    lock, freed,
    onread, onwrite,     \* the processes asleep on &p->nread and &p->nwrite
    rfd, wfd,            \* the processes that hold the two files
    pc, left,            \* left: the bytes a call has still to move
    moved,               \* the call has moved a byte
    killed

pipe  == <<data, nread, nwrite, readopen, writeopen, freed>>
calls == <<pc, left, moved>>
vars  == <<pipe, lock, onread, onwrite, rfd, wfd, calls, killed>>

\* pipealloc(): the caller holds both files.
Init ==
    /\ data \in [0..(PIPESIZE - 1) -> Byte]
    /\ nread = 0 /\ nwrite = 0 /\ readopen = TRUE /\ writeopen = TRUE
    /\ lock = Free /\ freed = FALSE
    /\ onread = {} /\ onwrite = {}
    /\ rfd = {First} /\ wfd = {First}
    /\ pc = [p \in Proc |-> "user"] /\ left = [p \in Proc |-> 0]
    /\ moved = [p \in Proc |-> FALSE]
    /\ killed = [p \in Proc |-> FALSE]

\* Mutant: one byte too many.
FullOneMore == nwrite = (nread + PIPESIZE + 1) % WRAP

Full  == nwrite = (nread + PIPESIZE) % WRAP
Empty == nread = nwrite

\* p->nread++ and p->nwrite++, which are uints.
Inc(n) == (n + 1) % WRAP

Goto(p, at) == pc' = [pc EXCEPT ![p] = at]

\* Release p->lock and return from the call.
Return(p) ==
    /\ lock' = Free /\ Goto(p, "user")
    /\ left' = [left EXCEPT ![p] = 0] /\ moved' = [moved EXCEPT ![p] = FALSE]

-----------------------------------------------------------------------------
(* fork(), fileclose() and pipeclose() *)

\* fork() and filedup(): q gets the files of p.
filedup(p, q) ==
    /\ pc[p] = "user" /\ p \in rfd \cup wfd /\ ~killed[p]
    /\ pc[q] = "user" /\ q \notin rfd \cup wfd /\ ~killed[q]
    /\ rfd' = IF p \in rfd THEN rfd \cup {q} ELSE rfd
    /\ wfd' = IF p \in wfd THEN wfd \cup {q} ELSE wfd
    /\ UNCHANGED <<pipe, lock, onread, onwrite, calls, killed>>

\* The last reference gone, fileclose() calls pipeclose().
fileclose(p) ==
    /\ pc[p] = "user"
    /\ \/ /\ p \in rfd /\ rfd' = rfd \ {p} /\ UNCHANGED wfd
          /\ IF rfd' = {} THEN Goto(p, "closer") ELSE UNCHANGED pc
       \/ /\ p \in wfd /\ wfd' = wfd \ {p} /\ UNCHANGED rfd
          /\ IF wfd' = {} THEN Goto(p, "closew") ELSE UNCHANGED pc
    /\ UNCHANGED <<pipe, lock, onread, onwrite, left, moved, killed>>

\* Mutant: either end is enough.
LastEndEither(r, w) == ~r \/ ~w

LastEnd(r, w) == ~r /\ ~w

\* Mutant: the readers are not told of a last writer that leaves because it was killed.
CloseWakesUnlessKilled(p) == IF killed[p] THEN onread ELSE {}

\* wakeup(&p->nread) in pipeclose().
CloseWakesReaders(p) == {}

pipeclose(p) ==
    /\ pc[p] \in {"closer", "closew"} /\ lock = Free
    /\ IF pc[p] = "closew"
       THEN writeopen' = FALSE /\ onread' = CloseWakesReaders(p) /\ UNCHANGED <<readopen, onwrite>>
       ELSE readopen' = FALSE /\ onwrite' = {} /\ UNCHANGED <<writeopen, onread>>
    /\ Goto(p, IF LastEnd(readopen', writeopen') THEN "kfree" ELSE "user")
    /\ UNCHANGED <<data, nread, nwrite, freed, lock, rfd, wfd, left, moved, killed>>

pipefree(p) ==
    /\ pc[p] = "kfree"
    /\ freed' = TRUE
    /\ Goto(p, "user")
    /\ UNCHANGED <<data, nread, nwrite, readopen, writeopen, lock, onread, onwrite, rfd, wfd,
                   left, moved, killed>>

-----------------------------------------------------------------------------
(* pipewrite() *)

write_start(p) ==
    /\ pc[p] = "user" /\ p \in wfd /\ ~killed[p] /\ lock = Free
    /\ \E n \in 0..MaxN : left' = [left EXCEPT ![p] = n]
    /\ lock' = p /\ Goto(p, "write")
    /\ moved' = [moved EXCEPT ![p] = FALSE]
    /\ UNCHANGED <<pipe, onread, onwrite, rfd, wfd, killed>>

write_byte(p, b) ==
    /\ pc[p] = "write" /\ lock = p /\ left[p] > 0 /\ ~Full
    /\ data' = [data EXCEPT ![nwrite % PIPESIZE] = b]
    /\ nwrite' = Inc(nwrite)
    /\ left' = [left EXCEPT ![p] = @ - 1]
    /\ moved' = [moved EXCEPT ![p] = TRUE]
    /\ UNCHANGED <<nread, readopen, writeopen, freed, lock, onread, onwrite, rfd, wfd, pc, killed>>

\* The pipe is full: give up, or go on to sleep.
write_full(p) ==
    /\ pc[p] = "write" /\ lock = p /\ left[p] > 0 /\ Full
    /\ IF ~readopen \/ killed[p]
       THEN Return(p)
       ELSE Goto(p, "writesleep") /\ UNCHANGED <<lock, left, moved>>
    /\ UNCHANGED <<pipe, onread, onwrite, rfd, wfd, killed>>

\* Mutant: a writer goes to sleep without telling the readers.
FullWakesNobody(p) == onread

\* wakeup(&p->nread) before the sleep in pipewrite().
FullWakesReaders(p) == {}

write_sleep(p) ==
    /\ pc[p] = "writesleep"
    /\ onread' = FullWakesReaders(p) /\ onwrite' = onwrite \cup {p}
    /\ lock' = Free /\ Goto(p, "writeasleep")
    /\ UNCHANGED <<pipe, rfd, wfd, left, moved, killed>>

write_done(p) ==
    /\ pc[p] = "write" /\ lock = p /\ left[p] = 0
    /\ onread' = {} /\ Return(p)
    /\ UNCHANGED <<pipe, onwrite, rfd, wfd, killed>>

-----------------------------------------------------------------------------
(* piperead() *)

read_start(p) ==
    /\ pc[p] = "user" /\ p \in rfd /\ ~killed[p] /\ lock = Free
    /\ \E n \in 0..MaxN : left' = [left EXCEPT ![p] = n]
    /\ lock' = p /\ Goto(p, "read")
    /\ moved' = [moved EXCEPT ![p] = FALSE]
    /\ UNCHANGED <<pipe, onread, onwrite, rfd, wfd, killed>>

MustWait == Empty /\ writeopen

\* The pipe is empty: give up, or go on to sleep.
read_empty(p) ==
    /\ pc[p] = "read" /\ lock = p /\ MustWait
    /\ IF killed[p]
       THEN Return(p)
       ELSE Goto(p, "readsleep") /\ UNCHANGED <<lock, left, moved>>
    /\ UNCHANGED <<pipe, onread, onwrite, rfd, wfd, killed>>

read_sleep(p) ==
    /\ pc[p] = "readsleep"
    /\ onread' = onread \cup {p}
    /\ lock' = Free /\ Goto(p, "readasleep")
    /\ UNCHANGED <<pipe, onwrite, rfd, wfd, left, moved, killed>>

read_some(p) ==
    /\ pc[p] = "read" /\ lock = p /\ ~MustWait
    /\ Goto(p, "copy")
    /\ UNCHANGED <<pipe, lock, onread, onwrite, rfd, wfd, left, moved, killed>>

read_byte(p) ==
    /\ pc[p] = "copy" /\ left[p] > 0 /\ ~Empty
    /\ nread' = Inc(nread)
    /\ left' = [left EXCEPT ![p] = @ - 1]
    /\ moved' = [moved EXCEPT ![p] = TRUE]
    /\ UNCHANGED <<data, nwrite, readopen, writeopen, freed, lock, onread, onwrite, rfd, wfd,
                   pc, killed>>

read_done(p) ==
    /\ pc[p] = "copy" /\ (left[p] = 0 \/ Empty)
    /\ onwrite' = {} /\ Return(p)
    /\ UNCHANGED <<pipe, onread, rfd, wfd, killed>>

-----------------------------------------------------------------------------
(* Waking up, and kill() *)

\* Mutant: if in the place of while.
RetryOnce(at) == IF at = "readasleep" THEN "copy" ELSE "write"

\* A woken sleeper goes back to the test of its loop.
Retry(at) == IF at = "readasleep" THEN "read" ELSE "write"

\* The end of sleep(): take p->lock again.
resume(p) ==
    /\ pc[p] \in {"readasleep", "writeasleep"} /\ p \notin onread \cup onwrite
    /\ lock = Free /\ lock' = p
    /\ Goto(p, Retry(pc[p]))
    /\ UNCHANGED <<pipe, onread, onwrite, rfd, wfd, left, moved, killed>>

kill(p) ==
    /\ Kills /\ ~killed[p] /\ p \in rfd \cup wfd
    /\ killed' = [killed EXCEPT ![p] = TRUE]
    /\ onread' = onread \ {p} /\ onwrite' = onwrite \ {p}
    /\ UNCHANGED <<pipe, lock, rfd, wfd, calls>>

-----------------------------------------------------------------------------
Call(p) ==
    \/ pipeclose(p) \/ pipefree(p)
    \/ write_full(p) \/ write_sleep(p) \/ write_done(p) \/ \E b \in Byte : write_byte(p, b)
    \/ read_empty(p) \/ read_sleep(p) \/ read_some(p) \/ read_byte(p) \/ read_done(p)
    \/ resume(p)

Next ==
    \E p \in Proc :
        \/ fileclose(p) \/ pipeclose(p) \/ pipefree(p) \/ \E q \in Proc : filedup(p, q)
        \/ write_start(p) \/ write_full(p) \/ write_sleep(p) \/ write_done(p)
        \/ \E b \in Byte : write_byte(p, b)
        \/ read_start(p) \/ read_empty(p) \/ read_sleep(p) \/ read_some(p) \/ read_byte(p)
        \/ read_done(p) \/ resume(p) \/ kill(p)

Spec == Init /\ [][Next]_vars

\* A process in a call goes on, and gets p->lock in the end; a killed one exits.
Fairness ==
    \A p \in Proc : SF_vars(Call(p)) /\ WF_vars(killed[p] /\ fileclose(p))

LiveSpec == Spec /\ Fairness

-----------------------------------------------------------------------------
(* Properties *)

Count == (nwrite - nread) % WRAP

\* The bytes in the pipe, the oldest first.
Contents == [i \in 1..Count |-> data[(nread + i - 1) % PIPESIZE]]

\* The ring of pipewrite() and piperead() is a bounded queue: bytes come out in
\* the order they went in, none is lost, doubled or overwritten, and nothing is
\* written once the last writer has closed, also where the counters wrap.
Queue == INSTANCE Fifo WITH queue <- Contents, open <- writeopen, Size <- PIPESIZE
IsQueue == Queue!Spec

\* No wakeup is lost: whenever p->lock is free, a reader is asleep only if the
\* pipe is empty and may still be written, and a writer only if it is full and
\* may still be read.
SleepersWait ==
    lock = Free => /\ onread # {} => Empty /\ writeopen
                   /\ onwrite # {} => Full /\ readopen

\* SleepersWait for as long as nobody has been killed: between a write that wakes
\* every reader, reads that wake every writer, and closes, no wakeup() is missing.
UnkilledSleepersWait == (\A p \in Proc : ~killed[p]) => SleepersWait

\* A read that asked for bytes and was not killed returns none only at the end
\* of the data: the pipe is empty and no writer is left, however many readers
\* one write has woken up.
EofOnlyAtEnd ==
    [][\A p \in Proc : read_done(p) /\ left[p] > 0 /\ ~moved[p] => Empty /\ ~writeopen]_vars

\* pipeclose() frees the pipe when no process is in a call on it or still has
\* to close an end.
FreedUnused ==
    freed => /\ rfd \cup wfd = {} /\ lock = Free
             /\ \A p \in Proc : pc[p] = "user"

\* Once the last writer has closed, every read of the pipe returns.
ReadersReleased ==
    \A p \in Proc : ~writeopen ~> pc[p] \notin {"read", "readsleep", "readasleep", "copy"}
=============================================================================
