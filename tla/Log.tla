-------------------------------- MODULE Log ---------------------------------
(***************************************************************************)
(* The redo log of log.c: concurrent file-system calls, group commit,      *)
(* crashes at any disk write and recovery at boot.                         *)
(*                                                                         *)
(* A step is one critical section of log.lock, or one disk write: a crash  *)
(* or another process can come between any two of them.  Sectors are       *)
(* written atomically, which is what a disk gives the code.                *)
(*                                                                         *)
(* The buffer cache (bio.c) appears as cache and dirty: cache[s] is the    *)
(* copy of sector s in memory, or NotCached; a B_DIRTY buffer is never     *)
(* recycled.  The blocks of the log itself are only ever written through,  *)
(* so their cached copies are always those on disk and are not kept apart. *)
(***************************************************************************)
EXTENDS Naturals, Sequences, FiniteSets, Functions

CONSTANTS
    Proc,         \* the processes that make file-system calls
    Sector,       \* the home locations of blocks
    Val,          \* the contents of a block
    NotCached,    \* no buffer holds the sector
    NoSector,     \* the process has no buffer B_BUSY
    MAXOPBLOCKS,  \* param.h: what begin_op() reserves for one call
    LOGSIZE,      \* param.h: the size of log.lh.sector[]
    NLOG,         \* log.size: the superblock's nlog, header included
    OpBlocks      \* how many distinct blocks one call really writes

ASSUME LogAssumption ==
    /\ IsFiniteSet(Proc)
    /\ MAXOPBLOCKS \in Nat /\ LOGSIZE \in Nat /\ NLOG \in Nat /\ OpBlocks \in Nat
    /\ NotCached \notin Val
    /\ NoSector \notin Sector

VARIABLES
    boot,         \* "up", or how far recover_from_log() is
    pc,           \* where each process is
    held,         \* the buffer a process has B_BUSY between bread and log_write
    wrote,        \* the sectors a process logged in its current call
    outstanding, committing, lh,       \* struct log
    tail,         \* loop index of write_log() and install_trans()
    cache, dirty, \* the buffer cache
    home,         \* on disk: the home locations
    dlog, dhead   \* on disk: the log blocks and the header block

disk == <<home, dlog, dhead>>
vars == <<boot, pc, held, wrote, outstanding, committing, lh, tail, cache, dirty, disk>>

LogBlock == 1..(NLOG - 1)

InOpPC   == {"op", "log_write", "panic"}
CommitPC == {"write_log", "write_head", "install_trans", "erase", "end_commit"}
PC       == {"user", "begin", "asleep"} \cup InOpPC \cup CommitPC

\* The log is well-formed on disk and the machine has just been started.
Init ==
    /\ boot = "read_head"
    /\ pc = [p \in Proc |-> "user"]
    /\ held = [p \in Proc |-> NoSector]
    /\ wrote = [p \in Proc |-> {}]
    /\ outstanding = 0 /\ committing = FALSE /\ lh = <<>> /\ tail = 1
    /\ cache = [s \in Sector |-> NotCached] /\ dirty = {}
    /\ home \in [Sector -> Val] /\ dlog \in [LogBlock -> Val] /\ dhead = <<>>

\* Sector s as bread() returns it.
Bread(s) == IF cache[s] # NotCached THEN cache[s] ELSE home[s]

Busy(s) == \E p \in Proc : held[p] = s

\* Mutant: nobody is woken up.
WakeupLogLost(p, next) == pc' = [pc EXCEPT ![p] = next]

\* wakeup(&log), while p itself goes on to next.
WakeupLog(p, next) ==
    pc' = [q \in Proc |-> IF q = p THEN next
                          ELSE IF pc[q] = "asleep" THEN "begin" ELSE pc[q]]

-----------------------------------------------------------------------------
\* Mutant: what earlier calls have logged is not counted.
NoRoomForCalls == (outstanding + 1) * MAXOPBLOCKS > LOGSIZE

\* Would this call exhaust the log?
NoRoom == Len(lh) + (outstanding + 1) * MAXOPBLOCKS > LOGSIZE

\* Mutant: a commit in progress is not waited for.
MustWaitSpaceOnly == NoRoom

MustWait == committing \/ NoRoom

\* begin_op(): sleep, or be counted.  A process woken up looks again.
begin_op(p) ==
    /\ boot = "up" /\ pc[p] \in {"user", "begin"}
    /\ \/ /\ MustWait
          /\ pc' = [pc EXCEPT ![p] = "asleep"]
          /\ UNCHANGED <<outstanding, wrote>>
       \/ /\ ~MustWait
          /\ outstanding' = outstanding + 1
          /\ wrote' = [wrote EXCEPT ![p] = {}]
          /\ pc' = [pc EXCEPT ![p] = "op"]
    /\ UNCHANGED <<boot, held, committing, lh, tail, cache, dirty, disk>>

\* The tests at the top of log_write(), made before it takes log.lock.
TooBig == Len(lh) >= LOGSIZE \/ Len(lh) + 1 >= NLOG \/ outstanding < 1

\* bread() a block, modify it, and enter log_write() as far as its tests.
modify(p, s, v) ==
    /\ pc[p] = "op" /\ ~Busy(s)
    /\ Cardinality(wrote[p] \cup {s}) <= OpBlocks
    /\ cache' = [cache EXCEPT ![s] = v]
    /\ held' = [held EXCEPT ![p] = s]
    /\ wrote' = [wrote EXCEPT ![p] = @ \cup {s}]
    /\ pc' = [pc EXCEPT ![p] = IF TooBig THEN "panic" ELSE "log_write"]
    /\ UNCHANGED <<boot, outstanding, committing, lh, tail, dirty, disk>>

\* The locked part of log_write(), with log absorption, and brelse().
log_write(p) ==
    /\ pc[p] = "log_write"
    /\ lh' = IF held[p] \in Range(lh) THEN lh ELSE Append(lh, held[p])
    /\ dirty' = dirty \cup {held[p]}
    /\ held' = [held EXCEPT ![p] = NoSector]
    /\ pc' = [pc EXCEPT ![p] = "op"]
    /\ UNCHANGED <<boot, wrote, outstanding, committing, tail, cache, disk>>

\* Mutant: a transaction of one block is not committed.
NothingLoggedOffByOne == Len(lh) <= 1

\* The test of commit().
NothingLogged == Len(lh) = 0

\* end_op() up to commit(): the last call out commits, the others wake sleepers.
end_op(p) ==
    /\ pc[p] = "op"
    /\ outstanding' = outstanding - 1
    /\ \/ /\ committing
          /\ pc' = [pc EXCEPT ![p] = "panic"]
          /\ UNCHANGED <<committing, tail>>
       \/ /\ ~committing /\ outstanding = 1
          /\ committing' = TRUE
          /\ tail' = 1
          /\ pc' = [pc EXCEPT ![p] = IF NothingLogged THEN "end_commit" ELSE "write_log"]
       \/ /\ ~committing /\ outstanding # 1
          /\ WakeupLog(p, "user")
          /\ UNCHANGED <<committing, tail>>
    /\ UNCHANGED <<boot, held, wrote, lh, cache, dirty, disk>>

-----------------------------------------------------------------------------
\* One iteration of write_log(): copy a modified block to the log.
write_log(p) ==
    /\ pc[p] = "write_log"
    /\ dlog' = [dlog EXCEPT ![tail] = Bread(lh[tail])]
    /\ cache' = [cache EXCEPT ![lh[tail]] = Bread(lh[tail])]
    /\ tail' = IF tail = Len(lh) THEN 1 ELSE tail + 1
    /\ pc' = [pc EXCEPT ![p] = IF tail = Len(lh) THEN "write_head" ELSE @]
    /\ UNCHANGED <<boot, held, wrote, outstanding, committing, lh, dirty, home, dhead>>

\* write_head() in commit(): the real commit.
write_head(p) ==
    /\ pc[p] = "write_head"
    /\ dhead' = lh
    /\ pc' = [pc EXCEPT ![p] = "install_trans"]
    /\ UNCHANGED <<boot, held, wrote, outstanding, committing, lh, tail, cache, dirty,
                   home, dlog>>

\* Mutant: block i is read at log.start + i - 1, so that the first is the header.
LogDataOffByOne(i) == IF i - 1 \in LogBlock THEN {dlog[i - 1]} ELSE {dhead}

\* What log block i may read as: past the end of the disk, anything.
LogData(i) == IF i \in LogBlock THEN {dlog[i]} ELSE Val

\* The body of install_trans()'s loop; bwrite() leaves the buffer clean.
InstallBlock ==
    /\ \E v \in LogData(tail) :
        /\ home' = [home EXCEPT ![lh[tail]] = v]
        /\ cache' = [cache EXCEPT ![lh[tail]] = v]
    /\ dirty' = dirty \ {lh[tail]}

install_trans(p) ==
    /\ pc[p] = "install_trans"
    /\ InstallBlock
    /\ tail' = IF tail = Len(lh) THEN 1 ELSE tail + 1
    /\ pc' = [pc EXCEPT ![p] = IF tail = Len(lh) THEN "erase" ELSE @]
    /\ UNCHANGED <<boot, held, wrote, outstanding, committing, lh, dlog, dhead>>

\* Mutant: the header on disk is not written a second time.
EraseLogInMemory == lh' = <<>> /\ UNCHANGED dhead

\* log.lh.n = 0; write_head().
EraseLog == lh' = <<>> /\ dhead' = <<>>

erase(p) ==
    /\ pc[p] = "erase"
    /\ EraseLog
    /\ pc' = [pc EXCEPT ![p] = "end_commit"]
    /\ UNCHANGED <<boot, held, wrote, outstanding, committing, tail, cache, dirty,
                   home, dlog>>

\* The end of end_op() after commit().
end_commit(p) ==
    /\ pc[p] = "end_commit"
    /\ committing' = FALSE
    /\ WakeupLog(p, "user")
    /\ UNCHANGED <<boot, held, wrote, outstanding, lh, tail, cache, dirty, disk>>

-----------------------------------------------------------------------------
\* A process reads a block outside any transaction (readi()): bget() and iderw().
bread(s) ==
    /\ boot = "up" /\ ~Busy(s) /\ cache[s] = NotCached
    /\ cache' = [cache EXCEPT ![s] = home[s]]
    /\ UNCHANGED <<boot, pc, held, wrote, outstanding, committing, lh, tail, dirty, disk>>

\* bget() reuses the buffer of s for another block: never a busy or dirty one.
recycle(s) ==
    /\ ~Busy(s) /\ s \notin dirty /\ cache[s] # NotCached
    /\ cache' = [cache EXCEPT ![s] = NotCached]
    /\ UNCHANGED <<boot, pc, held, wrote, outstanding, committing, lh, tail, dirty, disk>>

\* The machine stops and is started again: memory is lost, the disk is not.
Crash ==
    /\ boot' = "read_head"
    /\ pc' = [p \in Proc |-> "user"]
    /\ held' = [p \in Proc |-> NoSector]
    /\ wrote' = [p \in Proc |-> {}]
    /\ outstanding' = 0 /\ committing' = FALSE /\ lh' = <<>> /\ tail' = 1
    /\ cache' = [s \in Sector |-> NotCached] /\ dirty' = {}
    /\ UNCHANGED disk

\* initlog(), in the first process and before any other: recover_from_log().
read_head ==
    /\ boot = "read_head"
    /\ lh' = dhead
    /\ boot' = "install_trans"
    /\ UNCHANGED <<pc, held, wrote, outstanding, committing, tail, cache, dirty, disk>>

recover_install ==
    /\ boot = "install_trans" /\ tail <= Len(lh)
    /\ InstallBlock
    /\ tail' = tail + 1
    /\ UNCHANGED <<boot, pc, held, wrote, outstanding, committing, lh, dlog, dhead>>

recover_erase ==
    /\ boot = "install_trans" /\ tail > Len(lh)
    /\ EraseLog
    /\ boot' = "up" /\ tail' = 1
    /\ UNCHANGED <<pc, held, wrote, outstanding, committing, cache, dirty, home, dlog>>

-----------------------------------------------------------------------------
Commit(p)  == write_log(p) \/ write_head(p) \/ install_trans(p) \/ erase(p) \/ end_commit(p)
Recover    == read_head \/ recover_install \/ recover_erase

Next ==
    \/ \E p \in Proc : begin_op(p) \/ log_write(p) \/ end_op(p) \/ Commit(p)
    \/ \E p \in Proc, s \in Sector, v \in Val : modify(p, s, v)
    \/ \E s \in Sector : bread(s) \/ recycle(s)
    \/ Crash
    \/ Recover

\* The kernel does not stop a process for good inside the logging layer, and
\* the code of a file-system call is finite: it reaches its end_op().
Fairness ==
    /\ \A p \in Proc :
        /\ WF_vars(pc[p] = "begin" /\ begin_op(p))
        /\ WF_vars(log_write(p))
        /\ SF_vars(end_op(p))
        /\ WF_vars(Commit(p))
    /\ WF_vars(Recover)

Spec == Init /\ [][Next]_vars

LiveSpec == Spec /\ Fairness

-----------------------------------------------------------------------------
(* Properties *)

\* Every variable keeps the type its C declaration and use give it.
TypeOK ==
    /\ boot \in {"read_head", "install_trans", "up"}
    /\ pc \in [Proc -> PC]
    /\ held \in [Proc -> Sector \cup {NoSector}]
    /\ wrote \in [Proc -> SUBSET Sector]
    /\ outstanding \in Nat /\ committing \in BOOLEAN
    /\ lh \in Seq(Sector) /\ tail \in Nat \ {0}
    /\ cache \in [Sector -> Val \cup {NotCached}] /\ dirty \in SUBSET Sector
    /\ home \in [Sector -> Val] /\ dlog \in [LogBlock -> Val] /\ dhead \in Seq(Sector)

InOp == {p \in Proc : pc[p] \in InOpPC}

\* log.c:10-14, "The logging system only commits when there are no FS system
\* calls active": while one process is in commit() no process is between
\* begin_op() and end_op(), and no second process commits.
CommitAlone ==
    \A p \in Proc : pc[p] \in CommitPC =>
        /\ InOp = {}
        /\ \A q \in Proc : pc[q] \in CommitPC => q = p

\* The sectors that are about to be logged, and what each call has written.
Pending == {held[p] : p \in InOp} \ {NoSector}
Written == {x \in InOp \X Sector : x[2] \in wrote[x[1]]}

\* log_write() tests log.lh.n before it takes log.lock, so the test alone does
\* not keep two calls from both passing it: it is begin_op()'s reservation
\* that keeps the n sector numbers inside log.lh.sector[LOGSIZE].  There is
\* room for what is logged, what is about to be, and all that the calls under
\* way may still log.
HeaderFits ==
    Cardinality(Range(lh) \cup Pending) + outstanding * MAXOPBLOCKS
        <= LOGSIZE + Cardinality(Written)

\* log.c:19-20, a call that might exhaust the log "sleeps until the last
\* outstanding end_op() commits": calls that write no more than they reserved
\* never make log_write() panic("too big a transaction").
NoPanic == \A p \in Proc : pc[p] # "panic"

\* What system calls read, and what a reboot would bring back: recovery
\* installs the blocks the header on disk names.
View == [s \in Sector |-> Bread(s)]
Recovered(head, blocks, homes) ==
    [s \in Sector |-> IF s \in Range(head)
                      THEN blocks[CHOOSE i \in DOMAIN head : head[i] = s]
                      ELSE homes[s]]
Durable == Recovered(dhead, dlog, home)

\* log.c:29, "Log appends are synchronous": once the last end_op() is through,
\* everything system calls have written would survive a crash.
QuiescentDurable ==
    boot = "up" /\ outstanding = 0 /\ ~committing => Durable = View

\* Until recovery is through nobody reads.
Seen == IF boot = "up" THEN View ELSE Durable

\* commit() and recovery, interrupted by a crash at any disk write, are one
\* atomic update of the disk: what is durable is always the effect of complete
\* system calls, and reading through the cache never shows anything else.
Abstract == INSTANCE AtomicDisk WITH
    mem     <- Seen,
    durable <- Durable,
    active  <- InOp

AtomicUpdates == Abstract!Spec

\* No process sleeps in begin_op() for ever: every wait for a commit or for log
\* space is ended by a wakeup(&log).
SleeperWoken == \A p \in Proc : pc[p] = "asleep" ~> pc[p] # "asleep"
=============================================================================
