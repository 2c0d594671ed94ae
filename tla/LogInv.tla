------------------------------- MODULE LogInv -------------------------------
(***************************************************************************)
(* The inductive invariant of Log: why TypeOK, CommitAlone,                *)
(* QuiescentDurable and AtomicUpdates hold.  Control is inductive as it    *)
(* stands, and Space with it; Data needs in addition that every            *)
(* transaction fits in the log on disk (LogFits), which Margin gives when  *)
(* calls leave some of their reservation unused.                           *)
(***************************************************************************)
EXTENDS Log

\* No transaction has more blocks than the log on disk has room for.
LogFits == Len(lh) < NLOG

NoDup(q) == \A i, j \in DOMAIN q : q[i] = q[j] => i = j

\* Before recovery is through no process has entered the logging layer.
BootControl ==
    /\ boot # "up" =>
        /\ outstanding = 0 /\ ~committing /\ dirty = {}
        /\ \A p \in Proc : pc[p] = "user" /\ held[p] = NoSector
    /\ boot = "read_head" =>
        /\ lh = <<>> /\ tail = 1
        /\ \A s \in Sector : cache[s] = NotCached
    /\ boot = "install_trans" => tail <= Len(lh) + 1

CountControl ==
    /\ outstanding = Cardinality(InOp)
    /\ committing <=> \E p \in Proc : pc[p] \in CommitPC

\* A buffer is busy from modify to log_write(), and for one process only.
HeldControl ==
    /\ \A p \in Proc :
        /\ pc[p] = "log_write" => held[p] \in Sector
        /\ held[p] # NoSector => pc[p] \in {"log_write", "panic"}
    /\ \A p, q \in Proc : held[p] = held[q] /\ held[p] # NoSector => p = q

TailControl ==
    \A p \in Proc :
        /\ pc[p] \in {"write_log", "install_trans"} => tail <= Len(lh)
        /\ pc[p] = "write_head" => tail = 1 /\ lh # <<>>

Control ==
    /\ TypeOK /\ CommitAlone
    /\ BootControl /\ CountControl /\ HeldControl /\ TailControl

-----------------------------------------------------------------------------
\* The header on disk names the transaction from write_head() until it is
\* erased, also across a crash; otherwise it is empty.
HeadData ==
    /\ NoDup(lh) /\ NoDup(dhead)
    /\ Len(dhead) < NLOG
    /\ boot = "install_trans" => dhead = lh
    /\ \A p \in Proc :
        /\ pc[p] \in {"install_trans", "erase"} => dhead = lh
        /\ pc[p] = "end_commit" => lh = <<>>
    /\ boot = "up" /\ outstanding = 0 /\ ~committing => lh = <<>>
    /\ boot = "up" /\ (\A p \in Proc : pc[p] \notin {"install_trans", "erase"})
        => dhead = <<>>

\* What is copied to the log, then from the log to the home locations.
CopyData ==
    /\ \A p \in Proc :
        /\ pc[p] = "write_log" =>
            \A i \in DOMAIN lh : i < tail => dlog[i] = cache[lh[i]]
        /\ pc[p] = "write_head" =>
            \A i \in DOMAIN lh : dlog[i] = cache[lh[i]]
        /\ pc[p] = "install_trans" =>
            \A i \in DOMAIN lh : IF i < tail THEN home[lh[i]] = dlog[i]
                                             ELSE cache[lh[i]] = dlog[i]
        /\ pc[p] = "erase" =>
            \A i \in DOMAIN lh : home[lh[i]] = dlog[i]
    /\ boot = "install_trans" =>
        \A i \in DOMAIN lh : i < tail => home[lh[i]] = dlog[i]

\* The dirty buffers are those of the transaction, until they are installed.
DirtyData ==
    /\ boot = "up" /\ (\A p \in Proc : pc[p] \notin {"install_trans", "erase"})
        => dirty = Range(lh)
    /\ \A p \in Proc :
        /\ pc[p] = "install_trans" =>
            dirty = {lh[i] : i \in {j \in DOMAIN lh : j >= tail}}
        /\ pc[p] = "erase" => dirty = {}

\* A buffer that is neither dirty nor being modified agrees with the disk.
CacheData ==
    /\ \A s \in Sector :
        /\ s \in dirty => cache[s] # NotCached
        /\ s \notin dirty /\ ~Busy(s) /\ cache[s] # NotCached => cache[s] = home[s]
    /\ \A p \in Proc : held[p] # NoSector => cache[held[p]] # NotCached

Data == HeadData /\ CopyData /\ DirtyData /\ CacheData

\* The inductive invariant, as long as transactions fit.
IInv == Control /\ Data

-----------------------------------------------------------------------------
\* What a call has written is in the header, or is the buffer it holds.
WroteSpace ==
    \A p \in Proc :
        /\ IsFiniteSet(wrote[p]) /\ Cardinality(wrote[p]) <= OpBlocks
        /\ p \in InOp => wrote[p] \subseteq Range(lh) \cup {held[p]}
        /\ held[p] # NoSector => held[p] \in wrote[p]

\* The reservations are kept, in memory and for the header that a crash leaves.
Space ==
    /\ NoDup(lh) /\ NoDup(dhead) /\ Len(dhead) <= LOGSIZE
    /\ WroteSpace
    /\ HeaderFits

\* The places that are taken in the header, those about to be taken included.
Used == Cardinality(Range(lh) \cup Pending)

\* A transaction is one call, or has room for what two calls leave unused.
MarginOf(n) == n <= OpBlocks \/ n + 2 * MAXOPBLOCKS <= LOGSIZE + 2 * OpBlocks

\* begin_op() admits a second call only next to the whole reservation of the
\* first, so what both leave unused stays free when they have gone; and a call
\* that is admitted alone begins a transaction.
Margin ==
    /\ boot = "up" /\ outstanding = 0 /\ ~committing => lh = <<>>
    /\ \A p \in Proc : pc[p] = "end_commit" => lh = <<>>
    /\ outstanding = 1 =>
        \/ Used <= Cardinality(Written)
        \/ Used + 2 * MAXOPBLOCKS <= LOGSIZE + OpBlocks + Cardinality(Written)
    /\ outstanding = 0 => MarginOf(Len(lh))
    /\ MarginOf(Len(dhead))
=============================================================================
