------------------------------- MODULE Bcache -------------------------------
(***************************************************************************)
(* The buffer cache and the disk queue: bio.c and ide.c.                   *)
(*                                                                         *)
(* A step is a critical section of bcache.lock or of idelock.  Processes   *)
(* get the buffer of a sector, read it, change it and either leave it to   *)
(* the log (log_write() marks it B_DIRTY) or write it out, and release it. *)
(***************************************************************************)
EXTENDS Integers, Sequences, Functions

CONSTANTS
    Proc, Sector, Val,
    NBUF,              \* param.h
    NoSector,          \* b->dev = -1
    NoProc, Zero,
    Bad                \* the sectors that the drive may fail to read

ASSUME BcacheAssumption ==
    /\ NBUF \in Nat \ {0} /\ Zero \in Val
    /\ NoSector \notin Sector /\ NoProc \notin Proc
    /\ Bad \subseteq Sector

Buf   == 1..NBUF
NoBuf == 0

VARIABLES
    list,                       \* bcache.head: the most recently used first
    sector, busy, valid, dirty, \* b->sector and b->flags
    data,
    idequeue, disk,
    pc, want, buf,              \* of a process: the sector and buffer of its call
    asleep,                     \* the buffer whose address a process sleeps on
    panic

flags == <<sector, busy, valid, dirty>>
vars  == <<list, flags, data, idequeue, disk, pc, want, buf, asleep, panic>>

\* binit(), and any disk.
Init ==
    /\ list = [i \in Buf |-> NBUF + 1 - i]
    /\ sector = [b \in Buf |-> NoSector]
    /\ busy = [b \in Buf |-> FALSE]
    /\ valid = [b \in Buf |-> FALSE] /\ dirty = [b \in Buf |-> FALSE]
    /\ data = [b \in Buf |-> Zero] /\ disk \in [Sector -> Val]
    /\ idequeue = <<>>
    /\ pc = [p \in Proc |-> "out"]
    /\ want = [p \in Proc |-> NoSector] /\ buf = [p \in Proc |-> NoBuf]
    /\ asleep = [p \in Proc |-> NoBuf]
    /\ panic = FALSE

Goto(p, at) == pc' = [pc EXCEPT ![p] = at]

\* wakeup(b): those who want the buffer and the one who waits for its disk
\* request sleep on the same address.
Wakeup(b) == [p \in Proc |-> IF asleep[p] = b THEN NoBuf ELSE asleep[p]]

-----------------------------------------------------------------------------
(* bio.c *)

\* A process asks for the buffer of s.
start(p, s) ==
    /\ ~panic /\ pc[p] = "out"
    /\ Goto(p, "bget") /\ want' = [want EXCEPT ![p] = s]
    /\ UNCHANGED <<list, flags, data, idequeue, disk, buf, asleep, panic>>

\* Mutant: a buffer that log_write() has marked is recycled too.
RecyclableDirty(b) == ~busy[b]

\* "recycle some non-busy and clean buffer"
Recyclable(b) == ~busy[b] /\ ~dirty[b]

\* Mutant: the holder of a buffer is not respected.
TakenNever(b) == FALSE

Taken(b) == busy[b]

Cached(p) == {b \in Buf : sector[b] = want[p]}

\* The least recently used buffer that may be recycled.
Victim == list[CHOOSE i \in DOMAIN list :
                /\ Recyclable(list[i])
                /\ \A j \in DOMAIN list : Recyclable(list[j]) => j <= i]

bget(p) ==
    /\ ~panic /\ pc[p] = "bget" /\ asleep[p] = NoBuf
    /\ \/ \E b \in Cached(p) :                       \* the sector is cached
            IF Taken(b)
            THEN /\ asleep' = [asleep EXCEPT ![p] = b]
                 /\ UNCHANGED <<pc, flags, buf, panic>>
            ELSE /\ busy' = [busy EXCEPT ![b] = TRUE]
                 /\ buf' = [buf EXCEPT ![p] = b] /\ Goto(p, "bread")
                 /\ UNCHANGED <<sector, valid, dirty, asleep, panic>>
       \/ /\ Cached(p) = {} /\ \E b \in Buf : Recyclable(b)
          /\ sector' = [sector EXCEPT ![Victim] = want[p]]
          /\ busy' = [busy EXCEPT ![Victim] = TRUE]
          /\ valid' = [valid EXCEPT ![Victim] = FALSE]
          /\ dirty' = [dirty EXCEPT ![Victim] = FALSE]
          /\ buf' = [buf EXCEPT ![p] = Victim] /\ Goto(p, "bread")
          /\ UNCHANGED <<asleep, panic>>
       \/ /\ Cached(p) = {} /\ ~\E b \in Buf : Recyclable(b)
          /\ panic' = TRUE
          /\ UNCHANGED <<flags, pc, buf, asleep>>
    /\ UNCHANGED <<list, data, idequeue, disk, want>>

\* bread() after bget().
bread(p) ==
    /\ ~panic /\ pc[p] = "bread" /\ valid[buf[p]]
    /\ Goto(p, "held")
    /\ UNCHANGED <<list, flags, data, idequeue, disk, want, buf, asleep, panic>>

\* The holder changes the block and log_write() marks the buffer.
modify(p, v) ==
    /\ ~panic /\ pc[p] = "held"
    /\ data' = [data EXCEPT ![buf[p]] = v]
    /\ dirty' = [dirty EXCEPT ![buf[p]] = TRUE]
    /\ UNCHANGED <<list, sector, busy, valid, idequeue, disk, pc, want, buf, asleep, panic>>

\* "Move to the head of the MRU list."
MoveFirst(b) ==
    [i \in Buf |-> IF i = 1 THEN b
                   ELSE IF \E j \in Buf : i <= j /\ list[j] = b THEN list[i - 1] ELSE list[i]]

\* Mutant: nobody is woken up.
ReleaseWakesNobody(b) == asleep

ReleaseWakes(b) == Wakeup(b)

brelse(p) ==
    /\ ~panic /\ pc[p] = "held"
    /\ LET b == buf[p] IN
        /\ list' = MoveFirst(b)
        /\ busy' = [busy EXCEPT ![b] = FALSE]
        /\ asleep' = ReleaseWakes(b)
    /\ Goto(p, "out")
    /\ want' = [want EXCEPT ![p] = NoSector] /\ buf' = [buf EXCEPT ![p] = NoBuf]
    /\ UNCHANGED <<sector, valid, dirty, data, idequeue, disk, panic>>

-----------------------------------------------------------------------------
(* ide.c *)

\* bwrite() marks the buffer and calls iderw().
bwrite(p) == pc[p] = "held" /\ dirty' = [dirty EXCEPT ![buf[p]] = TRUE]

\* iderw() up to its first sleep, called by bread() for a buffer that is not
\* valid or by bwrite().
iderw(p) ==
    /\ ~panic
    /\ (pc[p] = "bread" /\ ~valid[buf[p]] /\ UNCHANGED dirty) \/ bwrite(p)
    /\ idequeue' = Append(idequeue, buf[p])
    /\ asleep' = [asleep EXCEPT ![p] = buf[p]]
    /\ Goto(p, "iderw")
    /\ UNCHANGED <<list, sector, busy, valid, data, disk, want, buf, panic>>

\* The request is done: (b->flags & (B_VALID|B_DIRTY)) == B_VALID.
Synced(b) == valid[b] /\ ~dirty[b]

\* The loop of iderw() after a wakeup.
iderw_loop(p) ==
    /\ ~panic /\ pc[p] = "iderw" /\ asleep[p] = NoBuf
    /\ IF Synced(buf[p])
       THEN Goto(p, "held") /\ UNCHANGED asleep
       ELSE asleep' = [asleep EXCEPT ![p] = buf[p]] /\ UNCHANGED pc
    /\ UNCHANGED <<list, flags, data, idequeue, disk, want, buf, panic>>

\* Mutant: the rest of the queue waits for the next call of iderw().
RestLost(q) == <<>>

Rest(q) == Tail(q)

\* idestart(): the disk after the request for the buffer that it has sent.
idestart(b) == IF dirty[b] THEN [disk EXCEPT ![sector[b]] = data[b]] ELSE disk

\* idewait(1) after a read: the data is there, or the drive reports an error.
idewait(b) ==
    \/ data' = [data EXCEPT ![b] = disk[sector[b]]]
    \/ sector[b] \in Bad /\ UNCHANGED data

\* The disk has done the request at the head of the queue: the write that
\* idestart() sent, or the read whose data ideintr() fetches now.
ideintr ==
    /\ ~panic /\ idequeue # <<>>
    /\ LET b == Head(idequeue) IN
        /\ idequeue' = Rest(idequeue)
        /\ disk' = idestart(b)
        /\ IF dirty[b] THEN UNCHANGED data ELSE idewait(b)
        /\ valid' = [valid EXCEPT ![b] = TRUE]
        /\ dirty' = [dirty EXCEPT ![b] = FALSE]
        /\ asleep' = Wakeup(b)
    /\ UNCHANGED <<list, sector, busy, pc, want, buf, panic>>

-----------------------------------------------------------------------------
Next ==
    \/ ideintr
    \/ \E p \in Proc :
        \/ \E s \in Sector : start(p, s)
        \/ \E v \in Val : modify(p, v)
        \/ bget(p) \/ bread(p) \/ brelse(p) \/ iderw(p) \/ iderw_loop(p)

Spec == Init /\ [][Next]_vars

\* The disk answers, processes in a call go on, and a process that has a buffer
\* releases it in the end.
Fairness ==
    /\ WF_vars(ideintr)
    /\ \A p \in Proc : /\ SF_vars(bget(p)) /\ WF_vars(bread(p)) /\ WF_vars(iderw_loop(p))
                       /\ WF_vars(pc[p] = "bread" /\ iderw(p))
                       /\ SF_vars(brelse(p))

LiveSpec == Spec /\ Fairness

-----------------------------------------------------------------------------
(* Properties *)

Holds(p) == pc[p] \in {"bread", "iderw", "held"}

\* A sector has at most one buffer, a busy buffer one holder, and the holder has
\* the sector it asked for: what bget() keeps true when it scans the list again
\* after every sleep.  brelse() keeps every buffer in the list, once.
OneBuffer ==
    /\ list \in Bijection(Buf, Buf)
    /\ \A a, b \in Buf : sector[a] = sector[b] /\ sector[a] # NoSector => a = b
    /\ \A p \in Proc : Holds(p) => busy[buf[p]] /\ sector[buf[p]] = want[p]
    /\ \A p, q \in Proc : Holds(p) /\ Holds(q) /\ buf[p] = buf[q] => p = q

\* A buffer is on the disk queue once, and exactly while a process is in iderw()
\* waiting for it to be read or written.
QueueWaited ==
    /\ \A i, j \in DOMAIN idequeue : idequeue[i] = idequeue[j] => i = j
    /\ \A i \in DOMAIN idequeue : \E p \in Proc : pc[p] = "iderw" /\ buf[p] = idequeue[i]
    /\ \A p \in Proc : pc[p] = "iderw" /\ ~Synced(buf[p])
                            => \E i \in DOMAIN idequeue : idequeue[i] = buf[p]

\* The value of a sector: that of its buffer if it has one, or else the disk's.
Value(s) ==
    IF \E b \in Buf : sector[b] = s /\ valid[b]
    THEN data[CHOOSE b \in Buf : sector[b] = s /\ valid[b]]
    ELSE disk[s]

\* From the moment the contents are there until brelse(), writes included.
Has(p, s) == Holds(p) /\ want[p] = s /\ valid[buf[p]]

Owner(s) ==
    IF \E p \in Proc : Has(p, s) THEN CHOOSE p \in Proc : Has(p, s) ELSE NoProc

\* "Return a B_BUSY buf with the contents of the indicated disk sector"
\* (bio.c:97): for those who use it the cache is a store of blocks.  Nobody sees
\* or changes a block that another process has, and no change is lost when a
\* buffer is recycled.  ideintr() marks a buffer valid whether or not it could be
\* read, so this is promised of the sectors that can be read: a failed read
\* loses the value of its sector, and of no other.
Store == INSTANCE BlockStore WITH Sector <- Sector \ Bad,
                                  val <- [s \in Sector \ Bad |-> Value(s)],
                                  owner <- [s \in Sector \ Bad |-> Owner(s)]
IsStore == Store!Spec

\* No wakeup is lost between those who share the address of a buffer: whoever
\* sleeps on one, for the buffer in bget() or for the disk in iderw(), is woken,
\* unless the kernel stops first because bget() found no buffer to recycle.
SleepersWoken == \A p \in Proc : asleep[p] # NoBuf ~> asleep[p] = NoBuf \/ panic
=============================================================================
