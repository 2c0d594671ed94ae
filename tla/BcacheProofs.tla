---------------------------- MODULE BcacheProofs ----------------------------
(***************************************************************************)
(* The inductive invariant of the buffer cache, and what it gives for any  *)
(* number of processes, sectors and buffers.                               *)
(***************************************************************************)
EXTENDS Bcache, SequenceTheorems, WellFoundedInduction, TLAPS

Types ==
    /\ sector \in [Buf -> Sector \cup {NoSector}]
    /\ busy \in [Buf -> BOOLEAN] /\ valid \in [Buf -> BOOLEAN] /\ dirty \in [Buf -> BOOLEAN]
    /\ data \in [Buf -> Val] /\ disk \in [Sector -> Val]
    /\ idequeue \in Seq(Buf)
    /\ pc \in [Proc -> {"out", "bget", "bread", "iderw", "held"}]
    /\ want \in [Proc -> Sector \cup {NoSector}]
    /\ buf \in [Proc -> Buf \cup {NoBuf}] /\ asleep \in [Proc -> Buf \cup {NoBuf}]
    /\ panic \in BOOLEAN

\* Every buffer is in the list of bcache.head, once.
Listed ==
    /\ list \in [Buf -> Buf]
    /\ \A i, j \in Buf : list[i] = list[j] => i = j
    /\ \A b \in Buf : \E i \in Buf : list[i] = b

\* A process in a call has asked for a sector; a holder has a buffer.
Asked ==
    /\ \A p \in Proc : pc[p] # "out" => want[p] \in Sector
    /\ \A p \in Proc : Holds(p) => buf[p] \in Buf

\* One buffer for a sector and one holder for a buffer.
Single ==
    /\ \A a, b \in Buf : sector[a] = sector[b] /\ sector[a] # NoSector => a = b
    /\ \A p \in Proc : Holds(p) => busy[buf[p]] /\ sector[buf[p]] = want[p]
    /\ \A p, q \in Proc : Holds(p) /\ Holds(q) /\ buf[p] = buf[q] => p = q

\* What B_VALID and B_DIRTY say of the data.
Coherent ==
    /\ \A p \in Proc : pc[p] = "held" => valid[buf[p]]
    /\ \A b \in Buf : dirty[b] => valid[b]
    /\ \A b \in Buf : valid[b] => sector[b] \in Sector
    /\ \A b \in Buf : Synced(b) /\ sector[b] \notin Bad => data[b] = disk[sector[b]]

\* A request is on the queue while it has not been served.
Queued ==
    /\ QueueWaited
    /\ \A i \in DOMAIN idequeue : ~Synced(idequeue[i])

\* The inductive invariant.
IInv == Types /\ Listed /\ Asked /\ Single /\ Coherent /\ Queued

-----------------------------------------------------------------------------
(* bget() *)

\* A set of numbers up to n has a greatest element.
LEMMA Greatest ==
  ASSUME NEW n \in Nat, NEW I \in SUBSET (1..n), I # {}
  PROVE  \E i \in I : \A j \in I : j <= i
<1> DEFINE T == {k \in Nat : n - k \in I}
           R == OpToRel(<, Nat)
<1>1. T \subseteq Nat /\ T # {}
  <2>1. PICK i \in I : TRUE
    OBVIOUS
  <2>2. n - i \in T
    OBVIOUS
  <2>3. QED BY <2>2
<1>2. IsWellFoundedOn(R, Nat)
  BY NatLessThanWellFounded
<1> HIDE DEF R
<1>3. PICK k \in T : \A y \in T : ~(<<y, k>> \in R)
  BY ONLY <1>1, <1>2, WFMin
<1>4. ASSUME NEW j \in I PROVE j <= n - k
  <2>1. n - j \in T
    OBVIOUS
  <2>2. ~(n - j < k)
    BY <1>3, <2>1 DEF R, OpToRel
  <2>3. QED BY <2>2
<1>5. QED BY <1>4

\* bget() finds a buffer to recycle if there is one.
LEMMA VictimFound ==
  ASSUME Listed, NEW b \in Buf, Recyclable(b)
  PROVE  Victim \in Buf /\ Recyclable(Victim)
<1> DEFINE I == {i \in Buf : Recyclable(list[i])}
<1>1. DOMAIN list = Buf
  BY DEF Listed
<1>2. I \in SUBSET (1..NBUF) /\ I # {}
  BY DEF Listed, Buf
<1>3. PICK i \in I : \A j \in I : j <= i
  BY <1>2, BcacheAssumption, Greatest
<1>4. \E k \in DOMAIN list : Recyclable(list[k]) /\ \A j \in DOMAIN list : Recyclable(list[j]) => j <= k
  BY <1>1, <1>3
<1> DEFINE c == CHOOSE k \in DOMAIN list :
                    Recyclable(list[k]) /\ \A j \in DOMAIN list : Recyclable(list[j]) => j <= k
<1>5. c \in Buf /\ Recyclable(list[c])
  BY <1>1, <1>4
<1>6. Victim = list[c]
  BY DEF Victim
<1>7. QED BY <1>5, <1>6 DEF Listed

\* The outcomes of bget(): the process sleeps on the buffer of the sector, takes
\* it, takes another one in its place, or there is none.
Sleeps(p, b) ==
    /\ asleep' = [asleep EXCEPT ![p] = b]
    /\ UNCHANGED <<pc, sector, busy, valid, dirty, buf, panic>>

Takes(p, b) ==
    /\ sector[b] = want[p] /\ ~busy[b]
    /\ busy' = [busy EXCEPT ![b] = TRUE]
    /\ buf' = [buf EXCEPT ![p] = b] /\ pc' = [pc EXCEPT ![p] = "bread"]
    /\ UNCHANGED <<sector, valid, dirty, asleep, panic>>

Recycles(p, b) ==
    /\ ~busy[b] /\ ~dirty[b] /\ \A a \in Buf : sector[a] # want[p]
    /\ sector' = [sector EXCEPT ![b] = want[p]]
    /\ busy' = [busy EXCEPT ![b] = TRUE]
    /\ valid' = [valid EXCEPT ![b] = FALSE] /\ dirty' = [dirty EXCEPT ![b] = FALSE]
    /\ buf' = [buf EXCEPT ![p] = b] /\ pc' = [pc EXCEPT ![p] = "bread"]
    /\ UNCHANGED <<asleep, panic>>

GivesUp == panic' = TRUE /\ UNCHANGED <<sector, busy, valid, dirty, pc, buf, asleep>>

\* These are all that bget() may do.
LEMMA BgetCases ==
  ASSUME Types, Listed, NEW p \in Proc, bget(p)
  PROVE  /\ pc[p] = "bget" /\ UNCHANGED <<list, data, idequeue, disk, want>>
         /\ GivesUp \/ \E b \in Buf : Sleeps(p, b) \/ Takes(p, b) \/ Recycles(p, b)
<1>1. pc[p] = "bget" /\ UNCHANGED <<list, data, idequeue, disk, want>>
  BY DEF bget
<1>2. ASSUME NEW b \in Cached(p), Taken(b), asleep' = [asleep EXCEPT ![p] = b],
             UNCHANGED <<pc, flags, buf, panic>>
      PROVE  b \in Buf /\ Sleeps(p, b)
  BY <1>2 DEF Cached, Sleeps, flags
<1>3. ASSUME NEW b \in Cached(p), ~Taken(b), busy' = [busy EXCEPT ![b] = TRUE],
             buf' = [buf EXCEPT ![p] = b], Goto(p, "bread"),
             UNCHANGED <<sector, valid, dirty, asleep, panic>>
      PROVE  b \in Buf /\ Takes(p, b)
  BY <1>3 DEF Cached, Taken, Takes, Goto
<1>4. ASSUME Cached(p) = {}, NEW b \in Buf, Recyclable(b),
             sector' = [sector EXCEPT ![Victim] = want[p]],
             busy' = [busy EXCEPT ![Victim] = TRUE],
             valid' = [valid EXCEPT ![Victim] = FALSE],
             dirty' = [dirty EXCEPT ![Victim] = FALSE],
             buf' = [buf EXCEPT ![p] = Victim], Goto(p, "bread"), UNCHANGED <<asleep, panic>>
      PROVE  Victim \in Buf /\ Recycles(p, Victim)
  BY <1>4, VictimFound DEF Cached, Recyclable, Recycles, Goto
<1>5. ASSUME panic' = TRUE, UNCHANGED <<flags, pc, buf, asleep>>
      PROVE  GivesUp
  BY <1>5 DEF GivesUp, flags
<1>6. QED
  BY <1>1, <1>2, <1>3, <1>4, <1>5 DEF bget

-----------------------------------------------------------------------------
(* The invariant *)

\* The disk queue when ideintr() takes its head.
LEMMA QueueFacts ==
  ASSUME Types, idequeue # <<>>
  PROVE  /\ DOMAIN idequeue = 1..Len(idequeue) /\ Len(idequeue) \in Nat \ {0}
         /\ Head(idequeue) = idequeue[1] /\ Head(idequeue) \in Buf
         /\ Tail(idequeue) \in Seq(Buf) /\ DOMAIN Tail(idequeue) = 1..(Len(idequeue) - 1)
         /\ \A i \in 1..(Len(idequeue) - 1) : Tail(idequeue)[i] = idequeue[i + 1]
<1>1. idequeue \in Seq(Buf)
  BY DEF Types
<1>2. Len(idequeue) \in Nat /\ DOMAIN idequeue = 1..Len(idequeue) /\ Len(idequeue) # 0
  BY <1>1
<1>3. /\ Tail(idequeue) \in Seq(Buf) /\ Len(Tail(idequeue)) = Len(idequeue) - 1
      /\ Head(idequeue) \in Buf
      /\ \A i \in 1..Len(Tail(idequeue)) : Tail(idequeue)[i] = idequeue[i + 1]
  BY <1>1, HeadTailProperties
<1>4. Head(idequeue) = idequeue[1]
  BY <1>1
<1>5. DOMAIN Tail(idequeue) = 1..Len(Tail(idequeue))
  BY <1>3
<1>6. QED BY <1>2, <1>3, <1>4, <1>5

\* The process at whose request the disk works: it has the buffer, and there is
\* work to do.
LEMMA HeadWaited ==
  ASSUME IInv, idequeue # <<>>
  PROVE  /\ idequeue[1] \in Buf /\ ~Synced(idequeue[1]) /\ sector[idequeue[1]] \in Sector
         /\ \E p \in Proc : pc[p] = "iderw" /\ buf[p] = idequeue[1]
<1>1. 1 \in DOMAIN idequeue /\ idequeue[1] \in Buf
  BY QueueFacts DEF IInv
<1>2. PICK p \in Proc : pc[p] = "iderw" /\ buf[p] = idequeue[1]
  BY <1>1 DEF IInv, Queued, QueueWaited
<1>3. sector[buf[p]] = want[p] /\ want[p] \in Sector
  BY <1>2 DEF IInv, Single, Asked, Holds
<1>4. QED BY <1>1, <1>2, <1>3 DEF IInv, Queued

\* The two callers of iderw().
IderwCommon(p) ==
    /\ buf[p] \in Buf
    /\ idequeue' = Append(idequeue, buf[p])
    /\ asleep' = [asleep EXCEPT ![p] = buf[p]] /\ pc' = [pc EXCEPT ![p] = "iderw"]
    /\ UNCHANGED <<list, sector, busy, valid, data, disk, want, buf, panic>>

ForRead(p)  == pc[p] = "bread" /\ ~valid[buf[p]] /\ UNCHANGED dirty
ForWrite(p) == pc[p] = "held" /\ dirty' = [dirty EXCEPT ![buf[p]] = TRUE]

\* iderw() is called by bread() or by bwrite(), with a buffer.
LEMMA IderwCases ==
  ASSUME IInv, NEW p \in Proc, iderw(p)
  PROVE  IderwCommon(p) /\ (ForRead(p) \/ ForWrite(p))
<1>1. ForRead(p) \/ ForWrite(p)
  BY DEF iderw, bwrite, ForRead, ForWrite
<1>2. buf[p] \in Buf
  BY <1>1 DEF IInv, Asked, Holds, ForRead, ForWrite
<1>3. QED BY <1>1, <1>2 DEF iderw, Goto, IderwCommon

\* What ideintr() does for the buffer at the head of the queue.
Served(b) ==
    /\ idequeue # <<>> /\ b = idequeue[1] /\ idequeue' = Tail(idequeue)
    /\ sector[b] \in Sector /\ ~Synced(b)
    /\ valid' = [valid EXCEPT ![b] = TRUE] /\ dirty' = [dirty EXCEPT ![b] = FALSE]
    /\ asleep' = [p \in Proc |-> IF asleep[p] = b THEN NoBuf ELSE asleep[p]]
    /\ UNCHANGED <<list, sector, busy, pc, want, buf, panic>>

Writes(b) == dirty[b] /\ disk' = [disk EXCEPT ![sector[b]] = data[b]] /\ UNCHANGED data
Reads(b)  == /\ ~dirty[b] /\ UNCHANGED disk
             /\ \/ data' = [data EXCEPT ![b] = disk[sector[b]]]
                \/ sector[b] \in Bad /\ UNCHANGED data

\* ideintr() ends the write or the read at the head of the queue.
LEMMA IdeintrCases ==
  ASSUME IInv, ideintr
  PROVE  \E b \in Buf : Served(b) /\ (Writes(b) \/ Reads(b))
<1> DEFINE b == Head(idequeue)
<1>1. idequeue # <<>>
  BY DEF ideintr
<1>2. b = idequeue[1] /\ b \in Buf
  BY <1>1, QueueFacts DEF IInv
<1>3. sector[b] \in Sector /\ ~Synced(b)
  BY <1>1, <1>2, HeadWaited
<1>4. /\ idequeue' = Tail(idequeue) /\ disk' = idestart(b)
      /\ IF dirty[b] THEN UNCHANGED data ELSE idewait(b)
      /\ valid' = [valid EXCEPT ![b] = TRUE] /\ dirty' = [dirty EXCEPT ![b] = FALSE]
      /\ asleep' = Wakeup(b)
      /\ UNCHANGED <<list, sector, busy, pc, want, buf, panic>>
  BY DEF ideintr, Rest
<1> HIDE DEF b
<1>5. Served(b)
  BY <1>1, <1>2, <1>3, <1>4 DEF Served, Wakeup
<1>6. Writes(b) \/ Reads(b)
  BY <1>4 DEF Writes, Reads, idestart, idewait
<1>7. QED BY <1>2, <1>5, <1>6

\* Every step keeps the types.
LEMMA TypesStep ==
  ASSUME IInv, [Next]_vars
  PROVE  Types'
<1> USE BcacheAssumption DEF IInv, Types, NoBuf
<1>1. ASSUME NEW p \in Proc, NEW s \in Sector, start(p, s) PROVE Types'
  BY <1>1 DEF start, Goto, flags
<1>2. ASSUME NEW p \in Proc, NEW v \in Val, modify(p, v) PROVE Types'
  BY <1>2 DEF modify
<1>3. ASSUME NEW p \in Proc, bget(p) PROVE Types'
  <2>1. CASE GivesUp
    BY <1>3, <2>1, BgetCases DEF GivesUp
  <2>2. ASSUME NEW b \in Buf, Sleeps(p, b) PROVE Types'
    BY <1>3, <2>2, BgetCases DEF Sleeps
  <2>3. ASSUME NEW b \in Buf, Takes(p, b) PROVE Types'
    BY <1>3, <2>3, BgetCases DEF Takes
  <2>4. ASSUME NEW b \in Buf, Recycles(p, b) PROVE Types'
    BY <1>3, <2>4, BgetCases DEF Recycles
  <2>5. QED BY <1>3, <2>1, <2>2, <2>3, <2>4, BgetCases
<1>4. ASSUME NEW p \in Proc, bread(p) PROVE Types'
  BY <1>4 DEF bread, Goto, flags
<1>5. ASSUME NEW p \in Proc, brelse(p) PROVE Types'
  BY <1>5 DEF brelse, Goto, ReleaseWakes, Wakeup
<1>6. ASSUME NEW p \in Proc, iderw(p) PROVE Types'
  <2>1. IderwCommon(p) /\ (ForRead(p) \/ ForWrite(p))
    BY <1>6, IderwCases
  <2>2. idequeue' \in Seq(Buf)
    BY <2>1, AppendProperties DEF IderwCommon
  <2>3. dirty' \in [Buf -> BOOLEAN]
    BY <2>1 DEF IderwCommon, ForRead, ForWrite
  <2>4. QED BY <2>1, <2>2, <2>3 DEF IderwCommon
<1>7. ASSUME NEW p \in Proc, iderw_loop(p) PROVE Types'
  BY <1>7 DEF iderw_loop, Goto, flags
<1>8. ASSUME ideintr PROVE Types'
  <2>1. PICK b \in Buf : Served(b) /\ (Writes(b) \/ Reads(b))
    BY <1>8, IdeintrCases
  <2>2. idequeue' \in Seq(Buf)
    BY <2>1, QueueFacts DEF Served
  <2>3. disk' \in [Sector -> Val] /\ data' \in [Buf -> Val]
    <3>1. CASE Writes(b)
      BY <2>1, <3>1 DEF Served, Writes
    <3>2. CASE Reads(b)
      BY <2>1, <3>2 DEF Served, Reads
    <3>3. QED BY <2>1, <3>1, <3>2
  <2>4. QED BY <2>1, <2>2, <2>3 DEF Served
<1>9. CASE UNCHANGED vars
  BY <1>9 DEF vars, flags
<1>10. QED
  BY <1>1, <1>2, <1>3, <1>4, <1>5, <1>6, <1>7, <1>8, <1>9 DEF Next

\* brelse() moves a buffer within the list.
LEMMA MoveFirstListed ==
  ASSUME Listed, NEW b \in Buf, list' = MoveFirst(b)
  PROVE  Listed'
<1> USE BcacheAssumption DEF Buf
<1>1. PICK k \in Buf : list[k] = b
  BY DEF Listed
<1> DEFINE src(i) == IF i = 1 THEN k ELSE IF i <= k THEN i - 1 ELSE i
<1>2. \A i \in Buf : src(i) \in Buf
  OBVIOUS
<1>3. \A i \in Buf : list'[i] = list[src(i)]
  BY <1>1 DEF Listed, MoveFirst
<1>4. \A i, j \in Buf : src(i) = src(j) => i = j
  OBVIOUS
<1>5. \A j \in Buf : \E i \in Buf : src(i) = j
  <2> SUFFICES ASSUME NEW j \in Buf PROVE \E i \in Buf : src(i) = j
    OBVIOUS
  <2>1. CASE j = k
    <3>1. 1 \in Buf /\ src(1) = j
      BY <2>1
    <3>2. QED BY <3>1
  <2>2. CASE j < k
    <3>1. j + 1 \in Buf /\ src(j + 1) = j
      BY <2>2
    <3>2. QED BY <3>1
  <2>3. CASE k < j
    <3>1. src(j) = j
      BY <2>3
    <3>2. QED BY <3>1
  <2>4. QED BY <2>1, <2>2, <2>3
<1> HIDE DEF src, Buf
<1>6. list' \in [Buf -> Buf]
  <2>1. \A i \in Buf : list'[i] \in Buf
    BY <1>2, <1>3 DEF Listed
  <2>2. QED BY <2>1 DEF MoveFirst
<1>7. ASSUME NEW i \in Buf, NEW j \in Buf, list'[i] = list'[j] PROVE i = j
  <2>1. list[src(i)] = list[src(j)]
    BY <1>3, <1>7
  <2>2. src(i) = src(j)
    BY <1>2, <2>1 DEF Listed
  <2>3. QED BY <1>4, <2>2
<1>8. ASSUME NEW a \in Buf PROVE \E i \in Buf : list'[i] = a
  <2>1. PICK j \in Buf : list[j] = a
    BY DEF Listed
  <2>2. QED BY <1>3, <1>5, <2>1
<1>9. QED BY <1>6, <1>7, <1>8 DEF Listed

LEMMA ListedStep ==
  ASSUME IInv, [Next]_vars
  PROVE  Listed'
<1>1. ASSUME NEW p \in Proc, brelse(p) PROVE Listed'
  <2>1. buf[p] \in Buf /\ list' = MoveFirst(buf[p])
    BY <1>1 DEF brelse, IInv, Asked, Holds
  <2>2. QED BY <2>1, MoveFirstListed DEF IInv
<1>2. ASSUME NEW p \in Proc,
             \/ \E s \in Sector : start(p, s)
             \/ \E v \in Val : modify(p, v)
             \/ bget(p) \/ bread(p) \/ iderw(p) \/ iderw_loop(p)
      PROVE  UNCHANGED list
  BY <1>2 DEF start, modify, bget, bread, iderw, iderw_loop
<1>3. ideintr \/ UNCHANGED vars => UNCHANGED list
  BY DEF ideintr, vars
<1>4. UNCHANGED list => Listed'
  BY DEF IInv, Listed
<1>5. QED BY <1>1, <1>2, <1>3, <1>4 DEF Next

\* A process keeps its sector and its buffer for the whole call.
LEMMA AskedStep ==
  ASSUME IInv, [Next]_vars
  PROVE  Asked'
<1> USE BcacheAssumption DEF IInv, Types, Asked, Holds
<1>1. ASSUME NEW p \in Proc, NEW s \in Sector, start(p, s) PROVE Asked'
  BY <1>1 DEF start, Goto, flags
<1>2. ASSUME NEW p \in Proc, NEW v \in Val, modify(p, v) PROVE Asked'
  BY <1>2 DEF modify
<1>3. ASSUME NEW p \in Proc, bget(p) PROVE Asked'
  <2>1. CASE GivesUp
    BY <1>3, <2>1, BgetCases DEF GivesUp
  <2>2. ASSUME NEW b \in Buf, Sleeps(p, b) PROVE Asked'
    BY <1>3, <2>2, BgetCases DEF Sleeps
  <2>3. ASSUME NEW b \in Buf, Takes(p, b) PROVE Asked'
    BY <1>3, <2>3, BgetCases DEF Takes
  <2>4. ASSUME NEW b \in Buf, Recycles(p, b) PROVE Asked'
    BY <1>3, <2>4, BgetCases DEF Recycles
  <2>5. QED BY <1>3, <2>1, <2>2, <2>3, <2>4, BgetCases
<1>4. ASSUME NEW p \in Proc, bread(p) PROVE Asked'
  BY <1>4 DEF bread, Goto, flags
<1>5. ASSUME NEW p \in Proc, brelse(p) PROVE Asked'
  BY <1>5 DEF brelse, Goto, ReleaseWakes, Wakeup
<1>6. ASSUME NEW p \in Proc, iderw(p) PROVE Asked'
  <2>1. IderwCommon(p) /\ (ForRead(p) \/ ForWrite(p))
    BY <1>6, IderwCases
  <2>2. CASE ForRead(p)
    BY <2>1, <2>2 DEF IderwCommon, ForRead
  <2>3. CASE ForWrite(p)
    BY <2>1, <2>3 DEF IderwCommon, ForWrite
  <2>4. QED BY <2>1, <2>2, <2>3
<1>7. ASSUME NEW p \in Proc, iderw_loop(p) PROVE Asked'
  BY <1>7 DEF iderw_loop, Goto, flags
<1>8. ASSUME ideintr PROVE Asked'
  <2>1. PICK b \in Buf : Served(b) /\ (Writes(b) \/ Reads(b))
    BY <1>8, IdeintrCases
  <2>2. CASE Writes(b)
    BY <2>1, <2>2 DEF Served, Writes
  <2>3. CASE Reads(b)
    BY <2>1, <2>3 DEF Served, Reads
  <2>4. QED BY <2>1, <2>2, <2>3
<1>9. CASE UNCHANGED vars
  BY <1>9 DEF vars, flags
<1>10. QED
  BY <1>1, <1>2, <1>3, <1>4, <1>5, <1>6, <1>7, <1>8, <1>9 DEF Next

\* bget() takes a buffer that nobody holds, and gives a sector no second one.
LEMMA SingleStep ==
  ASSUME IInv, [Next]_vars
  PROVE  Single'
<1> USE BcacheAssumption DEF IInv, Types, Asked, Single, Holds
<1>1. ASSUME NEW p \in Proc, NEW s \in Sector, start(p, s) PROVE Single'
  BY <1>1 DEF start, Goto, flags
<1>2. ASSUME NEW p \in Proc, NEW v \in Val, modify(p, v) PROVE Single'
  BY <1>2 DEF modify
<1>3. ASSUME NEW p \in Proc, bget(p) PROVE Single'
  <2>1. CASE GivesUp
    BY <1>3, <2>1, BgetCases DEF GivesUp
  <2>2. ASSUME NEW b \in Buf, Sleeps(p, b) PROVE Single'
    BY <1>3, <2>2, BgetCases DEF Sleeps
  <2>3. ASSUME NEW b \in Buf, Takes(p, b) PROVE Single'
    BY <1>3, <2>3, BgetCases DEF Takes
  <2>4. ASSUME NEW b \in Buf, Recycles(p, b) PROVE Single'
    BY <1>3, <2>4, BgetCases DEF Recycles
  <2>5. QED BY <1>3, <2>1, <2>2, <2>3, <2>4, BgetCases
<1>4. ASSUME NEW p \in Proc, bread(p) PROVE Single'
  BY <1>4 DEF bread, Goto, flags
<1>5. ASSUME NEW p \in Proc, brelse(p) PROVE Single'
  BY <1>5 DEF brelse, Goto, ReleaseWakes, Wakeup
<1>6. ASSUME NEW p \in Proc, iderw(p) PROVE Single'
  <2>1. IderwCommon(p) /\ (ForRead(p) \/ ForWrite(p))
    BY <1>6, IderwCases
  <2>2. CASE ForRead(p)
    BY <2>1, <2>2 DEF IderwCommon, ForRead
  <2>3. CASE ForWrite(p)
    BY <2>1, <2>3 DEF IderwCommon, ForWrite
  <2>4. QED BY <2>1, <2>2, <2>3
<1>7. ASSUME NEW p \in Proc, iderw_loop(p) PROVE Single'
  BY <1>7 DEF iderw_loop, Goto, flags
<1>8. ASSUME ideintr PROVE Single'
  <2>1. PICK b \in Buf : Served(b) /\ (Writes(b) \/ Reads(b))
    BY <1>8, IdeintrCases
  <2>2. CASE Writes(b)
    BY <2>1, <2>2 DEF Served, Writes
  <2>3. CASE Reads(b)
    BY <2>1, <2>3 DEF Served, Reads
  <2>4. QED BY <2>1, <2>2, <2>3
<1>9. CASE UNCHANGED vars
  BY <1>9 DEF vars, flags
<1>10. QED
  BY <1>1, <1>2, <1>3, <1>4, <1>5, <1>6, <1>7, <1>8, <1>9 DEF Next

\* Only the holder of a buffer makes it differ from the disk, and then it is marked.
LEMMA CoherentStep ==
  ASSUME IInv, [Next]_vars
  PROVE  Coherent'
<1> USE BcacheAssumption DEF IInv, Types, Asked, Single, Coherent, Holds, Synced
<1>1. ASSUME NEW p \in Proc, NEW s \in Sector, start(p, s) PROVE Coherent'
  BY <1>1 DEF start, Goto, flags
<1>2. ASSUME NEW p \in Proc, NEW v \in Val, modify(p, v) PROVE Coherent'
  BY <1>2 DEF modify
<1>3. ASSUME NEW p \in Proc, bget(p) PROVE Coherent'
  <2>1. CASE GivesUp
    BY <1>3, <2>1, BgetCases DEF GivesUp
  <2>2. ASSUME NEW b \in Buf, Sleeps(p, b) PROVE Coherent'
    BY <1>3, <2>2, BgetCases DEF Sleeps
  <2>3. ASSUME NEW b \in Buf, Takes(p, b) PROVE Coherent'
    BY <1>3, <2>3, BgetCases DEF Takes
  <2>4. ASSUME NEW b \in Buf, Recycles(p, b) PROVE Coherent'
    BY <1>3, <2>4, BgetCases DEF Recycles
  <2>5. QED BY <1>3, <2>1, <2>2, <2>3, <2>4, BgetCases
<1>4. ASSUME NEW p \in Proc, bread(p) PROVE Coherent'
  BY <1>4 DEF bread, Goto, flags
<1>5. ASSUME NEW p \in Proc, brelse(p) PROVE Coherent'
  BY <1>5 DEF brelse, Goto, ReleaseWakes, Wakeup
<1>6. ASSUME NEW p \in Proc, iderw(p) PROVE Coherent'
  <2>1. IderwCommon(p) /\ (ForRead(p) \/ ForWrite(p))
    BY <1>6, IderwCases
  <2>2. CASE ForRead(p)
    BY <2>1, <2>2 DEF IderwCommon, ForRead
  <2>3. CASE ForWrite(p)
    BY <2>1, <2>3 DEF IderwCommon, ForWrite
  <2>4. QED BY <2>1, <2>2, <2>3
<1>7. ASSUME NEW p \in Proc, iderw_loop(p) PROVE Coherent'
  BY <1>7 DEF iderw_loop, Goto, flags
<1>8. ASSUME ideintr PROVE Coherent'
  <2>1. PICK b \in Buf : Served(b) /\ (Writes(b) \/ Reads(b))
    BY <1>8, IdeintrCases
  <2>2. CASE Writes(b)
    BY <2>1, <2>2 DEF Served, Writes
  <2>3. CASE Reads(b)
    BY <2>1, <2>3 DEF Served, Reads
  <2>4. QED BY <2>1, <2>2, <2>3
<1>9. CASE UNCHANGED vars
  BY <1>9 DEF vars, flags
<1>10. QED
  BY <1>1, <1>2, <1>3, <1>4, <1>5, <1>6, <1>7, <1>8, <1>9 DEF Next

\* iderw() puts a buffer on the queue that is not there, and that waits.
LEMMA QueuedIderw ==
  ASSUME IInv, NEW p \in Proc, iderw(p)
  PROVE  Queued'
<1> DEFINE n == Len(idequeue)
           c == buf[p]
<1>1. IderwCommon(p) /\ (ForRead(p) \/ ForWrite(p))
  BY IderwCases
<1>2. /\ c \in Buf /\ valid' = valid /\ buf' = buf /\ pc[p] \in {"bread", "held"}
      /\ pc' = [pc EXCEPT ![p] = "iderw"] /\ pc \in [Proc -> {"out", "bget", "bread", "iderw", "held"}]
  BY <1>1 DEF IderwCommon, ForRead, ForWrite, IInv, Types
<1>3. /\ n \in Nat /\ DOMAIN idequeue = 1..n /\ DOMAIN idequeue' = 1..(n + 1)
      /\ idequeue'[n + 1] = c /\ \A i \in 1..n : idequeue'[i] = idequeue[i] /\ idequeue[i] \in Buf
  <2>1. idequeue \in Seq(Buf) /\ idequeue' = Append(idequeue, c)
    BY <1>1 DEF IderwCommon, IInv, Types
  <2>2. /\ idequeue' \in Seq(Buf) /\ Len(idequeue') = n + 1
        /\ idequeue'[n + 1] = c /\ \A i \in 1..n : idequeue'[i] = idequeue[i]
    BY <1>2, <2>1, AppendProperties
  <2>3. QED BY <2>1, <2>2
<1>4. \A q \in Proc : q # p /\ Holds(q) => buf[q] # c /\ buf[q] \in Buf
  BY <1>2 DEF IInv, Single, Asked, Holds
<1>5. /\ ~(valid'[c] /\ ~dirty'[c])
      /\ \A x \in Buf : x # c => (valid'[x] /\ ~dirty'[x] <=> Synced(x))
  <2>1. dirty \in [Buf -> BOOLEAN]
    BY DEF IInv, Types
  <2>2. CASE ForRead(p)
    BY <1>2, <2>2 DEF ForRead, Synced
  <2>3. CASE ForWrite(p)
    BY <1>2, <2>1, <2>3 DEF ForWrite, Synced
  <2>4. QED BY <1>1, <2>2, <2>3
<1> HIDE DEF n, c
<1>6. ASSUME NEW i \in 1..n
      PROVE  /\ idequeue[i] # c /\ ~Synced(idequeue[i])
             /\ \E q \in Proc : q # p /\ pc[q] = "iderw" /\ buf[q] = idequeue[i]
  <2>1. PICK q \in Proc : pc[q] = "iderw" /\ buf[q] = idequeue[i]
    BY <1>3 DEF IInv, Queued, QueueWaited
  <2>2. q # p
    BY <1>2, <2>1
  <2>3. ~Synced(idequeue[i])
    BY <1>3 DEF IInv, Queued
  <2>4. QED BY <1>4, <2>1, <2>2, <2>3 DEF Holds
<1>7. \A i, j \in DOMAIN idequeue' : idequeue'[i] = idequeue'[j] => i = j
  <2>1. \A i, j \in 1..n : idequeue[i] = idequeue[j] => i = j
    BY <1>3 DEF IInv, Queued, QueueWaited
  <2>2. QED BY <1>3, <1>6, <2>1
<1>8. ASSUME NEW i \in DOMAIN idequeue'
      PROVE  /\ \E q \in Proc : pc'[q] = "iderw" /\ buf'[q] = idequeue'[i]
             /\ ~(valid'[idequeue'[i]] /\ ~dirty'[idequeue'[i]])
  <2>1. CASE i = n + 1
    BY <1>2, <1>3, <1>5, <2>1 DEF c
  <2>2. CASE i \in 1..n
    <3>1. PICK q \in Proc : q # p /\ pc[q] = "iderw" /\ buf[q] = idequeue[i]
      BY <1>6, <2>2
    <3>2. pc'[q] = "iderw" /\ buf'[q] = idequeue'[i]
      BY <1>2, <1>3, <2>2, <3>1
    <3>3. QED BY <1>3, <1>5, <1>6, <2>2, <3>2
  <2>3. QED BY <1>3, <2>1, <2>2
<1>9. ASSUME NEW q \in Proc, pc'[q] = "iderw", ~(valid'[buf'[q]] /\ ~dirty'[buf'[q]])
      PROVE  \E i \in DOMAIN idequeue' : idequeue'[i] = buf'[q]
  <2>1. CASE q = p
    <3>1. n + 1 \in DOMAIN idequeue'
      BY <1>3
    <3>2. QED BY <1>2, <1>3, <2>1, <3>1 DEF c
  <2>2. CASE q # p
    <3>1. pc[q] = "iderw" /\ buf'[q] = buf[q]
      BY <1>2, <1>9, <2>2
    <3>2. buf[q] # c /\ buf[q] \in Buf
      BY <1>4, <2>2, <3>1 DEF Holds
    <3>3. PICK i \in 1..n : idequeue[i] = buf[q]
      BY <1>3, <1>5, <1>9, <3>1, <3>2 DEF IInv, Queued, QueueWaited
    <3>4. i \in DOMAIN idequeue' /\ idequeue'[i] = buf'[q]
      BY <1>3, <3>1, <3>3
    <3>5. QED BY <3>4
  <2>3. QED BY <2>1, <2>2
<1>10. QED BY <1>7, <1>8, <1>9 DEF Queued, QueueWaited, Synced

\* ideintr() takes the request off the queue that it has served, and no other.
LEMMA QueuedIdeintr ==
  ASSUME IInv, ideintr
  PROVE  Queued'
<1> DEFINE n == Len(idequeue)
<1>1. PICK b \in Buf : Served(b)
  BY IdeintrCases
<1>2. /\ b = idequeue[1] /\ idequeue' = Tail(idequeue) /\ pc' = pc /\ buf' = buf
      /\ n \in Nat \ {0} /\ DOMAIN idequeue = 1..n /\ DOMAIN idequeue' = 1..(n - 1)
      /\ \A i \in 1..(n - 1) : idequeue'[i] = idequeue[i + 1]
  BY <1>1, QueueFacts DEF Served, IInv
<1>3. \A i \in 1..n : idequeue[i] \in Buf
  BY <1>2 DEF IInv, Types
<1> HIDE DEF n
<1>4. \A i \in 1..(n - 1) : i + 1 \in 1..n /\ idequeue[i + 1] # b
  <2>1. \A i \in 1..(n - 1) : i + 1 \in 1..n /\ i + 1 # 1 /\ 1 \in 1..n
    BY <1>2
  <2>2. QED BY <1>2, <2>1 DEF IInv, Queued, QueueWaited
<1>5. /\ valid'[b] /\ ~dirty'[b]
      /\ \A x \in Buf : x # b => (valid'[x] /\ ~dirty'[x] <=> Synced(x))
  BY <1>1 DEF Served, Synced, IInv, Types
<1>6. ASSUME NEW i \in DOMAIN idequeue', NEW j \in DOMAIN idequeue', idequeue'[i] = idequeue'[j]
      PROVE  i = j
  <2>1. i + 1 \in DOMAIN idequeue /\ j + 1 \in DOMAIN idequeue /\ idequeue[i + 1] = idequeue[j + 1]
    BY <1>2, <1>4, <1>6
  <2>2. i + 1 = j + 1
    BY <2>1 DEF IInv, Queued, QueueWaited
  <2>3. i \in Int /\ j \in Int
    BY <1>2
  <2>4. QED BY <2>2, <2>3
<1>7. ASSUME NEW i \in DOMAIN idequeue'
      PROVE  /\ \E q \in Proc : pc'[q] = "iderw" /\ buf'[q] = idequeue'[i]
             /\ ~(valid'[idequeue'[i]] /\ ~dirty'[idequeue'[i]])
  <2>1. i + 1 \in DOMAIN idequeue /\ idequeue'[i] = idequeue[i + 1] /\ idequeue[i + 1] # b
        /\ idequeue[i + 1] \in Buf
    BY <1>2, <1>3, <1>4
  <2>2. /\ ~Synced(idequeue[i + 1])
        /\ \E q \in Proc : pc[q] = "iderw" /\ buf[q] = idequeue[i + 1]
    BY <2>1 DEF IInv, Queued, QueueWaited
  <2>3. QED BY <1>2, <1>5, <2>1, <2>2
<1>8. ASSUME NEW q \in Proc, pc'[q] = "iderw", ~(valid'[buf'[q]] /\ ~dirty'[buf'[q]])
      PROVE  \E i \in DOMAIN idequeue' : idequeue'[i] = buf'[q]
  <2>1. pc[q] = "iderw" /\ buf'[q] = buf[q] /\ buf[q] # b
    BY <1>2, <1>5, <1>8
  <2>2. buf[q] \in Buf
    BY <2>1 DEF IInv, Asked, Holds
  <2>3. PICK i \in 1..n : idequeue[i] = buf[q]
    BY <1>2, <1>5, <1>8, <2>1, <2>2 DEF IInv, Queued, QueueWaited
  <2>4. i # 1
    BY <1>2, <2>1, <2>3
  <2>5. i - 1 \in 1..(n - 1) /\ (i - 1) + 1 = i
    BY <1>2, <2>4
  <2>6. idequeue'[i - 1] = buf'[q]
    BY <1>2, <2>1, <2>3, <2>5
  <2>7. QED BY <1>2, <2>5, <2>6
<1>9. QED BY <1>6, <1>7, <1>8 DEF Queued, QueueWaited, Synced

\* A step that leaves the queue alone, and those who wait for a request in it.
LEMMA QueuedSame ==
  ASSUME Queued, idequeue' = idequeue,
         \A q \in Proc : pc[q] = "iderw" /\ ~Synced(buf[q])
            => pc'[q] = "iderw" /\ buf'[q] = buf[q] /\ ~(valid'[buf[q]] /\ ~dirty'[buf[q]]),
         \A q \in Proc : pc'[q] = "iderw" /\ ~(valid'[buf'[q]] /\ ~dirty'[buf'[q]])
            => pc[q] = "iderw" /\ buf'[q] = buf[q] /\ ~Synced(buf[q])
  PROVE  Queued'
<1>1. ASSUME NEW i \in DOMAIN idequeue
      PROVE  /\ \E q \in Proc : pc'[q] = "iderw" /\ buf'[q] = idequeue[i]
             /\ ~(valid'[idequeue[i]] /\ ~dirty'[idequeue[i]])
  <2>1. PICK q \in Proc : pc[q] = "iderw" /\ buf[q] = idequeue[i]
    BY DEF Queued, QueueWaited
  <2>2. ~Synced(idequeue[i])
    BY DEF Queued
  <2>3. QED BY <2>1, <2>2
<1>2. \A q \in Proc : pc'[q] = "iderw" /\ ~(valid'[buf'[q]] /\ ~dirty'[buf'[q]])
        => \E i \in DOMAIN idequeue : idequeue[i] = buf'[q]
  BY DEF Queued, QueueWaited
<1>3. \A i, j \in DOMAIN idequeue : idequeue[i] = idequeue[j] => i = j
  BY DEF Queued, QueueWaited
<1>4. QED BY <1>1, <1>2, <1>3 DEF Queued, QueueWaited, Synced

\* The same for a step of a process that does not wait for the disk, when it
\* changes the flags of no buffer but its own.
LEMMA QueuedOwn ==
  ASSUME IInv, NEW p \in Proc, pc[p] # "iderw", pc'[p] # "iderw", idequeue' = idequeue,
         \A q \in Proc : q # p => pc'[q] = pc[q] /\ buf'[q] = buf[q],
         \A q \in Proc : q # p /\ Holds(q)
            => valid'[buf[q]] = valid[buf[q]] /\ dirty'[buf[q]] = dirty[buf[q]]
  PROVE  Queued'
<1>1. Queued
  BY DEF IInv
<1>2. QED BY <1>1, QueuedSame DEF Holds, Synced

\* A request is put on the queue once, and taken off when it has been served.
LEMMA QueuedStep ==
  ASSUME IInv, [Next]_vars
  PROVE  Queued'
<1>0. /\ pc \in [Proc -> {"out", "bget", "bread", "iderw", "held"}]
      /\ buf \in [Proc -> Buf \cup {NoBuf}] /\ busy \in [Buf -> BOOLEAN]
      /\ valid \in [Buf -> BOOLEAN] /\ dirty \in [Buf -> BOOLEAN] /\ Queued
  BY DEF IInv, Types
<1>1. ASSUME NEW p \in Proc, NEW s \in Sector, start(p, s) PROVE Queued'
  BY <1>0, <1>1, QueuedOwn DEF start, Goto, flags
<1>2. ASSUME NEW p \in Proc, NEW v \in Val, modify(p, v) PROVE Queued'
  <2>1. \A q \in Proc : q # p /\ Holds(q) => buf[q] # buf[p] /\ buf[q] \in Buf
    BY <1>2 DEF modify, Holds, IInv, Asked, Single
  <2>2. /\ pc[p] = "held" /\ UNCHANGED <<pc, buf, valid, idequeue>>
        /\ dirty' = [dirty EXCEPT ![buf[p]] = TRUE]
    BY <1>2 DEF modify
  <2>3. \A q \in Proc : q # p /\ Holds(q) => dirty'[buf[q]] = dirty[buf[q]]
    BY <1>0, <2>1, <2>2
  <2>4. QED BY <2>2, <2>3, QueuedOwn
<1>3. ASSUME NEW p \in Proc, bget(p) PROVE Queued'
  <2>1. pc[p] = "bget" /\ idequeue' = idequeue
    BY <1>3, BgetCases DEF IInv
  <2>2. ASSUME NEW b \in Buf, ~busy[b] PROVE \A q \in Proc : Holds(q) => buf[q] # b
    BY <2>2 DEF IInv, Single
  <2>3. ASSUME GivesUp \/ \E b \in Buf : Sleeps(p, b) PROVE Queued'
    BY <2>1, <2>3, QueuedOwn DEF GivesUp, Sleeps
  <2>4. ASSUME NEW b \in Buf, Takes(p, b) PROVE Queued'
    BY <1>0, <2>1, <2>4, QueuedOwn DEF Takes
  <2>5. ASSUME NEW b \in Buf, Recycles(p, b) PROVE Queued'
    <3>1. \A q \in Proc : Holds(q) => buf[q] # b /\ buf[q] \in Buf
      BY <2>2, <2>5 DEF Recycles, IInv, Asked
    <3>2. \A q \in Proc : Holds(q) => valid'[buf[q]] = valid[buf[q]] /\ dirty'[buf[q]] = dirty[buf[q]]
      BY <1>0, <2>5, <3>1 DEF Recycles
    <3>3. /\ pc'[p] # "iderw"
          /\ \A q \in Proc : q # p => pc'[q] = pc[q] /\ buf'[q] = buf[q]
      BY <1>0, <2>5 DEF Recycles
    <3>4. QED BY <2>1, <3>2, <3>3, QueuedOwn
  <2>6. QED BY <1>3, <2>3, <2>4, <2>5, BgetCases DEF IInv
<1>4. ASSUME NEW p \in Proc, bread(p) PROVE Queued'
  BY <1>0, <1>4, QueuedOwn DEF bread, Goto, flags
<1>5. ASSUME NEW p \in Proc, brelse(p) PROVE Queued'
  BY <1>0, <1>5, QueuedOwn DEF brelse, Goto
<1>6. ASSUME NEW p \in Proc, iderw(p) PROVE Queued'
  BY <1>6, QueuedIderw
<1>7. ASSUME NEW p \in Proc, iderw_loop(p) PROVE Queued'
  <2>1. /\ pc[p] = "iderw" /\ UNCHANGED <<valid, dirty, idequeue, buf>>
        /\ pc' = IF Synced(buf[p]) THEN [pc EXCEPT ![p] = "held"] ELSE pc
    BY <1>7 DEF iderw_loop, Goto, flags
  <2>2. QED BY <1>0, <2>1, QueuedSame DEF Synced
<1>8. ASSUME ideintr PROVE Queued'
  BY <1>8, QueuedIdeintr
<1>9. CASE UNCHANGED vars
  BY <1>0, <1>9, QueuedSame DEF vars, flags, Synced
<1>10. QED
  BY <1>1, <1>2, <1>3, <1>4, <1>5, <1>6, <1>7, <1>8, <1>9 DEF Next

\* The inductive invariant holds.
LEMMA Invariant == Spec => []IInv
<1>1. Init => IInv
  <2> SUFFICES ASSUME Init PROVE IInv
    OBVIOUS
  <2>1. idequeue \in Seq(Buf) /\ DOMAIN idequeue = {}
    BY DEF Init
  <2>2. Types
    BY <2>1, BcacheAssumption DEF Init, Types
  <2>3. Listed
    <3>1. \A b \in Buf : NBUF + 1 - b \in Buf /\ list[NBUF + 1 - b] = b /\ list[b] = NBUF + 1 - b
      BY BcacheAssumption DEF Init, Buf
    <3>2. list \in [Buf -> Buf]
      BY <3>1 DEF Init
    <3>3. QED BY <3>1, <3>2 DEF Listed, Buf
  <2>4. Asked /\ Single /\ Coherent /\ Queued
    BY <2>1 DEF Init, Asked, Single, Coherent, Queued, QueueWaited, Holds, Synced
  <2>5. QED BY <2>2, <2>3, <2>4 DEF IInv
<1>2. IInv /\ [Next]_vars => IInv'
  BY TypesStep, ListedStep, AskedStep, SingleStep, CoherentStep, QueuedStep DEF IInv
<1>3. QED BY <1>1, <1>2, PTL DEF Spec

\* A sector has one buffer and a buffer one holder, with any number of processes
\* that scan the list, sleep and scan it again; brelse() loses no buffer.
THEOREM SectorsHaveOneBuffer == Spec => []OneBuffer
<1>1. IInv => OneBuffer
  <2> SUFFICES ASSUME IInv PROVE OneBuffer
    OBVIOUS
  <2>1. list \in Bijection(Buf, Buf)
    BY DEF IInv, Listed, Bijection, Injection, Surjection, IsInjective
  <2>2. QED BY <2>1 DEF IInv, Single, OneBuffer
<1>2. QED BY <1>1, Invariant, PTL

\* The disk queue holds the buffers that processes wait for in iderw(), once each.
THEOREM RequestsAreWaitedFor == Spec => []QueueWaited
<1>1. IInv => QueueWaited
  BY DEF IInv, Queued
<1>2. QED BY <1>1, Invariant, PTL
=============================================================================
