----------------------------- MODULE PipeProofs -----------------------------
(***************************************************************************)
(* The pipe keeps its promises for any number of processes, any size and   *)
(* any wrap of the counters that is a multiple of the size.                *)
(***************************************************************************)
EXTENDS Pipe, SequenceTheorems, TLAPS

Reading == {"read", "readsleep", "copy"}
Writing == {"write", "writesleep"}
PC == {"user", "closer", "closew", "kfree", "readasleep", "writeasleep"} \cup Reading \cup Writing

Types ==
    /\ data \in [0..(PIPESIZE - 1) -> Byte]
    /\ nread \in 0..(WRAP - 1) /\ nwrite \in 0..(WRAP - 1)
    /\ readopen \in BOOLEAN /\ writeopen \in BOOLEAN /\ freed \in BOOLEAN
    /\ lock \in Proc \cup {Free}
    /\ onread \subseteq Proc /\ onwrite \subseteq Proc /\ rfd \subseteq Proc /\ wfd \subseteq Proc
    /\ pc \in [Proc -> PC] /\ left \in [Proc -> Nat]
    /\ moved \in [Proc -> BOOLEAN] /\ killed \in [Proc -> BOOLEAN]

\* Who holds p->lock, and who may be in a call: a holder of the file.
Access ==
    /\ \A p \in Proc : lock = p <=> pc[p] \in Reading \cup Writing
    /\ \A p \in Proc : pc[p] \in Reading \cup {"readasleep"} => p \in rfd
    /\ \A p \in Proc : pc[p] \in Writing \cup {"writeasleep"} => p \in wfd
    /\ \A p \in onread : pc[p] = "readasleep"
    /\ \A p \in onwrite : pc[p] = "writeasleep"

\* An end is open until the process that gave up its last reference has closed it,
\* and the process that closes the second end frees the pipe.
Ends ==
    /\ rfd # {} => readopen
    /\ wfd # {} => writeopen
    /\ \A p \in Proc : pc[p] = "closer" => readopen /\ rfd = {}
    /\ \A p \in Proc : pc[p] = "closew" => writeopen /\ wfd = {}
    /\ \A p \in Proc : pc[p] = "kfree" => ~readopen /\ ~writeopen /\ ~freed
    /\ \A p, q \in Proc : pc[p] = pc[q] /\ pc[p] \in {"closer", "closew", "kfree"} => p = q
    /\ freed => ~readopen /\ ~writeopen

\* What a sleeper waits for is still to come, or the process inside is about to
\* wake it up.
Waits ==
    /\ \A p \in Proc : pc[p] = "readsleep" => MustWait
    /\ \A p \in Proc : pc[p] = "writesleep" => Full /\ readopen
    /\ \A p \in Proc : pc[p] = "copy" /\ ~moved[p] => ~MustWait
    /\ (\A p \in Proc : ~killed[p]) =>
           /\ onread # {} => writeopen /\ (Empty \/ \E p \in Proc : pc[p] \in Writing)
           /\ onwrite # {} => readopen /\ (Full \/ \E p \in Proc : pc[p] = "copy")

Fits == Count <= PIPESIZE

\* The inductive invariant.
IInv == Types /\ Access /\ Ends /\ Waits /\ Fits

USE DEF PC, Reading, Writing

-----------------------------------------------------------------------------
(* Counters that wrap *)

\* Division with remainder.
LEMMA Division ==
  ASSUME NEW a \in Int, NEW n \in Nat \ {0}
  PROVE  a % n \in 0..(n - 1) /\ a \div n \in Int /\ a = n * (a \div n) + (a % n)
OBVIOUS

\* The same, with the quotient left open.
LEMMA Quotient ==
  ASSUME NEW a \in Int, NEW n \in Nat \ {0}
  PROVE  a % n \in 0..(n - 1) /\ \E q \in Int : a = n * q + (a % n)
BY Division

\* A multiple of n that is smaller than n is 0.
LEMMA SmallMultiple ==
  ASSUME NEW q \in Int, NEW n \in Nat \ {0}, NEW r \in Int, -n < r, r < n, n * q = r
  PROVE  q = 0
<1>1. CASE q >= 1
  <2>1. n * q >= n
    BY <1>1
  <2>2. QED BY <2>1
<1>2. CASE q <= -1
  <2>1. n * q <= -n
    BY <1>2
  <2>2. QED BY <2>1
<1>3. QED BY <1>1, <1>2

\* The remainder is unique.
LEMMA Remainder ==
  ASSUME NEW q \in Int, NEW n \in Nat \ {0}, NEW r \in 0..(n - 1)
  PROVE  (n * q + r) % n = r
<1> DEFINE a == n * q + r
           m == a % n
           d == a \div n
<1>1. a \in Int
  OBVIOUS
<1>2. m \in 0..(n - 1) /\ d \in Int /\ a = n * d + m
  BY <1>1, Division
<1> HIDE DEF m, d
<1>3. n * (q - d) = m - r
  BY <1>2
<1>4. q - d = 0
  BY <1>2, <1>3, SmallMultiple
<1>5. q = d
  BY <1>2, <1>4
<1>6. QED
  BY <1>2, <1>5 DEF m

\* A counter that wraps is still at the same slot of the ring, as the size of the
\* ring divides the wrap.
LEMMA WrapKeepsSlot ==
  ASSUME NEW a \in Int, NEW d \in Int
  PROVE  (a - WRAP * d) % PIPESIZE = a % PIPESIZE
<1> USE PipeAssumption
<1>1. PICK k \in Int : WRAP = PIPESIZE * k
  <2>1. WRAP \div PIPESIZE \in Int /\ WRAP = PIPESIZE * (WRAP \div PIPESIZE) + 0
    BY Division
  <2>2. QED BY <2>1
<1>2. PICK q \in Int, r \in 0..(PIPESIZE - 1) : a = PIPESIZE * q + r /\ r = a % PIPESIZE
  BY Division
<1>3. a - WRAP * d = PIPESIZE * (q - k * d) + r /\ q - k * d \in Int
  <2>1. WRAP * d = PIPESIZE * (k * d) /\ k * d \in Int
    BY <1>1
  <2>2. PIPESIZE * (q - k * d) = PIPESIZE * q - PIPESIZE * (k * d)
    BY <2>1
  <2>3. QED BY <1>2, <2>1, <2>2
<1>4. QED BY <1>2, <1>3, Remainder

\* What the arithmetic needs to know of the constants.
LEMMA Sizes == /\ WRAP \in Nat \ {0} /\ PIPESIZE \in Nat \ {0} /\ PIPESIZE < WRAP
BY PipeAssumption

\* Full, Empty and the slot of the next byte in terms of the number of bytes.
LEMMA CountFacts ==
  ASSUME Types
  PROVE  /\ Count \in 0..(WRAP - 1)
         /\ Full <=> Count = PIPESIZE
         /\ Empty <=> Count = 0
         /\ nwrite % PIPESIZE = (nread + Count) % PIPESIZE
<1> USE Sizes
<1>1. /\ nread \in Int /\ nwrite \in Int /\ nwrite - nread \in Int
      /\ nread \in 0..(WRAP - 1) /\ nwrite \in 0..(WRAP - 1)
  BY DEF Types
<1>2. Count \in 0..(WRAP - 1) /\ \E q \in Int : nwrite - nread = WRAP * q + Count
  BY <1>1, Quotient DEF Count
<1>d. PICK d \in Int : nwrite - nread = WRAP * d + Count
  BY <1>2
<1>3. ASSUME Full PROVE Count = PIPESIZE
  <2>1. PICK e \in Int : nread + PIPESIZE = WRAP * e + nwrite
    <3>1. nread + PIPESIZE \in Int /\ (nread + PIPESIZE) % WRAP = nwrite
      BY <1>1, <1>3 DEF Full
    <3>2. QED BY <3>1, Quotient
  <2>2. nwrite - nread = WRAP * (-e) + PIPESIZE /\ -e \in Int
    BY <1>1, <2>1
  <2>3. QED
    BY <2>2, Remainder DEF Count
<1>4. ASSUME Count = PIPESIZE PROVE Full
  <2>1. nread + PIPESIZE = WRAP * (-d) + nwrite /\ -d \in Int
    BY <1>1, <1>2, <1>d, <1>4
  <2>2. QED
    BY <1>1, <2>1, Remainder DEF Full
<1>5. ASSUME Empty PROVE Count = 0
  <2>1. nwrite - nread = WRAP * 0 + 0
    BY <1>1, <1>5 DEF Empty
  <2>2. QED
    BY <2>1, Remainder DEF Count
<1>6. ASSUME Count = 0 PROVE Empty
  <2>1. WRAP * d = nwrite - nread
    BY <1>1, <1>2, <1>d, <1>6
  <2>2. d = 0
    BY <1>1, <1>2, <2>1, SmallMultiple
  <2>3. QED
    BY <1>1, <2>1, <2>2 DEF Empty
<1>7. nwrite % PIPESIZE = (nread + Count) % PIPESIZE
  <2>1. nread + Count = nwrite - WRAP * d
    BY <1>1, <1>2, <1>d
  <2>2. QED
    BY <1>1, <1>2, <2>1, WrapKeepsSlot
<1>8. QED BY <1>2, <1>3, <1>4, <1>5, <1>6, <1>7

\* p->nwrite++ adds one to the count, p->nread++ takes one away, and the slots of
\* the other bytes stay.
LEMMA IncFacts ==
  ASSUME Types
  PROVE  /\ Inc(nread) \in 0..(WRAP - 1) /\ Inc(nwrite) \in 0..(WRAP - 1)
         /\ Count < PIPESIZE => (Inc(nwrite) - nread) % WRAP = Count + 1
         /\ Count > 0 => (nwrite - Inc(nread)) % WRAP = Count - 1
         /\ \A i \in Int : (Inc(nread) + i) % PIPESIZE = (nread + 1 + i) % PIPESIZE
<1> USE Sizes
<1>1. nread \in Int /\ nwrite \in Int /\ nwrite - nread \in Int
  BY DEF Types
<1>2. PICK d \in Int : nwrite - nread = WRAP * d + Count
  BY <1>1, Quotient DEF Count
<1>3. /\ Inc(nwrite) \in 0..(WRAP - 1) /\ Inc(nread) \in 0..(WRAP - 1)
      /\ \E e \in Int : nwrite + 1 = WRAP * e + Inc(nwrite)
      /\ \E f \in Int : nread + 1 = WRAP * f + Inc(nread)
  <2>1. ASSUME NEW n \in Int
        PROVE  Inc(n) \in 0..(WRAP - 1) /\ \E e \in Int : n + 1 = WRAP * e + Inc(n)
    <3>1. n + 1 \in Int
      OBVIOUS
    <3>2. QED BY <3>1, Quotient DEF Inc
  <2>2. QED BY <1>1, <2>1
<1>4. Count \in 0..(WRAP - 1)
  BY CountFacts
<1>5. ASSUME Count < PIPESIZE PROVE (Inc(nwrite) - nread) % WRAP = Count + 1
  <2>1. PICK e \in Int : nwrite + 1 = WRAP * e + Inc(nwrite)
    BY <1>3
  <2>2. Inc(nwrite) - nread = WRAP * (d - e) + (Count + 1)
    <3>1. WRAP * (d - e) = WRAP * d - WRAP * e
      OBVIOUS
    <3>2. QED BY <1>1, <1>2, <1>3, <1>4, <2>1, <3>1
  <2>3. Count + 1 \in 0..(WRAP - 1) /\ d - e \in Int
    BY <1>4, <1>5
  <2>4. QED
    BY ONLY <2>2, <2>3, Sizes, Remainder
<1>6. ASSUME Count > 0 PROVE (nwrite - Inc(nread)) % WRAP = Count - 1
  <2>1. PICK f \in Int : nread + 1 = WRAP * f + Inc(nread)
    BY <1>3
  <2>2. nwrite - Inc(nread) = WRAP * (d + f) + (Count - 1)
    <3>1. WRAP * (d + f) = WRAP * d + WRAP * f
      OBVIOUS
    <3>2. QED BY <1>1, <1>2, <1>3, <1>4, <2>1, <3>1
  <2>3. Count - 1 \in 0..(WRAP - 1) /\ d + f \in Int
    BY <1>4, <1>6
  <2>4. QED
    BY ONLY <2>2, <2>3, Sizes, Remainder
<1>7. ASSUME NEW i \in Int PROVE (Inc(nread) + i) % PIPESIZE = (nread + 1 + i) % PIPESIZE
  <2>1. PICK f \in Int : nread + 1 = WRAP * f + Inc(nread)
    BY <1>3
  <2>2. Inc(nread) + i = (nread + 1 + i) - WRAP * f /\ nread + 1 + i \in Int
    <3> DEFINE w == WRAP * f
    <3>1. w \in Int /\ Inc(nread) \in Int /\ nread + 1 = w + Inc(nread)
      BY <1>3, <2>1
    <3> HIDE DEF w
    <3>2. Inc(nread) + i = (nread + 1 + i) - w
      BY <1>1, <3>1
    <3>3. QED BY <1>1, <3>2 DEF w
  <2>3. QED
    BY <2>2, WrapKeepsSlot
<1>8. QED BY <1>3, <1>5, <1>6, <1>7

\* A ring that is not full has no byte in the slot of the next one.
LEMMA SlotIsFree ==
  ASSUME Types, Count < PIPESIZE, NEW i \in 1..Count
  PROVE  (nread + i - 1) % PIPESIZE # nwrite % PIPESIZE
<1> USE Sizes
<1> SUFFICES ASSUME (nread + i - 1) % PIPESIZE = nwrite % PIPESIZE PROVE FALSE
  OBVIOUS
<1>1. nread \in Int /\ Count \in Nat /\ nread + i - 1 \in Int /\ nread + Count \in Int
  BY CountFacts DEF Types
<1> DEFINE m == nwrite % PIPESIZE
<1>4. (nread + Count) % PIPESIZE = m /\ (nread + i - 1) % PIPESIZE = m
  BY CountFacts
<1> HIDE DEF m
<1>2. PICK x \in Int : nread + i - 1 = PIPESIZE * x + m
  BY <1>1, <1>4, Quotient
<1>3. PICK y \in Int : nread + Count = PIPESIZE * y + m
  BY <1>1, <1>4, Quotient
<1>m. m \in Int
  BY <1>1, <1>4, Quotient
<1>5. PIPESIZE * (y - x) = Count - i + 1 /\ y - x \in Int
  BY <1>1, <1>2, <1>3, <1>m
<1>6. y - x = 0
  BY <1>1, <1>5, SmallMultiple
<1>7. Count - i + 1 = 0
  BY <1>5, <1>6
<1>8. QED BY <1>1, <1>7

-----------------------------------------------------------------------------
(* The invariant *)

\* The two ways out of a full pipe.
LEMMA FullCases ==
  ASSUME NEW p \in Proc, write_full(p)
  PROVE  /\ pc[p] = "write" /\ lock = p /\ Full
         /\ UNCHANGED <<data, nread, nwrite, readopen, writeopen, freed, onread, onwrite, rfd, wfd,
                        killed>>
         /\ \/ (~readopen \/ killed[p]) /\ Return(p)
            \/ ~(~readopen \/ killed[p]) /\ Goto(p, "writesleep") /\ UNCHANGED <<lock, left, moved>>
BY DEF write_full, pipe

\* The two ways out of an empty one.
LEMMA EmptyCases ==
  ASSUME NEW p \in Proc, read_empty(p)
  PROVE  /\ pc[p] = "read" /\ lock = p /\ MustWait
         /\ UNCHANGED <<data, nread, nwrite, readopen, writeopen, freed, onread, onwrite, rfd, wfd,
                        killed>>
         /\ \/ (killed[p]) /\ Return(p)
            \/ ~(killed[p]) /\ Goto(p, "readsleep") /\ UNCHANGED <<lock, left, moved>>
BY DEF read_empty, pipe

\* Every step keeps the types.
LEMMA TypesStep ==
  ASSUME Types, [Next]_vars
  PROVE  Types'
<1> USE PipeAssumption DEF Types
<1>1. ASSUME NEW p \in Proc, fileclose(p) PROVE Types'
  BY <1>1 DEF fileclose, Goto, pipe, calls
<1>2. ASSUME NEW p \in Proc, pipeclose(p) PROVE Types'
  BY <1>2 DEF pipeclose, Goto, LastEnd, CloseWakesReaders, pipe, calls
<1>3. ASSUME NEW p \in Proc, pipefree(p) PROVE Types'
  BY <1>3 DEF pipefree, Goto, pipe, calls
<1>4. ASSUME NEW p \in Proc, NEW q \in Proc, filedup(p, q) PROVE Types'
  BY <1>4 DEF filedup, pipe, calls
<1>5. ASSUME NEW p \in Proc, write_start(p) PROVE Types'
  BY <1>5 DEF write_start, Goto, pipe, calls
<1>6. ASSUME NEW p \in Proc, write_full(p) PROVE Types'
  <2>1. CASE (~readopen \/ killed[p]) /\ Return(p)
    BY <1>6, <2>1, FullCases DEF Return, Goto
  <2>2. CASE ~(~readopen \/ killed[p]) /\ Goto(p, "writesleep") /\ UNCHANGED <<lock, left, moved>>
    BY <1>6, <2>2, FullCases DEF Goto
  <2>3. QED BY <1>6, <2>1, <2>2, FullCases
<1>7. ASSUME NEW p \in Proc, write_sleep(p) PROVE Types'
  BY <1>7 DEF write_sleep, Goto, FullWakesReaders, pipe, calls
<1>8. ASSUME NEW p \in Proc, write_done(p) PROVE Types'
  BY <1>8 DEF write_done, Goto, Return, pipe, calls
<1>9. ASSUME NEW p \in Proc, NEW b \in Byte, write_byte(p, b) PROVE Types'
  <2>1. Inc(nwrite) \in 0..(WRAP - 1)
    BY IncFacts
  <2>2. data' \in [0..(PIPESIZE - 1) -> Byte]
    BY <1>9 DEF write_byte
  <2>3. QED BY <1>9, <2>1, <2>2 DEF write_byte
<1>10. ASSUME NEW p \in Proc, read_start(p) PROVE Types'
  BY <1>10 DEF read_start, Goto, pipe, calls
<1>11. ASSUME NEW p \in Proc, read_empty(p) PROVE Types'
  <2>1. CASE (killed[p]) /\ Return(p)
    BY <1>11, <2>1, EmptyCases DEF Return, Goto
  <2>2. CASE ~(killed[p]) /\ Goto(p, "readsleep") /\ UNCHANGED <<lock, left, moved>>
    BY <1>11, <2>2, EmptyCases DEF Goto
  <2>3. QED BY <1>11, <2>1, <2>2, EmptyCases
<1>12. ASSUME NEW p \in Proc, read_sleep(p) PROVE Types'
  BY <1>12 DEF read_sleep, Goto, pipe, calls
<1>13. ASSUME NEW p \in Proc, read_some(p) PROVE Types'
  BY <1>13 DEF read_some, Goto, pipe, calls
<1>14. ASSUME NEW p \in Proc, read_byte(p) PROVE Types'
  <2>1. Inc(nread) \in 0..(WRAP - 1)
    BY IncFacts
  <2>2. QED BY <1>14, <2>1 DEF read_byte
<1>15. ASSUME NEW p \in Proc, read_done(p) PROVE Types'
  BY <1>15 DEF read_done, Goto, Return, pipe, calls
<1>16. ASSUME NEW p \in Proc, resume(p) PROVE Types'
  BY <1>16 DEF resume, Goto, Retry, pipe, calls
<1>17. ASSUME NEW p \in Proc, kill(p) PROVE Types'
  BY <1>17 DEF kill, pipe, calls
<1>18. CASE UNCHANGED vars
  BY <1>18 DEF vars, pipe, calls
<1>19. QED
  BY <1>1, <1>2, <1>3, <1>4, <1>5, <1>6, <1>7, <1>8, <1>9, <1>10, <1>11, <1>12, <1>13, <1>14, <1>15, <1>16, <1>17, <1>18 DEF Next

\* A process takes p->lock when it is free, and closes no file it is using.
LEMMA AccessStep ==
  ASSUME Types, Access, [Next]_vars
  PROVE  Access'
<1> USE PipeAssumption DEF Types, Access
<1>1. ASSUME NEW p \in Proc, fileclose(p) PROVE Access'
  BY <1>1 DEF fileclose, Goto, pipe, calls
<1>2. ASSUME NEW p \in Proc, pipeclose(p) PROVE Access'
  BY <1>2 DEF pipeclose, Goto, LastEnd, CloseWakesReaders, pipe, calls
<1>3. ASSUME NEW p \in Proc, pipefree(p) PROVE Access'
  BY <1>3 DEF pipefree, Goto, pipe, calls
<1>4. ASSUME NEW p \in Proc, NEW q \in Proc, filedup(p, q) PROVE Access'
  BY <1>4 DEF filedup, pipe, calls
<1>5. ASSUME NEW p \in Proc, write_start(p) PROVE Access'
  BY <1>5 DEF write_start, Goto, pipe, calls
<1>6. ASSUME NEW p \in Proc, write_full(p) PROVE Access'
  <2>1. CASE (~readopen \/ killed[p]) /\ Return(p)
    BY <1>6, <2>1, FullCases DEF Return, Goto
  <2>2. CASE ~(~readopen \/ killed[p]) /\ Goto(p, "writesleep") /\ UNCHANGED <<lock, left, moved>>
    BY <1>6, <2>2, FullCases DEF Goto
  <2>3. QED BY <1>6, <2>1, <2>2, FullCases
<1>7. ASSUME NEW p \in Proc, write_sleep(p) PROVE Access'
  BY <1>7 DEF write_sleep, Goto, FullWakesReaders, pipe, calls
<1>8. ASSUME NEW p \in Proc, write_done(p) PROVE Access'
  BY <1>8 DEF write_done, Goto, Return, pipe, calls
<1>9. ASSUME NEW p \in Proc, NEW b \in Byte, write_byte(p, b) PROVE Access'
  BY <1>9 DEF write_byte, pipe, calls
<1>10. ASSUME NEW p \in Proc, read_start(p) PROVE Access'
  BY <1>10 DEF read_start, Goto, pipe, calls
<1>11. ASSUME NEW p \in Proc, read_empty(p) PROVE Access'
  <2>1. CASE (killed[p]) /\ Return(p)
    BY <1>11, <2>1, EmptyCases DEF Return, Goto
  <2>2. CASE ~(killed[p]) /\ Goto(p, "readsleep") /\ UNCHANGED <<lock, left, moved>>
    BY <1>11, <2>2, EmptyCases DEF Goto
  <2>3. QED BY <1>11, <2>1, <2>2, EmptyCases
<1>12. ASSUME NEW p \in Proc, read_sleep(p) PROVE Access'
  BY <1>12 DEF read_sleep, Goto, pipe, calls
<1>13. ASSUME NEW p \in Proc, read_some(p) PROVE Access'
  BY <1>13 DEF read_some, Goto, pipe, calls
<1>14. ASSUME NEW p \in Proc, read_byte(p) PROVE Access'
  BY <1>14 DEF read_byte, pipe, calls
<1>15. ASSUME NEW p \in Proc, read_done(p) PROVE Access'
  BY <1>15 DEF read_done, Goto, Return, pipe, calls
<1>16. ASSUME NEW p \in Proc, resume(p) PROVE Access'
  BY <1>16 DEF resume, Goto, Retry, pipe, calls
<1>17. ASSUME NEW p \in Proc, kill(p) PROVE Access'
  BY <1>17 DEF kill, pipe, calls
<1>18. CASE UNCHANGED vars
  BY <1>18 DEF vars, pipe, calls
<1>19. QED
  BY <1>1, <1>2, <1>3, <1>4, <1>5, <1>6, <1>7, <1>8, <1>9, <1>10, <1>11, <1>12, <1>13, <1>14, <1>15, <1>16, <1>17, <1>18 DEF Next

\* The last reference is given up once, and the second end is closed once.
LEMMA EndsStep ==
  ASSUME Types, Access, Ends, [Next]_vars
  PROVE  Ends'
<1> USE PipeAssumption DEF Types, Ends
<1>1. ASSUME NEW p \in Proc, fileclose(p) PROVE Ends'
  BY <1>1 DEF fileclose, Goto, pipe, calls
<1>2. ASSUME NEW p \in Proc, pipeclose(p) PROVE Ends'
  BY <1>2 DEF pipeclose, Goto, LastEnd, CloseWakesReaders, pipe, calls
<1>3. ASSUME NEW p \in Proc, pipefree(p) PROVE Ends'
  BY <1>3 DEF pipefree, Goto, pipe, calls
<1>4. ASSUME NEW p \in Proc, NEW q \in Proc, filedup(p, q) PROVE Ends'
  BY <1>4 DEF filedup, pipe, calls
<1>5. ASSUME NEW p \in Proc, write_start(p) PROVE Ends'
  BY <1>5 DEF write_start, Goto, pipe, calls
<1>6. ASSUME NEW p \in Proc, write_full(p) PROVE Ends'
  <2>1. CASE (~readopen \/ killed[p]) /\ Return(p)
    BY <1>6, <2>1, FullCases DEF Return, Goto
  <2>2. CASE ~(~readopen \/ killed[p]) /\ Goto(p, "writesleep") /\ UNCHANGED <<lock, left, moved>>
    BY <1>6, <2>2, FullCases DEF Goto
  <2>3. QED BY <1>6, <2>1, <2>2, FullCases
<1>7. ASSUME NEW p \in Proc, write_sleep(p) PROVE Ends'
  BY <1>7 DEF write_sleep, Goto, FullWakesReaders, pipe, calls
<1>8. ASSUME NEW p \in Proc, write_done(p) PROVE Ends'
  BY <1>8 DEF write_done, Goto, Return, pipe, calls
<1>9. ASSUME NEW p \in Proc, NEW b \in Byte, write_byte(p, b) PROVE Ends'
  BY <1>9 DEF write_byte, pipe, calls
<1>10. ASSUME NEW p \in Proc, read_start(p) PROVE Ends'
  BY <1>10 DEF read_start, Goto, pipe, calls
<1>11. ASSUME NEW p \in Proc, read_empty(p) PROVE Ends'
  <2>1. CASE (killed[p]) /\ Return(p)
    BY <1>11, <2>1, EmptyCases DEF Return, Goto
  <2>2. CASE ~(killed[p]) /\ Goto(p, "readsleep") /\ UNCHANGED <<lock, left, moved>>
    BY <1>11, <2>2, EmptyCases DEF Goto
  <2>3. QED BY <1>11, <2>1, <2>2, EmptyCases
<1>12. ASSUME NEW p \in Proc, read_sleep(p) PROVE Ends'
  BY <1>12 DEF read_sleep, Goto, pipe, calls
<1>13. ASSUME NEW p \in Proc, read_some(p) PROVE Ends'
  BY <1>13 DEF read_some, Goto, pipe, calls
<1>14. ASSUME NEW p \in Proc, read_byte(p) PROVE Ends'
  BY <1>14 DEF read_byte, pipe, calls
<1>15. ASSUME NEW p \in Proc, read_done(p) PROVE Ends'
  BY <1>15 DEF read_done, Goto, Return, pipe, calls
<1>16. ASSUME NEW p \in Proc, resume(p) PROVE Ends'
  BY <1>16 DEF resume, Goto, Retry, pipe, calls
<1>17. ASSUME NEW p \in Proc, kill(p) PROVE Ends'
  BY <1>17 DEF kill, pipe, calls
<1>18. CASE UNCHANGED vars
  BY <1>18 DEF vars, pipe, calls
<1>19. QED
  BY <1>1, <1>2, <1>3, <1>4, <1>5, <1>6, <1>7, <1>8, <1>9, <1>10, <1>11, <1>12, <1>13, <1>14, <1>15, <1>16, <1>17, <1>18 DEF Next

\* Who changes what a sleeper waits for wakes it up before it releases p->lock.
LEMMA WaitsStep ==
  ASSUME Types, Access, Ends, Waits, [Next]_vars
  PROVE  Waits'
<1> USE PipeAssumption DEF Types, Access, Ends, Waits, MustWait, Empty, Full
<1>1. ASSUME NEW p \in Proc, fileclose(p) PROVE Waits'
  BY <1>1 DEF fileclose, Goto, pipe, calls
<1>2. ASSUME NEW p \in Proc, pipeclose(p) PROVE Waits'
  BY <1>2 DEF pipeclose, Goto, LastEnd, CloseWakesReaders, pipe, calls
<1>3. ASSUME NEW p \in Proc, pipefree(p) PROVE Waits'
  BY <1>3 DEF pipefree, Goto, pipe, calls
<1>4. ASSUME NEW p \in Proc, NEW q \in Proc, filedup(p, q) PROVE Waits'
  BY <1>4 DEF filedup, pipe, calls
<1>5. ASSUME NEW p \in Proc, write_start(p) PROVE Waits'
  BY <1>5 DEF write_start, Goto, pipe, calls
<1>6. ASSUME NEW p \in Proc, write_full(p) PROVE Waits'
  <2>1. /\ pc[p] = "write" /\ lock = p /\ Full
        /\ UNCHANGED <<nread, nwrite, readopen, writeopen, onread, onwrite, killed>>
    BY <1>6, FullCases
  <2>2. CASE (~readopen \/ killed[p]) /\ Return(p)
    <3>1. pc' = [pc EXCEPT ![p] = "user"] /\ moved' = [moved EXCEPT ![p] = FALSE]
      BY <2>2 DEF Return, Goto
    <3>2. (\A q \in Proc : ~killed[q]) => onread = {} /\ onwrite = {}
      BY <2>2
    <3>3. QED BY <2>1, <3>1, <3>2
  <2>3. CASE ~(~readopen \/ killed[p]) /\ Goto(p, "writesleep") /\ UNCHANGED <<lock, left, moved>>
    <3>1. pc' = [pc EXCEPT ![p] = "writesleep"] /\ moved' = moved /\ readopen
      BY <2>3 DEF Goto
    <3>2. QED BY <2>1, <3>1
  <2>4. QED BY <1>6, <2>2, <2>3, FullCases
<1>7. ASSUME NEW p \in Proc, write_sleep(p) PROVE Waits'
  BY <1>7 DEF write_sleep, Goto, FullWakesReaders, pipe, calls
<1>8. ASSUME NEW p \in Proc, write_done(p) PROVE Waits'
  BY <1>8 DEF write_done, Goto, Return, pipe, calls
<1>9. ASSUME NEW p \in Proc, NEW b \in Byte, write_byte(p, b) PROVE Waits'
  BY <1>9 DEF write_byte, pipe, calls
<1>10. ASSUME NEW p \in Proc, read_start(p) PROVE Waits'
  BY <1>10 DEF read_start, Goto, pipe, calls
<1>11. ASSUME NEW p \in Proc, read_empty(p) PROVE Waits'
  <2>1. /\ pc[p] = "read" /\ lock = p /\ MustWait
        /\ UNCHANGED <<nread, nwrite, readopen, writeopen, onread, onwrite, killed>>
    BY <1>11, EmptyCases
  <2>2. CASE killed[p] /\ Return(p)
    <3>1. pc' = [pc EXCEPT ![p] = "user"] /\ moved' = [moved EXCEPT ![p] = FALSE] /\ killed[p]
      BY <2>2 DEF Return, Goto
    <3>2. QED BY <2>1, <3>1
  <2>3. CASE ~killed[p] /\ Goto(p, "readsleep") /\ UNCHANGED <<lock, left, moved>>
    <3>1. pc' = [pc EXCEPT ![p] = "readsleep"] /\ moved' = moved
      BY <2>3 DEF Goto
    <3>2. QED BY <2>1, <3>1
  <2>4. QED BY <1>11, <2>2, <2>3, EmptyCases
<1>12. ASSUME NEW p \in Proc, read_sleep(p) PROVE Waits'
  BY <1>12 DEF read_sleep, Goto, pipe, calls
<1>13. ASSUME NEW p \in Proc, read_some(p) PROVE Waits'
  BY <1>13 DEF read_some, Goto, pipe, calls
<1>14. ASSUME NEW p \in Proc, read_byte(p) PROVE Waits'
  BY <1>14 DEF read_byte, pipe, calls
<1>15. ASSUME NEW p \in Proc, read_done(p) PROVE Waits'
  BY <1>15 DEF read_done, Goto, Return, pipe, calls
<1>16. ASSUME NEW p \in Proc, resume(p) PROVE Waits'
  BY <1>16 DEF resume, Goto, Retry, pipe, calls
<1>17. ASSUME NEW p \in Proc, kill(p) PROVE Waits'
  BY <1>17 DEF kill, pipe, calls
<1>18. CASE UNCHANGED vars
  BY <1>18 DEF vars, pipe, calls
<1>19. QED
  BY <1>1, <1>2, <1>3, <1>4, <1>5, <1>6, <1>7, <1>8, <1>9, <1>10, <1>11, <1>12, <1>13, <1>14, <1>15, <1>16, <1>17, <1>18 DEF Next

\* pipewrite() adds a byte only to a ring that is not full.
LEMMA FitsStep ==
  ASSUME Types, Fits, [Next]_vars
  PROVE  Fits'
<1> USE PipeAssumption DEF Fits
<1>1. ASSUME NEW p \in Proc, fileclose(p) PROVE Fits'
  BY <1>1 DEF fileclose, Goto, pipe, calls, Count
<1>2. ASSUME NEW p \in Proc, pipeclose(p) PROVE Fits'
  BY <1>2 DEF pipeclose, Goto, LastEnd, CloseWakesReaders, pipe, calls, Count
<1>3. ASSUME NEW p \in Proc, pipefree(p) PROVE Fits'
  BY <1>3 DEF pipefree, Goto, pipe, calls, Count
<1>4. ASSUME NEW p \in Proc, NEW q \in Proc, filedup(p, q) PROVE Fits'
  BY <1>4 DEF filedup, pipe, calls, Count
<1>5. ASSUME NEW p \in Proc, write_start(p) PROVE Fits'
  BY <1>5 DEF write_start, Goto, pipe, calls, Count
<1>6. ASSUME NEW p \in Proc, write_full(p) PROVE Fits'
  BY <1>6 DEF write_full, Goto, Return, pipe, calls, Count
<1>7. ASSUME NEW p \in Proc, write_sleep(p) PROVE Fits'
  BY <1>7 DEF write_sleep, Goto, FullWakesReaders, pipe, calls, Count
<1>8. ASSUME NEW p \in Proc, write_done(p) PROVE Fits'
  BY <1>8 DEF write_done, Goto, Return, pipe, calls, Count
<1>9. ASSUME NEW p \in Proc, NEW b \in Byte, write_byte(p, b) PROVE Fits'
  <2>1. Count < PIPESIZE /\ Count \in Nat
    BY <1>9, CountFacts DEF write_byte
  <2>2. Count' = Count + 1
    BY <1>9, <2>1, IncFacts DEF write_byte, Count
  <2>3. QED BY <2>1, <2>2
<1>10. ASSUME NEW p \in Proc, read_start(p) PROVE Fits'
  BY <1>10 DEF read_start, Goto, pipe, calls, Count
<1>11. ASSUME NEW p \in Proc, read_empty(p) PROVE Fits'
  BY <1>11 DEF read_empty, Goto, Return, pipe, calls, Count
<1>12. ASSUME NEW p \in Proc, read_sleep(p) PROVE Fits'
  BY <1>12 DEF read_sleep, Goto, pipe, calls, Count
<1>13. ASSUME NEW p \in Proc, read_some(p) PROVE Fits'
  BY <1>13 DEF read_some, Goto, pipe, calls, Count
<1>14. ASSUME NEW p \in Proc, read_byte(p) PROVE Fits'
  <2>1. Count > 0 /\ Count \in Nat
    BY <1>14, CountFacts DEF read_byte
  <2>2. Count' = Count - 1
    BY <1>14, <2>1, IncFacts DEF read_byte, Count
  <2>3. QED BY <2>1, <2>2
<1>15. ASSUME NEW p \in Proc, read_done(p) PROVE Fits'
  BY <1>15 DEF read_done, Goto, Return, pipe, calls, Count
<1>16. ASSUME NEW p \in Proc, resume(p) PROVE Fits'
  BY <1>16 DEF resume, Goto, Retry, pipe, calls, Count
<1>17. ASSUME NEW p \in Proc, kill(p) PROVE Fits'
  BY <1>17 DEF kill, pipe, calls, Count
<1>18. CASE UNCHANGED vars
  BY <1>18 DEF vars, pipe, calls, Count
<1>19. QED
  BY <1>1, <1>2, <1>3, <1>4, <1>5, <1>6, <1>7, <1>8, <1>9, <1>10, <1>11, <1>12, <1>13, <1>14, <1>15, <1>16, <1>17, <1>18 DEF Next

\* pipealloc() gives everything its type.
LEMMA InitTypes == Init => Types
<1> SUFFICES ASSUME Init PROVE Types
  OBVIOUS
<1>1. nread \in 0..(WRAP - 1) /\ nwrite \in 0..(WRAP - 1)
  BY Sizes DEF Init
<1>2. /\ pc \in [Proc -> PC] /\ left \in [Proc -> Nat]
      /\ moved \in [Proc -> BOOLEAN] /\ killed \in [Proc -> BOOLEAN]
  BY DEF Init
<1>3. QED BY <1>1, <1>2, PipeAssumption DEF Init, Types

\* The invariant holds at first and is kept by every step.
LEMMA Invariant == Spec => []IInv
<1>1. Init => IInv
  <2> SUFFICES ASSUME Init PROVE IInv
    OBVIOUS
  <2>1. Types
    BY InitTypes
  <2>2. Access /\ Ends
    BY PipeAssumption DEF Init, Access, Ends
  <2>3. Waits
    BY DEF Init, Waits
  <2>4. Fits
    BY <2>1, CountFacts, PipeAssumption DEF Init, Fits, Empty
  <2>5. QED BY <2>1, <2>2, <2>3, <2>4 DEF IInv
<1>2. IInv /\ [Next]_vars => IInv'
  BY TypesStep, AccessStep, EndsStep, WaitsStep, FitsStep DEF IInv
<1>3. QED BY <1>1, <1>2, PTL DEF Spec

-----------------------------------------------------------------------------
(* What follows from it *)

\* pipeclose() frees the pipe when nobody is in a call on it or has still to close
\* an end, however the last two closes interleave with fork() and kill().
THEOREM NeverFreedInUse == Spec => []FreedUnused
<1>1. IInv => FreedUnused
  <2> SUFFICES ASSUME IInv, freed PROVE /\ rfd \cup wfd = {} /\ lock = Free
                                       /\ \A p \in Proc : pc[p] = "user"
    BY DEF FreedUnused
  <2>1. rfd = {} /\ wfd = {}
    BY DEF IInv, Ends
  <2>2. ASSUME NEW p \in Proc PROVE pc[p] = "user"
    <3>1. pc[p] \in PC /\ pc[p] \notin {"closer", "closew", "kfree"}
      BY DEF IInv, Types, Ends
    <3>2. QED BY <2>1, <3>1 DEF IInv, Access
  <2>3. lock = Free
    BY <2>2 DEF IInv, Types, Access
  <2>4. QED BY <2>1, <2>2, <2>3
<1>2. QED BY <1>1, Invariant, PTL

\* As long as nobody has been killed, no wakeup() of pipewrite(), piperead() and
\* pipeclose() is lost, for any number of readers and writers.
THEOREM NoLostWakeup == Spec => []UnkilledSleepersWait
<1>1. IInv => UnkilledSleepersWait
  <2> SUFFICES ASSUME IInv, \A p \in Proc : ~killed[p], lock = Free
               PROVE  /\ onread # {} => Empty /\ writeopen
                      /\ onwrite # {} => Full /\ readopen
    BY DEF UnkilledSleepersWait, SleepersWait
  <2>1. \A p \in Proc : pc[p] \notin Reading \cup Writing
    BY PipeAssumption DEF IInv, Access
  <2>2. QED
    BY <2>1 DEF IInv, Waits
<1>2. QED BY <1>1, Invariant, PTL

\* piperead() returns no byte to a reader that asked for some and was not killed
\* only at the end of the data.
THEOREM EofIsEnd == Spec => EofOnlyAtEnd
<1>1. ASSUME IInv, NEW p \in Proc, read_done(p), left[p] > 0, ~moved[p]
      PROVE  Empty /\ ~writeopen
  <2>1. Empty /\ pc[p] = "copy"
    BY <1>1 DEF read_done, IInv, Types
  <2>2. QED
    BY <1>1, <2>1 DEF IInv, Waits, MustWait
<1>2. IInv /\ [Next]_vars =>
          [\A p \in Proc : read_done(p) /\ left[p] > 0 /\ ~moved[p] => Empty /\ ~writeopen]_vars
  BY <1>1
<1>3. QED BY <1>2, Invariant, PTL DEF Spec, EofOnlyAtEnd

-----------------------------------------------------------------------------
(* The queue *)

Ring(n, r, d) == [i \in 1..n |-> d[(r + i - 1) % PIPESIZE]]

\* A stretch of the ring is a sequence of bytes.
LEMMA RingIsSeq ==
  ASSUME NEW n \in Nat, NEW r \in Nat, NEW d \in [0..(PIPESIZE - 1) -> Byte]
  PROVE  Ring(n, r, d) \in Seq(Byte) /\ Len(Ring(n, r, d)) = n
<1>1. ASSUME NEW i \in 1..n PROVE d[(r + i - 1) % PIPESIZE] \in Byte
  <2>1. (r + i - 1) % PIPESIZE \in 0..(PIPESIZE - 1)
    BY Quotient, Sizes
  <2>2. QED BY <2>1
<1>2. Ring(n, r, d) \in [1..n -> Byte]
  BY <1>1 DEF Ring
<1>3. QED BY <1>2, IsASeq, LenProperties

\* pipewrite() puts a byte at the end of the queue.
LEMMA WriteIsPut ==
  ASSUME IInv, NEW p \in Proc, NEW b \in Byte, write_byte(p, b)
  PROVE  Queue!Put(b)
<1>1. Types /\ Types'
  <2>1. [Next]_vars
    BY DEF Next
  <2>2. QED BY <2>1, TypesStep DEF IInv
<1>2. Count \in Nat /\ Count < PIPESIZE /\ Count' = Count + 1 /\ Count' \in Nat
  <2>1. Count \in Nat /\ Count < PIPESIZE
    BY CountFacts, Sizes DEF IInv, Fits, write_byte
  <2>2. QED BY <1>1, <2>1, IncFacts DEF Count, write_byte
<1>3. writeopen /\ UNCHANGED <<writeopen, nread>>
  BY DEF write_byte, IInv, Access, Ends
<1>4. /\ Contents \in Seq(Byte) /\ Len(Contents) = Count
      /\ Contents' \in Seq(Byte) /\ Len(Contents') = Count + 1
  <2>1. /\ nread \in Nat /\ nread' \in Nat
        /\ data \in [0..(PIPESIZE - 1) -> Byte] /\ data' \in [0..(PIPESIZE - 1) -> Byte]
    BY <1>1, Sizes DEF Types
  <2>2. Contents = Ring(Count, nread, data) /\ Contents' = Ring(Count', nread', data')
    BY DEF Contents, Ring
  <2>3. QED BY <1>2, <2>1, <2>2, RingIsSeq
<1>5. ASSUME NEW i \in 1..(Count + 1) PROVE Contents'[i] = Append(Contents, b)[i]
  <2>1. Contents'[i] = data'[(nread + i - 1) % PIPESIZE]
    BY <1>2, <1>3 DEF Contents
  <2>2. CASE i = Count + 1
    <3>1. (nread + i - 1) % PIPESIZE = nwrite % PIPESIZE
      <4>1. nread + i - 1 = nread + Count
        BY <1>1, <1>2, <2>2 DEF Types
      <4>2. QED BY <1>1, <4>1, CountFacts
    <3>2. nwrite % PIPESIZE \in 0..(PIPESIZE - 1)
      <4>1. nwrite \in Int
        BY <1>1 DEF Types
      <4>2. QED BY <4>1, Quotient, Sizes
    <3>3. data'[nwrite % PIPESIZE] = b
      BY <1>1, <3>2 DEF write_byte, Types
    <3>4. QED BY <1>4, <2>1, <2>2, <3>1, <3>3, AppendProperties
  <2>3. CASE i \in 1..Count
    <3>1. (nread + i - 1) % PIPESIZE # nwrite % PIPESIZE
      BY <1>1, <1>2, <2>3, SlotIsFree
    <3>2. (nread + i - 1) % PIPESIZE \in 0..(PIPESIZE - 1)
      BY <1>1, <1>2, Quotient, Sizes DEF Types
    <3>3. data'[(nread + i - 1) % PIPESIZE] = data[(nread + i - 1) % PIPESIZE]
      BY <1>1, <3>1, <3>2 DEF write_byte, Types
    <3>4. Contents[i] = data[(nread + i - 1) % PIPESIZE]
      BY <2>3 DEF Contents
    <3>5. Append(Contents, b)[i] = Contents[i]
      BY <1>4, <2>3, AppendProperties
    <3>6. QED BY <2>1, <3>3, <3>4, <3>5
  <2>4. i = Count + 1 \/ i \in 1..Count
    BY <1>2
  <2>5. QED BY <2>2, <2>3, <2>4
<1>6. Append(Contents, b) \in Seq(Byte) /\ Len(Append(Contents, b)) = Count + 1
  BY <1>4, AppendProperties
<1>7. Contents' = Append(Contents, b)
  BY ONLY <1>4, <1>5, <1>6, SeqEqual
<1>8. QED
  BY <1>2, <1>3, <1>4, <1>7 DEF Queue!Put

\* piperead() takes the byte at its head.
LEMMA ReadIsGet ==
  ASSUME IInv, NEW p \in Proc, read_byte(p)
  PROVE  Queue!Get
<1>1. Types /\ Types'
  <2>1. [Next]_vars
    BY DEF Next
  <2>2. QED BY <2>1, TypesStep DEF IInv
<1>2. Count \in Nat /\ Count > 0 /\ Count' = Count - 1 /\ Count' \in Nat
  <2>1. Count \in Nat /\ Count > 0
    BY CountFacts, Sizes DEF IInv, read_byte
  <2>2. QED BY <1>1, <2>1, IncFacts DEF Count, read_byte
<1>3. UNCHANGED <<writeopen, data>> /\ nread' = Inc(nread)
  BY DEF read_byte
<1>4. /\ Contents \in Seq(Byte) /\ Len(Contents) = Count
      /\ Contents' \in Seq(Byte) /\ Len(Contents') = Count - 1
  <2>1. /\ nread \in Nat /\ nread' \in Nat
        /\ data \in [0..(PIPESIZE - 1) -> Byte] /\ data' \in [0..(PIPESIZE - 1) -> Byte]
    BY <1>1, Sizes DEF Types
  <2>2. Contents = Ring(Count, nread, data) /\ Contents' = Ring(Count', nread', data')
    BY DEF Contents, Ring
  <2>3. QED BY <1>2, <2>1, <2>2, RingIsSeq
<1>5. Contents # <<>> /\ Tail(Contents) \in Seq(Byte) /\ Len(Tail(Contents)) = Count - 1
  <2>1. Contents # <<>>
    BY <1>2, <1>4
  <2>2. QED BY <1>4, <2>1, HeadTailProperties
<1>6. ASSUME NEW i \in 1..(Count - 1) PROVE Contents'[i] = Tail(Contents)[i]
  <2>1. Contents'[i] = data[(Inc(nread) + i - 1) % PIPESIZE]
    BY <1>2, <1>3 DEF Contents
  <2>2. (Inc(nread) + i - 1) % PIPESIZE = (nread + i) % PIPESIZE
    <3>1. i - 1 \in Int /\ Inc(nread) \in Int /\ nread \in Int
      BY <1>1, <1>2, IncFacts, Sizes DEF Types
    <3>2. (Inc(nread) + (i - 1)) % PIPESIZE = (nread + 1 + (i - 1)) % PIPESIZE
      BY <1>1, <3>1, IncFacts
    <3>3. Inc(nread) + (i - 1) = Inc(nread) + i - 1 /\ nread + 1 + (i - 1) = nread + i
      BY <1>2, <3>1
    <3>4. QED BY <3>2, <3>3
  <2>3. Tail(Contents)[i] = Contents[i + 1]
    BY <1>4, <1>5, HeadTailProperties
  <2>4. Contents[i + 1] = data[(nread + i) % PIPESIZE]
    <3>1. i + 1 \in 1..Count /\ nread + (i + 1) - 1 = nread + i
      BY <1>1, <1>2 DEF Types
    <3>2. QED BY <3>1 DEF Contents
  <2>5. QED BY <2>1, <2>2, <2>3, <2>4
<1>7. Contents' = Tail(Contents)
  BY ONLY <1>4, <1>5, <1>6, SeqEqual
<1>8. QED
  BY <1>3, <1>5, <1>7 DEF Queue!Get

\* The other steps leave the queue alone, but for the close of the last writer.
LEMMA QueueStep ==
  ASSUME IInv, [Next]_vars
  PROVE  [Queue!Next]_<<Contents, writeopen>>
<1>1. CASE UNCHANGED <<data, nread, nwrite, writeopen>>
  BY <1>1 DEF Contents, Count
<1>2. ASSUME NEW p \in Proc, pipeclose(p) PROVE [Queue!Next]_<<Contents, writeopen>>
  <2>1. UNCHANGED Contents /\ (writeopen' = FALSE \/ UNCHANGED writeopen)
    BY <1>2 DEF pipeclose, Contents, Count
  <2>2. QED BY <2>1 DEF Queue!Next, Queue!Close
<1>3. ASSUME NEW p \in Proc, NEW b \in Byte, write_byte(p, b) PROVE Queue!Next
  BY <1>3, WriteIsPut DEF Queue!Next
<1>4. ASSUME NEW p \in Proc, read_byte(p) PROVE Queue!Next
  BY <1>4, ReadIsGet DEF Queue!Next
<1>5. ASSUME NEW p \in Proc,
             \/ fileclose(p) \/ pipefree(p) \/ \E q \in Proc : filedup(p, q)
             \/ write_start(p) \/ write_full(p) \/ write_sleep(p) \/ write_done(p)
             \/ read_start(p) \/ read_empty(p) \/ read_sleep(p) \/ read_some(p)
             \/ read_done(p) \/ resume(p) \/ kill(p)
      PROVE  UNCHANGED <<data, nread, nwrite, writeopen>>
  BY <1>5 DEF fileclose, pipefree, filedup, write_start, write_full, write_sleep, write_done, read_start,
     read_empty, read_sleep, read_some, read_done, resume, kill, pipe
<1>6. CASE UNCHANGED vars
  BY <1>1, <1>6 DEF vars, pipe
<1>7. QED
  BY <1>1, <1>2, <1>3, <1>4, <1>5, <1>6 DEF Next

\* The ring with its counters that wrap implements the bounded queue: no byte is
\* lost, doubled or overwritten, for every size and every number of processes.
THEOREM PipeIsQueue == Spec => IsQueue
<1>1. Init => Queue!Init
  <2> SUFFICES ASSUME Init PROVE Queue!Init
    OBVIOUS
  <2>1. Count = 0
    <3>1. Types
      BY InitTypes
    <3>2. QED BY <3>1, CountFacts DEF Init, Empty
  <2>2. Contents = <<>>
    BY <2>1 DEF Contents
  <2>3. QED BY <2>2 DEF Init, Queue!Init
<1>2. IInv /\ [Next]_vars => [Queue!Next]_<<Contents, writeopen>>
  BY QueueStep
<1>3. QED
  BY <1>1, <1>2, Invariant, PTL DEF Spec, IsQueue, Queue!Spec

=============================================================================
