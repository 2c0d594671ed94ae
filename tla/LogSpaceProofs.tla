--------------------------- MODULE LogSpaceProofs ---------------------------
(***************************************************************************)
(* Calls that keep to their reservation never overflow the header; calls  *)
(* that leave one block of it unused never overflow the log area that mkfs *)
(* makes, which holds one block less, and never make log_write() panic.    *)
(***************************************************************************)
EXTENDS LogRefinement

USE DEF InOpPC, CommitPC, PC, LogBlock

\* Arithmetic that the provers need to be told about products.
LEMMA Products ==
  ASSUME NEW n \in Nat, NEW k \in Nat, NEW m \in Nat
  PROVE  /\ n * m \in Nat /\ (n + 1) * m = n * m + m
         /\ k <= m => n * k <= n * m
         /\ k < m /\ n # 0 => n * k < n * m
<1>1. n * m \in Nat /\ n * k \in Nat /\ (n + 1) * m = n * m + m
  OBVIOUS
<1>2. ASSUME k <= m PROVE n * k <= n * m
  <2>1. PICK d \in Nat : m = k + d
    <3>1. m - k \in Nat /\ m = k + (m - k)
      BY <1>2
    <3>2. QED BY <3>1
  <2>2. n * m = n * k + n * d /\ n * d \in Nat
    BY <2>1
  <2>3. QED BY <1>1, <2>2
<1>3. ASSUME k < m, n # 0 PROVE n * k < n * m
  <2>1. PICK d \in Nat : m = k + 1 + d
    <3>1. m - k - 1 \in Nat /\ m = k + 1 + (m - k - 1)
      BY <1>3
    <3>2. QED BY <3>1
  <2>2. n * m = n * k + n + n * d /\ n * d \in Nat
    BY <2>1
  <2>3. QED BY <1>1, <1>3, <2>2
<1>4. QED BY <1>1, <1>2, <1>3

\* A sequence has finitely many elements, as many as it is long if none comes
\* twice.
LEMMA RangeSize ==
  ASSUME NEW q \in Seq(Sector)
  PROVE  /\ IsFiniteSet(Range(q)) /\ Cardinality(Range(q)) \in Nat
         /\ Cardinality(Range(q)) <= Len(q)
         /\ NoDup(q) => Cardinality(Range(q)) = Len(q)
<1>1. q \in Surjection(1..Len(q), Range(q))
  BY DEF Surjection, Range
<1>2. IsFiniteSet(1..Len(q)) /\ Cardinality(1..Len(q)) = Len(q)
  <2>1. Len(q) \in Nat
    OBVIOUS
  <2>2. QED BY <2>1, FS_Interval
<1>3. /\ IsFiniteSet(Range(q)) /\ Cardinality(Range(q)) <= Len(q)
      /\ Cardinality(Range(q)) = Len(q) <=> q \in Injection(1..Len(q), Range(q))
  BY <1>1, <1>2, FS_Surjection
<1>4. NoDup(q) => q \in Injection(1..Len(q), Range(q))
  BY <1>1 DEF NoDup, Injection, IsInjective, Surjection
<1>5. QED BY <1>3, <1>4, FS_CardinalityType

\* The calls in progress have written no more than OpBlocks blocks each.
LEMMA WrittenSize ==
  ASSUME TypeOK, CountControl, WroteSpace
  PROVE  /\ IsFiniteSet(Written) /\ Cardinality(Written) \in Nat
         /\ Cardinality(Written) <= outstanding * OpBlocks
<1> USE LogAssumption
<1> DEFINE Bij(p) == CHOOSE b : b \in Bijection(1..Cardinality(wrote[p]), wrote[p])
           All == InOp \X (1..OpBlocks)
           D == {x \in All : x[2] <= Cardinality(wrote[x[1]])}
           h == [x \in D |-> <<x[1], Bij(x[1])[x[2]]>>]
<1>1. IsFiniteSet(All) /\ Cardinality(All) = outstanding * OpBlocks
  <2>1. IsFiniteSet(1..OpBlocks) /\ Cardinality(1..OpBlocks) = OpBlocks
    BY FS_Interval
  <2>2. IsFiniteSet(InOp) /\ Cardinality(InOp) = outstanding
    BY InOpCount DEF CountControl
  <2>3. QED BY <2>1, <2>2, FS_Product
<1>2. IsFiniteSet(D) /\ Cardinality(D) <= outstanding * OpBlocks
  <2>1. D \in SUBSET All
    OBVIOUS
  <2>2. QED BY ONLY <1>1, <2>1, FS_Subset
<1>3. ASSUME NEW p \in InOp
      PROVE  /\ Cardinality(wrote[p]) \in 0..OpBlocks
             /\ Bij(p) \in [1..Cardinality(wrote[p]) -> wrote[p]]
             /\ \A s \in wrote[p] : \E i \in 1..Cardinality(wrote[p]) : Bij(p)[i] = s
  <2>1. IsFiniteSet(wrote[p]) /\ Cardinality(wrote[p]) <= OpBlocks
    BY DEF WroteSpace, InOp
  <2>2. Cardinality(wrote[p]) \in Nat /\ ExistsBijection(1..Cardinality(wrote[p]), wrote[p])
    BY <2>1, FS_CardinalityType
  <2>3. Bij(p) \in Bijection(1..Cardinality(wrote[p]), wrote[p])
    BY <2>2 DEF ExistsBijection
  <2>4. Bij(p) \in Surjection(1..Cardinality(wrote[p]), wrote[p])
    BY <2>3 DEF Bijection
  <2>5. Cardinality(wrote[p]) \in 0..OpBlocks
    BY <2>1, <2>2
  <2> HIDE DEF Bij
  <2>6. QED
    BY <2>4, <2>5 DEF Surjection
<1>4. h \in Surjection(D, Written)
  <2>1. ASSUME NEW x \in D PROVE h[x] \in Written
    <3>1. x[1] \in InOp /\ x[2] \in 1..Cardinality(wrote[x[1]])
      BY <1>3
    <3>2. Bij(x[1])[x[2]] \in wrote[x[1]]
      BY <1>3, <3>1
    <3>3. wrote[x[1]] \subseteq Sector
      BY <3>1 DEF TypeOK, InOp
    <3>4. QED BY <3>1, <3>2, <3>3 DEF Written
  <2>2. ASSUME NEW y \in Written PROVE \E x \in D : h[x] = y
    <3>1. y[1] \in InOp /\ y[2] \in wrote[y[1]] /\ y = <<y[1], y[2]>>
      BY DEF Written
    <3>2. PICK i \in 1..Cardinality(wrote[y[1]]) : Bij(y[1])[i] = y[2]
      BY <1>3, <3>1
    <3>3. <<y[1], i>> \in D
      BY <1>3, <3>1, <3>2
    <3>4. h[<<y[1], i>>] = y
      BY <3>1, <3>2, <3>3
    <3>5. QED BY <3>3, <3>4
  <2>3. QED BY <2>1, <2>2 DEF Surjection
<1>5. QED
  <2>1. IsFiniteSet(Written) /\ Cardinality(Written) <= Cardinality(D)
    BY ONLY <1>2, <1>4, FS_Surjection
  <2>2. Cardinality(Written) \in Nat /\ Cardinality(D) \in Nat /\ outstanding * OpBlocks \in Nat
    BY <1>2, <2>1, FS_CardinalityType, Products DEF TypeOK
  <2>3. QED BY <1>2, <2>1, <2>2

\* What is about to be logged is among what has been written.
LEMMA PendingSize ==
  ASSUME TypeOK, CountControl, HeldControl, WroteSpace
  PROVE  /\ IsFiniteSet(Pending) /\ Cardinality(Pending) \in Nat
         /\ Cardinality(Pending) <= Cardinality(Written)
<1> DEFINE D == {x \in Written : held[x[1]] = x[2]}
           h == [x \in D |-> x[2]]
<1>1. IsFiniteSet(D) /\ Cardinality(D) <= Cardinality(Written)
  <2>1. D \in SUBSET Written /\ IsFiniteSet(Written)
    BY WrittenSize
  <2>2. QED BY ONLY <2>1, FS_Subset
<1>2. h \in Surjection(D, Pending)
  <2>1. ASSUME NEW x \in D PROVE h[x] \in Pending
    BY LogAssumption DEF Written, Pending
  <2>2. ASSUME NEW s \in Pending PROVE \E x \in D : h[x] = s
    <3>1. PICK p \in InOp : held[p] = s /\ s # NoSector
      BY DEF Pending
    <3>2. p \in Proc /\ s \in wrote[p] /\ s \in Sector
      BY <3>1 DEF InOp, WroteSpace, TypeOK
    <3>3. <<p, s>> \in D
      BY <3>1, <3>2 DEF Written
    <3>4. h[<<p, s>>] = s
      BY <3>3
    <3>5. QED BY <3>3, <3>4
  <2>3. QED BY <2>1, <2>2 DEF Surjection
<1>3. IsFiniteSet(Pending) /\ Cardinality(Pending) <= Cardinality(D)
  BY ONLY <1>1, <1>2, FS_Surjection
<1>4. Cardinality(Pending) \in Nat /\ Cardinality(D) \in Nat /\ Cardinality(Written) \in Nat
  BY <1>1, <1>3, WrittenSize, FS_CardinalityType
<1>5. QED BY <1>1, <1>3, <1>4

\* The two parts of what the header must hold.
LEMMA UnionSize ==
  ASSUME TypeOK, CountControl, HeldControl, WroteSpace
  PROVE  /\ IsFiniteSet(Range(lh) \cup Pending)
         /\ Cardinality(Range(lh) \cup Pending) \in Nat
         /\ Cardinality(Range(lh) \cup Pending) <= Len(lh) + Cardinality(Written)
         /\ Cardinality(Range(lh)) <= Cardinality(Range(lh) \cup Pending)
<1>1. /\ IsFiniteSet(Range(lh)) /\ Cardinality(Range(lh)) \in Nat
      /\ Cardinality(Range(lh)) <= Len(lh) /\ Len(lh) \in Nat
  BY RangeSize DEF TypeOK
<1>2. IsFiniteSet(Pending) /\ Cardinality(Pending) \in Nat /\ Cardinality(Pending) <= Cardinality(Written)
  BY PendingSize
<1>3. Cardinality(Written) \in Nat
  BY WrittenSize
<1>4. /\ IsFiniteSet(Range(lh) \cup Pending)
      /\ Cardinality(Range(lh) \cup Pending) =
           Cardinality(Range(lh)) + Cardinality(Pending) - Cardinality(Range(lh) \cap Pending)
  BY <1>1, <1>2, FS_Union
<1>5. Cardinality(Range(lh) \cap Pending) \in Nat /\ Cardinality(Range(lh) \cap Pending) <= Cardinality(Pending)
  <2>1. IsFiniteSet(Range(lh) \cap Pending) /\ Cardinality(Range(lh) \cap Pending) <= Cardinality(Pending)
    BY <1>2, FS_Intersection
  <2>2. QED BY <2>1, FS_CardinalityType
<1>6. QED BY <1>1, <1>2, <1>3, <1>4, <1>5

-----------------------------------------------------------------------------
\* A step that leaves the calls, the header and the header on disk alone.
LEMMA SpaceUnchanged ==
  ASSUME Space, InOp' = InOp, UNCHANGED <<held, wrote, outstanding, lh, dhead>>
  PROVE  Space'
BY DEF Space, WroteSpace, HeaderFits, Pending, Written, Range, NoDup

\* A step after which no call is in progress needs only a header that fits.
LEMMA SpaceNoCall ==
  ASSUME Space, InOp' = {}, outstanding' = 0, LOGSIZE \in Nat,
         lh' \in Seq(Sector), Len(lh') <= LOGSIZE, NoDup(lh'), NoDup(dhead'),
         Len(dhead') <= LOGSIZE, WroteSpace'
  PROVE  Space'
<1>1. Pending' = {} /\ Written' = {}
  BY DEF Pending, Written
<1>2. Cardinality(Range(lh')) \in Nat /\ Cardinality(Range(lh')) <= Len(lh') /\ Len(lh') \in Nat
  BY RangeSize
<1>3. Cardinality({}) = 0
  BY FS_EmptySet
<1>4. Range(lh') \cup {} = Range(lh')
  OBVIOUS
<1>5. outstanding' * MAXOPBLOCKS = 0
  BY LogAssumption
<1>6. Cardinality(Range(lh') \cup Pending') + outstanding' * MAXOPBLOCKS
          <= LOGSIZE + Cardinality(Written')
  BY <1>1, <1>2, <1>3, <1>4, <1>5
<1>7. HeaderFits'
  BY <1>6 DEF HeaderFits, Range
<1>8. QED BY <1>7 DEF Space, NoDup

\* A call that does not keep more than it reserved leaves room for the others.
LEMMA HeaderBound ==
  ASSUME Control, Space, OpBlocks <= MAXOPBLOCKS
  PROVE  /\ Len(lh) \in Nat /\ Len(lh) <= LOGSIZE
         /\ OpBlocks < MAXOPBLOCKS /\ outstanding # 0 => Len(lh) < LOGSIZE
<1> USE LogAssumption DEF Control
<1>1. Len(lh) \in Nat /\ Cardinality(Range(lh)) = Len(lh)
  BY RangeSize DEF TypeOK, Space
<1>2. /\ Cardinality(Range(lh) \cup Pending) \in Nat
      /\ Len(lh) <= Cardinality(Range(lh) \cup Pending)
  BY <1>1, UnionSize DEF Space
<1>3. Cardinality(Written) \in Nat /\ Cardinality(Written) <= outstanding * OpBlocks
  BY WrittenSize DEF Space
<1>4. /\ outstanding * OpBlocks \in Nat /\ outstanding * MAXOPBLOCKS \in Nat
      /\ outstanding * OpBlocks <= outstanding * MAXOPBLOCKS
      /\ OpBlocks < MAXOPBLOCKS /\ outstanding # 0
            => outstanding * OpBlocks < outstanding * MAXOPBLOCKS
  BY Products DEF TypeOK
<1>5. Cardinality(Range(lh) \cup Pending) + outstanding * MAXOPBLOCKS
          <= LOGSIZE + Cardinality(Written)
  BY DEF Space, HeaderFits
<1>6. QED BY <1>1, <1>2, <1>3, <1>4, <1>5

\* begin_op() admits a call only if its blocks fit behind those of the others.
LEMMA SpaceBeginOp ==
  ASSUME Control, Space, NEW p \in Proc, begin_op(p)
  PROVE  Space'
<1> USE LogAssumption DEF Control
<1>1. CASE MustWait
  <2>1. InOp' = InOp
    BY <1>1 DEF begin_op, TypeOK, InOp
  <2>2. UNCHANGED <<held, wrote, outstanding, lh, dhead>>
    BY <1>1 DEF begin_op, disk
  <2>3. QED BY <2>1, <2>2, SpaceUnchanged
<1>2. CASE ~MustWait
  <2>1. /\ outstanding' = outstanding + 1 /\ wrote' = [wrote EXCEPT ![p] = {}]
        /\ UNCHANGED <<held, lh, dhead>>
        /\ Len(lh) + (outstanding + 1) * MAXOPBLOCKS <= LOGSIZE
    BY <1>2 DEF begin_op, disk, MustWait, NoRoom, TypeOK
  <2>2. InOp' = InOp \cup {p} /\ p \notin InOp /\ held[p] = NoSector
    BY <1>2 DEF begin_op, TypeOK, InOp, HeldControl
  <2>3. Pending' = Pending
    BY <2>1, <2>2 DEF Pending
  <2>4. Written' = Written
    BY <2>1, <2>2 DEF Written, TypeOK
  <2>5. WroteSpace'
    BY <2>1, <2>2, FS_EmptySet DEF WroteSpace, Space, TypeOK, Range, InOp
  <2>6. HeaderFits'
    <3>1. /\ Cardinality(Range(lh) \cup Pending) \in Nat /\ Cardinality(Written) \in Nat
          /\ Cardinality(Range(lh) \cup Pending) <= Len(lh) + Cardinality(Written)
      BY UnionSize, WrittenSize DEF Space
    <3>2. Len(lh) \in Nat /\ (outstanding + 1) * MAXOPBLOCKS \in Nat
      BY Products DEF TypeOK
    <3>3. Cardinality(Range(lh) \cup Pending) + (outstanding + 1) * MAXOPBLOCKS
              <= LOGSIZE + Cardinality(Written)
      BY <2>1, <3>1, <3>2
    <3>4. QED
      BY <2>1, <2>3, <2>4, <3>3 DEF HeaderFits, Range
  <2>7. QED
    BY <2>1, <2>5, <2>6 DEF Space, NoDup
<1>3. QED BY <1>1, <1>2

\* A block that is modified for the first time by this call takes one of the
\* places it reserved; one that it has modified before has its place already.
LEMMA ModifySizes ==
  ASSUME Control, Space, NEW p \in Proc, NEW s \in Sector, NEW v \in Val, modify(p, s, v)
  PROVE  /\ Used \in Nat /\ Used' \in Nat /\ Cardinality(Written) \in Nat /\ Cardinality(Written') \in Nat
         /\ Used' + Cardinality(Written) <= Used + Cardinality(Written')
<1> USE LogAssumption DEF Control
<1>1. /\ held' = [held EXCEPT ![p] = s] /\ wrote' = [wrote EXCEPT ![p] = @ \cup {s}]
      /\ UNCHANGED <<outstanding, lh, dhead>>
  BY DEF modify, disk
<1>2. InOp' = InOp /\ p \in InOp /\ held[p] = NoSector /\ s # NoSector
  BY DEF modify, TypeOK, InOp, HeldControl
<1>3. Pending' = Pending \cup {s}
  BY <1>1, <1>2 DEF Pending, TypeOK, InOp
<1>4. Written' = Written \cup {<<p, s>>}
  BY <1>1, <1>2 DEF Written, TypeOK, InOp
<1> DEFINE U == Range(lh) \cup Pending
<1>5. IsFiniteSet(U) /\ Cardinality(U) \in Nat /\ IsFiniteSet(Written) /\ Cardinality(Written) \in Nat
  BY UnionSize, WrittenSize DEF Space
<1>6. Used = Cardinality(U) /\ Used' = Cardinality(U \cup {s})
  <2>1. Range(lh') \cup Pending' = U \cup {s}
    BY <1>1, <1>3 DEF Range
  <2>2. QED BY <2>1 DEF Used
<1>7. CASE s \in wrote[p]
  <2>1. s \in U
    BY <1>2, <1>7 DEF Space, WroteSpace
  <2>2. U \cup {s} = U /\ Written' = Written
    BY <1>2, <1>4, <1>7, <2>1 DEF Written
  <2>3. Used' = Used /\ Cardinality(Written') = Cardinality(Written)
    BY <1>6, <2>2
  <2> HIDE DEF U
  <2>4. QED BY <1>5, <1>6, <2>3
<1>8. CASE s \notin wrote[p]
  <2>1. <<p, s>> \notin Written
    BY <1>8 DEF Written
  <2>2. Cardinality(Written') = Cardinality(Written) + 1
    BY <1>4, <1>5, <2>1, FS_AddElement
  <2>3. Cardinality(U \cup {s}) = IF s \in U THEN Cardinality(U) ELSE Cardinality(U) + 1
    BY <1>5, FS_AddElement
  <2> HIDE DEF U
  <2>4. QED BY <1>5, <1>6, <2>2, <2>3
<1>9. QED BY <1>7, <1>8

\* So a call that modifies a block keeps the reservations.
LEMMA SpaceModify ==
  ASSUME Control, Space, NEW p \in Proc, NEW s \in Sector, NEW v \in Val, modify(p, s, v)
  PROVE  Space'
<1> USE LogAssumption DEF Control
<1>1. /\ held' = [held EXCEPT ![p] = s] /\ wrote' = [wrote EXCEPT ![p] = @ \cup {s}]
      /\ UNCHANGED <<outstanding, lh, dhead>>
      /\ Cardinality(wrote[p] \cup {s}) <= OpBlocks
  BY DEF modify, disk
<1>2. InOp' = InOp /\ p \in InOp /\ held[p] = NoSector /\ s # NoSector
  BY DEF modify, TypeOK, InOp, HeldControl
<1>3. WroteSpace'
  <2>1. IsFiniteSet(wrote[p] \cup {s})
    BY FS_AddElement DEF Space, WroteSpace
  <2>2. QED
    BY <1>1, <1>2, <2>1 DEF Space, WroteSpace, TypeOK, Range
<1>4. HeaderFits'
  <2>1. outstanding * MAXOPBLOCKS \in Nat
    BY Products DEF TypeOK
  <2>2. Used + outstanding * MAXOPBLOCKS <= LOGSIZE + Cardinality(Written)
    BY DEF Space, HeaderFits, Used
  <2>3. Used' + outstanding * MAXOPBLOCKS <= LOGSIZE + Cardinality(Written')
    BY <2>1, <2>2, ModifySizes
  <2>4. QED BY <1>1, <2>3 DEF HeaderFits, Used
<1>5. QED
  BY <1>1, <1>3, <1>4 DEF Space, NoDup

\* log_write() moves the sector from the pending ones to the header.
LEMMA SpaceLogWrite ==
  ASSUME Control, Space, NEW p \in Proc, log_write(p)
  PROVE  Space'
<1> USE LogAssumption DEF Control
<1>1. /\ held' = [held EXCEPT ![p] = NoSector] /\ UNCHANGED <<wrote, outstanding, dhead>>
      /\ lh' = IF held[p] \in Range(lh) THEN lh ELSE Append(lh, held[p])
  BY DEF log_write, disk
<1>2. InOp' = InOp /\ p \in InOp /\ held[p] \in Sector /\ held[p] # NoSector
  BY DEF log_write, TypeOK, InOp, HeldControl
<1>3. lh' \in Seq(Sector) /\ Range(lh') = Range(lh) \cup {held[p]} /\ NoDup(lh')
  <2>1. lh \in Seq(Sector) /\ NoDup(lh)
    BY DEF TypeOK, Space
  <2>2. CASE held[p] \in Range(lh)
    BY <1>1, <2>1, <2>2
  <2>3. CASE held[p] \notin Range(lh)
    <3>1. lh' = Append(lh, held[p])
      BY <1>1, <2>3
    <3>2. /\ lh' \in Seq(Sector) /\ DOMAIN lh' = 1..(Len(lh) + 1)
          /\ \A i \in 1..(Len(lh) + 1) : lh'[i] = IF i = Len(lh) + 1 THEN held[p] ELSE lh[i]
      BY <1>2, <2>1, <3>1
    <3>3. \A i \in DOMAIN lh : lh[i] # held[p]
      BY <2>3 DEF Range
    <3>4. DOMAIN lh = 1..Len(lh) /\ Len(lh) \in Nat
      BY <2>1
    <3>5. NoDup(lh')
      BY <2>1, <3>2, <3>3, <3>4 DEF NoDup
    <3>6. Range(lh') = Range(lh) \cup {held[p]}
      BY <3>2, <3>4 DEF Range
    <3>7. QED BY <3>2, <3>5, <3>6
  <2>4. QED BY <2>2, <2>3
<1>4. Pending' = Pending \ {held[p]} /\ held[p] \in Pending
  BY <1>1, <1>2 DEF Pending, TypeOK, InOp, HeldControl
<1>5. Range(lh') \cup Pending' = Range(lh) \cup Pending
  BY <1>3, <1>4
<1>6. Written' = Written
  BY <1>1, <1>2 DEF Written
<1>7. HeaderFits'
  BY <1>1, <1>5, <1>6 DEF Space, HeaderFits
<1>8. WroteSpace'
  BY <1>1, <1>2, <1>3 DEF Space, WroteSpace, TypeOK
<1>9. QED
  BY <1>1, <1>3, <1>7, <1>8 DEF Space, NoDup

\* A call that ends takes no more than OpBlocks blocks out of those written.
LEMMA EndOpSizes ==
  ASSUME Control, Space, NEW p \in Proc, end_op(p)
  PROVE  /\ Used \in Nat /\ Used' = Used /\ Cardinality(Written) \in Nat /\ Cardinality(Written') \in Nat
         /\ Cardinality(Written) <= Cardinality(Written') + OpBlocks
<1> USE LogAssumption DEF Control
<1>1. p \in InOp /\ UNCHANGED <<held, wrote, lh>>
  BY DEF end_op, InOp
<1>2. InOp' = InOp \ {p} /\ held[p] = NoSector
  BY <1>1 DEF end_op, WakeupLog, TypeOK, InOp, CommitAlone, CountControl, HeldControl
<1>3. Pending' = Pending
  BY <1>1, <1>2 DEF Pending
<1>4. Used' = Used
  BY <1>1, <1>3 DEF Used, Range
<1> DEFINE Own == {p} \X wrote[p]
<1>5. IsFiniteSet(Written) /\ Cardinality(Written) \in Nat /\ Used \in Nat
  BY UnionSize, WrittenSize DEF Space, Used
<1>6. IsFiniteSet(wrote[p]) /\ Cardinality(wrote[p]) <= OpBlocks
  BY DEF Space, WroteSpace
<1>7. IsFiniteSet({p}) /\ Cardinality({p}) = 1
  BY FS_Singleton
<1>8. /\ IsFiniteSet(Own) /\ Cardinality(Own) = Cardinality({p}) * Cardinality(wrote[p])
      /\ Cardinality(wrote[p]) \in Nat
  BY <1>6, <1>7, FS_Product, FS_CardinalityType
<1>9. Cardinality(Own) \in Nat /\ Cardinality(Own) <= OpBlocks
  BY <1>6, <1>7, <1>8
<1>10. Written' = Written \ Own
  BY <1>1, <1>2 DEF Written
<1>11. /\ Cardinality(Written') = Cardinality(Written) - Cardinality(Written \cap Own)
       /\ IsFiniteSet(Written') /\ IsFiniteSet(Written \cap Own)
       /\ Cardinality(Written \cap Own) <= Cardinality(Own)
  BY <1>5, <1>8, <1>10, FS_Difference, FS_Intersection
<1>12. Cardinality(Written \cap Own) \in Nat /\ Cardinality(Written') \in Nat
  BY <1>11, FS_CardinalityType
<1>13. QED BY <1>4, <1>5, <1>9, <1>11, <1>12

\* end_op() gives back what the call reserved, which is at least what it used.
LEMMA SpaceEndOp ==
  ASSUME Control, Space, OpBlocks <= MAXOPBLOCKS, NEW p \in Proc, end_op(p)
  PROVE  Space'
<1> USE LogAssumption DEF Control
<1>1. /\ ~committing /\ p \in InOp /\ held[p] = NoSector
      /\ outstanding' = outstanding - 1 /\ UNCHANGED <<held, wrote, lh, dhead>>
  BY DEF end_op, disk, CommitAlone, CountControl, InOp, HeldControl
<1>2. InOp' = InOp \ {p}
  BY <1>1 DEF end_op, WakeupLog, TypeOK, InOp
<1>3. WroteSpace'
  BY <1>1, <1>2 DEF Space, WroteSpace
<1>4. HeaderFits'
  <2>1. PICK n \in Nat : outstanding = n + 1
    <3>1. outstanding \in Nat /\ outstanding # 0
      BY <1>1, InOpCount DEF TypeOK
    <3>2. outstanding - 1 \in Nat /\ outstanding = (outstanding - 1) + 1
      BY <3>1
    <3>3. QED BY <3>2
  <2>2. /\ outstanding' = n /\ n * MAXOPBLOCKS \in Nat
        /\ outstanding * MAXOPBLOCKS = n * MAXOPBLOCKS + MAXOPBLOCKS
    BY <1>1, <2>1, Products
  <2>3. Used + outstanding * MAXOPBLOCKS <= LOGSIZE + Cardinality(Written)
    BY DEF Space, HeaderFits, Used
  <2>4. Used' + outstanding' * MAXOPBLOCKS <= LOGSIZE + Cardinality(Written')
    BY <2>2, <2>3, EndOpSizes
  <2>5. QED BY <2>4 DEF HeaderFits, Used
<1>5. QED
  BY <1>1, <1>3, <1>4 DEF Space, NoDup

\* The steps of commit() find a header that fits, and leave one on the disk.
LEMMA SpaceCommit ==
  ASSUME Control, Space, OpBlocks <= MAXOPBLOCKS, NEW p \in Proc, Commit(p)
  PROVE  Space'
<1> USE LogAssumption DEF Control
<1>1. InOp = {} /\ outstanding = 0
  BY InOpCount DEF Commit, write_log, write_head, install_trans, erase, end_commit, CommitAlone
<1>2. InOp' = {}
  BY <1>1 DEF Commit, write_log, write_head, install_trans, erase, end_commit, WakeupLog, TypeOK, InOp
<1>3. UNCHANGED <<held, wrote, outstanding>>
  BY DEF Commit, write_log, write_head, install_trans, erase, end_commit
<1>4. CASE UNCHANGED <<lh, dhead>>
  BY <1>1, <1>2, <1>3, <1>4, SpaceUnchanged
<1>5. CASE write_head(p)
  <2>1. lh' = lh /\ dhead' = lh
    BY <1>5 DEF write_head
  <2>2. Len(lh) <= LOGSIZE /\ NoDup(lh) /\ lh \in Seq(Sector)
    BY HeaderBound DEF Space, TypeOK
  <2>3. WroteSpace'
    BY <1>2, <1>3, <2>1 DEF Space, WroteSpace
  <2>4. NoDup(lh') /\ NoDup(dhead')
    BY <2>1, <2>2 DEF NoDup
  <2>5. QED
    BY <1>1, <1>2, <1>3, <2>1, <2>2, <2>3, <2>4, SpaceNoCall
<1>6. CASE erase(p)
  <2>1. lh' = <<>> /\ dhead' = <<>>
    BY <1>6 DEF erase, EraseLog
  <2>2. WroteSpace'
    BY <1>2, <1>3 DEF Space, WroteSpace
  <2>3. NoDup(lh') /\ NoDup(dhead') /\ Len(<<>>) = 0 /\ <<>> \in Seq(Sector)
    BY <2>1 DEF NoDup
  <2>4. QED
    BY <1>1, <1>2, <1>3, <2>1, <2>2, <2>3, SpaceNoCall
<1>7. QED
  BY <1>4, <1>5, <1>6 DEF Commit, write_log, install_trans, end_commit, disk

\* A crash forgets the calls and keeps the header on disk.
LEMMA SpaceCrash ==
  ASSUME Control, Space, Crash
  PROVE  Space'
<1> USE LogAssumption DEF Control
<1>1. /\ InOp' = {} /\ outstanding' = 0 /\ lh' = <<>> /\ dhead' = dhead
      /\ wrote' = [q \in Proc |-> {}] /\ held' = [q \in Proc |-> NoSector]
  BY DEF Crash, disk, InOp
<1>2. WroteSpace'
  BY <1>1, FS_EmptySet DEF WroteSpace
<1>3. NoDup(lh') /\ NoDup(dhead') /\ Len(dhead') <= LOGSIZE
  BY <1>1 DEF Space, NoDup
<1>4. Len(<<>>) = 0 /\ <<>> \in Seq(Sector)
  OBVIOUS
<1>5. QED
  BY <1>1, <1>2, <1>3, <1>4, SpaceNoCall

\* Recovery takes the header from the disk, and empties both.
LEMMA SpaceRecover ==
  ASSUME Control, Space, Recover
  PROVE  Space'
<1> USE LogAssumption DEF Control
<1>1. InOp' = {} /\ InOp = {} /\ outstanding' = 0 /\ outstanding = 0 /\ UNCHANGED <<held, wrote>>
  BY DEF Recover, read_head, recover_install, recover_erase, BootControl, InOp
<1>2. WroteSpace'
  BY <1>1 DEF Space, WroteSpace
<1>3. CASE read_head
  <2>1. lh' = dhead /\ dhead' = dhead
    BY <1>3 DEF read_head, disk
  <2>2. dhead \in Seq(Sector) /\ NoDup(lh') /\ NoDup(dhead') /\ Len(dhead) <= LOGSIZE
    BY <2>1 DEF Space, TypeOK, NoDup
  <2>3. QED
    BY <1>1, <1>2, <2>1, <2>2, SpaceNoCall
<1>4. CASE recover_install
  BY <1>1, <1>4, SpaceUnchanged DEF recover_install
<1>5. CASE recover_erase
  <2>1. lh' = <<>> /\ dhead' = <<>>
    BY <1>5 DEF recover_erase, EraseLog
  <2>2. NoDup(lh') /\ NoDup(dhead') /\ Len(<<>>) = 0 /\ <<>> \in Seq(Sector)
    BY <2>1 DEF NoDup
  <2>3. QED
    BY <1>1, <1>2, <2>1, <2>2, SpaceNoCall
<1>6. QED
  BY <1>3, <1>4, <1>5 DEF Recover

\* Every step keeps the reservations.
LEMMA SpaceStep ==
  ASSUME OpBlocks <= MAXOPBLOCKS
  PROVE  Control /\ Space /\ [Next]_vars => Space'
<1> SUFFICES ASSUME Control, Space, [Next]_vars PROVE Space'
  OBVIOUS
<1>1. ASSUME NEW s \in Sector, bread(s) \/ recycle(s) PROVE Space'
  <2>1. InOp' = InOp /\ UNCHANGED <<held, wrote, outstanding, lh, dhead>>
    BY <1>1 DEF bread, recycle, disk, InOp
  <2>2. QED BY <2>1, SpaceUnchanged
<1>2. CASE UNCHANGED vars
  BY <1>2, SpaceUnchanged DEF vars, disk, InOp
<1>3. QED
  BY <1>1, <1>2, SpaceBeginOp, SpaceModify, SpaceLogWrite, SpaceEndOp, SpaceCommit, SpaceCrash,
     SpaceRecover DEF Next

\* The reservations hold when the machine is started, on a log that is empty.
LEMMA SpaceInit == Init => Space
<1> SUFFICES ASSUME Init PROVE Space
  OBVIOUS
<1> USE LogAssumption
<1>1. /\ InOp = {} /\ outstanding = 0 /\ lh = <<>> /\ dhead = <<>>
      /\ wrote = [q \in Proc |-> {}] /\ held = [q \in Proc |-> NoSector]
  BY DEF Init, InOp
<1>2. Range(lh) \cup Pending = {} /\ Written = {}
  BY <1>1 DEF Range, Pending, Written
<1>3. outstanding * MAXOPBLOCKS = 0
  BY <1>1
<1>4. HeaderFits
  <2>1. Cardinality(Range(lh) \cup Pending) = 0 /\ Cardinality(Written) = 0
    BY <1>2, FS_EmptySet
  <2>2. QED BY <1>3, <2>1 DEF HeaderFits
<1>5. WroteSpace
  BY <1>1, FS_EmptySet DEF WroteSpace
<1>6. QED
  BY <1>1, <1>4, <1>5 DEF Space, NoDup

\* The reservations are kept in every state, by calls that keep to theirs.
LEMMA SpaceInvariant ==
  ASSUME OpBlocks <= MAXOPBLOCKS
  PROVE  Spec => []Control /\ []Space
BY SpaceInit, SpaceStep, ControlInit, ControlStep, PTL DEF Spec

-----------------------------------------------------------------------------
\* begin_op()'s test is enough: for any number of calls, and any sizes of the
\* log, log.lh.sector[] never runs out of places for calls that write no more
\* than the MAXOPBLOCKS they have reserved.
THEOREM HeaderNeverOverflows ==
  ASSUME OpBlocks <= MAXOPBLOCKS
  PROVE  Spec => []HeaderFits
<1>1. Space => HeaderFits
  BY DEF Space
<1>2. QED BY <1>1, SpaceInvariant, PTL

-----------------------------------------------------------------------------
\* The room that calls leave unused is kept by a step after which nobody is in a
\* call, if it is there in the two headers.
LEMMA MarginNoCall ==
  ASSUME outstanding' = 0, MarginOf(Len(lh')), MarginOf(Len(dhead')),
         boot' = "up" /\ ~committing' => lh' = <<>>,
         \A p \in Proc : pc'[p] = "end_commit" => lh' = <<>>
  PROVE  Margin'
BY DEF Margin, MarginOf

\* A step that leaves the calls and the headers alone.
LEMMA MarginUnchanged ==
  ASSUME Margin, InOp' = InOp, UNCHANGED <<boot, held, wrote, outstanding, committing, lh, dhead>>,
         \A p \in Proc : pc'[p] = "end_commit" => pc[p] = "end_commit"
  PROVE  Margin'
<1>1. Used' = Used /\ Written' = Written
  BY DEF Used, Pending, Written, Range
<1>2. QED BY <1>1 DEF Margin, MarginOf

\* begin_op() admits a call alone only when there is nothing in the header.
LEMMA MarginBeginOp ==
  ASSUME Control, Margin, NEW p \in Proc, begin_op(p)
  PROVE  Margin'
<1> USE LogAssumption DEF Control
<1>1. \A q \in Proc : pc'[q] = "end_commit" => pc[q] = "end_commit"
  BY DEF begin_op, TypeOK
<1>2. CASE MustWait
  <2>1. InOp' = InOp /\ UNCHANGED <<boot, held, wrote, outstanding, committing, lh, dhead>>
    BY <1>2 DEF begin_op, disk, TypeOK, InOp
  <2>2. QED BY <1>1, <2>1, MarginUnchanged
<1>3. CASE ~MustWait
  <2>1. /\ outstanding' = outstanding + 1 /\ wrote' = [wrote EXCEPT ![p] = {}]
        /\ UNCHANGED <<boot, held, committing, lh, dhead>> /\ boot = "up" /\ ~committing
    BY <1>3 DEF begin_op, disk, MustWait
  <2>2. InOp' = InOp \cup {p} /\ held[p] = NoSector
    BY <1>3 DEF begin_op, TypeOK, InOp, HeldControl
  <2>3. ASSUME outstanding = 0 PROVE Used' <= Cardinality(Written')
    <3>1. InOp = {} /\ lh = <<>>
      BY <2>1, <2>3, InOpCount DEF Margin
    <3>2. Pending' = {} /\ Range(lh') = {} /\ Written' = {}
      BY <2>1, <2>2, <3>1 DEF Pending, Range, Written, TypeOK
    <3>3. Range(lh') \cup Pending' = {}
      BY <3>2
    <3>4. Used' = 0 /\ Cardinality(Written') = 0
      BY <3>2, <3>3, FS_EmptySet DEF Used
    <3>5. QED BY <3>4
  <2>4. outstanding \in Nat
    BY DEF TypeOK
  <2>5. QED BY <1>1, <2>1, <2>3, <2>4 DEF Margin, MarginOf
<1>4. QED BY <1>2, <1>3

\* A call under way takes a new place in the header for a new block only.
LEMMA MarginModify ==
  ASSUME Control, Space, Margin, NEW p \in Proc, NEW s \in Sector, NEW v \in Val, modify(p, s, v)
  PROVE  Margin'
<1> USE LogAssumption DEF Control
<1>1. UNCHANGED <<boot, outstanding, committing, lh, dhead>>
  BY DEF modify, disk
<1>2. p \in InOp /\ \A q \in Proc : pc'[q] = "end_commit" => pc[q] = "end_commit"
  BY DEF modify, TypeOK, InOp
<1>3. outstanding # 0
  BY <1>2, InOpCount
<1>4. outstanding = 1 =>
        \/ Used' <= Cardinality(Written')
        \/ Used' + 2 * MAXOPBLOCKS <= LOGSIZE + OpBlocks + Cardinality(Written')
  BY ModifySizes DEF Margin
<1>5. QED BY <1>1, <1>2, <1>3, <1>4 DEF Margin, MarginOf

\* log_write() takes the place of a sector that was counted already.
LEMMA MarginLogWrite ==
  ASSUME Control, Margin, NEW p \in Proc, log_write(p)
  PROVE  Margin'
<1> USE LogAssumption DEF Control
<1>1. /\ held' = [held EXCEPT ![p] = NoSector]
      /\ UNCHANGED <<boot, wrote, outstanding, committing, dhead>>
  BY DEF log_write, disk
<1>2. InOp' = InOp /\ p \in InOp /\ held[p] \in Sector /\ held[p] # NoSector
  BY DEF log_write, TypeOK, InOp, HeldControl
<1>3. \A q \in Proc : pc'[q] # "end_commit"
  BY <1>2 DEF log_write, TypeOK, CommitAlone
<1>4. Range(lh') = Range(lh) \cup {held[p]}
  <2>1. lh \in Seq(Sector)
    BY DEF TypeOK
  <2>2. CASE held[p] \in Range(lh)
    BY <2>2 DEF log_write
  <2>3. CASE held[p] \notin Range(lh)
    <3>1. lh' = Append(lh, held[p])
      BY <2>3 DEF log_write
    <3>2. /\ DOMAIN lh' = 1..(Len(lh) + 1) /\ DOMAIN lh = 1..Len(lh) /\ Len(lh) \in Nat
          /\ \A i \in 1..(Len(lh) + 1) : lh'[i] = IF i = Len(lh) + 1 THEN held[p] ELSE lh[i]
      BY <1>2, <2>1, <3>1
    <3>3. QED BY <3>2 DEF Range
  <2>4. QED BY <2>2, <2>3
<1>5. Pending' = Pending \ {held[p]} /\ held[p] \in Pending
  BY <1>1, <1>2 DEF Pending, TypeOK, InOp, HeldControl
<1>6. Range(lh') \cup Pending' = Range(lh) \cup Pending
  BY <1>4, <1>5
<1>7. Used' = Used /\ Written' = Written
  BY <1>1, <1>2, <1>6 DEF Used, Written
<1>8. outstanding # 0
  BY <1>2, InOpCount
<1>9. QED BY <1>1, <1>3, <1>7, <1>8 DEF Margin, MarginOf

\* When one of two calls ends, what it has left unused stays free; when the last
\* one ends, so does what that one has left.
LEMMA MarginEndOp ==
  ASSUME Control, Space, Margin, NEW p \in Proc, end_op(p)
  PROVE  Margin'
<1> USE LogAssumption DEF Control
<1>1. /\ ~committing /\ p \in InOp
      /\ outstanding' = outstanding - 1 /\ UNCHANGED <<boot, held, wrote, lh, dhead>>
  BY DEF end_op, disk, CommitAlone, CountControl, InOp
<1>2. outstanding \in Nat /\ outstanding # 0 /\ Len(lh) \in Nat
  BY <1>1, InOpCount DEF TypeOK
<1>3. Len(lh) <= Used
  BY RangeSize, UnionSize DEF Space, TypeOK, Used
<1>4. ASSUME NEW q \in Proc, pc'[q] = "end_commit" PROVE lh' = <<>>
  <2>1. pc[q] # "end_commit"
    BY <1>1 DEF CommitAlone
  <2>2. q = p /\ NothingLogged
    BY <1>4, <2>1 DEF end_op, WakeupLog, TypeOK
  <2>3. QED BY <1>1, <2>2 DEF NothingLogged, TypeOK
<1>5. CASE outstanding = 1
  <2>1. outstanding' = 0 /\ committing'
    BY <1>1, <1>5 DEF end_op
  <2>2. MarginOf(Len(lh))
    <3>1. Cardinality(Written) \in Nat /\ Cardinality(Written) <= OpBlocks
      <4>1. 1 * OpBlocks = OpBlocks
        OBVIOUS
      <4>2. QED BY <1>5, <4>1, WrittenSize DEF Space
    <3>2. Used \in Nat
      BY EndOpSizes
    <3>3. \/ Used <= Cardinality(Written)
          \/ Used + 2 * MAXOPBLOCKS <= LOGSIZE + OpBlocks + Cardinality(Written)
      BY <1>5 DEF Margin
    <3>4. QED BY <1>2, <1>3, <3>1, <3>2, <3>3 DEF MarginOf
  <2>3. QED BY <1>1, <1>4, <2>1, <2>2, MarginNoCall DEF Margin
<1>6. CASE outstanding = 2
  <2>1. outstanding' = 1
    BY <1>1, <1>6
  <2>2. Used + 2 * MAXOPBLOCKS <= LOGSIZE + Cardinality(Written)
    BY <1>6 DEF Space, HeaderFits, Used
  <2>3. Used' + 2 * MAXOPBLOCKS <= LOGSIZE + OpBlocks + Cardinality(Written')
    BY <2>2, EndOpSizes
  <2>4. QED BY <1>1, <1>4, <2>1, <2>3 DEF Margin, MarginOf
<1>7. CASE outstanding > 2
  <2>1. outstanding' # 0 /\ outstanding' # 1
    BY <1>1, <1>2, <1>7
  <2>2. QED BY <1>1, <1>4, <2>1 DEF Margin, MarginOf
<1>8. QED BY <1>2, <1>5, <1>6, <1>7

\* commit() and recovery move a header as it is, or empty it.
LEMMA MarginHeads ==
  ASSUME Control, Margin, Crash \/ Recover \/ \E p \in Proc : Commit(p)
  PROVE  Margin'
<1> USE LogAssumption DEF Control
<1>1. MarginOf(Len(<<>>))
  BY DEF MarginOf
<1>2. CASE Crash
  <2>1. /\ outstanding' = 0 /\ lh' = <<>> /\ dhead' = dhead
    BY <1>2 DEF Crash, disk
  <2>2. QED BY <1>1, <2>1, MarginNoCall DEF Margin
<1>3. CASE Recover
  <2>1. /\ outstanding' = 0 /\ outstanding = 0 /\ UNCHANGED pc /\ \A p \in Proc : pc[p] = "user"
    BY <1>3 DEF Recover, read_head, recover_install, recover_erase, BootControl
  <2>2. /\ lh' \in {lh, dhead, <<>>} /\ dhead' \in {dhead, <<>>}
        /\ boot' = "up" => lh' = <<>>
    BY <1>3 DEF Recover, read_head, recover_install, recover_erase, EraseLog, disk
  <2>3. MarginOf(Len(lh')) /\ MarginOf(Len(dhead'))
    BY <1>1, <2>1, <2>2 DEF Margin
  <2>4. QED BY <2>1, <2>2, <2>3, MarginNoCall
<1>4. ASSUME NEW p \in Proc, Commit(p) PROVE Margin'
  <2>1. outstanding = 0 /\ pc[p] \in CommitPC
    BY <1>4, InOpCount DEF Commit, write_log, write_head, install_trans, erase, end_commit, CommitAlone
  <2>2. UNCHANGED outstanding
    BY <1>4 DEF Commit, write_log, write_head, install_trans, erase, end_commit
  <2>3. lh' \in {lh, <<>>} /\ dhead' \in {dhead, lh, <<>>}
    BY <1>4 DEF Commit, write_log, write_head, install_trans, erase, end_commit, EraseLog, disk
  <2>4. MarginOf(Len(lh')) /\ MarginOf(Len(dhead'))
    BY <1>1, <2>1, <2>3 DEF Margin
  <2>5. \A q \in Proc : pc[q] \in CommitPC => q = p
    BY <2>1 DEF CommitAlone
  <2>6. CASE end_commit(p)
    <3>1. lh' = <<>>
      BY <2>6 DEF end_commit, Margin
    <3>2. QED BY <2>1, <2>2, <2>4, <3>1, MarginNoCall
  <2>7. CASE erase(p)
    <3>1. lh' = <<>>
      BY <2>7 DEF erase, EraseLog
    <3>2. QED BY <2>1, <2>2, <2>4, <3>1, MarginNoCall
  <2>8. CASE write_log(p) \/ write_head(p) \/ install_trans(p)
    <3>1. committing' /\ \A q \in Proc : pc'[q] # "end_commit"
      BY <2>1, <2>5, <2>8 DEF write_log, write_head, install_trans, TypeOK, CountControl
    <3>2. QED BY <2>1, <2>2, <2>4, <3>1, MarginNoCall
  <2>9. QED BY <1>4, <2>6, <2>7, <2>8 DEF Commit
<1>5. QED BY <1>2, <1>3, <1>4

\* What the calls of a transaction leave unused is there in every state.
LEMMA MarginInvariant ==
  ASSUME OpBlocks <= MAXOPBLOCKS
  PROVE  Spec => []Control /\ []Space /\ []Margin
<1>1. Init => Margin
  <2> SUFFICES ASSUME Init PROVE Margin
    OBVIOUS
  <2>1. outstanding = 0 /\ lh = <<>> /\ dhead = <<>> /\ MarginOf(Len(<<>>))
    BY LogAssumption DEF Init, MarginOf
  <2>2. QED BY <2>1 DEF Margin
<1>2. Control /\ Space /\ Margin /\ [Next]_vars => Margin'
  <2> SUFFICES ASSUME Control, Space, Margin, [Next]_vars PROVE Margin'
    OBVIOUS
  <2>1. ASSUME NEW s \in Sector, bread(s) \/ recycle(s) PROVE Margin'
    <3>1. InOp' = InOp /\ UNCHANGED <<boot, pc, held, wrote, outstanding, committing, lh, dhead>>
      BY <2>1 DEF bread, recycle, disk, InOp
    <3>2. QED BY <3>1, MarginUnchanged
  <2>2. CASE UNCHANGED vars
    BY <2>2, MarginUnchanged DEF vars, disk, InOp
  <2>3. QED
    BY <2>1, <2>2, MarginBeginOp, MarginModify, MarginLogWrite, MarginEndOp, MarginHeads DEF Next
<1>3. QED BY <1>1, <1>2, SpaceInvariant, PTL DEF Spec

-----------------------------------------------------------------------------
\* Calls that leave a block of their reservation unused never fill the log area
\* that mkfs makes (nlog = LOGSIZE, of which one block is the header), and while
\* one is under way there is room for two blocks, or it is alone.
LEMMA MadeLogFits ==
  ASSUME Control, Space, Margin, OpBlocks < MAXOPBLOCKS, MAXOPBLOCKS < LOGSIZE, LOGSIZE <= NLOG
  PROVE  LogFits /\ (outstanding # 0 => Len(lh) + 2 <= LOGSIZE)
<1> USE LogAssumption DEF Control
<1>1. outstanding \in Nat /\ Len(lh) \in Nat
  BY DEF TypeOK
<1>2. CASE outstanding = 0
  BY <1>1, <1>2 DEF Margin, MarginOf, LogFits
<1>3. Used \in Nat /\ Len(lh) <= Used
  BY RangeSize, UnionSize DEF Space, TypeOK, Used
<1>4. Cardinality(Written) \in Nat /\ Cardinality(Written) <= outstanding * OpBlocks
  BY WrittenSize DEF Space
<1>5. CASE outstanding = 1
  <2>1. 1 * OpBlocks = OpBlocks
    OBVIOUS
  <2>2. \/ Used <= Cardinality(Written)
        \/ Used + 2 * MAXOPBLOCKS <= LOGSIZE + OpBlocks + Cardinality(Written)
    BY <1>5 DEF Margin
  <2>3. Len(lh) + 2 <= LOGSIZE
    BY <1>1, <1>3, <1>4, <1>5, <2>1, <2>2
  <2>4. QED BY <1>1, <2>3 DEF LogFits
<1>6. CASE outstanding > 1
  <2>1. PICK d \in Nat : MAXOPBLOCKS = OpBlocks + 1 + d
    <3>1. MAXOPBLOCKS - OpBlocks - 1 \in Nat /\ MAXOPBLOCKS = OpBlocks + 1 + (MAXOPBLOCKS - OpBlocks - 1)
      OBVIOUS
    <3>2. QED BY <3>1
  <2>2. /\ outstanding * MAXOPBLOCKS = outstanding * OpBlocks + outstanding + outstanding * d
        /\ outstanding * d \in Nat /\ outstanding * OpBlocks \in Nat
    BY <1>1, <2>1
  <2>3. Used + outstanding * MAXOPBLOCKS <= LOGSIZE + Cardinality(Written)
    BY DEF Space, HeaderFits, Used
  <2>4. Len(lh) + 2 <= LOGSIZE
    BY <1>1, <1>3, <1>4, <1>6, <2>2, <2>3
  <2>5. QED BY <1>1, <2>4 DEF LogFits
<1>7. QED BY <1>1, <1>2, <1>5, <1>6

\* On the log area that mkfs makes, commit() and recovery are one atomic update
\* of the disk for calls that log at least one block less than MAXOPBLOCKS.  For
\* calls that use up their reservation it is one block too short: two of them can
\* pass the unlocked test of log_write() together.
THEOREM MadeLogIsAtomic ==
  ASSUME OpBlocks < MAXOPBLOCKS, MAXOPBLOCKS < LOGSIZE, LOGSIZE <= NLOG
  PROVE  Spec => AtomicUpdates
<1>1. OpBlocks <= MAXOPBLOCKS
  BY LogAssumption
<1>2. Control /\ Space /\ Margin => LogFits
  BY MadeLogFits
<1>3. QED BY <1>1, <1>2, MarginInvariant, LogIsAtomic, PTL

\* On that log area the same calls never make log_write() panic with "too big a
\* transaction", although it tests log.lh.n before it looks whether the block is
\* in the header already.
THEOREM MadeLogNeverPanics ==
  ASSUME OpBlocks < MAXOPBLOCKS, MAXOPBLOCKS < LOGSIZE, LOGSIZE <= NLOG
  PROVE  Spec => []NoPanic
<1> USE LogAssumption
<1>1. OpBlocks <= MAXOPBLOCKS
  OBVIOUS
<1>2. Init => NoPanic
  BY DEF Init, NoPanic
<1>3. Control /\ Space /\ Margin /\ NoPanic /\ [Next]_vars => NoPanic'
  <2> SUFFICES ASSUME Control, Space, Margin, NoPanic, [Next]_vars PROVE NoPanic'
    OBVIOUS
  <2>1. ASSUME NEW p \in Proc, NEW s \in Sector, NEW v \in Val, modify(p, s, v) PROVE NoPanic'
    <3>1. p \in InOp /\ outstanding \in Nat /\ outstanding # 0 /\ Len(lh) \in Nat
      BY <2>1, InOpCount DEF modify, InOp, Control, TypeOK
    <3>2. Len(lh) + 2 <= LOGSIZE
      BY <3>1, MadeLogFits
    <3>3. ~TooBig
      BY <3>1, <3>2 DEF TooBig
    <3>4. QED
      BY <2>1, <3>3 DEF modify, NoPanic, Control, TypeOK
  <2>2. ASSUME NEW p \in Proc, end_op(p) PROVE NoPanic'
    <3>1. ~committing
      BY <2>2 DEF end_op, Control, CommitAlone, CountControl, InOp
    <3>2. QED
      BY <2>2, <3>1 DEF end_op, WakeupLog, NoPanic, Control, TypeOK
  <2>3. ASSUME NEW p \in Proc, begin_op(p) \/ log_write(p) \/ Commit(p) PROVE NoPanic'
    BY <2>3 DEF begin_op, log_write, Commit, write_log, write_head, install_trans, erase, end_commit,
       WakeupLog, NoPanic, Control, TypeOK
  <2>4. CASE Crash \/ Recover \/ UNCHANGED vars \/ \E s \in Sector : bread(s) \/ recycle(s)
    BY <2>4 DEF Crash, Recover, read_head, recover_install, recover_erase, bread, recycle, vars, NoPanic
  <2>5. QED
    BY <2>1, <2>2, <2>3, <2>4 DEF Next
<1>4. QED
  BY <1>1, <1>2, <1>3, MarginInvariant, PTL DEF Spec
=============================================================================
