---------------------------- MODULE LogRefinement ---------------------------
(***************************************************************************)
(* What the invariant of LogProofs is for: the log is synchronous, and it  *)
(* implements AtomicDisk, for every value of the constants.                *)
(***************************************************************************)
EXTENDS LogDataProofs

USE DEF InOpPC, CommitPC, PC, LogBlock

\* What recovery brings back, sector by sector.
LEMMA RecoveredAt ==
  ASSUME NEW head \in Seq(Sector), NEW blocks, NEW homes, NoDup(head)
  PROVE  LET R == Recovered(head, blocks, homes)
         IN  /\ \A i \in DOMAIN head : R[head[i]] = blocks[i]
             /\ \A s \in Sector : s \notin Range(head) => R[s] = homes[s]
<1>1. ASSUME NEW i \in DOMAIN head PROVE Recovered(head, blocks, homes)[head[i]] = blocks[i]
  <2>1. head[i] \in Sector /\ head[i] \in Range(head)
    BY DEF Range
  <2>2. (CHOOSE j \in DOMAIN head : head[j] = head[i]) = i
    BY DEF NoDup
  <2>3. QED
    BY <2>1, <2>2 DEF Recovered
<1>2. QED
  BY <1>1 DEF Recovered

\* With an empty header recovery leaves every sector as it is.
LEMMA RecoveredEmpty ==
  ASSUME NEW blocks, NEW homes
  PROVE  Recovered(<<>>, blocks, homes) = [s \in Sector |-> homes[s]]
<1>1. Range(<<>>) = {}
  BY DEF Range
<1>2. QED
  BY <1>1 DEF Recovered

\* It is the same once all blocks are installed.
LEMMA RecoveredInstalled ==
  ASSUME NEW head \in Seq(Sector), NEW blocks, NEW homes, NoDup(head),
         \A i \in DOMAIN head : homes[head[i]] = blocks[i]
  PROVE  Recovered(head, blocks, homes) = [s \in Sector |-> homes[s]]
<1> DEFINE R == Recovered(head, blocks, homes)
<1>1. /\ \A i \in DOMAIN head : R[head[i]] = blocks[i]
      /\ \A s \in Sector : s \notin Range(head) => R[s] = homes[s]
  BY RecoveredAt
<1>2. \A s \in Range(head) : \E i \in DOMAIN head : s = head[i]
  BY DEF Range
<1>3. \A s \in Sector : R[s] = homes[s]
  BY <1>1, <1>2
<1>4. QED
  BY <1>3 DEF Recovered

\* Installing a block changes nothing of what recovery brings back.
LEMMA RecoveredInstall ==
  ASSUME NEW head \in Seq(Sector), NEW blocks, NEW homes, NEW homes2,
         NEW k \in DOMAIN head, homes2 = [homes EXCEPT ![head[k]] = blocks[k]]
  PROVE  Recovered(head, blocks, homes2) = Recovered(head, blocks, homes)
<1>1. head[k] \in Range(head)
  BY DEF Range
<1>2. \A s \in Sector : s \notin Range(head) => homes2[s] = homes[s]
  BY <1>1
<1>3. QED
  BY <1>2 DEF Recovered

\* log.c:29 for every number of processes and every log size: when no call is
\* in progress, everything that was written is durable.
THEOREM SynchronousLog == Spec /\ []LogFits => []QuiescentDurable
<1>1. IInv => QuiescentDurable
  <2> SUFFICES ASSUME IInv, boot = "up", outstanding = 0, ~committing
               PROVE  Durable = View
    BY DEF QuiescentDurable
  <2>1. \A p \in Proc : held[p] = NoSector /\ pc[p] \notin CommitPC
    BY InOpCount DEF IInv, Control, HeldControl, CountControl, InOp
  <2>2. lh = <<>> /\ dhead = <<>> /\ dirty = {}
    BY <2>1 DEF IInv, Data, HeadData, DirtyData, Range
  <2>3. \A s \in Sector : Durable[s] = home[s] /\ View[s] = home[s]
    BY <2>1, <2>2, LogAssumption
    DEF IInv, Data, CacheData, Control, TypeOK, Busy, View, Bread, Durable, Recovered, Range
  <2>4. QED
    BY <2>3 DEF Durable, Recovered, View
<1>2. QED
  BY <1>1, IInvInvariant, PTL

\* Every step of the log is a step of the atomic disk, or changes nothing of it.
LEMMA RefinementStep ==
  IInv /\ LogFits /\ [Next]_vars => [Abstract!Next]_(Abstract!vars)
<1> SUFFICES ASSUME IInv, LogFits, [Next]_vars
             PROVE  [Abstract!Next]_(Abstract!vars)
  OBVIOUS
<1> USE LogAssumption DEF IInv, Control, Data
<1> DEFINE Stutter == UNCHANGED <<Seen, Durable, InOp>>
<1>0. ASSUME Stutter PROVE [Abstract!Next]_(Abstract!vars)
  BY <1>0 DEF Abstract!vars
<1>1. ASSUME NEW p \in Proc, begin_op(p) PROVE [Abstract!Next]_(Abstract!vars)
  <2>1. Seen' = Seen /\ Durable' = Durable
    BY <1>1 DEF begin_op, disk, Seen, View, Bread, Durable
  <2>2. CASE MustWait
    <3>1. InOp' = InOp
      BY <1>1, <2>2 DEF begin_op, TypeOK, InOp
    <3>2. QED BY <2>1, <3>1, <1>0
  <2>3. CASE ~MustWait
    <3>1. InOp' = InOp \cup {p} /\ p \notin InOp
      BY <1>1, <2>3 DEF begin_op, TypeOK, InOp
    <3>2. Abstract!Begin(p)
      BY <2>1, <3>1 DEF Abstract!Begin
    <3>3. QED BY <3>2 DEF Abstract!Next
  <2>4. QED BY <2>2, <2>3
<1>2. ASSUME NEW p \in Proc, NEW s \in Sector, NEW v \in Val, modify(p, s, v)
      PROVE  [Abstract!Next]_(Abstract!vars)
  <2>1. Durable' = Durable /\ boot = "up" /\ boot' = boot
    BY <1>2 DEF modify, disk, Durable, BootControl
  <2>2. InOp' = InOp /\ p \in InOp
    BY <1>2 DEF modify, TypeOK, InOp
  <2>3. View' = [View EXCEPT ![s] = v]
    BY <1>2 DEF modify, disk, TypeOK, View, Bread
  <2>4. Abstract!Write(p, s, v)
    BY <2>1, <2>2, <2>3 DEF Abstract!Write, Seen
  <2>5. QED BY <2>4 DEF Abstract!Next
<1>3. ASSUME NEW p \in Proc, log_write(p) PROVE [Abstract!Next]_(Abstract!vars)
  <2>1. Stutter
    BY <1>3 DEF log_write, disk, TypeOK, Seen, View, Bread, Durable, InOp
  <2>2. QED BY <2>1, <1>0
<1>4. ASSUME NEW p \in Proc, end_op(p) PROVE [Abstract!Next]_(Abstract!vars)
  <2>1. Seen' = Seen /\ Durable' = Durable
    BY <1>4 DEF end_op, disk, Seen, View, Bread, Durable
  <2>2. ~committing /\ p \in InOp
    BY <1>4 DEF end_op, TypeOK, CommitAlone, CountControl, InOp
  <2>3. InOp' = InOp \ {p}
    BY <1>4, <2>2 DEF end_op, WakeupLog, TypeOK, InOp
  <2>4. Abstract!End(p)
    BY <2>1, <2>2, <2>3 DEF Abstract!End
  <2>5. QED BY <2>4 DEF Abstract!Next
<1>5. ASSUME NEW p \in Proc, write_log(p) PROVE [Abstract!Next]_(Abstract!vars)
  <2>1. dhead = <<>> /\ dhead' = <<>> /\ home' = home /\ boot' = boot /\ boot = "up"
    BY <1>5 DEF write_log, HeadData, BootControl, CommitAlone
  <2>2. Durable' = Durable
    BY <2>1, RecoveredEmpty DEF Durable
  <2>3. View' = View
    BY <1>5, <2>1 DEF write_log, TypeOK, TailControl, View, Bread
  <2>4. InOp' = InOp
    BY <1>5 DEF write_log, TypeOK, InOp
  <2>5. QED BY <2>1, <2>2, <2>3, <2>4, <1>0 DEF Seen
<1>6. ASSUME NEW p \in Proc, write_head(p) PROVE [Abstract!Next]_(Abstract!vars)
  <2>1. dhead' = lh /\ UNCHANGED <<home, dlog, cache, boot>> /\ boot = "up"
    BY <1>6 DEF write_head, BootControl
  <2>2. InOp = {} /\ InOp' = InOp /\ \A q \in Proc : held[q] = NoSector
    BY <1>6 DEF write_head, TypeOK, CommitAlone, InOp, HeldControl
  <2>3. /\ lh \in Seq(Sector) /\ NoDup(lh)
        /\ \A i \in DOMAIN lh : dlog[i] = cache[lh[i]]
    BY <1>6 DEF write_head, TypeOK, CopyData, HeadData
  <2>4. dirty = Range(lh)
    BY <1>6 DEF write_head, DirtyData, CommitAlone, BootControl
  <2>5. \A s \in Sector : Durable'[s] = View[s]
    <3>1. Durable' = Recovered(lh, dlog, home)
      BY <2>1 DEF Durable
    <3>2. /\ \A i \in DOMAIN lh : Durable'[lh[i]] = dlog[i]
          /\ \A s \in Sector : s \notin Range(lh) => Durable'[s] = home[s]
      BY <2>3, <3>1, RecoveredAt
    <3>3. \A s \in Sector : s \in Range(lh) => \E i \in DOMAIN lh : lh[i] = s
      BY DEF Range
    <3>4. ASSUME NEW s \in Sector, s \in Range(lh) PROVE Durable'[s] = View[s]
      BY <2>3, <2>4, <3>2, <3>3, <3>4 DEF View, Bread, CacheData
    <3>5. ASSUME NEW s \in Sector, s \notin Range(lh) PROVE Durable'[s] = View[s]
      BY <2>2, <2>4, <3>2, <3>5 DEF View, Bread, CacheData, Busy
    <3>6. QED BY <3>4, <3>5
  <2>6. Durable' = Seen /\ Seen' = Seen
    BY <2>1, <2>5 DEF Durable, Recovered, Seen, View, Bread
  <2>7. Abstract!Commit
    BY <2>2, <2>6 DEF Abstract!Commit
  <2>8. QED BY <2>7 DEF Abstract!Next
<1>7. ASSUME NEW p \in Proc, install_trans(p) PROVE [Abstract!Next]_(Abstract!vars)
  <2>1. /\ dhead = lh /\ tail \in DOMAIN lh /\ lh[tail] \in Sector /\ tail \in LogBlock
        /\ cache[lh[tail]] = dlog[tail] /\ boot = "up" /\ cache[lh[tail]] # NotCached
    <3>1. dhead = lh /\ tail \in DOMAIN lh /\ lh[tail] \in Sector /\ tail \in LogBlock
      BY <1>7 DEF install_trans, TypeOK, TailControl, HeadData, LogFits
    <3>2. cache[lh[tail]] = dlog[tail] /\ boot = "up"
      BY <1>7, <3>1 DEF install_trans, CopyData, BootControl
    <3>3. QED
      BY <3>1, <3>2 DEF TypeOK
  <2>2. /\ home' = [home EXCEPT ![lh[tail]] = dlog[tail]]
        /\ cache' = [cache EXCEPT ![lh[tail]] = dlog[tail]]
        /\ UNCHANGED <<boot, lh, dlog, dhead>>
    BY <1>7, <2>1 DEF install_trans, InstallBlock, LogData
  <2>3. View' = View
    BY <2>1, <2>2 DEF View, Bread, TypeOK
  <2>4. Durable' = Durable
    <3>1. lh \in Seq(Sector)
      BY DEF TypeOK
    <3>2. Durable = Recovered(lh, dlog, home) /\ Durable' = Recovered(lh, dlog, home')
      BY <2>1, <2>2 DEF Durable
    <3>3. Recovered(lh, dlog, home') = Recovered(lh, dlog, home)
      BY <2>1, <2>2, <3>1, RecoveredInstall
    <3>4. QED BY <3>2, <3>3
  <2>5. InOp' = InOp
    BY <1>7 DEF install_trans, TypeOK, InOp
  <2>6. QED BY <2>1, <2>2, <2>3, <2>4, <2>5, <1>0 DEF Seen
<1>8. ASSUME NEW p \in Proc, erase(p) PROVE [Abstract!Next]_(Abstract!vars)
  <2>1. /\ dhead = lh /\ dhead' = <<>> /\ UNCHANGED <<home, dlog, cache, boot>> /\ boot = "up"
        /\ \A i \in DOMAIN lh : home[lh[i]] = dlog[i]
    BY <1>8 DEF erase, EraseLog, HeadData, CopyData, BootControl
  <2>2. lh \in Seq(Sector) /\ NoDup(lh)
    BY DEF TypeOK, HeadData
  <2>3. Durable' = Durable
    BY <2>1, <2>2, RecoveredInstalled, RecoveredEmpty DEF Durable
  <2>4. InOp' = InOp /\ View' = View
    BY <1>8, <2>1 DEF erase, TypeOK, InOp, View, Bread
  <2>5. QED BY <2>1, <2>3, <2>4, <1>0 DEF Seen
<1>9. ASSUME NEW p \in Proc, end_commit(p) PROVE [Abstract!Next]_(Abstract!vars)
  <2>1. Seen' = Seen /\ Durable' = Durable
    BY <1>9 DEF end_commit, disk, Seen, View, Bread, Durable
  <2>2. InOp' = InOp
    BY <1>9 DEF end_commit, WakeupLog, TypeOK, InOp
  <2>3. QED BY <2>1, <2>2, <1>0
<1>10. ASSUME NEW s \in Sector, bread(s) PROVE [Abstract!Next]_(Abstract!vars)
  <2>1. View' = View
    BY <1>10 DEF bread, disk, TypeOK, View, Bread
  <2>2. QED
    BY <1>10, <2>1, <1>0 DEF bread, disk, Seen, Durable, InOp
<1>11. ASSUME NEW s \in Sector, recycle(s) PROVE [Abstract!Next]_(Abstract!vars)
  <2>1. cache[s] = home[s] /\ cache' = [cache EXCEPT ![s] = NotCached] /\ home' = home
    BY <1>11 DEF recycle, disk, CacheData
  <2>2. View' = View
    BY <2>1 DEF TypeOK, View, Bread
  <2>3. QED
    BY <1>11, <2>2, <1>0 DEF recycle, disk, Seen, Durable, InOp
<1>12. ASSUME Crash PROVE [Abstract!Next]_(Abstract!vars)
  <2>1. boot' # "up" /\ Durable' = Durable /\ InOp' = {}
    BY <1>12 DEF Crash, disk, Durable, InOp
  <2>2. Abstract!Crash
    BY <2>1 DEF Abstract!Crash, Seen
  <2>3. QED BY <2>2 DEF Abstract!Next
<1>13. ASSUME read_head PROVE [Abstract!Next]_(Abstract!vars)
  <2>1. Stutter
    BY <1>13 DEF read_head, disk, Seen, Durable, InOp
  <2>2. QED BY <2>1, <1>0
<1>14. ASSUME recover_install PROVE [Abstract!Next]_(Abstract!vars)
  <2>1. dhead = lh /\ tail \in DOMAIN lh /\ lh[tail] \in Sector /\ tail \in LogBlock
    BY <1>14 DEF recover_install, TypeOK, HeadData, LogFits
  <2>2. /\ home' = [home EXCEPT ![lh[tail]] = dlog[tail]]
        /\ UNCHANGED <<boot, pc, lh, dlog, dhead>> /\ boot # "up"
    BY <1>14, <2>1 DEF recover_install, InstallBlock, LogData
  <2>3. Durable' = Durable
    <3>1. lh \in Seq(Sector)
      BY DEF TypeOK
    <3>2. Durable = Recovered(lh, dlog, home) /\ Durable' = Recovered(lh, dlog, home')
      BY <2>1, <2>2 DEF Durable
    <3>3. Recovered(lh, dlog, home') = Recovered(lh, dlog, home)
      BY <2>1, <2>2, <3>1, RecoveredInstall
    <3>4. QED BY <3>2, <3>3
  <2>4. QED BY <2>2, <2>3, <1>0 DEF Seen, InOp
<1>15. ASSUME recover_erase PROVE [Abstract!Next]_(Abstract!vars)
  <2>1. /\ dhead = lh /\ dhead' = <<>> /\ UNCHANGED <<home, dlog, cache, pc>>
        /\ boot = "install_trans" /\ boot' = "up"
        /\ \A i \in DOMAIN lh : home[lh[i]] = dlog[i]
    <3>1. /\ dhead' = <<>> /\ UNCHANGED <<home, dlog, cache, pc>> /\ tail > Len(lh)
          /\ boot = "install_trans" /\ boot' = "up"
      BY <1>15 DEF recover_erase, EraseLog
    <3>2. dhead = lh /\ \A i \in DOMAIN lh : i < tail => home[lh[i]] = dlog[i]
      BY <3>1 DEF HeadData, CopyData
    <3>3. \A i \in DOMAIN lh : i < tail
      BY <3>1 DEF TypeOK
    <3>4. QED
      BY <3>1, <3>2, <3>3
  <2>2. lh \in Seq(Sector) /\ NoDup(lh)
    BY DEF TypeOK, HeadData
  <2>3. View' = [s \in Sector |-> home[s]]
    <3>1. \A s \in Sector : cache[s] # NotCached => cache[s] = home[s]
      BY <2>1 DEF CacheData, BootControl, Busy
    <3>2. QED
      BY <2>1, <3>1 DEF View, Bread
  <2>4. Durable' = Durable /\ View' = Durable
    BY <2>1, <2>2, <2>3, RecoveredInstalled, RecoveredEmpty DEF Durable
  <2>5. QED BY <2>1, <2>4, <1>0 DEF Seen, InOp
<1>16. CASE UNCHANGED vars
  BY <1>16, <1>0 DEF vars, disk, Seen, View, Bread, Durable, InOp
<1>17. QED
  BY <1>1, <1>2, <1>3, <1>4, <1>5, <1>6, <1>7, <1>8, <1>9, <1>10, <1>11, <1>12, <1>13, <1>14,
     <1>15, <1>16 DEF Next, Commit, Recover

\* The log implements the atomic disk for every number of processes, sectors
\* and blocks, with a crash before any disk write, as long as no transaction is
\* larger than the log on disk.
THEOREM LogIsAtomic == Spec /\ []LogFits => AtomicUpdates
<1>1. Init => Abstract!Init
  <2> SUFFICES ASSUME Init PROVE Abstract!Init
    OBVIOUS
  <2>1. Durable = home /\ home \in [Sector -> Val] /\ InOp = {} /\ Seen = Durable
    BY DEF Init, Durable, Recovered, Range, InOp, Seen
  <2>2. QED BY <2>1 DEF Abstract!Init
<1>2. QED
  BY <1>1, RefinementStep, IInvInvariant, PTL DEF Spec, AtomicUpdates, Abstract!Spec
=============================================================================
