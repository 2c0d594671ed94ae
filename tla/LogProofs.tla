------------------------------ MODULE LogProofs -----------------------------
(***************************************************************************)
(* Proofs about Log, for every value of its constants: the control part of *)
(* the invariant, one lemma for each action.  LogDataProofs and            *)
(* LogRefinement build on them.                                            *)
(***************************************************************************)
EXTENDS LogInv, FiniteSetTheorems, TLAPS

USE DEF InOpPC, CommitPC, PC, LogBlock

\* log.outstanding is the number of calls in progress, so it is 0 exactly when
\* there is none.
LEMMA InOpCount ==
  ASSUME TypeOK, CountControl
  PROVE  /\ IsFiniteSet(InOp)
         /\ Cardinality(InOp) \in Nat
         /\ outstanding = 0 <=> InOp = {}
<1>1. IsFiniteSet(InOp)
  BY LogAssumption, FS_Subset DEF InOp
<1>2. QED
  BY <1>1, FS_CardinalityType, FS_EmptySet DEF CountControl

\* begin_op(), waiting or entering, keeps the control part.
LEMMA ControlBeginOp ==
  ASSUME Control, NEW p \in Proc, begin_op(p)
  PROVE  Control'
<1> USE LogAssumption DEF Control
<1>1. TypeOK'
  <2>1. CASE MustWait
    BY <2>1 DEF begin_op, disk, TypeOK
  <2>2. CASE ~MustWait
    <3>1. wrote' \in [Proc -> SUBSET Sector]
      BY <2>2, Zenon DEF begin_op, TypeOK
    <3>2. outstanding' \in Nat
      BY <2>2 DEF begin_op, TypeOK
    <3>3. pc' \in [Proc -> PC]
      BY <2>2, Zenon DEF begin_op, TypeOK
    <3>4. UNCHANGED <<boot, held, committing, lh, tail, cache, dirty, home, dlog, dhead>>
      BY DEF begin_op, disk
    <3>5. QED
      BY <3>1, <3>2, <3>3, <3>4 DEF TypeOK
  <2>3. QED BY <2>1, <2>2
<1>2. CommitAlone'
  BY DEF begin_op, MustWait, TypeOK, CommitAlone, InOp, CountControl
<1>3. BootControl'
  BY DEF begin_op, TypeOK, BootControl
<1>4. CountControl'
  <2>1. CASE MustWait
    <3>1. InOp' = InOp
      BY <2>1 DEF begin_op, TypeOK, InOp
    <3>2. QED
      BY <2>1, <3>1 DEF begin_op, TypeOK, CountControl
  <2>2. CASE ~MustWait
    <3>1. InOp' = InOp \cup {p} /\ p \notin InOp
      BY <2>2 DEF begin_op, TypeOK, InOp
    <3>2. Cardinality(InOp') = outstanding + 1
      BY <3>1, InOpCount, FS_AddElement DEF CountControl
    <3>3. QED
      BY <2>2, <3>2 DEF begin_op, TypeOK, CountControl
  <2>3. QED BY <2>1, <2>2
<1>5. HeldControl'
  BY DEF begin_op, TypeOK, HeldControl, BootControl
<1>6. TailControl'
  BY DEF begin_op, TypeOK, TailControl
<1>7. QED BY <1>1, <1>2, <1>3, <1>4, <1>5, <1>6

\* The change of a buffer between bread() and log_write() keeps the control part.
LEMMA ControlModify ==
  ASSUME Control, NEW p \in Proc, NEW s \in Sector, NEW v \in Val, modify(p, s, v)
  PROVE  Control'
<1> USE LogAssumption DEF Control
<1>1. TypeOK'
  BY DEF modify, disk, TypeOK
<1>2. CommitAlone'
  BY DEF modify, CommitAlone, InOp
<1>3. BootControl'
  BY DEF modify, Busy, TypeOK, BootControl
<1>4. CountControl'
  BY DEF modify, CountControl, InOp
<1>5. HeldControl'
  BY DEF modify, Busy, TypeOK, HeldControl
<1>6. TailControl'
  BY DEF modify, TailControl
<1>7. QED BY <1>1, <1>2, <1>3, <1>4, <1>5, <1>6

\* log_write() keeps the control part.
LEMMA ControlLogWrite ==
  ASSUME Control, NEW p \in Proc, log_write(p)
  PROVE  Control'
<1> USE LogAssumption DEF Control
<1>1. TypeOK'
  BY DEF log_write, disk, TypeOK, HeldControl
<1>2. CommitAlone'
  BY DEF log_write, CommitAlone, InOp
<1>3. BootControl'
  BY DEF log_write, Range, TypeOK, BootControl
<1>4. CountControl'
  <2>1. InOp' = InOp
    BY DEF log_write, TypeOK, InOp
  <2>2. \A q \in Proc : pc'[q] \in CommitPC <=> pc[q] \in CommitPC
    BY DEF log_write, TypeOK
  <2>3. QED
    BY <2>1, <2>2 DEF log_write, CountControl
<1>5. HeldControl'
  BY DEF log_write, TypeOK, HeldControl
<1>6. TailControl'
  BY DEF log_write, TypeOK, TailControl
<1>7. QED BY <1>1, <1>2, <1>3, <1>4, <1>5, <1>6

\* end_op(), the last one of a group or not, keeps the control part.
LEMMA ControlEndOp ==
  ASSUME Control, NEW p \in Proc, end_op(p)
  PROVE  Control'
<1> USE LogAssumption DEF Control
<1>a. ~committing /\ p \in InOp
  BY DEF end_op, CommitAlone, CountControl, InOp
<1>b. InOp' = InOp \ {p}
  BY <1>a DEF end_op, WakeupLog, TypeOK, InOp
<1>c. /\ Cardinality(InOp') = outstanding - 1
      /\ outstanding \in Nat \ {0}
      /\ outstanding = 1 => InOp' = {}
  <2>1. IsFiniteSet(InOp) /\ Cardinality(InOp) \in Nat /\ outstanding = Cardinality(InOp)
    BY InOpCount DEF CountControl
  <2>2. Cardinality(InOp') = Cardinality(InOp) - 1
    BY <1>a, <1>b, <2>1, FS_RemoveElement
  <2>3. outstanding # 0
    BY <1>a, InOpCount
  <2>4. IsFiniteSet(InOp')
    BY <1>b, <2>1, FS_RemoveElement
  <2>5. Cardinality(InOp') = 0 => InOp' = {}
    BY <2>4, FS_EmptySet
  <2>6. QED
    BY <2>1, <2>2, <2>3, <2>5
<1>1. TypeOK'
  <2>1. outstanding' \in Nat
    BY <1>c DEF end_op
  <2>2. pc' \in [Proc -> PC] /\ committing' \in BOOLEAN /\ tail' \in Nat \ {0}
    <3>1. CASE WakeupLog(p, "user") /\ UNCHANGED <<committing, tail>>
      BY <3>1 DEF WakeupLog, TypeOK
    <3>2. CASE outstanding = 1
      <4>1. pc' \in [Proc -> PC]
        BY <1>a, <3>2, Zenon DEF end_op, TypeOK
      <4>2. committing' \in BOOLEAN /\ tail' = 1
        BY <1>a, <3>2, Zenon DEF end_op
      <4>3. QED BY <4>1, <4>2
    <3>3. QED
      BY <1>a, <3>1, <3>2 DEF end_op
  <2>3. QED
    BY <2>1, <2>2 DEF end_op, disk, TypeOK
<1>2. CommitAlone'
  BY <1>a, <1>b, <1>c DEF end_op, WakeupLog, TypeOK, CommitAlone
<1>3. BootControl'
  BY <1>a, <1>b, <1>c DEF end_op, WakeupLog, TypeOK, BootControl
<1>4. CountControl'
  BY <1>a, <1>b, <1>c DEF end_op, WakeupLog, TypeOK, CountControl
<1>5. HeldControl'
  BY <1>a, <1>b, <1>c DEF end_op, WakeupLog, TypeOK, HeldControl
<1>6. TailControl'
  <2>1. \A q \in Proc : pc[q] \notin CommitPC
    BY <1>a DEF CountControl
  <2>2. lh' = lh /\ Len(lh) \in Nat /\ pc \in [Proc -> PC]
    BY DEF end_op, TypeOK
  <2>3. CASE outstanding = 1
    <3>1. /\ tail' = 1
          /\ pc' = [pc EXCEPT ![p] = IF NothingLogged THEN "end_commit" ELSE "write_log"]
      BY <1>a, <2>3 DEF end_op
    <3>2. QED
      BY <2>1, <2>2, <3>1 DEF NothingLogged, TailControl
  <2>4. CASE outstanding # 1
    <3>1. \A q \in Proc : pc'[q] \notin CommitPC
      BY <1>a, <2>1, <2>4 DEF end_op, WakeupLog
    <3>2. QED
      BY <3>1 DEF TailControl
  <2>5. QED BY <2>3, <2>4
<1>7. QED BY <1>1, <1>2, <1>3, <1>4, <1>5, <1>6

\* A block copied by write_log() keeps the control part.
LEMMA ControlWriteLog ==
  ASSUME Control, NEW p \in Proc, write_log(p)
  PROVE  Control'
<1> USE LogAssumption DEF Control
<1>1. TypeOK'
  <2>1. lh[tail] \in Sector /\ Bread(lh[tail]) \in Val
    BY DEF write_log, Bread, TypeOK, TailControl
  <2>2. dlog' \in [LogBlock -> Val] /\ cache' \in [Sector -> Val \cup {NotCached}]
    BY <2>1 DEF write_log, TypeOK
  <2>3. QED
    BY <2>2 DEF write_log, disk, TypeOK
<1>2. CommitAlone'
  BY DEF write_log, CommitAlone, InOp
<1>3. BootControl'
  BY DEF write_log, Bread, TypeOK, BootControl
<1>4. CountControl'
  BY DEF write_log, TypeOK, CountControl, InOp
<1>5. HeldControl'
  BY DEF write_log, HeldControl
<1>6. TailControl'
  BY DEF write_log, TypeOK, TailControl, CommitAlone
<1>7. QED BY <1>1, <1>2, <1>3, <1>4, <1>5, <1>6

\* write_head(), the commit point, keeps the control part.
LEMMA ControlWriteHead ==
  ASSUME Control, NEW p \in Proc, write_head(p)
  PROVE  Control'
<1> USE LogAssumption DEF Control
<1>1. TypeOK'
  BY DEF write_head, disk, TypeOK, TailControl
<1>2. CommitAlone'
  BY DEF write_head, CommitAlone, InOp
<1>3. BootControl'
  BY DEF write_head, TypeOK, BootControl
<1>4. CountControl'
  BY DEF write_head, TypeOK, CountControl, InOp
<1>5. HeldControl'
  BY DEF write_head, TypeOK, HeldControl, BootControl
<1>6. TailControl'
  BY DEF write_head, TailControl
<1>7. QED BY <1>1, <1>2, <1>3, <1>4, <1>5, <1>6

\* A block installed by install_trans() keeps the control part.
LEMMA ControlInstallTrans ==
  ASSUME Control, NEW p \in Proc, install_trans(p)
  PROVE  Control'
<1> USE LogAssumption DEF Control
<1>1. TypeOK'
  BY DEF install_trans, InstallBlock, LogData, TypeOK, TailControl
<1>2. CommitAlone'
  BY DEF install_trans, CommitAlone, InOp
<1>3. BootControl'
  BY DEF install_trans, BootControl
<1>4. CountControl'
  BY DEF install_trans, TypeOK, CountControl, InOp
<1>5. HeldControl'
  BY DEF install_trans, HeldControl
<1>6. TailControl'
  BY DEF install_trans, TypeOK, TailControl, CommitAlone
<1>7. QED BY <1>1, <1>2, <1>3, <1>4, <1>5, <1>6

\* The second write_head() of commit(), which empties the header, keeps the control part.
LEMMA ControlErase ==
  ASSUME Control, NEW p \in Proc, erase(p)
  PROVE  Control'
<1> USE LogAssumption DEF Control
<1>1. TypeOK'
  BY DEF erase, EraseLog, TypeOK
<1>2. CommitAlone'
  BY DEF erase, CommitAlone, InOp
<1>3. BootControl'
  BY DEF erase, EraseLog, TypeOK, BootControl
<1>4. CountControl'
  BY DEF erase, CountControl, InOp
<1>5. HeldControl'
  BY DEF erase, HeldControl
<1>6. TailControl'
  BY DEF erase, TailControl, CommitAlone
<1>7. QED BY <1>1, <1>2, <1>3, <1>4, <1>5, <1>6

\* The end of end_op(), which wakes the waiting processes, keeps the control part.
LEMMA ControlEndCommit ==
  ASSUME Control, NEW p \in Proc, end_commit(p)
  PROVE  Control'
<1> USE LogAssumption DEF Control
<1>1. TypeOK'
  BY DEF end_commit, WakeupLog, disk, TypeOK
<1>2. CommitAlone'
  BY DEF end_commit, WakeupLog, CommitAlone
<1>3. BootControl'
  BY DEF end_commit, WakeupLog, TypeOK, BootControl
<1>4. CountControl'
  BY DEF end_commit, WakeupLog, CommitAlone, CountControl, InOp
<1>5. HeldControl'
  BY DEF end_commit, WakeupLog, HeldControl
<1>6. TailControl'
  BY DEF end_commit, WakeupLog, TailControl
<1>7. QED BY <1>1, <1>2, <1>3, <1>4, <1>5, <1>6

\* bread() of a block that is not cached keeps the control part.
LEMMA ControlBread ==
  ASSUME Control, NEW s \in Sector, bread(s)
  PROVE  Control'
<1> USE LogAssumption DEF Control
<1>1. TypeOK'
  BY DEF bread, disk, TypeOK, TailControl
<1>2. CommitAlone'
  BY DEF bread, CommitAlone, InOp
<1>3. BootControl'
  BY DEF bread, TypeOK, BootControl
<1>4. CountControl'
  BY DEF bread, TypeOK, CountControl, InOp
<1>5. HeldControl'
  BY DEF bread, TypeOK, HeldControl, BootControl
<1>6. TailControl'
  BY DEF bread, TailControl
<1>7. QED BY <1>1, <1>2, <1>3, <1>4, <1>5, <1>6

\* The reuse of a buffer by bget() keeps the control part.
LEMMA ControlRecycle ==
  ASSUME Control, NEW s \in Sector, recycle(s)
  PROVE  Control'
<1> USE LogAssumption DEF Control
<1>1. TypeOK'
  BY DEF recycle, disk, TypeOK, TailControl
<1>2. CommitAlone'
  BY DEF recycle, CommitAlone, InOp
<1>3. BootControl'
  BY DEF recycle, TypeOK, BootControl
<1>4. CountControl'
  BY DEF recycle, TypeOK, CountControl, InOp
<1>5. HeldControl'
  BY DEF recycle, TypeOK, HeldControl, BootControl
<1>6. TailControl'
  BY DEF recycle, TailControl
<1>7. QED BY <1>1, <1>2, <1>3, <1>4, <1>5, <1>6

\* A crash keeps the control part.
LEMMA ControlCrash ==
  ASSUME Control, Crash
  PROVE  Control'
<1> USE LogAssumption DEF Control
<1>1. TypeOK'
  <2>1. /\ held' \in [Proc -> Sector \cup {NoSector}]
        /\ wrote' \in [Proc -> SUBSET Sector]
        /\ cache' \in [Sector -> Val \cup {NotCached}]
        /\ pc' \in [Proc -> PC]
    BY Zenon DEF Crash
  <2>2. /\ boot' = "read_head"
        /\ outstanding' = 0 /\ lh' = <<>> /\ tail' = 1
        /\ dirty' \in SUBSET Sector
    BY Zenon DEF Crash
  <2>3. committing' \in BOOLEAN
    BY Zenon DEF Crash
  <2>4. UNCHANGED <<home, dlog, dhead>>
    BY DEF Crash, disk
  <2>5. QED
    BY <2>1, <2>2, <2>3, <2>4 DEF TypeOK
<1>2. CommitAlone'
  BY DEF Crash, CommitAlone
<1>3. BootControl'
  BY DEF Crash, TypeOK, BootControl
<1>4. CountControl'
  <2>1. InOp' = {}
    BY DEF Crash, InOp
  <2>2. QED
    BY <2>1, FS_EmptySet DEF Crash, CountControl
<1>5. HeldControl'
  BY DEF Crash, TypeOK, HeldControl, BootControl
<1>6. TailControl'
  BY DEF Crash, TailControl
<1>7. QED BY <1>1, <1>2, <1>3, <1>4, <1>5, <1>6

\* read_head() at boot keeps the control part.
LEMMA ControlReadHead ==
  ASSUME Control, read_head
  PROVE  Control'
<1> USE LogAssumption DEF Control
<1>1. TypeOK'
  BY DEF read_head, disk, TypeOK, TailControl
<1>2. CommitAlone'
  BY DEF read_head, CommitAlone, InOp
<1>3. BootControl'
  BY DEF read_head, TypeOK, BootControl
<1>4. CountControl'
  BY DEF read_head, TypeOK, CountControl, InOp
<1>5. HeldControl'
  BY DEF read_head, TypeOK, HeldControl, BootControl
<1>6. TailControl'
  BY DEF read_head, TailControl, BootControl
<1>7. QED BY <1>1, <1>2, <1>3, <1>4, <1>5, <1>6

\* A block installed by recover_from_log() keeps the control part.
LEMMA ControlRecoverInstall ==
  ASSUME Control, recover_install
  PROVE  Control'
<1> USE LogAssumption DEF Control
<1>1. TypeOK'
  <2>1. lh[tail] \in Sector /\ LogData(tail) \subseteq Val
    BY DEF recover_install, LogData, TypeOK
  <2>2. home' \in [Sector -> Val] /\ cache' \in [Sector -> Val \cup {NotCached}]
    BY <2>1 DEF recover_install, InstallBlock, TypeOK
  <2>3. dirty' \in SUBSET Sector /\ tail' \in Nat \ {0}
    BY DEF recover_install, InstallBlock, TypeOK
  <2>4. QED
    BY <2>2, <2>3 DEF recover_install, TypeOK
<1>2. CommitAlone'
  BY DEF recover_install, CommitAlone, BootControl
<1>3. BootControl'
  BY DEF recover_install, InstallBlock, TypeOK, BootControl
<1>4. CountControl'
  BY DEF recover_install, CountControl, InOp
<1>5. HeldControl'
  BY DEF recover_install, HeldControl
<1>6. TailControl'
  BY DEF recover_install, TailControl, BootControl
<1>7. QED BY <1>1, <1>2, <1>3, <1>4, <1>5, <1>6

\* The write_head() that ends recover_from_log() keeps the control part.
LEMMA ControlRecoverErase ==
  ASSUME Control, recover_erase
  PROVE  Control'
<1> USE LogAssumption DEF Control
<1>1. TypeOK'
  BY DEF recover_erase, EraseLog, TypeOK
<1>2. CommitAlone'
  BY DEF recover_erase, CommitAlone, BootControl
<1>3. BootControl'
  BY DEF recover_erase, EraseLog, TypeOK, BootControl
<1>4. CountControl'
  BY DEF recover_erase, CountControl, InOp
<1>5. HeldControl'
  BY DEF recover_erase, HeldControl
<1>6. TailControl'
  BY DEF recover_erase, TypeOK, TailControl
<1>7. QED BY <1>1, <1>2, <1>3, <1>4, <1>5, <1>6

\* Every step of the log keeps the control part of the invariant: the types,
\* one committer and no call in progress while it commits, the loop indices.
LEMMA ControlStep == Control /\ [Next]_vars => Control'
<1> SUFFICES ASSUME Control, [Next]_vars PROVE Control'
  OBVIOUS
<1> USE LogAssumption DEF Control
<1>1. CASE UNCHANGED vars
  BY <1>1 DEF vars, disk, TypeOK, CommitAlone, BootControl, CountControl, HeldControl,
     TailControl, InOp
<1>2. QED
  BY ControlBeginOp, ControlModify, ControlLogWrite, ControlEndOp, ControlWriteLog, ControlWriteHead,
     ControlInstallTrans, ControlErase, ControlEndCommit, ControlBread, ControlRecycle, ControlCrash,
     ControlReadHead, ControlRecoverInstall, ControlRecoverErase, <1>1
  DEF Next, Commit, Recover

\* The control part of the invariant holds when the machine is started.
LEMMA ControlInit == Init => Control
<1> SUFFICES ASSUME Init PROVE Control
  OBVIOUS
<1> USE LogAssumption
<1>1. TypeOK
  <2>1. /\ pc \in [Proc -> PC] /\ held \in [Proc -> Sector \cup {NoSector}]
        /\ wrote \in [Proc -> SUBSET Sector]
        /\ cache \in [Sector -> Val \cup {NotCached}]
    BY Zenon DEF Init
  <2>2. committing \in BOOLEAN
    BY Zenon DEF Init
  <2>3. QED
    BY <2>1, <2>2 DEF Init, TypeOK
<1>2. InOp = {}
  BY DEF Init, InOp
<1>3. CountControl
  BY <1>2, FS_EmptySet DEF Init, CountControl
<1>4. CommitAlone /\ BootControl /\ HeldControl /\ TailControl
  BY DEF Init, CommitAlone, BootControl, HeldControl, TailControl
<1>5. QED
  BY <1>1, <1>3, <1>4 DEF Control

\* The control part holds in every state of the log and of its recovery.
LEMMA ControlInvariant == Spec => []Control
BY ControlInit, ControlStep, PTL DEF Spec

\* Every variable of the logging layer keeps its type, whatever the number of
\* processes, the sizes of the log and the crashes.
THEOREM TypeCorrect == Spec => []TypeOK
BY ControlInvariant, PTL DEF Control

\* commit() runs alone (log.c:10-14), whatever the sizes: the count that
\* begin_op() and end_op() keep is the number of calls in progress.
THEOREM CommitsAlone == Spec => []CommitAlone
BY ControlInvariant, PTL DEF Control
=============================================================================
