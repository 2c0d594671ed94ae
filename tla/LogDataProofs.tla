--------------------------- MODULE LogDataProofs ---------------------------
(***************************************************************************)
(* The data part of the invariant of Log, for every value of its           *)
(* constants, as long as transactions fit in the log on disk: one lemma    *)
(* for each action.                                                        *)
(***************************************************************************)
EXTENDS LogProofs

USE DEF InOpPC, CommitPC, PC, LogBlock

\* The data part of the invariant holds when the machine is started.
LEMMA DataInit == Init /\ LogFits => Data
<1> SUFFICES ASSUME Init, LogFits PROVE Data
  OBVIOUS
<1>1. HeadData
  BY DEF Init, LogFits, HeadData, NoDup
<1>2. CopyData
  BY DEF Init, CopyData
<1>3. DirtyData
  BY DEF Init, DirtyData
<1>4. CacheData
  BY DEF Init, CacheData
<1>5. QED
  BY <1>1, <1>2, <1>3, <1>4 DEF Data

\* begin_op(), waiting or entering, keeps the data part.
LEMMA DataBeginOp ==
  ASSUME Control, Data, LogFits, NEW p \in Proc, begin_op(p)
  PROVE  Data'
<1> USE LogAssumption DEF Data
<1>1. HeadData'
  BY DEF begin_op, disk, HeadData, TypeOK, Control
<1>2. CopyData'
  BY DEF begin_op, disk, CopyData, TypeOK, CommitAlone, TailControl, Control, LogFits
<1>3. DirtyData'
  BY DEF begin_op, disk, DirtyData, Range, TypeOK, Control, LogFits
<1>4. CacheData'
  BY DEF begin_op, disk, CacheData, Busy
<1>5. QED BY <1>1, <1>2, <1>3, <1>4

\* The change of a buffer between bread() and log_write() keeps the data part.
LEMMA DataModify ==
  ASSUME Control, Data, LogFits, NEW p \in Proc, NEW s \in Sector, NEW v \in Val, modify(p, s, v)
  PROVE  Data'
<1> USE LogAssumption DEF Data
<1>1. HeadData'
  BY DEF modify, disk, HeadData
<1>2. CopyData'
  BY DEF modify, CopyData, CommitAlone, InOp, BootControl, Control
<1>3. DirtyData'
  BY DEF modify, DirtyData
<1>4. CacheData'
  <2>1. held[p] = NoSector /\ held' = [held EXCEPT ![p] = s] /\ dirty' = dirty /\ home' = home
    BY DEF modify, disk, Control, HeldControl
  <2>2. cache' = [cache EXCEPT ![s] = v] /\ v # NotCached
    BY DEF modify
  <2>3. \A x \in Sector : x # s => (Busy(x)' <=> Busy(x)) /\ cache'[x] = cache[x]
    BY <2>1, <2>2 DEF Busy, Control, TypeOK
  <2>4. Busy(s)' /\ cache'[s] # NotCached
    BY <2>1, <2>2 DEF Busy, Control, TypeOK
  <2>5. \A q \in Proc : held'[q] # NoSector => cache'[held'[q]] # NotCached
    BY <2>1, <2>2, <2>4 DEF CacheData, Control, TypeOK
  <2>6. QED
    BY <2>1, <2>3, <2>4, <2>5 DEF CacheData
<1>5. QED BY <1>1, <1>2, <1>3, <1>4

\* log_write() keeps the data part.
LEMMA DataLogWrite ==
  ASSUME Control, Data, LogFits, NEW p \in Proc, log_write(p)
  PROVE  Data'
<1> USE LogAssumption DEF Data
<1>1. HeadData'
  <2>1. outstanding # 0
    BY InOpCount DEF log_write, Control, InOp
  <2>2. boot = "up" /\ \A q \in Proc : pc[q] \notin CommitPC /\ pc'[q] \notin CommitPC
    BY DEF log_write, Control, BootControl, CommitAlone, InOp
  <2>3. NoDup(lh')
    <3>1. CASE held[p] \in Range(lh)
      BY <3>1 DEF log_write, HeadData
    <3>2. CASE held[p] \notin Range(lh)
      <4>1. lh' = Append(lh, held[p]) /\ lh \in Seq(Sector) /\ held[p] \in Sector
        BY <3>2 DEF log_write, Control, TypeOK, HeldControl
      <4>2. \A i \in DOMAIN lh : lh[i] # held[p]
        BY <3>2 DEF Range
      <4>3. QED
        BY <4>1, <4>2 DEF NoDup, HeadData
    <3>3. QED BY <3>1, <3>2
  <2>4. UNCHANGED <<boot, outstanding, dhead>>
    BY DEF log_write, disk
  <2>5. QED
    BY <2>1, <2>2, <2>3, <2>4 DEF HeadData
<1>2. CopyData'
  <2>1. boot = "up" /\ \A q \in Proc : pc[q] \notin CommitPC /\ pc'[q] \notin CommitPC
    BY DEF log_write, Control, BootControl, CommitAlone, InOp
  <2>2. QED
    BY <2>1 DEF log_write, CopyData
<1>3. DirtyData'
  <2>1. Range(lh') = Range(lh) \cup {held[p]}
    <3>1. CASE held[p] \in Range(lh)
      BY <3>1 DEF log_write
    <3>2. CASE held[p] \notin Range(lh)
      <4>1. lh' = Append(lh, held[p]) /\ lh \in Seq(Sector) /\ held[p] \in Sector
        BY <3>2 DEF log_write, Control, TypeOK, HeldControl
      <4>2. QED
        BY <4>1 DEF Range
    <3>3. QED BY <3>1, <3>2
  <2>2. boot = "up" /\ \A q \in Proc : pc[q] \notin CommitPC /\ pc'[q] \notin CommitPC
    BY DEF log_write, Control, BootControl, CommitAlone, InOp
  <2>3. QED
    BY <2>1, <2>2 DEF log_write, DirtyData
<1>4. CacheData'
  BY DEF log_write, disk, CacheData, Busy
<1>5. QED BY <1>1, <1>2, <1>3, <1>4

\* end_op(), the last one of a group or not, keeps the data part.
LEMMA DataEndOp ==
  ASSUME Control, Data, LogFits, NEW p \in Proc, end_op(p)
  PROVE  Data'
<1> USE LogAssumption DEF Data
<1>1. boot = "up" /\ \A q \in Proc : pc[q] \notin CommitPC
  BY DEF end_op, Control, BootControl, CommitAlone, InOp
<1>2. ~committing
  BY <1>1 DEF Control, CountControl
<1>3. UNCHANGED <<boot, held, lh, cache, dirty, home, dlog, dhead>>
  BY DEF end_op, disk
<1>4. /\ \A q \in Proc : pc'[q] \notin {"write_head", "install_trans", "erase"}
      /\ \A q \in Proc : pc'[q] = "write_log" => tail' = 1
      /\ \A q \in Proc : pc'[q] = "end_commit" => Len(lh) = 0
  BY <1>1, <1>2 DEF end_op, WakeupLog, NothingLogged, Control, TypeOK
<1>5. lh \in Seq(Sector)
  BY DEF Control, TypeOK
<1>6. HeadData'
  <2>1. outstanding' = 0 => committing'
    BY <1>2 DEF end_op, Control, TypeOK
  <2>2. dhead = <<>>
    BY <1>1 DEF HeadData
  <2>3. \A q \in Proc : pc'[q] = "end_commit" => lh = <<>>
    BY <1>4, <1>5
  <2>4. QED
    BY <1>1, <1>3, <1>4, <2>1, <2>2, <2>3 DEF HeadData
<1>7. CopyData'
  <2>1. \A i \in DOMAIN lh : ~(i < 1)
    BY <1>5
  <2>2. QED
    BY <1>1, <1>3, <1>4, <2>1 DEF CopyData
<1>8. DirtyData'
  <2>1. dirty = Range(lh)
    BY <1>1 DEF DirtyData
  <2>2. QED
    BY <1>3, <1>4, <2>1 DEF DirtyData
<1>9. CacheData'
  BY <1>3 DEF CacheData, Busy
<1>10. QED BY <1>6, <1>7, <1>8, <1>9

\* A block copied by write_log() keeps the data part.
LEMMA DataWriteLog ==
  ASSUME Control, Data, LogFits, NEW p \in Proc, write_log(p)
  PROVE  Data'
<1> USE LogAssumption DEF Data
<1>1. HeadData'
  BY DEF write_log, HeadData
<1>2. CopyData'
  <2>1. /\ lh \in Seq(Sector) /\ tail \in DOMAIN lh /\ DOMAIN lh \subseteq LogBlock
        /\ dlog \in [LogBlock -> Val] /\ cache \in [Sector -> Val \cup {NotCached}]
    BY DEF write_log, Control, TypeOK, TailControl, LogFits
  <2>2. dlog'[tail] = cache'[lh[tail]] /\ lh' = lh
    BY <2>1 DEF write_log
  <2>3. \A i \in DOMAIN lh : i # tail => dlog'[i] = dlog[i] /\ cache'[lh[i]] = cache[lh[i]]
    BY <2>1 DEF write_log, HeadData, NoDup
  <2>4. \A i \in DOMAIN lh : i <= tail => dlog'[i] = cache'[lh'[i]]
    <3>1. \A i \in DOMAIN lh : i < tail => dlog[i] = cache[lh[i]]
      BY DEF write_log, CopyData
    <3>2. QED
      BY <2>1, <2>2, <2>3, <3>1
  <2>5. boot' = "up" /\ \A q \in Proc : q # p => pc'[q] \notin CommitPC
    BY DEF write_log, Control, CommitAlone, BootControl
  <2>6. \/ pc'[p] = "write_log" /\ tail' = tail + 1
        \/ pc'[p] = "write_head" /\ tail = Len(lh)
    BY DEF write_log, Control, TypeOK
  <2>7. QED
    BY <2>1, <2>2, <2>4, <2>5, <2>6 DEF CopyData
<1>3. DirtyData'
  BY DEF write_log, DirtyData, CommitAlone, Control
<1>4. CacheData'
  BY DEF write_log, Bread, CacheData, Busy
<1>5. QED BY <1>1, <1>2, <1>3, <1>4

\* write_head(), the commit point, keeps the data part.
LEMMA DataWriteHead ==
  ASSUME Control, Data, LogFits, NEW p \in Proc, write_head(p)
  PROVE  Data'
<1> USE LogAssumption DEF Data
<1>1. HeadData'
  BY DEF write_head, HeadData, TypeOK, Control, LogFits
<1>2. CopyData'
  <2>1. /\ UNCHANGED <<boot, lh, tail, cache, home, dlog>> /\ tail = 1
        /\ pc' = [pc EXCEPT ![p] = "install_trans"] /\ pc[p] = "write_head"
    BY DEF write_head, TailControl, Control
  <2>2. lh \in Seq(Sector) /\ pc \in [Proc -> PC]
    BY DEF Control, TypeOK
  <2>3. \A i \in DOMAIN lh : dlog[i] = cache[lh[i]] /\ ~(i < tail)
    BY <2>1, <2>2 DEF CopyData
  <2>4. QED
    BY <2>1, <2>2, <2>3 DEF CopyData
<1>3. DirtyData'
  <2>1. /\ UNCHANGED <<boot, lh, tail, dirty>> /\ tail = 1
        /\ pc' = [pc EXCEPT ![p] = "install_trans"] /\ pc[p] = "write_head"
    BY DEF write_head, TailControl, Control
  <2>2. boot = "up" /\ \A q \in Proc : q # p => pc[q] \notin CommitPC
    BY <2>1 DEF Control, CommitAlone, BootControl
  <2>3. lh \in Seq(Sector) /\ pc \in [Proc -> PC]
    BY DEF Control, TypeOK
  <2>4. dirty = Range(lh)
    BY <2>1, <2>2 DEF DirtyData
  <2>5. dirty = {lh[i] : i \in {j \in DOMAIN lh : j >= tail}}
    <3>1. DOMAIN lh = 1 .. Len(lh) /\ Len(lh) \in Nat
      BY <2>3
    <3>2. \A j \in DOMAIN lh : j >= tail
      BY <2>1, <3>1
    <3>3. {j \in DOMAIN lh : j >= tail} = DOMAIN lh
      BY <3>2, Zenon
    <3>4. QED
      BY <2>4, <3>3, Zenon DEF Range
  <2>6. pc'[p] = "install_trans" /\ \A q \in Proc : q # p => pc'[q] \notin CommitPC
    BY <2>1, <2>2, <2>3
  <2>7. QED
    BY <2>1, <2>5, <2>6 DEF DirtyData
<1>4. CacheData'
  BY DEF write_head, CacheData, Busy
<1>5. QED BY <1>1, <1>2, <1>3, <1>4

\* A block installed by install_trans() keeps the data part.
LEMMA DataInstallTrans ==
  ASSUME Control, Data, LogFits, NEW p \in Proc, install_trans(p)
  PROVE  Data'
<1> USE LogAssumption DEF Data
<1>1. HeadData'
  BY DEF install_trans, HeadData
<1>2. CopyData'
  BY DEF install_trans, InstallBlock, LogData, CopyData, HeadData, DirtyData, NoDup,
     TypeOK, CommitAlone, TailControl, Control
<1>3. DirtyData'
  BY DEF install_trans, InstallBlock, DirtyData, HeadData, NoDup, TypeOK, CommitAlone,
     Control
<1>4. CacheData'
  <2>1. PICK v \in LogData(tail) : /\ home' = [home EXCEPT ![lh[tail]] = v]
                                   /\ cache' = [cache EXCEPT ![lh[tail]] = v]
    BY DEF install_trans, InstallBlock
  <2>2. dirty' = dirty \ {lh[tail]} /\ held' = held
    BY DEF install_trans, InstallBlock
  <2>3. v \in Val /\ v # NotCached
    BY DEF LogData, Control, TypeOK
  <2>4. \A s \in Sector : cache'[s] = (IF s = lh[tail] THEN v ELSE cache[s])
                        /\ home'[s] = (IF s = lh[tail] THEN v ELSE home[s])
    BY <2>1 DEF Control, TypeOK
  <2>5. \A q \in Proc : held[q] # NoSector => held[q] \in Sector
    BY DEF Control, TypeOK
  <2>6. QED
    BY <2>2, <2>3, <2>4, <2>5 DEF CacheData, Busy
<1>5. QED BY <1>1, <1>2, <1>3, <1>4

\* The second write_head() of commit(), which empties the header, keeps the data part.
LEMMA DataErase ==
  ASSUME Control, Data, LogFits, NEW p \in Proc, erase(p)
  PROVE  Data'
<1> USE LogAssumption DEF Data
<1>1. HeadData'
  BY DEF erase, EraseLog, HeadData, NoDup
<1>2. CopyData'
  BY DEF erase, EraseLog, CopyData
<1>3. DirtyData'
  BY DEF erase, EraseLog, DirtyData, Range
<1>4. CacheData'
  BY DEF erase, CacheData, Busy
<1>5. QED BY <1>1, <1>2, <1>3, <1>4

\* The end of end_op(), which wakes the waiting processes, keeps the data part.
LEMMA DataEndCommit ==
  ASSUME Control, Data, LogFits, NEW p \in Proc, end_commit(p)
  PROVE  Data'
<1> USE LogAssumption DEF Data
<1>1. HeadData'
  BY DEF end_commit, WakeupLog, disk, HeadData
<1>2. CopyData'
  BY DEF end_commit, CopyData, HeadData
<1>3. DirtyData'
  BY DEF end_commit, WakeupLog, DirtyData
<1>4. CacheData'
  BY DEF end_commit, disk, CacheData, Busy
<1>5. QED BY <1>1, <1>2, <1>3, <1>4

\* bread() of a block that is not cached keeps the data part.
LEMMA DataBread ==
  ASSUME Control, Data, LogFits, NEW s \in Sector, bread(s)
  PROVE  Data'
<1> USE LogAssumption DEF Data
<1>1. HeadData'
  BY DEF bread, disk, HeadData
<1>2. CopyData'
  BY DEF bread, disk, CopyData, TypeOK, Control, LogFits
<1>3. DirtyData'
  BY DEF bread, DirtyData
<1>4. CacheData'
  <2>1. cache' = [cache EXCEPT ![s] = home[s]] /\ UNCHANGED <<dirty, home, held>>
    BY DEF bread, disk
  <2>2. home[s] # NotCached /\ \A q \in Proc : held[q] # NoSector => held[q] \in Sector
    BY DEF Control, TypeOK
  <2>3. \A x \in Sector : cache'[x] = (IF x = s THEN home[s] ELSE cache[x])
    BY <2>1 DEF Control, TypeOK
  <2>4. QED
    BY <2>1, <2>2, <2>3 DEF CacheData, Busy
<1>5. QED BY <1>1, <1>2, <1>3, <1>4

\* The reuse of a buffer by bget() keeps the data part.
LEMMA DataRecycle ==
  ASSUME Control, Data, LogFits, NEW s \in Sector, recycle(s)
  PROVE  Data'
<1> USE LogAssumption DEF Data
<1>1. HeadData'
  BY DEF recycle, disk, HeadData
<1>2. CopyData'
  <2>1. \A x \in Sector : x # s => cache'[x] = cache[x]
    BY DEF recycle, Control, TypeOK
  <2>2. \A q \in Proc : pc[q] \in {"write_log", "write_head"} =>
          \A i \in DOMAIN lh : lh[i] \in dirty
    <3>1. SUFFICES ASSUME NEW q \in Proc, pc[q] \in {"write_log", "write_head"}
                   PROVE  dirty = Range(lh)
      BY DEF Range
    <3>2. boot = "up" /\ \A r \in Proc : pc[r] \notin {"install_trans", "erase"}
      BY <3>1 DEF Control, CommitAlone, BootControl
    <3>3. QED
      BY <3>2 DEF DirtyData
  <2>3. \A q \in Proc : pc[q] = "install_trans" =>
          \A i \in DOMAIN lh : i >= tail => lh[i] \in dirty
    BY DEF DirtyData
  <2>4. \A i \in DOMAIN lh : lh[i] \in Sector /\ i \in Nat /\ tail \in Nat
    BY DEF Control, TypeOK
  <2>5. UNCHANGED <<boot, pc, lh, tail, home, dlog, dirty>> /\ s \notin dirty
    BY DEF recycle, disk
  <2>6. QED
    BY <2>1, <2>2, <2>3, <2>4, <2>5 DEF CopyData
<1>3. DirtyData'
  BY DEF recycle, DirtyData
<1>4. CacheData'
  BY DEF recycle, Busy, disk, CacheData
<1>5. QED BY <1>1, <1>2, <1>3, <1>4

\* A crash keeps the data part.
LEMMA DataCrash ==
  ASSUME Control, Data, LogFits, Crash
  PROVE  Data'
<1> USE LogAssumption DEF Data
<1>1. HeadData'
  BY DEF Crash, disk, HeadData, NoDup
<1>2. CopyData'
  BY DEF Crash, CopyData
<1>3. DirtyData'
  BY DEF Crash, DirtyData
<1>4. CacheData'
  BY DEF Crash, CacheData
<1>5. QED BY <1>1, <1>2, <1>3, <1>4

\* read_head() at boot keeps the data part.
LEMMA DataReadHead ==
  ASSUME Control, Data, LogFits, read_head
  PROVE  Data'
<1> USE LogAssumption DEF Data
<1>1. HeadData'
  BY DEF read_head, disk, HeadData, BootControl, Control
<1>2. CopyData'
  <2>1. pc' = pc /\ tail' = 1 /\ lh' = dhead /\ \A q \in Proc : pc[q] = "user"
    BY DEF read_head, BootControl, Control
  <2>2. \A i \in DOMAIN dhead : ~(i < 1)
    BY DEF Control, TypeOK
  <2>3. QED
    BY <2>1, <2>2 DEF CopyData
<1>3. DirtyData'
  BY DEF read_head, DirtyData, HeadData
<1>4. CacheData'
  BY DEF read_head, disk, CacheData, Busy
<1>5. QED BY <1>1, <1>2, <1>3, <1>4

\* A block installed by recover_from_log() keeps the data part.
LEMMA DataRecoverInstall ==
  ASSUME Control, Data, LogFits, recover_install
  PROVE  Data'
<1> USE LogAssumption DEF Data
<1>1. HeadData'
  BY DEF recover_install, HeadData
<1>2. CopyData'
  <2>1. /\ pc' = pc /\ \A q \in Proc : pc[q] = "user"
        /\ UNCHANGED <<lh, dlog>> /\ tail' = tail + 1
    BY DEF recover_install, BootControl, Control
  <2>2. /\ lh \in Seq(Sector) /\ tail \in DOMAIN lh /\ DOMAIN lh \subseteq LogBlock
        /\ home \in [Sector -> Val]
    BY DEF recover_install, Control, TypeOK, LogFits
  <2>3. home' = [home EXCEPT ![lh[tail]] = dlog[tail]]
    <3>1. LogData(tail) = {dlog[tail]}
      BY <2>2 DEF LogData
    <3>2. QED
      BY <3>1 DEF recover_install, InstallBlock
  <2>4. \A i \in DOMAIN lh : i < tail => home[lh[i]] = dlog[i] /\ lh[i] # lh[tail]
    BY <2>2 DEF recover_install, CopyData, HeadData, NoDup
  <2>5. \A i \in DOMAIN lh : i < tail + 1 => home'[lh[i]] = dlog[i]
    BY <2>2, <2>3, <2>4
  <2>6. QED
    BY <2>1, <2>5 DEF CopyData
<1>3. DirtyData'
  BY DEF recover_install, DirtyData, BootControl, Control
<1>4. CacheData'
  <2>1. PICK v \in LogData(tail) : /\ home' = [home EXCEPT ![lh[tail]] = v]
                                   /\ cache' = [cache EXCEPT ![lh[tail]] = v]
    BY DEF recover_install, InstallBlock
  <2>2. dirty = {} /\ dirty' = {} /\ \A q \in Proc : held[q] = NoSector /\ held'[q] = NoSector
    BY DEF recover_install, InstallBlock, BootControl, Control
  <2>3. \A s \in Sector : cache'[s] = (IF s = lh[tail] THEN v ELSE cache[s])
                        /\ home'[s] = (IF s = lh[tail] THEN v ELSE home[s])
    BY <2>1 DEF Control, TypeOK
  <2>4. \A s \in Sector : ~Busy(s)
    BY <2>2 DEF Busy
  <2>5. QED
    BY <2>2, <2>3, <2>4 DEF CacheData
<1>5. QED BY <1>1, <1>2, <1>3, <1>4

\* The write_head() that ends recover_from_log() keeps the data part.
LEMMA DataRecoverErase ==
  ASSUME Control, Data, LogFits, recover_erase
  PROVE  Data'
<1> USE LogAssumption DEF Data
<1>1. HeadData'
  BY DEF recover_erase, EraseLog, HeadData, NoDup
<1>2. CopyData'
  BY DEF recover_erase, EraseLog, CopyData
<1>3. DirtyData'
  <2>1. pc' = pc /\ dirty' = {} /\ lh' = <<>> /\ \A q \in Proc : pc[q] = "user"
    BY DEF recover_erase, EraseLog, BootControl, Control
  <2>2. Range(<<>>) = {}
    BY DEF Range
  <2>3. QED
    BY <2>1, <2>2 DEF DirtyData
<1>4. CacheData'
  BY DEF recover_erase, CacheData, Busy
<1>5. QED BY <1>1, <1>2, <1>3, <1>4

\* Every step of the log keeps the data part, as long as transactions fit.
LEMMA DataStep ==
  Control /\ Data /\ LogFits /\ [Next]_vars => Data'
<1> SUFFICES ASSUME Control, Data, LogFits, [Next]_vars PROVE Data'
  OBVIOUS
<1> USE LogAssumption DEF Data
<1>1. CASE UNCHANGED vars
  <2>1. HeadData'
    BY <1>1 DEF vars, disk, HeadData
  <2>2. CopyData'
    BY <1>1 DEF vars, disk, CopyData
  <2>3. DirtyData'
    BY <1>1 DEF vars, disk, DirtyData
  <2>4. CacheData'
    BY <1>1 DEF vars, disk, CacheData, Busy
  <2>5. QED BY <2>1, <2>2, <2>3, <2>4
<1>2. QED
  BY DataBeginOp, DataModify, DataLogWrite, DataEndOp, DataWriteLog, DataWriteHead,
     DataInstallTrans, DataErase, DataEndCommit, DataBread, DataRecycle, DataCrash,
     DataReadHead, DataRecoverInstall, DataRecoverErase, <1>1
  DEF Next, Commit, Recover

\* So does the whole invariant, as long as transactions fit.
LEMMA IInvInvariant == Spec /\ []LogFits => []IInv
<1>1. Init /\ LogFits => IInv
  BY ControlInit, DataInit DEF IInv
<1>2. IInv /\ LogFits /\ [Next]_vars => IInv'
  BY ControlStep, DataStep DEF IInv
<1>3. QED
  BY <1>1, <1>2, PTL DEF Spec
=============================================================================
