-------------------------- MODULE BcacheRefinement --------------------------
(***************************************************************************)
(* The buffer cache implements the store of blocks, for any number of      *)
(* processes, sectors and buffers.                                         *)
(***************************************************************************)
EXTENDS BcacheProofs

Good   == Sector \ Bad
vals   == [s \in Good |-> Value(s)]
owners == [s \in Good |-> Owner(s)]

\* The value of a sector is that of its valid buffer, or else the disk's; its
\* owner is the process that holds that buffer.
Known ==
    /\ vals = [s \in Good |-> vals[s]] /\ owners = [s \in Good |-> owners[s]]
    /\ \A s \in Good, b \in Buf : sector[b] = s /\ valid[b] => vals[s] = data[b]
    /\ \A s \in Good : (\A b \in Buf : ~(sector[b] = s /\ valid[b])) => vals[s] = disk[s]
    /\ \A s \in Good, p \in Proc : Has(p, s) => owners[s] = p
    /\ \A s \in Good : (\A p \in Proc : ~Has(p, s)) => owners[s] = NoProc

\* A sector has at most one valid buffer and one owner, so that the refinement
\* mapping chooses it.
LEMMA MappingKnown == IInv => Known
<1> SUFFICES ASSUME IInv PROVE Known
  OBVIOUS
<1>1. vals = [s \in Good |-> vals[s]] /\ owners = [s \in Good |-> owners[s]]
  BY DEF vals, owners
<1>2. ASSUME NEW s \in Good, NEW b \in Buf, sector[b] = s, valid[b] PROVE vals[s] = data[b]
  <2>1. \A c \in Buf : sector[c] = s /\ valid[c] => c = b
    BY <1>2, BcacheAssumption DEF IInv, Single, Good
  <2>2. b = CHOOSE c \in Buf : sector[c] = s /\ valid[c]
    BY <1>2, <2>1
  <2>3. Value(s) = data[b]
    BY <1>2, <2>2 DEF Value
  <2>4. QED BY <2>3 DEF vals
<1>3. ASSUME NEW s \in Good, \A b \in Buf : ~(sector[b] = s /\ valid[b]) PROVE vals[s] = disk[s]
  BY <1>3 DEF vals, Value
<1>4. ASSUME NEW s \in Good, NEW p \in Proc, Has(p, s) PROVE owners[s] = p
  <2>1. ASSUME NEW q \in Proc, Has(q, s) PROVE q = p
    <3>1. sector[buf[p]] = s /\ sector[buf[q]] = s /\ buf[p] \in Buf /\ buf[q] \in Buf
      BY <1>4, <2>1 DEF IInv, Single, Asked, Has
    <3>2. buf[p] = buf[q]
      BY <3>1, BcacheAssumption DEF IInv, Single, Good
    <3>3. QED BY <1>4, <2>1, <3>2 DEF IInv, Single, Has
  <2>2. p = CHOOSE q \in Proc : Has(q, s)
    BY <1>4, <2>1
  <2>3. Owner(s) = p
    BY <1>4, <2>2 DEF Owner
  <2>4. QED BY <2>3 DEF owners
<1>5. ASSUME NEW s \in Good, \A p \in Proc : ~Has(p, s) PROVE owners[s] = NoProc
  BY <1>5 DEF owners, Owner
<1>6. QED BY <1>1, <1>2, <1>3, <1>4, <1>5 DEF Known

\* It does so after a step as well.
LEMMA MappingKnownNext == IInv' => Known'
  BY MappingKnown, PTL

\* A step that changes neither flags nor data changes no value.
LEMMA SameValues ==
  ASSUME Known, Known', sector' = sector, valid' = valid, data' = data, disk' = disk
  PROVE  vals' = vals
<1>1. ASSUME NEW s \in Good PROVE vals'[s] = vals[s]
  <2>1. CASE \E b \in Buf : sector[b] = s /\ valid[b]
    BY <2>1 DEF Known
  <2>2. CASE \A b \in Buf : ~(sector[b] = s /\ valid[b])
    BY <2>2 DEF Known
  <2>3. QED BY <2>1, <2>2
<1>2. vals = [s \in Good |-> vals[s]] /\ vals' = [s \in Good |-> vals'[s]]
  BY DEF Known
<1>3. QED BY <1>1, <1>2

\* A step after which the same processes have the same sectors changes no owner.
LEMMA SameOwners ==
  ASSUME Known, Known', \A p \in Proc, s \in Good : Has(p, s)' <=> Has(p, s)
  PROVE  owners' = owners
<1>1. ASSUME NEW s \in Good PROVE owners'[s] = owners[s]
  <2>1. CASE \E p \in Proc : Has(p, s)
    BY <2>1 DEF Known
  <2>2. CASE \A p \in Proc : ~Has(p, s)
    BY <2>2 DEF Known
  <2>3. QED BY <2>1, <2>2
<1>2. owners = [s \in Good |-> owners[s]] /\ owners' = [s \in Good |-> owners'[s]]
  BY DEF Known
<1>3. QED BY <1>1, <1>2

\* A step after which p has a sector that nobody had.
LEMMA OwnerGets ==
  ASSUME Known, Known', NEW p \in Proc, NEW s \in Good,
         \A q \in Proc : ~Has(q, s), Has(p, s)',
         \A q \in Proc, t \in Good : t # s => (Has(q, t)' <=> Has(q, t))
  PROVE  owners[s] = NoProc /\ owners' = [owners EXCEPT ![s] = p]
<1>1. owners[s] = NoProc /\ owners'[s] = p
  BY DEF Known
<1>2. ASSUME NEW t \in Good, t # s PROVE owners'[t] = owners[t]
  <2>1. CASE \E q \in Proc : Has(q, t)
    BY <1>2, <2>1 DEF Known
  <2>2. CASE \A q \in Proc : ~Has(q, t)
    BY <1>2, <2>2 DEF Known
  <2>3. QED BY <2>1, <2>2
<1>3. owners = [t \in Good |-> owners[t]] /\ owners' = [t \in Good |-> owners'[t]]
  BY DEF Known
<1>4. QED BY <1>1, <1>2, <1>3

\* A step after which p, and nobody else, no longer has a sector.
LEMMA OwnerPuts ==
  ASSUME Known, Known', NEW p \in Proc, NEW s \in Good,
         \A q \in Proc : ~Has(q, s)', Has(p, s),
         \A q \in Proc, t \in Good : t # s => (Has(q, t)' <=> Has(q, t))
  PROVE  owners[s] = p /\ owners' = [owners EXCEPT ![s] = NoProc]
<1>1. owners[s] = p /\ owners'[s] = NoProc
  BY DEF Known
<1>2. ASSUME NEW t \in Good, t # s PROVE owners'[t] = owners[t]
  <2>1. CASE \E q \in Proc : Has(q, t)
    BY <1>2, <2>1 DEF Known
  <2>2. CASE \A q \in Proc : ~Has(q, t)
    BY <1>2, <2>2 DEF Known
  <2>3. QED BY <2>1, <2>2
<1>3. owners = [t \in Good |-> owners[t]] /\ owners' = [t \in Good |-> owners'[t]]
  BY DEF Known
<1>4. QED BY <1>1, <1>2, <1>3

\* modify() is Set of the sector that the process has.
LEMMA ModifySets ==
  ASSUME IInv, Known, Known', NEW p \in Proc, NEW v \in Val, modify(p, v)
  PROVE  /\ owners' = owners
         /\ IF want[p] \in Good
            THEN owners[want[p]] = p /\ vals' = [vals EXCEPT ![want[p]] = v]
            ELSE vals' = vals
<1> DEFINE b == buf[p]
           s == want[p]
<1>1. /\ pc[p] = "held" /\ data' = [data EXCEPT ![b] = v]
      /\ UNCHANGED <<sector, valid, disk, pc, want, buf>>
  BY DEF modify
<1>2. /\ b \in Buf /\ valid[b] /\ sector[b] = s /\ s # NoSector
      /\ data \in [Buf -> Val] /\ \A a \in Buf : sector[a] = s => a = b
  BY <1>1, BcacheAssumption DEF IInv, Types, Asked, Single, Coherent, Holds
<1>3. owners' = owners
  BY <1>1, SameOwners DEF Has, Holds
<1>4. s \in Good => owners[s] = p
  BY <1>1, <1>2 DEF Known, Has, Holds
<1> HIDE DEF b, s
<1>5. ASSUME NEW t \in Good PROVE vals'[t] = IF t = s THEN v ELSE vals[t]
  <2>1. CASE t = s
    BY <1>1, <1>2, <2>1 DEF Known
  <2>2. ASSUME t # s, NEW a \in Buf, sector[a] = t, valid[a] PROVE vals'[t] = vals[t]
    BY <1>1, <1>2, <2>2 DEF Known
  <2>3. CASE \A a \in Buf : ~(sector[a] = t /\ valid[a])
    BY <1>1, <1>2, <2>3 DEF Known
  <2>4. QED BY <2>1, <2>2, <2>3
<1>6. vals = [t \in Good |-> vals[t]] /\ vals' = [t \in Good |-> vals'[t]]
  BY DEF Known
<1>7. CASE s \in Good
  <2>1. vals' = [vals EXCEPT ![s] = v]
    BY <1>5, <1>6, <1>7
  <2>2. QED BY <1>3, <1>4, <1>7, <2>1 DEF s
<1>8. CASE s \notin Good
  <2>1. vals' = vals
    BY <1>5, <1>6, <1>8
  <2>2. QED BY <1>3, <1>8, <2>1 DEF s
<1>9. QED BY <1>7, <1>8

\* The steps of the store, and the steps that it does not see.
Gets(p, s)    == owners[s] = NoProc /\ owners' = [owners EXCEPT ![s] = p] /\ vals' = vals
Sets(p, s, v) == owners[s] = p /\ vals' = [vals EXCEPT ![s] = v] /\ owners' = owners
Puts(p, s)    == owners[s] = p /\ owners' = [owners EXCEPT ![s] = NoProc] /\ vals' = vals
Unseen        == vals' = vals /\ owners' = owners

\* bget() of a buffer that is valid is Get; of one that is not, nobody sees.
LEMMA TakesGets ==
  ASSUME IInv, Known, Known', NEW p \in Proc, NEW b \in Buf, Takes(p, b),
         pc[p] = "bget", UNCHANGED <<data, disk, want>>
  PROVE  Unseen \/ \E s \in Good : Gets(p, s)
<1>0. PICK s \in Sector \cup {NoSector} : s = want[p]
  BY DEF IInv, Types
<1>1. /\ sector[b] = s /\ ~busy[b] /\ buf' = [buf EXCEPT ![p] = b]
      /\ pc' = [pc EXCEPT ![p] = "bread"] /\ UNCHANGED <<sector, valid, data, disk, want>>
  BY <1>0 DEF Takes
<1>2. s \in Sector /\ \A a \in Buf : sector[a] = s => a = b
  BY <1>0, <1>1, BcacheAssumption DEF IInv, Asked, Single
<1>3. pc \in [Proc -> {"out", "bget", "bread", "iderw", "held"}] /\ buf \in [Proc -> Buf \cup {NoBuf}]
  BY DEF IInv, Types
<1>4. vals' = vals
  BY <1>1, SameValues
<1>5. \A q \in Proc : ~Has(q, s)
  BY <1>1, <1>2 DEF IInv, Asked, Single, Has
<1>6. \A q \in Proc, t \in Good : q # p => (Has(q, t)' <=> Has(q, t))
  BY <1>1, <1>3 DEF Has, Holds
<1>7. \A t \in Good : ~Has(p, t) /\ (Has(p, t)' <=> t = s /\ valid[b])
  BY <1>0, <1>1, <1>3 DEF Has, Holds
<1>8. CASE s \in Good /\ valid[b]
  <2>1. Has(p, s)'
    BY <1>7, <1>8
  <2>2. \A q \in Proc, t \in Good : t # s => (Has(q, t)' <=> Has(q, t))
    BY <1>6, <1>7
  <2>3. owners[s] = NoProc /\ owners' = [owners EXCEPT ![s] = p]
    BY <1>5, <1>8, <2>1, <2>2, OwnerGets
  <2>4. QED BY <1>4, <1>8, <2>3 DEF Gets
<1>9. CASE ~(s \in Good /\ valid[b])
  <2>1. \A q \in Proc, t \in Good : Has(q, t)' <=> Has(q, t)
    BY <1>6, <1>7, <1>9
  <2>2. owners' = owners
    BY <2>1, SameOwners
  <2>3. QED BY <1>4, <2>2 DEF Unseen
<1>10. QED BY <1>8, <1>9

\* bget() recycles a clean buffer: the disk has its value.
LEMMA RecyclesUnseen ==
  ASSUME IInv, Known, Known', NEW p \in Proc, NEW b \in Buf, Recycles(p, b),
         pc[p] = "bget", UNCHANGED <<data, disk, want>>
  PROVE  Unseen
<1>1. /\ ~busy[b] /\ ~dirty[b] /\ \A a \in Buf : sector[a] # want[p]
      /\ sector' = [sector EXCEPT ![b] = want[p]] /\ valid' = [valid EXCEPT ![b] = FALSE]
      /\ buf' = [buf EXCEPT ![p] = b] /\ pc' = [pc EXCEPT ![p] = "bread"]
      /\ UNCHANGED <<data, disk, want>>
  BY DEF Recycles
<1>2. /\ pc \in [Proc -> {"out", "bget", "bread", "iderw", "held"}] /\ buf \in [Proc -> Buf \cup {NoBuf}]
      /\ sector \in [Buf -> Sector \cup {NoSector}] /\ valid \in [Buf -> BOOLEAN]
  BY DEF IInv, Types
<1>3. \A q \in Proc : Holds(q) => buf[q] # b /\ buf[q] \in Buf
  BY <1>1 DEF IInv, Asked, Single
<1>4. \A q \in Proc, s \in Good : Has(q, s)' <=> Has(q, s)
  BY <1>1, <1>2, <1>3 DEF Has, Holds
<1>5. owners' = owners
  BY <1>4, SameOwners
<1>6. ASSUME NEW s \in Good PROVE vals'[s] = vals[s]
  <2>1. ASSUME NEW a \in Buf, a # b, sector[a] = s, valid[a] PROVE vals'[s] = vals[s]
    BY <1>1, <1>2, <2>1 DEF Known
  <2>2. CASE \A a \in Buf : a # b => ~(sector[a] = s /\ valid[a])
    <3>1. \A a \in Buf : ~(sector'[a] = s /\ valid'[a])
      BY <1>1, <1>2, <2>2
    <3>2. vals'[s] = disk[s]
      BY <1>1, <3>1 DEF Known
    <3>3. CASE sector[b] = s /\ valid[b]
      <4>1. data[b] = disk[s]
        BY <1>1, <3>3 DEF IInv, Coherent, Synced, Good
      <4>2. QED BY <3>2, <3>3, <4>1 DEF Known
    <3>4. CASE ~(sector[b] = s /\ valid[b])
      BY <2>2, <3>2, <3>4 DEF Known
    <3>5. QED BY <3>3, <3>4
  <2>3. QED BY <2>1, <2>2
<1>7. vals = [s \in Good |-> vals[s]] /\ vals' = [s \in Good |-> vals'[s]]
  BY DEF Known
<1>8. vals' = vals
  BY <1>6, <1>7
<1>9. QED BY <1>5, <1>8 DEF Unseen

\* brelse() is Put.
LEMMA BrelsePuts ==
  ASSUME IInv, Known, Known', NEW p \in Proc, brelse(p)
  PROVE  Unseen \/ \E s \in Good : Puts(p, s)
<1>0. PICK s \in Sector \cup {NoSector} : s = want[p]
  BY DEF IInv, Types
<1>1. /\ pc[p] = "held" /\ pc' = [pc EXCEPT ![p] = "out"]
      /\ want' = [want EXCEPT ![p] = NoSector] /\ buf' = [buf EXCEPT ![p] = NoBuf]
      /\ UNCHANGED <<sector, valid, data, disk>>
  BY DEF brelse, Goto
<1>2. /\ pc \in [Proc -> {"out", "bget", "bread", "iderw", "held"}] /\ buf \in [Proc -> Buf \cup {NoBuf}]
      /\ want \in [Proc -> Sector \cup {NoSector}]
  BY DEF IInv, Types
<1>3. vals' = vals
  BY <1>1, SameValues
<1>4. \A q \in Proc, t \in Good : q # p => (Has(q, t)' <=> Has(q, t))
  BY <1>1, <1>2 DEF Has, Holds
<1>5. \A t \in Good : ~Has(p, t)' /\ (Has(p, t) <=> t = s)
  BY <1>0, <1>1, <1>2 DEF IInv, Coherent, Has, Holds
<1>6. CASE s \in Good
  <2>1. \A q \in Proc, t \in Good : t # s => (Has(q, t)' <=> Has(q, t))
    BY <1>4, <1>5
  <2>2. Has(p, s) /\ owners[s] = p
    BY <1>5, <1>6 DEF Known
  <2>3. ASSUME NEW q \in Proc PROVE ~Has(q, s)'
    <3>1. Has(q, s) => q = p
      BY <1>6, <2>2 DEF Known
    <3>2. QED BY <1>4, <1>5, <1>6, <3>1
  <2>4. owners' = [owners EXCEPT ![s] = NoProc]
    BY <1>6, <2>1, <2>2, <2>3, OwnerPuts
  <2>5. QED BY <1>3, <1>6, <2>2, <2>4 DEF Puts
<1>7. CASE s \notin Good
  <2>1. \A q \in Proc, t \in Good : Has(q, t)' <=> Has(q, t)
    BY <1>4, <1>5, <1>7
  <2>2. QED BY <1>3, <2>1, SameOwners DEF Unseen
<1>8. QED BY <1>6, <1>7

\* ideintr() after a read is Get for the process that waits in iderw(), and
\* nobody sees the end of a write.
LEMMA IdeintrGets ==
  ASSUME IInv, Known, Known', ideintr
  PROVE  Unseen \/ \E p \in Proc, s \in Good : Gets(p, s)
<1>1. PICK b \in Buf : Served(b) /\ (Writes(b) \/ Reads(b))
  BY IdeintrCases
<1>2. PICK s \in Sector : s = sector[b]
  BY <1>1 DEF Served
<1>3. PICK p \in Proc : pc[p] = "iderw" /\ buf[p] = b
  BY <1>1, HeadWaited DEF Served
<1>4. /\ valid' = [valid EXCEPT ![b] = TRUE] /\ ~Synced(b)
      /\ UNCHANGED <<sector, pc, want, buf>>
  BY <1>1 DEF Served
<1>5. /\ valid \in [Buf -> BOOLEAN] /\ data \in [Buf -> Val] /\ disk \in [Sector -> Val]
      /\ want[p] = s /\ \A a \in Buf : sector[a] = s => a = b
  BY <1>2, <1>3, BcacheAssumption DEF IInv, Types, Single, Holds
<1>6. \A q \in Proc : Holds(q) => buf[q] \in Buf /\ sector[buf[q]] = want[q]
  BY DEF IInv, Asked, Single
<1>7. vals = [t \in Good |-> vals[t]] /\ vals' = [t \in Good |-> vals'[t]]
  BY DEF Known
<1>8. CASE Writes(b)
  <2>1. valid[b] /\ data' = data /\ disk' = [disk EXCEPT ![s] = data[b]]
    BY <1>2, <1>8 DEF Writes, IInv, Coherent
  <2>2. valid' = valid
    BY <1>4, <1>5, <2>1
  <2>3. owners' = owners
    BY <1>4, <2>2, SameOwners DEF Has, Holds
  <2>4. ASSUME NEW t \in Good PROVE vals'[t] = vals[t]
    <3>1. CASE \E a \in Buf : sector[a] = t /\ valid[a]
      BY <1>4, <2>1, <2>2, <3>1 DEF Known
    <3>2. CASE \A a \in Buf : ~(sector[a] = t /\ valid[a])
      <4>1. disk'[t] = disk[t]
        BY <1>2, <1>5, <2>1, <3>2 DEF Good
      <4>2. QED BY <1>4, <2>2, <3>2, <4>1 DEF Known
    <3>3. QED BY <3>1, <3>2
  <2>5. vals' = vals
    BY <1>7, <2>4
  <2>6. QED BY <2>3, <2>5 DEF Unseen
<1>9. CASE Reads(b)
  <2>1. /\ ~valid[b] /\ disk' = disk
        /\ s \in Good => data' = [data EXCEPT ![b] = disk[s]]
        /\ \A a \in Buf : a # b => data'[a] = data[a]
    BY <1>2, <1>4, <1>5, <1>9 DEF Reads, Synced, Good
  <2>2. ASSUME NEW t \in Good PROVE vals'[t] = vals[t]
    <3>1. CASE t = s
      <4>1. vals[t] = disk[s]
        BY <1>5, <2>1, <3>1 DEF Known
      <4>2. vals'[t] = data'[b] /\ data'[b] = disk[s]
        BY <1>2, <1>4, <1>5, <2>1, <3>1 DEF Known
      <4>3. QED BY <4>1, <4>2
    <3>2. ASSUME t # s, NEW a \in Buf, sector[a] = t, valid[a] PROVE vals'[t] = vals[t]
      BY <1>2, <1>4, <1>5, <2>1, <3>2 DEF Known
    <3>3. CASE t # s /\ \A a \in Buf : ~(sector[a] = t /\ valid[a])
      <4>1. \A a \in Buf : ~(sector'[a] = t /\ valid'[a])
        BY <1>2, <1>4, <1>5, <3>3
      <4>2. QED BY <2>1, <3>3, <4>1 DEF Known
    <3>4. QED BY <3>1, <3>2, <3>3
  <2>3. vals' = vals
    BY <1>7, <2>2
  <2>4. \A q \in Proc, t \in Good : t # s => (Has(q, t)' <=> Has(q, t))
    BY <1>2, <1>4, <1>5, <1>6 DEF Has, Holds
  <2>5. \A q \in Proc : ~Has(q, s)
    BY <1>5, <1>6, <2>1 DEF Has
  <2>6. Has(p, s)'
    BY <1>3, <1>4, <1>5 DEF Has, Holds
  <2>7. CASE s \in Good
    <3>1. owners[s] = NoProc /\ owners' = [owners EXCEPT ![s] = p]
      BY <2>4, <2>5, <2>6, <2>7, OwnerGets
    <3>2. QED BY <2>3, <2>7, <3>1 DEF Gets
  <2>8. CASE s \notin Good
    <3>1. \A q \in Proc, t \in Good : Has(q, t)' <=> Has(q, t)
      BY <2>4, <2>8
    <3>2. QED BY <2>3, <3>1, SameOwners DEF Unseen
  <2>9. QED BY <2>7, <2>8
<1>10. QED BY <1>1, <1>8, <1>9

\* The steps that change neither a value nor an owner.
LEMMA OthersUnseen ==
  ASSUME IInv, Known, Known', sector' = sector, valid' = valid, data' = data, disk' = disk,
         \A p \in Proc, s \in Good : Has(p, s)' <=> Has(p, s)
  PROVE  Unseen
  BY SameValues, SameOwners DEF Unseen

\* Every step of the cache is a step of the store, or nobody sees it.
LEMMA StoreStep ==
  ASSUME IInv, Known, Known', [Next]_vars
  PROVE  \/ Unseen
         \/ \E p \in Proc, s \in Good : Gets(p, s) \/ Puts(p, s) \/ \E v \in Val : Sets(p, s, v)
<1>1. ASSUME NEW p \in Proc, NEW s \in Sector, start(p, s) PROVE Unseen
  <2>1. pc \in [Proc -> {"out", "bget", "bread", "iderw", "held"}] /\ want \in [Proc -> Sector \cup {NoSector}]
    BY DEF IInv, Types
  <2>2. QED BY <1>1, <2>1, OthersUnseen DEF start, Goto, flags, Has, Holds
<1>2. ASSUME NEW p \in Proc, NEW v \in Val, modify(p, v)
      PROVE  Unseen \/ \E s \in Good : Sets(p, s, v)
  BY <1>2, ModifySets DEF Sets, Unseen
<1>3. ASSUME NEW p \in Proc, bget(p)
      PROVE  Unseen \/ \E s \in Good : Gets(p, s)
  <2>1. pc[p] = "bget" /\ UNCHANGED <<data, disk, want>>
    BY <1>3, BgetCases DEF IInv
  <2>2. ASSUME GivesUp \/ \E b \in Buf : Sleeps(p, b) PROVE Unseen
    BY <2>1, <2>2, OthersUnseen DEF GivesUp, Sleeps, Has, Holds
  <2>3. ASSUME NEW b \in Buf, Takes(p, b) PROVE Unseen \/ \E s \in Good : Gets(p, s)
    BY <2>1, <2>3, TakesGets
  <2>4. ASSUME NEW b \in Buf, Recycles(p, b) PROVE Unseen
    BY <2>1, <2>4, RecyclesUnseen
  <2>5. QED BY <1>3, <2>2, <2>3, <2>4, BgetCases DEF IInv
<1>4. ASSUME NEW p \in Proc, bread(p) PROVE Unseen
  <2>1. pc \in [Proc -> {"out", "bget", "bread", "iderw", "held"}]
    BY DEF IInv, Types
  <2>2. QED BY <1>4, <2>1, OthersUnseen DEF bread, Goto, flags, Has, Holds
<1>5. ASSUME NEW p \in Proc, brelse(p) PROVE Unseen \/ \E s \in Good : Puts(p, s)
  BY <1>5, BrelsePuts
<1>6. ASSUME NEW p \in Proc, iderw(p) PROVE Unseen
  <2>1. pc \in [Proc -> {"out", "bget", "bread", "iderw", "held"}]
    BY DEF IInv, Types
  <2>2. IderwCommon(p) /\ pc[p] \in {"bread", "held"}
    BY <1>6, IderwCases DEF ForRead, ForWrite
  <2>3. QED BY <2>1, <2>2, OthersUnseen DEF IderwCommon, Has, Holds
<1>7. ASSUME NEW p \in Proc, iderw_loop(p) PROVE Unseen
  <2>1. pc \in [Proc -> {"out", "bget", "bread", "iderw", "held"}]
    BY DEF IInv, Types
  <2>2. QED BY <1>7, <2>1, OthersUnseen DEF iderw_loop, Goto, flags, Has, Holds
<1>8. ASSUME ideintr PROVE Unseen \/ \E p \in Proc, s \in Good : Gets(p, s)
  BY <1>8, IdeintrGets
<1>9. CASE UNCHANGED vars
  <2>1. Unseen
    BY <1>9, OthersUnseen DEF vars, flags, Has, Holds
  <2>2. QED BY <2>1
<1>10. QED
  BY <1>1, <1>2, <1>3, <1>4, <1>5, <1>6, <1>7, <1>8, <1>9 DEF Next

\* "Return a B_BUSY buf with the contents of the indicated disk sector": for any
\* number of processes, sectors and buffers, whatever is recycled and in whatever
\* order the disk is asked, the cache implements the store of blocks on the
\* sectors that the drive can read.
THEOREM CacheIsStore == Spec => IsStore
<1>1. Init => Store!Init
  <2> SUFFICES ASSUME Init PROVE Store!Init
    OBVIOUS
  <2>1. ASSUME NEW s \in Sector \ Bad PROVE Value(s) \in Val /\ Owner(s) = NoProc
    BY <2>1 DEF Init, Value, Owner, Has, Holds
  <2>2. QED BY <2>1 DEF Store!Init
<1>2. IInv /\ IInv' /\ [Next]_vars
        => [Store!Next]_<<[s \in Sector \ Bad |-> Value(s)], [s \in Sector \ Bad |-> Owner(s)]>>
  <2> SUFFICES ASSUME IInv, IInv', [Next]_vars
               PROVE  Store!Next \/ Unseen
    BY DEF Unseen, vals, owners, Good
  <2>1. Known /\ Known'
    BY MappingKnown, MappingKnownNext
  <2>2. ASSUME NEW p \in Proc, NEW s \in Good, Gets(p, s) PROVE Store!Next
    BY <2>2 DEF Gets, vals, owners, Good, Store!Next, Store!Get
  <2>3. ASSUME NEW p \in Proc, NEW s \in Good, Puts(p, s) PROVE Store!Next
    BY <2>3 DEF Puts, vals, owners, Good, Store!Next, Store!Put
  <2>4. ASSUME NEW p \in Proc, NEW s \in Good, NEW v \in Val, Sets(p, s, v) PROVE Store!Next
    BY <2>4 DEF Sets, vals, owners, Good, Store!Next, Store!Set
  <2>5. QED BY <2>1, <2>2, <2>3, <2>4, StoreStep
<1>3. QED BY <1>1, <1>2, Invariant, PTL DEF Spec, IsStore, Store!Spec
=============================================================================
