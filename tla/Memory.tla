------------------------------- MODULE Memory -------------------------------
(***************************************************************************)
(* Physical pages and address spaces: kalloc.c, vm.c, exec.c and, of       *)
(* proc.c, what fork(), growproc() and wait() do with memory.              *)
(*                                                                         *)
(* A step is one turn of a loop that allocates a page, or one call that    *)
(* only frees; others may take or give pages between two steps.  Addresses *)
(* and sizes are small numbers: a page is PGSIZE of them, a page table     *)
(* maps NPTENTRIES pages, and the kernel's half of an address space needs  *)
(* one page table more.                                                    *)
(*                                                                         *)
(* The threads of a process may call sbrk() and fork() at the same time;   *)
(* exec() is called by the only thread of its process.                     *)
(*                                                                         *)
(* spilled and holed record what failed allocations leave behind: pages    *)
(* that nobody will free, and directories with unmapped pages below sz;    *)
(* raced, the directories that two threads have worked on at once.         *)
(***************************************************************************)
EXTENDS Integers, Sequences, SequencesExt

CONSTANTS
    NPROC, NTHREAD,
    NPAGES,              \* between end and PHYSTOP
    PGSIZE, NPTENTRIES, NPDENTRIES,
    Grow,                \* the arguments of sbrk()
    Programs,            \* the programs there are: where each segment ends
    MaxOps               \* a bound on the calls made

ASSUME MemoryAssumption ==
    /\ NPROC \in Nat \ {0} /\ NTHREAD \in Nat \ {0} /\ NPAGES \in Nat /\ NPAGES > 4
    /\ PGSIZE \in Nat \ {0} /\ NPTENTRIES \in Nat \ {0} /\ NPDENTRIES \in Nat \ {0}
    /\ Grow \subseteq Int \ {0} /\ Programs \subseteq Seq(Nat) /\ MaxOps \in Nat

Proc   == 1..NPROC
Thread == Proc \X (1..NTHREAD)
Page   == 1..NPAGES
VPage  == 0..(NPTENTRIES * NPDENTRIES - 1)
KERNBASE == NPTENTRIES * NPDENTRIES * PGSIZE
Word   == 4 * KERNBASE                  \* the machine's 2^32

initproc == 1                           \* one thread that makes no sbrk() and does not exit

PGROUNDUP(n) == ((n + PGSIZE - 1) \div PGSIZE) * PGSIZE

\* The virtual pages from address a up to b.
Between(a, b) == {v \in VPage : v * PGSIZE >= PGROUNDUP(a) /\ v * PGSIZE < b}

NoDir == [dir |-> 0, kpt |-> 0, pt |-> [d \in 0..(NPDENTRIES - 1) |-> 0],
          pte |-> [v \in VPage |-> 0], hidden |-> {}]

Idle == [op |-> "none", pc |-> "", pg |-> NoDir, old |-> 0, a |-> 0, end |-> 0, q |-> 0,
         segs |-> <<>>]

VARIABLES
    freelist,            \* kmem.freelist
    pstate, sz, pgdir, kstack,
    op,                  \* the call a thread is in, and its locals
    lock,                \* the thread in growproc()'s critical section, or none
    panic,
    spilled, holed, raced,
    ops

vars == <<freelist, pstate, sz, pgdir, kstack, op, lock, panic, spilled, holed, raced, ops>>

\* kinit1(), kinit2() and userinit(): one process with one page.
Init ==
    /\ freelist = [i \in 1..(NPAGES - 5) |-> i + 5]
    /\ pstate = [p \in Proc |-> IF p = 1 THEN "used" ELSE "UNUSED"]
    /\ sz = [p \in Proc |-> IF p = 1 THEN PGSIZE ELSE 0]
    /\ kstack = [p \in Proc |-> IF p = 1 THEN 1 ELSE 0]
    /\ pgdir = [p \in Proc |-> IF p = 1 THEN [NoDir EXCEPT !.dir = 2, !.kpt = 3, !.pte[0] = 4, !.pt[0] = 5] ELSE NoDir]
    /\ op = [t \in Thread |-> Idle]
    /\ lock = <<>> /\ panic = "none" /\ spilled = {} /\ holed = {} /\ raced = {} /\ ops = 0

-----------------------------------------------------------------------------
(* kalloc.c and vm.c *)

\* The page that kalloc() takes off the list, 0 if there is none.
kalloc(fl) == IF fl = <<>> THEN 0 ELSE Head(fl)

\* kfree() of the pages of s, one after the other.
kfree(fl, s) == Reverse(SelectSeq(s, LAMBDA x : x # 0)) \o fl

\* Is there a page table for virtual page v?  walkpgdir() without alloc.
walkpgdir(pg, v) == pg.pt[v \div NPTENTRIES] # 0

\* A page for v and mappages(): "nomem" if kalloc() has none, "nomap" if
\* walkpgdir() then finds none for the page table.
MapNew(fl, pg, v) ==
    LET mem == kalloc(fl)
        rest == Tail(fl)
    IN IF mem = 0 THEN [res |-> "nomem", fl |-> fl, pg |-> pg]
       ELSE IF pg.pte[v] # 0 THEN [res |-> "remap", fl |-> rest, pg |-> pg]
       ELSE IF walkpgdir(pg, v) THEN [res |-> "ok", fl |-> rest, pg |-> [pg EXCEPT !.pte[v] = mem]]
       ELSE IF kalloc(rest) = 0 THEN [res |-> "nomap", fl |-> rest, pg |-> pg]
       ELSE [res |-> "ok", fl |-> Tail(rest),
             pg |-> [pg EXCEPT !.pte[v] = mem, !.pt[v \div NPTENTRIES] = kalloc(rest)]]

\* The virtual pages that deallocuvm() looks at.  Where there is no page table
\* it goes on NPTENTRIES pages further, aligned or not.
Visited(pg, oldsz, newsz) ==
    LET from[v \in 0..(2 * NPTENTRIES * NPDENTRIES)] ==
            IF v * PGSIZE >= oldsz THEN {}
            ELSE IF walkpgdir(pg, v) THEN {v} \cup from[v + 1] ELSE from[v + NPTENTRIES]
    IN IF newsz >= oldsz THEN {} ELSE from[PGROUNDUP(newsz) \div PGSIZE]

\* The pages it frees, in order, and the page table it leaves.
Released(pg, oldsz, newsz) ==
    [i \in 1..(NPTENTRIES * NPDENTRIES) |-> IF i - 1 \in Visited(pg, oldsz, newsz) THEN pg.pte[i - 1] ELSE 0]

KeepsPte(pg, oldsz, newsz) == pg     \* mutant: *pte = 0 is missing

deallocuvm(pg, oldsz, newsz) ==
    LET gone == Visited(pg, oldsz, newsz)
    IN [pg EXCEPT !.pte = [v \in VPage |-> IF v \in gone THEN 0 ELSE pg.pte[v]]]

\* The size it returns.
deallocuvm_size(oldsz, newsz) == IF newsz >= oldsz THEN oldsz ELSE newsz

\* freevm(): the user's pages, the page tables and the directory.
freevm(fl, pg) ==
    kfree(fl, Released(pg, KERNBASE, 0) \o [d \in 1..NPDENTRIES |-> pg.pt[d - 1]] \o <<pg.kpt, pg.dir>>)

\* loaduvm() wants a page table for every page it loads into, clearpteu() for
\* the page it takes from the user.  copyout() fails where the user has no page,
\* but uva2ka() takes it that there is a page table.
loaduvm(pg, old, new) == \A v \in Between(old, new) : walkpgdir(pg, v)
clearpteu(pg, v)      == [pg EXCEPT !.hidden = @ \cup {v}]
uva2ka(pg, v)         == pg.pte[v] # 0 /\ v \notin pg.hidden

-----------------------------------------------------------------------------
(* The steps of the calls *)

At(t, call, pc) == panic = "none" /\ op[t].op = call /\ op[t].pc = pc

Set(t, o) == op' = [op EXCEPT ![t] = o]

\* The other calls that p's threads are in.
Others(t) == {op[u].op : u \in {u \in Thread : u[1] = t[1] /\ u # t}} \ {"none"}

\* A thread makes a call; its code must be mapped for that.
Begin(t) ==
    /\ panic = "none" /\ pstate[t[1]] = "used" /\ op[t] = Idle /\ pgdir[t[1]].pte[0] # 0
    /\ Others(t) \subseteq {"sbrk", "fork"} /\ (t[2] = 1 \/ t[1] # initproc)
    /\ raced' = IF Others(t) = {} THEN raced ELSE raced \cup {pgdir[t[1]].dir}
    /\ ops < MaxOps /\ ops' = ops + 1

\* The page table that allocuvm() works on.
Target(t) == IF op[t].op = "sbrk" THEN pgdir[t[1]] ELSE op[t].pg

Retarget(t, pg, o) ==
    IF op[t].op = "sbrk" THEN pgdir' = [pgdir EXCEPT ![t[1]] = pg] /\ Set(t, o)
    ELSE UNCHANGED pgdir /\ Set(t, [o EXCEPT !.pg = pg])

NotRounded(o, newsz) ==   \* mutant: it begins at oldsz, in a page that is mapped
    IF newsz >= KERNBASE THEN [o EXCEPT !.pc = "failed"]
    ELSE [o EXCEPT !.old = o.end, !.a = o.end, !.end = newsz, !.pc = "alloc"]

\* allocuvm() from size o.end to newsz: it fails at once, has nothing to do, or
\* goes through the pages.
StartAlloc(o, newsz) ==
    IF newsz >= KERNBASE THEN [o EXCEPT !.pc = "failed"]
    ELSE IF newsz < o.end THEN [o EXCEPT !.pc = "grown"]
    ELSE [o EXCEPT !.old = o.end, !.a = PGROUNDUP(o.end), !.end = newsz, !.pc = "alloc"]

\* One turn of its loop.  It does not look at what mappages() returns.
allocuvm(t) ==
    /\ panic = "none" /\ op[t].pc = "alloc"
    /\ LET o == op[t]
           pg == Target(t)
           m == MapNew(freelist, pg, o.a \div PGSIZE)
       IN \/ /\ o.a >= o.end
             /\ Set(t, [o EXCEPT !.pc = "grown"])
             /\ UNCHANGED <<freelist, pgdir, panic, spilled, holed>>
          \/ /\ o.a < o.end /\ m.res # "nomem"
             /\ freelist' = m.fl
             /\ Retarget(t, m.pg, [o EXCEPT !.a = @ + PGSIZE])
             /\ IF m.res = "nomap"
                THEN spilled' = spilled \cup {Head(freelist)} /\ holed' = holed \cup {pg.dir}
                ELSE UNCHANGED <<spilled, holed>>
             /\ panic' = IF m.res = "remap" THEN "remap" ELSE "none"
          \/ /\ o.a < o.end /\ m.res = "nomem"
             /\ freelist' = kfree(freelist, Released(pg, o.end, o.old))
             /\ Retarget(t, deallocuvm(pg, o.end, o.old), [o EXCEPT !.pc = "failed"])
             /\ UNCHANGED <<panic, spilled, holed>>
    /\ UNCHANGED <<pstate, sz, kstack, lock, raced, ops>>

\* sys_sbrk() and growproc(): the size is read before the lock is taken.
sbrk(t, n) ==
    /\ Begin(t) /\ t[1] # initproc
    /\ Set(t, [Idle EXCEPT !.op = "sbrk", !.pc = IF n > 0 THEN "grow" ELSE "shrink",
                           !.old = sz[t[1]], !.end = (sz[t[1]] + n) % Word])
    /\ UNCHANGED <<freelist, pstate, sz, pgdir, kstack, lock, panic, spilled, holed>>

grow(t) ==
    /\ At(t, "sbrk", "grow") /\ lock = <<>>
    /\ lock' = t
    /\ Set(t, StartAlloc([op[t] EXCEPT !.end = op[t].old], op[t].end))
    /\ UNCHANGED <<freelist, pstate, sz, pgdir, kstack, panic, spilled, holed, raced, ops>>

AlwaysGrown(t) ==   \* mutant: the result of allocuvm() is not looked at
    /\ At(t, "sbrk", "grown") \/ At(t, "sbrk", "failed")
    /\ lock' = <<>>
    /\ Set(t, [op[t] EXCEPT !.pc = "released"])
    /\ UNCHANGED <<freelist, pstate, sz, pgdir, kstack, panic, spilled, holed, raced, ops>>

\* allocuvm() has returned: growproc() gives the lock back, and -1 on failure.
grow_release(t) ==
    /\ At(t, "sbrk", "grown") \/ At(t, "sbrk", "failed")
    /\ lock' = <<>>
    /\ Set(t, IF op[t].pc = "grown" THEN [op[t] EXCEPT !.pc = "released"] ELSE Idle)
    /\ UNCHANGED <<freelist, pstate, sz, pgdir, kstack, panic, spilled, holed, raced, ops>>

\* n < 0: when nothing is left it reports failure and keeps the size.
shrink(t) ==
    /\ At(t, "sbrk", "shrink") /\ lock = <<>>
    /\ LET o == op[t]
           p == t[1]
           left == deallocuvm_size(o.old, o.end)
       IN /\ freelist' = kfree(freelist, Released(pgdir[p], o.old, o.end))
          /\ pgdir' = [pgdir EXCEPT ![p] = deallocuvm(pgdir[p], o.old, o.end)]
          /\ Set(t, IF left = 0 THEN Idle ELSE [o EXCEPT !.pc = "released", !.end = left])
    /\ UNCHANGED <<pstate, sz, kstack, lock, panic, spilled, holed, raced, ops>>

\* The end of growproc(): proc->sz is assigned after the lock is released, and
\* another thread may have come and gone in between.
grown(t) ==
    /\ At(t, "sbrk", "released")
    /\ sz' = [sz EXCEPT ![t[1]] = op[t].end]
    /\ Set(t, Idle)
    /\ UNCHANGED <<freelist, pstate, pgdir, kstack, lock, panic, spilled, holed, raced, ops>>

\* fork() up to copyuvm(): allocproc() takes an entry and a kernel stack.
fork(t) ==
    /\ Begin(t)
    /\ LET unused == {q \in Proc : pstate[q] = "UNUSED"}
           q == Min(unused)
       IN IF unused = {} \/ kalloc(freelist) = 0 THEN UNCHANGED <<freelist, pstate, kstack, op>>
          ELSE /\ pstate' = [pstate EXCEPT ![q] = "EMBRYO"]
               /\ kstack' = [kstack EXCEPT ![q] = kalloc(freelist)]
               /\ freelist' = Tail(freelist)
               /\ Set(t, [Idle EXCEPT !.op = "fork", !.pc = "setupkvm", !.q = q, !.end = sz[t[1]]])
    /\ UNCHANGED <<sz, pgdir, lock, panic, spilled, holed>>

\* exec() of a program that namei() and the ELF header have shown to be there.
exec(t, segs) ==
    /\ Begin(t) /\ t[2] = 1 /\ Others(t) = {}
    /\ Set(t, [Idle EXCEPT !.op = "exec", !.pc = "setupkvm", !.segs = segs])
    /\ UNCHANGED <<freelist, pstate, sz, pgdir, kstack, lock, panic, spilled, holed>>

\* fork() gives up, with the free list fl: the kernel stack and the entry go back.
NoChild(t, fl) ==
    /\ Set(t, Idle)
    /\ freelist' = kfree(fl, <<kstack[op[t].q]>>)
    /\ kstack' = [kstack EXCEPT ![op[t].q] = 0]
    /\ pstate' = [pstate EXCEPT ![op[t].q] = "UNUSED"]

\* setupkvm(): when mappages() fails, the directory is not given back.
setupkvm(t) ==
    /\ At(t, "fork", "setupkvm") \/ At(t, "exec", "setupkvm")
    /\ \/ /\ Len(freelist) >= 2
          /\ Set(t, [op[t] EXCEPT !.pg.dir = freelist[1], !.pg.kpt = freelist[2],
                                  !.pc = IF op[t].op = "fork" THEN "copyuvm" ELSE "grown"])
          /\ freelist' = SubSeq(freelist, 3, Len(freelist))
          /\ UNCHANGED <<kstack, pstate, spilled>>
       \/ /\ Len(freelist) < 2
          /\ IF op[t].op = "fork" THEN NoChild(t, <<>>)
             ELSE Set(t, Idle) /\ freelist' = <<>> /\ UNCHANGED <<kstack, pstate>>
          /\ spilled' = spilled \cup Range(freelist)
    /\ UNCHANGED <<sz, pgdir, lock, panic, holed, raced, ops>>

\* One turn of copyuvm()'s loop, and the rest of fork() after the last.
copyuvm(t) ==
    /\ At(t, "fork", "copyuvm")
    /\ LET o == op[t]
           v == o.a \div PGSIZE
           from == pgdir[t[1]]
           m == MapNew(freelist, o.pg, v)
           there == walkpgdir(from, v) /\ from.pte[v] # 0
       IN \/ /\ o.a >= o.end
             /\ pgdir' = [pgdir EXCEPT ![o.q] = o.pg]
             /\ sz' = [sz EXCEPT ![o.q] = sz[t[1]]]
             /\ pstate' = [pstate EXCEPT ![o.q] = "used"]
             /\ raced' = IF from.dir \in raced THEN raced \cup {o.pg.dir} ELSE raced
             /\ Set(t, Idle)
             /\ UNCHANGED <<freelist, kstack, panic, spilled>>
          \/ /\ o.a < o.end /\ (there => m.res = "ok")
             /\ panic' = IF there THEN "none"
                         ELSE IF walkpgdir(from, v) THEN "copyuvm: page not present" ELSE "copyuvm: pte should exist"
             /\ freelist' = m.fl
             /\ Set(t, [o EXCEPT !.a = @ + PGSIZE,
                                 !.pg = [m.pg EXCEPT !.hidden = IF v \in from.hidden THEN @ \cup {v} ELSE @]])
             /\ UNCHANGED <<kstack, pstate, sz, pgdir, spilled, raced>>
          \/ /\ o.a < o.end /\ there /\ m.res # "ok"
             /\ NoChild(t, freevm(m.fl, o.pg))
             /\ spilled' = spilled \cup Range(freelist)
             /\ UNCHANGED <<sz, pgdir, panic, raced>>
    /\ UNCHANGED <<lock, holed, ops>>

\* exec() after an allocuvm() that has returned o.end: it loads the segment
\* (readi() may fail) and goes on to the next one, and to the stack.
exec_next(t) ==
    /\ At(t, "exec", "grown")
    /\ LET o == op[t]
           next == IF o.segs # <<>> THEN StartAlloc([o EXCEPT !.segs = Tail(@)], Head(o.segs))
                   ELSE [StartAlloc([o EXCEPT !.end = PGROUNDUP(@)], PGROUNDUP(o.end) + 2 * PGSIZE)
                         EXCEPT !.op = "stack"]
       IN /\ Set(t, next) \/ Set(t, [o EXCEPT !.pc = "failed"])
          /\ panic' = IF loaduvm(o.pg, o.old, o.end) THEN "none" ELSE "loaduvm: address should exist"
    /\ UNCHANGED <<freelist, pstate, sz, pgdir, kstack, lock, spilled, holed, raced, ops>>

\* copyout() to a page without a page table: uva2ka() reads an entry at address
\* 0, in the old image.  Either that denies access, or the arguments go to
\* whatever page of memory it names and anything may follow.
copyout_wild(t, v) ==
    /\ ~walkpgdir(op[t].pg, v)
    /\ panic' = "uva2ka: no page table"
    /\ UNCHANGED <<freelist, op, sz, pgdir, holed, raced>>

\* With the stack allocated: clearpteu(), copyout() of the arguments, which may
\* not fit, and then the new image replaces the old one.
exec_commit(t) ==
    /\ At(t, "stack", "grown")
    /\ LET o == op[t]
           p == t[1]
           guard == (o.end - 2 * PGSIZE) \div PGSIZE
           pg == clearpteu(o.pg, guard)
           there == IF walkpgdir(o.pg, guard) THEN "none" ELSE "clearpteu"
       IN \/ /\ uva2ka(pg, guard + 1)
             /\ pgdir' = [pgdir EXCEPT ![p] = pg]
             /\ sz' = [sz EXCEPT ![p] = o.end]
             /\ freelist' = freevm(freelist, pgdir[p])
             /\ holed' = holed \ {pgdir[p].dir}
             /\ raced' = raced \ {pgdir[p].dir}
             /\ Set(t, Idle) /\ panic' = there
          \/ /\ Set(t, [o EXCEPT !.pc = "failed"]) /\ panic' = there
             /\ UNCHANGED <<freelist, sz, pgdir, holed, raced>>
          \/ there = "none" /\ copyout_wild(t, guard + 1)
    /\ UNCHANGED <<pstate, kstack, lock, spilled, ops>>

\* bad: in exec().
exec_bad(t) ==
    /\ At(t, "exec", "failed") \/ At(t, "stack", "failed")
    /\ freelist' = freevm(freelist, op[t].pg)
    /\ holed' = holed \ {op[t].pg.dir}
    /\ Set(t, Idle)
    /\ UNCHANGED <<pstate, sz, pgdir, kstack, lock, panic, spilled, raced, ops>>

\* exit(), by the program or because it has been killed.
exit(p) ==
    /\ panic = "none" /\ pstate[p] = "used" /\ p # initproc
    /\ \A i \in 1..NTHREAD : op[<<p, i>>] = Idle
    /\ pstate' = [pstate EXCEPT ![p] = "ZOMBIE"]
    /\ UNCHANGED <<freelist, sz, pgdir, kstack, op, lock, panic, spilled, holed, raced, ops>>

\* wait() by the parent of a zombie, with ptable.lock.
wait(p) ==
    /\ panic = "none" /\ lock = <<>> /\ pstate[p] = "ZOMBIE"
    /\ freelist' = freevm(kfree(freelist, <<kstack[p]>>), pgdir[p])
    /\ kstack' = [kstack EXCEPT ![p] = 0]
    /\ pgdir' = [pgdir EXCEPT ![p] = NoDir]
    /\ holed' = holed \ {pgdir[p].dir} /\ raced' = raced \ {pgdir[p].dir}
    /\ pstate' = [pstate EXCEPT ![p] = "UNUSED"]
    /\ UNCHANGED <<sz, op, lock, panic, spilled, ops>>

Next ==
    \/ \E p \in Proc : exit(p) \/ wait(p)
    \/ \E t \in Thread :
        \/ \E n \in Grow : sbrk(t, n)
        \/ \E segs \in Programs : exec(t, segs)
        \/ allocuvm(t) \/ grow(t) \/ grow_release(t) \/ shrink(t) \/ grown(t) \/ fork(t) \/ setupkvm(t) \/ copyuvm(t)
        \/ exec_next(t) \/ exec_commit(t) \/ exec_bad(t)

Spec == Init /\ [][Next]_vars

-----------------------------------------------------------------------------
(* Properties *)

\* The places of an address space that hold page x.
Uses(pg, x) ==
    Cardinality({v \in VPage : pg.pte[v] = x}) + Cardinality({d \in DOMAIN pg.pt : pg.pt[d] = x})
    + (IF pg.kpt = x THEN 1 ELSE 0) + (IF pg.dir = x THEN 1 ELSE 0)

\* Every page is in one place: on the free list once, or used once, as kernel
\* stack, page table, directory or user memory, by one process, or by a call
\* under way; or a failed setupkvm(), copyuvm() or allocuvm() has lost it.
PagesAccounted ==
    panic = "none" =>
    \A x \in Page :
        1 = Cardinality({i \in DOMAIN freelist : freelist[i] = x})
            + Cardinality({p \in Proc : kstack[p] = x})
            + MapThenSumSet(LAMBDA p : Uses(pgdir[p], x), Proc)
            + MapThenSumSet(LAMBDA t : Uses(op[t].pg, x), Thread)
            + (IF x \in spilled THEN 1 ELSE 0)

\* Between calls the pages below sz are mapped, and no others: what the checks
\* of system call arguments against proc->sz and copyuvm() rely on.  A process
\* that has lost a page table to allocuvm(), given up all its memory, or let two
\* threads into these calls at once, is left out.
SizeMapped ==
    \A p \in Proc :
        /\ panic = "none" /\ pstate[p] \in {"used", "ZOMBIE"}
        /\ pgdir[p].dir \notin holed \cup raced /\ pgdir[p].pte[0] # 0
        /\ \A i \in 1..NTHREAD : op[<<p, i>>].op # "sbrk"
        => {v \in VPage : pgdir[p].pte[v] # 0} = {v \in VPage : v * PGSIZE < sz[p]}

\* The assertions of vm.c hold: "remap", "copyuvm: pte should exist", "copyuvm:
\* page not present", "loaduvm: address should exist", "clearpteu"; and uva2ka()
\* finds a page table; unless a page table could not be allocated, or two threads
\* of a process were in sbrk() or fork() at once: growproc() reads proc->sz before
\* it has the lock and writes it after.
Asserted == panic = "none" \/ holed # {} \/ raced # {}
=============================================================================
