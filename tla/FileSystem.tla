----------------------------- MODULE FileSystem -----------------------------
(***************************************************************************)
(* The file system above the log: fs.c, file.c and sysfile.c.              *)
(*                                                                         *)
(* disk is what the buffer cache shows; stable is what the log has         *)
(* committed, and so what a crash leaves.  The log is used by its promise  *)
(* (AtomicDisk): end_op() commits when no other operation is outstanding.  *)
(*                                                                         *)
(* A step of a process begins where it may have to wait, or where others   *)
(* can come between: at ilock(), at iput() and at end_op().  An inode that *)
(* is locked and unlocked again with neither in between is not seen busy.  *)
(* The iunlock(), iput() and end_op() calls that a step leaves behind are  *)
(* in todo, in their order.                                                *)
(*                                                                         *)
(* A block holds directory entries (ent) or block numbers (ind); sizes and *)
(* offsets are in blocks, and a directory has one.  A path is a sequence   *)
(* of names with a flag that says whether it begins at the root.           *)
(***************************************************************************)
EXTENDS Integers, Sequences, SequencesExt

CONSTANTS
    Proc, First,          \* First is the process that init starts
    NINODES, NBLOCKS,     \* of the disk
    NINODE, NFILE, NOFILE,  \* param.h: cache entries, open files, descriptors
    NDIRECT, NINDIRECT,   \* fs.h
    MaxWrite,             \* filewrite()'s max, in blocks
    Names,                \* the names of directory entries, but "." and ".."
    Programs,             \* the files that mkfs puts into the root
    Workloads,            \* what the programs do: some calls one after the other,
                          \* then calls out of a set, so many by each process
    MaxCrashes            \* a bound

ROOTINO == 1
CONSOLE == 1          \* file.h: the one device that has a driver
Inum    == 1..NINODES
Block   == 1..NBLOCKS
Slot    == 1..NINODE
File    == 1..NFILE
Fd      == 0..(NOFILE - 1)
None    == 0

Name     == Names \cup {".", ".."}
MAXFILE  == NDIRECT + NINDIRECT
NoBlocks == [i \in 0..NDIRECT |-> 0]
FreeInode == [type |-> "free", major |-> 0, nlink |-> 0, size |-> 0, addrs |-> NoBlocks]
Zeroed   == [ent |-> [n \in Name |-> 0], ind |-> [j \in 0..(NINDIRECT - 1) |-> 0]]

ASSUME FileSystemAssumption ==
    /\ NDIRECT \in Nat \ {0} /\ MaxWrite \in Nat \ {0}
    /\ Len(Programs) < NINODES /\ Len(Programs) < NBLOCKS
    /\ \A i \in DOMAIN Programs : Programs[i] \in Names

VARIABLES
    disk, stable,      \* [ino, data, used]
    icache,            \* entries [inum, ref, busy, valid, d]
    ftable,            \* files [type, ref, ip, off, mode]
    cwd, ofile,        \* of each process
    proc,              \* where each process is, and its local variables
    outstanding,       \* operations between begin_op() and end_op()
    panic,
    work, calls, crashes   \* the workload; the calls and crashes so far

bounds == <<work, calls, crashes>>
vars == <<disk, stable, icache, ftable, cwd, ofile, proc, outstanding, panic, bounds>>

Local == [pc |-> "user", todo |-> <<>>, then |-> "", parent |-> FALSE, path |-> <<>>,
          ip |-> None, held |-> None, name |-> "", call |-> [call |-> "none"], n |-> 0]

Unborn == [Local EXCEPT !.pc = "unborn"]

\* ialloc() of mkfs and, with iappend(), a block.
mkfs_inode(type, b) ==
    [FreeInode EXCEPT !.type = type, !.nlink = 1, !.size = 1, !.addrs = [NoBlocks EXCEPT ![0] = b]]

\* mkfs: the root, with its dots, and the programs, a block each.
mkfs ==
    LET N == Len(Programs)
        entry(n) == IF n \in {".", ".."} THEN ROOTINO
                    ELSE IF \E i \in 1..N : Programs[i] = n
                         THEN 1 + CHOOSE i \in 1..N : Programs[i] = n ELSE 0
    IN [ino  |-> [i \in Inum |-> IF i = ROOTINO THEN mkfs_inode("dir", 1)
                                 ELSE IF i <= N + 1 THEN mkfs_inode("file", i) ELSE FreeInode],
        data |-> [b \in Block |-> IF b = 1 THEN [Zeroed EXCEPT !.ent = [n \in Name |-> entry(n)]] ELSE Zeroed],
        used |-> 1..(N + 1)]

\* The caches and the first process, in the root, before it makes any call.
Boot == [
    icache |-> [e \in Slot |-> [inum |-> IF e = 1 THEN ROOTINO ELSE 0,
                                ref |-> IF e = 1 THEN 1 ELSE 0,
                                busy |-> FALSE, valid |-> FALSE, d |-> FreeInode]],
    ftable |-> [f \in File |-> [type |-> "none", ref |-> 0, ip |-> None, off |-> 0, mode |-> ""]],
    cwd    |-> [p \in Proc |-> IF p = First THEN 1 ELSE None],
    ofile  |-> [p \in Proc |-> [fd \in Fd |-> None]],
    proc   |-> [p \in Proc |-> IF p = First THEN Local ELSE Unborn]]

Init ==
    /\ disk = mkfs /\ stable = mkfs
    /\ icache = Boot.icache /\ ftable = Boot.ftable /\ cwd = Boot.cwd /\ ofile = Boot.ofile
    /\ proc = Boot.proc /\ outstanding = 0 /\ panic = "none"
    /\ work \in Workloads /\ calls = [p \in Proc |-> 0] /\ crashes = 0

-----------------------------------------------------------------------------
(* Blocks and inodes *)

\* A state of the disk and of one inode on the way: st.out when balloc() found
\* no block and panics.
balloc(st) ==
    LET free == Block \ st.disk.used
        b == Min(free)
    IN IF free = {} THEN [st EXCEPT !.out = TRUE, !.b = 1]
       ELSE [st EXCEPT !.disk.used = @ \cup {b}, !.disk.data[b] = Zeroed, !.b = b]

\* The disk block of block bn of the inode st.d, in st.b.
bmap(st, bn) ==
    IF bn < NDIRECT
    THEN IF st.d.addrs[bn] # 0 THEN [st EXCEPT !.b = st.d.addrs[bn]]
         ELSE LET s == balloc(st) IN [s EXCEPT !.d.addrs[bn] = s.b]
    ELSE LET s == IF st.d.addrs[NDIRECT] # 0 THEN st
                  ELSE LET s0 == balloc(st) IN [s0 EXCEPT !.d.addrs[NDIRECT] = s0.b]
             ib == s.d.addrs[NDIRECT]
             a == s.disk.data[ib].ind[bn - NDIRECT]
         IN IF a # 0 THEN [s EXCEPT !.b = a]
            ELSE LET s1 == balloc(s) IN [s1 EXCEPT !.disk.data[ib].ind[bn - NDIRECT] = s1.b]

\* writei() of n blocks at off: -1 (n = 0 here) past the largest file and for a
\* device that has no driver.
writei(st, off, n) ==
    LET s == FoldLeft(LAMBDA acc, i : bmap(acc, off + i - 1), st, [i \in 1..n |-> i])
    IN IF st.d.type = "dev" THEN [st EXCEPT !.n = 0]
       ELSE IF off > st.d.size \/ off + n > MAXFILE THEN [st EXCEPT !.n = 0]
       ELSE [s EXCEPT !.d.size = IF off + n > @ THEN off + n ELSE @, !.n = n]

Work(dk, d) == [disk |-> dk, d |-> d, b |-> 0, n |-> 0, out |-> FALSE]

\* The blocks that itrunc() frees, one after the other.
FreesDirect(dk, d) ==   \* mutant: what the indirect block lists is kept
    SelectSeq([i \in 1..(NDIRECT + 1) |-> d.addrs[i - 1]], LAMBDA b : b # 0)

itrunc_blocks(dk, d) ==
    LET ib == d.addrs[NDIRECT]
        listed == IF ib = 0 THEN <<>> ELSE [j \in 1..NINDIRECT |-> dk.data[ib].ind[j - 1]]
    IN SelectSeq([i \in 1..NDIRECT |-> d.addrs[i - 1]] \o listed \o <<ib>>, LAMBDA b : b # 0)

\* How many blocks readi() of one block at off returns; -1 is 0 here.
readi(d, off) == IF d.type # "dev" /\ off < d.size THEN 1 ELSE 0

\* readi() and writei() call consoleread() and consolewrite().
HasDriver(d) == d.type = "dev" /\ d.major = CONSOLE

\* Entry n of directory d, 0 if there is none.
dirlookup(dk, d, n) == IF d.size = 0 THEN 0 ELSE dk.data[d.addrs[0]].ent[n]

\* dirlink(), once the name has been found to be free.
dirlink(st, n, inum) ==
    LET s == writei(st, 0, 1)
    IN [s EXCEPT !.disk.data[s.d.addrs[0]].ent[n] = inum]

isdirempty(dk, d) == \A n \in Names : dirlookup(dk, d, n) = 0

\* ip->xxx once the inode is locked: ilock() reads an entry that is not valid.
Inode(e) == IF icache[e].valid THEN icache[e].d ELSE disk.ino[icache[e].inum]

\* The entry that iget(inum) returns, None if it panics.
iget_slot(ic, inum) ==
    LET hit == {e \in Slot : ic[e].ref > 0 /\ ic[e].inum = inum}
        empty == {e \in Slot : ic[e].ref = 0}
    IN IF hit # {} THEN Min(hit) ELSE IF empty # {} THEN Min(empty) ELSE None

KeepsFlags(ic, inum) ==   \* mutant: a recycled entry keeps I_VALID
    LET e == iget_slot(ic, inum)
    IN IF e = None THEN ic ELSE [ic EXCEPT ![e].inum = inum, ![e].ref = @ + 1]

iget(ic, inum) ==
    LET e == iget_slot(ic, inum)
    IN IF e = None THEN ic
       ELSE IF ic[e].ref > 0 THEN [ic EXCEPT ![e].ref = @ + 1]
       ELSE [ic EXCEPT ![e] = [@ EXCEPT !.inum = inum, !.ref = 1, !.busy = FALSE, !.valid = FALSE]]

idup(ic, e) == [ic EXCEPT ![e].ref = @ + 1]

\* The cache after ilock(e) and, at once, changes to the inode and iupdate().
Locked(ic, e, d)   == [ic EXCEPT ![e].valid = TRUE, ![e].d = d, ![e].busy = TRUE]
Unlocked(ic, e, d) == [Locked(ic, e, d) EXCEPT ![e].busy = FALSE]
iupdate(dk, e, d)  == [dk EXCEPT !.ino[icache[e].inum] = d]

-----------------------------------------------------------------------------
(* Control.  A panic stops the machine: nothing is said of the state it leaves. *)

At(p, where) == panic = "none" /\ proc[p].todo = <<>> /\ proc[p].pc = where

\* The first of the panics that are due, as pairs of a condition and a message.
PanicIf(checks) ==
    LET due == SelectSeq(checks, LAMBDA c : c[1])
    IN panic' = IF due = <<>> THEN "none" ELSE Head(due)[2]

\* p goes to pc with locals r, and has todo to do first.
Go(p, r, pc, todo) == proc' = [proc EXCEPT ![p] = [r EXCEPT !.pc = pc, !.todo = todo]]

\* The call is over, but for todo and its end_op().
Done(p, todo) == Go(p, Local, "user", Append(todo, <<"end_op", None>>))

ForgetsIput(p, todo) ==   \* mutant: sys_link() takes the directory's iput() for its own
    IF proc[p].then = "link_to" THEN Go(p, [proc[p] EXCEPT !.ip = None], "link_bad", <<>>)
    ELSE Done(p, todo)

\* namex() returns 0, after todo: sys_link() has its first inode to look after.
NoInode(p, todo) ==
    IF proc[p].then = "link_to" THEN Go(p, [proc[p] EXCEPT !.ip = None], "link_bad", todo)
    ELSE Done(p, todo)

\* namex() begins with iget(ROOTDEV, ROOTINO) or idup(proc->cwd).
StartNamex(p, r, ic, path, parent, then) ==
    LET e == IF path.abs THEN iget_slot(ic, ROOTINO) ELSE cwd[p]
    IN /\ icache' = IF path.abs THEN iget(ic, ROOTINO) ELSE idup(ic, e)
       /\ Go(p, [r EXCEPT !.ip = e, !.path = path.el, !.parent = parent, !.then = then],
             "namex", <<>>)
       /\ PanicIf(<<<<e = None, "iget: no inodes">>>>)

\* One round of namex()'s loop, from ilock(ip) to iunlock(ip); then iput(ip).
namex(p) ==
    /\ At(p, "namex")
    /\ LET r == proc[p]
           e == r.ip
           d == Inode(e)
           last == r.parent /\ Len(r.path) = 1
           inum == IF d.type = "dir" THEN dirlookup(disk, d, Head(r.path)) ELSE 0
           ic == Unlocked(icache, e, d)
       IN \/ /\ r.path = <<>>
             /\ IF r.parent THEN NoInode(p, <<<<"iput", e>>>>) ELSE Go(p, r, r.then, <<>>)
             /\ UNCHANGED <<icache, panic>>
          \/ /\ r.path # <<>> /\ ~icache[e].busy
             /\ d.type # "dir" \/ (~last /\ inum = 0)
             /\ icache' = ic
             /\ NoInode(p, <<<<"iput", e>>>>)
             /\ PanicIf(<<<<d.type = "free", "ilock: no type">>>>)
          \/ /\ r.path # <<>> /\ ~icache[e].busy /\ d.type = "dir" /\ last
             /\ icache' = ic
             /\ Go(p, [r EXCEPT !.name = Head(r.path), !.path = <<>>], r.then, <<>>)
             /\ UNCHANGED panic
          \/ /\ r.path # <<>> /\ ~icache[e].busy /\ d.type = "dir" /\ ~last /\ inum # 0
             /\ icache' = iget(ic, inum)
             /\ Go(p, [r EXCEPT !.ip = iget_slot(ic, inum), !.path = Tail(@)],
                   "namex", <<<<"iput", e>>>>)
             /\ PanicIf(<<<<iget_slot(ic, inum) = None, "iget: no inodes">>>>)
    /\ UNCHANGED <<disk, stable, ftable, cwd, ofile, outstanding, bounds>>

\* The calls left behind, one at a time.
todo_iunlock(p) ==
    /\ icache' = [icache EXCEPT ![Head(proc[p].todo)[2]].busy = FALSE]
    /\ Go(p, proc[p], proc[p].pc, Tail(proc[p].todo))
    /\ PanicIf(<<<<~icache[Head(proc[p].todo)[2]].busy \/ icache[Head(proc[p].todo)[2]].ref < 1, "iunlock">>>>)
    /\ UNCHANGED <<disk, stable, outstanding>>

IgnoresRefs(c)  == c.valid /\ c.d.nlink = 0   \* mutant: other references are not looked at
IgnoresLinks(c) == c.ref = 1 /\ c.valid       \* mutant: nor is the link count

\* iput() up to its first release(): to free the inode it must come back.
Unreferenced(c) == c.ref = 1 /\ c.valid /\ c.d.nlink = 0

iput(p) ==
    LET e == Head(proc[p].todo)[2]
        c == icache[e]
        rest == Tail(proc[p].todo)
    IN /\ \/ /\ Unreferenced(c)
             /\ icache' = [icache EXCEPT ![e].busy = TRUE]
             /\ Go(p, proc[p], proc[p].pc, <<<<"itrunc", e>>, <<"ifreed", e>>>> \o rest)
             /\ PanicIf(<<<<c.busy, "iput busy">>>>)
          \/ /\ ~Unreferenced(c)
             /\ icache' = [icache EXCEPT ![e].ref = @ - 1]
             /\ Go(p, proc[p], proc[p].pc, rest)
             /\ UNCHANGED panic
       /\ UNCHANGED <<disk, stable, outstanding>>

\* itrunc(), ip->type = 0 and iupdate(), without icache.lock.
itrunc(p) ==
    LET e == Head(proc[p].todo)[2]
        gone == itrunc_blocks(disk, icache[e].d)
    IN /\ icache' = [icache EXCEPT ![e].d = [FreeInode EXCEPT !.nlink = icache[e].d.nlink, !.major = icache[e].d.major]]
       /\ disk' = [iupdate(disk, e, icache'[e].d) EXCEPT !.used = @ \ Range(gone)]
       /\ Go(p, proc[p], proc[p].pc, Tail(proc[p].todo))
       /\ PanicIf(<<<<~(Range(gone) \subseteq disk.used /\ IsInjective(gone)), "freeing free block">>>>)
       /\ UNCHANGED <<stable, outstanding>>

\* iput() takes icache.lock again: ip->flags = 0, ip->ref--.
ifreed(p) ==
    LET e == Head(proc[p].todo)[2]
    IN /\ icache' = [icache EXCEPT ![e].busy = FALSE, ![e].valid = FALSE, ![e].ref = @ - 1]
       /\ Go(p, proc[p], proc[p].pc, Tail(proc[p].todo))
       /\ UNCHANGED <<disk, stable, outstanding, panic>>

\* The last operation to end commits what all of them have written.
end_op(p) ==
    /\ outstanding' = outstanding - 1
    /\ stable' = IF outstanding = 1 THEN disk ELSE stable
    /\ Go(p, proc[p], proc[p].pc, Tail(proc[p].todo))
    /\ UNCHANGED <<disk, icache, panic>>

Todo(p) ==
    /\ panic = "none" /\ proc[p].todo # <<>>
    /\ LET what == Head(proc[p].todo)[1]
       IN \/ what = "iunlock" /\ todo_iunlock(p)
          \/ what = "iput" /\ iput(p)
          \/ what = "itrunc" /\ itrunc(p)
          \/ what = "ifreed" /\ ifreed(p)
          \/ what = "end_op" /\ end_op(p)
    /\ UNCHANGED <<ftable, cwd, ofile, bounds>>

-----------------------------------------------------------------------------
(* System calls on paths: sysfile.c *)

StartPathCall(p, c) ==
    /\ c.call \in {"open", "create", "mkdir", "mknod", "unlink", "link", "chdir"}
    /\ outstanding' = outstanding + 1
    /\ StartNamex(p, [Local EXCEPT !.call = c], icache, c.path,
                  c.call \in {"create", "mkdir", "mknod", "unlink"},
                  IF c.call \in {"mkdir", "mknod"} THEN "create" ELSE c.call)
    /\ UNCHANGED <<disk, stable, ftable, cwd, ofile>>

\* The entries that filealloc() and fdalloc() take the first of.
filealloc  == {f \in File : ftable[f].ref = 0}
fdalloc(p) == {fd \in Fd : ofile[p][fd] = None}

NewFile(p, e) == [type |-> "inode", ref |-> 1, ip |-> e, off |-> 0, mode |-> proc[p].call.mode]

StaysLocked(p, e, ic) ==   \* mutant: without a file or descriptor, iput() for iunlockput()
    LET files == filealloc
        fds == fdalloc(p)
    IN \/ /\ files # {} /\ fds # {}
          /\ ftable' = [ftable EXCEPT ![Min(files)] = NewFile(p, e)]
          /\ ofile' = [ofile EXCEPT ![p][Min(fds)] = Min(files)]
          /\ icache' = [ic EXCEPT ![e].busy = FALSE]
          /\ Done(p, <<>>)
       \/ /\ files = {} \/ fds = {}
          /\ icache' = ic
          /\ Done(p, <<<<"iput", e>>>>)
          /\ UNCHANGED <<ftable, ofile>>

\* The second half of sys_open(), with ip locked in ic: filealloc(), fdalloc().
OpenFile(p, e, ic) ==
    LET files == filealloc
        fds == fdalloc(p)
    IN \/ /\ files # {} /\ fds # {}
          /\ ftable' = [ftable EXCEPT ![Min(files)] = NewFile(p, e)]
          /\ ofile' = [ofile EXCEPT ![p][Min(fds)] = Min(files)]
          /\ icache' = [ic EXCEPT ![e].busy = FALSE]
          /\ Done(p, <<>>)
       \/ /\ files = {} \/ fds = {}
          /\ icache' = ic
          /\ Done(p, <<<<"iunlock", e>>, <<"iput", e>>>>)
          /\ UNCHANGED <<ftable, ofile>>

\* sys_open() without O_CREATE, after namei().
open(p) ==
    /\ At(p, "open") /\ ~icache[proc[p].ip].busy
    /\ LET e == proc[p].ip
           d == Inode(e)
       IN /\ \/ /\ d.type = "dir" /\ proc[p].call.mode # "r"
                /\ icache' = Unlocked(icache, e, d)
                /\ Done(p, <<<<"iput", e>>>>)
                /\ UNCHANGED <<ftable, ofile>>
             \/ /\ ~(d.type = "dir" /\ proc[p].call.mode # "r")
                /\ OpenFile(p, e, Locked(icache, e, d))
          /\ PanicIf(<<<<d.type = "free", "ilock: no type">>>>)
    /\ UNCHANGED <<disk, stable, cwd, outstanding, bounds>>

\* The type of the inode that a call creates.
NewType(c) == CASE c.call = "mkdir" -> "dir" [] c.call = "mknod" -> "dev" [] OTHER -> "file"

\* The inodes that ialloc()'s scan may find; it meets those that others free
\* meanwhile.
ialloc ==
    LET free == {i \in Inum : disk.ino[i].type = "free"}
    IN IF outstanding = 1 /\ free # {} THEN {Min(free)} ELSE free

\* create() with dp locked: the name is there, or ialloc() makes an inode.
create(p) ==
    /\ At(p, "create") /\ ~icache[proc[p].ip].busy
    /\ LET r == proc[p]
           e == r.ip
           d == Inode(e)
           inum == dirlookup(disk, d, r.name)
           free == ialloc
       IN \/ /\ inum # 0
             /\ LET ic == Unlocked(icache, e, d)
                IN /\ icache' = iget(ic, inum)
                   /\ Go(p, [r EXCEPT !.ip = None, !.held = iget_slot(ic, inum)],
                         "create_found", <<<<"iput", e>>>>)
                   /\ PanicIf(<<<<iget_slot(ic, inum) = None, "iget: no inodes">>>>)
             /\ UNCHANGED disk
          \/ /\ inum = 0 /\ free = {}
             /\ PanicIf(<<<<TRUE, "ialloc: no inodes">>>>)
             /\ UNCHANGED <<disk, icache, proc>>
          \/ /\ inum = 0
             /\ \E i \in free :
                LET ic == Locked(icache, e, d)
                IN /\ disk' = [disk EXCEPT !.ino[i] = [FreeInode EXCEPT !.type = NewType(r.call)]]
                   /\ icache' = iget(ic, i)
                   /\ Go(p, [r EXCEPT !.held = iget_slot(ic, i)], "create_new", <<>>)
                   /\ PanicIf(<<<<iget_slot(ic, i) = None, "iget: no inodes">>>>)
    /\ UNCHANGED <<stable, ftable, cwd, ofile, outstanding, bounds>>

create_found(p) ==
    /\ At(p, "create_found") /\ ~icache[proc[p].held].busy
    /\ LET e == proc[p].held
           d == Inode(e)
       IN /\ \/ /\ proc[p].call.call = "create" /\ d.type = "file"
                /\ OpenFile(p, e, Locked(icache, e, d))
             \/ /\ ~(proc[p].call.call = "create" /\ d.type = "file")
                /\ icache' = Unlocked(icache, e, d)
                /\ Done(p, <<<<"iput", e>>>>)
                /\ UNCHANGED <<ftable, ofile>>
          /\ PanicIf(<<<<d.type = "free", "ilock: no type">>>>)
    /\ UNCHANGED <<disk, stable, cwd, outstanding, bounds>>

\* The rest of create(), from ilock(ip) to iunlock(dp), with dp locked.
create_new(p) ==
    /\ At(p, "create_new") /\ ~icache[proc[p].held].busy
    /\ LET r == proc[p]
           e == r.held
           dir == r.call.call = "mkdir"
           mine == icache[e].inum
           up == icache[r.ip].inum
           s0 == Work(disk, [Inode(e) EXCEPT !.nlink = 1, !.major = r.call.major])
           s1 == IF dir THEN dirlink(dirlink(s0, ".", mine), "..", up) ELSE s0
           dk == iupdate(s1.disk, e, s1.d)
           s2 == dirlink(Work(dk, [icache[r.ip].d EXCEPT !.nlink = @ + (IF dir THEN 1 ELSE 0)]), r.name, mine)
       IN /\ disk' = iupdate(s2.disk, r.ip, s2.d)
          /\ icache' = Unlocked(Locked(icache, e, s1.d), r.ip, s2.d)
          /\ IF r.call.call = "create"
             THEN Go(p, [r EXCEPT !.ip = None], "create_open", <<<<"iput", r.ip>>>>)
             ELSE Done(p, <<<<"iput", r.ip>>, <<"iunlock", e>>, <<"iput", e>>>>)
          /\ PanicIf(<<<<Inode(e).type = "free", "ilock: no type">>,
                       <<s1.out \/ s2.out, "balloc: out of blocks">>>>)
    /\ UNCHANGED <<stable, ftable, cwd, ofile, outstanding, bounds>>

create_open(p) ==
    /\ At(p, "create_open")
    /\ OpenFile(p, proc[p].held, icache)
    /\ UNCHANGED <<disk, stable, cwd, outstanding, panic, bounds>>

\* sys_unlink() with dp locked.
unlink(p) ==
    /\ At(p, "unlink") /\ ~icache[proc[p].ip].busy
    /\ LET r == proc[p]
           e == r.ip
           d == Inode(e)
           inum == IF r.name \in {".", ".."} THEN 0 ELSE dirlookup(disk, d, r.name)
           ic == Locked(icache, e, d)
       IN \/ /\ inum = 0
             /\ icache' = Unlocked(icache, e, d)
             /\ Done(p, <<<<"iput", e>>>>)
             /\ UNCHANGED panic
          \/ /\ inum # 0
             /\ icache' = iget(ic, inum)
             /\ Go(p, [r EXCEPT !.held = iget_slot(ic, inum)], "unlink_it", <<>>)
             /\ PanicIf(<<<<iget_slot(ic, inum) = None, "iget: no inodes">>>>)
    /\ UNCHANGED <<disk, stable, ftable, cwd, ofile, outstanding, bounds>>

\* Its rest, with ip locked too.
unlink_it(p) ==
    /\ At(p, "unlink_it") /\ ~icache[proc[p].held].busy
    /\ LET r == proc[p]
           e == r.held
           d == Inode(e)
           up == icache[r.ip].d
           full == d.type = "dir" /\ ~isdirempty(disk, d)
           newup == IF d.type = "dir" THEN [up EXCEPT !.nlink = @ - 1] ELSE up
           newd == [d EXCEPT !.nlink = @ - 1]
       IN /\ \/ /\ full
                /\ icache' = Unlocked(icache, e, d)
                /\ Done(p, <<<<"iput", e>>, <<"iunlock", r.ip>>, <<"iput", r.ip>>>>)
                /\ UNCHANGED disk
             \/ /\ ~full
                /\ disk' = [iupdate(iupdate(disk, r.ip, newup), e, newd) EXCEPT
                               !.data[up.addrs[0]].ent[r.name] = 0]
                /\ icache' = Unlocked(Locked(icache, e, newd), r.ip, newup)
                /\ Done(p, <<<<"iput", r.ip>>, <<"iunlock", e>>, <<"iput", e>>>>)
          /\ PanicIf(<<<<d.type = "free", "ilock: no type">>, <<d.nlink < 1, "unlink: nlink < 1">>>>)
    /\ UNCHANGED <<stable, ftable, cwd, ofile, outstanding, bounds>>

\* sys_link(): ip->nlink++ and iupdate(), then nameiparent(new).
link(p) ==
    /\ At(p, "link") /\ ~icache[proc[p].ip].busy
    /\ LET r == proc[p]
           e == r.ip
           d == Inode(e)
           newd == [d EXCEPT !.nlink = @ + 1]
       IN \/ /\ d.type \in {"dir", "free"}
             /\ icache' = Unlocked(icache, e, d)
             /\ Done(p, <<<<"iput", e>>>>)
             /\ PanicIf(<<<<d.type = "free", "ilock: no type">>>>)
             /\ UNCHANGED disk
          \/ /\ d.type \notin {"dir", "free"}
             /\ disk' = iupdate(disk, e, newd)
             /\ StartNamex(p, [r EXCEPT !.held = e], Unlocked(icache, e, newd), r.call.new, TRUE, "link_to")
    /\ UNCHANGED <<stable, ftable, cwd, ofile, outstanding, bounds>>

\* Its dirlink() with dp locked.
link_to(p) ==
    /\ At(p, "link_to") /\ ~icache[proc[p].ip].busy
    /\ LET r == proc[p]
           e == r.ip
           d == Inode(e)
           there == dirlookup(disk, d, r.name)
           st == dirlink(Work(disk, d), r.name, icache[r.held].inum)
       IN \/ /\ there # 0
             /\ icache' = Unlocked(icache, e, d)
             /\ Go(p, [r EXCEPT !.ip = None], "link_bad", <<<<"iput", e>>>>)
             /\ PanicIf(<<<<iget_slot(icache, there) = None, "iget: no inodes">>>>)
             /\ UNCHANGED disk
          \/ /\ there = 0
             /\ disk' = st.disk
             /\ icache' = Unlocked(icache, e, st.d)
             /\ Done(p, <<<<"iput", e>>, <<"iput", r.held>>>>)
             /\ PanicIf(<<<<st.out, "balloc: out of blocks">>>>)
    /\ UNCHANGED <<stable, ftable, cwd, ofile, outstanding, bounds>>

\* bad: ip->nlink-- and iupdate().
link_bad(p) ==
    /\ At(p, "link_bad") /\ ~icache[proc[p].held].busy
    /\ LET e == proc[p].held
           newd == [Inode(e) EXCEPT !.nlink = @ - 1]
       IN /\ disk' = iupdate(disk, e, newd)
          /\ icache' = Unlocked(icache, e, newd)
          /\ Done(p, <<<<"iput", e>>>>)
    /\ UNCHANGED <<stable, ftable, cwd, ofile, outstanding, panic, bounds>>

chdir(p) ==
    /\ At(p, "chdir") /\ ~icache[proc[p].ip].busy
    /\ LET e == proc[p].ip
           d == Inode(e)
       IN /\ icache' = Unlocked(icache, e, d)
          /\ \/ /\ d.type # "dir"
                /\ Done(p, <<<<"iput", e>>>>)
                /\ UNCHANGED cwd
             \/ /\ d.type = "dir"
                /\ Done(p, <<<<"iput", cwd[p]>>>>)
                /\ cwd' = [cwd EXCEPT ![p] = e]
          /\ PanicIf(<<<<d.type = "free", "ilock: no type">>>>)
    /\ UNCHANGED <<disk, stable, ftable, ofile, outstanding, bounds>>

-----------------------------------------------------------------------------
(* System calls on descriptors: file.c and sysfile.c *)

\* filedup() of the files in s.
filedup(ft, s) ==
    [f \in File |-> [ft[f] EXCEPT !.ref = @ + Cardinality({i \in DOMAIN s : s[i] = f})]]

\* fileclose(): the last one to close drops the inode, in a transaction.
fileclose(p, f, r) ==
    LET last == ftable[f].ref = 1
    IN /\ ftable' = [ftable EXCEPT ![f].ref = @ - 1, ![f].type = IF last THEN "none" ELSE @]
       /\ IF last /\ ftable[f].type = "inode"
          THEN /\ outstanding' = outstanding + 1
               /\ Go(p, r, r.pc, <<<<"iput", ftable[f].ip>>, <<"end_op", None>>>>)
          ELSE UNCHANGED <<outstanding, proc>>

\* f->readable for read(), f->writable for write().
Permitted(f, c) == c.call \in {"read", "write"} => ftable[f].mode # (IF c.call = "read" THEN "w" ELSE "r")

\* argfd(): the file of descriptor c.fd.  Pipes are in Pipe.
StartFdCall(p, c) ==
    /\ c.call \in {"read", "fstat", "write", "close", "dup"} /\ ofile[p][c.fd] # None
    /\ LET f == ofile[p][c.fd]
           free == fdalloc(p)
       IN \/ /\ ~Permitted(f, c)
             /\ UNCHANGED <<proc, ftable, ofile, outstanding>>
          \/ /\ c.call \in {"read", "fstat"} /\ ftable[f].type = "inode" /\ Permitted(f, c)
             /\ Go(p, [Local EXCEPT !.call = c], c.call, <<>>)
             /\ UNCHANGED <<ftable, ofile, outstanding>>
          \/ /\ c.call = "write" /\ ftable[f].type = "inode" /\ Permitted(f, c)
             /\ outstanding' = outstanding + 1
             /\ Go(p, [Local EXCEPT !.call = c, !.n = c.n], "write", <<>>)
             /\ UNCHANGED <<ftable, ofile>>
          \/ /\ c.call = "dup"
             /\ IF free = {} THEN UNCHANGED <<ofile, ftable>>
                ELSE /\ ofile' = [ofile EXCEPT ![p][Min(free)] = f]
                     /\ ftable' = filedup(ftable, <<f>>)
             /\ UNCHANGED <<proc, outstanding>>
          \/ /\ c.call = "close"
             /\ ofile' = [ofile EXCEPT ![p][c.fd] = None]
             /\ fileclose(p, f, Local)
    /\ UNCHANGED <<disk, stable, icache, cwd>>

\* readi() of a block of the file: c.fd's offset moves unless it is at the end.
read(p) ==
    /\ At(p, "read")
    /\ LET f == ofile[p][proc[p].call.fd]
           e == ftable[f].ip
       IN /\ ~icache[e].busy
          /\ icache' = Unlocked(icache, e, Inode(e))
          /\ IF HasDriver(Inode(e))
             THEN Go(p, proc[p], "consoleread", <<>>) /\ UNCHANGED ftable
             ELSE /\ ftable' = [ftable EXCEPT ![f].off = @ + readi(Inode(e), @)]
                  /\ Go(p, Local, "user", <<>>)
          /\ PanicIf(<<<<Inode(e).type = "free", "ilock: no type">>>>)
    /\ UNCHANGED <<disk, stable, cwd, ofile, outstanding, bounds>>

\* consoleread() unlocks the inode, waits for a line or a kill(), and locks it again.
consoleread(p) ==
    /\ At(p, "consoleread")
    /\ LET f == ofile[p][proc[p].call.fd]
           e == ftable[f].ip
       IN /\ ~icache[e].busy
          /\ icache' = Unlocked(icache, e, Inode(e))
          /\ \E n \in 0..1 : ftable' = [ftable EXCEPT ![f].off = @ + n]
          /\ PanicIf(<<<<Inode(e).type = "free", "ilock: no type">>>>)
    /\ Go(p, Local, "user", <<>>)
    /\ UNCHANGED <<disk, stable, cwd, ofile, outstanding, bounds>>

\* filestat() reads the inode into the cache, if it is not there.
filestat(p) ==
    /\ At(p, "fstat")
    /\ LET e == ftable[ofile[p][proc[p].call.fd]].ip
       IN /\ ~icache[e].busy
          /\ icache' = Unlocked(icache, e, Inode(e))
          /\ PanicIf(<<<<Inode(e).type = "free", "ilock: no type">>>>)
    /\ Go(p, Local, "user", <<>>)
    /\ UNCHANGED <<disk, stable, ftable, cwd, ofile, outstanding, bounds>>

\* The end of a round of filewrite()'s loop: n of k blocks, or characters, written.
Written(p, f, n, k) ==
    /\ ftable' = [ftable EXCEPT ![f].off = @ + n]
    /\ IF n = 0 \/ proc[p].n = k THEN Done(p, <<>>)
       ELSE Go(p, [proc[p] EXCEPT !.n = @ - k], "write_more", <<<<"end_op", None>>>>)

\* What is written in one round, at most MaxWrite blocks.
Portion(p) == IF proc[p].n > MaxWrite THEN MaxWrite ELSE proc[p].n

\* filewrite()'s loop, one transaction each.
write(p) ==
    /\ At(p, "write")
    /\ LET f == ofile[p][proc[p].call.fd]
           e == ftable[f].ip
           st == writei(Work(disk, Inode(e)), ftable[f].off, Portion(p))
       IN /\ ~icache[e].busy
          /\ disk' = IF st.d.size > Inode(e).size THEN iupdate(st.disk, e, st.d) ELSE st.disk
          /\ icache' = Unlocked(icache, e, st.d)
          /\ IF HasDriver(st.d) THEN Go(p, proc[p], "consolewrite", <<>>) /\ UNCHANGED ftable
             ELSE Written(p, f, st.n, Portion(p))
          /\ PanicIf(<<<<Inode(e).type = "free", "ilock: no type">>, <<st.out, "balloc: out of blocks">>>>)
    /\ UNCHANGED <<stable, cwd, ofile, outstanding, bounds>>

\* consolewrite() has unlocked the inode, puts the characters out, and locks it again.
consolewrite(p) ==
    /\ At(p, "consolewrite")
    /\ LET f == ofile[p][proc[p].call.fd]
           e == ftable[f].ip
       IN /\ ~icache[e].busy
          /\ icache' = Unlocked(icache, e, Inode(e))
          /\ Written(p, f, Portion(p), Portion(p))
          /\ PanicIf(<<<<Inode(e).type = "free", "ilock: no type">>>>)
    /\ UNCHANGED <<disk, stable, cwd, ofile, outstanding, bounds>>

write_more(p) ==
    /\ At(p, "write_more")
    /\ outstanding' = outstanding + 1
    /\ Go(p, proc[p], "write", <<>>)
    /\ UNCHANGED <<disk, stable, icache, ftable, cwd, ofile, panic, bounds>>

\* sys_pipe(): two files and two descriptors, or nothing.
StartPipe(p, c) ==
    /\ c.call = "pipe"
    /\ LET files == SetToSortSeq(filealloc, <)
           fds == SetToSortSeq(fdalloc(p), <)
           end(mode) == [type |-> "pipe", ref |-> 1, ip |-> None, off |-> 0, mode |-> mode]
       IN IF Len(files) < 2 \/ Len(fds) < 2 THEN UNCHANGED <<ftable, ofile>>
          ELSE /\ ftable' = [ftable EXCEPT ![files[1]] = end("r"), ![files[2]] = end("w")]
               /\ ofile' = [ofile EXCEPT ![p][fds[1]] = files[1], ![p][fds[2]] = files[2]]
    /\ UNCHANGED <<disk, stable, icache, cwd, proc, outstanding>>

-----------------------------------------------------------------------------
\* fork(): the child has the parent's directory and files.
StartFork(p, c) ==
    /\ c.call = "fork"
    /\ LET unborn == {q \in Proc : At(q, "unborn")}
           q == CHOOSE q \in unborn : TRUE
       IN /\ unborn # {}
          /\ proc' = [proc EXCEPT ![q] = Local]
          /\ cwd' = [cwd EXCEPT ![q] = cwd[p]]
          /\ icache' = idup(icache, cwd[p])
          /\ ofile' = [ofile EXCEPT ![q] = ofile[p]]
          /\ ftable' = filedup(ftable, ofile[p])
    /\ UNCHANGED <<disk, stable, outstanding>>

StartExit(p, c) ==
    /\ c.call = "exit" /\ p # First
    /\ Go(p, Local, "exit", <<>>)
    /\ UNCHANGED <<disk, stable, icache, ftable, cwd, ofile, outstanding>>

\* exit() closes one file after the other, and then leaves its directory.
exit(p) ==
    /\ At(p, "exit")
    /\ LET open_ == {fd \in Fd : ofile[p][fd] # None}
       IN \/ /\ open_ # {}
             /\ ofile' = [ofile EXCEPT ![p][Min(open_)] = None]
             /\ fileclose(p, ofile[p][Min(open_)], proc[p])
             /\ UNCHANGED cwd
          \/ /\ open_ = {}
             /\ outstanding' = outstanding + 1
             /\ cwd' = [cwd EXCEPT ![p] = None]
             /\ Go(p, Local, "unborn", <<<<"iput", cwd[p]>>, <<"end_op", None>>>>)
             /\ UNCHANGED <<ftable, ofile>>
    /\ UNCHANGED <<disk, stable, icache, panic, bounds>>

Start(p) ==
    /\ At(p, "user")
    /\ \E c \in work.calls \cup {x[2] : x \in Range(work.script)} :
        /\ IF work.script # <<>>
           THEN /\ Head(work.script) = <<p, c>> /\ \A q \in Proc : At(q, "user") \/ At(q, "unborn")
                /\ work' = [work EXCEPT !.script = Tail(@)] /\ UNCHANGED calls
           ELSE /\ c \in work.calls /\ calls[p] < work.max
                /\ calls' = [calls EXCEPT ![p] = @ + 1] /\ UNCHANGED work
        /\ \/ StartPathCall(p, c)
           \/ /\ StartFdCall(p, c) \/ StartPipe(p, c) \/ StartFork(p, c) \/ StartExit(p, c)
              /\ UNCHANGED panic
    /\ UNCHANGED crashes

\* The machine stops and comes up again: recovery has installed the log.
Crash ==
    /\ work.script = <<>> /\ crashes < MaxCrashes
    /\ disk' = stable /\ stable' = stable
    /\ icache' = Boot.icache /\ ftable' = Boot.ftable /\ cwd' = Boot.cwd /\ ofile' = Boot.ofile
    /\ proc' = Boot.proc /\ outstanding' = 0 /\ panic' = "none"
    /\ crashes' = crashes + 1
    /\ UNCHANGED <<work, calls>>

Kernel(p) ==
    \/ Todo(p) \/ namex(p) \/ open(p) \/ create(p) \/ create_found(p) \/ create_new(p)
    \/ create_open(p) \/ unlink(p) \/ unlink_it(p) \/ link(p) \/ link_to(p) \/ link_bad(p)
    \/ chdir(p) \/ read(p) \/ consoleread(p) \/ filestat(p) \/ write(p) \/ consolewrite(p)
    \/ write_more(p) \/ exit(p)

Next == Crash \/ \E p \in Proc : Start(p) \/ Kernel(p)

Spec == Init /\ [][Next]_vars

-----------------------------------------------------------------------------
(* Properties *)

\* The panics that the code gives for running out of something.
Exhausted == {"balloc: out of blocks", "ialloc: no inodes", "iget: no inodes"}

\* A call of p that goes up from some directory.
Climbs(p) ==
    \E x \in {"path", "new"} \cap DOMAIN proc[p].call : ".." \in Range(proc[p].call[x].el)

\* The assertions of fs.c and sysfile.c hold in every interleaving: "freeing
\* free block", "iput busy", "iunlock", "unlink: nlink < 1"; and a call that is
\* about to lock an inode finds it without a type ("ilock: no type") only when it
\* has followed the ".." of a removed directory, which the code lets happen.
Asserted ==
    /\ panic \in Exhausted \cup {"none", "ilock: no type"}
    /\ panic = "none" => \A p \in Proc, x \in {"ip", "held"} :
        proc[p][x] # None /\ disk.ino[icache[proc[p][x]].inum].type = "free" => Climbs(p)

\* An entry of the inode cache has as many references as there are pointers to
\* it: open files, current directories and the local variables of calls under
\* way; and a file as many as there are descriptors for it.  No return path of
\* sysfile.c and file.c forgets an iput() or a fileclose(), and none does two.
Pointers(e) ==
    Cardinality({p \in Proc : cwd[p] = e})
    + Cardinality({f \in File : ftable[f].ref > 0 /\ ftable[f].type = "inode" /\ ftable[f].ip = e})
    + Cardinality({<<p, x>> \in Proc \X {"ip", "held"} : proc[p][x] = e})
    + Cardinality({<<p, i>> \in Proc \X (1..5) : i <= Len(proc[p].todo) /\ proc[p].todo[i] \in {<<"iput", e>>, <<"ifreed", e>>}})

RefsCounted ==
    /\ panic = "none" => \A e \in Slot : icache[e].ref = Pointers(e)
    /\ \A f \in File : ftable[f].ref = Cardinality({<<p, fd>> \in Proc \X Fd : ofile[p][fd] = f})

\* What is cached and unlocked is what is on the disk, and an inode in use
\* through an open file keeps its type and its blocks, unlinked or not.
CacheCoherent ==
    panic = "none" =>
    /\ \A e \in Slot : LET c == icache[e] IN
        c.ref > 0 /\ c.valid /\ ~c.busy => c.d = disk.ino[c.inum] /\ c.d.type # "free"
    /\ \A f \in File : ftable[f].type = "inode" =>
        LET c == icache[ftable[f].ip] IN
            /\ disk.ino[c.inum].type # "free"
            /\ disk.ino[c.inum].type = "file" => ftable[f].off <= disk.ino[c.inum].size

\* Every block that inode d uses.
Blocks(dk, d) ==
    {b \in Block : \/ \E i \in 0..NDIRECT : d.addrs[i] = b
                  \/ /\ d.addrs[NDIRECT] # 0
                     /\ \E j \in 0..(NINDIRECT - 1) : dk.data[d.addrs[NDIRECT]].ind[j] = b}

\* What the log commits, and so what a crash leaves: the bitmap marks exactly
\* the blocks that inodes use, and no block is used twice.
BlocksOwned ==
    LET live == {i \in Inum : stable.ino[i].type # "free"}
        B(i) == Blocks(stable, stable.ino[i])
    IN /\ stable.used = UNION {B(i) : i \in live}
       /\ \A i, j \in live : i # j => B(i) \cap B(j) = {}

\* The directories that a path from the root reaches on the committed disk.
Subdirs(S) ==
    {i \in Inum : stable.ino[i].type = "dir" /\ \E d \in S, n \in Names : dirlookup(stable, stable.ino[d], n) = i}

Tree == LET one == Subdirs({ROOTINO}) IN {ROOTINO} \cup one \cup Subdirs(one)

\* An entry of a directory in the tree names an allocated inode, whose link
\* count covers all the entries that name it: no crash, and no sequence of
\* link() and unlink(), lets a file that has a name be freed.
LinksCovered ==
    LET entries == {<<d, n, dirlookup(stable, stable.ino[d], n)>> : d \in Tree, n \in Name \ {"."}}
        of(i) == {x \in entries : x[3] = i}
    IN \A i \in Inum : /\ Cardinality(of(i)) <= stable.ino[i].nlink
                       /\ of(i) # {} => stable.ino[i].type # "free"

\* The entry that p's next step locks, and those that it has locked.
WaitsFor(p) ==
    CASE proc[p].pc \in {"namex", "open", "create", "unlink", "link", "link_to", "chdir"} -> proc[p].ip
      [] proc[p].pc \in {"create_found", "create_new", "unlink_it", "link_bad"} -> proc[p].held
      [] proc[p].pc \in {"read", "consoleread", "fstat", "write", "consolewrite"} -> ftable[ofile[p][proc[p].call.fd]].ip
      [] OTHER -> None

Holds(p) ==
    {x[2] : x \in {y \in Range(proc[p].todo) : y[1] \in {"iunlock", "ifreed"}}}
    \cup (IF proc[p].pc \in {"create_new", "unlink_it"} THEN {proc[p].ip} ELSE {})
    \cup (IF proc[p].pc = "create_open" THEN {proc[p].held} ELSE {})

\* Every ilock() has its iunlock(), and processes never wait for each other's
\* inodes in a circle: dp is locked before ip, and namex() locks one at a time.
NoCircularWait ==
    panic = "none" =>
    /\ \A e \in Slot : icache[e].busy <=> \E p \in Proc : e \in Holds(p)
    /\ \A S \in SUBSET Proc \ {{}} : \E p \in S : \A q \in S :
        proc[p].todo # <<>> \/ WaitsFor(p) \notin Holds(q)
=============================================================================
