# A TLA+ verification of the xv6 kernel with kernel threads

This directory models the kernel in `src/`: xv6 for x86 whose processes have been
given several kernel threads (`kthread.c`). It holds TLA+ modules translated from
the C code, the TLC configurations that check them on small instances, and proofs
that TLAPS checks. `PROJECT.json` is the index: components, runs, the map from
definitions to source lines, mutants, findings, hazards and theorems.

## 1. The system

| Part | Source | State | Operations | Module |
|---|---|---|---|---|
| Log | `log.c` | header in memory and on disk, log area, `outstanding`, `committing` | `begin_op`, `log_write`, `end_op`, commit, recovery | `Log`, `LogInv`, `LogProofs`, `LogDataProofs`, `LogRefinement`, `LogSpaceProofs`, `AtomicDisk` |
| Buffer cache, disk queue | `bio.c`, `ide.c` | list of buffers, flags, `idequeue`, disk | `bget`, `bread`, `bwrite`, `brelse`, `iderw`, `ideintr` | `Bcache`, `BcacheProofs`, `BcacheRefinement`, `BlockStore` |
| Blocks, inodes, directories, files | `fs.c`, `file.c`, `sysfile.c` | bitmap, inodes, inode cache, file table, `ofile[]`, `cwd` | `balloc`, `bmap`, `iget`, `ilock`, `iput`, `namex`, and the system calls on names and descriptors | `FileSystem` |
| Pipes | `pipe.c`, part of `file.c` | ring of bytes, two counters, open flags, references | read, write, close, kill | `Pipe`, `PipeProofs`, `Fifo` |
| Processes and threads | `proc.c`, `kthread.c`, `trap.c` | process table, thread tables, `ptable.lock`, one kernel stack per process | scheduler, `fork`, `exit`, `wait`, `kill`, `sleep`, `wakeup`, `yield`, `kthread_*` | `KThread` |
| Memory | `kalloc.c`, `vm.c`, `exec.c`, parts of `proc.c` | free list, page directories and tables, `sz` | `kalloc`, `kfree`, `setupkvm`, `allocuvm`, `deallocuvm`, `copyuvm`, `sbrk`, `fork`, `exec`, `exit`, `wait` | `Memory` |
| Spinlocks, interrupts, clock | `spinlock.c`, `trap.c`, parts of `proc.c`, `sysproc.c` | lock owners, `ncli`, `intena`, the interrupt flag, `ticks` | `acquire`, `release`, `sched`, `scheduler`, `sleep`, `wakeup`, timer, `sys_sleep` | `Interrupts` |
| Console, keyboard, serial line | `console.c`, `kbd.c`, `uart.c` | input ring, shift state | `consoleintr`, `consoleread`, `consolewrite`, `kbdgetc` | `Interrupts`, `Terminal` |

How they interact. A system call runs on the kernel stack of its process and may
sleep; `sleep` and `wakeup` are tied together by `ptable.lock`, which a thread hands
over to the scheduler of its processor. The file system brackets its calls with
`begin_op` and `end_op`, keeps modified blocks in the buffer cache marked `B_DIRTY`
until the log has committed them, and the cache hands requests to the disk queue.
`exit` closes files, which goes through all of these and may sleep. Interrupts come
on any processor that does not mask them, and take the same locks.

The modules meet at the abstract specifications: `Log` implements `AtomicDisk`, and
`FileSystem` uses the log as `AtomicDisk` gives it (memory, what is durable, and a
commit when nobody is inside). `Bcache` implements `BlockStore`, on which `Log` relies
for its buffers. `Pipe` implements `Fifo`, and the console of `Interrupts` implements
`Terminal`.

What is hard to get right here: a crash between any two disk writes; wakeups that
are lost or that wake several sleepers for one event; `kill`, which takes
`ptable.lock` but none of the locks of the code it interrupts; references that every
one of many error returns must give back; allocations that fail half-way; and
threads, which share what the original kernel could take to belong to one process
only (the stack, the page table, descriptors, `killed`, `proc->state`, `sz`).

`kthread.c:149` calls `printf`, which the kernel does not declare; it is
diagnostic output and is left out. The mutexes and monitors of `kthread.h`,
`hoare_*.h` and `mesa_*.h` are declared and have no code.

## 2. Modules

**AtomicDisk** is what the log promises: file system calls change memory, a commit
makes all changes so far durable when no call is open, and a crash goes back to
what is durable.

**Log** is `log.c`. Each disk write of `commit` is a step of its own, so a crash
may come between any two. `home`, `dlog` and `dhead` are the sectors, the log
area and the header on disk; `cache` and `dirty` the buffers; `lh` the header in
memory. `modify` is the caller changing a buffer it holds up to and including the
unlocked test at `log.c:215`; `log_write` is the rest. After a crash, `read_head`,
`recover_install` and `recover_erase` run before any process does. Constants:
`MAXOPBLOCKS`, `LOGSIZE` (the array in the header), `NLOG` (the size of the log
area that `mkfs` writes into the superblock) and `OpBlocks`, the number of blocks
that a call really logs.

**Bcache** is `bio.c` over `ide.c`. A step is a critical section of `bcache.lock`
or `idelock`. `asleep` is the address a process sleeps on: waiters for a buffer
and the waiter for its disk request share it. The disk serves the head of the
queue; it may fail to read the sectors in `Bad`. **BlockStore** is what users rely
on, for the other sectors.

**FileSystem** is `fs.c`, `file.c` and `sysfile.c`. `disk` is what the buffer cache
shows, `stable` what the log has committed, and a crash goes back to `stable`, with
all caches empty. A step of a process begins where it may have to wait or where
others can come between: at `ilock`, `iput` and `end_op`. A block holds directory
entries or block numbers; sizes are in blocks, a directory has one, and a path is a
sequence of names. What a step leaves to be done in its order (`iunlock`, `iput`,
`end_op`) is in `todo`; `iput` of the last reference to an unlinked inode is two
steps, as the code drops `icache.lock` in between. A file has the mode it was opened
with, and `read` and `write` are refused by it. An inode of type `dev` has a major
number; only `CONSOLE` has a driver, which unlocks the inode while it waits for a line
or puts out characters and locks it again (`consoleread`, `consolewrite`), so that
others can lock and unlink it meanwhile. Processes have one thread each and share
files through `fork`. A workload is a fixed beginning and then any calls
out of a set.

**Memory** is `kalloc.c`, `vm.c`, `exec.c` and what `fork`, `growproc`, `exit` and
`wait` do with pages. A step is one turn of a loop that allocates a page, or a call
that only frees, so that others can use up the pages in between. `growproc` reads `sz`
before it has the lock, works with it, releases it (`grow_release`, `shrink`) and assigns
`sz` in a later step (`grown`). `copyout` below a missing page table reads an entry at
address 0: the model stops there or takes it for a refusal. `op[t]` is the call a
thread is in, with the directory it is building. Three history variables record what
the code does on its error paths: `spilled` holds pages that nobody will free,
`holed` directories whose process was told that it has memory which could not be
mapped, and `raced` directories that two threads have changed at once.

**Pipe** is `pipe.c` with the reference counts of its two files. The critical
section of a call is split at each byte and at the test of `proc->killed`, since
`kill` does not take `p->lock`. The counters wrap at `WRAP`. Processes have one
thread. **Fifo** is the bounded queue it implements.

**KThread** is `proc.c`, `kthread.c` and the part of `trap.c` that enters and
leaves the kernel. A step is one critical section of `ptable.lock` or one stretch
of unlocked kernel code that others can observe (`fork` has four, `kthread_create`
two). `lock` stays with a processor from `sched()` through the scheduler to the
`release()` of the next thread. `pos` is the place of a processor's scheduler in
its two loops. A thread's place in the kernel is `pc`. `block` stands for a call
that waits for a pipe, the console or the clock, in a loop that tests `proc->killed`
(`block_test`) and then sleeps (`block_sleep`); `kill` may come between the two, which
is the place "late". `exit_block` is `exit` waiting for the disk, in loops that do not
look at `killed`. `Wakeup` is what ends either sleep, for this thread or for another.
`init` forks and waits as `init.c` does, and exits when `fork` fails; that, and killing
it, is the panic "init exiting" (`exit_init`), after which nothing is said. `KillArgs`
are the pids that programs pass to `kill`.
The kernel stack of a process and the place in user memory where created threads
start are `kholder` and `uholder`: the thread whose frames are there. `ub` is set
when a thread runs on or switches to frames that are not its own, or walks
`proc->threads` after it has been set to 0, and the model stops there, as it does
when a processor uses memory that `wait()` has freed (`Reaped`). All created
threads are taken to pass the same `stack_size`.

**Interrupts** goes below the critical sections that the other modules take as one
step. A thread in the kernel, and the scheduler of each processor, has a list of
operations still to do: `acquire` and `release` of a lock (with `pushcli` and
`popcli`), `sched`, `wakeup1`, the tests and changes made under a lock. A call puts
its operations in front of the list, and so does an interrupt, on whatever is
running. To keep the state space small, an `acquire` of a free lock is one step and
one of a held lock is two (masking, then spinning), and `sched` includes the change
of `state` before it. A key of the keyboard is the one or two bytes that it sends when
it goes down and when it comes up; `kbdgetc` takes them one at a time, and the `E0` of a
right control key may be the last byte of one interrupt and its code the first of the
next. The console's ring, the keyboard's modifiers and the clock are
part of this module because their handlers are what interrupts; **Terminal** is what
a program that reads from the console may rely on. Every process has one thread.

`MCLog`, `MCBcache`, `MCFileSystem`, `MCMemory`, `MCPipe`, `MCKThread` and
`MCInterrupts` instantiate these for TLC. In each module the operators marked
*mutant* are plausible wrong versions of the definition that follows them; with one
put in its place the property that `PROJECT.json` names fails.

## 3. Runs that hold

| Run | Instance | Properties |
|---|---|---|
| `log_crash` | 2 processes, 2 sectors, 2 values, 2 blocks per call, log of 4, crashes at any time | `TypeOK`, `CommitAlone`, `HeaderFits`, `QuiescentDurable`, `AtomicUpdates`, `SleeperWoken` |
| `bcache_store` | 2 processes, 3 sectors of which one may be unreadable, 2 buffers, 2 values | `OneBuffer`, `QueueWaited`, `IsStore`, `SleepersWoken` |
| `fs_tree` | 2 processes, 4 inodes, 6 blocks, 5 cache entries, 3 files, 2 descriptors, 7 workloads, a crash at any step | `Asserted`, `RefsCounted`, `CacheCoherent`, `BlocksOwned`, `LinksCovered`, `NoCircularWait` |
| `mem_pages` | 3 processes of 2 threads, 13 pages, 3 page tables of 2 pages, 4 calls | `PagesAccounted`, `SizeMapped`, `Asserted` |
| `pipe_data` | 2 processes, 2 byte values, ring of 2, wrap at 4, calls of up to 3 bytes, kills | `FreedUnused`, `UnkilledSleepersWait`, `IsQueue`, `EofOnlyAtEnd`, `ReadersReleased` |
| `proc_tree` | 2 processors, 3 processes of one thread, 3 pids, `kill` of 0, 2 and 3 | `TypeOK`, `RunningOnOneCpu`, `ParentAlive`, `WaitNotMissed`, `ReapedIsStopped`, `RunnableRuns`, `KilledExits` |
| `thread_join` | 2 processors, init and a process of 3 threads, `kill` of both | `JoinNotMissed` |
| `intr_mask` | 2 processors, 2 threads, counters modulo 4 that begin at 3, console ring of 2, 5 workloads of up to 2 interrupts, 2 calls and 2 to 6 characters or bytes | `MaskedWhileLocked`, `Asserted`, `MaskRestored`, `NoSpinCycle`, `SleepersWait`, `ModifiersReleased`, `SleptEnough`, `IsTerminal` |

What they show. *Storage*: commit and recovery are one atomic update, and callers of
`begin_op` are woken and never overfill the header; a sector has one buffer with one
holder, a request is on the disk queue exactly while it is waited for, a failed read
spoils no other sector, and nobody sleeps on a buffer for ever. *Files*: in every
interleaving, and on what a crash leaves, references are counted exactly, a cached
inode agrees with the disk, a block has one owner and is marked in the bitmap, an
entry of a reachable directory names an allocated inode with enough links, no
assertion of `fs.c` and `sysfile.c` fails but those listed in section 4, and
processes do not wait for inodes in a circle. *Memory*: each page is in one place at
every step, also when any allocation fails, and `sz` says what is mapped.
*Processes*: a thread runs on one processor, no wakeup of `wait` or `kthread_join`
is lost, and with fair scheduling runnable threads run and killed processes exit, unless
`kill` came between a test of `killed` and the `sleep` after it.
*Interrupts*: masks and locks nest on each processor while threads move between
processors, no assertion of `spinlock.c` and `sched` fails, no wakeup of a clock or
console sleeper is lost, a `sleep` lasts as long as it was asked to, and what a
program reads is what a line-editing terminal of the size of the ring would give it.

Why the bounds are enough. `log_crash` has calls of several blocks, absorbed
writes, group commit of two calls, callers that wait for space or for a commit, and
crashes during recovery. `bcache_store` has fewer buffers than sectors, so buffers are
recycled. `fs_tree` has workloads for what meets: names made, linked and removed in a
directory that another process is in and a third call removes; nested directories
removed under a process that goes up from them; an open file shared by a parent and
a child while it is written, truncated by `unlink` or closed; the console, shared by
two processes of which one may unlink it while the other waits in it, next to a file
that is open for reading only; and every error return of a single process, with tables
that run full and a device that has no driver. `NDIRECT` is 1, so that files of two
blocks use the indirect block. `mem_pages` has fewer pages than two processes want, so
every `kalloc` can be the one that fails, and sizes that end inside a page, at a page
and in another page table. `pipe_data` fills the ring and wraps the counters
repeatedly, with writes longer than the ring. `proc_tree` has three generations, and
reuses the entry of a process that was collected. It leaves `kill(1)` to `thread_join`,
since a panic ends what its two liveness properties are about. `intr_mask` lets two interrupts of
any kind come at every point that allows one, and all counters wrap after the first
change; its workloads are a reader of the serial line that may be killed, one that gets
twice as many characters as the ring holds, a sleeper that may be killed next to a
writer, a keyboard on which both control keys go down and come up, and one with a
letter, control and caps lock. Its interrupts must
stay fewer than the wrap of the small counter: with as many ticks as that between two
looks, `ticks - ticks0` is 0 again, which on the real machine takes a thread that is
kept from running for 2^32 ticks. Symmetry is used only in runs without liveness.

Deadlock is not checked where the system may stop: when every thread sleeps and
no device has anything to say, when all pids, calls or interrupts of the bound are
used, when a pipe is freed, or after a panic.

Fairness. A processor goes on executing (weak fairness for steps that stay
enabled); clock interrupts come (`yield`); a disk interrupt stays pending until it is
served and a lock that is released again and again is got in the end (strong
fairness); a thread gets on with its call however often it is interrupted (strong
fairness of `Unfinished`, per thread); loops over finitely many files, or calls with
finitely many disk writes, end (strong fairness of `exit_finish`, which is part of it,
and of `brelse`). In `KThread` nothing is assumed of pipes, the console and the clock: what a call
waits for there may never come, and `KilledExits` rests on `kill` waking it. User programs are
under no obligation to make calls. `FileSystem`, `Memory` and `Interrupts` state no
liveness: what their processes wait for is covered by `NoCircularWait`,
`NoSpinCycle` and `SleepersWait`, and spinlocks and inode locks promise no order.

## 4. Runs that show a disagreement

Each checks one property that a comment in the source states and the code breaks.

| Run | Property | What the code does |
|---|---|---|
| `log_panic` | `NoPanic` | with the log area that `mkfs` makes, calls within their reservation make `log_write` panic |
| `stack_shared` | `StacksIntact` | threads of a process overwrite each other's saved context |
| `last_thread` | `ReapedIsStopped` | the parent frees a process whose last thread is still in `exit()` |
| `pipe_killed_writer` | `SleepersWait` | a killed writer leaves a reader asleep on a full pipe |

The models also have these behaviours of the code, for which no run is kept. They
are why some properties of section 3 are stated as they are.

* init sleeps on after it has inherited a zombie: a grandchild of init's child
  exits, then its parent exits, and `exit()` wakes only the parent's own parent
  (`proc.c:263`). `WaitNotMissed` therefore leaves init out.
* `exit()` makes a ZOMBIE of a sibling that runs on another processor
  (`proc.c:285`), which goes on running and, not being RUNNING, never yields.
* The last thread of a process sleeps in `exit()` and is never woken:
  `kthread_exit()` has made its process a ZOMBIE, and `wakeup1()` skips processes
  that are not ready (`proc.c:514`).
* A join of a thread that has exited returns -1: `kthread_exit()` clears the tid
  before the joiner looks for it (`kthread.c:115`).
* `kill(0)` marks a free entry of the table (`proc.c:556`); `allocproc()` keeps the
  mark, and the next child is born killed.
* A process that is killed between its test of `proc->killed` and its `sleep()` in
  a pipe sleeps on (`pipe.c:85`, `pipe.c:108`); so does one in `consoleread()`
  (`console.c:238`) until the next line is typed. `KilledExits` leaves them out
  (`KilledLate`).
* `kill(1)` makes init exit when it next leaves the kernel, and so does a `fork` of init
  that fails (`init.c:29`); `exit()` panics with "init exiting" (`proc.c:244`).
  `RunnableRuns` and `KilledExits` end there.
* When the disk reports an error for a read, `ideintr()` still marks the buffer
  valid (`ide.c:110`), and `bread()` returns what the buffer held before. `IsStore`
  is about the other sectors.
* The `..` of a removed directory may name an inode that has been freed, and `ilock()`
  panics with "no type" (`fs.c:294`). `Asserted` of `FileSystem` says that this is the
  only way to get there; running out of blocks, inodes or cache entries are the other
  panics it allows.
* `allocuvm()` ignores a failure of `mappages()` (`vm.c:241`), and the process is told
  that it has the memory; `setupkvm()` (`vm.c:141`) and `copyuvm()` (`vm.c:330`) forget
  pages when they fail. `SizeMapped` and `Asserted` of `Memory` leave such a process
  out (`holed`), and `PagesAccounted` counts the forgotten pages (`spilled`). When the
  missing page table is the one of the stack, `exec` gets as far as `copyout()`, and
  `uva2ka()` reads through a null pointer (`vm.c:348`).
* `sbrk()` that gives up all memory frees it, returns -1 and keeps the old size
  (`proc.c:160`).
* `growproc()` reads `sz` before it takes its lock and writes it after (`proc.c:152`): two
  threads in `sbrk()` or `fork()` at once can map a page twice ("remap") or copy a
  hole. `raced` marks them.
* A new thread leaves `forkret()` with the `intena` of the thread that ran on the
  processor before it, so it may reach user mode with interrupts off all the way.
  `MaskRestored` is about calls and handlers.

## 5. Proofs

The theorems are about `Log`, `Bcache` and `Pipe`, for every value of the constants
that `LogAssumption`, `BcacheAssumption` and `PipeAssumption` allow.

### The log

In `LogProofs`:

* `TypeCorrect`: `Spec => []TypeOK`;
* `CommitsAlone`: `Spec => []CommitAlone`;

in `LogRefinement`, where `LogFits` says that the header in memory stays shorter than
the log area:

* `SynchronousLog`: `Spec /\ []LogFits => []QuiescentDurable`;
* `LogIsAtomic`: `Spec /\ []LogFits => AtomicUpdates`, the refinement of `AtomicDisk`;

and in `LogSpaceProofs`, for calls that write no more than they reserve:

* `HeaderNeverOverflows`: `Spec => []HeaderFits` if `OpBlocks <= MAXOPBLOCKS`;
* `MadeLogIsAtomic`: `Spec => AtomicUpdates` and
* `MadeLogNeverPanics`: `Spec => []NoPanic`, both if `OpBlocks < MAXOPBLOCKS`,
  `MAXOPBLOCKS < LOGSIZE` and `LOGSIZE <= NLOG`.

`LogFits` does not hold by itself: `mkfs` makes a log area of `LOGSIZE` blocks with the
header among them (`mkfs.c:17`), so the last slot of the header has no block, and
`log_panic` shows a panic for calls that log as much as they reserve. The last two
theorems are about this disk and the kernel's own constants (`LOGSIZE` is three times
`MAXOPBLOCKS`): calls that leave one block of their reservation unused never get to the
last slot, however many run at once. `log_panic` shows that one block more is too many.
Every call of the file system stays below the reservation except `write`, which
`filewrite` splits by `LOGSIZE` (section 6); the theorems do not cover a `write` that
logs `MAXOPBLOCKS` blocks or more.

The argument. `LogInv` states the inductive invariant. `Control` ties `outstanding` to
the number of processes in a call, says that the committing process is the only one,
which steps of `commit` it is at and how far it has got; it is inductive by itself and
gives the first two theorems (`LogProofs`, one lemma for each action). `Data`
relates the header, the log area, the buffers and the sectors at each step of
`commit` and of recovery: the blocks before `tail` have been copied, the header on
disk names what has been copied completely, dirty buffers are those in the header,
and clean buffers agree with the disk (`LogDataProofs`). It is needed because the
abstract durable state is what recovery would make of the disk (`Recovered`), which has
to stay the same while `install_trans` and `recover_install` overwrite sectors one by
one, and to change at once when the header is written. `RefinementStep` maps each
action to an action of `AtomicDisk` or to a stuttering step: only `write_head` is a
commit.

`Space` is the reservation argument. `begin_op` compares the length of the header with
what all calls under way could log in the worst case, while `log_write` may run in
several calls at once; what is invariant is the number of sectors in the header or
about to be there, plus the whole reservation of every call under way, against
`LOGSIZE` plus the blocks that these calls have already written (`HeaderFits`). It is
inductive together with `WroteSpace`: what a call has written is in the header or is
the buffer it holds, so that a second change to a block needs no second place. Each
action changes these cardinalities by what `FiniteSetTheorems` gives for one element or
one call; `WrittenSize` bounds what all calls have written by a surjection from
`InOp \X (1..OpBlocks)`. `Margin` sharpens this for calls that log less than they
reserve: a transaction is either the work of one call, which is shorter than
`MAXOPBLOCKS`, or a second call was admitted next to the whole reservation of the first,
and then what these two leave unused stays free when they have gone. `MadeLogFits`
draws `LogFits` from it.

### The buffer cache

`BcacheProofs` has the inductive invariant and two theorems, `BcacheRefinement` the third:

* `SectorsHaveOneBuffer`: `Spec => []OneBuffer`;
* `RequestsAreWaitedFor`: `Spec => []QueueWaited`;
* `CacheIsStore`: `Spec => IsStore`, the refinement of `BlockStore`.

The assumption is that there is a buffer; there may be fewer buffers than processes or
sectors, and `bget` may panic for want of one. The two invariants are not inductive.
`Coherent` adds what the flags say of the data (a dirty buffer is valid, a buffer that
is valid and clean has what the disk has, unless the drive could not read it) and
`Queued` that no request on the queue is already done. Without the first, recycling
could lose a change; without the second, a process could leave the loop of `iderw` while
its buffer is still on the queue. `Listed` says that `brelse` moves a buffer within the list, so that
the backward scan of `bget` finds a buffer to recycle if there is one (`VictimFound`).
In the refinement a process gets a block when `bget` takes a valid buffer or when
`ideintr` ends the read that it waits for, and gives it back in `brelse`; recycling and
the end of a write change nothing that a user of the cache sees.

### The pipe

`PipeProofs` shows, for any number of processes, any size of the ring and any range of
the counters that the size divides:

* `NeverFreedInUse`: `Spec => []FreedUnused`;
* `NoLostWakeup`: `Spec => []UnkilledSleepersWait`;
* `EofIsEnd`: `Spec => EofOnlyAtEnd`;
* `PipeIsQueue`: `Spec => IsQueue`, the refinement of `Fifo`.

The inductive invariant says who may be inside `p->lock` and in which call (`Access`),
which processes may still have to close an end (`Ends`: this is what makes the second
close the last use), what a sleeper waits for or who is about to wake it (`Waits`), and
that the difference of the counters, taken modulo their range, is at most the size
(`Fits`). The range must be a multiple of the size: when `nread` and `nwrite` wrap, the
slot `n % PIPESIZE` then goes on with the next one. In the code it is 2^32 and 512.

Only model-checked: everything about the other modules, and all liveness
(fairness and ENABLED are beyond the prover).

## 6. Not modelled

* `exec` by a process with several threads, and descriptors shared by threads: the
  code frees or closes what siblings are using and has no lock that could prevent it,
  so there is no property to state beyond what `stack_shared` and `last_thread` show
  of threads. `Memory` has threads in `sbrk` and `fork` only.
* How many blocks one call logs. `filewrite` splits by `LOGSIZE` (`file.c:132`), which
  allows more than `MAXOPBLOCKS` blocks in one transaction; `Log` has this number as
  `OpBlocks`, and `FileSystem` takes the log by its promise.
* What is shown on the screen and sent over the serial line, port and memory-mapped
  I/O, the programming of the interrupt controllers, and the multiprocessor tables: output or
  start-up code without state that others read.
* Fetching of system call arguments from user memory, the ELF format beyond its
  segments' sizes, and the character tables of the keyboard beyond one letter.
* The boot code and assembly; `swtch` and the trap entry appear by their effect in
  `KThread` and `Interrupts`.
* `memide.c`, which the default build does not link; `mkfs.c` beyond what it leaves on
  the disk; `umalloc.c` and the string functions, sequential code of one process; and the
  user programs, which appear only as the calls they make.
* Proofs about `KThread`, `FileSystem`, `Memory` and `Interrupts`.
