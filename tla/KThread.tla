------------------------------ MODULE KThread -------------------------------
(***************************************************************************)
(* The process table and the kernel threads: proc.c, kthread.c and the     *)
(* parts of trap.c that enter and leave the kernel.                        *)
(*                                                                         *)
(* A step is one critical section of ptable.lock, or a stretch of kernel   *)
(* code outside it that other processors can observe.  The lock is passed  *)
(* across swtch(): lock is the processor that holds it from one thread's   *)
(* sched() through the scheduler to the next thread's release().           *)
(*                                                                         *)
(* A thread is <<p, t>>, the t-th entry of process p's thread table.  User *)
(* programs make any of the calls in Calls in any order, except that init  *)
(* only forks and waits, as init.c does.  A call may wait for a pipe, the  *)
(* console or the clock ("block"), in a loop that looks at proc->killed,   *)
(* and exit() for the disk ("disk"), in loops that do not.                 *)
(*                                                                         *)
(* The kernel has one stack per process (switchuvm() loads proc->kstack),  *)
(* and a created thread's first context lies in user memory (its kstack is *)
(* 0).  kholder and uholder say whose frames these two places hold now.    *)
(* ub records the first undefined behaviour, or that the kernel panicked;  *)
(* nothing is said of the system after it.                                 *)
(***************************************************************************)
EXTENDS Integers, FiniteSets

CONSTANTS
    CPU,
    NPROC, NTHREAD,   \* param.h, proc.h
    MaxPid, MaxTid,   \* bounds on nextpid and nexttid
    Calls,            \* the system calls that user programs make
    KillArgs          \* what they pass to kill()

AllCalls == {"fork", "exit", "wait", "kill", "block", "disk", "fault",
             "kthread_create", "kthread_exit", "kthread_join"}

\* init forks and waits, and exits when fork() fails.
InitCalls == {"fork", "wait"}

ASSUME KThreadAssumption ==
    /\ NPROC \in Nat \ {0} /\ NTHREAD \in Nat \ {0}
    /\ MaxPid \in Nat \ {0} /\ MaxTid \in Nat
    /\ Calls \subseteq AllCalls /\ KillArgs \subseteq Nat

Proc   == 1..NPROC
Slot   == 0..(NTHREAD - 1)
Thread == Proc \X Slot

initproc == 1
NoProc   == 0

Idle   == <<NoProc, 0>>                \* no thread on the processor
Free   == "free"                       \* nobody holds ptable.lock
Start  == <<NoProc, NTHREAD - 1>>      \* the scheduler begins its loop

NoChan       == <<"none", 0, 0>>
IoChan       == <<"io", 0, 0>>         \* a pipe, the console or the clock
DiskChan     == <<"disk", 0, 0>>       \* a buffer, an inode or the log
ProcChan(p)  == <<"proc", p, 0>>
ThreadChan(u) == <<"thread", u[1], u[2]>>

State == {"UNUSED", "EMBRYO", "SLEEPING", "RUNNABLE", "RUNNING", "ZOMBIE"}
PC    == {"none", "forkret", "user", "allocproc", "copyuvm", "forkdone", "create", "wait",
          "join", "loop", "sleep", "late", "exit"}

VARIABLES
    pstate, pid, parent, killed,       \* struct proc
    threads,                           \* FALSE: p->threads is 0
    tstate, tid, chan,                 \* struct kthread
    pc, arg,                           \* where a thread is, and on what
    nextpid, nexttid,
    cpu,                               \* the thread a processor runs
    pos,                               \* the last thread its scheduler looked at
    lock,                              \* ptable.lock
    ctx, kholder, uholder,             \* where a context is saved, whose it holds
    ub

procVars   == <<pstate, pid, parent, killed, threads, nextpid>>
threadVars == <<tstate, tid, chan, nexttid>>
stackVars  == <<ctx, kholder, uholder>>
vars == <<procVars, threadVars, pc, arg, cpu, pos, lock, stackVars, ub>>

\* After userinit(): one process, not yet run.
Init ==
    /\ pstate = [p \in Proc |-> IF p = initproc THEN "RUNNABLE" ELSE "UNUSED"]
    /\ pid = [p \in Proc |-> IF p = initproc THEN 1 ELSE 0]
    /\ parent = [p \in Proc |-> NoProc]
    /\ killed = [p \in Proc |-> FALSE]
    /\ threads = [p \in Proc |-> p = initproc]
    /\ tstate = [u \in Thread |-> IF u = <<initproc, 0>> THEN "RUNNABLE" ELSE "UNUSED"]
    /\ tid = [u \in Thread |-> 0]
    /\ chan = [u \in Thread |-> NoChan]
    /\ pc = [u \in Thread |-> IF u = <<initproc, 0>> THEN "forkret" ELSE "none"]
    /\ arg = [u \in Thread |-> 0]
    /\ nextpid = 2 /\ nexttid = 1
    /\ cpu = [c \in CPU |-> Idle]
    /\ pos = [c \in CPU |-> Start]
    /\ lock = Free
    /\ ctx = [u \in Thread |-> "kstack"]
    /\ kholder = [p \in Proc |-> 0] /\ uholder = [p \in Proc |-> 0]
    /\ ub = "none"

procIsReady(p) == pstate[p] \in {"RUNNABLE", "RUNNING"}

ThreadsOf(p) == {p} \X Slot
Live(u)      == tstate[u] \notin {"UNUSED", "ZOMBIE"}
First(S)     == CHOOSE x \in S : \A y \in S : x <= y
Last(S)      == CHOOSE x \in S : \A y \in S : x >= y

\* wait() has freed the stack and the memory that a processor is using.
Reaped(c) == cpu[c] # Idle /\ pstate[cpu[c][1]] = "UNUSED"

\* No undefined behaviour so far.
Defined == ub = "none" /\ \A c \in CPU : ~Reaped(c)

-----------------------------------------------------------------------------
(* Scheduling *)

After(u, v) == v[1] > u[1] \/ (v[1] = u[1] /\ v[2] > u[2])

\* Mutant: the loop begins at the top of the table after every switch.
PickableFromTop(c) ==
    {u \in Thread : tstate[u] = "RUNNABLE" /\ procIsReady(u[1])}

\* The scheduler's loops: procIsReady() is tested once per process, before its
\* first thread; a thread that comes back leaves it inside the inner loop.
Pickable(c) ==
    {u \in Thread : /\ After(pos[c], u) /\ tstate[u] = "RUNNABLE"
                    /\ IF u[1] = pos[c][1] THEN threads[u[1]] ELSE procIsReady(u[1])}

\* Is the context that swtch() loads still what was saved there?
Intact(u) == u[2] = IF ctx[u] = "kstack" THEN kholder[u[1]] ELSE uholder[u[1]]

\* Mutant: the chosen thread stays RUNNABLE.
ChosenRunnable(u) == tstate

Chosen(u) == [tstate EXCEPT ![u] = "RUNNING"]

\* scheduler() up to swtch(): the next runnable thread in table order.
SchedPick(c) ==
    /\ Defined /\ cpu[c] = Idle
    /\ lock = c \/ (lock = Free /\ pos[c] = Start)
    /\ \E u \in Pickable(c) :
        /\ \A v \in Pickable(c) : v = u \/ After(u, v)
        /\ tstate' = Chosen(u)
        /\ cpu' = [cpu EXCEPT ![c] = u]
        /\ pos' = [pos EXCEPT ![c] = u]
        /\ ub' = IF Intact(u) THEN "none" ELSE "stack"
    /\ lock' = c
    /\ UNCHANGED <<procVars, tid, chan, nexttid, pc, arg, stackVars>>

\* The end of the table: release the lock and begin again.
SchedWrap(c) ==
    /\ Defined /\ cpu[c] = Idle /\ lock = c /\ Pickable(c) = {}
    /\ pos' = [pos EXCEPT ![c] = Start]
    /\ lock' = Free
    /\ UNCHANGED <<procVars, threadVars, pc, arg, cpu, stackVars, ub>>

\* sched() by the thread on c: its context is saved on the stack it runs on.
sched(c) ==
    /\ cpu' = [cpu EXCEPT ![c] = Idle]
    /\ lock' = c
    /\ ctx' = [ctx EXCEPT ![cpu[c]] = "kstack"]
    /\ UNCHANGED pos

-----------------------------------------------------------------------------
(* Entering and leaving the kernel: trap.c *)

\* The thread on d runs on the stack of its process: it is in a call, or has not
\* come back from yield() yet.  A created thread is in forkret() on its own frames,
\* and a forked one is the only thread of its process then.
OnStack(d) == pc[cpu[d]] \notin {"user", "forkret"} \/ (pc[cpu[d]] = "user" /\ lock = d)

\* Thread u enters the kernel on its process's stack, over what was there.
Enter(u) ==
    /\ kholder' = [kholder EXCEPT ![u[1]] = u[2]]
    /\ ub' = IF \E d \in CPU : cpu[d] # u /\ cpu[d][1] = u[1] /\ OnStack(d)
             THEN "stack" ELSE "none"
    /\ UNCHANGED uholder

\* The thread on c, in user mode, makes a call.
Call(c, name) ==
    /\ Defined /\ name \in Calls /\ cpu[c] # Idle /\ lock # c
    /\ cpu[c][1] = initproc => name \in InitCalls
    /\ pc[cpu[c]] = "user" /\ ~killed[cpu[c][1]]

\* The call of u is over, and so is what it kept in its local variables.
Forget(u) == arg' = [arg EXCEPT ![u] = 0]

\* The end of trap(): exit() if killed, or back to user mode.
Return(u) == pc' = [pc EXCEPT ![u] = IF killed[u[1]] THEN "exit" ELSE "user"]

\* A thread that scheduler() has switched to lets go of ptable.lock: the end of
\* yield(), of sleep(), and forkret().
Resume(c) ==
    /\ Defined /\ cpu[c] # Idle /\ lock = c
    /\ LET u == cpu[c] IN
        /\ pc[u] \notin {"wait", "join"}
        /\ chan' = [chan EXCEPT ![u] = NoChan]
        /\ CASE pc[u] = "forkret" -> pc' = [pc EXCEPT ![u] = "user"]
             [] pc[u] = "user" -> Return(u)
             [] pc[u] = "late" -> pc' = [pc EXCEPT ![u] = "loop"]
             [] OTHER -> UNCHANGED pc
    /\ lock' = Free
    /\ UNCHANGED <<procVars, tstate, tid, nexttid, arg, cpu, pos, stackVars, ub>>

\* The clock interrupt: yield(), from user mode or from kernel code that holds
\* no lock; a loop holds its own from the test of proc->killed to sleep().
yield(c) ==
    /\ Defined /\ cpu[c] # Idle /\ lock = Free
    /\ LET u == cpu[c] IN
        /\ tstate[u] = "RUNNING" /\ pc[u] # "sleep"
        /\ IF pc[u] = "user" THEN ~killed[u[1]] /\ Enter(u) ELSE UNCHANGED <<kholder, uholder, ub>>
        /\ tstate' = [tstate EXCEPT ![u] = "RUNNABLE"]
    /\ sched(c)
    /\ UNCHANGED <<procVars, tid, chan, nexttid, pc, arg>>

\* sleep(), with ptable.lock, up to its sched().
GoToSleep(c, ch, at) ==
    /\ tstate' = [tstate EXCEPT ![cpu[c]] = "SLEEPING"]
    /\ chan' = [chan EXCEPT ![cpu[c]] = ch]
    /\ pc' = [pc EXCEPT ![cpu[c]] = at]
    /\ sched(c)

\* The thread on c is in the kernel at a place outside ptable.lock.
Unlocked(c, at) == Defined /\ cpu[c] # Idle /\ lock # c /\ pc[cpu[c]] = at

\* A call that waits for something: piperead(), pipewrite(), consoleread() and
\* sys_sleep() before they acquire the lock of their loop.
block(c) ==
    /\ Call(c, "block")
    /\ Enter(cpu[c])
    /\ pc' = [pc EXCEPT ![cpu[c]] = "loop"]
    /\ UNCHANGED <<procVars, threadVars, arg, cpu, pos, lock, ctx>>

\* Mutant: a killed process waits on.
GivesUpNever(p) == FALSE

\* "if(proc->killed)", without ptable.lock.
GivesUp(p) == killed[p]

\* The test of such a loop: what it waits for is there, the process is killed,
\* or it is to sleep.
block_test(c) ==
    /\ Unlocked(c, "loop")
    /\ LET u == cpu[c] IN
        \/ Return(u)
        \/ ~GivesUp(u[1]) /\ pc' = [pc EXCEPT ![u] = "sleep"]
    /\ UNCHANGED <<procVars, threadVars, arg, cpu, pos, lock, stackVars, ub>>

\* Its sleep().  A kill() since the test has come too early to wake it up: "late".
block_sleep(c) ==
    /\ Unlocked(c, "sleep") /\ lock = Free
    /\ GoToSleep(c, IoChan, IF killed[cpu[c][1]] THEN "late" ELSE "loop")
    /\ UNCHANGED <<procVars, tid, nexttid, arg, kholder, uholder, ub>>

\* The threads that wakeup1(ch) makes runnable.
Woken(ch) == {u \in Thread : procIsReady(u[1]) /\ tstate[u] = "SLEEPING" /\ chan[u] = ch}

MakeRunnable(S) == [u \in Thread |-> IF u \in S THEN "RUNNABLE" ELSE tstate[u]]

\* wakeup(ch), by an interrupt or by a thread that is not followed here.
Wakeup(ch) ==
    /\ Defined /\ lock = Free /\ Woken(ch) # {}
    /\ tstate' = MakeRunnable(Woken(ch))
    /\ UNCHANGED <<procVars, tid, chan, nexttid, pc, arg, cpu, pos, lock, stackVars, ub>>

-----------------------------------------------------------------------------
(* fork(), exit(), wait(), kill() *)

\* Mutant: ++nextpid.
NextPidPreIncrement == nextpid + 1

\* nextpid++ gives the process the old value.
NextPid == nextpid

\* fork() returns -1: init exits then, other programs go on.
ForkFailed(u) ==
    pc' = [pc EXCEPT ![u] = IF killed[u[1]] \/ u[1] = initproc THEN "exit" ELSE "user"]

\* The locked part of allocproc().  Note that it keeps p->killed.
fork_alloc(c) ==
    /\ Call(c, "fork") /\ lock = Free /\ nextpid <= MaxPid
    /\ Enter(cpu[c])
    /\ LET u == cpu[c]
           unused == {p \in Proc : pstate[p] = "UNUSED"}
           q == First(unused)
       IN \/ /\ unused = {}
             /\ ForkFailed(u)
             /\ UNCHANGED <<procVars, arg>>
          \/ /\ unused # {}
             /\ pstate' = [pstate EXCEPT ![q] = "EMBRYO"]
             /\ threads' = [threads EXCEPT ![q] = TRUE]
             /\ pid' = [pid EXCEPT ![q] = NextPid]
             /\ nextpid' = nextpid + 1
             /\ pc' = [pc EXCEPT ![u] = "allocproc"]
             /\ arg' = [arg EXCEPT ![u] = q]
             /\ UNCHANGED <<parent, killed>>
    /\ UNCHANGED <<threadVars, cpu, pos, lock, ctx>>

\* kalloc() or copyuvm() fails: the entry is given back, with its pid.
fork_fail(c) ==
    /\ Unlocked(c, "allocproc") \/ Unlocked(c, "copyuvm")
    /\ pstate' = [pstate EXCEPT ![arg[cpu[c]]] = "UNUSED"]
    /\ ForkFailed(cpu[c]) /\ Forget(cpu[c])
    /\ UNCHANGED <<pid, parent, killed, threads, nextpid, threadVars, cpu, pos, lock, stackVars, ub>>

\* The rest of allocproc(): the thread table and the first context.
fork_stack(c) ==
    /\ Unlocked(c, "allocproc")
    /\ LET q == arg[cpu[c]] IN
        /\ tstate' = [u \in Thread |-> IF u[1] = q THEN "UNUSED" ELSE tstate[u]]
        /\ ctx' = [ctx EXCEPT ![<<q, 0>>] = "kstack"]
        /\ kholder' = [kholder EXCEPT ![q] = 0]
    /\ pc' = [pc EXCEPT ![cpu[c]] = "copyuvm"]
    /\ UNCHANGED <<procVars, tid, chan, nexttid, arg, cpu, pos, lock, uholder, ub>>

\* fork() after copyuvm(), up to its acquire().
fork_copy(c) ==
    /\ Unlocked(c, "copyuvm")
    /\ parent' = [parent EXCEPT ![arg[cpu[c]]] = cpu[c][1]]
    /\ pc' = [pc EXCEPT ![cpu[c]] = "forkdone"]
    /\ UNCHANGED <<pstate, pid, killed, threads, nextpid, threadVars, arg, cpu, pos, lock,
                   stackVars, ub>>

fork_done(c) ==
    /\ Unlocked(c, "forkdone") /\ lock = Free
    /\ LET q == arg[cpu[c]]
           u == cpu[c]
       IN /\ pstate' = [pstate EXCEPT ![q] = "RUNNABLE"]
          /\ tstate' = [tstate EXCEPT ![<<q, 0>>] = "RUNNABLE"]
          /\ pc' = [pc EXCEPT ![<<q, 0>>] = "forkret",
                              ![u] = IF killed[u[1]] THEN "exit" ELSE "user"]
          /\ Forget(u)
    /\ UNCHANGED <<pid, parent, killed, threads, nextpid, tid, chan, nexttid, cpu, pos,
                   lock, stackVars, ub>>

\* exit(), called by the program or, once it is killed, by trap().
exit_enter(c) ==
    /\ Unlocked(c, "user")
    /\ ("exit" \in Calls /\ cpu[c][1] # initproc) \/ killed[cpu[c][1]]
    /\ Enter(cpu[c])
    /\ pc' = [pc EXCEPT ![cpu[c]] = "exit"]
    /\ UNCHANGED <<procVars, threadVars, arg, cpu, pos, lock, ctx>>

\* The program does something illegal: trap() kills its process.
fault(c) ==
    /\ Unlocked(c, "user") /\ "fault" \in Calls /\ cpu[c][1] # initproc
    /\ Enter(cpu[c])
    /\ killed' = [killed EXCEPT ![cpu[c][1]] = TRUE]
    /\ pc' = [pc EXCEPT ![cpu[c]] = "exit"]
    /\ UNCHANGED <<pstate, pid, parent, threads, nextpid, threadVars, arg, cpu, pos, lock, ctx>>

\* "init exiting"
exit_init(c) ==
    /\ Unlocked(c, "exit") /\ cpu[c][1] = initproc
    /\ ub' = "panic"
    /\ UNCHANGED <<procVars, threadVars, pc, arg, cpu, pos, lock, stackVars>>

\* Closing files and dropping the directory may wait for the disk.
exit_block(c) ==
    /\ Unlocked(c, "exit") /\ cpu[c][1] # initproc /\ "disk" \in Calls /\ lock = Free
    /\ GoToSleep(c, DiskChan, "exit")
    /\ UNCHANGED <<procVars, tid, nexttid, arg, kholder, uholder, ub>>

\* Mutant: every child is marked.
ChildlessAll(p) == {q \in Proc : parent[q] = p}

\* The children of p that exit() finds with no live thread.
Childless(p) == {q \in Proc : parent[q] = p /\ \A u \in ThreadsOf(q) : ~Live(u)}

\* Mutant: the children keep the parent that is gone.
AdoptedByNobody(p) == parent

\* Abandoned children go to init.
Adopted(p) == [q \in Proc |-> IF parent[q] = p THEN initproc ELSE parent[q]]

\* Mutant: nobody is woken up.
ParentForgotten(p) == {}

\* "Parent might be sleeping in wait()."
ParentThreads(p) == Woken(ProcChan(parent[p]))

\* The locked part of exit().  When a sibling has called exit() before,
\* proc->threads is 0 and the loop over it writes to user memory.
exit_finish(c) ==
    /\ Unlocked(c, "exit") /\ cpu[c][1] # initproc /\ lock = Free
    /\ LET p == cpu[c][1]
           mine == IF threads[p] THEN ThreadsOf(p) ELSE {}
       IN /\ tstate' = [u \in Thread |-> IF u \in mine THEN "ZOMBIE" ELSE MakeRunnable(ParentThreads(p))[u]]
          /\ tid' = [u \in Thread |-> IF u \in mine THEN 0 ELSE tid[u]]
          /\ chan' = [u \in Thread |-> IF u \in mine THEN NoChan ELSE chan[u]]
          /\ parent' = Adopted(p)
          /\ pstate' = [q \in Proc |-> IF q = p \/ q \in Childless(p) THEN "ZOMBIE" ELSE pstate[q]]
          /\ threads' = [threads EXCEPT ![p] = FALSE]
          /\ pc' = [u \in Thread |-> IF u[1] = p /\ \A d \in CPU \ {c} : cpu[d] # u
                                     THEN "none" ELSE pc[u]]
    /\ sched(c)
    /\ UNCHANGED <<pid, killed, nextpid, nexttid, arg, kholder, uholder, ub>>

\* The thread on c is back from a sleep() with ptable.lock.
Again(c, at) == Defined /\ cpu[c] # Idle /\ lock = c /\ pc[cpu[c]] = at

\* "No point waiting if we don't have any children."
NoPoint(p, found) == found = {} \/ killed[p]

\* wait(): on entry, or again after a wakeup with the lock still held.
wait(c) ==
    /\ \/ Call(c, "wait") /\ lock = Free /\ Enter(cpu[c])
       \/ Again(c, "wait") /\ UNCHANGED <<kholder, uholder, ub>>
    /\ LET u == cpu[c]
           kids == {q \in Proc : parent[q] = u[1]}
           zombies == {q \in kids : pstate[q] = "ZOMBIE"}
           q == First(zombies)
       IN \/ /\ zombies # {}
             /\ pstate' = [pstate EXCEPT ![q] = "UNUSED"]
             /\ pid' = [pid EXCEPT ![q] = 0]
             /\ parent' = [parent EXCEPT ![q] = NoProc]
             /\ killed' = [killed EXCEPT ![q] = FALSE]
             /\ chan' = [chan EXCEPT ![u] = NoChan]
             /\ Return(u) /\ lock' = Free
             /\ UNCHANGED <<threads, tstate, cpu, pos, ctx>>
          \/ /\ zombies = {} /\ NoPoint(u[1], kids)
             /\ chan' = [chan EXCEPT ![u] = NoChan]
             /\ Return(u) /\ lock' = Free
             /\ UNCHANGED <<pstate, pid, parent, killed, threads, tstate, cpu, pos, ctx>>
          \/ /\ zombies = {} /\ ~NoPoint(u[1], kids)
             /\ GoToSleep(c, ProcChan(u[1]), "wait")
             /\ UNCHANGED <<pstate, pid, parent, killed, threads>>
    /\ UNCHANGED <<nextpid, tid, nexttid, arg>>

\* "Wake process from sleep if necessary."
KillWakes(p) == {u \in ThreadsOf(p) : threads[p] /\ tstate[u] = "SLEEPING"}

\* kill(n): the first entry with that pid, whatever its state.
kill(c, n) ==
    /\ Call(c, "kill") /\ lock = Free
    /\ Enter(cpu[c])
    /\ LET found == {p \in Proc : pid[p] = n}
           q == First(found)
       IN \/ /\ found = {}
             /\ UNCHANGED <<killed, tstate, pc>>
          \/ /\ found # {}
             /\ killed' = [killed EXCEPT ![q] = TRUE]
             /\ tstate' = MakeRunnable(KillWakes(q))
             /\ pc' = [pc EXCEPT ![cpu[c]] = IF q = cpu[c][1] THEN "exit" ELSE "user"]
    /\ UNCHANGED <<pstate, pid, parent, threads, nextpid, tid, chan, nexttid, arg, cpu, pos,
                   lock, ctx>>

-----------------------------------------------------------------------------
(* The kthread calls: kthread.c *)

\* A call that walks proc->threads after exit() has set it to 0.
NullThreads(c) ==
    /\ \E name \in {"kthread_create", "kthread_exit", "kthread_join"} : Call(c, name)
    /\ ~threads[cpu[c][1]]
    /\ ub' = "null"
    /\ UNCHANGED <<procVars, threadVars, pc, arg, cpu, pos, lock, stackVars>>

\* The locked part of kthread_create().
kthread_create(c) ==
    /\ Call(c, "kthread_create") /\ lock = Free /\ nexttid <= MaxTid
    /\ threads[cpu[c][1]]
    /\ Enter(cpu[c])
    /\ LET u == cpu[c]
           unused == {i \in Slot : tstate[<<u[1], i>>] = "UNUSED"}
           t == First(unused)
       IN \/ /\ unused = {}
             /\ UNCHANGED <<threadVars, pc, arg>>
          \/ /\ unused # {}
             /\ tstate' = [tstate EXCEPT ![<<u[1], t>>] = "EMBRYO"]
             /\ tid' = [tid EXCEPT ![<<u[1], t>>] = nexttid]
             /\ nexttid' = nexttid + 1
             /\ pc' = [pc EXCEPT ![u] = "create"]
             /\ arg' = [arg EXCEPT ![u] = t]
             /\ UNCHANGED chan
    /\ UNCHANGED <<procVars, cpu, pos, lock, ctx>>

\* The rest of it, outside the lock: the new thread's frames go to user memory.
kthread_start(c) ==
    /\ Unlocked(c, "create")
    /\ LET u == cpu[c]
           v == <<u[1], arg[u]>>
       IN /\ uholder' = [uholder EXCEPT ![u[1]] = arg[u]]
          /\ ctx' = [ctx EXCEPT ![v] = "ustack"]
          /\ tstate' = [tstate EXCEPT ![v] = "RUNNABLE"]
          /\ pc' = [pc EXCEPT ![v] = "forkret",
                              ![u] = IF killed[u[1]] THEN "exit" ELSE "user"]
          /\ Forget(u)
    /\ UNCHANGED <<procVars, tid, chan, nexttid, cpu, pos, lock, kholder, ub>>

\* Mutant: the joiners are not woken up.
JoinersForgotten(u) == {}

\* wakeupThreads(thread), by the thread u that exits.
Joiners(u) == {v \in ThreadsOf(u[1]) : tstate[v] = "SLEEPING" /\ chan[v] = ThreadChan(u)}

\* kthread_exit(): the last thread goes on to exit(), with its process a ZOMBIE.
kthread_exit(c) ==
    /\ Call(c, "kthread_exit") /\ lock = Free /\ threads[cpu[c][1]]
    /\ Enter(cpu[c])
    /\ LET u == cpu[c] IN
       \/ /\ \E v \in ThreadsOf(u[1]) \ {u} : Live(v)
          /\ tstate' = [MakeRunnable(Joiners(u)) EXCEPT ![u] = "ZOMBIE"]
          /\ tid' = [tid EXCEPT ![u] = 0]
          /\ pc' = [pc EXCEPT ![u] = "none"]
          /\ sched(c)
          /\ UNCHANGED pstate
       \/ /\ ~\E v \in ThreadsOf(u[1]) \ {u} : Live(v)
          /\ tstate' = [tstate EXCEPT ![u] = "ZOMBIE"]
          /\ pstate' = [pstate EXCEPT ![u[1]] = "ZOMBIE"]
          /\ pc' = [pc EXCEPT ![u] = "exit"]
          /\ UNCHANGED <<tid, cpu, pos, lock, ctx>>
    /\ UNCHANGED <<pid, parent, killed, threads, nextpid, chan, nexttid, arg>>

\* kthread_join(id): on entry, or again after a wakeup with the lock held.
\* Every entry of the table with that tid is looked at, used or not.
kthread_join(c, id) ==
    /\ \/ Call(c, "kthread_join") /\ lock = Free /\ Enter(cpu[c])
       \/ /\ Again(c, "join") /\ arg[cpu[c]] = id
          /\ UNCHANGED <<kholder, uholder, ub>>
    /\ threads[cpu[c][1]]
    /\ LET u == cpu[c]
           found == {i \in Slot : tid[<<u[1], i>>] = id}
           zombies == {i \in found : tstate[<<u[1], i>>] = "ZOMBIE"}
       IN \/ /\ zombies # {}
             /\ tid' = [tid EXCEPT ![<<u[1], First(zombies)>>] = -1]
             /\ chan' = [chan EXCEPT ![u] = NoChan]
             /\ Return(u) /\ Forget(u) /\ lock' = Free
             /\ UNCHANGED <<tstate, cpu, pos, ctx>>
          \/ /\ zombies = {} /\ NoPoint(u[1], found)
             /\ chan' = [chan EXCEPT ![u] = NoChan]
             /\ Return(u) /\ Forget(u) /\ lock' = Free
             /\ UNCHANGED <<tid, tstate, cpu, pos, ctx>>
          \/ /\ zombies = {} /\ ~NoPoint(u[1], found)
             /\ GoToSleep(c, ThreadChan(<<u[1], Last(found)>>), "join")
             /\ arg' = [arg EXCEPT ![u] = id]
             /\ UNCHANGED tid
    /\ UNCHANGED <<procVars, nexttid>>

-----------------------------------------------------------------------------
\* What the thread on c does with ptable.lock once it is switched to.
Locked(c) ==
    \/ Resume(c)
    \/ Again(c, "wait") /\ wait(c)
    \/ Again(c, "join") /\ kthread_join(c, arg[cpu[c]])

\* What thread u does in the kernel without it.
Unfinished(u) ==
    \E c \in CPU :
        /\ cpu[c] = u
        /\ \/ fork_fail(c) \/ fork_stack(c) \/ fork_copy(c) \/ fork_done(c) \/ kthread_start(c)
           \/ block_test(c) \/ block_sleep(c) \/ exit_init(c) \/ exit_finish(c)

Next ==
    \/ Wakeup(IoChan) \/ Wakeup(DiskChan)
    \/ \E c \in CPU :
        \/ SchedPick(c) \/ SchedWrap(c) \/ Resume(c) \/ yield(c)
        \/ block(c) \/ block_test(c) \/ block_sleep(c)
        \/ fork_alloc(c) \/ fork_fail(c) \/ fork_stack(c) \/ fork_copy(c) \/ fork_done(c)
        \/ exit_enter(c) \/ fault(c) \/ exit_init(c) \/ exit_block(c) \/ exit_finish(c)
        \/ wait(c)
        \/ \E n \in KillArgs : kill(c, n)
        \/ NullThreads(c) \/ kthread_create(c) \/ kthread_start(c) \/ kthread_exit(c)
        \/ \E id \in 0..(nexttid - 1) : kthread_join(c, id)

Spec == Init /\ [][Next]_vars

\* The processors and their clock interrupts go on, and a thread gets on with its
\* call however often it is interrupted.  The disk answers every request, its
\* interrupt stays pending until ptable.lock can be had, and the files that exit()
\* closes are finitely many.  Nothing is said of pipes, the console and the clock:
\* what a call waits for there may never come.
Fairness ==
    /\ SF_vars(Wakeup(DiskChan))
    /\ \A c \in CPU : /\ WF_vars(SchedPick(c) \/ SchedWrap(c))
                      /\ WF_vars(Locked(c))
                      /\ WF_vars(yield(c) \/ exit_enter(c) \/ fault(c))
    /\ \A u \in Thread : SF_vars(Unfinished(u))

LiveSpec == Spec /\ Fairness

-----------------------------------------------------------------------------
(* Properties *)

\* Every variable stays in its range; in particular allocproc() never hands
\* out a pid that nextpid has not reached, and ptable.lock has one holder.
TypeOK ==
    /\ pstate \in [Proc -> State] /\ tstate \in [Thread -> State]
    /\ pid \in [Proc -> 0..MaxPid] /\ nextpid \in 1..(MaxPid + 1)
    /\ \A p \in Proc : pid[p] < nextpid
    /\ parent \in [Proc -> Proc \cup {NoProc}]
    /\ killed \in [Proc -> BOOLEAN] /\ threads \in [Proc -> BOOLEAN]
    /\ tid \in [Thread -> -1..MaxTid] /\ nexttid \in 1..(MaxTid + 1)
    /\ chan \in [Thread -> {NoChan, IoChan, DiskChan} \cup {ProcChan(p) : p \in Proc}
                                           \cup {ThreadChan(u) : u \in Thread}]
    /\ pc \in [Thread -> PC] /\ arg \in [Thread -> Nat]
    /\ cpu \in [CPU -> Thread \cup {Idle}] /\ pos \in [CPU -> Thread \cup {Start}]
    /\ lock \in CPU \cup {Free}
    /\ ctx \in [Thread -> {"kstack", "ustack"}]
    /\ kholder \in [Proc -> Slot] /\ uholder \in [Proc -> Slot]
    /\ ub \in {"none", "stack", "null", "panic"}

\* No thread is on two processors, and outside the exit paths a thread is
\* RUNNING exactly while a processor runs it: what scheduler(), yield() and
\* sleep() keep true by passing ptable.lock across swtch().
RunningOnOneCpu ==
    /\ \A c, d \in CPU : cpu[c] = cpu[d] /\ cpu[c] # Idle => c = d
    /\ \A u \in Thread : tstate[u] = "RUNNING" => \E c \in CPU : cpu[c] = u

\* A process's parent has not exited: exit() passes the children on to init.
ParentAlive ==
    \A p \in Proc : parent[p] # NoProc => pstate[parent[p]] = "RUNNABLE"

\* The wakeup of exit() is not lost: whoever forked a child that has become a
\* zombie does not stay asleep in wait().  init is left out: exit() hands it
\* zombies without waking it up.
WaitNotMissed ==
    \A p \in Proc \ {initproc} : \A u \in ThreadsOf(p), q \in Proc :
        ~(tstate[u] = "SLEEPING" /\ chan[u] = ProcChan(p) /\ parent[q] = p /\ pstate[q] = "ZOMBIE")

\* wait() frees the stack and the memory of a child only when no processor
\* uses them.
ReapedIsStopped == \A c \in CPU : ~Reaped(c)

\* A thread asleep in kthread_join() waits for a thread that has not exited:
\* kthread_exit() wakes it up in the step that makes the target a ZOMBIE.
JoinNotMissed ==
    \A u, v \in Thread :
        tstate[u] = "SLEEPING" /\ chan[u] = ThreadChan(v) => tstate[v] # "ZOMBIE"

\* "Contexts are stored at the bottom of the stack they describe" (proc.h:45):
\* swtch() never loads, and no thread ever runs on, another thread's frames.
StacksIntact == ub # "stack"

\* scheduler() is fair: a runnable thread gets a processor, unless init has
\* exited and the kernel panicked.
RunnableRuns ==
    \A u \in Thread : tstate[u] = "RUNNABLE" ~> tstate[u] # "RUNNABLE" \/ ub = "panic"

\* kill() has come between the test of proc->killed in a loop over a pipe, the
\* console or the clock and the sleep() after it, and nobody has woken p since.
KilledLate(p) == \E u \in ThreadsOf(p) : pc[u] \in {"sleep", "late"}

\* "Process won't exit until it returns to user space" (proc.c:547), but then
\* it does: kill() wakes the process out of wait(), of a pipe, of the console
\* or of the clock, whose loops do not go to sleep again, and the disk lets go of
\* it in the end.  Left out are the processes that kill() finds between the test
\* of proc->killed and sleep(): they may sleep for ever.  Killing init panics.
KilledExits ==
    \A p \in Proc :
        killed[p] /\ pstate[p] = "RUNNABLE" /\ ~KilledLate(p)
            ~> pstate[p] \in {"ZOMBIE", "UNUSED"} \/ ub = "panic"
=============================================================================
