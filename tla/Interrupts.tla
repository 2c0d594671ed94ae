----------------------------- MODULE Interrupts -----------------------------
(***************************************************************************)
(* Spinlocks, interrupt masking and what is built on them: the hand-over   *)
(* of a processor in sched() and scheduler(), the clock, and the console   *)
(* (spinlock.c, trap.c, console.c, proc.c, sysproc.c).                     *)
(*                                                                         *)
(* A thread in the kernel, or the scheduler of a processor, has a list of  *)
(* operations still to do; a call puts its operations in front, and so     *)
(* does an interrupt, on whatever runs on the processor.  One operation is *)
(* one step.  Every process has one thread, and procIsReady() holds of it. *)
(* Inode locks (iunlock and ilock around the console) are in FileSystem.   *)
(***************************************************************************)
EXTENDS Integers, Sequences, FiniteSets

CONSTANTS
    NCPU,         \* processors 0 .. NCPU - 1; the first one keeps the time
    NTHREAD,      \* threads 1 .. NTHREAD, in the order of the process table
    UINT,         \* a uint is taken modulo UINT (2^32)
    INPUT_BUF,
    None,         \* no processor, no thread
    Workloads,    \* what happens in an execution: [calls: the system calls each
                  \* thread makes; chars: what uartgetc() returns; keys: the keys
                  \* of the keyboard that are used: "h", "lctl", "rctl" and "caps";
                  \* max: the bounds on interrupts, system calls and bytes typed]
    Start         \* the value of the counters at the start

ASSUME InterruptsAssumption ==
    /\ NCPU \in Nat \ {0} /\ Start \in 0..(UINT - 1) /\ NTHREAD \in Nat /\ INPUT_BUF \in Nat \ {0}
    /\ UINT \in Nat /\ UINT > INPUT_BUF /\ UINT % INPUT_BUF = 0

CPU    == 0..(NCPU - 1)
Thread == 1..NTHREAD
Lock   == {"ptable", "tickslock", "cons", "input"}
Chan   == {"&ticks", "&input.r"}

VARIABLES
    eflags, ncli, intena,    \* struct cpu; eflags: the FL_IF bit
    thread,                  \* the thread on a processor, or None in scheduler()
    lock,                    \* lk->cpu of a locked lock, or None
    code, idle,              \* the operations a thread, a scheduler() has to do
    state,                   \* t->state, and t->chan for a thread that sleeps
    killed,
    ticks,
    input,                   \* [buf, r, w, e]
    kbd,                     \* [shift, down, sent]: kbdgetc()'s shift; of the keyboard
                             \* itself, the keys held down and the one whose E0 is out
    due,                     \* the ticks a sleep() of the thread has to see
    work,                    \* the workload
    events,                  \* interrupts, calls and characters so far
    panic

cpu  == <<eflags, ncli, intena>>
vars == <<cpu, thread, lock, code, idle, state, killed, ticks, input, kbd, due, work, events, panic>>

-----------------------------------------------------------------------------
(* The operations that make up the functions of the kernel *)

acquire(lk) == <<<<"acquire", lk>>>>
release(lk) == <<<<"release", lk>>>>

\* Mutant: the caller's lock is not given up.
SleepsLocked(chan, lk) ==
    acquire("ptable") \o <<<<"sched", chan>>>> \o release("ptable")

\* Mutant: the lock is given up before ptable.lock is taken.
SleepsLate(chan, lk) ==
    release(lk) \o acquire("ptable")
        \o <<<<"sched", chan>>>> \o release("ptable") \o acquire(lk)

\* Mutant: ptable.lock is kept until the caller's lock has been taken again.
SleepsHolding(chan, lk) ==
    acquire("ptable") \o release(lk)
        \o <<<<"sched", chan>>>> \o acquire(lk) \o release("ptable")

sleep(chan, lk) ==
    acquire("ptable") \o release(lk)
        \o <<<<"sched", chan>>>> \o release("ptable") \o acquire(lk)

wakeup(chan) == acquire("ptable") \o <<<<"wakeup1", chan>>>> \o release("ptable")

yield == acquire("ptable") \o <<<<"sched", "RUNNABLE">>>> \o release("ptable")

\* The end of exit(): the thread does not come back from sched().
exit == acquire("ptable") \o <<<<"sched", "ZOMBIE">>>>

\* One round of scheduler(), after sti().
scheduler == acquire("ptable") \o <<<<"scan", 1>>>>

\* The characters go out while cons.lock is held.
cprintf == acquire("cons") \o release("cons")

\* Two lines, without ptable.lock; the number of threads decides how many there are.
procdump == cprintf \o cprintf

\* kbdintr() and uartintr() call it with their own getc().
consoleintr(irq) == acquire("input") \o <<<<"getc", irq>>>> \o release("input")

consoleread(n) == acquire("input") \o <<<<"read", n, n>>>> \o release("input")

\* The characters go out while cons.lock is held.
consolewrite == acquire("cons") \o release("cons")

sys_sleep(n) == acquire("tickslock") \o <<<<"ticks0", n>>>> \o release("tickslock")

\* ticks is read while tickslock is held.
sys_uptime == acquire("tickslock") \o release("tickslock")

sys_kill(t) == acquire("ptable") \o <<<<"kill", t>>>> \o release("ptable")

\* trap() for the timer: only the first processor counts.
timer(c) ==
    IF c = 0
    THEN acquire("tickslock") \o <<<<"tick">>>> \o wakeup("&ticks") \o release("tickslock")
    ELSE <<>>

\* A system call: <<"read", n>>, <<"write">>, <<"sleep", n>>, <<"uptime">> or
\* <<"kill", t>>.
syscall(call) ==
    CASE call[1] = "read"   -> consoleread(call[2])
      [] call[1] = "write"  -> consolewrite
      [] call[1] = "sleep"  -> sys_sleep(call[2])
      [] call[1] = "uptime" -> sys_uptime
      [] call[1] = "kill"   -> sys_kill(call[2])

-----------------------------------------------------------------------------
\* main() and mpmain(): the processors enter scheduler() with interrupts off.
\* The threads are as fork() leaves them, to go through forkret() to user mode.
Init ==
    /\ eflags = [c \in CPU |-> FALSE] /\ ncli = [c \in CPU |-> 0]
    /\ intena = [c \in CPU |-> FALSE]
    /\ thread = [c \in CPU |-> None] /\ lock = [lk \in Lock |-> None]
    /\ idle = [c \in CPU |-> <<<<"sti">>>> \o scheduler]
    /\ code = [t \in Thread |-> release("ptable") \o <<<<"trapret">>>>]
    /\ state = [t \in Thread |-> "RUNNABLE"] /\ killed = [t \in Thread |-> FALSE]
    /\ ticks = Start /\ due = [t \in Thread |-> 0]
    /\ input = [buf |-> [i \in 0..(INPUT_BUF - 1) |-> "0"], r |-> Start, w |-> Start, e |-> Start]
    /\ kbd = [shift |-> {}, down |-> {}, sent |-> None]
    /\ work \in Workloads /\ events = [k \in DOMAIN work.max |-> 0] /\ panic = "none"

\* What the processor has to do, and its next operation.
Todo(c) == IF thread[c] = None THEN idle[c] ELSE code[thread[c]]
Is(c, op) == panic = "none" /\ Todo(c) # <<>> /\ Todo(c)[1][1] = op
Arg(c) == Todo(c)[1][2]

Continue(c, todo) ==
    IF thread[c] = None
    THEN idle' = [idle EXCEPT ![c] = todo] /\ UNCHANGED code
    ELSE code' = [code EXCEPT ![thread[c]] = todo] /\ UNCHANGED idle

Done(c) == Continue(c, Tail(Todo(c)))

Event(kind) == events[kind] < work.max[kind] /\ events' = [events EXCEPT ![kind] = @ + 1]

InUser(c) == thread[c] # None /\ Todo(c) = <<>>

-----------------------------------------------------------------------------
(* spinlock.c *)

holding(c, lk) == lock[lk] = c

\* Mutant: interrupts stay on.
MasksNothing(c) == eflags

\* cli() in pushcli().
Masked(c) == [eflags EXCEPT ![c] = FALSE]

\* acquire(): pushcli(), and then the lock if it is free.
lock_or_spin(c) ==
    /\ Is(c, "acquire")
    /\ eflags' = Masked(c) /\ ncli' = [ncli EXCEPT ![c] = @ + 1]
    /\ intena' = IF ncli[c] = 0 THEN [intena EXCEPT ![c] = eflags[c]] ELSE intena
    /\ panic' = IF holding(c, Arg(c)) THEN "acquire" ELSE "none"
    /\ IF lock[Arg(c)] = None
       THEN lock' = [lock EXCEPT ![Arg(c)] = c] /\ Done(c)
       ELSE Continue(c, <<<<"xchg", Arg(c)>>>> \o Tail(Todo(c))) /\ UNCHANGED lock
    /\ UNCHANGED <<thread, state, killed, ticks, input, kbd, due, events>>

\* The end of its loop.
xchg(c) ==
    /\ Is(c, "xchg") /\ lock[Arg(c)] = None
    /\ lock' = [lock EXCEPT ![Arg(c)] = c] /\ Done(c)
    /\ UNCHANGED <<cpu, thread, state, killed, ticks, input, kbd, due, panic, events>>

\* release(), with popcli().
unlock(c) ==
    /\ Is(c, "release")
    /\ lock' = [lock EXCEPT ![Arg(c)] = None]
    /\ ncli' = [ncli EXCEPT ![c] = @ - 1]
    /\ eflags' = [eflags EXCEPT ![c] = @ \/ (ncli'[c] = 0 /\ intena[c])]
    /\ panic' = CASE ~holding(c, Arg(c)) -> "release"
                  [] eflags[c]           -> "popcli - interruptible"
                  [] ncli[c] <= 0        -> "popcli"
                  [] OTHER               -> "none"
    /\ Done(c)
    /\ UNCHANGED <<intena, thread, state, killed, ticks, input, kbd, due, events>>

-----------------------------------------------------------------------------
(* The processor changes hands: proc.c *)

sti(c) ==
    /\ Is(c, "sti") /\ eflags' = [eflags EXCEPT ![c] = TRUE] /\ Done(c)
    /\ UNCHANGED <<ncli, intena, thread, lock, state, killed, ticks, input, kbd, due, panic, events>>

\* Mutant: intena is left as the processor has it.
IntenaKept(c, t) == intena

\* sched() puts intena back, on the processor that the thread comes back on.  A
\* new thread has none to put back.
Intena(c, t) ==
    IF code[t][1][1] = "resume" THEN [intena EXCEPT ![c] = code[t][1][2]] ELSE intena

\* The loop of scheduler() from the i-th thread on: swtch() to the next one that
\* can run, or else release ptable.lock, sti(), and begin again.
scan(c) ==
    /\ Is(c, "scan")
    /\ LET ready == {t \in Thread : t >= Arg(c) /\ state[t] = "RUNNABLE"} IN
       \/ /\ ready = {} /\ Continue(c, scheduler)
          /\ lock' = [lock EXCEPT !["ptable"] = None]
          /\ ncli' = [ncli EXCEPT ![c] = @ - 1] /\ eflags' = [eflags EXCEPT ![c] = TRUE]
          /\ UNCHANGED <<thread, state, intena>>
       \/ \E t \in ready :
              /\ \A u \in ready : t <= u
              /\ thread' = [thread EXCEPT ![c] = t]
              /\ state' = [state EXCEPT ![t] = "RUNNING"]
              /\ idle' = [idle EXCEPT ![c] = <<<<"scan", t + 1>>>>]
              /\ intena' = Intena(c, t) /\ UNCHANGED <<eflags, ncli, lock>>
              /\ code' = [code EXCEPT ![t] = IF @[1][1] = "resume" THEN Tail(@) ELSE @]
    /\ UNCHANGED <<killed, ticks, input, kbd, due, panic, events>>

\* yield(), sleep() and exit() change the state of the thread and call sched(),
\* which keeps intena on the stack of the thread.
sched(c) ==
    /\ Is(c, "sched")
    /\ panic' = CASE ~holding(c, "ptable")           -> "sched ptable.lock"
                  [] ncli[c] # 1                     -> "sched locks"
                  [] Arg(c) = "RUNNING"              -> "sched running"
                  [] eflags[c]                       -> "sched interruptible"
                  [] OTHER                           -> "none"
    /\ code' = [code EXCEPT ![thread[c]] = <<<<"resume", intena[c]>>>> \o Tail(@)]
    /\ thread' = [thread EXCEPT ![c] = None]
    /\ state' = [state EXCEPT ![thread[c]] = Arg(c)]
    /\ UNCHANGED <<cpu, lock, idle, killed, ticks, input, kbd, due, events>>

wakeup1(c) ==
    /\ Is(c, "wakeup1")
    /\ state' = [t \in Thread |-> IF state[t] = Arg(c) THEN "RUNNABLE" ELSE state[t]]
    /\ Done(c)
    /\ UNCHANGED <<cpu, thread, lock, killed, ticks, input, kbd, due, panic, events>>

kill(c) ==
    /\ Is(c, "kill")
    /\ killed' = [killed EXCEPT ![Arg(c)] = TRUE]
    /\ state' = [state EXCEPT ![Arg(c)] = IF @ \in Chan THEN "RUNNABLE" ELSE @]
    /\ Done(c)
    /\ UNCHANGED <<cpu, thread, lock, ticks, input, kbd, due, panic, events>>

-----------------------------------------------------------------------------
(* trap.c *)

\* The processors that the local and the I/O interrupt controllers send an
\* interrupt to: the timer and spurious ones are their own, the devices go to
\* the first one.
Routed(irq, c) == irq \in {"TIMER", "SPURIOUS"} \/ c = 0

handler(irq, c) ==
    CASE irq = "TIMER"           -> timer(c)
      [] irq \in {"KBD", "COM1"} -> consoleintr(irq)
      [] irq = "SPURIOUS"        -> cprintf

\* trap() for an interrupt, through a gate that turns interrupts off.
interrupt(c, irq) ==
    /\ panic = "none" /\ eflags[c] /\ Routed(irq, c) /\ Event("interrupt")
    /\ eflags' = [eflags EXCEPT ![c] = FALSE]
    /\ LET exits == IF InUser(c) THEN <<<<"exits">>>> ELSE <<>>
           gives == IF irq = "TIMER" THEN yield ELSE <<>>
       IN Continue(c, handler(irq, c)
                      \o (IF thread[c] = None THEN <<>> ELSE exits \o gives \o exits)
                      \o <<<<"iret">>>> \o Todo(c))
    /\ UNCHANGED <<ncli, intena, thread, lock, state, killed, ticks, input, kbd, due, panic>>

\* trap() for a system call, through a gate that leaves interrupts on.
trap(c) ==
    /\ panic = "none" /\ InUser(c) /\ Event("call")
    /\ \E call \in work.calls[thread[c]] :
           Continue(c, IF killed[thread[c]] THEN exit
                       ELSE syscall(call) \o <<<<"exits">>, <<"ret">>>>)
    /\ UNCHANGED <<cpu, thread, lock, state, killed, ticks, input, kbd, due, panic>>

exits(c) ==
    /\ Is(c, "exits")
    /\ IF killed[thread[c]] THEN Continue(c, exit) ELSE Done(c)
    /\ UNCHANGED <<cpu, thread, lock, state, killed, ticks, input, kbd, due, panic, events>>

\* Back to what the processor was doing when it took the interrupt or the call,
\* with interrupts on as they were then.
iret(c) ==
    /\ Is(c, "iret") \/ Is(c, "ret") \/ Is(c, "trapret")
    /\ eflags' = [eflags EXCEPT ![c] = TRUE] /\ Done(c)
    /\ UNCHANGED <<ncli, intena, thread, lock, state, killed, ticks, input, kbd, due, panic, events>>

-----------------------------------------------------------------------------
(* The clock: trap.c and sys_sleep() *)

tick(c) ==
    /\ Is(c, "tick") /\ ticks' = (ticks + 1) % UINT
    /\ due' = [t \in Thread |-> IF due[t] > 0 THEN due[t] - 1 ELSE 0]
    /\ Done(c)
    /\ UNCHANGED <<cpu, thread, lock, state, killed, input, kbd, panic, events>>

ticks0(c) ==
    /\ Is(c, "ticks0")
    /\ due' = [due EXCEPT ![thread[c]] = Arg(c)]
    /\ Continue(c, <<<<"until", Arg(c), ticks>>>> \o Tail(Todo(c)))
    /\ UNCHANGED <<cpu, thread, lock, state, killed, ticks, input, kbd, panic, events>>

\* Mutant: the deadline is computed, and compared, as a uint.
TooEarlyAbsolute(n, from) == ticks < (from + n) % UINT

\* ticks - ticks0 < n on uints.
TooEarly(n, from) == (ticks - from) % UINT < n

\* The loop of sys_sleep().
until(c) ==
    /\ Is(c, "until")
    /\ IF TooEarly(Arg(c), Todo(c)[1][3]) /\ ~killed[thread[c]]
       THEN Continue(c, sleep("&ticks", "tickslock") \o Todo(c)) /\ UNCHANGED due
       ELSE Done(c) /\ due' = [due EXCEPT ![thread[c]] = 0]
    /\ UNCHANGED <<cpu, thread, lock, state, killed, ticks, input, kbd, panic, events>>

-----------------------------------------------------------------------------
(* kbd.c: a byte is a key that goes down or up, or the prefix of one that is on
   the keyboard twice, and then has the byte of the other one.  A letter or caps
   lock that goes up changes nothing, and is left out. *)

E0 == [code |-> "E0", up |-> FALSE]
byte(key) == [code |-> IF key \in {"lctl", "rctl"} THEN "ctl" ELSE key, up |-> key \in kbd.down]

\* The tables, by the byte and whether it came with a prefix; both control keys
\* have the same entry.
shiftcode(data, esc)  == IF data.code = "ctl" THEN {"CTL"} ELSE {}
togglecode(data, esc) == IF data.code = "caps" /\ ~esc THEN {"CAPSLOCK"} ELSE {}
charcode(shift, data, esc) ==
    CASE data.code # "h" \/ esc -> "0"
      [] "CTL" \in shift        -> "^H"
      [] "CAPSLOCK" \in shift   -> "H"
      [] OTHER                  -> "h"

\* A key goes down: the new shift, and the character.
Pressed(shift, data) ==
    LET esc == "E0ESC" \in shift
        pressed == (shift \ {"E0ESC"}) \cup shiftcode(data, esc)
        toggled == (pressed \ togglecode(data, esc)) \cup (togglecode(data, esc) \ pressed)
    IN [shift |-> toggled, c |-> charcode(toggled, data, esc)]

\* Mutant: a key that sends a prefix is not recognised when it goes up.
IgnoresE0(shift, data) ==
    CASE data = E0 -> [shift |-> shift \cup {"E0ESC"}, c |-> "0"]
      [] data.up   -> [shift |-> IF "E0ESC" \in shift THEN shift \ {"E0ESC"}
                                 ELSE shift \ shiftcode(data, FALSE), c |-> "0"]
      [] OTHER     -> Pressed(shift, data)

kbdgetc(shift, data) ==
    CASE data = E0 -> [shift |-> shift \cup {"E0ESC"}, c |-> "0"]
      [] data.up   -> [shift |-> shift \ (shiftcode(data, "E0ESC" \in shift) \cup {"E0ESC"}), c |-> "0"]
      [] OTHER     -> Pressed(shift, data)

-----------------------------------------------------------------------------
(* console.c *)

Plus(n, k) == (n + k) % UINT
At(n) == input.buf[n % INPUT_BUF]

\* The characters from one index to another.
Chars(from, to) == [i \in 1..((to - from) % UINT) |-> At(Plus(from, i - 1))]

Erase == IF input.e # input.w THEN Plus(input.e, -1) ELSE input.e

\* ^U takes back the line up to a newline.
KillLine ==
    LET line == Chars(input.w, input.e)
    IN CHOOSE n \in {Plus(input.w, i) : i \in 0..Len(line)} :
           /\ n = input.w \/ At(Plus(n, -1)) = "\n"
           /\ "\n" \notin {At(Plus(n, i)) : i \in 0..((input.e - n) % UINT) - 1}

\* A character that is to be put into the buffer, if there is room.
store(k) ==
    LET ch  == IF k = "\r" THEN "\n" ELSE k
        buf == [input.buf EXCEPT ![input.e % INPUT_BUF] = ch]
        e   == Plus(input.e, 1)
    IN [input EXCEPT !.buf = buf, !.e = e,
            !.w = IF ch \in {"\n", "^D"} \/ e = Plus(input.r, INPUT_BUF) THEN e ELSE @]

\* Mutant: one character too many.
RoomForOneMore == (input.e - input.r) % UINT <= INPUT_BUF

Room == (input.e - input.r) % UINT < INPUT_BUF

\* What consoleintr() does with what getc() returns.
typed(c, k) ==
    /\ input' = CASE k = "^H" -> [input EXCEPT !.e = Erase]
                  [] k = "^U" -> [input EXCEPT !.e = KillLine]
                  [] k \notin {"^H", "^U", "^P", "0"} /\ Room -> store(k)
                  [] OTHER -> input
    /\ Continue(c, (CASE k = "^P" -> procdump
                      [] input'.w # input.w -> wakeup("&input.r")
                      [] OTHER -> <<>>) \o Todo(c))

\* A character has come over the serial line.
uartgetc(c) ==
    /\ Arg(c) = "COM1" /\ Event("key")
    /\ \E k \in work.chars : typed(c, k)
    /\ UNCHANGED kbd

\* A byte has come from the keyboard: the prefix of the second control key, or a
\* key that goes down or up.  The interrupt may end between the two.
press(c) ==
    /\ Arg(c) = "KBD" /\ Event("key")
    /\ \E key \in work.keys :
        /\ kbd.sent \in {None, key}
        /\ LET prefix == key = "rctl" /\ kbd.sent = None
               got    == kbdgetc(kbd.shift, IF prefix THEN E0 ELSE byte(key))
               moved  == IF prefix \/ key \notin {"lctl", "rctl"} THEN {} ELSE {key}
           IN /\ typed(c, got.c)
              /\ kbd' = [shift |-> got.shift, down |-> (kbd.down \ moved) \cup (moved \ kbd.down),
                         sent |-> IF prefix THEN key ELSE None]

\* consoleintr(): the loop over what getc() returns, until it is -1.
getc(c) ==
    /\ Is(c, "getc")
    /\ (Done(c) /\ UNCHANGED <<input, kbd, events>>) \/ uartgetc(c) \/ press(c)
    /\ UNCHANGED <<cpu, thread, lock, state, killed, ticks, due, panic>>

\* consoleread(): one round of its loop, with n characters of target to go.
read(c) ==
    /\ Is(c, "read")
    /\ LET n == Arg(c)
           target == Todo(c)[1][3]
           empty == input.r = input.w
           ch == At(input.r)
       IN /\ Continue(c, CASE n = 0 \/ (empty /\ killed[thread[c]]) -> Tail(Todo(c))
                           [] n > 0 /\ empty /\ ~killed[thread[c]] ->
                                  sleep("&input.r", "input") \o Todo(c)
                           [] n > 0 /\ ~empty /\ ch \in {"^D", "\n"} -> Tail(Todo(c))
                           [] OTHER -> <<<<"read", n - 1, target>>>> \o Tail(Todo(c)))
          /\ input' = IF n = 0 \/ empty \/ (ch = "^D" /\ n < target)
                      THEN input ELSE [input EXCEPT !.r = Plus(@, 1)]
    /\ UNCHANGED <<cpu, thread, lock, state, killed, ticks, kbd, due, panic, events>>

-----------------------------------------------------------------------------
Next ==
    /\ UNCHANGED work
    /\ \E c \in CPU :
        \/ lock_or_spin(c) \/ xchg(c) \/ unlock(c)
        \/ sti(c) \/ scan(c) \/ sched(c) \/ wakeup1(c) \/ kill(c)
        \/ \E irq \in {"TIMER", "KBD", "COM1", "SPURIOUS"} : interrupt(c, irq)
        \/ trap(c) \/ exits(c) \/ iret(c)
        \/ tick(c) \/ ticks0(c) \/ until(c)
        \/ getc(c) \/ read(c)

Spec == Init /\ [][Next]_vars

-----------------------------------------------------------------------------
Spinning(c) == Is(c, "xchg")

\* pushcli() and popcli() nest: the interrupts of a processor are off while it
\* holds or waits for a lock, ncli counts those locks, also across the swtch()
\* in which ptable.lock passes from a thread to a scheduler.
MaskedWhileLocked ==
    \A c \in CPU :
        LET held == {lk \in Lock : lock[lk] = c} IN
        /\ ncli[c] = Cardinality(held) + (IF Spinning(c) THEN 1 ELSE 0)
        /\ ncli[c] > 0 => ~eflags[c]

\* None of the panics of acquire(), release(), popcli() and sched() happens: no
\* handler takes a lock that its processor holds, no lock is released by another
\* processor, and a thread that gives up the processor holds ptable.lock alone.
Asserted == panic = "none"

InHandler(c) == \E i \in 1..Len(Todo(c)) : Todo(c)[i] = <<"iret">>

\* intena travels with the thread through sched(): a system call returns to user
\* mode with interrupts on, on whatever processor, and a handler that has yielded
\* runs with interrupts off to its end, so that interrupts do not pile up on a
\* kernel stack.
MaskRestored ==
    \A c \in CPU :
        /\ Is(c, "ret") => eflags[c] /\ ncli[c] = 0
        /\ InHandler(c) => ~eflags[c]

\* Processors that spin do not wait for each other: ptable.lock is taken inside
\* input.lock and tickslock and never the other way round, and ^P takes cons.lock
\* inside input.lock.
NoSpinCycle ==
    \A S \in SUBSET CPU \ {{}} :
        ~\A c \in S : Spinning(c) /\ lock[Arg(c)] \in S

\* No wakeup is lost between the test of a condition under its own lock and the
\* sleep(): whoever sleeps on the console or on the clock while nobody is inside
\* has nothing to read, or has not slept for long enough.
SleepersWait ==
    \A t \in Thread :
        /\ state[t] = "&input.r" /\ lock["input"] = None => input.r = input.w
        /\ state[t] = "&ticks" /\ lock["tickslock"] = None => due[t] > 0

\* sys_sleep(n) returns 0 only after n ticks, also when ticks wraps in between.
SleptEnough ==
    [][\A c \in CPU :
           until(c) /\ code'[thread[c]] = Tail(Todo(c)) /\ ~killed[thread[c]]
               => due[thread[c]] = 0]_vars

\* kbdgetc() does not leave a modifier behind: when both control keys are up no
\* letter is taken for a control character, in whatever order they went down and
\* came up, and whichever byte an interrupt ended with.
ModifiersReleased == kbd.down = {} => "CTL" \notin kbd.shift

\* The ring of consoleintr() and consoleread(), with its three indices that wrap,
\* is a terminal: ^H and ^U take back only what no reader can have, no character
\* is overwritten before it has been read, and a ^D that is put back is read again.
Line == INSTANCE Terminal WITH Char <- {"x", "h", "H", "\n", "^D"},
                               Ends <- {"\n", "^D"}, Size <- INPUT_BUF,
                               ready <- Chars(input.r, input.w),
                               line <- Chars(input.w, input.e)
IsTerminal == Line!Spec
=============================================================================
