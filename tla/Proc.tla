-------------------------------- MODULE Proc --------------------------------
(***************************************************************************)
(* Processes on CPUs: the per-CPU scheduler, sleep and wakeup, kill, fork, *)
(* exit and wait, the timer interrupt and sys_sleep.                       *)
(*                                                                         *)
(* The unit of interleaving is what a CPU does between two points where    *)
(* another CPU, or an interrupt on this one, can get in: a critical        *)
(* section that ends with the lock released is one action, a lock that is  *)
(* handed over in swtch stays held over several.                           *)
(***************************************************************************)
EXTENDS Integers, FiniteSets

CONSTANTS
  NPROC,     \* slots of the process table
  NCPU,      \* processors; timer interrupts on the first count the ticks
  TICKS,     \* the tick counter wraps here
  SleepArgs  \* arguments of sys_sleep

Procs == 1..NPROC
CPUs == 1..NCPU
NONE == 0
initproc == 1
TicksChan == NPROC + 1        \* the channel &ticks; a process is its own channel
Stacks == Procs \cup {-c : c \in CPUs}    \* kernel stacks; -c is the scheduler's

ASSUME ProcAssumption ==
  /\ NPROC \in Nat \ {0} /\ NCPU \in Nat \ {0} /\ TICKS \in Nat \ {0}
  /\ SleepArgs \subseteq 0..(TICKS - 1)

VARIABLES
  state, pid, killed, parent, chan,  \* fields of struct proc; a slot's pid is
                                     \* its number, 0 after it was reaped
  pc,        \* where a process is in the kernel, or "user"
  arg,       \* its local: the new process of fork, the deadline of sys_sleep
  intr,      \* the interrupt handler on top of a kernel stack, or "none"
  sintena,   \* the intena sched saved on a process's stack
  cur,       \* the process a CPU runs, NONE in the scheduler
  scan,      \* the scheduler's place in the table, 0 when it has no lock
  cli,       \* interrupt flag, ncli and intena of each CPU
  ptlock,    \* the CPU that holds ptable.lock
  tickslock, \* the CPU that holds tickslock
  ticks

vars == <<state, pid, killed, parent, chan, pc, arg, intr, sintena, cur, scan,
          cli, ptlock, tickslock, ticks>>
table == <<state, pid, killed, parent, chan>>

Cli(on, n, was) == [iflag |-> on, ncli |-> n, intena |-> was]

pushcli(r) == Cli(FALSE, r.ncli + 1, IF r.ncli = 0 THEN r.iflag ELSE r.intena)

(* intena is dead, and forgotten here, once ncli is 0.                     *)
popcli(r) == Cli(r.ncli = 1 /\ r.intena, r.ncli - 1, r.ncli > 1 /\ r.intena)

(* The instruction, or an iret to where interrupts were on.                *)
sti(r) == Cli(TRUE, r.ncli, r.intena)

(* main and userinit: init is runnable, no CPU has taken it yet.           *)
Init ==
  /\ state = [p \in Procs |-> IF p = initproc THEN "RUNNABLE" ELSE "UNUSED"]
  /\ pid = [p \in Procs |-> IF p = initproc THEN p ELSE 0]
  /\ killed = [p \in Procs |-> FALSE]
  /\ parent = [p \in Procs |-> NONE]
  /\ chan = [p \in Procs |-> NONE]
  /\ pc = [p \in Procs |-> "forkret"]
  /\ arg = [p \in Procs |-> 0]
  /\ intr = [x \in Stacks |-> "none"]
  /\ sintena = [p \in Procs |-> FALSE]
  /\ cur = [c \in CPUs |-> NONE]
  /\ scan = [c \in CPUs |-> 0]
  /\ cli = [c \in CPUs |-> Cli(TRUE, 0, FALSE)]
  /\ ptlock = NONE /\ tickslock = NONE
  /\ ticks = 0

Stack(c) == IF cur[c] = NONE THEN -c ELSE cur[c]
At(c, p, where) ==
  cur[c] = p /\ state[p] = "RUNNING" /\ intr[p] = "none" /\ pc[p] = where
Goto(p, where) == pc' = [pc EXCEPT ![p] = where]
Push(c) == cli' = [cli EXCEPT ![c] = pushcli(@)]
Pop(c) == cli' = [cli EXCEPT ![c] = popcli(@)]

(* The table with every sleeper on a channel of C made runnable.           *)
wakeup1(C) == [q \in Procs |-> IF state[q] = "SLEEPING" /\ chan[q] \in C
                                 THEN "RUNNABLE" ELSE state[q]]

----------------------------------------------------------------------------
(* scheduler, sched, yield and forkret.                                    *)

schedLock(c) ==
  /\ cur[c] = NONE /\ scan[c] = 0 /\ intr[-c] = "none" /\ ptlock = NONE
  /\ ptlock' = c /\ scan' = [scan EXCEPT ![c] = 1]
  /\ Push(c)
  /\ UNCHANGED <<table, pc, arg, intr, sintena, cur, tickslock, ticks>>

(* swtch to the next runnable process; the second half of sched, if that   *)
(* is where it left, restores the intena it saved.                         *)
schedPick(c) ==
  \E p \in Procs :
    /\ cur[c] = NONE /\ scan[c] \in 1..p
    /\ state[p] = "RUNNABLE" /\ \A q \in scan[c]..(p - 1) : state[q] # "RUNNABLE"
    /\ state' = [state EXCEPT ![p] = "RUNNING"]
    /\ cur' = [cur EXCEPT ![c] = p]
    /\ scan' = [scan EXCEPT ![c] = p + 1]
    /\ cli' = [cli EXCEPT ![c].intena = IF pc[p] = "forkret" THEN @ ELSE sintena[p]]
    /\ sintena' = [sintena EXCEPT ![p] = FALSE]
    /\ UNCHANGED <<pid, killed, parent, chan, pc, arg, intr, ptlock, tickslock, ticks>>

schedDone(c) ==
  /\ cur[c] = NONE /\ scan[c] # 0
  /\ \A q \in Procs : q >= scan[c] => state[q] # "RUNNABLE"
  /\ ptlock' = NONE /\ scan' = [scan EXCEPT ![c] = 0]
  /\ cli' = [cli EXCEPT ![c] = sti(popcli(@))]   \* the loop's sti
  /\ UNCHANGED <<table, pc, arg, intr, sintena, cur, tickslock, ticks>>

schedForgets(c) ==    \* mutated: intena is not saved
  \E p \in Procs :
    /\ cur[c] = p /\ state[p] # "RUNNING"
    /\ sintena' = [sintena EXCEPT ![p] = TRUE]
    /\ cur' = [cur EXCEPT ![c] = NONE]
    /\ UNCHANGED <<table, pc, arg, intr, scan, cli, ptlock, tickslock, ticks>>

(* swtch back to the scheduler.  A process that has given up RUNNING does  *)
(* this next, and holds ptable.lock.                                       *)
sched(c) ==
  \E p \in Procs :
    /\ cur[c] = p /\ state[p] # "RUNNING"
    /\ sintena' = [sintena EXCEPT ![p] = cli[c].intena]
    /\ cur' = [cur EXCEPT ![c] = NONE]
    /\ UNCHANGED <<table, pc, arg, intr, scan, cli, ptlock, tickslock, ticks>>

forkret(c) ==
  \E p \in Procs :
    /\ At(c, p, "forkret")
    /\ ptlock' = NONE /\ Goto(p, "user")
    /\ cli' = [cli EXCEPT ![c] = sti(popcli(@))]   \* iret to user mode
    /\ UNCHANGED <<table, arg, intr, sintena, cur, scan, tickslock, ticks>>

----------------------------------------------------------------------------
(* Entering and leaving the kernel: trap and its checks of killed.  System *)
(* calls run with interrupts on (T_SYSCALL is a trap gate).                *)

killedInUser(c) ==
  \E p \in Procs :
    /\ At(c, p, "user") /\ killed[p]
    /\ Goto(p, "exit")
    /\ UNCHANGED <<table, arg, intr, sintena, cur, scan, cli, ptlock, tickslock, ticks>>

(* A trap nobody expects, from user space, kills the process.              *)
fault(c) ==
  \E p \in Procs \ {initproc} :
    /\ At(c, p, "user") /\ ~killed[p]
    /\ killed' = [killed EXCEPT ![p] = TRUE] /\ Goto(p, "exit")
    /\ UNCHANGED <<state, pid, parent, chan, arg, intr, sintena, cur, scan, cli,
                   ptlock, tickslock, ticks>>

trapret(c) ==
  \E p \in Procs :
    /\ At(c, p, "ret")
    /\ Goto(p, IF killed[p] THEN "exit" ELSE "user")
    /\ UNCHANGED <<table, arg, intr, sintena, cur, scan, cli, ptlock, tickslock, ticks>>

(* init only forks and waits, as user/init.c does.                         *)
Syscall(c, p) == At(c, p, "user") /\ ~killed[p]

----------------------------------------------------------------------------
(* fork, kill, exit and wait.                                              *)

allocproc(c) ==
  \E p, np \in Procs :
    /\ Syscall(c, p) /\ ptlock = NONE
    /\ state[np] = "UNUSED" /\ \A q \in 1..(np - 1) : state[q] # "UNUSED"
    /\ state' = [state EXCEPT ![np] = "EMBRYO"]
    /\ pid' = [pid EXCEPT ![np] = np]
    /\ Goto(p, "fork") /\ arg' = [arg EXCEPT ![p] = np]
    /\ UNCHANGED <<killed, parent, chan, intr, sintena, cur, scan, cli, ptlock, tickslock, ticks>>

(* No memory for the kernel stack or for copyuvm: the slot is given back   *)
(* without the lock, and keeps its pid.                                    *)
forkFails(c) ==
  \E p \in Procs :
    /\ At(c, p, "fork")
    /\ state' = [state EXCEPT ![arg[p]] = "UNUSED"]
    /\ Goto(p, "ret") /\ arg' = [arg EXCEPT ![p] = 0]
    /\ UNCHANGED <<pid, killed, parent, chan, intr, sintena, cur, scan, cli, ptlock,
                   tickslock, ticks>>

fork(c) ==
  \E p \in Procs :
    /\ At(c, p, "fork") /\ ptlock = NONE
    /\ state' = [state EXCEPT ![arg[p]] = "RUNNABLE"]
    /\ parent' = [parent EXCEPT ![arg[p]] = p]
    /\ pc' = [pc EXCEPT ![p] = "ret", ![arg[p]] = "forkret"]
    /\ arg' = [arg EXCEPT ![p] = 0]
    /\ UNCHANGED <<pid, killed, chan, intr, sintena, cur, scan, cli, ptlock, tickslock, ticks>>

(* The first slot with the pid, whatever its state: kill(0) finds a slot   *)
(* that holds no process.  Killing init ends in its panic and is left out. *)
kill(c) ==
  \E p, q \in Procs \ {initproc} :
    /\ Syscall(c, p) /\ ptlock = NONE
    /\ \A r \in 1..(q - 1) : pid[r] # pid[q]
    /\ killed' = [killed EXCEPT ![q] = TRUE]
    /\ state' = [state EXCEPT ![q] = IF @ = "SLEEPING" THEN "RUNNABLE" ELSE @]
    /\ Goto(p, "ret")
    /\ UNCHANGED <<pid, parent, chan, arg, intr, sintena, cur, scan, cli, ptlock,
                   tickslock, ticks>>

exitEarly(c) ==     \* mutated: the zombie is published before the lock is taken
  \E p \in Procs \ {initproc} :
    /\ At(c, p, "exit") /\ ptlock = NONE
    /\ LET kids == {q \in Procs : parent[q] = p}
           woken == {parent[p]} \cup {initproc : q \in {k \in kids : state[k] = "ZOMBIE"}}
       IN  /\ parent' = [q \in Procs |-> IF q \in kids THEN initproc ELSE parent[q]]
           /\ state' = [wakeup1(woken) EXCEPT ![p] = "ZOMBIE"]
    /\ UNCHANGED <<pid, killed, chan, pc, arg, intr, sintena, cur, scan, cli, ptlock,
                   tickslock, ticks>>

exitOrphans(c) ==   \* mutated: the children keep their parent
  \E p \in Procs \ {initproc} :
    /\ At(c, p, "exit") /\ ptlock = NONE
    /\ ptlock' = c /\ Push(c)
    /\ state' = [wakeup1({parent[p]}) EXCEPT ![p] = "ZOMBIE"]
    /\ UNCHANGED <<pid, killed, parent, chan, pc, arg, intr, sintena, cur, scan, tickslock, ticks>>

(* exit after the files are closed: wakes the parent, gives the children   *)
(* to init, becomes a zombie and enters sched with the lock held.          *)
exit(c) ==
  \E p \in Procs \ {initproc} :
    /\ At(c, p, "exit") /\ ptlock = NONE
    /\ ptlock' = c /\ Push(c)
    /\ LET kids == {q \in Procs : parent[q] = p}
           woken == {parent[p]} \cup {initproc : q \in {k \in kids : state[k] = "ZOMBIE"}}
       IN  /\ parent' = [q \in Procs |-> IF q \in kids THEN initproc ELSE parent[q]]
           /\ state' = [wakeup1(woken) EXCEPT ![p] = "ZOMBIE"]
    /\ UNCHANGED <<pid, killed, chan, pc, arg, intr, sintena, cur, scan, tickslock, ticks>>

exitCall(c) ==
  \E p \in Procs \ {initproc} :
    /\ Syscall(c, p)
    /\ Goto(p, "exit")
    /\ UNCHANGED <<table, arg, intr, sintena, cur, scan, cli, ptlock, tickslock, ticks>>

wait(c) ==
  \E p \in Procs :
    /\ Syscall(c, p) /\ ptlock = NONE
    /\ ptlock' = c /\ Push(c) /\ Goto(p, "wait")
    /\ UNCHANGED <<table, arg, intr, sintena, cur, scan, tickslock, ticks>>

KidsAll(p) == {q \in Procs \ {p} : state[q] # "UNUSED"}     \* mutated: anybody's children

Kids(p) == {q \in Procs : parent[q] = p}
Zombies(p) == {q \in Kids(p) : state[q] = "ZOMBIE"}

(* One scan of the table, ptable.lock held: reap the first zombie child.   *)
waitReap(c) ==
  \E p, q \in Procs :
    /\ At(c, p, "wait")
    /\ q \in Zombies(p) /\ \A r \in Zombies(p) : q <= r
    /\ state' = [state EXCEPT ![q] = "UNUSED"]
    /\ pid' = [pid EXCEPT ![q] = 0]
    /\ parent' = [parent EXCEPT ![q] = NONE]
    /\ killed' = [killed EXCEPT ![q] = FALSE]
    /\ chan' = [chan EXCEPT ![p] = NONE]     \* the end of sleep, if it slept
    /\ ptlock' = NONE /\ Pop(c) /\ pc' = [pc EXCEPT ![p] = "ret", ![q] = "forkret"]
    /\ sintena' = [sintena EXCEPT ![q] = FALSE]
    /\ UNCHANGED <<arg, intr, cur, scan, tickslock, ticks>>

waitNothing(c) ==
  \E p \in Procs :
    /\ At(c, p, "wait") /\ Zombies(p) = {}
    /\ Kids(p) = {} \/ killed[p]
    /\ chan' = [chan EXCEPT ![p] = NONE]
    /\ ptlock' = NONE /\ Pop(c) /\ Goto(p, "ret")
    /\ UNCHANGED <<state, pid, killed, parent, arg, intr, sintena, cur, scan, tickslock, ticks>>

waitSleepUnchecked(c) ==     \* mutated: killed is not looked at
  \E p \in Procs :
    /\ At(c, p, "wait") /\ Zombies(p) = {} /\ Kids(p) # {}
    /\ chan' = [chan EXCEPT ![p] = p]
    /\ state' = [state EXCEPT ![p] = "SLEEPING"]
    /\ UNCHANGED <<pid, killed, parent, pc, arg, intr, sintena, cur, scan, cli, ptlock,
                   tickslock, ticks>>

waitSleep(c) ==
  \E p \in Procs :
    /\ At(c, p, "wait") /\ Zombies(p) = {} /\ Kids(p) # {} /\ ~killed[p]
    /\ chan' = [chan EXCEPT ![p] = p]
    /\ state' = [state EXCEPT ![p] = "SLEEPING"]
    /\ UNCHANGED <<pid, killed, parent, pc, arg, intr, sintena, cur, scan, cli, ptlock,
                   tickslock, ticks>>

----------------------------------------------------------------------------
(* sys_sleep, and sleep(&ticks, &tickslock) step by step.                  *)

sleepCall(c) ==
  \E p \in Procs \ {initproc}, n \in SleepArgs :
    /\ Syscall(c, p) /\ tickslock = NONE
    /\ tickslock' = c /\ Push(c) /\ Goto(p, "sleep")
    /\ arg' = [arg EXCEPT ![p] = <<ticks, n>>]
    /\ UNCHANGED <<table, intr, sintena, cur, scan, ptlock, ticks>>

Elapsed(p) == (ticks - arg[p][1]) % TICKS
Early(p) == Elapsed(p) < arg[p][2]

sleepDone(c) ==
  \E p \in Procs :
    /\ At(c, p, "sleep") /\ (~Early(p) \/ killed[p])
    /\ tickslock' = NONE /\ Pop(c) /\ Goto(p, "ret") /\ arg' = [arg EXCEPT ![p] = 0]
    /\ UNCHANGED <<table, intr, sintena, cur, scan, ptlock, ticks>>

(* sleep takes ptable.lock before it lets go of lk.                        *)
sleepLock(c) ==
  \E p \in Procs :
    /\ At(c, p, "sleep") /\ Early(p) /\ ~killed[p] /\ ptlock = NONE
    /\ ptlock' = c /\ Push(c) /\ Goto(p, "sleepLocked")
    /\ UNCHANGED <<table, arg, intr, sintena, cur, scan, tickslock, ticks>>

sleepSleep(c) ==
  \E p \in Procs :
    /\ At(c, p, "sleepLocked")
    /\ tickslock' = NONE /\ Pop(c)
    /\ chan' = [chan EXCEPT ![p] = TicksChan]
    /\ state' = [state EXCEPT ![p] = "SLEEPING"]
    /\ Goto(p, "slept")
    /\ UNCHANGED <<pid, killed, parent, arg, intr, sintena, cur, scan, ptlock, ticks>>

sleepWoken(c) ==
  \E p \in Procs :
    /\ At(c, p, "slept")
    /\ chan' = [chan EXCEPT ![p] = NONE]
    /\ ptlock' = NONE /\ Pop(c) /\ Goto(p, "relock")
    /\ UNCHANGED <<state, pid, killed, parent, arg, intr, sintena, cur, scan, tickslock, ticks>>

sleepRelock(c) ==
  \E p \in Procs :
    /\ At(c, p, "relock") /\ tickslock = NONE
    /\ tickslock' = c /\ Push(c) /\ Goto(p, "sleep")
    /\ UNCHANGED <<table, arg, intr, sintena, cur, scan, ptlock, ticks>>

----------------------------------------------------------------------------
(* The timer interrupt.  The gate turns interrupts off; iret restores the  *)
(* flag, which was on or there would have been no interrupt.               *)

Handler(c, where) == intr[Stack(c)] = where
Handle(c, where) == intr' = [intr EXCEPT ![Stack(c)] = where]

timer(c) ==
  /\ cli[c].iflag /\ Handler(c, "none")
  /\ Handle(c, IF c = 1 THEN "tick" ELSE "end")
  /\ cli' = [cli EXCEPT ![c].iflag = FALSE]
  /\ UNCHANGED <<table, pc, arg, sintena, cur, scan, ptlock, tickslock, ticks>>

tick(c) ==
  /\ Handler(c, "tick") /\ tickslock = NONE
  /\ tickslock' = c /\ Push(c)
  /\ ticks' = (ticks + 1) % TICKS /\ Handle(c, "wakeup")
  /\ UNCHANGED <<table, pc, arg, sintena, cur, scan, ptlock>>

tickWakeup(c) ==
  /\ Handler(c, "wakeup") /\ ptlock = NONE
  /\ state' = wakeup1({TicksChan})
  /\ tickslock' = NONE /\ Pop(c) /\ Handle(c, "end")
  /\ UNCHANGED <<pid, killed, parent, chan, pc, arg, sintena, cur, scan, ptlock, ticks>>

InUser(x) == x \in Procs /\ pc[x] = "user"

(* trap line 98 or 108: a killed process does not return to user space.    *)
tickExit(c) ==
  \E p \in Procs :
    /\ cur[c] = p /\ intr[p] \in {"end", "iret"} /\ InUser(p) /\ killed[p]
    /\ Goto(p, "exit") /\ Handle(c, "none")
    /\ UNCHANGED <<table, arg, sintena, cur, scan, cli, ptlock, tickslock, ticks>>

yield(c) ==
  \E p \in Procs :
    /\ cur[c] = p /\ intr[p] = "end" /\ ptlock = NONE
    /\ InUser(p) => ~killed[p]
    /\ ptlock' = c /\ Push(c)
    /\ state' = [state EXCEPT ![p] = "RUNNABLE"] /\ Handle(c, "yielded")
    /\ UNCHANGED <<pid, killed, parent, chan, pc, arg, sintena, cur, scan, tickslock, ticks>>

yielded(c) ==
  \E p \in Procs :
    /\ cur[c] = p /\ state[p] = "RUNNING" /\ intr[p] = "yielded"
    /\ ptlock' = NONE /\ Pop(c) /\ Handle(c, "iret")
    /\ UNCHANGED <<table, pc, arg, sintena, cur, scan, tickslock, ticks>>

iret(c) ==
  /\ Handler(c, "iret") \/ (cur[c] = NONE /\ Handler(c, "end"))
  /\ InUser(Stack(c)) => ~killed[Stack(c)]
  /\ Handle(c, "none") /\ cli' = [cli EXCEPT ![c].iflag = TRUE]
  /\ UNCHANGED <<table, pc, arg, sintena, cur, scan, ptlock, tickslock, ticks>>

----------------------------------------------------------------------------
Next ==
  \E c \in CPUs :
    \/ schedLock(c) \/ schedPick(c) \/ schedDone(c) \/ sched(c) \/ forkret(c)
    \/ killedInUser(c) \/ fault(c) \/ trapret(c)
    \/ allocproc(c) \/ forkFails(c) \/ fork(c) \/ kill(c)
    \/ exitCall(c) \/ exit(c) \/ wait(c) \/ waitReap(c) \/ waitNothing(c) \/ waitSleep(c)
    \/ sleepCall(c) \/ sleepDone(c) \/ sleepLock(c) \/ sleepSleep(c) \/ sleepWoken(c)
    \/ sleepRelock(c)
    \/ timer(c) \/ tick(c) \/ tickWakeup(c) \/ tickExit(c) \/ yield(c) \/ yielded(c) \/ iret(c)

Spec == Init /\ [][Next]_vars

----------------------------------------------------------------------------
(* A kernel stack is used by one CPU at a time, and only while its process *)
(* has one: a process that is no longer RUNNING is still on its stack      *)
(* until swtch, and until then its CPU holds ptable.lock, so that neither  *)
(* another scheduler picks it up nor wait frees it (proc.c:292, 376).      *)
StackSafe ==
  \A c \in CPUs : cur[c] # NONE =>
    /\ state[cur[c]] \notin {"UNUSED", "EMBRYO"}
    /\ state[cur[c]] # "RUNNING" => ptlock = c
    /\ \A d \in CPUs \ {c} : cur[d] # cur[c]

(* No wakeup is lost.  While ptable.lock is free, a process asleep in wait *)
(* has a child to wait for, none of them is a zombie yet and nobody killed *)
(* it; and, unless the tick that ends its sleep is being counted, a        *)
(* process asleep in sys_sleep has ticks left to wait for (proc.c:455).    *)
NoLostWakeup ==
  ptlock = NONE => \A p \in Procs : state[p] = "SLEEPING" =>
    \/ chan[p] = p /\ Kids(p) # {} /\ Zombies(p) = {} /\ ~killed[p]
    \/ chan[p] = TicksChan /\ (tickslock = NONE => Early(p))

(* Interrupts.  A CPU that holds a spin lock takes no interrupt, ncli      *)
(* counts the locks it holds (so sched never panics), a handler is never   *)
(* interrupted, and user code always can be (spinlock.c:104, proc.c:405).  *)
InterruptsOff ==
  \A c \in CPUs :
    LET held == (IF ptlock = c THEN 1 ELSE 0) + (IF tickslock = c THEN 1 ELSE 0)
    IN  /\ cli[c].ncli = held
        /\ held > 0 \/ ~Handler(c, "none") => ~cli[c].iflag
        /\ cur[c] # NONE /\ state[cur[c]] # "RUNNING" => ptlock = c /\ held = 1
        /\ InUser(Stack(c)) /\ Handler(c, "none") => cli[c].iflag

(* Every process that exists has a living parent to reap it, except init   *)
(* and a slot that fork has not finished with (proc.c:282).                *)
Adopted ==
  \A p \in Procs \ {initproc} : state[p] \notin {"UNUSED", "EMBRYO"} =>
    /\ parent[p] # NONE /\ pid[p] # 0
    /\ state[parent[p]] \notin {"UNUSED", "EMBRYO", "ZOMBIE"}

(* What a step may never do to a process: a zombie leaves only by being    *)
(* reaped by its parent, and a process starts to run only on a CPU that    *)
(* holds ptable.lock and was in its scheduler.                             *)
Lifecycle ==
  [][\A p \in Procs :
       /\ state[p] = "ZOMBIE" /\ state'[p] # "ZOMBIE" =>
            /\ state'[p] = "UNUSED" /\ \A c \in CPUs : cur[c] # p
            /\ \E c \in CPUs : cur[c] = parent[p] /\ ptlock = c
       /\ state[p] # "RUNNING" /\ state'[p] = "RUNNING" =>
            /\ state[p] = "RUNNABLE"
            /\ \E c \in CPUs : cur[c] = NONE /\ cur'[c] = p /\ ptlock = c]_vars
=============================================================================
