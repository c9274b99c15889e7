----------------------------- MODULE ProcProofs -----------------------------
(***************************************************************************)
(* The invariant of Proc, for any number of processes and CPUs, its proof  *)
(* and the theorems that follow from it.                                   *)
(*                                                                         *)
(* Every property of Proc rests on the same fact: where a CPU is in the    *)
(* code decides which of the two spin locks it holds, and with that its    *)
(* ncli and its interrupt flag (Locks, Flags). The rest says what a        *)
(* process left behind when it switched away.                              *)
(***************************************************************************)
EXTENDS Proc, TLAPS

(* The values of proc.h's enum procstate, of pc and of intr.               *)
States == {"UNUSED", "EMBRYO", "RUNNABLE", "RUNNING", "SLEEPING", "ZOMBIE"}
Places == {"forkret", "user", "exit", "ret", "fork", "wait", "sleep", "sleepLocked", "slept",
           "relock"}
Handlers == {"none", "tick", "wakeup", "end", "yielded", "iret"}

(* An element of cli.                                                      *)
Flagged == [iflag : BOOLEAN, ncli : Int, intena : BOOLEAN]

(* Type correctness.                                                       *)
PType ==
  /\ state \in [Procs -> States] /\ pid \in [Procs -> Nat] /\ killed \in [Procs -> BOOLEAN]
  /\ parent \in [Procs -> Procs \cup {NONE}]
  /\ DOMAIN arg = Procs
  /\ pc \in [Procs -> Places] /\ intr \in [Stacks -> Handlers] /\ sintena \in [Procs -> BOOLEAN]
  /\ cur \in [CPUs -> Procs \cup {NONE}] /\ scan \in [CPUs -> Nat] /\ chan \in [Procs -> Nat]
  /\ cli \in [CPUs -> Flagged]
  /\ ptlock \in CPUs \cup {NONE} /\ tickslock \in CPUs \cup {NONE}

(* Places with a spin lock held, or reached by swtch.                      *)
Quiet == {"forkret", "wait", "sleep", "sleepLocked", "slept"}

(* Where a process is agrees with its state: a slot that never ran is at   *)
(* forkret, a zombie is at the end of exit, and a sleeper or a runnable    *)
(* process is inside sched.                                                *)
Placed ==
  \A p \in Procs :
    /\ pc[p] \in Quiet => intr[p] = "none"
    /\ state[p] \in {"UNUSED", "EMBRYO"} => pc[p] = "forkret"
    /\ state[p] = "ZOMBIE" => pc[p] = "exit" /\ intr[p] = "none"
    /\ state[p] = "SLEEPING" => pc[p] \in {"wait", "slept"}
    /\ state[p] = "RUNNABLE" => intr[p] = "yielded" \/ pc[p] \in {"forkret", "wait", "slept"}

(* The scheduler's own stack carries a handler only while the scheduler is *)
(* between two passes over the table.                                      *)
Idle ==
  \A c \in CPUs : intr[-c] # "none" =>
    cur[c] = NONE /\ scan[c] = 0 /\ intr[-c] \in {"tick", "wakeup", "end"}

(* A CPU runs a process that exists, in a pass over the table, and no two  *)
(* CPUs run the same one.                                                  *)
Current ==
  \A c \in CPUs : cur[c] # NONE => /\ state[cur[c]] \notin {"UNUSED", "EMBRYO"}
                                   /\ scan[c] # 0
                                   /\ \A d \in CPUs \ {c} : cur[d] # cur[c]

(* A RUNNING process is running somewhere.                                 *)
Running == \A p \in Procs : state[p] = "RUNNING" => \E c \in CPUs : cur[c] = p

(* CPU c is at a place where the code holds ptable.lock: the scheduler's   *)
(* pass, a process that gave up RUNNING, or the far side of swtch.         *)
HoldsPt(c) ==
  IF cur[c] = NONE THEN scan[c] # 0
  ELSE \/ state[cur[c]] # "RUNNING" \/ intr[cur[c]] = "yielded"
       \/ pc[cur[c]] \in {"forkret", "wait", "sleepLocked", "slept"}

(* CPU c is at a place where the code holds tickslock: trap counting a     *)
(* tick, or sys_sleep.                                                     *)
HoldsTk(c) ==
  \/ intr[Stack(c)] = "wakeup"
  \/ cur[c] # NONE /\ pc[cur[c]] \in {"sleep", "sleepLocked"}

(* Each lock is held exactly by the CPU whose place says so.               *)
LocksAt(c) == (ptlock = c <=> HoldsPt(c)) /\ (tickslock = c <=> HoldsTk(c))
Locks == \A c \in CPUs : LocksAt(c)

(* Processes inside fork have claimed different slots, all EMBRYO.         *)
Forking ==
  \A p \in Procs : pc[p] = "fork" =>
    /\ arg[p] \in Procs /\ state[arg[p]] = "EMBRYO"
    /\ \A q \in Procs \ {p} : pc[q] = "fork" => arg[q] # arg[p]

(* The interrupt flags of CPU c: ncli counts its locks, the flag is on     *)
(* exactly when it holds none, runs no handler and is not in exit, and     *)
(* intena remembers whether the flag was on when the first lock was taken. *)
FlagsAt(c) ==
    /\ cli[c].ncli = (IF ptlock = c THEN 1 ELSE 0) + (IF tickslock = c THEN 1 ELSE 0)
    /\ cli[c].iflag => cli[c].ncli = 0 /\ Handler(c, "none")
    /\ cli[c].ncli = 0 /\ Handler(c, "none") /\ (cur[c] # NONE => pc[cur[c]] # "exit") =>
         cli[c].iflag
    /\ cli[c].ncli > 0 /\ ~Handler(c, "none") => ~cli[c].intena
    /\ cli[c].ncli > 0 /\ Handler(c, "none") /\ cur[c] # NONE
         /\ pc[cur[c]] \notin {"forkret", "exit"} => cli[c].intena
Flags == \A c \in CPUs : FlagsAt(c)

(* The intena that sched saved on a stack is what the code there needs: on *)
(* for a system call, off for a handler.                                   *)
Saved ==
  \A p \in Procs :
    state[p] \in {"RUNNABLE", "SLEEPING"} /\ pc[p] # "forkret" /\ (\A c \in CPUs : cur[c] # p) =>
      (sintena[p] <=> intr[p] = "none")

(* Every process but init has a parent that is neither free nor a zombie,  *)
(* and init has none.                                                      *)
Family ==
  /\ \A p \in Procs : state[p] \in {"UNUSED", "EMBRYO"} => parent[p] = NONE
  /\ \A p \in Procs : (state[p] # "UNUSED" => pid[p] # 0) /\ parent[p] # p
  /\ parent[initproc] = NONE /\ state[initproc] \notin {"UNUSED", "EMBRYO", "ZOMBIE"}
  /\ \A p \in Procs \ {initproc} : state[p] \notin {"UNUSED", "EMBRYO"} =>
       /\ parent[p] # NONE
       /\ state[parent[p]] \notin {"UNUSED", "EMBRYO", "ZOMBIE"}

(* A process asleep in wait has children, none of them a zombie, and was   *)
(* not killed.                                                             *)
Waiters ==
  \A p \in Procs : state[p] = "SLEEPING" /\ pc[p] = "wait" =>
    chan[p] = p /\ Kids(p) # {} /\ Zombies(p) = {} /\ ~killed[p]

(* A tick was counted and its wakeup is still to come.                     *)
TickCounted == \E c \in CPUs : intr[Stack(c)] = "wakeup"

(* A process asleep in sys_sleep has ticks left, or is about to be woken.  *)
Tickers ==
  \A p \in Procs :
    /\ state[p] = "SLEEPING" /\ pc[p] = "slept" => 
         chan[p] = TicksChan /\ (Early(p) \/ TickCounted)
    /\ pc[p] = "sleepLocked" => Early(p)

(* The inductive invariant.                                                *)
ProcInv == /\ PType /\ Placed /\ Idle /\ Current /\ Running /\ Locks /\ Forking /\ Flags /\ Saved
        /\ Family /\ Waiters /\ Tickers

(* The slots, the CPUs, their stacks and the channel of ticks do not       *)
(* overlap.                                                                *)
LEMMA Domains ==
  /\ NONE \notin CPUs /\ NONE \notin Procs /\ NONE \in Nat /\ Procs \subseteq Stacks
  /\ initproc \in Procs /\ TicksChan \notin Procs /\ TicksChan \in Nat /\ Procs \subseteq Nat
  /\ \A c \in CPUs : -c \in Stacks /\ -c \notin Procs /\ \A d \in CPUs : -c = -d => c = d
BY ProcAssumption DEF NONE, CPUs, Procs, Stacks, initproc, TicksChan

(* A step that sets the flags of c, and of no other CPU.                   *)
Sets(c, on, n, was) ==
  /\ cli' \in [CPUs -> Flagged]
  /\ (cli'[c].iflag <=> on) /\ cli'[c].ncli = n /\ (cli'[c].intena <=> was)
  /\ \A d \in CPUs \ {c} : cli'[d] = cli[d]

(* What pushcli does to the flags.                                         *)
LEMMA Pushes ==
  ASSUME PType, NEW c \in CPUs, Push(c)
  PROVE  Sets(c, FALSE, cli[c].ncli + 1,
              IF cli[c].ncli = 0 THEN cli[c].iflag ELSE cli[c].intena)
<1>1. cli[c] \in Flagged
  BY Zenon DEF PType
<1>2. pushcli(cli[c]) \in Flagged
  BY <1>1 DEF Flagged, pushcli, Cli
<1>3. cli' = [cli EXCEPT ![c] = pushcli(cli[c])]
  BY Zenon DEF Push
<1> QED BY <1>1, <1>2, <1>3, Zenon DEF Sets, PType, pushcli, Cli

(* What popcli does to the flags.                                          *)
LEMMA Pops ==
  ASSUME PType, NEW c \in CPUs, Pop(c)
  PROVE  Sets(c, cli[c].ncli = 1 /\ cli[c].intena, cli[c].ncli - 1,
              cli[c].ncli > 1 /\ cli[c].intena)
<1>1. cli[c] \in Flagged
  BY DEF PType
<1>2. popcli(cli[c]) \in Flagged
  BY <1>1 DEF Flagged, popcli, Cli
<1>3. cli' = [cli EXCEPT ![c] = popcli(cli[c])]
  BY Zenon DEF Pop
<1> QED BY <1>1, <1>2, <1>3, Zenon DEF Sets, PType, popcli, Cli

(* popcli and then sti.                                                    *)
LEMMA PopsOn ==
  ASSUME PType, NEW c \in CPUs, cli' = [cli EXCEPT ![c] = sti(popcli(@))]
  PROVE  Sets(c, TRUE, cli[c].ncli - 1, cli[c].ncli > 1 /\ cli[c].intena)
<1>1. cli[c] \in Flagged
  BY Zenon DEF PType
<1>2. sti(popcli(cli[c])) \in Flagged
  BY <1>1 DEF Flagged, popcli, Cli, sti
<1> QED BY <1>1, <1>2, Zenon DEF Sets, PType, popcli, Cli, sti

(* An assignment to the flag alone, as by a gate or an iret.               *)
LEMMA SetsFlag ==
  ASSUME PType, NEW c \in CPUs, NEW f \in BOOLEAN, cli' = [cli EXCEPT ![c].iflag = f]
  PROVE  Sets(c, f, cli[c].ncli, cli[c].intena)
<1>1. cli[c] \in Flagged
  BY Zenon DEF PType
<1> QED BY <1>1, Zenon DEF Sets, PType, Flagged

(* An assignment to intena alone, as at the end of sched.                  *)
LEMMA SetsIntena ==
  ASSUME PType, NEW c \in CPUs, NEW f \in BOOLEAN, cli' = [cli EXCEPT ![c].intena = f]
  PROVE  Sets(c, cli[c].iflag, cli[c].ncli, f)
<1>1. cli[c] \in Flagged
  BY Zenon DEF PType
<1> QED BY <1>1, Zenon DEF Sets, PType, Flagged

(* Two CPUs are never on the same kernel stack.                            *)
LEMMA StacksApart ==
  ASSUME ProcInv, NEW c \in CPUs
  PROVE  Stack(c) \in Stacks /\ \A d \in CPUs \ {c} : Stack(c) # Stack(d)
<1>1. Stack(c) \in Stacks
  BY Domains, Zenon DEF ProcInv, PType, Stack
<1>2. ASSUME NEW d \in CPUs \ {c} PROVE Stack(c) # Stack(d)
  <2>1. cur[c] \in Procs \cup {NONE} /\ cur[d] \in Procs \cup {NONE}
    BY Zenon DEF ProcInv, PType
  <2>2. cur[c] # NONE => cur[d] # cur[c]
    BY Zenon DEF ProcInv, Current
  <2> QED BY <2>1, <2>2, Domains, Zenon DEF Stack
<1> QED BY <1>1, <1>2, Zenon

(* The flags of a CPU whose place and locks do not change.                 *)
LEMMA FlagsKept ==
  ASSUME ProcInv, NEW d \in CPUs, cli'[d] = cli[d], cur'[d] = cur[d],
         ptlock' = d <=> ptlock = d, tickslock' = d <=> tickslock = d,
         intr'[Stack(d)] = intr[Stack(d)], cur[d] # NONE => pc'[cur[d]] = pc[cur[d]]
  PROVE  FlagsAt(d)'
<1>1. Stack(d)' = Stack(d)
  BY Zenon DEF Stack
<1>2. FlagsAt(d)
  BY Zenon DEF ProcInv, Flags
<1> QED BY <1>1, <1>2, Zenon DEF FlagsAt, Handler

(* The locks of a CPU whose place does not change.                         *)
LEMMA LocksKept ==
  ASSUME ProcInv, NEW d \in CPUs, cur'[d] = cur[d], scan'[d] = scan[d],
         ptlock' = d <=> ptlock = d, tickslock' = d <=> tickslock = d,
         intr'[Stack(d)] = intr[Stack(d)],
         cur[d] # NONE => pc'[cur[d]] = pc[cur[d]] /\ state'[cur[d]] = state[cur[d]]
  PROVE  LocksAt(d)'
<1>1. Stack(d)' = Stack(d)
  BY Zenon DEF Stack
<1>2. LocksAt(d) /\ (cur[d] # NONE => intr'[cur[d]] = intr[cur[d]])
  BY Zenon DEF ProcInv, Locks, Stack
<1> QED BY <1>1, <1>2, Zenon DEF LocksAt, HoldsPt, HoldsTk

(* acquire and release on behalf of the process p that c runs.              *)
LEMMA PushFlags ==
  ASSUME ProcInv, NEW c \in CPUs, NEW p \in Procs, cur[c] = p, intr[p] = "none",
         pc[p] # "forkret", pc'[p] = "exit" <=> pc[p] = "exit", Push(c), UNCHANGED <<cur, intr>>,
         \A d \in CPUs \ {c} : cur[d] # NONE => pc'[cur[d]] = pc[cur[d]],
         \/ ptlock = NONE /\ ptlock' = c /\ UNCHANGED tickslock
         \/ tickslock = NONE /\ tickslock' = c /\ UNCHANGED ptlock
  PROVE  Flags'
<1>1. Sets(c, FALSE, cli[c].ncli + 1, IF cli[c].ncli = 0 THEN cli[c].iflag ELSE cli[c].intena)
  BY Pushes, Zenon DEF ProcInv
<1>2. FlagsAt(c)'
  <2>1. /\ Stack(c) = p /\ Stack(c)' = p /\ cur'[c] # NONE
        /\ Handler(c, "none") /\ Handler(c, "none")'
    BY Domains, Zenon DEF Stack, Handler
  <2>2. FlagsAt(c)
    BY Zenon DEF ProcInv, Flags
  <2>3. cli'[c].ncli = cli[c].ncli + 1 /\ ~cli'[c].iflag /\ cli[c].ncli \in {0, 1}
    BY <1>1, <2>2, Domains DEF Sets, FlagsAt
  <2>4. pc[p] # "exit" => cli'[c].intena
    BY <1>1, <2>1, <2>2, <2>3 DEF FlagsAt, Sets
  <2>5. cli'[c].ncli = (IF ptlock' = c THEN 1 ELSE 0) + (IF tickslock' = c THEN 1 ELSE 0)
    BY <2>2, <2>3, Domains DEF FlagsAt
  <2> QED BY <2>1, <2>3, <2>4, <2>5 DEF FlagsAt
<1>3. ASSUME NEW d \in CPUs \ {c} PROVE FlagsAt(d)'
  BY <1>1, FlagsKept, Domains DEF Sets
<1> QED BY <1>2, <1>3, Zenon DEF Flags

(* The same for release.                                                   *)
LEMMA PopFlags ==
  ASSUME ProcInv, NEW c \in CPUs, NEW p \in Procs, cur[c] = p, intr[p] = "none",
         pc[p] \notin {"forkret", "exit"}, pc'[p] # "exit", Pop(c), UNCHANGED <<cur, intr>>,
         \A d \in CPUs \ {c} : cur[d] # NONE => pc'[cur[d]] = pc[cur[d]],
         \/ ptlock = c /\ ptlock' = NONE /\ UNCHANGED tickslock
         \/ tickslock = c /\ tickslock' = NONE /\ UNCHANGED ptlock
  PROVE  Flags'
<1>1. Sets(c, cli[c].ncli = 1 /\ cli[c].intena, cli[c].ncli - 1, cli[c].ncli > 1 /\ cli[c].intena)
  BY Pops, Zenon DEF ProcInv
<1>2. FlagsAt(c)'
  <2>1. /\ Stack(c) = p /\ Stack(c)' = p /\ cur'[c] # NONE
        /\ Handler(c, "none") /\ Handler(c, "none")'
    BY Domains, Zenon DEF Stack, Handler
  <2>2. FlagsAt(c)
    BY Zenon DEF ProcInv, Flags
  <2>3. cli'[c].ncli = cli[c].ncli - 1 /\ cli[c].ncli \in {1, 2} /\ cli[c].intena
    BY <1>1, <2>1, <2>2, Domains DEF Sets, FlagsAt
  <2>4. cli'[c].ncli = (IF ptlock' = c THEN 1 ELSE 0) + (IF tickslock' = c THEN 1 ELSE 0)
    BY <2>2, <2>3, Domains DEF FlagsAt
  <2> QED BY <1>1, <2>1, <2>3, <2>4 DEF FlagsAt, Sets
<1>3. ASSUME NEW d \in CPUs \ {c} PROVE FlagsAt(d)'
  BY <1>1, FlagsKept, Domains DEF Sets
<1> QED BY <1>2, <1>3, Zenon DEF Flags

(* Nothing that the sleepers in wait depend on has changed.                *)
LEMMA WaitersKept ==
  ASSUME ProcInv,
         \A q \in Procs : state'[q] = "SLEEPING" /\ pc'[q] = "wait" =>
           /\ state[q] = "SLEEPING" /\ pc[q] = "wait" /\ chan'[q] = chan[q]
           /\ killed'[q] = killed[q]
           /\ \A k \in Procs : parent[k] = q => parent'[k] = q
           /\ \A k \in Procs : parent'[k] = q /\ state'[k] = "ZOMBIE" =>
                                 parent[k] = q /\ state[k] = "ZOMBIE"
  PROVE  Waiters'
BY DEF ProcInv, Waiters, Kids, Zombies

(* Nothing that the sleepers in sys_sleep depend on has changed.           *)
LEMMA TickersKept ==
  ASSUME ProcInv, ticks' = ticks,
         \A q \in Procs : state'[q] = "SLEEPING" /\ pc'[q] = "slept" =>
           state[q] = "SLEEPING" /\ pc[q] = "slept" /\ chan'[q] = chan[q] /\ arg'[q] = arg[q],
         \A q \in Procs : pc'[q] = "sleepLocked" => pc[q] = "sleepLocked" /\ arg'[q] = arg[q],
         TickCounted => TickCounted'
  PROVE  Tickers'
BY Zenon DEF ProcInv, Tickers, Early, Elapsed

(* scheduler: a pass begins, ptable.lock taken.                            *)
LEMMA schedLockKeeps == ASSUME ProcInv, NEW c \in CPUs, schedLock(c) PROVE ProcInv'
<1> USE Domains DEF ProcInv
<1>1. /\ cur[c] = NONE
      /\ scan[c] = 0
      /\ intr[-c] = "none"
      /\ ptlock = NONE
      /\ ptlock' = c
      /\ scan' = [scan EXCEPT ![c] = 1]
      /\ Push(c)
      /\ UNCHANGED <<state, pid, killed, parent, chan, pc, arg, intr, sintena, cur, tickslock,
                     ticks>>
  BY Zenon DEF schedLock, table
<1>2. Sets(c, FALSE, cli[c].ncli + 1, IF cli[c].ncli = 0 THEN cli[c].iflag ELSE cli[c].intena)
  BY <1>1, Pushes, Zenon
<1>3. Placed' /\ Running' /\ Forking'
  BY <1>1, ZenonT(40) DEF Placed, Running, Forking
<1>4. Saved' /\ Family' /\ Tickers'
  BY <1>1, Zenon DEF Saved, Family, Tickers, TickCounted, Early, Elapsed, Stack
<1>5. PType'
  BY <1>1, <1>2, Zenon DEF Sets, PType
<1>6. Idle'
  BY <1>1 DEF Idle
<1>7. Current'
  BY <1>1 DEF Current
<1>8. Locks'
  BY <1>1 DEF PType, Locks, LocksAt, HoldsPt, HoldsTk, Stack
<1>9. Flags'
  <2>1. FlagsAt(c)'
    BY <1>1, <1>2 DEF Flags, FlagsAt, Sets, Handler, Stack
  <2>2. ASSUME NEW d \in CPUs \ {c} PROVE FlagsAt(d)'
    BY <1>1, <1>2, StacksApart, FlagsKept, Zenon DEF Sets
  <2> QED BY <2>1, <2>2, Zenon DEF Flags
<1>10. Waiters'
  BY <1>1, WaitersKept, Zenon
<1> QED BY <1>3, <1>4, <1>5, <1>6, <1>7, <1>8, <1>9, <1>10, Zenon

(* scheduler: swtch to a runnable process, which sched's second half, or   *)
(* forkret, continues with the intena of its own.                          *)
LEMMA schedPickKeeps == ASSUME ProcInv, NEW c \in CPUs, schedPick(c) PROVE ProcInv'
<1> USE Domains DEF ProcInv
<1>1. PICK p \in Procs :
        /\ cur[c] = NONE
        /\ scan[c] \in 1..p
        /\ state[p] = "RUNNABLE"
        /\ state' = [state EXCEPT ![p] = "RUNNING"]
        /\ cur' = [cur EXCEPT ![c] = p]
        /\ scan' = [scan EXCEPT ![c] = p + 1]
        /\ sintena' = [sintena EXCEPT ![p] = FALSE]
        /\ cli' = [cli EXCEPT ![c].intena = IF pc[p] = "forkret" THEN cli[c].intena ELSE sintena[p]]
        /\ UNCHANGED <<pid, killed, parent, chan, pc, arg, intr, ptlock, tickslock, ticks>>
  BY Zenon DEF schedPick
<1>2. /\ scan[c] # 0 /\ scan' \in [CPUs -> Nat]
      /\ Sets(c, cli[c].iflag, cli[c].ncli, IF pc[p] = "forkret" THEN cli[c].intena ELSE sintena[p])
  <2> DEFINE f == IF pc[p] = "forkret" THEN cli[c].intena ELSE sintena[p]
  <2>1. f \in BOOLEAN
    BY Zenon DEF PType, Flagged
  <2>2. cli' = [cli EXCEPT ![c].intena = f]
    BY <1>1, Zenon
  <2> HIDE DEF f
  <2>3. Sets(c, cli[c].iflag, cli[c].ncli, f)
    BY <2>1, <2>2, SetsIntena, Zenon
  <2> QED BY <1>1, <2>3 DEF f, PType
<1>3. /\ ptlock = c /\ cli[c].ncli > 0 /\ ~cli[c].iflag /\ \A d \in CPUs : cur[d] # p
      /\ pc[p] # "forkret" => (sintena[p] <=> intr[p] = "none")
      /\ pc[p] = "forkret" => intr[p] = "none"
  <2>1. ptlock = c /\ \A d \in CPUs : cur[d] # p
    BY <1>1, <1>2, Zenon DEF Locks, LocksAt, HoldsPt
  <2>2. cli[c].ncli > 0 /\ ~cli[c].iflag
    BY <2>1 DEF Flags, FlagsAt
  <2> QED BY <1>1, <2>1, <2>2, Zenon DEF Saved, Placed, Quiet
<1>4. PType'
  BY <1>1, <1>3, <1>2, Zenon DEF Sets, PType, States
<1>5. Placed'
  BY <1>1, <1>3 DEF Placed
<1>6. Idle'
  BY <1>1, <1>3 DEF Idle
<1>7. Current'
  BY <1>1, <1>3 DEF Current
<1>8. Running'
  BY <1>1, <1>3 DEF PType, Running
<1>9. Locks'
  BY <1>1, <1>3 DEF Locks, LocksAt, HoldsPt, HoldsTk, Placed, Quiet, Idle, Stack
<1>10. Forking'
  BY <1>1, <1>3 DEF Forking
<1>11. Flags'
  <2>1. FlagsAt(c)'
    BY <1>1, <1>2, <1>3 DEF PType, Flags, FlagsAt, Handler, Stack
  <2>2. ASSUME NEW d \in CPUs \ {c} PROVE FlagsAt(d)'
    BY <1>1, <1>2, <1>3, StacksApart, FlagsKept
  <2> QED BY <2>1, <2>2, Zenon DEF Flags
<1>12. Saved'
  BY <1>1, <1>3, ZenonT(40) DEF PType, Saved
<1>13. Family'
  BY <1>1, <1>3 DEF Family
<1>14. Waiters'
  BY <1>1, <1>3, WaitersKept
<1>15. Tickers'
  <2>1. TickCounted => TickCounted'
    BY <1>1, <1>3 DEF TickCounted, Stack, Idle
  <2> QED BY <1>1, <1>3, <2>1, TickersKept
<1> QED BY <1>4, <1>5, <1>6, <1>7, <1>8, <1>9, <1>10, <1>11, <1>12, <1>13, <1>14, <1>15, Zenon

(* scheduler: the pass ends, the lock is released and interrupts are on.   *)
LEMMA schedDoneKeeps == ASSUME ProcInv, NEW c \in CPUs, schedDone(c) PROVE ProcInv'
<1> USE Domains DEF ProcInv
<1>1. /\ cur[c] = NONE
      /\ scan[c] # 0
      /\ ptlock' = NONE
      /\ scan' = [scan EXCEPT ![c] = 0]
      /\ cli' = [cli EXCEPT ![c] = sti(popcli(@))]
      /\ UNCHANGED <<state, pid, killed, parent, chan, pc, arg, intr, sintena, cur, tickslock,
                     ticks>>
  BY Zenon DEF schedDone, table
<1>2. Sets(c, TRUE, cli[c].ncli - 1, cli[c].ncli > 1 /\ cli[c].intena)
  BY <1>1, PopsOn, Zenon
<1>3. ptlock = c /\ tickslock # c /\ intr[-c] = "none" /\ cli[c].ncli = 1
  <2>1. ptlock = c /\ intr[-c] = "none"
    BY <1>1, Zenon DEF Locks, LocksAt, HoldsPt, Idle
  <2>2. tickslock # c
    BY <1>1, <2>1, Zenon DEF Locks, LocksAt, HoldsTk, Stack
  <2> QED BY <2>1, <2>2 DEF Flags, FlagsAt
<1>4. Placed' /\ Running' /\ Forking'
  BY <1>1, ZenonT(40) DEF Placed, Running, Forking
<1>5. Saved' /\ Family' /\ Tickers'
  BY <1>1, Zenon DEF Saved, Family, Tickers, TickCounted, Early, Elapsed, Stack
<1>6. PType'
  BY <1>1, <1>3, <1>2, Zenon DEF Sets, PType
<1>7. Idle'
  BY <1>1, <1>3 DEF Idle
<1>8. Current'
  BY <1>1, <1>3 DEF Current
<1>9. Locks'
  BY <1>1, <1>3 DEF PType, Locks, LocksAt, HoldsPt, HoldsTk, Stack
<1>10. Flags'
  <2>1. FlagsAt(c)'
    BY <1>1, <1>2, <1>3 DEF FlagsAt, Sets, Handler, Stack
  <2>2. ASSUME NEW d \in CPUs \ {c} PROVE FlagsAt(d)'
    BY <1>1, <1>2, <1>3, StacksApart, FlagsKept
  <2> QED BY <2>1, <2>2 DEF Flags
<1>11. Waiters'
  BY <1>1, <1>3, WaitersKept, Zenon
<1> QED BY <1>4, <1>5, <1>6, <1>7, <1>8, <1>9, <1>10, <1>11

(* sched: swtch back to the scheduler with intena saved.                   *)
LEMMA schedKeeps == ASSUME ProcInv, NEW c \in CPUs, sched(c) PROVE ProcInv'
<1> USE Domains DEF ProcInv
<1>1. PICK p \in Procs :
        /\ cur[c] = p
        /\ state[p] # "RUNNING"
        /\ sintena' = [sintena EXCEPT ![p] = cli[c].intena]
        /\ cur' = [cur EXCEPT ![c] = NONE]
        /\ UNCHANGED <<state, pid, killed, parent, chan, pc, arg, intr, scan, cli, ptlock,
                       tickslock, ticks>>
  BY Zenon DEF sched, table
<1>3. /\ ptlock = c /\ tickslock # c /\ cli[c].ncli = 1 /\ ~cli[c].iflag
      /\ scan[c] # 0 /\ intr[-c] = "none" /\ intr[p] \in {"none", "yielded"}
      /\ state[p] # "ZOMBIE" /\ pc[p] # "forkret" => (cli[c].intena <=> intr[p] = "none")
  <2>1. ptlock = c /\ scan[c] # 0 /\ intr[-c] = "none"
    BY <1>1, Zenon DEF Locks, LocksAt, HoldsPt, Idle, Current
  <2>2. intr[p] \in {"none", "yielded"} /\ tickslock # c
    BY <1>1, Zenon DEF PType, Locks, LocksAt, HoldsTk, Stack, Placed, Quiet, States
  <2>3. cli[c].ncli = 1 /\ ~cli[c].iflag
    BY <2>1, <2>2 DEF Flags, FlagsAt
  <2> QED BY <1>1, <2>1, <2>2, <2>3 DEF Flags, FlagsAt, Handler, Stack, Placed, PType, States
<1>4. Placed' /\ Forking'
  BY <1>1, Zenon DEF Placed, Forking
<1>5. Family'
  BY <1>1, Zenon DEF Family
<1>6. PType'
  BY <1>1, <1>3, Zenon DEF PType, Flagged
<1>7. Idle'
  BY <1>1, <1>3 DEF Idle
<1>8. Current'
  BY <1>1, <1>3 DEF Current
<1>9. Running'
  BY <1>1, <1>3, Zenon DEF PType, Running
<1>10. Locks'
  BY <1>1, <1>3 DEF Locks, LocksAt, HoldsPt, HoldsTk, Stack
<1>11. Flags'
  <2>1. FlagsAt(c)'
    BY <1>1, <1>3 DEF PType, FlagsAt, Handler, Stack
  <2>2. ASSUME NEW d \in CPUs \ {c} PROVE FlagsAt(d)'
    BY <1>1, <1>3, StacksApart, FlagsKept
  <2> QED BY <2>1, <2>2 DEF Flags
<1>12. Saved'
  BY <1>1, <1>3, Zenon DEF PType, Saved
<1>13. Waiters'
  BY <1>1, <1>3, WaitersKept, Zenon
<1>14. Tickers'
  <2>1. TickCounted => TickCounted'
    BY <1>1, <1>3 DEF TickCounted, Stack
  <2> QED BY <1>1, <1>3, <2>1, TickersKept, Zenon
<1> QED BY <1>4, <1>5, <1>6, <1>7, <1>8, <1>9, <1>10, <1>11, <1>12, <1>13, <1>14, Zenon

(* forkret: a new process lets go of the scheduler's lock.                 *)
LEMMA forkretKeeps == ASSUME ProcInv, NEW c \in CPUs, forkret(c) PROVE ProcInv'
<1> USE Domains DEF ProcInv
<1>1. PICK p \in Procs :
        /\ At(c, p, "forkret")
        /\ ptlock' = NONE
        /\ pc' = [pc EXCEPT ![p] = "user"]
        /\ cli' = [cli EXCEPT ![c] = sti(popcli(@))]
        /\ UNCHANGED <<state, pid, killed, parent, chan, arg, intr, sintena, cur, scan,
                       tickslock, ticks>>
  BY Zenon DEF forkret, Goto, table
<1>2. Sets(c, TRUE, cli[c].ncli - 1, cli[c].ncli > 1 /\ cli[c].intena)
  BY <1>1, PopsOn, Zenon
<1>3. ptlock = c
  BY <1>1, Zenon DEF Locks, LocksAt, HoldsPt, At
<1>4. Idle' /\ Current' /\ Running'
  BY <1>1, Zenon DEF Idle, Current, Running
<1>5. Family'
  BY <1>1, Zenon DEF Family
<1>6. PType'
  BY <1>1, <1>3, <1>2, Zenon DEF Sets, PType, Places
<1>7. Placed'
  BY <1>1, <1>3 DEF Placed, At
<1>8. Locks'
  BY <1>1, <1>3, Zenon DEF PType, Locks, LocksAt, HoldsPt, HoldsTk, Stack, At
<1>9. Forking'
  BY <1>1, <1>3, SMTT(30) DEF Forking
<1>10. Flags'
  <2>1. FlagsAt(c)'
    BY <1>1, <1>2, <1>3 DEF Flags, FlagsAt, Sets, Handler, Stack, At, Locks, LocksAt, HoldsTk
  <2>2. ASSUME NEW d \in CPUs \ {c} PROVE FlagsAt(d)'
    BY <1>1, <1>2, <1>3, StacksApart, FlagsKept DEF Stack, At
  <2> QED BY <2>1, <2>2 DEF Flags
<1>11. Saved'
  BY <1>1, <1>3 DEF Saved, At
<1>12. Waiters'
  BY <1>1, <1>3, WaitersKept
<1>13. Tickers'
  <2>1. TickCounted => TickCounted'
    BY <1>1, Zenon DEF TickCounted, Stack
  <2> QED BY <1>1, <1>3, <2>1, TickersKept
<1> QED BY <1>4, <1>5, <1>6, <1>7, <1>8, <1>9, <1>10, <1>11, <1>12, <1>13, Zenon

(* A process goes between user mode, the end of a system call and exit,    *)
(* and at most its own killed flag changes.                                *)
LEMMA MoveKeeps ==
  ASSUME ProcInv, NEW c \in CPUs, NEW p \in Procs, NEW w \in {"user", "exit"},
         cur[c] = p, state[p] = "RUNNING", intr[p] = "none", pc[p] \in {"user", "ret"},
         pc' = [pc EXCEPT ![p] = w],
         killed' \in [Procs -> BOOLEAN], \A q \in Procs \ {p} : killed'[q] = killed[q],
         UNCHANGED <<state, pid, parent, chan, arg, intr, sintena, cur, scan, cli, ptlock,
                     tickslock, ticks>>
  PROVE  ProcInv'
<1> USE Domains DEF ProcInv
<1>3. Idle' /\ Current' /\ Running'
  BY Zenon DEF Idle, Current, Running
<1>4. Family'
  BY Zenon DEF Family
<1>5. PType'
  BY Zenon DEF PType, Places
<1>6. Placed'
  BY DEF Placed
<1>7. Locks'
  BY DEF Locks, LocksAt, HoldsPt, HoldsTk, Stack
<1>8. Forking'
  BY DEF Forking
<1>9. Flags'
  <2>1. FlagsAt(c)'
    BY Zenon DEF Flags, FlagsAt, Handler, Stack
  <2>2. ASSUME NEW d \in CPUs \ {c} PROVE FlagsAt(d)'
    BY StacksApart, FlagsKept DEF Stack
  <2> QED BY <2>1, <2>2, Zenon DEF Flags
<1>10. Saved'
  BY DEF Saved
<1>11. Waiters'
  BY WaitersKept
<1>12. Tickers'
  <2>1. TickCounted => TickCounted'
    BY Zenon DEF TickCounted, Stack
  <2> QED BY <2>1, TickersKept
<1> QED BY <1>3, <1>4, <1>5, <1>6, <1>7, <1>8, <1>9, <1>10, <1>11, <1>12, Zenon

(* trap's checks of killed, a fault, the return from a system call and the *)
(* call of exit are such moves.                                            *)
LEMMA EdgeKeeps ==
  ASSUME ProcInv, NEW c \in CPUs, killedInUser(c) \/ fault(c) \/ trapret(c) \/ exitCall(c)
  PROVE  ProcInv'
<1> USE Domains
<1>1. PICK p \in Procs, w \in {"user", "exit"} :
        /\ cur[c] = p /\ state[p] = "RUNNING" /\ intr[p] = "none" /\ pc[p] \in {"user", "ret"}
        /\ pc' = [pc EXCEPT ![p] = w]
        /\ killed' = killed \/ killed' = [killed EXCEPT ![p] = TRUE]
        /\ UNCHANGED <<state, pid, parent, chan, arg, intr, sintena, cur, scan, cli, ptlock,
                       tickslock, ticks>>
  BY Zenon DEF killedInUser, fault, trapret, exitCall, Syscall, At, Goto, table
<1>2. killed' \in [Procs -> BOOLEAN] /\ \A q \in Procs \ {p} : killed'[q] = killed[q]
  BY <1>1, Zenon DEF ProcInv, PType
<1> QED BY <1>1, <1>2, MoveKeeps, Zenon

(* allocproc: an UNUSED slot becomes the caller's EMBRYO.                  *)
LEMMA allocprocKeeps == ASSUME ProcInv, NEW c \in CPUs, allocproc(c) PROVE ProcInv'
<1> USE Domains DEF ProcInv
<1>1. PICK p, np \in Procs :
        /\ At(c, p, "user")
        /\ state[np] = "UNUSED"
        /\ state' = [state EXCEPT ![np] = "EMBRYO"]
        /\ pid' = [pid EXCEPT ![np] = np]
        /\ pc' = [pc EXCEPT ![p] = "fork"]
        /\ arg' = [arg EXCEPT ![p] = np]
        /\ UNCHANGED <<killed, parent, chan, intr, sintena, cur, scan, cli, ptlock, tickslock,
                       ticks>>
  BY Zenon DEF allocproc, Syscall, Goto
<1>3. Idle'
  BY <1>1, Zenon DEF Idle
<1>4. PType'
  BY <1>1, Zenon DEF PType, States, Places
<1>5. Placed'
  BY <1>1 DEF Placed, At
<1>6. Current'
  BY <1>1 DEF Current
<1>7. Running'
  BY <1>1 DEF Running
<1>8. Locks'
  BY <1>1 DEF Locks, LocksAt, HoldsPt, HoldsTk, Stack, At
<1>9. Forking'
  BY <1>1 DEF PType, Forking
<1>10. Flags'
  <2>1. FlagsAt(c)'
    BY <1>1, Zenon DEF Flags, FlagsAt, Handler, Stack, At
  <2>2. ASSUME NEW d \in CPUs \ {c} PROVE FlagsAt(d)'
    BY <1>1, StacksApart, FlagsKept DEF Stack, At
  <2> QED BY <2>1, <2>2, Zenon DEF Flags
<1>11. Saved'
  BY <1>1 DEF Saved, At
<1>12. Family'
  BY <1>1, Zenon DEF PType, Family, NONE
<1>13. Waiters'
  BY <1>1, WaitersKept
<1>14. Tickers'
  <2>1. TickCounted => TickCounted'
    BY <1>1, Zenon DEF TickCounted, Stack
  <2> QED BY <1>1, <2>1, TickersKept, Zenon DEF PType
<1> QED BY <1>3, <1>4, <1>5, <1>6, <1>7, <1>8, <1>9, <1>10, <1>11, <1>12, <1>13, <1>14, Zenon

(* fork without memory: the slot is given back.                            *)
LEMMA forkFailsKeeps == ASSUME ProcInv, NEW c \in CPUs, forkFails(c) PROVE ProcInv'
<1> USE Domains DEF ProcInv
<1>1. PICK p \in Procs :
        /\ At(c, p, "fork")
        /\ state' = [state EXCEPT ![arg[p]] = "UNUSED"]
        /\ pc' = [pc EXCEPT ![p] = "ret"]
        /\ arg' = [arg EXCEPT ![p] = 0]
        /\ UNCHANGED <<pid, killed, parent, chan, intr, sintena, cur, scan, cli, ptlock,
                       tickslock, ticks>>
  BY Zenon DEF forkFails, Goto
<1>3. /\ arg[p] \in Procs /\ state[arg[p]] = "EMBRYO" /\ arg[p] # p
      /\ parent[arg[p]] = NONE /\ \A d \in CPUs : cur[d] # arg[p]
  <2>1. arg[p] \in Procs /\ state[arg[p]] = "EMBRYO" /\ arg[p] # p
    BY <1>1, Zenon DEF At, Forking
  <2> QED BY <2>1, ZenonT(30) DEF Family, Current
<1>4. Idle'
  BY <1>1, Zenon DEF Idle
<1>5. PType'
  BY <1>1, <1>3, Zenon DEF PType, States, Places
<1>6. Placed'
  BY <1>1, <1>3 DEF Placed, At
<1>7. Current'
  BY <1>1, <1>3 DEF Current
<1>8. Running'
  BY <1>1, <1>3 DEF Running
<1>9. Locks'
  BY <1>1, <1>3 DEF Locks, LocksAt, HoldsPt, HoldsTk, Stack, At
<1>10. Forking'
  BY <1>1, <1>3 DEF PType, Forking, At
<1>11. Flags'
  <2>1. FlagsAt(c)'
    BY <1>1, <1>3, Zenon DEF Flags, FlagsAt, Handler, Stack, At
  <2>2. ASSUME NEW d \in CPUs \ {c} PROVE FlagsAt(d)'
    BY <1>1, <1>3, StacksApart, FlagsKept DEF Stack, At
  <2> QED BY <2>1, <2>2 DEF Flags
<1>12. Saved'
  BY <1>1, <1>3 DEF Saved, At
<1>13. Family'
  BY <1>1, <1>3 DEF Family
<1>14. Waiters'
  BY <1>1, <1>3, WaitersKept
<1>15. Tickers'
  <2>1. TickCounted => TickCounted'
    BY <1>1, Zenon DEF TickCounted, Stack
  <2> QED BY <1>1, <1>3, <2>1, TickersKept, Zenon DEF PType
<1> QED BY <1>4, <1>5, <1>6, <1>7, <1>8, <1>9, <1>10, <1>11, <1>12, <1>13, <1>14, <1>15, Zenon

(* fork: the child is runnable and the caller's.                           *)
LEMMA forkKeeps == ASSUME ProcInv, NEW c \in CPUs, fork(c) PROVE ProcInv'
<1> USE Domains DEF ProcInv
<1>1. PICK p \in Procs :
        /\ At(c, p, "fork")
        /\ state' = [state EXCEPT ![arg[p]] = "RUNNABLE"]
        /\ parent' = [parent EXCEPT ![arg[p]] = p]
        /\ pc' = [pc EXCEPT ![p] = "ret", ![arg[p]] = "forkret"]
        /\ arg' = [arg EXCEPT ![p] = 0]
        /\ UNCHANGED <<pid, killed, chan, intr, sintena, cur, scan, cli, ptlock, tickslock,
                       ticks>>
  BY Zenon DEF fork
<1>3. /\ arg[p] \in Procs /\ state[arg[p]] = "EMBRYO" /\ arg[p] # p
      /\ parent[arg[p]] = NONE /\ \A d \in CPUs : cur[d] # arg[p]
  <2>1. arg[p] \in Procs /\ state[arg[p]] = "EMBRYO" /\ arg[p] # p
    BY <1>1, Zenon DEF At, Forking
  <2> QED BY <2>1, ZenonT(40) DEF Family, Current
<1>4. Idle'
  BY <1>1, Zenon DEF Idle
<1>5. PType'
  BY <1>1, <1>3, Zenon DEF PType, States, Places
<1>6. Placed'
  BY <1>1, <1>3 DEF PType, Placed, At
<1>7. Current'
  BY <1>1, <1>3 DEF Current
<1>8. Running'
  BY <1>1, <1>3 DEF Running
<1>9. Locks'
  <2>1. LocksAt(c)'
    BY <1>1, <1>3, Zenon DEF PType, Locks, LocksAt, HoldsPt, HoldsTk, At, Stack
  <2>2. ASSUME NEW d \in CPUs \ {c} PROVE LocksAt(d)'
    BY <1>1, <1>3, LocksKept, Zenon DEF PType, Current, At
  <2> QED BY <2>1, <2>2, Zenon DEF Locks
<1>10. Forking'
  BY <1>1, <1>3 DEF PType, Forking, At
<1>11. Flags'
  <2>1. FlagsAt(c)'
    BY <1>1, <1>3, Zenon DEF Flags, FlagsAt, Handler, Stack, At
  <2>2. ASSUME NEW d \in CPUs \ {c} PROVE FlagsAt(d)'
    BY <1>1, <1>3, StacksApart, FlagsKept, Zenon DEF Stack, PType, At
  <2> QED BY <2>1, <2>2 DEF Flags
<1>12. Saved'
  BY <1>1, <1>3 DEF PType, Saved, At
<1>13. Family'
  BY <1>1, <1>3 DEF PType, Family, At
<1>14. Waiters'
  BY <1>1, <1>3, WaitersKept DEF PType
<1>15. Tickers'
  <2>1. TickCounted => TickCounted'
    BY <1>1, Zenon DEF TickCounted, Stack
  <2> QED BY <1>1, <1>3, <2>1, TickersKept, Zenon DEF PType
<1> QED BY <1>4, <1>5, <1>6, <1>7, <1>8, <1>9, <1>10, <1>11, <1>12, <1>13, <1>14, <1>15

(* kill: the victim is flagged and, if asleep, made runnable.              *)
LEMMA killKeeps == ASSUME ProcInv, NEW c \in CPUs, kill(c) PROVE ProcInv'
<1> USE Domains DEF ProcInv
<1>1. PICK p, q \in Procs \ {initproc} :
        /\ At(c, p, "user")
        /\ ptlock = NONE
        /\ killed' = [killed EXCEPT ![q] = TRUE]
        /\ state' = [state EXCEPT ![q] = IF @ = "SLEEPING" THEN "RUNNABLE" ELSE @]
        /\ pc' = [pc EXCEPT ![p] = "ret"]
        /\ UNCHANGED <<pid, parent, chan, arg, intr, sintena, cur, scan, cli, ptlock, tickslock,
                       ticks>>
  BY Zenon DEF kill, Syscall, Goto
<1>3. Idle'
  BY <1>1, Zenon DEF Idle
<1>4. PType'
  BY <1>1, Zenon DEF PType, States, Places
<1>5. Placed'
  BY <1>1 DEF Placed, At
<1>6. Current'
  BY <1>1 DEF Current
<1>7. Running'
  BY <1>1 DEF Running
<1>8. Locks'
  BY <1>1 DEF Locks, LocksAt, HoldsPt, HoldsTk, Stack, At
<1>9. Forking'
  BY <1>1 DEF Forking
<1>10. Flags'
  <2>1. FlagsAt(c)'
    BY <1>1, Zenon DEF Flags, FlagsAt, Handler, Stack, At
  <2>2. ASSUME NEW d \in CPUs \ {c} PROVE FlagsAt(d)'
    BY <1>1, StacksApart, FlagsKept DEF Stack, At
  <2> QED BY <2>1, <2>2, Zenon DEF Flags
<1>11. Saved'
  BY <1>1 DEF Saved, At
<1>12. Family'
  BY <1>1, SMTT(30) DEF Family
<1>13. Waiters'
  BY <1>1, WaitersKept, Zenon DEF PType
<1>14. Tickers'
  <2>1. TickCounted => TickCounted'
    BY <1>1, Zenon DEF TickCounted, Stack
  <2> QED BY <1>1, <2>1, TickersKept
<1> QED BY <1>3, <1>4, <1>5, <1>6, <1>7, <1>8, <1>9, <1>10, <1>11, <1>12, <1>13, <1>14, Zenon

(* exit: the parent is woken, the children go to init, the process is a    *)
(* zombie that holds ptable.lock.                                          *)
LEMMA exitKeeps == ASSUME ProcInv, NEW c \in CPUs, exit(c) PROVE ProcInv'
<1> USE Domains DEF ProcInv
<1>1. PICK p \in Procs \ {initproc} :
        /\ At(c, p, "exit")
        /\ ptlock = NONE
        /\ ptlock' = c
        /\ parent' = [q \in Procs |-> IF parent[q] = p THEN initproc ELSE parent[q]]
        /\ \E W : /\ state' = [wakeup1(W) EXCEPT ![p] = "ZOMBIE"] /\ parent[p] \in W
                  /\ \A k \in Procs : parent[k] = p /\ state[k] = "ZOMBIE" => initproc \in W
        /\ Push(c)
        /\ UNCHANGED <<pid, killed, chan, pc, arg, intr, sintena, cur, scan, tickslock, ticks>>
  <2>1. PICK p \in Procs \ {initproc} :
          /\ At(c, p, "exit") /\ ptlock = NONE /\ ptlock' = c /\ Push(c)
          /\ parent' = [q \in Procs |-> IF q \in {r \in Procs : parent[r] = p}
                                          THEN initproc ELSE parent[q]]
          /\ state' = [wakeup1({parent[p]} \cup
                         {initproc : q \in {k \in {r \in Procs : parent[r] = p} :
                                                state[k] = "ZOMBIE"}}) EXCEPT ![p] = "ZOMBIE"]
          /\ UNCHANGED <<pid, killed, chan, pc, arg, intr, sintena, cur, scan, tickslock, ticks>>
    BY Zenon DEF exit
  <2> DEFINE W == {parent[p]} \cup
                    {initproc : q \in {k \in {r \in Procs : parent[r] = p} : state[k] = "ZOMBIE"}}
  <2>2. parent' = [q \in Procs |-> IF parent[q] = p THEN initproc ELSE parent[q]]
    BY <2>1, Zenon
  <2>3. parent[p] \in W /\ \A k \in Procs : parent[k] = p /\ state[k] = "ZOMBIE" => initproc \in W
    BY Zenon
  <2> QED BY <2>1, <2>2, <2>3, Zenon
<1>2. Sets(c, FALSE, cli[c].ncli + 1, IF cli[c].ncli = 0 THEN cli[c].iflag ELSE cli[c].intena)
  BY <1>1, Pushes, Zenon
<1>3. PICK W : /\ state' = [wakeup1(W) EXCEPT ![p] = "ZOMBIE"] /\ parent[p] \in W
               /\ \A k \in Procs : parent[k] = p /\ state[k] = "ZOMBIE" => initproc \in W
  BY <1>1, Zenon
<1>4. /\ state' \in [Procs -> States] /\ state'[p] = "ZOMBIE"
      /\ \A q \in Procs \ {p} :
           state'[q] = IF state[q] = "SLEEPING" /\ chan[q] \in W THEN "RUNNABLE" ELSE state[q]
  <2>1. wakeup1(W) \in [Procs -> States]
    BY Zenon DEF wakeup1, PType, States
  <2> QED BY <1>3, <2>1, Zenon DEF wakeup1, States
<1>5. \A d \in CPUs : cur[d] # NONE => state[cur[d]] = "RUNNING" /\ (d # c => cur[d] # p)
  BY <1>1, Zenon DEF Locks, LocksAt, HoldsPt, Current, At
<1>6. PType'
  BY <1>1, <1>2, <1>4, Zenon DEF Sets, PType
<1>7. Placed'
  BY <1>1, <1>4 DEF Placed, At
<1>8. Idle'
  BY <1>1, Zenon DEF Idle
<1>9. Running'
  BY <1>1, <1>4, Zenon DEF Running
<1>10. Current'
  BY <1>1, <1>4, <1>5, Zenon DEF PType, Current
<1>11. Locks'
  <2>1. LocksAt(c)'
    BY <1>1, <1>4, Zenon DEF Locks, LocksAt, HoldsPt, HoldsTk, At, Stack
  <2>2. ASSUME NEW d \in CPUs \ {c} PROVE LocksAt(d)'
    BY <1>1, <1>4, <1>5, LocksKept, Zenon DEF PType
  <2> QED BY <2>1, <2>2, Zenon DEF Locks
<1>12. Forking'
  <2>1. \A q \in Procs : state[q] = "EMBRYO" => state'[q] = "EMBRYO"
    BY <1>1, <1>4, Zenon DEF At
  <2> QED BY <1>1, <2>1, Zenon DEF Forking
<1>13. Flags'
  BY <1>1, PushFlags, Zenon DEF At
<1>14. Saved'
  <2>1. ASSUME NEW q \in Procs, state'[q] \in {"RUNNABLE", "SLEEPING"}
        PROVE  state[q] \in {"RUNNABLE", "SLEEPING"}
    BY <1>4, <2>1, Zenon
  <2> QED BY <1>1, <2>1, Zenon DEF Saved
<1>15. Family'
  <2>1. \A q \in Procs : parent'[q] = IF parent[q] = p THEN initproc ELSE parent[q]
    BY <1>1, Zenon
  <2>2. \A q \in Procs \ {p} :
          state'[q] = state[q] \/ (state[q] = "SLEEPING" /\ state'[q] = "RUNNABLE")
    BY <1>4, Zenon
  <2>3. state[p] = "RUNNING" /\ state'[p] = "ZOMBIE" /\ p # initproc
    BY <1>1, <1>4, Zenon DEF At
  <2>4. \A q \in Procs : state'[q] \in {"UNUSED", "EMBRYO"} => parent'[q] = NONE
    BY <2>1, <2>2, <2>3, Zenon DEF Family
  <2>5. \A q \in Procs : (state'[q] # "UNUSED" => pid'[q] # 0) /\ parent'[q] # q
    <3>1. \A q \in Procs : state'[q] # "UNUSED" => pid'[q] # 0
      BY <1>1, <2>2, <2>3, Zenon DEF Family
    <3>2. \A q \in Procs : parent'[q] # q
      BY <2>1, Zenon DEF Family
    <3> QED BY <3>1, <3>2, Zenon
  <2>6. parent'[initproc] = NONE /\ state'[initproc] \notin {"UNUSED", "EMBRYO", "ZOMBIE"}
    BY <2>1, <2>2, <2>3, Zenon DEF Family
  <2>7. ASSUME NEW q \in Procs \ {initproc}, state'[q] \notin {"UNUSED", "EMBRYO"}
        PROVE  parent'[q] # NONE /\ state'[parent'[q]] \notin {"UNUSED", "EMBRYO", "ZOMBIE"}
    <3>1. state[q] \notin {"UNUSED", "EMBRYO"}
      BY <2>2, <2>3, <2>7, Zenon
    <3>2. parent[q] \in Procs /\ state[parent[q]] \notin {"UNUSED", "EMBRYO", "ZOMBIE"}
      BY <3>1, Zenon DEF Family, PType
    <3> QED BY <2>1, <2>2, <2>6, <3>2, Zenon
  <2> QED BY <2>4, <2>5, <2>6, <2>7, Zenon DEF Family
<1>16. Waiters'
  <2>1. ASSUME NEW q \in Procs, state'[q] = "SLEEPING", pc'[q] = "wait"
        PROVE  /\ state[q] = "SLEEPING" /\ pc[q] = "wait" /\ chan[q] = q
               /\ q # p /\ q \notin W
    BY <1>1, <1>4, <2>1, Zenon DEF Waiters
  <2>2. ASSUME NEW q \in Procs, state'[q] = "SLEEPING", pc'[q] = "wait",
               NEW k \in Procs, parent'[k] = q, state'[k] = "ZOMBIE"
        PROVE  parent[k] = q /\ state[k] = "ZOMBIE"
    <3>1. CASE parent[k] = p
      <4>1. k # p /\ q = initproc
        BY <1>1, <2>2, <3>1, Zenon DEF Family
      <4> QED BY <1>3, <1>4, <2>1, <2>2, <3>1, <4>1
    <3>2. CASE parent[k] # p
      BY <1>1, <1>3, <1>4, <2>1, <2>2, <3>2, SMTT(30)
    <3> QED BY <3>1, <3>2, Zenon
  <2> QED BY <1>1, <2>1, <2>2, WaitersKept
<1>17. Tickers'
  <2>1. TickCounted => TickCounted'
    BY <1>1, Zenon DEF TickCounted, Stack
  <2> QED BY <1>1, <1>4, <2>1, TickersKept, Zenon
<1> QED BY <1>6, <1>7, <1>8, <1>9, <1>10, <1>11, <1>12, <1>13, <1>14, <1>15, <1>16, <1>17, Zenon

(* wait takes ptable.lock.                                                 *)
LEMMA waitKeeps == ASSUME ProcInv, NEW c \in CPUs, wait(c) PROVE ProcInv'
<1> USE Domains DEF ProcInv
<1>1. PICK p \in Procs :
        /\ At(c, p, "user")
        /\ ptlock = NONE
        /\ ptlock' = c
        /\ pc' = [pc EXCEPT ![p] = "wait"]
        /\ Push(c)
        /\ UNCHANGED <<state, pid, killed, parent, chan, arg, intr, sintena, cur, scan,
                       tickslock, ticks>>
  BY Zenon DEF wait, Syscall, Goto, table
<1>2. Sets(c, FALSE, cli[c].ncli + 1, IF cli[c].ncli = 0 THEN cli[c].iflag ELSE cli[c].intena)
  BY <1>1, Pushes, Zenon
<1>3. Idle' /\ Current' /\ Running'
  BY <1>1, Zenon DEF Idle, Current, Running
<1>4. Family'
  BY <1>1, Zenon DEF Family
<1>5. PType'
  BY <1>1, <1>2, Zenon DEF Sets, PType, Places
<1>6. Placed'
  BY <1>1, SMTT(30) DEF Placed, At
<1>7. Locks'
  BY <1>1 DEF PType, Locks, LocksAt, HoldsPt, HoldsTk, Current, Stack, At
<1>8. Forking'
  BY <1>1 DEF Forking
<1>9. Flags'
  BY <1>1, PushFlags DEF At, Current
<1>10. Saved'
  BY <1>1 DEF Saved, At
<1>11. Waiters'
  BY <1>1, WaitersKept DEF At
<1>12. Tickers'
  <2>1. TickCounted => TickCounted'
    BY <1>1, Zenon DEF TickCounted, Stack
  <2> QED BY <1>1, <2>1, TickersKept
<1> QED BY <1>3, <1>4, <1>5, <1>6, <1>7, <1>8, <1>9, <1>10, <1>11, <1>12

(* wait frees a zombie child.                                              *)
LEMMA waitReapKeeps == ASSUME ProcInv, NEW c \in CPUs, waitReap(c) PROVE ProcInv'
<1> USE Domains DEF ProcInv
<1>1. PICK p, q \in Procs :
        /\ At(c, p, "wait")
        /\ state[q] = "ZOMBIE"
        /\ parent[q] = p
        /\ state' = [state EXCEPT ![q] = "UNUSED"]
        /\ pid' = [pid EXCEPT ![q] = 0]
        /\ parent' = [parent EXCEPT ![q] = NONE]
        /\ killed' = [killed EXCEPT ![q] = FALSE]
        /\ chan' = [chan EXCEPT ![p] = NONE]
        /\ ptlock' = NONE
        /\ pc' = [pc EXCEPT ![p] = "ret", ![q] = "forkret"]
        /\ sintena' = [sintena EXCEPT ![q] = FALSE]
        /\ Pop(c)
        /\ UNCHANGED <<arg, intr, cur, scan, tickslock, ticks>>
  BY Zenon DEF waitReap, Zombies, Kids
<1>2. Sets(c, cli[c].ncli = 1 /\ cli[c].intena, cli[c].ncli - 1, cli[c].ncli > 1 /\ cli[c].intena)
  BY <1>1, Pops, Zenon
<1>3. ptlock = c /\ p # q /\ intr[q] = "none" /\ \A d \in CPUs : cur[d] # q
  BY <1>1 DEF Locks, LocksAt, HoldsPt, At, Placed
<1>4. Idle'
  BY <1>1, Zenon DEF Idle
<1>5. PType'
  BY <1>1, <1>3, <1>2, Zenon DEF Sets, PType, States, Places
<1>6. Placed'
  BY <1>1, <1>3, Zenon DEF PType, Placed, At
<1>7. Current'
  BY <1>1, <1>3 DEF Current
<1>8. Running'
  BY <1>1, <1>3 DEF Running
<1>9. Locks'
  <2>1. LocksAt(c)'
    BY <1>1, <1>3, SMTT(30) DEF PType, Locks, LocksAt, HoldsPt, HoldsTk, At, Stack
  <2>2. ASSUME NEW d \in CPUs \ {c} PROVE LocksAt(d)'
    BY <1>1, <1>3, LocksKept, Zenon DEF PType, Current, At
  <2> QED BY <2>1, <2>2, Zenon DEF Locks
<1>10. Forking'
  BY <1>1, <1>3 DEF PType, Forking
<1>11. Flags'
  BY <1>1, <1>3, PopFlags, ZenonT(30) DEF At, PType, Current
<1>12. Saved'
  BY <1>1, <1>3, Zenon DEF PType, Saved, At
<1>13. Family'
  BY <1>1, <1>3, Zenon DEF PType, Family
<1>14. Waiters'
  BY <1>1, <1>3, WaitersKept, ZenonT(30) DEF PType
<1>15. Tickers'
  <2>1. TickCounted => TickCounted'
    BY <1>1, Zenon DEF TickCounted, Stack
  <2> QED BY <1>1, <1>3, <2>1, TickersKept, Zenon DEF PType
<1> QED BY <1>4, <1>5, <1>6, <1>7, <1>8, <1>9, <1>10, <1>11, <1>12, <1>13, <1>14, <1>15

(* wait returns -1: no children, or killed.                                *)
LEMMA waitNothingKeeps == ASSUME ProcInv, NEW c \in CPUs, waitNothing(c) PROVE ProcInv'
<1> USE Domains DEF ProcInv
<1>1. PICK p \in Procs :
        /\ At(c, p, "wait")
        /\ chan' = [chan EXCEPT ![p] = NONE]
        /\ ptlock' = NONE
        /\ pc' = [pc EXCEPT ![p] = "ret"]
        /\ Pop(c)
        /\ UNCHANGED <<state, pid, killed, parent, arg, intr, sintena, cur, scan, tickslock,
                       ticks>>
  BY Zenon DEF waitNothing, Goto
<1>2. Sets(c, cli[c].ncli = 1 /\ cli[c].intena, cli[c].ncli - 1, cli[c].ncli > 1 /\ cli[c].intena)
  BY <1>1, Pops, Zenon
<1>3. ptlock = c
  BY <1>1, Zenon DEF Locks, LocksAt, HoldsPt, At
<1>4. Idle' /\ Current' /\ Running'
  BY <1>1, Zenon DEF Idle, Current, Running
<1>5. Family'
  BY <1>1, Zenon DEF Family
<1>6. PType'
  BY <1>1, <1>3, <1>2, Zenon DEF Sets, PType, Places
<1>7. Placed'
  BY <1>1, <1>3 DEF Placed, At
<1>8. Locks'
  BY <1>1, <1>3, Zenon DEF PType, Locks, LocksAt, HoldsPt, HoldsTk, Stack, At
<1>9. Forking'
  BY <1>1, <1>3, SMTT(30) DEF Forking
<1>10. Flags'
  BY <1>1, <1>3, PopFlags DEF At, Current
<1>11. Saved'
  BY <1>1, <1>3, SMTT(30) DEF Saved, At
<1>12. Waiters'
  BY <1>1, <1>3, WaitersKept, Zenon DEF PType
<1>13. Tickers'
  <2>1. TickCounted => TickCounted'
    BY <1>1, Zenon DEF TickCounted, Stack
  <2> QED BY <1>1, <1>3, <2>1, TickersKept, Zenon DEF PType
<1> QED BY <1>4, <1>5, <1>6, <1>7, <1>8, <1>9, <1>10, <1>11, <1>12, <1>13

(* wait goes to sleep on itself, the lock still held.                      *)
LEMMA waitSleepKeeps == ASSUME ProcInv, NEW c \in CPUs, waitSleep(c) PROVE ProcInv'
<1> USE Domains DEF ProcInv
<1>1. PICK p \in Procs :
        /\ At(c, p, "wait")
        /\ Zombies(p) = {}
        /\ Kids(p) # {}
        /\ ~killed[p]
        /\ chan' = [chan EXCEPT ![p] = p]
        /\ state' = [state EXCEPT ![p] = "SLEEPING"]
        /\ UNCHANGED <<pid, killed, parent, pc, arg, intr, sintena, cur, scan, cli, ptlock,
                       tickslock, ticks>>
  BY Zenon DEF waitSleep
<1>3. Idle'
  BY <1>1, Zenon DEF Idle
<1>4. Flags'
  BY <1>1, Zenon DEF Flags, FlagsAt, Handler, Stack
<1>5. PType'
  BY <1>1, Zenon DEF PType, States
<1>6. Placed'
  BY <1>1 DEF Placed, At
<1>7. Current'
  BY <1>1 DEF Current
<1>8. Running'
  BY <1>1, SMTT(30) DEF Running
<1>9. Locks'
  BY <1>1 DEF Locks, LocksAt, HoldsPt, HoldsTk, Stack, At
<1>10. Forking'
  BY <1>1 DEF Forking, At
<1>11. Saved'
  BY <1>1, SMTT(30) DEF Saved, At
<1>12. Family'
  BY <1>1, SMTT(30) DEF Family, At
<1>13. Waiters'
  <2>1. ASSUME NEW r \in Procs
        PROVE  Kids(r)' = Kids(r) /\ Zombies(r)' = Zombies(r)
    BY <1>1 DEF Kids, Zombies, At
  <2> QED BY <1>1, <2>1 DEF PType, Waiters
<1>14. Tickers'
  <2>1. TickCounted => TickCounted'
    BY <1>1, Zenon DEF TickCounted, Stack
  <2> QED BY <1>1, <2>1, TickersKept DEF At
<1> QED BY <1>3, <1>4, <1>5, <1>6, <1>7, <1>8, <1>9, <1>10, <1>11, <1>12, <1>13, <1>14, Zenon

----------------------------------------------------------------------------
(* sleep and the timer interrupt.                                          *)

(* sys_sleep takes tickslock and reads ticks.                              *)
LEMMA sleepCallKeeps == ASSUME ProcInv, NEW c \in CPUs, sleepCall(c) PROVE ProcInv'
<1> USE Domains DEF ProcInv
<1>1. PICK p \in Procs, n \in SleepArgs :
        /\ At(c, p, "user")
        /\ tickslock = NONE
        /\ tickslock' = c
        /\ pc' = [pc EXCEPT ![p] = "sleep"]
        /\ arg' = [arg EXCEPT ![p] = <<ticks, n>>]
        /\ Push(c)
        /\ UNCHANGED <<state, pid, killed, parent, chan, intr, sintena, cur, scan, ptlock,
                       ticks>>
  BY Zenon DEF sleepCall, Syscall, Goto, table
<1>2. Sets(c, FALSE, cli[c].ncli + 1, IF cli[c].ncli = 0 THEN cli[c].iflag ELSE cli[c].intena)
  BY <1>1, Pushes, Zenon
<1>3. Idle' /\ Current' /\ Running'
  BY <1>1, Zenon DEF Idle, Current, Running
<1>4. Family'
  BY <1>1, Zenon DEF Family
<1>5. PType'
  BY <1>1, <1>2, Zenon DEF Sets, PType, Places
<1>6. Placed'
  BY <1>1 DEF Placed, At
<1>7. Locks'
  BY <1>1, Zenon DEF PType, Locks, LocksAt, HoldsPt, HoldsTk, Current, Stack, At
<1>8. Forking'
  <2>1. \A q \in Procs : pc'[q] = "fork" => pc[q] = "fork" /\ arg'[q] = arg[q]
    BY <1>1, Zenon DEF PType
  <2>2. state' = state
    BY <1>1, Zenon
  <2> QED BY <2>1, <2>2 DEF Forking
<1>9. Flags'
  BY <1>1, PushFlags DEF At, Current
<1>10. Saved'
  BY <1>1 DEF Saved, At
<1>11. Waiters'
  BY <1>1, WaitersKept
<1>12. Tickers'
  <2>1. TickCounted => TickCounted'
    BY <1>1, Zenon DEF TickCounted, Stack
  <2> QED BY <1>1, <2>1, TickersKept, Zenon DEF PType
<1> QED BY <1>3, <1>4, <1>5, <1>6, <1>7, <1>8, <1>9, <1>10, <1>11, <1>12, Zenon

(* sys_sleep returns: the time is up, or the process was killed.           *)
LEMMA sleepDoneKeeps == ASSUME ProcInv, NEW c \in CPUs, sleepDone(c) PROVE ProcInv'
<1> USE Domains DEF ProcInv
<1>1. PICK p \in Procs :
        /\ At(c, p, "sleep")
        /\ tickslock' = NONE
        /\ pc' = [pc EXCEPT ![p] = "ret"]
        /\ arg' = [arg EXCEPT ![p] = 0]
        /\ Pop(c)
        /\ UNCHANGED <<state, pid, killed, parent, chan, intr, sintena, cur, scan, ptlock,
                       ticks>>
  BY Zenon DEF sleepDone, Goto, table
<1>2. Sets(c, cli[c].ncli = 1 /\ cli[c].intena, cli[c].ncli - 1, cli[c].ncli > 1 /\ cli[c].intena)
  BY <1>1, Pops, Zenon
<1>3. tickslock = c
  BY <1>1, Zenon DEF Locks, LocksAt, HoldsTk, At
<1>4. Idle' /\ Current' /\ Running'
  BY <1>1, Zenon DEF Idle, Current, Running
<1>5. Family'
  BY <1>1, Zenon DEF Family
<1>6. PType'
  BY <1>1, <1>3, <1>2, Zenon DEF Sets, PType, Places
<1>7. Placed'
  BY <1>1, <1>3 DEF Placed, At
<1>8. Locks'
  BY <1>1, <1>3, Zenon DEF PType, Locks, LocksAt, HoldsPt, HoldsTk, Stack, At
<1>9. Forking'
  BY <1>1, <1>3 DEF PType, Forking
<1>10. Flags'
  BY <1>1, <1>3, PopFlags DEF At, Current
<1>11. Saved'
  BY <1>1, <1>3 DEF Saved, At
<1>12. Waiters'
  BY <1>1, <1>3, WaitersKept
<1>13. Tickers'
  <2>1. TickCounted => TickCounted'
    BY <1>1, Zenon DEF TickCounted, Stack
  <2> QED BY <1>1, <1>3, <2>1, TickersKept, Zenon DEF PType
<1> QED BY <1>4, <1>5, <1>6, <1>7, <1>8, <1>9, <1>10, <1>11, <1>12, <1>13

(* sleep takes ptable.lock while it holds tickslock.                       *)
LEMMA sleepLockKeeps == ASSUME ProcInv, NEW c \in CPUs, sleepLock(c) PROVE ProcInv'
<1> USE Domains DEF ProcInv
<1>1. PICK p \in Procs :
        /\ At(c, p, "sleep")
        /\ Early(p)
        /\ ptlock = NONE
        /\ ptlock' = c
        /\ pc' = [pc EXCEPT ![p] = "sleepLocked"]
        /\ Push(c)
        /\ UNCHANGED <<state, pid, killed, parent, chan, arg, intr, sintena, cur, scan,
                       tickslock, ticks>>
  BY Zenon DEF sleepLock, Goto, table
<1>2. Sets(c, FALSE, cli[c].ncli + 1, IF cli[c].ncli = 0 THEN cli[c].iflag ELSE cli[c].intena)
  BY <1>1, Pushes, Zenon
<1>3. Idle' /\ Current' /\ Running'
  BY <1>1, Zenon DEF Idle, Current, Running
<1>4. Family'
  BY <1>1, Zenon DEF Family
<1>5. PType'
  BY <1>1, <1>2, Zenon DEF Sets, PType, Places
<1>6. Placed'
  BY <1>1 DEF Placed, At
<1>7. Locks'
  BY <1>1, Zenon DEF PType, Locks, LocksAt, HoldsPt, HoldsTk, Stack, At
<1>8. Forking'
  BY <1>1 DEF Forking
<1>9. Flags'
  BY <1>1, PushFlags DEF At, Current
<1>10. Saved'
  BY <1>1 DEF Saved, At
<1>11. Waiters'
  BY <1>1, WaitersKept
<1>12. Tickers'
  <2>1. \A q \in Procs : Early(q)' <=> Early(q)
    BY <1>1, Zenon DEF Early, Elapsed
  <2>2. TickCounted => TickCounted'
    BY <1>1, Zenon DEF TickCounted, Stack
  <2> QED BY <1>1, <2>1, <2>2 DEF Tickers
<1> QED BY <1>3, <1>4, <1>5, <1>6, <1>7, <1>8, <1>9, <1>10, <1>11, <1>12

(* sleep releases tickslock and becomes SLEEPING.                          *)
LEMMA sleepSleepKeeps == ASSUME ProcInv, NEW c \in CPUs, sleepSleep(c) PROVE ProcInv'
<1> USE Domains DEF ProcInv
<1>1. PICK p \in Procs :
        /\ At(c, p, "sleepLocked")
        /\ tickslock' = NONE
        /\ chan' = [chan EXCEPT ![p] = TicksChan]
        /\ state' = [state EXCEPT ![p] = "SLEEPING"]
        /\ pc' = [pc EXCEPT ![p] = "slept"]
        /\ Pop(c)
        /\ UNCHANGED <<pid, killed, parent, arg, intr, sintena, cur, scan, ptlock, ticks>>
  BY Zenon DEF sleepSleep, Goto
<1>2. Sets(c, cli[c].ncli = 1 /\ cli[c].intena, cli[c].ncli - 1, cli[c].ncli > 1 /\ cli[c].intena)
  BY <1>1, Pops, Zenon
<1>3. tickslock = c
  BY <1>1, Zenon DEF Locks, LocksAt, HoldsTk, At
<1>4. Idle'
  BY <1>1, Zenon DEF Idle
<1>5. PType'
  BY <1>1, <1>3, <1>2, Zenon DEF Sets, PType, States, Places
<1>6. Placed'
  BY <1>1, <1>3, Zenon DEF PType, Placed, At
<1>7. Current'
  BY <1>1, <1>3 DEF Current
<1>8. Running'
  BY <1>1, <1>3 DEF Running
<1>9. Locks'
  BY <1>1, <1>3, Zenon DEF PType, Locks, LocksAt, HoldsPt, HoldsTk, Stack, At
<1>10. Forking'
  BY <1>1, <1>3 DEF Forking, At
<1>11. Flags'
  BY <1>1, <1>3, PopFlags DEF At, Current
<1>12. Saved'
  BY <1>1, <1>3 DEF Saved, At
<1>13. Family'
  BY <1>1, <1>3 DEF Family, At
<1>14. Waiters'
  BY <1>1, <1>3, WaitersKept, Zenon DEF PType
<1>15. Tickers'
  <2>1. \A q \in Procs : Early(q)' <=> Early(q)
    BY <1>1, Zenon DEF Early, Elapsed
  <2>2. TickCounted => TickCounted'
    BY <1>1, Zenon DEF TickCounted, Stack
  <2> QED BY <1>1, <2>1, <2>2, Zenon DEF Tickers, PType, At
<1> QED BY <1>4, <1>5, <1>6, <1>7, <1>8, <1>9, <1>10, <1>11, <1>12, <1>13, <1>14, <1>15

(* sleep, woken, releases ptable.lock.                                     *)
LEMMA sleepWokenKeeps == ASSUME ProcInv, NEW c \in CPUs, sleepWoken(c) PROVE ProcInv'
<1> USE Domains DEF ProcInv
<1>1. PICK p \in Procs :
        /\ At(c, p, "slept")
        /\ chan' = [chan EXCEPT ![p] = NONE]
        /\ ptlock' = NONE
        /\ pc' = [pc EXCEPT ![p] = "relock"]
        /\ Pop(c)
        /\ UNCHANGED <<state, pid, killed, parent, arg, intr, sintena, cur, scan, tickslock,
                       ticks>>
  BY Zenon DEF sleepWoken, Goto
<1>2. Sets(c, cli[c].ncli = 1 /\ cli[c].intena, cli[c].ncli - 1, cli[c].ncli > 1 /\ cli[c].intena)
  BY <1>1, Pops, Zenon
<1>3. ptlock = c
  BY <1>1, Zenon DEF Locks, LocksAt, HoldsPt, At
<1>4. Idle' /\ Current' /\ Running'
  BY <1>1, Zenon DEF Idle, Current, Running
<1>5. Family'
  BY <1>1, Zenon DEF Family
<1>6. PType'
  BY <1>1, <1>3, <1>2, Zenon DEF Sets, PType, Places
<1>7. Placed'
  BY <1>1, <1>3 DEF Placed, At
<1>8. Locks'
  BY <1>1, <1>3, Zenon DEF PType, Locks, LocksAt, HoldsPt, HoldsTk, Stack, At
<1>9. Forking'
  BY <1>1, <1>3 DEF Forking
<1>10. Flags'
  BY <1>1, <1>3, PopFlags DEF At, Current
<1>11. Saved'
  BY <1>1, <1>3 DEF Saved, At
<1>12. Waiters'
  BY <1>1, <1>3, WaitersKept, Zenon DEF PType
<1>13. Tickers'
  <2>1. TickCounted => TickCounted'
    BY <1>1, Zenon DEF TickCounted, Stack
  <2> QED BY <1>1, <1>3, <2>1, TickersKept, Zenon DEF PType
<1> QED BY <1>4, <1>5, <1>6, <1>7, <1>8, <1>9, <1>10, <1>11, <1>12, <1>13

(* sleep takes tickslock again.                                            *)
LEMMA sleepRelockKeeps == ASSUME ProcInv, NEW c \in CPUs, sleepRelock(c) PROVE ProcInv'
<1> USE Domains DEF ProcInv
<1>1. PICK p \in Procs :
        /\ At(c, p, "relock")
        /\ tickslock = NONE
        /\ tickslock' = c
        /\ pc' = [pc EXCEPT ![p] = "sleep"]
        /\ Push(c)
        /\ UNCHANGED <<state, pid, killed, parent, chan, arg, intr, sintena, cur, scan, ptlock,
                       ticks>>
  BY Zenon DEF sleepRelock, Goto, table
<1>2. Sets(c, FALSE, cli[c].ncli + 1, IF cli[c].ncli = 0 THEN cli[c].iflag ELSE cli[c].intena)
  BY <1>1, Pushes, Zenon
<1>3. Idle' /\ Current' /\ Running'
  BY <1>1, Zenon DEF Idle, Current, Running
<1>4. Family'
  BY <1>1, Zenon DEF Family
<1>5. PType'
  BY <1>1, <1>2, Zenon DEF Sets, PType, Places
<1>6. Placed'
  BY <1>1 DEF Placed, At
<1>7. Locks'
  BY <1>1, Zenon DEF PType, Locks, LocksAt, HoldsPt, HoldsTk, Current, Stack, At
<1>8. Forking'
  BY <1>1 DEF Forking
<1>9. Flags'
  BY <1>1, PushFlags DEF At, Current
<1>10. Saved'
  BY <1>1 DEF Saved, At
<1>11. Waiters'
  BY <1>1, WaitersKept
<1>12. Tickers'
  <2>1. TickCounted => TickCounted'
    BY <1>1, Zenon DEF TickCounted, Stack
  <2> QED BY <1>1, <2>1, TickersKept
<1> QED BY <1>3, <1>4, <1>5, <1>6, <1>7, <1>8, <1>9, <1>10, <1>11, <1>12

(* A timer interrupt: the gate turns the flag off.                         *)
LEMMA timerKeeps == ASSUME ProcInv, NEW c \in CPUs, timer(c) PROVE ProcInv'
<1> USE Domains DEF ProcInv
<1>1. PICK h \in {"tick", "end"} :
        /\ cli[c].iflag
        /\ intr[Stack(c)] = "none"
        /\ intr' = [intr EXCEPT ![Stack(c)] = h]
        /\ cli' = [cli EXCEPT ![c].iflag = FALSE]
        /\ UNCHANGED <<state, pid, killed, parent, chan, pc, arg, sintena, cur, scan, ptlock,
                       tickslock, ticks>>
  BY Zenon DEF timer, Handler, Handle, table
<1>2. Sets(c, FALSE, cli[c].ncli, cli[c].intena)
  BY <1>1, SetsFlag, Zenon
<1>3. /\ Stack(c) \in Stacks /\ \A d \in CPUs \ {c} : Stack(c) # Stack(d)
      /\ (cur[c] = NONE => Stack(c) = -c) /\ (cur[c] # NONE => Stack(c) = cur[c])
      /\ ptlock # c /\ tickslock # c /\ (cur[c] = NONE => scan[c] = 0)
      /\ cur[c] # NONE => state[cur[c]] = "RUNNING" /\ pc[cur[c]] \notin Quiet
  <2>1. cli[c].ncli = 0
    BY <1>1, Zenon DEF Flags, FlagsAt
  <2>2. ptlock # c /\ tickslock # c
    BY <2>1 DEF Flags, FlagsAt
  <2>3. ~HoldsPt(c) /\ ~HoldsTk(c)
    BY <2>2, Zenon DEF Locks, LocksAt
  <2> QED BY <2>2, <2>3, StacksApart, Zenon DEF HoldsPt, HoldsTk, Stack, Quiet
<1>4. Current' /\ Running' /\ Forking'
  BY <1>1, Zenon DEF Current, Running, Forking
<1>5. Family'
  BY <1>1, Zenon DEF Family
<1>6. PType'
  BY <1>1, <1>3, <1>2, Zenon DEF Sets, PType, Handlers
<1>7. Placed'
  BY <1>1, <1>3 DEF Placed
<1>8. Idle'
  BY <1>1, <1>3 DEF PType, Idle
<1>9. Locks'
  <2>1. LocksAt(c)'
    BY <1>1, <1>3 DEF Locks, LocksAt, HoldsPt, HoldsTk, Stack
  <2>2. ASSUME NEW d \in CPUs \ {c} PROVE LocksAt(d)'
    BY <1>1, <1>3, LocksKept
  <2> QED BY <2>1, <2>2, Zenon DEF Locks
<1>10. Flags'
  <2>1. FlagsAt(c)'
    BY <1>1, <1>2, <1>3 DEF PType, Flags, FlagsAt, Handler, Stack
  <2>2. ASSUME NEW d \in CPUs \ {c} PROVE FlagsAt(d)'
    BY <1>1, <1>2, <1>3, StacksApart, FlagsKept
  <2> QED BY <2>1, <2>2, Zenon DEF Flags
<1>11. Saved'
  BY <1>1, <1>3 DEF Saved
<1>12. Waiters'
  BY <1>1, <1>3, WaitersKept, Zenon
<1>13. Tickers'
  <2>1. TickCounted => TickCounted'
    BY <1>1, <1>3 DEF TickCounted, Stack
  <2> QED BY <1>1, <1>3, <2>1, TickersKept, Zenon
<1> QED BY <1>4, <1>5, <1>6, <1>7, <1>8, <1>9, <1>10, <1>11, <1>12, <1>13, Zenon

(* trap on the first CPU counts a tick under tickslock.                    *)
LEMMA tickKeeps == ASSUME ProcInv, NEW c \in CPUs, tick(c) PROVE ProcInv'
<1> USE Domains DEF ProcInv
<1>1. /\ intr[Stack(c)] = "tick"
      /\ tickslock = NONE
      /\ ticks' = (ticks + 1) % TICKS
      /\ tickslock' = c
      /\ intr' = [intr EXCEPT ![Stack(c)] = "wakeup"]
      /\ Push(c)
      /\ UNCHANGED <<state, pid, killed, parent, chan, pc, arg, sintena, cur, scan, ptlock>>
  BY Zenon DEF tick, Handler, Handle, table
<1>2. Sets(c, FALSE, cli[c].ncli + 1, IF cli[c].ncli = 0 THEN cli[c].iflag ELSE cli[c].intena)
  BY <1>1, Pushes, Zenon
<1>3. /\ Stack(c) \in Stacks /\ \A d \in CPUs \ {c} : Stack(c) # Stack(d)
      /\ (cur[c] = NONE => Stack(c) = -c) /\ (cur[c] # NONE => Stack(c) = cur[c])
      /\ \A q \in Procs : pc[q] # "sleepLocked"
      /\ cur[c] # NONE => state[cur[c]] = "RUNNING" /\ pc[cur[c]] \notin Quiet
  <2>1. cur[c] # NONE => pc[cur[c]] \notin Quiet
    BY <1>1, Zenon DEF PType, Placed, Stack
  <2>2. cur[c] # NONE => state[cur[c]] = "RUNNING"
    BY <1>1, <2>1, Zenon DEF PType, Placed, Stack, States, Quiet
  <2>3. ASSUME NEW q \in Procs, pc[q] = "sleepLocked" PROVE FALSE
    <3>1. state[q] = "RUNNING"
      BY <2>3, Zenon DEF PType, Placed, States, Quiet
    <3>2. PICK d \in CPUs : cur[d] = q
      BY <3>1, Zenon DEF Running
    <3> QED BY <1>1, <2>3, <3>2, Zenon DEF Locks, LocksAt, HoldsTk
  <2> QED BY <2>1, <2>2, <2>3, StacksApart, Zenon DEF Stack
<1>4. Current' /\ Running' /\ Forking'
  BY <1>1, Zenon DEF Current, Running, Forking
<1>5. Family'
  BY <1>1, Zenon DEF Family
<1>6. PType'
  BY <1>1, <1>3, <1>2, Zenon DEF Sets, PType, Handlers
<1>7. Placed'
  BY <1>1, <1>3 DEF Placed
<1>8. Idle'
  BY <1>1, <1>3 DEF Idle
<1>9. Locks'
  <2>1. LocksAt(c)'
    BY <1>1, <1>3, Zenon DEF PType, Locks, LocksAt, HoldsPt, HoldsTk, Stack
  <2>2. ASSUME NEW d \in CPUs \ {c} PROVE LocksAt(d)'
    BY <1>1, <1>3, LocksKept
  <2> QED BY <2>1, <2>2, Zenon DEF Locks
<1>10. Flags'
  <2>1. FlagsAt(c)'
    <3>1. Stack(c)' = Stack(c) /\ ~Handler(c, "none") /\ ~Handler(c, "none")'
      BY <1>1, <1>3 DEF Stack, Handler
    <3>2. FlagsAt(c) /\ ptlock # c
      BY <1>1, <1>3, Zenon DEF Flags, Locks, LocksAt, HoldsPt, Quiet, Idle
    <3> QED BY <1>1, <1>2, <1>3, <3>1, <3>2, SMTT(30) DEF FlagsAt, Sets
  <2>2. ASSUME NEW d \in CPUs \ {c} PROVE FlagsAt(d)'
    BY <1>1, <1>2, <1>3, StacksApart, FlagsKept DEF Sets
  <2> QED BY <2>1, <2>2, SMTT(30) DEF Flags
<1>11. Saved'
  BY <1>1, <1>3 DEF Saved
<1>12. Waiters'
  BY <1>1, <1>3, WaitersKept, Zenon
<1>13. Tickers'
  BY <1>1, <1>3, Zenon DEF PType, Tickers, TickCounted, Stack
<1> QED BY <1>4, <1>5, <1>6, <1>7, <1>8, <1>9, <1>10, <1>11, <1>12, <1>13, Zenon

(* trap wakes the sleepers on ticks and releases tickslock.                *)
LEMMA tickWakeupKeeps == ASSUME ProcInv, NEW c \in CPUs, tickWakeup(c) PROVE ProcInv'
<1> USE Domains DEF ProcInv
<1>1. /\ intr[Stack(c)] = "wakeup"
      /\ ptlock = NONE
      /\ state' = [q \in Procs |-> IF state[q] = "SLEEPING" /\ chan[q] = TicksChan
                                     THEN "RUNNABLE" ELSE state[q]]
      /\ tickslock' = NONE
      /\ intr' = [intr EXCEPT ![Stack(c)] = "end"]
      /\ Pop(c)
      /\ UNCHANGED <<pid, killed, parent, chan, pc, arg, sintena, cur, scan, ptlock, ticks>>
  BY Zenon DEF tickWakeup, Handler, Handle, wakeup1
<1>2. Sets(c, cli[c].ncli = 1 /\ cli[c].intena, cli[c].ncli - 1, cli[c].ncli > 1 /\ cli[c].intena)
  BY <1>1, Pops, Zenon
<1>3. /\ Stack(c) \in Stacks /\ \A d \in CPUs \ {c} : Stack(c) # Stack(d)
      /\ (cur[c] = NONE => Stack(c) = -c) /\ (cur[c] # NONE => Stack(c) = cur[c])
      /\ tickslock = c /\ \A d \in CPUs : cur[d] # NONE => state[cur[d]] = "RUNNING"
      /\ cur[c] # NONE => state[cur[c]] = "RUNNING" /\ pc[cur[c]] \notin Quiet
  <2>1. cur[c] # NONE => pc[cur[c]] \notin Quiet
    BY <1>1, Zenon DEF PType, Placed, Stack
  <2>2. cur[c] # NONE => state[cur[c]] = "RUNNING"
    BY <1>1, <2>1, Zenon DEF PType, Placed, Stack, States, Quiet
  <2>3. tickslock = c
    BY <1>1, Zenon DEF Locks, LocksAt, HoldsTk
  <2>4. \A d \in CPUs : cur[d] # NONE => state[cur[d]] = "RUNNING"
    BY <1>1, Zenon DEF Locks, LocksAt, HoldsPt
  <2> QED BY <2>1, <2>2, <2>3, <2>4, StacksApart, Zenon DEF Stack
<1>4. PType'
  BY <1>1, <1>3, <1>2, Zenon DEF Sets, PType, States, Handlers
<1>5. Placed'
  BY <1>1, <1>3 DEF Placed
<1>6. Idle'
  BY <1>1, <1>3 DEF Idle
<1>7. Current'
  BY <1>1, <1>3, Zenon DEF PType, Current
<1>8. Running'
  BY <1>1, <1>3, Zenon DEF Running
<1>9. Locks'
  <2>1. LocksAt(c)'
    BY <1>1, <1>3, Zenon DEF PType, Locks, LocksAt, HoldsPt, HoldsTk, Stack, Quiet
  <2>2. ASSUME NEW d \in CPUs \ {c} PROVE LocksAt(d)'
    BY <1>1, <1>3, LocksKept, SMTT(30) DEF PType
  <2> QED BY <2>1, <2>2 DEF Locks
<1>10. Forking'
  BY <1>1, <1>3, Zenon DEF Forking
<1>11. Flags'
  <2>1. FlagsAt(c)'
    <3>1. Stack(c)' = Stack(c) /\ ~Handler(c, "none") /\ ~Handler(c, "none")'
      BY <1>1, <1>3 DEF Stack, Handler
    <3>2. FlagsAt(c) /\ ptlock # c
      BY <1>1, <1>3, Zenon DEF Flags
    <3> QED BY <1>1, <1>2, <1>3, <3>1, <3>2 DEF FlagsAt, Sets
  <2>2. ASSUME NEW d \in CPUs \ {c} PROVE FlagsAt(d)'
    BY <1>1, <1>2, <1>3, StacksApart, FlagsKept, Zenon DEF Sets, PType
  <2> QED BY <2>1, <2>2 DEF Flags
<1>12. Saved'
  BY <1>1, <1>3, SMTT(30) DEF Saved
<1>13. Family'
  BY <1>1, <1>3, Zenon DEF PType, Family
<1>14. Waiters'
  BY <1>1, <1>3, WaitersKept, Zenon
<1>15. Tickers'
  <2>1. \A q \in Procs : Early(q)' <=> Early(q)
    BY <1>1, Zenon DEF Early, Elapsed
  <2> QED BY <1>1, <2>1, Zenon DEF Tickers
<1> QED BY <1>4, <1>5, <1>6, <1>7, <1>8, <1>9, <1>10, <1>11, <1>12, <1>13, <1>14, <1>15, Zenon

(* trap sends a killed process to exit.                                    *)
LEMMA tickExitKeeps == ASSUME ProcInv, NEW c \in CPUs, tickExit(c) PROVE ProcInv'
<1> USE Domains DEF ProcInv
<1>1. PICK p \in Procs :
        /\ cur[c] = p
        /\ intr[p] \in {"end", "iret"}
        /\ pc' = [pc EXCEPT ![p] = "exit"]
        /\ intr' = [intr EXCEPT ![Stack(c)] = "none"]
        /\ UNCHANGED <<state, pid, killed, parent, chan, arg, sintena, cur, scan, cli, ptlock,
                       tickslock, ticks>>
  BY Zenon DEF tickExit, Handle, Goto, table
<1>3. Stack(c) = p
  BY <1>1, Zenon DEF Stack
<1>4. Current' /\ Running'
  BY <1>1, Zenon DEF Current, Running
<1>5. Family'
  BY <1>1, Zenon DEF Family
<1>6. PType'
  BY <1>1, <1>3, Zenon DEF PType, Places, Handlers
<1>7. Placed'
  BY <1>1, <1>3 DEF Placed, Quiet
<1>8. Idle'
  BY <1>1, <1>3 DEF Idle
<1>9. Locks'
  BY <1>1, <1>3 DEF Locks, LocksAt, HoldsPt, HoldsTk, Placed, Quiet, Stack
<1>10. Forking'
  BY <1>1, <1>3 DEF Forking
<1>11. Flags'
  <2>1. FlagsAt(c)'
    BY <1>1, <1>3, Zenon DEF PType, Flags, FlagsAt, Handler
  <2>2. ASSUME NEW d \in CPUs \ {c} PROVE FlagsAt(d)'
    BY <1>1, <1>3, StacksApart, FlagsKept DEF Stack
  <2> QED BY <2>1, <2>2, SMTT(30) DEF Flags
<1>12. Saved'
  BY <1>1, <1>3 DEF Saved
<1>13. Waiters'
  BY <1>1, <1>3, WaitersKept
<1>14. Tickers'
  <2>1. TickCounted => TickCounted'
    BY <1>1, <1>3 DEF TickCounted, Stack
  <2> QED BY <1>1, <1>3, <2>1, TickersKept
<1> QED BY <1>4, <1>5, <1>6, <1>7, <1>8, <1>9, <1>10, <1>11, <1>12, <1>13, <1>14, Zenon

(* trap yields the CPU of the process it interrupted.                      *)
LEMMA yieldKeeps == ASSUME ProcInv, NEW c \in CPUs, yield(c) PROVE ProcInv'
<1> USE Domains DEF ProcInv
<1>1. PICK p \in Procs :
        /\ cur[c] = p
        /\ intr[p] = "end"
        /\ ptlock = NONE
        /\ ptlock' = c
        /\ state' = [state EXCEPT ![p] = "RUNNABLE"]
        /\ intr' = [intr EXCEPT ![Stack(c)] = "yielded"]
        /\ Push(c)
        /\ UNCHANGED <<pid, killed, parent, chan, pc, arg, sintena, cur, scan, tickslock, ticks>>
  BY Zenon DEF yield, Handle
<1>2. Sets(c, FALSE, cli[c].ncli + 1, IF cli[c].ncli = 0 THEN cli[c].iflag ELSE cli[c].intena)
  BY <1>1, Pushes, Zenon
<1>3. Stack(c) = p /\ state[p] = "RUNNING"
  BY <1>1, Zenon DEF Stack, PType, Placed, States, Quiet
<1>4. PType'
  BY <1>1, <1>3, <1>2, Zenon DEF Sets, PType, States, Handlers
<1>5. Placed'
  BY <1>1, <1>3, Zenon DEF PType, Placed
<1>6. Idle'
  BY <1>1, <1>3 DEF Idle
<1>7. Current'
  BY <1>1, <1>3 DEF Current
<1>8. Running'
  BY <1>1, <1>3, SMTT(30) DEF Running
<1>9. Locks'
  BY <1>1, <1>3 DEF PType, Locks, LocksAt, HoldsPt, HoldsTk, Current, Stack
<1>10. Forking'
  BY <1>1, <1>3, SMTT(30) DEF Forking
<1>11. Flags'
  <2>1. FlagsAt(c)'
    BY <1>1, <1>2, <1>3, SMTT(30) DEF Flags, FlagsAt, Sets, Handler, Stack
  <2>2. ASSUME NEW d \in CPUs \ {c} PROVE FlagsAt(d)'
    BY <1>1, <1>2, <1>3, StacksApart, FlagsKept DEF Sets
  <2> QED BY <2>1, <2>2 DEF Flags
<1>12. Saved'
  BY <1>1, <1>3 DEF Saved
<1>13. Family'
  BY <1>1, <1>3 DEF Family
<1>14. Waiters'
  BY <1>1, <1>3, WaitersKept
<1>15. Tickers'
  <2>1. TickCounted => TickCounted'
    BY <1>1, <1>3 DEF TickCounted, Stack
  <2> QED BY <1>1, <1>3, <2>1, TickersKept
<1> QED BY <1>4, <1>5, <1>6, <1>7, <1>8, <1>9, <1>10, <1>11, <1>12, <1>13, <1>14, <1>15

(* yield, back from sched, releases ptable.lock.                           *)
LEMMA yieldedKeeps == ASSUME ProcInv, NEW c \in CPUs, yielded(c) PROVE ProcInv'
<1> USE Domains DEF ProcInv
<1>1. PICK p \in Procs :
        /\ cur[c] = p
        /\ state[p] = "RUNNING"
        /\ intr[p] = "yielded"
        /\ ptlock' = NONE
        /\ intr' = [intr EXCEPT ![Stack(c)] = "iret"]
        /\ Pop(c)
        /\ UNCHANGED <<state, pid, killed, parent, chan, pc, arg, sintena, cur, scan, tickslock,
                       ticks>>
  BY Zenon DEF yielded, Handle, table
<1>2. Sets(c, cli[c].ncli = 1 /\ cli[c].intena, cli[c].ncli - 1, cli[c].ncli > 1 /\ cli[c].intena)
  BY <1>1, Pops, Zenon
<1>3. ptlock = c /\ Stack(c) = p
  BY <1>1, Zenon DEF Locks, LocksAt, HoldsPt, Stack
<1>4. Current' /\ Running' /\ Forking'
  BY <1>1, Zenon DEF Current, Running, Forking
<1>5. Family'
  BY <1>1, Zenon DEF Family
<1>6. PType'
  BY <1>1, <1>3, <1>2, Zenon DEF Sets, PType, Handlers
<1>7. Placed'
  BY <1>1, <1>3 DEF Placed
<1>8. Idle'
  BY <1>1, <1>3, SMTT(30) DEF Idle
<1>9. Locks'
  BY <1>1, <1>3, SMTT(30) DEF PType, Locks, LocksAt, HoldsPt, HoldsTk, Placed, Quiet, Stack
<1>10. Flags'
  <2>1. FlagsAt(c)'
    <3>1. /\ Stack(c)' = p /\ ~Handler(c, "none") /\ ~Handler(c, "none")'
      BY <1>1, <1>3, Zenon DEF PType, Handler, Stack
    <3>2. FlagsAt(c)
      BY Zenon DEF Flags
    <3>3. cli[c].ncli = (IF tickslock = c THEN 2 ELSE 1) /\ ~cli[c].intena
      BY <1>3, <3>1, <3>2 DEF FlagsAt
    <3>4. cli'[c].ncli = (IF tickslock = c THEN 1 ELSE 0) /\ ~cli'[c].intena /\ ~cli'[c].iflag
      BY <1>2, <3>3 DEF Sets
    <3>5. ptlock' # c /\ tickslock' = tickslock
      BY <1>1, Zenon
    <3> QED BY <3>1, <3>4, <3>5 DEF FlagsAt
  <2>2. ASSUME NEW d \in CPUs \ {c} PROVE FlagsAt(d)'
    <3>1. cli'[d] = cli[d] /\ Stack(d) # Stack(c) /\ Stack(d) \in Stacks
      BY <1>2, StacksApart, Zenon DEF Sets
    <3>2. intr'[Stack(d)] = intr[Stack(d)]
      BY <1>1, <3>1, Zenon DEF PType
    <3> QED BY <1>1, <1>3, <3>1, <3>2, FlagsKept, Zenon
  <2> QED BY <2>1, <2>2 DEF Flags
<1>11. Saved'
  BY <1>1, <1>3 DEF Saved
<1>12. Waiters'
  BY <1>1, <1>3, WaitersKept, Zenon
<1>13. Tickers'
  <2>1. TickCounted => TickCounted'
    BY <1>1, <1>3 DEF TickCounted, Stack
  <2> QED BY <1>1, <1>3, <2>1, TickersKept, Zenon
<1> QED BY <1>4, <1>5, <1>6, <1>7, <1>8, <1>9, <1>10, <1>11, <1>12, <1>13, Zenon

(* trap returns and the flag is on again.                                  *)
LEMMA iretKeeps == ASSUME ProcInv, NEW c \in CPUs, iret(c) PROVE ProcInv'
<1> USE Domains DEF ProcInv
<1>1. /\ intr[Stack(c)] = "iret" \/ (cur[c] = NONE /\ intr[Stack(c)] = "end")
      /\ intr' = [intr EXCEPT ![Stack(c)] = "none"]
      /\ cli' = [cli EXCEPT ![c].iflag = TRUE]
      /\ UNCHANGED <<state, pid, killed, parent, chan, pc, arg, sintena, cur, scan, ptlock,
                     tickslock, ticks>>
  BY Zenon DEF iret, Handler, Handle, table
<1>2. Sets(c, TRUE, cli[c].ncli, cli[c].intena)
  BY <1>1, SetsFlag, Zenon
<1>3. /\ Stack(c) \in Stacks /\ \A d \in CPUs \ {c} : Stack(c) # Stack(d)
      /\ (cur[c] = NONE => Stack(c) = -c) /\ (cur[c] # NONE => Stack(c) = cur[c])
      /\ ptlock # c /\ tickslock # c /\ cli[c].ncli = 0
      /\ cur[c] # NONE => state[cur[c]] = "RUNNING" /\ pc[cur[c]] \notin Quiet
  <2>1. cur[c] # NONE => pc[cur[c]] \notin Quiet
    BY <1>1, Zenon DEF PType, Placed, Stack
  <2>2. cur[c] # NONE => state[cur[c]] = "RUNNING"
    BY <1>1, <2>1, Zenon DEF PType, Placed, Stack, States, Quiet
  <2>3. ptlock # c /\ tickslock # c
    BY <1>1, <2>1, <2>2, Zenon DEF Locks, LocksAt, HoldsPt, HoldsTk, Stack, Quiet, Idle
  <2>4. cli[c].ncli = 0
    BY <2>3 DEF Flags, FlagsAt
  <2> QED BY <2>1, <2>2, <2>3, <2>4, StacksApart, Zenon DEF Stack
<1>4. Current' /\ Running' /\ Forking'
  BY <1>1, Zenon DEF Current, Running, Forking
<1>5. Family'
  BY <1>1, Zenon DEF Family
<1>6. PType'
  BY <1>1, <1>3, <1>2, Zenon DEF Sets, PType, Handlers
<1>7. Placed'
  BY <1>1, <1>3 DEF Placed
<1>8. Idle'
  BY <1>1, <1>3 DEF Idle
<1>9. Locks'
  BY <1>1, <1>3 DEF Locks, LocksAt, HoldsPt, HoldsTk, Stack
<1>10. Flags'
  <2>1. FlagsAt(c)'
    BY <1>1, <1>2, <1>3 DEF PType, FlagsAt, Handler, Stack
  <2>2. ASSUME NEW d \in CPUs \ {c} PROVE FlagsAt(d)'
    BY <1>1, <1>2, <1>3, StacksApart, FlagsKept
  <2> QED BY <2>1, <2>2 DEF Flags
<1>11. Saved'
  BY <1>1, <1>3 DEF Saved
<1>12. Waiters'
  BY <1>1, <1>3, WaitersKept, Zenon
<1>13. Tickers'
  <2>1. TickCounted => TickCounted'
    BY <1>1, <1>3 DEF TickCounted, Stack
  <2> QED BY <1>1, <1>3, <2>1, TickersKept, Zenon
<1> QED BY <1>4, <1>5, <1>6, <1>7, <1>8, <1>9, <1>10, <1>11, <1>12, <1>13

(* The invariant holds after boot.                                         *)
LEMMA InitKeeps == Init => ProcInv
<1> SUFFICES ASSUME Init PROVE ProcInv
  BY Zenon
<1> USE Domains
<1>1. PType
  BY DEF Init, PType, States, Places, Handlers, Flagged, Cli
<1>2. Placed /\ Idle /\ Current /\ Running /\ Forking /\ Saved
  BY Zenon DEF Init, Placed, Idle, Current, Running, Forking, Saved
<1>3. Locks
  BY Zenon DEF Init, Locks, LocksAt, HoldsPt, HoldsTk, Stack
<1>4. ASSUME NEW c \in CPUs PROVE FlagsAt(c)
  <2>1. cli[c].iflag /\ cli[c].ncli = 0
    BY Zenon DEF Init, Cli
  <2>2. cur[c] = NONE /\ ptlock # c /\ tickslock # c /\ Handler(c, "none")
    BY Zenon DEF Init, Handler, Stack
  <2> QED BY <2>1, <2>2 DEF FlagsAt
<1>5. Family
  BY DEF Init, Family, initproc
<1>6. Waiters /\ Tickers
  BY Zenon DEF Init, Waiters, Tickers
<1> QED BY <1>1, <1>2, <1>3, <1>4, <1>5, <1>6, Zenon DEF ProcInv, Flags

(* It depends on the variables only.                                       *)
LEMMA StutterKeeps == ASSUME ProcInv, UNCHANGED vars PROVE ProcInv'
<1> USE DEF vars, ProcInv
<1>1. PType'
  BY Zenon DEF PType
<1>2. Placed' /\ Idle' /\ Current' /\ Running' /\ Forking'
  BY ZenonT(40) DEF Placed, Idle, Current, Running, Forking
<1>3. Saved' /\ Family' /\ Locks'
  BY Zenon DEF Saved, Family, Locks, LocksAt, HoldsPt, HoldsTk, Stack
<1>4. Flags' /\ Tickers'
  BY ZenonT(40) DEF Flags, FlagsAt, Handler, Stack, Tickers, TickCounted, Early, Elapsed
<1>5. Waiters'
  BY WaitersKept, Zenon
<1> QED BY <1>1, <1>2, <1>3, <1>4, <1>5, Zenon

(* Every step of every CPU keeps it.                                       *)
LEMMA NextKeeps == ProcInv /\ [Next]_vars => ProcInv'
<1>1. ASSUME ProcInv, NEW c \in CPUs, \/ schedLock(c) \/ schedPick(c) \/ schedDone(c) \/ sched(c)
                                  \/ forkret(c) \/ killedInUser(c) \/ fault(c) \/ trapret(c)
                                  \/ exitCall(c)
      PROVE  ProcInv'
  BY <1>1, schedLockKeeps, schedPickKeeps, schedDoneKeeps, schedKeeps, forkretKeeps,
     EdgeKeeps, Zenon
<1>2. ASSUME ProcInv, NEW c \in CPUs, \/ allocproc(c) \/ forkFails(c) \/ fork(c) \/ kill(c)
                                  \/ exit(c) \/ wait(c) \/ waitReap(c)
                                  \/ waitNothing(c) \/ waitSleep(c)
      PROVE  ProcInv'
  BY <1>2, allocprocKeeps, forkFailsKeeps, forkKeeps, killKeeps, exitKeeps,
     waitKeeps, waitReapKeeps, waitNothingKeeps, waitSleepKeeps, Zenon
<1>3. ASSUME ProcInv, NEW c \in CPUs, \/ sleepCall(c) \/ sleepDone(c) \/ sleepLock(c)
                                  \/ sleepSleep(c) \/ sleepWoken(c) \/ sleepRelock(c)
      PROVE  ProcInv'
  BY <1>3, sleepCallKeeps, sleepDoneKeeps, sleepLockKeeps, sleepSleepKeeps, sleepWokenKeeps,
     sleepRelockKeeps, Zenon
<1>4. ASSUME ProcInv, NEW c \in CPUs, \/ timer(c) \/ tick(c) \/ tickWakeup(c) \/ tickExit(c)
                                  \/ yield(c) \/ yielded(c) \/ iret(c)
      PROVE  ProcInv'
  BY <1>4, timerKeeps, tickKeeps, tickWakeupKeeps, tickExitKeeps, yieldKeeps, yieldedKeeps,
     iretKeeps, Zenon
<1> QED BY <1>1, <1>2, <1>3, <1>4, StutterKeeps, Zenon DEF Next

(* The invariant holds throughout, for any number of processes and CPUs.   *)
THEOREM ProcInductive == Spec => []ProcInv
<1>1. Init => ProcInv
  BY InitKeeps, Zenon
<1>2. ProcInv /\ [Next]_vars => ProcInv'
  BY NextKeeps, Zenon
<1> QED BY <1>1, <1>2, PTL DEF Spec

(* No kernel stack is used by two CPUs, or freed by wait under a CPU that  *)
(* is still on it: until sched has switched away (proc.c:387-408) its CPU  *)
(* holds ptable.lock.                                                      *)
THEOREM StacksAreSafe == Spec => []StackSafe
<1>1. ProcInv => StackSafe
  BY Zenon DEF ProcInv, Current, Locks, LocksAt, HoldsPt, StackSafe
<1> QED BY <1>1, ProcInductive, PTL

(* No wakeup is lost between the test and the sleep in wait and in         *)
(* sys_sleep: sleep takes ptable.lock before it releases the lock of the   *)
(* condition (proc.c:440-475).                                             *)
THEOREM WakeupsAreNotLost == Spec => []NoLostWakeup
<1>1. ASSUME ProcInv, ptlock = NONE, NEW p \in Procs, state[p] = "SLEEPING"
      PROVE  \/ chan[p] = p /\ Kids(p) # {} /\ Zombies(p) = {} /\ ~killed[p]
             \/ chan[p] = TicksChan /\ (tickslock = NONE => Early(p))
  <2>1. CASE pc[p] = "wait"
    BY <1>1, <2>1, Zenon DEF ProcInv, Waiters
  <2>2. CASE pc[p] = "slept"
    <3>1. tickslock = NONE => ~TickCounted
      BY <1>1, Domains, Zenon DEF ProcInv, Locks, LocksAt, HoldsTk, TickCounted
    <3> QED BY <1>1, <2>2, <3>1, Zenon DEF ProcInv, Tickers
  <2> QED BY <1>1, <2>1, <2>2, Zenon DEF ProcInv, Placed
<1>2. ProcInv => NoLostWakeup
  BY <1>1, Zenon DEF NoLostWakeup
<1> QED BY <1>2, ProcInductive, PTL

(* No interrupt is taken with a spin lock held, ncli always counts the     *)
(* locks held, so that sched's panic (proc.c:397) cannot happen, and user  *)
(* code can always be interrupted.                                         *)
THEOREM InterruptsAreOff == Spec => []InterruptsOff
<1>1. ASSUME ProcInv, NEW c \in CPUs, cur[c] # NONE, state[cur[c]] # "RUNNING"
      PROVE  ptlock = c /\ tickslock # c
  <2>1. ptlock = c /\ cur[c] \in Procs
    BY <1>1, Zenon DEF ProcInv, Locks, LocksAt, HoldsPt, PType
  <2>2. tickslock # c
    BY <1>1, <2>1, Zenon DEF ProcInv, PType, Locks, LocksAt, HoldsTk, Stack, Placed, Quiet, States
  <2> QED BY <2>1, <2>2, Zenon
<1>2. ASSUME ProcInv, NEW c \in CPUs, InUser(Stack(c)), Handler(c, "none")
      PROVE  cli[c].iflag
  <2>1. cur[c] \in Procs /\ pc[cur[c]] = "user" /\ intr[cur[c]] = "none" /\ Stack(c) = cur[c]
    BY <1>2, Domains, Zenon DEF InUser, Stack, Handler
  <2>2. ptlock # c /\ tickslock # c
    BY <2>1, <1>1, <1>2, Domains, Zenon
    DEF ProcInv, Locks, LocksAt, HoldsPt, HoldsTk, Placed, PType, States
  <2> QED BY <1>2, <2>1, <2>2 DEF ProcInv, Flags, FlagsAt
<1>3. ASSUME ProcInv, NEW c \in CPUs
      PROVE  LET held == (IF ptlock = c THEN 1 ELSE 0) + (IF tickslock = c THEN 1 ELSE 0)
             IN  /\ cli[c].ncli = held
                 /\ held > 0 \/ ~Handler(c, "none") => ~cli[c].iflag
                 /\ cur[c] # NONE /\ state[cur[c]] # "RUNNING" => ptlock = c /\ held = 1
                 /\ InUser(Stack(c)) /\ Handler(c, "none") => cli[c].iflag
  <2> DEFINE held == (IF ptlock = c THEN 1 ELSE 0) + (IF tickslock = c THEN 1 ELSE 0)
  <2>1. FlagsAt(c)
    BY <1>3, Zenon DEF ProcInv, Flags
  <2>2. cli[c].ncli = held /\ (held > 0 \/ ~Handler(c, "none") => ~cli[c].iflag)
    BY <2>1 DEF FlagsAt
  <2>3. ptlock = c /\ tickslock # c => held = 1
    OBVIOUS
  <2> HIDE DEF held
  <2>4. cur[c] # NONE /\ state[cur[c]] # "RUNNING" => ptlock = c /\ held = 1
    BY <1>1, <1>3, <2>3, Zenon
  <2> QED BY <1>2, <1>3, <2>2, <2>4, Zenon DEF held
<1>4. ProcInv => InterruptsOff
  BY <1>3, Zenon DEF InterruptsOff
<1> QED BY <1>4, ProcInductive, PTL

(* Every process has a living parent to reap it: exit passes its children  *)
(* to init (proc.c:282-288) before it becomes a zombie.                    *)
THEOREM OrphansAreAdopted == Spec => []Adopted
<1>1. ProcInv => Adopted
  BY Zenon DEF ProcInv, Family, Adopted
<1> QED BY <1>1, ProcInductive, PTL

(* What Lifecycle says of one step.                                        *)
LifeStep ==
  \A p \in Procs :
    /\ state[p] = "ZOMBIE" /\ state'[p] # "ZOMBIE" =>
         /\ state'[p] = "UNUSED" /\ \A c \in CPUs : cur[c] # p
         /\ \E c \in CPUs : cur[c] = parent[p] /\ ptlock = c
    /\ state[p] # "RUNNING" /\ state'[p] = "RUNNING" =>
         /\ state[p] = "RUNNABLE"
         /\ \E c \in CPUs : cur[c] = NONE /\ cur'[c] = p /\ ptlock = c

(* A step that reaps no zombie and starts no process.                      *)
LEMMA NothingBegins ==
  ASSUME \A q \in Procs : /\ state[q] = "ZOMBIE" => state'[q] = "ZOMBIE"
                          /\ state'[q] = "RUNNING" => state[q] = "RUNNING"
  PROVE  LifeStep
BY Zenon DEF LifeStep

(* A zombie is only ever reaped, by its parent under ptable.lock, and a    *)
(* process starts to run only from its CPU's scheduler under ptable.lock   *)
(* (proc.c:313-326 and 365-381).                                           *)
THEOREM LivesAreOrderly == Spec => Lifecycle
<1>1. ASSUME ProcInv, NEW c \in CPUs, schedPick(c) PROVE LifeStep
  <2>1. PICK p \in Procs : /\ cur[c] = NONE /\ scan[c] \in 1..p /\ state[p] = "RUNNABLE"
                           /\ state' = [state EXCEPT ![p] = "RUNNING"]
                           /\ cur' = [cur EXCEPT ![c] = p]
    BY <1>1, Zenon DEF schedPick
  <2>2. ptlock = c /\ cur'[c] = p
    BY <1>1, <2>1, Domains, SMTT(30) DEF ProcInv, PType, Locks, LocksAt, HoldsPt
  <2> QED BY <1>1, <2>1, <2>2 DEF LifeStep
<1>2. ASSUME ProcInv, NEW c \in CPUs, waitReap(c) PROVE LifeStep
  <2>1. PICK p, q \in Procs : /\ At(c, p, "wait") /\ state[q] = "ZOMBIE" /\ parent[q] = p
                              /\ state' = [state EXCEPT ![q] = "UNUSED"]
    BY <1>2, Zenon DEF waitReap, Zombies, Kids
  <2>2. ptlock = c /\ \A d \in CPUs : cur[d] # q
    BY <1>2, <2>1, Domains, Zenon DEF ProcInv, Locks, LocksAt, HoldsPt, At
  <2> QED BY <1>2, <2>1, <2>2 DEF LifeStep, At
<1>3. ASSUME ProcInv, NEW c \in CPUs, allocproc(c) \/ forkFails(c) \/ fork(c) PROVE LifeStep
  <2>1. CASE allocproc(c)
    <3>1. PICK np \in Procs : state[np] = "UNUSED" /\ state' = [state EXCEPT ![np] = "EMBRYO"]
      BY <2>1, Zenon DEF allocproc
    <3> QED BY <1>3, <3>1, NothingBegins
  <2>2. CASE forkFails(c) \/ fork(c)
    <3>1. PICK p \in Procs, s \in {"UNUSED", "RUNNABLE"} :
            At(c, p, "fork") /\ state' = [state EXCEPT ![arg[p]] = s]
      BY <2>2, Zenon DEF forkFails, fork
    <3>2. arg[p] \in Procs /\ state[arg[p]] = "EMBRYO"
      BY <1>3, <3>1, Zenon DEF ProcInv, Forking, At
    <3> QED BY <1>3, <3>1, <3>2, NothingBegins
  <2> QED BY <1>3, <2>1, <2>2, Zenon
<1>4. ASSUME ProcInv, NEW c \in CPUs, kill(c) \/ exit(c) \/ tickWakeup(c) PROVE LifeStep
  <2>1. CASE kill(c)
    <3>1. PICK q \in Procs :
            state' = [state EXCEPT ![q] = IF state[q] = "SLEEPING" THEN "RUNNABLE" ELSE state[q]]
      BY <2>1, Zenon DEF kill
    <3> QED BY <1>4, <3>1, NothingBegins
  <2>2. CASE exit(c)
    <3>1. \E W : \E p \in Procs : state' = [wakeup1(W) EXCEPT ![p] = "ZOMBIE"]
      BY <2>2, Zenon DEF exit
    <3> QED BY <3>1, NothingBegins, Zenon DEF wakeup1
  <2>3. CASE tickWakeup(c)
    <3>1. state' = wakeup1({TicksChan})
      BY <2>3, Zenon DEF tickWakeup
    <3> QED BY <3>1, NothingBegins, Zenon DEF wakeup1
  <2> QED BY <1>4, <2>1, <2>2, <2>3, Zenon
<1>5. ASSUME ProcInv, NEW c \in CPUs, waitSleep(c) \/ sleepSleep(c) \/ yield(c) PROVE LifeStep
  <2>1. PICK p \in Procs, s \in {"SLEEPING", "RUNNABLE"} :
          cur[c] = p /\ state[p] # "ZOMBIE" /\ state' = [state EXCEPT ![p] = s]
    <3>1. CASE waitSleep(c) \/ sleepSleep(c)
      BY <3>1, Zenon DEF waitSleep, sleepSleep, At
    <3>2. CASE yield(c)
      <4>1. PICK p \in Procs :
              cur[c] = p /\ intr[p] = "end" /\ state' = [state EXCEPT ![p] = "RUNNABLE"]
        BY <3>2, Zenon DEF yield
      <4> QED BY <1>5, <4>1, Zenon DEF ProcInv, Placed
    <3> QED BY <1>5, <3>1, <3>2, Zenon
  <2> QED BY <1>5, <2>1, NothingBegins
<1>6. ASSUME state' = state PROVE LifeStep
  BY <1>6, NothingBegins, Zenon
<1>7. ASSUME ProcInv, Next PROVE LifeStep
  <2>1. PICK c \in CPUs :
          \/ state' = state
          \/ schedPick(c) \/ waitReap(c) \/ allocproc(c) \/ forkFails(c) \/ fork(c) \/ kill(c)
          \/ exit(c) \/ tickWakeup(c) \/ waitSleep(c) \/ sleepSleep(c) \/ yield(c)
    BY <1>7, ZenonT(40) DEF Next, table, schedLock, schedDone, sched, forkret, killedInUser, fault,
       trapret, exitCall, wait, waitNothing, sleepCall, sleepDone, sleepLock, sleepWoken,
       sleepRelock, timer, tick, tickExit, yielded, iret
  <2> QED BY <1>1, <1>2, <1>3, <1>4, <1>5, <1>6, <1>7, <2>1, Zenon
<1>8. ProcInv /\ [Next]_vars => [LifeStep]_vars
  BY <1>7, Zenon
<1>9. [LifeStep]_vars <=> [\A p \in Procs :
       /\ state[p] = "ZOMBIE" /\ state'[p] # "ZOMBIE" =>
            /\ state'[p] = "UNUSED" /\ \A c \in CPUs : cur[c] # p
            /\ \E c \in CPUs : cur[c] = parent[p] /\ ptlock = c
       /\ state[p] # "RUNNING" /\ state'[p] = "RUNNING" =>
            /\ state[p] = "RUNNABLE"
            /\ \E c \in CPUs : cur[c] = NONE /\ cur'[c] = p /\ ptlock = c]_vars
  BY Zenon DEF LifeStep
<1> QED BY <1>8, <1>9, ProcInductive, PTL DEF Spec, Lifecycle
=============================================================================
