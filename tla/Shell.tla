-------------------------------- MODULE Shell -------------------------------
(***************************************************************************)
(* The shell at work: its main loop and runcmd (sh.c), and the programs    *)
(* they start, over FileTable and Pipe.  A process of the shell is an      *)
(* interpreter of the instructions below: the system calls that runcmd     *)
(* makes for a command, in order.                                          *)
(***************************************************************************)
EXTENDS FileTable

CONSTANTS
  Cmds,       \* command trees to try, as parsecmd would return them
  Message,    \* what a writing program writes
  FreeCalls   \* system calls of a program that may make any

ASSUME ShellAssumption == Message \in Seq(Bytes)

VARIABLES
  upc,        \* command, branch and instruction of a process
  parent

svars == <<pipeVars, fileVars, upc, parent>>

P0 == -1      \* stands for p[0], the read end
P1 == -2      \* and for p[1], the write end

(* Instructions: <<name, descriptor>>.                                     *)
ScriptPipeLeaky(branch) ==      \* mutated: the right side keeps the write end
  CASE branch = "left" -> <<<<"close", 1>>, <<"dup", P1>>, <<"close", P0>>, <<"close", P1>>,
                            <<"runLeft", 0>>>>
    [] branch = "right" -> <<<<"close", 0>>, <<"dup", P0>>, <<"close", P0>>, <<"runRight", 0>>>>
    [] OTHER -> <<<<"pipe", 0>>, <<"piped", 0>>, <<"forkLeft", 0>>, <<"forkRight", 0>>,
                  <<"close", P0>>, <<"close", P1>>, <<"wait", 0>>, <<"wait", 0>>, <<"exit", 0>>>>

ScriptPipe(branch) ==
  CASE branch = "left" -> <<<<"close", 1>>, <<"dup", P1>>, <<"close", P0>>, <<"close", P1>>,
                            <<"runLeft", 0>>>>
    [] branch = "right" -> <<<<"close", 0>>, <<"dup", P0>>, <<"close", P0>>, <<"close", P1>>,
                             <<"runRight", 0>>>>
    [] OTHER -> <<<<"pipe", 0>>, <<"piped", 0>>, <<"forkLeft", 0>>, <<"forkRight", 0>>,
                  <<"close", P0>>, <<"close", P1>>, <<"wait", 0>>, <<"wait", 0>>, <<"exit", 0>>>>

ScriptList(branch) ==
  IF branch = "left" THEN <<<<"runLeft", 0>>>>
  ELSE <<<<"forkLeft", 0>>, <<"wait", 0>>, <<"runRight", 0>>>>

ScriptBack(branch) ==
  IF branch = "left" THEN <<<<"runLeft", 0>>>>
  ELSE <<<<"forkLeft", 0>>, <<"exit", 0>>>>

ScriptRedir(fd) == <<<<"close", fd>>, <<"open", 0>>, <<"opened", 0>>, <<"runLeft", 0>>>>

(* main: run a command in a child and wait for it.                         *)
ScriptMain(branch) ==
  IF branch = "left" THEN <<<<"runLeft", 0>>>>
  ELSE <<<<"prompt", 0>>, <<"forkLeft", 0>>, <<"wait", 0>>>>

(* Programs: one that writes its output, as echo does, one that reads to   *)
(* the end of its input, as cat and wc do, one that does neither, and one  *)
(* that makes any calls.                                                   *)
ScriptExec(prog) ==
  CASE prog = "writer" -> <<<<"write", 1>>, <<"exit", 0>>>>
    [] prog = "reader" -> <<<<"read", 0>>, <<"again", 0>>, <<"exit", 0>>>>
    [] prog = "none" -> <<<<"exit", 0>>>>
    [] prog = "free" -> [i \in 1..(FreeCalls + 1) |->
                            IF i <= FreeCalls THEN <<"any", 0>> ELSE <<"exit", 0>>]

runcmd(cmd, branch) ==
  CASE cmd.type = "PIPE" -> ScriptPipe(branch)
    [] cmd.type = "LIST" -> ScriptList(branch)
    [] cmd.type = "BACK" -> ScriptBack(branch)
    [] cmd.type = "REDIR" -> ScriptRedir(cmd.fd)
    [] cmd.type = "EXEC" -> ScriptExec(cmd.prog)
    [] cmd.type = "MAIN" -> ScriptMain(branch)

Exec(prog) == [type |-> "EXEC", prog |-> prog]
Run(cmd) == [cmd |-> cmd, branch |-> "main", i |-> 1]
Main(cmd) == Run([type |-> "MAIN", left |-> cmd])

Init ==
  /\ FileInit
  /\ upc = [p \in Procs |-> Main(Exec("none"))] /\ parent = [p \in Procs |-> init]

Script(p) == runcmd(upc[p].cmd, upc[p].branch)
Instr(p, name) == User(p) /\ ~killed[p] /\ Script(p)[upc[p].i][1] = name
Arg(p) == Script(p)[upc[p].i][2]
Fd(p) == CASE Arg(p) = P0 -> pfd[p][1] [] Arg(p) = P1 -> pfd[p][2] [] OTHER -> Arg(p)
Jump(p, i) == upc' = [upc EXCEPT ![p].i = i]
Advance(p) == Jump(p, IF upc[p].i = Len(Script(p)) THEN 1 ELSE upc[p].i + 1)
Become(p, cmd) == upc' = [upc EXCEPT ![p] = Run(cmd)]

----------------------------------------------------------------------------
(* The user types when the last command has left nothing behind.           *)
prompt(p) ==
  /\ Instr(p, "prompt") /\ \A q \in Procs \ {init, sh} : at[q] = "unused"
  /\ \E cmd \in Cmds : upc' = [upc EXCEPT ![p] = [Main(cmd) EXCEPT !.i = 2]]
  /\ ret' = [ret EXCEPT ![p] = 0]
  /\ UNCHANGED <<pipeIdle, fileVars, parent>>

(* runcmd calling itself; the programs of EXEC start at their beginning.   *)
runSub(p) ==
  /\ \/ Instr(p, "runLeft") /\ Become(p, upc[p].cmd.left)
     \/ Instr(p, "runRight") /\ Become(p, upc[p].cmd.right)
  /\ UNCHANGED <<pipeVars, fileVars, parent>>

fork1(p) ==
  /\ Instr(p, "forkLeft") \/ Instr(p, "forkRight")
  /\ \/ \E q \in Procs :
          /\ forkFiles(p, q) /\ \A r \in Procs : at[r] = "unused" => q <= r
          /\ parent' = [parent EXCEPT ![q] = p]
          /\ LET b == IF Instr(p, "forkLeft") THEN "left" ELSE "right"
             IN  upc' = [upc EXCEPT ![p].i = @ + 1,
                                    ![q] = [cmd |-> upc[p].cmd, branch |-> b, i |-> 1]]
     \/ /\ \A q \in Procs : at[q] # "unused"
        /\ Become(p, Exec("none"))                      \* panic("fork")
        /\ UNCHANGED <<pipeVars, fileVars, parent>>

(* The outcome of pipe and of open: panic and exit, or go on.              *)
check(p) ==
  /\ Instr(p, "piped") \/ Instr(p, "opened")
  /\ IF ret[p] = -1 THEN Become(p, Exec("none")) ELSE Advance(p)
  /\ UNCHANGED <<pipeVars, fileVars, parent>>

descriptors(p) ==
  /\ \/ Instr(p, "close") /\ (sys_close(p, Fd(p)) \/ badFd(p, Fd(p)))
     \/ Instr(p, "dup") /\ (sys_dup(p, Fd(p)) \/ badFd(p, Fd(p)))
     \/ Instr(p, "open") /\ sys_open(p)
     \/ Instr(p, "pipe") /\ pipealloc1(p)
     \/ Instr(p, "write") /\ (sys_write(p, Fd(p), Message) \/ badFd(p, Fd(p)))
     \/ Instr(p, "read") /\ (sys_read(p, Fd(p)) \/ badFd(p, Fd(p)))
  /\ Advance(p) /\ UNCHANGED parent

again(p) ==
  /\ Instr(p, "again")
  /\ Jump(p, IF ret[p] > 0 THEN 1 ELSE 3)
  /\ UNCHANGED <<pipeVars, fileVars, parent>>

anyCall(p) ==
  /\ Instr(p, "any")
  /\ \/ \E fd \in Fds :
          \/ sys_close(p, fd) \/ sys_dup(p, fd) \/ badFd(p, fd)
          \/ sys_read(p, fd) \/ sys_write(p, fd, Message)
     \/ sys_open(p) \/ pipealloc1(p)
  /\ Advance(p) /\ UNCHANGED parent

anyFork(p) ==
  \E q \in Procs :
    /\ Instr(p, "any")
    /\ forkFiles(p, q) /\ \A r \in Procs : at[r] = "unused" => q <= r
    /\ parent' = [parent EXCEPT ![q] = p]
    /\ upc' = [upc EXCEPT ![p].i = @ + 1, ![q] = [upc[p] EXCEPT !.i = @ + 1]]

(* exit closes the files, gives the children to init and leaves a zombie.  *)
exit(p) ==
  /\ \/ exitFiles(p) /\ (Instr(p, "exit") \/ killed[p]) /\ UNCHANGED parent
     \/ exitClosed(p) /\ parent' = [q \in Procs |-> IF parent[q] = p THEN init ELSE parent[q]]
  /\ UNCHANGED upc

Reap(q) ==
  /\ at[q] = "zombie" /\ at' = [at EXCEPT ![q] = "unused"]
  /\ parent' = [parent EXCEPT ![q] = init]
  /\ killed' = [killed EXCEPT ![q] = FALSE] /\ pfd' = [pfd EXCEPT ![q] = <<0, 0>>]
  /\ ret' = [ret EXCEPT ![q] = 0]
  /\ UNCHANGED <<pipe, call, chan, buf, got, ref, type, writable, ofile, rf, wf, ff>>

wait(p) ==
  /\ Instr(p, "wait")
  /\ \/ \E q \in Procs :
          /\ parent[q] = p /\ Reap(q)
          /\ upc' = [upc EXCEPT ![q] = Main(Exec("none")),
                                ![p].i = IF @ = Len(Script(p)) THEN 1 ELSE @ + 1]
     \/ /\ \A q \in Procs : at[q] # "unused" => parent[q] # p
        /\ Advance(p) /\ UNCHANGED <<pipeVars, fileVars, parent>>

(* init waits for anybody.                                                 *)
initWait(q) ==
  /\ parent[q] = init /\ Reap(q)
  /\ upc' = [upc EXCEPT ![q] = Main(Exec("none"))]

(* Somebody kills a program, one at a time.                                *)
kill(q) ==
  /\ at[q] \notin {"unused", "zombie", "init"} /\ upc[q].cmd.type = "EXEC"
  /\ \A r \in Procs : ~killed[r]
  /\ killed' = [killed EXCEPT ![q] = TRUE] /\ chan' = [chan EXCEPT ![q] = ""]
  /\ UNCHANGED <<pipe, call, buf, got, ret, fileVars, upc, parent>>

Works(p) ==
  \/ runSub(p) \/ fork1(p) \/ check(p) \/ descriptors(p) \/ again(p) \/ anyCall(p)
  \/ anyFork(p) \/ exit(p) \/ wait(p) \/ initWait(p)
  \/ (PipeStep(p) /\ UNCHANGED <<fileVars, upc, parent>>)
  \/ (FileStep(p) /\ UNCHANGED <<upc, parent>>)

Next == \E p \in Procs : prompt(p) \/ Works(p) \/ kill(p)

(* A process that can run does: the scheduler takes the runnable ones in   *)
(* turn and the timer takes the CPU back.  The user may stop typing.       *)
Spec == Init /\ [][Next]_svars /\ \A p \in Procs : WF_svars(Works(p))

----------------------------------------------------------------------------
(* A program that a pipeline started has the pipe where it expects it and  *)
(* nowhere else: no other descriptor of it keeps an end open (sh.c:109).   *)
Wired ==
  \A p \in Procs : User(p) /\ upc[p].branch = "main" /\ upc[p].i = 1 /\ upc[p].cmd.type = "EXEC"
                      /\ parent[p] # init /\ upc[parent[p]].cmd.type = "PIPE" =>
    \A fd \in Fds : LET f == ofile[p][fd] IN
      f # 0 /\ type[f] = "FD_PIPE" => fd = IF writable[f] THEN 1 ELSE 0

(* A pipeline ends: its writer is not left in a full pipe, nor its reader  *)
(* in an empty one, whoever is killed or ends early, and the shell prompts *)
(* again (sh.c:105, pipe.c:83, 104).                                        *)
PipelineEnds ==
  upc[sh].i > 1 /\ upc[sh].cmd.left.type # "EXEC" ~> upc[sh].i = 1
=============================================================================
