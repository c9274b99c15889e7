------------------------------ MODULE FileTable -----------------------------
(***************************************************************************)
(* Open files: the table of struct file with its reference counts (file.c) *)
(* and the descriptor tables of processes (sysfile.c, fork, exit), over    *)
(* the pipe that some of the files are the ends of.  Directories, i-nodes  *)
(* and devices are one kind of file here, FD_INODE, without contents.      *)
(***************************************************************************)
EXTENDS Pipe, FiniteSets

CONSTANTS
  NFILE,    \* entries of ftable
  NOFILE    \* descriptors of a process

Files == 1..NFILE
Fds == 0..(NOFILE - 1)
init == 1     \* init and its shell are there from the start
sh == 2

ASSUME FileAssumption ==
  /\ IsFiniteSet(Procs) /\ Procs \subseteq Nat \ {0} /\ {init, sh} \subseteq Procs
  /\ NFILE \in Nat \ {0} /\ NOFILE \in Nat /\ NOFILE >= 2

VARIABLES
  ref, type, writable,   \* fields of struct file
  ofile,     \* the descriptors of a process: a file, or 0
  at,        \* what a process is doing: see the actions
  rf, wf,    \* files it has in locals: of sys_pipe, or f of sys_close in rf; or 0
  pfd,       \* the two descriptors sys_pipe stored in its memory
  ff         \* fileclose's copy of the file whose last reference went

fileVars == <<ref, type, writable, ofile, at, rf, wf, pfd, ff>>
locals == <<rf, wf, pfd, ff>>

(* init and the shell have the console as descriptors 0 and 1.             *)
FileInit ==
  /\ PipeInit
  /\ ref = [f \in Files |-> IF f = 1 THEN 4 ELSE 0]
  /\ type = [f \in Files |-> IF f = 1 THEN "FD_INODE" ELSE "FD_NONE"]
  /\ writable = [f \in Files |-> f = 1]
  /\ ofile = [p \in Procs |-> [fd \in Fds |-> IF p <= sh /\ fd < 2 THEN 1 ELSE 0]]
  /\ at = [p \in Procs |-> CASE p = init -> "init" [] p = sh -> "user" [] OTHER -> "unused"]
  /\ pfd = [p \in Procs |-> <<0, 0>>]
  /\ rf = [p \in Procs |-> 0] /\ wf = [p \in Procs |-> 0]
  /\ ff = [p \in Procs |-> "none"]

Free(f) == ref[f] = 0 /\ \A g \in 1..(f - 1) : ref[g] # 0
TableFull == \A f \in Files : ref[f] # 0
FreeFd(p, fd) == ofile[p][fd] = 0 /\ \A d \in 0..(fd - 1) : ofile[p][d] # 0
NoFd(p) == \A fd \in Fds : ofile[p][fd] # 0

User(p) == at[p] = "user" /\ call[p] = "none"
Goto(p, where) == at' = [at EXCEPT ![p] = where]
SetRet(p, r) == ret' = [ret EXCEPT ![p] = r]
pipeIdle == <<pipe, call, chan, buf, got, killed>>

----------------------------------------------------------------------------
(* fileclose: the count goes down under ftable.lock, the pipe is closed    *)
(* after the lock was released.                                            *)
filecloseHolds(p, f) ==     \* mutated: the entry is not cleared, only counted down
  /\ ref' = [ref EXCEPT ![f] = @ - 1]
  /\ ff' = [ff EXCEPT ![p] =
       IF type[f] # "FD_PIPE" THEN "none" ELSE IF writable[f] THEN "w" ELSE "r"]
  /\ type' = IF ref[f] > 1 THEN type ELSE [type EXCEPT ![f] = "FD_NONE"]

fileclose(p, f) ==
  /\ ref' = [ref EXCEPT ![f] = @ - 1]
  /\ ff' = [ff EXCEPT ![p] = IF ref[f] > 1 \/ type[f] # "FD_PIPE" THEN "none"
                             ELSE IF writable[f] THEN "w" ELSE "r"]
  /\ type' = IF ref[f] > 1 THEN type ELSE [type EXCEPT ![f] = "FD_NONE"]

pipeclose(p) ==
  /\ ff[p] # "none"
  /\ pipe' = pipeclosed(ff[p] = "w")
  /\ chan' = wakeup(IF ff[p] = "w" THEN "nread" ELSE "nwrite")
  /\ ff' = [ff EXCEPT ![p] = "none"]
  /\ got' = IF pipe'.alloc THEN got ELSE <<>>
  /\ UNCHANGED <<call, buf, ret, killed, ref, type, writable, ofile, at, rf, wf, pfd>>

(* A process closes what its locals hold, rf first, and returns.           *)
closeLocal(p) ==
  /\ at[p] = "close" /\ ff[p] = "none"
  /\ \/ /\ rf[p] # 0 /\ fileclose(p, rf[p])
        /\ rf' = [rf EXCEPT ![p] = 0] /\ UNCHANGED wf
     \/ /\ rf[p] = 0 /\ wf[p] # 0 /\ fileclose(p, wf[p])
        /\ wf' = [wf EXCEPT ![p] = 0] /\ UNCHANGED rf
  /\ UNCHANGED <<pipeVars, writable, ofile, at, pfd>>

closed(p) ==
  /\ at[p] = "close" /\ ff[p] = "none" /\ rf[p] = 0 /\ wf[p] = 0
  /\ Goto(p, "user")
  /\ UNCHANGED <<pipeVars, ref, type, writable, ofile, locals>>

----------------------------------------------------------------------------
(* System calls on descriptors.                                            *)

sys_close(p, fd) ==
  /\ User(p) /\ fd \in Fds /\ ofile[p][fd] # 0
  /\ ofile' = [ofile EXCEPT ![p][fd] = 0]
  /\ rf' = [rf EXCEPT ![p] = ofile[p][fd]]
  /\ Goto(p, "close") /\ SetRet(p, 0)
  /\ UNCHANGED <<pipeIdle, ref, type, writable, wf, pfd, ff>>

(* argfd's refusal, common to the calls that take a descriptor.            *)
badFd(p, fd) ==
  /\ User(p) /\ (fd \notin Fds \/ ofile[p][fd] = 0)
  /\ SetRet(p, -1)
  /\ UNCHANGED <<pipeIdle, fileVars>>

sys_dupUncounted(p, fd) ==      \* mutated: no filedup
  /\ User(p) /\ fd \in Fds /\ ofile[p][fd] # 0
  /\ \/ \E d \in Fds :
          /\ FreeFd(p, d)
          /\ ofile' = [ofile EXCEPT ![p][d] = ofile[p][fd]]
          /\ SetRet(p, d) /\ UNCHANGED ref
     \/ NoFd(p) /\ SetRet(p, -1) /\ UNCHANGED <<ofile, ref>>
  /\ UNCHANGED <<pipeIdle, type, writable, at, locals>>

sys_dup(p, fd) ==
  /\ User(p) /\ fd \in Fds /\ ofile[p][fd] # 0
  /\ \/ \E d \in Fds :
          /\ FreeFd(p, d)
          /\ ofile' = [ofile EXCEPT ![p][d] = ofile[p][fd]]
          /\ ref' = [ref EXCEPT ![ofile[p][fd]] = @ + 1]
          /\ SetRet(p, d)
     \/ NoFd(p) /\ SetRet(p, -1) /\ UNCHANGED <<ofile, ref>>
  /\ UNCHANGED <<pipeIdle, type, writable, at, locals>>

(* fileread and filewrite; what an i-node holds is not modelled here.      *)
sys_read(p, fd) ==
  /\ User(p) /\ fd \in Fds /\ ofile[p][fd] # 0
  /\ LET f == ofile[p][fd]
     IN  \/ type[f] = "FD_PIPE" /\ ~writable[f]
            /\ call' = [call EXCEPT ![p] = "read"] /\ UNCHANGED ret
         \/ type[f] = "FD_PIPE" /\ writable[f] /\ SetRet(p, -1) /\ UNCHANGED call
         \/ type[f] = "FD_INODE" /\ SetRet(p, 0) /\ UNCHANGED call
  /\ UNCHANGED <<pipe, chan, buf, got, killed, fileVars>>

sys_write(p, fd, s) ==
  /\ User(p) /\ fd \in Fds /\ ofile[p][fd] # 0
  /\ LET f == ofile[p][fd]
     IN  \/ type[f] = "FD_PIPE" /\ writable[f] /\ buf' = [buf EXCEPT ![p] = s]
            /\ call' = [call EXCEPT ![p] = "write"] /\ UNCHANGED ret
         \/ type[f] = "FD_PIPE" /\ ~writable[f] /\ SetRet(p, -1) /\ UNCHANGED <<call, buf>>
         \/ type[f] = "FD_INODE" /\ SetRet(p, Len(s)) /\ UNCHANGED <<call, buf>>
  /\ UNCHANGED <<pipe, chan, got, killed, fileVars>>

(* sys_open's part in the table: filealloc, then fdalloc, or both undone.  *)
sys_open(p) ==
  /\ User(p)
  /\ \/ \E f \in Files, fd \in Fds :
          /\ Free(f) /\ FreeFd(p, fd)
          /\ ref' = [ref EXCEPT ![f] = 1] /\ type' = [type EXCEPT ![f] = "FD_INODE"]
          /\ writable' = [writable EXCEPT ![f] = TRUE]
          /\ ofile' = [ofile EXCEPT ![p][fd] = f] /\ SetRet(p, fd)
     \/ /\ TableFull \/ NoFd(p)
        /\ SetRet(p, -1) /\ UNCHANGED <<ref, type, writable, ofile>>
  /\ UNCHANGED <<pipeIdle, at, locals>>

(* sys_pipe and pipealloc: two files, the page, two descriptors.  What was *)
(* got is given back when the next is not to be had.  kalloc may always    *)
(* fail, and has at most one page for pipes.                               *)
GiveBack(p) == Goto(p, "close") /\ SetRet(p, -1)

pipealloc1(p) ==
  /\ User(p)
  /\ \/ \E f \in Files :
          /\ Free(f) /\ ref' = [ref EXCEPT ![f] = 1]
          /\ rf' = [rf EXCEPT ![p] = f] /\ Goto(p, "pipe1") /\ UNCHANGED ret
     \/ TableFull /\ SetRet(p, -1) /\ UNCHANGED <<ref, rf, at>>
  /\ UNCHANGED <<pipeIdle, type, writable, ofile, wf, pfd, ff>>

pipealloc2(p) ==
  /\ at[p] = "pipe1"
  /\ \/ \E f \in Files :
          /\ Free(f) /\ ref' = [ref EXCEPT ![f] = 1]
          /\ wf' = [wf EXCEPT ![p] = f] /\ Goto(p, "pipe2") /\ UNCHANGED ret
     \/ TableFull /\ GiveBack(p) /\ UNCHANGED <<ref, wf>>
  /\ UNCHANGED <<pipeIdle, type, writable, ofile, rf, pfd, ff>>

NewEnds(p) ==
  /\ ~pipe.alloc /\ pipe' = pipeNew
  /\ type' = [type EXCEPT ![rf[p]] = "FD_PIPE", ![wf[p]] = "FD_PIPE"]
  /\ writable' = [writable EXCEPT ![rf[p]] = FALSE, ![wf[p]] = TRUE]

sys_pipe(p) ==
  /\ at[p] = "pipe2"
  /\ \/ GiveBack(p) /\ UNCHANGED <<pipe, type, writable, ofile, pfd, rf, wf>>
     \/ /\ Cardinality({fd \in Fds : ofile[p][fd] = 0}) < 2
        /\ NewEnds(p) /\ GiveBack(p) /\ UNCHANGED <<ofile, pfd, rf, wf>>
     \/ \E fd0, fd1 \in Fds :
          /\ FreeFd(p, fd0) /\ fd0 < fd1 /\ ofile[p][fd1] = 0
          /\ \A d \in (fd0 + 1)..(fd1 - 1) : ofile[p][d] # 0
          /\ ofile' = [ofile EXCEPT ![p][fd0] = rf[p], ![p][fd1] = wf[p]]
          /\ rf' = [rf EXCEPT ![p] = 0] /\ wf' = [wf EXCEPT ![p] = 0]
          /\ pfd' = [pfd EXCEPT ![p] = <<fd0, fd1>>]
          /\ NewEnds(p) /\ Goto(p, "user") /\ SetRet(p, 0)
  /\ UNCHANGED <<call, chan, buf, got, killed, ref, ff>>

(* fork and exit, as far as files go.                                      *)
Uses(tab, f) == Cardinality({fd \in Fds : tab[fd] = f})

forkFiles(p, q) ==
  /\ User(p) /\ at[q] = "unused"
  /\ ofile' = [ofile EXCEPT ![q] = ofile[p]]
  /\ ref' = [f \in Files |-> ref[f] + Uses(ofile[p], f)]
  /\ Goto(q, "user") /\ ret' = [ret EXCEPT ![p] = q, ![q] = 0]
  /\ pfd' = [pfd EXCEPT ![q] = pfd[p]] /\ killed' = [killed EXCEPT ![q] = FALSE]
  /\ UNCHANGED <<pipe, call, chan, buf, got, type, writable, rf, wf, ff>>

(* exit begins; it closes the descriptors in turn; all are closed.         *)
exitFiles(p) ==
  /\ User(p) /\ Goto(p, "exit")
  /\ UNCHANGED <<pipeVars, ref, type, writable, ofile, locals>>

exitClose(p) ==
  /\ at[p] = "exit" /\ ff[p] = "none"
  /\ \E fd \in Fds :
       /\ ofile[p][fd] # 0 /\ \A d \in 0..(fd - 1) : ofile[p][d] = 0
       /\ fileclose(p, ofile[p][fd]) /\ ofile' = [ofile EXCEPT ![p][fd] = 0]
  /\ UNCHANGED <<pipeVars, writable, at, rf, wf, pfd>>

exitClosed(p) ==
  /\ at[p] = "exit" /\ ff[p] = "none" /\ \A fd \in Fds : ofile[p][fd] = 0
  /\ Goto(p, "zombie")
  /\ UNCHANGED <<pipeVars, ref, type, writable, ofile, locals>>

FileStep(p) ==
  \/ closeLocal(p) \/ exitClose(p) \/ pipeclose(p) \/ closed(p)
  \/ pipealloc2(p) \/ sys_pipe(p)

----------------------------------------------------------------------------
(* The count of a file is the number of descriptors and of kernel locals   *)
(* that refer to it, so that it is closed exactly when the last of them    *)
(* goes (file.c:61, sysfile.c:433).                                        *)
RefExact ==
  \A f \in Files :
    ref[f] = Cardinality({x \in Procs \X Fds : ofile[x[1]][x[2]] = f})
               + Cardinality({p \in Procs : rf[p] = f})
               + Cardinality({p \in Procs : wf[p] = f})

(* An end of the pipe is open while a file refers to it, or until the      *)
(* pipeclose that its last fileclose leads to; so a process inside piperead*)
(* or pipewrite has a pipe, and its own end of it, under it (file.c:71).   *)
PipeEnds ==
  /\ \A w \in BOOLEAN :
       (IF w THEN pipe.writeopen ELSE pipe.readopen) <=>
         \/ \E f \in Files : ref[f] > 0 /\ type[f] = "FD_PIPE" /\ writable[f] = w
         \/ \E p \in Procs : ff[p] = (IF w THEN "w" ELSE "r")
  /\ \A p \in Procs : /\ call[p] = "write" => pipe.alloc /\ pipe.writeopen
                      /\ call[p] = "read" => pipe.alloc /\ pipe.readopen
=============================================================================
