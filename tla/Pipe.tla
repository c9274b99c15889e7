-------------------------------- MODULE Pipe --------------------------------
(***************************************************************************)
(* A pipe (pipe.c).  A call holds p->lock except while it sleeps, so the   *)
(* part of pipewrite or piperead between two sleeps is one step.           *)
(***************************************************************************)
EXTENDS Integers, Sequences

CONSTANTS
  Procs,
  PIPESIZE,
  WORD,     \* nread and nwrite are unsigned words: they wrap here
  Bytes,
  READN     \* bytes a reader asks for

ASSUME PipeAssumption ==
  /\ PIPESIZE \in Nat \ {0} /\ WORD \in Nat /\ WORD > PIPESIZE /\ WORD % PIPESIZE = 0
  /\ READN \in Nat \ {0}

VARIABLES
  pipe,      \* the pipe's page and its fields; quit, which the code does not have,
             \* records that a killed writer left without waking the readers, and
             \* that no writer has woken them since
  call,      \* the pipe call a process is in: "write", "read" or "none"
  chan,      \* the channel it sleeps on: &p->nread, &p->nwrite or ""
  buf,       \* bytes a writer has not put yet
  got,       \* bytes the last piperead copied
  ret,       \* what the last system call returned
  killed

pipeVars == <<pipe, call, chan, buf, got, ret, killed>>

NoPipe == [alloc |-> FALSE, readopen |-> FALSE, writeopen |-> FALSE,
           nread |-> 0, nwrite |-> 0, data |-> [i \in 0..(PIPESIZE - 1) |-> 0],
           quit |-> FALSE]

PipeInit ==
  /\ pipe = NoPipe
  /\ call = [p \in Procs |-> "none"] /\ chan = [p \in Procs |-> ""]
  /\ buf = [p \in Procs |-> <<>>] /\ got = <<>>
  /\ ret = [p \in Procs |-> 0] /\ killed = [p \in Procs |-> FALSE]

pipeNew == [NoPipe EXCEPT !.alloc = TRUE, !.readopen = TRUE, !.writeopen = TRUE]

wakeup(c) == [p \in Procs |-> IF chan[p] = c THEN "" ELSE chan[p]]

Returns(p, r) == call' = [call EXCEPT ![p] = "none"] /\ ret' = [ret EXCEPT ![p] = r]

Used == (pipe.nwrite + WORD - pipe.nread) % WORD
Contents == [i \in 1..Used |-> pipe.data[((pipe.nread + i - 1) % WORD) % PIPESIZE]]

(* The page after the loop of pipewrite copied the bytes of s; quits says  *)
(* whether the writer leaves without the wakeup.                           *)
PutNoWrap(s, quits) ==      \* mutated: nwrite is used as the index, without wrapping it
  [pipe EXCEPT
     !.quit = quits,
     !.nwrite = (@ + Len(s)) % WORD,
     !.data = [i \in DOMAIN @ |-> IF i - pipe.nwrite \in 0..(Len(s) - 1)
                                    THEN s[i - pipe.nwrite + 1] ELSE @[i]]]

Put(s, quits) ==
  [pipe EXCEPT
     !.quit = quits,
     !.nwrite = (@ + Len(s)) % WORD,
     !.data = [i \in DOMAIN @ |->
                 LET js == {j \in 1..Len(s) : ((pipe.nwrite + j - 1) % WORD) % PIPESIZE = i}
                 IN  IF js = {} THEN @[i] ELSE s[CHOOSE j \in js : TRUE]]]

Unput(p) == LET n == PIPESIZE - Used IN SubSeq(buf[p], n + 1, Len(buf[p]))

pipewriteDone(p) ==
  /\ call[p] = "write" /\ chan[p] = "" /\ Unput(p) = <<>>
  /\ pipe' = Put(buf[p], FALSE) /\ buf' = [buf EXCEPT ![p] = <<>>]
  /\ chan' = wakeup("nread") /\ Returns(p, Len(buf[p]))
  /\ UNCHANGED <<got, killed>>

(* The pipe is full, and only then is the read end looked at.  The bytes   *)
(* that fitted stay in the pipe and no reader is woken.                    *)
pipewriteFails(p) ==
  /\ call[p] = "write" /\ chan[p] = "" /\ Unput(p) # <<>>
  /\ ~pipe.readopen \/ killed[p]
  /\ pipe' = Put(SubSeq(buf[p], 1, PIPESIZE - Used), killed[p])
  /\ buf' = [buf EXCEPT ![p] = <<>>]
  /\ Returns(p, -1)
  /\ UNCHANGED <<chan, got, killed>>

pipewriteSleepsQuietly(p) ==     \* mutated: no wakeup(&p->nread) before the sleep
  /\ call[p] = "write" /\ chan[p] = "" /\ Unput(p) # <<>>
  /\ pipe.readopen /\ ~killed[p]
  /\ pipe' = Put(SubSeq(buf[p], 1, PIPESIZE - Used), FALSE)
  /\ buf' = [buf EXCEPT ![p] = Unput(p)]
  /\ chan' = [chan EXCEPT ![p] = "nwrite"]
  /\ UNCHANGED <<call, got, ret, killed>>

pipewriteSleeps(p) ==
  /\ call[p] = "write" /\ chan[p] = "" /\ Unput(p) # <<>>
  /\ pipe.readopen /\ ~killed[p]
  /\ pipe' = Put(SubSeq(buf[p], 1, PIPESIZE - Used), FALSE)
  /\ buf' = [buf EXCEPT ![p] = Unput(p)]
  /\ chan' = [wakeup("nread") EXCEPT ![p] = "nwrite"]
  /\ UNCHANGED <<call, got, ret, killed>>

pipereadDone(p) ==
  /\ call[p] = "read" /\ chan[p] = "" /\ (Used > 0 \/ ~pipe.writeopen)
  /\ LET n == IF READN < Used THEN READN ELSE Used
     IN  /\ got' = SubSeq(Contents, 1, n)
         /\ pipe' = [pipe EXCEPT !.nread = (@ + n) % WORD]
         /\ Returns(p, n)
  /\ chan' = wakeup("nwrite")
  /\ UNCHANGED <<buf, killed>>

pipereadFails(p) ==
  /\ call[p] = "read" /\ chan[p] = "" /\ Used = 0 /\ pipe.writeopen /\ killed[p]
  /\ Returns(p, -1)
  /\ UNCHANGED <<pipe, chan, buf, got, killed>>

pipereadSleeps(p) ==
  /\ call[p] = "read" /\ chan[p] = "" /\ Used = 0 /\ pipe.writeopen /\ ~killed[p]
  /\ chan' = [chan EXCEPT ![p] = "nread"]
  /\ UNCHANGED <<pipe, call, buf, got, ret, killed>>

(* The fields after pipeclose; the page is freed with the second end.      *)
pipeclosed(writable) ==
  LET q == IF writable THEN [pipe EXCEPT !.writeopen = FALSE]
                       ELSE [pipe EXCEPT !.readopen = FALSE]
  IN  IF q.readopen \/ q.writeopen THEN q ELSE NoPipe

PipeStep(p) ==
  \/ pipewriteDone(p) \/ pipewriteFails(p) \/ pipewriteSleeps(p)
  \/ pipereadDone(p) \/ pipereadFails(p) \/ pipereadSleeps(p)

----------------------------------------------------------------------------
Fifo == INSTANCE BoundedFifo WITH
  SIZE <- PIPESIZE, Writers <- Procs, src <- buf, queue <- Contents,
  ropen <- pipe.readopen, wopen <- pipe.writeopen

(* The pipe is a bounded first-in first-out queue with an end of file,     *)
(* also after the counters have wrapped (pipe.c:91, 114).                  *)
PipeIsFifo == Fifo!Spec

(* Nobody sleeps in a pipe who could go on: a writer sleeps only while the *)
(* pipe is full and can be read, a reader only while it is empty and can   *)
(* be written.  The exception is the code's: a writer that was killed      *)
(* returns from a full pipe without waking the readers (pipe.c:83).        *)
PipeSleepersWoken ==
  \A p \in Procs :
    /\ chan[p] = "nwrite" => Used = PIPESIZE /\ pipe.readopen
    /\ chan[p] = "nread" =>
         pipe.writeopen /\ (Used = 0 \/ pipe.quit)
=============================================================================
