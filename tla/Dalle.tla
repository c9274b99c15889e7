------------------------------- MODULE Dalle -------------------------------
(***************************************************************************)
(* The programs that use the shared memory, over SharedMem: the shell runs *)
(* dalle, dalle registers its structures and starts liSa and coMMa, which  *)
(* attach to them, and waits for both.  A location of a program is a pair  *)
(* <<label, index>>.                                                       *)
(***************************************************************************)
EXTENDS SharedMem, Sequences

CONSTANTS
  Layout,     \* what dalle registers, in order: a sequence of Structs
  MemSizes,   \* amounts of memory to try
  MaxRuns     \* how often the user starts dalle

ASSUME DalleAssumption ==
  /\ Layout \in Seq(Structs) /\ MaxRuns \in Nat /\ MemSizes \subseteq 3..NFRAME
  /\ NPROC >= 2     \* room for the shell and dalle

VARIABLES
  upc,        \* where each process is in its program
  runs,       \* commands started so far
  mem         \* the amount of memory of this machine

dvars == <<vars, upc, runs, mem>>

sh == initproc           \* init and its shell, one process here
Children == {1, 2}       \* liSa and coMMa

At(p, label, k) == CanExit(p) /\ upc[p] = <<label, k>>
Goto(p, label, k) == upc' = [upc EXCEPT ![p] = <<label, k>>]

(* After fork, parent and child go their ways.                             *)
ForkTo(p, here, there) ==
  /\ fork(p)
  /\ \E np \in Procs : FreeSlot(np) /\ upc' = [upc EXCEPT ![p] = here, ![np] = there]

DInit ==
  /\ mem \in MemSizes /\ InitWith(mem)
  /\ upc = [p \in Procs |-> <<"prompt", 0>>]
  /\ runs = 0

----------------------------------------------------------------------------
(* sh: fork, exec in the child, wait in the parent.                        *)
shFork ==
  /\ At(sh, "prompt", 0) /\ runs < MaxRuns
  /\ ForkTo(sh, <<"shwait", 0>>, <<"cmd", 0>>)
  /\ runs' = runs + 1 /\ UNCHANGED mem

shWait ==
  /\ At(sh, "shwait", 0)
  /\ wait(sh) /\ Goto(sh, "prompt", 0)
  /\ UNCHANGED <<runs, mem>>

(* exec of dalle by the shell's child, of liSa or coMMa by dalle's: when   *)
(* it returns, the caller exits.                                           *)
Execs(p) == At(p, "cmd", 0) \/ \E k \in Children : At(p, "child", k)

callExec(p) ==
  /\ Execs(p)
  /\ \/ /\ \E n \in Images : execLoad(p, n, upc[p][1] = "child")
        /\ UNCHANGED upc
     \/ /\ \A n \in Images : ~CanLoad(n)
        /\ Goto(p, "die", 0) /\ UNCHANGED vars
  /\ UNCHANGED <<runs, mem>>

insideExec(p) ==
  /\ \/ /\ access_shared_memory(p)
        /\ UNCHANGED upc
     \/ /\ execCommit(p)
        /\ IF upc[p][1] = "cmd" THEN Goto(p, "share", 1) ELSE Goto(p, "run", upc[p][2])
     \/ execBad(p) /\ Goto(p, "die", 0)
  /\ UNCHANGED <<runs, mem>>

(* liSa at the end of the text, coMMa on command 5, a failed exec.         *)
leave(p) ==
  /\ \/ At(p, "die", 0) \/ \E k \in Children : At(p, "run", k)
  /\ exit(p)
  /\ UNCHANGED <<upc, runs, mem>>

----------------------------------------------------------------------------
(* dalle: share_data's result is not looked at, nor is fork's failure.     *)
dalleShare(p) ==
  \E k \in 1..Len(Layout) :
    /\ At(p, "share", k)
    /\ \/ share_data(p, Layout[k])
       \/ (\A i \in Entries : ~CanShare(p, Layout[k], i)) /\ UNCHANGED vars
    /\ IF k < Len(Layout) THEN Goto(p, "share", k + 1) ELSE Goto(p, "fork", 1)
    /\ UNCHANGED <<runs, mem>>

dalleFork(p) ==
  \E k \in Children :
    LET next == IF k = 1 THEN <<"fork", 2>> ELSE <<"wait", 1>>
    IN  /\ At(p, "fork", k)
        /\ \/ ForkTo(p, next, <<"child", k>>)
           \/ ~CanFork(p) /\ upc' = [upc EXCEPT ![p] = next] /\ UNCHANGED vars
        /\ UNCHANGED <<runs, mem>>

(* wait blocks while there are children and none is a zombie, and returns  *)
(* -1 when there are none.                                                 *)
dalleWaitOnce(p) ==   \* mutated form: dalle calls wait once
  /\ At(p, "wait", 1)
  /\ \/ wait(p)
     \/ (\A c \in Procs : parent[c] # p) /\ UNCHANGED vars
  /\ Goto(p, "die", 0)
  /\ UNCHANGED <<runs, mem>>

dalleWaitBlocks(p) ==   \* mutated form: wait does not look for children
  \E k \in Children :
    /\ At(p, "wait", k)
    /\ wait(p)
    /\ IF k = 1 THEN Goto(p, "wait", 2) ELSE Goto(p, "die", 0)
    /\ UNCHANGED <<runs, mem>>

dalleWait(p) ==
  \E k \in Children :
    /\ At(p, "wait", k)
    /\ \/ wait(p)
       \/ (\A c \in Procs : parent[c] # p) /\ UNCHANGED vars
    /\ IF k = 1 THEN Goto(p, "wait", 2) ELSE Goto(p, "die", 0)
    /\ UNCHANGED <<runs, mem>>

Program(p) ==
  callExec(p) \/ insideExec(p) \/ leave(p) \/ dalleShare(p) \/ dalleFork(p) \/ dalleWait(p)

DNext == shFork \/ shWait \/ \E p \in Procs \ {sh} : Program(p)

(* Every process gets the CPU again and again; the user ends a session.    *)
DSpec ==
  /\ DInit /\ [][DNext]_dvars
  /\ WF_dvars(shWait)
  /\ \A p \in Procs \ {sh} : WF_dvars(Program(p))

----------------------------------------------------------------------------
Running(p) == CanExit(p) /\ upc[p][1] = "run"
Window(d) == {pte[d][g] : g \in Pages \ LowPages} \ {NONE}

(* liSa and coMMa see dalle's memory: where get_data gives a running child *)
(* a window address, each word of the structure on the pages that were     *)
(* mapped is the word dalle registered, in the same frame at the same      *)
(* offset.                                                                 *)
SameMemory ==
  \A c \in Procs : Running(c) =>
    \A i \in Entries :
      LET mine == shared[c][i]
          its == shared[parent[c]][i]
      IN  mine.memstart >= SHAREDBASE /\ mine.size # 0 =>
            /\ mine.memstart % PGSIZE = its.memstart % PGSIZE
            /\ \A w \in 0..(mine.size - 1) :
                 (its.memstart % PGSIZE) + w < NPages(its.size) * PGSIZE =>
                   pte[pgdir[c]][PageOf(mine.memstart + w)]
                     = pte[pgdir[parent[c]]][PageOf(its.memstart + w)]

(* A frame some process has, or exec is putting, in its shared window is a *)
(* private page of its parent, which is still alive: it is never freed or  *)
(* reused while it is mapped there, although nothing counts the mappings.  *)
WindowBacked ==
  \A c \in Procs \ {sh} : Live(c) =>
    LET window == Window(pgdir[c]) \cup IF InExec(c) THEN Window(ex[c].dir) ELSE {}
    IN  window # {} => /\ state[parent[c]] = "RUN"
                       /\ window \subseteq LowFrames(pgdir[parent[c]])

(* At the prompt the session has given all its memory and slots back.      *)
SessionCleanedUp ==
  upc[sh] = <<"prompt", 0>> =>
    dirs = {pgdir[sh]} /\ free = 4..mem /\ \A p \in Procs \ {sh} : ~Live(p)

(* Every session ends: the shell comes back to its prompt, also when       *)
(* memory runs out in any fork or exec of the session.                     *)
SessionEnds == upc[sh] = <<"shwait", 0>> ~> upc[sh] = <<"prompt", 0>>
=============================================================================
