---------------------------- MODULE DalleProofs ----------------------------
(***************************************************************************)
(* A session of dalle is sound, for every number of processes, frames and  *)
(* structures, every amount of memory and however the programs interleave: *)
(* liSa and coMMa see dalle's memory, what they have mapped stays dalle's, *)
(* and the session gives everything back.                                  *)
(***************************************************************************)
EXTENDS Dalle, SharedMemProofs

dalle == 2          \* the slot fork always finds for dalle
shdir == 2          \* the frame of the shell's page directory
Kids == {c \in Procs \ {sh, dalle} : Live(c)}

(* The machine's frames, and no others, are in use.                        *)
MemorySound ==
  /\ mem \in 3..NFRAME
  /\ Accounted(1..mem)
  /\ \A f \in Frames : Placed(f) => f <= mem

(* The shell stays as userinit made it; it is at its prompt only when      *)
(* dalle's slot is free.                                                   *)
ShellSound ==
  /\ state[sh] = "RUN" /\ ~InExec(sh) /\ parent[sh] = NONE
  /\ kstack[sh] = 1 /\ pgdir[sh] = shdir
  /\ pte[shdir] = [NoPages EXCEPT ![0] = 3] /\ stab[shdir] = NoTabs
  /\ \A i \in Entries : shared[sh][i].size = 0
  /\ upc[sh] \in {<<"prompt", 0>>, <<"shwait", 0>>}
  /\ upc[sh] = <<"prompt", 0>> => ~Live(dalle)

DalleLabels == {"cmd", "share", "fork", "wait", "die"}
KidLabels == {"child", "run", "die"}
Labels == {"prompt", "shwait"} \cup DalleLabels \cup KidLabels

(* dalle's window is empty, before and after its exec.                     *)
DalleSound ==
  Live(dalle) =>
    /\ parent[dalle] = sh /\ upc[dalle][1] \in DalleLabels
    /\ NoWindow(pgdir[dalle])
    /\ InExec(dalle) => /\ upc[dalle][1] = "cmd" /\ ex[dalle].pc = "stack"
                        /\ NoWindow(ex[dalle].dir)

(* dalle has started and not yet waited for at most two children, and it   *)
(* stays alive and keeps its memory while there are any.                   *)
KidCount ==
  /\ Kids # {} => /\ state[dalle] = "RUN" /\ ~InExec(dalle)
                  /\ upc[dalle] \in {<<"fork", 2>>, <<"wait", 1>>, <<"wait", 2>>}
  /\ upc[dalle] \in {<<"fork", 2>>, <<"wait", 2>>} => \E a \in Procs : Kids \subseteq {a}
  /\ upc[dalle] = <<"wait", 1>> => \E a, b \in Procs : Kids \subseteq {a, b}

(* What directory d has in its window are pages of dalle's.                *)
DallesPages(d) ==
  \A g \in HighPages : pte[d][g] = NONE \/ \E h \in LowPages : pte[pgdir[dalle]][h] = pte[d][g]

(* The directory that a child's new image has, or will have.               *)
ImageDir(c) == IF InExec(c) THEN ex[c].dir ELSE pgdir[c]

(* The pages of child c's image from t on are those of dalle's from a on.  *)
MappedFrom(c, t, a, n) ==
  \A j \in 0..(n - 1) : /\ t + j \in HighPages /\ a + j \in LowPages
                        /\ pte[ImageDir(c)][t + j] = pte[pgdir[dalle]][a + j]

(* Entry i of child c, as fork copied it or moved to c's window.           *)
EntryCopied(c, i) == shared[c][i] = shared[dalle][i]

EntryMoved(c, i) ==
  LET mine == shared[c][i]
      its == shared[dalle][i]
  IN  /\ mine.memstart >= SHAREDBASE /\ mine.size = its.size
      /\ mine.memstart % PGSIZE = its.memstart % PGSIZE
      /\ InExec(c) \/ upc[c][1] = "run" =>
           MappedFrom(c, PageOf(mine.memstart), PageOf(its.memstart), NPages(its.size))
      /\ ex[c].pc = "attach" => PageOf(mine.memstart) + NPages(its.size) <= ex[c].vp

(* Inside access_shared_memory, the entries from the current one on are    *)
(* still copies, and the pages of the current one are mapped so far.       *)
AttachAt(c) ==
  ex[c].pc = "attach" =>
    /\ \A i \in Entries : i >= ex[c].i /\ shared[dalle][i].size # 0 => EntryCopied(c, i)
    /\ ex[c].i < SHAREDCOUNT =>
         MappedFrom(c, ex[c].vp, PageOf(shared[dalle][ex[c].i].memstart), ex[c].j)

KidEntries(c) ==
  /\ \A i \in Entries : shared[dalle][i].size # 0 =>
       EntryCopied(c, i) \/ (EntryMoved(c, i) /\ (InExec(c) \/ upc[c][1] # "child"))
  /\ AttachAt(c)

KidSound(c) ==
  /\ parent[c] = dalle /\ parent_pgdir[c] = pgdir[dalle] /\ upc[c][1] \in KidLabels
  /\ DallesPages(pgdir[c])
  /\ InExec(c) => upc[c][1] = "child" /\ DallesPages(ex[c].dir)
  /\ state[c] = "RUN" => KidEntries(c)

(* What dalle's slot has registered stays, from session to session, and    *)
(* only that can be left in another slot.                                  *)
Registered ==
  /\ \A i \in Entries : shared[dalle][i].size # 0 =>
       /\ shared[dalle][i].memstart < SHAREDBASE
       /\ \A j \in 0..(i - 1) : shared[dalle][j].size # 0
  /\ \A c \in Procs, i \in Entries : shared[c][i].size # 0 => shared[dalle][i].size # 0

(* An unused slot has no parent.                                           *)
Unused == \A p \in Procs : ~Live(p) => parent[p] = NONE

Session ==
  /\ upc \in [Procs -> Labels \X Nat]
  /\ ShellSound /\ DalleSound /\ KidCount /\ Registered /\ Unused
  /\ \A c \in Kids : KidSound(c)

(* The inductive invariant of a session.                                   *)
DInv == PInv /\ MemorySound /\ Session

----------------------------------------------------------------------------
(* The slots of the shell and of dalle, and the parts of memory.           *)
LEMMA Slots ==
  /\ sh \in Procs /\ dalle \in Procs /\ sh # dalle /\ initproc = sh
  /\ \A q \in Procs : q \in Nat /\ (q \in 1..(dalle - 1) <=> q = sh)
  /\ LowPages \subseteq Pages /\ NONE \notin Procs
BY SharedMemAssumption, DalleAssumption DEF sh, dalle, initproc, Procs, LowPages, Pages, NONE

----------------------------------------------------------------------------
(* What a step keeps of a session when it leaves a process alone.          *)

(* dalle's memory and registrations are as before the step.                *)
DalleStill ==
  pgdir'[dalle] = pgdir[dalle] /\ shared'[dalle] = shared[dalle] /\ SameDir(pgdir[dalle])

(* A child that nothing happened to, while dalle keeps its memory.         *)
LEMMA KidStays ==
  ASSUME NEW c \in Procs, Live(c), KidSound(c), Same(c), SameImages(c), DalleStill, upc'[c] = upc[c]
  PROVE  KidSound(c)'
<1>1. /\ (InExec(c)' <=> InExec(c)) /\ ex'[c] = ex[c]
      /\ shared'[c] = shared[c] /\ shared'[dalle] = shared[dalle]
      /\ pte'[pgdir'[dalle]] = pte[pgdir[dalle]] /\ pte'[pgdir'[c]] = pte[pgdir[c]]
  BY Zenon DEF InExec, Same, SameImages, DalleStill, SameDir
<1>2. InExec(c) => pte'[ex'[c].dir] = pte[ex[c].dir]
  BY <1>1, Zenon DEF SameImages, SameDir
<1>3. pte'[ImageDir(c)'] = pte[ImageDir(c)]
  BY <1>1, <1>2, Zenon DEF ImageDir
<1>4. \A t, a, n : MappedFrom(c, t, a, n) => MappedFrom(c, t, a, n)'
  BY <1>1, <1>3, Zenon DEF MappedFrom
<1>5. \A i \in Entries : /\ EntryCopied(c, i) => EntryCopied(c, i)'
                         /\ EntryMoved(c, i) => EntryMoved(c, i)'
  BY <1>1, <1>4, Zenon DEF EntryCopied, EntryMoved
<1>6. AttachAt(c) => AttachAt(c)'
  BY <1>1, <1>4, <1>5, Zenon DEF AttachAt
<1>7. KidEntries(c) => KidEntries(c)'
  BY <1>1, <1>5, <1>6, Zenon DEF KidEntries
<1>8. /\ DallesPages(pgdir[c]) => DallesPages(pgdir[c])'
      /\ InExec(c) /\ DallesPages(ex[c].dir) => DallesPages(ex[c].dir)'
  BY <1>1, <1>2, Zenon DEF DallesPages
<1> QED BY <1>1, <1>7, <1>8, Zenon DEF KidSound, Same, DalleStill

(* dalle, when only its place in the program may have changed.             *)
LEMMA DalleStays ==
  ASSUME DalleSound, Same(dalle), SameImages(dalle),
         upc'[dalle] = upc[dalle] \/ (~InExec(dalle) /\ upc'[dalle][1] \in DalleLabels)
  PROVE  DalleSound'
<1> SUFFICES ASSUME Live(dalle)' PROVE DalleSound'
  BY Zenon DEF DalleSound
<1>1. Live(dalle) /\ (InExec(dalle)' <=> InExec(dalle))
  BY Zenon DEF Live, InExec, Same
<1>2. NoWindow(pgdir[dalle])'
  BY <1>1, Zenon DEF DalleSound, NoWindow, Same, SameImages, SameDir
<1>3. InExec(dalle) => NoWindow(ex[dalle].dir)'
  BY <1>1, Zenon DEF DalleSound, NoWindow, Same, SameImages, SameDir
<1> QED BY <1>1, <1>2, <1>3, Zenon DEF DalleSound, Same

(* The shell, while dalle is not started.                                  *)
LEMMA ShellStays ==
  ASSUME ShellSound, Same(sh), SameImages(sh), upc'[sh] = upc[sh],
         Live(dalle)' => Live(dalle)
  PROVE  ShellSound'
<1>1. Live(sh) /\ (InExec(sh)' <=> InExec(sh))
  BY Zenon DEF ShellSound, Live, InExec, Same
<1>2. SameDir(shdir)
  BY <1>1, Zenon DEF ShellSound, SameImages
<1> QED BY <1>1, <1>2, Zenon DEF ShellSound, Same, SameDir

(* Nobody but slot p changed: its part of the session is what remains to   *)
(* be shown.                                                               *)
LEMMA Assemble ==
  ASSUME Session, NEW p \in Procs \ {sh}, Others(p),
         upc' \in [Procs -> Labels \X Nat], \A q \in Procs \ {p, dalle} : upc'[q] = upc[q],
         DalleSound', KidCount', Registered',
         ~Live(p)' => parent'[p] = NONE,
         p # dalle /\ Live(p)' => KidSound(p)',
         Live(dalle)' => Live(dalle),
         Kids \ {p} # {} => DalleStill
  PROVE  Session'
<1>1. ShellSound'
  <2>1. Same(sh) /\ SameImages(sh) /\ upc'[sh] = upc[sh]
    BY Slots, Zenon DEF Others
  <2> QED BY <2>1, ShellStays, Zenon DEF Session
<1>2. Unused'
  <2>1. \A q \in Procs \ {p} : (Live(q)' <=> Live(q)) /\ parent'[q] = parent[q]
    BY Zenon DEF Others, Same, Live
  <2> QED BY <2>1, Zenon DEF Session, Unused
<1>3. ASSUME NEW c \in Kids' PROVE KidSound(c)'
  <2>1. c \in Procs \ {sh, dalle} /\ Live(c)'
    BY <1>3, Zenon DEF Kids
  <2>2. CASE c # p
    <3>1. Same(c) /\ SameImages(c) /\ upc'[c] = upc[c]
      BY <2>1, <2>2, Zenon DEF Others
    <3>2. Live(c) /\ c \in Kids
      BY <2>1, <3>1, Zenon DEF Same, Live, Kids
    <3> QED BY <2>1, <2>2, <3>1, <3>2, KidStays, Zenon DEF Session
  <2>3. CASE c = p
    BY <2>1, <2>3, Zenon
  <2> QED BY <2>2, <2>3, Zenon
<1> QED BY <1>1, <1>2, <1>3, Zenon DEF Session

(* The children are those there were, and dalle is where it was.           *)
LEMMA CountStays ==
  ASSUME KidCount, Kids' \subseteq Kids, state'[dalle] = state[dalle], InExec(dalle)' <=> InExec(dalle),
         upc'[dalle] = upc[dalle]
  PROVE  KidCount'
BY Zenon DEF KidCount

(* There are none.                                                         *)
LEMMA CountNone ==
  ASSUME Kids' = {}
  PROVE  KidCount'
BY Slots, Zenon DEF KidCount

(* Where a process is, and goes, in its program.                           *)
LEMMA AtFacts ==
  ASSUME NEW p, NEW label, NEW k, At(p, label, k)
  PROVE  /\ state[p] = "RUN" /\ Live(p) /\ ~InExec(p)
         /\ upc[p] = <<label, k>> /\ upc[p][1] = label /\ upc[p][2] = k
<1>1. state[p] = "RUN" /\ ~InExec(p) /\ upc[p] = <<label, k>>
  BY Zenon DEF At, CanExit, InExec
<1> QED BY <1>1 DEF Live

(* A place in a program.                                                   *)
LEMMA Pairs ==
  ASSUME NEW label \in Labels, NEW k \in Nat
  PROVE  <<label, k>> \in Labels \X Nat /\ <<label, k>>[1] = label /\ <<label, k>>[2] = k
OBVIOUS

(* Where Goto goes.                                                        *)
LEMMA GotoFacts ==
  ASSUME Session, NEW p \in Procs, NEW label \in Labels, NEW k \in Nat, Goto(p, label, k)
  PROVE  /\ upc' \in [Procs -> Labels \X Nat] /\ upc'[p] = <<label, k>> /\ upc'[p][1] = label
         /\ \A q \in Procs \ {p} : upc'[q] = upc[q]
<1>1. upc \in [Procs -> Labels \X Nat]
  BY Zenon DEF Session
<1> QED BY <1>1 DEF Goto

(* Who is there, besides the shell.                                        *)
LEMMA Roles ==
  ASSUME Session, NEW p \in Procs \ {sh}, Live(p)
  PROVE  \/ /\ p = dalle /\ upc[p][1] \in DalleLabels /\ parent[p] = sh
         \/ /\ p \in Kids /\ p # dalle /\ upc[p][1] \in KidLabels /\ parent[p] = dalle /\ KidSound(p)
            /\ state[dalle] = "RUN" /\ Live(dalle) /\ ~InExec(dalle)
<1>1. CASE p = dalle
  BY <1>1, Zenon DEF Session, DalleSound
<1>2. CASE p # dalle
  <2>1. p \in Kids /\ KidSound(p)
    BY <1>2, Zenon DEF Session, Kids
  <2>2. state[dalle] = "RUN" /\ ~InExec(dalle)
    BY <2>1, Zenon DEF Session, KidCount
  <2>3. Live(dalle)
    BY <2>2 DEF Live
  <2> QED BY <1>2, <2>1, <2>2, <2>3, Zenon DEF KidSound
<1> QED BY <1>1, <1>2, Zenon

(* Slot p alone changed, and was not a child, so the children are the same.*)
LEMMA KidsSame ==
  ASSUME NEW p \in Procs, Others(p), (Live(p)' <=> Live(p)) \/ p \in {sh, dalle}
  PROVE  Kids' = Kids
<1>1. \A q \in Procs \ {p} : Live(q)' <=> Live(q)
  BY Zenon DEF Others, Same, Live
<1> QED BY <1>1, Zenon DEF Kids

(* The shell's fork finds dalle's slot.                                    *)
LEMMA ShForkSession ==
  ASSUME IInv, Session, shFork
  PROVE  Session'
<1>1. /\ state[sh] = "RUN" /\ Live(sh) /\ upc[sh] = <<"prompt", 0>> /\ fork(sh)
  BY AtFacts, Zenon DEF shFork, ForkTo
<1>2. ~Live(dalle) /\ Kids = {}
  BY <1>1, Zenon DEF Session, ShellSound, KidCount, Live
<1>3. FreeSlot(dalle) /\ \A np \in Procs : FreeSlot(np) => np = dalle
  <2>1. state[dalle] = "UNUSED" /\ state[sh] # "UNUSED"
    BY <1>1, <1>2, Zenon DEF Live
  <2>2. \A np \in Procs : FreeSlot(np) => np # sh /\ ~(dalle \in 1..(np - 1))
    BY <2>1, Zenon DEF FreeSlot
  <2>3. \A np \in Procs : np # sh /\ ~(dalle \in 1..(np - 1)) => np = dalle
    BY DalleAssumption, SharedMemAssumption DEF sh, dalle, initproc, Procs
  <2>4. FreeSlot(dalle)
    BY <2>1, Slots, DalleAssumption, SharedMemAssumption DEF FreeSlot, sh, dalle, initproc, Procs
  <2> QED BY <2>2, <2>3, <2>4, Zenon
<1>4. upc' = [upc EXCEPT ![sh] = <<"shwait", 0>>, ![dalle] = <<"cmd", 0>>]
  BY <1>3, Zenon DEF shFork, ForkTo
<1>5. /\ upc' \in [Procs -> Labels \X Nat] /\ upc'[sh] = <<"shwait", 0>> /\ upc'[dalle] = <<"cmd", 0>>
      /\ upc'[dalle][1] = "cmd"
  <2>1. upc \in [Procs -> Labels \X Nat]
    BY Zenon DEF Session
  <2> DEFINE a == <<"shwait", 0>>
             b == <<"cmd", 0>>
  <2>2. a \in Labels \X Nat /\ b \in Labels \X Nat /\ b[1] = "cmd"
    <3>1. "shwait" \in Labels /\ "cmd" \in Labels /\ 0 \in Nat
      BY DEF Labels, DalleLabels
    <3> QED BY <3>1, Pairs, Zenon
  <2> HIDE DEF a, b
  <2>3. upc' \in [Procs -> Labels \X Nat] /\ upc'[sh] = a /\ upc'[dalle] = b
    BY <1>4, <2>1, <2>2, Slots, Zenon DEF a, b
  <2> QED BY <2>2, <2>3, Zenon DEF a, b
<1>6. /\ Others(dalle) /\ ~InExec(dalle)' /\ state'[dalle] = "RUN" /\ parent'[dalle] = sh
      /\ shared'[dalle] = Inherit(shared[dalle], shared[sh]) /\ NoWindow(pgdir[dalle])'
  BY <1>1, <1>3, Slots, ForkMoves, Zenon
<1>7. Kids' = {}
  BY <1>2, <1>6, KidsSame, Slots, Zenon
<1>8. DalleSound'
  BY <1>5, <1>6, Zenon DEF DalleSound, DalleLabels
<1>9. ShellSound'
  <2>1. Same(sh) /\ SameImages(sh)
    BY <1>6, Slots, Zenon DEF Others
  <2>2. SameDir(shdir)
    BY <1>1, <2>1, Zenon DEF SameImages, Session, ShellSound
  <2>3. upc'[sh] # <<"prompt", 0>>
    BY <1>5
  <2> QED BY <1>5, <2>1, <2>2, <2>3, Zenon DEF Session, ShellSound, Same, SameDir, InExec
<1>10. shared' = shared
  <2>1. \A i \in Entries : shared[sh][0].size = 0 /\ 0 \in 0..i
    BY SharedMemAssumption DEF Session, ShellSound, Entries
  <2>2. shared'[dalle] = [i \in Entries |-> shared[dalle][i]]
    BY <1>6, <2>1, Zenon DEF Inherit
  <2>3. shared \in [Procs -> [Entries -> EntryType]] /\ shared' \in [Procs -> [Entries -> EntryType]]
    BY <1>1, Types, ForkInv, Slots, ZenonT(40) DEF IInv, TypeOK
  <2>4. \A q \in Procs \ {dalle} : shared'[q] = shared[q]
    BY <1>6, Zenon DEF Others, Same
  <2>5. shared'[dalle] = shared[dalle]
    BY <2>2, <2>3, Slots
  <2> QED BY <2>3, <2>4, <2>5, SMTT(30)
<1>11. Registered'
  BY <1>10, Zenon DEF Session, Registered
<1>12. Unused'
  <2>1. \A q \in Procs \ {dalle} : (Live(q)' <=> Live(q)) /\ parent'[q] = parent[q]
    BY <1>6, Zenon DEF Others, Same, Live
  <2>2. Live(dalle)'
    BY <1>6 DEF Live
  <2> QED BY <2>1, <2>2, Zenon DEF Session, Unused
<1> QED BY <1>5, <1>7, <1>8, <1>9, <1>11, <1>12, CountNone, Zenon DEF Session

(* The shell's wait reaps dalle, which has no children any more.           *)
LEMMA ShWaitSession ==
  ASSUME IInv, Session, shWait
  PROVE  Session'
<1>1. Live(sh) /\ wait(sh) /\ Goto(sh, "prompt", 0) /\ state[sh] = "RUN"
  BY AtFacts, Zenon DEF shWait
<1>2. PICK c \in Procs : /\ Zombie(sh, c) /\ Others(c) /\ Live(c) /\ ~Live(c)' /\ parent'[c] = NONE
                         /\ UNCHANGED <<pgdir, shared, ex>>
  BY <1>1, Slots, WaitMoves, Zenon
<1>3. c = dalle /\ state[dalle] = "ZOMBIE"
  <2>1. parent[c] = sh /\ state[c] = "ZOMBIE"
    BY <1>2, Zenon DEF Zombie
  <2>2. c # sh
    BY <1>1, <2>1
  <2> QED BY <1>2, <2>1, <2>2, Roles, Slots, Zenon
<1>4. Kids' = {}
  <2>1. Kids = {}
    BY <1>3, Zenon DEF Session, KidCount
  <2> QED BY <1>2, <1>3, <2>1, KidsSame, Zenon
<1>5. upc' \in [Procs -> Labels \X Nat] /\ upc'[sh] = <<"prompt", 0>>
  <2>1. "prompt" \in Labels /\ 0 \in Nat
    BY DEF Labels
  <2> QED BY <1>1, <2>1, Slots, GotoFacts, Zenon
<1>6. ShellSound'
  <2>1. Same(sh) /\ SameImages(sh)
    BY <1>2, <1>3, Slots, Zenon DEF Others
  <2>2. SameDir(shdir)
    BY <1>1, <2>1, Zenon DEF SameImages, Session, ShellSound
  <2> QED BY <1>2, <1>3, <1>5, <2>1, <2>2, Zenon DEF Session, ShellSound, Same, SameDir, InExec
<1>7. Registered' /\ DalleSound'
  BY <1>2, <1>3, Zenon DEF Session, Registered, DalleSound
<1>8. Unused'
  <2>1. \A q \in Procs \ {c} : (Live(q)' <=> Live(q)) /\ parent'[q] = parent[q]
    BY <1>2, Zenon DEF Others, Same, Live
  <2> QED BY <1>2, <2>1, Zenon DEF Session, Unused
<1> QED BY <1>4, <1>5, <1>6, <1>7, <1>8, CountNone, Zenon DEF Session

----------------------------------------------------------------------------
(* dalle's own steps.                                                      *)

(* While dalle has no children, what it does must keep its own part.       *)
LEMMA AloneSession ==
  ASSUME Session, Kids = {}, Others(dalle), Live(dalle), Live(dalle)',
         upc' \in [Procs -> Labels \X Nat], \A q \in Procs \ {dalle} : upc'[q] = upc[q],
         DalleSound', Registered'
  PROVE  Session'
<1>1. Kids' = {}
  BY KidsSame, Slots, Zenon
<1>2. KidCount'
  BY <1>1, CountNone, Zenon
<1> QED BY <1>2, Slots, Assemble, Zenon

(* Nothing changes but where dalle is.                                     *)
LEMMA DalleMovesOn ==
  ASSUME Session, UNCHANGED vars, Live(dalle), ~InExec(dalle), NEW label \in DalleLabels, NEW k \in Nat,
         Goto(dalle, label, k), KidCount'
  PROVE  Session'
<1>1. Others(dalle) /\ Same(dalle) /\ SameImages(dalle) /\ Live(dalle)'
  BY Zenon DEF Others, Same, SameImages, SameDir, vars, Live
<1>2. /\ upc' \in [Procs -> Labels \X Nat] /\ upc'[dalle][1] = label
      /\ \A q \in Procs \ {dalle} : upc'[q] = upc[q]
  <2>1. label \in Labels
    BY Zenon DEF Labels
  <2> QED BY <2>1, Slots, GotoFacts, Zenon
<1>3. DalleSound'
  BY <1>1, <1>2, DalleStays, Zenon DEF Session
<1>4. Registered' /\ DalleStill
  BY Zenon DEF Session, Registered, DalleStill, SameDir, vars
<1> QED BY <1>1, <1>2, <1>3, <1>4, Slots, Assemble, Zenon

(* exec of dalle, by the shell's child: its image, or the way out.         *)
LEMMA DalleExecSession ==
  ASSUME IInv, Session, callExec(dalle)
  PROVE  Session'
<1>1. Execs(dalle) /\ Live(dalle)
  BY AtFacts, Zenon DEF callExec, Execs
<1>2. upc[dalle] = <<"cmd", 0>> /\ upc[dalle][1] = "cmd" /\ ~InExec(dalle) /\ state[dalle] = "RUN"
  <2>1. \A k : ~At(dalle, "child", k)
    <3> SUFFICES ASSUME NEW k, At(dalle, "child", k) PROVE FALSE
      OBVIOUS
    <3>1. upc[dalle][1] = "child" /\ "child" \notin DalleLabels
      BY AtFacts DEF DalleLabels
    <3> QED BY <1>1, <3>1, Zenon DEF Session, DalleSound
  <2>2. At(dalle, "cmd", 0)
    BY <1>1, <2>1, Zenon DEF Execs
  <2> QED BY <2>2, AtFacts, Zenon
<1>3. Kids = {}
  <2>1. upc[dalle] \notin {<<"fork", 2>>, <<"wait", 1>>, <<"wait", 2>>}
    BY <1>2
  <2> QED BY <2>1, Zenon DEF Session, KidCount
<1>4. CASE (\E n \in Images : execLoad(dalle, n, upc[dalle][1] = "child")) /\ UNCHANGED upc
  <2>1. (upc[dalle][1] = "child") = FALSE
    BY <1>2
  <2>2. PICK n \in Images : execLoad(dalle, n, FALSE)
    BY <1>4, <2>1, Zenon
  <2>3. /\ Others(dalle) /\ SameDir(pgdir[dalle]) /\ ex'[dalle].pc = "stack" /\ NoWindow(ex[dalle].dir)'
        /\ UNCHANGED <<state, parent, pgdir, shared>>
    BY <2>2, Slots, LoadMoves, Zenon
  <2>4. Live(dalle)' /\ Registered'
    BY <1>1, <2>3, Zenon DEF Live, Session, Registered
  <2>5. DalleSound'
    BY <1>1, <1>2, <1>4, <2>3, Zenon DEF Session, DalleSound, NoWindow, SameDir
  <2>6. upc' \in [Procs -> Labels \X Nat] /\ \A q \in Procs \ {dalle} : upc'[q] = upc[q]
    BY <1>4, Zenon DEF Session
  <2> QED BY <1>1, <1>3, <2>3, <2>4, <2>5, <2>6, AloneSession, Zenon
<1>5. CASE Goto(dalle, "die", 0) /\ UNCHANGED vars
  <2>1. "die" \in DalleLabels /\ 0 \in Nat
    BY DEF DalleLabels
  <2>2. Kids' = {}
    BY <1>3, <1>5, Zenon DEF Kids, Live, vars
  <2> QED BY <1>1, <1>2, <1>5, <2>1, <2>2, CountNone, DalleMovesOn, Zenon
<1> QED BY <1>4, <1>5, Zenon DEF callExec

(* The rest of that exec: it has no children yet.                          *)
LEMMA DalleInsideSession ==
  ASSUME IInv, Session, insideExec(dalle)
  PROVE  Session'
<1>1. InExec(dalle)
  <2>1. access_shared_memory(dalle) => Attaching(dalle)
    BY Zenon DEF access_shared_memory, attachEnd, attachMissing, attachPage, attachNoMem, attachEntry
  <2>2. ex[dalle].pc = "attach" \/ ex[dalle].pc = "stack"
    BY <2>1, Zenon DEF insideExec, Attaching, execCommit, execBad
  <2> QED BY <2>2 DEF InExec
<1>2. /\ Live(dalle) /\ state[dalle] = "RUN" /\ upc[dalle][1] = "cmd" /\ ex[dalle].pc = "stack"
      /\ NoWindow(ex[dalle].dir) /\ NoWindow(pgdir[dalle]) /\ parent[dalle] = sh
  BY <1>1, Types, Slots, Zenon DEF Session, DalleSound
<1>3. Kids = {}
  BY <1>1, Zenon DEF Session, KidCount
<1>4. ~access_shared_memory(dalle)
  <2>1. ~Attaching(dalle)
    BY <1>2 DEF Attaching
  <2> QED BY <2>1, Zenon DEF access_shared_memory, attachEnd, attachMissing, attachPage, attachNoMem,
                             attachEntry
<1>5. CASE execCommit(dalle) /\ Goto(dalle, "share", 1)
  <2>1. /\ Others(dalle) /\ ~InExec(dalle)' /\ UNCHANGED <<state, parent, shared>>
        /\ pgdir'[dalle] = ex[dalle].dir
        /\ \A g \in HighPages : pte'[ex[dalle].dir][g] = pte[ex[dalle].dir][g]
    BY <1>5, Slots, CommitMoves, Zenon
  <2>2. "share" \in Labels /\ "share" \in DalleLabels /\ 1 \in Nat
    BY DEF Labels, DalleLabels
  <2>3. /\ upc' \in [Procs -> Labels \X Nat] /\ upc'[dalle][1] = "share"
        /\ \A q \in Procs \ {dalle} : upc'[q] = upc[q]
    BY <1>5, <2>2, Slots, GotoFacts, Zenon
  <2>4. DalleSound'
    BY <1>2, <2>1, <2>2, <2>3, Zenon DEF DalleSound, NoWindow
  <2>5. Live(dalle)' /\ Registered'
    BY <1>2, <2>1, Zenon DEF Live, Session, Registered
  <2> QED BY <1>2, <1>3, <2>1, <2>3, <2>4, <2>5, AloneSession, Zenon
<1>6. CASE execBad(dalle) /\ Goto(dalle, "die", 0)
  <2>1. /\ Others(dalle) /\ SameDir(pgdir[dalle]) /\ ~InExec(dalle)'
        /\ UNCHANGED <<state, parent, pgdir, shared>>
    BY <1>6, Slots, BadMoves, Zenon DEF procVars
  <2>2. "die" \in Labels /\ "die" \in DalleLabels /\ 0 \in Nat
    BY DEF Labels, DalleLabels
  <2>3. /\ upc' \in [Procs -> Labels \X Nat] /\ upc'[dalle][1] = "die"
        /\ \A q \in Procs \ {dalle} : upc'[q] = upc[q]
    BY <1>6, <2>2, Slots, GotoFacts, Zenon
  <2>4. DalleSound'
    BY <1>2, <2>1, <2>2, <2>3, Zenon DEF DalleSound, NoWindow, SameDir
  <2>5. Live(dalle)' /\ Registered'
    BY <1>2, <2>1, Zenon DEF Live, Session, Registered
  <2> QED BY <1>2, <1>3, <2>1, <2>3, <2>4, <2>5, AloneSession, Zenon
<1> QED BY <1>2, <1>4, <1>5, <1>6, Zenon DEF insideExec

(* Nobody is a child of p, so exit hands nobody to init.                   *)
LEMMA ExitOthers ==
  ASSUME IInv, NEW p \in Procs, exit(p), \A q \in Procs : parent[q] # p
  PROVE  Others(p) /\ parent' = parent /\ SameImages(p) /\ Live(p)'
<1>1. /\ UNCHANGED <<kstack, pgdir, parent_pgdir, ex, memVars>> /\ parent' = Reparent(p)
      /\ state'[p] = "ZOMBIE" /\ \A q \in Procs \ {p} : state'[q] = state[q] /\ shared'[q] = shared[q]
  BY ExitMoves, Zenon
<1>2. parent' = parent
  <2>1. parent' = [q \in Procs |-> parent[q]]
    BY <1>1, Zenon DEF Reparent
  <2> QED BY <2>1, Types
<1>3. Live(p)'
  BY <1>1 DEF Live
<1> QED BY <1>1, <1>2, <1>3, Zenon DEF Others, Same, SameImages, SameDir, memVars

(* exit forgets entries in the window only, and dalle has none.            *)
LEMMA ExitRegistered ==
  ASSUME IInv, NEW p \in Procs, Registered, shared'[p] = ClearShared(shared[p]),
         \A q \in Procs \ {p} : shared'[q] = shared[q]
  PROVE  Registered' /\ (p = dalle => \A i \in Entries : shared[dalle][i].size # 0 => shared'[dalle][i] = shared[dalle][i])
<1>1. \A i \in Entries : shared'[p][i].size # 0 => shared'[p][i] = shared[p][i]
  <2> SUFFICES ASSUME NEW i \in Entries, shared'[p][i].size # 0 PROVE shared'[p][i] = shared[p][i]
    OBVIOUS
  <2>1. shared'[p][i] = IF shared[p][i].memstart > SHAREDBASE
                        THEN [name |-> shared[p][i].name, memstart |-> 0, size |-> 0] ELSE shared[p][i]
    BY Zenon DEF ClearShared
  <2> QED BY <2>1
<1>2. \A i \in Entries : shared[dalle][i].size # 0 => shared'[dalle][i] = shared[dalle][i]
  <2> SUFFICES ASSUME NEW i \in Entries, shared[dalle][i].size # 0, p = dalle
               PROVE  shared'[dalle][i] = shared[dalle][i]
    BY Slots, Zenon
  <2>1. shared[dalle][i].memstart < SHAREDBASE
    BY Zenon DEF Registered
  <2>2. shared[dalle][i].memstart \in Nat
    <3>1. shared \in [Procs -> [Entries -> EntryType]]
      BY Types, Zenon
    <3>2. shared[dalle][i] \in EntryType
      BY <3>1, Slots
    <3> QED BY <3>2, Units DEF EntryType
  <2>3. ~(shared[dalle][i].memstart > SHAREDBASE)
    BY <2>1, <2>2, Units
  <2> QED BY <2>3, Zenon DEF ClearShared
<1>3. \A c \in Procs, i \in Entries : shared'[c][i].size # 0 => shared'[c][i] = shared[c][i]
  BY <1>1, Zenon
<1>4. \A i \in Entries : \A j \in 0..(i - 1) : j \in Entries
  BY SharedMemAssumption DEF Entries
<1>5. \A i \in Entries : shared'[dalle][i].size # 0 <=> shared[dalle][i].size # 0
  BY <1>2, <1>3, Slots, Zenon
<1>6. ASSUME NEW i \in Entries, shared'[dalle][i].size # 0
      PROVE  shared'[dalle][i].memstart < SHAREDBASE /\ \A j \in 0..(i - 1) : shared'[dalle][j].size # 0
  BY <1>2, <1>4, <1>5, <1>6, Zenon DEF Registered
<1>7. \A c \in Procs, i \in Entries : shared'[c][i].size # 0 => shared'[dalle][i].size # 0
  BY <1>3, <1>5, ZenonT(40) DEF Registered
<1> QED BY <1>2, <1>6, <1>7, Zenon DEF Registered

(* dalle leaves after its waits.                                           *)
LEMMA DalleLeaveSession ==
  ASSUME IInv, Session, leave(dalle)
  PROVE  Session'
<1>1. exit(dalle) /\ UNCHANGED upc
  BY Zenon DEF leave
<1>2. /\ state[dalle] = "RUN" /\ ~InExec(dalle) /\ Live(dalle) /\ shared'[dalle] = ClearShared(shared[dalle])
      /\ UNCHANGED <<pgdir, ex>> /\ \A q \in Procs \ {dalle} : shared'[q] = shared[q]
  <2>1. /\ state[dalle] = "RUN" /\ ~InExec(dalle) /\ shared'[dalle] = ClearShared(shared[dalle])
        /\ UNCHANGED <<pgdir, ex>> /\ \A q \in Procs \ {dalle} : shared'[q] = shared[q]
    BY <1>1, Slots, ExitMoves, Zenon
  <2> QED BY <2>1 DEF Live
<1>3. Kids = {}
  <2>1. upc[dalle][1] = "die" \/ upc[dalle][1] = "run"
    BY AtFacts, Zenon DEF leave
  <2>2. upc[dalle] \notin {<<"fork", 2>>, <<"wait", 1>>, <<"wait", 2>>}
    BY <2>1
  <2> QED BY <2>2, Zenon DEF Session, KidCount
<1>4. \A q \in Procs : parent[q] # dalle
  <2> SUFFICES ASSUME NEW q \in Procs PROVE parent[q] # dalle
    OBVIOUS
  <2>1. CASE ~Live(q)
    BY <2>1, Slots, Zenon DEF Session, Unused
  <2>2. CASE q = sh
    BY <2>2, Slots, Zenon DEF Session, ShellSound
  <2>3. CASE Live(q) /\ q # sh
    BY <1>3, <2>3, Roles, Slots, Zenon
  <2> QED BY <2>1, <2>2, <2>3, Zenon
<1>5. Others(dalle) /\ parent' = parent /\ SameImages(dalle) /\ Live(dalle)'
  BY <1>1, <1>4, Slots, ExitOthers, Zenon
<1>6. Registered'
  BY <1>2, Slots, ExitRegistered, Zenon DEF Session
<1>7. DalleSound'
  BY <1>1, <1>2, <1>5, Zenon DEF Session, DalleSound, NoWindow, SameImages, SameDir, InExec
<1> QED BY <1>1, <1>2, <1>3, <1>5, <1>6, <1>7, AloneSession, Zenon DEF Session

(* share_data fills the first free entry of dalle's.                       *)
LEMMA ShareRegistered ==
  ASSUME IInv, Registered, NEW x \in Structs, share_data(dalle, x)
  PROVE  Registered' /\ Others(dalle) /\ UNCHANGED <<state, parent, pgdir, ex, pte>>
<1>1. PICK k \in Entries : CanShare(dalle, x, k) /\ shared' = [shared EXCEPT ![dalle][k] =
                             [name |-> x.name[1], memstart |-> x.addr, size |-> x.size]]
  BY Zenon DEF share_data
<1>2. UNCHANGED <<state, parent, kstack, pgdir, parent_pgdir, sz, ex, memVars>>
  BY Zenon DEF share_data
<1> DEFINE e == [name |-> x.name[1], memstart |-> x.addr, size |-> x.size]
<1>3. e.memstart < SHAREDBASE
  <2>1. e.memstart = x.addr /\ x.addr < sz[dalle]
    BY <1>1, Zenon DEF CanShare
  <2>2. sz[dalle] \in 0..(SHAREDBASE - 1)
    BY Slots, Zenon DEF IInv, TypeOK
  <2>3. x.addr \in Nat
    BY SharedMemAssumption
  <2> QED BY <2>1, <2>2, <2>3, Units
<1> HIDE DEF e
<1>4. shared' = [shared EXCEPT ![dalle][k] = e]
  BY <1>1, Zenon DEF e
<1>5. /\ shared'[dalle][k] = e /\ \A q \in Procs \ {dalle} : shared'[q] = shared[q]
      /\ \A i \in Entries \ {k} : shared'[dalle][i] = shared[dalle][i]
  BY <1>4, Types, Slots, Zenon
<1>6. shared[dalle][k].size = 0 /\ \A j \in 0..(k - 1) : shared[dalle][j].size # 0
  BY <1>1, Zenon DEF CanShare
<1>7. \A i \in Entries : \A j \in 0..(i - 1) : j \in Entries /\ i # j
  BY SharedMemAssumption DEF Entries
<1>8. ASSUME NEW i \in Entries, shared'[dalle][i].size # 0
      PROVE  shared'[dalle][i].memstart < SHAREDBASE /\ \A j \in 0..(i - 1) : shared'[dalle][j].size # 0
  <2>1. CASE i = k
    <3>1. \A j \in 0..(i - 1) : shared'[dalle][j] = shared[dalle][j]
      BY <1>5, <1>7, <2>1, Zenon
    <3> QED BY <1>3, <1>5, <1>6, <2>1, <3>1, Zenon
  <2>2. CASE i # k
    <3>1. shared'[dalle][i] = shared[dalle][i]
      BY <1>5, <2>2, Zenon
    <3>2. shared[dalle][i].memstart < SHAREDBASE /\ \A j \in 0..(i - 1) : shared[dalle][j].size # 0
      BY <1>8, <3>1, Zenon DEF Registered
    <3>3. \A j \in 0..(i - 1) : j # k /\ shared'[dalle][j] = shared[dalle][j]
      BY <1>5, <1>6, <1>7, <3>2, Zenon
    <3> QED BY <3>1, <3>2, <3>3, Zenon
  <2> QED BY <2>1, <2>2, Zenon
<1>9. \A c \in Procs, i \in Entries : shared'[c][i].size # 0 => shared'[dalle][i].size # 0
  <2>1. \A c \in Procs : shared[c][k].size = 0
    BY <1>6, Zenon DEF Registered
  <2> QED BY <1>5, <2>1, Zenon DEF Registered
<1>10. Others(dalle)
  BY <1>2, <1>5, Zenon DEF Others, Same, SameImages, SameDir, memVars
<1> QED BY <1>2, <1>8, <1>9, <1>10, Zenon DEF Registered, memVars

(* dalle registers its structures before it has children.                  *)
LEMMA DalleShareSession ==
  ASSUME IInv, Session, dalleShare(dalle)
  PROVE  Session'
<1>1. PICK k \in 1..Len(Layout) :
        /\ At(dalle, "share", k)
        /\ share_data(dalle, Layout[k]) \/ UNCHANGED vars
        /\ IF k < Len(Layout) THEN Goto(dalle, "share", k + 1) ELSE Goto(dalle, "fork", 1)
  BY Zenon DEF dalleShare
<1>2. Layout[k] \in Structs /\ k \in Nat /\ k + 1 \in Nat /\ 1 \in Nat
  BY DalleAssumption
<1>3. Live(dalle) /\ ~InExec(dalle) /\ upc[dalle][1] = "share"
  BY <1>1, AtFacts, Zenon
<1>4. Kids = {}
  <2>1. upc[dalle] \notin {<<"fork", 2>>, <<"wait", 1>>, <<"wait", 2>>}
    BY <1>3
  <2> QED BY <2>1, Zenon DEF Session, KidCount
<1>5. PICK label \in DalleLabels, n \in Nat : Goto(dalle, label, n)
  <2>1. "share" \in DalleLabels /\ "fork" \in DalleLabels
    BY DEF DalleLabels
  <2> QED BY <1>1, <1>2, <2>1, Zenon
<1>6. CASE UNCHANGED vars
  <2>1. Kids' = {}
    BY <1>4, <1>6, Zenon DEF Kids, Live, vars
  <2> QED BY <1>3, <1>5, <1>6, <2>1, CountNone, DalleMovesOn, ZenonT(40)
<1>7. CASE share_data(dalle, Layout[k])
  <2>1. Registered' /\ Others(dalle) /\ UNCHANGED <<state, parent, pgdir, ex, pte>>
    BY <1>2, <1>7, ShareRegistered, Zenon DEF Session
  <2>2. label \in Labels
    BY Zenon DEF Labels
  <2>3. /\ upc' \in [Procs -> Labels \X Nat] /\ upc'[dalle][1] = label
        /\ \A q \in Procs \ {dalle} : upc'[q] = upc[q]
    BY <1>5, <2>2, Slots, GotoFacts, Zenon
  <2>4. DalleSound' /\ Live(dalle)'
    BY <1>3, <2>1, <2>3, Zenon DEF Session, DalleSound, NoWindow, InExec, Live
  <2> QED BY <1>3, <1>4, <2>1, <2>3, <2>4, AloneSession, ZenonT(40)
<1> QED BY <1>1, <1>6, <1>7, Zenon

(* A child starts with copies of all that dalle has registered, whatever   *)
(* the slot held before.                                                   *)
LEMMA ForkedKid ==
  ASSUME IInv, Session, fork(dalle), NEW np \in Procs, FreeSlot(np), np # dalle, Live(dalle), ~InExec(dalle),
         upc'[np][1] = "child"
  PROVE  KidSound(np)' /\ Registered'
<1>1. /\ Others(np) /\ ~InExec(np)' /\ state'[np] = "RUN" /\ parent'[np] = dalle
      /\ parent_pgdir'[np] = pgdir[dalle] /\ shared'[np] = Inherit(shared[np], shared[dalle])
      /\ NoWindow(pgdir[np])'
  BY Slots, ForkMoves, Zenon
<1>2. Same(dalle)
  BY <1>1, Slots, Zenon DEF Others
<1>3. \A i \in Entries : shared[dalle][i].size # 0 => \A j \in 0..i : shared[dalle][j].size # 0
  <2> SUFFICES ASSUME NEW i \in Entries, shared[dalle][i].size # 0, NEW j \in 0..i
               PROVE  shared[dalle][j].size # 0
    OBVIOUS
  <2>1. j = i \/ j \in 0..(i - 1)
    BY SharedMemAssumption DEF Entries
  <2> QED BY <2>1, Zenon DEF Session, Registered
<1>4. \A i \in Entries : shared'[np][i] = IF \A j \in 0..i : shared[dalle][j].size # 0
                                          THEN shared[dalle][i] ELSE shared[np][i]
  BY <1>1, Zenon DEF Inherit
<1>5. \A i \in Entries : shared[dalle][i].size # 0 => EntryCopied(np, i)'
  BY <1>2, <1>3, <1>4, Zenon DEF EntryCopied, Same
<1>6. ex'[np].pc = "user"
  BY <1>1, Zenon DEF InExec
<1>7. AttachAt(np)'
  BY <1>6 DEF AttachAt
<1>8. KidEntries(np)'
  BY <1>2, <1>5, <1>7, Zenon DEF KidEntries, Same
<1>9. DallesPages(pgdir[np])'
  BY <1>1, Zenon DEF DallesPages, NoWindow
<1>10. "child" \in KidLabels
  BY DEF KidLabels
<1>11. KidSound(np)'
  BY <1>1, <1>2, <1>8, <1>9, <1>10, Zenon DEF KidSound, Same
<1>12. /\ \A c \in Procs \ {np} : shared'[c] = shared[c]
       /\ \A i \in Entries : shared'[np][i].size # 0 => shared[dalle][i].size # 0
  <2>1. \A c \in Procs \ {np} : shared'[c] = shared[c]
    BY <1>1, Zenon DEF Others, Same
  <2> QED BY <1>4, <2>1, ZenonT(40) DEF Session, Registered
<1>13. Registered'
  BY <1>2, <1>12, Zenon DEF Session, Registered, Same
<1> QED BY <1>11, <1>13, Zenon

(* How many children there may be after dalle's k-th fork.                 *)
LEMMA ForkCount ==
  ASSUME Session, NEW k \in Children, upc[dalle] = <<"fork", k>>, NEW np \in Procs, Kids' \subseteq Kids \cup {np},
         state'[dalle] = "RUN", ~InExec(dalle)',
         upc'[dalle] = IF k = 1 THEN <<"fork", 2>> ELSE <<"wait", 1>>
  PROVE  KidCount'
<1>1. CASE k = 1
  <2>1. upc[dalle] \notin {<<"fork", 2>>, <<"wait", 1>>, <<"wait", 2>>}
    BY <1>1
  <2>2. Kids = {}
    BY <2>1, Zenon DEF Session, KidCount
  <2>3. upc'[dalle] \in {<<"fork", 2>>, <<"wait", 1>>, <<"wait", 2>>} /\ upc'[dalle] # <<"wait", 1>>
    BY <1>1
  <2>4. Kids' \subseteq {np}
    BY <2>2, Zenon
  <2> QED BY <2>3, <2>4, Zenon DEF KidCount
<1>2. CASE k = 2
  <2>1. PICK a \in Procs : Kids \subseteq {a}
    BY <1>2, Zenon DEF Session, KidCount
  <2>2. /\ upc'[dalle] \in {<<"fork", 2>>, <<"wait", 1>>, <<"wait", 2>>}
        /\ upc'[dalle] \notin {<<"fork", 2>>, <<"wait", 2>>}
    BY <1>2
  <2>3. Kids' \subseteq {a, np}
    BY <2>1, Zenon
  <2> QED BY <2>2, <2>3, Zenon DEF KidCount
<1> QED BY <1>1, <1>2 DEF Children

(* dalle's forks.                                                          *)
LEMMA DalleForkSession ==
  ASSUME IInv, Session, dalleFork(dalle)
  PROVE  Session'
<1>1. PICK k \in Children :
        LET next == IF k = 1 THEN <<"fork", 2>> ELSE <<"wait", 1>>
        IN  /\ At(dalle, "fork", k)
            /\ \/ ForkTo(dalle, next, <<"child", k>>)
               \/ upc' = [upc EXCEPT ![dalle] = next] /\ UNCHANGED vars
  BY Zenon DEF dalleFork
<1> DEFINE label == IF k = 1 THEN "fork" ELSE "wait"
           m == IF k = 1 THEN 2 ELSE 1
           next == IF k = 1 THEN <<"fork", 2>> ELSE <<"wait", 1>>
<1>2. /\ state[dalle] = "RUN" /\ Live(dalle) /\ ~InExec(dalle) /\ upc[dalle] = <<"fork", k>>
  BY <1>1, AtFacts, Zenon
<1>3. next = <<label, m>> /\ label \in DalleLabels /\ m \in Nat /\ label \in Labels
  BY DEF DalleLabels, Labels
<1>4. CASE upc' = [upc EXCEPT ![dalle] = next] /\ UNCHANGED vars
  <2>1. Goto(dalle, label, m)
    BY <1>3, <1>4, Zenon DEF Goto
  <2>2. upc'[dalle] = next
    <3> HIDE DEF label, m, next
    <3>1. upc'[dalle] = <<label, m>>
      BY <1>3, <2>1, Slots, GotoFacts, ZenonT(40)
    <3> QED BY <1>3, <3>1, Zenon
  <2>3. UNCHANGED <<state, ex>> /\ state'[dalle] = "RUN" /\ ~InExec(dalle)'
    BY <1>2, <1>4, Zenon DEF InExec, vars
  <2>4. Kids' \subseteq Kids \cup {dalle}
    BY <2>3, Zenon DEF Kids, Live
  <2>5. KidCount'
    BY <1>2, <2>2, <2>3, <2>4, Slots, ForkCount, Zenon
  <2> QED BY <1>2, <1>3, <1>4, <2>1, <2>5, DalleMovesOn, Zenon
<1>5. CASE ForkTo(dalle, next, <<"child", k>>)
  <2>1. PICK np \in Procs : FreeSlot(np) /\ upc' = [upc EXCEPT ![dalle] = next, ![np] = <<"child", k>>]
    BY <1>5, Zenon DEF ForkTo
  <2>2. fork(dalle)
    BY <1>5, Zenon DEF ForkTo
  <2>3. Others(np) /\ ~Live(np) /\ state'[np] = "RUN"
    BY <2>1, <2>2, Slots, ForkMoves, Zenon
  <2>4. np # dalle /\ np # sh
    <3>1. Live(sh)
      BY DEF Session, ShellSound, Live
    <3> QED BY <1>2, <2>3, <3>1, Zenon
  <2>5. /\ upc' \in [Procs -> Labels \X Nat] /\ upc'[dalle] = next /\ upc'[np] = <<"child", k>>
        /\ \A q \in Procs \ {np, dalle} : upc'[q] = upc[q]
    <3>1. <<"child", k>> \in Labels \X Nat /\ next \in Labels \X Nat
      BY <1>3 DEF Labels, KidLabels, Children
    <3>2. upc \in [Procs -> Labels \X Nat]
      BY Zenon DEF Session
    <3> HIDE DEF next
    <3> QED BY <2>1, <2>4, <3>1, <3>2, Slots, Zenon
  <2>6. upc'[np][1] = "child"
    BY <2>5
  <2>7. KidSound(np)' /\ Registered'
    BY <1>2, <2>1, <2>2, <2>4, <2>6, ForkedKid, ZenonT(40)
  <2>8. Same(dalle) /\ SameImages(dalle) /\ DalleStill
    BY <1>2, <2>3, <2>4, Slots, Zenon DEF Others, Same, SameImages, DalleStill
  <2>9. state'[dalle] = "RUN" /\ ~InExec(dalle)' /\ Live(dalle)' /\ Live(np)'
    <3>1. state'[dalle] = "RUN" /\ ~InExec(dalle)'
      BY <1>2, <2>8, Zenon DEF Same, InExec
    <3> QED BY <2>3, <3>1 DEF Live
  <2>10. Kids' \subseteq Kids \cup {np}
    <3>1. \A q \in Procs \ {np} : Live(q)' <=> Live(q)
      BY <2>3, Zenon DEF Others, Same, Live
    <3> QED BY <3>1, Zenon DEF Kids
  <2>11. KidCount'
    BY <1>2, <2>5, <2>9, <2>10, ForkCount, ZenonT(40)
  <2>12. DalleSound'
    <3>1. upc'[dalle][1] \in DalleLabels
      BY <1>3, <2>5
    <3> QED BY <1>2, <2>8, <3>1, DalleStays, Zenon DEF Session
  <2> QED BY <1>2, <2>3, <2>4, <2>5, <2>7, <2>8, <2>9, <2>11, <2>12, Assemble, ZenonT(40)
<1> QED BY <1>1, <1>4, <1>5, Zenon

(* How many children are left after dalle's k-th wait reaped c.            *)
LEMMA WaitCount ==
  ASSUME Session, NEW k \in Children, upc[dalle] = <<"wait", k>>, NEW c \in Kids, Kids' \subseteq Kids \ {c},
         state'[dalle] = "RUN", ~InExec(dalle)',
         upc'[dalle] = IF k = 1 THEN <<"wait", 2>> ELSE <<"die", 0>>
  PROVE  KidCount'
<1>1. CASE k = 1
  <2>1. PICK a, b \in Procs : Kids \subseteq {a, b}
    BY <1>1, Zenon DEF Session, KidCount
  <2>2. PICK e \in Procs : Kids' \subseteq {e}
    BY <2>1, Zenon
  <2>3. upc'[dalle] \in {<<"fork", 2>>, <<"wait", 1>>, <<"wait", 2>>} /\ upc'[dalle] # <<"wait", 1>>
    BY <1>1
  <2> QED BY <2>2, <2>3, Zenon DEF KidCount
<1>2. CASE k = 2
  <2>1. PICK a \in Procs : Kids \subseteq {a}
    BY <1>2, Zenon DEF Session, KidCount
  <2>2. Kids' = {}
    BY <2>1, Zenon
  <2> QED BY <2>2, CountNone, Zenon
<1> QED BY <1>1, <1>2 DEF Children

(* dalle's waits.                                                          *)
LEMMA DalleWaitSession ==
  ASSUME IInv, Session, dalleWait(dalle)
  PROVE  Session'
<1>1. PICK k \in Children :
        /\ At(dalle, "wait", k)
        /\ wait(dalle) \/ ((\A c \in Procs : parent[c] # dalle) /\ UNCHANGED vars)
        /\ IF k = 1 THEN Goto(dalle, "wait", 2) ELSE Goto(dalle, "die", 0)
  BY Zenon DEF dalleWait
<1> DEFINE label == IF k = 1 THEN "wait" ELSE "die"
           m == IF k = 1 THEN 2 ELSE 0
<1>2. /\ state[dalle] = "RUN" /\ Live(dalle) /\ ~InExec(dalle) /\ upc[dalle] = <<"wait", k>>
  BY <1>1, AtFacts, Zenon
<1>3. label \in DalleLabels /\ m \in Nat /\ label \in Labels
  BY DEF DalleLabels, Labels
<1>4. Goto(dalle, label, m) /\ <<label, m>> = IF k = 1 THEN <<"wait", 2>> ELSE <<"die", 0>>
  BY <1>1
<1> HIDE DEF label, m
<1>5. /\ upc' \in [Procs -> Labels \X Nat] /\ upc'[dalle] = <<label, m>> /\ upc'[dalle][1] = label
      /\ \A q \in Procs \ {dalle} : upc'[q] = upc[q]
  BY <1>3, <1>4, Slots, GotoFacts, Zenon
<1>6. CASE (\A c \in Procs : parent[c] # dalle) /\ UNCHANGED vars
  <2>1. Kids = {}
    BY <1>6, Zenon DEF Session, KidSound, Kids
  <2>2. Kids' = {}
    BY <1>6, <2>1, Zenon DEF Kids, Live, vars
  <2> QED BY <1>2, <1>3, <1>4, <1>6, <2>2, CountNone, DalleMovesOn, ZenonT(40)
<1>7. CASE wait(dalle)
  <2>1. PICK c \in Procs : /\ Zombie(dalle, c) /\ Others(c) /\ Live(c) /\ ~Live(c)' /\ parent'[c] = NONE
                           /\ UNCHANGED <<pgdir, shared, ex>>
    BY <1>7, Slots, WaitMoves, Zenon
  <2>2. c # sh /\ c # dalle /\ c \in Kids
    <3>1. c # dalle /\ c # sh
      BY <1>2, <2>1, Slots, Zenon DEF Zombie, Session, ShellSound, DalleSound
    <3> QED BY <2>1, <3>1, Zenon DEF Kids
  <2>3. Same(dalle) /\ SameImages(dalle) /\ DalleStill
    BY <1>2, <2>1, <2>2, Slots, Zenon DEF Others, Same, SameImages, DalleStill
  <2>4. state'[dalle] = "RUN" /\ ~InExec(dalle)'
    BY <1>2, <2>3, Zenon DEF Same, InExec
  <2>5. Kids' \subseteq Kids \ {c}
    <3>1. \A q \in Procs \ {c} : Live(q)' <=> Live(q)
      BY <2>1, Zenon DEF Others, Same, Live
    <3> QED BY <2>1, <3>1, Zenon DEF Kids
  <2>6. KidCount'
    BY <1>2, <1>4, <1>5, <2>2, <2>4, <2>5, WaitCount, ZenonT(40)
  <2>7. DalleSound'
    BY <1>2, <1>3, <1>5, <2>3, DalleStays, Zenon DEF Session
  <2>8. Registered'
    BY <2>1, Zenon DEF Session, Registered
  <2> QED BY <1>2, <1>5, <2>1, <2>2, <2>3, <2>6, <2>7, <2>8, Assemble, ZenonT(40)
<1> QED BY <1>1, <1>6, <1>7, Zenon

----------------------------------------------------------------------------
(* The steps of liSa and coMMa.                                            *)

(* What a child does must keep its own part.                               *)
LEMMA KidSession ==
  ASSUME Session, NEW c \in Kids, Others(c), Live(c)',
         upc' \in [Procs -> Labels \X Nat], \A q \in Procs \ {c} : upc'[q] = upc[q],
         KidSound(c)', Registered'
  PROVE  Session'
<1>1. c \in Procs \ {sh, dalle} /\ Live(c) /\ Live(dalle)
  BY Roles, Zenon DEF Kids
<1>2. Same(dalle) /\ SameImages(dalle) /\ DalleStill /\ upc'[dalle] = upc[dalle]
  BY <1>1, Slots, Zenon DEF Others, Same, SameImages, DalleStill
<1>3. DalleSound'
  BY <1>2, DalleStays, Zenon DEF Session
<1>4. Kids' = Kids
  BY <1>1, KidsSame, Zenon
<1>5. KidCount'
  BY <1>2, <1>4, CountStays, Zenon DEF Session, Same, InExec
<1>6. Live(dalle)' => Live(dalle)
  BY <1>1, Zenon
<1> QED BY <1>1, <1>2, <1>3, <1>5, <1>6, Assemble, ZenonT(40)

(* What a child's step may rely on.                                        *)
LEMMA KidFacts ==
  ASSUME IInv, Session, NEW c \in Kids
  PROVE  /\ c \in Procs \ {sh, dalle} /\ Live(c) /\ KidSound(c) /\ Live(dalle) /\ pgdir[dalle] \in dirs
         /\ NoWindow(pgdir[dalle]) /\ parent_pgdir[c] = pgdir[dalle] /\ upc[c][1] \in KidLabels
         /\ Others(c) => Same(dalle) /\ DalleStill
<1>1. c \in Procs \ {sh, dalle} /\ Live(c) /\ KidSound(c) /\ Live(dalle) /\ upc[c][1] \in KidLabels
  BY Roles, Zenon DEF Kids
<1>2. pgdir[dalle] \in dirs
  BY <1>1, Slots, Types, Zenon
<1>3. Others(c) => Same(dalle) /\ DalleStill
  BY <1>1, Slots, Zenon DEF Others, Same, SameImages, DalleStill
<1> QED BY <1>1, <1>2, <1>3, Zenon DEF KidSound, Session, DalleSound

(* exec of liSa or coMMa: a new image, or the way out.                     *)
LEMMA KidExecSession ==
  ASSUME IInv, Session, NEW c \in Kids, callExec(c)
  PROVE  Session'
<1>1. /\ c \in Procs \ {sh, dalle} /\ Live(c) /\ KidSound(c) /\ Live(dalle) /\ upc[c][1] \in KidLabels
      /\ Others(c) => Same(dalle) /\ DalleStill
  BY KidFacts, Zenon
<1>2. state[c] = "RUN" /\ ~InExec(c) /\ upc[c][1] = "child"
  <2>1. state[c] = "RUN" /\ ~InExec(c) /\ upc[c][1] \in {"cmd", "child"}
    BY AtFacts, Zenon DEF callExec, Execs
  <2>2. "cmd" \notin KidLabels
    BY DEF KidLabels
  <2> QED BY <1>1, <2>1, <2>2, Zenon
<1>3. \A i \in Entries : shared[dalle][i].size # 0 => EntryCopied(c, i)
  BY <1>1, <1>2, Zenon DEF KidSound, KidEntries
<1>4. CASE (\E n \in Images : execLoad(c, n, upc[c][1] = "child")) /\ UNCHANGED upc
  <2>1. (upc[c][1] = "child") = TRUE
    BY <1>2
  <2>2. PICK n \in Images : execLoad(c, n, TRUE)
    BY <1>4, <2>1, Zenon
  <2>3. /\ Others(c) /\ SameDir(pgdir[c]) /\ InExec(c)' /\ ex'[c].pc = "attach" /\ ex'[c].j = 0
        /\ NoWindow(ex[c].dir)' /\ UNCHANGED <<state, parent, pgdir, parent_pgdir, shared>>
    BY <1>1, <2>2, LoadMoves, Zenon
  <2>4. DalleStill
    BY <1>1, <2>3, Zenon
  <2>5. \A i \in Entries : shared'[dalle][i].size # 0 => EntryCopied(c, i)'
    BY <1>3, <2>3, Zenon DEF EntryCopied
  <2>6. \A t, a : MappedFrom(c, t, a, ex[c].j)'
    <3>1. 0..(0 - 1) = {}
      OBVIOUS
    <3> QED BY <2>3, <3>1, Zenon DEF MappedFrom
  <2>7. KidEntries(c)'
    BY <2>5, <2>6, Zenon DEF KidEntries, AttachAt
  <2>8. DallesPages(pgdir[c])' /\ DallesPages(ex[c].dir)'
    <3>1. DallesPages(pgdir[c]) /\ pte'[pgdir'[c]] = pte[pgdir[c]] /\ pte'[pgdir'[dalle]] = pte[pgdir[dalle]]
      BY <1>1, <2>3, <2>4, Zenon DEF KidSound, DalleStill, SameDir
    <3> QED BY <2>3, <3>1, Zenon DEF DallesPages, NoWindow
  <2>9. KidSound(c)'
    BY <1>1, <1>2, <1>4, <2>3, <2>7, <2>8, ZenonT(40) DEF KidSound
  <2>10. Live(c)' /\ Registered'
    BY <1>1, <2>3, Zenon DEF Live, Session, Registered
  <2>11. upc' \in [Procs -> Labels \X Nat] /\ \A q \in Procs \ {c} : upc'[q] = upc[q]
    BY <1>4, Zenon DEF Session
  <2> QED BY <2>3, <2>9, <2>10, <2>11, KidSession, Zenon
<1>5. CASE Goto(c, "die", 0) /\ UNCHANGED vars
  <2>1. Others(c) /\ Same(c) /\ SameDir(pgdir[c]) /\ Live(c)' /\ Registered' /\ ~InExec(c)'
    <3>1. UNCHANGED <<state, parent, kstack, pgdir, parent_pgdir, shared, ex, pte, stab>>
      BY <1>5, Zenon DEF vars
    <3> QED BY <1>1, <1>2, <3>1, Zenon DEF Others, Same, SameImages, SameDir, Live, InExec, Session, Registered
  <2>2. "die" \in Labels /\ "die" \in KidLabels /\ 0 \in Nat
    BY DEF Labels, KidLabels
  <2>3. /\ upc' \in [Procs -> Labels \X Nat] /\ upc'[c][1] = "die"
        /\ \A q \in Procs \ {c} : upc'[q] = upc[q]
    BY <1>1, <1>5, <2>2, GotoFacts, Zenon
  <2>4. DalleStill /\ Same(dalle)
    BY <1>1, <2>1, Zenon
  <2>5. \A i \in Entries : shared'[dalle][i].size # 0 => EntryCopied(c, i)'
    BY <1>3, <2>1, <2>4, Zenon DEF EntryCopied, Same
  <2>6. AttachAt(c)'
    <3>1. ex'[c].pc = "user"
      BY <2>1, Zenon DEF InExec
    <3> QED BY <3>1 DEF AttachAt
  <2>7. DallesPages(pgdir[c])'
    <3>1. DallesPages(pgdir[c]) /\ pte'[pgdir'[c]] = pte[pgdir[c]] /\ pte'[pgdir'[dalle]] = pte[pgdir[dalle]]
      BY <1>1, <2>1, <2>4, Zenon DEF KidSound, DalleStill, SameDir, Same
    <3> QED BY <3>1, Zenon DEF DallesPages
  <2>8. KidSound(c)'
    BY <1>1, <2>1, <2>2, <2>3, <2>4, <2>5, <2>6, <2>7, ZenonT(40) DEF KidSound, KidEntries, Same, DalleStill
  <2> QED BY <2>1, <2>3, <2>8, KidSession, Zenon
<1> QED BY <1>4, <1>5, Zenon DEF callExec

(* A child leaves.                                                         *)
LEMMA KidLeaveSession ==
  ASSUME IInv, Session, NEW c \in Kids, leave(c)
  PROVE  Session'
<1>1. /\ c \in Procs \ {sh, dalle} /\ Live(c) /\ KidSound(c)
      /\ Others(c) => Same(dalle) /\ DalleStill
  BY KidFacts, Zenon
<1>2. exit(c) /\ UNCHANGED upc
  BY Zenon DEF leave
<1>3. /\ ~InExec(c) /\ UNCHANGED <<pgdir, parent_pgdir, ex>> /\ shared'[c] = ClearShared(shared[c])
      /\ state'[c] = "ZOMBIE" /\ \A q \in Procs \ {c} : shared'[q] = shared[q]
  BY <1>1, <1>2, ExitMoves, Zenon
<1>4. \A q \in Procs : parent[q] # c
  <2> SUFFICES ASSUME NEW q \in Procs PROVE parent[q] # c
    OBVIOUS
  <2>1. CASE ~Live(q)
    BY <1>1, <2>1, Slots, Zenon DEF Session, Unused
  <2>2. CASE q = sh
    BY <1>1, <2>2, Slots, Zenon DEF Session, ShellSound
  <2>3. CASE Live(q) /\ q # sh
    BY <1>1, <2>3, Roles, Slots, Zenon
  <2> QED BY <2>1, <2>2, <2>3, Zenon
<1>5. Others(c) /\ parent' = parent /\ SameImages(c) /\ Live(c)'
  BY <1>1, <1>2, <1>4, ExitOthers, Zenon
<1>6. Registered'
  BY <1>1, <1>3, ExitRegistered, Zenon DEF Session
<1>7. DalleStill
  BY <1>1, <1>5, Zenon
<1>8. DallesPages(pgdir[c])'
  BY <1>1, <1>3, <1>5, <1>7, ZenonT(40) DEF KidSound, DallesPages, DalleStill, SameImages, SameDir
<1>9. KidSound(c)'
  <2>1. state'[c] # "RUN"
    BY <1>3
  <2> QED BY <1>1, <1>2, <1>3, <1>5, <1>8, <2>1, Zenon DEF KidSound, InExec
<1> QED BY <1>2, <1>5, <1>6, <1>9, KidSession, Zenon DEF Session

(* A child inside exec.                                                    *)
LEMMA KidInExec ==
  ASSUME IInv, Session, NEW c \in Kids, InExec(c)
  PROVE  /\ state[c] = "RUN" /\ upc[c][1] = "child" /\ DallesPages(pgdir[c]) /\ DallesPages(ex[c].dir)
         /\ KidEntries(c) /\ ImageDir(c) = ex[c].dir /\ parent[c] = dalle
<1>1. c \in Procs /\ KidSound(c)
  BY KidFacts, Zenon
<1>2. state[c] = "RUN"
  BY <1>1, Types, Zenon
<1> QED BY <1>1, <1>2, Zenon DEF KidSound, ImageDir

(* access_shared_memory gives up or is done.                               *)
LEMMA KidDone ==
  ASSUME IInv, Session, NEW c \in Kids, attachEnd(c) \/ attachMissing(c) \/ attachNoMem(c), UNCHANGED upc
  PROVE  Session'
<1>1. /\ c \in Procs \ {sh, dalle} /\ Live(c) /\ KidSound(c)
      /\ Others(c) => Same(dalle) /\ DalleStill
  BY KidFacts, Zenon
<1>2. /\ Others(c) /\ SameImages(c) /\ InExec(c) /\ InExec(c)' /\ UNCHANGED <<procVars, memVars>>
      /\ ex'[c].pc = "stack" /\ ex'[c].dir = ex[c].dir
  BY <1>1, LeaveMoves, Zenon
<1>3. /\ state[c] = "RUN" /\ upc[c][1] = "child" /\ DallesPages(pgdir[c]) /\ DallesPages(ex[c].dir)
      /\ KidEntries(c) /\ ImageDir(c) = ex[c].dir
  BY <1>2, KidInExec, Zenon
<1>4. UNCHANGED <<state, parent, pgdir, parent_pgdir, shared, pte>>
  BY <1>2, Zenon DEF procVars, memVars
<1>5. ImageDir(c)' = ex[c].dir
  BY <1>2, Zenon DEF ImageDir
<1>6. \A t, a, n : MappedFrom(c, t, a, n) => MappedFrom(c, t, a, n)'
  BY <1>3, <1>4, <1>5, Zenon DEF MappedFrom
<1>7. ex'[c].pc # "attach"
  BY <1>2
<1>8. \A i \in Entries : /\ EntryCopied(c, i) => EntryCopied(c, i)'
                         /\ EntryMoved(c, i) => EntryMoved(c, i)'
  BY <1>2, <1>4, <1>6, <1>7, Zenon DEF EntryCopied, EntryMoved
<1>9. KidEntries(c)'
  BY <1>2, <1>3, <1>4, <1>7, <1>8, Zenon DEF KidEntries, AttachAt
<1>10. DallesPages(pgdir[c])' /\ DallesPages(ex[c].dir)'
  BY <1>2, <1>3, <1>4, Zenon DEF DallesPages
<1>11. KidSound(c)'
  BY <1>1, <1>3, <1>4, <1>9, <1>10, Zenon DEF KidSound
<1>12. Live(c)' /\ Registered'
  BY <1>1, <1>4, Zenon DEF Live, Session, Registered
<1> QED BY <1>2, <1>11, <1>12, KidSession, Zenon DEF Session

(* The new image replaces the old one: the child runs liSa or coMMa.       *)
LEMMA KidCommit ==
  ASSUME IInv, Session, NEW c \in Kids, execCommit(c), NEW k \in Nat, Goto(c, "run", k)
  PROVE  Session'
<1>1. /\ c \in Procs \ {sh, dalle} /\ Live(c) /\ KidSound(c)
      /\ Others(c) => Same(dalle) /\ DalleStill
  BY KidFacts, Zenon
<1>2. /\ Others(c) /\ InExec(c) /\ ~InExec(c)' /\ UNCHANGED <<state, parent, parent_pgdir, shared>>
      /\ pgdir'[c] = ex[c].dir /\ ex'[c].pc = "user"
      /\ \A g \in HighPages : pte'[ex[c].dir][g] = pte[ex[c].dir][g]
  BY <1>1, CommitMoves, Zenon
<1>3. /\ state[c] = "RUN" /\ upc[c][1] = "child" /\ DallesPages(ex[c].dir)
      /\ KidEntries(c) /\ ImageDir(c) = ex[c].dir
  BY <1>2, KidInExec, Zenon
<1>4. DalleStill /\ pte'[pgdir'[dalle]] = pte[pgdir[dalle]]
  BY <1>1, <1>2, Zenon DEF DalleStill, SameDir
<1>5. "run" \in Labels /\ "run" \in KidLabels /\ "run" # "child"
  BY DEF Labels, KidLabels
<1>6. /\ upc' \in [Procs -> Labels \X Nat] /\ upc'[c][1] = "run"
      /\ \A q \in Procs \ {c} : upc'[q] = upc[q]
  BY <1>1, <1>5, GotoFacts, Zenon
<1>7. ImageDir(c)' = ex[c].dir
  BY <1>2, Zenon DEF ImageDir
<1>8. \A t, a, n : MappedFrom(c, t, a, n) => MappedFrom(c, t, a, n)'
  BY <1>2, <1>3, <1>4, <1>7, Zenon DEF MappedFrom
<1>9. ex'[c].pc # "attach"
  BY <1>2
<1>10. \A i \in Entries : /\ EntryCopied(c, i) => EntryCopied(c, i)'
                          /\ EntryMoved(c, i) => EntryMoved(c, i)'
  BY <1>2, <1>8, <1>9, Zenon DEF EntryCopied, EntryMoved
<1>11. KidEntries(c)'
  BY <1>2, <1>3, <1>5, <1>6, <1>9, <1>10, ZenonT(40) DEF KidEntries, AttachAt
<1>12. DallesPages(pgdir[c])'
  BY <1>2, <1>3, <1>4, ZenonT(40) DEF DallesPages
<1>13. KidSound(c)'
  BY <1>1, <1>2, <1>4, <1>5, <1>6, <1>11, <1>12, Zenon DEF KidSound, DalleStill
<1>14. Live(c)' /\ Registered'
  BY <1>1, <1>2, Zenon DEF Live, Session, Registered
<1> QED BY <1>2, <1>6, <1>13, <1>14, KidSession, ZenonT(40)

(* exec fails late: the child's entries may have moved, it leaves.         *)
LEMMA KidBad ==
  ASSUME IInv, Session, NEW c \in Kids, execBad(c), Goto(c, "die", 0)
  PROVE  Session'
<1>1. /\ c \in Procs \ {sh, dalle} /\ Live(c) /\ KidSound(c)
      /\ Others(c) => Same(dalle) /\ DalleStill
  BY KidFacts, Zenon
<1>2. /\ Others(c) /\ SameDir(pgdir[c]) /\ InExec(c) /\ ~InExec(c)' /\ UNCHANGED procVars
      /\ ex'[c].pc = "user"
  BY <1>1, BadMoves, Zenon
<1>3. /\ state[c] = "RUN" /\ DallesPages(pgdir[c]) /\ KidEntries(c)
  BY <1>2, KidInExec, Zenon
<1>4. DalleStill /\ pte'[pgdir'[dalle]] = pte[pgdir[dalle]] /\ pte'[pgdir'[c]] = pte[pgdir[c]]
      /\ UNCHANGED <<state, parent, pgdir, parent_pgdir, shared>>
  BY <1>1, <1>2, Zenon DEF DalleStill, SameDir, procVars
<1>5. "die" \in Labels /\ "die" \in KidLabels /\ "die" # "child" /\ "die" # "run" /\ 0 \in Nat
  BY DEF Labels, KidLabels
<1>6. /\ upc' \in [Procs -> Labels \X Nat] /\ upc'[c][1] = "die"
      /\ \A q \in Procs \ {c} : upc'[q] = upc[q]
  BY <1>1, <1>5, GotoFacts, Zenon
<1>7. ex'[c].pc # "attach" /\ ~(InExec(c)' \/ upc'[c][1] = "run")
  BY <1>2, <1>5, <1>6, SMTT(30)
<1>8. \A i \in Entries : /\ EntryCopied(c, i) => EntryCopied(c, i)'
                         /\ EntryMoved(c, i) => EntryMoved(c, i)'
  BY <1>4, <1>7, Zenon DEF EntryCopied, EntryMoved
<1>9. KidEntries(c)'
  BY <1>3, <1>4, <1>5, <1>6, <1>7, <1>8, ZenonT(40) DEF KidEntries, AttachAt
<1>10. DallesPages(pgdir[c])'
  BY <1>3, <1>4, Zenon DEF DallesPages
<1>11. KidSound(c)'
  BY <1>1, <1>2, <1>4, <1>5, <1>6, <1>9, <1>10, ZenonT(40) DEF KidSound
<1>12. Live(c)' /\ Registered'
  BY <1>1, <1>4, Zenon DEF Live, Session, Registered
<1> QED BY <1>2, <1>6, <1>11, <1>12, KidSession, ZenonT(40)

(* The page a child maps next leaves alone what it has mapped below.       *)
LEMMA MappedBelow ==
  ASSUME NEW c, NEW t \in Int, NEW a, NEW n \in Int, NEW g \in Int, t + n <= g, MappedFrom(c, t, a, n),
         \A h \in Pages \ {g} : pte'[ImageDir(c)'][h] = pte[ImageDir(c)][h],
         pte'[pgdir'[dalle]] = pte[pgdir[dalle]]
  PROVE  MappedFrom(c, t, a, n)'
<1>1. \A j \in 0..(n - 1) : t + j # g
  OBVIOUS
<1>2. \A h \in HighPages : h \in Pages
  BY Zenon DEF HighPages
<1>3. \A j \in 0..(n - 1) : pte'[ImageDir(c)'][t + j] = pte[ImageDir(c)][t + j]
  BY <1>1, <1>2, Zenon DEF MappedFrom
<1> QED BY <1>3, Zenon DEF MappedFrom

(* The entry a child is at is one that dalle has registered, not yet moved.*)
LEMMA KidAtEntry ==
  ASSUME IInv, Session, NEW c \in Kids, Attaching(c), InEntry(c)
  PROVE  /\ InExec(c) /\ c \in Procs /\ ex[c].i \in Entries /\ Entry(c) = shared[dalle][ex[c].i]
         /\ shared[dalle][ex[c].i].size # 0 /\ Entry(c).memstart \in Nat /\ NPages(Entry(c).size) \in Nat
         /\ ex[c].vp \in Nat /\ ex[c].j \in Nat /\ ex[c].vp >= SHAREDPG
         /\ ex[c].j # 0 => ex[c].j <= NPages(Entry(c).size)
         /\ MappedFrom(c, ex[c].vp, PageOf(Entry(c).memstart), ex[c].j)
         /\ \A k \in Entries : k >= ex[c].i /\ shared[dalle][k].size # 0 => EntryCopied(c, k)
<1>1. c \in Procs /\ ex[c].pc = "attach" /\ ex[c].i < SHAREDCOUNT /\ Entry(c).size # 0
  BY KidFacts, Zenon DEF Attaching, InEntry
<1>2. InExec(c)
  BY <1>1 DEF InExec
<1>3. KidEntries(c)
  BY <1>2, KidInExec, Zenon
<1>4. ex[c] \in ExType
  BY <1>1, Types, Zenon
<1>5. ex[c].i \in Entries /\ ex[c].vp \in Nat /\ ex[c].j \in Nat /\ ex[c].i >= ex[c].i
  BY <1>1, <1>4, ExFields, SharedMemAssumption, SMTT(30) DEF Entries
<1>6. shared[dalle][ex[c].i].size # 0
  BY <1>1, <1>5, Zenon DEF Session, Registered, Entry
<1>7. Entry(c) = shared[dalle][ex[c].i]
  BY <1>1, <1>3, <1>5, <1>6, Zenon DEF KidEntries, AttachAt, EntryCopied, Entry
<1>8. Entry(c) \in EntryType
  <2>1. shared \in [Procs -> [Entries -> EntryType]]
    BY Types, Zenon
  <2> QED BY <1>1, <1>5, <2>1, Zenon DEF Entry
<1>9. NPages(Entry(c).size) \in Nat
  BY <1>1, <1>8, EntrySize, Zenon
<1>10. Entry(c).memstart \in Nat
  BY <1>8, EntryFields, Units, SMTT(30)
<1>11. ex[c].vp >= SHAREDPG /\ (ex[c].j # 0 => ex[c].j <= NPages(Entry(c).size))
  BY <1>1, Zenon DEF IInv, AttachSound, Entry
<1> QED BY <1>1, <1>2, <1>3, <1>5, <1>6, <1>7, <1>9, <1>10, <1>11, ZenonT(40) DEF KidEntries, AttachAt

(* What child c has moved lies below the page it is at.                    *)
LEMMA KidMovedBelow ==
  ASSUME IInv, Session, NEW c \in Kids, Attaching(c), NEW k \in Entries, shared[dalle][k].size # 0,
         EntryMoved(c, k)
  PROVE  /\ PageOf(shared[c][k].memstart) \in Int /\ NPages(shared[dalle][k].size) \in Int
         /\ PageOf(shared[c][k].memstart) + NPages(shared[dalle][k].size) <= ex[c].vp
         /\ MappedFrom(c, PageOf(shared[c][k].memstart), PageOf(shared[dalle][k].memstart),
                       NPages(shared[dalle][k].size))
<1>1. c \in Procs /\ ex[c].pc = "attach" /\ dalle \in Procs
  BY KidFacts, Slots, Zenon DEF Attaching
<1>2. InExec(c)
  BY <1>1 DEF InExec
<1>3. shared \in [Procs -> [Entries -> EntryType]]
  BY Types, Zenon
<1>4. shared[c][k] \in EntryType /\ shared[dalle][k] \in EntryType
  BY <1>1, <1>3, Zenon
<1>5. PageOf(shared[c][k].memstart) \in Int
  <2>1. shared[c][k].memstart \in Int
    BY <1>4, EntryFields, Units, SMTT(30)
  <2> QED BY <2>1, PageCount, Zenon
<1>6. NPages(shared[dalle][k].size) \in Int
  <2>1. NPages(shared[dalle][k].size) \in 0..MaxPages
    BY <1>4, EntrySize, Zenon
  <2> QED BY <2>1, WindowFits, SharedMemAssumption, SMTT(30)
<1> QED BY <1>1, <1>2, <1>5, <1>6, Zenon DEF EntryMoved

(* The child maps one more of dalle's pages.                               *)
LEMMA KidPage ==
  ASSUME IInv, Session, NEW c \in Kids, attachPage(c), UNCHANGED upc
  PROVE  Session'
<1> DEFINE g == TargetPage(c)
           h == SourcePage(c)
           j == ex[c].j
<1>1. /\ c \in Procs \ {sh, dalle} /\ Live(c) /\ KidSound(c) /\ pgdir[dalle] \in dirs
      /\ NoWindow(pgdir[dalle]) /\ parent_pgdir[c] = pgdir[dalle]
      /\ Others(c) => Same(dalle) /\ DalleStill
  BY KidFacts, Zenon
<1>2. /\ Others(c) /\ SameDir(pgdir[c]) /\ InExec(c) /\ InExec(c)' /\ UNCHANGED <<procVars, dirs>>
      /\ Attaching(c) /\ InEntry(c) /\ PageLeft(c)
      /\ ex'[c] = Ex("attach", ex[c].dir, ex[c].n, ex[c].i, ex[c].j + 1, ex[c].vp)
      /\ pte'[ex[c].dir][g] \in Walk(parent_pgdir[c], h) \ {NONE}
      /\ \A q \in Pages \ {g} : pte'[ex[c].dir][q] = pte[ex[c].dir][q]
  BY <1>1, PageMoves, Zenon
<1>3. /\ state[c] = "RUN" /\ upc[c][1] = "child" /\ DallesPages(pgdir[c]) /\ DallesPages(ex[c].dir)
      /\ KidEntries(c) /\ ImageDir(c) = ex[c].dir
  BY <1>2, KidInExec, Zenon
<1>4. /\ DalleStill /\ pte'[pgdir'[dalle]] = pte[pgdir[dalle]] /\ pte'[pgdir'[c]] = pte[pgdir[c]]
      /\ UNCHANGED <<state, parent, pgdir, parent_pgdir, shared>>
  BY <1>1, <1>2, Zenon DEF DalleStill, SameDir, procVars
<1>5. /\ ex'[c].pc = "attach" /\ ex'[c].dir = ex[c].dir /\ ex'[c].i = ex[c].i /\ ex'[c].j = j + 1
      /\ ex'[c].vp = ex[c].vp
  <2> DEFINE e == Ex("attach", ex[c].dir, ex[c].n, ex[c].i, ex[c].j + 1, ex[c].vp)
  <2>1. e.pc = "attach" /\ e.dir = ex[c].dir /\ e.i = ex[c].i /\ e.j = ex[c].j + 1 /\ e.vp = ex[c].vp
    BY Zenon DEF Ex
  <2>2. ex'[c] = e
    BY <1>2, Zenon
  <2> HIDE DEF e
  <2> QED BY <2>1, <2>2, Zenon
<1>6. ImageDir(c)' = ex[c].dir
  BY <1>2, <1>5, Zenon DEF ImageDir
<1>7. h \in LowPages /\ pte'[ex[c].dir][g] = pte[pgdir[dalle]][h]
  <2>1. Walk(parent_pgdir[c], h) = {IF h \in Pages THEN pte[pgdir[dalle]][h] ELSE NONE}
    BY <1>1, Zenon DEF Walk
  <2>2. h \in Pages /\ pte'[ex[c].dir][g] = pte[pgdir[dalle]][h] /\ pte[pgdir[dalle]][h] # NONE
    BY <1>2, <2>1, Zenon
  <2> QED BY <1>1, <2>2, Zenon DEF NoWindow, HighPages
<1>8. g \in HighPages /\ g = ex[c].vp + j /\ g \in Int
  <2>1. g \in Pages /\ g >= SHAREDPG /\ g = ex[c].vp + ex[c].j
    BY <1>1, <1>2, AtTarget, Zenon
  <2> HIDE DEF g
  <2> QED BY <2>1, SharedMemAssumption DEF HighPages, LowPages, Pages
<1>9. /\ ex[c].i \in Entries /\ Entry(c) = shared[dalle][ex[c].i] /\ Entry(c).memstart \in Nat
      /\ ex[c].vp \in Nat /\ j \in Nat /\ MappedFrom(c, ex[c].vp, PageOf(Entry(c).memstart), j)
      /\ \A k \in Entries : k >= ex[c].i /\ shared[dalle][k].size # 0 => EntryCopied(c, k)
  BY <1>2, KidAtEntry, Zenon
<1>10. h = PageOf(Entry(c).memstart) + j /\ PageOf(Entry(c).memstart) \in Int
  <2>1. Entry(c).memstart \in Int
    BY <1>9
  <2> QED BY <2>1, PageCount, ZenonT(40) DEF SourcePage
<1> HIDE DEF g, h, j
<1>11. MappedFrom(c, ex[c].vp, PageOf(Entry(c).memstart), ex[c].j)'
  <2> DEFINE a == PageOf(Entry(c).memstart)
  <2>1. Entry(c)' = Entry(c) /\ ex'[c].vp = ex[c].vp
    BY <1>4, <1>5, Zenon DEF Entry
  <2> SUFFICES ASSUME NEW k \in 0..(ex'[c].j - 1)
               PROVE  /\ ex[c].vp + k \in HighPages /\ a + k \in LowPages
                      /\ pte'[ex[c].dir][ex[c].vp + k] = pte[pgdir[dalle]][a + k]
    BY <1>4, <1>5, <1>6, <2>1, ZenonT(40) DEF MappedFrom
  <2>2. k = j \/ (k \in 0..(j - 1) /\ ex[c].vp + k # g)
    BY <1>5, <1>8, <1>9, SMTT(30)
  <2>3. CASE k = j
    BY <1>7, <1>8, <1>10, <2>3, Zenon
  <2>4. CASE k \in 0..(j - 1) /\ ex[c].vp + k # g
    <3>1. /\ ex[c].vp + k \in HighPages /\ a + k \in LowPages
          /\ pte[ex[c].dir][ex[c].vp + k] = pte[pgdir[dalle]][a + k]
      BY <1>3, <1>9, <2>4, Zenon DEF MappedFrom
    <3> QED BY <1>2, <2>4, <3>1, Zenon DEF HighPages, g
  <2> QED BY <2>2, <2>3, <2>4, Zenon
<1>12. AttachAt(c)'
  <2>1. \A k \in Entries : k >= ex'[c].i /\ shared'[dalle][k].size # 0 => EntryCopied(c, k)'
    BY <1>4, <1>5, <1>9, Zenon DEF EntryCopied
  <2>2. Entry(c)' = shared'[dalle][ex'[c].i]
    BY <1>4, <1>5, <1>9, Zenon DEF Entry
  <2>3. MappedFrom(c, ex[c].vp, PageOf(shared[dalle][ex[c].i].memstart), ex[c].j)'
    BY <1>11, <2>2, Zenon
  <2> QED BY <2>1, <2>3, Zenon DEF AttachAt
<1>13. ASSUME NEW k \in Entries, shared[dalle][k].size # 0, EntryMoved(c, k) PROVE EntryMoved(c, k)'
  <2> DEFINE t == PageOf(shared[c][k].memstart)
             a == PageOf(shared[dalle][k].memstart)
             n == NPages(shared[dalle][k].size)
  <2>1. t \in Int /\ n \in Int /\ t + n <= ex[c].vp /\ MappedFrom(c, t, a, n)
    BY <1>2, <1>13, KidMovedBelow, Zenon
  <2>2. /\ \A q \in Pages \ {g} : pte'[ImageDir(c)'][q] = pte[ImageDir(c)][q]
        /\ t' = t /\ a' = a /\ n' = n
    BY <1>2, <1>3, <1>4, <1>6, ZenonT(40) DEF g
  <2>3. t + n <= g
    <3> HIDE DEF t, n
    <3> QED BY <1>8, <1>9, <2>1, SMTT(30)
  <2>4. MappedFrom(c, t, a, n)'
    <3> HIDE DEF t, a, n
    <3>1. \A w : \A u \in Int, v \in Int :
            u + v <= g /\ MappedFrom(c, u, w, v) => MappedFrom(c, u, w, v)'
      BY <1>4, <1>8, <2>2, MappedBelow, ZenonT(40)
    <3>2. PICK u, v, w : u \in Int /\ v \in Int /\ u = t /\ v = n /\ w = a
      BY <2>1, Zenon
    <3>3. MappedFrom(c, u, w, v)'
      BY <2>1, <2>3, <3>1, <3>2, Zenon
    <3>4. u = t' /\ v = n' /\ w = a'
      BY <2>2, <3>2, Zenon
    <3> QED BY <3>3, <3>4, Zenon
  <2>5. PageOf(shared'[c][k].memstart) + NPages(shared'[dalle][k].size) <= ex'[c].vp
    BY <1>4, <1>5, <2>1, Zenon
  <2> QED BY <1>4, <1>13, <2>4, <2>5, ZenonT(40) DEF EntryMoved
<1>14. KidEntries(c)'
  <2>1. \A k \in Entries : EntryCopied(c, k) => EntryCopied(c, k)'
    BY <1>4, Zenon DEF EntryCopied
  <2>2. \A k \in Entries : shared'[dalle][k].size # 0 => EntryCopied(c, k)' \/ EntryMoved(c, k)'
    BY <1>3, <1>4, <1>13, <2>1, Zenon DEF KidEntries
  <2> QED BY <1>2, <1>12, <2>2, Zenon DEF KidEntries
<1>15. DallesPages(pgdir[c])' /\ DallesPages(ex[c].dir)'
  <2>1. DallesPages(pgdir[c])'
    BY <1>3, <1>4, ZenonT(40) DEF DallesPages
  <2>2. ASSUME NEW q \in HighPages
        PROVE  pte'[ex[c].dir][q] = NONE \/ \E r \in LowPages : pte'[pgdir'[dalle]][r] = pte'[ex[c].dir][q]
    <3>1. CASE q = g
      BY <1>4, <1>7, <3>1, Zenon
    <3>2. CASE q # g
      <4>1. pte'[ex[c].dir][q] = pte[ex[c].dir][q]
        BY <1>2, <2>2, <3>2, Zenon DEF HighPages, g
      <4> QED BY <1>3, <1>4, <2>2, <4>1, ZenonT(40) DEF DallesPages
    <3> QED BY <3>1, <3>2, Zenon
  <2> QED BY <1>5, <2>1, <2>2, ZenonT(40) DEF DallesPages
<1>16. KidSound(c)'
  BY <1>1, <1>3, <1>4, <1>14, <1>15, ZenonT(40) DEF KidSound
<1>17. Live(c)' /\ Registered'
  BY <1>1, <1>4, Zenon DEF Live, Session, Registered
<1> QED BY <1>2, <1>16, <1>17, KidSession, Zenon DEF Session

(* A number splits one way into pages and an offset.                       *)
LEMMA PageOffset ==
  ASSUME NEW q \in Int, NEW r \in 0..(PGSIZE - 1)
  PROVE  (q * PGSIZE + r) \div PGSIZE = q /\ (q * PGSIZE + r) % PGSIZE = r
<1>1. PGSIZE \in Nat \ {0}
  BY SharedMemAssumption
<1>2. ASSUME NEW P \in Nat \ {0}, NEW a \in Int, NEW b \in 0..(P - 1)
      PROVE  (a * P + b) \div P = a /\ (a * P + b) % P = b
  BY <1>2
<1> QED BY <1>1, <1>2, SMTT(30)

(* The window address of an entry lies on the page exec is at, with the    *)
(* offset that the entry has in dalle's memory.                            *)
LEMMA WindowPage ==
  ASSUME NEW v \in Nat, NEW m \in Nat, v >= SHAREDPG
  PROVE  LET w == v * PGSIZE + (m % PGSIZE)
         IN  w \in Nat /\ PageOf(w) = v /\ w % PGSIZE = m % PGSIZE /\ w >= SHAREDBASE
<1>1. PGSIZE \in Nat \ {0} /\ SHAREDPG \in Nat
  BY SharedMemAssumption
<1>2. m % PGSIZE \in 0..(PGSIZE - 1)
  BY <1>1
<1>3. v * PGSIZE \in Nat /\ v * PGSIZE >= SHAREDBASE
  BY <1>1 DEF SHAREDBASE
<1>4. /\ (v * PGSIZE + (m % PGSIZE)) \div PGSIZE = v
      /\ (v * PGSIZE + (m % PGSIZE)) % PGSIZE = m % PGSIZE
  BY <1>2, PageOffset, SMTT(30)
<1>5. v * PGSIZE + (m % PGSIZE) \in Nat /\ v * PGSIZE + (m % PGSIZE) >= SHAREDBASE
  BY <1>2, <1>3, Units, SMTT(30)
<1> QED BY <1>4, <1>5, Zenon DEF PageOf

(* The child has mapped all pages of the entry it is at: the entry moves.  *)
LEMMA KidEntry ==
  ASSUME IInv, Session, NEW c \in Kids, attachEntry(c), UNCHANGED upc
  PROVE  Session'
<1> DEFINE i == ex[c].i
           v == ex[c].vp
           n == NPages(Entry(c).size)
           m == Entry(c).memstart
           w == v * PGSIZE + (m % PGSIZE)
<1>1. /\ c \in Procs \ {sh, dalle} /\ Live(c) /\ KidSound(c)
      /\ Others(c) => Same(dalle) /\ DalleStill
  BY KidFacts, Zenon
<1>2. /\ Others(c) /\ InExec(c) /\ InExec(c)' /\ Attaching(c) /\ InEntry(c) /\ ~PageLeft(c)
      /\ UNCHANGED <<state, parent, kstack, pgdir, parent_pgdir, memVars>>
      /\ shared'[c] = [shared[c] EXCEPT ![ex[c].i] =
                         [name |-> @.name, memstart |-> WindowAddr(c), size |-> @.size]]
      /\ ex'[c] = Ex("attach", ex[c].dir, ex[c].n, ex[c].i + 1, 0, NextVa(c))
  BY <1>1, EntryMoves, Zenon
<1>3. /\ state[c] = "RUN" /\ upc[c][1] = "child" /\ DallesPages(pgdir[c]) /\ DallesPages(ex[c].dir)
      /\ KidEntries(c) /\ ImageDir(c) = ex[c].dir
  BY <1>2, KidInExec, Zenon
<1>4. /\ i \in Entries /\ Entry(c) = shared[dalle][i] /\ shared[dalle][i].size # 0 /\ m \in Nat /\ n \in Nat
      /\ v \in Nat /\ ex[c].j \in Nat /\ v >= SHAREDPG /\ (ex[c].j # 0 => ex[c].j <= n)
      /\ MappedFrom(c, v, PageOf(m), ex[c].j)
      /\ \A k \in Entries : k >= i /\ shared[dalle][k].size # 0 => EntryCopied(c, k)
  BY <1>2, KidAtEntry, ZenonT(40)
<1>5. ex[c].j = n
  <2>1. ~(ex[c].j < n)
    BY <1>2, Zenon DEF PageLeft
  <2> HIDE DEF n
  <2> QED BY <1>4, <2>1
<1>6. w \in Nat /\ PageOf(w) = v /\ w % PGSIZE = m % PGSIZE /\ w >= SHAREDBASE
  <2> HIDE DEF v, m
  <2> QED BY <1>4, WindowPage, Zenon
<1>7. /\ UNCHANGED <<state, parent, pgdir, parent_pgdir, pte>> /\ shared'[dalle] = shared[dalle]
      /\ \A q \in Procs \ {c} : shared'[q] = shared[q]
  BY <1>1, <1>2, Zenon DEF memVars, Others, Same
<1>8. /\ shared'[c][i].memstart = w /\ shared'[c][i].size = shared[dalle][i].size
      /\ \A k \in Entries \ {i} : shared'[c][k] = shared[c][k]
  <2> DEFINE e == [name |-> shared[c][i].name, memstart |-> WindowAddr(c), size |-> shared[c][i].size]
  <2>1. e.memstart = WindowAddr(c) /\ e.size = shared[c][i].size
    BY Zenon
  <2>2. WindowAddr(c) = w /\ shared[c][i].size = shared[dalle][i].size
    BY <1>4, Zenon DEF WindowAddr, Entry
  <2>3. shared[c] \in [Entries -> EntryType]
    BY <1>1, Types, Zenon
  <2>4. shared'[c] = [shared[c] EXCEPT ![i] = e]
    BY <1>2, <1>4, <2>3, Zenon
  <2> HIDE DEF e, i, w
  <2> QED BY <1>4, <2>1, <2>2, <2>3, <2>4, ZenonT(40)
<1>9. ex'[c].pc = "attach" /\ ex'[c].dir = ex[c].dir /\ ex'[c].i = i + 1 /\ ex'[c].j = 0 /\ ex'[c].vp = v + n
  <2> DEFINE e == Ex("attach", ex[c].dir, ex[c].n, ex[c].i + 1, 0, NextVa(c))
  <2>1. e.pc = "attach" /\ e.dir = ex[c].dir /\ e.i = ex[c].i + 1 /\ e.j = 0 /\ e.vp = NextVa(c)
    BY Zenon DEF Ex
  <2>2. ex'[c] = e /\ NextVa(c) = v + n
    BY <1>2, Zenon DEF NextVa
  <2> HIDE DEF e
  <2> QED BY <2>1, <2>2, Zenon
<1>10. ImageDir(c)' = ImageDir(c) /\ \A t, a, q : MappedFrom(c, t, a, q) => MappedFrom(c, t, a, q)'
  <2>1. ImageDir(c)' = ImageDir(c)
    BY <1>2, <1>3, <1>9, Zenon DEF ImageDir
  <2> QED BY <1>7, <2>1, Zenon DEF MappedFrom
<1>12. ASSUME NEW k \in Entries, k = i PROVE EntryMoved(c, k)'
  <2> DEFINE mine == shared'[c][k]
             its == shared'[dalle][k]
  <2>1. /\ mine.memstart = w /\ mine.size = its.size /\ its.memstart = m /\ NPages(its.size) = n
    BY <1>4, <1>7, <1>8, <1>12, ZenonT(40)
  <2>2. mine.memstart >= SHAREDBASE /\ mine.memstart % PGSIZE = its.memstart % PGSIZE
    BY <1>6, <2>1, Zenon
  <2>3. PageOf(mine.memstart) = v /\ PageOf(its.memstart) = PageOf(m)
    BY <1>6, <2>1, Zenon
  <2>4. MappedFrom(c, PageOf(shared[c][k].memstart), PageOf(shared[dalle][k].memstart), NPages(shared[dalle][k].size))'
    <3>1. \A t, a, q : t = v /\ a = PageOf(m) /\ q = n => MappedFrom(c, t, a, q)'
      BY <1>4, <1>5, <1>10, ZenonT(40)
    <3>2. PICK t, a, q : t = v /\ a = PageOf(m) /\ q = n
      OBVIOUS
    <3>3. MappedFrom(c, t, a, q)' /\ t = PageOf(mine.memstart) /\ a = PageOf(its.memstart) /\ q = NPages(its.size)
      BY <2>1, <2>3, <3>1, <3>2, ZenonT(40)
    <3> QED BY <3>3, Zenon
  <2>5. PageOf(mine.memstart) + NPages(its.size) <= ex'[c].vp
    <3>1. v + n <= v + n
      BY <1>4
    <3> QED BY <1>9, <2>1, <2>3, <3>1, ZenonT(40)
  <2> QED BY <2>1, <2>2, <2>4, <2>5, Zenon DEF EntryMoved
<1>13. ASSUME NEW k \in Entries, k # i, shared[dalle][k].size # 0, EntryMoved(c, k) PROVE EntryMoved(c, k)'
  <2> DEFINE t == PageOf(shared[c][k].memstart)
             a == PageOf(shared[dalle][k].memstart)
             q == NPages(shared[dalle][k].size)
  <2>1. t \in Int /\ q \in Int /\ t + q <= v /\ MappedFrom(c, t, a, q)
    BY <1>2, <1>13, KidMovedBelow, ZenonT(40)
  <2>2. shared'[c][k] = shared[c][k] /\ shared'[dalle][k] = shared[dalle][k]
    BY <1>7, <1>8, <1>13, ZenonT(40)
  <2>3. t' = t /\ a' = a /\ q' = q
    BY <2>2, Zenon
  <2>4. MappedFrom(c, t, a, q)'
    <3> HIDE DEF t, a, q
    <3>1. PICK t1, a1, q1 : t1 = t /\ a1 = a /\ q1 = q
      OBVIOUS
    <3>2. MappedFrom(c, t1, a1, q1)'
      BY <1>10, <2>1, <3>1, ZenonT(40)
    <3>3. t1 = t' /\ a1 = a' /\ q1 = q'
      BY <2>3, <3>1, ZenonT(40)
    <3> QED BY <3>2, <3>3, Zenon
  <2>5. t + q <= ex'[c].vp
    <3> HIDE DEF t, q, v, n
    <3> QED BY <1>4, <1>9, <2>1, SMTT(30)
  <2> QED BY <1>13, <2>2, <2>4, <2>5, ZenonT(40) DEF EntryMoved
<1>14. AttachAt(c)'
  <2>1. \A k \in Entries : k >= i + 1 => k >= i /\ k # i
    <3> HIDE DEF i
    <3> QED BY <1>4, SharedMemAssumption DEF Entries
  <2>2. \A k \in Entries : k >= ex'[c].i /\ shared'[dalle][k].size # 0 => EntryCopied(c, k)'
    BY <1>4, <1>7, <1>8, <1>9, <2>1, Zenon DEF EntryCopied
  <2>3. \A t, a : MappedFrom(c, t, a, ex[c].j)'
    <3>1. 0..(0 - 1) = {}
      OBVIOUS
    <3> QED BY <1>9, <3>1, Zenon DEF MappedFrom
  <2> QED BY <2>2, <2>3, ZenonT(40) DEF AttachAt
<1>15. KidEntries(c)'
  <2>1. \A k \in Entries : k # i /\ EntryCopied(c, k) => EntryCopied(c, k)'
    BY <1>7, <1>8, Zenon DEF EntryCopied
  <2>2. \A k \in Entries : shared'[dalle][k].size # 0 => EntryCopied(c, k)' \/ EntryMoved(c, k)'
    BY <1>3, <1>7, <1>12, <1>13, <2>1, Zenon DEF KidEntries
  <2> QED BY <1>2, <1>14, <2>2, Zenon DEF KidEntries
<1>16. DallesPages(pgdir[c])' /\ DallesPages(ex[c].dir)'
  BY <1>3, <1>7, <1>9, ZenonT(40) DEF DallesPages
<1>17. KidSound(c)'
  BY <1>1, <1>3, <1>7, <1>15, <1>16, Zenon DEF KidSound
<1>18. Live(c)'
  BY <1>1, <1>7, Zenon DEF Live
<1>19. Registered'
  <2>1. \A k \in Entries : shared'[c][k].size # 0 => shared[dalle][k].size # 0
    BY <1>1, <1>4, <1>8, ZenonT(40) DEF Session, Registered
  <2> QED BY <1>7, <2>1, Zenon DEF Session, Registered
<1> QED BY <1>2, <1>17, <1>18, <1>19, KidSession, ZenonT(40) DEF Session

(* A child inside exec.                                                    *)
LEMMA KidInsideSession ==
  ASSUME IInv, Session, NEW c \in Kids, insideExec(c)
  PROVE  Session'
<1>1. CASE access_shared_memory(c) /\ UNCHANGED upc
  BY <1>1, KidDone, KidPage, KidEntry, Zenon DEF access_shared_memory
<1>2. CASE /\ execCommit(c)
           /\ IF upc[c][1] = "cmd" THEN Goto(c, "share", 1) ELSE Goto(c, "run", upc[c][2])
  <2>1. c \in Procs
    BY KidFacts, Zenon
  <2>2. upc[c][1] = "child" /\ upc[c][2] \in Nat
    <3>1. InExec(c)
      BY <1>2, <2>1, CommitMoves, Zenon
    <3>2. upc \in [Procs -> Labels \X Nat]
      BY Zenon DEF Session
    <3>3. upc[c] \in Labels \X Nat
      BY <2>1, <3>2, Zenon
    <3> QED BY <3>1, <3>3, KidInExec, SMTT(30)
  <2>3. Goto(c, "run", upc[c][2])
    BY <1>2, <2>2
  <2> QED BY <1>2, <2>2, <2>3, KidCommit, Zenon
<1>3. CASE execBad(c) /\ Goto(c, "die", 0)
  BY <1>3, KidBad, Zenon
<1> QED BY <1>1, <1>2, <1>3, Zenon DEF insideExec

(* Every step of a program keeps the session sound.                        *)
LEMMA ProgramSession ==
  ASSUME IInv, Session, NEW p \in Procs \ {sh}, Program(p)
  PROVE  Session'
<1>1. Live(p)
  <2>1. CASE insideExec(p)
    <3>1. state[p] = "RUN"
      BY <2>1, Zenon DEF insideExec, access_shared_memory, attachEnd, attachMissing, attachPage, attachNoMem,
                         attachEntry, Attaching, execCommit, execBad
    <3> QED BY <3>1, SMTT(30) DEF Live
  <2>2. CASE ~insideExec(p)
    BY <2>2, AtFacts, Zenon DEF Program, callExec, Execs, leave, dalleShare, dalleFork, dalleWait
  <2> QED BY <2>1, <2>2, Zenon
<1>2. CASE p = dalle
  BY <1>2, DalleExecSession, DalleInsideSession, DalleLeaveSession, DalleShareSession, DalleForkSession,
     DalleWaitSession, ZenonT(40) DEF Program
<1>3. CASE p # dalle
  <2>1. p \in Kids /\ upc[p][1] \in KidLabels
    BY <1>1, <1>3, Roles, Zenon
  <2>2. upc[p][1] \notin {"share", "fork", "wait"}
    BY <2>1 DEF KidLabels
  <2>3. ~dalleShare(p) /\ ~dalleFork(p) /\ ~dalleWait(p)
    BY <2>2, AtFacts, Zenon DEF dalleShare, dalleFork, dalleWait
  <2> QED BY <2>1, <2>3, KidExecSession, KidInsideSession, KidLeaveSession, Zenon DEF Program
<1> QED BY <1>2, <1>3, Zenon

----------------------------------------------------------------------------
(* The frames of a session.                                                *)

(* The steps of SharedMem that a session takes: all but sbrk.              *)
SessionStep(p) ==
  \/ \E x \in Structs : share_data(p, x)
  \/ fork(p)
  \/ \E n \in Images, attach \in BOOLEAN : execLoad(p, n, attach)
  \/ access_shared_memory(p)
  \/ execCommit(p) \/ execBad(p)
  \/ exit(p) \/ wait(p)

(* Every step of a session is one of them, or changes a program only.      *)
LEMMA SessionSteps ==
  ASSUME DNext
  PROVE  UNCHANGED mem /\ (UNCHANGED vars \/ \E p \in Procs : SessionStep(p))
<1>1. CASE shFork \/ shWait
  BY <1>1, Slots, Zenon DEF shFork, shWait, ForkTo, SessionStep
<1>2. ASSUME NEW p \in Procs \ {sh}, Program(p)
      PROVE  UNCHANGED mem /\ (UNCHANGED vars \/ SessionStep(p))
  <2>1. CASE callExec(p)
    <3>1. (upc[p][1] = "child") \in BOOLEAN
      OBVIOUS
    <3> QED BY <2>1, <3>1, Zenon DEF callExec, SessionStep
  <2>2. CASE dalleShare(p)
    <3>1. PICK k \in 1..Len(Layout) : share_data(p, Layout[k]) \/ UNCHANGED vars
      BY <2>2, Zenon DEF dalleShare
    <3>2. Layout[k] \in Structs
      BY DalleAssumption
    <3> QED BY <2>2, <3>1, <3>2, Zenon DEF dalleShare, SessionStep
  <2>3. CASE insideExec(p) \/ leave(p) \/ dalleFork(p) \/ dalleWait(p)
    BY <2>3, Zenon DEF insideExec, leave, dalleFork, dalleWait, ForkTo, SessionStep
  <2> QED BY <1>2, <2>1, <2>2, <2>3, Zenon DEF Program
<1> QED BY <1>1, <1>2, Zenon DEF DNext

(* No step uses a frame beyond the machine's.                              *)
LEMMA StepClosed ==
  ASSUME IInv, NEW p \in Procs, SessionStep(p)
  PROVE  Closed
<1>1. CASE \E x \in Structs : share_data(p, x)
  BY <1>1, IdleClosed, Zenon DEF share_data, Live
<1>2. CASE exit(p)
  <2>1. UNCHANGED <<kstack, memVars>> /\ \A q \in Procs \ {p} : state'[q] = state[q]
    BY <1>2, ExitMoves, Zenon
  <2>2. Live(p)
    <3>1. state[p] = "RUN"
      BY <1>2, ExitMoves, Zenon
    <3> QED BY <3>1 DEF Live
  <2>3. \A q \in Procs : Live(q)' => Live(q)
    BY <2>1, <2>2, Zenon DEF Live
  <2> QED BY <2>1, <2>3, IdleClosed, Zenon
<1>3. CASE access_shared_memory(p)
  <2>1. CASE attachPage(p)
    BY <2>1, PageClosed, Zenon
  <2>2. CASE attachEntry(p)
    BY <2>2, IdleClosed, Zenon DEF attachEntry, Live
  <2>3. CASE attachEnd(p) \/ attachMissing(p) \/ attachNoMem(p)
    <3>1. UNCHANGED <<procVars, memVars>>
      BY <2>3, LeaveMoves, Zenon
    <3> QED BY <3>1, IdleClosed, Zenon DEF procVars, Live
  <2> QED BY <1>3, <2>1, <2>2, <2>3, Zenon DEF access_shared_memory
<1> QED BY <1>1, <1>2, <1>3, ForkClosed, LoadClosed, CommitClosed, GiveClosed, ZenonT(40) DEF SessionStep

(* A step of a session keeps its frames.                                   *)
LEMMA FramesKept ==
  ASSUME PInv, MemorySound, DNext
  PROVE  PInv' /\ MemorySound'
<1>1. PICK m : m = mem
  OBVIOUS
<1>2. mem' = m /\ m \in 3..NFRAME
  BY <1>1, SessionSteps, Zenon DEF MemorySound
<1>3. 1..m \in SUBSET Frames
  BY <1>2, SharedMemAssumption DEF Frames
<1>4. Accounted(1..m)
  BY <1>1, Zenon DEF MemorySound
<1>5. CASE UNCHANGED vars
  <2>1. PInv'
    BY <1>5, NextPInv, Zenon
  <2>2. Accounted(1..m)'
    BY <1>3, <1>4, <1>5, IdleAccounts, ZenonT(40)
  <2>3. Closed
    BY <1>5, IdleClosed, Zenon DEF vars, memVars, Live
  <2> QED BY <1>1, <1>2, <2>1, <2>2, <2>3, Zenon DEF MemorySound, Closed
<1>6. ASSUME NEW p \in Procs, SessionStep(p) PROVE PInv' /\ MemorySound'
  <2>1. Step(p)
    BY <1>6, Zenon DEF SessionStep, Step
  <2>2. PInv'
    BY <2>1, NextPInv, Zenon DEF Next
  <2>3. Accounted(1..m)'
    BY <1>3, <1>4, <2>1, StepAccounts, Zenon
  <2>4. Closed
    BY <1>6, StepClosed, Zenon DEF PInv
  <2> QED BY <1>1, <1>2, <2>2, <2>3, <2>4, Zenon DEF MemorySound, Closed
<1> QED BY <1>5, <1>6, SessionSteps, Zenon

(* What the image that userinit made owns.                                 *)
LEMMA ShellOwns ==
  ASSUME pte[2] = [NoPages EXCEPT ![0] = 3], stab[2] = NoTabs, NEW f
  PROVE  Owns(pte, stab, 2, f) <=> f \in {2, 3}
<1>1. 0 \in LowPages /\ LowPages \subseteq Pages
  BY SharedMemAssumption DEF LowPages, Pages
<1>2. \A g \in LowPages : pte[2][g] = IF g = 0 THEN 3 ELSE NONE
  BY <1>1, Zenon DEF NoPages
<1>3. \A t \in STabs : stab[2][t] = NONE
  BY Zenon DEF NoTabs
<1>4. 2 # NONE /\ 3 # NONE
  BY DEF NONE
<1> QED BY <1>1, <1>2, <1>3, <1>4, Zenon DEF Owns

(* When the machine is up, the shell waits for a command.                  *)
LEMMA DInitInv == DInit => DInv
<1> SUFFICES ASSUME DInit PROVE DInv
  OBVIOUS
<1>1. PICK m : m = mem
  OBVIOUS
<1>2. m \in 3..NFRAME /\ InitWith(m)
  <2>1. mem \in MemSizes /\ InitWith(mem)
    BY Zenon DEF DInit
  <2> QED BY <1>1, <2>1, DalleAssumption, Zenon
<1>3. PInv /\ Accounted(1..m)
  BY <1>2, BootPInv, BootAccounts, Zenon
<1>4. /\ state = [p \in Procs |-> IF p = initproc THEN "RUN" ELSE "UNUSED"]
      /\ parent = [p \in Procs |-> NONE] /\ kstack = [p \in Procs |-> IF p = initproc THEN 1 ELSE NONE]
      /\ pgdir = [p \in Procs |-> IF p = initproc THEN 2 ELSE NONE]
      /\ shared = [p \in Procs |-> [i \in Entries |-> EmptyEntry]] /\ ex = [p \in Procs |-> InUser]
      /\ free = 4..m /\ dirs = {2}
      /\ pte = [f \in Frames |-> IF f = 2 THEN [NoPages EXCEPT ![0] = 3] ELSE NoPages]
      /\ stab = [f \in Frames |-> NoTabs] /\ upc = [p \in Procs |-> <<"prompt", 0>>]
  BY <1>2, Zenon DEF InitWith, DInit
<1>5. 2 \in Frames /\ pte[2] = [NoPages EXCEPT ![0] = 3] /\ stab[2] = NoTabs
  <2>1. 2 \in Frames
    BY SharedMemAssumption DEF Frames
  <2> QED BY <1>4, <2>1, Zenon
<1>6. /\ \A p \in Procs : Live(p) <=> p = sh
      /\ \A p \in Procs : ~InExec(p) /\ parent[p] = NONE /\ upc[p] = <<"prompt", 0>>
      /\ \A p \in Procs, i \in Entries : shared[p][i].size = 0
      /\ state[sh] = "RUN" /\ kstack[sh] = 1 /\ pgdir[sh] = 2
  <2>1. sh = initproc /\ "RUN" # "UNUSED" /\ sh \in Procs
    BY Slots DEF sh
  <2>2. InUser.pc = "user" /\ EmptyEntry.size = 0
    BY Zenon DEF InUser, Ex, EmptyEntry
  <2> HIDE DEF sh
  <2>3. \A p \in Procs : Live(p) <=> p = sh
    BY <1>4, <2>1, Zenon DEF Live
  <2>4. \A p \in Procs : ~InExec(p)
    BY <1>4, <2>2, Zenon DEF InExec
  <2> QED BY <1>4, <2>1, <2>2, <2>3, <2>4, ZenonT(40)
<1>7. MemorySound
  <2>1. ASSUME NEW f \in Frames, Placed(f) PROVE f <= m
    <3>1. f \in 4..m \/ f \in {2, 3} \/ f = 1
      BY <1>4, <1>5, <1>6, <2>1, ShellOwns, ZenonT(40) DEF Placed, LiveProcs
    <3> QED BY <1>2, <3>1, SharedMemAssumption, SMTT(30)
  <2> QED BY <1>1, <1>2, <1>3, <2>1, ZenonT(40) DEF MemorySound
<1>8. Session
  <2>1. Kids = {} /\ ~Live(dalle) /\ sh \in Procs /\ dalle \in Procs
    BY <1>6, Slots, Zenon DEF Kids
  <2>2. upc \in [Procs -> Labels \X Nat]
    <3>1. <<"prompt", 0>> \in Labels \X Nat
      BY DEF Labels
    <3> QED BY <1>4, <3>1, Zenon
  <2>3. ShellSound
    BY <1>5, <1>6, <2>1, Zenon DEF ShellSound, shdir
  <2>4. DalleSound /\ KidCount /\ Registered /\ Unused
    BY <1>6, <2>1, Zenon DEF DalleSound, KidCount, Registered, Unused
  <2> QED BY <2>1, <2>2, <2>3, <2>4, Zenon DEF Session
<1> QED BY <1>3, <1>7, <1>8, Zenon DEF DInv

(* A step that changes nothing.                                            *)
LEMMA IdleInv ==
  ASSUME DInv, UNCHANGED dvars
  PROVE  DInv'
<1>1. UNCHANGED vars /\ upc' = upc /\ mem' = mem
  BY Zenon DEF dvars
<1>2. UNCHANGED <<state, parent, kstack, pgdir, parent_pgdir, shared, ex, memVars, pte, stab>>
  BY <1>1, Zenon DEF vars, memVars
<1>3. PICK m : m = mem
  OBVIOUS
<1>4. 1..m \in SUBSET Frames
  <2>1. m \in 3..NFRAME
    BY <1>3, Zenon DEF DInv, MemorySound
  <2> QED BY <2>1, SharedMemAssumption DEF Frames
<1>5. PInv' /\ Accounted(1..m)'
  BY <1>1, <1>3, <1>4, NextPInv, IdleAccounts, Zenon DEF DInv, MemorySound
<1>6. Closed
  BY <1>2, IdleClosed, Zenon DEF Live
<1>7. MemorySound'
  BY <1>1, <1>3, <1>5, <1>6, Zenon DEF DInv, MemorySound, Closed
<1>8. Others(dalle) /\ Same(dalle) /\ SameImages(dalle) /\ DalleStill
  BY <1>2, Zenon DEF Others, Same, SameImages, SameDir, DalleStill
<1>9. (Live(dalle)' <=> Live(dalle)) /\ (InExec(dalle)' <=> InExec(dalle)) /\ state' = state
  BY <1>2, Zenon DEF Live, InExec
<1>10. Kids' = Kids
  BY <1>8, Slots, KidsSame, Zenon
<1>11. DalleSound' /\ KidCount' /\ Registered'
  BY <1>1, <1>2, <1>8, <1>9, <1>10, DalleStays, CountStays, ZenonT(40) DEF DInv, Session, Registered
<1>12. Session'
  BY <1>1, <1>2, <1>8, <1>9, <1>11, Slots, Assemble, ZenonT(40) DEF DInv, Session, Unused
<1> QED BY <1>5, <1>7, <1>12, Zenon DEF DInv

(* DInv is inductive: every step of the programs keeps it.                 *)
LEMMA DNextInv == DInv /\ [DNext]_dvars => DInv'
<1> SUFFICES ASSUME DInv, [DNext]_dvars PROVE DInv'
  OBVIOUS
<1>1. CASE UNCHANGED dvars
  BY <1>1, IdleInv, Zenon
<1>2. CASE DNext
  <2>1. PInv' /\ MemorySound'
    BY <1>2, FramesKept, Zenon DEF DInv
  <2>2. Session'
    BY <1>2, ShForkSession, ShWaitSession, ProgramSession, ZenonT(40) DEF DNext, DInv, PInv
  <2> QED BY <2>1, <2>2, Zenon DEF DInv
<1> QED BY <1>1, <1>2, Zenon

(* The invariant of a session holds throughout.                            *)
THEOREM DInductive == DSpec => []DInv
BY DInitInv, DNextInv, PTL DEF DSpec

----------------------------------------------------------------------------
(* What follows from it.                                                   *)

(* Going w words on from address a crosses q pages, and at most n - 1 when *)
(* the words stay within the n pages that start at a's.                    *)
LEMMA PagesCrossed ==
  ASSUME NEW a \in Nat, NEW w \in Nat, NEW n \in Int, (a % PGSIZE) + w < n * PGSIZE
  PROVE  LET q == ((a % PGSIZE) + w) \div PGSIZE
         IN  q \in 0..(n - 1) /\ PageOf(a + w) = PageOf(a) + q
<1> DEFINE x == (a % PGSIZE) + w
           q == x \div PGSIZE
           r == x % PGSIZE
           b == a \div PGSIZE
<1>1. PGSIZE \in Nat \ {0}
  BY SharedMemAssumption
<1>2. x \in Nat /\ q \in Nat /\ r \in 0..(PGSIZE - 1) /\ b \in Nat /\ a % PGSIZE \in Nat
  BY <1>1
<1>3. a = b * PGSIZE + (a % PGSIZE)
  BY <1>1
<1>4. x = q * PGSIZE + r
  <2> HIDE DEF x
  <2> QED BY <1>1, <1>2
<1>5. a + w = (b + q) * PGSIZE + r
  <2>1. a + w = b * PGSIZE + x
    BY <1>1, <1>2, <1>3, SMTT(30)
  <2>2. \A u, v, p \in Nat : (u + v) * p = u * p + v * p /\ u * p \in Nat /\ v * p \in Nat
    OBVIOUS
  <2>3. (b + q) * PGSIZE = b * PGSIZE + q * PGSIZE /\ b * PGSIZE \in Nat /\ q * PGSIZE \in Nat
    <3> HIDE DEF b, q
    <3> QED BY <1>1, <1>2, <2>2, SMTT(30)
  <2> HIDE DEF b, q, r, x
  <2> QED BY <1>1, <1>2, <1>4, <2>1, <2>3, SMTT(30)
<1>6. (a + w) \div PGSIZE = b + q
  <2> HIDE DEF b, q, r, x
  <2>1. b + q \in Int
    BY <1>2
  <2> QED BY <1>2, <1>5, <2>1, PageOffset, SMTT(30)
<1>7. q <= n - 1
  <2> HIDE DEF q, r
  <2>1. q * PGSIZE < n * PGSIZE
    BY <1>1, <1>2, <1>4, SMTT(30)
  <2>2. ASSUME NEW P \in Nat \ {0}, NEW u \in Int, NEW v \in Int, u * P < v * P PROVE u < v
    BY <2>2
  <2>3. q < n
    BY <1>1, <1>2, <2>1, <2>2, SMTT(30)
  <2> QED BY <1>2, <2>3
<1> QED BY <1>2, <1>6, <1>7, SMTT(30) DEF PageOf

(* A running child.                                                        *)
LEMMA RunningKid ==
  ASSUME DInv, NEW c \in Procs, Running(c)
  PROVE  /\ c \in Kids /\ parent[c] = dalle /\ KidEntries(c) /\ ImageDir(c) = pgdir[c] /\ upc[c][1] = "run"
<1>1. state[c] = "RUN" /\ ~InExec(c) /\ upc[c][1] = "run"
  BY Zenon DEF Running, CanExit, InExec
<1>2. Live(c)
  BY <1>1, SMTT(30) DEF Live
<1>3. c # sh
  BY <1>1 DEF DInv, Session, ShellSound
<1>4. c # dalle
  <2>1. "run" \notin DalleLabels
    BY DEF DalleLabels
  <2> QED BY <1>1, <1>2, <2>1, Zenon DEF DInv, Session, DalleSound
<1>5. c \in Kids /\ KidSound(c)
  BY <1>2, <1>3, <1>4, Zenon DEF DInv, Session, Kids
<1> QED BY <1>1, <1>5, Zenon DEF KidSound, ImageDir

(* liSa and coMMa see dalle's memory through the window, word for word     *)
(* (access_shared_memory's mapping against share_data's registration).     *)
THEOREM MemoryShared == DSpec => []SameMemory
<1>1. DInv => SameMemory
  <2> SUFFICES ASSUME DInv, NEW c \in Procs, Running(c), NEW i \in Entries,
                      shared[c][i].memstart >= SHAREDBASE, shared[c][i].size # 0
               PROVE  LET mine == shared[c][i]
                          its == shared[parent[c]][i]
                      IN  /\ mine.memstart % PGSIZE = its.memstart % PGSIZE
                          /\ \A w \in 0..(mine.size - 1) :
                               (its.memstart % PGSIZE) + w < NPages(its.size) * PGSIZE =>
                                 pte[pgdir[c]][PageOf(mine.memstart + w)]
                                   = pte[pgdir[parent[c]]][PageOf(its.memstart + w)]
    BY Zenon DEF SameMemory
  <2> DEFINE mine == shared[c][i]
             its == shared[dalle][i]
             n == NPages(its.size)
  <2>1. /\ c \in Kids /\ parent[c] = dalle /\ KidEntries(c) /\ ImageDir(c) = pgdir[c] /\ upc[c][1] = "run"
    BY RunningKid, Zenon
  <2>2. its.size # 0 /\ its.memstart < SHAREDBASE
    BY Slots, Zenon DEF DInv, Session, Registered
  <2>3. mine \in EntryType /\ its \in EntryType
    <3>1. shared \in [Procs -> [Entries -> EntryType]]
      BY Types, Zenon DEF DInv, PInv
    <3> QED BY <3>1, Slots, Zenon
  <2>4. mine.memstart \in Nat /\ its.memstart \in Nat /\ mine.size \in Int
    <3>1. mine.memstart \in 0..(UINT - 1) /\ its.memstart \in 0..(UINT - 1)
      BY <2>3, EntryFields, Zenon
    <3>2. mine.size \in Int
      BY <2>3, EntrySize, Zenon
    <3> HIDE DEF mine, its
    <3> QED BY <3>1, <3>2, Units, SMTT(30)
  <2>5. n \in Int
    <3>1. n \in Nat
      BY <2>2, <2>3, EntrySize, Zenon
    <3> HIDE DEF n
    <3> QED BY <3>1
  <2>6. mine # its
    <3> HIDE DEF mine, its
    <3>1. mine.memstart >= SHAREDBASE
      BY Zenon DEF mine
    <3> QED BY <2>2, <2>4, <3>1, Units, SMTT(30)
  <2>7. EntryMoved(c, i)
    BY <2>1, <2>2, <2>6, Zenon DEF KidEntries, EntryCopied
  <2>8. /\ mine.memstart % PGSIZE = its.memstart % PGSIZE
        /\ \A j \in 0..(n - 1) : pte[pgdir[c]][PageOf(mine.memstart) + j] = pte[pgdir[dalle]][PageOf(its.memstart) + j]
    BY <2>1, <2>7, Zenon DEF EntryMoved, MappedFrom
  <2>9. ASSUME NEW w \in 0..(mine.size - 1), (its.memstart % PGSIZE) + w < n * PGSIZE
        PROVE  pte[pgdir[c]][PageOf(mine.memstart + w)] = pte[pgdir[dalle]][PageOf(its.memstart + w)]
    <3> DEFINE q == ((its.memstart % PGSIZE) + w) \div PGSIZE
    <3> HIDE DEF mine, its, n
    <3>1. w \in Nat
      BY <2>4, <2>9, SMTT(30)
    <3>2. q \in 0..(n - 1) /\ PageOf(its.memstart + w) = PageOf(its.memstart) + q
      BY <2>4, <2>5, <2>9, <3>1, PagesCrossed, ZenonT(40)
    <3>3. PageOf(mine.memstart + w) = PageOf(mine.memstart) + q
      BY <2>4, <2>5, <2>8, <2>9, <3>1, PagesCrossed, ZenonT(40)
    <3> QED BY <2>8, <3>2, <3>3, ZenonT(40)
  <2> QED BY <2>1, <2>8, <2>9, Zenon
<1> QED BY <1>1, DInductive, PTL

(* A frame in a child's window is a private page of its parent, which is   *)
(* still running: freevm of the parent never takes it away (exit and wait  *)
(* of dalle come after those of its children).                             *)
THEOREM WindowKept == DSpec => []WindowBacked
<1>1. DInv => WindowBacked
  <2> SUFFICES ASSUME DInv, NEW c \in Procs \ {sh}, Live(c),
                      Window(pgdir[c]) \cup (IF InExec(c) THEN Window(ex[c].dir) ELSE {}) # {}
               PROVE  /\ state[parent[c]] = "RUN"
                      /\ Window(pgdir[c]) \cup (IF InExec(c) THEN Window(ex[c].dir) ELSE {})
                           \subseteq LowFrames(pgdir[parent[c]])
    BY Zenon DEF WindowBacked
  <2>1. \A d : NoWindow(d) => Window(d) = {}
    BY Zenon DEF NoWindow, Window, HighPages
  <2>2. \A d : DallesPages(d) => Window(d) \subseteq LowFrames(pgdir[dalle])
    BY Zenon DEF DallesPages, Window, HighPages, LowFrames
  <2>3. c # dalle
    BY <2>1, Zenon DEF DInv, Session, DalleSound
  <2>4. parent[c] = dalle /\ KidSound(c) /\ state[dalle] = "RUN"
    BY <2>3, Roles, ZenonT(40) DEF DInv
  <2> QED BY <2>2, <2>4, Zenon DEF KidSound
<1> QED BY <1>1, DInductive, PTL

(* At the prompt, everything a session took has been given back: all       *)
(* directories but the shell's, all frames and all slots.                  *)
THEOREM SessionsCleanUp == DSpec => []SessionCleanedUp
<1>1. DInv => SessionCleanedUp
  <2> SUFFICES ASSUME DInv, upc[sh] = <<"prompt", 0>>
               PROVE  dirs = {pgdir[sh]} /\ free = 4..mem /\ \A p \in Procs \ {sh} : ~Live(p)
    BY Zenon DEF SessionCleanedUp
  <2>1. /\ state[sh] = "RUN" /\ ~InExec(sh) /\ kstack[sh] = 1 /\ pgdir[sh] = 2
        /\ pte[2] = [NoPages EXCEPT ![0] = 3] /\ stab[2] = NoTabs /\ ~Live(dalle)
    BY Zenon DEF DInv, Session, ShellSound, shdir
  <2>2. \A p \in Procs \ {sh} : ~Live(p)
    <3>1. Kids = {}
      BY <2>1, ZenonT(40) DEF DInv, Session, KidCount, Live
    <3> QED BY <2>1, <3>1, Zenon DEF Kids
  <2>3. Live(sh) /\ sh \in Procs
    BY <2>1, Slots, SMTT(30) DEF Live
  <2>4. dirs = {2}
    <3>1. 2 \in dirs
      BY <2>1, <2>3, Types, ZenonT(40) DEF DInv, PInv
    <3>2. \A q \in Procs : ~InExec(q)
      BY <2>1, <2>2, Types, ZenonT(40) DEF DInv, PInv
    <3> QED BY <2>1, <2>2, <3>1, <3>2, ZenonT(40) DEF DInv, MemorySound, Accounted, DirsUsed
  <2>5. \A f : Owns(pte, stab, 2, f) <=> f \in {2, 3}
    BY <2>1, ShellOwns, Zenon
  <2>6. LiveProcs = {sh}
    BY <2>2, <2>3, Zenon DEF LiveProcs
  <2>7. free \subseteq Frames /\ mem \in 3..NFRAME
    BY Types, Zenon DEF DInv, PInv, MemorySound
  <2>8. 1 \notin free /\ 2 \notin free /\ 3 \notin free
    <3>1. \A f \in Frames : Owns(pte, stab, 2, f) => f \notin free
      BY <2>4, ZenonT(40) DEF DInv, PInv, IInv, FrameInv, Exclusive
    <3>2. kstack[sh] \notin free
      BY <2>6, ZenonT(40) DEF DInv, PInv, IInv, FrameInv, Exclusive
    <3>3. 2 \in Frames /\ 3 \in Frames
      BY SharedMemAssumption, SMTT(30) DEF Frames
    <3> QED BY <2>1, <2>5, <3>1, <3>2, <3>3, ZenonT(40)
  <2>9. ASSUME NEW f \in free PROVE f \in 4..mem
    <3>1. f \in Frames /\ f <= mem
      BY <2>7, <2>9, Zenon DEF DInv, MemorySound, Placed
    <3> QED BY <2>7, <2>8, <2>9, <3>1, SharedMemAssumption, SMTT(30) DEF Frames
  <2>10. ASSUME NEW f \in 4..mem PROVE f \in free
    <3>1. f \in 1..mem /\ f # 1 /\ f \notin {2, 3}
      BY <2>7, <2>10, SharedMemAssumption, SMTT(30)
    <3>2. f \in free \/ Owns(pte, stab, 2, f) \/ kstack[sh] = f
      BY <2>4, <2>6, <3>1, Zenon DEF DInv, MemorySound, Accounted, Covered
    <3> QED BY <2>1, <2>5, <3>1, <3>2, ZenonT(40)
  <2>11. free = 4..mem
    BY <2>9, <2>10, Zenon
  <2> QED BY <2>1, <2>2, <2>4, <2>11, ZenonT(40)
<1> QED BY <1>1, DInductive, PTL
=============================================================================
