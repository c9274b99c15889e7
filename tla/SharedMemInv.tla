---------------------------- MODULE SharedMemInv ----------------------------
(***************************************************************************)
(* The inductive invariant of SharedMem, for shared structures that        *)
(* together fit in the part of the window one page-table page maps.  (When *)
(* they do not, attachNoMem can free pages of the parent.)                 *)
(***************************************************************************)
EXTENDS SharedMem

ASSUME OneTable == SHAREDPG <= NPT

(* freevm(d) gives frame f back, with page directories pt and window page  *)
(* tables st.                                                              *)
Owns(pt, st, d, f) ==
  /\ f # NONE
  /\ f = d \/ (\E g \in LowPages : pt[d][g] = f) \/ (\E t \in STabs : st[d][t] = f)

(* FramesExclusive element by element, for a free list fr, directories ds  *)
(* and the kernel stacks ks of processes ps: a directory's frame, its low  *)
(* pages and its page tables are all different, none is free, and no two   *)
(* directories or kernel stacks have one in common.                        *)
Exclusive(fr, ds, pt, st, ps, ks) ==
  /\ \A d \in ds :
       /\ \A f \in Frames : Owns(pt, st, d, f) => f \notin fr
       /\ \A g \in LowPages : pt[d][g] # d
       /\ \A t \in STabs : st[d][t] # d
       /\ \A g \in LowPages, t \in STabs : pt[d][g] = st[d][t] => pt[d][g] = NONE
       /\ \A g, h \in LowPages : pt[d][g] = pt[d][h] /\ pt[d][g] # NONE => g = h
  /\ \A d, e \in ds : \A f \in Frames : Owns(pt, st, d, f) /\ Owns(pt, st, e, f) => d = e
  /\ \A p \in ps :
       /\ ks[p] \in Frames /\ ks[p] \notin fr
       /\ \A d \in ds : ~Owns(pt, st, d, ks[p])
       /\ \A q \in ps : ks[p] = ks[q] => p = q

LiveProcs == {p \in Procs : Live(p)}

FrameInv ==
  /\ Exclusive(free, dirs, pte, stab, LiveProcs, kstack)
  /\ \A f \in Frames \ dirs : stab[f] = NoTabs

(* Every process has a directory of its own, and so has every exec.        *)
DirOwner ==
  /\ \A p \in Procs : Live(p) => pgdir[p] \in dirs
  /\ \A p \in Procs : InExec(p) => state[p] = "RUN" /\ ex[p].dir \in dirs
  /\ \A p, q \in Procs : Live(p) /\ Live(q) /\ pgdir[p] = pgdir[q] => p = q
  /\ \A p, q \in Procs : Live(p) /\ InExec(q) => pgdir[p] # ex[q].dir
  /\ \A p, q \in Procs : InExec(p) /\ InExec(q) /\ ex[p].dir = ex[q].dir => p = q

(* exec has mapped the window from its start up to the page it is at, and  *)
(* nothing beyond.                                                         *)
AttachSound ==
  \A p \in Procs : ex[p].pc = "attach" =>
    /\ ex[p].vp >= SHAREDPG
    /\ ex[p].vp <= SHAREDPG + ex[p].i * MaxPages
    /\ ex[p].j # 0 => /\ ex[p].i < SHAREDCOUNT
                      /\ ex[p].j <= NPages(shared[p][ex[p].i].size)
                      /\ stab[ex[p].dir][0] # NONE
    /\ \A g \in Pages : g >= ex[p].vp + ex[p].j => pte[ex[p].dir][g] = NONE

IInv ==
  TypeOK /\ FrameInv /\ DirOwner /\ AttachSound

(* A process that still has its first page has every page below sz, and an *)
(* exec has every page of the program it has loaded; neither has any page  *)
(* beyond, in the part of memory that freevm gives back.                   *)
ImageMapped ==
  /\ \A p \in Procs : Live(p) =>
       \A g \in LowPages :
         /\ g < NPages(sz[p]) /\ pte[pgdir[p]][0] # NONE => pte[pgdir[p]][g] # NONE
         /\ g >= NPages(sz[p]) => pte[pgdir[p]][g] = NONE
  /\ \A p \in Procs : InExec(p) =>
       \A g \in LowPages : g < ex[p].n <=> pte[ex[p].dir][g] # NONE

(* init never exits, and every other process has a running parent.         *)
Family == state[initproc] = "RUN" /\ ParentRuns

(* The two invariants NoPanic rests on, on top of IInv.                    *)
PInv == IInv /\ ImageMapped /\ Family
=============================================================================
