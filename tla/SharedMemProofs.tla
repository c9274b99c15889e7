-------------------------- MODULE SharedMemProofs --------------------------
(***************************************************************************)
(* IInv is an inductive invariant of SharedMem, and TypeOK and             *)
(* FramesExclusive follow from it, for every size of the process table, of *)
(* memory and of the shared arrays.  A step takes frames from the free     *)
(* list (Take) or gives frames back to it (Give, Drop); each action is     *)
(* shown to do one, the other, or first one and then the other.            *)
(*                                                                         *)
(* From it: the panics of copyuvm (a page below sz is missing), mappages   *)
(* (a page is mapped twice) and exit's kfree (a user address) cannot       *)
(* happen, and every process has a parent to reap it.  And no frame is     *)
(* lost: each is on the free list, is given back by the freevm of a        *)
(* directory in use, or is a kernel stack, and each directory in use       *)
(* belongs to a process that wait will reap or to an exec under way.       *)
(***************************************************************************)
EXTENDS SharedMemInv, TLAPS

(* The numbers among the constants.                                        *)
LEMMA Numbers ==
  /\ NPROC \in Nat /\ NPROC >= 1 /\ SHAREDCOUNT \in Nat /\ SHAREDCOUNT >= 1
  /\ PGSIZE \in Nat /\ PGSIZE >= 1 /\ SHAREDPG \in Nat /\ SHAREDPG >= 2
  /\ NPT \in Nat /\ NPT >= 1 /\ NFRAME \in Nat /\ NFRAME >= 3
<1>1. /\ NPROC \in Nat \ {0} /\ SHAREDCOUNT \in Nat \ {0}
      /\ PGSIZE \in Nat \ {0} /\ SHAREDPG \in Nat \ {0, 1} /\ NPT \in Nat \ {0}
      /\ NFRAME \in Nat /\ NFRAME >= 3
  BY SharedMemAssumption, Zenon
<1> QED BY <1>1

(* What exec, sbrk and a page table that was never cleared can bring.      *)
LEMMA Choices ==
  /\ \A n \in Images : n \in Nat /\ n >= 1 /\ n <= SHAREDPG
  /\ \A k \in Deltas : k \in Int
  /\ \A f \in JunkPtes : f \in Frames \cup {NONE}
<1>1. Images \subseteq 1..SHAREDPG /\ Deltas \subseteq Int /\ JunkPtes \subseteq Frames \cup {NONE}
  BY SharedMemAssumption, Zenon
<1>2. \A n \in Images : n \in 1..SHAREDPG
  BY <1>1, Zenon
<1>3. \A n \in Images : n \in Nat /\ n >= 1 /\ n <= SHAREDPG
  BY <1>2, Numbers
<1> QED BY <1>1, <1>3, Zenon

(* The pages below the shared window, and all pages.                       *)
LEMMA PageRanges ==
  /\ SHAREDPG \in Nat /\ LowPages \subseteq Pages /\ \A g \in Pages : g \in Nat
  /\ \A g \in Nat : g \in LowPages <=> g < SHAREDPG
  /\ \A g \in LowPages : g \in Nat
<1>1. SHAREDPG \in Nat
  BY Numbers, Zenon
<1> QED BY <1>1 DEF LowPages, Pages

(* k calls of kalloc that succeed return k different frames of the free    *)
(* list.                                                                   *)
LEMMA KallocFresh ==
  ASSUME NEW k \in Nat, Avail(k)
  PROVE  /\ \A i \in 1..k : kalloc(i) \in free
         /\ \A i, j \in 1..k : kalloc(i) = kalloc(j) => i = j
         /\ Taken(k) \subseteq free
         /\ \A i \in 1..k : kalloc(i) \in Taken(k)
<1>1. \A i \in 1..k : kalloc(i) \in free /\ IsNth(kalloc(i), i)
  BY Zenon DEF Avail, kalloc
<1>2. \A i, j \in 1..k : kalloc(i) = kalloc(j) => i = j
  <2> SUFFICES ASSUME NEW i \in 1..k, NEW j \in 1..k, kalloc(i) = kalloc(j)
               PROVE  i = j
    BY Zenon
  <2>1. IsNth(kalloc(i), i) /\ IsNth(kalloc(i), j)
    BY <1>1, Zenon
  <2>2. i - 1 = j - 1
    BY <2>1, Zenon DEF IsNth
  <2> QED BY <2>2
<1> QED BY <1>1, <1>2, Zenon DEF Taken

(* The page number and the rounded page count of an address or a size      *)
(* below SHAREDBASE.                                                       *)
LEMMA PageCount ==
  ASSUME NEW a \in Int
  PROVE  /\ NPages(a) \in Int
         /\ a >= 0 => NPages(a) >= 0
         /\ a < SHAREDBASE => NPages(a) <= SHAREDPG
         /\ PageOf(a) \in Int
         /\ a >= 0 => PageOf(a) >= 0
BY Numbers DEF NPages, PageOf, SHAREDBASE

(* The entries of one shared[] array fit one after the other in the shared *)
(* window: entry i starts at most i * MaxPages pages into it.              *)
LEMMA WindowFits ==
  ASSUME NEW i \in 0..(SHAREDCOUNT - 1)
  PROVE  /\ MaxPages \in Nat
         /\ i * MaxPages \in Nat
         /\ (i + 1) * MaxPages = i * MaxPages + MaxPages
         /\ i * MaxPages + MaxPages <= SHAREDPG
BY Numbers DEF MaxPages

(* One page-table page maps the whole window that exec attaches to.        *)
LEMMA TabZero == STabs = {0} /\ \A g \in Pages : g >= SHAREDPG => STabOf(g) = 0
BY Numbers, OneTable DEF STabs, STabOf, Pages

----------------------------------------------------------------------------
(* Steps that leave the frames alone.                                      *)

(* A step that moves no frame and starts or reaps no process keeps         *)
(* FrameInv.                                                               *)
LEMMA FramesSame ==
  ASSUME IInv, UNCHANGED <<kstack, memVars>>,
         \A q \in Procs : Live(q)' <=> Live(q)
  PROVE  FrameInv'
<1>1. LiveProcs' = LiveProcs
  BY Zenon DEF LiveProcs
<1> QED BY <1>1, Zenon DEF IInv, FrameInv, memVars

(* Types of the two kinds of records.                                      *)

(* The types of exec's locals.                                             *)
LEMMA ExFields ==
  ASSUME NEW e \in ExType
  PROVE  /\ e.pc \in {"user", "attach", "stack"} /\ e.dir \in Frames \cup {NONE}
         /\ e.n \in 0..SHAREDPG /\ e.i \in 0..SHAREDCOUNT /\ e.j \in 0..SHAREDPG
         /\ e.vp \in 0..(2 * SHAREDPG)
BY Zenon DEF ExType

(* exec's locals, put together from values of their types, have them.      *)
LEMMA ExMade ==
  ASSUME NEW pc \in {"user", "attach", "stack"}, NEW d \in Frames \cup {NONE}, NEW n \in 0..SHAREDPG,
         NEW i \in 0..SHAREDCOUNT, NEW j \in 0..SHAREDPG, NEW vp \in 0..(2 * SHAREDPG)
  PROVE  /\ Ex(pc, d, n, i, j, vp) \in ExType
         /\ Ex(pc, d, n, i, j, vp).pc = pc /\ Ex(pc, d, n, i, j, vp).dir = d
         /\ Ex(pc, d, n, i, j, vp).n = n /\ Ex(pc, d, n, i, j, vp).i = i
         /\ Ex(pc, d, n, i, j, vp).j = j /\ Ex(pc, d, n, i, j, vp).vp = vp
BY Zenon DEF ExType, Ex

(* The locals of a process that is not in exec are well typed.             *)
LEMMA InUserType == InUser \in ExType /\ InUser.pc = "user"
BY Numbers DEF ExType, Ex, InUser

(* The types of the fields of struct shared.                               *)
LEMMA EntryFields ==
  ASSUME NEW s \in EntryType
  PROVE  /\ s.name \in Keys /\ s.memstart \in 0..(UINT - 1)
         /\ s.size \in Sizes \cup {0}
BY Zenon DEF EntryType

(* An entry of shared[], put together from values of their types.          *)
LEMMA EntryMade ==
  ASSUME NEW a \in Keys, NEW b \in 0..(UINT - 1), NEW c \in Sizes \cup {0}
  PROVE  [name |-> a, memstart |-> b, size |-> c] \in EntryType
BY Zenon DEF EntryType

(* The size of a used entry of shared[] is one that share_data stored, so  *)
(* its pages fit in the entry's part of the window.                        *)
LEMMA EntrySize ==
  ASSUME NEW s \in EntryType, s.size # 0
  PROVE  s.size \in Int /\ NPages(s.size) \in 0..MaxPages /\ NPages(s.size) \in Nat
<1>1. PICK x \in Structs : s.size = x.size
  BY Zenon DEF EntryType, Sizes
<1>2. x.size \in Int /\ NPages(x.size) \in 0..MaxPages
  BY SharedMemAssumption, Zenon
<1>3. MaxPages \in Int
  BY Numbers DEF MaxPages
<1> QED BY <1>1, <1>2, <1>3

(* SHAREDBASE is a quarter of the address space and more than a page.      *)
LEMMA Units ==
  /\ SHAREDBASE \in Nat /\ UINT \in Nat /\ PGSIZE < SHAREDBASE /\ UINT = 4 * SHAREDBASE
  /\ SHAREDBASE > 0
BY Numbers DEF SHAREDBASE, UINT

----------------------------------------------------------------------------
(* How taking frames from the free list and giving them back keeps the     *)
(* frames exclusive.                                                       *)

(* Frames T leave the free list.  Directory d, an old one or one of T,     *)
(* gets some of them as pages or page tables, and process n may get one as *)
(* its kernel stack.                                                       *)
Takes(fr, ds, pt, st, ps, ks, T, d, n, pt2, st2, ps2, ks2) ==
  /\ fr \in SUBSET Frames /\ ds \in SUBSET Frames /\ T \in SUBSET fr /\ d \in ds \cup T
  /\ \A e \in ds \ {d} : pt2[e] = pt[e] /\ st2[e] = st[e]
  /\ \A g \in LowPages : \/ pt2[d][g] = NONE \/ pt2[d][g] \in T \ {d}
                         \/ d \in ds /\ pt2[d][g] = pt[d][g]
  /\ \A t \in STabs : \/ st2[d][t] = NONE \/ st2[d][t] \in T \ {d}
                      \/ d \in ds /\ st2[d][t] = st[d][t]
  /\ \A g, h \in LowPages : pt2[d][g] = pt2[d][h] /\ pt2[d][g] \in T => g = h
  /\ \A g \in LowPages, t \in STabs : pt2[d][g] = st2[d][t] => pt2[d][g] \notin T
  /\ \A q \in ps2 : \/ q \in ps /\ ks2[q] = ks[q]
                    \/ /\ q = n /\ ks2[q] \in T \ {d}
                       /\ \A g \in LowPages : pt2[d][g] # ks2[q]
                       /\ \A t \in STabs : st2[d][t] # ks2[q]

(* Frames kalloc hands out keep every frame at one use.                    *)
LEMMA Take ==
  ASSUME NEW fr, NEW ds, NEW pt, NEW st, NEW ps, NEW ks, NEW T, NEW d, NEW n,
         NEW pt2, NEW st2, NEW ps2, NEW ks2,
         Exclusive(fr, ds, pt, st, ps, ks),
         Takes(fr, ds, pt, st, ps, ks, T, d, n, pt2, st2, ps2, ks2)
  PROVE  Exclusive(fr \ T, ds \cup {d}, pt2, st2, ps2, ks2)
<1> USE DEF Takes
<1>0. NONE \notin Frames
  BY DEF NONE, Frames
<1>1. \A e \in ds \ {d}, f \in Frames : Owns(pt2, st2, e, f) <=> Owns(pt, st, e, f)
  BY Zenon DEF Owns
<1>2. \A f \in Frames : Owns(pt2, st2, d, f) => f \in T \/ (d \in ds /\ Owns(pt, st, d, f))
  BY DEF Owns
<1>3. \A e \in ds, f \in Frames : Owns(pt, st, e, f) => f \notin fr
  BY Zenon DEF Exclusive
<1>4. \A e \in ds \cup {d}, f \in Frames : Owns(pt2, st2, e, f) => f \notin fr \ T
  BY <1>1, <1>2, <1>3, Zenon
<1>5. \A a, e \in ds \cup {d}, f \in Frames :
         Owns(pt2, st2, a, f) /\ Owns(pt2, st2, e, f) => a = e
  BY <1>1, <1>2, <1>3 DEF Exclusive
<1>6. \A e \in ds \cup {d} :
        /\ \A g \in LowPages : pt2[e][g] # e
        /\ \A t \in STabs : st2[e][t] # e
        /\ \A g \in LowPages, t \in STabs : pt2[e][g] = st2[e][t] => pt2[e][g] = NONE
        /\ \A g, h \in LowPages : pt2[e][g] = pt2[e][h] /\ pt2[e][g] # NONE => g = h
  <2> SUFFICES ASSUME NEW e \in ds \cup {d}
               PROVE  /\ \A g \in LowPages : pt2[e][g] # e
                      /\ \A t \in STabs : st2[e][t] # e
                      /\ \A g \in LowPages, t \in STabs : pt2[e][g] = st2[e][t] => pt2[e][g] = NONE
                      /\ \A g, h \in LowPages : pt2[e][g] = pt2[e][h] /\ pt2[e][g] # NONE => g = h
    BY Zenon
  <2>1. CASE e # d
    BY <2>1 DEF Exclusive
  <2>2. CASE e = d
    <3>1. \A g \in LowPages : d \in ds /\ pt[d][g] \in T => FALSE
      BY <1>0, <1>3 DEF Owns
    <3>2. \A t \in STabs : d \in ds /\ st[d][t] \in T => FALSE
      BY <1>0, <1>3 DEF Owns
    <3>3. d # NONE
      BY <1>0, Zenon
    <3>4. \A g \in LowPages : pt2[d][g] # d
      BY <3>3 DEF Exclusive
    <3>5. \A t \in STabs : st2[d][t] # d
      BY <3>3 DEF Exclusive
    <3>6. \A g \in LowPages, t \in STabs : pt2[d][g] = st2[d][t] => pt2[d][g] = NONE
      BY <3>1, <3>2 DEF Exclusive
    <3>7. \A g, h \in LowPages : pt2[d][g] = pt2[d][h] /\ pt2[d][g] # NONE => g = h
      BY <3>1 DEF Exclusive
    <3> QED BY <2>2, <3>4, <3>5, <3>6, <3>7, Zenon
  <2> QED BY <2>1, <2>2, Zenon
<1>7. \A q \in ps2 :
        /\ ks2[q] \in Frames /\ ks2[q] \notin fr \ T
        /\ \A e \in ds \cup {d} : ~Owns(pt2, st2, e, ks2[q])
        /\ \A r \in ps2 : ks2[q] = ks2[r] => q = r
  <2> SUFFICES ASSUME NEW q \in ps2
               PROVE  /\ ks2[q] \in Frames /\ ks2[q] \notin fr \ T
                      /\ \A e \in ds \cup {d} : ~Owns(pt2, st2, e, ks2[q])
                      /\ \A r \in ps2 : ks2[q] = ks2[r] => q = r
    BY Zenon
  <2>1. \A r \in ps : ks[r] \in Frames /\ ks[r] \notin fr
    BY Zenon DEF Exclusive
  <2>2. ks2[q] \in Frames /\ ks2[q] \notin fr \ T
    BY <2>1, Zenon
  <2>3. \A r \in ps2 : ks2[q] = ks2[r] => q = r
    BY <2>1 DEF Exclusive
  <2>4. CASE q \in ps /\ ks2[q] = ks[q]
    <3>1. \A e \in ds \cup {d} : ~Owns(pt2, st2, e, ks2[q])
      BY <1>1, <1>2, <2>1, <2>2, <2>4 DEF Exclusive
    <3> QED BY <2>2, <2>3, <3>1, Zenon
  <2>5. CASE /\ q = n /\ ks2[q] \in T \ {d}
             /\ \A g \in LowPages : pt2[d][g] # ks2[q]
             /\ \A t \in STabs : st2[d][t] # ks2[q]
    <3>1. ~Owns(pt2, st2, d, ks2[q])
      BY <2>5, Zenon DEF Owns
    <3>2. \A e \in ds \ {d} : ~Owns(pt2, st2, e, ks2[q])
      BY <1>1, <1>3, <2>2, <2>5, Zenon
    <3> QED BY <2>2, <2>3, <3>1, <3>2, Zenon
  <2> QED BY <2>4, <2>5, Zenon
<1> QED BY <1>4, <1>5, <1>6, <1>7, Zenon DEF Exclusive

(* Frames F, which no directory of ds2 and no process of ps2 has any more, *)
(* go to the free list; directories lose pages at most.                    *)
Gives(ds, pt, st, ps, ks, F, ds2, pt2, st2, ps2, ks2) ==
  /\ ds \in SUBSET Frames /\ ds2 \in SUBSET ds /\ ps2 \in SUBSET ps
  /\ \A e \in ds2, g \in LowPages : pt2[e][g] = pt[e][g] \/ pt2[e][g] = NONE
  /\ \A e \in ds2, t \in STabs : st2[e][t] = st[e][t]
  /\ \A q \in ps2 : ks2[q] = ks[q] /\ ks[q] \notin F
  /\ \A e \in ds2, f \in F : ~Owns(pt2, st2, e, f)

(* Frames given back by kfree, deallocuvm and freevm keep every frame at   *)
(* one use.                                                                *)
LEMMA Give ==
  ASSUME NEW fr, NEW ds, NEW pt, NEW st, NEW ps, NEW ks, NEW F,
         NEW ds2, NEW pt2, NEW st2, NEW ps2, NEW ks2,
         Exclusive(fr, ds, pt, st, ps, ks),
         Gives(ds, pt, st, ps, ks, F, ds2, pt2, st2, ps2, ks2)
  PROVE  Exclusive(fr \cup F, ds2, pt2, st2, ps2, ks2)
<1> USE DEF Gives
<1>0. NONE \notin Frames
  BY DEF NONE, Frames
<1>1. \A e \in ds2, f \in Frames : Owns(pt2, st2, e, f) => Owns(pt, st, e, f)
  BY Zenon DEF Owns
<1>2. \A e \in ds2, f \in Frames : Owns(pt2, st2, e, f) => f \notin fr \cup F
  BY <1>1, Zenon DEF Exclusive
<1>3. \A a, e \in ds2, f \in Frames : Owns(pt2, st2, a, f) /\ Owns(pt2, st2, e, f) => a = e
  BY <1>1, Zenon DEF Exclusive
<1>4. \A e \in ds2 :
        /\ \A g \in LowPages : pt2[e][g] # e
        /\ \A t \in STabs : st2[e][t] # e
        /\ \A g \in LowPages, t \in STabs : pt2[e][g] = st2[e][t] => pt2[e][g] = NONE
        /\ \A g, h \in LowPages : pt2[e][g] = pt2[e][h] /\ pt2[e][g] # NONE => g = h
  BY <1>0 DEF Exclusive
<1>5. \A q \in ps2 :
        /\ ks2[q] \in Frames /\ ks2[q] \notin fr \cup F
        /\ \A e \in ds2 : ~Owns(pt2, st2, e, ks2[q])
        /\ \A r \in ps2 : ks2[q] = ks2[r] => q = r
  BY <1>1, Zenon DEF Exclusive
<1> QED BY <1>2, <1>3, <1>4, <1>5, Zenon DEF Exclusive

(* share_data keeps the invariant: it stores an address below sz.          *)
LEMMA ShareInv ==
  ASSUME IInv, NEW p \in Procs, NEW x \in Structs, share_data(p, x)
  PROVE  IInv'
<1>0. PICK k \in Entries : CanShare(p, x, k) /\ shared' = [shared EXCEPT ![p][k] =
                       [name |-> x.name[1], memstart |-> x.addr, size |-> x.size]]
  BY Zenon DEF share_data
<1>1. TypeOK'
  <2>1. x.addr \in 0..(UINT - 1)
    <3>1. x.addr \in Nat
      BY SharedMemAssumption, Zenon
    <3>2. sz[p] \in 0..(SHAREDBASE - 1)
      BY Zenon DEF IInv, TypeOK
    <3> QED BY <1>0, <3>1, <3>2, Units DEF CanShare
  <2>2. [name |-> x.name[1], memstart |-> x.addr, size |-> x.size] \in EntryType
    <3>1. x.name[1] \in Keys /\ x.size \in Sizes
      BY Zenon DEF Names, Sizes, Keys
    <3> QED BY <2>1, <3>1, Zenon DEF EntryType
  <2>3. shared' \in [Procs -> [Entries -> EntryType]]
    BY <1>0, <2>2, Zenon DEF IInv, TypeOK
  <2> QED BY <2>3, Zenon DEF IInv, TypeOK, memVars, share_data
<1>2. FrameInv'
  BY FramesSame, Zenon DEF Live, share_data
<1>3. DirOwner'
  BY DEF IInv, DirOwner, Live, InExec, memVars, share_data
<1>4. AttachSound'
  BY Zenon DEF IInv, AttachSound, CanCall, CanExit, memVars, TypeOK, share_data
<1> QED BY <1>1, <1>2, <1>3, <1>4, Zenon DEF IInv

(* exit keeps the invariant: the zombie keeps its directory and stack.     *)
LEMMA ExitInv ==
  ASSUME IInv, NEW p \in Procs, exit(p)
  PROVE  IInv'
<1>1. TypeOK'
  <2>1. \A i \in Entries : ClearShared(shared[p])[i] \in EntryType
    <3> SUFFICES ASSUME NEW i \in Entries PROVE ClearShared(shared[p])[i] \in EntryType
      BY Zenon
    <3>1. shared[p][i] \in EntryType
      BY Zenon DEF IInv, TypeOK
    <3>2. [name |-> shared[p][i].name, memstart |-> 0, size |-> 0] \in EntryType
      BY <3>1, Units DEF EntryType
    <3> QED BY <3>1, <3>2, Zenon DEF ClearShared
  <2>2. shared' \in [Procs -> [Entries -> EntryType]]
    BY <2>1, Zenon DEF IInv, TypeOK, exit, ClearShared
  <2>3. parent' \in [Procs -> Procs \cup {NONE}]
    BY Numbers DEF IInv, TypeOK, exit, Reparent, initproc, Procs
  <2> QED BY <2>2, <2>3, Zenon DEF IInv, TypeOK, memVars, exit
<1>2. FrameInv'
  BY FramesSame, Zenon DEF Live, IInv, TypeOK, CanExit, exit
<1>3. DirOwner'
  <2>1. /\ UNCHANGED <<pgdir, ex, dirs>> /\ ex[p].pc = "user"
        /\ \A q \in Procs : Live(q)' <=> Live(q)
        /\ \A q \in Procs : q # p => state'[q] = state[q]
    BY Zenon DEF exit, CanExit, IInv, TypeOK, Live, memVars
  <2> QED BY <2>1, Zenon DEF IInv, DirOwner, InExec
<1>4. AttachSound'
  BY Zenon DEF IInv, AttachSound, CanExit, memVars, TypeOK, exit
<1> QED BY <1>1, <1>2, <1>3, <1>4, Zenon DEF IInv

(* What a step that only moves p's exec on from "attach" must establish.   *)
LEMMA ExecMoves ==
  ASSUME IInv, NEW p \in Procs, NEW e \in ExType, ex[p].pc # "user",
         UNCHANGED <<state, parent, kstack, pgdir, parent_pgdir, sz, memVars>>,
         shared' \in [Procs -> [Entries -> EntryType]],
         \A q \in Procs : q # p => shared'[q] = shared[q],
         ex' = [ex EXCEPT ![p] = e],
         e.pc # "user", e.dir = ex[p].dir,
         e.pc = "attach" =>
           /\ e.vp >= SHAREDPG
           /\ e.vp <= SHAREDPG + e.i * MaxPages
           /\ e.j = 0
           /\ \A g \in Pages : g >= e.vp => pte[e.dir][g] = NONE
  PROVE  IInv'
<1>0. /\ ex'[p] = e
      /\ \A q \in Procs : q # p => ex'[q] = ex[q]
  BY Zenon DEF IInv, TypeOK
<1>1. TypeOK'
  BY Zenon DEF IInv, TypeOK, memVars
<1>2. FrameInv'
  BY FramesSame, Zenon DEF Live
<1>3. DirOwner'
  <2>1. \A q \in Procs : ex'[q].dir = ex[q].dir /\ (InExec(q)' <=> InExec(q)) /\ (Live(q)' <=> Live(q))
    BY <1>0, Zenon DEF InExec, Live
  <2>2. UNCHANGED <<state, pgdir, dirs>>
    BY Zenon DEF memVars
  <2> QED BY <2>1, <2>2 DEF IInv, DirOwner
<1>4. AttachSound'
  <2> SUFFICES ASSUME NEW q \in Procs, ex'[q].pc = "attach"
               PROVE  /\ ex'[q].vp >= SHAREDPG
                      /\ ex'[q].vp <= SHAREDPG + ex'[q].i * MaxPages
                      /\ ex'[q].j # 0 => /\ ex'[q].i < SHAREDCOUNT
                                         /\ ex'[q].j <= NPages(shared'[q][ex'[q].i].size)
                                         /\ stab'[ex'[q].dir][0] # NONE
                      /\ \A g \in Pages : g >= ex'[q].vp + ex'[q].j => pte'[ex'[q].dir][g] = NONE
    BY Zenon DEF AttachSound
  <2>1. CASE q # p
    BY <1>0, <2>1 DEF IInv, AttachSound, memVars
  <2>2. CASE q = p
    <3>1. e.vp \in Nat
      BY ExFields, Numbers
    <3> QED BY <1>0, <2>2, <3>1 DEF memVars
  <2> QED BY <2>1, <2>2, Zenon
<1> QED BY <1>1, <1>2, <1>3, <1>4, Zenon DEF IInv

(* Leaving access_shared_memory, at the end or at a missing page of the    *)
(* parent, keeps the invariant.                                            *)
LEMMA LeaveInv ==
  ASSUME IInv, NEW p \in Procs, attachEnd(p) \/ attachMissing(p)
  PROVE  IInv'
<1> DEFINE e == Ex("stack", ex[p].dir, ex[p].n, ex[p].i, ex[p].j, ex[p].vp)
<1>1. ex[p] \in ExType /\ shared \in [Procs -> [Entries -> EntryType]]
  BY Zenon DEF IInv, TypeOK
<1>2. e \in ExType /\ e.pc = "stack" /\ e.dir = ex[p].dir
  <2>1. /\ ex[p].dir \in Frames \cup {NONE} /\ ex[p].n \in 0..SHAREDPG
        /\ ex[p].i \in 0..SHAREDCOUNT /\ ex[p].j \in 0..SHAREDPG /\ ex[p].vp \in 0..(2 * SHAREDPG)
    BY <1>1, ExFields, Zenon
  <2> QED BY <2>1, Zenon DEF ExType, Ex
<1>3. /\ ex' = [ex EXCEPT ![p] = e] /\ ex[p].pc = "attach"
      /\ UNCHANGED <<procVars, memVars>>
  BY Zenon DEF attachEnd, attachMissing, LeaveAttach, Attaching
<1> HIDE DEF e
<1> QED BY <1>1, <1>2, <1>3, ExecMoves, Zenon DEF procVars

(* Moving on to the next entry of shared[] keeps the invariant: the window *)
(* addresses of the entries follow one another.                            *)
LEMMA EntryInv ==
  ASSUME IInv, NEW p \in Procs, attachEntry(p)
  PROVE  IInv'
<1> DEFINE o == ex[p]
           s == shared[p][o.i]
           new == [name |-> s.name, size |-> s.size, memstart |-> o.vp * PGSIZE + (s.memstart % PGSIZE)]
           e == Ex("attach", o.dir, o.n, o.i + 1, 0, o.vp + NPages(s.size))
<1>0. o \in ExType /\ o.pc = "attach" /\ shared \in [Procs -> [Entries -> EntryType]]
  BY Zenon DEF IInv, TypeOK, attachEntry, Attaching
<1>1. o.i \in Entries /\ s.size # 0 /\ s \in EntryType
  <2>1. o.i < SHAREDCOUNT /\ s.size # 0 /\ o.i \in 0..SHAREDCOUNT
    BY <1>0, ExFields, Zenon DEF attachEntry, InEntry, Entry
  <2>2. o.i \in Entries
    BY <2>1, Numbers, SMTT(30) DEF Entries
  <2> QED BY <1>0, <2>1, <2>2, Zenon
<1>2. /\ NPages(s.size) \in 0..MaxPages /\ NPages(s.size) \in Nat /\ MaxPages \in Nat
      /\ ~(o.j < NPages(s.size))
  BY <1>1, EntrySize, WindowFits, Zenon DEF attachEntry, PageLeft, Entry, Entries
<1>3. /\ o.vp >= SHAREDPG /\ o.vp <= SHAREDPG + o.i * MaxPages
      /\ \A g \in Pages : g >= o.vp + o.j => pte[o.dir][g] = NONE
      /\ o.j # 0 => o.j <= NPages(s.size)
  BY <1>0, Zenon DEF IInv, AttachSound
<1>4. o.vp \in Nat /\ o.j \in Nat /\ o.i \in Nat
  BY <1>0, ExFields, Numbers, SMTT(30)
<1>5. o.j = NPages(s.size)
  BY <1>2, <1>3, <1>4, SMTT(30)
<1>6. /\ o.vp + NPages(s.size) <= SHAREDPG + (o.i + 1) * MaxPages
      /\ o.vp + NPages(s.size) <= 2 * SHAREDPG
  <2>1. /\ (o.i + 1) * MaxPages = o.i * MaxPages + MaxPages
        /\ o.i * MaxPages + MaxPages <= SHAREDPG /\ o.i * MaxPages \in Nat
    BY <1>1, WindowFits, Zenon DEF Entries
  <2> QED BY <1>2, <1>3, <1>4, <2>1, Numbers
<1>7. e \in ExType /\ e.pc = "attach" /\ e.dir = o.dir /\ e.i = o.i + 1 /\ e.j = 0 /\ e.vp = o.vp + NPages(s.size)
  <2>1. o.dir \in Frames \cup {NONE} /\ o.n \in 0..SHAREDPG
    BY <1>0, ExFields, Zenon
  <2>2. o.i + 1 \in 0..SHAREDCOUNT /\ 0 \in 0..SHAREDPG /\ o.vp + NPages(s.size) \in 0..(2 * SHAREDPG)
    BY <1>1, <1>2, <1>4, <1>6, Numbers DEF Entries
  <2> DEFINE ni == o.i + 1
             nvp == o.vp + NPages(s.size)
  <2>3. ni \in 0..SHAREDCOUNT /\ nvp \in 0..(2 * SHAREDPG) /\ e = Ex("attach", o.dir, o.n, ni, 0, nvp)
    BY <2>2, Zenon
  <2> HIDE DEF ni, nvp, e, o
  <2>4. e \in ExType /\ e.pc = "attach" /\ e.dir = o.dir /\ e.i = ni /\ e.j = 0 /\ e.vp = nvp
    BY <2>1, <2>2, <2>3, Zenon DEF ExType, Ex
  <2> QED BY <2>4, Zenon DEF ni, nvp
<1>8. new \in EntryType
  <2>1. o.vp <= 2 * SHAREDPG
    BY <1>2, <1>4, <1>6, Numbers
  <2>2. o.vp * PGSIZE <= 2 * SHAREDBASE /\ o.vp * PGSIZE \in Nat
    BY <1>4, <2>1, Numbers DEF SHAREDBASE
  <2>3. s.memstart \in Nat
    BY <1>1, EntryFields, Units
  <2>4. s.memstart % PGSIZE \in 0..(PGSIZE - 1)
    BY <2>3, Numbers, SMTT(30)
  <2>5. o.vp * PGSIZE + (s.memstart % PGSIZE) \in 0..(UINT - 1)
    BY <2>2, <2>4, Units, Numbers
  <2> QED BY <1>1, <2>5, Zenon DEF EntryType
<1>9. /\ shared' = [shared EXCEPT ![p][o.i] = new]
      /\ ex' = [ex EXCEPT ![p] = e]
      /\ UNCHANGED <<state, parent, kstack, pgdir, parent_pgdir, sz, memVars>>
  BY <1>0, <1>1, Zenon DEF attachEntry, Entry, WindowAddr, NextVa
<1>10. /\ shared' \in [Procs -> [Entries -> EntryType]]
       /\ \A q \in Procs : q # p => shared'[q] = shared[q]
  BY <1>0, <1>1, <1>8, <1>9, Zenon
<1> HIDE DEF e, new
<1>11. \A g \in Pages : g >= e.vp => pte[e.dir][g] = NONE
  BY <1>3, <1>5, <1>7, Zenon
<1>12. e.vp >= SHAREDPG /\ e.vp <= SHAREDPG + e.i * MaxPages
  BY <1>2, <1>3, <1>4, <1>6, <1>7, Numbers
<1> QED BY <1>0, <1>7, <1>9, <1>10, <1>11, <1>12, ExecMoves, Zenon

----------------------------------------------------------------------------
(* Steps that move frames.                                                 *)

(* A free frame is no directory, and directories own themselves.           *)
LEMMA FreeNoDir ==
  ASSUME IInv
  PROVE  /\ \A d \in dirs : d \notin free /\ Owns(pte, stab, d, d)
         /\ NONE \notin Frames
<1>1. NONE \notin Frames
  BY DEF NONE, Frames
<1>2. \A d \in dirs : Owns(pte, stab, d, d)
  BY <1>1, Zenon DEF Owns, IInv, TypeOK
<1> QED BY <1>1, <1>2, Zenon DEF IInv, TypeOK, FrameInv, Exclusive

(* The frame a single kalloc takes.                                        *)
LEMMA KallocOne ==
  ASSUME IInv, Avail(1)
  PROVE  kalloc(1) \in Frames /\ kalloc(1) \in free /\ NONE \notin Frames
<1>1. kalloc(1) \in free
  BY KallocFresh
<1> QED BY <1>1, FreeNoDir, Zenon DEF IInv, TypeOK

(* The exec of q does not notice a step that keeps its directory.          *)
LEMMA AttachKept ==
  ASSUME IInv,
         \A q \in Procs : ex'[q].pc = "attach" =>
           /\ ex'[q] = ex[q] /\ shared'[q] = shared[q]
           /\ pte'[ex[q].dir] = pte[ex[q].dir] /\ stab'[ex[q].dir] = stab[ex[q].dir]
  PROVE  AttachSound'
<1> SUFFICES ASSUME NEW q \in Procs, ex'[q].pc = "attach"
             PROVE  /\ ex'[q].vp >= SHAREDPG
                    /\ ex'[q].vp <= SHAREDPG + ex'[q].i * MaxPages
                    /\ ex'[q].j # 0 => /\ ex'[q].i < SHAREDCOUNT
                                       /\ ex'[q].j <= NPages(shared'[q][ex'[q].i].size)
                                       /\ stab'[ex'[q].dir][0] # NONE
                    /\ \A g \in Pages : g >= ex'[q].vp + ex'[q].j => pte'[ex'[q].dir][g] = NONE
  BY Zenon DEF AttachSound
<1>1. /\ ex'[q] = ex[q] /\ shared'[q] = shared[q]
      /\ pte'[ex[q].dir] = pte[ex[q].dir] /\ stab'[ex[q].dir] = stab[ex[q].dir]
  BY Zenon
<1> QED BY <1>1 DEF IInv, AttachSound

(* fork keeps the invariant: the kernel stack, the directory and the       *)
(* copied pages of the child are different free frames.                    *)
LEMMA ForkInv ==
  ASSUME IInv, NEW p \in Procs, fork(p)
  PROVE  IInv'
<1> DEFINE n == NPages(sz[p])
           d == kalloc(2)
           m == [g \in Pages |-> IF g < n THEN kalloc(g + 3) ELSE NONE]
<1>1. PICK np \in Procs :
           /\ FreeSlot(np)
           /\ state' = [state EXCEPT ![np] = "RUN"]
           /\ parent' = [parent EXCEPT ![np] = p]
           /\ kstack' = [kstack EXCEPT ![np] = kalloc(1)]
           /\ pgdir' = [pgdir EXCEPT ![np] = d]
           /\ parent_pgdir' = [parent_pgdir EXCEPT ![np] = pgdir[p]]
           /\ sz' = [sz EXCEPT ![np] = sz[p]]
           /\ shared' = [shared EXCEPT ![np] = Inherit(shared[np], shared[p])]
  BY Zenon DEF fork
<1>2. /\ Avail(n + 2) /\ free' = free \ Taken(n + 2) /\ dirs' = dirs \cup {d}
      /\ pte' = [pte EXCEPT ![d] = m] /\ UNCHANGED <<ex, stab>>
  BY Zenon DEF fork, CanFork, CopyPages
<1>3. n \in Nat /\ n <= SHAREDPG
  <2>1. sz[p] \in 0..(SHAREDBASE - 1)
    BY Zenon DEF IInv, TypeOK
  <2> QED BY <2>1, PageCount, Units
<1>4. /\ \A i \in 1..(n + 2) : kalloc(i) \in free /\ kalloc(i) \in Taken(n + 2)
      /\ \A i, j \in 1..(n + 2) : kalloc(i) = kalloc(j) => i = j
      /\ Taken(n + 2) \subseteq free
  BY <1>2, <1>3, KallocFresh
<1>5. d \in free /\ d \in Taken(n + 2) /\ d \in Frames /\ d \notin dirs /\ free \subseteq Frames
      /\ kalloc(1) \in Taken(n + 2) /\ kalloc(1) # d /\ kalloc(1) \in Frames
  BY <1>3, <1>4, FreeNoDir DEF IInv, TypeOK
<1>6. \A g \in Pages : \/ m[g] = NONE
                       \/ m[g] \in Taken(n + 2) \ {d, kalloc(1)}
  <2> SUFFICES ASSUME NEW g \in Pages, g < n
               PROVE  kalloc(g + 3) \in Taken(n + 2) \ {d, kalloc(1)}
    BY Zenon
  <2>1. g + 3 \in 1..(n + 2) /\ g + 3 # 2 /\ g + 3 # 1 /\ 1 \in 1..(n + 2) /\ 2 \in 1..(n + 2)
    BY <1>3, Numbers DEF Pages
  <2> QED BY <1>4, <2>1, Zenon
<1>7. \A g, h \in Pages : m[g] = m[h] /\ m[g] # NONE => g = h
  <2> SUFFICES ASSUME NEW g \in Pages, NEW h \in Pages, m[g] = m[h], m[g] # NONE
               PROVE  g = h
    BY Zenon
  <2>1. g < n /\ h < n /\ kalloc(g + 3) = kalloc(h + 3)
    BY <1>3, SharedMemAssumption, Zenon DEF Pages
  <2>2. g + 3 \in 1..(n + 2) /\ h + 3 \in 1..(n + 2)
    BY <1>3, <2>1, Numbers DEF Pages
  <2>3. g + 3 = h + 3
    BY <1>4, <2>1, <2>2, Zenon
  <2> QED BY <2>3, Numbers DEF Pages
<1> HIDE DEF d, m, n
<1>8. m \in [Pages -> Frames \cup {NONE}] /\ LowPages \subseteq Pages
  <2>1. DOMAIN m = Pages /\ m = [g \in Pages |-> m[g]]
    BY Zenon DEF m
  <2>2. \A g \in Pages : m[g] \in Frames \cup {NONE}
    BY <1>4, <1>5, <1>6, Zenon
  <2> QED BY <2>1, <2>2, Numbers DEF LowPages, Pages
<1>9. state[np] = "UNUSED" /\ ex[np].pc = "user" /\ np # p /\ ex[p].pc = "user" /\ state[p] = "RUN"
  BY <1>1, Zenon DEF FreeSlot, IInv, DirOwner, InExec, fork, CanCall, CanExit
<1>10. TypeOK'
  <2>1. shared' \in [Procs -> [Entries -> EntryType]]
    BY <1>1 DEF IInv, TypeOK, Inherit
  <2>2. pte' \in [Frames -> [Pages -> Frames \cup {NONE}]]
    BY <1>2, <1>8, Zenon DEF IInv, TypeOK
  <2>3. free' \subseteq Frames /\ dirs' \subseteq Frames
    BY <1>2, <1>5, Zenon DEF IInv, TypeOK
  <2>4. /\ kstack' \in [Procs -> Frames \cup {NONE}] /\ pgdir' \in [Procs -> Frames \cup {NONE}]
        /\ parent_pgdir' \in [Procs -> Frames \cup {NONE}]
    BY <1>1, <1>5, Zenon DEF IInv, TypeOK
  <2> QED BY <1>1, <1>2, <2>1, <2>2, <2>3, <2>4, Zenon DEF IInv, TypeOK
<1>11. LiveProcs' = LiveProcs \cup {np} /\ np \notin LiveProcs
  BY <1>1, <1>9, Zenon DEF LiveProcs, Live, IInv, TypeOK
<1>12. FrameInv'
  <2>1. stab[d] = NoTabs /\ \A t \in STabs : stab'[d][t] = NONE
    BY <1>2, <1>5, Zenon DEF IInv, FrameInv, NoTabs
  <2>2. \A e \in dirs \ {d} : pte'[e] = pte[e] /\ stab'[e] = stab[e]
    BY <1>2, Zenon DEF IInv, TypeOK
  <2>3. pte'[d] = m
    BY <1>2, <1>5, Zenon DEF IInv, TypeOK
  <2>4. \A q \in LiveProcs' : \/ q \in LiveProcs /\ kstack'[q] = kstack[q]
                              \/ q = np /\ kstack'[q] = kalloc(1)
    BY <1>1, <1>11, Zenon DEF IInv, TypeOK, LiveProcs
  <2>5. NONE \notin Frames
    BY FreeNoDir, Zenon
  <2> DEFINE T == Taken(n + 2)
  <2>6. T \in SUBSET free /\ free \in SUBSET Frames /\ dirs \in SUBSET Frames /\ d \in dirs \cup T
    BY <1>4, <1>5, Zenon DEF IInv, TypeOK
  <2>7. Exclusive(free, dirs, pte, stab, LiveProcs, kstack)
    BY Zenon DEF IInv, FrameInv
  <2>8. \A g \in LowPages : \/ pte'[d][g] = NONE
                            \/ pte'[d][g] \in T \ {d} /\ pte'[d][g] # kalloc(1)
    BY <1>6, <1>8, <2>3, Zenon
  <2>9. \A g, h \in LowPages : pte'[d][g] = pte'[d][h] /\ pte'[d][g] \in T => g = h
    BY <1>7, <1>8, <2>3, <2>5, <2>6, Zenon
  <2>10. \A g \in LowPages, t \in STabs : pte'[d][g] = stab'[d][t] => pte'[d][g] \notin T
    BY <2>1, <2>5, <2>6, Zenon
  <2>11. \A q \in LiveProcs' : \/ q \in LiveProcs /\ kstack'[q] = kstack[q]
                               \/ /\ q = np /\ kstack'[q] \in T \ {d}
                                  /\ \A g \in LowPages : pte'[d][g] # kstack'[q]
                                  /\ \A t \in STabs : stab'[d][t] # kstack'[q]
    BY <1>5, <2>1, <2>4, <2>5, <2>8, Zenon
  <2> HIDE DEF T
  <2>14. Takes(free, dirs, pte, stab, LiveProcs, kstack, T, d, np, pte', stab', LiveProcs', kstack')
    BY <2>1, <2>2, <2>6, <2>8, <2>9, <2>10, <2>11, Zenon DEF Takes
  <2>12. Exclusive(free \ T, dirs \cup {d}, pte', stab', LiveProcs', kstack')
    BY <2>7, <2>14, Take, Zenon
  <2>13. \A f \in Frames \ dirs' : stab'[f] = NoTabs
    BY <1>2, Zenon DEF IInv, FrameInv
  <2> QED BY <1>2, <2>12, <2>13, Zenon DEF FrameInv, T
<1>13. DirOwner'
  <2>1. /\ \A q \in Procs \ {np} : pgdir'[q] = pgdir[q] /\ state'[q] = state[q] /\ (Live(q)' <=> Live(q))
        /\ pgdir'[np] = d /\ state'[np] = "RUN" /\ ex' = ex
    BY <1>1, <1>2, Zenon DEF IInv, TypeOK, Live
  <2>2. \A q \in Procs : InExec(q) => q # np /\ ex[q].dir # d
    BY <1>5, <1>9, Zenon DEF IInv, DirOwner, InExec
  <2>3. \A q \in Procs : Live(q) => q # np /\ pgdir[q] # d
    BY <1>5, <1>9, Zenon DEF IInv, DirOwner, Live
  <2> QED BY <1>2, <2>1, <2>2, <2>3 DEF IInv, DirOwner, InExec
<1>14. AttachSound'
  <2> SUFFICES ASSUME NEW q \in Procs, ex'[q].pc = "attach"
               PROVE  /\ ex'[q] = ex[q] /\ shared'[q] = shared[q]
                      /\ pte'[ex[q].dir] = pte[ex[q].dir] /\ stab'[ex[q].dir] = stab[ex[q].dir]
    BY AttachKept, Zenon
  <2>1. q # np /\ ex[q].dir \in dirs
    BY <1>2, <1>9, Zenon DEF IInv, DirOwner, InExec
  <2> QED BY <1>1, <1>2, <1>5, <2>1, Zenon DEF IInv, TypeOK
<1> QED BY <1>10, <1>12, <1>13, <1>14, Zenon DEF IInv

(* Rounding up to pages is monotonic.                                      *)
LEMMA PagesGrow ==
  ASSUME NEW a \in Nat, NEW b \in Nat, a <= b
  PROVE  NPages(a) <= NPages(b)
BY Numbers DEF NPages

(* sbrk(n) with n > 0 keeps the invariant.                                 *)
LEMMA GrowInv ==
  ASSUME IInv, NEW p \in Procs, NEW k \in Deltas, grow(p, k)
  PROVE  IInv'
<1> DEFINE old == NPages(sz[p])
           new == NPages(sz[p] + k)
           d == pgdir[p]
           m == [g \in Pages |-> IF g \in old..(new - 1) THEN kalloc(g - old + 1) ELSE pte[d][g]]
           T == Taken(new - old)
<1>1. /\ ex[p].pc = "user" /\ state[p] = "RUN" /\ k > 0 /\ sz[p] + k < SHAREDBASE /\ Avail(new - old)
      /\ sz' = [sz EXCEPT ![p] = sz[p] + k] /\ free' = free \ T /\ pte' = [pte EXCEPT ![d] = m]
      /\ UNCHANGED <<state, parent, kstack, pgdir, parent_pgdir, shared, ex, dirs, stab>>
  BY Zenon DEF grow, CanCall, CanExit, UserTop
<1>2. /\ sz[p] \in Nat /\ sz[p] + k \in Nat /\ sz[p] + k \in 0..(SHAREDBASE - 1)
      /\ old \in Nat /\ new \in Nat /\ new - old \in Nat /\ new <= SHAREDPG
  <2>1. sz[p] \in 0..(SHAREDBASE - 1) /\ k \in Int
    BY SharedMemAssumption, Zenon DEF IInv, TypeOK
  <2>2. sz[p] \in Nat /\ sz[p] + k \in Nat /\ sz[p] <= sz[p] + k
    BY <1>1, <2>1, Units
  <2>3. old <= new /\ old \in Nat /\ new \in Nat /\ new <= SHAREDPG
    BY <1>1, <2>2, PageCount, PagesGrow
  <2> QED BY <1>1, <2>2, <2>3, Units
<1>3. /\ \A i \in 1..(new - old) : kalloc(i) \in T
      /\ \A i, j \in 1..(new - old) : kalloc(i) = kalloc(j) => i = j
      /\ T \subseteq free
  BY <1>1, <1>2, KallocFresh, Zenon
<1> HIDE DEF old, new, T
<1>4. d \in dirs /\ d \in Frames /\ d \notin free /\ free \subseteq Frames /\ NONE \notin Frames
  BY <1>1, FreeNoDir, Zenon DEF IInv, TypeOK, DirOwner, Live
<1>5. \A g \in Pages : \/ g \in old..(new - 1) /\ m[g] \in T /\ m[g] = kalloc(g - old + 1)
                       \/ m[g] = pte[d][g]
  <2> SUFFICES ASSUME NEW g \in Pages, g \in old..(new - 1) PROVE m[g] \in T /\ m[g] = kalloc(g - old + 1)
    BY Zenon
  <2>1. g - old + 1 \in 1..(new - old)
    BY <1>2
  <2> QED BY <1>3, <2>1, Zenon
<1>6. LowPages \subseteq Pages /\ m = [g \in Pages |-> m[g]]
  BY Numbers DEF LowPages, Pages
<1> HIDE DEF m
<1>7. \A g \in LowPages : pte[d][g] \notin T
  BY <1>3, <1>4 DEF IInv, FrameInv, Exclusive, Owns
<1>8. \A g, h \in LowPages : m[g] = m[h] /\ m[g] \in T => g = h
  <2> SUFFICES ASSUME NEW g \in LowPages, NEW h \in LowPages, m[g] = m[h], m[g] \in T
               PROVE  g = h
    BY Zenon
  <2>1. /\ g \in old..(new - 1) /\ m[g] = kalloc(g - old + 1)
        /\ h \in old..(new - 1) /\ m[h] = kalloc(h - old + 1)
    BY <1>5, <1>6, <1>7, Zenon
  <2>2. g - old + 1 \in 1..(new - old) /\ h - old + 1 \in 1..(new - old)
    BY <1>2, <2>1
  <2>3. g - old + 1 = h - old + 1
    BY <1>3, <2>1, <2>2, Zenon
  <2> QED BY <1>2, <2>1, <2>3
<1>9. m \in [Pages -> Frames \cup {NONE}] /\ pte'[d] = m /\ \A e \in Frames \ {d} : pte'[e] = pte[e]
  <2>1. pte[d] \in [Pages -> Frames \cup {NONE}] /\ pte'[d] = m /\ \A e \in Frames \ {d} : pte'[e] = pte[e]
    BY <1>1, <1>4, Zenon DEF IInv, TypeOK
  <2>2. \A g \in Pages : m[g] \in Frames \cup {NONE}
    BY <1>3, <1>4, <1>5, <2>1, Zenon
  <2> QED BY <1>6, <2>1, <2>2, Zenon
<1>10. TypeOK'
  BY <1>1, <1>2, <1>4, <1>9, Zenon DEF IInv, TypeOK
<1>11. FrameInv'
  <2>1. LiveProcs' = LiveProcs
    BY <1>1, Zenon DEF LiveProcs, Live
  <2>2. T \in SUBSET free /\ free \in SUBSET Frames /\ dirs \in SUBSET Frames /\ d \in dirs \cup T
    BY <1>3, <1>4, Zenon DEF IInv, TypeOK
  <2>3. \A g \in LowPages, t \in STabs : m[g] = stab[d][t] => m[g] \notin T
    BY <1>3, <1>4 DEF IInv, FrameInv, Exclusive, Owns
  <2>4. \A g \in LowPages : m[g] \in T \ {d} \/ m[g] = pte[d][g]
    BY <1>3, <1>4, <1>5, <1>6, Zenon
  <2>5. Takes(free, dirs, pte, stab, LiveProcs, kstack, T, d, p, pte', stab', LiveProcs', kstack')
    BY <1>1, <1>4, <1>8, <1>9, <2>1, <2>2, <2>3, <2>4, Zenon DEF Takes
  <2>6. Exclusive(free \ T, dirs \cup {d}, pte', stab', LiveProcs', kstack')
    BY <2>5, Take, Zenon DEF IInv, FrameInv
  <2>7. dirs \cup {d} = dirs' /\ free \ T = free'
    BY <1>1, <1>4, Zenon
  <2>8. \A f \in Frames \ dirs' : stab'[f] = NoTabs
    BY <1>1, Zenon DEF IInv, FrameInv
  <2> QED BY <2>6, <2>7, <2>8, Zenon DEF FrameInv
<1>12. DirOwner'
  BY <1>1, Zenon DEF IInv, DirOwner, Live, InExec
<1>13. AttachSound'
  <2>1. \A q \in Procs : ex[q].pc = "attach" => ex[q].dir \in Frames /\ ex[q].dir # d
    BY <1>1, Zenon DEF IInv, TypeOK, DirOwner, Live, InExec
  <2> QED BY <1>1, <1>9, <2>1, AttachKept, Zenon
<1> QED BY <1>10, <1>11, <1>12, <1>13, Zenon DEF IInv

(* sbrk(n) with n < 0 keeps the invariant: it frees only frames below sz,  *)
(* which are the process's own.                                            *)
LEMMA ShrinkInv ==
  ASSUME IInv, NEW p \in Procs, NEW k \in Deltas, shrink(p, k)
  PROVE  IInv'
<1> DEFINE newsz == (sz[p] + k) % UINT
           d == pgdir[p]
           gone == {g \in LowPages : g >= NPages(newsz) /\ g * PGSIZE < sz[p]}
           m == [g \in Pages |-> IF g \in gone THEN NONE ELSE pte[d][g]]
           F == {pte[d][g] : g \in gone} \ {NONE}
<1>1. /\ ex[p].pc = "user" /\ state[p] = "RUN" /\ newsz < sz[p]
      /\ sz' = [sz EXCEPT ![p] = IF newsz = 0 THEN sz[p] ELSE newsz]
      /\ free' = free \cup F /\ pte' = [pte EXCEPT ![d] = m]
      /\ UNCHANGED <<state, parent, kstack, pgdir, parent_pgdir, shared, ex, dirs, stab>>
  BY Zenon DEF shrink, CanCall, CanExit
<1>2. newsz \in Nat /\ sz[p] \in 0..(SHAREDBASE - 1) /\ newsz \in 0..(SHAREDBASE - 1)
  <2>1. sz[p] \in 0..(SHAREDBASE - 1) /\ sz[p] + k \in Int /\ UINT \in Nat /\ UINT > 0
    <3>1. sz \in [Procs -> 0..(SHAREDBASE - 1)] /\ k \in Int
      BY Choices, Zenon DEF IInv, TypeOK
    <3> QED BY <3>1, Units
  <2>2. newsz \in 0..(UINT - 1)
    BY <2>1
  <2> QED BY <1>1, <2>1, <2>2, Units, SMTT(30)
<1>3. gone \subseteq LowPages /\ LowPages \subseteq Pages
  BY Numbers DEF LowPages, Pages
<1> HIDE DEF newsz, gone
<1>4. d \in dirs /\ d \in Frames
  BY <1>1, Zenon DEF IInv, TypeOK, DirOwner, Live
<1>5. pte[d] \in [Pages -> Frames \cup {NONE}]
  BY <1>4, Zenon DEF IInv, TypeOK
<1>6. F \subseteq Frames /\ m \in [Pages -> Frames \cup {NONE}]
  BY <1>3, <1>5, Zenon
<1>7. \A f \in F : Owns(pte, stab, d, f)
  BY <1>3, Zenon DEF Owns
<1>8. \A g \in LowPages : (g \in gone /\ m[g] = NONE) \/ (g \notin gone /\ m[g] = pte[d][g])
  BY <1>3, Zenon
<1>9. \A f \in F : \E g \in gone : pte[d][g] = f /\ f # NONE
  BY Zenon
<1> HIDE DEF m, F
<1>10. pte'[d] = m /\ \A e \in Frames \ {d} : pte'[e] = pte[e]
  BY <1>1, <1>4, Zenon DEF IInv, TypeOK
<1>11. TypeOK'
  BY <1>1, <1>2, <1>6, Zenon DEF IInv, TypeOK
<1>12. FrameInv'
  <2>1. LiveProcs' = LiveProcs
    BY <1>1, Zenon DEF LiveProcs, Live
  <2>2. \A e \in dirs \ {d}, f \in F : ~Owns(pte', stab', e, f)
    <3> SUFFICES ASSUME NEW e \in dirs \ {d}, NEW f \in F, Owns(pte, stab, e, f)
                 PROVE  FALSE
      BY <1>1, <1>10 DEF IInv, TypeOK, Owns
    <3>1. f \in Frames /\ Owns(pte, stab, d, f)
      BY <1>6, <1>7, Zenon
    <3> QED BY <1>4, <3>1, Zenon DEF IInv, FrameInv, Exclusive
  <2>3. \A f \in F : ~Owns(pte', stab', d, f)
    <3> SUFFICES ASSUME NEW f \in F PROVE ~Owns(pte', stab', d, f)
      BY Zenon
    <3>1. PICK g \in gone : pte[d][g] = f /\ f # NONE
      BY <1>9, Zenon
    <3>2. f # d /\ (\A t \in STabs : stab[d][t] # f) /\ (\A h \in LowPages : pte[d][h] = f => h = g)
      BY <1>3, <1>4, <3>1 DEF IInv, FrameInv, Exclusive
    <3>3. \A h \in LowPages : m[h] # f
      BY <1>8, <3>1, <3>2, Zenon
    <3> QED BY <1>1, <1>10, <3>2, <3>3, Zenon DEF Owns
  <2>4. \A q \in LiveProcs : kstack[q] \notin F
    BY <1>4, <1>7, Zenon DEF IInv, FrameInv, Exclusive
  <2>5. Gives(dirs, pte, stab, LiveProcs, kstack, F, dirs, pte', stab', LiveProcs', kstack')
    BY <1>1, <1>8, <1>10, <2>1, <2>2, <2>3, <2>4, ZenonT(40) DEF Gives, IInv, TypeOK
  <2>6. Exclusive(free \cup F, dirs, pte', stab', LiveProcs', kstack')
    BY <2>5, Give, Zenon DEF IInv, FrameInv
  <2> QED BY <1>1, <2>6, Zenon DEF IInv, FrameInv
<1>13. DirOwner'
  BY <1>1, Zenon DEF IInv, DirOwner, Live, InExec
<1>14. AttachSound'
  <2>1. \A q \in Procs : ex[q].pc = "attach" => ex[q].dir \in Frames /\ ex[q].dir # d
    BY <1>1, Zenon DEF IInv, TypeOK, DirOwner, Live, InExec
  <2> QED BY <1>1, <1>10, <2>1, AttachKept, Zenon
<1> QED BY <1>11, <1>12, <1>13, <1>14, Zenon DEF IInv

----------------------------------------------------------------------------
(* The frame-moving actions of exec and wait, and the theorems.            *)

(* exec's new directory and program pages keep the invariant.              *)
LEMMA LoadInv ==
  ASSUME IInv, NEW p \in Procs, NEW n \in Images, NEW attach \in BOOLEAN, execLoad(p, n, attach)
  PROVE  IInv'
<1> DEFINE d == kalloc(1)
           m == [g \in Pages |-> IF g < n THEN kalloc(g + 2) ELSE NONE]
           T == Taken(n + 1)
           pc == IF attach THEN "attach" ELSE "stack"
           e == Ex(pc, d, n, 0, 0, SHAREDPG)
<1>1. /\ ex[p].pc = "user" /\ state[p] = "RUN" /\ n < SHAREDPG /\ Avail(n + 1)
      /\ ex' = [ex EXCEPT ![p] = e] /\ free' = free \ T /\ dirs' = dirs \cup {d}
      /\ pte' = [pte EXCEPT ![d] = m] /\ UNCHANGED <<procVars, stab>>
  BY Zenon DEF execLoad, CanCall, CanExit, CanLoad
<1>2. n \in Nat /\ n \in 0..SHAREDPG
  <2>1. n \in Nat /\ n <= SHAREDPG
    BY Choices, Zenon
  <2> QED BY <2>1, Numbers
<1>3. /\ \A i \in 1..(n + 1) : kalloc(i) \in free /\ kalloc(i) \in T
      /\ \A i, j \in 1..(n + 1) : kalloc(i) = kalloc(j) => i = j
      /\ T \subseteq free
  BY <1>1, <1>2, KallocFresh
<1>4. d \in free /\ d \in T /\ d \in Frames /\ d \notin dirs /\ free \subseteq Frames /\ NONE \notin Frames
  BY <1>2, <1>3, FreeNoDir DEF IInv, TypeOK
<1>5. \A g \in Pages : \/ m[g] = NONE
                       \/ g < n /\ m[g] = kalloc(g + 2) /\ m[g] \in T \ {d}
  <2> SUFFICES ASSUME NEW g \in Pages, g < n
               PROVE  kalloc(g + 2) \in T \ {d}
    BY Zenon
  <2>1. g + 2 \in 1..(n + 1) /\ g + 2 # 1 /\ 1 \in 1..(n + 1)
    BY <1>2, Numbers DEF Pages
  <2> QED BY <1>3, <2>1, Zenon
<1>6. \A g \in Pages : g >= SHAREDPG => m[g] = NONE
  BY <1>1, <1>2, Numbers DEF Pages
<1>7. m = [g \in Pages |-> m[g]] /\ LowPages \subseteq Pages
  BY Numbers DEF LowPages, Pages
<1>8. /\ e \in ExType /\ e.pc = pc /\ e.dir = d /\ e.i = 0 /\ e.j = 0 /\ e.vp = SHAREDPG
      /\ pc \in {"attach", "stack"}
  <2>1. 0 \in 0..SHAREDCOUNT /\ 0 \in 0..SHAREDPG /\ SHAREDPG \in 0..(2 * SHAREDPG) /\ pc \in {"attach", "stack"}
    BY Numbers
  <2> QED BY <1>2, <1>4, <2>1, ExMade
<1> HIDE DEF d, m, T, e, pc
<1>9. \A g, h \in Pages : m[g] = m[h] /\ m[g] # NONE => g = h
  <2> SUFFICES ASSUME NEW g \in Pages, NEW h \in Pages, m[g] = m[h], m[g] # NONE
               PROVE  g = h
    BY Zenon
  <2>1. g < n /\ h < n /\ kalloc(g + 2) = kalloc(h + 2)
    BY <1>5, Zenon
  <2>2. g + 2 \in 1..(n + 1) /\ h + 2 \in 1..(n + 1)
    BY <1>2, <2>1, Numbers DEF Pages
  <2>3. g + 2 = h + 2
    BY <1>3, <2>1, <2>2, Zenon
  <2> QED BY <2>3, Numbers DEF Pages
<1>10. m \in [Pages -> Frames \cup {NONE}]
  <2>1. \A g \in Pages : m[g] \in Frames \cup {NONE}
    BY <1>3, <1>4, <1>5, Zenon
  <2> QED BY <1>7, <2>1, Zenon
<1>11. /\ pte'[d] = m /\ \A f \in Frames \ {d} : pte'[f] = pte[f]
       /\ ex'[p] = e /\ \A q \in Procs \ {p} : ex'[q] = ex[q]
  BY <1>1, <1>4, Zenon DEF IInv, TypeOK
<1>12. TypeOK'
  BY <1>1, <1>4, <1>8, <1>10, Zenon DEF IInv, TypeOK, procVars
<1>13. FrameInv'
  <2>1. LiveProcs' = LiveProcs /\ kstack' = kstack
    BY <1>1, Zenon DEF LiveProcs, Live, procVars
  <2>2. T \in SUBSET free /\ free \in SUBSET Frames /\ dirs \in SUBSET Frames /\ d \in dirs \cup T
    BY <1>3, <1>4, Zenon DEF IInv, TypeOK
  <2>3. \A t \in STabs : stab'[d][t] = NONE
    BY <1>1, <1>4, Zenon DEF IInv, FrameInv, NoTabs
  <2>4. \A g \in LowPages : m[g] = NONE \/ m[g] \in T \ {d}
    BY <1>5, <1>7, Zenon
  <2>5. \A g, h \in LowPages : m[g] = m[h] /\ m[g] # NONE => g = h
    BY <1>7, <1>9, Zenon
  <2>6. NONE \notin T
    BY <1>4, <2>2, Zenon
  <2>7. Takes(free, dirs, pte, stab, LiveProcs, kstack, T, d, p, pte', stab', LiveProcs', kstack')
    BY <1>1, <1>11, <2>1, <2>2, <2>3, <2>4, <2>5, <2>6 DEF Takes
  <2>8. Exclusive(free \ T, dirs \cup {d}, pte', stab', LiveProcs', kstack')
    BY <2>7, Take, Zenon DEF IInv, FrameInv
  <2>9. \A f \in Frames \ dirs' : stab'[f] = NoTabs
    BY <1>1, Zenon DEF IInv, FrameInv
  <2> QED BY <1>1, <2>8, <2>9, Zenon DEF FrameInv
<1>14. DirOwner'
  <2>1. UNCHANGED <<state, pgdir>> /\ \A q \in Procs : Live(q)' <=> Live(q)
    BY <1>1, Zenon DEF procVars, Live
  <2>2. \A q \in Procs : (InExec(q)' <=> q = p \/ InExec(q))
    BY <1>8, <1>11, Zenon DEF InExec
  <2>3. \A q \in Procs : Live(q) => pgdir[q] # d
    BY <1>4, Zenon DEF IInv, DirOwner
  <2>4. \A q \in Procs : InExec(q) => q # p /\ ex[q].dir # d
    BY <1>1, <1>4, Zenon DEF IInv, DirOwner, InExec
  <2> QED BY <1>1, <1>8, <1>11, <2>1, <2>2, <2>3, <2>4 DEF IInv, DirOwner
<1>15. AttachSound'
  <2> SUFFICES ASSUME NEW q \in Procs, ex'[q].pc = "attach"
               PROVE  /\ ex'[q].vp >= SHAREDPG
                      /\ ex'[q].vp <= SHAREDPG + ex'[q].i * MaxPages
                      /\ ex'[q].j # 0 => /\ ex'[q].i < SHAREDCOUNT
                                         /\ ex'[q].j <= NPages(shared'[q][ex'[q].i].size)
                                         /\ stab'[ex'[q].dir][0] # NONE
                      /\ \A g \in Pages : g >= ex'[q].vp + ex'[q].j => pte'[ex'[q].dir][g] = NONE
    BY Zenon DEF AttachSound
  <2>1. CASE q # p
    <3>1. ex[q].dir \in Frames /\ ex[q].dir # d /\ ex'[q] = ex[q]
      BY <1>4, <1>11, <2>1, Zenon DEF IInv, TypeOK, DirOwner, InExec
    <3> QED BY <1>1, <1>11, <3>1 DEF IInv, AttachSound, procVars
  <2>2. CASE q = p
    <3>1. MaxPages \in Int
      BY Numbers DEF MaxPages
    <3> QED BY <1>6, <1>8, <1>11, <2>2, <3>1, Numbers
  <2> QED BY <2>1, <2>2, Zenon
<1> QED BY <1>12, <1>13, <1>14, <1>15, Zenon DEF IInv

(* Where access_shared_memory is: inside the window, at the first page of  *)
(* it that is not mapped.                                                  *)
LEMMA AtTarget ==
  ASSUME IInv, NEW p \in Procs, Attaching(p), InEntry(p), PageLeft(p)
  PROVE  /\ TargetPage(p) \in Pages /\ TargetPage(p) >= SHAREDPG /\ STabOf(TargetPage(p)) = 0
         /\ TargetPage(p) = ex[p].vp + ex[p].j /\ ex[p].vp \in Nat /\ ex[p].j \in Nat
         /\ ex[p].j + 1 \in 0..SHAREDPG /\ ex[p].i < SHAREDCOUNT
         /\ ex[p].j + 1 <= NPages(shared[p][ex[p].i].size)
         /\ ex[p].dir \in dirs /\ ex[p] \in ExType
<1>0. ex[p] \in ExType /\ ex[p].pc = "attach" /\ shared \in [Procs -> [Entries -> EntryType]]
  BY Zenon DEF IInv, TypeOK, Attaching
<1>1. ex[p].i \in Entries /\ ex[p].i < SHAREDCOUNT /\ Entry(p).size # 0 /\ Entry(p) \in EntryType
      /\ Entry(p) = shared[p][ex[p].i]
  BY <1>0, ExFields, Numbers DEF InEntry, Entry, Entries
<1>2. NPages(Entry(p).size) \in 0..MaxPages /\ NPages(Entry(p).size) \in Nat /\ MaxPages \in Nat
      /\ ex[p].j < NPages(Entry(p).size)
  BY <1>1, EntrySize, WindowFits, Zenon DEF PageLeft, Entries
<1>3. ex[p].vp >= SHAREDPG /\ ex[p].vp <= SHAREDPG + ex[p].i * MaxPages
  BY <1>0, Zenon DEF IInv, AttachSound
<1>4. ex[p].vp \in Nat /\ ex[p].j \in Nat /\ ex[p].i \in Nat
  BY <1>0, ExFields, Numbers
<1>5. ex[p].i * MaxPages + MaxPages <= SHAREDPG /\ ex[p].i * MaxPages \in Nat
  BY <1>1, WindowFits, Zenon DEF Entries
<1>6. TargetPage(p) \in Pages /\ TargetPage(p) >= SHAREDPG /\ ex[p].j + 1 \in 0..SHAREDPG
  BY <1>2, <1>3, <1>4, <1>5, Numbers DEF TargetPage, Pages
<1>7. ex[p].dir \in dirs
  BY <1>0, Zenon DEF IInv, DirOwner, InExec
<1>8. STabOf(TargetPage(p)) = 0 /\ TargetPage(p) = ex[p].vp + ex[p].j
  BY <1>6, TabZero, Zenon DEF TargetPage
<1>9. ex[p].j + 1 <= NPages(shared[p][ex[p].i].size)
  BY <1>1, <1>2, <1>4
<1> QED BY <1>0, <1>1, <1>4, <1>6, <1>7, <1>8, <1>9, Zenon

(* Out of memory: with one page-table page for the window, it is missing   *)
(* only before the first page is mapped, so the pages deallocuvm would     *)
(* free are not there.                                                     *)
LEMMA NoMemIdle ==
  ASSUME IInv, NEW p \in Procs, attachNoMem(p)
  PROVE  UNCHANGED <<procVars, memVars>>
<1> DEFINE d == ex[p].dir
           gone == ex[p].vp .. (ex[p].vp + NPages(Entry(p).size) - 1)
           m == [g \in Pages |-> IF g \in gone THEN NONE ELSE pte[d][g]]
<1>1. /\ Attaching(p) /\ InEntry(p) /\ PageLeft(p) /\ stab[d][STabOf(TargetPage(p))] = NONE
      /\ free' = free \cup ({pte[d][g] : g \in gone} \ {NONE})
      /\ pte' = [pte EXCEPT ![d] = m]
      /\ UNCHANGED <<procVars, dirs, stab>>
  BY Zenon DEF attachNoMem
<1>2. /\ STabOf(TargetPage(p)) = 0 /\ ex[p].vp \in Nat /\ ex[p].j \in Nat /\ d \in dirs /\ ex[p] \in ExType
      /\ ex[p].pc = "attach"
  BY <1>1, AtTarget, Zenon DEF Attaching
<1>3. ex[p].j = 0
  BY <1>1, <1>2, Zenon DEF IInv, AttachSound
<1>4. \A g \in Pages : g >= ex[p].vp => pte[d][g] = NONE
  BY <1>2, <1>3 DEF IInv, AttachSound
<1>5. gone \subseteq Pages
  <2>1. /\ ex[p].i \in Entries /\ Entry(p).size # 0 /\ Entry(p) \in EntryType
    BY <1>1, <1>2, ExFields, Numbers, SMTT(30) DEF InEntry, Entry, Entries, IInv, TypeOK
  <2>2. NPages(Entry(p).size) \in 0..MaxPages /\ NPages(Entry(p).size) \in Nat /\ MaxPages \in Nat
    BY <2>1, EntrySize, WindowFits, Zenon DEF Entries
  <2>3. ex[p].vp >= SHAREDPG /\ ex[p].vp <= SHAREDPG + ex[p].i * MaxPages
    BY <1>2, Zenon DEF IInv, AttachSound
  <2>4. ex[p].i * MaxPages + MaxPages <= SHAREDPG /\ ex[p].i * MaxPages \in Nat
    BY <2>1, WindowFits, Zenon DEF Entries
  <2> QED BY <1>2, <2>2, <2>3, <2>4, Numbers, SMTT(30) DEF Pages
<1>6. \A g \in gone : pte[d][g] = NONE
  BY <1>2, <1>4, <1>5
<1> HIDE DEF gone
<1>7. free' = free
  BY <1>1, <1>6, Zenon
<1>8. pte' = pte
  <2>1. pte[d] \in [Pages -> Frames \cup {NONE}] /\ d \in Frames
    BY <1>2, Zenon DEF IInv, TypeOK
  <2>2. m = pte[d]
    BY <1>6, <2>1, ZenonT(40)
  <2> QED BY <1>1, <2>1, <2>2, Zenon DEF IInv, TypeOK
<1> QED BY <1>1, <1>7, <1>8, Zenon DEF memVars

(* So access_shared_memory keeps the invariant when memory runs out.       *)
LEMMA NoMemInv ==
  ASSUME IInv, NEW p \in Procs, attachNoMem(p)
  PROVE  IInv'
<1> DEFINE e == Ex("stack", ex[p].dir, ex[p].n, ex[p].i, ex[p].j, ex[p].vp)
<1>1. Attaching(p) /\ InEntry(p) /\ PageLeft(p) /\ ex' = [ex EXCEPT ![p] = e]
  BY Zenon DEF attachNoMem, LeaveAttach
<1>2. ex[p] \in ExType /\ ex[p].pc = "attach"
  BY <1>1, AtTarget, Zenon DEF Attaching
<1>3. e \in ExType /\ e.pc = "stack" /\ e.dir = ex[p].dir
  <2>1. /\ ex[p].dir \in Frames \cup {NONE} /\ ex[p].n \in 0..SHAREDPG
        /\ ex[p].i \in 0..SHAREDCOUNT /\ ex[p].j \in 0..SHAREDPG /\ ex[p].vp \in 0..(2 * SHAREDPG)
    BY <1>2, ExFields, Zenon
  <2> QED BY <2>1, Zenon DEF ExType, Ex
<1>4. shared \in [Procs -> [Entries -> EntryType]] /\ UNCHANGED <<procVars, memVars>>
  BY NoMemIdle, Zenon DEF IInv, TypeOK
<1> HIDE DEF e
<1> QED BY <1>1, <1>2, <1>3, <1>4, ExecMoves, Zenon DEF procVars

(* Mapping one more page of the parent in the window, with or without a    *)
(* new page-table page, keeps the invariant.                               *)
LEMMA PageInv ==
  ASSUME IInv, NEW p \in Procs, attachPage(p)
  PROVE  IInv'
<1> DEFINE d == ex[p].dir
           g == TargetPage(p)
           nj == ex[p].j + 1
           e == Ex("attach", d, ex[p].n, ex[p].i, nj, ex[p].vp)
<1>1. /\ Attaching(p) /\ InEntry(p) /\ PageLeft(p) /\ STabOf(g) = 0
      /\ ex' = [ex EXCEPT ![p] = e] /\ UNCHANGED <<procVars, dirs>>
      /\ \/ stab[d][0] # NONE /\ UNCHANGED <<stab, free>>
         \/ /\ stab[d][0] = NONE /\ Avail(1) /\ stab' = [stab EXCEPT ![d][0] = kalloc(1)]
            /\ free' = free \ Taken(1)
  <2>1. Attaching(p) /\ InEntry(p) /\ PageLeft(p)
    BY Zenon DEF attachPage
  <2>2. STabOf(g) = 0
    BY <2>1, AtTarget, Zenon
  <2>3. /\ ex' = [ex EXCEPT ![p] = e] /\ UNCHANGED <<procVars, dirs>>
        /\ \/ stab[d][STabOf(g)] # NONE /\ UNCHANGED <<stab, free>>
           \/ /\ stab[d][STabOf(g)] = NONE /\ Avail(1)
              /\ stab' = [stab EXCEPT ![d][STabOf(g)] = kalloc(1)] /\ free' = free \ Taken(1)
    BY Zenon DEF attachPage
  <2> HIDE DEF g, e, d
  <2> QED BY <2>1, <2>2, <2>3, Zenon
<1>2. /\ g \in Pages /\ g >= SHAREDPG /\ g = ex[p].vp + ex[p].j /\ ex[p].vp \in Nat /\ ex[p].j \in Nat
      /\ ex[p].j + 1 \in 0..SHAREDPG /\ ex[p].i < SHAREDCOUNT
      /\ ex[p].j + 1 <= NPages(shared[p][ex[p].i].size) /\ d \in dirs /\ ex[p] \in ExType
      /\ d \in Frames /\ ex[p].pc = "attach"
  BY <1>1, AtTarget, Zenon DEF IInv, TypeOK, Attaching
<1>3. PICK f \in Frames : pte' = [pte EXCEPT ![d][g] = f]
  <2>1. PICK f \in Walk(parent_pgdir[p], SourcePage(p)) \ {NONE} : pte' = [pte EXCEPT ![d][g] = f]
    BY Zenon DEF attachPage
  <2>2. f \in Frames
    <3>1. JunkPtes \subseteq Frames \cup {NONE}
      BY Choices, Zenon
    <3> QED BY <2>1, <3>1 DEF Walk, IInv, TypeOK
  <2> QED BY <2>1, <2>2, Zenon
<1>4. /\ pte'[d] = [pte[d] EXCEPT ![g] = f] /\ pte'[d] \in [Pages -> Frames \cup {NONE}]
      /\ \A c \in Frames \ {d} : pte'[c] = pte[c] /\ stab'[c] = stab[c]
      /\ \A h \in Pages \ {g} : pte'[d][h] = pte[d][h]
      /\ pte' \in [Frames -> [Pages -> Frames \cup {NONE}]]
  BY <1>1, <1>2, <1>3, ZenonT(40) DEF IInv, TypeOK
<1>5. \A h \in LowPages : pte'[d][h] = pte[d][h]
  BY <1>2, <1>4, Numbers DEF Pages, LowPages
<1>6. /\ e \in ExType /\ e.pc = "attach" /\ e.dir = d /\ e.i = ex[p].i /\ e.j = ex[p].j + 1
      /\ e.vp = ex[p].vp
  <2>1. /\ d \in Frames \cup {NONE} /\ ex[p].n \in 0..SHAREDPG
        /\ ex[p].i \in 0..SHAREDCOUNT /\ ex[p].j + 1 \in 0..SHAREDPG /\ ex[p].vp \in 0..(2 * SHAREDPG)
    BY <1>2, ExFields, Zenon
  <2>2. nj \in 0..SHAREDPG /\ nj = ex[p].j + 1
    BY <2>1, Zenon
  <2> HIDE DEF nj
  <2>3. d \in Frames \cup {NONE} /\ "attach" \in {"user", "attach", "stack"}
    BY <2>1, Zenon
  <2>4. /\ e \in ExType /\ e.pc = "attach" /\ e.dir = d /\ e.i = ex[p].i /\ e.j = nj
        /\ e.vp = ex[p].vp
    BY <2>1, <2>2, <2>3, Zenon DEF ExType, Ex
  <2> QED BY <2>2, <2>4, Zenon
<1> HIDE DEF e
<1>7. ex'[p] = e /\ \A q \in Procs \ {p} : ex'[q] = ex[q]
  BY <1>1, Zenon DEF IInv, TypeOK
<1>8. LiveProcs' = LiveProcs /\ kstack' = kstack /\ STabs = {0}
  BY <1>1, TabZero, Zenon DEF LiveProcs, Live, procVars
<1>9. /\ FrameInv' /\ stab'[d][0] # NONE /\ free' \subseteq Frames
      /\ stab' \in [Frames -> [STabs -> Frames \cup {NONE}]]
  <2>1. Exclusive(free, dirs, pte, stab, LiveProcs, kstack)
    BY Zenon DEF IInv, FrameInv
  <2>2. free \in SUBSET Frames /\ dirs \in SUBSET Frames /\ d \notin free /\ NONE \notin Frames
    BY <1>2, FreeNoDir, Zenon DEF IInv, TypeOK
  <2>3. CASE stab[d][0] # NONE /\ UNCHANGED <<stab, free>>
    <3>1. Gives(dirs, pte, stab, LiveProcs, kstack, {}, dirs, pte', stab', LiveProcs', kstack')
      BY <1>2, <1>4, <1>5, <1>8, <2>2, <2>3, Zenon DEF Gives
    <3>2. Exclusive(free \cup {}, dirs, pte', stab', LiveProcs', kstack')
      BY <2>1, <3>1, Give, Zenon
    <3>3. free \cup {} = free' /\ dirs' = dirs
      BY <1>1, <2>3, Zenon
    <3> QED BY <2>3, <3>2, <3>3, Zenon DEF FrameInv, IInv, TypeOK
  <2>4. CASE /\ stab[d][0] = NONE /\ Avail(1) /\ stab' = [stab EXCEPT ![d][0] = kalloc(1)]
             /\ free' = free \ Taken(1)
    <3> DEFINE T == Taken(1)
    <3>1. kalloc(1) \in free /\ T \subseteq free /\ kalloc(1) \in T
      BY <2>4, KallocFresh, SMTT(30)
    <3>2. \A h \in LowPages : pte[d][h] \notin T
      BY <1>2, <2>2, <3>1 DEF IInv, FrameInv, Exclusive, Owns
    <3>3. /\ stab'[d][0] = kalloc(1) /\ stab' \in [Frames -> [STabs -> Frames \cup {NONE}]]
      BY <1>2, <1>8, <2>2, <2>4, <3>1, ZenonT(40) DEF IInv, TypeOK
    <3> HIDE DEF T
    <3>4. Takes(free, dirs, pte, stab, LiveProcs, kstack, T, d, p, pte', stab', LiveProcs', kstack')
      BY <1>2, <1>4, <1>5, <1>8, <2>2, <3>1, <3>2, <3>3, Zenon DEF Takes
    <3>5. Exclusive(free \ T, dirs \cup {d}, pte', stab', LiveProcs', kstack')
      BY <2>1, <3>4, Take, Zenon
    <3>6. free \ T = free' /\ dirs \cup {d} = dirs'
      BY <1>1, <1>2, <2>4, Zenon DEF T
    <3>7. \A c \in Frames \ dirs' : stab'[c] = NoTabs
      BY <1>1, <1>2, <1>4, Zenon DEF IInv, FrameInv
    <3> QED BY <2>2, <3>1, <3>3, <3>5, <3>6, <3>7, Zenon DEF FrameInv
  <2> QED BY <1>1, <2>3, <2>4, Zenon
<1>10. TypeOK'
  BY <1>1, <1>4, <1>6, <1>9, Zenon DEF IInv, TypeOK, procVars
<1>11. DirOwner'
  <2>1. UNCHANGED <<state, pgdir, dirs>> /\ \A q \in Procs : Live(q)' <=> Live(q)
    BY <1>1, Zenon DEF procVars, Live
  <2>2. \A q \in Procs : ex'[q].dir = ex[q].dir /\ (InExec(q)' <=> InExec(q))
    BY <1>2, <1>6, <1>7, Zenon DEF InExec
  <2> QED BY <2>1, <2>2, Zenon DEF IInv, DirOwner
<1>12. AttachSound'
  <2> SUFFICES ASSUME NEW q \in Procs, ex'[q].pc = "attach"
               PROVE  /\ ex'[q].vp >= SHAREDPG
                      /\ ex'[q].vp <= SHAREDPG + ex'[q].i * MaxPages
                      /\ ex'[q].j # 0 => /\ ex'[q].i < SHAREDCOUNT
                                         /\ ex'[q].j <= NPages(shared'[q][ex'[q].i].size)
                                         /\ stab'[ex'[q].dir][0] # NONE
                      /\ \A h \in Pages : h >= ex'[q].vp + ex'[q].j => pte'[ex'[q].dir][h] = NONE
    BY Zenon DEF AttachSound
  <2>1. CASE q # p
    <3>1. ex[q].dir \in Frames /\ ex[q].dir # d /\ ex'[q] = ex[q]
      BY <1>2, <1>7, <2>1, Zenon DEF IInv, TypeOK, DirOwner, InExec
    <3>2. /\ pte'[ex[q].dir] = pte[ex[q].dir] /\ stab'[ex[q].dir] = stab[ex[q].dir]
          /\ shared' = shared
      BY <1>1, <1>4, <3>1, Zenon DEF procVars
    <3> QED BY <3>1, <3>2, Zenon DEF IInv, AttachSound
  <2>2. CASE q = p
    <3>1. /\ ex[p].vp >= SHAREDPG /\ ex[p].vp <= SHAREDPG + ex[p].i * MaxPages
          /\ \A h \in Pages : h >= ex[p].vp + ex[p].j => pte[d][h] = NONE
      BY <1>2, Zenon DEF IInv, AttachSound
    <3>2. \A h \in Pages : h >= ex[p].vp + (ex[p].j + 1) => h # g /\ h >= ex[p].vp + ex[p].j
      BY <1>2 DEF Pages
    <3>3. \A h \in Pages : h >= e.vp + e.j => pte'[d][h] = NONE
      BY <1>4, <1>6, <3>1, <3>2, Zenon
    <3>4. shared' = shared
      BY <1>1, Zenon DEF procVars
    <3>5. e.vp >= SHAREDPG /\ e.vp <= SHAREDPG + e.i * MaxPages
      BY <1>6, <3>1, Zenon
    <3>6. e.i < SHAREDCOUNT /\ e.j <= NPages(shared'[p][e.i].size) /\ stab'[e.dir][0] # NONE
      BY <1>2, <1>6, <1>9, <3>4, Zenon
    <3>7. \A h \in Pages : h >= e.vp + e.j => pte'[e.dir][h] = NONE
      BY <1>6, <3>3, Zenon
    <3> QED BY <1>7, <2>2, <3>5, <3>6, <3>7, Zenon
  <2> QED BY <2>1, <2>2, Zenon
<1> QED BY <1>9, <1>10, <1>11, <1>12, Zenon DEF IInv

----------------------------------------------------------------------------
(* Directory d is freed, and with it the kernel stacks of processes that   *)
(* are no longer in ps2.                                                   *)
Drops(ds, pt, st, ps, ks, F, d, pt2, st2, ps2, ks2) ==
  /\ ds \in SUBSET Frames /\ d \in ds /\ ps2 \in SUBSET ps
  /\ \A f \in F : f \in Frames /\ (Owns(pt, st, d, f) \/ \E c \in ps \ ps2 : f = ks[c])
  /\ \A e \in ds \ {d} : pt2[e] = pt[e] /\ st2[e] = st[e]
  /\ \A q \in ps2 : ks2[q] = ks[q]

(* freevm and kfree of one process's memory leave every other frame at its *)
(* one use.                                                                *)
LEMMA Drop ==
  ASSUME NEW fr, NEW ds, NEW pt, NEW st, NEW ps, NEW ks, NEW F, NEW d,
         NEW pt2, NEW st2, NEW ps2, NEW ks2,
         Exclusive(fr, ds, pt, st, ps, ks),
         Drops(ds, pt, st, ps, ks, F, d, pt2, st2, ps2, ks2)
  PROVE  Exclusive(fr \cup F, ds \ {d}, pt2, st2, ps2, ks2)
<1> DEFINE ds2 == ds \ {d}
<1>1. \A e \in ds2, f \in F : ~Owns(pt2, st2, e, f)
  <2> SUFFICES ASSUME NEW e \in ds2, NEW f \in F, Owns(pt2, st2, e, f)
               PROVE  FALSE
    BY Zenon
  <2>1. Owns(pt, st, e, f) /\ f \in Frames
    BY Zenon DEF Drops, Owns
  <2>2. ~Owns(pt, st, d, f)
    BY <2>1, Zenon DEF Drops, Exclusive
  <2>3. \A c \in ps : f # ks[c]
    BY <2>1 DEF Exclusive
  <2> QED BY <2>2, <2>3, Zenon DEF Drops
<1>2. \A q \in ps2 : ks[q] \notin F
  <2> SUFFICES ASSUME NEW q \in ps2, ks[q] \in F
               PROVE  FALSE
    BY Zenon
  <2>1. q \in ps /\ ks[q] \in Frames
    BY Zenon DEF Drops
  <2>2. ~Owns(pt, st, d, ks[q])
    BY <2>1, Zenon DEF Drops, Exclusive
  <2>3. \A c \in ps \ ps2 : ks[q] # ks[c]
    BY <2>1, Zenon DEF Exclusive
  <2> QED BY <2>2, <2>3, Zenon DEF Drops
<1>3. Gives(ds, pt, st, ps, ks, F, ds2, pt2, st2, ps2, ks2)
  BY <1>1, <1>2, Zenon DEF Drops, Gives
<1> QED BY <1>3, Give, Zenon

(* What freevm(d) gives back is what d owns.                               *)
LEMMA FreevmOwned ==
  ASSUME IInv, NEW d \in dirs
  PROVE  \A f \in freevm(d) : f \in Frames /\ Owns(pte, stab, d, f)
<1>1. d \in Frames /\ NONE \notin Frames /\ LowPages \subseteq Pages
  BY FreeNoDir, Numbers DEF IInv, TypeOK, LowPages, Pages
<1> QED BY <1>1, SMTT(30) DEF freevm, LowFrames, TabFrames, Owns, IInv, TypeOK

(* The emptied maps of a freed directory have the type of maps.            *)
LEMMA EmptyMaps ==
  /\ NoPages \in [Pages -> Frames \cup {NONE}]
  /\ NoTabs \in [STabs -> Frames \cup {NONE}]
BY Zenon DEF NoPages, NoTabs

(* exec giving up keeps the invariant.                                     *)
LEMMA BadInv ==
  ASSUME IInv, NEW p \in Procs, execBad(p)
  PROVE  IInv'
<1> DEFINE d == ex[p].dir
<1>1. /\ state[p] = "RUN" /\ ex[p].pc = "stack" /\ ex' = [ex EXCEPT ![p] = InUser]
      /\ free' = free \cup freevm(d) /\ dirs' = dirs \ {d}
      /\ pte' = [pte EXCEPT ![d] = NoPages] /\ stab' = [stab EXCEPT ![d] = NoTabs]
      /\ UNCHANGED procVars
  BY Zenon DEF execBad
<1>2. d \in dirs /\ d \in Frames
  BY <1>1, Zenon DEF IInv, TypeOK, DirOwner, InExec
<1>3. \A f \in freevm(d) : f \in Frames /\ Owns(pte, stab, d, f)
  BY <1>2, FreevmOwned, Zenon
<1>4. /\ \A c \in Frames \ {d} : pte'[c] = pte[c] /\ stab'[c] = stab[c]
      /\ stab'[d] = NoTabs
      /\ ex'[p] = InUser /\ \A q \in Procs \ {p} : ex'[q] = ex[q]
  BY <1>1, <1>2, Zenon DEF IInv, TypeOK
<1>5. TypeOK'
  BY <1>1, <1>3, EmptyMaps, InUserType, Zenon DEF IInv, TypeOK, procVars
<1>6. FrameInv'
  <2>1. LiveProcs' = LiveProcs /\ kstack' = kstack
    BY <1>1, Zenon DEF LiveProcs, Live, procVars
  <2>2. Drops(dirs, pte, stab, LiveProcs, kstack, freevm(d), d, pte', stab', LiveProcs', kstack')
    BY <1>2, <1>3, <1>4, <2>1, Zenon DEF Drops, IInv, TypeOK
  <2>3. Exclusive(free \cup freevm(d), dirs \ {d}, pte', stab', LiveProcs', kstack')
    BY <2>2, Drop, Zenon DEF IInv, FrameInv
  <2>4. \A f \in Frames \ dirs' : stab'[f] = NoTabs
    BY <1>1, <1>4, ZenonT(40) DEF IInv, FrameInv
  <2> QED BY <1>1, <2>3, <2>4, Zenon DEF FrameInv
<1>7. DirOwner'
  <2>1. UNCHANGED <<state, pgdir>> /\ \A q \in Procs : Live(q)' <=> Live(q)
    BY <1>1, Zenon DEF procVars, Live
  <2>2. \A q \in Procs : InExec(q)' => q # p /\ InExec(q) /\ ex'[q] = ex[q]
    BY <1>4, InUserType, Zenon DEF InExec
  <2>3. \A q \in Procs : Live(q) => pgdir[q] # d
    BY <1>1, Zenon DEF IInv, DirOwner, InExec
  <2>4. \A q \in Procs : InExec(q) /\ q # p => ex[q].dir # d
    BY <1>1, Zenon DEF IInv, DirOwner, InExec
  <2> QED BY <1>1, <2>1, <2>2, <2>3, <2>4 DEF IInv, DirOwner
<1>8. AttachSound'
  <2> SUFFICES ASSUME NEW q \in Procs, ex'[q].pc = "attach"
               PROVE  /\ ex'[q] = ex[q] /\ shared'[q] = shared[q]
                      /\ pte'[ex[q].dir] = pte[ex[q].dir] /\ stab'[ex[q].dir] = stab[ex[q].dir]
    BY AttachKept, Zenon
  <2>1. q # p /\ ex'[q] = ex[q]
    BY <1>4, InUserType, Zenon
  <2>2. ex[q].dir # d /\ ex[q].dir \in Frames
    BY <1>1, <2>1, Zenon DEF IInv, TypeOK, DirOwner, InExec
  <2> QED BY <1>1, <1>4, <2>1, <2>2, Zenon DEF procVars
<1> QED BY <1>5, <1>6, <1>7, <1>8, Zenon DEF IInv

(* Reaping a zombie keeps the invariant.                                   *)
LEMMA WaitInv ==
  ASSUME IInv, NEW p \in Procs, wait(p)
  PROVE  IInv'
<1>1. PICK c \in Procs :
        /\ Zombie(p, c)
        /\ kstack' = [kstack EXCEPT ![c] = NONE] /\ parent' = [parent EXCEPT ![c] = NONE]
        /\ state' = [state EXCEPT ![c] = "UNUSED"]
        /\ free' = free \cup (freevm(pgdir[c]) \cup {kstack[c]})
        /\ dirs' = dirs \ {pgdir[c]} /\ pte' = [pte EXCEPT ![pgdir[c]] = NoPages]
        /\ stab' = [stab EXCEPT ![pgdir[c]] = NoTabs]
  BY Zenon DEF wait, Reaped
<1>2. UNCHANGED <<pgdir, parent_pgdir, sz, shared, ex>>
  BY Zenon DEF wait
<1> DEFINE d == pgdir[c]
           F == freevm(d) \cup {kstack[c]}
<1>3. state[c] = "ZOMBIE" /\ Live(c) /\ ex[c].pc = "user" /\ d \in dirs /\ d \in Frames
      /\ kstack[c] \in Frames /\ c \in LiveProcs
  <2>1. state[c] = "ZOMBIE" /\ Live(c) /\ c \in LiveProcs
    BY <1>1, Zenon DEF Zombie, Live, LiveProcs
  <2> QED BY <2>1, Zenon DEF IInv, TypeOK, DirOwner, InExec, FrameInv, Exclusive
<1>4. \A f \in freevm(d) : f \in Frames /\ Owns(pte, stab, d, f)
  BY <1>3, FreevmOwned, Zenon
<1>5. /\ \A a \in Frames \ {d} : pte'[a] = pte[a] /\ stab'[a] = stab[a]
      /\ stab'[d] = NoTabs
      /\ \A q \in Procs \ {c} : kstack'[q] = kstack[q] /\ state'[q] = state[q]
      /\ state'[c] = "UNUSED"
  BY <1>1, <1>3, Zenon DEF IInv, TypeOK
<1>6. TypeOK'
  <2>1. free' \subseteq Frames
    BY <1>1, <1>3, <1>4, Zenon DEF IInv, TypeOK
  <2> QED BY <1>1, <1>2, <2>1, EmptyMaps, Zenon DEF IInv, TypeOK
<1>7. FrameInv'
  <2>1. LiveProcs' = LiveProcs \ {c} /\ LiveProcs \subseteq Procs
    BY <1>5, Zenon DEF LiveProcs, Live
  <2>2. \A f \in F : f \in Frames /\ (Owns(pte, stab, d, f) \/ \E a \in LiveProcs \ LiveProcs' : f = kstack[a])
    BY <1>3, <1>4, <2>1, Zenon
  <2> HIDE DEF F
  <2>3. Drops(dirs, pte, stab, LiveProcs, kstack, F, d, pte', stab', LiveProcs', kstack')
    BY <1>3, <1>5, <2>1, <2>2, Zenon DEF Drops, IInv, TypeOK
  <2>4. Exclusive(free \cup F, dirs \ {d}, pte', stab', LiveProcs', kstack')
    BY <2>3, Drop, Zenon DEF IInv, FrameInv
  <2>5. \A f \in Frames \ dirs' : stab'[f] = NoTabs
    BY <1>1, <1>5, Zenon DEF IInv, FrameInv
  <2>6. free \cup F = free' /\ dirs \ {d} = dirs'
    BY <1>1, ZenonT(40) DEF F
  <2> QED BY <2>4, <2>5, <2>6, Zenon DEF FrameInv
<1>8. DirOwner'
  <2>1. \A q \in Procs : Live(q)' => q # c /\ Live(q)
    BY <1>5, Zenon DEF Live
  <2>2. \A q \in Procs : Live(q) /\ q # c => pgdir[q] # d
    BY <1>3, Zenon DEF IInv, DirOwner
  <2>3. \A q \in Procs : InExec(q) => ex[q].dir # d /\ q # c
    BY <1>3, Zenon DEF IInv, DirOwner, InExec
  <2>4. \A q \in Procs : InExec(q)' <=> InExec(q)
    BY <1>2, Zenon DEF InExec
  <2> QED BY <1>1, <1>2, <1>5, <2>1, <2>2, <2>3, <2>4 DEF IInv, DirOwner
<1>9. AttachSound'
  <2>1. \A q \in Procs : ex[q].pc = "attach" => ex[q].dir \in Frames /\ ex[q].dir # d
    BY <1>3, Zenon DEF IInv, TypeOK, DirOwner, InExec
  <2> QED BY <1>2, <1>5, <2>1, AttachKept, Zenon
<1> QED BY <1>6, <1>7, <1>8, <1>9, Zenon DEF IInv

(* The size of an image that leaves room for its stack.                    *)
LEMMA ImageSize ==
  ASSUME NEW n \in Nat, n + 2 < SHAREDPG
  PROVE  (n + 2) * PGSIZE \in 0..(SHAREDBASE - 1)
BY Numbers DEF SHAREDBASE

(* The switch to the new image keeps the invariant: first it takes the     *)
(* guard and stack pages, then it frees the old image.                     *)
LEMMA CommitInv ==
  ASSUME IInv, NEW p \in Procs, execCommit(p)
  PROVE  IInv'
<1> DEFINE d == ex[p].dir
           n == ex[p].n
           o == pgdir[p]
           T == Taken(2)
           m == [pte[d] EXCEPT ![n] = kalloc(1), ![n + 1] = kalloc(2)]
           pt1 == [pte EXCEPT ![d] = m]
<1>1. /\ state[p] = "RUN" /\ ex[p].pc = "stack" /\ n + 2 < SHAREDPG /\ Avail(2)
      /\ pgdir' = [pgdir EXCEPT ![p] = d] /\ sz' = [sz EXCEPT ![p] = (n + 2) * PGSIZE]
      /\ ex' = [ex EXCEPT ![p] = InUser]
      /\ free' = (free \ T) \cup freevm(o) /\ dirs' = dirs \ {o}
      /\ stab' = [stab EXCEPT ![o] = NoTabs]
      /\ UNCHANGED <<state, parent, kstack, parent_pgdir, shared>>
  BY Zenon DEF execCommit
<1>2. d \in dirs /\ d \in Frames /\ o \in dirs /\ o \in Frames /\ d # o /\ d \notin free /\ NONE \notin Frames
      /\ free \subseteq Frames
  BY <1>1, FreeNoDir, Zenon DEF IInv, TypeOK, DirOwner, InExec, Live
<1>3. n \in Nat /\ n \in LowPages /\ n + 1 \in LowPages /\ n # n + 1 /\ LowPages \subseteq Pages
  <2>1. n \in 0..SHAREDPG
    BY ExFields, Zenon DEF IInv, TypeOK
  <2>2. n + 2 < SHAREDPG
    BY <1>1, Zenon
  <2> HIDE DEF n
  <2> QED BY <2>1, <2>2, Numbers, SMTT(30) DEF LowPages, Pages
<1>4. /\ pte[d] \in [Pages -> Frames \cup {NONE}] /\ pte \in [Frames -> [Pages -> Frames \cup {NONE}]]
  BY <1>2, Zenon DEF IInv, TypeOK
<1>5. pte' = [pt1 EXCEPT ![o] = NoPages]
  BY <1>2, <1>3, <1>4, Zenon DEF execCommit
<1>6. /\ kalloc(1) \in T /\ kalloc(2) \in T /\ T \subseteq free /\ kalloc(1) # kalloc(2)
  BY <1>1, KallocFresh
<1>7. \A g \in LowPages : \/ g = n /\ m[g] = kalloc(1)
                          \/ g = n + 1 /\ m[g] = kalloc(2)
                          \/ m[g] = pte[d][g]
  BY <1>3, <1>4, Zenon
<1>8. m \in [Pages -> Frames \cup {NONE}]
  BY <1>2, <1>3, <1>4, <1>6, Zenon
<1> HIDE DEF d, n, o, m, T
<1>9. /\ pt1[d] = m /\ \A e \in Frames \ {d} : pt1[e] = pte[e]
      /\ pt1 \in [Frames -> [Pages -> Frames \cup {NONE}]]
  BY <1>2, <1>4, <1>8, Zenon
<1> HIDE DEF pt1
<1>10. /\ \A e \in Frames \ {o} : pte'[e] = pt1[e] /\ stab'[e] = stab[e]
       /\ stab'[o] = NoTabs
       /\ ex'[p] = InUser /\ (\A q \in Procs \ {p} : ex'[q] = ex[q])
       /\ pgdir'[p] = d /\ (\A q \in Procs \ {p} : pgdir'[q] = pgdir[q])
  BY <1>1, <1>2, <1>5, <1>9, Zenon DEF IInv, TypeOK
<1>11. \A f \in freevm(o) : f \in Frames /\ Owns(pte, stab, o, f)
  BY <1>2, FreevmOwned, Zenon
<1>12. TypeOK'
  <2>1. sz' \in [Procs -> 0..(SHAREDBASE - 1)]
    BY <1>1, <1>3, ImageSize, Zenon DEF IInv, TypeOK
  <2>2. free' \subseteq Frames /\ dirs' \subseteq Frames
    BY <1>1, <1>2, <1>11, Zenon DEF IInv, TypeOK
  <2>3. pte' \in [Frames -> [Pages -> Frames \cup {NONE}]]
    BY <1>5, <1>9, EmptyMaps, Zenon
  <2> QED BY <1>1, <1>2, <2>1, <2>2, <2>3, EmptyMaps, InUserType, Zenon DEF IInv, TypeOK
<1>13. FrameInv'
  <2>1. LiveProcs' = LiveProcs /\ kstack' = kstack
    BY <1>1, Zenon DEF LiveProcs, Live
  <2>2. Exclusive(free, dirs, pte, stab, LiveProcs, kstack) /\ dirs \in SUBSET Frames
    BY ZenonT(40) DEF IInv, FrameInv, TypeOK
  <2>3. \A g \in LowPages : pte[d][g] \notin T
    BY <1>2, <1>6, <2>2 DEF Exclusive, Owns
  <2>4. \A t \in STabs : stab[d][t] \notin T
    BY <1>2, <1>6, <2>2 DEF Exclusive, Owns
  <2>5. \A g, h \in LowPages : m[g] = m[h] /\ m[g] \in T => g = h
    BY <1>6, <1>7, <2>3
  <2>6. \A g \in LowPages : m[g] \in T \ {d} \/ m[g] = pte[d][g]
    BY <1>2, <1>6, <1>7, Zenon
  <2>7. Takes(free, dirs, pte, stab, LiveProcs, kstack, T, d, p, pt1, stab, LiveProcs, kstack)
    BY <1>2, <1>6, <1>9, <2>2, <2>4, <2>5, <2>6, Zenon DEF Takes
  <2>8. Exclusive(free \ T, dirs \cup {d}, pt1, stab, LiveProcs, kstack) /\ dirs \cup {d} = dirs
    BY <1>2, <2>2, <2>7, Take, Zenon
  <2>9. \A f \in freevm(o) : f \in Frames /\ Owns(pt1, stab, o, f)
    BY <1>2, <1>9, <1>11, Zenon DEF Owns
  <2>10. Drops(dirs, pt1, stab, LiveProcs, kstack, freevm(o), o, pte', stab', LiveProcs', kstack')
    BY <1>2, <1>10, <2>1, <2>2, <2>9, Zenon DEF Drops
  <2>11. Exclusive((free \ T) \cup freevm(o), dirs \ {o}, pte', stab', LiveProcs', kstack')
    BY <2>8, <2>10, Drop
  <2>12. \A f \in Frames \ dirs' : stab'[f] = NoTabs
    BY <1>1, <1>10, ZenonT(40) DEF IInv, FrameInv
  <2> QED BY <1>1, <2>11, <2>12, Zenon DEF FrameInv
<1>14. DirOwner'
  <2>1. UNCHANGED state /\ \A q \in Procs : Live(q)' <=> Live(q)
    BY <1>1, Zenon DEF Live
  <2>2. \A q \in Procs : InExec(q)' => q # p /\ InExec(q) /\ ex'[q] = ex[q]
    BY <1>10, InUserType, Zenon DEF InExec
  <2>3. \A q \in Procs : Live(q) => pgdir[q] # d /\ (q # p => pgdir[q] # o)
    BY <1>1, Zenon DEF IInv, DirOwner, InExec, Live, d, o
  <2>4. \A q \in Procs : InExec(q) => ex[q].dir # o /\ (q # p => ex[q].dir # d)
    BY <1>1, ZenonT(40) DEF IInv, DirOwner, InExec, Live, d, o
  <2> QED BY <1>1, <1>2, <1>10, <2>1, <2>2, <2>3, <2>4 DEF IInv, DirOwner
<1>15. AttachSound'
  <2> SUFFICES ASSUME NEW q \in Procs, ex'[q].pc = "attach"
               PROVE  /\ ex'[q] = ex[q] /\ shared'[q] = shared[q]
                      /\ pte'[ex[q].dir] = pte[ex[q].dir] /\ stab'[ex[q].dir] = stab[ex[q].dir]
    BY AttachKept, Zenon
  <2>1. q # p /\ ex'[q] = ex[q]
    BY <1>10, InUserType, Zenon
  <2>2. ex[q].dir # d /\ ex[q].dir # o /\ ex[q].dir \in Frames
    BY <1>1, <2>1, Zenon DEF IInv, TypeOK, DirOwner, InExec, Live, d, o
  <2> QED BY <1>1, <1>9, <1>10, <2>1, <2>2, Zenon
<1> QED BY <1>12, <1>13, <1>14, <1>15, Zenon DEF IInv

----------------------------------------------------------------------------
(* The theorems.                                                           *)

(* The state userinit builds satisfies the invariant, whatever part of the *)
(* memory the machine has.                                                 *)
LEMMA BootInv ==
  ASSUME NEW n \in 3..NFRAME, InitWith(n)
  PROVE  IInv
<1> USE DEF InitWith, NONE, initproc
<1>1. /\ 1 \in Procs /\ {1, 2, 3} \subseteq Frames /\ 4..n \subseteq Frames /\ 0 \in Pages
      /\ LowPages \subseteq Pages /\ 0 \notin Frames /\ Frames \subseteq Nat
  BY Numbers DEF Procs, Frames, Pages, LowPages
<1>2. \A p \in Procs : ex[p].pc = "user"
  BY InUserType, Zenon
<1>3. TypeOK
  <2>1. EmptyEntry \in EntryType
    <3>1. "" \in Keys /\ 0 \in 0..(UINT - 1) /\ 0 \in Sizes \cup {0}
      <4>1. "" \in Keys
        BY Zenon DEF Keys
      <4>2. 0 \in 0..(UINT - 1) /\ 0 \in Sizes \cup {0}
        BY Units
      <4> QED BY <4>1, <4>2, Zenon
    <3> QED BY <3>1, EntryMade, Zenon DEF EmptyEntry
  <2>2. sz \in [Procs -> 0..(SHAREDBASE - 1)]
    BY Units, Numbers
  <2>3. [NoPages EXCEPT ![0] = 3] \in [Pages -> Frames \cup {NONE}]
    BY <1>1, EmptyMaps, Zenon
  <2> QED BY <1>1, <2>1, <2>2, <2>3, EmptyMaps, InUserType, Zenon DEF TypeOK
<1>4. LiveProcs = {1}
  BY <1>1, Zenon DEF LiveProcs, Live
<1>5. FrameInv
  <2>1. /\ \A g \in LowPages : pte[2][g] = (IF g = 0 THEN 3 ELSE 0)
        /\ \A f \in Frames : stab[f] = NoTabs
    BY <1>1, Zenon DEF NoPages
  <2>2. \A t \in STabs : stab[2][t] = 0
    BY <1>1, <2>1, Zenon DEF NoTabs
  <2>3. \A f \in Frames : Owns(pte, stab, 2, f) => f = 2 \/ f = 3
    BY <2>1, <2>2, Zenon DEF Owns
  <2>4. kstack[1] = 1
    BY <1>1, Zenon
  <2>5. 1 \notin free /\ 2 \notin free /\ 3 \notin free /\ dirs = {2}
    BY Numbers
  <2> HIDE DEF InitWith
  <2>6. /\ \A f \in Frames : Owns(pte, stab, 2, f) => f \notin free
        /\ \A g \in LowPages : pte[2][g] # 2
        /\ \A t \in STabs : stab[2][t] # 2
        /\ \A g \in LowPages, t \in STabs : pte[2][g] = stab[2][t] => pte[2][g] = NONE
        /\ \A g, h \in LowPages : pte[2][g] = pte[2][h] /\ pte[2][g] # NONE => g = h
    BY <2>1, <2>2, <2>3, <2>5
  <2>7. kstack[1] \in Frames /\ kstack[1] \notin free /\ ~Owns(pte, stab, 2, kstack[1])
    BY <1>1, <2>3, <2>4, <2>5
  <2>8. Exclusive(free, {2}, pte, stab, {1}, kstack)
    BY <2>6, <2>7, Zenon DEF Exclusive
  <2> QED BY <1>4, <2>1, <2>5, <2>8, Zenon DEF FrameInv
<1>6. DirOwner
  BY <1>1, <1>2, Zenon DEF DirOwner, Live, InExec
<1>7. AttachSound
  BY <1>2, Zenon DEF AttachSound
<1> QED BY <1>3, <1>5, <1>6, <1>7, Zenon DEF IInv

(* The same for all of memory.                                             *)
LEMMA InitInv == Init => IInv
<1>1. NFRAME \in 3..NFRAME
  BY Numbers
<1> QED BY <1>1, BootInv, Zenon DEF Init

(* Every step of every process keeps the invariant.                        *)
LEMMA NextInv == IInv /\ [Next]_vars => IInv'
<1> SUFFICES ASSUME IInv, [Next]_vars PROVE IInv'
  BY Zenon
<1>1. CASE UNCHANGED vars
  <2>1. UNCHANGED <<state, parent, kstack, pgdir, parent_pgdir, sz, shared, ex, free, dirs, pte, stab>>
    BY <1>1, Zenon DEF vars
  <2>2. TypeOK'
    BY <2>1, Zenon DEF IInv, TypeOK
  <2>3. FrameInv'
    BY <2>1, FramesSame, Zenon DEF memVars, Live
  <2>4. DirOwner'
    BY <2>1, Zenon DEF IInv, DirOwner, Live, InExec
  <2>5. AttachSound'
    BY <2>1, AttachKept, Zenon
  <2> QED BY <2>2, <2>3, <2>4, <2>5, Zenon DEF IInv
<1>2. ASSUME NEW p \in Procs, Step(p) PROVE IInv'
  <2>1. CASE \E x \in Structs : share_data(p, x)
    BY <2>1, ShareInv, Zenon
  <2>2. CASE fork(p)
    BY <2>2, ForkInv, Zenon
  <2>3. CASE \E k \in Deltas : grow(p, k) \/ shrink(p, k)
    BY <2>3, GrowInv, ShrinkInv, Zenon
  <2>4. CASE \E n \in Images, attach \in BOOLEAN : execLoad(p, n, attach)
    BY <2>4, LoadInv, Zenon
  <2>5. CASE access_shared_memory(p)
    BY <2>5, LeaveInv, PageInv, NoMemInv, EntryInv, Zenon DEF access_shared_memory
  <2>6. CASE execCommit(p)
    BY <2>6, CommitInv, Zenon
  <2>7. CASE execBad(p)
    BY <2>7, BadInv, Zenon
  <2>8. CASE exit(p)
    BY <2>8, ExitInv, Zenon
  <2>9. CASE wait(p)
    BY <2>9, WaitInv, Zenon
  <2> QED BY <1>2, <2>1, <2>2, <2>3, <2>4, <2>5, <2>6, <2>7, <2>8, <2>9, Zenon DEF Step
<1> QED BY <1>1, <1>2, Zenon DEF Next

(* The invariant holds throughout.                                         *)
THEOREM Inductive == Spec => []IInv
<1> QED BY InitInv, NextInv, PTL DEF Spec

(* Every variable keeps the type of the C field it models, whatever the    *)
(* processes do.                                                           *)
THEOREM TypeCorrect == Spec => []TypeOK
<1>1. IInv => TypeOK
  BY Zenon DEF IInv
<1> QED BY <1>1, Inductive, PTL

(* No frame ever has two uses.                                             *)
THEOREM Exclusion == Spec => []FramesExclusive
<1>1. ASSUME IInv PROVE FramesExclusive
  <2> USE <1>1
  <2>1. Exclusive(free, dirs, pte, stab, LiveProcs, kstack) /\ NONE \notin Frames
    BY FreeNoDir, Zenon DEF IInv, FrameInv
  <2>2. \A d \in dirs : /\ \A f \in freevm(d) : f \in Frames /\ Owns(pte, stab, d, f)
                        /\ \A f \in Frames : Owns(pte, stab, d, f) => f \in freevm(d)
    BY FreevmOwned, Zenon DEF Owns, freevm, LowFrames, TabFrames
  <2>3. ASSUME NEW d \in dirs
        PROVE  /\ freevm(d) \cap free = {}
               /\ \A e \in dirs \ {d} : freevm(d) \cap freevm(e) = {}
               /\ d \notin LowFrames(d) \cup TabFrames(d)
               /\ LowFrames(d) \cap TabFrames(d) = {}
               /\ \A g, h \in LowPages : pte[d][g] = pte[d][h] /\ pte[d][g] # NONE => g = h
    <3>1. freevm(d) \cap free = {}
      BY <2>1, <2>2, Zenon DEF Exclusive
    <3>2. \A e \in dirs \ {d} : freevm(d) \cap freevm(e) = {}
      BY <2>1, <2>2, Zenon DEF Exclusive
    <3>3. d \notin LowFrames(d) \cup TabFrames(d)
      BY <2>1, Zenon DEF Exclusive, LowFrames, TabFrames
    <3>4. LowFrames(d) \cap TabFrames(d) = {}
      BY <2>1, SMTT(30) DEF Exclusive, LowFrames, TabFrames
    <3> QED BY <2>1, <3>1, <3>2, <3>3, <3>4, Zenon DEF Exclusive
  <2>4. ASSUME NEW p \in Procs, Live(p)
        PROVE  /\ kstack[p] # NONE /\ kstack[p] \notin free
               /\ \A d \in dirs : kstack[p] \notin freevm(d)
               /\ \A q \in Procs \ {p} : Live(q) => kstack[p] # kstack[q]
    <3>1. p \in LiveProcs
      BY <2>4, Zenon DEF LiveProcs
    <3> QED BY <2>1, <2>2, <3>1 DEF Exclusive, LiveProcs
  <2> QED BY <2>3, <2>4, Zenon DEF FramesExclusive
<1> QED BY <1>1, Inductive, PTL

(* Only fork, exit and wait touch the family tree: fork hangs the child    *)
(* under the running caller, exit hands its children to init before it     *)
(* becomes a zombie, and wait takes away a zombie, which has no children.  *)
LEMMA FamilyKept ==
  ASSUME IInv, Family, NEW p \in Procs, Step(p)
  PROVE  Family'
<1>0. /\ state \in [Procs -> {"UNUSED", "RUN", "ZOMBIE"}] /\ parent \in [Procs -> Procs \cup {NONE}]
      /\ initproc \in Procs /\ NONE \notin Procs
  BY Numbers DEF IInv, TypeOK, initproc, NONE, Procs
<1>1. CASE fork(p)
  <2>1. PICK np \in Procs : FreeSlot(np) /\ state' = [state EXCEPT ![np] = "RUN"]
                            /\ parent' = [parent EXCEPT ![np] = p]
    BY <1>1, Zenon DEF fork
  <2>2. state[p] = "RUN" /\ state[np] = "UNUSED"
    BY <1>1, <2>1, Zenon DEF fork, CanCall, CanExit, FreeSlot
  <2> QED BY <1>0, <2>1, <2>2, Zenon DEF Family, ParentRuns, Live
<1>2. CASE exit(p)
  <2>1. /\ state[p] = "RUN" /\ p # initproc /\ state' = [state EXCEPT ![p] = "ZOMBIE"]
        /\ parent' = [q \in Procs |-> IF parent[q] = p THEN initproc ELSE parent[q]]
    BY <1>2, Zenon DEF exit, CanExit, Reparent
  <2> QED BY <1>0, <2>1, Zenon DEF Family, ParentRuns, Live
<1>3. CASE wait(p)
  <2>1. PICK c \in Procs : Zombie(p, c) /\ state' = [state EXCEPT ![c] = "UNUSED"]
                           /\ parent' = [parent EXCEPT ![c] = NONE]
    BY <1>3, Zenon DEF wait
  <2> QED BY <1>0, <2>1, Zenon DEF Family, ParentRuns, Live, Zombie
<1>4. CASE UNCHANGED <<state, parent>>
  BY <1>4, Zenon DEF Family, ParentRuns, Live
<1>5. fork(p) \/ exit(p) \/ wait(p) \/ UNCHANGED <<state, parent>>
  BY Zenon
  DEF Step, share_data, grow, shrink, execLoad, access_shared_memory, attachEnd, attachMissing,
         attachPage, attachNoMem, attachEntry, execCommit, execBad, procVars
<1> QED BY <1>1, <1>2, <1>3, <1>4, <1>5, Zenon

----------------------------------------------------------------------------
(* A step is seen only by process p; the images of the others stay.        *)
Untouched(p) ==
  /\ \A q \in Procs \ {p} : Live(q)' =>
       /\ Live(q) /\ pgdir'[q] = pgdir[q] /\ sz'[q] = sz[q]
       /\ \A g \in LowPages : pte'[pgdir[q]][g] = pte[pgdir[q]][g]
  /\ \A q \in Procs \ {p} : InExec(q)' =>
       /\ InExec(q) /\ ex'[q] = ex[q]
       /\ \A g \in LowPages : pte'[ex[q].dir][g] = pte[ex[q].dir][g]

(* The image of p is whole after the step.                                 *)
Whole(p) ==
  /\ Live(p)' =>
       \A g \in LowPages :
         /\ g < NPages(sz'[p]) /\ pte'[pgdir'[p]][0] # NONE => pte'[pgdir'[p]][g] # NONE
         /\ g >= NPages(sz'[p]) => pte'[pgdir'[p]][g] = NONE
  /\ InExec(p)' => \A g \in LowPages : g < ex'[p].n <=> pte'[ex'[p].dir][g] # NONE

(* Together they keep ImageMapped.                                         *)
LEMMA MappedKept ==
  ASSUME ImageMapped, NEW p \in Procs, Untouched(p), Whole(p)
  PROVE  ImageMapped'
<1>0. 0 \in LowPages
  BY Numbers DEF LowPages
<1>1. ASSUME NEW q \in Procs, Live(q)', NEW g \in LowPages
      PROVE  /\ g < NPages(sz'[q]) /\ pte'[pgdir'[q]][0] # NONE => pte'[pgdir'[q]][g] # NONE
             /\ g >= NPages(sz'[q]) => pte'[pgdir'[q]][g] = NONE
  <2>1. CASE q = p
    BY <1>1, <2>1, Zenon DEF Whole
  <2>2. CASE q # p
    <3>1. /\ Live(q) /\ pgdir'[q] = pgdir[q] /\ sz'[q] = sz[q]
          /\ pte'[pgdir[q]][0] = pte[pgdir[q]][0] /\ pte'[pgdir[q]][g] = pte[pgdir[q]][g]
      BY <1>0, <1>1, <2>2, Zenon DEF Untouched
    <3> QED BY <1>1, <3>1, Zenon DEF ImageMapped
  <2> QED BY <2>1, <2>2, Zenon
<1>2. ASSUME NEW q \in Procs, InExec(q)', NEW g \in LowPages
      PROVE  g < ex'[q].n <=> pte'[ex'[q].dir][g] # NONE
  <2>1. CASE q = p
    BY <1>2, <2>1, Zenon DEF Whole
  <2>2. CASE q # p
    <3>1. InExec(q) /\ ex'[q] = ex[q] /\ pte'[ex[q].dir][g] = pte[ex[q].dir][g]
      BY <1>2, <2>2, Zenon DEF Untouched
    <3> QED BY <1>2, <3>1, Zenon DEF ImageMapped
  <2> QED BY <2>1, <2>2, Zenon
<1> QED BY <1>1, <1>2, Zenon DEF ImageMapped

(* Steps that leave the low pages, sz and pgdir alone and keep the image   *)
(* of an exec: share_data, access_shared_memory and exit.                  *)
LEMMA LowKept ==
  ASSUME IInv, ImageMapped, NEW p \in Procs,
         UNCHANGED <<pgdir, sz>>,
         \A q \in Procs : Live(q)' <=> Live(q),
         \A d \in dirs, g \in LowPages : pte'[d][g] = pte[d][g],
         \A q \in Procs : InExec(q)' => InExec(q) /\ ex'[q].dir = ex[q].dir /\ ex'[q].n = ex[q].n
  PROVE  ImageMapped'
<1>0. 0 \in LowPages
  BY Numbers DEF LowPages
<1>1. \A q \in Procs : Live(q) => pgdir[q] \in dirs
  BY Zenon DEF IInv, DirOwner
<1>2. \A q \in Procs : InExec(q) => ex[q].dir \in dirs
  BY Zenon DEF IInv, DirOwner
<1> QED BY <1>0, <1>1, <1>2 DEF ImageMapped

(* share_data, access_shared_memory and exit move entries, pages of the    *)
(* window and states: no process starts or is reaped, none enters or       *)
(* leaves exec, and the pages below the window stay.                       *)
LEMMA LowMoves ==
  ASSUME IInv, NEW p \in Procs,
         (\E x \in Structs : share_data(p, x)) \/ access_shared_memory(p) \/ exit(p)
  PROVE  /\ UNCHANGED <<pgdir, sz>> /\ \A q \in Procs : Live(q)' <=> Live(q)
         /\ \A d \in dirs, g \in LowPages : pte'[d][g] = pte[d][g]
         /\ \A q \in Procs : (InExec(q)' <=> InExec(q))
              /\ (InExec(q) => ex'[q].dir = ex[q].dir /\ ex'[q].n = ex[q].n)
<1>0. state \in [Procs -> {"UNUSED", "RUN", "ZOMBIE"}] /\ ex \in [Procs -> ExType]
  BY Zenon DEF IInv, TypeOK
<1>1. CASE (\E x \in Structs : share_data(p, x)) \/ exit(p)
  <2>1. UNCHANGED <<pgdir, sz, pte, ex>> /\ \A q \in Procs : Live(q)' <=> Live(q)
    BY <1>0, <1>1, Zenon DEF share_data, exit, memVars, Live, CanExit
  <2> QED BY <2>1, Zenon DEF InExec
<1>3. CASE attachEnd(p) \/ attachMissing(p) \/ attachEntry(p)
  <2>1. UNCHANGED <<pgdir, sz, pte, state>>
    BY <1>3, Zenon DEF attachEnd, attachMissing, attachEntry, procVars, memVars
  <2>2. ex[p].pc = "attach"
    BY <1>3, Zenon DEF attachEnd, attachMissing, attachEntry, Attaching
  <2>3. \E i, j, vp, pc : pc # "user" /\ ex' = [ex EXCEPT ![p] = Ex(pc, ex[p].dir, ex[p].n, i, j, vp)]
    <3>1. CASE attachEnd(p) \/ attachMissing(p)
      <4>1. ex' = [ex EXCEPT ![p] = Ex("stack", ex[p].dir, ex[p].n, ex[p].i, ex[p].j, ex[p].vp)]
        BY <3>1, Zenon DEF attachEnd, attachMissing, LeaveAttach
      <4> QED BY <4>1, Zenon
    <3>2. CASE attachEntry(p)
      <4>1. ex' = [ex EXCEPT ![p] = Ex("attach", ex[p].dir, ex[p].n, ex[p].i + 1, 0,
                                       ex[p].vp + NPages(Entry(p).size))]
        BY <3>2, Zenon DEF attachEntry, NextVa
      <4> QED BY <4>1, Zenon
    <3> QED BY <1>3, <3>1, <3>2, Zenon
  <2>4. \A q \in Procs : (InExec(q)' <=> InExec(q))
          /\ (InExec(q) => ex'[q].dir = ex[q].dir /\ ex'[q].n = ex[q].n)
    <3>1. PICK i, j, vp, pc : pc # "user" /\ ex' = [ex EXCEPT ![p] = Ex(pc, ex[p].dir, ex[p].n, i, j, vp)]
      BY <2>3, Zenon
    <3>2. /\ ex'[p].pc = pc /\ ex'[p].dir = ex[p].dir /\ ex'[p].n = ex[p].n
          /\ \A q \in Procs \ {p} : ex'[q] = ex[q]
      BY <1>0, <3>1, Zenon DEF Ex
    <3> QED BY <2>2, <3>1, <3>2, Zenon DEF InExec
  <2> QED BY <2>1, <2>4, Zenon DEF Live
<1>4. CASE attachPage(p) \/ attachNoMem(p)
  <2>1. UNCHANGED <<pgdir, sz, state>> /\ Attaching(p) /\ InEntry(p) /\ PageLeft(p)
    BY <1>4, Zenon DEF attachPage, attachNoMem, procVars
  <2>2. ex[p].pc = "attach"
    BY <2>1, Zenon DEF Attaching
  <2>3. \E i, j, vp, pc : pc # "user" /\ ex' = [ex EXCEPT ![p] = Ex(pc, ex[p].dir, ex[p].n, i, j, vp)]
    <3>1. CASE attachPage(p)
      <4>1. ex' = [ex EXCEPT ![p] = Ex("attach", ex[p].dir, ex[p].n, ex[p].i, ex[p].j + 1, ex[p].vp)]
        BY <3>1, Zenon DEF attachPage
      <4> QED BY <4>1, Zenon
    <3>2. CASE attachNoMem(p)
      <4>1. ex' = [ex EXCEPT ![p] = Ex("stack", ex[p].dir, ex[p].n, ex[p].i, ex[p].j, ex[p].vp)]
        BY <3>2, Zenon DEF attachNoMem, LeaveAttach
      <4> QED BY <4>1, Zenon
    <3> QED BY <1>4, <3>1, <3>2, Zenon
  <2>4. \A q \in Procs : (InExec(q)' <=> InExec(q))
          /\ (InExec(q) => ex'[q].dir = ex[q].dir /\ ex'[q].n = ex[q].n)
    <3>1. PICK i, j, vp, pc : pc # "user" /\ ex' = [ex EXCEPT ![p] = Ex(pc, ex[p].dir, ex[p].n, i, j, vp)]
      BY <2>3, Zenon
    <3>2. /\ ex'[p].pc = pc /\ ex'[p].dir = ex[p].dir /\ ex'[p].n = ex[p].n
          /\ \A q \in Procs \ {p} : ex'[q] = ex[q]
      BY <1>0, <3>1, Zenon DEF Ex
    <3> QED BY <2>2, <3>1, <3>2, Zenon DEF InExec
  <2>5. /\ ex[p].vp \in Nat /\ ex[p].vp >= SHAREDPG /\ TargetPage(p) >= SHAREDPG
        /\ pte \in [Frames -> [Pages -> Frames \cup {NONE}]] /\ dirs \subseteq Frames
        /\ LowPages \subseteq Pages /\ TargetPage(p) \in Pages
    <3>1. /\ ex[p].vp \in Nat /\ TargetPage(p) >= SHAREDPG /\ TargetPage(p) \in Pages
      BY <2>1, AtTarget, Zenon
    <3>2. ex[p].vp >= SHAREDPG
      BY <2>2, Zenon DEF IInv, AttachSound
    <3>3. pte \in [Frames -> [Pages -> Frames \cup {NONE}]] /\ dirs \subseteq Frames
      BY Zenon DEF IInv, TypeOK
    <3> QED BY <3>1, <3>2, <3>3, PageRanges, Zenon
  <2>6. \A d \in dirs, g \in LowPages : pte'[d][g] = pte[d][g]
    <3>1. CASE attachPage(p)
      <4>1. PICK f : pte' = [pte EXCEPT ![ex[p].dir][TargetPage(p)] = f]
        BY <3>1, Zenon DEF attachPage
      <4>2. \A g \in LowPages : g # TargetPage(p)
        BY <2>5, Numbers DEF LowPages, Pages
      <4> QED BY <2>5, <4>1, <4>2, Zenon
    <3>2. CASE attachNoMem(p)
      <4> DEFINE gone == ex[p].vp .. (ex[p].vp + NPages(Entry(p).size) - 1)
      <4>1. pte' = [pte EXCEPT ![ex[p].dir] = [g \in Pages |-> IF g \in gone THEN NONE ELSE pte[ex[p].dir][g]]]
        BY <3>2, Zenon DEF attachNoMem
      <4>2. \A g \in LowPages : g \notin gone
        BY <2>5, Numbers DEF LowPages
      <4> HIDE DEF gone
      <4> QED BY <2>5, <4>1, <4>2, Zenon
    <3> QED BY <1>4, <3>1, <3>2, Zenon
  <2> QED BY <2>1, <2>4, <2>6, Zenon DEF Live
<1> QED BY <1>1, <1>3, <1>4, Zenon DEF access_shared_memory

(* So they keep the images.                                                *)
LEMMA LowSteps ==
  ASSUME IInv, ImageMapped, NEW p \in Procs,
         (\E x \in Structs : share_data(p, x)) \/ access_shared_memory(p) \/ exit(p)
  PROVE  ImageMapped'
BY LowMoves, LowKept, Zenon

(* fork copies every page below sz into the new image.                     *)
LEMMA ForkMapped ==
  ASSUME IInv, ImageMapped, NEW p \in Procs, fork(p)
  PROVE  ImageMapped'
<1> DEFINE n == NPages(sz[p])
           d == kalloc(2)
           m == [g \in Pages |-> IF g < n THEN kalloc(g + 3) ELSE NONE]
<1>1. PICK np \in Procs :
           /\ FreeSlot(np) /\ state' = [state EXCEPT ![np] = "RUN"]
           /\ pgdir' = [pgdir EXCEPT ![np] = d] /\ sz' = [sz EXCEPT ![np] = sz[p]]
  BY Zenon DEF fork
<1>2. Avail(n + 2) /\ pte' = [pte EXCEPT ![d] = m] /\ UNCHANGED ex
  BY Zenon DEF fork, CanFork, CopyPages
<1>3. n \in Nat
  <2>1. sz[p] \in 0..(SHAREDBASE - 1)
    BY Zenon DEF IInv, TypeOK
  <2> QED BY <2>1, PageCount, Units
<1>4. \A i \in 1..(n + 2) : kalloc(i) \in free
  BY <1>2, <1>3, KallocFresh
<1>5. d \in free /\ d \in Frames /\ d \notin dirs /\ free \subseteq Frames /\ NONE \notin Frames
  BY <1>3, <1>4, FreeNoDir DEF IInv, TypeOK
<1>6. \A g \in LowPages : g < n <=> m[g] # NONE
  <2> SUFFICES ASSUME NEW g \in LowPages PROVE g < n <=> m[g] # NONE
    BY Zenon
  <2>1. g \in Pages /\ (g < n => g + 3 \in 1..(n + 2))
    BY <1>3, Numbers DEF LowPages, Pages
  <2> QED BY <1>4, <1>5, <2>1, Zenon
<1>11. \A g \in LowPages : g >= n => ~(g < n)
  BY <1>3, Numbers DEF LowPages
<1> HIDE DEF m, d, n
<1>7. /\ pgdir'[np] = d /\ sz'[np] = sz[p] /\ pte'[d] = m
      /\ \A q \in Procs \ {np} : pgdir'[q] = pgdir[q] /\ sz'[q] = sz[q] /\ (Live(q)' <=> Live(q))
      /\ \A e \in dirs : pte'[e] = pte[e]
  BY <1>1, <1>2, <1>5, Zenon DEF IInv, TypeOK, Live
<1>8. ~InExec(np) /\ \A q \in Procs : InExec(q)' <=> InExec(q)
  BY <1>1, <1>2, Zenon DEF IInv, DirOwner, InExec, FreeSlot
<1>9. Untouched(np)
  BY <1>2, <1>7, <1>8, Zenon DEF Untouched, IInv, DirOwner
<1>10. Whole(np)
  BY <1>6, <1>7, <1>8, <1>11, Zenon DEF Whole, n
<1> QED BY <1>9, <1>10, MappedKept, Zenon

(* An image of n + 2 whole pages has n + 2 pages.                          *)
LEMMA ImagePages ==
  ASSUME NEW n \in Nat
  PROVE  NPages(n * PGSIZE) = n
<1>1. PGSIZE \in Nat /\ PGSIZE > 0
  BY Numbers
<1>2. n * PGSIZE + PGSIZE - 1 = n * PGSIZE + (PGSIZE - 1) /\ n * PGSIZE \in Nat
  BY <1>1
<1>3. ASSUME NEW c \in Nat, NEW r \in Nat, r < PGSIZE
      PROVE  (c * PGSIZE + r) \div PGSIZE = c
  BY <1>1, <1>3
<1> QED BY <1>1, <1>2, <1>3 DEF NPages

(* A page that starts at or beyond sz is beyond the pages of sz.           *)
LEMMA PagesBelow ==
  ASSUME NEW a \in Nat, NEW g \in LowPages, ~(g * PGSIZE < a)
  PROVE  g >= NPages(a)
<1>1. g \in Nat /\ PGSIZE \in Nat /\ PGSIZE > 0
  BY Numbers DEF LowPages
<1>2. NPages(a) <= NPages(g * PGSIZE)
  BY <1>1, PagesGrow
<1>3. NPages(g * PGSIZE) = g
  BY <1>1, ImagePages, Zenon
<1>4. NPages(a) \in Int
  BY PageCount
<1> QED BY <1>1, <1>2, <1>3, <1>4, Zenon

(* sbrk keeps p's image whole: growing maps every new page, shrinking      *)
(* takes pages from the new size up, and shrinking to nothing takes the    *)
(* first page too.                                                         *)
LEMMA SbrkMapped ==
  ASSUME IInv, ImageMapped, NEW p \in Procs, NEW k \in Deltas, grow(p, k) \/ shrink(p, k)
  PROVE  ImageMapped'
<1> DEFINE d == pgdir[p]
<1>1. /\ ex[p].pc = "user" /\ state[p] = "RUN" /\ UNCHANGED <<state, pgdir, ex>> /\ pte[d][0] # NONE
  BY Zenon DEF grow, shrink, CanCall, CanExit
<1>2. d \in dirs /\ d \in Frames /\ sz[p] \in 0..(SHAREDBASE - 1) /\ NONE \notin Frames /\ free \subseteq Frames
      /\ LowPages \subseteq Pages /\ sz \in [Procs -> 0..(SHAREDBASE - 1)] /\ 0 \in LowPages /\ Live(p)
      /\ pte \in [Frames -> [Pages -> Frames \cup {NONE}]] /\ dirs \subseteq Frames
  <2>1. LowPages \subseteq Pages /\ 0 \in LowPages
    BY Numbers DEF LowPages, Pages
  <2>2. /\ sz \in [Procs -> 0..(SHAREDBASE - 1)] /\ free \subseteq Frames /\ dirs \subseteq Frames
        /\ pte \in [Frames -> [Pages -> Frames \cup {NONE}]]
    BY Zenon DEF IInv, TypeOK
  <2>3. Live(p) /\ d \in dirs
    BY <1>1, Zenon DEF IInv, TypeOK, DirOwner, Live
  <2>4. sz[p] \in 0..(SHAREDBASE - 1)
    BY <2>2
  <2> QED BY <2>1, <2>2, <2>3, <2>4, FreeNoDir, Zenon
<1>3. /\ \A g \in LowPages : g < NPages(sz[p]) => pte[d][g] # NONE
      /\ \A g \in LowPages : g >= NPages(sz[p]) => pte[d][g] = NONE
  BY <1>1, <1>2, Zenon DEF ImageMapped
<1>4. (\E m : pte' = [pte EXCEPT ![d] = m]) /\ (\E z : sz' = [sz EXCEPT ![p] = z])
  BY Zenon DEF grow, shrink
<1>5. Untouched(p)
  <2>1. \A e \in dirs \ {d} : pte'[e] = pte[e]
    BY <1>2, <1>4, Zenon
  <2>2. \A q \in Procs \ {p} : sz'[q] = sz[q]
    BY <1>2, <1>4, Zenon
  <2>3. \A q \in Procs \ {p} : Live(q) => pgdir[q] \in dirs \ {d}
    BY <1>2, Zenon DEF IInv, DirOwner
  <2>4. \A q \in Procs \ {p} : InExec(q) => ex[q].dir \in dirs \ {d}
    BY <1>2, Zenon DEF IInv, DirOwner
  <2> QED BY <1>1, <2>1, <2>2, <2>3, <2>4, Zenon DEF Untouched, Live, InExec
<1>6. \A g \in LowPages : /\ g < NPages(sz'[p]) /\ pte'[d][0] # NONE => pte'[d][g] # NONE
                          /\ g >= NPages(sz'[p]) => pte'[d][g] = NONE
  <2>1. CASE grow(p, k)
    <3> DEFINE old == NPages(sz[p])
               new == NPages(sz[p] + k)
               m == [g \in Pages |-> IF g \in old..(new - 1) THEN kalloc(g - old + 1) ELSE pte[d][g]]
    <3>1. k > 0 /\ Avail(new - old) /\ sz'[p] = sz[p] + k /\ pte'[d] = m
      BY <1>2, <2>1, Zenon DEF grow
    <3>2. old \in Nat /\ new \in Nat /\ new - old \in Nat
      <4>1. sz[p] \in Nat /\ sz[p] + k \in Nat /\ sz[p] <= sz[p] + k
        <5>1. k \in Int
          BY Choices, Zenon
        <5> QED BY <1>2, <3>1, <5>1, Units
      <4>2. old <= new /\ old \in Nat /\ new \in Nat
        BY <4>1, PageCount, PagesGrow
      <4> QED BY <4>2
    <3>3. \A i \in 1..(new - old) : kalloc(i) # NONE
      BY <1>2, <3>1, <3>2, KallocFresh, Zenon
    <3> HIDE DEF old, new
    <3>4. ASSUME NEW g \in LowPages
          PROVE  (g < new => m[g] # NONE) /\ (g >= new => m[g] = NONE)
      <4>1. g \in Nat /\ g \in Pages
        BY <1>2, Numbers DEF LowPages
      <4>2. CASE g < old
        <5>1. g \notin old..(new - 1) /\ ~(g >= new)
          BY <3>2, <4>1, <4>2
        <5>2. pte[d][g] # NONE
          BY <1>3, <4>2, Zenon DEF old
        <5> QED BY <4>1, <5>1, <5>2, Zenon
      <4>3. CASE g >= old /\ g < new
        <5>1. g - old + 1 \in 1..(new - old) /\ g \in old..(new - 1) /\ ~(g >= new)
          BY <3>2, <4>1, <4>3
        <5> QED BY <3>3, <4>1, <5>1, Zenon
      <4>4. CASE g >= new
        <5>1. g \notin old..(new - 1) /\ ~(g < new) /\ g >= old
          BY <3>2, <4>1, <4>4
        <5>2. pte[d][g] = NONE
          BY <1>3, <5>1, Zenon DEF old
        <5> QED BY <4>1, <5>1, <5>2, Zenon
      <4> QED BY <3>2, <4>1, <4>2, <4>3, <4>4
    <3> HIDE DEF m
    <3> QED BY <3>1, <3>4, Zenon DEF new
  <2>2. CASE shrink(p, k)
    <3> DEFINE newsz == (sz[p] + k) % UINT
               gone == {g \in LowPages : g >= NPages(newsz) /\ g * PGSIZE < sz[p]}
               m == [g \in Pages |-> IF g \in gone THEN NONE ELSE pte[d][g]]
    <3>1. newsz < sz[p] /\ sz'[p] = (IF newsz = 0 THEN sz[p] ELSE newsz) /\ pte'[d] = m
      BY <1>2, <2>2, Zenon DEF shrink
    <3>2. newsz \in Nat
      <4>1. k \in Int
        BY Choices, Zenon
      <4> QED BY <1>2, <4>1, Units
    <3> HIDE DEF newsz
    <3>3. CASE newsz = 0
      <4>1. NPages(0) = 0
        BY Numbers DEF NPages
      <4>2. 0 * PGSIZE = 0
        BY Numbers
      <4>3. 0 \in gone
        BY <1>2, <3>1, <3>3, <4>1, <4>2
      <4>4. pte'[d][0] = NONE
        BY <1>2, <3>1, <4>3, Zenon
      <4>5. \A g \in LowPages : m[g] = NONE \/ m[g] = pte[d][g]
        BY <1>2, Zenon
      <4> HIDE DEF m
      <4> QED BY <1>3, <3>1, <3>3, <4>4, <4>5, Zenon
    <3>4. CASE newsz # 0
      <4>1. NPages(newsz) <= NPages(sz[p]) /\ NPages(newsz) \in Nat /\ NPages(sz[p]) \in Nat
        <5>1. sz[p] \in Nat /\ newsz <= sz[p]
          BY <1>2, <3>1, <3>2, Units
        <5> QED BY <3>2, <5>1, PagesGrow, PageCount
      <4>2. ASSUME NEW g \in LowPages, g < NPages(newsz) PROVE m[g] # NONE
        <5>1. g \in Nat
          BY Numbers DEF LowPages
        <5>2. g \notin gone /\ g < NPages(sz[p])
          BY <4>1, <4>2, <5>1
        <5>3. m[g] = pte[d][g]
          BY <1>2, <5>2, Zenon
        <5> QED BY <1>3, <5>2, <5>3, Zenon
      <4>3. ASSUME NEW g \in LowPages, g >= NPages(newsz) PROVE m[g] = NONE
        <5>1. CASE g \in gone
          BY <1>2, <5>1, Zenon
        <5>2. CASE g \notin gone
          <6>1. ~(g * PGSIZE < sz[p])
            BY <4>3, <5>2, Zenon
          <6>2. g >= NPages(sz[p])
            BY <1>2, <6>1, PagesBelow, Units
          <6>3. m[g] = pte[d][g]
            BY <1>2, <5>2, Zenon
          <6> QED BY <1>3, <6>2, <6>3, Zenon
        <5> QED BY <5>1, <5>2, Zenon
      <4> HIDE DEF m
      <4> QED BY <3>1, <3>4, <4>2, <4>3, Zenon
    <3> QED BY <3>3, <3>4, Zenon
  <2> QED BY <2>1, <2>2, Zenon
<1>7. Whole(p)
  <2>1. ~InExec(p)' /\ pgdir'[p] = d
    BY <1>1, Zenon DEF InExec
  <2> HIDE DEF d
  <2> QED BY <1>6, <2>1, Zenon DEF Whole
<1> QED BY <1>5, <1>7, MappedKept, Zenon

(* exec maps every page of the program it loads.                           *)
LEMMA LoadMapped ==
  ASSUME IInv, ImageMapped, NEW p \in Procs, NEW n \in Images, NEW attach \in BOOLEAN,
         execLoad(p, n, attach)
  PROVE  ImageMapped'
<1> DEFINE d == kalloc(1)
           m == [g \in Pages |-> IF g < n THEN kalloc(g + 2) ELSE NONE]
           pc == IF attach THEN "attach" ELSE "stack"
           e == Ex(pc, d, n, 0, 0, SHAREDPG)
<1>1. /\ ex[p].pc = "user" /\ state[p] = "RUN" /\ Avail(n + 1)
      /\ ex' = [ex EXCEPT ![p] = e] /\ pte' = [pte EXCEPT ![d] = m] /\ UNCHANGED <<state, pgdir,
                                                                                   sz>>
  BY Zenon DEF execLoad, CanCall, CanExit, CanLoad, procVars
<1>2. n \in Nat
  BY Choices, Zenon
<1>3. \A i \in 1..(n + 1) : kalloc(i) \in free
  BY <1>1, <1>2, KallocFresh
<1>4. d \in Frames /\ d \notin dirs /\ free \subseteq Frames /\ NONE \notin Frames
  BY <1>2, <1>3, FreeNoDir DEF IInv, TypeOK
<1>5. \A g \in LowPages : g < n <=> m[g] # NONE
  <2> SUFFICES ASSUME NEW g \in LowPages PROVE g < n <=> m[g] # NONE
    BY Zenon
  <2>1. g \in Pages /\ (g < n => g + 2 \in 1..(n + 1))
    BY <1>2, Numbers DEF LowPages, Pages
  <2> QED BY <1>3, <1>4, <2>1, Zenon
<1>6. e.dir = d /\ e.n = n
  BY Zenon DEF Ex
<1> HIDE DEF d, m, e, pc
<1>7. /\ pte'[d] = m /\ (\A c \in dirs : pte'[c] = pte[c])
      /\ ex'[p] = e /\ (\A q \in Procs \ {p} : ex'[q] = ex[q])
  BY <1>1, <1>4, Zenon DEF IInv, TypeOK
<1>8. \A q \in Procs : Live(q)' <=> Live(q)
  BY <1>1, Zenon DEF Live
<1>9. Untouched(p)
  <2>1. \A q \in Procs \ {p} : Live(q)' => Live(q) /\ pgdir[q] \in dirs
    BY <1>8, Zenon DEF IInv, DirOwner
  <2>2. \A q \in Procs \ {p} : InExec(q)' => InExec(q) /\ ex[q].dir \in dirs
    BY <1>1, <1>7, Zenon DEF IInv, DirOwner, InExec
  <2> QED BY <1>1, <1>7, <2>1, <2>2, Zenon DEF Untouched
<1>10. Whole(p)
  <2>1. Live(p)' =>
          \A g \in LowPages :
            /\ g < NPages(sz'[p]) /\ pte'[pgdir'[p]][0] # NONE => pte'[pgdir'[p]][g] # NONE
            /\ g >= NPages(sz'[p]) => pte'[pgdir'[p]][g] = NONE
    BY <1>1, <1>7, <1>8 DEF IInv, DirOwner, ImageMapped
  <2> QED BY <1>5, <1>6, <1>7, <2>1, Zenon DEF Whole
<1> QED BY <1>9, <1>10, MappedKept, Zenon

(* The new image exec switches to has its program, guard and stack pages.  *)
LEMMA CommitMapped ==
  ASSUME IInv, ImageMapped, NEW p \in Procs, execCommit(p)
  PROVE  ImageMapped'
<1> DEFINE d == ex[p].dir
           n == ex[p].n
           o == pgdir[p]
           m == [pte[d] EXCEPT ![n] = kalloc(1), ![n + 1] = kalloc(2)]
<1>1. /\ state[p] = "RUN" /\ ex[p].pc = "stack" /\ n + 2 < SHAREDPG /\ Avail(2)
      /\ pgdir' = [pgdir EXCEPT ![p] = d] /\ sz' = [sz EXCEPT ![p] = (n + 2) * PGSIZE]
      /\ ex' = [ex EXCEPT ![p] = InUser] /\ UNCHANGED state
  BY Zenon DEF execCommit
<1>2. d \in dirs /\ d \in Frames /\ o \in dirs /\ o \in Frames /\ d # o /\ NONE \notin Frames
      /\ free \subseteq Frames /\ Live(p) /\ InExec(p)
  BY <1>1, FreeNoDir, Zenon DEF IInv, TypeOK, DirOwner, InExec, Live
<1>3. n \in Nat /\ n \in LowPages /\ n + 1 \in LowPages /\ LowPages \subseteq Pages
  <2>1. n \in 0..SHAREDPG
    BY ExFields, Zenon DEF IInv, TypeOK
  <2> QED BY <1>1, <2>1, Numbers DEF LowPages, Pages
<1>4. pte[d] \in [Pages -> Frames \cup {NONE}] /\ pte \in [Frames -> [Pages -> Frames \cup {NONE}]]
      /\ dirs \subseteq Frames
  BY <1>2, Zenon DEF IInv, TypeOK
<1>5. pte'[d] = m /\ \A e \in Frames \ {d, o} : pte'[e] = pte[e]
  BY <1>2, <1>3, <1>4, Zenon DEF execCommit
<1>6. kalloc(1) # NONE /\ kalloc(2) # NONE
  BY <1>1, <1>2, KallocFresh
<1>7. \A g \in LowPages : m[g] = pte[d][g] \/ (m[g] # NONE /\ g \in {n, n + 1})
  BY <1>3, <1>4, <1>6, Zenon
<1>8. m[n] # NONE /\ m[n + 1] # NONE
  BY <1>3, <1>4, <1>6, Zenon
<1>9. \A g \in LowPages : g < n <=> pte[d][g] # NONE
  BY <1>2, Zenon DEF ImageMapped
<1> HIDE DEF d, n, o, m
<1>10. \A g \in LowPages : (g < n + 2 => m[g] # NONE) /\ (g >= n + 2 => m[g] = NONE)
  <2> SUFFICES ASSUME NEW g \in LowPages
               PROVE  (g < n + 2 => m[g] # NONE) /\ (g >= n + 2 => m[g] = NONE)
    BY Zenon
  <2>1. /\ g < n + 2 => g < n \/ g = n \/ g = n + 1
        /\ g >= n + 2 => ~(g < n) /\ g \notin {n, n + 1}
    BY <1>3, Numbers DEF LowPages
  <2> QED BY <1>7, <1>8, <1>9, <2>1, Zenon
<1>11. sz'[p] = (n + 2) * PGSIZE /\ pgdir'[p] = d /\ ex'[p] = InUser
       /\ \A q \in Procs \ {p} : ex'[q] = ex[q] /\ sz'[q] = sz[q] /\ pgdir'[q] = pgdir[q]
  BY <1>1, Zenon DEF IInv, TypeOK
<1>12. NPages(sz'[p]) = n + 2
  BY <1>3, <1>11, ImagePages
<1>13. Untouched(p)
  <2>1. \A q \in Procs \ {p} : Live(q) => pgdir[q] \in Frames \ {d, o}
    BY <1>2, <1>4, Zenon DEF IInv, DirOwner, d, o
  <2>2. \A q \in Procs \ {p} : InExec(q) => ex[q].dir \in Frames \ {d, o}
    BY <1>2, <1>4, Zenon DEF IInv, DirOwner, d, o
  <2>3. \A q \in Procs \ {p} : (Live(q)' <=> Live(q)) /\ (InExec(q)' <=> InExec(q))
    BY <1>1, <1>11, Zenon DEF Live, InExec
  <2> QED BY <1>5, <1>11, <2>1, <2>2, <2>3, Zenon DEF Untouched
<1>14. Whole(p)
  BY <1>5, <1>10, <1>11, <1>12, InUserType, Zenon DEF Whole, InExec
<1> QED BY <1>13, <1>14, MappedKept, Zenon

(* Freeing a directory no other process has leaves their images.           *)
LEMMA FreeMapped ==
  ASSUME IInv, ImageMapped, NEW p \in Procs, execBad(p) \/ wait(p)
  PROVE  ImageMapped'
<1>0. pte \in [Frames -> [Pages -> Frames \cup {NONE}]] /\ dirs \subseteq Frames
      /\ state \in [Procs -> {"UNUSED", "RUN", "ZOMBIE"}] /\ ex \in [Procs -> ExType]
  BY Zenon DEF IInv, TypeOK
<1>1. CASE execBad(p)
  <2>1. /\ ex[p].pc = "stack" /\ ex' = [ex EXCEPT ![p] = InUser] /\ pte' = [pte EXCEPT ![ex[p].dir] = NoPages]
        /\ UNCHANGED <<state, pgdir, sz>>
    BY <1>1, Zenon DEF execBad, procVars
  <2>2. /\ ex'[p].pc = "user" /\ (\A q \in Procs \ {p} : ex'[q] = ex[q])
        /\ \A e \in dirs \ {ex[p].dir} : pte'[e] = pte[e]
    BY <1>0, <2>1, InUserType, Zenon
  <2>3. /\ \A q \in Procs : Live(q) => pgdir[q] \in dirs \ {ex[p].dir}
        /\ \A q \in Procs \ {p} : InExec(q) => ex[q].dir \in dirs \ {ex[p].dir}
    BY <2>1, Zenon DEF IInv, DirOwner, InExec
  <2>4. \A q \in Procs : (Live(q)' <=> Live(q)) /\ (q # p => (InExec(q)' <=> InExec(q)))
    BY <2>1, <2>2, Zenon DEF Live, InExec
  <2>5. Untouched(p)
    BY <2>1, <2>2, <2>3, <2>4, Zenon DEF Untouched
  <2>6. Whole(p)
    BY <2>1, <2>2, <2>3, <2>4 DEF Whole, InExec, ImageMapped
  <2> QED BY <2>5, <2>6, MappedKept, Zenon
<1>2. CASE wait(p)
  <2>1. PICK c \in Procs : /\ Zombie(p, c) /\ state' = [state EXCEPT ![c] = "UNUSED"]
                           /\ pte' = [pte EXCEPT ![pgdir[c]] = NoPages]
    BY <1>2, Zenon DEF wait
  <2>2. UNCHANGED <<pgdir, sz, ex>> /\ Live(c) /\ ~InExec(c)
    BY <1>2, <2>1, Zenon DEF wait, Zombie, Live, IInv, DirOwner
  <2>3. /\ \A q \in Procs \ {c} : Live(q) => pgdir[q] \in dirs \ {pgdir[c]}
        /\ \A q \in Procs \ {c} : InExec(q) => ex[q].dir \in dirs \ {pgdir[c]}
    BY <2>2, Zenon DEF IInv, DirOwner
  <2>4. /\ \A e \in dirs \ {pgdir[c]} : pte'[e] = pte[e]
        /\ ~Live(c)' /\ \A q \in Procs : (q # c => (Live(q)' <=> Live(q))) /\ (InExec(q)' <=> InExec(q))
    BY <1>0, <2>1, <2>2, Zenon DEF Live, InExec
  <2>5. Untouched(c)
    BY <2>2, <2>3, <2>4, Zenon DEF Untouched
  <2>6. Whole(c)
    BY <2>2, <2>4, Zenon DEF Whole
  <2> QED BY <2>5, <2>6, MappedKept, Zenon
<1> QED BY <1>1, <1>2, Zenon

----------------------------------------------------------------------------
(* The initial state satisfies the two invariants.                         *)
LEMMA BootPInv ==
  ASSUME NEW n \in 3..NFRAME, InitWith(n)
  PROVE  PInv
<1>0. IInv
  BY BootInv, Zenon
<1>1. /\ state = [p \in Procs |-> IF p = 1 THEN "RUN" ELSE "UNUSED"] /\ ex = [p \in Procs |-> InUser]
      /\ pgdir = [p \in Procs |-> IF p = 1 THEN 2 ELSE 0] /\ sz = [p \in Procs |-> IF p = 1 THEN PGSIZE ELSE 0]
      /\ pte = [f \in Frames |-> IF f = 2 THEN [NoPages EXCEPT ![0] = 3] ELSE NoPages]
  BY Zenon DEF InitWith, initproc, NONE
<1>2. 1 \in Procs /\ 2 \in Frames /\ 0 \in Pages
  BY Numbers DEF Procs, Frames, Pages
<1>3. Family
  BY <1>1, <1>2, Zenon DEF Family, ParentRuns, Live, initproc
<1>4. NPages(1 * PGSIZE) = 1 /\ 1 * PGSIZE = PGSIZE
  BY ImagePages, Numbers
<1>5. pte[2][0] = 3
  BY <1>1, <1>2, Zenon DEF NoPages
<1>6. \A g \in LowPages : (g < 1 => g = 0) /\ (g >= 1 => pte[2][g] = 0)
  <2>1. \A g \in LowPages : g \in Pages /\ (g < 1 => g = 0) /\ (g >= 1 => g # 0)
    BY Numbers DEF LowPages, Pages
  <2> QED BY <1>1, <1>2, <2>1, Zenon DEF NoPages, NONE
<1>7. \A p \in Procs : Live(p) => p = 1
  BY <1>1, Zenon DEF Live
<1>8. sz[1] = PGSIZE /\ pgdir[1] = 2 /\ \A p \in Procs : ~InExec(p)
  BY <1>1, <1>2, InUserType, Zenon DEF InExec
<1>9. ImageMapped
  BY <1>4, <1>5, <1>6, <1>7, <1>8, Zenon DEF ImageMapped, NONE
<1> QED BY <1>0, <1>3, <1>9, Zenon DEF PInv

(* The same for all of memory.                                             *)
LEMMA InitPInv == Init => PInv
<1>1. NFRAME \in 3..NFRAME
  BY Numbers
<1> QED BY <1>1, BootPInv, Zenon DEF Init

(* Every step keeps them.                                                  *)
LEMMA NextPInv == PInv /\ [Next]_vars => PInv'
<1> SUFFICES ASSUME PInv, [Next]_vars PROVE PInv'
  OBVIOUS
<1>0. IInv /\ ImageMapped /\ Family
  BY Zenon DEF PInv
<1>1. IInv'
  BY <1>0, NextInv, Zenon
<1>2. CASE UNCHANGED vars
  <2>1. UNCHANGED <<state, parent, pgdir, sz, ex, pte>>
    BY <1>2, Zenon DEF vars
  <2>2. ImageMapped'
    BY <1>0, <2>1, Zenon DEF ImageMapped, Live, InExec
  <2>3. Family'
    BY <1>0, <2>1, Zenon DEF Family, ParentRuns, Live
  <2> QED BY <1>1, <2>2, <2>3, Zenon DEF PInv
<1>3. ASSUME NEW p \in Procs, Step(p) PROVE PInv'
  <2>1. Family'
    BY <1>0, <1>3, FamilyKept, Zenon
  <2>2. ImageMapped'
    <3>1. CASE (\E x \in Structs : share_data(p, x)) \/ access_shared_memory(p) \/ exit(p)
      BY <1>0, <3>1, LowSteps, Zenon
    <3>2. CASE fork(p)
      BY <1>0, <3>2, ForkMapped, Zenon
    <3>3. CASE \E k \in Deltas : grow(p, k) \/ shrink(p, k)
      BY <1>0, <3>3, SbrkMapped, Zenon
    <3>4. CASE \E n \in Images, attach \in BOOLEAN : execLoad(p, n, attach)
      BY <1>0, <3>4, LoadMapped, Zenon
    <3>5. CASE execCommit(p)
      BY <1>0, <3>5, CommitMapped, Zenon
    <3>6. CASE execBad(p) \/ wait(p)
      BY <1>0, <3>6, FreeMapped, Zenon
    <3> QED BY <1>3, <3>1, <3>2, <3>3, <3>4, <3>5, <3>6, Zenon DEF Step
  <2> QED BY <1>1, <2>1, <2>2, Zenon DEF PInv
<1> QED BY <1>2, <1>3, Zenon DEF Next

(* The stronger invariant holds throughout.                                *)
THEOREM PInductive == Spec => []PInv
<1> QED BY InitPInv, NextPInv, PTL DEF Spec

(* Every process but init always has a running parent, so exit never       *)
(* leaves a zombie that nobody can reap.                                   *)
THEOREM Reapable == Spec => []ParentRuns
<1>1. PInv => ParentRuns
  BY Zenon DEF PInv, Family
<1> QED BY <1>1, PInductive, PTL

(* The kernel never panics in copyuvm, mappages or exit's kfree.           *)
THEOREM PanicFree == Spec => []NoPanic
<1>1. ASSUME PInv PROVE NoPanic
  <2>0. IInv /\ ImageMapped /\ ParentRuns
    BY <1>1, Zenon DEF PInv, Family
  <2> SUFFICES ASSUME NEW p \in Procs PROVE ~forkPanics(p) /\ ~remapPanics(p) /\ ~exitPanics(p)
    BY Zenon DEF NoPanic
  <2>1. ~forkPanics(p)
    <3> SUFFICES ASSUME CanCall(p), NEW g \in 0..(NPages(sz[p]) - 1), pte[pgdir[p]][g] = NONE
                 PROVE  FALSE
      BY Zenon DEF forkPanics
    <3>1. sz[p] \in 0..(SHAREDBASE - 1)
      BY <2>0, Zenon DEF IInv, TypeOK
    <3>2. NPages(sz[p]) \in Nat /\ NPages(sz[p]) <= SHAREDPG
      BY <3>1, PageCount, Units
    <3>3. g \in LowPages /\ g < NPages(sz[p])
      BY <3>2, Numbers DEF LowPages
    <3>4. Live(p) /\ pte[pgdir[p]][0] # NONE
      BY Zenon DEF CanCall, CanExit, Live
    <3> QED BY <2>0, <3>3, <3>4, Zenon DEF ImageMapped
  <2>2. ~remapPanics(p)
    <3> SUFFICES ASSUME Attaching(p), InEntry(p), PageLeft(p), pte[ex[p].dir][TargetPage(p)] # NONE
                 PROVE  FALSE
      BY Zenon DEF remapPanics
    <3>1. TargetPage(p) \in Pages /\ TargetPage(p) = ex[p].vp + ex[p].j /\ ex[p].vp \in Nat /\ ex[p].j \in Nat
      BY <2>0, AtTarget, Zenon
    <3> QED BY <2>0, <3>1 DEF IInv, AttachSound, Attaching
  <2>3. ~exitPanics(p)
    BY <2>0, Zenon DEF exitPanics, CanExit, ParentRuns, Live
  <2> QED BY <2>1, <2>2, <2>3, Zenon
<1> QED BY <1>1, PInductive, PTL

----------------------------------------------------------------------------
(* The accounts of the page allocator.                                     *)

(* Every frame of ms has a place, for a free list fr, directories ds and   *)
(* the kernel stacks ks of processes ps.                                   *)
Covered(ms, fr, ds, pt, st, ps, ks) ==
  \A f \in ms : f \in fr \/ (\E d \in ds : Owns(pt, st, d, f)) \/ \E q \in ps : ks[q] = f

(* Every directory is the pgdir of a process or the new image of an exec.  *)
DirsUsed ==
  \A d \in dirs : \E q \in Procs : (Live(q) /\ pgdir[q] = d) \/ (InExec(q) /\ ex[q].dir = d)

(* Every frame of ms and every directory is accounted for.                 *)
Accounted(ms) == Covered(ms, free, dirs, pte, stab, LiveProcs, kstack) /\ DirsUsed

(* PInv and the accounts are inductive together.                           *)
AInv == PInv /\ Accounted(Frames)

(* Frames T are put to use, in directory d or as a kernel stack, and what  *)
(* was in use stays.                                                       *)
Used(ds, pt, st, ps, ks, T, d, pt2, st2, ps2, ks2) ==
  /\ \A e \in ds, g \in LowPages : pt[e][g] # NONE => pt2[e][g] = pt[e][g]
  /\ \A e \in ds, t \in STabs : st[e][t] # NONE => st2[e][t] = st[e][t]
  /\ \A q \in ps : q \in ps2 /\ ks2[q] = ks[q]
  /\ \A f \in T : Owns(pt2, st2, d, f) \/ \E q \in ps2 : ks2[q] = f

(* Then they may leave the free list.                                      *)
LEMMA CoverTakes ==
  ASSUME NEW ms \in SUBSET Frames, NEW fr, NEW ds, NEW pt, NEW st, NEW ps, NEW ks, NEW T, NEW d,
         NEW pt2, NEW st2, NEW ps2, NEW ks2,
         Covered(ms, fr, ds, pt, st, ps, ks),
         Used(ds, pt, st, ps, ks, T, d, pt2, st2, ps2, ks2)
  PROVE  Covered(ms, fr \ T, ds \cup {d}, pt2, st2, ps2, ks2)
<1> SUFFICES ASSUME NEW f \in ms
             PROVE  \/ f \in fr \ T \/ (\E e \in ds \cup {d} : Owns(pt2, st2, e, f))
                    \/ \E q \in ps2 : ks2[q] = f
  BY Zenon DEF Covered
<1>1. CASE f \in fr
  BY <1>1, Zenon DEF Used
<1>2. ASSUME NEW e \in ds, Owns(pt, st, e, f) PROVE Owns(pt2, st2, e, f)
  BY <1>2, Zenon DEF Owns, Used
<1>3. CASE \E e \in ds : Owns(pt, st, e, f)
  BY <1>2, <1>3, Zenon
<1>4. CASE \E q \in ps : ks[q] = f
  BY <1>4, Zenon DEF Used
<1> QED BY <1>1, <1>3, <1>4, Zenon DEF Covered

(* What was in use stays, or is among the frames F.                        *)
Returned(ds, pt, st, ps, ks, F, ds2, pt2, st2, ps2, ks2) ==
  /\ \A e \in ds : \A f \in Frames :
       Owns(pt, st, e, f) => f \in F \/ (e \in ds2 /\ Owns(pt2, st2, e, f))
  /\ \A q \in ps : ks[q] \in F \/ (q \in ps2 /\ ks2[q] = ks[q])

(* Then F may go to the free list.                                         *)
LEMMA CoverGives ==
  ASSUME NEW ms \in SUBSET Frames, NEW fr, NEW ds, NEW pt, NEW st, NEW ps, NEW ks, NEW F,
         NEW ds2, NEW pt2, NEW st2, NEW ps2, NEW ks2,
         Covered(ms, fr, ds, pt, st, ps, ks),
         Returned(ds, pt, st, ps, ks, F, ds2, pt2, st2, ps2, ks2)
  PROVE  Covered(ms, fr \cup F, ds2, pt2, st2, ps2, ks2)
BY Zenon DEF Covered, Returned

(* freevm gives back all that a directory owns.                            *)
LEMMA OwnedFreed ==
  ASSUME NEW d, NEW f \in Frames, Owns(pte, stab, d, f)
  PROVE  f \in freevm(d)
BY Zenon DEF Owns, freevm, LowFrames, TabFrames

(* A frame that was taken was taken by one of the calls of kalloc.         *)
LEMMA TakenBy ==
  ASSUME NEW k, NEW f \in Taken(k)
  PROVE  \E i \in 1..k : f = kalloc(i)
BY Zenon DEF Taken

(* share_data, access_shared_memory and exit: at most a page-table page is *)
(* taken for the window.                                                   *)
LEMMA LowAccounts ==
  ASSUME NEW ms \in SUBSET Frames, IInv, Accounted(ms), NEW p \in Procs,
         (\E x \in Structs : share_data(p, x)) \/ access_shared_memory(p) \/ exit(p)
  PROVE  Accounted(ms)'
<1>1. /\ UNCHANGED <<pgdir, kstack, dirs>>
      /\ \A q \in Procs : Live(q)' <=> Live(q)
      /\ \A d \in dirs, g \in LowPages : pte'[d][g] = pte[d][g]
      /\ \A q \in Procs : (InExec(q)' <=> InExec(q)) /\ (InExec(q) => ex'[q].dir = ex[q].dir)
  <2>1. UNCHANGED <<kstack, dirs>>
    BY Zenon DEF share_data, exit, access_shared_memory, attachEnd, attachMissing, attachPage,
                 attachNoMem, attachEntry, procVars, memVars
  <2> QED BY <2>1, LowMoves, Zenon
<1>2. DirsUsed'
  BY <1>1, Zenon DEF Accounted, DirsUsed
<1>3. LiveProcs' = LiveProcs
  BY <1>1, Zenon DEF LiveProcs
<1>4. CASE attachPage(p) /\ stab[ex[p].dir][STabOf(TargetPage(p))] = NONE
  <2> DEFINE d == ex[p].dir
             t == STabOf(TargetPage(p))
             T == Taken(1)
  <2>1. /\ Attaching(p) /\ InEntry(p) /\ PageLeft(p) /\ stab[d][t] = NONE /\ Avail(1)
        /\ stab' = [stab EXCEPT ![d][t] = kalloc(1)] /\ free' = free \ T
    BY <1>4, Zenon DEF attachPage
  <2>2. d \in dirs /\ d \in Frames /\ t = 0 /\ t \in STabs
    BY <2>1, AtTarget, TabZero, ZenonT(40) DEF IInv, TypeOK
  <2>3. kalloc(1) \in Frames /\ NONE \notin Frames
    BY <2>1, KallocOne, Zenon DEF IInv
  <2> HIDE DEF t, d
  <2>4. /\ stab'[d][t] = kalloc(1)
        /\ \A e \in dirs, u \in STabs : stab[e][u] # NONE => stab'[e][u] = stab[e][u]
    BY <2>1, <2>2, Zenon DEF IInv, TypeOK
  <2>5. \A f \in T : f = kalloc(1)
    BY TakenBy
  <2>6. \A f \in T : Owns(pte', stab', d, f)
    BY <2>2, <2>3, <2>4, <2>5, Zenon DEF Owns
  <2> HIDE DEF T
  <2>9. /\ \A e \in dirs, g \in LowPages : pte[e][g] # NONE => pte'[e][g] = pte[e][g]
        /\ \A q \in LiveProcs : q \in LiveProcs' /\ kstack'[q] = kstack[q]
        /\ \A f \in T : Owns(pte', stab', d, f) \/ \E q \in LiveProcs' : kstack'[q] = f
    BY <1>1, <1>3, <2>6, Zenon
  <2>7. Covered(ms, free \ T, dirs \cup {d}, pte', stab', LiveProcs', kstack')
    <3>1. Used(dirs, pte, stab, LiveProcs, kstack, T, d, pte', stab', LiveProcs', kstack')
      BY <2>4, <2>9, Zenon DEF Used
    <3> QED BY <3>1, CoverTakes, Zenon DEF Accounted
  <2>8. free' = free \ T /\ dirs' = dirs \cup {d}
    BY <1>1, <2>1, <2>2, Zenon
  <2> QED BY <1>2, <2>7, <2>8, Zenon DEF Accounted
<1>5. CASE ~(attachPage(p) /\ stab[ex[p].dir][STabOf(TargetPage(p))] = NONE)
  <2>1. stab' = stab /\ \E F : free' = free \cup F
    <3>1. CASE attachNoMem(p)
      BY <3>1, Zenon DEF attachNoMem
    <3>2. CASE attachPage(p)
      <4>1. stab' = stab /\ free' = free
        BY <1>5, <3>2, Zenon DEF attachPage
      <4>2. free' = free \cup {}
        BY <4>1, Zenon
      <4> QED BY <4>1, <4>2, Zenon
    <3>3. CASE ~attachNoMem(p) /\ ~attachPage(p)
      <4>1. stab' = stab /\ free' = free
        BY <3>3, Zenon DEF share_data, exit, access_shared_memory, attachEnd, attachMissing,
                           attachEntry, memVars
      <4>2. free' = free \cup {}
        BY <4>1, Zenon
      <4> QED BY <4>1, <4>2, Zenon
    <3> QED BY <3>1, <3>2, <3>3, Zenon
  <2>2. PICK F : free' = free \cup F
    BY <2>1, Zenon
  <2>3. \A e \in dirs : \A f \in Frames : Owns(pte, stab, e, f) => Owns(pte', stab', e, f)
    BY <1>1, <2>1, Zenon DEF Owns
  <2>4. Covered(ms, free \cup F, dirs', pte', stab', LiveProcs', kstack')
    <3>1. Returned(dirs, pte, stab, LiveProcs, kstack, F, dirs', pte', stab', LiveProcs', kstack')
      BY <1>1, <1>3, <2>3, Zenon DEF Returned
    <3> QED BY <3>1, CoverGives, Zenon DEF Accounted
  <2> QED BY <1>2, <2>2, <2>4, Zenon DEF Accounted
<1> QED BY <1>4, <1>5, Zenon

(* fork: the frames are the kernel stack, the directory and the pages.     *)
LEMMA ForkAccounts ==
  ASSUME NEW ms \in SUBSET Frames, IInv, Accounted(ms), NEW p \in Procs, fork(p)
  PROVE  Accounted(ms)'
<1> DEFINE n == NPages(sz[p])
           d == kalloc(2)
           m == [g \in Pages |-> IF g < n THEN kalloc(g + 3) ELSE NONE]
           T == Taken(n + 2)
<1>1. PICK np \in Procs :
        /\ FreeSlot(np) /\ state' = [state EXCEPT ![np] = "RUN"]
        /\ kstack' = [kstack EXCEPT ![np] = kalloc(1)] /\ pgdir' = [pgdir EXCEPT ![np] = d]
  BY Zenon DEF fork
<1>2. /\ Avail(n + 2) /\ free' = free \ T /\ dirs' = dirs \cup {d}
      /\ pte' = [pte EXCEPT ![d] = m] /\ UNCHANGED <<ex, stab>>
  BY Zenon DEF fork, CanFork, CopyPages
<1>3. n \in Nat /\ n <= SHAREDPG
  <2>1. sz[p] \in 0..(SHAREDBASE - 1)
    BY Zenon DEF IInv, TypeOK
  <2> QED BY <2>1, PageCount, Units
<1>4. \A i \in 1..(n + 2) : kalloc(i) \in Frames
  BY <1>2, <1>3, KallocFresh, SMTT(30) DEF IInv, TypeOK
<1>5. d \in Frames /\ d \notin dirs /\ NONE \notin Frames
  BY <1>2, <1>3, KallocFresh, FreeNoDir DEF IInv, TypeOK
<1>6. ASSUME NEW f \in T
      PROVE  f = kalloc(1) \/ f = d \/ \E g \in LowPages : m[g] = f /\ f # NONE
  <2>1. PICK i \in 1..(n + 2) : f = kalloc(i)
    BY TakenBy, Zenon
  <2>2. CASE i >= 3
    <3>1. i - 3 \in LowPages /\ i - 3 \in Pages /\ i - 3 < n /\ (i - 3) + 3 = i
      BY <1>3, <2>2, Numbers DEF LowPages, Pages
    <3> DEFINE g == i - 3
    <3>2. m[g] = kalloc(i)
      BY <3>1, Zenon
    <3>3. m[g] = f /\ f # NONE /\ g \in LowPages
      BY <1>4, <1>5, <2>1, <3>1, <3>2, Zenon
    <3> QED BY <3>3, Zenon
  <2> QED BY <1>3, <2>1, <2>2
<1> HIDE DEF d, m, n, T
<1>7. /\ kstack'[np] = kalloc(1) /\ pgdir'[np] = d /\ Live(np)' /\ ~Live(np) /\ ~InExec(np)
      /\ \A q \in Procs \ {np} : kstack'[q] = kstack[q] /\ pgdir'[q] = pgdir[q] /\ (Live(q)' <=> Live(q))
  BY <1>1, Zenon DEF IInv, TypeOK, DirOwner, InExec, FreeSlot, Live
<1>8. pte'[d] = m /\ \A e \in dirs : pte'[e] = pte[e]
  BY <1>2, <1>5, Zenon DEF IInv, TypeOK
<1>9. /\ \A e \in dirs, g \in LowPages : pte[e][g] # NONE => pte'[e][g] = pte[e][g]
      /\ \A e \in dirs, t \in STabs : stab[e][t] # NONE => stab'[e][t] = stab[e][t]
  BY <1>2, <1>8, Zenon
<1>10. \A q \in LiveProcs : q \in LiveProcs' /\ kstack'[q] = kstack[q]
  BY <1>7, Zenon DEF LiveProcs
<1>11. \A f \in T : Owns(pte', stab', d, f) \/ \E q \in LiveProcs' : kstack'[q] = f
  <2>1. np \in LiveProcs'
    BY <1>7, Zenon DEF LiveProcs
  <2>2. d # NONE
    BY <1>5, Zenon
  <2> QED BY <1>6, <1>7, <1>8, <2>1, <2>2, Zenon DEF Owns
<1>12. Covered(ms, free \ T, dirs \cup {d}, pte', stab', LiveProcs', kstack')
  <2>1. Used(dirs, pte, stab, LiveProcs, kstack, T, d, pte', stab', LiveProcs', kstack')
    BY <1>9, <1>10, <1>11, Zenon DEF Used
  <2> QED BY <2>1, CoverTakes, Zenon DEF Accounted
<1>13. DirsUsed'
  BY <1>2, <1>7 DEF Accounted, DirsUsed, InExec
<1> QED BY <1>2, <1>12, <1>13, Zenon DEF Accounted

(* exec's first part: the frames are the directory and the program's pages. *)
LEMMA LoadAccounts ==
  ASSUME NEW ms \in SUBSET Frames, IInv, Accounted(ms), NEW p \in Procs, NEW n \in Images, NEW attach \in BOOLEAN,
         execLoad(p, n, attach)
  PROVE  Accounted(ms)'
<1> DEFINE d == kalloc(1)
           m == [g \in Pages |-> IF g < n THEN kalloc(g + 2) ELSE NONE]
           T == Taken(n + 1)
           e == Ex(IF attach THEN "attach" ELSE "stack", d, n, 0, 0, SHAREDPG)
<1>1. /\ ex[p].pc = "user" /\ n < SHAREDPG /\ Avail(n + 1) /\ free' = free \ T
      /\ dirs' = dirs \cup {d} /\ pte' = [pte EXCEPT ![d] = m] /\ ex' = [ex EXCEPT ![p] = e]
      /\ UNCHANGED <<state, kstack, pgdir, stab>>
  BY Zenon DEF execLoad, CanCall, CanExit, CanLoad, procVars
<1>2. n \in Nat
  BY Choices, Zenon
<1>3. /\ \A i \in 1..(n + 1) : kalloc(i) \in Frames
      /\ d \in Frames /\ d \notin dirs /\ NONE \notin Frames
  BY <1>1, <1>2, KallocFresh, FreeNoDir DEF IInv, TypeOK
<1>4. ASSUME NEW f \in T PROVE f = d \/ \E g \in LowPages : m[g] = f /\ f # NONE
  <2>1. PICK i \in 1..(n + 1) : f = kalloc(i)
    BY TakenBy, Zenon
  <2>2. CASE i >= 2
    <3>1. i - 2 \in LowPages /\ i - 2 \in Pages /\ i - 2 < n /\ (i - 2) + 2 = i
      <4>1. n < SHAREDPG
        BY <1>1, Zenon
      <4>2. i - 2 \in Nat /\ i - 2 < n /\ (i - 2) + 2 = i
        BY <1>2, <2>2
      <4>3. i - 2 < SHAREDPG
        BY <1>2, <4>1, <4>2, PageRanges
      <4> QED BY <4>2, <4>3, PageRanges, Zenon
    <3> DEFINE g == i - 2
    <3>2. m[g] = kalloc(i)
      BY <3>1, Zenon
    <3>3. m[g] = f /\ f # NONE /\ g \in LowPages
      BY <1>3, <2>1, <3>1, <3>2, Zenon
    <3> QED BY <3>3, Zenon
  <2> QED BY <1>2, <2>1, <2>2
<1>5. e.dir = d /\ e.pc # "user"
  BY Zenon DEF Ex
<1> HIDE DEF d, m, T, e
<1>6. /\ ex'[p] = e /\ \A q \in Procs \ {p} : ex'[q] = ex[q]
      /\ pte'[d] = m /\ \A c \in dirs : pte'[c] = pte[c]
  BY <1>1, <1>3, Zenon DEF IInv, TypeOK
<1>7. LiveProcs' = LiveProcs /\ \A q \in Procs : Live(q)' <=> Live(q)
  BY <1>1, Zenon DEF LiveProcs, Live
<1>8. /\ \A c \in dirs, g \in LowPages : pte[c][g] # NONE => pte'[c][g] = pte[c][g]
      /\ \A c \in dirs, t \in STabs : stab[c][t] # NONE => stab'[c][t] = stab[c][t]
      /\ \A q \in LiveProcs : q \in LiveProcs' /\ kstack'[q] = kstack[q]
  BY <1>1, <1>6, <1>7, Zenon
<1>9. \A f \in T : Owns(pte', stab', d, f) \/ \E q \in LiveProcs' : kstack'[q] = f
  <2>1. d # NONE
    BY <1>3, Zenon
  <2> QED BY <1>4, <1>6, <2>1, Zenon DEF Owns
<1>10. Covered(ms, free \ T, dirs \cup {d}, pte', stab', LiveProcs', kstack')
  <2>1. Used(dirs, pte, stab, LiveProcs, kstack, T, d, pte', stab', LiveProcs', kstack')
    BY <1>8, <1>9, Zenon DEF Used
  <2> QED BY <2>1, CoverTakes, Zenon DEF Accounted
<1>11. DirsUsed'
  BY <1>1, <1>5, <1>6, <1>7 DEF Accounted, DirsUsed, InExec
<1> QED BY <1>1, <1>10, <1>11, Zenon DEF Accounted

(* sbrk: the frames are new pages, or pages given back.                    *)
LEMMA GrowAccounts ==
  ASSUME NEW ms \in SUBSET Frames, PInv, Accounted(ms), NEW p \in Procs, NEW k \in Deltas, grow(p, k)
  PROVE  Accounted(ms)'
<1> DEFINE old == NPages(sz[p])
           new == NPages(sz[p] + k)
           d == pgdir[p]
           m == [g \in Pages |-> IF g \in old..(new - 1) THEN kalloc(g - old + 1) ELSE pte[d][g]]
           T == Taken(new - old)
<1>1. /\ state[p] = "RUN" /\ k > 0 /\ sz[p] + k < SHAREDBASE /\ Avail(new - old)
      /\ free' = free \ T /\ pte' = [pte EXCEPT ![d] = m]
      /\ UNCHANGED <<state, kstack, pgdir, ex, dirs, stab>>
  BY Zenon DEF grow, CanCall, CanExit, UserTop
<1>2. old \in Nat /\ new \in Nat /\ new - old \in Nat /\ new <= SHAREDPG
  <2>1. sz[p] \in 0..(SHAREDBASE - 1) /\ k \in Int
    BY SharedMemAssumption, Zenon DEF PInv, IInv, TypeOK
  <2>2. sz[p] \in Nat /\ sz[p] + k \in Nat /\ sz[p] <= sz[p] + k
    BY <1>1, <2>1, Units
  <2>3. old <= new /\ old \in Nat /\ new \in Nat /\ new <= SHAREDPG
    BY <1>1, <2>2, PageCount, PagesGrow
  <2> QED BY <2>3
<1>3. d \in dirs /\ d \in Frames /\ NONE \notin Frames /\ Live(p)
  BY <1>1, FreeNoDir, Zenon DEF PInv, IInv, TypeOK, DirOwner, Live
<1>4. \A i \in 1..(new - old) : kalloc(i) \in Frames
  BY <1>1, <1>2, KallocFresh, Zenon DEF PInv, IInv, TypeOK
<1>5. \A g \in LowPages : g \in Pages /\ (g >= old => pte[d][g] = NONE)
  <2>1. \A g \in LowPages : g >= old => pte[d][g] = NONE
    BY <1>3, Zenon DEF PInv, ImageMapped
  <2> QED BY <2>1, PageRanges, Zenon
<1> HIDE DEF old, new
<1>6. ASSUME NEW f \in T PROVE \E g \in LowPages : m[g] = f /\ f # NONE
  <2>1. PICK i \in 1..(new - old) : f = kalloc(i)
    BY TakenBy, Zenon
  <2> DEFINE g == old + (i - 1)
  <2>2. g \in LowPages /\ g \in old..(new - 1) /\ g - old + 1 = i
    <3>1. g \in Nat /\ g \in old..(new - 1) /\ g - old + 1 = i
      BY <1>2
    <3>2. g < SHAREDPG
      BY <1>2, <3>1, PageRanges
    <3> QED BY <3>1, <3>2, PageRanges, Zenon
  <2> HIDE DEF g
  <2>3. m[g] = f /\ f # NONE
    BY <1>3, <1>4, <1>5, <2>1, <2>2, Zenon
  <2> QED BY <2>2, <2>3, Zenon
<1>7. \A g \in LowPages : pte[d][g] # NONE => m[g] = pte[d][g]
  <2>1. \A g \in LowPages : g \in old..(new - 1) => pte[d][g] = NONE
    BY <1>2, <1>5
  <2> QED BY <1>5, <2>1, Zenon
<1> HIDE DEF m, T
<1>8. pte'[d] = m /\ \A e \in dirs \ {d} : pte'[e] = pte[e]
  BY <1>1, <1>3, Zenon DEF PInv, IInv, TypeOK
<1>9. LiveProcs' = LiveProcs /\ \A q \in Procs : Live(q)' <=> Live(q)
  BY <1>1, Zenon DEF LiveProcs, Live
<1>10. Used(dirs, pte, stab, LiveProcs, kstack, T, d, pte', stab', LiveProcs', kstack')
  <2>1. \A e \in dirs, g \in LowPages : pte[e][g] # NONE => pte'[e][g] = pte[e][g]
    BY <1>7, <1>8, Zenon
  <2>2. \A f \in T : Owns(pte', stab', d, f)
    BY <1>6, <1>8, Zenon DEF Owns
  <2> QED BY <1>1, <1>9, <2>1, <2>2, Zenon DEF Used
<1>11. Covered(ms, free \ T, dirs \cup {d}, pte', stab', LiveProcs', kstack')
  BY <1>10, CoverTakes, Zenon DEF Accounted
<1>12. free' = free \ T /\ dirs' = dirs \cup {d}
  BY <1>1, <1>3, Zenon
<1>13. DirsUsed'
  BY <1>1, <1>9, Zenon DEF Accounted, DirsUsed, InExec
<1> QED BY <1>11, <1>12, <1>13, Zenon DEF Accounted

(* sbrk with a negative argument: the frames are the pages given back.     *)
LEMMA ShrinkAccounts ==
  ASSUME NEW ms \in SUBSET Frames, IInv, Accounted(ms), NEW p \in Procs, NEW k \in Deltas, shrink(p, k)
  PROVE  Accounted(ms)'
<1> DEFINE d == pgdir[p]
           newsz == (sz[p] + k) % UINT
           gone == {g \in LowPages : g >= NPages(newsz) /\ g * PGSIZE < sz[p]}
           m == [g \in Pages |-> IF g \in gone THEN NONE ELSE pte[d][g]]
           F == {pte[d][g] : g \in gone} \ {NONE}
<1>1. /\ state[p] = "RUN" /\ free' = free \cup F /\ pte' = [pte EXCEPT ![d] = m]
      /\ UNCHANGED <<state, kstack, pgdir, ex, dirs, stab>>
  BY Zenon DEF shrink, CanCall, CanExit
<1> HIDE DEF gone, newsz
<1>2. d \in dirs /\ d \in Frames
  BY <1>1, Zenon DEF IInv, TypeOK, DirOwner, Live
<1>3. LowPages \subseteq Pages
  BY Numbers DEF LowPages, Pages
<1>4. \A g \in LowPages : pte[d][g] # NONE => pte[d][g] \in F \/ m[g] = pte[d][g]
  BY <1>3, Zenon
<1> HIDE DEF m, F
<1>5. pte'[d] = m /\ \A e \in dirs \ {d} : pte'[e] = pte[e]
  BY <1>1, <1>2, Zenon DEF IInv, TypeOK
<1>6. LiveProcs' = LiveProcs /\ \A q \in Procs : Live(q)' <=> Live(q)
  BY <1>1, Zenon DEF LiveProcs, Live
<1>7. ASSUME NEW e \in dirs, NEW f \in Frames, Owns(pte, stab, e, f)
      PROVE  f \in F \/ Owns(pte', stab', e, f)
  BY <1>1, <1>4, <1>5, <1>7, ZenonT(40) DEF Owns
<1>8. Covered(ms, free \cup F, dirs', pte', stab', LiveProcs', kstack')
  <2>1. Returned(dirs, pte, stab, LiveProcs, kstack, F, dirs', pte', stab', LiveProcs', kstack')
    BY <1>1, <1>6, <1>7, Zenon DEF Returned
  <2> QED BY <2>1, CoverGives, Zenon DEF Accounted
<1>9. DirsUsed'
  BY <1>1, <1>6, Zenon DEF Accounted, DirsUsed, InExec
<1> QED BY <1>1, <1>8, <1>9, Zenon DEF Accounted

(* exec gives up: the new image goes back whole.                           *)
LEMMA BadAccounts ==
  ASSUME NEW ms \in SUBSET Frames, IInv, Accounted(ms), NEW p \in Procs, execBad(p)
  PROVE  Accounted(ms)'
<1> DEFINE d == ex[p].dir
<1>1. /\ state[p] = "RUN" /\ ex[p].pc = "stack" /\ ex' = [ex EXCEPT ![p] = InUser]
      /\ free' = free \cup freevm(d) /\ dirs' = dirs \ {d}
      /\ pte' = [pte EXCEPT ![d] = NoPages] /\ stab' = [stab EXCEPT ![d] = NoTabs]
      /\ UNCHANGED <<state, kstack, pgdir>>
  BY Zenon DEF execBad, procVars
<1>2. d \in dirs /\ d \in Frames /\ dirs \subseteq Frames
  BY <1>1, Zenon DEF IInv, TypeOK, DirOwner, InExec
<1> HIDE DEF d
<1>3. /\ \A e \in dirs \ {d} : pte'[e] = pte[e] /\ stab'[e] = stab[e]
      /\ \A q \in Procs \ {p} : ex'[q] = ex[q]
  BY <1>1, <1>2, Zenon DEF IInv, TypeOK
<1>4. LiveProcs' = LiveProcs /\ \A q \in Procs : Live(q)' <=> Live(q)
  BY <1>1, Zenon DEF LiveProcs, Live
<1>5. \A e \in dirs : \A f \in Frames :
        Owns(pte, stab, e, f) => f \in freevm(d) \/ (e \in dirs' /\ Owns(pte', stab', e, f))
  <2>1. \A f \in Frames : Owns(pte, stab, d, f) => f \in freevm(d)
    BY OwnedFreed, Zenon
  <2>2. \A e \in dirs \ {d} : e \in dirs' /\ \A f : Owns(pte, stab, e, f) => Owns(pte', stab', e, f)
    BY <1>1, <1>3, Zenon DEF Owns
  <2> QED BY <2>1, <2>2, Zenon
<1>6. Covered(ms, free \cup freevm(d), dirs', pte', stab', LiveProcs', kstack')
  <2>1. Returned(dirs, pte, stab, LiveProcs, kstack, freevm(d), dirs', pte', stab', LiveProcs', kstack')
    BY <1>1, <1>4, <1>5, Zenon DEF Returned
  <2> QED BY <2>1, CoverGives, Zenon DEF Accounted
<1>7. DirsUsed'
  <2> SUFFICES ASSUME NEW e \in dirs, e # d
               PROVE  \E q \in Procs : (Live(q)' /\ pgdir'[q] = e) \/ (InExec(q)' /\ ex'[q].dir = e)
    BY <1>1, Zenon DEF DirsUsed
  <2>1. PICK q \in Procs : (Live(q) /\ pgdir[q] = e) \/ (InExec(q) /\ ex[q].dir = e)
    BY Zenon DEF Accounted, DirsUsed
  <2>2. CASE Live(q) /\ pgdir[q] = e
    BY <1>1, <1>4, <2>2, Zenon
  <2>3. CASE InExec(q) /\ ex[q].dir = e
    <3>1. q # p
      BY <2>3, Zenon DEF d
    <3> QED BY <1>3, <2>3, <3>1, Zenon DEF InExec
  <2> QED BY <2>1, <2>2, <2>3, Zenon
<1> QED BY <1>1, <1>6, <1>7, Zenon DEF Accounted

(* wait: the image and the kernel stack of the zombie go back.             *)
LEMMA WaitAccounts ==
  ASSUME NEW ms \in SUBSET Frames, IInv, Accounted(ms), NEW p \in Procs, wait(p)
  PROVE  Accounted(ms)'
<1>1. PICK c \in Procs :
        /\ Zombie(p, c)
        /\ kstack' = [kstack EXCEPT ![c] = NONE] /\ state' = [state EXCEPT ![c] = "UNUSED"]
        /\ free' = free \cup (freevm(pgdir[c]) \cup {kstack[c]})
        /\ dirs' = dirs \ {pgdir[c]} /\ pte' = [pte EXCEPT ![pgdir[c]] = NoPages]
        /\ stab' = [stab EXCEPT ![pgdir[c]] = NoTabs]
  BY Zenon DEF wait, Reaped
<1>2. UNCHANGED <<pgdir, ex>>
  BY Zenon DEF wait
<1> DEFINE d == pgdir[c]
           F == freevm(d) \cup {kstack[c]}
<1>3. Live(c) /\ d \in dirs /\ d \in Frames /\ dirs \subseteq Frames
  <2>1. Live(c)
    BY <1>1, Zenon DEF Zombie, Live
  <2> QED BY <2>1, Zenon DEF IInv, TypeOK, DirOwner
<1>4. /\ \A e \in dirs \ {d} : pte'[e] = pte[e] /\ stab'[e] = stab[e]
      /\ \A q \in Procs \ {c} : kstack'[q] = kstack[q] /\ state'[q] = state[q]
  BY <1>1, <1>3, Zenon DEF IInv, TypeOK
<1>5. /\ \A q \in Procs \ {c} : Live(q)' <=> Live(q)
      /\ \A q \in LiveProcs \ {c} : q \in LiveProcs' /\ kstack'[q] = kstack[q]
  BY <1>4, Zenon DEF LiveProcs, Live
<1>6. \A q \in LiveProcs : kstack[q] \in F \/ (q \in LiveProcs' /\ kstack'[q] = kstack[q])
  BY <1>5, Zenon
<1>7. \A e \in dirs : \A f \in Frames :
        Owns(pte, stab, e, f) => f \in F \/ (e \in dirs' /\ Owns(pte', stab', e, f))
  <2>1. \A f \in Frames : Owns(pte, stab, d, f) => f \in F
    BY OwnedFreed, Zenon
  <2>2. \A e \in dirs \ {d} : e \in dirs' /\ \A f : Owns(pte, stab, e, f) => Owns(pte', stab', e, f)
    BY <1>1, <1>4, Zenon DEF Owns
  <2> QED BY <2>1, <2>2, Zenon
<1> HIDE DEF F
<1>8. Covered(ms, free \cup F, dirs', pte', stab', LiveProcs', kstack')
  <2>1. Returned(dirs, pte, stab, LiveProcs, kstack, F, dirs', pte', stab', LiveProcs', kstack')
    BY <1>6, <1>7, Zenon DEF Returned
  <2> QED BY <2>1, CoverGives, Zenon DEF Accounted
<1>9. DirsUsed'
  <2> SUFFICES ASSUME NEW e \in dirs, e # d
               PROVE  \E q \in Procs : (Live(q)' /\ pgdir'[q] = e) \/ (InExec(q)' /\ ex'[q].dir = e)
    BY <1>1, Zenon DEF DirsUsed
  <2>1. PICK q \in Procs : (Live(q) /\ pgdir[q] = e) \/ (InExec(q) /\ ex[q].dir = e)
    BY Zenon DEF Accounted, DirsUsed
  <2>2. CASE Live(q) /\ pgdir[q] = e
    BY <1>2, <1>5, <2>2, Zenon
  <2>3. CASE InExec(q) /\ ex[q].dir = e
    BY <1>2, <2>3, Zenon DEF InExec
  <2> QED BY <2>1, <2>2, <2>3, Zenon
<1>10. free' = free \cup F
  BY <1>1, Zenon DEF F
<1> QED BY <1>8, <1>9, <1>10, Zenon DEF Accounted

(* exec commits: two frames become the guard page and the stack, and the   *)
(* old image goes back whole.                                              *)
LEMMA CommitAccounts ==
  ASSUME NEW ms \in SUBSET Frames, PInv, Accounted(ms), NEW p \in Procs, execCommit(p)
  PROVE  Accounted(ms)'
<1> DEFINE d == ex[p].dir
           n == ex[p].n
           o == pgdir[p]
           T == Taken(2)
           m == [pte[d] EXCEPT ![n] = kalloc(1), ![n + 1] = kalloc(2)]
           pt1 == [pte EXCEPT ![d] = m]
<1>0. IInv /\ ImageMapped
  BY Zenon DEF PInv
<1>1. /\ state[p] = "RUN" /\ ex[p].pc = "stack" /\ n + 2 < SHAREDPG /\ Avail(2)
      /\ pgdir' = [pgdir EXCEPT ![p] = d] /\ ex' = [ex EXCEPT ![p] = InUser]
      /\ free' = (free \ T) \cup freevm(o) /\ dirs' = dirs \ {o}
      /\ stab' = [stab EXCEPT ![o] = NoTabs]
      /\ UNCHANGED <<state, kstack>>
  BY Zenon DEF execCommit
<1>2. /\ d \in dirs /\ d \in Frames /\ o \in dirs /\ o \in Frames /\ d # o /\ NONE \notin Frames
      /\ dirs \subseteq Frames /\ InExec(p)
  BY <1>0, <1>1, FreeNoDir, Zenon DEF IInv, TypeOK, DirOwner, InExec, Live
<1>3. n \in Nat /\ n \in LowPages /\ n + 1 \in LowPages /\ n # n + 1 /\ LowPages \subseteq Pages
  <2>1. n \in 0..SHAREDPG
    BY <1>0, ExFields, Zenon DEF IInv, TypeOK
  <2> QED BY <1>1, <2>1, Numbers DEF LowPages, Pages
<1>4. /\ pte[d] \in [Pages -> Frames \cup {NONE}] /\ pte \in [Frames -> [Pages -> Frames \cup {NONE}]]
  BY <1>0, <1>2, Zenon DEF IInv, TypeOK
<1>5. pte' = [pt1 EXCEPT ![o] = NoPages]
  BY <1>2, <1>3, <1>4, Zenon DEF execCommit
<1>6. kalloc(1) \in Frames /\ kalloc(2) \in Frames
  BY <1>0, <1>1, KallocFresh DEF IInv, TypeOK
<1>7. \A f \in T : f = kalloc(1) \/ f = kalloc(2)
  <2>1. \A i \in 1..2 : i = 1 \/ i = 2
    OBVIOUS
  <2> QED BY <2>1, TakenBy, Zenon
<1>8. m[n] = kalloc(1) /\ m[n + 1] = kalloc(2) /\ \A g \in LowPages \ {n, n + 1} : m[g] = pte[d][g]
  BY <1>3, <1>4, Zenon
<1>9. pte[d][n] = NONE /\ pte[d][n + 1] = NONE
  <2>1. ~(n < n) /\ ~(n + 1 < n)
    BY <1>3
  <2> QED BY <1>0, <1>2, <1>3, <2>1, Zenon DEF ImageMapped
<1> HIDE DEF d, n, o, m, T
<1>10. pt1[d] = m /\ \A e \in Frames \ {d} : pt1[e] = pte[e]
  BY <1>2, <1>4, Zenon
<1> HIDE DEF pt1
<1>11. /\ \A e \in dirs \ {o} : pte'[e] = pt1[e] /\ stab'[e] = stab[e]
       /\ \A q \in Procs \ {p} : ex'[q] = ex[q] /\ pgdir'[q] = pgdir[q]
       /\ pgdir'[p] = d
  <2>1. pt1 \in [Frames -> {pt1[e] : e \in Frames}]
    BY <1>4, Zenon DEF pt1
  <2> QED BY <1>0, <1>1, <1>2, <1>5, <2>1, Zenon DEF IInv, TypeOK
<1>12. LiveProcs' = LiveProcs /\ \A q \in Procs : Live(q)' <=> Live(q)
  BY <1>1, Zenon DEF LiveProcs, Live
<1>13. Covered(ms, free \ T, dirs, pt1, stab, LiveProcs, kstack)
  <2>1. \A e \in dirs, g \in LowPages : pte[e][g] # NONE => pt1[e][g] = pte[e][g]
    BY <1>2, <1>8, <1>9, <1>10, Zenon
  <2>2. \A f \in T : Owns(pt1, stab, d, f)
    BY <1>2, <1>3, <1>6, <1>7, <1>8, <1>10, Zenon DEF Owns
  <2>3. Used(dirs, pte, stab, LiveProcs, kstack, T, d, pt1, stab, LiveProcs, kstack)
    BY <2>1, <2>2, Zenon DEF Used
  <2>4. Covered(ms, free \ T, dirs \cup {d}, pt1, stab, LiveProcs, kstack)
    BY <2>3, CoverTakes, Zenon DEF Accounted
  <2>5. dirs \cup {d} = dirs
    BY <1>2, Zenon
  <2> QED BY <2>4, <2>5, Zenon
<1>14. \A f \in Frames : Owns(pt1, stab, o, f) => f \in freevm(o)
  BY <1>2, <1>10, OwnedFreed, Zenon DEF Owns
<1>15. \A e \in dirs : \A f \in Frames :
         Owns(pt1, stab, e, f) => f \in freevm(o) \/ (e \in dirs' /\ Owns(pte', stab', e, f))
  BY <1>1, <1>11, <1>14, ZenonT(40) DEF Owns
<1>16. Covered(ms, (free \ T) \cup freevm(o), dirs', pte', stab', LiveProcs', kstack')
  <2>1. Returned(dirs, pt1, stab, LiveProcs, kstack, freevm(o), dirs', pte', stab', LiveProcs', kstack')
    BY <1>1, <1>12, <1>15, Zenon DEF Returned
  <2> QED BY <1>13, <2>1, CoverGives, Zenon
<1>17. DirsUsed'
  <2> SUFFICES ASSUME NEW e \in dirs, e # o
               PROVE  \E q \in Procs : (Live(q)' /\ pgdir'[q] = e) \/ (InExec(q)' /\ ex'[q].dir = e)
    BY <1>1, Zenon DEF DirsUsed
  <2>1. PICK q \in Procs : (Live(q) /\ pgdir[q] = e) \/ (InExec(q) /\ ex[q].dir = e)
    BY Zenon DEF Accounted, DirsUsed
  <2>2. CASE q # p
    BY <1>11, <1>12, <2>1, <2>2, Zenon DEF InExec
  <2>3. CASE q = p
    <3>1. e = d /\ Live(p)
      BY <1>1, <2>1, <2>3, Zenon DEF d, o, Live
    <3> QED BY <1>11, <1>12, <3>1, Zenon
  <2> QED BY <2>2, <2>3, Zenon
<1> QED BY <1>1, <1>16, <1>17, Zenon DEF Accounted

(* After boot, frame 1 is init's kernel stack, 2 its directory and 3 its   *)
(* page; the rest is free.                                                 *)
LEMMA BootAccounts ==
  ASSUME NEW n \in 3..NFRAME, InitWith(n)
  PROVE  PInv /\ Accounted(1..n)
<1>0. PInv
  BY BootPInv, Zenon
<1>1. /\ state = [p \in Procs |-> IF p = 1 THEN "RUN" ELSE "UNUSED"]
      /\ kstack = [p \in Procs |-> IF p = 1 THEN 1 ELSE 0]
      /\ pgdir = [p \in Procs |-> IF p = 1 THEN 2 ELSE 0]
      /\ free = 4..n /\ dirs = {2}
      /\ pte = [f \in Frames |-> IF f = 2 THEN [NoPages EXCEPT ![0] = 3] ELSE NoPages]
  BY Zenon DEF InitWith, initproc, NONE
<1>2. /\ 1 \in Procs /\ 2 \in Frames /\ 0 \in Pages /\ 0 \in LowPages /\ 3 # 0
      /\ \A f \in 1..n : f \in 4..n \/ f = 1 \/ f = 2 \/ f = 3
  BY Numbers DEF Procs, Frames, Pages, LowPages
<1>3. pte[2][0] = 3 /\ kstack[1] = 1 /\ Live(1) /\ pgdir[1] = 2
  BY <1>1, <1>2, Zenon DEF NoPages, Live
<1>4. Owns(pte, stab, 2, 2) /\ Owns(pte, stab, 2, 3) /\ 1 \in LiveProcs
  <2>1. 1 \in LiveProcs
    BY <1>2, <1>3, Zenon DEF LiveProcs
  <2> QED BY <1>2, <1>3, <2>1 DEF Owns, NONE
<1>5. Covered(1..n, free, dirs, pte, stab, LiveProcs, kstack)
  BY <1>1, <1>2, <1>3, <1>4, Zenon DEF Covered
<1>6. DirsUsed
  BY <1>1, <1>2, <1>3, Zenon DEF DirsUsed
<1> QED BY <1>0, <1>5, <1>6, Zenon DEF Accounted

(* After boot every frame is free or belongs to init.                      *)
LEMMA InitAccounts == Init => AInv
<1>1. NFRAME \in 3..NFRAME
  BY Numbers
<1> QED BY <1>1, BootAccounts, Zenon DEF Init, AInv, Frames

(* Every step keeps the accounts of the frames ms.                         *)
LEMMA StepAccounts ==
  ASSUME NEW ms \in SUBSET Frames, PInv, Accounted(ms), NEW p \in Procs, Step(p)
  PROVE  Accounted(ms)'
<1>0. IInv
  BY Zenon DEF PInv
<1>1. CASE (\E x \in Structs : share_data(p, x)) \/ access_shared_memory(p) \/ exit(p)
  BY <1>0, <1>1, LowAccounts, Zenon
<1>2. CASE fork(p)
  BY <1>0, <1>2, ForkAccounts, Zenon
<1>3. CASE \E k \in Deltas : grow(p, k) \/ shrink(p, k)
  BY <1>0, <1>3, GrowAccounts, ShrinkAccounts, Zenon
<1>4. CASE \E n \in Images, attach \in BOOLEAN : execLoad(p, n, attach)
  BY <1>0, <1>4, LoadAccounts, Zenon
<1>5. CASE execCommit(p)
  BY <1>5, CommitAccounts, Zenon
<1>6. CASE execBad(p)
  BY <1>0, <1>6, BadAccounts, Zenon
<1>7. CASE wait(p)
  BY <1>0, <1>7, WaitAccounts, Zenon
<1> QED BY <1>1, <1>2, <1>3, <1>4, <1>5, <1>6, <1>7, Zenon DEF Step

(* So does a step of something else.                                       *)
LEMMA IdleAccounts ==
  ASSUME NEW ms \in SUBSET Frames, Accounted(ms), UNCHANGED vars
  PROVE  Accounted(ms)'
<1>1. UNCHANGED <<state, kstack, pgdir, ex, free, dirs, pte, stab>>
  BY Zenon DEF vars
<1>2. LiveProcs' = LiveProcs
  BY <1>1, Zenon DEF LiveProcs, Live
<1>3. Covered(ms, free, dirs, pte, stab, LiveProcs, kstack)'
  BY <1>1, <1>2, Zenon DEF Accounted
<1>4. DirsUsed'
  BY <1>1, Zenon DEF Accounted, DirsUsed, Live, InExec
<1> QED BY <1>3, <1>4, Zenon DEF Accounted

(* Every step keeps the accounts.                                          *)
LEMMA NextAccounts == AInv /\ [Next]_vars => AInv'
<1> SUFFICES ASSUME AInv, [Next]_vars PROVE AInv'
  OBVIOUS
<1>0. PInv /\ Accounted(Frames) /\ Frames \in SUBSET Frames
  BY Zenon DEF AInv
<1>1. PInv'
  BY <1>0, NextPInv, Zenon
<1>2. CASE UNCHANGED vars
  <2>1. Accounted(Frames)'
    BY <1>0, <1>2, IdleAccounts, Zenon
  <2> QED BY <1>1, <2>1, Zenon DEF AInv
<1>3. ASSUME NEW p \in Procs, Step(p) PROVE Accounted(Frames)'
  BY <1>0, <1>3, StepAccounts, Zenon
<1> QED BY <1>1, <1>2, <1>3, Zenon DEF Next, AInv

(* The accounts are right throughout.                                      *)
THEOREM AInductive == Spec => []AInv
<1> QED BY InitAccounts, NextAccounts, PTL DEF Spec

(* No frame is lost, and wait or the end of an exec will free every page   *)
(* directory in use: kalloc.c, vm.c, exec.c and proc.c together.           *)
THEOREM NoFrameLost == Spec => []FramesAccounted
<1>1. ASSUME AInv PROVE FramesAccounted
  <2>0. IInv /\ Accounted(Frames)
    BY <1>1, Zenon DEF AInv, PInv
  <2> DEFINE U == UNION {freevm(d) : d \in dirs}
             K == {kstack[p] : p \in {q \in Procs : Live(q)}}
  <2>1. ASSUME NEW f \in Frames PROVE f \in free \/ f \in U \/ f \in K
    <3>1. ASSUME NEW d \in dirs, Owns(pte, stab, d, f) PROVE f \in U
      <4>1. f \in freevm(d)
        BY <3>1, OwnedFreed, Zenon
      <4> QED BY <4>1, Zenon
    <3>2. ASSUME NEW q \in LiveProcs, kstack[q] = f PROVE f \in K
      BY <3>2, Zenon DEF LiveProcs
    <3> HIDE DEF U, K
    <3> QED BY <2>0, <3>1, <3>2, Zenon DEF Accounted, Covered
  <2>2. free \subseteq Frames /\ \A d \in dirs : \A f \in freevm(d) : f \in Frames
    BY <2>0, FreevmOwned, Zenon DEF IInv, TypeOK
  <2>3. U \subseteq Frames
    BY <2>2, Zenon
  <2>4. K \subseteq Frames
    <3>1. \A q \in LiveProcs : kstack[q] \in Frames
      BY <2>0, Zenon DEF IInv, FrameInv, Exclusive
    <3> QED BY <3>1, Zenon DEF LiveProcs
  <2>5. \A p \in Procs : (Live(p) => pgdir[p] \in dirs) /\ (InExec(p) => ex[p].dir \in dirs)
    BY <2>0, Zenon DEF IInv, DirOwner
  <2>6. dirs = {pgdir[p] : p \in {q \in Procs : Live(q)}}
                 \cup {ex[p].dir : p \in {q \in Procs : InExec(q)}}
    BY <2>0, <2>5, Zenon DEF Accounted, DirsUsed
  <2>7. Frames = free \cup U \cup K
    <3> HIDE DEF U, K
    <3> QED BY <2>1, <2>2, <2>3, <2>4, Zenon
  <2> HIDE DEF freevm, Live, InExec
  <2> QED BY <2>6, <2>7, Zenon DEF FramesAccounted
<1> QED BY <1>1, AInductive, PTL
----------------------------------------------------------------------------
(* What one step leaves alone.                                             *)

HighPages == Pages \ LowPages
NoWindow(d) == \A g \in HighPages : pte[d][g] = NONE

(* Frame f is on the free list, in an image or a kernel stack.             *)
Placed(f) ==
  f \in free \/ (\E d \in dirs : Owns(pte, stab, d, f)) \/ \E q \in LiveProcs : kstack[q] = f

Same(q) ==
  /\ state'[q] = state[q] /\ parent'[q] = parent[q] /\ kstack'[q] = kstack[q]
  /\ pgdir'[q] = pgdir[q] /\ parent_pgdir'[q] = parent_pgdir[q]
  /\ shared'[q] = shared[q] /\ ex'[q] = ex[q]

SameDir(d) == pte'[d] = pte[d] /\ stab'[d] = stab[d]

SameImages(q) == (Live(q) => SameDir(pgdir[q])) /\ (InExec(q) => SameDir(ex[q].dir))

(* Every process but p keeps its fields and its images.                    *)
Others(p) == \A q \in Procs \ {p} : Same(q) /\ SameImages(q)

(* The types the steps below need.                                         *)
LEMMA Types ==
  ASSUME IInv
  PROVE  /\ state \in [Procs -> {"UNUSED", "RUN", "ZOMBIE"}] /\ parent \in [Procs -> Procs \cup {NONE}]
         /\ kstack \in [Procs -> Frames \cup {NONE}] /\ pgdir \in [Procs -> Frames \cup {NONE}]
         /\ parent_pgdir \in [Procs -> Frames \cup {NONE}]
         /\ shared \in [Procs -> [Entries -> EntryType]] /\ ex \in [Procs -> ExType]
         /\ pte \in [Frames -> [Pages -> Frames \cup {NONE}]]
         /\ stab \in [Frames -> [STabs -> Frames \cup {NONE}]]
         /\ dirs \subseteq Frames /\ free \subseteq Frames
         /\ \A q \in Procs : Live(q) => pgdir[q] \in dirs
         /\ \A q \in Procs : InExec(q) => state[q] = "RUN" /\ Live(q) /\ ex[q].dir \in dirs
BY Zenon DEF IInv, TypeOK, DirOwner, Live

(* fork: only slot np changes, and its image has no window.                *)
LEMMA ForkMoves ==
  ASSUME IInv, NEW p \in Procs, fork(p), NEW np \in Procs, FreeSlot(np)
  PROVE  /\ Others(np) /\ ~Live(np) /\ ~InExec(np)' /\ state'[np] = "RUN" /\ parent'[np] = p
         /\ parent_pgdir'[np] = pgdir[p] /\ shared'[np] = Inherit(shared[np], shared[p])
         /\ NoWindow(pgdir[np])'
<1> DEFINE n == NPages(sz[p])
           d == kalloc(2)
<1>1. PICK r \in Procs :
        /\ FreeSlot(r) /\ state' = [state EXCEPT ![r] = "RUN"] /\ parent' = [parent EXCEPT ![r] = p]
        /\ kstack' = [kstack EXCEPT ![r] = kalloc(1)] /\ pgdir' = [pgdir EXCEPT ![r] = d]
        /\ parent_pgdir' = [parent_pgdir EXCEPT ![r] = pgdir[p]]
        /\ shared' = [shared EXCEPT ![r] = Inherit(shared[r], shared[p])]
  BY Zenon DEF fork
<1>2. /\ Avail(n + 2) /\ pte' = [pte EXCEPT ![d] = CopyPages(n)] /\ UNCHANGED <<ex, stab>>
  BY Zenon DEF fork, CanFork
<1>3. r = np
  <2>1. state[r] = "UNUSED" /\ state[np] = "UNUSED"
    BY <1>1, Zenon DEF FreeSlot
  <2>2. ~(r \in 1..(np - 1)) /\ ~(np \in 1..(r - 1))
    BY <1>1, <2>1, Zenon DEF FreeSlot
  <2> QED BY <2>2, Numbers DEF Procs
<1>4. n \in Nat /\ n <= SHAREDPG
  <2>1. sz[p] \in 0..(SHAREDBASE - 1)
    BY Zenon DEF IInv, TypeOK
  <2> QED BY <2>1, PageCount, Units
<1>5. d \in Frames /\ d \notin dirs
  BY <1>2, <1>4, KallocFresh, FreeNoDir DEF IInv, TypeOK
<1>6. ~Live(np) /\ ~InExec(np)
  BY <1>1, <1>3, Types, Zenon DEF FreeSlot, Live
<1>7. \A g \in HighPages : CopyPages(n)[g] = NONE
  <2>1. \A g \in HighPages : g \in Pages /\ ~(g < n)
    BY <1>4, Numbers DEF HighPages, Pages, LowPages
  <2> QED BY <2>1, Zenon DEF CopyPages
<1> HIDE DEF d, n
<1>8. pte'[d] = CopyPages(n) /\ \A e \in dirs : SameDir(e)
  BY <1>2, <1>5, Types, Zenon DEF SameDir
<1>9. \A q \in Procs \ {np} : Same(q)
  BY <1>1, <1>2, <1>3, Types, Zenon DEF Same
<1>10. Others(np)
  BY <1>8, <1>9, Types, Zenon DEF Others, SameImages
<1>11. /\ state'[np] = "RUN" /\ parent'[np] = p /\ pgdir'[np] = d
       /\ parent_pgdir'[np] = pgdir[p] /\ shared'[np] = Inherit(shared[np], shared[p])
  BY <1>1, <1>3, Types, Zenon
<1>12. ~InExec(np)'
  BY <1>2, <1>6, Zenon DEF InExec
<1>13. NoWindow(pgdir[np])'
  BY <1>7, <1>8, <1>11, Zenon DEF NoWindow
<1> QED BY <1>6, <1>10, <1>11, <1>12, <1>13, Zenon

(* exec's first part: p gets a new image without a window.                 *)
LEMMA LoadMoves ==
  ASSUME IInv, NEW p \in Procs, NEW n \in Images, NEW attach \in BOOLEAN, execLoad(p, n, attach)
  PROVE  /\ Others(p) /\ SameDir(pgdir[p]) /\ ~InExec(p) /\ InExec(p)'
         /\ UNCHANGED <<state, parent, kstack, pgdir, parent_pgdir, shared>>
         /\ NoWindow(ex[p].dir)'
         /\ ex'[p].pc = (IF attach THEN "attach" ELSE "stack") /\ ex'[p].i = 0 /\ ex'[p].j = 0
         /\ ex'[p].vp = SHAREDPG
<1> DEFINE d == kalloc(1)
           m == [g \in Pages |-> IF g < n THEN kalloc(g + 2) ELSE NONE]
           e == Ex(IF attach THEN "attach" ELSE "stack", d, n, 0, 0, SHAREDPG)
<1>1. /\ state[p] = "RUN" /\ ex[p].pc = "user" /\ n < SHAREDPG /\ Avail(n + 1)
      /\ pte' = [pte EXCEPT ![d] = m] /\ ex' = [ex EXCEPT ![p] = e]
      /\ UNCHANGED <<state, parent, kstack, pgdir, parent_pgdir, shared, stab>>
  BY Zenon DEF execLoad, CanCall, CanExit, CanLoad, procVars
<1>2. n \in Nat
  BY Choices, Zenon
<1>3. d \in Frames /\ d \notin dirs
  BY <1>1, <1>2, KallocFresh, FreeNoDir DEF IInv, TypeOK
<1>4. /\ e.dir = d /\ e.pc # "user" /\ e.pc = (IF attach THEN "attach" ELSE "stack")
      /\ e.i = 0 /\ e.j = 0 /\ e.vp = SHAREDPG
  BY Zenon DEF Ex
<1>5. \A g \in HighPages : m[g] = NONE
  <2>1. \A g \in HighPages : g \in Pages /\ ~(g < n)
    <3>1. n < SHAREDPG
      BY <1>1, Zenon
    <3>2. \A g \in HighPages : g \in Pages /\ g \in Nat /\ ~(g < SHAREDPG)
      BY PageRanges, Zenon DEF HighPages
    <3> QED BY <1>2, <3>1, <3>2, PageRanges
  <2> QED BY <2>1, Zenon
<1> HIDE DEF d, m, e
<1>6. /\ ex'[p] = e /\ pte'[d] = m
      /\ \A c \in dirs : SameDir(c)
      /\ \A q \in Procs \ {p} : Same(q)
  BY <1>1, <1>3, Types, Zenon DEF SameDir, Same
<1>7. Live(p) /\ pgdir[p] \in dirs
  BY <1>1, Types, Zenon DEF Live
<1>8. Others(p)
  BY <1>6, Types, Zenon DEF Others, SameImages
<1>9. NoWindow(ex[p].dir)'
  BY <1>4, <1>5, <1>6, Zenon DEF NoWindow
<1>10. ~InExec(p) /\ InExec(p)'
  BY <1>1, <1>4, <1>6, Zenon DEF InExec
<1> QED BY <1>1, <1>4, <1>6, <1>7, <1>8, <1>9, <1>10, Zenon

(* access_shared_memory gives up or is done.                               *)
LEMMA LeaveMoves ==
  ASSUME IInv, NEW p \in Procs, attachEnd(p) \/ attachMissing(p) \/ attachNoMem(p)
  PROVE  /\ Others(p) /\ SameImages(p) /\ InExec(p) /\ InExec(p)'
         /\ UNCHANGED <<procVars, memVars>>
         /\ ex'[p].pc = "stack" /\ ex'[p].dir = ex[p].dir
<1> DEFINE e == Ex("stack", ex[p].dir, ex[p].n, ex[p].i, ex[p].j, ex[p].vp)
<1>1. ex[p].pc = "attach" /\ ex' = [ex EXCEPT ![p] = e]
  BY Zenon DEF attachEnd, attachMissing, attachNoMem, LeaveAttach, Attaching
<1>2. UNCHANGED <<procVars, memVars>>
  BY NoMemIdle, Zenon DEF attachEnd, attachMissing
<1>3. e.pc = "stack" /\ e.dir = ex[p].dir
  BY Zenon DEF Ex
<1> HIDE DEF e
<1>4. ex'[p] = e /\ \A q \in Procs \ {p} : ex'[q] = ex[q]
  BY <1>1, Types, Zenon
<1>5. Others(p) /\ SameImages(p)
  BY <1>2, <1>4, Zenon DEF Others, Same, SameImages, SameDir, procVars, memVars
<1> QED BY <1>1, <1>2, <1>3, <1>4, <1>5, Zenon DEF InExec

(* It has mapped the page of the parent it is at.                          *)
LEMMA PageMoves ==
  ASSUME IInv, NEW p \in Procs, attachPage(p)
  PROVE  /\ Others(p) /\ SameDir(pgdir[p]) /\ InExec(p) /\ InExec(p)'
         /\ Attaching(p) /\ InEntry(p) /\ PageLeft(p)
         /\ UNCHANGED <<procVars, dirs>>
         /\ ex'[p] = Ex("attach", ex[p].dir, ex[p].n, ex[p].i, ex[p].j + 1, ex[p].vp)
         /\ pte'[ex[p].dir][TargetPage(p)] \in Walk(parent_pgdir[p], SourcePage(p)) \ {NONE}
         /\ \A g \in Pages \ {TargetPage(p)} : pte'[ex[p].dir][g] = pte[ex[p].dir][g]
<1> DEFINE d == ex[p].dir
           g == TargetPage(p)
           e == Ex("attach", ex[p].dir, ex[p].n, ex[p].i, ex[p].j + 1, ex[p].vp)
<1>1. /\ Attaching(p) /\ InEntry(p) /\ PageLeft(p) /\ ex' = [ex EXCEPT ![p] = e]
      /\ stab' = stab \/ stab' = [stab EXCEPT ![d][STabOf(g)] = kalloc(1)]
      /\ UNCHANGED <<procVars, dirs>>
  BY Zenon DEF attachPage
<1>2. PICK f \in Walk(parent_pgdir[p], SourcePage(p)) \ {NONE} : pte' = [pte EXCEPT ![d][g] = f]
  BY Zenon DEF attachPage
<1>3. d \in dirs /\ g \in Pages /\ ex[p].pc = "attach" /\ state[p] = "RUN"
  BY <1>1, AtTarget, Zenon DEF Attaching
<1>4. Live(p) /\ InExec(p) /\ pgdir[p] \in dirs /\ pgdir[p] # d
  BY <1>3, Zenon DEF IInv, DirOwner, Live, InExec
<1>5. /\ \A q \in Procs : Live(q) => pgdir[q] # d
      /\ \A q \in Procs \ {p} : InExec(q) => ex[q].dir # d
  BY <1>4, Zenon DEF IInv, DirOwner
<1> HIDE DEF g, e
<1>6. /\ ex'[p] = e /\ \A q \in Procs \ {p} : ex'[q] = ex[q]
      /\ \A c \in dirs \ {d} : SameDir(c)
      /\ pte'[d][g] = f /\ \A h \in Pages \ {g} : pte'[d][h] = pte[d][h]
  <2> HIDE DEF d
  <2>1. ex'[p] = e /\ \A q \in Procs \ {p} : ex'[q] = ex[q]
    BY <1>1, Types, Zenon
  <2>2. \A c \in dirs \ {d} : SameDir(c)
    BY <1>1, <1>2, <1>3, Types, Zenon DEF SameDir
  <2>3. pte'[d][g] = f /\ \A h \in Pages \ {g} : pte'[d][h] = pte[d][h]
    BY <1>2, <1>3, Types, Zenon
  <2> QED BY <2>1, <2>2, <2>3, Zenon
<1>7. \A q \in Procs \ {p} : Same(q)
  BY <1>1, <1>6, Zenon DEF Same, procVars
<1>8. Others(p) /\ SameDir(pgdir[p])
  BY <1>4, <1>5, <1>6, <1>7, Types, Zenon DEF Others, SameImages
<1>9. InExec(p)'
  <2>1. e.pc = "attach"
    BY Zenon DEF e, Ex
  <2> QED BY <1>6, <2>1, Zenon DEF InExec
<1> QED BY <1>1, <1>2, <1>4, <1>6, <1>8, <1>9, Zenon DEF g, e

(* It has all pages of an entry, and moves the entry to the window.        *)
LEMMA EntryMoves ==
  ASSUME IInv, NEW p \in Procs, attachEntry(p)
  PROVE  /\ Others(p) /\ SameImages(p) /\ InExec(p) /\ InExec(p)'
         /\ Attaching(p) /\ InEntry(p) /\ ~PageLeft(p) /\ ex[p].i \in Entries
         /\ UNCHANGED <<state, parent, kstack, pgdir, parent_pgdir, memVars>>
         /\ shared'[p] = [shared[p] EXCEPT ![ex[p].i] =
                            [name |-> @.name, memstart |-> WindowAddr(p), size |-> @.size]]
         /\ ex'[p] = Ex("attach", ex[p].dir, ex[p].n, ex[p].i + 1, 0, NextVa(p))
<1> DEFINE e == Ex("attach", ex[p].dir, ex[p].n, ex[p].i + 1, 0, NextVa(p))
           s == shared[p][ex[p].i]
           w == [name |-> s.name, memstart |-> WindowAddr(p), size |-> s.size]
<1>1. /\ Attaching(p) /\ InEntry(p) /\ ~PageLeft(p)
      /\ UNCHANGED <<state, parent, kstack, pgdir, parent_pgdir, memVars>>
      /\ ex' = [ex EXCEPT ![p] = e]
  BY Zenon DEF attachEntry
<1>2. ex[p].pc = "attach" /\ state[p] = "RUN"
  BY <1>1, Zenon DEF Attaching
<1>3. ex[p].i \in Entries
  <2>1. ex[p].i < SHAREDCOUNT /\ ex[p].i \in 0..SHAREDCOUNT
    BY <1>1, ExFields, Types, Zenon DEF InEntry
  <2> QED BY <2>1, Numbers DEF Entries
<1>4. shared' = [shared EXCEPT ![p][ex[p].i] = w]
  BY <1>3, Types, Zenon DEF attachEntry
<1> HIDE DEF e, w
<1>5. /\ ex'[p] = e /\ shared'[p] = [shared[p] EXCEPT ![ex[p].i] = w]
      /\ \A q \in Procs \ {p} : ex'[q] = ex[q] /\ shared'[q] = shared[q]
  BY <1>1, <1>4, Types, Zenon
<1>6. Others(p) /\ SameImages(p)
  BY <1>1, <1>5, Zenon DEF Others, Same, SameImages, SameDir, memVars
<1>7. InExec(p) /\ InExec(p)'
  <2>1. e.pc = "attach"
    BY Zenon DEF e, Ex
  <2> QED BY <1>2, <1>5, <2>1, Zenon DEF InExec
<1>8. shared'[p] = [shared[p] EXCEPT ![ex[p].i] =
                      [name |-> @.name, memstart |-> WindowAddr(p), size |-> @.size]]
  BY <1>3, <1>5, Types, Zenon DEF w
<1> QED BY <1>1, <1>3, <1>5, <1>6, <1>7, <1>8, Zenon DEF e

(* The switch to the new image keeps the image's window.                   *)
LEMMA CommitMoves ==
  ASSUME IInv, NEW p \in Procs, execCommit(p)
  PROVE  /\ Others(p) /\ InExec(p) /\ ~InExec(p)' /\ state[p] = "RUN"
         /\ UNCHANGED <<state, parent, kstack, parent_pgdir, shared>>
         /\ pgdir'[p] = ex[p].dir /\ ex'[p].pc = "user"
         /\ \A g \in HighPages : pte'[ex[p].dir][g] = pte[ex[p].dir][g]
<1> DEFINE d == ex[p].dir
           n == ex[p].n
           o == pgdir[p]
           m == [pte[d] EXCEPT ![n] = kalloc(1), ![n + 1] = kalloc(2)]
           pt1 == [pte EXCEPT ![d] = m]
<1>1. /\ state[p] = "RUN" /\ ex[p].pc = "stack" /\ n + 2 < SHAREDPG
      /\ pgdir' = [pgdir EXCEPT ![p] = d] /\ ex' = [ex EXCEPT ![p] = InUser]
      /\ stab' = [stab EXCEPT ![o] = NoTabs]
      /\ UNCHANGED <<state, parent, kstack, parent_pgdir, shared>>
  BY Zenon DEF execCommit
<1>2. Live(p) /\ InExec(p) /\ d \in dirs /\ o \in dirs /\ d # o
  BY <1>1, Zenon DEF IInv, DirOwner, InExec, Live
<1>3. n \in LowPages /\ n + 1 \in LowPages /\ n \in Pages /\ n + 1 \in Pages
  <2>1. n \in 0..SHAREDPG
    BY ExFields, Types, Zenon
  <2>2. n + 2 < SHAREDPG
    BY <1>1, Zenon
  <2> HIDE DEF n
  <2> QED BY <2>1, <2>2, Numbers, SMTT(30) DEF LowPages, Pages
<1>4. pte' = [pt1 EXCEPT ![o] = NoPages]
  BY <1>2, <1>3, Types, Zenon DEF execCommit
<1>5. \A g \in HighPages : m[g] = pte[d][g]
  <2>1. \A g \in HighPages : g \in Pages /\ g # n /\ g # n + 1
    BY <1>3, Zenon DEF HighPages
  <2> HIDE DEF n
  <2> QED BY <1>2, <2>1, Types, Zenon
<1>6. /\ \A q \in Procs \ {p} : Live(q) => pgdir[q] \in dirs \ {d, o}
      /\ \A q \in Procs \ {p} : InExec(q) => ex[q].dir \in dirs \ {d, o}
  BY <1>2, Types, Zenon DEF IInv, DirOwner
<1> HIDE DEF d, n, o, m
<1>7. pt1 \in [Frames -> [Pages -> Frames \cup {NONE}] \cup {m}] /\ pt1[d] = m /\ \A c \in dirs \ {d} : pt1[c] = pte[c]
  BY <1>2, Types, Zenon
<1> HIDE DEF pt1
<1>8. pte'[d] = m /\ \A c \in dirs \ {d, o} : SameDir(c)
  BY <1>1, <1>2, <1>4, <1>7, Types, Zenon DEF SameDir
<1>9. /\ pgdir'[p] = d /\ ex'[p] = InUser
      /\ \A q \in Procs \ {p} : Same(q)
  BY <1>1, Types, Zenon DEF Same
<1>10. Others(p)
  BY <1>6, <1>8, <1>9, Zenon DEF Others, SameImages
<1>11. ~InExec(p)' /\ ex'[p].pc = "user"
  BY <1>9, InUserType, Zenon DEF InExec
<1> QED BY <1>1, <1>2, <1>5, <1>8, <1>9, <1>10, <1>11, Zenon DEF d

(* exec gives up the new image.                                            *)
LEMMA BadMoves ==
  ASSUME IInv, NEW p \in Procs, execBad(p)
  PROVE  /\ Others(p) /\ SameDir(pgdir[p]) /\ InExec(p) /\ ~InExec(p)' /\ state[p] = "RUN"
         /\ UNCHANGED procVars /\ ex'[p].pc = "user"
<1> DEFINE d == ex[p].dir
<1>1. /\ state[p] = "RUN" /\ ex[p].pc = "stack" /\ ex' = [ex EXCEPT ![p] = InUser]
      /\ pte' = [pte EXCEPT ![d] = NoPages] /\ stab' = [stab EXCEPT ![d] = NoTabs]
      /\ UNCHANGED procVars
  BY Zenon DEF execBad
<1>2. Live(p) /\ InExec(p) /\ d \in dirs
  BY <1>1, Zenon DEF IInv, DirOwner, InExec, Live
<1>3. /\ \A q \in Procs : Live(q) => pgdir[q] \in dirs \ {d}
      /\ \A q \in Procs \ {p} : InExec(q) => ex[q].dir \in dirs \ {d}
  BY <1>2, Types, Zenon DEF IInv, DirOwner
<1> HIDE DEF d
<1>4. \A c \in dirs \ {d} : SameDir(c)
  BY <1>1, <1>2, Types, Zenon DEF SameDir
<1>5. ex'[p] = InUser /\ \A q \in Procs \ {p} : Same(q)
  BY <1>1, Types, Zenon DEF Same, procVars
<1>6. Others(p) /\ SameDir(pgdir[p])
  BY <1>2, <1>3, <1>4, <1>5, Zenon DEF Others, SameImages
<1>7. ~InExec(p)' /\ ex'[p].pc = "user"
  BY <1>5, InUserType, Zenon DEF InExec
<1> QED BY <1>1, <1>2, <1>6, <1>7, Zenon

(* wait: only the slot of the zombie changes.                              *)
LEMMA WaitMoves ==
  ASSUME IInv, NEW p \in Procs, wait(p)
  PROVE  \E c \in Procs : /\ Zombie(p, c) /\ Others(c) /\ Live(c) /\ ~Live(c)' /\ parent'[c] = NONE
                          /\ UNCHANGED <<pgdir, shared, ex>>
<1>1. PICK c \in Procs :
        /\ Zombie(p, c)
        /\ kstack' = [kstack EXCEPT ![c] = NONE] /\ parent' = [parent EXCEPT ![c] = NONE]
        /\ state' = [state EXCEPT ![c] = "UNUSED"]
        /\ pte' = [pte EXCEPT ![pgdir[c]] = NoPages] /\ stab' = [stab EXCEPT ![pgdir[c]] = NoTabs]
  BY Zenon DEF wait
<1>2. UNCHANGED <<pgdir, parent_pgdir, shared, ex>>
  BY Zenon DEF wait
<1> DEFINE d == pgdir[c]
<1>3. state[c] = "ZOMBIE" /\ Live(c) /\ ~InExec(c) /\ d \in dirs
  <2>1. state[c] = "ZOMBIE"
    BY <1>1, Zenon DEF Zombie
  <2> QED BY <2>1, Types, Zenon DEF Live
<1>4. /\ \A q \in Procs \ {c} : Live(q) => pgdir[q] \in dirs \ {d}
      /\ \A q \in Procs : InExec(q) => ex[q].dir \in dirs \ {d}
  BY <1>3, Types, Zenon DEF IInv, DirOwner
<1>5. \A q \in Procs \ {c} : Same(q)
  BY <1>1, <1>2, Types, Zenon DEF Same
<1>6. \A e \in dirs \ {d} : SameDir(e)
  BY <1>1, <1>3, Types, Zenon DEF SameDir
<1>7. Others(c)
  BY <1>4, <1>5, <1>6, Zenon DEF Others, SameImages
<1>8. ~Live(c)' /\ parent'[c] = NONE
  BY <1>1, Types, Zenon DEF Live
<1> QED BY <1>1, <1>2, <1>3, <1>7, <1>8, Zenon

(* exit: no image changes.                                                 *)
LEMMA ExitMoves ==
  ASSUME IInv, NEW p \in Procs, exit(p)
  PROVE  /\ UNCHANGED <<kstack, pgdir, parent_pgdir, ex, memVars>>
         /\ state[p] = "RUN" /\ ~InExec(p) /\ state'[p] = "ZOMBIE" /\ parent' = Reparent(p)
         /\ shared'[p] = ClearShared(shared[p])
         /\ \A q \in Procs \ {p} : state'[q] = state[q] /\ shared'[q] = shared[q]
<1>1. /\ state[p] = "RUN" /\ ex[p].pc = "user" /\ parent' = Reparent(p)
      /\ shared' = [shared EXCEPT ![p] = ClearShared(shared[p])]
      /\ state' = [state EXCEPT ![p] = "ZOMBIE"]
      /\ UNCHANGED <<kstack, pgdir, parent_pgdir, ex, memVars>>
  BY Zenon DEF exit, CanExit
<1> QED BY <1>1, Types, Zenon DEF InExec

----------------------------------------------------------------------------
(* No step brings in a frame from outside the machine's memory.            *)

(* Every frame in use after the step was in use, or free, before it.       *)
Closed == \A f \in Frames : Placed(f)' => Placed(f)

(* Directory d, an old one or a free frame, gets free frames at most; all  *)
(* that becomes free was in use.                                           *)
LEMMA StaysClosed ==
  ASSUME NEW d \in dirs \cup free,
         \A f \in Frames : f \in free' => Placed(f),
         dirs' \subseteq dirs \cup {d},
         \A e \in dirs' \ {d} : SameDir(e),
         \A g \in LowPages : pte'[d][g] \in free \cup {NONE} \/ (d \in dirs /\ pte'[d][g] = pte[d][g]),
         \A t \in STabs : stab'[d][t] \in free \cup {NONE} \/ (d \in dirs /\ stab'[d][t] = stab[d][t]),
         \A q \in LiveProcs' : kstack'[q] \in free \/ (q \in LiveProcs /\ kstack'[q] = kstack[q])
  PROVE  Closed
<1> SUFFICES ASSUME NEW f \in Frames, Placed(f)' PROVE Placed(f)
  BY Zenon DEF Closed
<1>1. ASSUME NEW e \in dirs', e # d, Owns(pte', stab', e, f) PROVE Placed(f)
  <2>1. e \in dirs /\ Owns(pte, stab, e, f)
    BY <1>1, Zenon DEF SameDir, Owns
  <2> QED BY <2>1, Zenon DEF Placed
<1>2. ASSUME Owns(pte', stab', d, f) PROVE Placed(f)
  <2>1. f # NONE
    BY <1>2, Zenon DEF Owns
  <2>2. CASE f = d
    BY <2>1, <2>2, Zenon DEF Placed, Owns
  <2>3. ASSUME NEW g \in LowPages, pte'[d][g] = f PROVE Placed(f)
    BY <2>1, <2>3, Zenon DEF Placed, Owns
  <2>4. ASSUME NEW t \in STabs, stab'[d][t] = f PROVE Placed(f)
    BY <2>1, <2>4, Zenon DEF Placed, Owns
  <2> QED BY <1>2, <2>2, <2>3, <2>4, Zenon DEF Owns
<1>3. ASSUME NEW q \in LiveProcs', kstack'[q] = f PROVE Placed(f)
  BY <1>3, Zenon DEF Placed
<1> QED BY <1>1, <1>2, <1>3, Zenon DEF Placed

(* freevm gives back frames in use.                                        *)
LEMMA FreedPlaced ==
  ASSUME IInv, NEW d \in dirs, NEW f \in freevm(d)
  PROVE  Placed(f)
BY FreevmOwned, Zenon DEF Placed

(* fork takes its frames from the free list.                               *)
LEMMA ForkClosed ==
  ASSUME IInv, NEW p \in Procs, fork(p)
  PROVE  Closed
<1> DEFINE n == NPages(sz[p])
           d == kalloc(2)
<1>1. PICK r \in Procs :
        FreeSlot(r) /\ state' = [state EXCEPT ![r] = "RUN"] /\ kstack' = [kstack EXCEPT ![r] = kalloc(1)]
  BY Zenon DEF fork
<1>2. /\ Avail(n + 2) /\ free' = free \ Taken(n + 2) /\ dirs' = dirs \cup {d}
      /\ pte' = [pte EXCEPT ![d] = CopyPages(n)] /\ UNCHANGED stab
  BY Zenon DEF fork, CanFork
<1>3. n \in Nat
  <2>1. sz[p] \in 0..(SHAREDBASE - 1)
    BY Zenon DEF IInv, TypeOK
  <2> QED BY <2>1, PageCount, Units
<1>4. \A i \in 1..(n + 2) : kalloc(i) \in free
  BY <1>2, <1>3, KallocFresh
<1>5. kalloc(1) \in free /\ d \in free
  BY <1>3, <1>4
<1>6. d \in Frames /\ d \notin dirs
  BY <1>5, FreeNoDir, Types, Zenon
<1>7. \A g \in LowPages : CopyPages(n)[g] \in free \cup {NONE}
  <2>1. \A g \in LowPages : g \in Pages /\ (g < n => g + 3 \in 1..(n + 2))
    BY <1>3, Numbers DEF LowPages, Pages
  <2> HIDE DEF n
  <2> QED BY <1>4, <2>1, Zenon DEF CopyPages
<1>8. \A t \in STabs : stab'[d][t] = NONE
  BY <1>2, <1>6, Zenon DEF IInv, FrameInv, NoTabs
<1> HIDE DEF d, n
<1>9. /\ pte'[d] = CopyPages(n) /\ \A e \in dirs : SameDir(e)
      /\ dirs' \subseteq dirs \cup {d} /\ \A e \in dirs' \ {d} : e \in dirs
  BY <1>2, <1>6, Types, Zenon DEF SameDir
<1>10. \A q \in LiveProcs' : kstack'[q] \in free \/ (q \in LiveProcs /\ kstack'[q] = kstack[q])
  <2>1. kstack'[r] = kalloc(1) /\ \A q \in Procs \ {r} : state'[q] = state[q] /\ kstack'[q] = kstack[q]
    BY <1>1, Types, Zenon
  <2> QED BY <1>5, <2>1, Zenon DEF LiveProcs, Live
<1>11. \A f \in Frames : f \in free' => Placed(f)
  BY <1>2, Zenon DEF Placed
<1>12. \A g \in LowPages : pte'[d][g] \in free \cup {NONE}
  BY <1>7, <1>9, Zenon
<1>13. d \in free
  BY <1>5, Zenon DEF d
<1> QED BY <1>8, <1>9, <1>10, <1>11, <1>12, <1>13, StaysClosed, Zenon

(* So does exec's first part.                                              *)
LEMMA LoadClosed ==
  ASSUME IInv, NEW p \in Procs, NEW n \in Images, NEW attach \in BOOLEAN, execLoad(p, n, attach)
  PROVE  Closed
<1> DEFINE d == kalloc(1)
           m == [g \in Pages |-> IF g < n THEN kalloc(g + 2) ELSE NONE]
<1>1. /\ Avail(n + 1) /\ free' = free \ Taken(n + 1) /\ dirs' = dirs \cup {d}
      /\ pte' = [pte EXCEPT ![d] = m] /\ UNCHANGED <<state, kstack, stab>>
  BY Zenon DEF execLoad, CanLoad, procVars
<1>2. n \in Nat
  BY Choices, Zenon
<1>3. \A i \in 1..(n + 1) : kalloc(i) \in free
  BY <1>1, <1>2, KallocFresh
<1>4. d \in free
  BY <1>2, <1>3
<1>5. d \in Frames /\ d \notin dirs
  BY <1>4, FreeNoDir, Types, Zenon
<1>6. \A g \in LowPages : m[g] \in free \cup {NONE}
  <2>1. \A g \in LowPages : g \in Pages /\ (g < n => g + 2 \in 1..(n + 1))
    BY <1>2, Numbers DEF LowPages, Pages
  <2> QED BY <1>3, <2>1, Zenon
<1>7. \A t \in STabs : stab'[d][t] = NONE
  BY <1>1, <1>5, Zenon DEF IInv, FrameInv, NoTabs
<1> HIDE DEF d, m
<1>8. /\ pte'[d] = m /\ \A e \in dirs : SameDir(e)
      /\ dirs' \subseteq dirs \cup {d} /\ \A e \in dirs' \ {d} : e \in dirs
  BY <1>1, <1>5, Types, Zenon DEF SameDir
<1>9. \A q \in LiveProcs' : q \in LiveProcs /\ kstack'[q] = kstack[q]
  BY <1>1, Zenon DEF LiveProcs, Live
<1>10. \A f \in Frames : f \in free' => Placed(f)
  BY <1>1, Zenon DEF Placed
<1>11. \A g \in LowPages : pte'[d][g] \in free \cup {NONE}
  BY <1>6, <1>8, Zenon
<1> QED BY <1>4, <1>7, <1>8, <1>9, <1>10, <1>11, StaysClosed, Zenon

(* So does access_shared_memory, for a page table.                         *)
LEMMA PageClosed ==
  ASSUME IInv, NEW p \in Procs, attachPage(p)
  PROVE  Closed
<1> DEFINE d == ex[p].dir
           g == TargetPage(p)
           t == STabOf(g)
<1>1. /\ Attaching(p) /\ InEntry(p) /\ PageLeft(p) /\ UNCHANGED <<state, kstack, dirs>>
      /\ \/ UNCHANGED <<stab, free>>
         \/ /\ Avail(1) /\ stab' = [stab EXCEPT ![d][t] = kalloc(1)] /\ free' = free \ Taken(1)
  BY Zenon DEF attachPage, procVars
<1>2. PICK f : pte' = [pte EXCEPT ![d][g] = f]
  BY Zenon DEF attachPage
<1>3. d \in dirs /\ g \in Pages /\ g >= SHAREDPG /\ t = 0 /\ t \in STabs
  BY <1>1, AtTarget, TabZero, Zenon
<1>4. g \notin LowPages /\ LowPages \subseteq Pages
  BY <1>3, Numbers DEF LowPages, Pages
<1> HIDE DEF d, g, t
<1>5. /\ \A h \in LowPages : pte'[d][h] = pte[d][h]
      /\ \A e \in dirs \ {d} : pte'[e] = pte[e]
  BY <1>2, <1>3, <1>4, Types, Zenon
<1>6. /\ \A e \in dirs \ {d} : stab'[e] = stab[e]
      /\ \A u \in STabs : stab'[d][u] \in free \/ stab'[d][u] = stab[d][u]
  <2>1. CASE UNCHANGED stab
    BY <2>1, Zenon
  <2>2. CASE Avail(1) /\ stab' = [stab EXCEPT ![d][t] = kalloc(1)]
    <3>1. kalloc(1) \in free
      BY <2>2, KallocFresh
    <3> QED BY <1>3, <2>2, <3>1, Types, Zenon
  <2> QED BY <1>1, <2>1, <2>2, Zenon
<1>7. \A f2 \in Frames : f2 \in free' => Placed(f2)
  BY <1>1, Zenon DEF Placed
<1>8. /\ \A q \in LiveProcs' : q \in LiveProcs /\ kstack'[q] = kstack[q]
      /\ \A e \in dirs' \ {d} : SameDir(e)
      /\ dirs' \subseteq dirs \cup {d}
  BY <1>1, <1>5, <1>6, Zenon DEF LiveProcs, Live, SameDir
<1> QED BY <1>3, <1>5, <1>6, <1>7, <1>8, StaysClosed, Zenon

(* exec takes two pages and gives the old image back.                      *)
LEMMA CommitClosed ==
  ASSUME IInv, NEW p \in Procs, execCommit(p)
  PROVE  Closed
<1> DEFINE d == ex[p].dir
           n == ex[p].n
           o == pgdir[p]
           m == [pte[d] EXCEPT ![n] = kalloc(1), ![n + 1] = kalloc(2)]
           pt1 == [pte EXCEPT ![d] = m]
<1>1. /\ state[p] = "RUN" /\ ex[p].pc = "stack" /\ n + 2 < SHAREDPG /\ Avail(2)
      /\ free' = (free \ Taken(2)) \cup freevm(o) /\ dirs' = dirs \ {o}
      /\ stab' = [stab EXCEPT ![o] = NoTabs] /\ UNCHANGED <<state, kstack>>
  BY Zenon DEF execCommit
<1>2. Live(p) /\ InExec(p) /\ d \in dirs /\ o \in dirs /\ d # o
  BY <1>1, Zenon DEF IInv, DirOwner, InExec, Live
<1>3. n \in LowPages /\ n + 1 \in LowPages /\ LowPages \subseteq Pages
  <2>1. n \in 0..SHAREDPG
    BY ExFields, Types, Zenon
  <2>2. n + 2 < SHAREDPG
    BY <1>1, Zenon
  <2> HIDE DEF n
  <2> QED BY <2>1, <2>2, Numbers, SMTT(30) DEF LowPages, Pages
<1>4. pte' = [pt1 EXCEPT ![o] = NoPages]
  BY <1>2, <1>3, Types, Zenon DEF execCommit
<1>5. kalloc(1) \in free /\ kalloc(2) \in free
  BY <1>1, KallocFresh
<1> HIDE DEF d, n, o
<1>6. \A g \in LowPages : m[g] \in free \/ m[g] = pte[d][g]
  BY <1>2, <1>3, <1>5, Types, Zenon
<1> HIDE DEF m
<1>7. pt1 \in [Frames -> [Pages -> Frames \cup {NONE}] \cup {m}] /\ pt1[d] = m /\ \A c \in dirs \ {d} : pt1[c] = pte[c]
  BY <1>2, Types, Zenon
<1> HIDE DEF pt1
<1>8. /\ pte'[d] = m /\ stab'[d] = stab[d]
      /\ \A c \in dirs' \ {d} : SameDir(c)
      /\ dirs' \subseteq dirs \cup {d}
  BY <1>1, <1>2, <1>4, <1>7, Types, Zenon DEF SameDir
<1>9. \A q \in LiveProcs' : q \in LiveProcs /\ kstack'[q] = kstack[q]
  BY <1>1, Zenon DEF LiveProcs, Live
<1>10. \A f \in Frames : f \in free' => Placed(f)
  <2>1. \A f \in freevm(o) : Placed(f)
    BY <1>2, FreedPlaced, Zenon
  <2>2. \A f \in free : Placed(f)
    BY Zenon DEF Placed
  <2> HIDE DEF freevm, Placed
  <2> QED BY <1>1, <2>1, <2>2, Zenon
<1>11. \A g \in LowPages : pte'[d][g] \in free \/ pte'[d][g] = pte[d][g]
  BY <1>6, <1>8, Zenon
<1> QED BY <1>2, <1>8, <1>9, <1>10, <1>11, StaysClosed, Zenon

(* No directory gets anything.                                             *)
LEMMA GivesClosed ==
  ASSUME \A f \in Frames : f \in free' => Placed(f),
         \A e \in dirs' : e \in dirs /\ SameDir(e),
         \A q \in LiveProcs' : q \in LiveProcs /\ kstack'[q] = kstack[q]
  PROVE  Closed
<1> SUFFICES ASSUME NEW f \in Frames, Placed(f)' PROVE Placed(f)
  BY Zenon DEF Closed
<1>1. ASSUME NEW e \in dirs', Owns(pte', stab', e, f) PROVE Placed(f)
  <2>1. e \in dirs /\ Owns(pte, stab, e, f)
    BY <1>1, Zenon DEF SameDir, Owns
  <2> QED BY <2>1, Zenon DEF Placed
<1>2. ASSUME NEW q \in LiveProcs', kstack'[q] = f PROVE Placed(f)
  BY <1>2, Zenon DEF Placed
<1> QED BY <1>1, <1>2, Zenon DEF Placed

(* A failed exec and wait give back what was in use.                       *)
LEMMA GiveClosed ==
  ASSUME IInv, NEW p \in Procs, execBad(p) \/ wait(p)
  PROVE  Closed
<1>1. CASE execBad(p)
  <2> DEFINE d == ex[p].dir
  <2>1. /\ state[p] = "RUN" /\ ex[p].pc = "stack" /\ free' = free \cup freevm(d) /\ dirs' = dirs \ {d}
        /\ pte' = [pte EXCEPT ![d] = NoPages] /\ stab' = [stab EXCEPT ![d] = NoTabs]
        /\ UNCHANGED <<state, kstack>>
    BY <1>1, Zenon DEF execBad, procVars
  <2>2. d \in dirs
    BY <2>1, Types, Zenon DEF InExec
  <2> HIDE DEF d
  <2>3. \A e \in dirs' : e \in dirs /\ SameDir(e)
    BY <2>1, <2>2, Types, Zenon DEF SameDir
  <2>4. /\ \A f \in Frames : f \in free' => Placed(f)
        /\ \A q \in LiveProcs' : q \in LiveProcs /\ kstack'[q] = kstack[q]
    <3>1. \A f \in freevm(d) : Placed(f)
      BY <2>2, FreedPlaced, Zenon
    <3>2. \A f \in free : Placed(f)
      BY Zenon DEF Placed
    <3> HIDE DEF freevm, Placed
    <3> QED BY <2>1, <3>1, <3>2, Zenon DEF LiveProcs, Live
  <2> QED BY <2>3, <2>4, GivesClosed, Zenon
<1>2. CASE wait(p)
  <2>1. PICK c \in Procs :
          /\ Zombie(p, c) /\ kstack' = [kstack EXCEPT ![c] = NONE] /\ state' = [state EXCEPT ![c] = "UNUSED"]
          /\ free' = free \cup (freevm(pgdir[c]) \cup {kstack[c]}) /\ dirs' = dirs \ {pgdir[c]}
          /\ pte' = [pte EXCEPT ![pgdir[c]] = NoPages] /\ stab' = [stab EXCEPT ![pgdir[c]] = NoTabs]
    BY <1>2, Zenon DEF wait, Reaped
  <2> DEFINE d == pgdir[c]
  <2>2. d \in dirs /\ c \in LiveProcs
    BY <2>1, Types, Zenon DEF Zombie, Live, LiveProcs
  <2>3. \A e \in dirs' : e \in dirs /\ SameDir(e)
    BY <2>1, <2>2, Types, Zenon DEF SameDir
  <2>4. \A f \in Frames : f \in free' => Placed(f)
    <3>1. \A f \in freevm(d) : Placed(f)
      BY <2>2, FreedPlaced, Zenon
    <3>2. Placed(kstack[c]) /\ \A f \in free : Placed(f)
      BY <2>2, Zenon DEF Placed
    <3> HIDE DEF freevm, Placed
    <3> QED BY <2>1, <3>1, <3>2, Zenon
  <2>5. \A q \in LiveProcs' : q \in LiveProcs /\ kstack'[q] = kstack[q]
    BY <2>1, Types, Zenon DEF LiveProcs, Live
  <2> QED BY <2>3, <2>4, <2>5, GivesClosed, Zenon
<1> QED BY <1>1, <1>2, Zenon

(* Steps that move no frame.                                               *)
LEMMA IdleClosed ==
  ASSUME UNCHANGED <<kstack, memVars>>, \A q \in Procs : Live(q)' => Live(q)
  PROVE  Closed
<1>1. \A q \in LiveProcs' : q \in LiveProcs
  BY Zenon DEF LiveProcs
<1> QED BY <1>1, Zenon DEF Closed, Placed, Owns, memVars
=============================================================================
