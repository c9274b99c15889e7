----------------------------- MODULE SharedMem -----------------------------
(***************************************************************************)
(* Parent/child shared memory: the processes' shared[] arrays, their page  *)
(* directories and the physical frames behind them.                        *)
(*                                                                         *)
(* Addresses are counted in words (a word is sizeof(uint)); a page is      *)
(* PGSIZE words.  The proportions of the address space are those of        *)
(* memlayout.h: the shared window starts at a quarter of it (SHAREDBASE),  *)
(* the kernel at one half, and unsigned arithmetic wraps at the whole.     *)
(*                                                                         *)
(* A system call is one action, except exec, which is cut where another    *)
(* CPU can change what exec reads: it walks the parent's page directory,   *)
(* page by page, without any lock.  Scheduling, sleeping and killing only  *)
(* decide when a process takes its next step; here any process may.        *)
(***************************************************************************)
EXTENDS Integers, FiniteSets

CONSTANTS
  NPROC,        \* slots of the process table
  SHAREDCOUNT,  \* entries of proc.shared[]
  PGSIZE,       \* words per page
  SHAREDPG,     \* page number of SHAREDBASE
  NPT,          \* pages mapped by one page-table page (NPTENTRIES)
  NFRAME,       \* physical frames kinit hands to the allocator
  Structs,      \* arguments of share_data: [name, addr, size], a name being
                \* <<its first SHAREDNAME characters, the rest>>
  Images,       \* page counts of the programs exec loads
  Deltas,       \* arguments of sbrk
  JunkPtes      \* what a walk of a freed directory may find

Procs == 1..NPROC
Frames == 1..NFRAME
NONE == 0                     \* the null pointer, the absent page
initproc == 1
Entries == 0..(SHAREDCOUNT - 1)
SHAREDBASE == SHAREDPG * PGSIZE
UINT == 4 * SHAREDBASE        \* 2^32, in words
Pages == 0..(2 * SHAREDPG - 1)
LowPages == 0..(SHAREDPG - 1)
STabs == 0..((SHAREDPG - 1) \div NPT)
Names == {x.name : x \in Structs}
Sizes == {x.size : x \in Structs}
MaxPages == SHAREDPG \div SHAREDCOUNT

PageOf(a) == a \div PGSIZE
NPages(a) == (a + PGSIZE - 1) \div PGSIZE    \* PGROUNDUP(a) / PGSIZE

(* Bounds of the model: the entries of one array fit in the shared window, *)
(* and a rounded size is neither negative nor wraps.                       *)
ASSUME SharedMemAssumption ==
  /\ NPROC \in Nat \ {0} /\ SHAREDCOUNT \in Nat \ {0}
  /\ PGSIZE \in Nat \ {0} /\ SHAREDPG \in Nat \ {0, 1} /\ NPT \in Nat \ {0}
  /\ NFRAME \in Nat /\ NFRAME >= 3
  /\ \A x \in Structs : /\ DOMAIN x.name = {1, 2} /\ x.addr \in Nat /\ x.size \in Int
                         /\ NPages(x.size) \in 0..MaxPages
  /\ Images \subseteq 1..SHAREDPG
  /\ Deltas \subseteq Int
  /\ JunkPtes \subseteq Frames \cup {NONE}
  /\ JunkPtes # {}

VARIABLES
  state,         \* procstate, with the live states of the scheduler as "RUN"
  parent,        \* proc.parent
  kstack,        \* proc.kstack
  pgdir,         \* proc.pgdir: the frame of the page directory
  parent_pgdir,  \* proc.parent_pgdir
  sz,            \* proc.sz
  shared,        \* proc.shared[]
  ex,            \* the locals of a process inside exec
  free,          \* kmem.freelist
  dirs,          \* frames in use as page directories
  pte,           \* user pages mapped by each directory: page -> frame
  stab           \* page-table pages of each directory's shared window

procVars == <<state, parent, kstack, pgdir, parent_pgdir, sz, shared>>
memVars == <<free, dirs, pte, stab>>
vars == <<state, parent, kstack, pgdir, parent_pgdir, sz, shared, ex,
          free, dirs, pte, stab>>

----------------------------------------------------------------------------
(* Page allocator.  The free list is kept in address order; no property    *)
(* below depends on which free frame kalloc hands out.                     *)

IsNth(f, i) == Cardinality({g \in free : g < f}) = i - 1
Avail(k) == \A i \in 1..k : \E f \in free : IsNth(f, i)
kalloc(i) == CHOOSE f \in free : IsNth(f, i)
Taken(k) == {kalloc(i) : i \in 1..k}

(* Page directories.  A directory's own frame stands for the directory,    *)
(* the kernel's page tables and the page table of the low user pages: one  *)
(* is never allocated or freed without the others.                         *)

NoPages == [g \in Pages |-> NONE]
NoTabs == [t \in STabs |-> NONE]
STabOf(g) == (g - SHAREDPG) \div NPT
LowFrames(d) == {pte[d][g] : g \in LowPages} \ {NONE}
TabFrames(d) == {stab[d][t] : t \in STabs} \ {NONE}

(* Mutated form of freevm: it frees up to KERNBASE, the window included.   *)
freevmWindow(d) == ({pte[d][g] : g \in Pages} \ {NONE}) \cup TabFrames(d) \cup {d}

(* What freevm(d) gives back: every page below SHAREDBASE, every           *)
(* page-table page and the directory.  Pages of the shared window belong   *)
(* to the parent and are left alone.                                       *)
freevm(d) == LowFrames(d) \cup TabFrames(d) \cup {d}

(* walkpgdir(d, page, 0) followed by the PTE_P test; the frame found, or   *)
(* NONE.  A directory that was freed holds junk, or whatever its frame is  *)
(* used for now.                                                           *)
Walk(d, g) ==
  IF d \in dirs THEN {IF g \in Pages THEN pte[d][g] ELSE NONE} ELSE JunkPtes

----------------------------------------------------------------------------
EmptyEntry == [name |-> "", memstart |-> 0, size |-> 0]
Ex(pc, dir, n, i, j, vp) == [pc |-> pc, dir |-> dir, n |-> n, i |-> i, j |-> j, vp |-> vp]
InUser == Ex("user", NONE, 0, 0, 0, 0)

(* main and userinit: init runs initcode from its one page; n frames of    *)
(* memory.                                                                 *)
InitWith(n) ==
  /\ state = [p \in Procs |-> IF p = initproc THEN "RUN" ELSE "UNUSED"]
  /\ parent = [p \in Procs |-> NONE]
  /\ kstack = [p \in Procs |-> IF p = initproc THEN 1 ELSE NONE]
  /\ pgdir = [p \in Procs |-> IF p = initproc THEN 2 ELSE NONE]
  /\ parent_pgdir = [p \in Procs |-> NONE]
  /\ sz = [p \in Procs |-> IF p = initproc THEN PGSIZE ELSE 0]
  /\ shared = [p \in Procs |-> [i \in Entries |-> EmptyEntry]]
  /\ ex = [p \in Procs |-> InUser]
  /\ free = 4..n
  /\ dirs = {2}
  /\ pte = [f \in Frames |-> IF f = 2 THEN [NoPages EXCEPT ![0] = 3] ELSE NoPages]
  /\ stab = [f \in Frames |-> NoTabs]

Init == InitWith(NFRAME)

(* A process that can enter the kernel: its text is still mapped.          *)
CanExit(p) == state[p] = "RUN" /\ ex[p].pc = "user"
CanCall(p) == CanExit(p) /\ pte[pgdir[p]][0] # NONE

----------------------------------------------------------------------------
(* sys_share_data and sys_get_data.  A call that returns an error changes  *)
(* nothing.                                                                *)

(* The loop over the entries reaches a free one, k, before one that has    *)
(* the name.  (Else share_data returns -1 for a bad address, -2 for a name *)
(* taken before k, -3 for a full array.)                                   *)
CanShare(p, x, k) ==
  /\ x.addr < sz[p]
  /\ shared[p][k].size = 0
  /\ \A j \in 0..(k - 1) : shared[p][j].size # 0 /\ shared[p][j].name # x.name[1]

share_data(p, x) ==
  /\ CanCall(p)
  /\ \E k \in Entries :
       /\ CanShare(p, x, k)
       /\ shared' = [shared EXCEPT ![p][k] =
                       [name |-> x.name[1], memstart |-> x.addr, size |-> x.size]]
  /\ UNCHANGED <<state, parent, kstack, pgdir, parent_pgdir, sz, ex, memVars>>

(* The address get_data stores for name n, as a set: empty when it returns *)
(* -2.  The first entry with the name counts, whatever its size.           *)
get_data(s, n) ==
  {s[i].memstart : i \in {k \in Entries : /\ s[k].name = n[1]
                                          /\ \A j \in 0..(k - 1) : s[j].name # n[1]}}

----------------------------------------------------------------------------
(* fork: allocproc takes the first unused slot and a kernel stack, copyuvm *)
(* a directory and a copy of every page; running out of either leaves      *)
(* everything as it was.  The entries of shared[] that fork does not copy  *)
(* keep what the slot's previous process left there.  copyuvm panics when  *)
(* a page below sz is not mapped.                                          *)
FreeSlot(np) == state[np] = "UNUSED" /\ \A q \in 1..(np - 1) : state[q] # "UNUSED"

(* The entries of s up to the first free one, over those of old.           *)
Inherit(old, s) ==
  [i \in Entries |-> IF \A j \in 0..i : s[j].size # 0 THEN s[i] ELSE old[i]]

forkPanics(p) ==
  /\ CanCall(p)
  /\ \E g \in 0..(NPages(sz[p]) - 1) : pte[pgdir[p]][g] = NONE

CanFork(p) ==
  /\ \E np \in Procs : FreeSlot(np)
  /\ Avail(NPages(sz[p]) + 2)

(* The pages copyuvm makes, after kernel stack and directory.              *)
CopyPages(n) ==
  [g \in Pages |-> IF g < n THEN kalloc(g + 3) ELSE NONE]

fork(p) ==
  LET n == NPages(sz[p])
      d == kalloc(2)
  IN  /\ CanCall(p) /\ ~forkPanics(p) /\ CanFork(p)
      /\ \E np \in Procs :
           /\ FreeSlot(np)
           /\ state' = [state EXCEPT ![np] = "RUN"]
           /\ parent' = [parent EXCEPT ![np] = p]
           /\ kstack' = [kstack EXCEPT ![np] = kalloc(1)]
           /\ pgdir' = [pgdir EXCEPT ![np] = d]
           /\ parent_pgdir' = [parent_pgdir EXCEPT ![np] = pgdir[p]]
           /\ sz' = [sz EXCEPT ![np] = sz[p]]
           /\ shared' = [shared EXCEPT ![np] = Inherit(shared[np], shared[p])]
      /\ free' = free \ Taken(n + 2)
      /\ dirs' = dirs \cup {d}
      /\ pte' = [pte EXCEPT ![d] = CopyPages(n)]
      /\ UNCHANGED <<ex, stab>>

----------------------------------------------------------------------------
(* sbrk: growproc, allocuvm and deallocuvm.                                *)

UserTopKern == 2 * SHAREDBASE   \* mutated form: allocuvm's bound is KERNBASE

UserTop == SHAREDBASE           \* allocuvm fails from here on

grow(p, n) ==
  LET old == NPages(sz[p])
      new == NPages(sz[p] + n)
      d == pgdir[p]
  IN  /\ CanCall(p) /\ n > 0
      /\ sz[p] + n < UserTop
      /\ Avail(new - old)
      /\ sz' = [sz EXCEPT ![p] = sz[p] + n]
      /\ free' = free \ Taken(new - old)
      /\ pte' = [pte EXCEPT ![d] = [g \in Pages |-> IF g \in old..(new - 1)
                                                      THEN kalloc(g - old + 1)
                                                      ELSE pte[d][g]]]
      /\ UNCHANGED <<state, parent, kstack, pgdir, parent_pgdir, shared, ex, dirs, stab>>

(* The pages from newsz up are freed; when newsz is 0, growproc takes      *)
(* deallocuvm's result for a failure and leaves sz alone.                  *)
shrink(p, n) ==
  LET newsz == (sz[p] + n) % UINT
      d == pgdir[p]
      gone == {g \in LowPages : g >= NPages(newsz) /\ g * PGSIZE < sz[p]}
  IN  /\ CanCall(p) /\ n < 0
      /\ newsz < sz[p]
      /\ sz' = [sz EXCEPT ![p] = IF newsz = 0 THEN sz[p] ELSE newsz]
      /\ free' = free \cup ({pte[d][g] : g \in gone} \ {NONE})
      /\ pte' = [pte EXCEPT ![d] = [g \in Pages |-> IF g \in gone THEN NONE ELSE pte[d][g]]]
      /\ UNCHANGED <<state, parent, kstack, pgdir, parent_pgdir, shared, ex, dirs, stab>>

----------------------------------------------------------------------------
(* exec.  First part: a new directory and the program's pages.  attach is  *)
(* exec's test that argv[0] is "comma" or "lisa".                          *)
CanLoad(n) == n < SHAREDPG /\ Avail(n + 1)

execLoad(p, n, attach) ==
  LET d == kalloc(1)
  IN  /\ CanCall(p) /\ CanLoad(n)
      /\ ex' = [ex EXCEPT ![p] =
                  Ex(IF attach THEN "attach" ELSE "stack", d, n, 0, 0, SHAREDPG)]
      /\ free' = free \ Taken(n + 1)
      /\ dirs' = dirs \cup {d}
      /\ pte' = [pte EXCEPT ![d] =
                   [g \in Pages |-> IF g < n THEN kalloc(g + 2) ELSE NONE]]
      /\ UNCHANGED <<procVars, stab>>

(* access_shared_memory, one page at a time: ex[p].i is the entry, ex[p].j *)
(* the page of the entry and ex[p].vp the page of va, the window address   *)
(* of the entry, which is always page aligned.                             *)
Attaching(p) == state[p] = "RUN" /\ ex[p].pc = "attach"
Entry(p) == shared[p][ex[p].i]
InEntry(p) == ex[p].i < SHAREDCOUNT /\ Entry(p).size # 0
SourcePage(p) == PageOf(Entry(p).memstart) + ex[p].j
TargetPage(p) == ex[p].vp + ex[p].j
PageLeft(p) == ex[p].j < NPages(Entry(p).size)

LeaveAttach(p) ==
  ex' = [ex EXCEPT ![p] = Ex("stack", @.dir, @.n, @.i, @.j, @.vp)]

(* The loop ends at the first free entry, or past the last one.            *)
attachEnd(p) ==
  /\ Attaching(p) /\ ~InEntry(p)
  /\ LeaveAttach(p)
  /\ UNCHANGED <<procVars, memVars>>

(* walkpgdir of the parent's directory finds no page: return -1, which     *)
(* exec ignores.                                                           *)
attachMissing(p) ==
  /\ Attaching(p) /\ InEntry(p) /\ PageLeft(p)
  /\ NONE \in Walk(parent_pgdir[p], SourcePage(p))
  /\ LeaveAttach(p)
  /\ UNCHANGED <<procVars, memVars>>

(* mappages maps the parent's frame in the window, with a new page-table   *)
(* page where the window has none yet; it panics on a page that is already *)
(* mapped.                                                                 *)
remapPanics(p) ==
  /\ Attaching(p) /\ InEntry(p) /\ PageLeft(p)
  /\ pte[ex[p].dir][TargetPage(p)] # NONE

attachPage(p) ==
  LET d == ex[p].dir
      g == TargetPage(p)
      t == STabOf(g)
  IN  /\ Attaching(p) /\ InEntry(p) /\ PageLeft(p) /\ ~remapPanics(p)
      /\ \E f \in Walk(parent_pgdir[p], SourcePage(p)) \ {NONE} :
           pte' = [pte EXCEPT ![d][g] = f]
      /\ \/ /\ stab[d][t] # NONE
            /\ UNCHANGED <<stab, free>>
         \/ /\ stab[d][t] = NONE
            /\ Avail(1)
            /\ stab' = [stab EXCEPT ![d][t] = kalloc(1)]
            /\ free' = free \ Taken(1)
      /\ ex' = [ex EXCEPT ![p] = Ex("attach", d, @.n, @.i, @.j + 1, @.vp)]
      /\ UNCHANGED <<procVars, dirs>>

(* No frame for the page-table page: deallocuvm frees what this entry has  *)
(* mapped so far - frames of the parent - and the loop gives up.           *)
attachNoMem(p) ==
  LET d == ex[p].dir
      gone == ex[p].vp .. (ex[p].vp + NPages(Entry(p).size) - 1)
  IN  /\ Attaching(p) /\ InEntry(p) /\ PageLeft(p)
      /\ \E f \in Walk(parent_pgdir[p], SourcePage(p)) : f # NONE
      /\ stab[d][STabOf(TargetPage(p))] = NONE
      /\ ~Avail(1)
      /\ free' = free \cup ({pte[d][g] : g \in gone} \ {NONE})
      /\ pte' = [pte EXCEPT ![d] = [g \in Pages |-> IF g \in gone THEN NONE ELSE pte[d][g]]]
      /\ LeaveAttach(p)
      /\ UNCHANGED <<procVars, dirs, stab>>

(* Where the entry is in the window, and the page where the next starts.   *)
WindowAddrNoOffset(p) == ex[p].vp * PGSIZE    \* mutated form

WindowAddr(p) == ex[p].vp * PGSIZE + (Entry(p).memstart % PGSIZE)

NextVaSame(p) == ex[p].vp                     \* mutated form: va stays

NextVa(p) == ex[p].vp + NPages(Entry(p).size)

(* All pages of the entry are mapped: the entry now holds its window       *)
(* address.  This is before exec knows whether it will succeed.            *)
attachEntry(p) ==
  /\ Attaching(p) /\ InEntry(p) /\ ~PageLeft(p)
  /\ shared' = [shared EXCEPT ![p][ex[p].i] =
                  [name |-> @.name, memstart |-> WindowAddr(p), size |-> @.size]]
  /\ ex' = [ex EXCEPT ![p] = Ex("attach", @.dir, @.n, @.i + 1, 0, NextVa(p))]
  /\ UNCHANGED <<state, parent, kstack, pgdir, parent_pgdir, sz, memVars>>

access_shared_memory(p) ==
  attachEnd(p) \/ attachMissing(p) \/ attachPage(p) \/ attachNoMem(p) \/ attachEntry(p)

(* Guard page and stack page, then the switch to the new image.            *)
execCommit(p) ==
  LET d == ex[p].dir
      n == ex[p].n
  IN  /\ state[p] = "RUN" /\ ex[p].pc = "stack"
      /\ n + 2 < SHAREDPG
      /\ Avail(2)
      /\ pgdir' = [pgdir EXCEPT ![p] = d]
      /\ sz' = [sz EXCEPT ![p] = (n + 2) * PGSIZE]
      /\ ex' = [ex EXCEPT ![p] = InUser]
      /\ free' = (free \ Taken(2)) \cup freevm(pgdir[p])
      /\ dirs' = dirs \ {pgdir[p]}
      /\ pte' = [pte EXCEPT ![d][n] = kalloc(1), ![d][n + 1] = kalloc(2),
                            ![pgdir[p]] = NoPages]
      /\ stab' = [stab EXCEPT ![pgdir[p]] = NoTabs]
      /\ UNCHANGED <<state, parent, kstack, parent_pgdir, shared>>

(* Mutated form of execBad: freevm is forgotten.                           *)
execBadLeaks(p) ==
  /\ state[p] = "RUN" /\ ex[p].pc = "stack"
  /\ ex' = [ex EXCEPT ![p] = InUser]
  /\ UNCHANGED <<procVars, memVars>>

(* The stack does not fit, or an argument does not fit on it: exec frees   *)
(* the new image and returns -1 to the old one.                            *)
execBad(p) ==
  LET d == ex[p].dir
  IN  /\ state[p] = "RUN" /\ ex[p].pc = "stack"
      /\ ex' = [ex EXCEPT ![p] = InUser]
      /\ free' = free \cup freevm(d)
      /\ dirs' = dirs \ {d}
      /\ pte' = [pte EXCEPT ![d] = NoPages]
      /\ stab' = [stab EXCEPT ![d] = NoTabs]
      /\ UNCHANGED <<procVars>>

----------------------------------------------------------------------------
(* exit.  Entries that point into the window are flagged free, children    *)
(* pass to init.  kfree(memstart), for a process without a parent, panics: *)
(* memstart is a user address.                                             *)
ClearShared(s) ==
  [i \in Entries |-> IF s[i].memstart > SHAREDBASE
                       THEN [name |-> s[i].name, memstart |-> 0, size |-> 0] ELSE s[i]]

(* Mutated form of Reparent: exit leaves its children with it.             *)
ReparentNone(p) == parent

Reparent(p) == [q \in Procs |-> IF parent[q] = p THEN initproc ELSE parent[q]]

exitPanics(p) == CanExit(p) /\ p # initproc /\ parent[p] = NONE

exit(p) ==
  /\ CanExit(p) /\ p # initproc /\ ~exitPanics(p)
  /\ shared' = [shared EXCEPT ![p] = ClearShared(shared[p])]
  /\ parent' = Reparent(p)
  /\ state' = [state EXCEPT ![p] = "ZOMBIE"]
  /\ UNCHANGED <<kstack, pgdir, parent_pgdir, sz, ex, memVars>>

(* wait, once a child is a zombie: it reaps the first one in the table.    *)
Zombie(p, c) == parent[c] = p /\ state[c] = "ZOMBIE"

ReapedNoStack(c) == freevm(pgdir[c])    \* mutated form: kfree(kstack) forgotten

Reaped(c) == freevm(pgdir[c]) \cup {kstack[c]}

wait(p) ==
  /\ CanCall(p)
  /\ \E c \in Procs :
       /\ Zombie(p, c) /\ \A q \in 1..(c - 1) : ~Zombie(p, q)
       /\ kstack' = [kstack EXCEPT ![c] = NONE]
       /\ parent' = [parent EXCEPT ![c] = NONE]
       /\ state' = [state EXCEPT ![c] = "UNUSED"]
       /\ free' = free \cup Reaped(c)
       /\ dirs' = dirs \ {pgdir[c]}
       /\ pte' = [pte EXCEPT ![pgdir[c]] = NoPages]
       /\ stab' = [stab EXCEPT ![pgdir[c]] = NoTabs]
  /\ UNCHANGED <<pgdir, parent_pgdir, sz, shared, ex>>

----------------------------------------------------------------------------
Step(p) ==
  \/ \E x \in Structs : share_data(p, x)
  \/ fork(p)
  \/ \E n \in Deltas : grow(p, n) \/ shrink(p, n)
  \/ \E n \in Images, attach \in BOOLEAN : execLoad(p, n, attach)
  \/ access_shared_memory(p)
  \/ execCommit(p) \/ execBad(p)
  \/ exit(p) \/ wait(p)

Next == \E p \in Procs : Step(p)

Spec == Init /\ [][Next]_vars

----------------------------------------------------------------------------
(* Properties.                                                             *)

Live(p) == state[p] # "UNUSED"
InExec(p) == ex[p].pc # "user"

Keys == {n[1] : n \in Names} \cup {""}
EntryType == [name : Keys, memstart : 0..(UINT - 1), size : Sizes \cup {0}]
ExType == [pc : {"user", "attach", "stack"}, dir : Frames \cup {NONE}, n : 0..SHAREDPG,
           i : 0..SHAREDCOUNT, j : 0..SHAREDPG, vp : 0..(2 * SHAREDPG)]

(* Every variable holds values of the C field it models.                   *)
TypeOK ==
  /\ state \in [Procs -> {"UNUSED", "RUN", "ZOMBIE"}]
  /\ parent \in [Procs -> Procs \cup {NONE}]
  /\ kstack \in [Procs -> Frames \cup {NONE}]
  /\ pgdir \in [Procs -> Frames \cup {NONE}]
  /\ parent_pgdir \in [Procs -> Frames \cup {NONE}]
  /\ sz \in [Procs -> 0..(SHAREDBASE - 1)]
  /\ shared \in [Procs -> [Entries -> EntryType]]
  /\ ex \in [Procs -> ExType]
  /\ free \subseteq Frames
  /\ dirs \subseteq Frames
  /\ pte \in [Frames -> [Pages -> Frames \cup {NONE}]]
  /\ stab \in [Frames -> [STabs -> Frames \cup {NONE}]]

(* No frame has two uses: what kalloc handed out as a private page, a page *)
(* table, a directory or a kernel stack is in no other such place and not  *)
(* on the free list, whatever processes share, however fork, exec, sbrk,   *)
(* exit and wait interleave and wherever memory runs out.                  *)
FramesExclusive ==
  /\ \A d \in dirs :
       /\ freevm(d) \cap free = {}
       /\ \A e \in dirs \ {d} : freevm(d) \cap freevm(e) = {}
       /\ d \notin LowFrames(d) \cup TabFrames(d)
       /\ LowFrames(d) \cap TabFrames(d) = {}
       /\ \A g, h \in LowPages : pte[d][g] = pte[d][h] /\ pte[d][g] # NONE => g = h
  /\ \A p \in Procs : Live(p) =>
       /\ kstack[p] # NONE /\ kstack[p] \notin free
       /\ \A d \in dirs : kstack[p] \notin freevm(d)
       /\ \A q \in Procs \ {p} : Live(q) => kstack[p] # kstack[q]

(* No frame is lost: each is free, a kernel stack, or given back by the    *)
(* freevm of a directory, and each directory is the pgdir of a process     *)
(* that wait will reap or the new image of a process inside exec.          *)
FramesAccounted ==
  /\ Frames = free \cup (UNION {freevm(d) : d \in dirs})
                   \cup {kstack[p] : p \in {q \in Procs : Live(q)}}
  /\ dirs = {pgdir[p] : p \in {q \in Procs : Live(q)}}
              \cup {ex[p].dir : p \in {q \in Procs : InExec(q)}}

(* The panics of copyuvm, mappages and exit's kfree cannot happen.         *)
NoPanic == \A p \in Procs : ~forkPanics(p) /\ ~remapPanics(p) /\ ~exitPanics(p)

(* Every process but init has a parent that has not exited, so that each   *)
(* zombie can be reaped.                                                   *)
ParentRuns ==
  \A p \in Procs \ {initproc} : Live(p) => parent[p] # NONE /\ state[parent[p]] = "RUN"

(* A new process inherits exactly the shared structures of its parent.     *)
ForkInherits ==
  [][\A p \in Procs : state[p] = "UNUSED" /\ state'[p] = "RUN" =>
       \A n \in Names : get_data(shared'[p], n) = get_data(shared[parent'[p]], n)]_vars

(* While exec walks parent_pgdir, it is the page directory of a process    *)
(* that has not been reaped.                                               *)
ParentPgdirLive ==
  \A p \in Procs : Attaching(p) /\ InEntry(p) =>
    \E q \in Procs : Live(q) /\ pgdir[q] = parent_pgdir[p]

(* access_shared_memory maps every word of each structure it has given a   *)
(* window address, if the parent has the structure in its memory.          *)
InParent(p, i) ==
  LET its == shared[parent[p]][i]
  IN  /\ pgdir[parent[p]] = parent_pgdir[p]
      /\ its.name = shared[p][i].name /\ its.memstart + its.size <= sz[parent[p]]

WholeStructMapped ==
  \A p \in Procs : Attaching(p) =>
    \A i \in 0..(ex[p].i - 1) : InParent(p, i) =>
      \A w \in 0..(shared[p][i].size - 1) :
        pte[ex[p].dir][PageOf(shared[p][i].memstart + w)] # NONE
=============================================================================
