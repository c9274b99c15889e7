---------------------------- MODULE BcacheProofs ----------------------------
(***************************************************************************)
(* The invariant of Bcache and its theorems, for any number of buffers,    *)
(* blocks and processes.                                                   *)
(*                                                                         *)
(* A process holds a buffer from bget's increment of refcnt to brelse's    *)
(* decrement (Refs), so bget never recycles it (Names); it holds the sleep *)
(* lock at known places (Owned), so nobody else stores in it and it is     *)
(* queued for the disk once (Fresh, Queued).                               *)
(***************************************************************************)
EXTENDS Bcache, FiniteSetTheorems, TLAPS

(* Where a process holds its buffer's sleep lock, where it is counted in   *)
(* refcnt, and all places.                                                 *)
Holding == {"locked", "iderw", "use", "brelse"}
Counted == Holding \cup {"acquiresleep", "asleep", "uncount"}
Places == Counted \cup {"idle", "bget"}

(* Type correctness.                                                       *)
BType ==
  /\ blockno \in [Bufs -> Blocks \cup {NONE}] /\ refcnt \in [Bufs -> Nat]
  /\ valid \in [Bufs -> BOOLEAN] /\ dirty \in [Bufs -> BOOLEAN]
  /\ locked \in [Bufs -> Procs \cup {NONE}]
  /\ lru \in [Bufs -> Bufs] /\ idequeue \in Seq(Bufs)
  /\ DOMAIN data = Bufs /\ DOMAIN disk = Blocks /\ DOMAIN latest = Blocks
  /\ pc \in [Procs -> Places] /\ want \in [Procs -> Blocks \cup {NONE}]
  /\ b \in [Procs -> Bufs \cup {NONE}]

(* A process inside the cache has a buffer once bget has counted it in,    *)
(* and nobody recycles that buffer for another block.                      *)
Names ==
  \A p \in Procs : /\ pc[p] \in Counted <=> b[p] # NONE
                   /\ pc[p] # "idle" => want[p] # NONE
                   /\ pc[p] \in Counted => blockno[b[p]] = want[p]

(* No block is cached twice.                                               *)
Unique == \A i, j \in Bufs : i # j /\ blockno[i] # NONE => blockno[i] # blockno[j]

(* Every buffer is on the list.                                            *)
Listed == \A i \in Bufs : \E j \in Bufs : lru[j] = i

(* refcnt counts the processes that use a buffer.                          *)
Users(i) == {p \in Procs : b[p] = i}
Refs == \A i \in Bufs : refcnt[i] = Cardinality(Users(i))

(* A buffer's lock is held by the one process whose place says so, and is  *)
(* not free while somebody sleeps on it.                                   *)
Owned ==
  /\ \A p \in Procs : /\ pc[p] \in Holding => locked[b[p]] = p
                      /\ pc[p] = "asleep" => locked[b[p]] # NONE
  /\ \A i \in Bufs : locked[i] # NONE => pc[locked[i]] \in Holding /\ b[locked[i]] = i

(* A valid buffer holds what was last stored in its block, and a block     *)
(* without a dirty buffer is up to date on the disk.                       *)
Fresh ==
  /\ \A i \in Bufs : /\ valid[i] => blockno[i] # NONE /\ data[i] = latest[blockno[i]]
                     /\ dirty[i] => valid[i]
  /\ \A p \in Procs : pc[p] \in {"use", "brelse"} => valid[b[p]]
  /\ \A k \in Blocks : (\A i \in Bufs : blockno[i] = k => ~dirty[i]) => disk[k] = latest[k]

(* The request queue has no duplicates and lists the buffers of exactly    *)
(* the processes that wait in iderw.                                       *)
Queued ==
  /\ \A x, y \in 1..Len(idequeue) : idequeue[x] = idequeue[y] => x = y
  /\ \A p \in Procs : pc[p] = "iderw" => \E x \in 1..Len(idequeue) : idequeue[x] = b[p]
  /\ \A x \in 1..Len(idequeue) : \E p \in Procs : pc[p] = "iderw" /\ b[p] = idequeue[x]

(* Buffers that only the log keeps dirty.                                  *)
Pinned == {i \in Bufs : dirty[i] /\ \A p \in Procs : b[p] = i => pc[p] # "iderw"}

(* The log pins no more buffers than it may.                               *)
Bounded == Cardinality(Pinned) <= MaxPinned

(* The inductive invariant.                                                *)
BInv == BType /\ Names /\ Unique /\ Listed /\ Refs /\ Owned /\ Fresh /\ Queued /\ Bounded

(* NONE names no process, no block and no buffer.                          *)
LEMMA Domains == NONE \notin Procs /\ NONE \notin Blocks /\ NONE \notin Bufs
BY BcacheAssumption DEF NONE, Bufs

(* What a count of users means.                                            *)
LEMMA UsersCount ==
  ASSUME NEW i
  PROVE  /\ IsFiniteSet(Users(i)) /\ Cardinality(Users(i)) \in Nat
         /\ Cardinality(Users(i)) = 0 <=> \A p \in Procs : b[p] # i
<1>1. Users(i) \in SUBSET Procs
  BY Zenon DEF Users
<1>2. IsFiniteSet(Users(i))
  BY <1>1, FS_Subset, BcacheAssumption, Zenon
<1>3. Cardinality(Users(i)) \in Nat /\ (Cardinality(Users(i)) = 0 <=> Users(i) = {})
  BY <1>2, FS_CardinalityType, FS_EmptySet, Zenon
<1> QED BY <1>2, <1>3, Zenon DEF Users

(* The pinned buffers can be counted.                                      *)
LEMMA PinnedFinite == IsFiniteSet(Pinned) /\ Cardinality(Pinned) \in Nat
<1>1. Pinned \in SUBSET Bufs /\ IsFiniteSet(Bufs)
  BY FS_Interval, BcacheAssumption DEF Pinned, Bufs
<1>2. IsFiniteSet(Pinned)
  BY <1>1, FS_Subset, Zenon
<1> QED BY <1>2, FS_CardinalityType, Zenon

(* A step that pins nothing.                                               *)
LEMMA BoundedKept == ASSUME BInv, Pinned' \in SUBSET Pinned PROVE Bounded'
<1>1. Cardinality(Pinned') <= Cardinality(Pinned) /\ Cardinality(Pinned') \in Nat
  BY PinnedFinite, FS_Subset, FS_CardinalityType, Zenon
<1> QED BY <1>1, PinnedFinite, BcacheAssumption DEF BInv, Bounded

(* A step that leaves the contents alone and uses only valid buffers.      *)
LEMMA FreshKept ==
  ASSUME BInv, UNCHANGED <<valid, blockno, data, latest, dirty, disk>>,
         \A q \in Procs : pc'[q] \in {"use", "brelse"} => valid[b'[q]]
  PROVE  Fresh'
BY Zenon DEF BInv, Fresh

(* A step that starts and ends no request.                                 *)
LEMMA QueuedKept ==
  ASSUME BInv, UNCHANGED idequeue,
         \A q \in Procs : pc'[q] = "iderw" => pc[q] = "iderw" /\ b'[q] = b[q],
         \A q \in Procs : pc[q] = "iderw" => pc'[q] = "iderw" /\ b'[q] = b[q]
  PROVE  Queued'
BY DEF BInv, Queued

(* A step that ends no write.                                              *)
LEMMA PinnedKept ==
  ASSUME BInv, UNCHANGED dirty,
         \A q \in Procs : pc[q] = "iderw" => pc'[q] = "iderw" /\ b'[q] = b[q]
  PROVE  Bounded'
<1>1. Pinned' \in SUBSET Pinned
  BY Zenon DEF Pinned
<1> QED BY <1>1, BoundedKept, Zenon

(* A step after which everybody uses the buffer it used.                   *)
LEMMA RefsKept == ASSUME BInv, UNCHANGED <<refcnt, b>> PROVE Refs'
<1>1. \A i \in Bufs : Users(i)' = Users(i)
  BY Zenon DEF Users
<1> QED BY <1>1, Zenon DEF BInv, Refs

(* One more process uses a buffer.                                         *)
LEMMA UserAdded ==
  ASSUME BInv, NEW p \in Procs, NEW i \in Bufs, b[p] = NONE, b' = [b EXCEPT ![p] = i]
  PROVE  /\ Cardinality(Users(i)') = Cardinality(Users(i)) + 1
         /\ \A j \in Bufs \ {i} : Users(j)' = Users(j)
<1> USE Domains DEF BInv, BType
<1>1. Users(i)' = Users(i) \cup {p} /\ p \notin Users(i)
  BY DEF Users
<1>2. \A j \in Bufs \ {i} : Users(j)' = Users(j)
  BY Zenon DEF Users
<1>3. IsFiniteSet(Users(i)) /\ Cardinality(Users(i)) \in Nat
  BY UsersCount, Zenon
<1>4. Cardinality(Users(i) \cup {p}) = Cardinality(Users(i)) + 1
  BY <1>1, <1>3, FS_AddElement, Zenon
<1> QED BY <1>1, <1>2, <1>4, Zenon

(* One process fewer uses a buffer.                                        *)
LEMMA UserGone ==
  ASSUME BInv, NEW p \in Procs, NEW i \in Bufs, b[p] = i, b' = [b EXCEPT ![p] = NONE]
  PROVE  /\ Cardinality(Users(i)) \in Nat \ {0}
         /\ Cardinality(Users(i)') = Cardinality(Users(i)) - 1
         /\ \A j \in Bufs \ {i} : Users(j)' = Users(j)
<1> USE Domains DEF BInv, BType
<1>1. Users(i)' = Users(i) \ {p} /\ p \in Users(i)
  BY Zenon DEF Users
<1>2. \A j \in Bufs \ {i} : Users(j)' = Users(j)
  BY Zenon DEF Users
<1>3. IsFiniteSet(Users(i)) /\ Cardinality(Users(i)) \in Nat /\ Cardinality(Users(i)) # 0
  BY UsersCount, Zenon
<1>4. Cardinality(Users(i) \ {p}) = Cardinality(Users(i)) - 1
  BY <1>1, <1>3, FS_RemoveElement, Zenon
<1> QED BY <1>1, <1>2, <1>3, <1>4, Zenon

(* iderw appends the buffer of a process that holds its lock.              *)
LEMMA QueuedMore ==
  ASSUME BInv, NEW p \in Procs, pc[p] \in {"locked", "use"}, b[p] \in Bufs,
         idequeue' = Append(idequeue, b[p]), pc' = [pc EXCEPT ![p] = "iderw"], UNCHANGED b
  PROVE  Queued'
<1> USE DEF BInv
<1> DEFINE n == Len(idequeue)
<1>1. /\ n \in Nat /\ Len(idequeue') = n + 1 /\ idequeue'[n + 1] = b[p]
      /\ \A x \in 1..n : idequeue'[x] = idequeue[x]
  BY DEF BType
<1>2. \A x \in 1..n : idequeue[x] # b[p]
  BY DEF Queued, Owned, Holding
<1> HIDE DEF n
<1>3. \A x, y \in 1..Len(idequeue') : idequeue'[x] = idequeue'[y] => x = y
  BY <1>1, <1>2 DEF Queued
<1>4. \A q \in Procs : pc'[q] = "iderw" => \E x \in 1..Len(idequeue') : idequeue'[x] = b'[q]
  BY <1>1 DEF Queued
<1>5. \A x \in 1..Len(idequeue') : \E q \in Procs : pc'[q] = "iderw" /\ b'[q] = idequeue'[x]
  BY <1>1 DEF Queued, n, BType
<1> QED BY <1>3, <1>4, <1>5, Zenon DEF Queued

(* A process stores a value in the buffer it holds and marks it dirty.     *)
LEMMA FreshWrite ==
  ASSUME BInv, NEW p \in Procs, NEW v, pc[p] = "use", b[p] \in Bufs, want[p] \in Blocks,
         blockno[b[p]] = want[p], data' = [data EXCEPT ![b[p]] = v],
         latest' = [latest EXCEPT ![want[p]] = v], dirty' = [dirty EXCEPT ![b[p]] = TRUE],
         \A q \in Procs \ {p} : pc'[q] = pc[q], UNCHANGED <<blockno, valid, disk, b>>
  PROVE  Fresh'
<1> USE Domains DEF BInv
<1>1. valid[b[p]]
  BY Zenon DEF Fresh
<1>2. \A i \in Bufs \ {b[p]} : /\ blockno[i] # want[p]
                             /\ data'[i] = data[i] /\ dirty'[i] = dirty[i]
  BY DEF BType, Unique
<1>3. /\ data'[b[p]] = v /\ latest'[want[p]] = v /\ dirty'[b[p]]
      /\ \A k \in Blocks \ {want[p]} : latest'[k] = latest[k]
  BY Zenon DEF BType
<1>4. \A i \in Bufs : /\ valid'[i] => blockno'[i] # NONE /\ data'[i] = latest'[blockno'[i]]
                      /\ dirty'[i] => valid'[i]
  BY <1>1, <1>2, <1>3, SMTT(30) DEF Fresh, BType
<1>5. \A q \in Procs : pc'[q] \in {"use", "brelse"} => valid'[b'[q]]
  BY <1>1, Zenon DEF Fresh
<1>6. \A k \in Blocks : (\A i \in Bufs : blockno'[i] = k => ~dirty'[i]) => disk'[k] = latest'[k]
  BY <1>2, <1>3 DEF Fresh
<1> QED BY <1>4, <1>5, <1>6, Zenon DEF Fresh

(* Moving a buffer to the front drops none from the list.                  *)
LEMMA Fronted ==
  ASSUME BInv, NEW i \in Bufs
  PROVE  ToFront(i) \in [Bufs -> Bufs] /\ \A x \in Bufs : \E j \in Bufs : ToFront(i)[j] = x
<1> DEFINE k == CHOOSE j \in Bufs : lru[j] = i
<1>1. k \in Bufs /\ lru[k] = i
  BY Zenon DEF BInv, Listed
<1>2. ToFront(i) = [j \in Bufs |-> IF j = 1 THEN i ELSE IF j <= k THEN lru[j - 1] ELSE lru[j]]
  BY Zenon DEF ToFront
<1> HIDE DEF k
<1>3. \A j \in Bufs : j # 1 => j - 1 \in Bufs
  BY BcacheAssumption DEF Bufs
<1>4. ToFront(i) \in [Bufs -> Bufs]
  BY <1>2, <1>3 DEF BInv, BType
<1>5. ASSUME NEW x \in Bufs PROVE \E j \in Bufs : ToFront(i)[j] = x
  <2>1. CASE x = i
    <3>1. 1 \in Bufs
      BY BcacheAssumption DEF Bufs
    <3> QED BY <1>2, <2>1, <3>1, Zenon
  <2>2. CASE x # i
    <3>1. PICK j \in Bufs : lru[j] = x
      BY Zenon DEF BInv, Listed
    <3>2. CASE j < k
      <4>1. j + 1 \in Bufs /\ j + 1 # 1 /\ j + 1 <= k /\ (j + 1) - 1 = j
        BY <1>1, <3>2, BcacheAssumption, SMTT(30) DEF Bufs
      <4> QED BY <1>2, <3>1, <4>1, Zenon
    <3>3. CASE ~(j < k)
      <4>1. j # 1 /\ ~(j <= k)
        BY <1>1, <2>2, <3>1, <3>3, BcacheAssumption, SMTT(30) DEF Bufs
      <4> QED BY <1>2, <3>1, <4>1, Zenon
    <3> QED BY <3>2, <3>3, Zenon
  <2> QED BY <2>1, <2>2, Zenon
<1> QED BY <1>4, <1>5, Zenon

(* bread looks for a block.                                                *)
LEMMA breadInv == ASSUME BInv, NEW p \in Procs, bread(p) PROVE BInv'
<1> USE Domains DEF BInv
<1>1. PICK k \in Blocks :
        /\ pc[p] = "idle"
        /\ pc' = [pc EXCEPT ![p] = "bget"]
        /\ want' = [want EXCEPT ![p] = k]
        /\ UNCHANGED <<blockno, valid, dirty, refcnt, data, locked, lru, idequeue, disk, b,
                       latest>>
  BY Zenon DEF bread, At, Goto
<1>2. Unique' /\ Listed'
  BY <1>1, Zenon DEF Unique, Listed
<1>3. BType'
  BY <1>1, Zenon DEF BType, Places
<1>4. Names'
  BY <1>1, Zenon DEF BType, Names, Counted, Holding
<1>5. Refs'
  BY <1>1, RefsKept, Zenon
<1>6. Owned'
  BY <1>1, SMTT(30) DEF Owned, Holding
<1>7. Fresh'
  BY <1>1, FreshKept DEF Fresh
<1>8. Queued'
  BY <1>1, QueuedKept
<1>9. Bounded'
  BY <1>1, PinnedKept
<1> QED BY <1>2, <1>3, <1>4, <1>5, <1>6, <1>7, <1>8, <1>9, Zenon

(* bget finds the block in a buffer.                                       *)
LEMMA bgetHitInv == ASSUME BInv, NEW p \in Procs, bgetHit(p) PROVE BInv'
<1> USE Domains DEF BInv
<1>1. PICK i \in Bufs :
        /\ pc[p] = "bget"
        /\ blockno[i] = want[p]
        /\ refcnt' = [refcnt EXCEPT ![i] = @ + 1]
        /\ b' = [b EXCEPT ![p] = i]
        /\ pc' = [pc EXCEPT ![p] = "acquiresleep"]
        /\ UNCHANGED <<blockno, valid, dirty, data, locked, lru, idequeue, disk, want, latest>>
  BY Zenon DEF bgetHit, At, Goto, Cached
<1>2. want[p] \in Blocks /\ b[p] = NONE
  BY <1>1, Zenon DEF BType, Names, Counted, Holding
<1>3. Unique' /\ Listed'
  BY <1>1, Zenon DEF Unique, Listed
<1>4. BType'
  BY <1>1, <1>2 DEF BType, Counted, Places
<1>5. Names'
  BY <1>1, <1>2, Zenon DEF BType, Names, Counted
<1>6. Refs'
  <2>1. /\ Cardinality(Users(i)') = Cardinality(Users(i)) + 1
        /\ \A x \in Bufs \ {i} : Users(x)' = Users(x)
    BY <1>1, <1>2, UserAdded, Zenon
  <2>2. \A x \in Bufs : refcnt'[x] = IF x = i THEN refcnt[x] + 1 ELSE refcnt[x]
    BY <1>1, Zenon DEF BType
  <2> QED BY <2>1, <2>2, Zenon DEF Refs
<1>7. Owned'
  BY <1>1, <1>2 DEF Owned, Holding
<1>8. Fresh'
  BY <1>1, <1>2, FreshKept DEF Fresh
<1>9. Queued'
  BY <1>1, <1>2, QueuedKept
<1>10. Bounded'
  BY <1>1, <1>2, PinnedKept, SMTT(30)
<1> QED BY <1>3, <1>4, <1>5, <1>6, <1>7, <1>8, <1>9, <1>10, Zenon

(* bget recycles a buffer that nobody uses and that is not dirty.          *)
LEMMA bgetMissInv == ASSUME BInv, NEW p \in Procs, bgetMiss(p) PROVE BInv'
<1> USE Domains DEF BInv
<1>1. PICK i :
        /\ \E j \in Bufs : i = lru[j]
        /\ pc[p] = "bget"
        /\ \A x \in Bufs : blockno[x] # want[p]
        /\ refcnt[i] = 0
        /\ ~dirty[i]
        /\ blockno' = [blockno EXCEPT ![i] = want[p]]
        /\ valid' = [valid EXCEPT ![i] = FALSE]
        /\ refcnt' = [refcnt EXCEPT ![i] = 1]
        /\ b' = [b EXCEPT ![p] = i]
        /\ pc' = [pc EXCEPT ![p] = "acquiresleep"]
        /\ UNCHANGED <<dirty, data, locked, lru, idequeue, disk, want, latest>>
  BY Zenon DEF bgetMiss, At, Goto, Cached, Recyclable, Bufs
<1>2. /\ i \in Bufs /\ want[p] \in Blocks /\ b[p] = NONE
      /\ Cardinality(Users(i)) = 0 /\ \A q \in Procs : b[q] # i
  BY <1>1, UsersCount DEF BType, Names, Refs
<1>3. Listed'
  BY <1>1, Zenon DEF Listed
<1>4. BType'
  BY <1>1, <1>2, Zenon DEF BType, Counted, Places
<1>5. Names'
  BY <1>1, <1>2, SMTT(30) DEF BType, Names, Counted
<1>6. Unique'
  BY <1>1, <1>2, SMTT(30) DEF Unique
<1>7. Refs'
  <2>1. /\ Cardinality(Users(i)') = Cardinality(Users(i)) + 1
        /\ \A x \in Bufs \ {i} : Users(x)' = Users(x)
    BY <1>1, <1>2, UserAdded, ZenonT(40)
  <2>2. \A x \in Bufs : refcnt'[x] = IF x = i THEN 1 ELSE refcnt[x]
    BY <1>1, <1>2, Zenon DEF BType
  <2> QED BY <1>2, <2>1, <2>2, SMTT(30) DEF Refs
<1>8. Owned'
  BY <1>1, <1>2, SMTT(30) DEF Owned, Holding
<1>9. Fresh'
  BY <1>1, <1>2, SMTT(30) DEF BType, Fresh
<1>10. Queued'
  BY <1>1, <1>2, QueuedKept, SMTT(30)
<1>11. Bounded'
  BY <1>1, <1>2, PinnedKept, SMTT(30)
<1> QED BY <1>3, <1>4, <1>5, <1>6, <1>7, <1>8, <1>9, <1>10, <1>11, Zenon

(* acquiresleep takes the lock, or sleeps on it.                           *)
LEMMA acquiresleepInv == ASSUME BInv, NEW p \in Procs, acquiresleep(p) PROVE BInv'
<1> USE Domains DEF BInv
<1>1. /\ pc[p] = "acquiresleep"
      /\ \/ /\ locked[b[p]] = NONE /\ locked' = [locked EXCEPT ![b[p]] = p]
            /\ pc' = [pc EXCEPT ![p] = "locked"]
         \/ locked[b[p]] # NONE /\ locked' = locked /\ pc' = [pc EXCEPT ![p] = "asleep"]
      /\ UNCHANGED <<blockno, valid, dirty, refcnt, data, lru, idequeue, disk, want, b, latest>>
  BY Zenon DEF acquiresleep, At, Goto
<1>2. b[p] \in Bufs /\ want[p] \in Blocks /\ blockno[b[p]] = want[p]
  BY <1>1, Zenon DEF BType, Names, Counted
<1>3. Unique' /\ Listed'
  BY <1>1, Zenon DEF Unique, Listed
<1>4. BType'
  <2>1. CASE locked[b[p]] = NONE
    <3>1. locked' = [locked EXCEPT ![b[p]] = p] /\ pc' = [pc EXCEPT ![p] = "locked"] /\ b' = b
      BY <1>1, <2>1, ZenonT(40)
    <3> QED BY <1>1, <1>2, <2>1, <3>1, Zenon DEF BType, Counted, Holding, Places
  <2>2. CASE locked[b[p]] # NONE
    <3>1. locked' = locked /\ pc' = [pc EXCEPT ![p] = "asleep"] /\ b' = b
      BY <1>1, <2>2, ZenonT(40)
    <3> QED BY <1>1, <1>2, <2>2, <3>1, Zenon DEF BType, Counted, Places
  <2> QED BY <2>1, <2>2, Zenon
<1>5. Names'
  BY <1>1, <1>2, SMTT(30) DEF BType, Names, Counted, Holding
<1>6. Refs'
  BY <1>1, RefsKept, Zenon
<1>7. Owned'
  <2>1. CASE locked[b[p]] = NONE
    <3>1. locked' = [locked EXCEPT ![b[p]] = p] /\ pc' = [pc EXCEPT ![p] = "locked"] /\ b' = b
      BY <1>1, <2>1, Zenon
    <3> QED BY <1>1, <1>2, <2>1, <3>1, SMTT(30) DEF BType, Owned, Holding
  <2>2. CASE locked[b[p]] # NONE
    <3>1. locked' = locked /\ pc' = [pc EXCEPT ![p] = "asleep"] /\ b' = b
      BY <1>1, <2>2, Zenon
    <3> QED BY <1>1, <1>2, <2>2, <3>1, SMTT(30) DEF Owned, Holding
  <2> QED BY <2>1, <2>2, Zenon
<1>8. Fresh'
  BY <1>1, <1>2, FreshKept, SMTT(30) DEF BType, Fresh
<1>9. Queued'
  BY <1>1, <1>2, QueuedKept, SMTT(30) DEF BType
<1>10. Bounded'
  BY <1>1, <1>2, PinnedKept, Zenon DEF BType
<1> QED BY <1>3, <1>4, <1>5, <1>6, <1>7, <1>8, <1>9, <1>10, Zenon

(* bread finds the buffer valid.                                           *)
LEMMA breadDoneInv == ASSUME BInv, NEW p \in Procs, breadDone(p) PROVE BInv'
<1> USE Domains DEF BInv
<1>1. /\ pc[p] = "locked"
      /\ valid[b[p]]
      /\ pc' = [pc EXCEPT ![p] = "use"]
      /\ UNCHANGED <<blockno, valid, dirty, refcnt, data, locked, lru, idequeue, disk, want, b,
                     latest>>
  BY Zenon DEF breadDone, At, Goto
<1>2. b[p] \in Bufs /\ want[p] \in Blocks /\ blockno[b[p]] = want[p]
  BY <1>1, Zenon DEF BType, Names, Counted, Holding
<1>3. Unique' /\ Listed'
  BY <1>1, Zenon DEF Unique, Listed
<1>4. BType'
  BY <1>1, <1>2, Zenon DEF BType, Counted, Holding, Places
<1>5. Names'
  BY <1>1, <1>2 DEF Names, Counted, Holding
<1>6. Refs'
  BY <1>1, RefsKept, Zenon
<1>7. Owned'
  BY <1>1, <1>2, SMTT(30) DEF Owned, Holding
<1>8. Fresh'
  BY <1>1, <1>2, FreshKept, SMTT(30) DEF Fresh
<1>9. Queued'
  BY <1>1, <1>2, QueuedKept, SMTT(30)
<1>10. Bounded'
  BY <1>1, <1>2, PinnedKept, SMTT(30)
<1> QED BY <1>3, <1>4, <1>5, <1>6, <1>7, <1>8, <1>9, <1>10, Zenon

(* bread queues a read.                                                    *)
LEMMA breadDiskInv == ASSUME BInv, NEW p \in Procs, breadDisk(p) PROVE BInv'
<1> USE Domains DEF BInv
<1>1. /\ pc[p] = "locked"
      /\ ~valid[b[p]]
      /\ idequeue' = Append(idequeue, b[p])
      /\ pc' = [pc EXCEPT ![p] = "iderw"]
      /\ UNCHANGED <<blockno, valid, dirty, refcnt, data, locked, lru, disk, want, b, latest>>
  BY Zenon DEF breadDisk, At, Goto
<1>2. b[p] \in Bufs /\ want[p] \in Blocks /\ blockno[b[p]] = want[p]
  BY <1>1, Zenon DEF BType, Names, Counted, Holding
<1>3. Unique' /\ Listed'
  BY <1>1, Zenon DEF Unique, Listed
<1>4. BType'
  BY <1>1, <1>2, SMTT(30) DEF BType, Counted, Holding, Places
<1>5. Names'
  BY <1>1, <1>2 DEF Names, Counted, Holding
<1>6. Refs'
  BY <1>1, RefsKept, Zenon
<1>7. Owned'
  BY <1>1, <1>2, SMTT(30) DEF Owned, Holding
<1>8. Fresh'
  BY <1>1, <1>2, FreshKept, SMTT(30) DEF Fresh
<1>9. Queued'
  BY <1>1, <1>2, QueuedMore, Zenon
<1>10. Bounded'
  BY <1>1, <1>2, PinnedKept
<1> QED BY <1>3, <1>4, <1>5, <1>6, <1>7, <1>8, <1>9, <1>10

(* bwrite queues a write.                                                  *)
LEMMA bwriteInv == ASSUME BInv, NEW p \in Procs, bwrite(p) PROVE BInv'
<1> USE Domains DEF BInv
<1>1. PICK v \in Values :
        /\ pc[p] = "use"
        /\ data' = [data EXCEPT ![b[p]] = v]
        /\ latest' = [latest EXCEPT ![want[p]] = v]
        /\ dirty' = [dirty EXCEPT ![b[p]] = TRUE]
        /\ idequeue' = Append(idequeue, b[p])
        /\ pc' = [pc EXCEPT ![p] = "iderw"]
        /\ UNCHANGED <<blockno, valid, refcnt, locked, lru, disk, want, b>>
  BY Zenon DEF bwrite, At, Goto
<1>2. b[p] \in Bufs /\ want[p] \in Blocks /\ blockno[b[p]] = want[p]
  BY <1>1, Zenon DEF BType, Names, Counted, Holding
<1>3. Unique' /\ Listed'
  BY <1>1, Zenon DEF Unique, Listed
<1>4. BType'
  BY <1>1, <1>2, SMTT(30) DEF BType, Counted, Holding, Places
<1>5. Names'
  BY <1>1, <1>2 DEF Names, Counted, Holding
<1>6. Refs'
  BY <1>1, RefsKept, Zenon
<1>7. Owned'
  BY <1>1, <1>2, SMTT(30) DEF Owned, Holding
<1>8. Fresh'
  BY <1>1, <1>2, FreshWrite, Zenon DEF BType
<1>9. Queued'
  BY <1>1, <1>2, QueuedMore, ZenonT(30)
<1>10. Bounded'
  <2>1. Pinned' \in SUBSET Pinned
    BY <1>1, <1>2, Zenon DEF Pinned, BType
  <2> QED BY <2>1, BoundedKept, Zenon
<1> QED BY <1>3, <1>4, <1>5, <1>6, <1>7, <1>8, <1>9, <1>10, Zenon

(* log_write pins the buffer.                                              *)
LEMMA log_writeInv == ASSUME BInv, NEW p \in Procs, log_write(p) PROVE BInv'
<1> USE Domains DEF BInv
<1>1. PICK v \in Values :
        /\ pc[p] = "use"
        /\ Cardinality({i \in Bufs : dirty[i]} \cup {b[p]}) <= MaxPinned
        /\ data' = [data EXCEPT ![b[p]] = v]
        /\ latest' = [latest EXCEPT ![want[p]] = v]
        /\ dirty' = [dirty EXCEPT ![b[p]] = TRUE]
        /\ pc' = [pc EXCEPT ![p] = "brelse"]
        /\ UNCHANGED <<blockno, valid, refcnt, locked, lru, idequeue, disk, want, b>>
  BY Zenon DEF log_write, At, Goto
<1>2. b[p] \in Bufs /\ want[p] \in Blocks /\ blockno[b[p]] = want[p]
  BY <1>1, Zenon DEF BType, Names, Counted, Holding
<1>3. Unique' /\ Listed'
  BY <1>1, Zenon DEF Unique, Listed
<1>4. BType'
  BY <1>1, <1>2, Zenon DEF BType, Counted, Holding, Places
<1>5. Names'
  BY <1>1, <1>2 DEF Names, Counted, Holding
<1>6. Refs'
  BY <1>1, RefsKept, Zenon
<1>7. Owned'
  BY <1>1, <1>2, SMTT(30) DEF Owned, Holding
<1>8. Fresh'
  BY <1>1, <1>2, FreshWrite, Zenon DEF BType
<1>9. Queued'
  BY <1>1, <1>2, QueuedKept
<1>10. Bounded'
  <2> DEFINE D == {i \in Bufs : dirty[i]} \cup {b[p]}
  <2>1. Pinned' \in SUBSET D
    BY <1>1, <1>2, SMTT(30) DEF Pinned
  <2>2. D \in SUBSET Bufs /\ IsFiniteSet(Bufs)
    BY <1>2, FS_Interval, BcacheAssumption, SMTT(30) DEF Bufs
  <2>3. IsFiniteSet(D)
    BY <2>2, FS_Subset, Zenon
  <2>4. /\ Cardinality(Pinned') <= Cardinality(D)
        /\ Cardinality(Pinned') \in Nat /\ Cardinality(D) \in Nat
    BY <2>1, <2>3, FS_Subset, FS_CardinalityType, ZenonT(40)
  <2> QED BY <1>1, <2>4, BcacheAssumption DEF Bounded
<1> QED BY <1>3, <1>4, <1>5, <1>6, <1>7, <1>8, <1>9, <1>10, Zenon

(* brelse releases the lock and wakes who sleeps on it.                    *)
LEMMA releasesleepInv == ASSUME BInv, NEW p \in Procs, releasesleep(p) PROVE BInv'
<1> USE Domains DEF BInv
<1>1. /\ pc[p] \in {"use", "brelse"}
      /\ locked' = [locked EXCEPT ![b[p]] = NONE]
      /\ pc' = [q \in Procs |-> IF q = p THEN "uncount"
                  ELSE IF pc[q] = "asleep" /\ b[q] = b[p] THEN "acquiresleep" ELSE pc[q]]
      /\ UNCHANGED <<blockno, valid, dirty, refcnt, data, lru, idequeue, disk, want, b, latest>>
  BY Zenon DEF releasesleep
<1>2. b[p] \in Bufs /\ want[p] \in Blocks /\ blockno[b[p]] = want[p]
  BY <1>1, Zenon DEF BType, Names, Counted, Holding
<1>3. Unique' /\ Listed'
  BY <1>1, Zenon DEF Unique, Listed
<1>4. BType'
  BY <1>1, <1>2, Zenon DEF BType, Counted, Places
<1>5. Names'
  BY <1>1, <1>2, Zenon DEF Names, Counted
<1>6. Refs'
  BY <1>1, RefsKept, Zenon
<1>7. Owned'
  BY <1>1, <1>2, SMTT(30) DEF BType, Owned, Holding
<1>8. Fresh'
  BY <1>1, <1>2, FreshKept, Zenon DEF Fresh
<1>9. Queued'
  BY <1>1, <1>2, QueuedKept, Zenon
<1>10. Bounded'
  BY <1>1, <1>2, PinnedKept, Zenon
<1> QED BY <1>3, <1>4, <1>5, <1>6, <1>7, <1>8, <1>9, <1>10

(* brelse counts the process out.                                          *)
LEMMA brelseInv == ASSUME BInv, NEW p \in Procs, brelse(p) PROVE BInv'
<1> USE Domains DEF BInv
<1>1. /\ pc[p] = "uncount"
      /\ refcnt' = [refcnt EXCEPT ![b[p]] = @ - 1]
      /\ lru' = IF refcnt[b[p]] = 1 THEN ToFront(b[p]) ELSE lru
      /\ pc' = [pc EXCEPT ![p] = "idle"]
      /\ b' = [b EXCEPT ![p] = NONE]
      /\ want' = [want EXCEPT ![p] = NONE]
      /\ UNCHANGED <<blockno, valid, dirty, data, locked, idequeue, disk, latest>>
  BY Zenon DEF brelse, At, Goto
<1>2. /\ b[p] \in Bufs /\ want[p] \in Blocks /\ refcnt[b[p]] - 1 \in Nat
      /\ lru' \in [Bufs -> Bufs] /\ \A x \in Bufs : \E j \in Bufs : lru'[j] = x
  <2>1. b[p] \in Bufs /\ want[p] \in Blocks
    BY <1>1, Zenon DEF BType, Names, Counted
  <2>2. Cardinality(Users(b[p])) \in Nat \ {0}
    BY <1>1, <2>1, UserGone, Zenon
  <2>3. refcnt[b[p]] - 1 \in Nat
    BY <2>1, <2>2 DEF Refs
  <2>4. CASE lru' = lru
    BY <2>1, <2>3, <2>4, Zenon DEF BType, Listed
  <2>5. CASE lru' = ToFront(b[p])
    BY <2>1, <2>3, <2>5, Fronted, ZenonT(40)
  <2> QED BY <1>1, <2>4, <2>5, ZenonT(40)
<1>3. Unique'
  BY <1>1, Zenon DEF Unique
<1>4. BType'
  BY <1>1, <1>2, Zenon DEF BType, Places
<1>5. Names'
  BY <1>1, <1>2 DEF BType, Names, Counted, Holding
<1>6. Listed'
  BY <1>2, Zenon DEF Listed
<1>7. Refs'
  <2>1. PICK i \in Bufs : i = b[p]
    BY <1>2, Zenon
  <2>2. /\ Cardinality(Users(i)') = Cardinality(Users(i)) - 1
        /\ \A x \in Bufs \ {i} : Users(x)' = Users(x)
    BY <1>1, <2>1, UserGone, Zenon
  <2>3. \A x \in Bufs : refcnt'[x] = IF x = i THEN refcnt[x] - 1 ELSE refcnt[x]
    BY <1>1, <2>1, Zenon DEF BType
  <2> QED BY <2>2, <2>3, Zenon DEF Refs
<1>8. Owned'
  <2>1. pc'[p] = "idle" /\ \A q \in Procs \ {p} : pc'[q] = pc[q] /\ b'[q] = b[q]
    BY <1>1, Zenon DEF BType
  <2>2. pc[p] = "uncount" /\ locked' = locked /\ \A i \in Bufs : locked[i] # p
    BY <1>1, SMTT(30) DEF Owned, Holding
  <2> QED BY <2>1, <2>2 DEF BType, Owned, Holding
<1>9. Fresh'
  BY <1>1, <1>2, FreshKept, SMTT(30) DEF Fresh
<1>10. Queued'
  BY <1>1, <1>2, QueuedKept, SMTT(30)
<1>11. Bounded'
  BY <1>1, <1>2, PinnedKept, SMTT(30)
<1> QED BY <1>3, <1>4, <1>5, <1>6, <1>7, <1>8, <1>9, <1>10, <1>11, Zenon

(* ideintr completes the first request.                                    *)
LEMMA ideintrInv == ASSUME BInv, ideintr PROVE BInv'
<1> USE Domains DEF BInv
<1> DEFINE i == Head(idequeue)
<1>1. /\ idequeue # <<>>
      /\ data' = IF dirty[i] THEN data ELSE [data EXCEPT ![i] = disk[blockno[i]]]
      /\ disk' = IF dirty[i] THEN [disk EXCEPT ![blockno[i]] = data[i]] ELSE disk
      /\ valid' = [valid EXCEPT ![i] = TRUE] /\ dirty' = [dirty EXCEPT ![i] = FALSE]
      /\ pc' = [q \in Procs |-> IF pc[q] = "iderw" /\ b[q] = i THEN "use" ELSE pc[q]]
      /\ idequeue' = Tail(idequeue)
      /\ UNCHANGED <<blockno, refcnt, locked, lru, want, b, latest>>
  BY Zenon DEF ideintr
<1> DEFINE n == Len(idequeue)
<1>2. /\ n \in Nat /\ n >= 1 /\ i = idequeue[1] /\ i \in Bufs /\ idequeue' \in Seq(Bufs)
      /\ Len(idequeue') = n - 1 /\ \A x \in 1..(n - 1) : idequeue'[x] = idequeue[x + 1]
  BY <1>1, SMTT(30) DEF BType
<1> HIDE DEF i
<1>3. PICK p \in Procs : pc[p] = "iderw" /\ b[p] = i
  BY <1>2, SMTT(30) DEF Queued
<1>4. /\ locked[i] = p /\ blockno[i] \in Blocks
      /\ \A q \in Procs : pc[q] = "iderw" /\ b[q] = i => q = p
  BY <1>3, SMTT(30) DEF Owned, Names, Counted, Holding, BType
<1>5. /\ \A q \in Procs \ {p} : pc'[q] = pc[q]
      /\ pc'[p] = "use" /\ pc' \in [Procs -> Places]
  BY <1>1, <1>3, <1>4, Zenon DEF BType, Places, Counted, Holding
<1>6. Unique' /\ Listed'
  BY <1>1, Zenon DEF Unique, Listed
<1>7. Refs'
  BY <1>1, RefsKept, ZenonT(40)
<1>8. BType'
  BY <1>1, <1>2, <1>5, Zenon DEF BType
<1>9. Names'
  BY <1>1, <1>3, <1>5, Zenon DEF Names, Counted, Holding
<1>10. Owned'
  BY <1>1, <1>3, <1>4, <1>5, SMTT(30) DEF Owned, Holding, BType
<1>11. Fresh'
  <2> DEFINE k == blockno[i]
  <2>1. \A j \in Bufs \ {i} : /\ blockno[j] # k /\ data'[j] = data[j] /\ dirty'[j] = dirty[j]
                              /\ valid'[j] = valid[j]
    BY <1>1, <1>2, <1>4, SMTT(30) DEF Unique
  <2>2. data'[i] = latest[k] /\ valid'[i] /\ ~dirty'[i] /\ disk'[k] = latest[k]
    <3>1. CASE dirty[i]
      BY <1>1, <1>2, <1>4, <3>1, Zenon DEF BType, Fresh
    <3>2. CASE ~dirty[i]
      <4>1. disk[k] = latest[k]
        BY <1>4, <2>1, <3>2, Zenon DEF Fresh
      <4> QED BY <1>1, <1>2, <1>4, <3>2, <4>1, Zenon DEF BType
    <3> QED BY <3>1, <3>2, Zenon
  <2>3. \A x \in Blocks \ {k} : disk'[x] = disk[x]
    BY <1>1, <1>4, SMTT(30)
  <2>4. \A j \in Bufs : /\ valid'[j] => blockno[j] # NONE /\ data'[j] = latest[blockno[j]]
                        /\ dirty'[j] => valid'[j]
    BY <1>4, <2>1, <2>2, SMTT(30) DEF Fresh
  <2>5. \A q \in Procs : pc'[q] \in {"use", "brelse"} => valid'[b[q]]
    BY <1>1, <1>2, <1>3, <1>5, <2>2, SMTT(30) DEF Fresh
  <2>6. \A x \in Blocks : (\A j \in Bufs : blockno[j] = x => ~dirty'[j]) => disk'[x] = latest[x]
    BY <2>1, <2>2, <2>3, SMTT(30) DEF Fresh
  <2> QED BY <1>1, <2>4, <2>5, <2>6, Zenon DEF Fresh
<1>12. Queued'
  <2>1. ASSUME NEW x \in 1..(n - 1), NEW y \in 1..(n - 1), idequeue'[x] = idequeue'[y]
        PROVE  x = y
    <3>1. x + 1 \in 1..n /\ y + 1 \in 1..n /\ idequeue[x + 1] = idequeue[y + 1]
      BY <1>2, <2>1, SMTT(30)
    <3>2. x + 1 = y + 1
      BY <3>1, Zenon DEF Queued
    <3> QED BY <1>2, <3>2, SMTT(30)
  <2>2. ASSUME NEW q \in Procs, pc'[q] = "iderw"
        PROVE  \E x \in 1..(n - 1) : idequeue'[x] = b'[q]
    <3>1. pc[q] = "iderw" /\ b[q] # i
      BY <1>3, <1>4, <1>5, <2>2, Zenon
    <3>2. PICK x \in 1..n : idequeue[x] = b[q]
      BY <3>1, Zenon DEF Queued
    <3>3. x - 1 \in 1..(n - 1) /\ (x - 1) + 1 = x
      BY <1>2, <3>1, <3>2, SMTT(30)
    <3> QED BY <1>1, <1>2, <3>2, <3>3, Zenon
  <2>3. ASSUME NEW x \in 1..(n - 1)
        PROVE  \E q \in Procs : pc'[q] = "iderw" /\ b'[q] = idequeue'[x]
    <3>1. x + 1 \in 1..n /\ idequeue'[x] = idequeue[x + 1] /\ idequeue[x + 1] # i
      BY <1>2, SMTT(30) DEF Queued
    <3>2. PICK q \in Procs : pc[q] = "iderw" /\ b[q] = idequeue[x + 1]
      BY <3>1, Zenon DEF Queued
    <3> QED BY <1>1, <1>3, <1>5, <3>1, <3>2, Zenon
  <2> QED BY <1>2, <2>1, <2>2, <2>3, Zenon DEF Queued
<1>13. Bounded'
  <2>1. Pinned' \in SUBSET Pinned
    BY <1>1, <1>2, <1>3, <1>4, <1>5, SMTT(30) DEF Pinned, BType
  <2> QED BY <2>1, BoundedKept, Zenon
<1> QED BY <1>6, <1>7, <1>8, <1>9, <1>10, <1>11, <1>12, <1>13, Zenon

(* The invariant holds after binit.                                        *)
LEMMA InitInv == Init => BInv
<1> SUFFICES ASSUME Init PROVE BInv
  BY Zenon
<1> USE Domains
<1>1. ASSUME NEW i \in Bufs PROVE NBUF + 1 - i \in Bufs /\ NBUF + 1 - (NBUF + 1 - i) = i
  BY BcacheAssumption, SMTT(30) DEF Bufs
<1>2. BType
  <2>1. lru \in [Bufs -> Bufs]
    BY <1>1, Zenon DEF Init
  <2>2. idequeue \in Seq(Bufs)
    BY DEF Init
  <2>3. DOMAIN data = Bufs /\ DOMAIN disk = Blocks /\ DOMAIN latest = Blocks
    BY Zenon DEF Init
  <2> QED BY <2>1, <2>2, <2>3, SMTT(30) DEF Init, BType, Places
<1>3. Names /\ Unique /\ Owned
  BY Zenon DEF Init, Names, Unique, Owned, Counted, Holding
<1>4. Listed
  BY <1>1, Zenon DEF Init, Listed
<1>5. Refs
  <2>1. ASSUME NEW i \in Bufs PROVE refcnt[i] = 0 /\ \A p \in Procs : b[p] # i
    BY Zenon DEF Init
  <2> QED BY <2>1, UsersCount, Zenon DEF Refs
<1>6. Fresh
  BY Zenon DEF Init, Fresh
<1>7. Queued
  <2>1. Len(idequeue) = 0 /\ \A p \in Procs : pc[p] # "iderw"
    BY Zenon DEF Init
  <2> QED BY <2>1, SMTT(30) DEF Queued
<1>8. Bounded
  <2>1. Pinned = {}
    BY Zenon DEF Init, Pinned
  <2> QED BY <2>1, FS_EmptySet, BcacheAssumption, SMTT(30) DEF Bounded
<1> QED BY <1>2, <1>3, <1>4, <1>5, <1>6, <1>7, <1>8, SMTT(30) DEF BInv

(* Every step keeps it.                                                    *)
LEMMA NextInv == BInv /\ [Next]_vars => BInv'
<1>1. ASSUME BInv, NEW p \in Procs, Step(p) PROVE BInv'
  BY <1>1, breadInv, bgetHitInv, bgetMissInv, acquiresleepInv, breadDoneInv, breadDiskInv,
     bwriteInv, log_writeInv, releasesleepInv, brelseInv, ZenonT(40) DEF Step
<1>2. ASSUME BInv, UNCHANGED vars PROVE BInv'
  <2> USE DEF BInv, vars
  <2>1. BType' /\ Names' /\ Unique' /\ Listed' /\ Owned'
    BY <1>2, ZenonT(40) DEF BType, Names, Unique, Listed, Owned
  <2>2. Fresh' /\ Queued'
    BY <1>2, Zenon DEF Fresh, Queued
  <2>3. Refs' /\ Bounded'
    BY <1>2, RefsKept, PinnedKept, Zenon
  <2> QED BY <2>1, <2>2, <2>3, Zenon
<1> QED BY <1>1, <1>2, ideintrInv, Zenon DEF Next

(* The invariant holds throughout, for any number of buffers, blocks and   *)
(* processes.                                                              *)
THEOREM BInductive == Spec => []BInv
<1>1. Init => BInv
  BY InitInv, Zenon
<1>2. BInv /\ [Next]_vars => BInv'
  BY NextInv, Zenon
<1> QED BY <1>1, <1>2, PTL DEF Spec

(* No block is in two buffers, a process works on its own locked and valid *)
(* buffer with the latest contents, and what is in no valid buffer is up   *)
(* to date on the disk: bget recycles only unused clean buffers            *)
(* (bio.c:57-92).                                                          *)
THEOREM CacheIsCoherent == Spec => []Coherent
<1>1. ASSUME BInv PROVE Coherent
  <2> USE <1>1, Domains DEF BInv
  <2>1. \A i, j \in Bufs : i # j /\ blockno[i] # NONE => blockno[i] # blockno[j]
    BY Zenon DEF Unique
  <2>2. ASSUME NEW p \in Procs, pc[p] \in {"use", "brelse"}
        PROVE  /\ locked[b[p]] = p /\ blockno[b[p]] = want[p] /\ valid[b[p]]
               /\ data[b[p]] = latest[want[p]]
    <3>1. b[p] \in Bufs /\ blockno[b[p]] = want[p] /\ locked[b[p]] = p /\ valid[b[p]]
      BY <2>2, SMTT(30) DEF BType, Names, Counted, Holding, Owned, Fresh
    <3> QED BY <3>1, SMTT(30) DEF Fresh
  <2>3. \A k \in Blocks : (\A i \in Bufs : blockno[i] = k => ~valid[i]) => disk[k] = latest[k]
    BY Zenon DEF Fresh
  <2> QED BY <2>1, <2>2, <2>3, Zenon DEF Coherent
<1> QED BY <1>1, BInductive, PTL

(* A buffer is queued for the disk once, by the process that holds its     *)
(* lock and waits, and no process waits for a request that is not queued   *)
(* (ide.c:133-167).                                                        *)
THEOREM QueueIsSound == Spec => []QueueSound
<1>1. ASSUME BInv PROVE QueueSound
  <2> USE <1>1 DEF BInv
  <2>1. DOMAIN idequeue = 1..Len(idequeue)
    BY DEF BType
  <2>2. IsInjective(idequeue)
    BY <2>1, Zenon DEF Queued, IsInjective
  <2>3. \A p \in Procs : pc[p] = "iderw" => Contains(idequeue, b[p])
    BY Zenon DEF Queued, Contains
  <2>4. ASSUME NEW i \in ToSet(idequeue)
        PROVE  \E p \in Procs : pc[p] = "iderw" /\ b[p] = i /\ locked[i] = p
    <3>1. PICK x \in 1..Len(idequeue) : i = idequeue[x]
      BY <2>1, Zenon DEF ToSet
    <3> QED BY <3>1 DEF Queued, Owned, Holding
  <2> QED BY <2>2, <2>3, <2>4, Zenon DEF QueueSound
<1> QED BY <1>1, BInductive, PTL

(* While a process sleeps on a buffer's lock, the lock is held by one that *)
(* is not asleep on a lock and will release it (sleeplock.c:22-42).        *)
THEOREM LockSleepersAreWoken == Spec => []LockSleepersWoken
<1>1. BInv => LockSleepersWoken
  BY Domains, SMTT(30) DEF BInv, BType, Names, Counted, Owned, Holding, LockSleepersWoken
<1> QED BY <1>1, BInductive, PTL, ZenonT(30)

(* The size of a union is at most the sum of the sizes.                    *)
LEMMA UnionBound ==
  ASSUME NEW S, NEW T, IsFiniteSet(S), IsFiniteSet(T)
  PROVE  IsFiniteSet(S \cup T) /\ Cardinality(S \cup T) <= Cardinality(S) + Cardinality(T)
<1>1. /\ IsFiniteSet(S \cup T)
      /\ Cardinality(S \cup T) = Cardinality(S) + Cardinality(T) - Cardinality(S \cap T)
  BY FS_Union, Zenon
<1>2. IsFiniteSet(S \cap T)
  BY FS_Intersection, Zenon
<1>3. Cardinality(S) \in Nat /\ Cardinality(T) \in Nat /\ Cardinality(S \cap T) \in Nat
  BY <1>2, FS_CardinalityType, Zenon
<1> QED BY <1>1, <1>3, SMTT(30)

(* If the buffers are as many as the processes and the blocks the log pins *)
(* together, bget always finds a buffer, and its panic (bio.c:91) cannot   *)
(* happen. Each process but the one in bget keeps at most one buffer in    *)
(* use, and each other buffer that cannot be recycled is pinned.           *)
THEOREM BgetFindsABuffer ==
  ASSUME Cardinality(Procs) + MaxPinned <= NBUF
  PROVE  Spec => []BgetFinds
<1>1. ASSUME BInv, NEW p \in Procs, pc[p] = "bget" PROVE \E i \in Bufs : Recyclable(i)
  <2> DEFINE Others == Procs \ {p}
             Used == {b[q] : q \in Others}
  <2>1. SUFFICES ASSUME \A i \in Bufs : ~Recyclable(i) PROVE FALSE
    BY Zenon
  <2>2. ASSUME NEW i \in Bufs PROVE i \in Used \cup Pinned
    <3>1. b[p] # i
      BY <1>1, Domains, Zenon DEF BInv, Names, Counted, Holding
    <3>2. CASE refcnt[i] # 0
      <4>1. PICK q \in Procs : b[q] = i
        BY <1>1, <3>2, UsersCount, Zenon DEF BInv, Refs
      <4> QED BY <3>1, <4>1, Zenon
    <3>3. CASE refcnt[i] = 0
      <4>1. \A q \in Procs : b[q] # i
        BY <1>1, <3>3, UsersCount, ZenonT(40) DEF BInv, Refs
      <4>2. dirty[i]
        BY <2>1, <3>3, Zenon DEF Recyclable
      <4> QED BY <4>1, <4>2, Zenon DEF Pinned
    <3> QED BY <3>2, <3>3, Zenon
  <2>3. IsFiniteSet(Others) /\ Cardinality(Others) = Cardinality(Procs) - 1
    BY FS_RemoveElement, BcacheAssumption, Zenon
  <2>4. IsFiniteSet(Used) /\ Cardinality(Used) <= Cardinality(Others)
    <3> DEFINE f == [q \in Others |-> b[q]]
    <3>1. f \in Surjection(Others, Used)
      BY Zenon DEF Surjection
    <3> QED BY <2>3, <3>1, FS_Surjection, ZenonT(40)
  <2>5. IsFiniteSet(Used \cup Pinned)
        /\ Cardinality(Used \cup Pinned) <= Cardinality(Used) + Cardinality(Pinned)
    BY <2>4, PinnedFinite, UnionBound, ZenonT(40)
  <2>6. Cardinality(Bufs) = NBUF /\ Cardinality(Bufs) <= Cardinality(Used \cup Pinned)
    <3>1. Bufs \in SUBSET (Used \cup Pinned)
      BY <2>2, Zenon
    <3>2. Cardinality(Bufs) <= Cardinality(Used \cup Pinned)
      BY <2>5, <3>1, FS_Subset, ZenonT(40)
    <3>3. Cardinality(Bufs) = NBUF
      BY FS_Interval, BcacheAssumption, SMTT(30) DEF Bufs
    <3> QED BY <3>2, <3>3, Zenon
  <2>7. Cardinality(Pinned) <= MaxPinned
    BY <1>1, Zenon DEF BInv, Bounded
  <2>8. /\ Cardinality(Procs) \in Nat /\ Cardinality(Used) \in Nat /\ Cardinality(Pinned) \in Nat
        /\ Cardinality(Used \cup Pinned) \in Nat
    BY <2>4, <2>5, PinnedFinite, FS_CardinalityType, BcacheAssumption, ZenonT(40)
  <2> HIDE DEF Others, Used
  <2> QED BY <2>3, <2>4, <2>5, <2>6, <2>7, <2>8, BcacheAssumption, SMTT(30)
<1>2. BInv => BgetFinds
  BY <1>1, Zenon DEF BgetFinds
<1> QED BY <1>2, BInductive, PTL, ZenonT(30)
=============================================================================
