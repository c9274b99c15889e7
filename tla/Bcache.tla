------------------------------- MODULE Bcache -------------------------------
(***************************************************************************)
(* The buffer cache (bio.c) with the sleep locks of its buffers            *)
(* (sleeplock.c) and the queue of the disk driver (ide.c).  A process uses *)
(* one buffer at a time.                                                   *)
(***************************************************************************)
EXTENDS Naturals, Sequences, FiniteSets, SequencesExt

CONSTANTS
  NBUF, Procs, Blocks, Values,
  MaxPinned     \* blocks the log keeps dirty in the cache at a time

Bufs == 1..NBUF
NONE == 0       \* no block, no buffer, no process

ASSUME BcacheAssumption ==
  NBUF \in Nat /\ MaxPinned \in Nat /\ IsFiniteSet(Procs) /\ NONE \notin Blocks \cup Procs

VARIABLES
  blockno, valid, dirty, refcnt, data,   \* fields of struct buf
  locked,       \* the process that holds a buffer's sleep lock
  lru,          \* the list from head.next to head.prev
  idequeue,     \* buffers with a request, the active one first
  disk,
  pc, want, b,  \* where a process is, its block and its buffer
  latest        \* history: what was last stored in a block

vars == <<blockno, valid, dirty, refcnt, data, locked, lru, idequeue, disk, pc, want, b, latest>>

(* binit puts each buffer in front of the one before.                      *)
Init ==
  /\ blockno = [i \in Bufs |-> NONE] /\ refcnt = [i \in Bufs |-> 0]
  /\ valid = [i \in Bufs |-> FALSE] /\ dirty = [i \in Bufs |-> FALSE]
  /\ disk \in [Blocks -> {CHOOSE v \in Values : TRUE}] /\ latest = disk
  /\ data = [i \in Bufs |-> CHOOSE v \in Values : TRUE]
  /\ locked = [i \in Bufs |-> NONE]
  /\ lru = [i \in Bufs |-> NBUF + 1 - i] /\ idequeue = <<>>
  /\ pc = [p \in Procs |-> "idle"] /\ want = [p \in Procs |-> NONE]
  /\ b = [p \in Procs |-> NONE]

At(p, where) == pc[p] = where
Goto(p, where) == pc' = [pc EXCEPT ![p] = where]

----------------------------------------------------------------------------
bread(p) ==
  \E k \in Blocks :
    /\ At(p, "idle") /\ Goto(p, "bget") /\ want' = [want EXCEPT ![p] = k]
    /\ UNCHANGED <<blockno, valid, dirty, refcnt, data, locked, lru, idequeue, disk, b, latest>>

Cached(k) == {i \in Bufs : blockno[i] = k}

bgetHit(p) ==
  \E i \in Cached(want[p]) :
    /\ At(p, "bget")
    /\ refcnt' = [refcnt EXCEPT ![i] = @ + 1] /\ b' = [b EXCEPT ![p] = i]
    /\ Goto(p, "acquiresleep")
    /\ UNCHANGED <<blockno, valid, dirty, data, locked, lru, idequeue, disk, want, latest>>

RecyclableAny(i) == refcnt[i] = 0                \* mutated: dirty buffers too

Recyclable(i) == refcnt[i] = 0 /\ ~dirty[i]

(* The least recently used buffer that nobody uses and the log has not     *)
(* pinned.                                                                 *)
bgetMiss(p) ==
  \E j \in 1..NBUF :
    /\ At(p, "bget") /\ Cached(want[p]) = {}
    /\ Recyclable(lru[j]) /\ \A k \in (j + 1)..NBUF : ~Recyclable(lru[k])
    /\ blockno' = [blockno EXCEPT ![lru[j]] = want[p]]
    /\ valid' = [valid EXCEPT ![lru[j]] = FALSE]
    /\ refcnt' = [refcnt EXCEPT ![lru[j]] = 1] /\ b' = [b EXCEPT ![p] = lru[j]]
    /\ Goto(p, "acquiresleep")
    /\ UNCHANGED <<dirty, data, locked, lru, idequeue, disk, want, latest>>

(* acquiresleep: sleep while it is locked, and look again when woken.      *)
acquiresleepAlways(p) ==        \* mutated: if instead of while
  /\ At(p, "acquiresleep")
  /\ locked' = [locked EXCEPT ![b[p]] = p] /\ Goto(p, "locked")
  /\ UNCHANGED <<blockno, valid, dirty, refcnt, data, lru, idequeue, disk, want, b, latest>>

acquiresleep(p) ==
  /\ At(p, "acquiresleep")
  /\ IF locked[b[p]] = NONE
       THEN locked' = [locked EXCEPT ![b[p]] = p] /\ Goto(p, "locked")
       ELSE Goto(p, "asleep") /\ UNCHANGED locked
  /\ UNCHANGED <<blockno, valid, dirty, refcnt, data, lru, idequeue, disk, want, b, latest>>

breadDone(p) ==
  /\ At(p, "locked") /\ valid[b[p]]
  /\ Goto(p, "use")
  /\ UNCHANGED <<blockno, valid, dirty, refcnt, data, locked, lru, idequeue, disk, want, b, latest>>

(* iderw: queue the buffer and sleep until it is valid and not dirty.      *)
breadDisk(p) ==
  /\ At(p, "locked") /\ ~valid[b[p]]
  /\ idequeue' = Append(idequeue, b[p]) /\ Goto(p, "iderw")
  /\ UNCHANGED <<blockno, valid, dirty, refcnt, data, locked, lru, disk, want, b, latest>>

bwrite(p) ==
  \E v \in Values :
    /\ At(p, "use")
    /\ data' = [data EXCEPT ![b[p]] = v] /\ latest' = [latest EXCEPT ![want[p]] = v]
    /\ dirty' = [dirty EXCEPT ![b[p]] = TRUE]
    /\ idequeue' = Append(idequeue, b[p]) /\ Goto(p, "iderw")
    /\ UNCHANGED <<blockno, valid, refcnt, locked, lru, disk, want, b>>

(* The caller changes the data and log_write pins the buffer with B_DIRTY. *)
log_write(p) ==
  \E v \in Values :
    /\ At(p, "use") /\ Cardinality({i \in Bufs : dirty[i]} \cup {b[p]}) <= MaxPinned
    /\ data' = [data EXCEPT ![b[p]] = v] /\ latest' = [latest EXCEPT ![want[p]] = v]
    /\ dirty' = [dirty EXCEPT ![b[p]] = TRUE] /\ Goto(p, "brelse")
    /\ UNCHANGED <<blockno, valid, refcnt, locked, lru, idequeue, disk, want, b>>

(* The disk is done with the first request: data moved one way or the      *)
(* other; its process is woken and finds what it waits for.                *)
ideintr ==
  /\ idequeue # <<>>
  /\ LET i == Head(idequeue)
     IN  /\ data' = IF dirty[i] THEN data ELSE [data EXCEPT ![i] = disk[blockno[i]]]
         /\ disk' = IF dirty[i] THEN [disk EXCEPT ![blockno[i]] = data[i]] ELSE disk
         /\ valid' = [valid EXCEPT ![i] = TRUE] /\ dirty' = [dirty EXCEPT ![i] = FALSE]
         /\ pc' = [q \in Procs |-> IF pc[q] = "iderw" /\ b[q] = i THEN "use" ELSE pc[q]]
  /\ idequeue' = Tail(idequeue)
  /\ UNCHANGED <<blockno, refcnt, locked, lru, want, b, latest>>

releasesleepSilent(p) ==      \* mutated: no wakeup
  /\ pc[p] \in {"use", "brelse"}
  /\ locked' = [locked EXCEPT ![b[p]] = NONE]
  /\ Goto(p, "uncount")
  /\ UNCHANGED <<blockno, valid, dirty, refcnt, data, lru, idequeue, disk, want, b, latest>>

(* A buffer moved to the front of the list.                                *)
ToFront(i) ==
  LET k == CHOOSE j \in Bufs : lru[j] = i
  IN  [j \in Bufs |-> IF j = 1 THEN i ELSE IF j <= k THEN lru[j - 1] ELSE lru[j]]

brelseKeeps(p) ==      \* mutated: the count goes down only for the last user
  /\ At(p, "uncount")
  /\ refcnt' = IF refcnt[b[p]] = 1 THEN [refcnt EXCEPT ![b[p]] = 0] ELSE refcnt
  /\ lru' = IF refcnt[b[p]] = 1 THEN ToFront(b[p]) ELSE lru
  /\ Goto(p, "idle") /\ b' = [b EXCEPT ![p] = NONE] /\ want' = [want EXCEPT ![p] = NONE]
  /\ UNCHANGED <<blockno, valid, dirty, data, locked, idequeue, disk, latest>>

(* brelse: the lock first, then the count; the last user moves the buffer  *)
(* to the front.                                                           *)
releasesleep(p) ==
  /\ pc[p] \in {"use", "brelse"}
  /\ locked' = [locked EXCEPT ![b[p]] = NONE]
  /\ pc' = [q \in Procs |-> IF q = p THEN "uncount"
                            ELSE IF pc[q] = "asleep" /\ b[q] = b[p] THEN "acquiresleep" ELSE pc[q]]
  /\ UNCHANGED <<blockno, valid, dirty, refcnt, data, lru, idequeue, disk, want, b, latest>>

brelse(p) ==
  /\ At(p, "uncount")
  /\ refcnt' = [refcnt EXCEPT ![b[p]] = @ - 1]
  /\ lru' = IF refcnt[b[p]] = 1 THEN ToFront(b[p]) ELSE lru
  /\ Goto(p, "idle") /\ b' = [b EXCEPT ![p] = NONE] /\ want' = [want EXCEPT ![p] = NONE]
  /\ UNCHANGED <<blockno, valid, dirty, data, locked, idequeue, disk, latest>>

Step(p) ==
  \/ bread(p) \/ bgetHit(p) \/ bgetMiss(p) \/ acquiresleep(p) \/ breadDone(p) \/ breadDisk(p)
  \/ bwrite(p) \/ log_write(p) \/ releasesleep(p) \/ brelse(p)

Next == (\E p \in Procs : Step(p)) \/ ideintr

Spec == Init /\ [][Next]_vars

----------------------------------------------------------------------------
(* Whoever holds a buffer with a block's contents holds the latest: no two *)
(* buffers ever cache one block, a locked buffer is used by one process,   *)
(* and a block that is in no buffer is up to date on the disk (bio.c:57).  *)
Coherent ==
  /\ \A i, j \in Bufs : i # j /\ blockno[i] # NONE => blockno[i] # blockno[j]
  /\ \A p \in Procs : pc[p] \in {"use", "brelse"} =>
       /\ locked[b[p]] = p /\ blockno[b[p]] = want[p] /\ valid[b[p]]
       /\ data[b[p]] = latest[want[p]]
  /\ \A k \in Blocks : (\A i \in Bufs : blockno[i] = k => ~valid[i]) => disk[k] = latest[k]

(* The request queue: a buffer is queued once, by a process that holds its *)
(* lock and waits for it, and every such process has its buffer queued, so *)
(* nobody waits for an interrupt that will not come (ide.c:148).           *)
QueueSound ==
  /\ IsInjective(idequeue)
  /\ \A p \in Procs : pc[p] = "iderw" => Contains(idequeue, b[p])
  /\ \A i \in ToSet(idequeue) : \E p \in Procs : pc[p] = "iderw" /\ b[p] = i /\ locked[i] = p

(* bget never panics: as long as the cache is larger than what the log     *)
(* pins and the processes use, some buffer can be recycled (bio.c:91).     *)
BgetFinds ==
  \A p \in Procs : pc[p] = "bget" /\ Cached(want[p]) = {} => \E i \in Bufs : Recyclable(i)

(* A sleeper on a buffer's lock is woken: while somebody sleeps on it, the *)
(* lock is taken and its holder is not asleep on a lock (sleeplock.c:26).  *)
LockSleepersWoken ==
  \A p \in Procs : pc[p] = "asleep" =>
    locked[b[p]] # NONE /\ pc[locked[b[p]]] \in {"locked", "iderw", "use", "brelse"}
=============================================================================
