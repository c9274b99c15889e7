-------------------------------- MODULE Log ---------------------------------
(***************************************************************************)
(* The write-ahead log (log.c) under file system calls that overlap and a  *)
(* machine that may lose power between any two block writes.               *)
(***************************************************************************)
EXTENDS Naturals, Sequences, FiniteSets, SequencesExt

CONSTANTS
  Blocks, Values,
  Callers,       \* processes that make file system calls
  MAXOPBLOCKS,   \* what begin_op reserves for a call
  OPBLOCKS,      \* the most blocks a caller's calls write
  LOGSIZE,       \* capacity of the header
  SIZE           \* log.size: blocks of the on-disk log, the header included

ASSUME LogAssumption ==
  /\ IsFiniteSet(Callers)
  /\ MAXOPBLOCKS \in Nat \ {0} /\ OPBLOCKS \in [Callers -> 1..MAXOPBLOCKS]
  /\ LOGSIZE \in Nat /\ LOGSIZE >= MAXOPBLOCKS /\ SIZE \in Nat \ {0, 1}

VARIABLES
  disk,         \* home blocks on the disk
  dlog,         \* log blocks on the disk
  dhead,        \* header block on the disk: the numbers of the blocks
  cache,        \* what bread returns: the buffer cache over the disk
  lh,           \* log.lh in memory
  outstanding, committing,
  call,         \* a caller is "idle", in "begin_op", "asleep", "running" or in "commit"
  wrote,        \* the blocks its call has written
  phase, tail,  \* the step of commit or recovery, and its loop counter
  booting       \* recovery has not finished

vars == <<disk, dlog, dhead, cache, lh, outstanding, committing, call, wrote, phase, tail,
          booting>>
onDisk == <<disk, dlog, dhead>>

Init ==
  /\ \E v \in Values : disk = [b \in Blocks |-> v] /\ dlog = [i \in 1..(SIZE - 1) |-> v]
  /\ dhead = <<>> /\ cache = disk
  /\ lh = <<>> /\ outstanding = 0 /\ committing = FALSE
  /\ call = [p \in Callers |-> "idle"] /\ wrote = [p \in Callers |-> {}]
  /\ phase = "none" /\ tail = 1 /\ booting = FALSE

wakeupLog == [p \in Callers |-> IF call[p] = "asleep" THEN "begin_op" ELSE call[p]]

HasRoomOff(n) == Len(lh) + n * MAXOPBLOCKS <= LOGSIZE   \* mutated: this call is not counted

HasRoom(n) == Len(lh) + (n + 1) * MAXOPBLOCKS <= LOGSIZE

----------------------------------------------------------------------------
enter(p) ==
  /\ call[p] = "idle" /\ ~booting
  /\ call' = [call EXCEPT ![p] = "begin_op"]
  /\ UNCHANGED <<onDisk, cache, lh, outstanding, committing, wrote, phase, tail, booting>>

(* One turn of begin_op's loop, under log.lock.                            *)
begin_op(p) ==
  /\ call[p] = "begin_op"
  /\ \/ /\ committing \/ ~HasRoom(outstanding)
        /\ call' = [call EXCEPT ![p] = "asleep"]
        /\ UNCHANGED outstanding
     \/ /\ ~committing /\ HasRoom(outstanding)
        /\ call' = [call EXCEPT ![p] = "running"]
        /\ outstanding' = outstanding + 1
  /\ UNCHANGED <<onDisk, cache, lh, committing, wrote, phase, tail, booting>>

(* The two panics of log_write.                                            *)
TooBig == Len(lh) >= LOGSIZE \/ Len(lh) >= SIZE - 1
OutsideTrans == outstanding < 1

(* A call changes a buffer it holds locked and hands it to log_write.  A   *)
(* block already in the log is absorbed.                                   *)
log_write(p) ==
  \E b \in Blocks, v \in Values :
    /\ call[p] = "running" /\ ~TooBig
    /\ b \in wrote[p] \/ Cardinality(wrote[p]) < OPBLOCKS[p]
    /\ cache' = [cache EXCEPT ![b] = v]
    /\ lh' = IF Contains(lh, b) THEN lh ELSE Append(lh, b)
    /\ wrote' = [wrote EXCEPT ![p] = @ \cup {b}]
    /\ UNCHANGED <<onDisk, outstanding, committing, call, phase, tail, booting>>

end_opSilent(p) ==     \* mutated: begin_op's sleepers are not told of the space
  /\ call[p] = "running"
  /\ outstanding' = outstanding - 1
  /\ wrote' = [wrote EXCEPT ![p] = {}]
  /\ \/ /\ outstanding' = 0
        /\ committing' = TRUE /\ call' = [call EXCEPT ![p] = "commit"]
        /\ phase' = IF lh = <<>> THEN "done" ELSE "write_log"
     \/ /\ outstanding' > 0
        /\ call' = [call EXCEPT ![p] = "idle"]
        /\ UNCHANGED <<committing, phase>>
  /\ UNCHANGED <<onDisk, cache, lh, tail, booting>>

end_op(p) ==
  /\ call[p] = "running"
  /\ outstanding' = outstanding - 1
  /\ wrote' = [wrote EXCEPT ![p] = {}]
  /\ \/ /\ outstanding' = 0
        /\ committing' = TRUE /\ call' = [call EXCEPT ![p] = "commit"]
        /\ phase' = IF lh = <<>> THEN "done" ELSE "write_log"
     \/ /\ outstanding' > 0
        /\ call' = [wakeupLog EXCEPT ![p] = "idle"]
        /\ UNCHANGED <<committing, phase>>
  /\ UNCHANGED <<onDisk, cache, lh, tail, booting>>

----------------------------------------------------------------------------
(* commit and recovery, one bwrite at a time.                              *)

write_log ==
  /\ phase = "write_log"
  /\ dlog' = [dlog EXCEPT ![tail] = cache[lh[tail]]]
  /\ IF tail < Len(lh) THEN tail' = tail + 1 /\ UNCHANGED phase
                       ELSE tail' = 1 /\ phase' = "write_head"
  /\ UNCHANGED <<disk, dhead, cache, lh, outstanding, committing, call, wrote, booting>>

write_head ==
  /\ phase = "write_head"
  /\ dhead' = lh /\ phase' = "install_trans"
  /\ UNCHANGED <<disk, dlog, cache, lh, outstanding, committing, call, wrote, tail, booting>>

install_transShort ==     \* mutated: the last block is not installed
  /\ phase = "install_trans"
  /\ IF tail < Len(lh)
       THEN /\ disk' = [disk EXCEPT ![lh[tail]] = dlog[tail]]
            /\ cache' = [cache EXCEPT ![lh[tail]] = dlog[tail]]
            /\ tail' = tail + 1 /\ UNCHANGED phase
       ELSE tail' = 1 /\ phase' = "erase" /\ UNCHANGED <<disk, cache>>
  /\ UNCHANGED <<dlog, dhead, lh, outstanding, committing, call, wrote, booting>>

install_trans ==
  /\ phase = "install_trans"
  /\ IF tail <= Len(lh)
       THEN /\ disk' = [disk EXCEPT ![lh[tail]] = dlog[tail]]
            /\ cache' = [cache EXCEPT ![lh[tail]] = dlog[tail]]
            /\ tail' = tail + 1 /\ UNCHANGED phase
       ELSE tail' = 1 /\ phase' = "erase" /\ UNCHANGED <<disk, cache>>
  /\ UNCHANGED <<dlog, dhead, lh, outstanding, committing, call, wrote, booting>>

(* log.lh.n = 0 and write_head.                                            *)
erase ==
  /\ phase = "erase"
  /\ lh' = <<>> /\ dhead' = <<>>
  /\ phase' = IF booting THEN "none" ELSE "done"
  /\ booting' = FALSE
  /\ UNCHANGED <<disk, dlog, cache, outstanding, committing, call, wrote, tail>>

end_opDone ==
  /\ phase = "done"
  /\ committing' = FALSE /\ phase' = "none"
  /\ call' = [p \in Callers |-> IF call[p] = "commit" THEN "idle" ELSE wakeupLog[p]]
  /\ UNCHANGED <<onDisk, cache, lh, outstanding, wrote, tail, booting>>

crashForgets ==     \* mutated: recovery erases the header without installing
  /\ booting' = TRUE /\ lh' = dhead /\ phase' = "erase" /\ tail' = 1
  /\ cache' = disk
  /\ outstanding' = 0 /\ committing' = FALSE
  /\ call' = [p \in Callers |-> "idle"] /\ wrote' = [p \in Callers |-> {}]
  /\ UNCHANGED onDisk

(* Power is lost: memory is gone, the disk keeps what was written.  The    *)
(* restart begins with initlog's recover_from_log, whose read_head is here.*)
crash ==
  /\ booting' = TRUE /\ lh' = dhead /\ phase' = "install_trans" /\ tail' = 1
  /\ cache' = disk
  /\ outstanding' = 0 /\ committing' = FALSE
  /\ call' = [p \in Callers |-> "idle"] /\ wrote' = [p \in Callers |-> {}]
  /\ UNCHANGED onDisk

Next ==
  \/ \E p \in Callers : enter(p) \/ begin_op(p) \/ log_write(p) \/ end_op(p)
  \/ write_log \/ write_head \/ install_trans \/ erase \/ end_opDone
  \/ crash

Spec == Init /\ [][Next]_vars

----------------------------------------------------------------------------
(* The blocks a restart would find: recovery copies what the header lists. *)
RecoveredFrom(d, l, h) ==
  [b \in Blocks |-> IF Contains(h, b) THEN l[CHOOSE i \in 1..Len(h) : h[i] = b] ELSE d[b]]

Recovered == RecoveredFrom(disk, dlog, dhead)

(* The blocks that calls see; after a crash, once recovery is over.        *)
Seen == IF booting THEN Recovered ELSE cache

Abstract == INSTANCE AtomicDisk WITH
  mem <- Seen,
  stable <- Recovered,
  active <- outstanding

(* The log implements the atomic disk: the blocks that a crash at any      *)
(* moment leads back to are those of a moment when no call was between     *)
(* begin_op and end_op (log.c:192).                                        *)
Atomicity == Abstract!Spec

(* When no call is in progress and end_op is done with the commit, all     *)
(* that calls have written would survive a crash, and the home blocks hold *)
(* it already (log.c:166).                                                 *)
Durable ==
  outstanding = 0 /\ ~committing /\ ~booting => Recovered = cache /\ disk = cache /\ lh = <<>>

(* log_write never panics: while a call runs, the log is not full, even if *)
(* all that the call goes on to write is absorbed, and no commit has begun *)
(* (log.c:132, 218).                                                       *)
LogHasSpace ==
  \A p \in Callers : call[p] = "running" => ~TooBig /\ ~OutsideTrans /\ ~committing

(* Nobody sleeps in begin_op when begin_op would let them through, and     *)
(* while somebody sleeps there is a call or a commit to wake them          *)
(* (log.c:161, 171).                                                       *)
LogSleepersWoken ==
  (\E p \in Callers : call[p] = "asleep") =>
    /\ committing \/ ~HasRoom(outstanding)
    /\ \E q \in Callers : call[q] \in {"running", "commit"}
=============================================================================
