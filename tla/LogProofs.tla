----------------------------- MODULE LogProofs ------------------------------
(***************************************************************************)
(* The log for any number of blocks, callers and any sizes: it implements  *)
(* AtomicDisk, what was committed is on the disk, sleepers are woken, and  *)
(* log_write finds room.                                                   *)
(***************************************************************************)
EXTENDS Log, FiniteSetTheorems, TLAPS

Phases == {"none", "write_log", "write_head", "install_trans", "erase", "done"}
Places == {"idle", "begin_op", "asleep", "running", "commit"}

LType ==
  /\ disk \in [Blocks -> Values] /\ cache \in [Blocks -> Values]
  /\ dlog \in [1..(SIZE - 1) -> Values]
  /\ lh \in Seq(Blocks) /\ dhead \in Seq(Blocks)
  /\ Len(lh) <= SIZE - 1 /\ Len(dhead) <= SIZE - 1
  /\ outstanding \in Nat /\ tail \in Nat
  /\ committing \in BOOLEAN /\ booting \in BOOLEAN
  /\ phase \in Phases /\ call \in [Callers -> Places]
  /\ wrote \in [Callers -> SUBSET Blocks]

Injective(s) == \A i, j \in 1..Len(s) : s[i] = s[j] => i = j

(* What memory, the log and the home blocks hold in each phase.            *)
Stored ==
  /\ Injective(lh)
  /\ dhead = IF phase \in {"install_trans", "erase"} THEN lh ELSE <<>>
  /\ phase = "done" \/ (phase = "none" /\ outstanding = 0) => lh = <<>>
  /\ ~booting => \A b \in Blocks : ~Contains(lh, b) => disk[b] = cache[b]
  /\ booting => cache = disk
  /\ phase = "write_log" => /\ tail \in 1..Len(lh)
                            /\ \A i \in 1..(tail - 1) : dlog[i] = cache[lh[i]]
  /\ phase \in {"write_head", "install_trans", "erase"} /\ ~booting =>
       \A i \in 1..Len(lh) : dlog[i] = cache[lh[i]]
  /\ phase = "install_trans" => /\ tail \in 1..(Len(lh) + 1)
                                /\ \A i \in 1..(tail - 1) : disk[lh[i]] = dlog[i]
  /\ phase = "erase" => \A i \in 1..Len(lh) : disk[lh[i]] = dlog[i]
  /\ phase \notin {"write_log", "install_trans"} => tail = 1

Running == {p \in Callers : call[p] = "running"}

(* Who is where: outstanding counts the running calls, and there is none   *)
(* while a commit or recovery goes on.                                     *)
Counted ==
  /\ outstanding = Cardinality(Running)
  /\ Running # {} => phase = "none"
  /\ booting => phase \in {"install_trans", "erase"} /\ \A p \in Callers : call[p] = "idle"
  /\ committing <=> (phase # "none" /\ ~booting)
  /\ committing <=> \E p \in Callers : call[p] = "commit"
  /\ \A p \in Callers : call[p] = "asleep" => committing \/ ~HasRoom(outstanding)

(* What begin_op reserved and the running calls have not used.             *)
Slots == {s \in Running \X (1..MAXOPBLOCKS) : s[2] > Cardinality(wrote[s[1]])}

(* Each running call's blocks are in the log, and the rest of what was     *)
(* reserved for the calls still fits.                                      *)
Reserved ==
  /\ \A p \in Callers : /\ IsFiniteSet(wrote[p]) /\ Cardinality(wrote[p]) <= OPBLOCKS[p]
                        /\ p \notin Running => wrote[p] = {}
                        /\ \A b \in wrote[p] : Contains(lh, b)
  /\ Running # {} => Len(lh) + Cardinality(Slots) <= LOGSIZE

LInv == LType /\ Stored /\ Counted /\ Reserved

----------------------------------------------------------------------------
(* Recovery.                                                               *)

(* An empty header leaves the home blocks as they are.                     *)
LEMMA RecoverNothing ==
  ASSUME NEW d \in [Blocks -> Values], NEW l PROVE RecoveredFrom(d, l, <<>>) = d
BY DEF RecoveredFrom, Contains

(* If the log has c's value of each block it lists, and the home blocks    *)
(* have c's values of the others, recovery gives c.                        *)
LEMMA RecoverAll ==
  ASSUME NEW d, NEW l, NEW h \in Seq(Blocks), NEW c \in [Blocks -> Values],
         \A i \in 1..Len(h) : l[i] = c[h[i]],
         \A b \in Blocks : ~Contains(h, b) => d[b] = c[b]
  PROVE  RecoveredFrom(d, l, h) = c
<1>1. ASSUME NEW b \in Blocks PROVE RecoveredFrom(d, l, h)[b] = c[b]
  <2>1. CASE Contains(h, b)
    <3> DEFINE i == CHOOSE k \in 1..Len(h) : h[k] = b
    <3>1. i \in 1..Len(h) /\ h[i] = b
      BY <2>1, Zenon DEF Contains
    <3>2. l[i] = c[b]
      BY <3>1, Zenon
    <3>3. RecoveredFrom(d, l, h)[b] = l[i]
      BY <2>1, Zenon DEF RecoveredFrom
    <3> QED BY <3>2, <3>3, Zenon
  <2>2. CASE ~Contains(h, b)
    BY <2>2, Zenon DEF RecoveredFrom
  <2> QED BY <2>1, <2>2, Zenon
<1>2. RecoveredFrom(d, l, h) = [b \in Blocks |-> c[b]]
  BY <1>1, Zenon DEF RecoveredFrom
<1> QED BY <1>2, Zenon

(* Only the home blocks that the header does not list matter.              *)
LEMMA RecoverSame ==
  ASSUME NEW d, NEW e, NEW l, NEW h, \A b \in Blocks : ~Contains(h, b) => d[b] = e[b]
  PROVE  RecoveredFrom(d, l, h) = RecoveredFrom(e, l, h)
<1>1. ASSUME NEW b \in Blocks PROVE RecoveredFrom(d, l, h)[b] = RecoveredFrom(e, l, h)[b]
  <2> DEFINE copy == l[CHOOSE i \in 1..Len(h) : h[i] = b]
  <2>1. /\ RecoveredFrom(d, l, h)[b] = IF Contains(h, b) THEN copy ELSE d[b]
        /\ RecoveredFrom(e, l, h)[b] = IF Contains(h, b) THEN copy ELSE e[b]
    BY Zenon DEF RecoveredFrom
  <2> HIDE DEF copy
  <2> QED BY <2>1, Zenon
<1> QED BY <1>1, Zenon DEF RecoveredFrom

----------------------------------------------------------------------------
(* The callers in a call are finitely many, and outstanding counts them.   *)
LEMMA RunningFinite == IsFiniteSet(Running)
<1>1. Running \in SUBSET Callers
  BY Zenon DEF Running
<1> QED BY <1>1, FS_Subset, LogAssumption, Zenon

(* outstanding counts the calls that are running.                          *)
LEMMA SomebodyRuns ==
  ASSUME Counted PROVE outstanding \in Nat /\ (outstanding > 0 <=> Running # {})
<1>1. Cardinality(Running) \in Nat
  BY RunningFinite, FS_CardinalityType, Zenon
<1>2. Cardinality(Running) = 0 <=> Running = {}
  BY RunningFinite, FS_EmptySet, Zenon
<1>3. outstanding = Cardinality(Running)
  BY Zenon DEF Counted
<1> QED BY <1>1, <1>2, <1>3

----------------------------------------------------------------------------
(* Types.                                                                  *)

(* A function updated with a value of its range keeps its type.            *)
LEMMA ExceptType ==
  ASSUME NEW S, NEW T, NEW f \in [S -> T], NEW x, NEW v \in T
  PROVE  [f EXCEPT ![x] = v] \in [S -> T]
BY Zenon

(* Every step keeps the types.                                             *)
LEMMA TypeStep ==
  ASSUME LInv, [Next]_vars PROVE LType'
<1> USE LogAssumption DEF LType, LInv
<1>1. ASSUME NEW p \in Callers, enter(p) PROVE LType'
  BY <1>1, Zenon DEF enter, onDisk, Places
<1>2. ASSUME NEW p \in Callers, begin_op(p) PROVE LType'
  BY <1>2, SMTT(30) DEF begin_op, onDisk, Places
<1>3. ASSUME NEW p \in Callers, log_write(p) PROVE LType'
  BY <1>3 DEF log_write, onDisk, TooBig
<1>4. ASSUME NEW p \in Callers, end_op(p) PROVE LType'
  <2>1. outstanding > 0
    BY <1>4, SomebodyRuns, Zenon DEF end_op, Running
  <2>2. call' \in [Callers -> Places]
    BY <1>4, Zenon DEF end_op, wakeupLog, Places
  <2>3. phase' \in Phases /\ committing' \in BOOLEAN
    BY <1>4, Zenon DEF end_op, Phases
  <2>4. /\ UNCHANGED <<disk, dlog, dhead, cache, lh, tail, booting>>
        /\ outstanding' = outstanding - 1 /\ wrote' = [wrote EXCEPT ![p] = {}]
    BY <1>4, Zenon DEF end_op, onDisk
  <2> QED BY <2>1, <2>2, <2>3, <2>4, SMTT(30)
<1>5. CASE write_log
  BY <1>5 DEF write_log, Stored, Phases
<1>6. CASE write_head
  BY <1>6, Zenon DEF write_head, Phases
<1>7. CASE install_trans
  <2>1. tail \in 1..(Len(lh) + 1)
    BY <1>7, Zenon DEF install_trans, Stored
  <2>2. disk' \in [Blocks -> Values] /\ cache' \in [Blocks -> Values] /\ tail' \in Nat
    <3>1. CASE tail <= Len(lh)
      <4>1. dlog[tail] \in Values
        BY <2>1, <3>1
      <4>2. /\ disk' = [disk EXCEPT ![lh[tail]] = dlog[tail]]
            /\ cache' = [cache EXCEPT ![lh[tail]] = dlog[tail]] /\ tail' = tail + 1
        BY <1>7, <3>1, Zenon DEF install_trans
      <4>3. tail' \in Nat
        BY <4>2
      <4> QED BY <4>1, <4>2, <4>3, ExceptType, Zenon
    <3>2. CASE ~(tail <= Len(lh))
      BY <1>7, <3>2 DEF install_trans
    <3> QED BY <3>1, <3>2, Zenon
  <2>3. phase' \in Phases
    BY <1>7, Zenon DEF install_trans, Phases
  <2>4. UNCHANGED <<dlog, dhead, lh, outstanding, committing, call, wrote, booting>>
    BY <1>7, Zenon DEF install_trans
  <2> QED BY <2>2, <2>3, <2>4, Zenon
<1>8. CASE erase
  <2>1. phase' \in Phases
    BY <1>8, Zenon DEF erase, Phases
  <2>2. ASSUME NEW s, s = <<>> PROVE s \in Seq(Blocks) /\ Len(s) <= SIZE - 1
    BY <2>2
  <2>3. /\ lh' = <<>> /\ dhead' = <<>> /\ booting' = FALSE
        /\ UNCHANGED <<disk, dlog, cache, outstanding, committing, call, wrote, tail>>
    BY <1>8, Zenon DEF erase
  <2> QED BY <2>1, <2>2, <2>3, Zenon
<1>9. CASE end_opDone
  BY <1>9, Zenon DEF end_opDone, onDisk, Phases, Places, wakeupLog
<1>10. CASE crash
  BY <1>10, Zenon DEF crash, onDisk, Phases, Places
<1>11. CASE UNCHANGED vars
  BY <1>11, Zenon DEF vars, onDisk
<1> QED
  BY <1>1, <1>2, <1>3, <1>4, <1>5, <1>6, <1>7, <1>8, <1>9, <1>10, <1>11, Zenon DEF Next

----------------------------------------------------------------------------
(* Who is where.                                                           *)

(* Steps that leave call alone and are not the beginning or end of a       *)
(* commit.                                                                 *)
LEMMA CountedSame ==
  ASSUME LInv, UNCHANGED <<call, outstanding, committing>>, HasRoom(outstanding)' => HasRoom(outstanding),
         (phase # "none" /\ ~booting)' <=> (phase # "none" /\ ~booting),
         Running # {} => phase' = "none",
         booting' => booting /\ phase' \in {"install_trans", "erase"}
  PROVE  Counted'
<1>1. Running' = Running
  BY Zenon DEF Running
<1> QED BY <1>1, Zenon DEF LInv, Counted

(* Fewer blocks in the log leave at least as much room.                    *)
LEMMA NoRoomLeft ==
  ASSUME NEW n \in Nat, NEW s \in Nat, NEW t \in Nat, s <= t,
         t + (n + 1) * MAXOPBLOCKS <= LOGSIZE
  PROVE  s + (n + 1) * MAXOPBLOCKS <= LOGSIZE
<1>1. (n + 1) * MAXOPBLOCKS \in Nat
  BY LogAssumption
<1> QED BY <1>1, LogAssumption

(* The calls of the log keep outstanding right.                            *)
LEMMA CountedCalls ==
  ASSUME LInv, NEW p \in Callers, enter(p) \/ begin_op(p) \/ log_write(p) \/ end_op(p)
  PROVE  Counted'
<1> USE DEF LInv
<1>1. CASE enter(p)
  <2>1. call' = [call EXCEPT ![p] = "begin_op"] /\ call[p] = "idle"
        /\ UNCHANGED <<lh, outstanding, committing, phase, booting>>
    BY <1>1, Zenon DEF enter
  <2>2. \A q \in Callers : \A w \in {"running", "commit", "asleep"} : call'[q] = w <=> call[q] = w
    BY <2>1, Zenon DEF LType
  <2>3. Running' = Running
    BY <2>2, Zenon DEF Running
  <2>4. ~booting
    BY <1>1, Zenon DEF enter
  <2> QED BY <2>1, <2>2, <2>3, <2>4, Zenon DEF Counted, HasRoom
<1>2. CASE begin_op(p) /\ (committing \/ ~HasRoom(outstanding))
  <2>1. call' = [call EXCEPT ![p] = "asleep"] /\ call[p] = "begin_op"
        /\ UNCHANGED <<lh, outstanding, committing, phase, booting>>
    BY <1>2, Zenon DEF begin_op
  <2>2. \A q \in Callers : \A w \in {"running", "commit"} : call'[q] = w <=> call[q] = w
    BY <2>1, Zenon DEF LType
  <2>3. Running' = Running
    BY <2>2, Zenon DEF Running
  <2>4. ~booting
    BY <2>1, Zenon DEF Counted
  <2> QED BY <1>2, <2>1, <2>2, <2>3, <2>4, Zenon DEF Counted, HasRoom
<1>3. CASE begin_op(p) /\ ~committing /\ HasRoom(outstanding)
  <2>1. call' = [call EXCEPT ![p] = "running"] /\ call[p] = "begin_op"
        /\ outstanding' = outstanding + 1
        /\ UNCHANGED <<lh, committing, phase, booting>>
    BY <1>3, Zenon DEF begin_op
  <2>2. \A q \in Callers : call'[q] = "commit" <=> call[q] = "commit"
    BY <2>1, Zenon DEF LType
  <2>7. ~booting
    BY <2>1, Zenon DEF Counted
  <2>3. Running' = Running \cup {p} /\ p \notin Running
    BY <2>1, Zenon DEF LType, Running
  <2>4. outstanding' = Cardinality(Running')
    BY <2>1, <2>3, FS_AddElement, RunningFinite, Zenon DEF Counted
  <2>5. phase = "none"
    BY <1>3, <2>7, Zenon DEF Counted
  <2>6. \A q \in Callers : call'[q] # "asleep"
    BY <1>3, <2>1, Zenon DEF LType, Counted
  <2> QED BY <2>1, <2>2, <2>4, <2>5, <2>6, <2>7, Zenon DEF Counted
<1>4. CASE log_write(p)
  <2>1. /\ UNCHANGED <<call, outstanding, committing, phase, booting>>
        /\ Len(lh') \in Nat /\ Len(lh) <= Len(lh')
    BY <1>4 DEF log_write, LType
  <2>2. HasRoom(outstanding)' => HasRoom(outstanding)
    BY <2>1, NoRoomLeft DEF HasRoom, LType
  <2> QED BY <2>1, <2>2, CountedSame, Zenon DEF Counted
<1>5. CASE end_op(p)
  <2>1. /\ call[p] = "running" /\ outstanding' = outstanding - 1
        /\ UNCHANGED <<lh, booting>> /\ p \in Running
    BY <1>5, Zenon DEF end_op, Running
  <2>2. phase = "none" /\ ~booting /\ ~committing
    BY <2>1, Zenon DEF Counted
  <2>3. \A q \in Callers : call[q] # "commit"
    BY <2>2, Zenon DEF Counted
  <2>4. CASE outstanding' = 0
    <3>1. /\ committing' = TRUE /\ call' = [call EXCEPT ![p] = "commit"]
          /\ phase' \in {"done", "write_log"}
      BY <1>5, <2>4 DEF end_op
    <3>2. Running' = Running \ {p} /\ call'[p] = "commit"
      BY <3>1, Zenon DEF Running, LType
    <3>3. outstanding' = Cardinality(Running')
      BY <2>1, <3>2, FS_RemoveElement, RunningFinite, Zenon DEF Counted
    <3>4. IsFiniteSet(Running')
      BY <3>2, FS_RemoveElement, RunningFinite, Zenon
    <3>5. Running' = {}
      BY <2>4, <3>3, <3>4, FS_EmptySet, Zenon
    <3> QED BY <2>1, <2>2, <3>1, <3>2, <3>3, <3>5, Zenon DEF Counted
  <2>5. CASE outstanding' > 0
    <3>1. call' = [wakeupLog EXCEPT ![p] = "idle"] /\ UNCHANGED <<committing, phase>>
      BY <1>5, <2>1, <2>5, SMTT(30) DEF end_op
    <3>2. \A q \in Callers : /\ call'[q] # "asleep" /\ call'[q] # "commit"
                             /\ call'[q] = "running" <=> call[q] = "running" /\ q # p
      BY <2>3, <3>1, Zenon DEF wakeupLog
    <3>3. Running' = Running \ {p}
      BY <3>2, Zenon DEF Running
    <3>4. outstanding' = Cardinality(Running')
      BY <2>1, <3>3, FS_RemoveElement, RunningFinite, Zenon DEF Counted
    <3> QED BY <2>1, <2>2, <3>1, <3>2, <3>4, Zenon DEF Counted
  <2>6. outstanding' \in Nat
    BY <2>1, SomebodyRuns
  <2> QED BY <2>4, <2>5, <2>6
<1> QED BY <1>1, <1>2, <1>3, <1>4, <1>5, Zenon DEF begin_op

(* So does every step.                                                     *)
LEMMA CountedStep ==
  ASSUME LInv, [Next]_vars PROVE Counted'
<1> USE DEF LInv
<1>1. CASE \E p \in Callers : enter(p) \/ begin_op(p) \/ log_write(p) \/ end_op(p)
  BY <1>1, CountedCalls, Zenon
<1>2. CASE write_log \/ write_head \/ install_trans
  <2>1. /\ UNCHANGED <<call, outstanding, committing, lh, booting>>
        /\ phase # "none" /\ phase' # "none"
        /\ phase = "install_trans" => phase' \in {"install_trans", "erase"}
        /\ phase # "install_trans" => phase \in {"write_log", "write_head"}
    BY <1>2, Zenon DEF write_log, write_head, install_trans
  <2>2. booting => phase = "install_trans"
    BY <2>1, Zenon DEF Counted
  <2>3. Running = {}
    BY <2>1, Zenon DEF Counted
  <2> QED BY <2>1, <2>2, <2>3, CountedSame, Zenon DEF HasRoom
<1>3. CASE erase
  <2>1. /\ UNCHANGED <<call, outstanding, committing>> /\ phase = "erase" /\ ~booting'
        /\ phase' = IF booting THEN "none" ELSE "done"
    BY <1>3, Zenon DEF erase
  <2>2. Running' = Running /\ Running = {}
    BY <2>1, Zenon DEF Running, Counted
  <2>3. \A p \in Callers : call[p] = "asleep" => committing
    BY <2>1, Zenon DEF Counted
  <2>4. committing <=> ~booting
    BY <2>1, Zenon DEF Counted
  <2>5. committing' <=> (phase' # "none" /\ ~booting')
    BY <2>1, <2>4, Zenon
  <2> QED BY <2>1, <2>2, <2>3, <2>5, Zenon DEF Counted
<1>4. CASE end_opDone
  <2>1. /\ UNCHANGED <<outstanding, booting>> /\ phase = "done" /\ phase' = "none"
        /\ committing' = FALSE
        /\ call' = [p \in Callers |-> IF call[p] = "commit" THEN "idle" ELSE wakeupLog[p]]
    BY <1>4, Zenon DEF end_opDone
  <2>2. \A q \in Callers : /\ call'[q] # "asleep" /\ call'[q] # "commit"
                           /\ call'[q] = "running" <=> call[q] = "running"
    BY <2>1, Zenon DEF wakeupLog
  <2>3. Running' = Running
    BY <2>2, Zenon DEF Running
  <2>4. ~booting
    BY <2>1, Zenon DEF Counted
  <2> QED BY <2>1, <2>2, <2>3, <2>4, Zenon DEF Counted
<1>5. CASE crash
  <2>1. /\ booting' = TRUE /\ phase' = "install_trans" /\ outstanding' = 0
        /\ committing' = FALSE /\ \A p \in Callers : call'[p] = "idle"
    BY <1>5, Zenon DEF crash
  <2>2. Running' = {}
    BY <2>1, Zenon DEF Running
  <2> QED BY <2>1, <2>2, FS_EmptySet, Zenon DEF Counted
<1>6. CASE UNCHANGED vars
  <2>1. UNCHANGED <<call, outstanding, committing, lh, booting, phase>>
    BY <1>6, Zenon DEF vars
  <2> QED BY <2>1, CountedSame, Zenon DEF HasRoom, Counted
<1> QED
  BY <1>1, <1>2, <1>3, <1>4, <1>5, <1>6, Zenon DEF Next

----------------------------------------------------------------------------
(* What is stored where.                                                   *)

(* A step that leaves disk, log and cache alone keeps what is stored.      *)
LEMMA StoredSame ==
  ASSUME Stored, UNCHANGED <<disk, dlog, dhead, cache, lh, phase, tail, booting>>,
         outstanding' = 0 => outstanding = 0
  PROVE  Stored'
BY DEF Stored, Injective

(* A block a running call writes is in the log afterwards.                 *)
LEMMA StoredWrite ==
  ASSUME LInv, NEW p \in Callers, log_write(p) PROVE Stored'
<1> USE DEF LInv
<1>1. PICK b \in Blocks, v \in Values :
        /\ call[p] = "running" /\ cache' = [cache EXCEPT ![b] = v]
        /\ lh' = IF Contains(lh, b) THEN lh ELSE Append(lh, b)
        /\ UNCHANGED <<disk, dlog, dhead, outstanding, phase, tail, booting>>
  BY Zenon DEF log_write, onDisk
<1>2. Running # {}
  BY <1>1, Zenon DEF Running
<1>3. phase = "none" /\ ~booting /\ outstanding > 0
  BY <1>2, SomebodyRuns, Zenon DEF Counted
<1>4. Injective(lh')
  BY <1>1 DEF Stored, Injective, LType, Contains
<1>5. \A c \in Blocks : Contains(lh', c) <=> Contains(lh, c) \/ c = b
  BY <1>1 DEF LType, Contains
<1>6. \A c \in Blocks : ~Contains(lh', c) => disk'[c] = cache'[c]
  BY <1>1, <1>3, <1>5, Zenon DEF Stored, LType
<1>7. dhead' = <<>> /\ tail' = 1
  BY <1>1, <1>3, Zenon DEF Stored
<1> QED BY <1>1, <1>3, <1>4, <1>6, <1>7, SMTT(30) DEF Stored

(* write_log and write_head put the transaction where recovery finds it.   *)
LEMMA StoredCommit ==
  ASSUME LInv, write_log \/ write_head PROVE Stored'
<1> USE DEF LInv
<1>0. ~booting
  BY Zenon DEF Counted, write_log, write_head
<1>1. CASE write_log
  <2>1. /\ phase = "write_log" /\ dlog' = [dlog EXCEPT ![tail] = cache[lh[tail]]]
        /\ UNCHANGED <<disk, dhead, cache, lh, outstanding, booting>>
    BY <1>1, Zenon DEF write_log
  <2>2. tail \in 1..Len(lh) /\ \A i \in 1..(tail - 1) : dlog[i] = cache[lh[i]]
    BY <2>1, Zenon DEF Stored
  <2>3. \A i \in 1..tail : dlog'[i] = cache[lh[i]]
    <3>1. tail \in 1..(SIZE - 1)
      BY <2>2, LogAssumption DEF LType
    <3>2. ASSUME NEW i \in 1..tail PROVE dlog'[i] = cache[lh[i]]
      BY <2>1, <2>2, <3>1, <3>2, LogAssumption, SMTT(30) DEF LType
    <3> QED BY <3>2, Zenon
  <2>4. dhead = <<>>
    BY <2>1, Zenon DEF Stored
  <2>5. CASE tail < Len(lh)
    <3>1. tail' = tail + 1 /\ phase' = phase
      BY <1>1, <2>5, Zenon DEF write_log
    <3> QED BY <1>0, <2>1, <2>2, <2>3, <2>4, <2>5, <3>1, SMTT(30) DEF Stored, Injective, LType
  <2>6. CASE ~(tail < Len(lh))
    <3>1. tail' = 1 /\ phase' = "write_head"
      BY <1>1, <2>6, Zenon DEF write_log
    <3>2. tail = Len(lh)
      BY <2>2, <2>6, SMTT(30) DEF LType
    <3> QED BY <1>0, <2>1, <2>3, <2>4, <3>1, <3>2, SMTT(30) DEF Stored, Injective, LType
  <2> QED BY <2>5, <2>6, Zenon
<1>2. CASE write_head
  <2>1. /\ phase = "write_head" /\ dhead' = lh /\ phase' = "install_trans"
        /\ UNCHANGED <<disk, dlog, cache, lh, outstanding, tail, booting>>
    BY <1>2, Zenon DEF write_head
  <2>2. tail = 1
    BY <2>1, Zenon DEF Stored
  <2>3. tail' \in 1..(Len(lh') + 1) /\ \A i \in 1..(tail' - 1) : disk'[lh'[i]] = dlog'[i]
    BY <2>1, <2>2 DEF LType
  <2> QED BY <1>0, <2>1, <2>3 DEF Stored, Injective
<1> QED BY <1>1, <1>2, Zenon

(* Installing goes on with the block at tail, for a commit and for         *)
(* recovery alike.                                                         *)
LEMMA StoredInstall ==
  ASSUME LInv, install_trans PROVE Stored'
<1> USE DEF LInv
<1>1. /\ phase = "install_trans" /\ UNCHANGED <<dlog, dhead, lh, outstanding, booting>>
      /\ dhead = lh /\ tail \in 1..(Len(lh) + 1)
      /\ \A i \in 1..(tail - 1) : disk[lh[i]] = dlog[i]
  BY Zenon DEF install_trans, Stored
<1>2. CASE tail <= Len(lh)
  <2>1. /\ disk' = [disk EXCEPT ![lh[tail]] = dlog[tail]]
        /\ cache' = [cache EXCEPT ![lh[tail]] = dlog[tail]]
        /\ tail' = tail + 1 /\ phase' = phase
    BY <1>2, Zenon DEF install_trans
  <2>2. lh[tail] \in Blocks
    BY <1>1, <1>2 DEF LType
  <2>3. ASSUME NEW i \in 1..tail PROVE disk'[lh[i]] = dlog[i]
    <3>1. CASE i = tail
      BY <2>1, <2>2, <3>1, Zenon DEF LType
    <3>2. CASE i # tail
      <4>1. i \in 1..(tail - 1) /\ i \in 1..Len(lh) /\ tail \in 1..Len(lh)
        BY <1>1, <1>2, <2>3, <3>2, SMTT(30) DEF LType
      <4>2. lh[i] # lh[tail]
        BY <3>2, <4>1, Zenon DEF Stored, Injective
      <4> QED BY <1>1, <2>1, <4>1, <4>2, SMTT(30) DEF LType
    <3> QED BY <3>1, <3>2, Zenon
  <2>4. ASSUME ~booting PROVE cache' = cache
    <3>1. dlog[tail] = cache[lh[tail]]
      BY <1>1, <1>2, <2>4, SMTT(30) DEF Stored
    <3> QED BY <2>1, <3>1, Zenon DEF LType
  <2>5. ASSUME ~booting, NEW b \in Blocks, ~Contains(lh, b) PROVE disk'[b] = cache'[b]
    <3>1. b # lh[tail]
      BY <1>1, <1>2, <2>5 DEF Contains, LType
    <3>2. disk[b] = cache[b]
      BY <2>5, Zenon DEF Stored
    <3> QED BY <2>1, <2>4, <2>5, <3>1, <3>2, Zenon DEF LType
  <2>6. booting => cache' = disk'
    BY <2>1, Zenon DEF Stored
  <2>7. ~booting => \A i \in 1..Len(lh) : dlog[i] = cache'[lh[i]]
    BY <1>1, <2>4, Zenon DEF Stored
  <2>8. tail' \in 1..(Len(lh) + 1) /\ tail' - 1 = tail
    BY <1>1, <1>2, <2>1, SMTT(30) DEF LType
  <2>9. Injective(lh)
    BY Zenon DEF Stored
  <2> QED BY <1>1, <2>1, <2>3, <2>5, <2>6, <2>7, <2>8, <2>9, SMTT(30) DEF Stored, Injective
<1>3. CASE ~(tail <= Len(lh))
  <2>1. /\ tail' = 1 /\ phase' = "erase" /\ UNCHANGED <<disk, cache>>
    BY <1>3, Zenon DEF install_trans
  <2>2. tail - 1 = Len(lh)
    BY <1>1, <1>3, SMTT(30) DEF LType
  <2> QED BY <1>1, <2>1, <2>2, SMTT(30) DEF Stored, Injective
<1> QED BY <1>2, <1>3, Zenon

(* Once everything is installed, the header may go.                        *)
LEMMA StoredErase ==
  ASSUME LInv, erase PROVE Stored'
<1> USE DEF LInv
<1>1. /\ phase = "erase" /\ lh' = <<>> /\ dhead' = <<>> /\ booting' = FALSE
      /\ phase' \in {"none", "done"}
      /\ UNCHANGED <<disk, dlog, cache, outstanding, tail>>
  BY Zenon DEF erase
<1>2. ASSUME NEW b \in Blocks PROVE disk[b] = cache[b]
  <2>1. CASE booting
    BY <2>1, Zenon DEF Stored
  <2>2. CASE ~booting /\ ~Contains(lh, b)
    BY <2>2, Zenon DEF Stored
  <2>3. CASE ~booting /\ Contains(lh, b)
    <3>1. PICK i \in 1..Len(lh) : lh[i] = b
      BY <2>3, Zenon DEF Contains
    <3>2. disk[b] = dlog[i] /\ dlog[i] = cache[b]
      BY <1>1, <2>3, <3>1, Zenon DEF Stored
    <3> QED BY <3>2, Zenon
  <2> QED BY <2>1, <2>2, <2>3, Zenon
<1>3. tail = 1
  BY <1>1, Zenon DEF Stored
<1>4. Injective(lh')
  BY <1>1 DEF Injective
<1> QED BY <1>1, <1>2, <1>3, <1>4, Zenon DEF Stored

(* Every step keeps what is stored.                                        *)
LEMMA StoredStep ==
  ASSUME LInv, [Next]_vars PROVE Stored'
<1> USE DEF LInv
<1>1. ASSUME NEW p \in Callers, enter(p) PROVE Stored'
  BY <1>1, StoredSame, Zenon DEF enter, onDisk
<1>2. ASSUME NEW p \in Callers, begin_op(p) PROVE Stored'
  <2>1. outstanding' = 0 => outstanding = 0
    BY <1>2, SomebodyRuns DEF begin_op
  <2> QED BY <1>2, <2>1, StoredSame, Zenon DEF begin_op, onDisk
<1>3. ASSUME NEW p \in Callers, end_op(p) PROVE Stored'
  <2>1. /\ call[p] = "running" /\ UNCHANGED <<disk, dlog, dhead, cache, lh, tail, booting>>
        /\ p \in Running
    BY <1>3, Zenon DEF end_op, Running, onDisk
  <2>2. phase = "none" /\ ~booting
    BY <2>1, Zenon DEF Counted
  <2>3. dhead = <<>> /\ tail = 1 /\ Injective(lh)
        /\ \A b \in Blocks : ~Contains(lh, b) => disk[b] = cache[b]
    BY <2>2, Zenon DEF Stored
  <2>4. CASE outstanding' = 0 /\ lh = <<>>
    <3>1. phase' = "done"
      BY <1>3, <2>4, SMTT(30) DEF end_op
    <3> QED BY <2>1, <2>2, <2>3, <2>4, <3>1, SMTT(30) DEF Stored, Injective
  <2>5. CASE outstanding' = 0 /\ lh # <<>>
    <3>1. phase' = "write_log"
      BY <1>3, <2>5 DEF end_op
    <3>2. 1 \in 1..Len(lh)
      BY <2>5 DEF LType
    <3> QED BY <2>1, <2>2, <2>3, <3>1, <3>2, SMTT(30) DEF Stored, Injective
  <2>6. CASE outstanding' # 0
    <3>1. phase' = phase
      BY <1>3, <2>6, Zenon DEF end_op
    <3> QED BY <2>1, <2>6, <3>1, StoredSame, Zenon
  <2> QED BY <2>4, <2>5, <2>6, Zenon
<1>4. CASE end_opDone
  <2>1. /\ phase = "done" /\ phase' = "none"
        /\ UNCHANGED <<disk, dlog, dhead, cache, lh, outstanding, tail, booting>>
    BY <1>4, Zenon DEF end_opDone, onDisk
  <2> QED BY <2>1 DEF Stored, Injective
<1>5. CASE crash
  <2>1. /\ booting' = TRUE /\ lh' = dhead /\ phase' = "install_trans" /\ tail' = 1
        /\ cache' = disk /\ UNCHANGED <<disk, dlog, dhead>>
    BY <1>5, Zenon DEF crash, onDisk
  <2>2. Injective(dhead)
    BY DEF Stored, Injective
  <2>3. tail' \in 1..(Len(lh') + 1) /\ \A i \in 1..(tail' - 1) : disk'[lh'[i]] = dlog'[i]
    BY <2>1 DEF LType
  <2> QED BY <2>1, <2>2, <2>3, SMTT(30) DEF Stored, Injective
<1>6. CASE UNCHANGED vars
  BY <1>6, StoredSame, Zenon DEF vars
<1> QED
  BY <1>1, <1>2, <1>3, <1>4, <1>5, <1>6, StoredWrite, StoredCommit, StoredInstall, StoredErase,
     ZenonT(40) DEF Next

----------------------------------------------------------------------------
(* What begin_op reserved.                                                 *)

(* At most MAXOPBLOCKS blocks for each running call.                       *)
LEMMA ReserveBound ==
  ASSUME NEW R, IsFiniteSet(R), NEW S \in SUBSET (R \X (1..MAXOPBLOCKS))
  PROVE  /\ IsFiniteSet(S) /\ Cardinality(S) \in Nat
         /\ Cardinality(S) <= Cardinality(R) * MAXOPBLOCKS
<1>1. IsFiniteSet(1..MAXOPBLOCKS) /\ Cardinality(1..MAXOPBLOCKS) = MAXOPBLOCKS
  BY FS_Interval, LogAssumption, SMTT(30)
<1>2. /\ IsFiniteSet(R \X (1..MAXOPBLOCKS))
      /\ Cardinality(R \X (1..MAXOPBLOCKS)) = Cardinality(R) * MAXOPBLOCKS
  BY <1>1, FS_Product, Zenon
<1>3. IsFiniteSet(S) /\ Cardinality(S) <= Cardinality(R \X (1..MAXOPBLOCKS))
  BY <1>2, FS_Subset, Zenon
<1>4. Cardinality(S) \in Nat
  BY <1>3, FS_CardinalityType, Zenon
<1> QED BY <1>2, <1>3, <1>4, Zenon

(* The slots reserved are finitely many.                                   *)
LEMMA SlotsFinite == IsFiniteSet(Slots) /\ Cardinality(Slots) \in Nat
<1>1. Slots \in SUBSET (Running \X (1..MAXOPBLOCKS))
  BY Zenon DEF Slots
<1> QED BY <1>1, RunningFinite, ReserveBound, Zenon

(* A call that starts has written nothing yet.                             *)
LEMMA NoneWritten ==
  ASSUME NEW p \in Callers PROVE IsFiniteSet({}) /\ Cardinality({}) <= OPBLOCKS[p]
<1>1. OPBLOCKS[p] \in 1..MAXOPBLOCKS
  BY LogAssumption, Zenon
<1> QED BY <1>1, FS_EmptySet, LogAssumption

(* No call runs.                                                           *)
LEMMA ReservedQuiet ==
  ASSUME Running' = {}, \A p \in Callers : wrote'[p] = {} PROVE Reserved'
BY NoneWritten, Zenon DEF Reserved

(* Calls end, or nothing about them changes.                               *)
LEMMA ReservedLess ==
  ASSUME LInv, Running' \subseteq Running, lh' = lh,
         \A p \in Callers : IF p \in Running' THEN wrote'[p] = wrote[p] ELSE wrote'[p] = {}
  PROVE  Reserved'
<1> USE DEF LInv
<1>1. ASSUME NEW p \in Callers
      PROVE  /\ IsFiniteSet(wrote'[p]) /\ Cardinality(wrote'[p]) <= OPBLOCKS[p]
             /\ p \notin Running' => wrote'[p] = {}
             /\ \A b \in wrote'[p] : Contains(lh', b)
  <2>1. CASE p \in Running'
    BY <2>1, Zenon DEF Reserved
  <2>2. CASE p \notin Running'
    BY <2>2, NoneWritten, Zenon
  <2> QED BY <2>1, <2>2, Zenon
<1>2. ASSUME Running' # {} PROVE Len(lh') + Cardinality(Slots') <= LOGSIZE
  <2>1. Slots' \in SUBSET Slots
    BY Zenon DEF Slots, Running
  <2>2. Cardinality(Slots') <= Cardinality(Slots) /\ Cardinality(Slots') \in Nat
    BY <2>1, SlotsFinite, FS_Subset, FS_CardinalityType, Zenon
  <2>3. Len(lh) + Cardinality(Slots) <= LOGSIZE
    BY <1>2, Zenon DEF Reserved
  <2> QED BY <2>2, <2>3, SlotsFinite, LogAssumption, SMTT(30) DEF LType
<1> QED BY <1>1, <1>2, Zenon DEF Reserved

(* begin_op reserves only when the log has room for one more call.         *)
LEMMA ReservedBegin ==
  ASSUME LInv, NEW p \in Callers, begin_op(p), ~committing, HasRoom(outstanding)
  PROVE  Reserved'
<1> USE DEF LInv
<1>1. /\ call[p] = "begin_op" /\ call' = [call EXCEPT ![p] = "running"]
      /\ outstanding' = outstanding + 1 /\ UNCHANGED <<lh, wrote>>
  BY Zenon DEF begin_op
<1>2. Running' = Running \cup {p}
  BY <1>1, Zenon DEF Running, LType
<1>3. Counted'
  BY CountedCalls, Zenon
<1>4. Cardinality(Slots') <= Cardinality(Running') * MAXOPBLOCKS /\ Cardinality(Slots') \in Nat
  <2>1. IsFiniteSet(Running')
    BY <1>2, RunningFinite, FS_AddElement, Zenon
  <2>2. Slots' \in SUBSET (Running' \X (1..MAXOPBLOCKS))
    BY Zenon DEF Slots
  <2> QED BY <2>1, <2>2, ReserveBound, Zenon
<1>5. Cardinality(Running') = outstanding + 1
  BY <1>1, <1>3, Zenon DEF Counted
<1>6. Len(lh) + (outstanding + 1) * MAXOPBLOCKS <= LOGSIZE
  BY Zenon DEF HasRoom
<1>7. Len(lh') + Cardinality(Slots') <= LOGSIZE
  <2>1. Cardinality(Slots') \in Nat /\ Cardinality(Slots') <= (outstanding + 1) * MAXOPBLOCKS
    BY <1>4, <1>5, Zenon
  <2>2. (outstanding + 1) * MAXOPBLOCKS \in Nat
    BY LogAssumption DEF LType
  <2> QED BY <1>1, <1>6, <2>1, <2>2, LogAssumption, SMTT(30) DEF LType
<1> QED BY <1>1, <1>2, <1>7, Zenon DEF Reserved

(* A call writes a block: one it has written before, which the log has, or *)
(* a new one, for which it gives up a slot.                                *)
LEMMA ReservedWrite ==
  ASSUME LInv, NEW p \in Callers, log_write(p) PROVE Reserved'
<1> USE DEF LInv
<1>1. PICK b \in Blocks :
        /\ call[p] = "running" /\ (b \in wrote[p] \/ Cardinality(wrote[p]) < OPBLOCKS[p])
        /\ lh' = IF Contains(lh, b) THEN lh ELSE Append(lh, b)
        /\ wrote' = [wrote EXCEPT ![p] = @ \cup {b}] /\ call' = call
  BY Zenon DEF log_write
<1>2. Running' = Running /\ p \in Running
  BY <1>1, Zenon DEF Running
<1>3. /\ \A c \in Blocks : Contains(lh', c) <=> Contains(lh, c) \/ c = b
      /\ Len(lh') = IF Contains(lh, b) THEN Len(lh) ELSE Len(lh) + 1
  BY <1>1, SMTT(30) DEF LType, Contains
<1>4. wrote'[p] = wrote[p] \cup {b} /\ \A q \in Callers \ {p} : wrote'[q] = wrote[q]
  BY <1>1, Zenon DEF LType
<1>5. /\ IsFiniteSet(wrote[p]) /\ Cardinality(wrote[p]) \in Nat
      /\ Cardinality(wrote[p]) <= OPBLOCKS[p]
  BY FS_CardinalityType, Zenon DEF Reserved
<1>6. /\ IsFiniteSet(wrote'[p])
      /\ Cardinality(wrote'[p]) = IF b \in wrote[p] THEN Cardinality(wrote[p])
                                                    ELSE Cardinality(wrote[p]) + 1
  BY <1>4, <1>5, FS_AddElement, SMTT(30)
<1>7. OPBLOCKS[p] \in 1..MAXOPBLOCKS
  BY LogAssumption, Zenon
<1>8. Cardinality(wrote'[p]) <= OPBLOCKS[p]
  BY <1>1, <1>5, <1>6, <1>7, LogAssumption, SMTT(30)
<1>9. \A q \in Callers : \A c \in wrote'[q] : Contains(lh', c)
  BY <1>3, <1>4, Zenon DEF Reserved, LType
<1>10. Len(lh') + Cardinality(Slots') <= LOGSIZE
  <2>1. Len(lh) + Cardinality(Slots) <= LOGSIZE
    BY <1>2, Zenon DEF Reserved
  <2>2. CASE b \in wrote[p]
    <3>1. wrote' = wrote
      BY <1>1, <2>2, Zenon DEF LType
    <3>2. Slots' = Slots
      BY <1>2, <3>1, Zenon DEF Slots
    <3>3. Contains(lh, b)
      BY <2>2, Zenon DEF Reserved
    <3> QED BY <1>3, <2>1, <3>2, <3>3, Zenon
  <2>3. CASE b \notin wrote[p]
    <3> DEFINE k == Cardinality(wrote[p]) + 1
    <3>1. k \in 1..MAXOPBLOCKS
      BY <1>1, <1>5, <1>7, <2>3, LogAssumption, SMTT(30)
    <3>2. <<p, k>> \in Slots
      BY <1>2, <1>5, <3>1, SMTT(30) DEF Slots
    <3>3. Slots' = Slots \ {<<p, k>>}
      <4>1. ASSUME NEW q \in Running, NEW j \in 1..MAXOPBLOCKS
            PROVE  j > Cardinality(wrote'[q]) <=> j > Cardinality(wrote[q]) /\ <<q, j>> # <<p, k>>
        <5>1. CASE q = p
          BY <1>5, <1>6, <2>3, <4>1, <5>1, LogAssumption, SMTT(30)
        <5>2. CASE q # p
          BY <1>4, <4>1, <5>2, Zenon DEF Running
        <5> QED BY <5>1, <5>2, Zenon
      <4> QED BY <1>2, <4>1, SMTT(30) DEF Slots
    <3>4. Cardinality(Slots') = Cardinality(Slots) - 1
      BY <3>2, <3>3, SlotsFinite, FS_RemoveElement, Zenon
    <3> QED BY <1>3, <2>1, <3>4, SlotsFinite, LogAssumption, SMTT(30) DEF LType
  <2> QED BY <2>2, <2>3, Zenon
<1> QED BY <1>2, <1>4, <1>6, <1>8, <1>9, <1>10, ZenonT(40) DEF Reserved

(* Every step keeps what is reserved.                                      *)
LEMMA ReservedStep ==
  ASSUME LInv, [Next]_vars PROVE Reserved'
<1> USE DEF LInv
<1>0. ASSUME Running = {} PROVE \A p \in Callers : wrote[p] = {}
  BY <1>0, Zenon DEF Reserved
<1>1. ASSUME Running' = Running, UNCHANGED <<lh, wrote>> PROVE Reserved'
  BY <1>1, ReservedLess, Zenon DEF Reserved
<1>2. ASSUME NEW p \in Callers, enter(p) PROVE Reserved'
  <2>1. Running' = Running
    BY <1>2, Zenon DEF enter, Running, LType
  <2> QED BY <1>1, <1>2, <2>1, Zenon DEF enter
<1>3. ASSUME NEW p \in Callers, begin_op(p) PROVE Reserved'
  <2>1. CASE ~committing /\ HasRoom(outstanding)
    BY <1>3, <2>1, ReservedBegin, Zenon
  <2>2. CASE ~(~committing /\ HasRoom(outstanding))
    <3>1. Running' = Running
      BY <1>3, <2>2, Zenon DEF begin_op, Running, LType
    <3> QED BY <1>1, <1>3, <3>1, Zenon DEF begin_op
  <2> QED BY <2>1, <2>2, Zenon
<1>4. ASSUME NEW p \in Callers, end_op(p) PROVE Reserved'
  <2>1. lh' = lh /\ wrote' = [wrote EXCEPT ![p] = {}]
    BY <1>4, Zenon DEF end_op
  <2>2. call' = [call EXCEPT ![p] = "commit"] \/ call' = [wakeupLog EXCEPT ![p] = "idle"]
    BY <1>4, Zenon DEF end_op
  <2>3. ASSUME NEW q \in Callers PROVE call'[q] = "running" <=> call[q] = "running" /\ q # p
    <3>1. CASE call' = [call EXCEPT ![p] = "commit"]
      BY <3>1, Zenon DEF LType
    <3>2. CASE call' = [wakeupLog EXCEPT ![p] = "idle"]
      BY <3>2, Zenon DEF wakeupLog
    <3> QED BY <2>2, <3>1, <3>2, Zenon
  <2>4. Running' = Running \ {p}
    BY <2>3, Zenon DEF Running
  <2>5. \A q \in Callers : IF q \in Running' THEN wrote'[q] = wrote[q] ELSE wrote'[q] = {}
    BY <2>1, <2>4, Zenon DEF LType, Reserved
  <2> QED BY <2>1, <2>4, <2>5, ReservedLess, Zenon
<1>5. CASE write_log \/ write_head \/ install_trans
  <2>1. UNCHANGED <<call, lh, wrote>>
    BY <1>5, Zenon DEF write_log, write_head, install_trans
  <2> QED BY <1>1, <2>1, Zenon DEF Running
<1>6. CASE erase
  <2>1. UNCHANGED <<call, wrote>> /\ phase = "erase"
    BY <1>6, Zenon DEF erase
  <2>2. Running' = Running /\ Running = {}
    BY <2>1, Zenon DEF Running, Counted
  <2> QED BY <1>0, <2>1, <2>2, ReservedQuiet, Zenon
<1>7. CASE end_opDone
  <2>1. UNCHANGED <<lh, wrote>>
        /\ call' = [p \in Callers |-> IF call[p] = "commit" THEN "idle" ELSE wakeupLog[p]]
    BY <1>7, Zenon DEF end_opDone
  <2>2. \A q \in Callers : call'[q] = "running" <=> call[q] = "running"
    BY <2>1, Zenon DEF wakeupLog
  <2>3. Running' = Running
    BY <2>2, Zenon DEF Running
  <2> QED BY <1>1, <2>1, <2>3, Zenon
<1>8. CASE crash
  <2>1. (\A p \in Callers : call'[p] = "idle") /\ (\A p \in Callers : wrote'[p] = {})
    BY <1>8, Zenon DEF crash
  <2>2. Running' = {}
    BY <2>1, Zenon DEF Running
  <2> QED BY <2>1, <2>2, ReservedQuiet, Zenon
<1>9. CASE UNCHANGED vars
  <2>1. UNCHANGED <<call, lh, wrote>>
    BY <1>9, Zenon DEF vars
  <2> QED BY <1>1, <2>1, Zenon DEF Running
<1> QED
  BY <1>2, <1>3, <1>4, <1>5, <1>6, <1>7, <1>8, <1>9, ReservedWrite, ZenonT(40) DEF Next

----------------------------------------------------------------------------
(* mkfs leaves an empty log.                                               *)
LEMMA InitLInv == ASSUME Init PROVE LInv
<1> USE DEF Init
<1>1. LType
  <2>1. dlog \in [1..(SIZE - 1) -> Values] /\ disk \in [Blocks -> Values] /\ cache = disk
    BY Zenon
  <2>2. call \in [Callers -> Places] /\ wrote \in [Callers -> SUBSET Blocks]
    BY Zenon DEF Places
  <2>3. lh \in Seq(Blocks) /\ dhead \in Seq(Blocks) /\ Len(lh) = 0 /\ Len(dhead) = 0
    OBVIOUS
  <2>4. /\ outstanding = 0 /\ tail = 1 /\ committing = FALSE /\ booting = FALSE
        /\ phase = "none"
    BY Zenon
  <2>5. Len(lh) <= SIZE - 1 /\ Len(dhead) <= SIZE - 1
    BY <2>3, LogAssumption, SMTT(30)
  <2>6. outstanding \in Nat /\ tail \in Nat
    BY <2>4, SMTT(30)
  <2> HIDE DEF Init
  <2> QED BY <2>1, <2>2, <2>3, <2>4, <2>5, <2>6, ZenonT(40) DEF LType, Phases
<1>2. Stored
  BY DEF Stored, Injective
<1>3. Running = {} /\ \A p \in Callers : wrote[p] = {}
  BY Zenon DEF Running
<1>4. Counted
  BY <1>3, FS_EmptySet, Zenon DEF Counted
<1>5. Reserved
  BY <1>3, NoneWritten, Zenon DEF Reserved
<1> QED BY <1>1, <1>2, <1>4, <1>5, Zenon DEF LInv

(* The inductive invariant of log.c: what memory, log and home blocks hold *)
(* in each phase of a commit, who runs, and what is reserved.              *)
THEOREM LogInductive == Spec => []LInv
<1>1. Init => LInv
  BY InitLInv, Zenon
<1>2. LInv /\ [Next]_vars => LInv'
  BY TypeStep, StoredStep, CountedStep, ReservedStep, Zenon DEF LInv
<1> QED BY <1>1, <1>2, PTL DEF Spec

(* When nothing is in progress, what the calls wrote survives a crash and  *)
(* is in its home blocks (log.c:166), with any number of callers.          *)
THEOREM CommittedIsDurable == Spec => []Durable
<1>1. ASSUME LInv, outstanding = 0, ~committing, ~booting
      PROVE  Recovered = cache /\ disk = cache /\ lh = <<>>
  <2>1. phase = "none"
    BY <1>1, Zenon DEF LInv, Counted
  <2>2. lh = <<>> /\ dhead = <<>>
    BY <1>1, <2>1, Zenon DEF LInv, Stored
  <2>3. \A b \in Blocks : disk[b] = cache[b]
    BY <1>1, <2>2, SMTT(30) DEF LInv, Stored, Contains
  <2>4. disk = cache
    BY <1>1, <2>3, SMTT(30) DEF LInv, LType
  <2>5. disk \in [Blocks -> Values]
    BY <1>1, Zenon DEF LInv, LType
  <2>6. Recovered = disk
    BY <2>2, <2>5, RecoverNothing, Zenon DEF Recovered
  <2> QED BY <2>2, <2>4, <2>6, Zenon
<1>2. LInv => Durable
  BY <1>1, Zenon DEF Durable
<1> QED BY <1>2, LogInductive, PTL

----------------------------------------------------------------------------
(* The refinement.                                                         *)

(* A step that shows nothing is a stutter of the abstract disk.            *)
LEMMA Stutters ==
  ASSUME UNCHANGED <<Seen, Recovered, outstanding>>
  PROVE  [Abstract!Next]_<<Seen, Recovered, outstanding>>
BY Zenon

(* The initial states map to initial states.                               *)
LEMMA InitRefines == ASSUME Init PROVE Abstract!Init
<1>1. LInv
  BY InitLInv, Zenon
<1>2. dhead = <<>> /\ disk \in [Blocks -> Values] /\ cache = disk /\ ~booting /\ outstanding = 0
  BY <1>1, Zenon DEF Init, LInv, LType
<1>3. Recovered = disk
  BY <1>2, RecoverNothing, Zenon DEF Recovered
<1> QED BY <1>2, <1>3, Zenon DEF Abstract!Init, Seen

(* The calls before the commit change only the cache.                      *)
LEMMA CallsRefine ==
  ASSUME LInv, NEW p \in Callers, enter(p) \/ begin_op(p) \/ log_write(p) \/ end_op(p)
  PROVE  [Abstract!Next]_<<Seen, Recovered, outstanding>>
<1> USE DEF LInv
<1>1. UNCHANGED <<disk, dlog, dhead, booting>>
  BY Zenon DEF enter, begin_op, log_write, end_op, onDisk
<1>2. UNCHANGED Recovered
  BY <1>1, Zenon DEF Recovered
<1>3. CASE enter(p)
  <2>1. UNCHANGED <<cache, outstanding>>
    BY <1>3, Zenon DEF enter
  <2> QED BY <1>1, <1>2, <2>1, Stutters, Zenon DEF Seen
<1>4. CASE begin_op(p)
  <2>1. cache' = cache /\ (outstanding' = outstanding \/ outstanding' = outstanding + 1)
    BY <1>4, Zenon DEF begin_op
  <2>2. UNCHANGED Seen
    BY <1>1, <1>2, <2>1, Zenon DEF Seen
  <2> QED BY <1>2, <2>1, <2>2, Stutters, Zenon DEF Abstract!Next, Abstract!Begin
<1>5. CASE log_write(p)
  <2>1. PICK b \in Blocks, v \in Values : /\ call[p] = "running" /\ outstanding' = outstanding
                                          /\ cache' = [cache EXCEPT ![b] = v]
    BY <1>5, Zenon DEF log_write
  <2>2. Running # {}
    BY <2>1, Zenon DEF Running
  <2>3. outstanding > 0
    BY <2>2, SomebodyRuns, Zenon
  <2>4. ~booting
    BY <2>1, Zenon DEF Counted
  <2>5. Seen' = [Seen EXCEPT ![b] = v]
    BY <1>1, <2>1, <2>4, ZenonT(40) DEF Seen
  <2> QED BY <1>2, <2>1, <2>3, <2>5, Zenon DEF Abstract!Next, Abstract!Write
<1>6. CASE end_op(p)
  <2>1. call[p] = "running" /\ cache' = cache /\ outstanding' = outstanding - 1
    BY <1>6, Zenon DEF end_op
  <2>2. Running # {}
    BY <2>1, Zenon DEF Running
  <2>3. outstanding > 0
    BY <2>2, SomebodyRuns, Zenon
  <2>4. UNCHANGED Seen
    BY <1>1, <1>2, <2>1, Zenon DEF Seen
  <2> QED BY <1>2, <2>1, <2>3, <2>4, ZenonT(40) DEF Abstract!Next, Abstract!End
<1> QED BY <1>3, <1>4, <1>5, <1>6, Zenon

(* The write of the header is the one step that commits.                   *)
LEMMA CommitRefines ==
  ASSUME LInv, write_log \/ write_head \/ end_opDone
  PROVE  [Abstract!Next]_<<Seen, Recovered, outstanding>>
<1> USE DEF LInv
<1>0. /\ lh \in Seq(Blocks) /\ cache \in [Blocks -> Values] /\ disk \in [Blocks -> Values]
      /\ UNCHANGED <<disk, cache, outstanding, booting>>
  BY Zenon DEF LType, write_log, write_head, end_opDone, onDisk
<1>1. CASE write_log
  <2>1. dhead = <<>> /\ dhead' = dhead
    BY <1>1, Zenon DEF write_log, Stored
  <2>2. RecoveredFrom(disk, dlog, <<>>) = disk /\ RecoveredFrom(disk, dlog', <<>>) = disk
    BY <1>0, RecoverNothing, Zenon
  <2>3. UNCHANGED Recovered
    BY <1>0, <2>1, <2>2, Zenon DEF Recovered
  <2> QED BY <1>0, <2>3, Stutters, ZenonT(40) DEF Seen
<1>2. CASE write_head
  <2>1. phase = "write_head" /\ dhead' = lh /\ dlog' = dlog
    BY <1>2, Zenon DEF write_head
  <2>2. ~booting /\ outstanding = 0
    <3>1. ~booting
      BY <2>1, Zenon DEF Counted
    <3>2. Running = {}
      BY <2>1, Zenon DEF Counted
    <3>3. outstanding \in Nat /\ ~(outstanding > 0)
      BY <3>2, SomebodyRuns, ZenonT(40)
    <3> QED BY <3>1, <3>3, SMTT(30)
  <2>3. \A i \in 1..Len(lh) : dlog[i] = cache[lh[i]]
    BY <2>1, <2>2, Zenon DEF Stored
  <2>4. \A b \in Blocks : ~Contains(lh, b) => disk[b] = cache[b]
    BY <2>2, ZenonT(40) DEF Stored
  <2>5. RecoveredFrom(disk, dlog, lh) = cache
    BY <1>0, <2>3, <2>4, RecoverAll, SMTT(30)
  <2>6. Recovered' = cache
    BY <1>0, <2>1, <2>5, Zenon DEF Recovered
  <2>7. Seen = cache /\ Seen' = cache
    BY <1>0, <2>2, ZenonT(40) DEF Seen
  <2> QED BY <1>0, <2>2, <2>6, <2>7, Zenon DEF Abstract!Next, Abstract!Commit
<1>3. CASE end_opDone
  <2>1. UNCHANGED <<dlog, dhead>>
    BY <1>3, Zenon DEF end_opDone, onDisk
  <2>2. UNCHANGED Recovered
    BY <1>0, <2>1, Zenon DEF Recovered
  <2> QED BY <1>0, <2>2, Stutters, Zenon DEF Seen
<1> QED BY <1>1, <1>2, <1>3, Zenon

(* Installing a committed block shows nothing.                             *)
LEMMA InstallRefines ==
  ASSUME LInv, install_trans
  PROVE  [Abstract!Next]_<<Seen, Recovered, outstanding>>
<1> USE DEF LInv
<1>1. /\ phase = "install_trans" /\ UNCHANGED <<dlog, dhead, lh, outstanding, booting>>
      /\ dhead = lh /\ tail \in 1..(Len(lh) + 1)
  BY Zenon DEF install_trans, Stored
<1>2. CASE tail <= Len(lh)
  <2>1. /\ disk' = [disk EXCEPT ![lh[tail]] = dlog[tail]]
        /\ cache' = [cache EXCEPT ![lh[tail]] = dlog[tail]]
    BY <1>2, Zenon DEF install_trans
  <2>2. ASSUME NEW b \in Blocks, ~Contains(lh, b) PROVE disk'[b] = disk[b]
    <3>1. b # lh[tail]
      BY <1>1, <1>2, <2>2, SMTT(30) DEF Contains, LType
    <3> QED BY <2>1, <2>2, <3>1, Zenon DEF LType
  <2>3. RecoveredFrom(disk', dlog, lh) = RecoveredFrom(disk, dlog, lh)
    BY <2>2, RecoverSame
  <2>4. UNCHANGED Recovered
    BY <1>1, <2>3, Zenon DEF Recovered
  <2>5. ASSUME ~booting PROVE cache' = cache
    <3>1. dlog[tail] = cache[lh[tail]]
      BY <1>1, <1>2, <2>5, SMTT(30) DEF Stored
    <3> QED BY <2>1, <3>1, Zenon DEF LType
  <2>6. UNCHANGED Seen
    BY <1>1, <2>4, <2>5, Zenon DEF Seen
  <2> QED BY <1>1, <2>4, <2>6, Stutters, ZenonT(40)
<1>3. CASE ~(tail <= Len(lh))
  <2>1. UNCHANGED <<disk, cache>>
    BY <1>3, Zenon DEF install_trans
  <2>2. UNCHANGED Recovered
    BY <1>1, <2>1, Zenon DEF Recovered
  <2> QED BY <1>1, <2>1, <2>2, Stutters, Zenon DEF Seen
<1> QED BY <1>2, <1>3, Zenon

(* Neither does erasing the header afterwards.                             *)
LEMMA EraseRefines ==
  ASSUME LInv, erase
  PROVE  [Abstract!Next]_<<Seen, Recovered, outstanding>>
<1> USE DEF LInv
<1>1. /\ phase = "erase" /\ dhead' = <<>> /\ booting' = FALSE
      /\ UNCHANGED <<disk, dlog, cache, outstanding>>
  BY Zenon DEF erase
<1>2. disk \in [Blocks -> Values] /\ lh \in Seq(Blocks)
  BY Zenon DEF LType
<1>3. dhead = lh /\ \A i \in 1..Len(lh) : dlog[i] = disk[lh[i]]
  BY <1>1, Zenon DEF Stored
<1>4. RecoveredFrom(disk, dlog, lh) = disk
  BY <1>2, <1>3, RecoverAll, SMTT(30)
<1>5. RecoveredFrom(disk, dlog, <<>>) = disk
  BY <1>2, RecoverNothing, Zenon
<1>6. Recovered = disk /\ Recovered' = disk
  BY <1>1, <1>3, <1>4, <1>5, Zenon DEF Recovered
<1>7. booting => cache = disk
  BY Zenon DEF Stored
<1>8. UNCHANGED Seen
  BY <1>1, <1>6, <1>7, Zenon DEF Seen
<1> QED BY <1>1, <1>6, <1>8, Stutters, Zenon

(* A crash loses what was not committed, and only that.                    *)
LEMMA CrashRefines ==
  ASSUME crash
  PROVE  [Abstract!Next]_<<Seen, Recovered, outstanding>>
<1>1. booting' = TRUE /\ outstanding' = 0 /\ UNCHANGED <<disk, dlog, dhead>>
  BY Zenon DEF crash, onDisk
<1>2. UNCHANGED Recovered
  BY <1>1, Zenon DEF Recovered
<1>3. Seen' = Recovered
  BY <1>1, <1>2, Zenon DEF Seen
<1> QED BY <1>1, <1>2, <1>3, Zenon DEF Abstract!Next, Abstract!Crash

(* Every step maps to a step of the abstract disk or to a stutter.         *)
LEMMA StepRefines ==
  ASSUME LInv, [Next]_vars
  PROVE  [Abstract!Next]_<<Seen, Recovered, outstanding>>
<1>1. CASE \E p \in Callers : enter(p) \/ begin_op(p) \/ log_write(p) \/ end_op(p)
  BY <1>1, CallsRefine, Zenon
<1>2. CASE write_log \/ write_head \/ end_opDone
  BY <1>2, CommitRefines, Zenon
<1>3. CASE install_trans
  BY <1>3, InstallRefines, Zenon
<1>4. CASE erase
  BY <1>4, EraseRefines, Zenon
<1>5. CASE crash
  BY <1>5, CrashRefines, Zenon
<1>6. CASE UNCHANGED vars
  <2>1. UNCHANGED <<disk, dlog, dhead, cache, booting, outstanding>>
    BY <1>6, Zenon DEF vars, onDisk
  <2>2. UNCHANGED Recovered
    BY <2>1, Zenon DEF Recovered
  <2> QED BY <2>1, <2>2, Stutters, ZenonT(40) DEF Seen
<1> QED BY <1>1, <1>2, <1>3, <1>4, <1>5, <1>6, ZenonT(40) DEF Next

(* The log is an atomic disk for any number of blocks, callers and any log *)
(* sizes: a crash, at any write of a commit or of a recovery, goes back to *)
(* blocks of a moment when no call was between begin_op and end_op         *)
(* (log.c:192).                                                            *)
THEOREM LogIsAtomic == Spec => Atomicity
<1>1. Init => Abstract!Init
  BY InitRefines
<1>2. LInv /\ [Next]_vars => [Abstract!Next]_<<Seen, Recovered, outstanding>>
  BY StepRefines, Zenon
<1> QED BY <1>1, <1>2, LogInductive, PTL DEF Spec, Atomicity, Abstract!Spec

----------------------------------------------------------------------------
(* Sleepers, and room in the log.                                          *)

(* Whoever sleeps in begin_op has reason to, and somebody is there to wake *)
(* them: a call or a commit whose end_op tells them (log.c:161, 171).      *)
THEOREM SleepersAreWoken == Spec => []LogSleepersWoken
<1>1. ASSUME LInv, NEW p \in Callers, call[p] = "asleep"
      PROVE  /\ committing \/ ~HasRoom(outstanding)
             /\ \E q \in Callers : call[q] \in {"running", "commit"}
  <2> USE DEF LInv
  <2>1. committing \/ ~HasRoom(outstanding)
    BY <1>1, Zenon DEF Counted
  <2>2. CASE committing
    BY <1>1, <2>1, <2>2, Zenon DEF Counted
  <2>3. CASE ~committing
    <3>1. ~booting
      BY <1>1, Zenon DEF Counted
    <3>2. phase = "none"
      BY <1>1, <2>3, <3>1, ZenonT(40) DEF Counted
    <3>3. outstanding # 0
      <4>1. SUFFICES ASSUME outstanding = 0 PROVE FALSE
        BY Zenon
      <4>2. Len(lh) = 0
        BY <1>1, <3>2, <4>1, SMTT(30) DEF Stored
      <4>3. HasRoom(outstanding)
        BY <4>1, <4>2, LogAssumption, SMTT(30) DEF HasRoom
      <4> QED BY <2>1, <2>3, <4>3, Zenon
    <3>4. Running # {}
      BY <1>1, <3>3, SomebodyRuns, SMTT(30)
    <3> QED BY <2>1, <3>4, Zenon DEF Running
  <2> QED BY <2>2, <2>3, Zenon
<1>2. LInv => LogSleepersWoken
  BY <1>1, Zenon DEF LogSleepersWoken
<1> QED BY <1>2, LogInductive, PTL

(* A call that log_write may still serve has a slot left of those that     *)
(* begin_op reserved: its last writes may all be absorbed, and log_write   *)
(* panics on a full log before it looks for the block (log.c:218).  In the *)
(* kernel LOGSIZE and SIZE are 30, and the largest piece of a filewrite    *)
(* has 7 of the 10 blocks: 4 of data, bitmap, indirect block and i-node.   *)
Slack ==
  \A p \in Callers : /\ OPBLOCKS[p] < MAXOPBLOCKS
                     /\ LOGSIZE - (MAXOPBLOCKS - OPBLOCKS[p]) < SIZE - 1

(* A running call's own unused slots are among those reserved.             *)
LEMMA OwnSlots ==
  ASSUME LInv, NEW p \in Callers, call[p] = "running"
  PROVE  Len(lh) + (MAXOPBLOCKS - OPBLOCKS[p]) <= LOGSIZE
<1> USE DEF LInv
<1> DEFINE c == Cardinality(wrote[p])
           mine == {p} \X ((c + 1)..MAXOPBLOCKS)
<1>1. c \in Nat /\ c <= OPBLOCKS[p] /\ OPBLOCKS[p] \in 1..MAXOPBLOCKS
  BY FS_CardinalityType, LogAssumption, Zenon DEF Reserved
<1>2. p \in Running
  BY Zenon DEF Running
<1>3. mine \in SUBSET Slots
  BY <1>1, <1>2, LogAssumption, SMTT(30) DEF Slots
<1>4. IsFiniteSet((c + 1)..MAXOPBLOCKS) /\ Cardinality((c + 1)..MAXOPBLOCKS) = MAXOPBLOCKS - c
  <2> HIDE DEF c
  <2>1. c \in Nat /\ c <= MAXOPBLOCKS /\ c + 1 \in Int /\ MAXOPBLOCKS \in Int
    BY <1>1, LogAssumption
  <2>2. /\ IsFiniteSet((c + 1)..MAXOPBLOCKS)
        /\ Cardinality((c + 1)..MAXOPBLOCKS)
             = IF c + 1 > MAXOPBLOCKS THEN 0 ELSE MAXOPBLOCKS - (c + 1) + 1
    BY <2>1, FS_Interval, Zenon
  <2> QED BY <2>1, <2>2, SMTT(30)
<1>5. IsFiniteSet({p}) /\ Cardinality({p}) = 1
  BY FS_Singleton, Zenon
<1>6. Cardinality(mine) = 1 * (MAXOPBLOCKS - c)
  BY <1>4, <1>5, FS_Product, ZenonT(40)
<1>7. Cardinality(mine) <= Cardinality(Slots) /\ Cardinality(Slots) \in Nat
  BY <1>3, SlotsFinite, FS_Subset, Zenon
<1>8. Len(lh) + Cardinality(Slots) <= LOGSIZE
  BY <1>2, Zenon DEF Reserved
<1>9. Len(lh) \in Nat
  BY DEF LType
<1> QED BY <1>1, <1>6, <1>7, <1>8, <1>9, LogAssumption, SMTT(30)

(* log_write never panics, provided every call leaves a block of its       *)
(* reservation unused (log.c:132, 218).                                    *)
THEOREM LogWriteHasSpace == ASSUME Slack PROVE Spec => []LogHasSpace
<1>1. ASSUME LInv, NEW p \in Callers, call[p] = "running"
      PROVE  ~TooBig /\ ~OutsideTrans /\ ~committing
  <2> USE DEF LInv
  <2>1. Len(lh) + (MAXOPBLOCKS - OPBLOCKS[p]) <= LOGSIZE
    BY <1>1, OwnSlots, Zenon
  <2>2. OPBLOCKS[p] \in 1..MAXOPBLOCKS /\ Len(lh) \in Nat
    BY <1>1, LogAssumption, SMTT(30) DEF LType
  <2>3. ~TooBig
    BY <2>1, <2>2, LogAssumption, SMTT(30) DEF Slack, TooBig
  <2>4. Running # {}
    BY <1>1, Zenon DEF Running
  <2>5. ~OutsideTrans
    BY <1>1, <2>4, SomebodyRuns, SMTT(30) DEF OutsideTrans
  <2>6. ~committing
    BY <1>1, <2>4, Zenon DEF Counted
  <2> QED BY <2>3, <2>5, <2>6, Zenon
<1>2. LInv => LogHasSpace
  BY <1>1, Zenon DEF LogHasSpace
<1> QED BY <1>2, LogInductive, PTL
=============================================================================
