----------------------------- MODULE AtomicDisk -----------------------------
(* What the log promises to file system calls: calls that overlap in time  *)
(* become permanent together, and a crash takes the disk back to a point   *)
(* at which no call was in progress.                                       *)
EXTENDS Naturals

CONSTANTS Blocks, Values

VARIABLES
  mem,      \* the blocks as running calls see them
  stable,   \* the blocks as a restart would find them
  active    \* calls between begin_op and end_op

Init ==
  /\ stable \in [Blocks -> Values] /\ mem = stable
  /\ active = 0

Begin == active' = active + 1 /\ UNCHANGED <<mem, stable>>

Write ==
  /\ active > 0
  /\ \E b \in Blocks, v \in Values : mem' = [mem EXCEPT ![b] = v]
  /\ UNCHANGED <<stable, active>>

End == active > 0 /\ active' = active - 1 /\ UNCHANGED <<mem, stable>>

Commit == active = 0 /\ stable' = mem /\ UNCHANGED <<mem, active>>

Crash == mem' = stable /\ active' = 0 /\ UNCHANGED stable

Next == Begin \/ Write \/ End \/ Commit \/ Crash

Spec == Init /\ [][Next]_<<mem, stable, active>>
=============================================================================
