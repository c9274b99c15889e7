---------------------------- MODULE MCSharedMem ----------------------------
(* Small instances of SharedMem: init, a parent and a child, and a bound   *)
(* on the system calls that take resources.                                *)
EXTENDS SharedMemInv

CONSTANT MaxCalls   \* fork, exec, sbrk and share_data calls in a behaviour

VARIABLE calls

MCStructs == {[name |-> <<"a", "x">>, addr |-> 0, size |-> 1],
              [name |-> <<"b", "x">>, addr |-> 1, size |-> 3]}
MCStraddle == {[name |-> <<"a", "x">>, addr |-> 1, size |-> 2]}

MCDeltas == {PGSIZE, -PGSIZE}

MCInit == Init /\ calls = 0

(* A step out of user mode that is not exit or wait is a counted call.     *)
Counted(p) == ex[p].pc = "user" /\ state' \in {state} \cup {[state EXCEPT ![q] = "RUN"] : q \in Procs}

(* init, as user/init.c, only forks and waits.                             *)
MCNext ==
  \E p \in Procs :
    /\ IF p = initproc THEN fork(p) \/ wait(p) ELSE Step(p)
    /\ calls' = IF Counted(p) THEN calls + 1 ELSE calls
    /\ calls' <= MaxCalls

MCSpec == MCInit /\ [][MCNext]_<<vars, calls>>
=============================================================================
