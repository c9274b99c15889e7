------------------------------- MODULE MCProc -------------------------------
(* Two CPUs and three processes.                                           *)
EXTENDS Proc
MCSleepArgs == {1}
=============================================================================
