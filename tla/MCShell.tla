------------------------------- MODULE MCShell ------------------------------
(* Pipelines, a list, a redirection and a background command.              *)
EXTENDS Shell
X(prog) == Exec(prog)
Pipeline(l, r) == [type |-> "PIPE", left |-> X(l), right |-> X(r)]
Background(c) == [type |-> "BACK", left |-> c]
MCCmds == {Pipeline("writer", "reader"), Pipeline("writer", "none"), X("free"),
           [type |-> "LIST",
            left |-> Background([type |-> "REDIR", fd |-> 0, left |-> X("reader")]),
            right |-> Pipeline("writer", "reader")]}
MCMessage == <<0, 1, 1>>
MCProcs == 1..5
=============================================================================
