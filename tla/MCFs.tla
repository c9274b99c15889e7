-------------------------------- MODULE MCFs --------------------------------
EXTENDS Fs, TLC

CONSTANTS p1, p2

Abs(elems) == [abs |-> TRUE, elems |-> elems]
Rel(elems) == [abs |-> FALSE, elems |-> elems]

Link == [op |-> "link", path |-> Abs(<<"a", "b">>), new |-> Abs(<<"b">>), then |-> "link"]
Unlink(pa) == [op |-> "unlink", path |-> pa, then |-> "unlink"]
Create(pa) == [op |-> "open", path |-> pa, type |-> "T_FILE", then |-> "create"]
Open(pa) == [op |-> "open", path |-> pa, write |-> TRUE, then |-> "open"]
Mkdir(pa) == [op |-> "mkdir", path |-> pa, type |-> "T_DIR", then |-> "create"]
Chdir(pa) == [op |-> "chdir", path |-> pa, then |-> "chdir"]

(* The directory "a", its file "a/b", and "b", a second name of it.        *)
MCCalls ==
  p1 :> {Mkdir(Abs(<<"a">>)), Create(Abs(<<"a", "b">>)), Link, Unlink(Abs(<<"a">>)),
         Unlink(Abs(<<>>))}
  @@ p2 :> {Create(Rel(<<"b">>)), Unlink(Rel(<<"b">>)), Open(Abs(<<"a">>)),
            Chdir(Abs(<<"a">>))}

MCProcs == {p1, p2}
=============================================================================
