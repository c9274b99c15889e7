----------------------------- MODULE LineEditor -----------------------------
(***************************************************************************)
(* What the console promises the programs that read from it: the lines the *)
(* user has finished, in order; the line being edited is the user's alone. *)
(***************************************************************************)
EXTENDS Integers, Sequences, SequencesExt

CONSTANTS Keys, SIZE

VARIABLES lines, edit, got     \* finished and unread, being edited, read by the reader

Ends(c) == c \in {"\n", "^D"}

Init == lines = <<>> /\ edit = <<>> /\ got = <<>>

Type(c) ==
  LET line == Append(edit, c)
  IN  /\ Len(lines) + Len(edit) < SIZE
      /\ IF Ends(c) \/ Len(lines) + Len(line) = SIZE
           THEN lines' = lines \o line /\ edit' = <<>>
           ELSE edit' = line /\ UNCHANGED lines
      /\ UNCHANGED got

Erase == edit # <<>> /\ edit' = Front(edit) /\ UNCHANGED <<lines, got>>
Kill == edit' = <<>> /\ UNCHANGED <<lines, got>>

(* A read takes a line or part of one; "^D" is taken alone, and gives      *)
(* nothing.  A new read begins with nothing.                               *)
Read ==
  \E k \in 1..Len(lines) :
    /\ lines' = SubSeq(lines, k + 1, Len(lines))
    /\ \A j \in 1..(k - 1) : ~Ends(lines[j])
    /\ IF lines[k] = "^D" THEN k = 1 /\ got = <<>> /\ UNCHANGED got
                          ELSE got' = got \o SubSeq(lines, 1, k)
    /\ UNCHANGED edit

Again == got' = <<>> /\ UNCHANGED <<lines, edit>>

Next == (\E c \in Keys : Type(c)) \/ Erase \/ Kill \/ Read \/ Again

Spec == Init /\ [][Next]_<<lines, edit, got>>
=============================================================================
