------------------------------ MODULE Console -------------------------------
(***************************************************************************)
(* The console's input (console.c): the ring the keyboard interrupt fills  *)
(* and edits, and consoleread by a process.  cons.lock makes the interrupt *)
(* for a key, and the reader's work between two sleeps, one step each.     *)
(***************************************************************************)
EXTENDS Integers, Sequences, SequencesExt

CONSTANTS
  Plain,       \* keys without a meaning of their own
  INPUT_BUF,   \* the ring's size
  WORD,        \* of the indices: they are kept modulo WORD, as in a uint
  READN        \* amounts a program asks for

ASSUME ConsoleAssumption == WORD % INPUT_BUF = 0 /\ WORD > INPUT_BUF

VARIABLES
  ring, r, w, e,    \* input.buf and its indices
  reader            \* [at, n, target, got, killed] of the reading process

cvars == <<ring, r, w, e, reader>>

Keys == Plain \cup {"\n", "^D"}

ConsoleInit ==
  /\ ring = [k \in 0..(INPUT_BUF - 1) |-> ""] /\ r = 0 /\ w = 0 /\ e = 0
  /\ reader = [at |-> "user", n |-> 0, target |-> 0, got |-> <<>>, killed |-> FALSE]

Minus(a, b) == (a - b + WORD) % WORD
Plus(a, k) == (a + k) % WORD
Cell(i) == ring[i % INPUT_BUF]

wakeup(rd) == [rd EXCEPT !.at = IF @ = "asleep" THEN "ready" ELSE @]

----------------------------------------------------------------------------
(* consoleintr, one key                                                    *)

CommitsLines(c, end) == c \in {"\n", "^D"}     \* mutated: a full ring is not passed on

Commits(c, end) == c \in {"\n", "^D"} \/ end = Plus(r, INPUT_BUF)

typed(c) ==
  /\ Minus(e, r) < INPUT_BUF
  /\ ring' = [ring EXCEPT ![e % INPUT_BUF] = c] /\ e' = Plus(e, 1)
  /\ IF Commits(c, e')
       THEN w' = e' /\ reader' = wakeup(reader)
       ELSE UNCHANGED <<w, reader>>
  /\ UNCHANGED r

CanEraseAny == e # r          \* mutated: finished lines can be edited too

CanErase == e # w

backspace ==
  /\ CanErase /\ e' = Minus(e, 1) /\ UNCHANGED <<ring, r, w, reader>>

(* Back to w, or to a newline before it.                                   *)
killLine ==
  /\ \E k \in 0..Minus(e, w) :
       LET stop(j) == Minus(e, j) = w \/ Cell(Minus(e, j + 1)) = "\n"
       IN  stop(k) /\ (\A j \in 0..(k - 1) : ~stop(j)) /\ e' = Minus(e, k)
  /\ UNCHANGED <<ring, r, w, reader>>

consoleintr == (\E c \in Keys : typed(c)) \/ backspace \/ killLine

----------------------------------------------------------------------------
(* consoleread(ip, dst, n)                                                 *)

(* What the loop comes to from index i on, with got so far: it sleeps on   *)
(* an empty ring, and "^D" is left for the next read if this one has some. *)
RECURSIVE consume(_, _)
consume(i, got) ==
  IF Len(got) = reader.target THEN [at |-> "user", r |-> i, got |-> got]
  ELSE IF i = w THEN [at |-> "asleep", r |-> i, got |-> got]
  ELSE IF Cell(i) = "^D" THEN
    [at |-> "user", r |-> IF got = <<>> THEN Plus(i, 1) ELSE i, got |-> got]
  ELSE IF Cell(i) = "\n" THEN [at |-> "user", r |-> Plus(i, 1), got |-> Append(got, "\n")]
  ELSE consume(Plus(i, 1), Append(got, Cell(i)))

consoleread(n) ==
  /\ reader.at = "user" /\ ~reader.killed
  /\ reader' = [reader EXCEPT !.at = "ready", !.n = n, !.target = n, !.got = <<>>]
  /\ UNCHANGED <<ring, r, w, e>>

reads ==
  /\ reader.at = "ready"
  /\ LET out == consume(r, reader.got)
         gone == out.at = "asleep" /\ reader.killed      \* return -1
     IN  /\ r' = out.r
         /\ reader' = [reader EXCEPT !.at = IF gone THEN "user" ELSE out.at,
                                     !.n = reader.target - Len(out.got), !.got = out.got]
  /\ UNCHANGED <<ring, w, e>>

(* kill(pid) wakes the process wherever it sleeps.                         *)
killReader ==
  /\ ~reader.killed /\ reader' = [wakeup(reader) EXCEPT !.killed = TRUE]
  /\ UNCHANGED <<ring, r, w, e>>

ConsoleNext == consoleintr \/ (\E n \in READN : consoleread(n)) \/ reads \/ killReader

ConsoleSpec == ConsoleInit /\ [][ConsoleNext]_cvars

----------------------------------------------------------------------------
Span(i, j) == [k \in 1..Minus(j, i) |-> Cell(Plus(i, k - 1))]

(* The ring with its three wrapping indices is a line editor: what was     *)
(* finished is read in order and once, editing never reaches it, a key is  *)
(* dropped only when the ring is full, and "^D" ends a read of its own.    *)
Editor == INSTANCE LineEditor
            WITH lines <- Span(r, w), edit <- Span(w, e), got <- reader.got,
                 SIZE <- INPUT_BUF
ConsoleEdits == Editor!Spec

(* The reader sleeps only while there is nothing to read: no key wakes it  *)
(* in vain, none that finishes a line or fills the ring leaves it asleep,  *)
(* and a killed one gets to return.                                        *)
ReaderWoken == reader.at = "asleep" => r = w /\ ~reader.killed /\ Minus(e, r) < INPUT_BUF
=============================================================================
