---------------------------- MODULE BoundedFifo -----------------------------
(* What a pipe promises: the bytes come out in the order they went in, at  *)
(* most SIZE of them are on their way, a writer stops short only when      *)
(* there are SIZE, none is lost before both ends are closed, and a reader  *)
(* gets nothing only when nothing will come any more.                      *)
EXTENDS Naturals, Sequences

CONSTANTS SIZE, Bytes, Writers

VARIABLES
  src,           \* what each writer still wants to write
  queue,         \* bytes written and not read
  got,           \* what the last read returned
  ropen, wopen   \* the ends that are open

vars == <<src, queue, got, ropen, wopen>>

Init ==
  /\ src = [w \in Writers |-> <<>>] /\ queue = <<>> /\ got = <<>>
  /\ ropen = FALSE /\ wopen = FALSE

Open ==
  /\ queue = <<>> /\ ~ropen /\ ~wopen /\ ropen' = TRUE /\ wopen' = TRUE
  /\ UNCHANGED <<src, queue, got>>

Offer ==
  /\ wopen
  /\ \E w \in Writers : src[w] = <<>> /\ src' = [src EXCEPT ![w] = src'[w]]
                         /\ src'[w] \in Seq(Bytes)
  /\ UNCHANGED <<queue, got, ropen, wopen>>

(* A writer puts as much as fits; it may then give up the rest.            *)
Put ==
  /\ wopen
  /\ \E w \in Writers, n \in 0..SIZE :
       /\ n <= Len(src[w]) /\ queue' = queue \o SubSeq(src[w], 1, n)
       /\ Len(queue') <= SIZE /\ (n < Len(src[w]) => Len(queue') = SIZE)
       /\ \E rest \in {<<>>, SubSeq(src[w], n + 1, Len(src[w]))} : src' = [src EXCEPT ![w] = rest]
  /\ UNCHANGED <<got, ropen, wopen>>

Take ==
  /\ ropen
  /\ \E n \in 1..Len(queue) :
       got' = SubSeq(queue, 1, n) /\ queue' = SubSeq(queue, n + 1, Len(queue))
  /\ UNCHANGED <<src, ropen, wopen>>

Eof ==
  /\ ropen /\ queue = <<>> /\ ~wopen /\ got' = <<>>
  /\ UNCHANGED <<src, queue, ropen, wopen>>

CloseOne ==
  /\ ropen /\ wopen
  /\ \/ ropen' = FALSE /\ UNCHANGED wopen
     \/ wopen' = FALSE /\ UNCHANGED ropen
  /\ UNCHANGED <<src, queue, got>>

(* Both ends are closed: what nobody read is gone.                         *)
CloseLast ==
  /\ ropen # wopen /\ ropen' = FALSE /\ wopen' = FALSE /\ queue' = <<>> /\ got' = <<>>
  /\ UNCHANGED src

Next == Open \/ Offer \/ Put \/ Take \/ Eof \/ CloseOne \/ CloseLast

Spec == Init /\ [][Next]_vars
=============================================================================
