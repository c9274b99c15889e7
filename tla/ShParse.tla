------------------------------ MODULE ShParse -------------------------------
(***************************************************************************)
(* The shell's parser (sh.c).  A line is a sequence of characters; a word  *)
(* is <<q, eq>>, where it begins and the place after its end.  A panic     *)
(* ends the parse with Fail.                                               *)
(***************************************************************************)
EXTENDS Integers, Sequences, SequencesExt

CONSTANTS
  MAXARGS,
  Lines        \* lines to read: [text, of], of the command it was written for, or Fail

VARIABLE line  \* the shell's line, and the command its parse gives

NUL == "NUL"
whitespace == {" "}
symbols == {"<", "|", ">", "&", ";", "(", ")"}

Fail == [ok |-> FALSE]
Done(cmd, at) == [ok |-> TRUE, cmd |-> cmd, s |-> at]

execcmd(argv) == [type |-> "EXEC", argv |-> argv]
redircmd(cmd, file, fd) == [type |-> "REDIR", cmd |-> cmd, file |-> file, fd |-> fd]
pipecmd(l, r) == [type |-> "PIPE", left |-> l, right |-> r]
listcmd(l, r) == [type |-> "LIST", left |-> l, right |-> r]
backcmd(cmd) == [type |-> "BACK", cmd |-> cmd]

----------------------------------------------------------------------------
Char(l, s) == IF s > Len(l) THEN NUL ELSE l[s]

(* The first place from s on that holds none of the characters.            *)
skip(l, s, chars) ==
  CHOOSE j \in s..(Len(l) + 1) :
    Char(l, j) \notin chars /\ \A i \in s..(j - 1) : Char(l, i) \in chars

Letters(l) == {l[k] : k \in DOMAIN l} \ (whitespace \cup symbols)

Token(tok, q, eq) == [tok |-> tok, q |-> q, eq |-> eq]

(* The token at s, where there is no white space.                          *)
gettoken(l, s) ==
  IF Char(l, s) = NUL THEN Token(NUL, s, s)
  ELSE IF Char(l, s) = ">" /\ Char(l, s + 1) = ">" THEN Token("+", s, s + 2)
  ELSE IF Char(l, s) \in symbols THEN Token(Char(l, s), s, s + 1)
  ELSE Token("a", s, skip(l, s, Letters(l)))

(* All calls of gettoken and peek go on where the last gettoken ended: the *)
(* parser sees the line's tokens in order, the last one NUL for ever.      *)
RECURSIVE tokensFrom(_, _)
tokensFrom(l, t) ==
  IF t.tok = NUL THEN <<t>>
  ELSE <<t>> \o tokensFrom(l, gettoken(l, skip(l, t.eq, whitespace)))
tokens(l) == tokensFrom(l, gettoken(l, skip(l, 1, whitespace)))

(* peek looks at one character: the first of ">>" too.                     *)
peek(T, i, toks) == T[i].tok \in toks \/ (T[i].tok = "+" /\ ">" \in toks)
Word(T, i) == <<T[i].q, T[i].eq>>
Places(T) == 1..(Len(T) + 1)

(* The redirections from token i0 on, in the order they wrap a command.    *)
parseredirs(T, i0) ==
  LET R[i \in Places(T)] ==
        IF ~peek(T, i, {"<", ">"}) THEN [ok |-> TRUE, redirs |-> <<>>, s |-> i]
        ELSE IF T[i + 1].tok # "a" \/ ~R[i + 2].ok THEN Fail
        ELSE [R[i + 2] EXCEPT !.redirs =
                <<[file |-> Word(T, i + 1), fd |-> IF T[i].tok = "<" THEN 0 ELSE 1]>> \o @]
  IN  R[i0]

around(cmd, redirs) == FoldLeft(LAMBDA c, r : redircmd(c, r.file, r.fd), cmd, redirs)

(* The loop of parseexec: words, and redirections between them, which all  *)
(* go around the one command that has the words.                           *)
parseargs(T, i0) ==
  LET A[i \in Places(T), argc \in 0..MAXARGS] ==
        LET r == parseredirs(T, i + 1)
            rest == A[r.s, argc + 1]
        IN  IF peek(T, i, {"|", ")", "&", ";", NUL})
              THEN [ok |-> TRUE, argv |-> <<>>, redirs |-> <<>>, s |-> i]
            ELSE IF T[i].tok # "a" \/ argc + 1 >= MAXARGS \/ ~r.ok \/ ~rest.ok THEN Fail
            ELSE [rest EXCEPT !.argv = <<Word(T, i)>> \o @, !.redirs = r.redirs \o @]
  IN  A[i0, 0]

parseexec(T, i) ==
  LET first == parseredirs(T, i)
      args == parseargs(T, first.s)
  IN  IF ~first.ok \/ ~args.ok THEN Fail
      ELSE Done(around(execcmd(args.argv), first.redirs \o args.redirs), args.s)

(* parseblock, after the line inside, r.                                   *)
parseblock(T, r) ==
  LET after == parseredirs(T, r.s + 1)
  IN  IF ~r.ok \/ ~peek(T, r.s, {")"}) \/ ~after.ok THEN Fail
      ELSE Done(around(r.cmd, after.redirs), after.s)

(* The "&"s after a pipeline, r.                                           *)
backs(T, r) ==
  LET B[i \in Places(T)] == IF peek(T, i, {"&"}) THEN 1 + B[i + 1] ELSE 0
  IN  Done(FoldLeft(LAMBDA c, k : backcmd(c), r.cmd, [k \in 1..B[r.s] |-> k]), r.s + B[r.s])

(* The command r, or r joined with the rest if the separator follows.      *)
joins(join(_, _), T, r, sep, rest) ==
  IF ~r.ok \/ ~peek(T, r.s, {sep}) THEN r
  ELSE IF rest.ok THEN Done(join(r.cmd, rest.cmd), rest.s) ELSE Fail

restOfPipeOne == "unit"      \* mutated: one command follows a "|"

(* What parsepipe parses after a "|": another pipeline.                    *)
restOfPipe == "pipe"

(* parseline, parsepipe and parseexec call each other: P["line", i] is     *)
(* what parseline returns at token i.                                      *)
parseline(T) ==
  LET P[n \in {"line", "pipe", "unit"}, i \in Places(T)] ==
        CASE n = "line" ->
               LET r == IF P["pipe", i].ok THEN backs(T, P["pipe", i]) ELSE Fail
               IN  joins(listcmd, T, r, ";", P["line", r.s + 1])
          [] n = "pipe" ->
               LET r == P["unit", i]
               IN  joins(pipecmd, T, r, "|", P[restOfPipe, r.s + 1])
          [] n = "unit" ->
               IF peek(T, i, {"("}) THEN parseblock(T, P["line", i + 1]) ELSE parseexec(T, i)
  IN  P["line", 1]

whole(T, r) == IF r.ok /\ T[r.s].tok = NUL THEN r ELSE Fail

parsecmd(l) == whole(tokens(l), parseline(tokens(l)))

(* The places nulterminate writes a 0 to.                                  *)
RECURSIVE nulterminate(_)
nulterminate(cmd) ==
  CASE cmd.type = "EXEC" -> {cmd.argv[k][2] : k \in DOMAIN cmd.argv}
    [] cmd.type = "REDIR" -> nulterminate(cmd.cmd) \cup {cmd.file[2]}
    [] cmd.type \in {"PIPE", "LIST"} -> nulterminate(cmd.left) \cup nulterminate(cmd.right)
    [] cmd.type = "BACK" -> nulterminate(cmd.cmd)

----------------------------------------------------------------------------
(* The reference: a command as its words are read when it runs, and the    *)
(* line a user writes for a command.                                       *)

StringAt(l, nuls, word) ==
  LET stop == CHOOSE j \in word[1]..(Len(l) + 1) :
                /\ j \in nuls \cup {Len(l) + 1}
                /\ \A i \in word[1]..(j - 1) : i \notin nuls
  IN  SubSeq(l, word[1], stop - 1)

RECURSIVE Meaning(_, _, _)
Meaning(l, nuls, cmd) ==
  CASE cmd.type = "EXEC" ->
         execcmd([k \in DOMAIN cmd.argv |-> StringAt(l, nuls, cmd.argv[k])])
    [] cmd.type = "REDIR" ->
         redircmd(Meaning(l, nuls, cmd.cmd), StringAt(l, nuls, cmd.file), cmd.fd)
    [] cmd.type \in {"PIPE", "LIST"} ->
         [cmd EXCEPT !.left = Meaning(l, nuls, @), !.right = Meaning(l, nuls, @)]
    [] cmd.type = "BACK" -> backcmd(Meaning(l, nuls, cmd.cmd))

Runs(l) ==
  LET r == parsecmd(l)
  IN  IF r.ok THEN Meaning(l, nulterminate(r.cmd), r.cmd) ELSE Fail

RECURSIVE writeLine(_, _), writeBack(_, _), writePipe(_, _), writeUnit(_, _)
writeLine(c, sp) ==
  IF c.type = "LIST" THEN writeBack(c.left, sp) \o sp \o <<";">> \o sp \o writeLine(c.right, sp)
  ELSE writeBack(c, sp)
writeBack(c, sp) ==
  IF c.type = "BACK" THEN writeBack(c.cmd, sp) \o <<"&">> ELSE writePipe(c, sp)
writePipe(c, sp) ==
  IF c.type = "PIPE" THEN writeUnit(c.left, sp) \o sp \o <<"|">> \o sp \o writePipe(c.right, sp)
  ELSE writeUnit(c, sp)
writeUnit(c, sp) ==
  CASE c.type = "EXEC" -> FoldLeft(LAMBDA acc, word : acc \o word \o <<" ">>, <<>>, c.argv)
    [] c.type = "REDIR" ->
         writeUnit(c.cmd, sp) \o (IF c.fd = 0 THEN <<"<">> ELSE <<">">>) \o sp \o c.file \o sp
    [] OTHER -> <<"(">> \o writeLine(c, sp) \o <<")">>

----------------------------------------------------------------------------
Letter(l, s) == Char(l, s) \notin whitespace \cup symbols \cup {NUL}
WordEnds(l) == {s \in 2..(Len(l) + 1) : Letter(l, s - 1) /\ ~Letter(l, s)}

NoLine == [at |-> "prompt"]

ParseInit == line = NoLine

getcmd ==
  /\ line = NoLine
  /\ \E l \in Lines : line' = [at |-> "read", text |-> l.text, of |-> l.of]

parse ==
  /\ line.at = "read"
  /\ line' = [at |-> "parsed", text |-> line.text, of |-> line.of, cmd |-> Runs(line.text)]

ParseNext == getcmd \/ parse

(* A line a user writes for a command, with parentheses where the grammar  *)
(* needs them and with or without spaces, parses to that command, its      *)
(* words cut out of the line by nulterminate's zeros; and a command parsed *)
(* from any line has all of its words, whole: the runs of letters.         *)
ParsesBack ==
  line.at = "parsed" =>
    /\ line.of # Fail => line.cmd = line.of
    /\ parsecmd(line.text).ok => nulterminate(parsecmd(line.text).cmd) = WordEnds(line.text)
=============================================================================
