------------------------------ MODULE MCParts -------------------------------
(***************************************************************************)
(* Five components that share no state, side by side in one instance: the  *)
(* console's input, liSa and coMMa, the shell's parser, the allocator of   *)
(* the user library, and the contents of files.  part says which one runs. *)
(***************************************************************************)
EXTENDS Console, Words, ShParse, Heap, FileData

VARIABLE part

allvars == <<cvars, wvars, line, hvars, fvars, part>>

MCTexts ==
  {<<<<2, 7, 1>>, <<6, 3>>, <<8, 4, 8>>>>, <<<<1>>, <<5, 2, 9, 2>>>>,
   <<<<3, 3>>, <<4, 2, 2>>, <<1, 2>>>>}

(* Commands nested three deep, and every line of up to four characters.    *)
X == execcmd(<<<<"x">>>>)
Execs == {execcmd(<<>>), X, execcmd(<<<<"y", "z">>, <<"x">>>>)}
Wrapped(S) == {redircmd(c, <<"y">>, d) : c \in S, d \in {0, 1}} \cup {backcmd(c) : c \in S}
Joined(S, T) == {pipecmd(a, b) : a \in S, b \in T} \cup {listcmd(a, b) : a \in S, b \in T}
Simple == Execs \cup Wrapped(Execs)
Compound == Simple \cup Joined(Simple, Simple) \cup Wrapped(Wrapped(Execs))
Commands == Compound \cup Wrapped(Compound) \cup Joined({X}, Compound) \cup Joined(Compound, {X})
Written == {[text |-> writeLine(c, sp), of |-> c] : c \in Commands, sp \in {<<>>, <<" ">>}}
Chars == symbols \cup whitespace \cup {"x"}
Typed == UNION {{[text |-> t, of |-> Fail] : t \in [1..n -> Chars]} : n \in 0..4}
MCLines == Written \cup Typed

MCOf == 1 :> 1 @@ 2 :> 1 @@ 3 :> 2
MCWrites == 1 :> {<<1, 3>>} @@ 2 :> {<<2, 1>>} @@ 3 :> {<<3, 4>>}

Init ==
  /\ part \in {"console", "words", "parse", "heap", "files"}
  /\ ConsoleInit /\ ParseInit /\ HeapInit /\ FileInit
  /\ WordsInit /\ (part # "words" => text = CHOOSE t \in Texts : TRUE)

theConsole == part = "console" /\ ConsoleNext /\ UNCHANGED <<wvars, line, hvars, fvars, part>>
theWords == part = "words" /\ WordsNext /\ UNCHANGED <<cvars, line, hvars, fvars, part>>
theParser == part = "parse" /\ ParseNext /\ UNCHANGED <<cvars, wvars, hvars, fvars, part>>
theHeap == part = "heap" /\ HeapNext /\ UNCHANGED <<cvars, wvars, line, fvars, part>>
theFiles == part = "files" /\ FileNext /\ UNCHANGED <<cvars, wvars, line, hvars, part>>

Next == theConsole \/ theWords \/ theParser \/ theHeap \/ theFiles

Spec == Init /\ [][Next]_allvars /\ WF_wvars(part = "words" /\ liSa)
=============================================================================
