------------------------------- MODULE Words --------------------------------
(***************************************************************************)
(* liSa and coMMa at work in the memory dalle shares with them: liSa reads *)
(* a text sentence by sentence and keeps the extreme words there, coMMa    *)
(* prints them and passes the user's commands on.  Nothing locks the       *)
(* memory: each store of a number is a step, each copy of a word two.      *)
(* A word is its length.                                                   *)
(***************************************************************************)
EXTENDS Integers, Sequences, SequencesExt, FiniteSetsExt, TLC

CONSTANTS
  Texts,       \* texts to read: sequences of sentences, sequences of words
  INTMAX       \* __INT_MAX__

TORN == -1     \* a word while it is being copied

VARIABLES
  text, lisa, comma,                 \* the file, and where each program is
  curr_sent, cs_longest, cs_shortest,
  len_longest, len_shortest, longest_word, shortest_word, command,
  report                             \* what coMMa prints

shared == <<curr_sent, cs_longest, cs_shortest, len_longest, len_shortest,
            longest_word, shortest_word, command>>
wvars == <<text, lisa, comma, shared, report>>

NoReport == [of |-> "nothing"]

(* dalle's initial values; the arrays are empty strings.                   *)
WordsInit ==
  /\ text \in Texts /\ lisa = "next" /\ comma = "gets" /\ report = NoReport
  /\ curr_sent = 0 /\ cs_longest = 0 /\ cs_shortest = 0
  /\ len_longest = 0 /\ len_shortest = INTMAX /\ longest_word = 0 /\ shortest_word = 0
  /\ command = 4

----------------------------------------------------------------------------
(* check_current_setence: lw begins as "." and sw as ".....", and a word   *)
(* that is a new longest is not looked at as a shortest.                   *)
pickBack(ex, len) ==        \* mutated: the longest so far is not remembered
  IF len > 1 THEN [ex EXCEPT !.lw = len]
  ELSE IF len < ex.sw THEN [ex EXCEPT !.sw = len] ELSE ex

pick(ex, len) ==
  IF len > ex.lw THEN [ex EXCEPT !.lw = len]
  ELSE IF len < ex.sw THEN [ex EXCEPT !.sw = len] ELSE ex

Extrema(words) == FoldLeft(pick, [lw |-> 1, sw |-> 5], words)

Now == Extrema(text[curr_sent])

Lisa(here, there) == lisa = here /\ lisa' = there /\ UNCHANGED <<text, comma, report>>

(* The next sentence, or the end of the text.                              *)
nextSentence ==
  \/ /\ Lisa("next", "shortest") /\ curr_sent < Len(text)
     /\ curr_sent' = curr_sent + 1
     /\ UNCHANGED <<cs_longest, cs_shortest, len_longest, len_shortest,
                    longest_word, shortest_word, command>>
  \/ Lisa("next", "exited") /\ curr_sent = Len(text) /\ UNCHANGED shared

copyShortest ==
  /\ \/ Lisa("shortest", "shortest2") /\ cs_shortest' = TORN
     \/ Lisa("shortest2", "longest") /\ cs_shortest' = Now.sw
  /\ UNCHANGED <<curr_sent, cs_longest, len_longest, len_shortest,
                 longest_word, shortest_word, command>>

copyLongest ==
  /\ \/ Lisa("longest", "longest2") /\ cs_longest' = TORN
     \/ Lisa("longest2", "global") /\ cs_longest' = Now.lw
  /\ UNCHANGED <<curr_sent, cs_shortest, len_longest, len_shortest,
                 longest_word, shortest_word, command>>

globalLongest ==
  /\ \/ /\ Lisa("global", "global2") /\ Now.lw > len_longest
        /\ len_longest' = Now.lw /\ UNCHANGED longest_word
     \/ /\ Lisa("global2", "global3") /\ longest_word' = TORN /\ UNCHANGED len_longest
     \/ /\ Lisa("global3", "global4") /\ longest_word' = Now.lw /\ UNCHANGED len_longest
     \/ /\ Lisa("global", "global4") /\ Now.lw <= len_longest
        /\ UNCHANGED <<len_longest, longest_word>>
  /\ UNCHANGED <<curr_sent, cs_longest, cs_shortest, len_shortest, shortest_word, command>>

globalShortest ==
  /\ \/ /\ Lisa("global4", "global5") /\ Now.sw < len_shortest
        /\ len_shortest' = Now.sw /\ UNCHANGED shortest_word
     \/ /\ Lisa("global5", "global6") /\ shortest_word' = TORN /\ UNCHANGED len_shortest
     \/ /\ Lisa("global6", "command") /\ shortest_word' = Now.sw /\ UNCHANGED len_shortest
     \/ /\ Lisa("global4", "command") /\ Now.sw >= len_shortest
        /\ UNCHANGED <<len_shortest, shortest_word>>
  /\ UNCHANGED <<curr_sent, cs_longest, cs_shortest, len_longest, longest_word, command>>

pausedDeaf ==         \* mutated: a pause ends with resume only
  Lisa("paused", "next") /\ command = 4 /\ UNCHANGED shared

paused ==
  /\ \/ Lisa("paused", "next") /\ command = 4
     \/ Lisa("paused", "exited") /\ command = 5
  /\ UNCHANGED shared

(* After a sentence; the sleeps are where the program waits anyway.        *)
obey ==
  /\ \/ Lisa("command", "paused") /\ command = 3
     \/ Lisa("command", "exited") /\ command = 5
     \/ Lisa("command", "next") /\ command \notin {3, 5}
  /\ UNCHANGED shared

liSa ==
  nextSentence \/ copyShortest \/ copyLongest \/ globalLongest \/ globalShortest
  \/ obey \/ paused

----------------------------------------------------------------------------
(* coMMa: gets and atoi give a number, others than these change nothing.   *)
Comma(here, there) == comma = here /\ comma' = there /\ UNCHANGED <<text, lisa>>

Idle == lisa = "paused" /\ command = 3

(* The numbers are printf's arguments; the words are read as it prints.    *)
latest ==
  /\ \/ Comma("gets", "latest") /\ report' = [of |-> "sentence", still |-> Idle, n |-> curr_sent]
     \/ Comma("latest", "latest2") /\ report' = report @@ [longest |-> cs_longest]
     \/ Comma("latest2", "gets") /\ report' = report @@ [shortest |-> cs_shortest]
  /\ UNCHANGED shared

extrema ==
  /\ \/ /\ Comma("gets", "extrema")
        /\ report' = [of |-> "text", still |-> Idle, n |-> curr_sent,
                      len |-> len_longest, lens |-> len_shortest]
     \/ Comma("extrema", "extrema2") /\ report' = report @@ [longest |-> longest_word]
     \/ Comma("extrema2", "gets") /\ report' = report @@ [shortest |-> shortest_word]
  /\ UNCHANGED shared

order(c) ==
  /\ Comma("gets", IF c = 5 THEN "exited" ELSE "gets")
  /\ command' = c /\ report' = NoReport
  /\ UNCHANGED <<curr_sent, cs_longest, cs_shortest, len_longest, len_shortest,
                 longest_word, shortest_word>>

coMMa == latest \/ extrema \/ \E c \in 3..5 : order(c)

WordsNext == liSa \/ coMMa

(* liSa gets the CPU; what the user types, and when, is theirs.            *)
WordsSpec == WordsInit /\ [][WordsNext]_wvars /\ WF_wvars(liSa)

----------------------------------------------------------------------------
Lengths(words) == {words[k] : k \in DOMAIN words}
LongestOf(words) == Max(Lengths(words) \cup {1})

(* What can be called shortest: a word under five letters that comes after *)
(* one at least as long.                                                   *)
ShortestOf(words) ==
  Min({5} \cup {words[k] : k \in {j \in DOMAIN words :
                                    words[j] = 1 \/ \E i \in 1..(j - 1) : words[i] >= words[j]}})

(* A report that coMMa begins while liSa is paused is all of one moment,   *)
(* though nothing is locked: its words are those of the sentence it        *)
(* numbers, or of the text up to it, and whole, with their lengths.        *)
PausedReport ==
  report # NoReport /\ report.still /\ comma = "gets" =>
    LET upTo == 1..report.n
    IN  IF report.of = "sentence"
          THEN /\ report.longest = LongestOf(text[report.n])
               /\ report.shortest = ShortestOf(text[report.n])
          ELSE /\ report.longest = Max({LongestOf(text[s]) : s \in upTo})
               /\ report.shortest = Min({ShortestOf(text[s]) : s \in upTo})
               /\ report.len = report.longest /\ report.lens = report.shortest

(* Command 5 ends liSa wherever it is, in a pause too: dalle's wait for it *)
(* returns.                                                                *)
EndHeard == command = 5 ~> lisa = "exited"
=============================================================================
