---------------------------- MODULE ShellProofs -----------------------------
(***************************************************************************)
(* Theorems about open files and pipes, for any programs of the shell: the *)
(* reference counts are exact, an end of the pipe is open as long as it is *)
(* referred to, no sleeper in the pipe is forgotten, and the pipe is a     *)
(* bounded queue of bytes.                                                 *)
(***************************************************************************)
EXTENDS Shell, FiniteSetTheorems, TLAPS

----------------------------------------------------------------------------
(* The inductive invariant.                                                *)

Pipes ==
  [alloc : BOOLEAN, readopen : BOOLEAN, writeopen : BOOLEAN,
   nread : 0..(WORD - 1), nwrite : 0..(WORD - 1),
   data : [0..(PIPESIZE - 1) -> Bytes \cup {0}], quit : BOOLEAN]

PipeType == pipe \in Pipes

CallType ==
  /\ call \in [Procs -> {"none", "read", "write"}]
  /\ chan \in [Procs -> {"", "nread", "nwrite"}]
  /\ buf \in [Procs -> Seq(Bytes)] /\ killed \in [Procs -> BOOLEAN]

FileType ==
  /\ ref \in [Files -> Nat] /\ writable \in [Files -> BOOLEAN]
  /\ type \in [Files -> {"FD_NONE", "FD_INODE", "FD_PIPE"}]
  /\ ofile \in [Procs -> [Fds -> Files \cup {0}]]
  /\ at \in [Procs -> {"init", "unused", "user", "pipe1", "pipe2", "close", "exit", "zombie"}]
  /\ rf \in [Procs -> Files \cup {0}] /\ wf \in [Procs -> Files \cup {0}]
  /\ ff \in [Procs -> {"none", "r", "w"}]

(* What the place of a process says about its locals and its pipe call.    *)
Places ==
  \A p \in Procs :
    /\ at[p] \notin {"pipe1", "pipe2", "close"} => rf[p] = 0
    /\ at[p] \notin {"pipe2", "close"} => wf[p] = 0
    /\ at[p] \in {"pipe1", "pipe2"} => rf[p] # 0
    /\ at[p] = "pipe2" => wf[p] # 0 /\ wf[p] # rf[p]
    /\ at[p] \in {"unused", "zombie"} => \A fd \in Fds : ofile[p][fd] = 0
    /\ ff[p] # "none" => at[p] \in {"close", "exit"}
    /\ call[p] # "none" => at[p] = "user"
    /\ call[p] # "write" => buf[p] = <<>>
    /\ chan[p] = "nwrite" => call[p] = "write"
    /\ chan[p] = "nread" => call[p] = "read"

(* The end of the pipe that a file in use is.                              *)
End(f) ==
  IF ref[f] > 0 /\ type[f] = "FD_PIPE" THEN IF writable[f] THEN "w" ELSE "r" ELSE "none"

IsOpen(e) == IF e = "w" THEN pipe.writeopen ELSE pipe.readopen

(* An open end is one file, or one pipeclose that is about to come.        *)
Ends ==
  /\ \A f \in Files : ref[f] = 0 => type[f] # "FD_PIPE"
  /\ \A e \in {"r", "w"} :
       /\ IsOpen(e) <=> (\E f \in Files : End(f) = e) \/ (\E p \in Procs : ff[p] = e)
       /\ \A f, g \in Files : End(f) = e /\ End(g) = e => f = g
       /\ \A p, q \in Procs : ff[p] = e /\ ff[q] = e => p = q
       /\ \A f \in Files, p \in Procs : ~(End(f) = e /\ ff[p] = e)
  /\ IF pipe.readopen \/ pipe.writeopen THEN pipe.alloc ELSE pipe = NoPipe

(* Who is in a pipe call has the end of the pipe it uses as a descriptor.  *)
Calls ==
  \A p \in Procs :
    /\ call[p] = "write" => \E fd \in Fds : ofile[p][fd] # 0 /\ End(ofile[p][fd]) = "w"
    /\ call[p] = "read" => \E fd \in Fds : ofile[p][fd] # 0 /\ End(ofile[p][fd]) = "r"

Flow == Used <= PIPESIZE /\ PipeSleepersWoken

SInv == PipeType /\ CallType /\ FileType /\ Places /\ RefExact /\ Ends /\ Calls /\ Flow

----------------------------------------------------------------------------
(* Sequences.                                                              *)

(* A function on 1..n is a sequence of length n.                           *)
LEMMA SeqOf == ASSUME NEW S, NEW n \in Nat, NEW s \in [1..n -> S]
               PROVE  s \in Seq(S) /\ Len(s) = n
  OBVIOUS

(* A sequence over a set is one over a larger set.                         *)
LEMMA SeqWider == ASSUME NEW S, NEW T, NEW s \in Seq(S), S \subseteq T PROVE s \in Seq(T)
  OBVIOUS

(* What is in a sequence over a set.                                       *)
LEMMA SeqElement == ASSUME NEW S, NEW s \in Seq(S), NEW n \in 1..Len(s) PROVE s[n] \in S
  OBVIOUS

(* The sequence of length 0.                                               *)
LEMMA SeqEmpty == ASSUME NEW S
                  PROVE  /\ <<>> \in Seq(S) /\ Len(<<>>) = 0
                         /\ \A s \in Seq(S) : s # <<>> => Len(s) \in Nat /\ Len(s) # 0
  OBVIOUS

(* Sequences of one length that agree everywhere are equal.                *)
LEMMA SeqSame == ASSUME NEW S, NEW s \in Seq(S), NEW t \in Seq(S), Len(s) = Len(t),
                        \A i \in 1..Len(s) : s[i] = t[i]
                 PROVE  s = t
  OBVIOUS

(* What appending two sequences gives.                                     *)
LEMMA SeqAppend == ASSUME NEW S, NEW s \in Seq(S), NEW t \in Seq(S)
                   PROVE  /\ s \o t \in Seq(S) /\ Len(s \o t) = Len(s) + Len(t)
                          /\ \A i \in 1..(Len(s) + Len(t)) :
                               (s \o t)[i] = IF i <= Len(s) THEN s[i] ELSE t[i - Len(s)]
  OBVIOUS

(* What a part of a sequence is.                                           *)
LEMMA SeqPart == ASSUME NEW S, NEW s, NEW m \in Int, NEW n \in Int, \A i \in m..n : s[i] \in S
                 PROVE  /\ SubSeq(s, m, n) \in Seq(S)
                        /\ Len(SubSeq(s, m, n)) = IF m <= n THEN n - m + 1 ELSE 0
                        /\ \A i \in 1..(n - m + 1) : SubSeq(s, m, n)[i] = s[m + i - 1]
  OBVIOUS

----------------------------------------------------------------------------
(* Unsigned arithmetic.                                                    *)

(* Quotient and remainder by a positive number.                            *)
LEMMA DivMod ==
  ASSUME NEW x \in Int, NEW m \in Int, 0 < m
  PROVE  x = m * (x \div m) + (x % m) /\ x \div m \in Int /\ x % m \in 0..(m - 1)
BY SMT

(* A counter below its limit has not wrapped.                              *)
LEMMA ModSmall ==
  ASSUME NEW x \in Int, NEW m \in Int, 0 <= x, x < m
  PROVE  x % m = x
BY SMT

(* A counter past its limit by less than the limit has wrapped once.       *)
LEMMA ModOnce ==
  ASSUME NEW x \in Int, NEW m \in Int, m <= x, x < m + m
  PROVE  x % m = x - m
BY SMT

(* A multiple of m and a remainder have that remainder.                    *)
LEMMA ModOfSum ==
  ASSUME NEW m \in Int, 0 < m, NEW q \in Int, NEW r \in Int, 0 <= r, r < m
  PROVE  (m * q + r) % m = r
BY SMT

(* Taking away a multiple of m does not change a remainder.                *)
LEMMA ModLess ==
  ASSUME NEW x \in Int, NEW w \in Int, NEW m \in Int, 0 < m, w % m = 0
  PROVE  (x - w) % m = x % m
<1> DEFINE a == x \div m  k == w \div m  r == x % m
<1>1. x = m * a + r /\ a \in Int /\ r \in 0..(m - 1)
  BY DivMod
<1>2. w = m * k /\ k \in Int
  BY DivMod
<1> HIDE DEF a, k, r
<1>3. x - w = m * (a - k) + r
  BY <1>1, <1>2
<1>4. (m * (a - k) + r) % m = r
  BY <1>1, <1>2, ModOfSum
<1> QED BY <1>3, <1>4 DEF r

(* Two numbers less than m apart have different remainders.                *)
LEMMA ModWindow ==
  ASSUME NEW x \in Int, NEW y \in Int, NEW m \in Int, 0 < m,
         x <= y, y < x + m, x % m = y % m
  PROVE  x = y
<1> DEFINE a == x \div m  k == y \div m  r == x % m
<1>1. x = m * a + r /\ a \in Int /\ r \in 0..(m - 1)
  BY DivMod
<1>2. y = m * k + r /\ k \in Int
  BY DivMod
<1> HIDE DEF a, k, r
<1>3. m * (k - a) < m /\ 0 <= m * (k - a)
  BY <1>1, <1>2
<1>4. CASE k - a >= 1
  BY <1>1, <1>2, <1>3, <1>4
<1>5. CASE k - a <= -1
  BY <1>1, <1>2, <1>3, <1>5
<1> QED BY <1>1, <1>2, <1>4, <1>5

----------------------------------------------------------------------------
(* The ring.                                                               *)

(* The size of the ring and the width of the counters are numbers, the     *)
(* width a multiple of the size.                                           *)
LEMMA PipeNat ==
  /\ PIPESIZE \in Int /\ 0 < PIPESIZE /\ WORD \in Int /\ PIPESIZE < WORD
  /\ WORD % PIPESIZE = 0
BY PipeAssumption

(* A counter moves on by no more than the size of the ring.                *)
LEMMA CounterMoves ==
  ASSUME NEW a \in 0..(WORD - 1), NEW n \in 0..PIPESIZE
  PROVE  /\ (a + n) % WORD \in 0..(WORD - 1)
         /\ (a + n) % WORD = a + n \/ (a + n) % WORD = (a + n) - WORD
<1> DEFINE x == a + n
<1>1. x \in Int /\ 0 <= x /\ x < WORD + WORD
  BY PipeNat
<1> HIDE DEF x
<1>2. CASE x < WORD
  <2>1. x % WORD = x
    BY <1>1, <1>2, PipeNat, ModSmall, Zenon
  <2> QED BY <1>1, <1>2, <2>1, PipeNat DEF x
<1>3. CASE WORD <= x
  <2>1. x % WORD = x - WORD
    BY <1>1, <1>3, PipeNat, ModOnce, Zenon
  <2> QED BY <1>1, <1>3, <2>1, PipeNat DEF x
<1> QED BY <1>1, <1>2, <1>3, PipeNat

(* The remainder modulo WORD does not matter for the place in the ring.    *)
LEMMA SlotIs ==
  ASSUME NEW a \in 0..(WORD - 1), NEW n \in 0..PIPESIZE
  PROVE  ((a + n) % WORD) % PIPESIZE = (a + n) % PIPESIZE
<1> DEFINE x == a + n  y == x % WORD
<1>1. x \in Int
  BY PipeNat
<1>2. y = x \/ y = x - WORD
  BY CounterMoves, Zenon
<1> HIDE DEF x, y
<1>3. (x - WORD) % PIPESIZE = x % PIPESIZE
  BY <1>1, PipeNat, ModLess, Zenon
<1>4. y % PIPESIZE = x % PIPESIZE
  BY <1>2, <1>3, Zenon
<1> QED BY <1>4, Zenon DEF x, y

UsedOf(x) == (x.nwrite + WORD - x.nread) % WORD
ContentsOf(x) == [i \in 1..UsedOf(x) |-> x.data[((x.nread + i - 1) % WORD) % PIPESIZE]]

(* Used and Contents, before and after a step, as functions of the pipe.   *)
LEMMA OfPipe ==
  /\ Used = UsedOf(pipe) /\ Contents = ContentsOf(pipe)
  /\ Used' = UsedOf(pipe') /\ Contents' = ContentsOf(pipe')
BY Zenon DEF Used, Contents, UsedOf, ContentsOf

(* nwrite is Used places after nread.                                      *)
LEMMA UsedIs ==
  ASSUME NEW x \in Pipes
  PROVE  /\ UsedOf(x) \in 0..(WORD - 1)
         /\ x.nread + UsedOf(x) = x.nwrite \/ x.nread + UsedOf(x) = x.nwrite + WORD
<1>1. x.nread \in 0..(WORD - 1) /\ x.nwrite \in 0..(WORD - 1)
  BY DEF Pipes
<1> DEFINE d == x.nwrite + WORD - x.nread
<1>2. CASE x.nread <= x.nwrite
  <2>1. d \in Int /\ WORD <= d /\ d < WORD + WORD
    BY <1>1, <1>2, PipeNat
  <2>2. d % WORD = d - WORD
    BY <2>1, PipeNat, ModOnce, Zenon
  <2> QED BY <1>1, <1>2, <2>2, PipeNat DEF UsedOf
<1>3. CASE x.nwrite < x.nread
  <2>1. d \in Int /\ 0 <= d /\ d < WORD
    BY <1>1, <1>3, PipeNat
  <2>2. d % WORD = d
    BY <2>1, PipeNat, ModSmall, Zenon
  <2> QED BY <1>1, <1>3, <2>2, PipeNat DEF UsedOf
<1> QED BY <1>1, <1>2, <1>3, PipeNat

(* The bytes in the ring, by their place after nread.                      *)
LEMMA ContentsIs ==
  ASSUME NEW x \in Pipes, UsedOf(x) <= PIPESIZE
  PROVE  /\ ContentsOf(x) \in Seq(Bytes \cup {0}) /\ Len(ContentsOf(x)) = UsedOf(x)
         /\ \A i \in 1..UsedOf(x) : ContentsOf(x)[i] = x.data[(x.nread + i - 1) % PIPESIZE]
<1>1. UsedOf(x) \in Nat /\ x.nread \in 0..(WORD - 1)
  BY UsedIs DEF Pipes
<1>2. ASSUME NEW i \in 1..UsedOf(x)
      PROVE  /\ ((x.nread + i - 1) % WORD) % PIPESIZE = (x.nread + i - 1) % PIPESIZE
             /\ (x.nread + i - 1) % PIPESIZE \in 0..(PIPESIZE - 1)
  <2>1. i - 1 \in 0..PIPESIZE /\ x.nread + (i - 1) \in Int /\ x.nread + i - 1 = x.nread + (i - 1)
    BY <1>1, PipeNat
  <2>2. ((x.nread + (i - 1)) % WORD) % PIPESIZE = (x.nread + (i - 1)) % PIPESIZE
    BY <1>1, <2>1, SlotIs, Zenon
  <2>3. (x.nread + (i - 1)) % PIPESIZE \in 0..(PIPESIZE - 1)
    BY <2>1, DivMod, PipeNat, Zenon
  <2> QED BY <2>1, <2>2, <2>3, Zenon
<1>3. \A i \in 1..UsedOf(x) : x.data[((x.nread + i - 1) % WORD) % PIPESIZE] \in Bytes \cup {0}
  BY <1>2, Zenon DEF Pipes
<1>4. ContentsOf(x) \in [1..UsedOf(x) -> Bytes \cup {0}]
  BY <1>3 DEF ContentsOf
<1>5. ContentsOf(x) \in Seq(Bytes \cup {0})
  BY <1>1, <1>4, SeqOf, Zenon
<1>6. Len(ContentsOf(x)) = UsedOf(x)
  BY <1>1, <1>4, <1>5
<1> QED BY <1>2, <1>5, <1>6, Zenon DEF ContentsOf

(* What pipewrite's loop does to the queue.                                *)
LEMMA PutSlots ==
  ASSUME NEW x \in Pipes, NEW n \in Nat, UsedOf(x) + n <= PIPESIZE, NEW j \in 1..n
  PROVE  ((x.nwrite + j - 1) % WORD) % PIPESIZE = (x.nread + UsedOf(x) + j - 1) % PIPESIZE
<1>1. x.nread \in 0..(WORD - 1) /\ x.nwrite \in 0..(WORD - 1) /\ UsedOf(x) \in Nat
  BY UsedIs DEF Pipes
<1> DEFINE y == x.nread + UsedOf(x) + j - 1
<1>2. /\ j - 1 \in 0..PIPESIZE /\ x.nwrite + j - 1 = x.nwrite + (j - 1) /\ y \in Int
  BY <1>1, PipeNat
<1>3. ((x.nwrite + j - 1) % WORD) % PIPESIZE = (x.nwrite + j - 1) % PIPESIZE
  BY <1>1, <1>2, SlotIs, Zenon
<1>4. x.nwrite + j - 1 = y \/ x.nwrite + j - 1 = y - WORD
  BY <1>1, UsedIs, PipeNat
<1>5. (y - WORD) % PIPESIZE = y % PIPESIZE
  BY <1>2, PipeNat, ModLess, Zenon
<1> QED BY <1>3, <1>4, <1>5, Zenon

(* The slot of the j-th byte written is the slot of the i-th byte of the   *)
(* contents only when they are the same byte: nothing unread is            *)
(* overwritten.                                                            *)
LEMMA PutPlaces ==
  ASSUME NEW x \in Pipes, NEW n \in Nat, UsedOf(x) + n <= PIPESIZE,
         NEW i \in 1..(UsedOf(x) + n), NEW j \in 1..n
  PROVE  ((x.nwrite + j - 1) % WORD) % PIPESIZE = (x.nread + i - 1) % PIPESIZE
           <=> i = UsedOf(x) + j
<1>1. x.nread \in 0..(WORD - 1) /\ UsedOf(x) \in Nat
  BY UsedIs DEF Pipes
<1> DEFINE y == x.nread + UsedOf(x) + j - 1  z == x.nread + i - 1
<1>2. y \in Int /\ z \in Int /\ y < z + PIPESIZE /\ z < y + PIPESIZE /\ (y = z <=> i = UsedOf(x) + j)
  BY <1>1, PipeNat
<1>3. ((x.nwrite + j - 1) % WORD) % PIPESIZE = y % PIPESIZE
  BY PutSlots, Zenon
<1> HIDE DEF y, z
<1>4. y % PIPESIZE = z % PIPESIZE => y = z
  <2>1. CASE y <= z
    BY <1>2, <2>1, PipeNat, ModWindow, Zenon
  <2>2. CASE z <= y
    BY <1>2, <2>2, PipeNat, ModWindow, Zenon
  <2> QED BY <1>2, <2>1, <2>2
<1> QED BY <1>2, <1>3, <1>4, Zenon DEF y, z

(* pipewrite's loop over bytes that fit appends them to the contents       *)
(* (pipe.c:82-92).                                                         *)
LEMMA PutAppends ==
  ASSUME PipeType, NEW s \in Seq(Bytes), NEW b \in BOOLEAN,
         Used + Len(s) <= PIPESIZE, pipe' = Put(s, b)
  PROVE  PipeType' /\ Used' = Used + Len(s) /\ Contents' = Contents \o s
<1> DEFINE n == Len(s)  nr == pipe.nread  nw == pipe.nwrite  U == UsedOf(pipe)
           Slot(j) == ((nw + j - 1) % WORD) % PIPESIZE
           new == [i \in 0..(PIPESIZE - 1) |->
                     LET js == {j \in 1..n : Slot(j) = i}
                     IN  IF js = {} THEN pipe.data[i] ELSE s[CHOOSE j \in js : TRUE]]
<1>1. n \in Nat /\ nr \in 0..(WORD - 1) /\ nw \in 0..(WORD - 1) /\ U \in Nat /\ U + n <= PIPESIZE
  BY UsedIs, OfPipe DEF PipeType, Pipes
<1>2. nr + U = nw \/ nr + U = nw + WORD
  BY UsedIs DEF PipeType
<1>3. n \in 0..PIPESIZE
  BY <1>1, PipeNat
<1>4. pipe'.nread = nr /\ pipe'.nwrite = (nw + n) % WORD /\ pipe'.data = new
  BY DEF Put, PipeType, Pipes
<1>5. new \in [0..(PIPESIZE - 1) -> Bytes \cup {0}]
  <2>1. ASSUME NEW i \in 0..(PIPESIZE - 1), NEW js, js = {j \in 1..n : Slot(j) = i}
        PROVE  (IF js = {} THEN pipe.data[i] ELSE s[CHOOSE j \in js : TRUE]) \in Bytes \cup {0}
    <3>1. CASE js = {}
      BY <3>1, Zenon DEF PipeType, Pipes
    <3>2. CASE js # {}
      <4>1. (CHOOSE j \in js : TRUE) \in js
        BY <3>2, Zenon
      <4>2. (CHOOSE j \in js : TRUE) \in 1..n
        BY <2>1, <4>1, Zenon
      <4>3. s[CHOOSE j \in js : TRUE] \in Bytes
        BY <4>2, SeqElement, Zenon
      <4> QED BY <3>2, <4>3, Zenon
    <3> QED BY <3>1, <3>2, Zenon
  <2> QED BY <2>1, Zenon
<1> DEFINE mm == (nw + n) % WORD
<1>6. mm \in 0..(WORD - 1) /\ (mm = nw + n \/ mm = (nw + n) - WORD)
  BY <1>1, <1>3, CounterMoves, Zenon
<1>7. PipeType'
  <2> HIDE DEF new, n, nw, mm
  <2>1. pipe' = [[[pipe EXCEPT !.quit = b] EXCEPT !.nwrite = mm] EXCEPT !.data = new]
    BY Zenon DEF Put, PipeType, Pipes, new, n, nw, mm
  <2> QED BY <1>5, <1>6, <2>1, Zenon DEF PipeType, Pipes
<1>8. /\ UsedOf(pipe') \in 0..(WORD - 1)
      /\ nr + UsedOf(pipe') = mm \/ nr + UsedOf(pipe') = mm + WORD
  BY <1>7, <1>4, UsedIs, Zenon DEF PipeType
<1>9. UsedOf(pipe') = U + n
  <2> HIDE DEF mm, n, nr, nw, U
  <2> QED BY <1>1, <1>2, <1>6, <1>8, PipeNat
<1>10. /\ ContentsOf(pipe') \in Seq(Bytes \cup {0}) /\ Len(ContentsOf(pipe')) = U + n
       /\ \A i \in 1..(U + n) : ContentsOf(pipe')[i] = new[(nr + i - 1) % PIPESIZE]
  <2> HIDE DEF n, nr, nw, U, new
  <2>1. UsedOf(pipe') <= PIPESIZE
    BY <1>1, <1>9
  <2>2. /\ ContentsOf(pipe') \in Seq(Bytes \cup {0}) /\ Len(ContentsOf(pipe')) = UsedOf(pipe')
        /\ \A i \in 1..UsedOf(pipe') :
             ContentsOf(pipe')[i] = pipe'.data[(pipe'.nread + i - 1) % PIPESIZE]
    BY <1>7, <2>1, ContentsIs, Zenon DEF PipeType
  <2> QED BY <1>4, <1>9, <2>2, Zenon
<1>11. U <= PIPESIZE
  BY <1>1, PipeNat
<1>12. /\ ContentsOf(pipe) \in Seq(Bytes \cup {0}) /\ Len(ContentsOf(pipe)) = U
       /\ \A i \in 1..U : ContentsOf(pipe)[i] = pipe.data[(nr + i - 1) % PIPESIZE]
  BY <1>11, ContentsIs, Zenon DEF PipeType
<1>13. ASSUME NEW i \in 1..(U + n)
       PROVE  ContentsOf(pipe')[i] = IF i <= U THEN ContentsOf(pipe)[i] ELSE s[i - U]
  <2> DEFINE x == (nr + i - 1) % PIPESIZE
             js == {j \in 1..n : Slot(j) = x}
  <2>1. x \in 0..(PIPESIZE - 1) /\ nr + i - 1 \in Int /\ i \in Int
    BY <1>1, PipeNat, DivMod, SMTT(20)
  <2>2. ContentsOf(pipe')[i] = IF js = {} THEN pipe.data[x] ELSE s[CHOOSE j \in js : TRUE]
    <3> HIDE DEF n, nr, nw, U, Slot
    <3>1. ContentsOf(pipe')[i] = new[x]
      <4> HIDE DEF new
      <4> QED BY <1>10, Zenon
    <3> HIDE DEF x
    <3> QED BY <2>1, <3>1, Zenon
  <2>3. \A j \in 1..n : Slot(j) = x <=> i = U + j
    BY <1>1, PutPlaces, Zenon DEF PipeType
  <2> HIDE DEF x, Slot, n, U, nr, nw
  <2>4. CASE i <= U
    <3>1. js = {}
      BY <1>1, <2>1, <2>3, <2>4
    <3>2. i \in 1..U
      BY <1>1, <2>1, <2>4
    <3> QED BY <2>2, <2>4, <3>1, <3>2, <1>12, Zenon DEF x, nr, U
  <2>5. CASE ~(i <= U)
    <3>1. js = {i - U}
      BY <1>1, <2>1, <2>3, <2>5
    <3>2. (CHOOSE j \in js : TRUE) = i - U /\ js # {}
      BY <3>1
    <3> QED BY <2>2, <2>5, <3>2, Zenon
  <2> QED BY <2>4, <2>5, Zenon
<1>14. s \in Seq(Bytes \cup {0})
  BY SeqWider, Zenon
<1> HIDE DEF n, nr, nw, U, Slot, new
<1>15. /\ ContentsOf(pipe) \o s \in Seq(Bytes \cup {0}) /\ Len(ContentsOf(pipe) \o s) = U + n
       /\ \A i \in 1..(U + n) : (ContentsOf(pipe) \o s)[i] =
                                  IF i <= U THEN ContentsOf(pipe)[i] ELSE s[i - U]
  BY <1>12, <1>14, SeqAppend, Zenon DEF n
<1>16. \A i \in 1..Len(ContentsOf(pipe')) : ContentsOf(pipe')[i] = (ContentsOf(pipe) \o s)[i]
  BY <1>10, <1>13, <1>15, Zenon
<1>17. ContentsOf(pipe') = ContentsOf(pipe) \o s
  BY <1>10, <1>15, <1>16, SeqSame, Zenon
<1> QED BY <1>7, <1>9, <1>17, OfPipe, Zenon DEF U, n

(* What piperead's loop does to the queue.                                 *)
LEMMA TakeRemoves ==
  ASSUME PipeType, Used <= PIPESIZE, NEW n \in 0..Used,
         pipe' = [pipe EXCEPT !.nread = (@ + n) % WORD]
  PROVE  /\ PipeType' /\ Used' = Used - n
         /\ Contents' = SubSeq(Contents, n + 1, Len(Contents))
<1> DEFINE nr == pipe.nread  nw == pipe.nwrite  U == UsedOf(pipe)  mm == (nr + n) % WORD
<1>1. nr \in 0..(WORD - 1) /\ nw \in 0..(WORD - 1) /\ U \in Nat /\ n \in 0..PIPESIZE
        /\ U <= PIPESIZE /\ n <= U /\ n \in Nat
  BY UsedIs, OfPipe, PipeNat DEF PipeType, Pipes
<1>2. nr + U = nw \/ nr + U = nw + WORD
  BY UsedIs DEF PipeType
<1>3. mm \in 0..(WORD - 1) /\ (mm = nr + n \/ mm = (nr + n) - WORD)
  BY <1>1, CounterMoves, Zenon
<1>4. pipe'.nread = mm /\ pipe'.nwrite = nw /\ pipe'.data = pipe.data
  BY DEF PipeType, Pipes
<1>5. PipeType'
  <2> HIDE DEF mm
  <2>1. pipe' = [pipe EXCEPT !.nread = mm]
    BY DEF mm, PipeType, Pipes
  <2> QED BY <1>3, <2>1 DEF PipeType, Pipes
<1>6. /\ UsedOf(pipe') \in 0..(WORD - 1)
      /\ mm + UsedOf(pipe') = nw \/ mm + UsedOf(pipe') = nw + WORD
  BY <1>4, <1>5, UsedIs, Zenon DEF PipeType
<1> HIDE DEF mm, nr, nw, U
<1>7. UsedOf(pipe') = U - n
  BY <1>1, <1>2, <1>3, <1>6, PipeNat
<1>8. U - n <= PIPESIZE
  BY <1>1, PipeNat
<1>9. /\ ContentsOf(pipe') \in Seq(Bytes \cup {0}) /\ Len(ContentsOf(pipe')) = U - n
      /\ \A i \in 1..(U - n) : ContentsOf(pipe')[i] = pipe.data[(mm + i - 1) % PIPESIZE]
  BY <1>4, <1>5, <1>7, <1>8, ContentsIs, Zenon DEF PipeType
<1>10. /\ ContentsOf(pipe) \in Seq(Bytes \cup {0}) /\ Len(ContentsOf(pipe)) = U
       /\ \A i \in 1..U : ContentsOf(pipe)[i] = pipe.data[(nr + i - 1) % PIPESIZE]
  BY <1>1, ContentsIs, Zenon DEF PipeType, U, nr
<1>11. ASSUME NEW i \in 1..(U - n)
       PROVE  ContentsOf(pipe')[i] = ContentsOf(pipe)[n + 1 + i - 1]
  <2> DEFINE y == nr + (n + 1 + i - 1) - 1
  <2>1. y \in Int /\ n + 1 + i - 1 \in 1..U /\ (mm + i - 1 = y \/ mm + i - 1 = y - WORD)
    BY <1>1, <1>3, PipeNat
  <2>2. (y - WORD) % PIPESIZE = y % PIPESIZE
    BY <2>1, PipeNat, ModLess, Zenon
  <2>3. (mm + i - 1) % PIPESIZE = y % PIPESIZE
    BY <2>1, <2>2, Zenon
  <2> QED BY <1>9, <1>10, <2>1, <2>3, Zenon
<1> DEFINE rest == SubSeq(ContentsOf(pipe), n + 1, U)
<1>12. /\ rest \in Seq(Bytes \cup {0}) /\ Len(rest) = U - n
       /\ \A i \in 1..(U - n) : rest[i] = ContentsOf(pipe)[n + 1 + i - 1]
  <2>1. \A i \in (n + 1)..U : ContentsOf(pipe)[i] \in Bytes \cup {0}
    BY <1>1, <1>10, SeqElement
  <2>2. n + 1 \in Int /\ U \in Int
    BY <1>1
  <2>3. /\ rest \in Seq(Bytes \cup {0})
        /\ Len(rest) = IF n + 1 <= U THEN U - (n + 1) + 1 ELSE 0
        /\ \A i \in 1..(U - (n + 1) + 1) : rest[i] = ContentsOf(pipe)[n + 1 + i - 1]
    BY <2>1, <2>2, SeqPart
  <2>4. U - (n + 1) + 1 = U - n /\ (~(n + 1 <= U) => U - n = 0)
    BY <1>1
  <2> QED BY <2>3, <2>4, Zenon
<1> HIDE DEF rest
<1>13. ContentsOf(pipe') = rest
  BY <1>9, <1>11, <1>12, SeqSame, Zenon
<1> QED BY <1>5, <1>7, <1>10, <1>13, OfPipe, Zenon DEF U, rest

----------------------------------------------------------------------------
(* Counting references.                                                    *)

Tables == [Procs -> [Fds -> Files \cup {0}]]
FdCount(o, f) == Cardinality({x \in Procs \X Fds : o[x[1]][x[2]] = f})
LocalCount(r, f) == Cardinality({p \in Procs : r[p] = f})
SetsLocal(r, p, v, r2) ==
  /\ r \in [Procs -> Files \cup {0}] /\ p \in Procs /\ v \in Files \cup {0}
  /\ r2 = [r EXCEPT ![p] = v]
SetsFd(o, p, fd, v, o2) ==
  /\ o \in Tables /\ p \in Procs /\ fd \in Fds /\ v \in Files \cup {0}
  /\ o2 = [o EXCEPT ![p][fd] = v]
Moved(f, old, new) == (IF new = f THEN 1 ELSE 0) - (IF old = f THEN 1 ELSE 0)

(* RefExact, by counts of descriptors and of locals.                       *)
LEMMA RefIs ==
  /\ RefExact <=> \A f \in Files :
       ref[f] = FdCount(ofile, f) + LocalCount(rf, f) + LocalCount(wf, f)
  /\ RefExact' <=> \A f \in Files :
       ref'[f] = FdCount(ofile', f) + LocalCount(rf', f) + LocalCount(wf', f)
BY Zenon DEF RefExact, FdCount, LocalCount

(* Files and descriptors are numbers, and 0 is no file.                    *)
LEMMA FileNat == /\ Files \subseteq Nat \ {0} /\ Fds \subseteq Nat /\ 0 \notin Files
                 /\ IsFiniteSet(Fds) /\ IsFiniteSet(Procs) /\ IsFiniteSet(Procs \X Fds)
<1>1. Files \subseteq Nat \ {0} /\ Fds \subseteq Nat /\ 0 \notin Files /\ NOFILE - 1 \in Int
  BY FileAssumption DEF Files, Fds
<1>2. IsFiniteSet(Fds)
  BY <1>1, FS_Interval DEF Fds
<1> QED BY <1>1, <1>2, FileAssumption, FS_Product, Zenon

(* One element comes to a set, or goes.                                    *)
LEMMA OneMore ==
  ASSUME NEW S, NEW T, IsFiniteSet(S), NEW d, d \notin S, T = S \cup {d}
  PROVE  Cardinality(T) = Cardinality(S) + 1 /\ Cardinality(S) \in Nat
BY FS_AddElement, FS_CardinalityType, Zenon

(* A set with one member less.                                             *)
LEMMA OneLess ==
  ASSUME NEW S, NEW T, IsFiniteSet(S), NEW d \in S, T = S \ {d}
  PROVE  Cardinality(T) = Cardinality(S) - 1 /\ Cardinality(S) \in Nat
BY FS_RemoveElement, FS_CardinalityType, Zenon

(* How many locals hold a file is a number, and 0 when none does.          *)
LEMMA LocalCountIs ==
  ASSUME NEW r \in [Procs -> Files \cup {0}], NEW f
  PROVE  LocalCount(r, f) \in Nat /\ (LocalCount(r, f) = 0 <=> \A p \in Procs : r[p] # f)
<1> DEFINE S == {p \in Procs : r[p] = f}
<1>1. IsFiniteSet(S)
  BY FileNat, FS_Subset, Zenon
<1>2. Cardinality(S) \in Nat /\ (Cardinality(S) = 0 <=> S = {})
  BY <1>1, FS_EmptySet, FS_CardinalityType, Zenon
<1>3. S = {} <=> \A p \in Procs : r[p] # f
  OBVIOUS
<1> QED BY <1>2, <1>3, Zenon DEF LocalCount

(* How many descriptors hold a file is a number, and 0 when none does.     *)
LEMMA FdCountIs ==
  ASSUME NEW o \in Tables, NEW f
  PROVE  /\ FdCount(o, f) \in Nat
         /\ FdCount(o, f) = 0 <=> \A p \in Procs, fd \in Fds : o[p][fd] # f
<1> DEFINE S == {x \in Procs \X Fds : o[x[1]][x[2]] = f}
<1>1. IsFiniteSet(S)
  BY FileNat, FS_Subset, Zenon
<1>2. Cardinality(S) \in Nat /\ (Cardinality(S) = 0 <=> S = {})
  BY <1>1, FS_EmptySet, FS_CardinalityType, Zenon
<1>3. S = {} <=> \A p \in Procs, fd \in Fds : o[p][fd] # f
  <2>1. ASSUME NEW p \in Procs, NEW fd \in Fds, o[p][fd] = f
        PROVE  <<p, fd>> \in S
    BY <2>1
  <2>2. ASSUME NEW x \in S
        PROVE  \E p \in Procs, fd \in Fds : o[p][fd] = f
    OBVIOUS
  <2> HIDE DEF S
  <2> QED BY <2>1, <2>2, Zenon
<1> QED BY <1>2, <1>3, Zenon DEF FdCount

(* One local is assigned: its old file is held once less and its new file  *)
(* once more.                                                              *)
LEMMA LocalCountSet ==
  ASSUME NEW r, NEW p, NEW v, NEW r2, SetsLocal(r, p, v, r2), NEW f
  PROVE  LocalCount(r2, f) = LocalCount(r, f) + Moved(f, r[p], v)
<1> USE DEF SetsLocal
<1> DEFINE S == {q \in Procs : r[q] = f}
           T == {q \in Procs : r2[q] = f}
<1>1. IsFiniteSet(S) /\ Cardinality(S) \in Nat
  BY FileNat, FS_Subset, FS_CardinalityType, Zenon
<1>2. CASE r[p] = f /\ v = f
  <2>1. S = T /\ p \in S /\ S # {}
    BY <1>2
  <2>2. Cardinality(S) # 0
    BY <1>1, <2>1, FS_EmptySet, Zenon
  <2> QED BY <1>1, <1>2, <2>1, <2>2 DEF LocalCount, Moved
<1>3. CASE r[p] = f /\ v # f
  <2>1. T = S \ {p} /\ p \in S /\ S # {}
    BY <1>3
  <2>2. Cardinality(S) # 0
    BY <1>1, <2>1, FS_EmptySet, Zenon
  <2>3. Cardinality(T) = Cardinality(S) - 1
    BY <1>1, <2>1, OneLess, Zenon
  <2> QED BY <1>1, <1>3, <2>2, <2>3 DEF LocalCount, Moved
<1>4. CASE r[p] # f /\ v = f
  <2>1. T = S \cup {p} /\ p \notin S
    BY <1>4
  <2>2. Cardinality(T) = Cardinality(S) + 1
    BY <1>1, <2>1, OneMore, Zenon
  <2> QED BY <1>1, <1>4, <2>2 DEF LocalCount, Moved
<1>5. CASE r[p] # f /\ v # f
  <2>1. T = S
    BY <1>5
  <2>2. Cardinality(T) = Cardinality(S)
    BY <2>1, Zenon
  <2> QED BY <1>1, <1>5, <2>2 DEF LocalCount, Moved
<1> QED BY <1>2, <1>3, <1>4, <1>5, Zenon

(* One descriptor is assigned: its old file is held once less and its new  *)
(* file once more.                                                         *)
LEMMA FdCountSet ==
  ASSUME NEW o, NEW p, NEW fd, NEW v, NEW o2, SetsFd(o, p, fd, v, o2), NEW f
  PROVE  o2 \in Tables /\ FdCount(o2, f) = FdCount(o, f) + Moved(f, o[p][fd], v)
<1> USE DEF SetsFd
<1> DEFINE d == <<p, fd>>
           S == {x \in Procs \X Fds : o[x[1]][x[2]] = f}
           T == {x \in Procs \X Fds : o2[x[1]][x[2]] = f}
<1>1. IsFiniteSet(S) /\ Cardinality(S) \in Nat
  BY FileNat, FS_Subset, FS_CardinalityType, Zenon
<1>2. o2 \in Tables /\ d \in Procs \X Fds /\ d[1] = p /\ d[2] = fd
  BY DEF Tables
<1>3. ASSUME NEW x \in Procs \X Fds
      PROVE  o2[x[1]][x[2]] = IF x = d THEN v ELSE o[x[1]][x[2]]
  BY DEF Tables
<1> HIDE DEF d
<1>4. CASE o[p][fd] = f /\ v = f
  <2>1. S = T /\ d \in S /\ S # {}
    BY <1>2, <1>3, <1>4
  <2>2. Cardinality(S) # 0
    BY <1>1, <2>1, FS_EmptySet, Zenon
  <2>3. Cardinality(T) = Cardinality(S)
    BY <2>1, Zenon
  <2> QED BY <1>1, <1>2, <1>4, <2>2, <2>3 DEF FdCount, Moved
<1>5. CASE o[p][fd] = f /\ v # f
  <2>1. T = S \ {d} /\ d \in S /\ S # {}
    BY <1>2, <1>3, <1>5
  <2>2. Cardinality(S) # 0
    BY <1>1, <2>1, FS_EmptySet, Zenon
  <2>3. Cardinality(T) = Cardinality(S) - 1
    BY <1>1, <2>1, OneLess, Zenon
  <2> QED BY <1>1, <1>2, <1>5, <2>2, <2>3 DEF FdCount, Moved
<1>6. CASE o[p][fd] # f /\ v = f
  <2>1. T = S \cup {d} /\ d \notin S
    BY <1>2, <1>3, <1>6
  <2>2. Cardinality(T) = Cardinality(S) + 1
    BY <1>1, <2>1, OneMore, Zenon
  <2> QED BY <1>1, <1>2, <1>6, <2>2 DEF FdCount, Moved
<1>7. CASE o[p][fd] # f /\ v # f
  <2>1. T = S
    BY <1>2, <1>3, <1>7
  <2>2. Cardinality(T) = Cardinality(S)
    BY <2>1, Zenon
  <2> QED BY <1>1, <1>2, <1>7, <2>2 DEF FdCount, Moved
<1> QED BY <1>4, <1>5, <1>6, <1>7, Zenon

(* A child's descriptors are its parent's.                                 *)
LEMMA FdCountFork ==
  ASSUME NEW o \in Tables, NEW p \in Procs, NEW q \in Procs, NEW f \in Files,
         \A fd \in Fds : o[q][fd] = 0
  PROVE  /\ FdCount([o EXCEPT ![q] = o[p]], f) = FdCount(o, f) + Uses(o[p], f)
         /\ FdCount(o, f) \in Nat /\ Uses(o[p], f) \in Nat
         /\ Uses(o[p], f) > 0 => FdCount(o, f) > 0
<1> DEFINE o2 == [o EXCEPT ![q] = o[p]]
           S == {x \in Procs \X Fds : o[x[1]][x[2]] = f}
           T == {x \in Procs \X Fds : o2[x[1]][x[2]] = f}
           D == {fd \in Fds : o[p][fd] = f}
           N == {x \in {q} \X Fds : o[p][x[2]] = f}
           pr == [x \in N |-> x[2]]
<1>1. IsFiniteSet(S) /\ IsFiniteSet(D) /\ Cardinality(S) \in Nat /\ Cardinality(D) \in Nat
  BY FileNat, FS_Subset, FS_CardinalityType, Zenon
<1>2. N \in SUBSET (Procs \X Fds)
  BY Zenon
<1>3. IsFiniteSet(N) /\ Cardinality(N) \in Nat
  BY <1>2, FileNat, FS_Subset, FS_CardinalityType, Zenon
<1>4. T = S \cup N /\ S \cap N = {}
  <2>1. ASSUME NEW x \in Procs \X Fds
        PROVE  o2[x[1]][x[2]] = IF x[1] = q THEN o[p][x[2]] ELSE o[x[1]][x[2]]
    BY DEF Tables
  <2>2. ASSUME NEW x \in S PROVE x[1] # q
    BY FileNat, Zenon
  <2> HIDE DEF o2
  <2>3. \A x \in Procs \X Fds : x \in T <=> x \in S \/ x \in N
    BY <2>1, <2>2
  <2> QED BY <1>2, <2>2, <2>3
<1>5. pr \in Surjection(N, D) /\ pr \in Injection(N, D)
  <2>1. pr \in [N -> D]
    OBVIOUS
  <2>2. \A fd \in D : <<q, fd>> \in N /\ pr[<<q, fd>>] = fd
    OBVIOUS
  <2>3. \A x, y \in N : pr[x] = pr[y] => x = y
    OBVIOUS
  <2> HIDE DEF pr, N, D
  <2> QED BY <2>1, <2>2, <2>3, Zenon DEF Surjection, Injection, IsInjective
<1> HIDE DEF pr, N, D, S, T
<1>6. Cardinality(D) = Cardinality(N)
  BY <1>3, <1>5, FS_Surjection, Zenon
<1>7. Cardinality(T) = Cardinality(S) + Cardinality(N) - Cardinality(S \cap N)
  <2>1. Cardinality(S \cup N) = Cardinality(S) + Cardinality(N) - Cardinality(S \cap N)
    BY <1>1, <1>3, FS_Union
  <2> QED BY <1>4, <2>1, Zenon
<1>8. Cardinality(S \cap N) = 0
  BY <1>4, FS_EmptySet, Zenon
<1>9. Cardinality(T) = Cardinality(S) + Cardinality(D)
  BY <1>1, <1>3, <1>6, <1>7, <1>8
<1>10. Cardinality(D) > 0 => Cardinality(S) > 0
  <2> SUFFICES ASSUME Cardinality(D) > 0 PROVE Cardinality(S) > 0
    OBVIOUS
  <2>1. D # {}
    BY <1>1, FS_EmptySet DEF D
  <2>2. PICK fd \in Fds : o[p][fd] = f
    BY <2>1 DEF D
  <2>3. <<p, fd>> \in S
    BY <2>2 DEF S
  <2>4. Cardinality(S) # 0
    BY <1>1, <2>3, FS_EmptySet, Zenon
  <2> QED BY <1>1, <2>4
<1> QED BY <1>1, <1>9, <1>10, Zenon DEF FdCount, Uses, S, T, D

(* A file that a descriptor or a local refers to is in use.                *)
LEMMA Referred ==
  ASSUME FileType, RefExact, NEW p \in Procs, NEW f \in Files,
         rf[p] = f \/ wf[p] = f \/ \E fd \in Fds : ofile[p][fd] = f
  PROVE  ref[f] > 0
<1>1. 0 \in Fds
  BY FileAssumption DEF Fds
<1>2. LocalCount(rf, f) \in Nat /\ LocalCount(wf, f) \in Nat
  BY LocalCountIs DEF FileType
<1>3. FdCount(ofile, f) \in Nat /\ ofile \in Tables
  BY <1>1, FdCountIs DEF FileType, Tables
<1>4. rf[p] = f => LocalCount(rf, f) > 0
  BY LocalCountIs DEF FileType
<1>5. wf[p] = f => LocalCount(wf, f) > 0
  BY LocalCountIs DEF FileType
<1>6. (\E fd \in Fds : ofile[p][fd] = f) => FdCount(ofile, f) > 0
  BY <1>3, FdCountIs
<1> QED BY <1>2, <1>3, <1>4, <1>5, <1>6, RefIs

----------------------------------------------------------------------------
(* What a step does to files and pipe, whatever the program that makes it. *)

files == <<ref, type, writable, ofile, at, rf, wf, ff>>

Act(p) ==
  \/ UNCHANGED <<pipeIdle, files>>
  \/ \E fd \in Fds :
       sys_close(p, fd) \/ sys_dup(p, fd) \/ sys_read(p, fd) \/ sys_write(p, fd, Message)
  \/ sys_open(p) \/ pipealloc1(p) \/ (\E q \in Procs : forkFiles(p, q))
  \/ exitFiles(p) \/ exitClosed(p) \/ Reap(p) \/ kill(p)
  \/ (PipeStep(p) /\ UNCHANGED fileVars) \/ FileStep(p)

(* Every step of the shell makes one of the calls on files and pipes, or   *)
(* leaves files and pipes alone: the scripts decide only which call is     *)
(* made.                                                                   *)
LEMMA NextActs ==
  ASSUME [Next]_svars, Procs # {}
  PROVE  \E p \in Procs : Act(p)
<1>1. CASE UNCHANGED svars
  BY <1>1, Zenon DEF svars, pipeVars, pipeIdle, fileVars, files, Act
<1>2. CASE Next
  <2>1. PICK p \in Procs : prompt(p) \/ Works(p) \/ kill(p)
    BY <1>2, Zenon DEF Next
  <2> USE DEF Act
  <2>2. ASSUME NEW fd
        PROVE  /\ badFd(p, fd) => UNCHANGED <<pipeIdle, files>>
               /\ sys_close(p, fd) \/ sys_dup(p, fd) \/ sys_read(p, fd)
                    \/ sys_write(p, fd, Message) => fd \in Fds
    BY Zenon DEF badFd, pipeIdle, fileVars, files, sys_close, sys_dup, sys_read, sys_write
  <2>3. CASE prompt(p) \/ kill(p)
    BY <2>3, Zenon DEF prompt, pipeIdle, fileVars, files
  <2>4. CASE runSub(p) \/ fork1(p) \/ check(p) \/ again(p) \/ anyFork(p)
    BY <2>4, Zenon DEF runSub, fork1, check, again, anyFork, pipeVars, pipeIdle, fileVars, files
  <2>5. CASE descriptors(p) \/ anyCall(p)
    BY <2>2, <2>5, Zenon DEF descriptors, anyCall
  <2>6. CASE exit(p)
    BY <2>6, Zenon DEF exit
  <2>7. CASE wait(p) \/ initWait(p)
    BY <2>7, Zenon DEF wait, initWait, pipeVars, pipeIdle, fileVars, files
  <2>8. CASE (PipeStep(p) /\ UNCHANGED <<fileVars, upc, parent>>)
               \/ (FileStep(p) /\ UNCHANGED <<upc, parent>>)
    BY <2>8, Zenon
  <2> QED BY <2>1, <2>3, <2>4, <2>5, <2>6, <2>7, <2>8, Zenon DEF Works
<1> QED BY <1>1, <1>2, Zenon

----------------------------------------------------------------------------
(* Steps that leave a part alone.                                          *)

(* A descriptor in use refers to a file.                                   *)
LEMMA OfileIs ==
  ASSUME SInv, NEW p \in Procs, NEW fd \in Fds, ofile[p][fd] # 0
  PROVE  ofile[p][fd] \in Files
BY DEF SInv, FileType

(* Counts stay exact when neither counts nor holders change.               *)
LEMMA RefKept == ASSUME SInv, UNCHANGED <<ref, ofile, rf, wf>> PROVE RefExact'
BY Zenon DEF SInv, RefExact

(* A step that leaves the pipe alone and puts nobody to sleep.             *)
LEMMA FlowKept ==
  ASSUME SInv, UNCHANGED pipe, \A q \in Procs : chan'[q] = chan[q] \/ chan'[q] = ""
  PROVE  PipeType' /\ Flow'
<1>1. PipeType' /\ Used' = Used
  BY Zenon DEF SInv, PipeType, Used
<1>2. "" # "nread" /\ "" # "nwrite"
  BY Zenon
<1> QED BY <1>1, <1>2, Zenon DEF SInv, Flow, PipeSleepersWoken

(* A step that leaves the pipe alone and changes the end of no file.       *)
LEMMA EndsKept ==
  ASSUME SInv, UNCHANGED <<pipe, ff>>, \A f \in Files : End(f)' = End(f),
         \A f \in Files : ref'[f] = 0 => type'[f] # "FD_PIPE"
  PROVE  Ends'
BY ZenonT(40) DEF SInv, Ends, IsOpen

(* A step that leaves the ends and descriptors of those in a pipe call     *)
(* alone.                                                                  *)
LEMMA CallsKept ==
  ASSUME SInv,
         \A f \in Files, q \in Procs, fd \in Fds :
           call'[q] # "none" /\ ofile[q][fd] = f => End(f)' = End(f),
         \A q \in Procs : call'[q] # "none" => call'[q] = call[q] /\ ofile'[q] = ofile[q]
  PROVE  Calls'
<1>1. ASSUME NEW q \in Procs, NEW e, call'[q] # "none",
             \E fd \in Fds : ofile[q][fd] # 0 /\ End(ofile[q][fd]) = e
      PROVE  \E fd \in Fds : ofile'[q][fd] # 0 /\ End(ofile[q][fd])' = e
  <2>1. PICK fd \in Fds : ofile[q][fd] # 0 /\ End(ofile[q][fd]) = e
    BY <1>1, Zenon
  <2>2. PICK f \in Files : f = ofile[q][fd]
    BY <2>1, OfileIs, Zenon
  <2>3. End(f)' = e /\ ofile'[q][fd] = f
    BY <1>1, <2>1, <2>2, Zenon
  <2>4. End(ofile[q][fd])' = e
    BY <2>3 DEF End
  <2> QED BY <2>1, <2>2, <2>3, <2>4, Zenon
<1>2. "read" # "none" /\ "write" # "none"
  OBVIOUS
<1> QED BY <1>1, <1>2, Zenon DEF SInv, Calls

(* While a file is an end of the pipe, that end is open and no pipeclose   *)
(* of it is to come.                                                       *)
LEMMA EndHeld ==
  ASSUME SInv, NEW f \in Files, NEW e \in {"r", "w"}, End(f) = e
  PROVE  IsOpen(e) /\ \A q \in Procs : ff[q] # e
<1>1. IsOpen(e)
  BY Zenon DEF SInv, Ends
<1>2. \A q \in Procs : ff[q] # e
  BY Zenon DEF SInv, Ends
<1> QED BY <1>1, <1>2

(* An open end has somebody to use it; who is in a call has an open end.   *)
LEMMA CallOpen ==
  ASSUME SInv, NEW p \in Procs
  PROVE  /\ call[p] = "write" => pipe.writeopen /\ pipe.alloc /\ \A q \in Procs : ff[q] # "w"
         /\ call[p] = "read" => pipe.readopen /\ pipe.alloc /\ \A q \in Procs : ff[q] # "r"
<1>1. ASSUME call[p] = "write"
      PROVE  pipe.writeopen /\ pipe.alloc /\ \A q \in Procs : ff[q] # "w"
  <2>1. PICK fd \in Fds : ofile[p][fd] # 0 /\ End(ofile[p][fd]) = "w"
    BY <1>1, Zenon DEF SInv, Calls
  <2>2. ofile[p][fd] \in Files
    BY <2>1, OfileIs, Zenon
  <2>3. IsOpen("w") /\ \A q \in Procs : ff[q] # "w"
    BY <2>1, <2>2, EndHeld, Zenon
  <2>4. pipe.writeopen
    BY <2>3 DEF IsOpen
  <2> QED BY <2>3, <2>4, Zenon DEF SInv, Ends
<1>2. ASSUME call[p] = "read"
      PROVE  pipe.readopen /\ pipe.alloc /\ \A q \in Procs : ff[q] # "r"
  <2>1. PICK fd \in Fds : ofile[p][fd] # 0 /\ End(ofile[p][fd]) = "r"
    BY <1>2, Zenon DEF SInv, Calls
  <2>2. ofile[p][fd] \in Files
    BY <2>1, OfileIs, Zenon
  <2>3. IsOpen("r") /\ \A q \in Procs : ff[q] # "r"
    BY <2>1, <2>2, EndHeld, Zenon
  <2>4. pipe.readopen
    BY <2>3 DEF IsOpen
  <2> QED BY <2>3, <2>4, Zenon DEF SInv, Ends
<1> QED BY <1>1, <1>2, Zenon

(* After a step that keeps counts exact, a file that a descriptor refers   *)
(* to has a positive count.                                                *)
LEMMA ReferredAfter ==
  ASSUME FileType', RefExact', NEW p \in Procs, NEW fd \in Fds, ofile'[p][fd] \in Files
  PROVE  ref'[ofile'[p][fd]] > 0
<1> DEFINE f == ofile'[p][fd]
<1>1. LocalCount(rf', f) \in Nat /\ LocalCount(wf', f) \in Nat
  BY LocalCountIs DEF FileType
<1>2. FdCount(ofile', f) \in Nat /\ FdCount(ofile', f) > 0
  BY FdCountIs DEF FileType, Tables
<1>3. ref'[f] = FdCount(ofile', f) + LocalCount(rf', f) + LocalCount(wf', f)
  BY RefIs, Zenon
<1> QED BY <1>1, <1>2, <1>3

----------------------------------------------------------------------------
(* How a step moves references.                                            *)

(* The count of a file is a sum of three numbers.                          *)
LEMMA RefCounts ==
  ASSUME SInv, NEW f \in Files
  PROVE  /\ FdCount(ofile, f) \in Nat /\ LocalCount(rf, f) \in Nat /\ LocalCount(wf, f) \in Nat
         /\ ref[f] = FdCount(ofile, f) + LocalCount(rf, f) + LocalCount(wf, f)
<1>2. FdCount(ofile, f) \in Nat
  BY FdCountIs, Zenon DEF SInv, FileType, Tables
<1>3. LocalCount(rf, f) \in Nat /\ LocalCount(wf, f) \in Nat
  BY LocalCountIs, Zenon DEF SInv, FileType
<1> QED BY <1>2, <1>3, RefIs, Zenon DEF SInv

(* What an assignment to a descriptor does to the number of holders.       *)
LEMMA FdMoves ==
  ASSUME SInv, NEW p \in Procs, NEW fd \in Fds, NEW v \in Files \cup {0},
         ofile' = [ofile EXCEPT ![p][fd] = v], NEW f
  PROVE  FdCount(ofile', f) = FdCount(ofile, f) + Moved(f, ofile[p][fd], v)
<1>1. ofile \in Tables
  BY Zenon DEF SInv, FileType, Tables
<1>2. SetsFd(ofile, p, fd, v, ofile')
  BY <1>1, Zenon DEF SetsFd
<1> QED BY <1>2, FdCountSet

(* What an assignment to rf does to the number of holders.                 *)
LEMMA RfMoves ==
  ASSUME SInv, NEW p \in Procs, NEW v \in Files \cup {0}, rf' = [rf EXCEPT ![p] = v], NEW f
  PROVE  LocalCount(rf', f) = LocalCount(rf, f) + Moved(f, rf[p], v)
<1>1. SetsLocal(rf, p, v, rf')
  BY Zenon DEF SetsLocal, SInv, FileType
<1> QED BY <1>1, LocalCountSet

(* What an assignment to wf does to the number of holders.                 *)
LEMMA WfMoves ==
  ASSUME SInv, NEW p \in Procs, NEW v \in Files \cup {0}, wf' = [wf EXCEPT ![p] = v], NEW f
  PROVE  LocalCount(wf', f) = LocalCount(wf, f) + Moved(f, wf[p], v)
<1>1. SetsLocal(wf, p, v, wf')
  BY Zenon DEF SetsLocal, SInv, FileType
<1> QED BY <1>1, LocalCountSet

(* The counts after a step, from how each kind of reference moved.         *)
LEMMA RefMoves ==
  ASSUME \A f \in Files :
           ref'[f] = FdCount(ofile', f) + LocalCount(rf', f) + LocalCount(wf', f)
  PROVE  RefExact'
BY RefIs, Zenon

----------------------------------------------------------------------------
(* When init and its shell have started, the invariant holds.              *)
LEMMA InitHolds == ASSUME Init PROVE SInv
<1>1. init \in Procs /\ sh \in Procs /\ init = 1 /\ sh = 2
  BY FileAssumption DEF init, sh
<1>2. 1 \in Files /\ 0 \in Fds /\ 1 \in Fds /\ 0 \notin Files
  BY FileAssumption DEF Files, Fds
<1>3. /\ pipe = NoPipe /\ call = [p \in Procs |-> "none"] /\ chan = [p \in Procs |-> ""]
      /\ buf = [p \in Procs |-> <<>>] /\ killed = [p \in Procs |-> FALSE]
      /\ ref = [f \in Files |-> IF f = 1 THEN 4 ELSE 0]
      /\ type = [f \in Files |-> IF f = 1 THEN "FD_INODE" ELSE "FD_NONE"]
      /\ writable = [f \in Files |-> f = 1]
      /\ ofile = [p \in Procs |-> [fd \in Fds |-> IF p <= 2 /\ fd < 2 THEN 1 ELSE 0]]
      /\ rf = [p \in Procs |-> 0] /\ wf = [p \in Procs |-> 0] /\ ff = [p \in Procs |-> "none"]
  BY <1>1, Zenon DEF Init, FileInit, PipeInit
<1>0. \A p \in Procs, fd \in Fds : ofile[p][fd] = IF p <= 2 /\ fd < 2 THEN 1 ELSE 0
  BY <1>3, Zenon
<1>4. \A p \in Procs : p \in Nat \ {0} /\ (p > 2 \/ at[p] \in {"init", "user"})
  <2>1. \A p \in Procs : p \in Nat \ {0} /\ (p > 2 \/ p = init \/ p = sh)
    BY <1>1, FileAssumption
  <2>2. \A p \in Procs : p = init => at[p] = "init"
    BY DEF Init, FileInit, init, sh
  <2>3. \A p \in Procs : p = sh => at[p] = "user"
    BY <1>1 DEF Init, FileInit
  <2> QED BY <2>1, <2>2, <2>3, Zenon
<1>5. at \in [Procs -> {"init", "user", "unused"}]
  BY <1>1 DEF Init, FileInit
<1>6. NoPipe \in Pipes /\ UsedOf(NoPipe) = 0
  <2>1. NoPipe \in Pipes
    BY PipeNat DEF Pipes, NoPipe
  <2>2. NoPipe.nread = 0 /\ NoPipe.nwrite = 0
    BY DEF NoPipe
  <2> QED BY <2>1, <2>2, UsedIs, PipeNat
<1>7. PipeType /\ Used = 0
  BY <1>3, <1>6, OfPipe, Zenon DEF PipeType
<1>8. CallType
  BY <1>3, SeqEmpty, Zenon DEF CallType
<1>9. FileType
  BY <1>2, <1>3, <1>5, Zenon DEF FileType
<1>10. Places
  <2>1. ASSUME NEW p \in Procs, at[p] \in {"unused", "zombie"}
        PROVE  \A fd \in Fds : ofile[p][fd] = 0
    BY <1>0, <1>4, <2>1, FileNat
  <2>2. ASSUME NEW p \in Procs
        PROVE  /\ at[p] \in {"init", "user", "unused"} /\ rf[p] = 0 /\ wf[p] = 0
               /\ ff[p] = "none" /\ call[p] = "none" /\ chan[p] = "" /\ buf[p] = <<>>
    BY <1>3, <1>5, Zenon
  <2> QED BY <2>1, <2>2, Zenon DEF Places
<1>11. \A f \in Files : {p \in Procs : rf[p] = f} = {} /\ {p \in Procs : wf[p] = f} = {}
  BY <1>2, <1>3, Zenon
<1>12. \A f \in Files : LocalCount(rf, f) = 0 /\ LocalCount(wf, f) = 0
  BY <1>11, FS_EmptySet, Zenon DEF LocalCount
<1>13. ASSUME NEW x \in Procs \X Fds
       PROVE  /\ ofile[x[1]][x[2]] \in {0, 1}
              /\ ofile[x[1]][x[2]] = 1 <=> x[1] <= 2 /\ x[2] < 2
  <2>1. PICK p \in Procs, fd \in Fds : x = <<p, fd>>
    OBVIOUS
  <2> QED BY <1>0, <2>1
<1>14. \A f \in Files \ {1} : FdCount(ofile, f) = 0
  <2>1. \A f \in Files \ {1} : {x \in Procs \X Fds : ofile[x[1]][x[2]] = f} = {}
    BY <1>2, <1>13
  <2> QED BY <2>1, FS_EmptySet, Zenon DEF FdCount
<1> DEFINE A == {<<1, 0>>}  B == A \cup {<<1, 1>>}  C == B \cup {<<2, 0>>}
           D == C \cup {<<2, 1>>}
<1>15. FdCount(ofile, 1) = 4
  <2>1. ASSUME NEW x \in Procs \X Fds
        PROVE  x[1] <= 2 /\ x[2] < 2 <=> x \in D
    <3>1. PICK p \in Procs, fd \in Fds : x = <<p, fd>>
      OBVIOUS
    <3>2. p \in Nat \ {0} /\ fd \in Nat
      BY FileAssumption, FileNat
    <3> QED BY <3>1, <3>2
  <2>2. D \subseteq Procs \X Fds
    BY <1>1, <1>2
  <2>3. {x \in Procs \X Fds : ofile[x[1]][x[2]] = 1} = D
    <3> HIDE DEF D
    <3> QED BY <2>1, <2>2, <1>13
  <2>4. IsFiniteSet(A) /\ Cardinality(A) = 1 /\ <<1, 1>> \notin A
    <3>1. IsFiniteSet(A) /\ Cardinality(A) = 1
      BY FS_Singleton, Zenon
    <3> QED BY <3>1
  <2> HIDE DEF A
  <2>5. IsFiniteSet(B) /\ Cardinality(B) = 2 /\ <<2, 0>> \notin B
    <3>1. IsFiniteSet(B) /\ Cardinality(B) = Cardinality(A) + 1
      BY <2>4, FS_AddElement, Zenon
    <3> QED BY <2>4, <3>1 DEF A
  <2> HIDE DEF B
  <2>6. IsFiniteSet(C) /\ Cardinality(C) = 3 /\ <<2, 1>> \notin C
    <3>1. IsFiniteSet(C) /\ Cardinality(C) = Cardinality(B) + 1
      BY <2>5, FS_AddElement, Zenon
    <3> QED BY <2>5, <3>1 DEF A, B
  <2> HIDE DEF C
  <2>7. Cardinality(D) = Cardinality(C) + 1
    BY <2>6, FS_AddElement, Zenon
  <2> HIDE DEF D
  <2>8. FdCount(ofile, 1) = Cardinality(D)
    BY <2>3, Zenon DEF FdCount
  <2> QED BY <2>6, <2>7, <2>8
<1>16. RefExact
  <2>1. \A f \in Files : ref[f] = FdCount(ofile, f) + LocalCount(rf, f) + LocalCount(wf, f)
    <3>1. \A f \in Files : ref[f] = IF f = 1 THEN 4 ELSE 0
      BY <1>3, Zenon
    <3>2. \A f \in Files : FdCount(ofile, f) = IF f = 1 THEN 4 ELSE 0
      BY <1>14, <1>15, Zenon
    <3> QED BY <1>12, <3>1, <3>2
  <2> QED BY <2>1, RefIs, Zenon
<1>17. Ends
  <2>1. \A f \in Files : End(f) = "none" /\ type[f] # "FD_PIPE"
    BY <1>3, Zenon DEF End
  <2>2. ~NoPipe.readopen /\ ~NoPipe.writeopen
    BY DEF NoPipe
  <2>3. \A p \in Procs : ff[p] = "none"
    BY <1>3, Zenon
  <2> QED BY <1>3, <2>1, <2>2, <2>3, Zenon DEF Ends, IsOpen
<1>18. Calls /\ Flow
  <2>1. \A p \in Procs : call[p] = "none" /\ chan[p] = ""
    BY <1>3, Zenon
  <2>2. Used <= PIPESIZE
    BY <1>7, PipeNat
  <2> QED BY <2>1, <2>2, Zenon DEF Calls, Flow, PipeSleepersWoken
<1> QED BY <1>7, <1>8, <1>9, <1>10, <1>16, <1>17, <1>18, Zenon DEF SInv

(* A step of a program that makes no call on files keeps the invariant.    *)
LEMMA IdleKeeps == ASSUME SInv, UNCHANGED <<pipeIdle, files>> PROVE SInv'
<1>1. CallType' /\ FileType' /\ Places'
  <2>1. CallType'
    BY Zenon DEF SInv, pipeIdle, CallType
  <2>2. FileType'
    BY Zenon DEF SInv, files, FileType
  <2>3. Places'
    BY Zenon DEF SInv, pipeIdle, files, Places
  <2> QED BY <2>1, <2>2, <2>3
<1>2. \A f \in Files : End(f)' = End(f)
  BY Zenon DEF files, End
<1>3. RefExact' /\ Ends' /\ Calls' /\ PipeType' /\ Flow'
  BY <1>2, RefKept, EndsKept, CallsKept, FlowKept, Zenon DEF pipeIdle, files, SInv, Ends
<1> QED BY <1>1, <1>3, Zenon DEF SInv

(* sys_close moves the file from the descriptor to a local                 *)
(* (sysfile.c:101).                                                        *)
LEMMA sys_closeKeeps ==
  ASSUME SInv, NEW p \in Procs, NEW fd \in Fds, sys_close(p, fd)
  PROVE  SInv'
<1> USE DEF sys_close, User, Goto, pipeIdle
<1> DEFINE g == ofile[p][fd]
<1>1. g \in Files /\ at[p] = "user" /\ call[p] = "none" /\ rf[p] = 0
  BY OfileIs, Zenon DEF SInv, Places
<1>2. CallType' /\ FileType'
  BY <1>1, Zenon DEF SInv, CallType, FileType
<1>3. Places'
  BY <1>1, FileNat DEF SInv, Places, FileType
<1>4. RefExact'
  <2>1. ASSUME NEW f \in Files
        PROVE  ref'[f] = FdCount(ofile', f) + LocalCount(rf', f) + LocalCount(wf', f)
    <3>1. FdCount(ofile', f) = FdCount(ofile, f) + Moved(f, g, 0)
      BY FdMoves, Zenon
    <3>2. LocalCount(rf', f) = LocalCount(rf, f) + Moved(f, 0, g)
      BY <1>1, RfMoves, Zenon
    <3>3. wf' = wf /\ ref' = ref
      BY Zenon
    <3> QED BY <1>1, <3>1, <3>2, <3>3, RefCounts, FileNat, SMTT(20) DEF Moved
  <2> QED BY <2>1, RefMoves, Zenon
<1>5. \A f \in Files : End(f)' = End(f)
  BY Zenon DEF End
<1>6. Ends'
  BY <1>5, EndsKept, Zenon DEF SInv, Ends
<1>7. \A q \in Procs : call'[q] # "none" => call'[q] = call[q] /\ ofile'[q] = ofile[q]
  BY <1>1 DEF SInv, FileType
<1>8. Calls'
  BY <1>5, <1>7, CallsKept, Zenon
<1>9. PipeType' /\ Flow'
  BY FlowKept, Zenon
<1> QED BY <1>2, <1>3, <1>4, <1>6, <1>8, <1>9, Zenon DEF SInv

(* sys_dup counts the new descriptor, or fails (sysfile.c:55-67).          *)
LEMMA sys_dupKeeps ==
  ASSUME SInv, NEW p \in Procs, NEW fd \in Fds, sys_dup(p, fd)
  PROVE  SInv'
<1>1. CASE UNCHANGED <<ofile, ref>>
  <2>1. UNCHANGED <<pipeIdle, files>>
    BY <1>1, Zenon DEF sys_dup, files, locals
  <2> QED BY <2>1, IdleKeeps
<1>2. ASSUME NEW d \in Fds, FreeFd(p, d), ofile' = [ofile EXCEPT ![p][d] = ofile[p][fd]],
             ref' = [ref EXCEPT ![ofile[p][fd]] = @ + 1]
      PROVE  SInv'
  <2> DEFINE g == ofile[p][fd]
  <2>1. /\ UNCHANGED <<pipe, call, chan, buf, got, killed, type, writable, at, rf, wf, ff>>
        /\ g # 0 /\ at[p] = "user" /\ call[p] = "none" /\ ofile[p][d] = 0
    BY <1>2, Zenon DEF sys_dup, User, FreeFd, pipeIdle, locals
  <2>2. g \in Files
    BY <2>1, OfileIs, Zenon
  <2>3. ref[g] > 0 /\ ref \in [Files -> Nat]
    BY <2>2, Referred DEF SInv, FileType
  <2>4. CallType' /\ FileType'
    <3>1. ref' \in [Files -> Nat]
      BY <1>2, <2>2, <2>3
    <3>2. ofile' \in [Procs -> [Fds -> Files \cup {0}]]
      BY <1>2, <2>2, SMTT(20) DEF SInv, FileType
    <3> QED BY <2>1, <3>1, <3>2, Zenon DEF SInv, CallType, FileType
  <2>5. Places'
    BY <1>2, <2>1, <2>2 DEF SInv, Places, FileType
  <2>6. RefExact'
    <3>1. ASSUME NEW f \in Files
          PROVE  ref'[f] = FdCount(ofile', f) + LocalCount(rf', f) + LocalCount(wf', f)
      <4>1. FdCount(ofile', f) = FdCount(ofile, f) + Moved(f, 0, g)
        BY <1>2, <2>1, <2>2, FdMoves, Zenon
      <4>2. ref'[f] = ref[f] + (IF f = g THEN 1 ELSE 0)
        BY <1>2, <2>2, <2>3
      <4>3. LocalCount(rf', f) = LocalCount(rf, f) /\ LocalCount(wf', f) = LocalCount(wf, f)
        BY <2>1, Zenon
      <4>4. Moved(f, 0, g) = IF f = g THEN 1 ELSE 0
        BY FileNat DEF Moved
      <4> QED BY <4>1, <4>2, <4>3, <4>4, RefCounts, SMTT(20)
    <3> QED BY <3>1, RefMoves, Zenon
  <2>7. \A f \in Files : End(f)' = End(f) /\ (ref'[f] = 0 => ref[f] = 0)
    BY <1>2, <2>1, <2>2, <2>3 DEF End
  <2>8. Ends'
    BY <2>1, <2>7, EndsKept, Zenon DEF SInv, Ends
  <2>9. \A q \in Procs : call'[q] # "none" => call'[q] = call[q] /\ ofile'[q] = ofile[q]
    BY <1>2, <2>1 DEF SInv, FileType
  <2>10. Calls'
    BY <2>7, <2>9, CallsKept, Zenon
  <2>11. PipeType' /\ Flow'
    BY <2>1, FlowKept, Zenon
  <2> QED BY <2>4, <2>5, <2>6, <2>8, <2>10, <2>11, Zenon DEF SInv
<1> QED BY <1>1, <1>2, Zenon DEF sys_dup

(* A pipe call begins with the end of the pipe it needs.                   *)
LEMMA EndStays ==
  ASSUME UNCHANGED files, NEW q \in Procs, NEW e,
         \E fd \in Fds : ofile[q][fd] # 0 /\ End(ofile[q][fd]) = e
  PROVE  \E fd \in Fds : ofile'[q][fd] # 0 /\ End(ofile[q][fd])' = e
<1>1. PICK fd \in Fds : ofile[q][fd] # 0 /\ End(ofile[q][fd]) = e
  OBVIOUS
<1>2. ofile'[q][fd] # 0 /\ End(ofile[q][fd])' = e
  BY <1>1, Zenon DEF End, files
<1> QED BY <1>2, Zenon

(* A process enters a pipe call through a descriptor of that end.          *)
LEMMA CallsBegin ==
  ASSUME SInv, UNCHANGED files, NEW p \in Procs, NEW c \in {"read", "write"},
         call' = [call EXCEPT ![p] = c],
         \E fd \in Fds : ofile[p][fd] # 0 /\ End(ofile[p][fd]) = (IF c = "write" THEN "w" ELSE "r")
  PROVE  Calls'
<1>1. ASSUME NEW q \in Procs
      PROVE  /\ call'[q] = "write" => \E fd \in Fds : ofile[q][fd] # 0 /\ End(ofile[q][fd]) = "w"
             /\ call'[q] = "read" => \E fd \in Fds : ofile[q][fd] # 0 /\ End(ofile[q][fd]) = "r"
  <2>1. CASE q = p
    <3>1. call'[q] = c /\ "read" # "write"
      BY <2>1, Zenon DEF SInv, CallType
    <3> QED BY <2>1, <3>1, Zenon
  <2>2. CASE q # p
    <3>1. call'[q] = call[q]
      BY <2>2, Zenon DEF SInv, CallType
    <3> QED BY <3>1, Zenon DEF SInv, Calls
  <2> QED BY <2>1, <2>2, Zenon
<1> QED BY <1>1, EndStays, Zenon DEF Calls

(* sys_read enters piperead, or returns at once (sysfile.c:69-79).         *)
LEMMA sys_readKeeps ==
  ASSUME SInv, NEW p \in Procs, NEW fd \in Fds, sys_read(p, fd)
  PROVE  SInv'
<1> DEFINE g == ofile[p][fd]
<1>1. /\ UNCHANGED <<pipe, chan, buf, got, killed, files>>
      /\ g # 0 /\ at[p] = "user" /\ call[p] = "none"
  BY Zenon DEF sys_read, User, fileVars, files
<1>2. CASE UNCHANGED call
  BY <1>1, <1>2, IdleKeeps DEF pipeIdle
<1>3. CASE type[g] = "FD_PIPE" /\ ~writable[g] /\ call' = [call EXCEPT ![p] = "read"]
  <2>1. g \in Files
    BY <1>1, OfileIs, Zenon
  <2>2. End(g) = "r"
    BY <1>3, <2>1, Referred DEF End, SInv
  <2>3. CallType' /\ FileType'
    BY <1>1, <1>3, Zenon DEF SInv, CallType, FileType, files
  <2>4. Places'
    BY <1>1, <1>3, ZenonT(40) DEF SInv, CallType, Places, files
  <2>5. \A f \in Files : End(f)' = End(f)
    BY <1>1, Zenon DEF End, files
  <2>6. RefExact' /\ Ends' /\ PipeType' /\ Flow'
    BY <1>1, <2>5, RefKept, EndsKept, FlowKept, Zenon DEF files, SInv, Ends
  <2>7. Calls'
    <3>1. "read" \in {"read", "write"} /\ (IF "read" = "write" THEN "w" ELSE "r") = "r"
      OBVIOUS
    <3> QED BY <1>1, <1>3, <2>2, <3>1, CallsBegin, Zenon
  <2> QED BY <2>3, <2>4, <2>6, <2>7, Zenon DEF SInv
<1> QED BY <1>2, <1>3, Zenon DEF sys_read

(* sys_write enters pipewrite, or returns at once (sysfile.c:81-91).       *)
LEMMA sys_writeKeeps ==
  ASSUME SInv, NEW p \in Procs, NEW fd \in Fds, sys_write(p, fd, Message)
  PROVE  SInv'
<1> DEFINE g == ofile[p][fd]
<1>1. /\ UNCHANGED <<pipe, chan, got, killed, files>>
      /\ g # 0 /\ at[p] = "user" /\ call[p] = "none"
  BY Zenon DEF sys_write, User, fileVars, files
<1>2. CASE UNCHANGED <<call, buf>>
  BY <1>1, <1>2, IdleKeeps DEF pipeIdle
<1>3. CASE type[g] = "FD_PIPE" /\ writable[g] /\ call' = [call EXCEPT ![p] = "write"]
             /\ buf' = [buf EXCEPT ![p] = Message]
  <2>1. g \in Files
    BY <1>1, OfileIs, Zenon
  <2>2. End(g) = "w"
    BY <1>3, <2>1, Referred DEF End, SInv
  <2>3. CallType' /\ FileType'
    BY <1>1, <1>3, ShellAssumption, Zenon DEF SInv, CallType, FileType, files
  <2>4. Places'
    BY <1>1, <1>3, ZenonT(40) DEF SInv, CallType, Places, files
  <2>5. \A f \in Files : End(f)' = End(f)
    BY <1>1, Zenon DEF End, files
  <2>6. RefExact' /\ Ends' /\ PipeType' /\ Flow'
    BY <1>1, <2>5, RefKept, EndsKept, FlowKept, Zenon DEF files, SInv, Ends
  <2>7. Calls'
    <3>1. "write" \in {"read", "write"} /\ (IF "write" = "write" THEN "w" ELSE "r") = "w"
      OBVIOUS
    <3> QED BY <1>1, <1>3, <2>2, <3>1, CallsBegin, Zenon
  <2> QED BY <2>3, <2>4, <2>6, <2>7, Zenon DEF SInv
<1> QED BY <1>2, <1>3, Zenon DEF sys_write

(* Steps that only move a process, or start or end one.                    *)
LEMMA MovesKeep ==
  ASSUME SInv, NEW p \in Procs, exitFiles(p) \/ exitClosed(p) \/ closed(p) \/ Reap(p) \/ kill(p)
  PROVE  SInv'
<1>1. UNCHANGED <<pipe, call, buf, ref, type, writable, ofile, rf, wf, ff>>
  BY Zenon DEF exitFiles, exitClosed, closed, Reap, kill, pipeVars, locals, fileVars
<1>2. chan' = chan \/ chan' = [chan EXCEPT ![p] = ""]
  BY Zenon DEF exitFiles, exitClosed, closed, Reap, kill, pipeVars
<1>3. killed' = killed \/ killed' = [killed EXCEPT ![p] = FALSE] \/ killed' = [killed EXCEPT ![p] = TRUE]
  BY Zenon DEF exitFiles, exitClosed, closed, Reap, kill, pipeVars
<1>4. \/ at' = at
      \/ at[p] = "user" /\ call[p] = "none" /\ at' = [at EXCEPT ![p] = "exit"]
      \/ at[p] = "exit" /\ (\A fd \in Fds : ofile[p][fd] = 0) /\ ff[p] = "none"
           /\ at' = [at EXCEPT ![p] = "zombie"]
      \/ at[p] = "close" /\ rf[p] = 0 /\ wf[p] = 0 /\ ff[p] = "none" /\ at' = [at EXCEPT ![p] = "user"]
      \/ at[p] = "zombie" /\ at' = [at EXCEPT ![p] = "unused"]
  BY Zenon DEF exitFiles, exitClosed, closed, Reap, kill, User, Goto, fileVars
<1>5. CallType'
  BY <1>1, <1>2, <1>3, Zenon DEF SInv, CallType
<1>6. FileType'
  BY <1>1, <1>4 DEF SInv, FileType
<1>7. Places'
  <2>1. ASSUME NEW q \in Procs PROVE chan'[q] = chan[q] \/ chan'[q] = ""
    BY <1>2, Zenon DEF SInv, CallType
  <2>3. \A q \in Procs : q # p => at'[q] = at[q]
    BY <1>4 DEF SInv, FileType
  <2>4. \A q \in Procs : chan'[q] = "nwrite" => chan[q] = "nwrite"
    BY <2>1, Zenon
  <2>5. \A q \in Procs : chan'[q] = "nread" => chan[q] = "nread"
    BY <2>1, Zenon
  <2> DEFINE Place(q) ==
    /\ at'[q] \notin {"pipe1", "pipe2", "close"} => rf[q] = 0
    /\ at'[q] \notin {"pipe2", "close"} => wf[q] = 0
    /\ at'[q] \in {"pipe1", "pipe2"} => rf[q] # 0
    /\ at'[q] = "pipe2" => wf[q] # 0 /\ wf[q] # rf[q]
    /\ at'[q] \in {"unused", "zombie"} => \A fd \in Fds : ofile[q][fd] = 0
    /\ ff[q] # "none" => at'[q] \in {"close", "exit"}
    /\ call[q] # "none" => at'[q] = "user"
  <2>6. ASSUME NEW q \in Procs PROVE Place(q)
    <3>1. CASE q # p
      BY <2>3, <3>1, Zenon DEF SInv, Places
    <3>2. CASE q = p /\ at' = at
      BY <3>2, Zenon DEF SInv, Places
    <3>3. CASE q = p /\ at' # at
      BY <1>4, <3>3 DEF SInv, Places, FileType
    <3> QED BY <3>1, <3>2, <3>3, Zenon
  <2> QED BY <1>1, <2>4, <2>5, <2>6, Zenon DEF SInv, Places
<1>8. \A f \in Files : End(f)' = End(f)
  BY <1>1, Zenon DEF End
<1>9. \A q \in Procs : chan'[q] = chan[q] \/ chan'[q] = ""
  BY <1>2, Zenon DEF SInv, CallType
<1>10. RefExact' /\ Ends' /\ Calls' /\ PipeType' /\ Flow'
  BY <1>1, <1>8, <1>9, RefKept, EndsKept, CallsKept, FlowKept, Zenon DEF SInv, Ends
<1> QED BY <1>5, <1>6, <1>7, <1>10, Zenon DEF SInv

(* Nothing refers to a free entry of the table.                            *)
LEMMA FreeUnused ==
  ASSUME SInv, NEW f \in Files, ref[f] = 0
  PROVE  /\ type[f] # "FD_PIPE" /\ End(f) = "none"
         /\ \A q \in Procs : rf[q] # f /\ wf[q] # f /\ \A fd \in Fds : ofile[q][fd] # f
<1>1. FdCount(ofile, f) = 0 /\ LocalCount(rf, f) = 0 /\ LocalCount(wf, f) = 0
  BY RefCounts
<1>2. \A q \in Procs, fd \in Fds : ofile[q][fd] # f
  BY <1>1, FdCountIs, Zenon DEF SInv, FileType, Tables
<1>3. \A q \in Procs : rf[q] # f /\ wf[q] # f
  BY <1>1, LocalCountIs, Zenon DEF SInv, FileType
<1>4. type[f] # "FD_PIPE"
  BY Zenon DEF SInv, Ends
<1> QED BY <1>2, <1>3, <1>4, Zenon DEF End

(* sys_open takes an unused file and an unused descriptor, or neither      *)
(* (sysfile.c:316-331).                                                    *)
LEMMA sys_openKeeps ==
  ASSUME SInv, NEW p \in Procs, sys_open(p)
  PROVE  SInv'
<1>0. UNCHANGED <<pipe, call, chan, buf, got, killed, at, rf, wf, ff>>
        /\ at[p] = "user" /\ call[p] = "none"
  BY Zenon DEF sys_open, User, pipeIdle, locals
<1>1. CASE UNCHANGED <<ref, type, writable, ofile>>
  BY <1>0, <1>1, IdleKeeps, Zenon DEF pipeIdle, files
<1>2. ASSUME NEW g \in Files, NEW fd \in Fds, ref[g] = 0, ofile[p][fd] = 0,
             ref' = [ref EXCEPT ![g] = 1], type' = [type EXCEPT ![g] = "FD_INODE"],
             writable' = [writable EXCEPT ![g] = TRUE],
             ofile' = [ofile EXCEPT ![p][fd] = g]
      PROVE  SInv'
  <2>1. CallType' /\ FileType'
    <3>1. ref' \in [Files -> Nat] /\ writable' \in [Files -> BOOLEAN]
            /\ type' \in [Files -> {"FD_NONE", "FD_INODE", "FD_PIPE"}]
      BY <1>2 DEF SInv, FileType
    <3>2. ofile' \in [Procs -> [Fds -> Files \cup {0}]]
      BY <1>2, SMTT(20) DEF SInv, FileType
    <3> QED BY <1>0, <3>1, <3>2, Zenon DEF SInv, CallType, FileType
  <2>2. Places'
    BY <1>0, <1>2 DEF SInv, Places, FileType
  <2>3. RefExact'
    <3>1. ASSUME NEW f \in Files
          PROVE  ref'[f] = FdCount(ofile', f) + LocalCount(rf', f) + LocalCount(wf', f)
      <4>1. FdCount(ofile', f) = FdCount(ofile, f) + Moved(f, 0, g)
        BY <1>2, FdMoves, ZenonT(40)
      <4>2. ref'[f] = ref[f] + (IF f = g THEN 1 ELSE 0)
        BY <1>2 DEF SInv, FileType
      <4>3. LocalCount(rf', f) = LocalCount(rf, f) /\ LocalCount(wf', f) = LocalCount(wf, f)
        BY <1>0, Zenon
      <4>4. Moved(f, 0, g) = IF f = g THEN 1 ELSE 0
        BY FileNat DEF Moved
      <4> QED BY <4>1, <4>2, <4>3, <4>4, RefCounts, SMTT(20)
    <3> QED BY <3>1, RefMoves, Zenon
  <2>4. \A f \in Files : End(f)' = End(f) /\ (ref'[f] = 0 => type'[f] # "FD_PIPE")
    <3>1. ASSUME NEW f \in Files, f # g
          PROVE  End(f)' = End(f) /\ (ref'[f] = 0 => type'[f] # "FD_PIPE")
      BY <1>2, <3>1 DEF SInv, FileType, End, Ends
    <3>2. End(g) = "none"
      BY <1>2, FreeUnused, Zenon
    <3>3. End(g)' = "none" /\ type'[g] # "FD_PIPE"
      BY <1>2 DEF SInv, FileType, End
    <3> QED BY <3>1, <3>2, <3>3, Zenon
  <2>5. Ends'
    BY <1>0, <2>4, EndsKept, Zenon
  <2>6. \A q \in Procs : call'[q] # "none" => call'[q] = call[q] /\ ofile'[q] = ofile[q]
    BY <1>0, <1>2 DEF SInv, FileType
  <2>7. Calls'
    BY <2>4, <2>6, CallsKept, Zenon
  <2>8. PipeType' /\ Flow'
    BY <1>0, FlowKept, Zenon
  <2> QED BY <2>1, <2>2, <2>3, <2>5, <2>7, <2>8, Zenon DEF SInv
<1> QED BY <1>1, <1>2, Zenon DEF sys_open, Free, FreeFd

(* A file is taken for an end of a pipe to come.                           *)
LEMMA EndsTaken ==
  ASSUME SInv, NEW g \in Files, ref[g] = 0, ref' = [ref EXCEPT ![g] = 1],
         UNCHANGED <<pipe, call, type, writable, ofile, ff>>
  PROVE  Ends' /\ Calls'
<1>1. \A f \in Files : End(f)' = End(f) /\ (ref'[f] = 0 => type'[f] # "FD_PIPE")
  <2>1. ASSUME NEW f \in Files, f # g
        PROVE  End(f)' = End(f) /\ (ref'[f] = 0 => type'[f] # "FD_PIPE")
    BY <2>1 DEF SInv, FileType, End, Ends
  <2>2. End(g) = "none" /\ type[g] # "FD_PIPE"
    BY FreeUnused, Zenon
  <2>3. End(g)' = "none" /\ type'[g] # "FD_PIPE"
    BY <2>2, Zenon DEF End
  <2> QED BY <2>1, <2>2, <2>3, Zenon
<1>2. Ends'
  BY <1>1, EndsKept, Zenon
<1>3. Calls'
  BY <1>1, CallsKept, Zenon
<1> QED BY <1>2, <1>3

(* pipealloc's first filealloc (pipe.c:29).                                *)
LEMMA pipealloc1Keeps ==
  ASSUME SInv, NEW p \in Procs, pipealloc1(p)
  PROVE  SInv'
<1>0. UNCHANGED <<pipe, call, chan, buf, got, killed, type, writable, ofile, wf, ff>>
        /\ at[p] = "user" /\ call[p] = "none"
  BY Zenon DEF pipealloc1, User, pipeIdle
<1>1. CASE UNCHANGED <<ref, rf, at>>
  BY <1>0, <1>1, IdleKeeps, Zenon DEF pipeIdle, files
<1>2. ASSUME NEW g \in Files, ref[g] = 0, ref' = [ref EXCEPT ![g] = 1],
             rf' = [rf EXCEPT ![p] = g], at' = [at EXCEPT ![p] = "pipe1"]
      PROVE  SInv'
  <2>1. CallType' /\ FileType'
    BY <1>0, <1>2, Zenon DEF SInv, CallType, FileType
  <2>2. Places' /\ rf[p] = 0
    BY <1>0, <1>2, FileNat DEF SInv, Places, FileType
  <2>3. RefExact'
    <3>1. ASSUME NEW f \in Files
          PROVE  ref'[f] = FdCount(ofile', f) + LocalCount(rf', f) + LocalCount(wf', f)
      <4>1. LocalCount(rf', f) = LocalCount(rf, f) + Moved(f, 0, g)
        BY <1>2, <2>2, RfMoves, Zenon
      <4>2. ref'[f] = ref[f] + (IF f = g THEN 1 ELSE 0)
        BY <1>2 DEF SInv, FileType
      <4>3. FdCount(ofile', f) = FdCount(ofile, f) /\ LocalCount(wf', f) = LocalCount(wf, f)
        BY <1>0, Zenon
      <4>4. Moved(f, 0, g) = IF f = g THEN 1 ELSE 0
        BY FileNat DEF Moved
      <4> QED BY <4>1, <4>2, <4>3, <4>4, RefCounts, SMTT(20)
    <3> QED BY <3>1, RefMoves, Zenon
  <2>4. Ends' /\ Calls'
    BY <1>0, <1>2, EndsTaken, Zenon
  <2>5. PipeType' /\ Flow'
    BY <1>0, FlowKept, Zenon
  <2> QED BY <2>1, <2>2, <2>3, <2>4, <2>5, Zenon DEF SInv
<1> QED BY <1>1, <1>2, Zenon DEF pipealloc1, Free, Goto

(* pipealloc's second filealloc, or the way to bad (pipe.c:29-30).         *)
LEMMA pipealloc2Keeps ==
  ASSUME SInv, NEW p \in Procs, pipealloc2(p)
  PROVE  SInv'
<1>0. UNCHANGED <<pipe, call, chan, buf, got, killed, type, writable, ofile, rf, ff>>
        /\ at[p] = "pipe1"
  BY Zenon DEF pipealloc2, pipeIdle
<1>1. wf[p] = 0 /\ rf[p] # 0 /\ rf[p] \in Files /\ call[p] = "none" /\ ff[p] = "none"
  BY <1>0 DEF SInv, Places, FileType
<1>2. PipeType' /\ Flow'
  BY <1>0, FlowKept, Zenon
<1>3. CASE at' = [at EXCEPT ![p] = "close"] /\ UNCHANGED <<ref, wf>>
  <2>1. CallType' /\ FileType'
    BY <1>0, <1>3, Zenon DEF SInv, CallType, FileType
  <2>2. Places'
    BY <1>0, <1>1, <1>3 DEF SInv, Places, FileType
  <2>3. \A f \in Files : End(f)' = End(f)
    BY <1>0, <1>3, Zenon DEF End
  <2>4. RefExact' /\ Ends' /\ Calls'
    BY <1>0, <1>3, <2>3, RefKept, EndsKept, CallsKept, Zenon DEF SInv, Ends
  <2> QED BY <1>2, <2>1, <2>2, <2>4, Zenon DEF SInv
<1>4. ASSUME NEW g \in Files, ref[g] = 0, ref' = [ref EXCEPT ![g] = 1],
             wf' = [wf EXCEPT ![p] = g], at' = [at EXCEPT ![p] = "pipe2"]
      PROVE  SInv'
  <2>1. CallType' /\ FileType'
    BY <1>0, <1>4, Zenon DEF SInv, CallType, FileType
  <2>2. rf[p] # g
    BY <1>4, FreeUnused, Zenon
  <2>3. Places'
    BY <1>0, <1>1, <1>4, <2>2, FileNat, SMTT(20) DEF SInv, Places, FileType
  <2>4. RefExact'
    <3>1. ASSUME NEW f \in Files
          PROVE  ref'[f] = FdCount(ofile', f) + LocalCount(rf', f) + LocalCount(wf', f)
      <4>1. LocalCount(wf', f) = LocalCount(wf, f) + Moved(f, 0, g)
        BY <1>1, <1>4, WfMoves, Zenon
      <4>2. ref'[f] = ref[f] + (IF f = g THEN 1 ELSE 0)
        BY <1>4 DEF SInv, FileType
      <4>3. FdCount(ofile', f) = FdCount(ofile, f) /\ LocalCount(rf', f) = LocalCount(rf, f)
        BY <1>0, Zenon
      <4>4. Moved(f, 0, g) = IF f = g THEN 1 ELSE 0
        BY FileNat DEF Moved
      <4> QED BY <4>1, <4>2, <4>3, <4>4, RefCounts, SMTT(20)
    <3> QED BY <3>1, RefMoves, Zenon
  <2>5. Ends' /\ Calls'
    BY <1>0, <1>4, EndsTaken, Zenon
  <2> QED BY <1>2, <2>1, <2>3, <2>4, <2>5, Zenon DEF SInv
<1> QED BY <1>3, <1>4, Zenon DEF pipealloc2, Free, Goto, GiveBack

(* fork copies the descriptors and counts each of them (proc.c:207-211).   *)
LEMMA forkFilesKeeps ==
  ASSUME SInv, NEW p \in Procs, NEW q \in Procs, forkFiles(p, q)
  PROVE  SInv'
<1>0. /\ UNCHANGED <<pipe, call, chan, buf, got, type, writable, rf, wf, ff>>
      /\ at[p] = "user" /\ at[q] = "unused" /\ ofile' = [ofile EXCEPT ![q] = ofile[p]]
      /\ at' = [at EXCEPT ![q] = "user"] /\ killed' = [killed EXCEPT ![q] = FALSE]
      /\ ref' = [f \in Files |-> ref[f] + Uses(ofile[p], f)]
  BY Zenon DEF forkFiles, User, Goto
<1>1. ofile \in Tables /\ \A fd \in Fds : ofile[q][fd] = 0
  BY <1>0, Zenon DEF SInv, FileType, Tables, Places
<1>2. ASSUME NEW f \in Files
      PROVE  /\ FdCount(ofile', f) = FdCount(ofile, f) + Uses(ofile[p], f)
             /\ FdCount(ofile, f) \in Nat /\ Uses(ofile[p], f) \in Nat
             /\ Uses(ofile[p], f) > 0 => FdCount(ofile, f) > 0
             /\ ref'[f] = ref[f] + Uses(ofile[p], f)
  <2>1. ref'[f] = ref[f] + Uses(ofile[p], f)
    BY <1>0, Zenon
  <2> QED BY <1>0, <1>1, <2>1, FdCountFork, Zenon
<1>3. CallType' /\ FileType'
  <2>1. ref' \in [Files -> Nat]
    BY <1>0, <1>2 DEF SInv, FileType
  <2>2. ofile' \in [Procs -> [Fds -> Files \cup {0}]]
    BY <1>0 DEF SInv, FileType
  <2>3. at' \in [Procs -> {"init", "unused", "user", "pipe1", "pipe2", "close", "exit", "zombie"}]
          /\ killed' \in [Procs -> BOOLEAN]
    BY <1>0, Zenon DEF SInv, FileType, CallType
  <2> QED BY <1>0, <2>1, <2>2, <2>3, Zenon DEF SInv, CallType, FileType
<1>4. Places'
  BY <1>0 DEF SInv, Places, FileType
<1>5. RefExact'
  <2>1. ASSUME NEW f \in Files
        PROVE  ref'[f] = FdCount(ofile', f) + LocalCount(rf', f) + LocalCount(wf', f)
    <3>1. LocalCount(rf', f) = LocalCount(rf, f) /\ LocalCount(wf', f) = LocalCount(wf, f)
      BY <1>0, Zenon
    <3> QED BY <1>2, <3>1, RefCounts
  <2> QED BY <2>1, RefMoves, Zenon
<1>6. \A f \in Files : End(f)' = End(f) /\ (ref'[f] = 0 => type'[f] # "FD_PIPE")
  <2>1. ASSUME NEW f \in Files
        PROVE  (ref'[f] > 0 <=> ref[f] > 0) /\ (ref'[f] = 0 => ref[f] = 0)
    BY <1>2, RefCounts
  <2> QED BY <1>0, <2>1, Zenon DEF End, SInv, Ends
<1>7. Ends'
  BY <1>0, <1>6, EndsKept, Zenon
<1>8. \A r \in Procs : call'[r] # "none" => call'[r] = call[r] /\ ofile'[r] = ofile[r]
  BY <1>0 DEF SInv, FileType, Places
<1>9. Calls'
  BY <1>6, <1>8, CallsKept, Zenon
<1>10. PipeType' /\ Flow'
  BY <1>0, FlowKept, Zenon
<1> QED BY <1>3, <1>4, <1>5, <1>7, <1>9, <1>10, Zenon DEF SInv

----------------------------------------------------------------------------
(* fileclose: a count goes down, and with the last one an end of the pipe  *)
(* passes from the file to the pipeclose to come.                          *)

Closes(p, g) ==
  /\ g \in Files /\ ref[g] > 0 /\ ff[p] = "none" /\ fileclose(p, g)
  /\ UNCHANGED <<pipe, call, chan, buf, killed, writable, at>>

(* fileclose keeps the types, counts one file down and touches one         *)
(* process's ff.                                                           *)
LEMMA ClosesTypes ==
  ASSUME SInv, NEW p \in Procs, NEW g, Closes(p, g)
  PROVE  /\ ref' \in [Files -> Nat] /\ ff' \in [Procs -> {"none", "r", "w"}]
         /\ type' \in [Files -> {"FD_NONE", "FD_INODE", "FD_PIPE"}]
         /\ \A q \in Procs : q # p => ff'[q] = ff[q]
         /\ \A f \in Files : ref'[f] = ref[f] + (IF f = g THEN -1 ELSE 0)
<1> USE DEF Closes, fileclose, SInv, FileType
<1>1. ref' \in [Files -> Nat]
  OBVIOUS
<1>2. ff' \in [Procs -> {"none", "r", "w"}]
  OBVIOUS
<1>3. type' \in [Files -> {"FD_NONE", "FD_INODE", "FD_PIPE"}]
  OBVIOUS
<1>4. \A q \in Procs : q # p => ff'[q] = ff[q]
  OBVIOUS
<1>5. \A f \in Files : ref'[f] = ref[f] + (IF f = g THEN -1 ELSE 0)
  OBVIOUS
<1> QED BY <1>1, <1>2, <1>3, <1>4, <1>5, Zenon

(* fileclose changes the end of no file but the one it closes, and leaves  *)
(* the end of that one, with its last reference, to ff (file.c:61-71).     *)
LEMMA ClosesOne ==
  ASSUME SInv, NEW p \in Procs, NEW g, Closes(p, g)
  PROVE  /\ \A f \in Files : f # g \/ ref[g] > 1 => End(f)' = End(f)
         /\ \A f \in Files : ref'[f] = 0 => type'[f] # "FD_PIPE"
         /\ IF ref[g] > 1 THEN ff' = ff ELSE End(g)' = "none" /\ ff'[p] = End(g)
<1> USE DEF Closes, fileclose
<1>1. ref \in [Files -> Nat] /\ type \in [Files -> {"FD_NONE", "FD_INODE", "FD_PIPE"}]
        /\ ff \in [Procs -> {"none", "r", "w"}] /\ g \in Files
  BY Zenon DEF SInv, FileType
<1>2. CASE ref[g] > 1
  <2>1. ff' = ff /\ type' = type
    BY <1>1, <1>2
  <2>2. ref'[g] > 0 /\ \A f \in Files : f # g => ref'[f] = ref[f]
    BY <1>1, <1>2
  <2>3. \A f \in Files : End(f)' = End(f)
    BY <1>1, <1>2, <2>1, <2>2 DEF End
  <2>4. \A f \in Files : ref'[f] = 0 => ref[f] = 0
    BY <1>1, <2>2
  <2> QED BY <1>2, <2>1, <2>3, <2>4, Zenon DEF SInv, Ends
<1>3. CASE ~(ref[g] > 1)
  <2>1. ref'[g] = 0 /\ type'[g] = "FD_NONE"
    BY <1>1, <1>3
  <2>2. \A f \in Files : f # g => ref'[f] = ref[f] /\ type'[f] = type[f]
    BY <1>1
  <2>3. End(g)' = "none" /\ \A f \in Files : f # g => End(f)' = End(f)
    BY <2>1, <2>2, Zenon DEF End
  <2>4. ff'[p] = End(g)
    BY <1>1, <1>3 DEF End
  <2>5. \A f \in Files : ref'[f] = 0 => type'[f] # "FD_PIPE"
    BY <2>1, <2>2 DEF SInv, Ends
  <2> QED BY <1>3, <2>3, <2>4, <2>5, Zenon
<1> QED BY <1>2, <1>3, Zenon

(* fileclose keeps an end open until its pipeclose (file.c:71).            *)
LEMMA ClosesEnds ==
  ASSUME SInv, NEW p \in Procs, NEW g, Closes(p, g)
  PROVE  Ends'
<1>1. CASE ref[g] > 1
  <2>1. UNCHANGED <<pipe, ff>>
    BY <1>1, ClosesOne, Zenon DEF Closes
  <2> QED BY <1>1, <2>1, ClosesOne, EndsKept, Zenon
<1>2. CASE ~(ref[g] > 1)
  <2>1. /\ \A f \in Files : f # g => End(f)' = End(f)
        /\ End(g)' = "none" /\ ff'[p] = End(g) /\ ff[p] = "none" /\ g \in Files
        /\ \A q \in Procs : q # p => ff'[q] = ff[q]
    BY <1>2, ClosesOne, ClosesTypes, Zenon DEF Closes
  <2>2. pipe' = pipe /\ \A e \in {"r", "w"} : e # "none" /\ IsOpen(e)' = IsOpen(e)
    BY Zenon DEF Closes, IsOpen
  <2>3. ASSUME NEW e \in {"r", "w"}
        PROVE  IsOpen(e)' <=> (\E f \in Files : End(f)' = e) \/ (\E q \in Procs : ff'[q] = e)
    <3>1. IsOpen(e) <=> (\E f \in Files : End(f) = e) \/ (\E q \in Procs : ff[q] = e)
      BY Zenon DEF SInv, Ends
    <3> QED BY <2>1, <2>2, <3>1, Zenon
  <2>4. ASSUME NEW e \in {"r", "w"}
        PROVE  \A f, h \in Files : End(f)' = e /\ End(h)' = e => f = h
    <3>1. \A f, h \in Files : End(f) = e /\ End(h) = e => f = h
      BY Zenon DEF SInv, Ends
    <3> QED BY <2>1, <2>2, <3>1, Zenon
  <2>5. ASSUME NEW e \in {"r", "w"}
        PROVE  \A q, r \in Procs : ff'[q] = e /\ ff'[r] = e => q = r
    <3>1. \A q, r \in Procs : ff[q] = e /\ ff[r] = e => q = r
      BY Zenon DEF SInv, Ends
    <3>2. \A q \in Procs : ~(End(g) = e /\ ff[q] = e)
      BY <2>1, Zenon DEF SInv, Ends
    <3> QED BY <2>1, <2>2, <3>1, <3>2, Zenon
  <2>6. ASSUME NEW e \in {"r", "w"}
        PROVE  \A f \in Files, q \in Procs : ~(End(f)' = e /\ ff'[q] = e)
    <3>1. \A f, h \in Files : End(f) = e /\ End(h) = e => f = h
      BY Zenon DEF SInv, Ends
    <3>2. \A f \in Files, q \in Procs : ~(End(f) = e /\ ff[q] = e)
      BY Zenon DEF SInv, Ends
    <3> QED BY <2>1, <2>2, <3>1, <3>2, Zenon
  <2>7. \A f \in Files : ref'[f] = 0 => type'[f] # "FD_PIPE"
    BY ClosesOne, Zenon
  <2>8. (IF pipe.readopen \/ pipe.writeopen THEN pipe.alloc ELSE pipe = NoPipe)'
    BY <2>2, Zenon DEF SInv, Ends, NoPipe
  <2> QED BY <2>3, <2>4, <2>5, <2>6, <2>7, <2>8, Zenon DEF Ends
<1> QED BY <1>1, <1>2, Zenon

(* fileclose of one process leaves the ends of the processes in pipe       *)
(* calls.                                                                  *)
LEMMA ClosesCalls ==
  ASSUME SInv, NEW p \in Procs, NEW g, Closes(p, g), FileType', RefExact',
         \A q \in Procs : call[q] # "none" => ofile'[q] = ofile[q]
  PROVE  Calls'
<1>1. call' = call /\ ref \in [Files -> Nat]
  BY Zenon DEF Closes, SInv, FileType
<1>2. ASSUME NEW f \in Files, NEW q \in Procs, NEW fd \in Fds, call'[q] # "none",
             ofile[q][fd] = f
      PROVE  End(f)' = End(f)
  <2>1. CASE f # g
    BY <2>1, ClosesOne, Zenon
  <2>2. CASE f = g
    <3>1. ofile'[q][fd] = g /\ g \in Files
      BY <1>1, <1>2, <2>2, Zenon
    <3>2. ref'[g] > 0
      BY <3>1, ReferredAfter, Zenon
    <3>3. ref[g] > 1
      BY <1>1, <3>1, <3>2, ClosesTypes
    <3> QED BY <3>3, ClosesOne, Zenon
  <2> QED BY <2>1, <2>2, Zenon
<1> QED BY <1>1, <1>2, CallsKept, Zenon

(* sys_close and the failures of sys_pipe close what their locals hold.    *)
LEMMA closeLocalKeeps ==
  ASSUME SInv, NEW p \in Procs, closeLocal(p)
  PROVE  SInv'
<1>0. /\ UNCHANGED <<pipe, call, chan, buf, killed, writable, ofile, at>>
      /\ at[p] = "close" /\ ff[p] = "none"
  BY Zenon DEF closeLocal, pipeVars
<1>1. PICK g \in Files :
        /\ Closes(p, g)
        /\ \/ rf[p] = g /\ rf' = [rf EXCEPT ![p] = 0] /\ wf' = wf
           \/ wf[p] = g /\ wf' = [wf EXCEPT ![p] = 0] /\ rf' = rf
  <2>1. ASSUME rf[p] # 0, fileclose(p, rf[p]), rf' = [rf EXCEPT ![p] = 0], wf' = wf
        PROVE  rf[p] \in Files /\ Closes(p, rf[p])
    <3>1. rf[p] \in Files
      BY <2>1 DEF SInv, FileType
    <3>2. ref[rf[p]] > 0
      BY <3>1, Referred, Zenon DEF SInv
    <3> QED BY <1>0, <2>1, <3>1, <3>2, Zenon DEF Closes
  <2>2. ASSUME wf[p] # 0, fileclose(p, wf[p]), wf' = [wf EXCEPT ![p] = 0], rf' = rf
        PROVE  wf[p] \in Files /\ Closes(p, wf[p])
    <3>1. wf[p] \in Files
      BY <2>2 DEF SInv, FileType
    <3>2. ref[wf[p]] > 0
      BY <3>1, Referred, Zenon DEF SInv
    <3> QED BY <1>0, <2>2, <3>1, <3>2, Zenon DEF Closes
  <2> QED BY <2>1, <2>2, Zenon DEF closeLocal
<1>2. CallType' /\ FileType'
  <2>1. rf' \in [Procs -> Files \cup {0}] /\ wf' \in [Procs -> Files \cup {0}]
    BY <1>1, Zenon DEF SInv, FileType
  <2>2. CallType'
    BY <1>0, Zenon DEF SInv, CallType
  <2> QED BY <1>0, <1>1, <2>1, <2>2, ClosesTypes, Zenon DEF SInv, FileType
<1>3. Places'
  <2>1. \A q \in Procs : q # p => ff'[q] = ff[q]
    BY <1>1, ClosesTypes, Zenon
  <2>2. \A q \in Procs : q # p => rf'[q] = rf[q] /\ wf'[q] = wf[q]
    BY <1>1 DEF SInv, FileType
  <2>3. /\ at[p] \notin {"unused", "zombie"} /\ at[p] \notin {"pipe1", "pipe2"} /\ at[p] # "pipe2"
        /\ at[p] \in {"pipe2", "close"} /\ at[p] \in {"pipe1", "pipe2", "close"}
        /\ at[p] \in {"close", "exit"} /\ at[p] # "user"
    BY <1>0
  <2> QED BY <1>0, <2>1, <2>2, <2>3, ZenonT(40) DEF SInv, Places
<1>4. RefExact'
  <2>1. ASSUME NEW f \in Files
        PROVE  ref'[f] = FdCount(ofile', f) + LocalCount(rf', f) + LocalCount(wf', f)
    <3>1. ref'[f] = ref[f] + (IF f = g THEN -1 ELSE 0) /\ FdCount(ofile', f) = FdCount(ofile, f)
      BY <1>0, <1>1, ClosesTypes, Zenon
    <3>2. Moved(f, g, 0) = IF f = g THEN -1 ELSE 0
      BY FileNat DEF Moved
    <3>3. CASE rf[p] = g /\ rf' = [rf EXCEPT ![p] = 0] /\ wf' = wf
      <4>1. LocalCount(rf', f) = LocalCount(rf, f) + Moved(f, g, 0)
        BY <3>3, RfMoves, Zenon
      <4>2. LocalCount(wf', f) = LocalCount(wf, f)
        BY <3>3, Zenon
      <4> QED BY <3>1, <3>2, <4>1, <4>2, RefCounts
    <3>4. CASE wf[p] = g /\ wf' = [wf EXCEPT ![p] = 0] /\ rf' = rf
      <4>1. LocalCount(wf', f) = LocalCount(wf, f) + Moved(f, g, 0)
        BY <3>4, WfMoves, Zenon
      <4>2. LocalCount(rf', f) = LocalCount(rf, f)
        BY <3>4, Zenon
      <4> QED BY <3>1, <3>2, <4>1, <4>2, RefCounts
    <3> QED BY <1>1, <3>3, <3>4, Zenon
  <2> QED BY <2>1, RefMoves, Zenon
<1>5. Ends' /\ Calls'
  BY <1>0, <1>1, <1>2, <1>4, ClosesEnds, ClosesCalls, Zenon
<1>6. PipeType' /\ Flow'
  BY <1>0, FlowKept, Zenon
<1> QED BY <1>2, <1>3, <1>4, <1>5, <1>6, Zenon DEF SInv

(* Places, when only descriptors and unfinished closes change.             *)
LEMMA PlacesClosing ==
  ASSUME SInv, UNCHANGED <<call, chan, buf, at, rf, wf>>,
         \A q \in Procs : at[q] \in {"unused", "zombie"} => \A d \in Fds : ofile'[q][d] = 0,
         \A q \in Procs : ff'[q] # "none" => at[q] \in {"close", "exit"}
  PROVE  Places'
<1>1. /\ call' = call /\ chan' = chan /\ buf' = buf
      /\ at' = at /\ rf' = rf /\ wf' = wf
  OBVIOUS
<1> QED BY <1>1, Zenon DEF SInv, Places

(* exit closes its next descriptor (proc.c:250-256).                       *)
LEMMA exitCloseKeeps ==
  ASSUME SInv, NEW p \in Procs, exitClose(p)
  PROVE  SInv'
<1>0. /\ UNCHANGED <<pipe, call, chan, buf, killed, writable, at, rf, wf>>
      /\ at[p] = "exit" /\ ff[p] = "none"
  BY Zenon DEF exitClose, pipeVars
<1>1. PICK fd \in Fds : /\ ofile[p][fd] # 0 /\ fileclose(p, ofile[p][fd])
                        /\ ofile' = [ofile EXCEPT ![p][fd] = 0]
  BY Zenon DEF exitClose
<1> DEFINE g == ofile[p][fd]
<1>2. g \in Files
  BY <1>1, OfileIs, Zenon
<1>3. Closes(p, g)
  <2>1. ref[g] > 0
    BY <1>2, Referred, Zenon DEF SInv
  <2> QED BY <1>0, <1>1, <1>2, <2>1, Zenon DEF Closes
<1>4. CallType' /\ FileType'
  <2>1. ofile' \in [Procs -> [Fds -> Files \cup {0}]]
    BY <1>1 DEF SInv, FileType
  <2>2. CallType'
    BY <1>0, Zenon DEF SInv, CallType
  <2> QED BY <1>0, <1>3, <2>1, <2>2, ClosesTypes, Zenon DEF SInv, FileType
<1>5. Places'
  <2>1. \A q \in Procs : q # p => ff'[q] = ff[q]
    BY <1>3, ClosesTypes, Zenon
  <2>2. \A q \in Procs : q # p => ofile'[q] = ofile[q]
    BY <1>1 DEF SInv, FileType
  <2>3. at[p] \notin {"unused", "zombie"} /\ at[p] \in {"close", "exit"}
    BY <1>0
  <2>4. \A q \in Procs : at[q] \in {"unused", "zombie"} => \A d \in Fds : ofile'[q][d] = 0
    <3>1. ASSUME NEW q \in Procs, at[q] \in {"unused", "zombie"}, NEW d \in Fds
          PROVE  ofile'[q][d] = 0
      <4>1. ofile[q][d] = 0
        BY <3>1, Zenon DEF SInv, Places
      <4>2. q # p
        BY <2>3, <3>1, Zenon
      <4> QED BY <2>2, <4>1, <4>2, Zenon
    <3> QED BY <3>1, Zenon
  <2>5. \A q \in Procs : ff'[q] # "none" => at[q] \in {"close", "exit"}
    <3>1. \A q \in Procs : ff[q] # "none" => at[q] \in {"close", "exit"}
      BY Zenon DEF SInv, Places
    <3> QED BY <2>1, <2>3, <3>1, Zenon
  <2>6. UNCHANGED <<call, chan, buf, at, rf, wf>>
    BY <1>0, Zenon
  <2> QED BY <2>4, <2>5, <2>6, PlacesClosing, Zenon
<1>6. RefExact'
  <2>1. ASSUME NEW f \in Files
        PROVE  ref'[f] = FdCount(ofile', f) + LocalCount(rf', f) + LocalCount(wf', f)
    <3>1. ref'[f] = ref[f] + (IF f = g THEN -1 ELSE 0)
      BY <1>3, ClosesTypes, Zenon
    <3>2. Moved(f, g, 0) = IF f = g THEN -1 ELSE 0
      BY FileNat DEF Moved
    <3>3. FdCount(ofile', f) = FdCount(ofile, f) + Moved(f, g, 0)
      BY <1>1, FdMoves, Zenon
    <3>4. LocalCount(rf', f) = LocalCount(rf, f) /\ LocalCount(wf', f) = LocalCount(wf, f)
      BY <1>0, Zenon
    <3> QED BY <3>1, <3>2, <3>3, <3>4, RefCounts
  <2> QED BY <2>1, RefMoves, Zenon
<1>7. \A q \in Procs : call[q] # "none" => ofile'[q] = ofile[q]
  BY <1>0, <1>1 DEF SInv, FileType, Places
<1>8. Ends' /\ Calls'
  BY <1>3, <1>4, <1>6, <1>7, ClosesEnds, ClosesCalls, Zenon
<1>9. PipeType' /\ Flow'
  BY <1>0, FlowKept, Zenon
<1> QED BY <1>4, <1>5, <1>6, <1>8, <1>9, Zenon DEF SInv

----------------------------------------------------------------------------
(* pipeclose: whoever slept for the end that goes is woken, and nobody     *)
(* sleeps at the end whose file is gone.                                   *)
LEMMA pipecloseWakes ==
  ASSUME SInv, NEW p \in Procs, pipeclose(p), NEW q \in Procs
  PROVE  chan'[q] = ""
<1>1. /\ chan' = [r \in Procs |-> IF chan[r] = (IF ff[p] = "w" THEN "nread" ELSE "nwrite")
                                    THEN "" ELSE chan[r]]
      /\ ff[p] \in {"r", "w"} /\ chan[q] \in {"", "nread", "nwrite"}
  BY Zenon DEF pipeclose, wakeup, SInv, FileType, CallType
<1>2. chan[q] = "nwrite" => ff[p] # "w"
  BY CallOpen, Zenon DEF SInv, Places
<1>3. chan[q] = "nread" => ff[p] # "r"
  BY CallOpen, Zenon DEF SInv, Places
<1> QED BY <1>1, <1>2, <1>3, Zenon

(* A freed pipe and a new one are empty; a freed one has no open end, a    *)
(* new one has two.                                                        *)
LEMMA NoPipeIs ==
  /\ NoPipe \in Pipes /\ UsedOf(NoPipe) = 0 /\ ContentsOf(NoPipe) = <<>>
  /\ pipeNew \in Pipes /\ UsedOf(pipeNew) = 0 /\ ContentsOf(pipeNew) = <<>>
  /\ ~NoPipe.readopen /\ ~NoPipe.writeopen /\ ~NoPipe.alloc
  /\ pipeNew.readopen /\ pipeNew.writeopen /\ pipeNew.alloc
<1>1. NoPipe \in Pipes
  BY PipeNat DEF Pipes, NoPipe
<1>2. pipeNew \in Pipes
  BY <1>1, Zenon DEF Pipes, pipeNew
<1>3. /\ NoPipe.nread = 0 /\ NoPipe.nwrite = 0
      /\ ~NoPipe.readopen /\ ~NoPipe.writeopen /\ ~NoPipe.alloc
  BY DEF NoPipe
<1>4. /\ pipeNew.nread = 0 /\ pipeNew.nwrite = 0
      /\ pipeNew.readopen /\ pipeNew.writeopen /\ pipeNew.alloc
  BY DEF NoPipe, pipeNew
<1>5. ASSUME NEW x \in Pipes, x.nread = 0, x.nwrite = 0
      PROVE  UsedOf(x) = 0 /\ ContentsOf(x) = <<>>
  <2>1. UsedOf(x) = 0
    BY <1>5, UsedIs, PipeNat
  <2>2. ContentsOf(x) \in Seq(Bytes \cup {0}) /\ Len(ContentsOf(x)) = 0
    BY <2>1, ContentsIs, PipeNat
  <2> QED BY <2>1, <2>2, SeqEmpty
<1> QED BY <1>1, <1>2, <1>3, <1>4, <1>5, Zenon

(* The page after pipeclose.                                               *)
LEMMA pipeclosedIs ==
  ASSUME PipeType, NEW w \in BOOLEAN, pipe' = pipeclosed(w),
         IF pipe.readopen \/ pipe.writeopen THEN pipe.alloc ELSE pipe = NoPipe
  PROVE  /\ PipeType' /\ (Used' = Used \/ Used' = 0) /\ pipe'.quit \in BOOLEAN
         /\ IF w THEN ~pipe'.writeopen /\ pipe'.readopen = pipe.readopen
                 ELSE ~pipe'.readopen /\ pipe'.writeopen = pipe.writeopen
         /\ IF pipe'.readopen \/ pipe'.writeopen THEN pipe'.alloc ELSE pipe' = NoPipe
         /\ IF pipe'.readopen \/ pipe'.writeopen THEN Contents' = Contents ELSE Contents' = <<>>
<1> DEFINE q == IF w THEN [pipe EXCEPT !.writeopen = FALSE] ELSE [pipe EXCEPT !.readopen = FALSE]
<1>1. /\ q \in Pipes /\ q.nread = pipe.nread /\ q.nwrite = pipe.nwrite /\ q.data = pipe.data
      /\ q.alloc = pipe.alloc
      /\ IF w THEN ~q.writeopen /\ q.readopen = pipe.readopen
              ELSE ~q.readopen /\ q.writeopen = pipe.writeopen
  BY Zenon DEF PipeType, Pipes
<1>2. UsedOf(q) = Used /\ ContentsOf(q) = Contents
  <2> HIDE DEF q
  <2>1. UsedOf(q) = UsedOf(pipe)
    BY <1>1, Zenon DEF UsedOf
  <2>2. ContentsOf(q) = ContentsOf(pipe)
    BY <1>1, <2>1, Zenon DEF ContentsOf
  <2> QED BY <2>1, <2>2, OfPipe, Zenon
<1>3. pipe' = IF q.readopen \/ q.writeopen THEN q ELSE NoPipe
  BY Zenon DEF pipeclosed
<1> HIDE DEF q
<1>4. CASE q.readopen \/ q.writeopen
  <2>1. pipe' = q
    BY <1>3, <1>4, Zenon
  <2>2. q.quit \in BOOLEAN
    BY <1>1 DEF Pipes
  <2> QED BY <1>1, <1>2, <1>4, <2>1, <2>2, OfPipe DEF PipeType
<1>5. CASE ~(q.readopen \/ q.writeopen)
  <2>1. pipe' = NoPipe
    BY <1>3, <1>5, Zenon
  <2>2. NoPipe.quit \in BOOLEAN
    BY DEF NoPipe
  <2>3. pipe.readopen \in BOOLEAN /\ pipe.writeopen \in BOOLEAN
    BY DEF PipeType, Pipes
  <2>4. IF w THEN pipe'.readopen = pipe.readopen ELSE pipe'.writeopen = pipe.writeopen
    <3>1. NoPipe.readopen = FALSE /\ NoPipe.writeopen = FALSE
      BY DEF NoPipe
    <3>2. w => pipe.readopen = FALSE
      BY <1>1, <1>5, <2>3
    <3>3. ~w => pipe.writeopen = FALSE
      BY <1>1, <1>5, <2>3
    <3> QED BY <2>1, <3>1, <3>2, <3>3, Zenon
  <2> QED BY <2>1, <2>2, <2>4, NoPipeIs, OfPipe, Zenon DEF PipeType
<1> QED BY <1>4, <1>5, Zenon

(* pipeclose shuts an end that no file has any more and wakes the other    *)
(* side (pipe.c:58-74).                                                    *)
LEMMA pipecloseKeeps ==
  ASSUME SInv, NEW p \in Procs, pipeclose(p)
  PROVE  SInv'
<1>0. /\ UNCHANGED <<call, buf, killed, ref, type, writable, ofile, at, rf, wf>>
      /\ ff[p] # "none" /\ pipe' = pipeclosed(ff[p] = "w") /\ ff' = [ff EXCEPT ![p] = "none"]
  BY Zenon DEF pipeclose
<1>1. \A q \in Procs : chan'[q] = ""
  BY pipecloseWakes, Zenon
<1>2. /\ PipeType' /\ (Used' = Used \/ Used' = 0)
      /\ IF ff[p] = "w" THEN ~pipe'.writeopen /\ pipe'.readopen = pipe.readopen
                        ELSE ~pipe'.readopen /\ pipe'.writeopen = pipe.writeopen
      /\ IF pipe'.readopen \/ pipe'.writeopen THEN pipe'.alloc ELSE pipe' = NoPipe
  <2>1. (ff[p] = "w") \in BOOLEAN
    OBVIOUS
  <2> QED BY <1>0, <2>1, pipeclosedIs, Zenon DEF SInv, Ends
<1>3. CallType' /\ FileType'
  <2>1. chan' \in [Procs -> {"", "nread", "nwrite"}]
    BY Zenon DEF pipeclose, wakeup, SInv, CallType
  <2>2. ff' \in [Procs -> {"none", "r", "w"}]
    BY <1>0 DEF SInv, FileType
  <2> QED BY <1>0, <2>1, <2>2, Zenon DEF SInv, CallType, FileType
<1>4. ff'[p] = "none" /\ \A q \in Procs : q # p => ff'[q] = ff[q]
  BY <1>0 DEF SInv, FileType
<1>5. Places'
  <2>1. "" # "nread" /\ "" # "nwrite"
    OBVIOUS
  <2> QED BY <1>0, <1>1, <1>4, <2>1, ZenonT(40) DEF SInv, Places
<1>6. RefExact'
  BY <1>0, RefKept, Zenon
<1>7. \A f \in Files : End(f)' = End(f)
  BY <1>0, Zenon DEF End
<1>8. Calls'
  BY <1>0, <1>7, CallsKept, Zenon
<1>9. Ends'
  <2>1. ff[p] \in {"r", "w"}
    BY <1>0 DEF SInv, FileType
  <2>2. ASSUME NEW e \in {"r", "w"}
        PROVE  /\ e = ff[p] => ~IsOpen(e)'
               /\ e # ff[p] => IsOpen(e)' = IsOpen(e)
               /\ e # "none"
    BY <1>2, <2>1 DEF IsOpen
  <2>3. ASSUME NEW e \in {"r", "w"}
        PROVE  IsOpen(e)' <=> (\E f \in Files : End(f)' = e) \/ (\E q \in Procs : ff'[q] = e)
    <3>1. /\ IsOpen(e) <=> (\E f \in Files : End(f) = e) \/ (\E q \in Procs : ff[q] = e)
          /\ \A q, r \in Procs : ff[q] = e /\ ff[r] = e => q = r
          /\ \A f \in Files, q \in Procs : ~(End(f) = e /\ ff[q] = e)
      BY Zenon DEF SInv, Ends
    <3>2. CASE e = ff[p]
      BY <1>4, <1>7, <2>2, <3>1, <3>2, Zenon
    <3>3. CASE e # ff[p]
      BY <1>4, <1>7, <2>2, <3>1, <3>3, Zenon
    <3> QED BY <3>2, <3>3, Zenon
  <2>4. ASSUME NEW e \in {"r", "w"}
        PROVE  /\ \A f, h \in Files : End(f)' = e /\ End(h)' = e => f = h
               /\ \A q, r \in Procs : ff'[q] = e /\ ff'[r] = e => q = r
               /\ \A f \in Files, q \in Procs : ~(End(f)' = e /\ ff'[q] = e)
    <3>1. /\ \A f, h \in Files : End(f) = e /\ End(h) = e => f = h
          /\ \A q, r \in Procs : ff[q] = e /\ ff[r] = e => q = r
          /\ \A f \in Files, q \in Procs : ~(End(f) = e /\ ff[q] = e)
      BY Zenon DEF SInv, Ends
    <3> QED BY <1>4, <1>7, <2>2, <3>1, Zenon
  <2>5. \A f \in Files : ref'[f] = 0 => type'[f] # "FD_PIPE"
    BY <1>0, Zenon DEF SInv, Ends
  <2>6. (IF pipe.readopen \/ pipe.writeopen THEN pipe.alloc ELSE pipe = NoPipe)'
    BY <1>2, Zenon DEF NoPipe
  <2> QED BY <2>3, <2>4, <2>5, <2>6, Zenon DEF Ends
<1>10. Flow'
  <2>1. Used' <= PIPESIZE
    BY <1>2, PipeNat DEF SInv, Flow
  <2>2. "" # "nread" /\ "" # "nwrite"
    OBVIOUS
  <2> QED BY <1>1, <2>1, <2>2, Zenon DEF Flow, PipeSleepersWoken
<1> QED BY <1>2, <1>3, <1>5, <1>6, <1>8, <1>9, <1>10, Zenon DEF SInv

----------------------------------------------------------------------------
(* A new pipe: before it there is none, so nobody is in a pipe call.       *)
LEMMA NewEndsKeep ==
  ASSUME SInv, NEW p \in Procs, at[p] = "pipe2", NewEnds(p),
         UNCHANGED <<call, chan, ff, ref>>
  PROVE  /\ Ends' /\ Calls' /\ PipeType' /\ Flow'
         /\ writable' \in [Files -> BOOLEAN]
         /\ type' \in [Files -> {"FD_NONE", "FD_INODE", "FD_PIPE"}]
<1> DEFINE r == rf[p]  w == wf[p]
<1>1. r \in Files /\ w \in Files /\ r # w
  BY DEF SInv, Places, FileType
<1>2. ref[r] > 0 /\ ref[w] > 0
  BY <1>1, Referred, Zenon DEF SInv
<1>3. ~pipe.readopen /\ ~pipe.writeopen
  BY Zenon DEF NewEnds, SInv, Ends
<1>4. \A e \in {"r", "w"} : ~IsOpen(e)
  BY <1>3, Zenon DEF IsOpen
<1>5. \A f \in Files : End(f) = "none"
  <2>1. \A f \in Files : End(f) # "r" /\ End(f) # "w"
    BY <1>4, Zenon DEF SInv, Ends
  <2> QED BY <2>1, Zenon DEF End
<1>6. \A q \in Procs : ff[q] = "none"
  <2>1. \A q \in Procs : ff[q] # "r" /\ ff[q] # "w"
    BY <1>4, Zenon DEF SInv, Ends
  <2> QED BY <2>1 DEF SInv, FileType
<1>7. \A q \in Procs : call[q] = "none"
  BY <1>3, CallOpen, Zenon DEF SInv, CallType
<1>8. \A q \in Procs : chan[q] = ""
  BY <1>7, Zenon DEF SInv, CallType, Places
<1>9. writable' \in [Files -> BOOLEAN]
  BY <1>1, Zenon DEF NewEnds, SInv, FileType
<1>10. type' \in [Files -> {"FD_NONE", "FD_INODE", "FD_PIPE"}]
  BY <1>1 DEF NewEnds, SInv, FileType
<1>11. /\ type'[r] = "FD_PIPE" /\ type'[w] = "FD_PIPE"
       /\ \A f \in Files : f # r /\ f # w => type'[f] = type[f]
  BY <1>1 DEF NewEnds, SInv, FileType
<1>12. /\ ~writable'[r] /\ writable'[w]
       /\ \A f \in Files : f # r /\ f # w => writable'[f] = writable[f]
  BY <1>1 DEF NewEnds, SInv, FileType
<1>13. ASSUME NEW f \in Files
       PROVE  /\ f = r => End(f)' = "r"
              /\ f = w => End(f)' = "w"
              /\ f # r /\ f # w => End(f)' = "none"
  <2>1. ASSUME f # r, f # w PROVE End(f)' = "none"
    <3>1. End(f)' = End(f)
      BY <1>11, <1>12, <2>1, Zenon DEF End
    <3> QED BY <1>5, <3>1, Zenon
  <2>2. f = r => End(f)' = "r"
    BY <1>1, <1>2, <1>11, <1>12, Zenon DEF End
  <2>3. f = w => End(f)' = "w"
    BY <1>1, <1>2, <1>11, <1>12, Zenon DEF End
  <2> QED BY <2>1, <2>2, <2>3, Zenon
<1>14. pipe' = pipeNew /\ PipeType' /\ Used' = 0
  BY NoPipeIs, OfPipe, Zenon DEF NewEnds, PipeType
<1>15. Calls' /\ Flow'
  <2>1. Used' <= PIPESIZE
    BY <1>14, PipeNat
  <2>2. "none" # "write" /\ "none" # "read" /\ "" # "nread" /\ "" # "nwrite"
    OBVIOUS
  <2> QED BY <1>7, <1>8, <2>1, <2>2, Zenon DEF Calls, Flow, PipeSleepersWoken
<1>16. Ends'
  <2>0. "r" # "none" /\ "w" # "none" /\ "r" # "w"
    OBVIOUS
  <2>1. IsOpen("r")' /\ IsOpen("w")'
    BY <1>14, NoPipeIs DEF IsOpen
  <2>2. ASSUME NEW e \in {"r", "w"}
        PROVE  IsOpen(e)' <=> (\E f \in Files : End(f)' = e) \/ (\E q \in Procs : ff'[q] = e)
    BY <1>1, <1>13, <2>1, Zenon
  <2>3. ASSUME NEW e \in {"r", "w"}
        PROVE  /\ \A f, h \in Files : End(f)' = e /\ End(h)' = e => f = h
               /\ \A q, s \in Procs : ff'[q] = e /\ ff'[s] = e => q = s
               /\ \A f \in Files, q \in Procs : ~(End(f)' = e /\ ff'[q] = e)
    <3>1. \A f \in Files : End(f)' = e => f = IF e = "r" THEN r ELSE w
      BY <1>13, <2>0, Zenon
    <3>2. \A q \in Procs : ff'[q] # e
      BY <1>6, <2>0, Zenon
    <3> QED BY <3>1, <3>2, Zenon
  <2>4. \A f \in Files : ref'[f] = 0 => type'[f] # "FD_PIPE"
    <3>1. \A f \in Files : ref[f] = 0 => f # r /\ f # w
      BY <1>1, <1>2 DEF SInv, FileType
    <3> QED BY <1>11, <3>1, Zenon DEF SInv, Ends
  <2>5. (IF pipe.readopen \/ pipe.writeopen THEN pipe.alloc ELSE pipe = NoPipe)'
    BY <1>14, NoPipeIs, Zenon
  <2> QED BY <2>2, <2>3, <2>4, <2>5, Zenon DEF Ends
<1> QED BY <1>9, <1>10, <1>14, <1>15, <1>16, Zenon

(* Places, when one process returns to user code with nothing in its       *)
(* locals.                                                                 *)
LEMMA PlacesReturn ==
  ASSUME SInv, NEW p \in Procs, UNCHANGED <<call, chan, buf, ff>>,
         \A q \in Procs : q # p => ofile'[q] = ofile[q] /\ rf'[q] = rf[q] /\ wf'[q] = wf[q]
                                    /\ at'[q] = at[q],
         at'[p] = "user" /\ rf'[p] = 0 /\ wf'[p] = 0,
         chan[p] = "" /\ buf[p] = <<>>, call[p] = "none", ff[p] = "none"
  PROVE  Places'
<1>1. "" # "nwrite" /\ "" # "nread" /\ "user" \notin {"pipe1", "pipe2", "unused", "zombie"}
  BY Zenon
<1>2. call' = call /\ chan' = chan /\ buf' = buf /\ ff' = ff
  BY Zenon
<1> DEFINE Here(q) ==
             /\ at'[q] \notin {"pipe1", "pipe2", "close"} => rf'[q] = 0
             /\ at'[q] \notin {"pipe2", "close"} => wf'[q] = 0
             /\ at'[q] \in {"pipe1", "pipe2"} => rf'[q] # 0
             /\ at'[q] = "pipe2" => wf'[q] # 0 /\ wf'[q] # rf'[q]
             /\ at'[q] \in {"unused", "zombie"} => \A fd \in Fds : ofile'[q][fd] = 0
             /\ ff[q] # "none" => at'[q] \in {"close", "exit"}
             /\ call[q] # "none" => at'[q] = "user"
             /\ call[q] # "write" => buf[q] = <<>>
             /\ chan[q] = "nwrite" => call[q] = "write"
             /\ chan[q] = "nread" => call[q] = "read"
<1>3. Here(p)
  BY <1>1, Zenon
<1>4. ASSUME NEW q \in Procs, q # p PROVE Here(q)
  <2>1. /\ ofile'[q] = ofile[q] /\ rf'[q] = rf[q] /\ wf'[q] = wf[q] /\ at'[q] = at[q]
    BY <1>4, Zenon
  <2> QED BY <2>1, Zenon DEF SInv, Places
<1>5. \A q \in Procs : Here(q)
  <2> HIDE DEF Here
  <2> QED BY <1>3, <1>4, Zenon
<1> QED BY <1>2, <1>5, Zenon DEF Places

(* The rest of sys_pipe: the page, the descriptors, or everything given    *)
(* back (sysfile.c:421-443).                                               *)
LEMMA sys_pipeKeeps ==
  ASSUME SInv, NEW p \in Procs, sys_pipe(p)
  PROVE  SInv'
<1>0. UNCHANGED <<call, chan, buf, killed, ref, ff>> /\ at[p] = "pipe2"
  BY Zenon DEF sys_pipe
<1>1. /\ rf[p] \in Files /\ wf[p] \in Files /\ rf[p] # wf[p]
      /\ call[p] = "none" /\ ff[p] = "none"
  BY <1>0, SMTT(20) DEF SInv, Places, FileType
<1>2. CallType'
  BY <1>0, Zenon DEF SInv, CallType
<1>3. ASSUME at' = [at EXCEPT ![p] = "close"], UNCHANGED <<rf, wf, ofile>>
      PROVE  Places'
  BY <1>0, <1>1, <1>3, SMTT(20) DEF SInv, Places, FileType
<1>4. CASE at' = [at EXCEPT ![p] = "close"] /\ UNCHANGED <<pipe, type, writable, ofile, rf, wf>>
  <2>1. FileType'
    BY <1>0, <1>4 DEF SInv, FileType
  <2>2. \A f \in Files : End(f)' = End(f)
    BY <1>0, <1>4, Zenon DEF End
  <2>3. RefExact' /\ Ends' /\ Calls' /\ PipeType' /\ Flow'
    BY <1>0, <1>4, <2>2, RefKept, EndsKept, CallsKept, FlowKept, Zenon DEF SInv, Ends
  <2> QED BY <1>2, <1>3, <1>4, <2>1, <2>3, Zenon DEF SInv
<1>5. CASE at' = [at EXCEPT ![p] = "close"] /\ NewEnds(p) /\ UNCHANGED <<ofile, rf, wf>>
  <2>1. /\ Ends' /\ Calls' /\ PipeType' /\ Flow' /\ writable' \in [Files -> BOOLEAN]
        /\ type' \in [Files -> {"FD_NONE", "FD_INODE", "FD_PIPE"}]
    BY <1>0, <1>5, NewEndsKeep, Zenon
  <2>2. at' \in [Procs -> {"init", "unused", "user", "pipe1", "pipe2", "close", "exit", "zombie"}]
    BY <1>5 DEF SInv, FileType
  <2>3. FileType'
    BY <1>0, <1>5, <2>1, <2>2, Zenon DEF SInv, FileType
  <2>4. RefExact'
    BY <1>0, <1>5, RefKept, Zenon
  <2> QED BY <1>2, <1>3, <1>5, <2>1, <2>3, <2>4, Zenon DEF SInv
<1>6. ASSUME NEW fd0 \in Fds, NEW fd1 \in Fds, fd0 # fd1,
             ofile[p][fd0] = 0, ofile[p][fd1] = 0,
             ofile' = [ofile EXCEPT ![p][fd0] = rf[p], ![p][fd1] = wf[p]],
             rf' = [rf EXCEPT ![p] = 0], wf' = [wf EXCEPT ![p] = 0],
             NewEnds(p), at' = [at EXCEPT ![p] = "user"]
      PROVE  SInv'
  <2> DEFINE o1 == [ofile EXCEPT ![p][fd0] = rf[p]]
  <2>1. /\ Ends' /\ Calls' /\ PipeType' /\ Flow' /\ writable' \in [Files -> BOOLEAN]
        /\ type' \in [Files -> {"FD_NONE", "FD_INODE", "FD_PIPE"}]
    BY <1>0, <1>6, NewEndsKeep, Zenon
  <2>2. /\ ofile \in Tables /\ o1 \in Tables /\ o1[p][fd1] = 0
        /\ ofile' = [o1 EXCEPT ![p][fd1] = wf[p]] /\ ofile' \in Tables
    <3>1. ofile \in Tables
      BY Zenon DEF SInv, FileType, Tables
    <3>2. o1 \in Tables /\ o1[p][fd1] = 0
      BY <1>1, <1>6, <3>1 DEF Tables
    <3>3. ofile' = [o1 EXCEPT ![p][fd1] = wf[p]]
      BY <1>6, Zenon
    <3> HIDE DEF o1
    <3>4. ofile' \in Tables
      BY <1>1, <3>2, <3>3, SMTT(20) DEF Tables
    <3> QED BY <3>1, <3>2, <3>3, <3>4, Zenon
  <2>3. FileType'
    <3>1. at' \in [Procs -> {"init", "unused", "user", "pipe1", "pipe2", "close", "exit", "zombie"}]
            /\ rf' \in [Procs -> Files \cup {0}] /\ wf' \in [Procs -> Files \cup {0}]
      BY <1>6 DEF SInv, FileType
    <3> QED BY <1>0, <2>1, <2>2, <3>1, Zenon DEF SInv, FileType, Tables
  <2>4. Places'
    <3>1. \A q \in Procs : q # p => ofile'[q] = ofile[q] /\ rf'[q] = rf[q] /\ wf'[q] = wf[q]
                                      /\ at'[q] = at[q]
      BY <1>6 DEF SInv, FileType
    <3>2. at'[p] = "user" /\ rf'[p] = 0 /\ wf'[p] = 0
      BY <1>6 DEF SInv, FileType
    <3>3. chan[p] = "" /\ buf[p] = <<>>
      BY <1>1, Zenon DEF SInv, Places, CallType
    <3> QED BY <1>0, <1>1, <3>1, <3>2, <3>3, PlacesReturn, Zenon
  <2>5. RefExact'
    <3>1. ASSUME NEW f \in Files
          PROVE  ref'[f] = FdCount(ofile', f) + LocalCount(rf', f) + LocalCount(wf', f)
      <4>1. FdCount(o1, f) = FdCount(ofile, f) + Moved(f, 0, rf[p])
        <5>1. SetsFd(ofile, p, fd0, rf[p], o1)
          BY <1>1, <2>2 DEF SetsFd
        <5> QED BY <1>6, <5>1, FdCountSet
      <4>2. FdCount(ofile', f) = FdCount(o1, f) + Moved(f, 0, wf[p])
        <5> HIDE DEF o1
        <5>1. SetsFd(o1, p, fd1, wf[p], ofile')
          BY <1>1, <2>2 DEF SetsFd
        <5> QED BY <2>2, <5>1, FdCountSet
      <4>3. LocalCount(rf', f) = LocalCount(rf, f) + Moved(f, rf[p], 0)
        BY <1>6, RfMoves, Zenon
      <4>4. LocalCount(wf', f) = LocalCount(wf, f) + Moved(f, wf[p], 0)
        BY <1>6, WfMoves, Zenon
      <4>5. ref'[f] = ref[f] /\ f # 0
        BY <1>0, FileNat
      <4> HIDE DEF o1
      <4> QED BY <4>1, <4>2, <4>3, <4>4, <4>5, RefCounts, SMTT(20) DEF Moved
    <3> QED BY <3>1, RefMoves, Zenon
  <2> QED BY <1>2, <2>1, <2>3, <2>4, <2>5, Zenon DEF SInv
<1>7. ASSUME NEW fd0 \in Fds, NEW fd1 \in Fds, fd0 < fd1 PROVE fd0 # fd1
  BY <1>7, FileNat
<1> QED BY <1>4, <1>5, <1>6, <1>7, Zenon DEF sys_pipe, FreeFd, Goto, GiveBack

----------------------------------------------------------------------------
(* The steps of piperead and pipewrite.                                    *)

(* Between none and all of the ring is in use.                             *)
LEMMA RoomIs ==
  ASSUME SInv
  PROVE  Used \in 0..PIPESIZE /\ PIPESIZE - Used \in 0..PIPESIZE /\ Used \in Int
BY UsedIs, OfPipe, PipeNat DEF SInv, PipeType, Flow

(* The part of a writer's bytes that fits.                                 *)
LEMMA Fits ==
  ASSUME SInv, NEW p \in Procs, NEW room, room = PIPESIZE - Used
  PROVE  /\ buf[p] \in Seq(Bytes) /\ Len(buf[p]) \in Nat /\ Unput(p) \in Seq(Bytes)
         /\ Unput(p) = SubSeq(buf[p], room + 1, Len(buf[p]))
         /\ Unput(p) = <<>> <=> Len(buf[p]) <= room
         /\ room < Len(buf[p]) => /\ SubSeq(buf[p], 1, room) \in Seq(Bytes)
                                  /\ Len(SubSeq(buf[p], 1, room)) = room
<1> DEFINE s == buf[p]  n == Len(s)
<1>1. s \in Seq(Bytes) /\ n \in Nat /\ room \in Nat
  <2>1. s \in Seq(Bytes)
    BY Zenon DEF SInv, CallType
  <2> QED BY <2>1, RoomIs
<1>2. \A i \in 1..n : s[i] \in Bytes
  BY <1>1, SeqElement, Zenon
<1>3. Unput(p) = SubSeq(s, room + 1, n)
  BY Zenon DEF Unput
<1> HIDE DEF s, n
<1>4. /\ SubSeq(s, room + 1, n) \in Seq(Bytes)
      /\ Len(SubSeq(s, room + 1, n)) = IF room + 1 <= n THEN n - (room + 1) + 1 ELSE 0
  <2>1. room + 1 \in Int /\ n \in Int /\ \A i \in (room + 1)..n : s[i] \in Bytes
    BY <1>1, <1>2
  <2> QED BY <2>1, SeqPart
<1>5. Unput(p) = <<>> <=> n <= room
  <2>1. Unput(p) = <<>> <=> Len(Unput(p)) = 0
    BY <1>3, <1>4, SeqEmpty, Zenon
  <2> QED BY <1>1, <1>3, <1>4, <2>1, SMTT(20)
<1>6. ASSUME room < n
      PROVE  SubSeq(s, 1, room) \in Seq(Bytes) /\ Len(SubSeq(s, 1, room)) = room
  <2>1. \A i \in 1..room : s[i] \in Bytes
    BY <1>1, <1>2, <1>6
  <2>2. /\ SubSeq(s, 1, room) \in Seq(Bytes)
        /\ Len(SubSeq(s, 1, room)) = IF 1 <= room THEN room - 1 + 1 ELSE 0
    <3>1. 1 \in Int /\ room \in Int
      BY <1>1
    <3> QED BY <2>1, <3>1, SeqPart
  <2> QED BY <1>1, <2>2
<1> QED BY <1>1, <1>3, <1>4, <1>5, <1>6, Zenon DEF s, n

(* A step in the pipe that leaves its ends and the files alone.            *)
LEMMA EndsFrame ==
  ASSUME SInv, UNCHANGED fileVars, pipe.readopen \/ pipe.writeopen,
         pipe'.alloc = pipe.alloc, pipe'.readopen = pipe.readopen,
         pipe'.writeopen = pipe.writeopen,
         \A q \in Procs : call'[q] = call[q] \/ call'[q] = "none"
  PROVE  FileType' /\ RefExact' /\ Ends' /\ Calls'
<1>1. UNCHANGED <<ref, type, writable, ofile, at, rf, wf, ff>>
  BY Zenon DEF fileVars
<1>2. FileType' /\ RefExact'
  BY <1>1, RefKept, Zenon DEF SInv, FileType
<1>3. \A f \in Files : End(f)' = End(f)
  BY <1>1, Zenon DEF End
<1>4. Calls'
  BY <1>1, <1>3, CallsKept, Zenon
<1>5. \A e : IsOpen(e)' = IsOpen(e)
  BY Zenon DEF IsOpen
<1>6. (IF pipe.readopen \/ pipe.writeopen THEN pipe.alloc ELSE pipe = NoPipe)'
  BY Zenon DEF SInv, Ends
<1>7. Ends'
  BY <1>1, <1>3, <1>5, <1>6, ZenonT(40) DEF SInv, Ends
<1> QED BY <1>2, <1>4, <1>7, Zenon

(* Places, when only pipe calls, channels and the bytes to be written      *)
(* change.                                                                 *)
LEMMA PlacesFrame ==
  ASSUME SInv, UNCHANGED fileVars,
         \A q \in Procs : call'[q] # "none" => at[q] = "user",
         \A q \in Procs : call'[q] # "write" => buf'[q] = <<>>,
         \A q \in Procs : chan'[q] = "nwrite" => call'[q] = "write",
         \A q \in Procs : chan'[q] = "nread" => call'[q] = "read"
  PROVE  Places'
<1>1. UNCHANGED <<ofile, at, rf, wf, ff>>
  BY Zenon DEF fileVars
<1> QED BY <1>1, Zenon DEF SInv, Places

(* Put leaves the ends of the pipe and its page alone.                     *)
LEMMA PutFields ==
  ASSUME PipeType, NEW s, NEW b \in BOOLEAN, pipe' = Put(s, b)
  PROVE  /\ pipe'.alloc = pipe.alloc /\ pipe'.readopen = pipe.readopen
         /\ pipe'.writeopen = pipe.writeopen /\ pipe'.quit = b
BY DEF Put, PipeType, Pipes

(* A pipe call that returns is over, and no other call changes.            *)
LEMMA ReturnsIs ==
  ASSUME SInv, NEW p \in Procs, NEW r, Returns(p, r)
  PROVE  /\ call' \in [Procs -> {"none", "read", "write"}] /\ call'[p] = "none"
         /\ \A q \in Procs : q # p => call'[q] = call[q]
BY Zenon DEF Returns, SInv, CallType

(* What is left of one writer's bytes; the other writers keep theirs.      *)
LEMMA BufIs ==
  ASSUME SInv, NEW p \in Procs, NEW s \in Seq(Bytes), buf' = [buf EXCEPT ![p] = s]
  PROVE  /\ buf' \in [Procs -> Seq(Bytes)] /\ buf'[p] = s
         /\ \A q \in Procs : q # p => buf'[q] = buf[q]
BY Zenon DEF SInv, CallType

(* wakeup takes all sleepers off one channel and no sleeper off another.   *)
LEMMA wakeupIs ==
  ASSUME SInv, NEW c \in {"nread", "nwrite"}
  PROVE  /\ wakeup(c) \in [Procs -> {"", "nread", "nwrite"}]
         /\ \A q \in Procs : wakeup(c)[q] # c /\ (wakeup(c)[q] = chan[q] \/ wakeup(c)[q] = "")
BY Zenon DEF wakeup, SInv, CallType

(* pipewrite puts its last bytes, wakes the readers and returns            *)
(* (pipe.c:91-96).                                                         *)
LEMMA pipewriteDoneKeeps ==
  ASSUME SInv, NEW p \in Procs, pipewriteDone(p), UNCHANGED fileVars
  PROVE  SInv'
<1>0. /\ call[p] = "write" /\ chan[p] = "" /\ Unput(p) = <<>> /\ pipe' = Put(buf[p], FALSE)
      /\ buf' = [buf EXCEPT ![p] = <<>>] /\ chan' = wakeup("nread") /\ UNCHANGED <<killed>>
      /\ Returns(p, Len(buf[p]))
  BY Zenon DEF pipewriteDone
<1>1. <<>> \in Seq(Bytes) /\ FALSE \in BOOLEAN /\ "nread" \in {"nread", "nwrite"}
  BY SeqEmpty
<1>2. buf[p] \in Seq(Bytes) /\ Len(buf[p]) \in Nat /\ Len(buf[p]) <= PIPESIZE - Used
  BY <1>0, Fits, Zenon
<1>3. PipeType' /\ Used' = Used + Len(buf[p])
  <2>1. Used + Len(buf[p]) <= PIPESIZE
    BY <1>2, RoomIs, PipeNat
  <2> QED BY <1>0, <1>1, <1>2, <2>1, PutAppends, Zenon DEF SInv
<1>4. /\ pipe'.alloc = pipe.alloc /\ pipe'.readopen = pipe.readopen
      /\ pipe'.writeopen = pipe.writeopen /\ pipe'.quit = FALSE
  BY <1>0, <1>1, PutFields, Zenon DEF SInv
<1>5. CallType'
  BY <1>0, <1>1, ReturnsIs, BufIs, wakeupIs, Zenon DEF SInv, CallType
<1>6. /\ call'[p] = "none" /\ \A q \in Procs : q # p => call'[q] = call[q] /\ buf'[q] = buf[q]
      /\ buf'[p] = <<>>
      /\ \A q \in Procs : chan'[q] # "nread" /\ (chan'[q] = chan[q] \/ chan'[q] = "")
  <2>1. call'[p] = "none" /\ \A q \in Procs : q # p => call'[q] = call[q]
    BY <1>0, ReturnsIs, Zenon
  <2>2. buf'[p] = <<>> /\ \A q \in Procs : q # p => buf'[q] = buf[q]
    BY <1>0, <1>1, BufIs, Zenon
  <2>3. \A q \in Procs : chan'[q] # "nread" /\ (chan'[q] = chan[q] \/ chan'[q] = "")
    BY <1>0, <1>1, wakeupIs, Zenon
  <2> QED BY <2>1, <2>2, <2>3, Zenon
<1>7. FileType' /\ RefExact' /\ Ends' /\ Calls'
  BY <1>0, <1>4, <1>6, CallOpen, EndsFrame, Zenon
<1>8. Places'
  <2>1. "" # "nwrite" /\ "" # "nread"
    OBVIOUS
  <2>2. \A q \in Procs : chan'[q] = "nwrite" => call'[q] = "write"
    <3>1. \A q \in Procs : chan'[q] = "nwrite" => chan[q] = "nwrite"
      BY <1>6, <2>1, Zenon
    <3>2. \A q \in Procs : chan[q] = "nwrite" => q # p /\ call[q] = "write"
      BY <1>0, <2>1, Zenon DEF SInv, Places
    <3> QED BY <1>6, <3>1, <3>2, Zenon
  <2>3. \A q \in Procs : call'[q] # "none" => at[q] = "user"
    BY <1>6, Zenon DEF SInv, Places
  <2>4. \A q \in Procs : call'[q] # "write" => buf'[q] = <<>>
    BY <1>6, Zenon DEF SInv, Places
  <2> QED BY <1>6, <2>2, <2>3, <2>4, PlacesFrame, Zenon
<1>9. Flow'
  <2>1. Used' <= PIPESIZE
    BY <1>2, <1>3, RoomIs, PipeNat, SMTT(20)
  <2>2. Used = PIPESIZE => Used' = PIPESIZE
    BY <1>2, <1>3, RoomIs, PipeNat, SMTT(20)
  <2>3. "" # "nwrite"
    OBVIOUS
  <2>4. \A q \in Procs : chan'[q] = "nwrite" => Used = PIPESIZE /\ pipe.readopen
    BY <1>6, <2>3, Zenon DEF SInv, Flow, PipeSleepersWoken
  <2> QED BY <1>4, <1>6, <2>1, <2>2, <2>4, Zenon DEF Flow, PipeSleepersWoken
<1> QED BY <1>3, <1>5, <1>7, <1>8, <1>9, Zenon DEF SInv

(* A writer that finds no room fills the pipe first.                       *)
LEMMA Fills ==
  ASSUME SInv, NEW p \in Procs, Unput(p) # <<>>, NEW b \in BOOLEAN,
         pipe' = Put(SubSeq(buf[p], 1, PIPESIZE - Used), b)
  PROVE  PipeType' /\ Used' = PIPESIZE
         /\ pipe'.alloc = pipe.alloc /\ pipe'.readopen = pipe.readopen
         /\ pipe'.writeopen = pipe.writeopen /\ pipe'.quit = b
<1> DEFINE room == PIPESIZE - Used  s == SubSeq(buf[p], 1, room)
<1>1. s \in Seq(Bytes) /\ Len(s) = room
  <2>1. room < Len(buf[p])
    BY Fits, RoomIs
  <2> QED BY <2>1, Fits
<1>2. Used + Len(s) = PIPESIZE
  BY <1>1, RoomIs, PipeNat
<1>3. Used + Len(s) <= PIPESIZE
  <2>1. PIPESIZE <= PIPESIZE
    BY PipeNat
  <2> QED BY <1>2, <2>1, Zenon
<1>4. PipeType' /\ Used' = Used + Len(s)
  BY <1>1, <1>3, PutAppends, Zenon DEF SInv
<1> QED BY <1>2, <1>4, PutFields, Zenon DEF SInv

(* pipewrite returns from a full pipe when the reader is gone or it was    *)
(* killed (pipe.c:84-87).                                                  *)
LEMMA pipewriteFailsKeeps ==
  ASSUME SInv, NEW p \in Procs, pipewriteFails(p), UNCHANGED fileVars
  PROVE  SInv'
<1>0. /\ call[p] = "write" /\ chan[p] = "" /\ Unput(p) # <<>> /\ (~pipe.readopen \/ killed[p])
      /\ pipe' = Put(SubSeq(buf[p], 1, PIPESIZE - Used), killed[p])
      /\ buf' = [buf EXCEPT ![p] = <<>>] /\ Returns(p, -1) /\ UNCHANGED <<chan, killed>>
  BY Zenon DEF pipewriteFails
<1>1. <<>> \in Seq(Bytes) /\ killed[p] \in BOOLEAN
  BY SeqEmpty, Zenon DEF SInv, CallType
<1>2. /\ PipeType' /\ Used' = PIPESIZE
      /\ pipe'.alloc = pipe.alloc /\ pipe'.readopen = pipe.readopen
      /\ pipe'.writeopen = pipe.writeopen /\ pipe'.quit = killed[p]
  BY <1>0, <1>1, Fills, Zenon
<1>3. CallType'
  BY <1>0, <1>1, ReturnsIs, BufIs, Zenon DEF SInv, CallType
<1>4. /\ call'[p] = "none" /\ \A q \in Procs : q # p => call'[q] = call[q] /\ buf'[q] = buf[q]
      /\ buf'[p] = <<>>
  BY <1>0, <1>1, ReturnsIs, BufIs, Zenon
<1>5. FileType' /\ RefExact' /\ Ends' /\ Calls'
  BY <1>0, <1>2, <1>4, CallOpen, EndsFrame, Zenon
<1>6. Places'
  <2>1. "" # "nwrite" /\ "" # "nread"
    OBVIOUS
  <2>2. \A q \in Procs : /\ chan'[q] = "nwrite" => call'[q] = "write"
                         /\ chan'[q] = "nread" => call'[q] = "read"
    BY <1>0, <1>4, <2>1, Zenon DEF SInv, Places
  <2>3. \A q \in Procs : call'[q] # "none" => at[q] = "user"
    BY <1>4, Zenon DEF SInv, Places
  <2>4. \A q \in Procs : call'[q] # "write" => buf'[q] = <<>>
    BY <1>4, Zenon DEF SInv, Places
  <2> QED BY <2>2, <2>3, <2>4, PlacesFrame, Zenon
<1>7. Flow'
  <2>1. PIPESIZE <= PIPESIZE
    BY PipeNat
  <2>2. \A q \in Procs : chan[q] = "nread" => pipe.writeopen /\ killed[p]
    BY <1>0, CallOpen, Zenon DEF SInv, Places, Flow, PipeSleepersWoken
  <2>3. \A q \in Procs : chan[q] = "nwrite" => pipe.readopen
    BY Zenon DEF SInv, Flow, PipeSleepersWoken
  <2> QED BY <1>0, <1>2, <2>1, <2>2, <2>3, Zenon DEF Flow, PipeSleepersWoken
<1> QED BY <1>2, <1>3, <1>5, <1>6, <1>7, Zenon DEF SInv

(* pipewrite fills the pipe, wakes the readers and sleeps (pipe.c:88-89).  *)
LEMMA pipewriteSleepsKeeps ==
  ASSUME SInv, NEW p \in Procs, pipewriteSleeps(p), UNCHANGED fileVars
  PROVE  SInv'
<1>0. /\ call[p] = "write" /\ chan[p] = "" /\ Unput(p) # <<>> /\ pipe.readopen
      /\ pipe' = Put(SubSeq(buf[p], 1, PIPESIZE - Used), FALSE)
      /\ buf' = [buf EXCEPT ![p] = Unput(p)] /\ UNCHANGED <<call, killed>>
      /\ chan' = [wakeup("nread") EXCEPT ![p] = "nwrite"]
  BY Zenon DEF pipewriteSleeps
<1>1. Unput(p) \in Seq(Bytes) /\ FALSE \in BOOLEAN /\ "nread" \in {"nread", "nwrite"}
  BY Fits
<1>2. /\ PipeType' /\ Used' = PIPESIZE
      /\ pipe'.alloc = pipe.alloc /\ pipe'.readopen = pipe.readopen
      /\ pipe'.writeopen = pipe.writeopen /\ pipe'.quit = FALSE
  BY <1>0, <1>1, Fills, Zenon
<1>3. /\ chan' \in [Procs -> {"", "nread", "nwrite"}]
      /\ \A q \in Procs : chan'[q] # "nread"
      /\ \A q \in Procs : q # p => chan'[q] = chan[q] \/ chan'[q] = ""
  <2>1. /\ wakeup("nread") \in [Procs -> {"", "nread", "nwrite"}]
        /\ \A q \in Procs : /\ wakeup("nread")[q] # "nread"
                            /\ wakeup("nread")[q] = chan[q] \/ wakeup("nread")[q] = ""
    BY <1>1, wakeupIs, Zenon
  <2> QED BY <1>0, <2>1, Zenon
<1>4. CallType'
  BY <1>0, <1>1, <1>3, BufIs, Zenon DEF SInv, CallType
<1>5. FileType' /\ RefExact' /\ Ends' /\ Calls'
  BY <1>0, <1>2, EndsFrame, Zenon
<1>6. Places'
  <2>1. "" # "nwrite" /\ call' = call /\ call[p] = "write"
    BY <1>0, Zenon
  <2>2. \A q \in Procs : chan'[q] = "nwrite" => call'[q] = "write"
    BY <1>3, <2>1, Zenon DEF SInv, Places
  <2>3. \A q \in Procs : q # p => buf'[q] = buf[q]
    BY <1>0, <1>1, BufIs, Zenon
  <2>4. \A q \in Procs : call'[q] # "write" => buf'[q] = <<>>
    BY <2>1, <2>3, Zenon DEF SInv, Places
  <2>5. \A q \in Procs : call'[q] # "none" => at[q] = "user"
    BY <2>1, Zenon DEF SInv, Places
  <2> QED BY <1>3, <2>2, <2>4, <2>5, PlacesFrame, Zenon
<1>7. Flow'
  <2>1. PIPESIZE <= PIPESIZE
    BY PipeNat
  <2> QED BY <1>0, <1>2, <1>3, <2>1, Zenon DEF Flow, PipeSleepersWoken
<1> QED BY <1>2, <1>4, <1>5, <1>6, <1>7, Zenon DEF SInv

(* piperead takes what there is, wakes the writers and returns             *)
(* (pipe.c:111-119).                                                       *)
LEMMA pipereadDoneKeeps ==
  ASSUME SInv, NEW p \in Procs, pipereadDone(p), UNCHANGED fileVars
  PROVE  SInv'
<1> DEFINE n == IF READN < Used THEN READN ELSE Used
<1>0. /\ call[p] = "read" /\ chan[p] = "" /\ pipe' = [pipe EXCEPT !.nread = (@ + n) % WORD]
      /\ Returns(p, n) /\ chan' = wakeup("nwrite") /\ UNCHANGED <<buf, killed>>
  BY Zenon DEF pipereadDone
<1>1. n \in 0..Used /\ "nwrite" \in {"nread", "nwrite"} /\ Used <= PIPESIZE
  BY RoomIs, PipeAssumption
<1>2. /\ pipe'.alloc = pipe.alloc /\ pipe'.readopen = pipe.readopen
      /\ pipe'.writeopen = pipe.writeopen /\ pipe'.quit = pipe.quit
  BY <1>0, Zenon DEF SInv, PipeType, Pipes
<1> HIDE DEF n
<1>3. PipeType' /\ Used' = Used - n
  BY <1>0, <1>1, TakeRemoves, Zenon DEF SInv
<1>4. CallType'
  BY <1>0, <1>1, ReturnsIs, wakeupIs, Zenon DEF SInv, CallType
<1>5. /\ call'[p] = "none" /\ \A q \in Procs : q # p => call'[q] = call[q]
      /\ \A q \in Procs : chan'[q] # "nwrite" /\ (chan'[q] = chan[q] \/ chan'[q] = "")
  BY <1>0, <1>1, ReturnsIs, wakeupIs, Zenon
<1>6. FileType' /\ RefExact' /\ Ends' /\ Calls'
  BY <1>0, <1>2, <1>5, CallOpen, EndsFrame, Zenon
<1>7. \A q \in Procs : chan'[q] = "nread" => chan[q] = "nread"
  <2>1. "" # "nread"
    OBVIOUS
  <2> QED BY <1>5, <2>1, Zenon
<1>8. Places'
  <2>1. "" # "nread" /\ "read" # "write"
    OBVIOUS
  <2>2. \A q \in Procs : chan[q] = "nread" => q # p /\ call[q] = "read"
    BY <1>0, <2>1, Zenon DEF SInv, Places
  <2>3. \A q \in Procs : chan'[q] = "nread" => call'[q] = "read"
    BY <1>5, <1>7, <2>2, Zenon
  <2>4. \A q \in Procs : call'[q] # "none" => at[q] = "user"
    BY <1>5, Zenon DEF SInv, Places
  <2>5. \A q \in Procs : call'[q] # "write" => buf[q] = <<>>
    BY <1>0, <1>5, <2>1, Zenon DEF SInv, Places
  <2>6. buf' = buf
    BY <1>0, Zenon
  <2> QED BY <1>5, <2>3, <2>4, <2>5, <2>6, PlacesFrame, Zenon
<1>9. Flow'
  <2>1. Used' <= PIPESIZE /\ (Used = 0 => Used' = 0)
    BY <1>1, <1>3, RoomIs, PipeNat, SMTT(20)
  <2> QED BY <1>2, <1>5, <1>7, <2>1, Zenon DEF SInv, Flow, PipeSleepersWoken
<1> QED BY <1>3, <1>4, <1>6, <1>8, <1>9, Zenon DEF SInv

(* piperead finds the pipe empty: it sleeps, or returns when it was        *)
(* killed (pipe.c:104-110).                                                *)
LEMMA pipereadWaitsKeeps ==
  ASSUME SInv, NEW p \in Procs, pipereadFails(p) \/ pipereadSleeps(p), UNCHANGED fileVars
  PROVE  SInv'
<1>0. /\ call[p] = "read" /\ chan[p] = "" /\ Used = 0 /\ pipe.writeopen
      /\ UNCHANGED <<pipe, buf, killed>>
      /\ \/ Returns(p, -1) /\ chan' = chan
         \/ call' = call /\ chan' = [chan EXCEPT ![p] = "nread"]
  BY Zenon DEF pipereadFails, pipereadSleeps
<1>1. /\ call' \in [Procs -> {"none", "read", "write"}]
      /\ chan' \in [Procs -> {"", "nread", "nwrite"}]
      /\ \A q \in Procs : q # p => call'[q] = call[q] /\ chan'[q] = chan[q]
      /\ \/ call'[p] = "none" /\ chan'[p] = ""
         \/ call'[p] = "read" /\ chan'[p] = "nread"
  BY <1>0, Zenon DEF Returns, SInv, CallType
<1>2. CallType' /\ PipeType' /\ Used' = Used
  BY <1>0, <1>1, Zenon DEF SInv, CallType, PipeType, Used
<1>3. FileType' /\ RefExact' /\ Ends' /\ Calls'
  <2>1. \A q \in Procs : call'[q] = call[q] \/ call'[q] = "none"
    BY <1>0, <1>1, Zenon
  <2> QED BY <1>0, <2>1, EndsFrame, Zenon
<1>4. Places'
  <2>1. /\ "" # "nread" /\ "" # "nwrite" /\ "nread" # "nwrite"
        /\ "read" # "write" /\ "none" # "write" /\ "read" # "none"
    OBVIOUS
  <2>2. at[p] = "user" /\ buf[p] = <<>>
    BY <1>0, <2>1, Zenon DEF SInv, Places
  <2>3. ASSUME NEW q \in Procs
        PROVE  /\ call'[q] # "none" => at[q] = "user"
               /\ call'[q] # "write" => buf[q] = <<>>
               /\ chan'[q] = "nwrite" => call'[q] = "write"
               /\ chan'[q] = "nread" => call'[q] = "read"
    <3>1. CASE q = p
      BY <1>1, <2>1, <2>2, <3>1, Zenon
    <3>2. CASE q # p
      BY <1>1, <3>2, Zenon DEF SInv, Places
    <3> QED BY <3>1, <3>2, Zenon
  <2>4. buf' = buf
    BY <1>0, Zenon
  <2> QED BY <2>3, <2>4, PlacesFrame, Zenon
<1>5. Flow'
  <2>1. "" # "nread" /\ "" # "nwrite" /\ "nread" # "nwrite"
    OBVIOUS
  <2>2. ASSUME NEW q \in Procs
        PROVE  /\ chan'[q] = "nwrite" => Used = PIPESIZE /\ pipe.readopen
               /\ chan'[q] = "nread" => pipe.writeopen /\ (Used = 0 \/ pipe.quit)
    <3>1. CASE q = p
      BY <1>0, <1>1, <2>1, <3>1, Zenon
    <3>2. CASE q # p
      BY <1>1, <3>2, Zenon DEF SInv, Flow, PipeSleepersWoken
    <3> QED BY <3>1, <3>2, Zenon
  <2> QED BY <1>0, <1>2, <2>2, Zenon DEF SInv, Flow, PipeSleepersWoken
<1> QED BY <1>2, <1>3, <1>4, <1>5, Zenon DEF SInv

----------------------------------------------------------------------------
(* Each call on files and pipes keeps the invariant.                       *)
LEMMA ActKeeps ==
  ASSUME SInv, NEW p \in Procs, Act(p)
  PROVE  SInv'
<1>1. CASE UNCHANGED <<pipeIdle, files>>
  BY <1>1, IdleKeeps, Zenon
<1>2. ASSUME NEW fd \in Fds, sys_close(p, fd) \/ sys_dup(p, fd) \/ sys_read(p, fd)
                               \/ sys_write(p, fd, Message)
      PROVE  SInv'
  BY <1>2, sys_closeKeeps, sys_dupKeeps, sys_readKeeps, sys_writeKeeps, Zenon
<1>3. CASE sys_open(p) \/ pipealloc1(p) \/ \E q \in Procs : forkFiles(p, q)
  BY <1>3, sys_openKeeps, pipealloc1Keeps, forkFilesKeeps, Zenon
<1>4. CASE exitFiles(p) \/ exitClosed(p) \/ Reap(p) \/ kill(p)
  BY <1>4, MovesKeep, Zenon
<1>5. CASE PipeStep(p) /\ UNCHANGED fileVars
  BY <1>5, pipewriteDoneKeeps, pipewriteFailsKeeps, pipewriteSleepsKeeps, pipereadDoneKeeps,
     pipereadWaitsKeeps, Zenon DEF PipeStep
<1>6. CASE FileStep(p)
  BY <1>6, closeLocalKeeps, exitCloseKeeps, pipecloseKeeps, MovesKeep, pipealloc2Keeps,
     sys_pipeKeeps, Zenon DEF FileStep
<1> QED BY <1>1, <1>2, <1>3, <1>4, <1>5, <1>6, Zenon DEF Act

(* Each step of the system keeps the invariant.                            *)
LEMMA NextKeeps == ASSUME SInv, [Next]_svars PROVE SInv'
<1>1. Procs # {}
  BY FileAssumption
<1> QED BY <1>1, NextActs, ActKeeps, Zenon

(* The invariant holds in every state of every shell.                      *)
THEOREM SInductive == Spec => []SInv
<1>1. Init => SInv
  BY InitHolds
<1>2. SInv /\ [Next]_svars => SInv'
  BY NextKeeps
<1> QED BY <1>1, <1>2, PTL DEF Spec

(* The count of a file is the number of descriptors and kernel locals that *)
(* refer to it, whatever programs run, share files and end (file.c:61).    *)
THEOREM CountsExact == Spec => []RefExact
<1>1. SInv => RefExact
  BY DEF SInv
<1> QED BY <1>1, SInductive, PTL

(* The invariant says when an end of the pipe is open, and that who is in  *)
(* a call has a pipe.                                                      *)
LEMMA EndsHold == ASSUME SInv PROVE PipeEnds
<1>1. ASSUME NEW w \in BOOLEAN
      PROVE  (IF w THEN pipe.writeopen ELSE pipe.readopen) <=>
               \/ \E f \in Files : ref[f] > 0 /\ type[f] = "FD_PIPE" /\ writable[f] = w
               \/ \E p \in Procs : ff[p] = (IF w THEN "w" ELSE "r")
  <2> DEFINE e == IF w THEN "w" ELSE "r"
  <2>1. e \in {"r", "w"} /\ IsOpen(e) = (IF w THEN pipe.writeopen ELSE pipe.readopen)
    BY DEF IsOpen
  <2>2. IsOpen(e) <=> (\E f \in Files : End(f) = e) \/ (\E p \in Procs : ff[p] = e)
    BY <2>1, Zenon DEF SInv, Ends
  <2>3. \A f \in Files : End(f) = e <=> ref[f] > 0 /\ type[f] = "FD_PIPE" /\ writable[f] = w
    BY DEF End, SInv, FileType
  <2> QED BY <2>1, <2>2, <2>3, Zenon
<1>2. \A p \in Procs : /\ call[p] = "write" => pipe.alloc /\ pipe.writeopen
                       /\ call[p] = "read" => pipe.alloc /\ pipe.readopen
  BY CallOpen, Zenon
<1> QED BY <1>1, <1>2, Zenon DEF PipeEnds

(* An end of the pipe is open exactly while a file or a pipeclose to come  *)
(* refers to it, and under everybody in piperead or pipewrite (file.c:71). *)
THEOREM EndsOpen == Spec => []PipeEnds
<1>1. SInv => PipeEnds
  BY EndsHold, SMTT(20)
<1> QED BY <1>1, SInductive, PTL

(* Nobody sleeps in the pipe who could go on, except readers that a killed *)
(* writer did not wake (pipe.c:83, 104).                                   *)
THEOREM SleepersWoken == Spec => []PipeSleepersWoken
<1>1. SInv => PipeSleepersWoken
  BY DEF SInv, Flow
<1> QED BY <1>1, SInductive, PTL

----------------------------------------------------------------------------
(* The pipe implements the bounded queue, step by step.                    *)

Quiet == UNCHANGED Fifo!vars

(* A step that leaves the pipe, the bytes to be written and the bytes      *)
(* read alone is no step of the queue.                                     *)
LEMMA QuietIs == ASSUME UNCHANGED <<pipe, buf, got>> PROVE Quiet
<1>1. Contents' = Contents
  BY OfPipe, Zenon
<1> QED BY <1>1, Zenon DEF Quiet, Fifo!vars

(* The initial states map to initial states of the queue.                  *)
LEMMA InitFifo == ASSUME Init PROVE Fifo!Init
<1>1. pipe = NoPipe /\ buf = [p \in Procs |-> <<>>] /\ got = <<>>
  BY Zenon DEF Init, FileInit, PipeInit
<1>2. Contents = <<>>
  BY <1>1, NoPipeIs, OfPipe, Zenon
<1>3. NoPipe.readopen = FALSE /\ NoPipe.writeopen = FALSE
  BY DEF NoPipe
<1> QED BY <1>1, <1>2, <1>3, Zenon DEF Fifo!Init

(* sys_write into a pipe is an Offer.                                      *)
LEMMA sys_writeOffers ==
  ASSUME SInv, NEW p \in Procs, NEW fd \in Fds, sys_write(p, fd, Message)
  PROVE  Fifo!Offer \/ Quiet
<1> DEFINE g == ofile[p][fd]
<1>1. UNCHANGED <<pipe, got>> /\ g # 0 /\ call[p] = "none"
  BY Zenon DEF sys_write, User
<1>2. CASE UNCHANGED buf
  BY <1>1, <1>2, QuietIs, Zenon
<1>3. CASE type[g] = "FD_PIPE" /\ writable[g] /\ buf' = [buf EXCEPT ![p] = Message]
  <2>1. g \in Files
    BY <1>1, OfileIs, Zenon
  <2>2. ref[g] > 0
    BY <2>1, Referred, Zenon DEF SInv
  <2>3. End(g) = "w"
    BY <1>3, <2>2, Zenon DEF End
  <2>4. IsOpen("w") /\ "w" \in {"r", "w"}
    BY <2>1, <2>3, EndHeld, SMTT(20)
  <2>5. pipe.writeopen
    BY <2>4 DEF IsOpen
  <2>6. buf[p] = <<>>
    <3>1. "none" # "write"
      OBVIOUS
    <3> QED BY <1>1, <3>1, Zenon DEF SInv, Places
  <2>7. buf' = [buf EXCEPT ![p] = buf'[p]] /\ buf'[p] \in Seq(Bytes)
    BY <1>3, ShellAssumption, Zenon DEF SInv, CallType
  <2>8. Contents' = Contents
    BY <1>1, OfPipe, Zenon
  <2> QED BY <1>1, <2>5, <2>6, <2>7, <2>8, Zenon DEF Fifo!Offer
<1> QED BY <1>2, <1>3, Zenon DEF sys_write

(* sys_pipe opens the queue, or is no step of it.                          *)
LEMMA sys_pipeOpens ==
  ASSUME SInv, NEW p \in Procs, sys_pipe(p)
  PROVE  Fifo!Open \/ Quiet
<1>1. UNCHANGED <<buf, got>> /\ (UNCHANGED pipe \/ NewEnds(p))
  BY Zenon DEF sys_pipe
<1>2. CASE UNCHANGED pipe
  BY <1>1, <1>2, QuietIs, Zenon
<1>3. CASE NewEnds(p)
  <2>1. pipe' = pipeNew /\ pipe = NoPipe
    BY <1>3, Zenon DEF NewEnds, SInv, Ends
  <2>2. Contents = <<>> /\ Contents' = <<>> /\ ~pipe.readopen /\ ~pipe.writeopen
    BY <2>1, NoPipeIs, OfPipe, Zenon
  <2>3. pipeNew.readopen = TRUE /\ pipeNew.writeopen = TRUE
    BY DEF pipeNew, NoPipe
  <2> QED BY <1>1, <2>1, <2>2, <2>3, Zenon DEF Fifo!Open
<1> QED BY <1>1, <1>2, <1>3, Zenon

(* pipeclose closes one end of the queue, or the last.                     *)
LEMMA pipecloseCloses ==
  ASSUME SInv, NEW p \in Procs, pipeclose(p)
  PROVE  Fifo!CloseOne \/ Fifo!CloseLast
<1>0. /\ UNCHANGED buf /\ pipe' = pipeclosed(ff[p] = "w") /\ ff[p] \in {"r", "w"}
      /\ got' = IF pipe'.alloc THEN got ELSE <<>>
  BY DEF pipeclose, SInv, FileType
<1>1. /\ PipeType'
      /\ IF ff[p] = "w" THEN ~pipe'.writeopen /\ pipe'.readopen = pipe.readopen
                        ELSE ~pipe'.readopen /\ pipe'.writeopen = pipe.writeopen
      /\ IF pipe'.readopen \/ pipe'.writeopen THEN pipe'.alloc ELSE pipe' = NoPipe
      /\ IF pipe'.readopen \/ pipe'.writeopen THEN Contents' = Contents ELSE Contents' = <<>>
  <2>1. (ff[p] = "w") \in BOOLEAN
    OBVIOUS
  <2> QED BY <1>0, <2>1, pipeclosedIs, Zenon DEF SInv, Ends
<1>2. IF ff[p] = "w" THEN pipe.writeopen ELSE pipe.readopen
  <2>1. IsOpen(ff[p])
    BY <1>0, Zenon DEF SInv, Ends
  <2> QED BY <2>1, Zenon DEF IsOpen
<1>3. /\ pipe.readopen \in BOOLEAN /\ pipe.writeopen \in BOOLEAN
      /\ pipe'.readopen \in BOOLEAN /\ pipe'.writeopen \in BOOLEAN
  BY <1>1 DEF SInv, PipeType, Pipes
<1>4. CASE pipe'.readopen \/ pipe'.writeopen
  <2>1. UNCHANGED <<buf, got>> /\ Contents' = Contents
    BY <1>0, <1>1, <1>4, Zenon
  <2>2. /\ pipe.readopen /\ pipe.writeopen
        /\ \/ pipe'.readopen = FALSE /\ pipe'.writeopen = pipe.writeopen
           \/ pipe'.writeopen = FALSE /\ pipe'.readopen = pipe.readopen
    BY <1>1, <1>2, <1>3, <1>4, SMTT(20)
  <2> QED BY <2>1, <2>2, Zenon DEF Fifo!CloseOne
<1>5. CASE ~(pipe'.readopen \/ pipe'.writeopen)
  <2>1. buf' = buf /\ got' = <<>> /\ Contents' = <<>>
    BY <1>0, <1>1, <1>5, NoPipeIs, Zenon
  <2>2. pipe.readopen # pipe.writeopen /\ pipe'.readopen = FALSE /\ pipe'.writeopen = FALSE
    BY <1>1, <1>2, <1>3, <1>5, SMTT(20)
  <2> QED BY <2>1, <2>2, Zenon DEF Fifo!CloseLast
<1> QED BY <1>4, <1>5, Zenon

(* A writer puts the bytes that fit and keeps or gives up the others.      *)
LEMMA pipewritePuts ==
  ASSUME SInv, NEW p \in Procs, pipewriteDone(p) \/ pipewriteFails(p) \/ pipewriteSleeps(p)
  PROVE  Fifo!Put
<1> DEFINE s == buf[p]  room == PIPESIZE - Used
<1>1. s \in Seq(Bytes) /\ Len(s) \in Nat /\ room \in 0..PIPESIZE /\ Used \in 0..PIPESIZE
  BY Fits, RoomIs
<1>2. got' = got /\ pipe.writeopen
  BY CallOpen, Zenon DEF pipewriteDone, pipewriteFails, pipewriteSleeps
<1>3. ASSUME NEW n \in 0..PIPESIZE, n <= Len(s), Len(SubSeq(s, 1, n)) = n,
             SubSeq(s, 1, n) \in Seq(Bytes), Used + n <= PIPESIZE,
             n < Len(s) => Used + n = PIPESIZE, NEW b \in BOOLEAN,
             pipe' = Put(SubSeq(s, 1, n), b),
             \E rest \in {<<>>, SubSeq(s, n + 1, Len(s))} : buf' = [buf EXCEPT ![p] = rest]
      PROVE  Fifo!Put
  <2>1. PipeType' /\ Used' = Used + n /\ Contents' = Contents \o SubSeq(s, 1, n)
    <3>1. Used + Len(SubSeq(s, 1, n)) <= PIPESIZE /\ Used + Len(SubSeq(s, 1, n)) = Used + n
      BY <1>3, Zenon
    <3> QED BY <1>3, <3>1, PutAppends, Zenon DEF SInv
  <2>2. Len(Contents') = Used + n
    <3>1. UsedOf(pipe') = Used + n /\ pipe' \in Pipes
      BY <2>1, OfPipe, Zenon DEF PipeType
    <3>2. Len(ContentsOf(pipe')) = UsedOf(pipe')
      BY <1>3, <3>1, ContentsIs, Zenon
    <3> QED BY <3>1, <3>2, OfPipe, Zenon
  <2>3. pipe'.readopen = pipe.readopen /\ pipe'.writeopen = pipe.writeopen
    BY <1>3, PutFields, Zenon DEF SInv
  <2> QED BY <1>2, <1>3, <2>1, <2>2, <2>3, Zenon DEF Fifo!Put
<1>4. CASE pipewriteDone(p)
  <2>1. pipe' = Put(s, FALSE) /\ buf' = [buf EXCEPT ![p] = <<>>] /\ Len(s) <= room
    BY <1>4, Fits, Zenon DEF pipewriteDone
  <2>2. SubSeq(s, 1, Len(s)) = s
    <3>1. \A i \in 1..Len(s) : s[i] \in Bytes
      BY <1>1, SeqElement, Zenon
    <3> HIDE DEF s
    <3>2. /\ SubSeq(s, 1, Len(s)) \in Seq(Bytes)
          /\ Len(SubSeq(s, 1, Len(s))) = IF 1 <= Len(s) THEN Len(s) - 1 + 1 ELSE 0
          /\ \A i \in 1..(Len(s) - 1 + 1) : SubSeq(s, 1, Len(s))[i] = s[1 + i - 1]
      <4>1. 1 \in Int /\ Len(s) \in Int
        BY <1>1
      <4> QED BY <3>1, <4>1, SeqPart
    <3>3. Len(SubSeq(s, 1, Len(s))) = Len(s) /\ \A i \in 1..Len(s) : SubSeq(s, 1, Len(s))[i] = s[i]
      BY <1>1, <3>2
    <3> QED BY <1>1, <3>2, <3>3, SeqSame
  <2>3. /\ Len(s) \in 0..PIPESIZE /\ Len(s) <= Len(s) /\ Used + Len(s) <= PIPESIZE
        /\ ~(Len(s) < Len(s)) /\ FALSE \in BOOLEAN
    BY <1>1, <2>1, PipeNat, SMTT(20)
  <2>4. \E rest \in {<<>>, SubSeq(s, Len(s) + 1, Len(s))} : buf' = [buf EXCEPT ![p] = rest]
    BY <2>1, Zenon
  <2>5. pipe' = Put(SubSeq(s, 1, Len(s)), FALSE)
    BY <2>1, <2>2, Zenon
  <2>6. Len(SubSeq(s, 1, Len(s))) = Len(s) /\ SubSeq(s, 1, Len(s)) \in Seq(Bytes)
    BY <1>1, <2>2, Zenon
  <2> HIDE DEF s
  <2> QED BY <1>3, <2>3, <2>4, <2>5, <2>6, Zenon
<1>5. CASE pipewriteFails(p) \/ pipewriteSleeps(p)
  <2>1. PICK b \in BOOLEAN : pipe' = Put(SubSeq(s, 1, room), b)
    <3>1. killed[p] \in BOOLEAN /\ FALSE \in BOOLEAN
      BY Zenon DEF SInv, CallType
    <3> QED BY <1>5, <3>1, Zenon DEF pipewriteFails, pipewriteSleeps
  <2>2. Unput(p) # <<>> /\ Unput(p) = SubSeq(s, room + 1, Len(s))
    BY <1>5, Fits, Zenon DEF pipewriteFails, pipewriteSleeps
  <2>3. \E rest \in {<<>>, SubSeq(s, room + 1, Len(s))} : buf' = [buf EXCEPT ![p] = rest]
    BY <1>5, <2>2, Zenon DEF pipewriteFails, pipewriteSleeps
  <2>4. room < Len(s)
    BY <1>1, <2>2, Fits, SMTT(20)
  <2>5. Len(SubSeq(s, 1, room)) = room /\ SubSeq(s, 1, room) \in Seq(Bytes)
    BY <2>4, Fits
  <2>6. room \in 0..PIPESIZE /\ room <= Len(s) /\ Used + room <= PIPESIZE /\ Used + room = PIPESIZE
    BY <1>1, <2>4, PipeNat
  <2> HIDE DEF s, room
  <2> QED BY <1>3, <2>1, <2>3, <2>5, <2>6, Zenon
<1> QED BY <1>4, <1>5, Zenon

(* A reader takes bytes from the front, or finds the end of the file.      *)
LEMMA pipereadTakes ==
  ASSUME SInv, NEW p \in Procs, pipereadDone(p)
  PROVE  Fifo!Take \/ Fifo!Eof
<1> DEFINE n == IF READN < Used THEN READN ELSE Used
<1>0. /\ pipe' = [pipe EXCEPT !.nread = (@ + n) % WORD] /\ got' = SubSeq(Contents, 1, n)
      /\ UNCHANGED buf /\ pipe.readopen /\ (Used > 0 \/ ~pipe.writeopen)
  BY CallOpen, Zenon DEF pipereadDone
<1>1. n \in 0..Used /\ Used <= PIPESIZE /\ Used \in Nat /\ (Used > 0 => n \in 1..Used)
  BY RoomIs, PipeAssumption
<1>2. pipe'.readopen = pipe.readopen /\ pipe'.writeopen = pipe.writeopen
  BY <1>0, Zenon DEF SInv, PipeType, Pipes
<1> HIDE DEF n
<1>3. Contents' = SubSeq(Contents, n + 1, Len(Contents))
  BY <1>0, <1>1, TakeRemoves, Zenon DEF SInv
<1>4. Len(Contents) = Used /\ Contents \in Seq(Bytes \cup {0})
  BY <1>1, ContentsIs, OfPipe, Zenon DEF SInv, PipeType
<1>5. CASE Used > 0
  <2>1. n \in 1..Len(Contents)
    BY <1>1, <1>4, <1>5, Zenon
  <2> QED BY <1>0, <1>2, <1>3, <2>1, Zenon DEF Fifo!Take
<1>6. CASE ~(Used > 0)
  <2>1. Used = 0 /\ n = 0
    BY <1>1, <1>6
  <2>2. Contents = <<>>
    BY <1>4, <2>1, SeqEmpty
  <2>3. SubSeq(Contents, 1, 0) = <<>> /\ SubSeq(Contents, 0 + 1, 0) = <<>>
    OBVIOUS
  <2>4. got' = <<>>
    BY <1>0, <2>1, <2>3, Zenon
  <2>5. Contents' = <<>>
    BY <1>3, <1>4, <2>1, <2>3, Zenon
  <2>6. ~pipe.writeopen
    BY <1>0, <1>6, Zenon
  <2> QED BY <1>0, <1>2, <2>2, <2>4, <2>5, <2>6, Zenon DEF Fifo!Eof
<1> QED BY <1>5, <1>6, Zenon

(* Each call on files and pipes is a step of the queue or leaves it        *)
(* alone.                                                                  *)
LEMMA ActFifo ==
  ASSUME SInv, NEW p \in Procs, Act(p)
  PROVE  Fifo!Next \/ Quiet
<1>1. ASSUME \/ UNCHANGED <<pipeIdle, files>>
             \/ \E fd \in Fds : sys_close(p, fd) \/ sys_dup(p, fd) \/ sys_read(p, fd)
             \/ sys_open(p) \/ pipealloc1(p) \/ (\E q \in Procs : forkFiles(p, q))
             \/ exitFiles(p) \/ exitClosed(p) \/ Reap(p) \/ kill(p)
             \/ pipereadFails(p) \/ pipereadSleeps(p)
             \/ closeLocal(p) \/ exitClose(p) \/ closed(p) \/ pipealloc2(p)
      PROVE  UNCHANGED <<pipe, buf, got>>
  BY <1>1, Zenon DEF pipeIdle, pipeVars, sys_close, sys_dup, sys_read, sys_open, pipealloc1, forkFiles,
     exitFiles, exitClosed, Reap, kill, pipereadFails, pipereadSleeps, closeLocal, exitClose,
     closed, pipealloc2
<1>2. ASSUME NEW fd \in Fds, sys_write(p, fd, Message) PROVE Fifo!Next \/ Quiet
  BY <1>2, sys_writeOffers, Zenon DEF Fifo!Next
<1>3. CASE PipeStep(p)
  BY <1>1, <1>3, QuietIs, pipewritePuts, pipereadTakes, Zenon DEF PipeStep, Fifo!Next
<1>4. CASE FileStep(p)
  BY <1>1, <1>4, QuietIs, pipecloseCloses, sys_pipeOpens, Zenon DEF FileStep, Fifo!Next
<1> QED BY <1>1, <1>2, <1>3, <1>4, QuietIs, Zenon DEF Act

(* The pipe is a bounded first-in first-out queue with an end of file, for *)
(* every size, for counters that wrap anywhere above it, and for any       *)
(* readers and writers (pipe.c:91, 114).                                   *)
THEOREM PipeRefines == Spec => PipeIsFifo
<1>1. Init => Fifo!Init
  BY InitFifo
<1>2. SInv /\ [Next]_svars => [Fifo!Next]_(Fifo!vars)
  <2> SUFFICES ASSUME SInv, [Next]_svars PROVE Fifo!Next \/ Quiet
    BY DEF Quiet
  <2>1. Procs # {}
    BY FileAssumption
  <2> QED BY <2>1, NextActs, ActFifo, Zenon
<1> QED BY <1>1, <1>2, SInductive, PTL DEF Spec, PipeIsFifo, Fifo!Spec

=============================================================================
