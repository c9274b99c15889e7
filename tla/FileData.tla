------------------------------ MODULE FileData ------------------------------
(***************************************************************************)
(* The contents of files (fs.c: balloc, bfree, bmap, itrunc, readi,        *)
(* writei) and reading and writing them at a file's offset (file.c).  An   *)
(* i-node's sleep lock makes each call of readi and writei one step; a     *)
(* long write is several.                                                  *)
(***************************************************************************)
EXTENDS Integers, Sequences, FiniteSets

CONSTANTS
  Inodes, Handles, Of,      \* files, struct files, and the file of each
  NBLOCK,                   \* blocks that can be allocated
  BSIZE, NDIRECT, NINDIRECT,
  CHUNK,                    \* the most filewrite passes to writei
  UINT,                     \* unsigned arithmetic is modulo UINT
  Writes                    \* of a handle: pairs of a byte and how many of it to write

JUNK == 9      \* what a block that was freed still holds
Blocks == 1..NBLOCK
MAXFILE == NDIRECT + NINDIRECT

VARIABLES
  fd,          \* [bitmap, block, addrs, size]: the disk
  off, todo,   \* of a handle: its offset, and the rest of its write
  full,        \* panic: out of blocks
  content         \* history: what each file should hold

fvars == <<fd, off, todo, full, content>>

NoWrite == [byte |-> 0, n |-> 0]

FileInit ==
  /\ fd = [bitmap |-> {}, block |-> [b \in Blocks |-> [k \in 0..(BSIZE - 1) |-> JUNK]],
           addrs |-> [f \in Inodes |-> [k \in 0..NDIRECT |-> 0]],
           size |-> [f \in Inodes |-> 0]]
  /\ off = [h \in Handles |-> 0] /\ todo = [h \in Handles |-> NoWrite]
  /\ full = FALSE /\ content = [f \in Inodes |-> <<>>]

----------------------------------------------------------------------------
Least(a, b) == IF a < b THEN a ELSE b

FreeBlock(d) == CHOOSE b \in Blocks \ d.bitmap : \A c \in Blocks \ d.bitmap : b <= c

(* The first free block, zeroed.                                           *)
balloc(d) ==
  [d EXCEPT !.bitmap = @ \cup {FreeBlock(d)},
            !.block[FreeBlock(d)] = [k \in 0..(BSIZE - 1) |-> 0]]

(* bfree of each of the blocks in gone.                                    *)
bfree(d, gone) ==
  [d EXCEPT !.bitmap = @ \ gone,
            !.block = [b \in Blocks |-> IF b \in gone THEN [k \in 0..(BSIZE - 1) |-> JUNK]
                                                      ELSE @[b]]]

(* The address in place k of the i-node or, with i # 0, in place k of the  *)
(* indirect block i, allocated if there is none.                           *)
slot(d, f, i, k) ==
  LET addr == IF i = 0 THEN d.addrs[f][k] ELSE d.block[i][k]
      new == FreeBlock(d)
  IN  IF addr # 0 THEN [d |-> d, addr |-> addr]
      ELSE [addr |-> new,
            d |-> IF i = 0 THEN [balloc(d) EXCEPT !.addrs[f][k] = new]
                           ELSE [balloc(d) EXCEPT !.block[i][k] = new]]

bmap(d, f, bn) ==
  IF bn < NDIRECT THEN slot(d, f, 0, bn)
  ELSE LET ind == slot(d, f, 0, NDIRECT)
       IN  slot(ind.d, f, ind.addr, bn - NDIRECT)

Listed(d, f) ==
  LET i == d.addrs[f][NDIRECT]
  IN  ({d.addrs[f][k] : k \in 0..NDIRECT}
       \cup IF i = 0 THEN {} ELSE {d.block[i][k] : k \in 0..(NINDIRECT - 1)}) \ {0}

itruncDirect(d, f) ==        \* mutated: what the indirect block lists is kept
  [bfree(d, {d.addrs[f][k] : k \in 0..NDIRECT} \ {0})
     EXCEPT !.addrs[f] = [k \in 0..NDIRECT |-> 0], !.size[f] = 0]

(* Direct blocks, those the indirect block lists, and that block.          *)
itrunc(d, f) ==
  [bfree(d, Listed(d, f)) EXCEPT !.addrs[f] = [k \in 0..NDIRECT |-> 0], !.size[f] = 0]

(* The bytes readi copies, or <<-1>>.  off + n can wrap around.            *)
readi(d, f, o, n) ==
  LET sum == (o + n) % UINT
      m == IF sum > d.size[f] THEN d.size[f] - o ELSE n
  IN  IF o > d.size[f] \/ sum < o THEN <<-1>>
      ELSE [k \in 1..m |->
              LET at == o + k - 1
                  b == bmap(d, f, at \div BSIZE).addr
              IN  d.block[b][at % BSIZE]]

(* Copy n times byte from o on, block by block; NoRoom when balloc panics. *)
NoRoom == [size |-> <<>>]
RECURSIVE copyin(_, _, _, _, _)
copyin(d, f, byte, o, n) ==
  LET bn == o \div BSIZE
      m == Least(n, BSIZE - (o % BSIZE))
      ind == d.addrs[f][NDIRECT]
      need == IF bn < NDIRECT THEN IF d.addrs[f][bn] = 0 THEN 1 ELSE 0
              ELSE IF ind = 0 THEN 2 ELSE IF d.block[ind][bn - NDIRECT] = 0 THEN 1 ELSE 0
      to == bmap(d, f, bn)
      out == [to.d EXCEPT !.block[to.addr] =
                [k \in 0..(BSIZE - 1) |->
                   IF k \in (o % BSIZE)..((o % BSIZE) + m - 1) THEN byte ELSE @[k]]]
  IN  IF n = 0 THEN [d EXCEPT !.size[f] = IF o > @ THEN o ELSE @]
      ELSE IF need > Cardinality(Blocks \ d.bitmap) THEN NoRoom
      ELSE copyin(out, f, byte, o + m, n - m)

CanWrite(d, f, o, n) ==
  ~(o > d.size[f] \/ (o + n) % UINT < o) /\ (o + n) % UINT <= MAXFILE * BSIZE

----------------------------------------------------------------------------
(* filewrite begins, and goes on chunk by chunk.                           *)
filewrite(h) ==
  /\ ~full /\ todo[h] = NoWrite
  /\ \E wr \in Writes[h] : todo' = [todo EXCEPT ![h] = [byte |-> wr[1], n |-> wr[2]]]
  /\ UNCHANGED <<fd, off, full, content>>

Overlay(old, o, byte, n) ==
  [k \in 1..(IF o + n > Len(old) THEN o + n ELSE Len(old)) |->
     IF k \in (o + 1)..(o + n) THEN byte ELSE old[k]]

filewriteChunk(h) ==
  LET f == Of[h]
      n1 == Least(todo[h].n, CHUNK)
      out == copyin(fd, f, todo[h].byte, off[h], n1)
  IN  /\ ~full /\ todo[h] # NoWrite
      /\ \/ /\ CanWrite(fd, f, off[h], n1) /\ out # NoRoom
            /\ fd' = out /\ off' = [off EXCEPT ![h] = @ + n1]
            /\ content' = [content EXCEPT ![f] = Overlay(@, off[h], todo[h].byte, n1)]
            /\ todo' = [todo EXCEPT ![h] = IF @.n = n1 THEN NoWrite ELSE [@ EXCEPT !.n = @ - n1]]
            /\ UNCHANGED full
         \/ /\ CanWrite(fd, f, off[h], n1) /\ out = NoRoom
            /\ full' = TRUE /\ UNCHANGED <<fd, off, todo, content>>
         \/ /\ ~CanWrite(fd, f, off[h], n1)
            /\ todo' = [todo EXCEPT ![h] = NoWrite] /\ UNCHANGED <<fd, off, full, content>>

fileread(h, n) ==
  LET r == readi(fd, Of[h], off[h], n)
  IN  /\ ~full /\ todo[h] = NoWrite
      /\ off' = [off EXCEPT ![h] = IF r = <<-1>> THEN @ ELSE @ + Len(r)]
      /\ UNCHANGED <<fd, todo, full, content>>

(* The file's last name and last struct file go (iput), and it is made     *)
(* and opened anew.                                                        *)
recreate(f) ==
  /\ ~full /\ \A h \in Handles : Of[h] = f => todo[h] = NoWrite
  /\ fd' = itrunc(fd, f) /\ content' = [content EXCEPT ![f] = <<>>]
  /\ off' = [h \in Handles |-> IF Of[h] = f THEN 0 ELSE off[h]]
  /\ UNCHANGED <<todo, full>>

FileNext ==
  \/ \E h \in Handles : filewrite(h) \/ filewriteChunk(h) \/ fileread(h, BSIZE)
  \/ \E f \in Inodes : recreate(f)

FileSpec == FileInit /\ [][FileNext]_fvars

----------------------------------------------------------------------------
(* A file reads back as the bytes written to it, wherever a read begins    *)
(* and however much it asks for; no block is in two files or twice in one, *)
(* and the bitmap has exactly the blocks of files, so that none is lost    *)
(* when files are removed.                                                 *)
FileSound ==
  /\ \A f \in Inodes :
       /\ fd.size[f] = Len(content[f])
       /\ \A o, n \in 0..(UINT - 1) :
            readi(fd, f, o, n) =
              IF o > Len(content[f]) \/ o + n >= UINT THEN <<-1>>
              ELSE SubSeq(content[f], o + 1, Least(o + n, Len(content[f])))
       /\ \A g \in Inodes \ {f} : Listed(fd, f) \cap Listed(fd, g) = {}
       /\ Cardinality(Listed(fd, f)) =
            LET data == (fd.size[f] + BSIZE - 1) \div BSIZE
            IN  IF data > NDIRECT THEN data + 1 ELSE data
  /\ fd.bitmap = UNION {Listed(fd, f) : f \in Inodes}
=============================================================================
