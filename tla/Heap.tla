-------------------------------- MODULE Heap --------------------------------
(***************************************************************************)
(* malloc and free of the user library (umalloc.c): a ring of free blocks  *)
(* in address order, in units of a header.  base, of size 0, is at address *)
(* 0, below the heap at 1..brk-1.                                          *)
(***************************************************************************)
EXTENDS Integers, FiniteSets, FiniteSetsExt

CONSTANTS
  HEAPMAX,     \* sbrk fails past this address
  MORE,        \* the least morecore asks for (4096)
  HEADER,      \* sizeof(Header)
  NBytes       \* sizes to ask for

VARIABLES
  heap,        \* the headers' ptr and size, freep and the break
  used         \* the blocks the program holds

hvars == <<heap, used>>

base == 0
NULL == -1

HeapInit ==
  /\ heap = [ptr |-> [a \in 0..HEAPMAX |-> 0], size |-> [a \in 0..HEAPMAX |-> 0],
             freep |-> NULL, brk |-> 1]
  /\ used = {}

----------------------------------------------------------------------------
RECURSIVE ringFrom(_, _, _)
ringFrom(h, p, seen) == IF p \in seen THEN seen ELSE ringFrom(h, h.ptr[p], seen \cup {p})
Ring(h) == IF h.freep = NULL THEN {} ELSE ringFrom(h, h.freep, {})

(* A header that is no block's any more, and ptr of a block in use, are    *)
(* dead: as 0 they do not tell states apart.                               *)
clean(h, held) ==
  [h EXCEPT !.ptr = [a \in 0..HEAPMAX |-> IF a \in Ring(h) THEN @[a] ELSE 0],
            !.size = [a \in 0..HEAPMAX |-> IF a \in Ring(h) \cup held THEN @[a] ELSE 0]]

(* The block after which bp belongs, looked for from p on.                 *)
RECURSIVE place(_, _, _)
place(h, bp, p) ==
  LET q == h.ptr[p]
  IN  IF (bp > p /\ bp < q) \/ (p >= q /\ (bp > p \/ bp < q)) THEN p ELSE place(h, bp, q)

freedApart(h, bp) ==      \* mutated: not joined with the block above
  LET p == place(h, bp, h.freep)
      below == p + h.size[p] = bp
      b == IF below THEN p ELSE bp
      size == h.size[bp] + (IF below THEN h.size[p] ELSE 0)
  IN  [h EXCEPT !.ptr = [[@ EXCEPT ![p] = bp] EXCEPT ![b] = h.ptr[p]],
                !.size = [@ EXCEPT ![b] = size],
                !.freep = p]

(* free: bp into the ring, joined with the block above it and then with    *)
(* the one below.                                                          *)
freed(h, bp) ==
  LET p == place(h, bp, h.freep)
      q == h.ptr[p]
      above == bp + h.size[bp] = q
      below == p + h.size[p] = bp
      b == IF below THEN p ELSE bp
      next == IF above THEN h.ptr[q] ELSE q
      size == h.size[bp] + (IF above THEN h.size[q] ELSE 0)
              + (IF below THEN h.size[p] ELSE 0)
  IN  [h EXCEPT !.ptr = [[@ EXCEPT ![p] = bp] EXCEPT ![b] = next],
                !.size = [@ EXCEPT ![b] = size],
                !.freep = p]

free(b) ==
  /\ b \in used /\ used' = used \ {b} /\ heap' = clean(freed(heap, b), used')

nunits(nbytes) == (nbytes + HEADER - 1) \div HEADER + 1

(* The first block of the ring after prevp that is large enough, as its    *)
(* predecessor; NULL when freep is reached without one.                    *)
RECURSIVE search(_, _, _)
search(h, prevp, n) ==
  LET p == h.ptr[prevp]
  IN  IF h.size[p] >= n THEN prevp
      ELSE IF p = h.freep THEN NULL
      ELSE search(h, p, n)

(* The whole block, or the tail end of it.                                 *)
taken(h, prevp, n) ==
  LET p == h.ptr[prevp]
  IN  IF h.size[p] = n
        THEN [block |-> p, h |-> [h EXCEPT !.ptr[prevp] = h.ptr[p], !.freep = prevp]]
        ELSE LET b == p + h.size[p] - n
             IN  [block |-> b, h |-> [h EXCEPT !.size = [@ EXCEPT ![p] = @ - n, ![b] = n],
                                               !.freep = prevp]]

Larger(a, b) == IF a > b THEN a ELSE b

(* sbrk gives the memory after the break.                                  *)
morecore(h, n) ==
  LET nu == Larger(n, MORE)
  IN  freed([h EXCEPT !.size[h.brk] = nu, !.brk = @ + nu], h.brk)

malloc(nbytes) ==
  LET n == nunits(nbytes)
      h == IF heap.freep = NULL THEN [heap EXCEPT !.freep = base] ELSE heap
      more == search(h, h.freep, n) = NULL
      full == h.brk + Larger(n, MORE) > HEAPMAX
      room == IF more THEN morecore(h, n) ELSE h
      out == taken(room, search(room, room.freep, n), n)
  IN  IF more /\ full
        THEN heap' = h /\ UNCHANGED used
        ELSE used' = used \cup {out.block} /\ heap' = clean(out.h, used')

HeapNext == (\E n \in NBytes : malloc(n)) \/ \E b \in used : free(b)

HeapSpec == HeapInit /\ [][HeapNext]_hvars

----------------------------------------------------------------------------
FreeBlocks == Ring(heap) \ {base}
Units(b) == b..(b + heap.size[b] - 1)

(* Whatever is allocated and freed, in whatever order, the blocks the      *)
(* program holds and those of the ring fill the heap without overlap or    *)
(* loss, the ring goes once round in address order, and no two free blocks *)
(* lie side by side.                                                       *)
HeapSound ==
  LET blocks == used \cup FreeBlocks
      ring == FreeBlocks \cup {base}
  IN  /\ used \cap FreeBlocks = {}
      /\ UNION {Units(b) : b \in blocks} = 1..(heap.brk - 1)
      /\ MapThenSumSet(LAMBDA b : heap.size[b], blocks) = heap.brk - 1
      /\ heap.freep # NULL => \A p \in ring :
           heap.ptr[p] = IF p = Max(ring) THEN base ELSE Min({q \in ring : q > p})
      /\ \A p \in FreeBlocks : p + heap.size[p] \notin FreeBlocks
=============================================================================
