------------------------------ MODULE Umalloc -------------------------------
(* malloc and free of user programs (user/umalloc.c): a circular list of   *)
(* free blocks by address, first fit, joined with their neighbours when    *)
(* freed.  An address counts units of sizeof(Header); base is at 0, below  *)
(* the heap.  Other calls of sbrk may come between those of morecore.      *)
EXTENDS Integers, FiniteSets, FiniteSetsExt, Functions, TLC

CONSTANTS HEADER,    \* bytes of a unit
          MINCORE,   \* least units morecore asks for (4096)
          MaxHeap,   \* units that sbrk has to give
          Sizes,     \* arguments of malloc
          Gaps       \* units others take with sbrk

ASSUME UmallocAssumption ==
  {HEADER, MINCORE} \subseteq Nat \ {0} /\ MaxHeap \in Nat /\ Sizes \cup Gaps \subseteq Nat

VARIABLES
  hdr,       \* the headers in memory: ptr and size, by address
  freep,     \* -1 when it is null
  brk,       \* end of the heap
  taken,     \* history: blocks handed out, by address of their header, and their units
  others     \* history: units that others got from sbrk

heapvars == <<hdr, freep, brk, taken, others>>

Null == -1
Base == 0

UmallocInit ==
  hdr = <<>> /\ freep = Null /\ brk = 1 /\ taken = <<>> /\ others = {}

UmallocTypeOK ==
  /\ DOMAIN hdr \subseteq 0..MaxHeap /\ freep \in -1..MaxHeap /\ brk \in 1..(MaxHeap + 1)
  /\ \A a \in DOMAIN hdr : hdr[a].ptr \in DOMAIN hdr /\ hdr[a].size \in 0..MaxHeap

(* A header that became part of another block is not kept.                 *)
Without(h, a) == Restrict(h, DOMAIN h \ {a})

SetHdr(h, a, ptr, size) == (a :> [ptr |-> ptr, size |-> size]) @@ h

-----------------------------------------------------------------------------
(* free's search for the block after which bp comes.                       *)
Between(h, bp, p) ==
  LET q == h[p].ptr
  IN \/ bp > p /\ bp < q
     \/ p >= q /\ (bp > p \/ bp < q)

RECURSIVE Before(_, _, _)
Before(h, bp, p) == IF Between(h, bp, p) THEN p ELSE Before(h, bp, h[p].ptr)

(* Mutant of JoinUpper: never joined.                                      *)
JoinUpper_not(h, bp, p) == SetHdr(h, bp, h[p].ptr, h[bp].size)

JoinUpper(h, bp, p) ==
  LET q == h[p].ptr
  IN IF bp + h[bp].size = q THEN SetHdr(Without(h, q), bp, h[q].ptr, h[bp].size + h[q].size)
     ELSE SetHdr(h, bp, q, h[bp].size)

JoinLower(h, bp, p) ==
  IF p + h[p].size = bp THEN SetHdr(Without(h, bp), p, h[bp].ptr, h[p].size + h[bp].size)
  ELSE SetHdr(h, p, bp, h[p].size)

(* free of the block with header bp: the memory after it, and freep.       *)
Freed(h, bp, start) ==
  LET p == Before(h, bp, start)
  IN [h |-> JoinLower(JoinUpper(h, bp, p), bp, p), freep |-> p]

free(bp) ==
  /\ bp \in DOMAIN taken
  /\ LET r == Freed(hdr, bp, freep) IN hdr' = r.h /\ freep' = r.freep
  /\ taken' = Restrict(taken, DOMAIN taken \ {bp})
  /\ UNCHANGED <<brk, others>>

nunits(nbytes) == (nbytes + HEADER - 1) \div HEADER + 1

(* What malloc does with a block that is large enough; the ptr of a block  *)
(* in use is not read before free sets it.                                 *)
Carve(h, p, prevp, n) ==
  IF h[p].size = n THEN [h |-> SetHdr(SetHdr(h, p, 0, n), prevp, h[p].ptr, h[prevp].size), at |-> p]
  ELSE LET rest == SetHdr(h, p, h[p].ptr, h[p].size - n)
           at == p + rest[p].size
       IN [h |-> SetHdr(rest, at, 0, n), at |-> at]

(* malloc's loop: p follows prevp.  s is the memory, freep and brk; once   *)
(* around the list it asks for more core, which is freed, and goes on      *)
(* after the block that free left in freep.                                *)
RECURSIVE Search(_, _, _, _)
Search(s, prevp, p, n) ==
  LET c  == Carve(s.h, p, prevp, n)
      nu == IF n < MINCORE THEN MINCORE ELSE n
      r  == Freed(SetHdr(s.h, s.brk, 0, nu), s.brk, s.freep)
  IN IF s.h[p].size >= n THEN [s EXCEPT !.h = c.h, !.freep = prevp, !.at = c.at]
     ELSE IF p # s.freep THEN Search(s, p, s.h[p].ptr, n)
     ELSE IF s.brk + nu > MaxHeap + 1 THEN s
     ELSE Search([s EXCEPT !.h = r.h, !.freep = r.freep, !.brk = @ + nu],
                 r.freep, r.h[r.freep].ptr, n)

malloc(nbytes) ==
  LET h == IF freep = Null THEN SetHdr(<<>>, Base, Base, 0) ELSE hdr
      f == IF freep = Null THEN Base ELSE freep
      n == nunits(nbytes)
      s == Search([h |-> h, freep |-> f, brk |-> brk, at |-> Null], f, h[f].ptr, n)
  IN /\ hdr' = s.h /\ freep' = s.freep /\ brk' = s.brk
     /\ taken' = IF s.at = Null THEN taken ELSE (s.at :> n) @@ taken
     /\ UNCHANGED others

(* The program itself grows its memory.                                    *)
other_sbrk(n) ==
  /\ brk + n <= MaxHeap + 1
  /\ brk' = brk + n /\ others' = others \cup brk..(brk + n - 1)
  /\ UNCHANGED <<hdr, freep, taken>>

UmallocNext ==
  \/ \E n \in Sizes : malloc(n)
  \/ \E bp \in DOMAIN taken : free(bp)
  \/ \E n \in Gaps : other_sbrk(n)

-----------------------------------------------------------------------------
(* The free list, from base once around (at most as long as the heap).     *)
FreeList ==
  LET reach[k \in 0..MaxHeap] == IF k = 0 THEN {Base} ELSE reach[k - 1] \cup {hdr[a].ptr : a \in reach[k - 1]}
  IN reach[MaxHeap]

Units(a, n) == a..(a + n - 1)

(* The blocks that are handed out and those on the free list are disjoint  *)
(* and together all the memory malloc got: none is lost, given out twice,  *)
(* or as small as not to hold its header and bytes.  The list is one ring  *)
(* in the order of addresses, and neighbours in it are joined.             *)
HeapExact ==
  freep # Null =>
    LET L == FreeList
        blocks == {<<a, hdr[a].size>> : a \in L \ {Base}} \cup {<<a, taken[a]>> : a \in DOMAIN taken}
        after(a) == LET up == {b \in L : b > a} IN IF up = {} THEN Base ELSE Min(up)
    IN /\ freep \in L /\ \A a \in L : hdr[a].ptr = after(a) /\ after(a) \notin {a + hdr[a].size} \ {Base}
       /\ UNION {Units(x[1], x[2]) : x \in blocks} = (1..(brk - 1)) \ others
       /\ \A x, y \in blocks : x # y => Units(x[1], x[2]) \cap Units(y[1], y[2]) = {}
=============================================================================
