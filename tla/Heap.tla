------------------------------- MODULE Heap -------------------------------
(***************************************************************************)
(* What the heap manager of pmalloc.c promises.  Areas handed over with    *)
(* paddblock are tiled by blocks; a block is a header of Hdr cells         *)
(* followed by `size' cells for the user, and is either free or used.      *)
(* The two linked lists of the code are two sets here: which free block    *)
(* pmalloc picks, and how the lists are kept, is Pmalloc's matter.         *)
(*                                                                         *)
(* An address counts header-sized cells, as the code's arithmetic on       *)
(* ll_item_t pointers does.  A request that would leave a remainder        *)
(* smaller than a header is outside this specification: the code's         *)
(* unsigned subtraction wraps there, which Pmalloc shows.                  *)
(***************************************************************************)
EXTENDS Integers

CONSTANTS
  Hdr,        \* sizeof(ll_item_t)
  Areas,      \* the areas the host may hand over, records [base, size]
  Requests    \* the sizes a caller may ask for

AreaEnd(r) == r.base + r.size

ASSUME HdrAssumption == Hdr \in Nat \ {0}

ASSUME AreasAssumption ==
  /\ Areas \subseteq [base : Nat, size : Nat]
  /\ \A r \in Areas : r.size >= Hdr
  /\ \A r, s \in Areas : r # s => \/ AreaEnd(r) < s.base
                                  \/ AreaEnd(s) < r.base

ASSUME RequestsAssumption == Requests \subseteq Nat

VARIABLES
  given,   \* the areas paddblock was given
  free,    \* addresses of the headers in __available
  used,    \* addresses of the headers in __assigned
  size     \* what each header says its block holds for the user

vars == <<given, free, used, size>>

Blocks == free \cup used
End(b) == b + Hdr + size[b]

Init ==
  /\ given = {}
  /\ free = {}
  /\ used = {}
  /\ size = [b \in {} |-> 0]

(* paddblock: the whole area becomes one free block. *)
AddArea(r) ==
  /\ r \notin given
  /\ given' = given \cup {r}
  /\ free' = free \cup {r.base}
  /\ used' = used
  /\ size' = [b \in Blocks \cup {r.base} |-> IF b = r.base THEN r.size - Hdr ELSE size[b]]

(* pmalloc, the block found has exactly the size asked for. *)
TakeWhole(b, n) ==
  /\ size[b] = n
  /\ free' = free \ {b}
  /\ used' = used \cup {b}
  /\ UNCHANGED <<given, size>>

(* Mutant of Split: no room is required for the remainder's header. *)
SplitUnchecked(b, n) ==
  LET rest == b + Hdr + n IN
  /\ size[b] > n
  /\ free' = (free \ {b}) \cup {rest}
  /\ used' = used \cup {b}
  /\ size' = [c \in Blocks \cup {rest} |->
                CASE c = b    -> n
                  [] c = rest -> size[b] - Hdr - n
                  [] OTHER    -> size[c]]
  /\ UNCHANGED given

(* Mutant of Split: the remainder is not charged for its header. *)
SplitFreeHeader(b, n) ==
  LET rest == b + Hdr + n IN
  /\ size[b] >= n + Hdr
  /\ free' = (free \ {b}) \cup {rest}
  /\ used' = used \cup {b}
  /\ size' = [c \in Blocks \cup {rest} |->
                CASE c = b    -> n
                  [] c = rest -> size[b] - n
                  [] OTHER    -> size[c]]
  /\ UNCHANGED given

(* pmalloc, the block found is larger: the remainder gets a header. *)
Split(b, n) ==
  LET rest == b + Hdr + n IN
  /\ size[b] >= n + Hdr
  /\ free' = (free \ {b}) \cup {rest}
  /\ used' = used \cup {b}
  /\ size' = [c \in Blocks \cup {rest} |->
                CASE c = b    -> n
                  [] c = rest -> size[b] - Hdr - n
                  [] OTHER    -> size[c]]
  /\ UNCHANGED given

(* Mutant of IsLow: pfree does not look back. *)
IsLowNever(lo, b) == lo = b

(* Mutant of IsHigh: pfree does not look forward. *)
IsHighNever(hi, b) == hi = b

(* The free block that ends where b starts, b itself when there is none;   *)
(* and the free block that starts where b ends, or b.                      *)
IsLow(lo, b) ==
  \/ lo \in free /\ End(lo) = b
  \/ lo = b /\ \A c \in free : End(c) # b
IsHigh(hi, b) ==
  \/ hi \in free /\ hi = End(b)
  \/ hi = b /\ End(b) \notin free

(* Mutant of Release: a merged block loses one header. *)
ReleaseDropsHeader(b) ==
  \E lo, hi \in free \cup {b} :
    /\ IsLow(lo, b)
    /\ IsHigh(hi, b)
    /\ used' = used \ {b}
    /\ free' = (free \ {hi}) \cup {lo}
    /\ size' = [c \in free' \cup used' |->
                  IF c = lo /\ lo # hi THEN size[lo] + size[hi] ELSE size[c]]
    /\ UNCHANGED given

(* Mutant of Release: looking back, it does not ask whether the block is   *)
(* free.                                                                   *)
ReleaseIntoUsed(b) ==
  \E lo \in Blocks :
    /\ End(lo) = b \/ (lo = b /\ \A c \in Blocks : End(c) # b)
    /\ used' = used \ {b}
    /\ free' = IF lo = b THEN free \cup {b} ELSE free
    /\ size' = [c \in free' \cup used' |-> IF c = lo THEN End(b) - lo - Hdr ELSE size[c]]
    /\ UNCHANGED given

(* pfree: b and its free neighbours become one block. *)
Release(b) ==
  \E lo, hi \in free \cup {b} :
    /\ IsLow(lo, b)
    /\ IsHigh(hi, b)
    /\ used' = used \ {b}
    /\ free' = (free \ {hi}) \cup {lo}
    /\ size' = [c \in free' \cup used' |->
                  IF c = lo THEN End(hi) - lo - Hdr ELSE size[c]]
    /\ UNCHANGED given

Allocate ==
  \E n \in Requests, b \in free : TakeWhole(b, n) \/ Split(b, n)

Next ==
  \/ \E r \in Areas : AddArea(r)
  \/ Allocate
  \/ \E b \in used : Release(b)

Spec == Init /\ [][Next]_vars

---------------------------------------------------------------------------
(* The lists are disjoint sets of addresses and every listed header has a  *)
(* size.                                                                   *)
TypeOK ==
  /\ given \subseteq Areas
  /\ free \subseteq Nat
  /\ used \subseteq Nat
  /\ free \cap used = {}
  /\ size \in [Blocks -> Nat]

(* No two blocks share a cell: what one user writes never reaches another  *)
(* user's block or any header.                                             *)
Disjoint ==
  \A b, c \in Blocks : b # c => End(b) <= c \/ End(c) <= b

(* Every block, header included, lies in an area that was given. *)
InAreas ==
  \A b \in Blocks : \E r \in given : r.base <= b /\ End(b) <= AreaEnd(r)

(* The blocks tile the areas: after a block comes another one or the end   *)
(* of an area.  Nothing leaks however long the heap is used.               *)
Tiled ==
  /\ \A r \in given : r.base \in Blocks
  /\ \A b \in Blocks : End(b) \in Blocks \/ \E r \in given : End(b) = AreaEnd(r)

(* pfree merges on both sides, so free blocks never touch. *)
Coalesced ==
  \A b \in free : End(b) \notin free

(* When the last block is freed the heap is as it was when the areas were  *)
(* given: one free block each, of the whole usable size.                   *)
Restored ==
  used = {} => /\ free = {r.base : r \in given}
               /\ \A r \in given : size[r.base] = r.size - Hdr

(* A block handed out keeps its place and its size until it is freed,      *)
(* whatever pmalloc and pfree do around it (psizeof is stable).            *)
LiveBlocksStable ==
  [][\A b \in used \cap used' : size'[b] = size[b]]_vars

=============================================================================
