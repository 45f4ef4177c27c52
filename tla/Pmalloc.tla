------------------------------ MODULE Pmalloc ------------------------------
(***************************************************************************)
(* pmalloc.c as it is written: two doubly linked lists of headers kept in  *)
(* the memory they manage, sorted by address, and three uint32_t counters. *)
(*                                                                         *)
(* An address counts header-sized cells from the start of memory, since    *)
(* every sum in the code is on an ll_item_t pointer: one header is Hdr     *)
(* cells further than the code means, and so is every byte of a size.      *)
(* Sizes are in bytes and wrap at U32.  InsideArea says what that costs.   *)
(***************************************************************************)
EXTENDS Integers, FiniteSets, FiniteSetsExt

CONSTANTS
  Hdr,        \* sizeof(ll_item_t)
  U32,        \* 2^32
  Areas,      \* what the host hands to paddblock, records [base, size]
  Requests,   \* sizes asked for
  Nums,       \* first arguments of pcalloc
  Stale,      \* what a pointer field of untouched memory may hold
  NULL

VARIABLES
  added,       \* the areas given to paddblock so far
  heap,        \* [node: the headers in memory, root: the two list heads]
  freemem,     \* __freemem
  totalmem,    \* __totalmem
  totalnodes,  \* __totalnodes
  held         \* what callers hold: user pointer -> bytes asked for

vars == <<added, heap, freemem, totalmem, totalnodes, held>>

ASSUME PmallocAssumption ==
  /\ Hdr \in Nat \ {0} /\ U32 \in Nat \ {0}
  /\ Areas \subseteq [base : Nat, size : Hdr .. U32 - 1]
  /\ Requests \subseteq 0 .. U32 - 1 /\ Nums \subseteq 0 .. U32 - 1
  /\ NULL \in Stale /\ NULL \notin Nat

AreaEnd(r) == r.base + r.size
Lists == {"available", "assigned"}

---------------------------------------------------------------------------
(* The linked lists.  h is a value of heap. *)

(* Mutant of LLRemove: the root is not fixed up. *)
LLRemoveKeepsRoot(h, l, n) ==
  LET p == h.node[n].prev
      q == h.node[n].next
  IN  [h EXCEPT !.node = [a \in DOMAIN @ |->
                   CASE a = n -> [@[n] EXCEPT !.prev = NULL, !.next = NULL]
                     [] a = p -> [@[p] EXCEPT !.next = q]
                     [] a = q -> [@[q] EXCEPT !.prev = p]
                     [] OTHER -> @[a]]]

(* ll_remove: unlink n, move the root to its neighbour if n was the root.  *)
LLRemove(h, l, n) ==
  LET p == h.node[n].prev
      q == h.node[n].next
  IN  [node |-> [a \in DOMAIN h.node |->
                   CASE a = n -> [h.node[n] EXCEPT !.prev = NULL, !.next = NULL]
                     [] a = p -> [h.node[p] EXCEPT !.next = q]
                     [] a = q -> [h.node[q] EXCEPT !.prev = p]
                     [] OTHER -> h.node[a]],
       root |-> IF h.root[l] = n
                THEN [h.root EXCEPT ![l] = IF p # NULL THEN p ELSE q]
                ELSE h.root]

(* The loop of ll_insert_sorted: the last header of list l before n. *)
Predecessor(h, l, n) ==
  LET walk[c \in DOMAIN h.node] ==
        LET q == h.node[c].next
        IN  IF q # NULL /\ n > q THEN walk[q] ELSE c
  IN  walk[h.root[l]]

(* Mutant of LLInsertSorted: in the middle, the next header's prev is      *)
(* forgotten.                                                              *)
LLInsertOneWay(h, l, n) ==
  CASE h.root[l] = NULL ->
         [node |-> [h.node EXCEPT ![n].prev = NULL, ![n].next = NULL],
          root |-> [h.root EXCEPT ![l] = n]]
    [] h.root[l] # NULL /\ n < h.root[l] ->
         [node |-> [h.node EXCEPT ![h.root[l]].prev = n, ![n].next = h.root[l]],
          root |-> [h.root EXCEPT ![l] = n]]
    [] h.root[l] # NULL /\ n >= h.root[l] ->
         LET c == Predecessor(h, l, n)
             q == h.node[c].next
         IN  [h EXCEPT !.node = [@ EXCEPT ![n].prev = c, ![c].next = n, ![n].next = q]]

(* ll_insert_sorted.  The prev of a new first header and the next of a new *)
(* last one keep what they held.                                           *)
LLInsertSorted(h, l, n) ==
  CASE h.root[l] = NULL ->
         [node |-> [h.node EXCEPT ![n].prev = NULL, ![n].next = NULL],
          root |-> [h.root EXCEPT ![l] = n]]
    [] h.root[l] # NULL /\ n < h.root[l] ->
         [node |-> [h.node EXCEPT ![h.root[l]].prev = n, ![n].next = h.root[l]],
          root |-> [h.root EXCEPT ![l] = n]]
    [] h.root[l] # NULL /\ n >= h.root[l] ->
         LET c == Predecessor(h, l, n)
             q == h.node[c].next
         IN  [h EXCEPT !.node =
                IF q = NULL
                THEN [@ EXCEPT ![n].prev = c, ![c].next = n]
                ELSE [@ EXCEPT ![c].next = n, ![n].prev = c,
                               ![n].next = q, ![q].prev = n]]

(* A header at n whose links were never set. *)
NewHeader(h, n, p, q, s) ==
  [node |-> [a \in DOMAIN h.node \cup {n} |->
               IF a = n THEN [prev |-> p, next |-> q, size |-> s] ELSE h.node[a]],
   root |-> h.root]

(* pmalloc's search: the first available block of at least n bytes. *)
FirstFit(n) ==
  LET fit[c \in DOMAIN heap.node] ==
        CASE heap.node[c].size >= n   -> c
          [] heap.node[c].size < n /\ heap.node[c].next # NULL -> fit[heap.node[c].next]
          [] OTHER -> NULL
  IN  IF heap.root["available"] = NULL THEN NULL ELSE fit[heap.root["available"]]

---------------------------------------------------------------------------
Init ==
  /\ added = {}
  /\ heap = [node |-> <<>>, root |-> [l \in Lists |-> NULL]]
  /\ freemem = 0
  /\ totalmem = 0
  /\ totalnodes = 0
  /\ held = <<>>

(* In the operations, links is what the two link fields of a header may    *)
(* hold that is written to memory of no header yet.                        *)
Paddblock(r, links) ==
  /\ r \notin added
  /\ added' = added \cup {r}
  /\ \E p, q \in links :
       heap' = LLInsertSorted(NewHeader(heap, r.base, p, q, (r.size - Hdr) % U32),
                              "available", r.base)
  /\ freemem' = (freemem + r.size - Hdr) % U32
  /\ totalmem' = (totalmem + freemem') % U32
  /\ totalnodes' = (totalnodes + 1) % U32
  /\ UNCHANGED held

(* pmalloc(n) for a caller that asked for `asked' bytes. *)
Allocate(n, asked, links) ==
  LET cur  == FirstFit(n)
      taken == LLInsertSorted(LLRemove(heap, "available", cur), "assigned", cur)
      rest == cur + Hdr + n
      left == (heap.node[cur].size - Hdr - n) % U32
  IN
  /\ cur # NULL
  /\ held' = [p \in DOMAIN held \cup {cur + Hdr} |->
                IF p = cur + Hdr THEN asked ELSE held[p]]
  /\ \/ /\ heap.node[cur].size = n
        /\ heap' = taken
        /\ freemem' = (freemem - n) % U32
        /\ UNCHANGED totalnodes
     \/ /\ heap.node[cur].size # n
        /\ \E p, q \in links :
             heap' = LLInsertSorted(
                       NewHeader([taken EXCEPT !.node[cur].size = n], rest, p, q, left),
                       "available", rest)
        /\ freemem' = (freemem - Hdr - n) % U32
        /\ totalnodes' = (totalnodes + 1) % U32
  /\ UNCHANGED <<added, totalmem>>

(* A failed search changes nothing. *)
OutOfMemory(n) ==
  /\ FirstFit(n) = NULL
  /\ UNCHANGED vars

Pmalloc(n, links) == Allocate(n, n, links) \/ OutOfMemory(n)

(* pcalloc multiplies in 32 bits; what it clears are bytes of the user's. *)
Pcalloc(num, n, links) ==
  LET bytes == (num * n) % U32
  IN  Allocate(bytes, num * n, links) \/ OutOfMemory(bytes)

(* Mutant of LowEnd: pfree does not scan backward. *)
LowEndHere(h, n) == n

(* pfree's loops: back over contiguous blocks, then swallow forward. *)
LowEnd(h, n) ==
  LET back[c \in DOMAIN h.node] ==
        LET p == h.node[c].prev
        IN  IF p # NULL /\ c = p + Hdr + h.node[p].size THEN back[p] ELSE c
  IN  back[n]

(* Mutant of MergeForward: the swallowed header stays linked. *)
MergeForwardLinked(s, n) ==
  LET h == s.heap
      q == h.node[n].next
  IN  [heap |-> [h EXCEPT !.node =
                   [a \in DOMAIN @ \ {q} |->
                      IF a = n THEN [@[n] EXCEPT !.size = (@ + h.node[q].size + Hdr) % U32]
                               ELSE @[a]]],
       freemem |-> (s.freemem + Hdr) % U32,
       totalnodes |-> (s.totalnodes - 1) % U32]

(* Mutant of MergeForward: the header that disappears is not credited to   *)
(* the free memory.                                                        *)
MergeForwardUncounted(s, n) ==
  LET h == s.heap
      q == h.node[n].next
      out == LLRemove(h, "available", q)
  IN  [heap |-> [node |-> [a \in DOMAIN h.node \ {q} |->
                   IF a = n THEN [out.node[n] EXCEPT !.size = (@ + h.node[q].size + Hdr) % U32]
                            ELSE out.node[a]],
                 root |-> out.root],
       freemem |-> s.freemem,
       totalnodes |-> (s.totalnodes - 1) % U32]

MergeForward(s, n) ==
  LET h == s.heap
      q == h.node[n].next
      out == LLRemove(h, "available", q)
  IN  [heap |-> [node |-> [a \in DOMAIN h.node \ {q} |->
                   IF a = n THEN [out.node[n] EXCEPT !.size = (@ + h.node[q].size + Hdr) % U32]
                            ELSE out.node[a]],
                 root |-> out.root],
       freemem |-> (s.freemem + Hdr) % U32,
       totalnodes |-> (s.totalnodes - 1) % U32]

MergeAll(s, n) ==
  LET merge[k \in Nat] ==
        LET t == IF k = 0 THEN s ELSE merge[k - 1]
            q == t.heap.node[n].next
        IN  IF q # NULL /\ q = n + Hdr + t.heap.node[n].size
            THEN MergeForward(t, n) ELSE t
  IN  merge[Cardinality(DOMAIN s.heap.node)]

Pfree(ptr) ==
  LET n == ptr - Hdr
      h == LLInsertSorted(LLRemove(heap, "assigned", n), "available", n)
      s == MergeAll([heap |-> h, freemem |-> (freemem + heap.node[n].size) % U32,
                     totalnodes |-> totalnodes],
                    LowEnd(h, n))
  IN
  /\ heap' = s.heap
  /\ freemem' = s.freemem
  /\ totalnodes' = s.totalnodes
  /\ held' = [p \in DOMAIN held \ {ptr} |-> held[p]]
  /\ UNCHANGED <<added, totalmem>>

Next ==
  \/ \E r \in Areas : Paddblock(r, Stale)
  \/ \E n \in Requests : Pmalloc(n, Stale)
  \/ \E num \in Nums, n \in Requests : Pcalloc(num, n, Stale)
  \/ \E ptr \in DOMAIN held : Pfree(ptr)

Spec == Init /\ [][Next]_vars

---------------------------------------------------------------------------
(* The headers reachable from the head of list l. *)
Members(h, l) ==
  LET chain[c \in DOMAIN h.node] ==
        {c} \cup (IF h.node[c].next = NULL THEN {} ELSE chain[h.node[c].next])
  IN  IF h.root[l] = NULL THEN {} ELSE chain[h.root[l]]

Pointers == DOMAIN heap.node \cup {NULL}

(* What each header says its block holds. *)
Sizes == [n \in DOMAIN heap.node |-> heap.node[n].size]

(* The abstract heap this one is meant to be. *)
H == INSTANCE Heap WITH
       Requests <- Requests \cup {(num * n) % U32 : num \in Nums, n \in Requests},
       given <- added,
       free <- Members(heap, "available"),
       used <- Members(heap, "assigned"),
       size <- Sizes

(* Types of the variables: links are NULL or lead to a header, and every   *)
(* counter and size fits in a uint32_t.                                    *)
TypeOK ==
  /\ added \subseteq Areas
  /\ heap.node \in [DOMAIN heap.node ->
                      [prev : Pointers, next : Pointers, size : 0 .. U32 - 1]]
  /\ heap.root \in [Lists -> Pointers]
  /\ {freemem, totalmem, totalnodes} \subseteq 0 .. U32 - 1
  /\ \A p \in DOMAIN held : p - Hdr \in DOMAIN heap.node

(* Both lists are well formed: sorted by address, prev undoing next, the   *)
(* head without a prev; and each header is on exactly one of them.         *)
ListsSound ==
  /\ Members(heap, "available") \cup Members(heap, "assigned") = DOMAIN heap.node
  /\ Members(heap, "available") \cap Members(heap, "assigned") = {}
  /\ \A l \in Lists : heap.root[l] # NULL => heap.node[heap.root[l]].prev = NULL
  /\ \A n \in DOMAIN heap.node :
       LET q == heap.node[n].next IN q # NULL => n < q /\ heap.node[q].prev = n

(* The assigned list is exactly what callers hold, and psizeof tells each  *)
(* of them the number of bytes it asked for (tests/asm_test.c:324-326).    *)
HeldSound ==
  /\ Members(heap, "assigned") = {p - Hdr : p \in DOMAIN held}
  /\ \A p \in DOMAIN held : heap.node[p - Hdr].size = held[p]

(* The counters kept beside the lists agree with them: __freemem is what   *)
(* the available blocks add up to, and free, used and header bytes add up  *)
(* to the areas.  While there is one area, __totalmem is what it can hold, *)
(* and so pusedmem, which subtracts __freemem from it, is what is used up. *)
(* With a second area line 43 adds what is free in the first one again.    *)
Accounts ==
  /\ totalnodes = Cardinality(DOMAIN heap.node)
  /\ freemem = SumFunctionOnSet(Sizes, Members(heap, "available"))
  /\ freemem + SumFunctionOnSet(Sizes, Members(heap, "assigned")) + Hdr * totalnodes
       = SumFunctionOnSet([r \in Areas |-> r.size], added)
  /\ \A r \in Areas : added = {r} => totalmem = r.size - Hdr

(* Every step of the list code is a step of the abstract heap: what Heap   *)
(* promises of pmalloc and pfree, its proved invariants included, holds    *)
(* of the linked lists.                                                    *)
HeapSpec == H!Spec

---------------------------------------------------------------------------
(* What the comments say and the code does not do. *)

(* pmalloc.h:7: pmalloc "returns NULL if out of memory", so what it does   *)
(* return lies within an area.                                             *)
HandedOutFits ==
  \A p \in DOMAIN held :
    \E r \in added : r.base + Hdr <= p /\ p + held[p] <= AreaEnd(r)

(* pmalloc.c:7-8: sub-allocation "within an area of memory given by the    *)
(* OS".  The same in bytes: a cell is Hdr bytes wide.                      *)
InsideArea ==
  \A p \in DOMAIN held :
    \E r \in added : p >= r.base /\ Hdr * (p - r.base) + held[p] <= r.size

(* pmalloc.c:21-22: prev and next are the previous and next block "in the  *)
(* chain", so of a list header they lead to a header or nowhere.           *)
ChainEnds ==
  \A n \in DOMAIN heap.node : heap.node[n].prev \in Pointers /\ heap.node[n].next \in Pointers

=============================================================================
