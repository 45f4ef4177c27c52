--------------------------- MODULE PmallocProofs ---------------------------
(***************************************************************************)
(* The linked lists of pmalloc.c implement the abstract heap of Heap, for  *)
(* every set of areas, every header size and every sequence of calls that  *)
(* meets the conditions PmallocOrderly puts on a call, whatever the sizes  *)
(* asked for.  Two things are assumed of the areas: no two touch, and      *)
(* their sizes together fit a word.                                        *)
(*                                                                         *)
(* The inductive invariant Inv says three things.  The memory holds two    *)
(* lists (Shape), which the loops need to come to the right place.  The    *)
(* sets they hold satisfy the invariant of Heap (HeapInv): no two blocks   *)
(* overlap and no two available ones touch, without which one pass of      *)
(* pfree would not merge all there is to merge, and a split could write    *)
(* its header over another.  And sizes and counters agree: __freemem and   *)
(* __totalnodes are what the lists add up to; __totalmem is right while    *)
(* there is one area; the blocks fill the areas; and the assigned list is  *)
(* what callers hold.  None of the three is inductive alone.  A step is    *)
(* proved to be a step of Heap first, then HeapProofs gives HeapInv after  *)
(* it.                                                                     *)
(*                                                                         *)
(* First comes what ll_insert_sorted and ll_remove do to a list.  A list   *)
(* is known by the set F of its headers: Chain says that its links lead    *)
(* through F in the order of addresses, and that its prevs lead back.      *)
(* Inserting or removing a header changes F by that header and nothing     *)
(* else; so do the moves of pmalloc and pfree from list to list, and       *)
(* Shape, the two lists side by side, is what each of them keeps.  The     *)
(* effects are stated of any heap and any two sets, not of the state, for  *)
(* pmalloc and pfree make several of them in one step.                     *)
(***************************************************************************)
EXTENDS PmallocOrderly, Walks

(* A heap whose headers are at D, with links that stay within D. *)
HeaderOver(D) == [prev : D \cup {NULL}, next : D \cup {NULL}, size : 0 .. U32 - 1]
HeapOver(D) == [node : [D -> HeaderOver(D)], root : [Lists -> D \cup {NULL}]]

(* q is what follows a in F, p what comes before it, NULL for nothing. *)
IsNext(q, a, F) ==
  IF q = NULL THEN \A b \in F : b <= a ELSE q \in Nat /\ q \in F /\ a < q /\ \A b \in F : b <= a \/ q <= b
IsPrev(p, a, F) ==
  IF p = NULL THEN \A b \in F : a <= b
  ELSE p \in Nat /\ p \in F /\ p < a /\ \A b \in F : b <= p \/ a <= b

(* List l of h holds exactly the headers in F, in the order of addresses. *)
Chain(h, l, F) ==
  /\ IF h.root[l] = NULL THEN F = {}
     ELSE h.root[l] \in F /\ \A b \in F : h.root[l] <= b
  /\ \A a \in F : IsPrev(h.node[a].prev, a, F) /\ IsNext(h.node[a].next, a, F)

(* The same in a heap whose headers are at D. *)
Bounded(D) == D \in SUBSET Nat /\ \E N \in Nat : \A a \in D : a <= N
OnList(h, D, l, F) ==
  Bounded(D) /\ h \in HeapOver(D) /\ F \in SUBSET D /\ Chain(h, l, F)

(* A header whose links are clear. *)
Loose(h, n) == h.node[n].prev = NULL /\ h.node[n].next = NULL

(* g differs from h in the links of the headers F of list l and in its     *)
(* root, and in nothing else.                                              *)
Keeps(g, h, D, l, F) ==
  /\ \A a \in D : g.node[a].size = h.node[a].size
  /\ \A a \in D \ F : g.node[a] = h.node[a]
  /\ \A m \in Lists \ {l} : g.root[m] = h.root[m]

(* A list is what it was if its root and the links of its headers are. *)
LEMMA ChainFrame ==
  ASSUME NEW h, NEW g, NEW l, NEW F, Chain(h, l, F), g.root[l] = h.root[l],
         \A a \in F : g.node[a].prev = h.node[a].prev /\ g.node[a].next = h.node[a].next
  PROVE  Chain(g, l, F)
BY DEF Chain

(* What a member's prev and next have to do with one another. *)
LEMMA ChainLinks ==
  ASSUME NEW F \in SUBSET Nat, NEW h, NEW l, Chain(h, l, F), NEW a \in F
  PROVE  /\ h.root[l] # NULL /\ h.root[l] \in F
         /\ h.node[a].prev = NULL <=> h.root[l] = a
         /\ h.node[a].prev # NULL =>
              h.node[a].prev \in F /\ h.node[a].prev < a /\ h.node[h.node[a].prev].next = a
         /\ h.node[a].next # NULL =>
              h.node[a].next \in F /\ a < h.node[a].next /\ h.node[h.node[a].next].prev = a
<1>1. NULL \notin F
  BY PmallocAssumption
<1>2. h.root[l] \in F /\ (\A b \in F : h.root[l] <= b) /\ h.root[l] # NULL
  BY <1>1 DEF Chain
<1>3. IsPrev(h.node[a].prev, a, F) /\ IsNext(h.node[a].next, a, F)
  BY DEF Chain
<1>4. h.node[a].prev = NULL <=> h.root[l] = a
  <2> DEFINE r == h.root[l]
             p == h.node[a].prev
  <2>1. r \in Nat /\ a \in Nat /\ r \in F /\ (\A b \in F : r <= b) /\ IsPrev(p, a, F)
    BY <1>2, <1>3
  <2> HIDE DEF r, p
  <2>2. p = NULL => r = a
    BY <2>1 DEF IsPrev
  <2>3. p # NULL => r # a
    BY <2>1 DEF IsPrev
  <2> QED BY <2>2, <2>3 DEF r, p
<1>5. ASSUME h.node[a].prev # NULL
      PROVE  h.node[a].prev \in F /\ h.node[a].prev < a /\ h.node[h.node[a].prev].next = a
  <2> DEFINE p == h.node[a].prev
  <2>1. p \in Nat /\ p \in F /\ p < a /\ \A b \in F : b <= p \/ a <= b
    BY <1>3, <1>5 DEF IsPrev
  <2> DEFINE q == h.node[p].next
  <2>2. IsNext(q, p, F)
    BY <2>1 DEF Chain
  <2>3. a \in Nat
    OBVIOUS
  <2> HIDE DEF p, q
  <2>4. q = a
    <3>1. q # NULL
      BY <2>1, <2>2, <2>3 DEF IsNext
    <3>2. q \in Nat /\ q \in F /\ p < q /\ \A b \in F : b <= p \/ q <= b
      BY <2>2, <3>1 DEF IsNext
    <3>3. q <= a /\ a <= q
      BY <2>1, <2>3, <3>2
    <3> QED BY <2>3, <3>2, <3>3
  <2> QED BY <2>1, <2>4 DEF p, q
<1>6. ASSUME h.node[a].next # NULL
      PROVE  h.node[a].next \in F /\ a < h.node[a].next /\ h.node[h.node[a].next].prev = a
  <2> DEFINE q == h.node[a].next
  <2>1. q \in Nat /\ q \in F /\ a < q /\ \A b \in F : b <= a \/ q <= b
    BY <1>3, <1>6 DEF IsNext
  <2>2. IsPrev(h.node[q].prev, q, F)
    BY <2>1 DEF Chain
  <2> QED BY <2>1, <2>2 DEF IsPrev
<1> QED BY <1>2, <1>4, <1>5, <1>6

(* ll_remove takes n off its list and clears its links, and touches no     *)
(* header of another list.                                                 *)
LEMMA RemoveEffect ==
  ASSUME NEW h, NEW D, NEW l \in Lists, NEW F, OnList(h, D, l, F), NEW n \in F
  PROVE  LET g == LLRemove(h, l, n)
         IN  OnList(g, D, l, F \ {n}) /\ Keeps(g, h, D, l, F) /\ Loose(g, n)
<1> SUFFICES ASSUME D \in SUBSET Nat, h \in HeapOver(D), F \in SUBSET D, Chain(h, l, F)
             PROVE  LET g == LLRemove(h, l, n)
                    IN  OnList(g, D, l, F \ {n}) /\ Keeps(g, h, D, l, F) /\ Loose(g, n)
  BY DEF OnList, Bounded
<1> DEFINE g == LLRemove(h, l, n)
           p == h.node[n].prev
           q == h.node[n].next
<1>1. NULL \notin D /\ NULL \notin F /\ \A a \in D : a \in Nat
  BY PmallocAssumption
<1>2. /\ h.root[l] \in F /\ n \in D
      /\ p = NULL <=> h.root[l] = n
      /\ p # NULL => p \in F /\ p < n
      /\ q # NULL => q \in F /\ n < q
      /\ p # n /\ q # n /\ (q # NULL => q # p)
  <2>1. /\ h.root[l] \in F /\ n \in D
        /\ p = NULL <=> h.root[l] = n
        /\ p # NULL => p \in F /\ p < n
        /\ q # NULL => q \in F /\ n < q
    <3>1. F \in SUBSET Nat
      OBVIOUS
    <3> QED BY <3>1, ChainLinks
  <2>2. ASSUME q # NULL, p # NULL PROVE q # p
    <3>1. p \in Nat /\ q \in Nat /\ n \in Nat /\ p < n /\ n < q
      BY <2>1, <2>2, <1>1
    <3> QED BY <3>1
  <2>3. ASSUME p # NULL PROVE p # n
    <3>1. p \in Nat /\ n \in Nat /\ p < n
      BY <2>1, <2>3, <1>1
    <3> QED BY <3>1
  <2>4. ASSUME q # NULL PROVE q # n
    <3>1. q \in Nat /\ n \in Nat /\ n < q
      BY <2>1, <2>4, <1>1
    <3> QED BY <3>1
  <2>5. NULL # n
    BY <1>1
  <2> QED BY <2>1, <2>2, <2>3, <2>4, <2>5
<1>3. /\ g.node = [a \in DOMAIN h.node |->
                   CASE a = n -> [h.node[n] EXCEPT !.prev = NULL, !.next = NULL]
                     [] a = p -> [h.node[p] EXCEPT !.next = q]
                     [] a = q -> [h.node[q] EXCEPT !.prev = p]
                     [] OTHER -> h.node[a]]
      /\ g.root = IF h.root[l] = n
                  THEN [h.root EXCEPT ![l] = IF p # NULL THEN p ELSE q]
                  ELSE h.root
      /\ g = [node |-> g.node, root |-> g.root]
  BY DEF LLRemove
<1>4. /\ DOMAIN h.node = D
      /\ \A a \in D : h.node[a] \in HeaderOver(D)
      /\ h.root \in [Lists -> D \cup {NULL}]
  BY DEF HeapOver
<1>5. /\ g.node[n] = [prev |-> NULL, next |-> NULL, size |-> h.node[n].size]
      /\ p # NULL => g.node[p] = [prev |-> h.node[p].prev, next |-> q, size |-> h.node[p].size]
      /\ q # NULL => g.node[q] = [prev |-> p, next |-> h.node[q].next, size |-> h.node[q].size]
      /\ \A a \in D \ {n, p, q} : g.node[a] = h.node[a]
      /\ DOMAIN g.node = D
  <2>1. \A a \in D : h.node[a] = [prev |-> h.node[a].prev, next |-> h.node[a].next, size |-> h.node[a].size]
    BY <1>4 DEF HeaderOver
  <2>2. n \in D /\ (p # NULL => p \in D /\ p # n) /\ (q # NULL => q \in D /\ q # n /\ q # p)
    BY <1>1, <1>2
  <2>3. NULL \notin D
    BY <1>1
  <2> HIDE DEF p, q, g
  <2>4. DOMAIN g.node = D
    BY <1>3, <1>4
  <2>5. g.node[n] = [h.node[n] EXCEPT !.prev = NULL, !.next = NULL]
    BY <1>3, <1>4, <2>2, <2>3
  <2>6. p # NULL => g.node[p] = [h.node[p] EXCEPT !.next = q]
    BY <1>3, <1>4, <2>2, <2>3
  <2>7. q # NULL => g.node[q] = [h.node[q] EXCEPT !.prev = p]
    BY <1>3, <1>4, <2>2, <2>3
  <2>8. \A a \in D \ {n, p, q} : g.node[a] = h.node[a]
    BY <1>3, <1>4, <2>2, <2>3
  <2>9. g.node[n] = [prev |-> NULL, next |-> NULL, size |-> h.node[n].size]
    BY <2>1, <2>2, <2>5
  <2>10. p # NULL => g.node[p] = [prev |-> h.node[p].prev, next |-> q, size |-> h.node[p].size]
    BY <2>1, <2>2, <2>6
  <2>11. q # NULL => g.node[q] = [prev |-> p, next |-> h.node[q].next, size |-> h.node[q].size]
    BY <2>1, <2>2, <2>7
  <2> QED BY <2>4, <2>8, <2>9, <2>10, <2>11
<1>6. /\ g.root \in [Lists -> D \cup {NULL}]
      /\ \A m \in Lists \ {l} : g.root[m] = h.root[m]
      /\ g.root[l] = IF p = NULL THEN q ELSE h.root[l]
  <2> DEFINE r == g.root
             s == h.root
  <2>1. r = (IF s[l] = n THEN [s EXCEPT ![l] = IF p # NULL THEN p ELSE q] ELSE s)
    BY <1>3
  <2>2. s \in [Lists -> D \cup {NULL}] /\ l \in Lists
    BY <1>1, <1>4
  <2>3. (p = NULL <=> s[l] = n) /\ (p # NULL => p \in D) /\ (q # NULL => q \in D)
    BY <1>1, <1>2
  <2> HIDE DEF r, s, p, q, g
  <2>4. r \in [Lists -> D \cup {NULL}]
    BY <2>1, <2>2, <2>3
  <2>5. \A m \in Lists \ {l} : r[m] = s[m]
    BY <2>1, <2>2
  <2>6. r[l] = IF p = NULL THEN q ELSE s[l]
    BY <2>1, <2>2, <2>3
  <2> QED BY <2>4, <2>5, <2>6 DEF r, s
<1> HIDE DEF g
<1>7. g \in HeapOver(D)
  <2>1. g.node = [a \in D |-> g.node[a]]
    BY <1>3, <1>5
  <2>2. \A a \in D : g.node[a] \in HeaderOver(D)
    BY <1>1, <1>2, <1>4, <1>5 DEF HeaderOver
  <2>3. g.node \in [D -> HeaderOver(D)]
    BY <2>1, <2>2
  <2> HIDE DEF g
  <2> QED BY <2>3, <1>3, <1>6 DEF HeapOver
<1>8. Keeps(g, h, D, l, F)
  BY <1>1, <1>2, <1>4, <1>5, <1>6 DEF Keeps
<1>9. Chain(g, l, F \ {n})
  <2>1. IsPrev(p, n, F) /\ IsNext(q, n, F)
    BY DEF Chain
  <2>2. IF g.root[l] = NULL THEN F \ {n} = {}
        ELSE g.root[l] \in F \ {n} /\ \A b \in F \ {n} : g.root[l] <= b
    <3>1. \A b \in F : b \in Nat /\ h.root[l] <= b
      BY <1>1, <1>2 DEF Chain
    <3>2. CASE p # NULL
      BY <3>1, <3>2, <1>1, <1>2, <1>6
    <3>3. CASE p = NULL /\ q = NULL
      <4>1. g.root[l] = NULL /\ \A b \in F : b <= n /\ n <= b
        BY <3>1, <3>3, <2>1, <1>2, <1>6 DEF IsNext
      <4> QED BY <4>1, <3>1
    <3>4. CASE p = NULL /\ q # NULL
      <4>1. g.root[l] = q /\ q \in F /\ q # n /\ \A b \in F : (b <= n \/ q <= b) /\ n <= b
        BY <3>1, <3>4, <2>1, <1>2, <1>6 DEF IsNext
      <4>2. \A b \in F : b # n => q <= b
        BY <4>1, <3>1
      <4> QED BY <4>1, <4>2, <3>4
    <3> QED BY <3>2, <3>3, <3>4
  <2>3. ASSUME NEW a \in F \ {n}
        PROVE  IsPrev(g.node[a].prev, a, F \ {n}) /\ IsNext(g.node[a].next, a, F \ {n})
    <3>1. IsPrev(h.node[a].prev, a, F) /\ IsNext(h.node[a].next, a, F)
      BY DEF Chain
    <3>2. /\ h.node[a].prev = n => q = a
          /\ h.node[a].next = n => p = a
      <4>1. \A b \in F : b \in Nat
        OBVIOUS
      <4>2. h.node[a].prev = n => q = a
        BY <4>1, <3>1, <2>1, <1>1 DEF IsPrev, IsNext
      <4>3. h.node[a].next = n => p = a
        BY <4>1, <3>1, <2>1, <1>1 DEF IsPrev, IsNext
      <4> QED BY <4>2, <4>3
    <3>3. CASE a # p /\ a # q
      <4>1. g.node[a] = h.node[a]
        BY <3>3, <1>5
      <4> QED BY <4>1, <3>1, <3>2, <3>3 DEF IsPrev, IsNext
    <3>4. CASE a = p
      <4>1. g.node[a].prev = h.node[a].prev /\ g.node[a].next = q /\ a < n /\ a # q
        BY <3>4, <1>1, <1>2, <1>5
      <4>2. h.node[a].prev # n
        BY <4>1, <3>2
      <4>3. IsPrev(h.node[a].prev, a, F \ {n})
        BY <4>2, <3>1 DEF IsPrev
      <4>4. IsNext(q, a, F \ {n})
        <5>1. \A b \in F \ {n} : b \in Nat /\ (b <= a \/ n < b)
          <6>1. a # NULL /\ IsPrev(a, n, F) /\ n \in Nat
            BY <3>4, <2>1, <1>1
          <6>2. \A b \in F : b \in Nat /\ (b <= a \/ n <= b)
            BY <6>1, <1>1 DEF IsPrev
          <6> QED BY <6>1, <6>2
        <5>2. q # NULL => q \in Nat /\ q \in F /\ n < q
          BY <1>1, <1>2
        <5> QED BY <4>1, <5>1, <5>2, <2>1, <1>1 DEF IsNext
      <4> QED BY <4>1, <4>3, <4>4
    <3>5. CASE a = q
      <4>1. g.node[a].next = h.node[a].next /\ g.node[a].prev = p /\ n < a /\ a # p
        BY <3>5, <1>1, <1>2, <1>5
      <4>2. h.node[a].next # n
        BY <4>1, <3>2
      <4>3. IsNext(h.node[a].next, a, F \ {n})
        BY <4>2, <3>1 DEF IsNext
      <4>4. IsPrev(p, a, F \ {n})
        <5>1. \A b \in F \ {n} : b \in Nat /\ (b < n \/ a <= b)
          <6>1. a # NULL /\ IsNext(a, n, F) /\ n \in Nat
            BY <3>5, <2>1, <1>1
          <6>2. \A b \in F : b \in Nat /\ (b <= n \/ a <= b)
            BY <6>1, <1>1 DEF IsNext
          <6> QED BY <6>1, <6>2
        <5>2. p # NULL => p \in Nat /\ p \in F /\ p < n
          BY <1>1, <1>2
        <5> QED BY <4>1, <5>1, <5>2, <2>1, <1>1 DEF IsPrev
      <4> QED BY <4>1, <4>3, <4>4
    <3> QED BY <3>3, <3>4, <3>5
  <2> QED BY <2>2, <2>3 DEF Chain
<1>10. Loose(g, n)
  BY <1>5 DEF Loose
<1>11. OnList(g, D, l, F \ {n})
  BY <1>7, <1>9 DEF OnList
<1> QED BY <1>8, <1>10, <1>11 DEF g

(* The loop of ll_insert_sorted, a step at a time. *)
LEMMA PredecessorWalk ==
  ASSUME NEW D, NEW h \in HeapOver(D), NEW l, NEW n
  PROVE  \E w : /\ Predecessor(h, l, n) = w[h.root[l]]
                /\ \A c \in D :
                     LET q == h.node[c].next
                     IN  w[c] = IF q # NULL /\ n > q THEN w[q] ELSE c
<1> DEFINE Goes(f, c) == LET q == h.node[c].next
                         IN  IF q # NULL /\ n > q THEN f[q] ELSE c
           step == [c \in D |-> Goes([q \in D |-> q], c)]
           out  == [c \in D |-> c]
           walk[c \in DOMAIN h.node] ==
             LET q == h.node[c].next
             IN  IF q # NULL /\ n > q THEN walk[q] ELSE c
<1>1. DOMAIN h.node = D /\ \A c \in D : h.node[c].next \in D \cup {NULL}
  BY DEF HeapOver, HeaderOver
<1>2. PICK f : Maps(f, D, D) /\ Loops(f, D, step, out)
  <2>1. Maps(out, D, D) /\ Maps(step, D, D)
    BY <1>1 DEF Maps
  <2> HIDE DEF step, out
  <2> QED BY <2>1, LoopExists
<1>3. \E g : g = [c \in DOMAIN h.node |-> LET q == h.node[c].next
                                          IN  IF q # NULL /\ n > q THEN g[q] ELSE c]
  <2>1. ASSUME NEW c \in D PROVE f[c] = Goes(f, c)
    BY <1>1, <1>2 DEF Loops
  <2>2. f = [c \in D |-> Goes(f, c)]
    BY <1>2, <2>1 DEF Maps
  <2> QED BY <1>1, <2>2
<1>4. walk = [c \in DOMAIN h.node |-> LET q == h.node[c].next
                                      IN  IF q # NULL /\ n > q THEN walk[q] ELSE c]
  BY <1>3
<1>5. Predecessor(h, l, n) = walk[h.root[l]]
  BY DEF Predecessor
<1> HIDE DEF walk
<1>6. ASSUME NEW c \in D PROVE walk[c] = Goes(walk, c)
  BY <1>1, <1>4
<1> QED BY <1>5, <1>6

(* ll_insert_sorted stops at the last header before n. *)
LEMMA PredecessorIs ==
  ASSUME NEW h, NEW D, NEW l, NEW F, OnList(h, D, l, F),
         NEW n \in Nat, n \notin F, F # {}, h.root[l] < n
  PROVE  LET c == Predecessor(h, l, n)
             q == h.node[c].next
         IN  /\ c \in F /\ c < n
             /\ q # NULL => n < q
<1> SUFFICES ASSUME D \in SUBSET Nat, NEW N \in Nat, \A a \in D : a <= N,
                    h \in HeapOver(D), F \in SUBSET D, Chain(h, l, F)
             PROVE  LET c == Predecessor(h, l, n)
                        q == h.node[c].next
                    IN  /\ c \in F /\ c < n
                        /\ q # NULL => n < q
  BY DEF OnList, Bounded
<1>1. NULL \notin F /\ \A a \in F : a \in Nat /\ a \in D /\ a <= N
  BY PmallocAssumption
<1>2. PICK w : /\ Predecessor(h, l, n) = w[h.root[l]]
               /\ \A c \in D :
                     LET q == h.node[c].next
                     IN  w[c] = IF q # NULL /\ n > q THEN w[q] ELSE c
  BY PredecessorWalk
<1> DEFINE Stops(c) == c \in F /\ c < n /\ (h.node[c].next # NULL => n < h.node[c].next)
           T == {c \in F : c < n /\ ~Stops(w[c])}
<1>3. T = {}
  <2> SUFFICES ASSUME T # {} PROVE FALSE
    OBVIOUS
  <2>1. T \in SUBSET Nat /\ \A c \in T : c <= N
    BY <1>1
  <2> HIDE DEF T
  <2>2. PICK m \in T : \A k \in T : k <= m
    BY <2>1, GreatestOf
  <2> USE DEF T
  <2> DEFINE q == h.node[m].next
  <2>3. m \in F /\ m \in D /\ m < n /\ ~Stops(w[m]) /\ m \in Nat
    BY <2>2, <1>1
  <2>4. q # NULL => q \in F /\ m < q /\ q \in Nat
    BY <2>3, <1>1, ChainLinks
  <2>5. w[m] = IF q # NULL /\ n > q THEN w[q] ELSE m
    BY <1>2, <2>3
  <2>6. CASE q # NULL /\ n > q
    <3>1. q \notin T
      BY <2>2, <2>3, <2>4, <2>6
    <3>2. Stops(w[q])
      BY <2>4, <2>6, <3>1
    <3> QED BY <2>3, <2>5, <2>6, <3>2
  <2>7. CASE ~(q # NULL /\ n > q)
    <3>1. w[m] = m
      BY <2>5, <2>7
    <3>2. q # NULL => n < q
      BY <2>4, <2>7
    <3> QED BY <2>3, <3>1, <3>2
  <2> QED BY <2>6, <2>7
<1>4. h.root[l] \in F
  BY DEF Chain
<1>5. Stops(w[h.root[l]])
  BY <1>3, <1>4
<1> QED BY <1>2, <1>5

(* What header a is once n is linked in between p and q. *)
Linked(h, n, p, q, a) ==
  [prev |-> IF a = n THEN p ELSE IF a = q THEN n ELSE h.node[a].prev,
   next |-> IF a = n THEN q ELSE IF a = p THEN n ELSE h.node[a].next,
   size |-> h.node[a].size]
LinkIn(h, l, n, p, q) ==
  [node |-> [a \in DOMAIN h.node |-> Linked(h, n, p, q, a)],
   root |-> [h.root EXCEPT ![l] = IF p = NULL THEN n ELSE @]]

(* A header linked between its neighbours is on the list, which is still   *)
(* in order.                                                               *)
LEMMA LinkBetween ==
  ASSUME NEW h, NEW D, NEW l \in Lists, NEW F, OnList(h, D, l, F),
         NEW n \in D, n \notin F, NEW p, NEW q,
         IsPrev(p, n, F \cup {n}), IsNext(q, n, F \cup {n})
  PROVE  LET g == LinkIn(h, l, n, p, q)
         IN  OnList(g, D, l, F \cup {n}) /\ Keeps(g, h, D, l, F \cup {n})
<1> SUFFICES ASSUME D \in SUBSET Nat, h \in HeapOver(D), F \in SUBSET D, Chain(h, l, F)
             PROVE  LET g == LinkIn(h, l, n, p, q)
                    IN  OnList(g, D, l, F \cup {n}) /\ Keeps(g, h, D, l, F \cup {n})
  BY DEF OnList, Bounded
<1> DEFINE g == LinkIn(h, l, n, p, q)
<1>1. /\ g = [node |-> g.node, root |-> g.root]
      /\ g.node = [a \in D |-> Linked(h, n, p, q, a)]
      /\ g.root = [h.root EXCEPT ![l] = IF p = NULL THEN n ELSE @]
  BY DEF LinkIn, HeapOver
<1> HIDE DEF g
<1>2. NULL \notin D /\ (\A a \in D : a \in Nat) /\ n \in Nat /\ F \subseteq D
  BY PmallocAssumption
<1>3. /\ p # NULL => p \in Nat /\ p \in F /\ p # n /\ p < n
      /\ q # NULL => q \in Nat /\ q \in F /\ q # n /\ n < q
  BY <1>2 DEF IsPrev, IsNext
<1>4. /\ \A a \in D : h.node[a] \in HeaderOver(D)
      /\ h.root \in [Lists -> D \cup {NULL}]
  BY DEF HeapOver
<1>5. /\ g.root \in [Lists -> D \cup {NULL}]
      /\ g.root[l] = IF p = NULL THEN n ELSE h.root[l]
      /\ \A m \in Lists \ {l} : g.root[m] = h.root[m]
  BY <1>1, <1>4
<1>6. \A a \in D :
         /\ g.node[a].prev = IF a = n THEN p ELSE IF a = q THEN n ELSE h.node[a].prev
         /\ g.node[a].next = IF a = n THEN q ELSE IF a = p THEN n ELSE h.node[a].next
         /\ g.node[a].size = h.node[a].size
         /\ g.node[a] = [prev |-> g.node[a].prev, next |-> g.node[a].next, size |-> g.node[a].size]
  BY <1>1 DEF Linked
<1>7. g \in HeapOver(D)
  <2>1. p \in D \cup {NULL} /\ q \in D \cup {NULL}
    BY <1>2, <1>3
  <2>2. \A a \in D : g.node[a] \in HeaderOver(D)
    <3> SUFFICES ASSUME NEW a \in D PROVE g.node[a] \in HeaderOver(D)
      OBVIOUS
    <3>1. /\ h.node[a].prev \in D \cup {NULL} /\ h.node[a].next \in D \cup {NULL}
          /\ h.node[a].size \in 0 .. U32 - 1
      BY <1>4 DEF HeaderOver
    <3>2. /\ g.node[a].prev \in D \cup {NULL} /\ g.node[a].next \in D \cup {NULL}
          /\ g.node[a].size \in 0 .. U32 - 1
      BY <3>1, <2>1, <1>6
    <3>3. g.node[a] = [prev |-> g.node[a].prev, next |-> g.node[a].next, size |-> g.node[a].size]
      BY <1>6
    <3> QED BY <3>2, <3>3 DEF HeaderOver
  <2>3. g.node \in [D -> HeaderOver(D)]
    BY <2>2, <1>1
  <2> QED BY <2>3, <1>1, <1>5 DEF HeapOver
<1>8. Keeps(g, h, D, l, F \cup {n})
  <2>1. ASSUME NEW a \in D PROVE g.node[a].size = h.node[a].size
    BY <1>6
  <2>2. ASSUME NEW a \in D \ (F \cup {n}) PROVE g.node[a] = h.node[a]
    <3>1. a # n /\ a # p /\ a # q
      BY <1>2, <1>3
    <3>2. h.node[a] = [prev |-> h.node[a].prev, next |-> h.node[a].next, size |-> h.node[a].size]
      BY <1>4 DEF HeaderOver
    <3> QED BY <3>1, <3>2, <1>6
  <2> QED BY <2>1, <2>2, <1>5 DEF Keeps
<1>9. ASSUME NEW a \in F
      PROVE  IsPrev(g.node[a].prev, a, F \cup {n}) /\ IsNext(g.node[a].next, a, F \cup {n})
  <2> DEFINE pa == h.node[a].prev
             qa == h.node[a].next
  <2>1. IsPrev(pa, a, F) /\ IsNext(qa, a, F) /\ a \in Nat /\ a # n
    BY <1>2 DEF Chain
  <2>2. g.node[a].prev = (IF a = q THEN n ELSE pa) /\ g.node[a].next = (IF a = p THEN n ELSE qa)
    BY <2>1, <1>2, <1>6
  <2> HIDE DEF pa, qa
  <2>3. a < n => q # a
    BY <1>2, <1>3, <2>1
  <2>4. n < a => p # a
    BY <1>2, <1>3, <2>1
  <2>5. CASE a < n
    <3>1. IsPrev(pa, a, F \cup {n})
      BY <1>2, <2>1, <2>5 DEF IsPrev
    <3>2. CASE a = p
      <4>1. \A b \in F \cup {n} : b <= a \/ n <= b
        BY <1>2, <2>1, <3>2 DEF IsPrev
      <4>2. IsNext(n, a, F \cup {n})
        BY <4>1, <1>2, <2>5 DEF IsNext
      <4> QED BY <4>2, <3>1, <3>2, <2>2, <2>3, <2>5
    <3>3. CASE a # p
      <4>1. p # NULL /\ a < p /\ p \in Nat /\ p \in F /\ p < n
        BY <1>2, <1>3, <2>1, <2>5, <3>3 DEF IsPrev
      <4>2. IsNext(qa, a, F \cup {n})
        BY <4>1, <1>2, <2>1, <2>5 DEF IsNext
      <4> QED BY <4>2, <3>1, <3>3, <2>2, <2>3, <2>5
    <3> QED BY <3>2, <3>3
  <2>6. CASE n < a
    <3>1. IsNext(qa, a, F \cup {n})
      BY <1>2, <2>1, <2>6 DEF IsNext
    <3>2. CASE a = q
      <4>1. \A b \in F \cup {n} : b <= n \/ a <= b
        BY <1>2, <2>1, <3>2 DEF IsNext
      <4>2. IsPrev(n, a, F \cup {n})
        BY <4>1, <1>2, <2>6 DEF IsPrev
      <4> QED BY <4>2, <3>1, <3>2, <2>2, <2>4, <2>6
    <3>3. CASE a # q
      <4>1. q # NULL /\ q < a /\ q \in Nat /\ q \in F /\ n < q
        BY <1>2, <1>3, <2>1, <2>6, <3>3 DEF IsNext
      <4>2. IsPrev(pa, a, F \cup {n})
        BY <4>1, <1>2, <2>1, <2>6 DEF IsPrev
      <4> QED BY <4>2, <3>1, <3>3, <2>2, <2>4, <2>6
    <3> QED BY <3>2, <3>3
  <2> QED BY <2>1, <2>5, <2>6, <1>2
<1>10. IsPrev(g.node[n].prev, n, F \cup {n}) /\ IsNext(g.node[n].next, n, F \cup {n})
  <2>1. g.node[n].prev = p /\ g.node[n].next = q
    BY <1>6
  <2> QED BY <2>1
<1>11. g.root[l] # NULL /\ g.root[l] \in F \cup {n} /\ \A b \in F \cup {n} : g.root[l] <= b
  <2>1. CASE p = NULL
    BY <2>1, <1>2, <1>5 DEF IsPrev
  <2>2. CASE p # NULL
    <3>1. p \in F /\ p < n /\ p \in Nat /\ g.root[l] = h.root[l]
      BY <2>2, <1>3, <1>5
    <3>2. h.root[l] \in F /\ \A b \in F : h.root[l] <= b
      BY <3>1 DEF Chain
    <3>3. h.root[l] \in Nat /\ h.root[l] # NULL /\ h.root[l] <= p
      BY <3>1, <3>2, <1>2
    <3>4. h.root[l] <= n
      BY <3>1, <3>3, <1>2
    <3> QED BY <3>1, <3>2, <3>3, <3>4, <1>2
  <2> QED BY <2>1, <2>2
<1>12. Chain(g, l, F \cup {n})
  BY <1>9, <1>10, <1>11 DEF Chain
<1>13. OnList(g, D, l, F \cup {n})
  BY <1>7, <1>12 DEF OnList
<1> QED BY <1>8, <1>13 DEF g

(* ll_insert_sorted puts a header whose links are clear in its place, and  *)
(* touches no header of another list.                                      *)
LEMMA InsertEffect ==
  ASSUME NEW h, NEW D, NEW l \in Lists, NEW F, OnList(h, D, l, F),
         NEW n \in D, n \notin F, Loose(h, n)
  PROVE  LET g == LLInsertSorted(h, l, n)
         IN  OnList(g, D, l, F \cup {n}) /\ Keeps(g, h, D, l, F \cup {n})
<1> SUFFICES ASSUME D \in SUBSET Nat, h \in HeapOver(D), F \in SUBSET D, Chain(h, l, F),
                    h.node[n].prev = NULL, h.node[n].next = NULL
             PROVE  LET g == LLInsertSorted(h, l, n)
                    IN  OnList(g, D, l, F \cup {n}) /\ Keeps(g, h, D, l, F \cup {n})
  BY DEF OnList, Bounded, Loose
<1> DEFINE g == LLInsertSorted(h, l, n)
           r == h.root[l]
           c == Predecessor(h, l, n)
           cq == h.node[c].next
           p == IF r = NULL \/ n < r THEN NULL ELSE c
           q == IF r = NULL THEN NULL ELSE IF n < r THEN r ELSE cq
<1>1. NULL \notin D /\ (\A a \in D : a \in Nat) /\ n \in Nat /\ F \subseteq D
  BY PmallocAssumption
<1>2. /\ \A a \in D : h.node[a] = [prev |-> h.node[a].prev, next |-> h.node[a].next, size |-> h.node[a].size]
      /\ h.node = [a \in D |-> h.node[a]] /\ DOMAIN h.node = D
      /\ h = [node |-> h.node, root |-> h.root]
      /\ h.root = [m \in Lists |-> h.root[m]]
  BY DEF HeapOver, HeaderOver
<1>3. r # NULL => r \in F /\ r \in D /\ r \in Nat /\ \A b \in F : r <= b
  BY <1>1 DEF Chain
<1>4. r # NULL /\ ~(n < r) =>
        /\ r < n /\ F # {} /\ c \in F /\ c \in D /\ c < n /\ c # n
        /\ cq # NULL => n < cq /\ cq \in F /\ cq \in D /\ cq # n /\ cq # c
  <2> SUFFICES ASSUME r # NULL, ~(n < r)
               PROVE  /\ r < n /\ F # {} /\ c \in F /\ c \in D /\ c < n /\ c # n
                      /\ cq # NULL => n < cq /\ cq \in F /\ cq \in D /\ cq # n /\ cq # c
    OBVIOUS
  <2>1. r < n /\ F # {}
    BY <1>1, <1>3
  <2>2. c \in F /\ c < n /\ (cq # NULL => n < cq)
    BY <2>1, PredecessorIs
  <2>3. c \in Nat /\ c # n /\ c \in D
    BY <2>2, <1>1
  <2>4. ASSUME cq # NULL PROVE cq \in F /\ cq \in D /\ cq # n /\ cq # c
    <3>1. cq \in F /\ c < cq
      BY <2>2, <2>4, <1>1, ChainLinks
    <3>2. cq \in Nat /\ cq \in D
      BY <3>1, <1>1
    <3> QED BY <3>1, <3>2, <2>2, <2>3, <2>4, <1>1
  <2> QED BY <2>1, <2>2, <2>3, <2>4
<1>5. IsPrev(p, n, F \cup {n}) /\ IsNext(q, n, F \cup {n})
  <2>1. CASE r = NULL
    BY <2>1, <1>1 DEF IsPrev, IsNext, Chain
  <2>2. CASE r # NULL /\ n < r
    BY <2>2, <1>1, <1>3 DEF IsPrev, IsNext
  <2>3. CASE r # NULL /\ ~(n < r)
    <3>1. IsNext(cq, c, F) /\ c \in Nat /\ c < n /\ c \in F
      BY <2>3, <1>1, <1>4 DEF Chain
    <3>2. cq # NULL => n < cq /\ cq \in Nat /\ cq \in F
      BY <2>3, <1>1, <1>4
    <3> HIDE DEF c, cq
    <3>3. \A b \in F : b <= c \/ n < b
      BY <3>1, <3>2, <1>1 DEF IsNext
    <3>4. IsPrev(c, n, F \cup {n})
      BY <3>1, <3>3, <1>1 DEF IsPrev
    <3>5. IsNext(cq, n, F \cup {n})
      BY <3>1, <3>2, <3>3, <1>1 DEF IsNext
    <3> QED BY <2>3, <3>4, <3>5
  <2> QED BY <2>1, <2>2, <2>3
<1>6. g = LinkIn(h, l, n, p, q)
  <2> SUFFICES
      /\ g = [node |-> g.node, root |-> g.root]
      /\ g.node = [a \in D |-> Linked(h, n, p, q, a)]
      /\ g.root = [h.root EXCEPT ![l] = IF p = NULL THEN n ELSE @]
    BY <1>2 DEF LinkIn
  <2>1. CASE r = NULL
    <3>1. g = [node |-> [h.node EXCEPT ![n].prev = NULL, ![n].next = NULL],
               root |-> [h.root EXCEPT ![l] = n]]
      BY <2>1 DEF LLInsertSorted
    <3> QED BY <2>1, <3>1, <1>1, <1>2 DEF Linked
  <2>2. CASE r # NULL /\ n < r
    <3>1. g = [node |-> [h.node EXCEPT ![r].prev = n, ![n].next = r],
               root |-> [h.root EXCEPT ![l] = n]]
      <4>1. h.root[l] # NULL /\ n < h.root[l] /\ ~(n >= h.root[l])
        BY <2>2, <1>1, <1>3
      <4> QED BY <4>1 DEF LLInsertSorted
    <3>2. DOMAIN g.node = D /\ g.root = [h.root EXCEPT ![l] = n] /\ g = [node |-> g.node, root |-> g.root]
      BY <3>1, <1>2
    <3>3. r \in D /\ r # n /\ r # NULL /\ p = NULL /\ q = r
      BY <2>2, <1>1, <1>3
    <3> HIDE DEF g, p, q, r
    <3>4. g.node[n] = [h.node[n] EXCEPT !.next = r]
      BY <3>1, <3>3, <1>2
    <3>5. g.node[r] = [h.node[r] EXCEPT !.prev = n]
      BY <3>1, <3>3, <1>2
    <3>6. \A a \in D \ {n, r} : g.node[a] = h.node[a]
      BY <3>1, <3>3, <1>2
    <3>7. g.node = [a \in D |-> g.node[a]]
      <4>1. g.node = [[h.node EXCEPT ![r].prev = n] EXCEPT ![n].next = r]
        BY <3>1
      <4> QED BY <4>1, <1>2
    <3>8. ASSUME NEW a \in D PROVE g.node[a] = Linked(h, n, p, q, a)
      <4>1. h.node[a] = [prev |-> h.node[a].prev, next |-> h.node[a].next, size |-> h.node[a].size]
        BY <1>2
      <4>2. CASE a = n
        BY <4>1, <4>2, <3>3, <3>4 DEF Linked
      <4>3. CASE a = r
        BY <4>1, <4>3, <3>3, <3>5, <1>1 DEF Linked
      <4>4. CASE a # n /\ a # r
        BY <4>1, <4>4, <3>3, <3>6, <1>1 DEF Linked
      <4> QED BY <4>2, <4>3, <4>4
    <3> QED BY <2>2, <3>2, <3>3, <3>7, <3>8
  <2>3. CASE r # NULL /\ ~(n < r)
    <3>1. g = [h EXCEPT !.node =
                IF cq = NULL
                THEN [@ EXCEPT ![n].prev = c, ![c].next = n]
                ELSE [@ EXCEPT ![c].next = n, ![n].prev = c,
                               ![n].next = cq, ![cq].prev = n]]
      <4>1. h.root[l] # NULL /\ n >= h.root[l] /\ ~(n < h.root[l])
        BY <2>3, <1>1, <1>3
      <4> QED BY <4>1 DEF LLInsertSorted
    <3>2. DOMAIN g.node = D /\ g.root = h.root /\ g = [node |-> g.node, root |-> g.root]
      BY <3>1, <1>2
    <3>3. /\ c \in D /\ c # n /\ n # NULL /\ c # NULL /\ p = c /\ q = cq
          /\ cq # NULL => cq \in D /\ cq # n /\ cq # c
      BY <2>3, <1>1, <1>3, <1>4
    <3> HIDE DEF g, p, q, r, c
    <3>4. g.node[n] = [h.node[n] EXCEPT !.prev = c, !.next = cq]
      BY <3>1, <3>3, <1>2
    <3>5. g.node[c] = [h.node[c] EXCEPT !.next = n]
      BY <3>1, <3>3, <1>2
    <3>6. cq # NULL => g.node[cq] = [h.node[cq] EXCEPT !.prev = n]
      BY <3>1, <3>3, <1>2
    <3>7. \A a \in D \ {n, c, cq} : g.node[a] = h.node[a]
      BY <3>1, <3>3, <1>2
    <3>8. g.node = [a \in D |-> g.node[a]]
      <4>1. g.node = IF cq = NULL
                     THEN [[h.node EXCEPT ![n].prev = c] EXCEPT ![c].next = n]
                     ELSE [[[[h.node EXCEPT ![c].next = n] EXCEPT ![n].prev = c]
                            EXCEPT ![n].next = cq] EXCEPT ![cq].prev = n]
        BY <3>1, <1>2
      <4> HIDE DEF cq
      <4>2. CASE cq = NULL
        BY <4>1, <4>2, <1>2
      <4>3. CASE cq # NULL
        <5> DEFINE f1 == [h.node EXCEPT ![c].next = n]
                   f2 == [f1 EXCEPT ![n].prev = c]
                   f3 == [f2 EXCEPT ![n].next = cq]
                   f4 == [f3 EXCEPT ![cq].prev = n]
        <5>1. f1 = [a \in D |-> f1[a]]
          BY <1>2
        <5> HIDE DEF f1
        <5>2. f2 = [a \in D |-> f2[a]]
          BY <5>1
        <5> HIDE DEF f2
        <5>3. f3 = [a \in D |-> f3[a]]
          BY <5>2
        <5> HIDE DEF f3
        <5>4. f4 = [a \in D |-> f4[a]]
          BY <5>3
        <5>5. g.node = f4
          BY <4>1, <4>3 DEF f1, f2, f3
        <5> HIDE DEF f4
        <5> QED BY <5>4, <5>5
      <4> QED BY <4>2, <4>3
    <3> HIDE DEF cq
    <3>9. ASSUME NEW a \in D PROVE g.node[a] = Linked(h, n, p, q, a)
      <4>1. /\ h.node[a] = [prev |-> h.node[a].prev, next |-> h.node[a].next, size |-> h.node[a].size]
            /\ a # NULL
        BY <1>1, <1>2
      <4>2. CASE a = n
        BY <4>1, <4>2, <3>3, <3>4 DEF Linked
      <4>3. CASE a = c
        BY <4>1, <4>3, <3>3, <3>5 DEF Linked
      <4>4. CASE a = cq
        BY <4>1, <4>4, <3>3, <3>6 DEF Linked
      <4>5. CASE a # n /\ a # c /\ a # cq
        BY <4>1, <4>5, <3>3, <3>7 DEF Linked
      <4> QED BY <4>2, <4>3, <4>4, <4>5
    <3>10. g.root = [h.root EXCEPT ![l] = IF p = NULL THEN n ELSE @]
      BY <3>2, <3>3, <1>2
    <3> QED BY <3>2, <3>8, <3>9, <3>10
  <2> QED BY <2>1, <2>2, <2>3
<1> HIDE DEF g, p, q
<1> QED BY <1>5, <1>6, LinkBetween DEF g

(* What is done to one list leaves the other alone. *)
LEMMA OtherList ==
  ASSUME NEW h, NEW g, NEW D, NEW l, NEW m \in Lists, l # m, NEW F, NEW G, NEW K,
         OnList(h, D, m, G), OnList(g, D, l, K), Keeps(g, h, D, l, F), F \cap G = {}
  PROVE  OnList(g, D, m, G)
<1>1. g.root[m] = h.root[m] /\ \A a \in G : g.node[a] = h.node[a]
  BY DEF Keeps, OnList
<1>2. Chain(g, m, G)
  BY <1>1, ChainFrame DEF OnList
<1> QED BY <1>2 DEF OnList

---------------------------------------------------------------------------
(* The heap h has its available headers at F and its assigned ones at G,   *)
(* each on its list, and no others.                                        *)
Shape(h, F, G) ==
  /\ Bounded(F \cup G)
  /\ F \cap G = {}
  /\ h \in HeapOver(F \cup G)
  /\ Chain(h, "available", F)
  /\ Chain(h, "assigned", G)

(* The headers at D say the same sizes in g and in h. *)
SameSizes(g, h, D) == \A a \in D : g.node[a].size = h.node[a].size

(* One more address keeps a set of addresses bounded. *)
LEMMA BoundedAdd ==
  ASSUME NEW D, Bounded(D), NEW n \in Nat
  PROVE  Bounded(D \cup {n})
<1>1. PICK N \in Nat : \A a \in D : a <= N
  BY DEF Bounded
<1>2. D \in SUBSET Nat
  BY DEF Bounded
<1>3. N + n \in Nat /\ \A a \in D \cup {n} : a <= N + n
  <2>1. ASSUME NEW a \in D PROVE a <= N + n
    BY <1>1, <1>2
  <2> QED BY <2>1, <1>1
<1> QED BY <1>2, <1>3 DEF Bounded

(* A header moved from one list to the other leaves both in order, and     *)
(* every size as it was.                                                   *)
LEMMA MoveEffect ==
  ASSUME NEW h, NEW D, NEW l \in Lists, NEW m \in Lists, l # m, NEW F, NEW G, F \cap G = {},
         OnList(h, D, l, F), OnList(h, D, m, G), NEW n \in F
  PROVE  LET g == LLInsertSorted(LLRemove(h, l, n), m, n)
         IN  /\ OnList(g, D, l, F \ {n})
             /\ OnList(g, D, m, G \cup {n})
             /\ SameSizes(g, h, D)
<1> DEFINE k == LLRemove(h, l, n)
           g == LLInsertSorted(k, m, n)
<1>1. n \in D /\ n \notin G
  BY DEF OnList
<1>2. OnList(k, D, l, F \ {n}) /\ Keeps(k, h, D, l, F) /\ Loose(k, n)
  BY RemoveEffect
<1> HIDE DEF k
<1>3. OnList(k, D, m, G)
  BY <1>2, OtherList
<1>4. OnList(g, D, m, G \cup {n}) /\ Keeps(g, k, D, m, G \cup {n})
  BY <1>1, <1>2, <1>3, InsertEffect
<1> HIDE DEF g
<1>5. OnList(g, D, l, F \ {n})
  <2>1. (G \cup {n}) \cap (F \ {n}) = {}
    OBVIOUS
  <2> QED BY <2>1, <1>2, <1>4, OtherList
<1>6. SameSizes(g, h, D)
  BY <1>2, <1>4 DEF Keeps, SameSizes
<1> QED BY <1>4, <1>5, <1>6 DEF g, k

(* pmalloc's move from the available to the assigned list, and pfree's way *)
(* back.                                                                   *)
LEMMA TakeEffect ==
  ASSUME NEW h, NEW F, NEW G, Shape(h, F, G), NEW n \in F
  PROVE  LET g == LLInsertSorted(LLRemove(h, "available", n), "assigned", n)
         IN  Shape(g, F \ {n}, G \cup {n}) /\ SameSizes(g, h, F \cup G)
<1>1. (F \ {n}) \cup (G \cup {n}) = F \cup G /\ (F \ {n}) \cap (G \cup {n}) = {}
  BY DEF Shape
<1>2. "available" \in Lists /\ "assigned" \in Lists /\ "available" # "assigned"
  BY DEF Lists
<1>3. OnList(h, F \cup G, "available", F) /\ OnList(h, F \cup G, "assigned", G)
  BY DEF Shape, OnList
<1> DEFINE g == LLInsertSorted(LLRemove(h, "available", n), "assigned", n)
<1>4. /\ OnList(g, F \cup G, "available", F \ {n})
      /\ OnList(g, F \cup G, "assigned", G \cup {n})
      /\ SameSizes(g, h, F \cup G)
  BY <1>2, <1>3, MoveEffect DEF Shape
<1> HIDE DEF g
<1>5. Shape(g, F \ {n}, G \cup {n})
  BY <1>1, <1>4 DEF Shape, OnList
<1> QED BY <1>4, <1>5 DEF g

(* pfree's move: n goes from the assigned list to the available one. *)
LEMMA GiveEffect ==
  ASSUME NEW h, NEW F, NEW G, Shape(h, F, G), NEW n \in G
  PROVE  LET g == LLInsertSorted(LLRemove(h, "assigned", n), "available", n)
         IN  Shape(g, F \cup {n}, G \ {n}) /\ SameSizes(g, h, F \cup G)
<1>1. (F \cup {n}) \cup (G \ {n}) = F \cup G /\ (F \cup {n}) \cap (G \ {n}) = {}
  BY DEF Shape
<1>2. "available" \in Lists /\ "assigned" \in Lists /\ "available" # "assigned"
  BY DEF Lists
<1>3. OnList(h, F \cup G, "available", F) /\ OnList(h, F \cup G, "assigned", G)
  BY DEF Shape, OnList
<1> DEFINE g == LLInsertSorted(LLRemove(h, "assigned", n), "available", n)
<1>4. /\ OnList(g, F \cup G, "assigned", G \ {n})
      /\ OnList(g, F \cup G, "available", F \cup {n})
      /\ SameSizes(g, h, F \cup G)
  BY <1>2, <1>3, MoveEffect DEF Shape
<1> HIDE DEF g
<1>5. Shape(g, F \cup {n}, G \ {n})
  BY <1>1, <1>4 DEF Shape, OnList
<1> QED BY <1>4, <1>5 DEF g

(* g is h with a header at n on its available list, of s bytes. *)
Adds(g, h, F, G, n, s) ==
  /\ Shape(g, F \cup {n}, G)
  /\ SameSizes(g, h, F \cup G)
  /\ g.node[n].size = s

(* A new header whose links are clear goes onto the available list. *)
LEMMA AddEffect ==
  ASSUME NEW h, NEW F, NEW G, Shape(h, F, G), NEW n \in Nat, n \notin F \cup G,
         NEW s \in 0 .. U32 - 1
  PROVE  Adds(LLInsertSorted(NewHeader(h, n, NULL, NULL, s), "available", n), h, F, G, n, s)
<1> DEFINE D == F \cup G
           E == D \cup {n}
           k == NewHeader(h, n, NULL, NULL, s)
           g == LLInsertSorted(k, "available", n)
<1>1. "available" \in Lists /\ "assigned" \in Lists /\ "available" # "assigned"
  BY DEF Lists
<1>2. Bounded(E) /\ n \in E /\ n \notin F
  BY BoundedAdd DEF Shape
<1>3. /\ k = [node |-> k.node, root |-> k.root]
      /\ k.node = [a \in E |-> IF a = n THEN [prev |-> NULL, next |-> NULL, size |-> s]
                               ELSE h.node[a]]
      /\ k.root = h.root
  BY DEF NewHeader, Shape, HeapOver
<1> HIDE DEF k
<1>4. /\ k.node[n] = [prev |-> NULL, next |-> NULL, size |-> s]
      /\ \A a \in D : k.node[a] = h.node[a]
  BY <1>3
<1>5. k \in HeapOver(E)
  <2>1. h.root \in [Lists -> E \cup {NULL}]
    BY DEF Shape, HeapOver
  <2>2. \A a \in D : h.node[a] \in HeaderOver(E)
    <3>1. \A a \in D : h.node[a] \in HeaderOver(D)
      BY DEF Shape, HeapOver
    <3> QED BY <3>1 DEF HeaderOver
  <2>3. [prev |-> NULL, next |-> NULL, size |-> s] \in HeaderOver(E)
    BY DEF HeaderOver
  <2>4. \A a \in E : k.node[a] \in HeaderOver(E)
    BY <2>2, <2>3, <1>4
  <2>5. k.node \in [E -> HeaderOver(E)]
    BY <2>4, <1>3
  <2> QED BY <2>1, <2>5, <1>3 DEF HeapOver
<1>6. Chain(k, "available", F) /\ Chain(k, "assigned", G)
  BY <1>3, <1>4, ChainFrame DEF Shape
<1>7. OnList(k, E, "available", F) /\ OnList(k, E, "assigned", G) /\ Loose(k, n)
  BY <1>2, <1>4, <1>5, <1>6 DEF OnList, Loose
<1> HIDE DEF E
<1>8. OnList(g, E, "available", F \cup {n}) /\ Keeps(g, k, E, "available", F \cup {n})
  BY <1>1, <1>2, <1>7, InsertEffect
<1> HIDE DEF g
<1>9. OnList(g, E, "assigned", G)
  <2>1. (F \cup {n}) \cap G = {}
    BY DEF Shape
  <2> QED BY <2>1, <1>1, <1>7, <1>8, OtherList
<1>10. (F \cup {n}) \cup G = E /\ (F \cup {n}) \cap G = {}
  BY DEF Shape, E
<1>11. SameSizes(g, h, F \cup G) /\ g.node[n].size = s
  BY <1>4, <1>8, <1>10 DEF Keeps, SameSizes
<1>12. Shape(g, F \cup {n}, G)
  BY <1>8, <1>9, <1>10 DEF Shape, OnList
<1> QED BY <1>11, <1>12 DEF g, k, Adds

(* g is h but for the size of n, which is s. *)
Resizes(g, h, F, G, n, s) ==
  /\ Shape(g, F, G)
  /\ SameSizes(g, h, (F \cup G) \ {n})
  /\ g.node[n].size = s

(* Writing a size touches no list. *)
LEMMA ResizeEffect ==
  ASSUME NEW h, NEW F, NEW G, Shape(h, F, G), NEW n \in F \cup G, NEW s \in 0 .. U32 - 1
  PROVE  Resizes([h EXCEPT !.node[n].size = s], h, F, G, n, s)
<1> DEFINE D == F \cup G
           g == [h EXCEPT !.node[n].size = s]
<1>1. /\ h = [node |-> h.node, root |-> h.root]
      /\ h.node \in [D -> HeaderOver(D)]
      /\ h.root \in [Lists -> D \cup {NULL}]
  BY DEF Shape, HeapOver
<1>2. g.node = [h.node EXCEPT ![n].size = s] /\ g.root = h.root
      /\ g = [node |-> g.node, root |-> g.root]
  BY <1>1
<1> HIDE DEF g
<1>3. /\ g.node[n] = [h.node[n] EXCEPT !.size = s]
      /\ \A a \in D \ {n} : g.node[a] = h.node[a]
      /\ DOMAIN g.node = D /\ g.node = [a \in D |-> g.node[a]]
  BY <1>1, <1>2
<1>4. \A a \in D : h.node[a] = [prev |-> h.node[a].prev, next |-> h.node[a].next, size |-> h.node[a].size]
  BY <1>1 DEF HeaderOver
<1>5. ASSUME NEW a \in D
      PROVE  g.node[a].prev = h.node[a].prev /\ g.node[a].next = h.node[a].next
  <2>1. CASE a = n
    <3>1. h.node[n] = [prev |-> h.node[n].prev, next |-> h.node[n].next, size |-> h.node[n].size]
      BY <1>4
    <3> QED BY <2>1, <3>1, <1>3
  <2>2. CASE a # n
    BY <2>2, <1>3
  <2> QED BY <2>1, <2>2
<1>6. g.node[n].size = s /\ \A a \in D \ {n} : g.node[a].size = h.node[a].size
  <2>1. g.node[n].size = s
    <3>1. h.node[n] = [prev |-> h.node[n].prev, next |-> h.node[n].next, size |-> h.node[n].size]
      BY <1>4
    <3> QED BY <3>1, <1>3
  <2>2. ASSUME NEW a \in D \ {n} PROVE g.node[a].size = h.node[a].size
    BY <1>3
  <2> QED BY <2>1, <2>2
<1>7. g \in HeapOver(D)
  <2>1. g.node[n] \in HeaderOver(D)
    BY <1>1, <1>3 DEF HeaderOver
  <2>2. \A a \in D : g.node[a] \in HeaderOver(D)
    BY <2>1, <1>1, <1>3
  <2>3. g.node \in [D -> HeaderOver(D)]
    BY <2>2, <1>3
  <2> QED BY <2>3, <1>1, <1>2 DEF HeapOver
<1>8. Chain(g, "available", F) /\ Chain(g, "assigned", G)
  <2>1. F \subseteq D /\ G \subseteq D /\ Chain(h, "available", F) /\ Chain(h, "assigned", G)
    BY DEF Shape
  <2>2. g.root = h.root
    BY <1>2
  <2> HIDE DEF g, D
  <2>3. Chain(g, "available", F)
    <3>1. \A a \in F : g.node[a].prev = h.node[a].prev /\ g.node[a].next = h.node[a].next
      BY <2>1, <1>5
    <3> QED BY <2>1, <2>2, <3>1, ChainFrame
  <2>4. Chain(g, "assigned", G)
    <3>1. \A a \in G : g.node[a].prev = h.node[a].prev /\ g.node[a].next = h.node[a].next
      BY <2>1, <1>5
    <3> QED BY <2>1, <2>2, <3>1, ChainFrame
  <2> QED BY <2>3, <2>4
<1> QED BY <1>6, <1>7, <1>8 DEF Shape, SameSizes, Resizes, g

---------------------------------------------------------------------------
(* What headers add up to. *)

(* The sizes of the blocks at F add up to this; *)
SizeSum(h, F) == SumFunctionOnSet([a \in F |-> h.node[a].size], F)

(* with a header each they take this much room. *)
Room(h, F) == SizeSum(h, F) + Hdr * Cardinality(F)

(* The headers at F are finitely many and have a size. *)
Sized(h, F) == IsFiniteSet(F) /\ \A a \in F : h.node[a].size \in Nat

(* A part of a heap has sizes. *)
LEMMA SizedPart ==
  ASSUME NEW h, NEW F, NEW G, Shape(h, F, G), NEW E \in SUBSET (F \cup G)
  PROVE  Sized(h, E)
<1>1. IsFiniteSet(F \cup G)
  BY FS_BoundedSetOfNaturals DEF Shape, Bounded
<1>2. \A a \in F \cup G : h.node[a].size \in 0 .. U32 - 1
  BY DEF Shape, HeapOver, HeaderOver
<1>3. \A a \in F \cup G : h.node[a].size \in Nat
  BY <1>2, PmallocAssumption
<1> QED BY <1>1, <1>3, FS_Subset DEF Sized

(* What blocks add up to, and how many there are, are numbers. *)
LEMMA SizeSumIs ==
  ASSUME NEW h, NEW F, Sized(h, F)
  PROVE  /\ SizeSum(h, F) \in Nat /\ Cardinality(F) \in Nat /\ Room(h, F) \in Nat
         /\ F = {} => SizeSum(h, F) = 0 /\ Cardinality(F) = 0
<1> DEFINE v == [a \in F |-> h.node[a].size]
<1>1. IsFiniteSet(F) /\ (\A a \in F : v[a] \in Nat) /\ Weighs(v, F)
  BY DEF Sized, Weighs
<1> HIDE DEF v
<1>2. SumFunctionOnSet(v, F) \in Nat
  BY <1>1, SumPart
<1>3. F = {} => SumFunctionOnSet(v, F) = 0
  BY <1>1, SumUnfold
<1>4. Cardinality(F) \in Nat /\ (F = {} => Cardinality(F) = 0)
  BY <1>1, FS_CardinalityType, FS_EmptySet
<1>5. SizeSum(h, F) \in Nat /\ (F = {} => SizeSum(h, F) = 0)
  BY <1>2, <1>3 DEF SizeSum, v
<1>6. Room(h, F) \in Nat
  BY <1>4, <1>5, PmallocAssumption DEF Room
<1> QED BY <1>4, <1>5, <1>6

(* Blocks of the same sizes add up to the same. *)
LEMMA SizeSumSame ==
  ASSUME NEW h, NEW g, NEW F, Sized(h, F), SameSizes(g, h, F)
  PROVE  SizeSum(g, F) = SizeSum(h, F) /\ Room(g, F) = Room(h, F)
<1> DEFINE v == [a \in F |-> h.node[a].size]
           w == [a \in F |-> g.node[a].size]
<1>1. IsFiniteSet(F) /\ Weighs(v, F) /\ \A a \in F : v[a] = w[a]
  BY DEF Sized, Weighs, SameSizes
<1> HIDE DEF v, w
<1>2. SumFunctionOnSet(v, F) = SumFunctionOnSet(w, F)
  BY <1>1, SumSame
<1> QED BY <1>2 DEF SizeSum, Room, v, w

(* One more block adds its size. *)
Grown(g, h, F, a) ==
  /\ SizeSum(g, F \cup {a}) = g.node[a].size + SizeSum(h, F)
  /\ Cardinality(F \cup {a}) = Cardinality(F) + 1
  /\ Room(g, F \cup {a}) = g.node[a].size + Hdr + Room(h, F)

(* That is what a header at a new address does. *)
LEMMA SizeSumAdd ==
  ASSUME NEW h, NEW g, NEW F, Sized(h, F), SameSizes(g, h, F),
         NEW a, a \notin F, g.node[a].size \in Nat
  PROVE  Grown(g, h, F, a)
<1> DEFINE v == [b \in F |-> h.node[b].size]
           w == [b \in F \cup {a} |-> g.node[b].size]
           x == g.node[a].size
           y == SizeSum(h, F)
           c == Cardinality(F)
<1>1. IsFiniteSet(F) /\ Weighs(v, F) /\ Weighs(w, F \cup {a}) /\ (\A b \in F : v[b] = w[b]) /\ w[a] = x
  BY DEF Sized, Weighs, SameSizes
<1>2. y = SumFunctionOnSet(v, F) /\ SizeSum(g, F \cup {a}) = SumFunctionOnSet(w, F \cup {a})
  BY DEF SizeSum
<1>3. y \in Nat /\ c \in Nat /\ Hdr \in Nat
  BY SizeSumIs, PmallocAssumption
<1>4. Cardinality(F \cup {a}) = c + 1
  BY <1>1, FS_AddElement
<1> HIDE DEF v, w, x, y, c
<1>5. SumFunctionOnSet(v, F) = SumFunctionOnSet(w, F)
  BY <1>1, SumSame
<1>6. SumFunctionOnSet(w, F \cup {a}) = w[a] + SumFunctionOnSet(w, F)
  BY <1>1, SumAdd
<1>7. SizeSum(g, F \cup {a}) = x + y
  BY <1>1, <1>2, <1>5, <1>6
<1>8. Room(h, F) = y + Hdr * c /\ Room(g, F \cup {a}) = (x + y) + Hdr * (c + 1)
  BY <1>4, <1>7 DEF Room, y, c
<1>9. x \in Nat
  BY DEF x
<1>10. Hdr * (c + 1) = Hdr * c + Hdr /\ Hdr * c \in Nat
  BY <1>3
<1>11. Room(g, F \cup {a}) = x + Hdr + Room(h, F)
  BY <1>3, <1>8, <1>9, <1>10
<1> QED BY <1>4, <1>7, <1>11 DEF Grown, x, y, c

(* One block less takes its size away. *)
Shrunk(g, h, F, a) ==
  /\ SizeSum(g, F \ {a}) = SizeSum(h, F) - h.node[a].size
  /\ Cardinality(F \ {a}) = Cardinality(F) - 1
  /\ Room(g, F \ {a}) = Room(h, F) - h.node[a].size - Hdr

(* That is what leaving a header out does. *)
LEMMA SizeSumDrop ==
  ASSUME NEW h, NEW g, NEW F, Sized(h, F), NEW a \in F, SameSizes(g, h, F \ {a})
  PROVE  Shrunk(g, h, F, a)
<1> DEFINE E == F \ {a}
<1>1. Sized(h, E) /\ Sized(g, E) /\ SameSizes(h, g, E) /\ a \notin E /\ h.node[a].size \in Nat
  BY FS_RemoveElement DEF Sized, SameSizes
<1>2. E \cup {a} = F
  OBVIOUS
<1> HIDE DEF E
<1>3. Grown(h, g, E, a)
  BY <1>1, SizeSumAdd
<1> DEFINE x == h.node[a].size
           y == SizeSum(g, E)
           c == Cardinality(E)
           r == Room(g, E)
<1>4. SizeSum(h, F) = x + y /\ Cardinality(F) = c + 1 /\ Room(h, F) = x + Hdr + r
  BY <1>2, <1>3 DEF Grown
<1>5. x \in Nat /\ y \in Nat /\ c \in Nat /\ r \in Nat /\ Hdr \in Nat
  BY <1>1, SizeSumIs, PmallocAssumption
<1> HIDE DEF x, y, c, r
<1>6. y = SizeSum(h, F) - x /\ c = Cardinality(F) - 1 /\ r = Room(h, F) - x - Hdr
  BY <1>4, <1>5
<1> QED BY <1>6 DEF Shrunk, x, y, c, r, E

(* A block of another size changes what all add up to by the difference. *)
Resized(g, h, F, a) ==
  /\ SizeSum(g, F) = SizeSum(h, F) - h.node[a].size + g.node[a].size
  /\ Room(g, F) = Room(h, F) - h.node[a].size + g.node[a].size

(* That is what writing a header's size does. *)
LEMMA SizeSumChange ==
  ASSUME NEW h, NEW g, NEW F, Sized(h, F), NEW a \in F, SameSizes(g, h, F \ {a}),
         g.node[a].size \in Nat
  PROVE  Resized(g, h, F, a)
<1> DEFINE E == F \ {a}
           x == h.node[a].size
           z == g.node[a].size
<1>1. Sized(h, E) /\ SameSizes(g, h, E) /\ a \notin E /\ x \in Nat /\ z \in Nat
  BY FS_RemoveElement DEF Sized
<1>2. E \cup {a} = F
  OBVIOUS
<1>3. Shrunk(h, h, F, a)
  BY SizeSumDrop DEF SameSizes
<1> HIDE DEF E
<1>4. Grown(g, h, E, a)
  BY <1>1, SizeSumAdd
<1> DEFINE y == SizeSum(h, E)
           r == Room(h, E)
<1>5. SizeSum(g, F) = z + y /\ Room(g, F) = z + Hdr + r
  BY <1>2, <1>4 DEF Grown
<1>6. y = SizeSum(h, F) - x /\ r = Room(h, F) - x - Hdr
  BY <1>3 DEF Shrunk, E
<1>7. SizeSum(h, F) \in Nat /\ Room(h, F) \in Nat /\ Hdr \in Nat
  BY SizeSumIs, PmallocAssumption
<1> HIDE DEF x, z, y, r
<1>8. SizeSum(g, F) = SizeSum(h, F) - x + z /\ Room(g, F) = Room(h, F) - x + z
  BY <1>1, <1>5, <1>6, <1>7
<1> QED BY <1>8 DEF Resized, x, z

---------------------------------------------------------------------------
(* What the loops of pmalloc and pfree come to on lists of that Shape.     *)
(*                                                                         *)
(* Each loop is first shown to satisfy its own equation, the one the code  *)
(* spells out (..Walk), and then what it answers is read off that equation *)
(* from the place where it stops (..Are, ..Is).  The loops are the search  *)
(* of pmalloc, the two of pfree, and Members, which is no loop of the code *)
(* but says what a list holds.                                             *)

(* w[c] is the set of headers reached from c by next. *)
Reaches(w, h, D) ==
  \A c \in D : w[c] = {c} \cup (IF h.node[c].next = NULL THEN {} ELSE w[h.node[c].next])

(* Members has such a walk behind it. *)
LEMMA MembersWalk ==
  ASSUME NEW D, NEW h \in HeapOver(D), NEW l
  PROVE  \E w : /\ Members(h, l) = IF h.root[l] = NULL THEN {} ELSE w[h.root[l]]
                /\ Reaches(w, h, D)
<1> DEFINE Goes(f, c) == {c} \cup (IF h.node[c].next = NULL THEN {} ELSE f[h.node[c].next])
           step == [c \in D |-> IF h.node[c].next = NULL THEN c ELSE h.node[c].next]
           f == [c \in D |-> Orbit(D, step, c)]
           chain[c \in DOMAIN h.node] ==
             {c} \cup (IF h.node[c].next = NULL THEN {} ELSE chain[h.node[c].next])
<1>1. DOMAIN h.node = D /\ \A c \in D : h.node[c].next \in D \cup {NULL}
  BY DEF HeapOver, HeaderOver
<1>2. Maps(step, D, D)
  BY <1>1 DEF Maps
<1>3. ASSUME NEW c \in D PROVE f[c] = Goes(f, c)
  <2>1. CASE h.node[c].next = NULL
    <3>1. step[c] = c
      BY <2>1
    <3> HIDE DEF step
    <3>2. Orbit(D, step, c) = {c}
      BY <3>1, <1>2, OrbitStays
    <3> QED BY <2>1, <3>2
  <2>2. CASE h.node[c].next # NULL
    <3>1. step[c] = h.node[c].next /\ h.node[c].next \in D
      BY <2>2, <1>1
    <3> HIDE DEF step
    <3>2. Orbit(D, step, c) = {c} \cup Orbit(D, step, step[c])
      BY <1>2, OrbitUnfold
    <3> QED BY <2>2, <3>1, <3>2
  <2> QED BY <2>1, <2>2
<1>4. \E g : g = [c \in DOMAIN h.node |->
                   {c} \cup (IF h.node[c].next = NULL THEN {} ELSE g[h.node[c].next])]
  <2>1. f = [c \in D |-> Goes(f, c)]
    BY <1>3
  <2> QED BY <1>1, <2>1
<1>5. chain = [c \in DOMAIN h.node |->
                {c} \cup (IF h.node[c].next = NULL THEN {} ELSE chain[h.node[c].next])]
  BY <1>4
<1>6. Members(h, l) = IF h.root[l] = NULL THEN {} ELSE chain[h.root[l]]
  BY DEF Members
<1> HIDE DEF chain
<1>7. ASSUME NEW c \in D PROVE chain[c] = Goes(chain, c)
  BY <1>1, <1>5
<1>8. Reaches(chain, h, D)
  BY <1>7 DEF Reaches
<1> QED BY <1>6, <1>8

(* What is reached from a list's header is it and those after it; from the *)
(* root, the whole list.                                                   *)
LEMMA MembersAre ==
  ASSUME NEW h, NEW D, NEW l, NEW F, OnList(h, D, l, F)
  PROVE  Members(h, l) = F
<1>1. PICK N \in Nat : \A a \in D : a <= N
  BY DEF OnList, Bounded
<1>2. /\ NULL \notin F /\ F \in SUBSET Nat /\ h \in HeapOver(D) /\ Chain(h, l, F)
      /\ \A a \in F : a \in D /\ a <= N
  BY <1>1, PmallocAssumption DEF OnList, Bounded
<1>3. PICK w : /\ Members(h, l) = IF h.root[l] = NULL THEN {} ELSE w[h.root[l]]
               /\ Reaches(w, h, D)
  BY <1>2, MembersWalk
<1> DEFINE Rest(c) == {a \in F : c <= a}
           T == {c \in F : w[c] # Rest(c)}
<1>4. T = {}
  <2> SUFFICES ASSUME T # {} PROVE FALSE
    OBVIOUS
  <2>1. T \in SUBSET Nat /\ \A c \in T : c <= N
    BY <1>2
  <2> HIDE DEF T
  <2>2. PICK m \in T : \A k \in T : k <= m
    BY <2>1, <1>1, GreatestOf
  <2> USE DEF T
  <2> DEFINE q == h.node[m].next
  <2>3. m \in F /\ m \in Nat /\ m \in D /\ w[m] # Rest(m) /\ IsNext(q, m, F)
    BY <2>2, <1>2 DEF Chain
  <2>4. w[m] = {m} \cup (IF q = NULL THEN {} ELSE w[q])
    BY <1>3, <2>3 DEF Reaches
  <2> HIDE DEF q
  <2>5. CASE q = NULL
    <3>1. \A a \in F : a \in Nat /\ a <= m
      BY <2>3, <2>5, <1>2 DEF IsNext
    <3>2. Rest(m) = {m}
      <4>1. ASSUME NEW a \in F, m <= a PROVE a = m
        <5>1. a \in Nat /\ a <= m /\ m \in Nat
          BY <3>1, <2>3
        <5> HIDE DEF T, Rest
        <5> QED BY <4>1, <5>1
      <4>2. m \in Rest(m)
        BY <2>3
      <4>3. \A a : a \in Rest(m) => a = m
        BY <4>1
      <4> QED BY <4>2, <4>3
    <3> QED BY <3>2, <2>3, <2>4, <2>5
  <2>6. CASE q # NULL
    <3>1. q \in F /\ q \in Nat /\ m < q /\ \A a \in F : a \in Nat /\ (a <= m \/ q <= a)
      BY <2>3, <2>6, <1>2 DEF IsNext
    <3>2. w[q] = Rest(q)
      BY <3>1, <2>2, <2>3
    <3>3. Rest(m) = {m} \cup Rest(q)
      <4>1. \A a \in F : m <= a <=> a = m \/ q <= a
        BY <3>1, <2>3
      <4> QED BY <4>1, <2>3
    <3> QED BY <3>2, <3>3, <2>3, <2>4, <2>6
  <2> QED BY <2>5, <2>6
<1>5. CASE h.root[l] = NULL
  BY <1>5, <1>2, <1>3 DEF Chain
<1>6. CASE h.root[l] # NULL
  <2>1. h.root[l] \in F /\ \A b \in F : h.root[l] <= b
    BY <1>6, <1>2 DEF Chain
  <2>2. w[h.root[l]] = Rest(h.root[l])
    BY <2>1, <1>4
  <2> QED BY <2>1, <2>2, <1>3, <1>6
<1> QED BY <1>5, <1>6

(* w[c] is where the search of pmalloc for n bytes ends if it comes to c. *)
Searches(w, h, D, n) ==
  \A c \in D : w[c] = IF h.node[c].size >= n THEN c
                      ELSE IF h.node[c].next # NULL THEN w[h.node[c].next] ELSE NULL

(* pmalloc's search is such a walk from the root. *)
LEMMA FirstFitWalk ==
  ASSUME NEW D, heap \in HeapOver(D), NEW n \in Nat
  PROVE  \E w : /\ FirstFit(n) = IF heap.root["available"] = NULL THEN NULL
                                 ELSE w[heap.root["available"]]
                /\ Searches(w, heap, D, n)
<1> DEFINE Goes(f, c) == CASE heap.node[c].size >= n   -> c
                           [] heap.node[c].size < n /\ heap.node[c].next # NULL -> f[heap.node[c].next]
                           [] OTHER -> NULL
           stops(c) == heap.node[c].size >= n \/ heap.node[c].next = NULL
           step == [c \in D |-> IF stops(c) THEN c ELSE heap.node[c].next]
           out  == [c \in D |-> IF heap.node[c].size >= n THEN c ELSE NULL]
           fit[c \in DOMAIN heap.node] ==
             CASE heap.node[c].size >= n   -> c
               [] heap.node[c].size < n /\ heap.node[c].next # NULL -> fit[heap.node[c].next]
               [] OTHER -> NULL
<1>1. /\ DOMAIN heap.node = D
      /\ \A c \in D : heap.node[c].next \in D \cup {NULL} /\ heap.node[c].size \in Nat
  BY PmallocAssumption DEF HeapOver, HeaderOver
<1>2. PICK f : Maps(f, D, D \cup {NULL}) /\ Loops(f, D, step, out)
  <2>1. Maps(out, D, D \cup {NULL}) /\ Maps(step, D, D)
    BY <1>1 DEF Maps
  <2> HIDE DEF step, out
  <2> QED BY <2>1, LoopExists
<1>3. ASSUME NEW c \in D PROVE f[c] = Goes(f, c)
  <2>1. f[c] = IF step[c] = c THEN out[c] ELSE f[step[c]]
    BY <1>2 DEF Loops
  <2>2. CASE heap.node[c].size >= n
    BY <2>1, <2>2, <1>1
  <2>3. CASE heap.node[c].size < n /\ heap.node[c].next = NULL
    <3>1. ~(heap.node[c].size >= n)
      BY <2>3, <1>1
    <3> QED BY <3>1, <2>1, <2>3
  <2>4. CASE heap.node[c].size < n /\ heap.node[c].next # NULL
    <3>1. ~(heap.node[c].size >= n)
      BY <2>4, <1>1
    <3>2. step[c] = heap.node[c].next
      BY <3>1, <2>4
    <3>3. f[c] = f[heap.node[c].next]
      BY <3>2, <2>1, <1>2 DEF Maps
    <3> QED BY <3>1, <3>3, <2>4
  <2> QED BY <2>2, <2>3, <2>4, <1>1
<1>4. \E g : g = [c \in DOMAIN heap.node |->
             CASE heap.node[c].size >= n   -> c
               [] heap.node[c].size < n /\ heap.node[c].next # NULL -> g[heap.node[c].next]
               [] OTHER -> NULL]
  <2>1. f = [c \in D |-> Goes(f, c)]
    BY <1>2, <1>3 DEF Maps
  <2> QED BY <1>1, <2>1
<1>5. fit = [c \in DOMAIN heap.node |->
             CASE heap.node[c].size >= n   -> c
               [] heap.node[c].size < n /\ heap.node[c].next # NULL -> fit[heap.node[c].next]
               [] OTHER -> NULL]
  BY <1>4
<1>6. FirstFit(n) = IF heap.root["available"] = NULL THEN NULL ELSE fit[heap.root["available"]]
  BY DEF FirstFit
<1> HIDE DEF fit
<1>7. ASSUME NEW c \in D PROVE fit[c] = Goes(fit, c)
  BY <1>1, <1>5
<1>8. Searches(fit, heap, D, n)
  <2> SUFFICES ASSUME NEW c \in D
               PROVE  fit[c] = IF heap.node[c].size >= n THEN c
                               ELSE IF heap.node[c].next # NULL THEN fit[heap.node[c].next] ELSE NULL
    BY DEF Searches
  <2>1. heap.node[c].size >= n \/ heap.node[c].size < n
    BY <1>1
  <2> QED BY <2>1, <1>1, <1>7
<1> QED BY <1>6, <1>8

(* pmalloc takes the first block that is large enough, and reports that    *)
(* there is none only when there is none.                                  *)
LEMMA FirstFitIs ==
  ASSUME NEW D, NEW F, OnList(heap, D, "available", F), NEW n \in Nat
  PROVE  LET c == FirstFit(n)
         IN  IF c = NULL THEN \A a \in F : heap.node[a].size < n
             ELSE /\ c \in F /\ heap.node[c].size >= n
                  /\ \A a \in F : a < c => heap.node[a].size < n
<1>1. PICK N \in Nat : \A a \in D : a <= N
  BY DEF OnList, Bounded
<1>2. /\ NULL \notin F /\ F \in SUBSET Nat /\ heap \in HeapOver(D) /\ Chain(heap, "available", F)
      /\ \A a \in F : a \in D /\ a <= N
      /\ \A a \in D : heap.node[a].size \in Nat
  <2>1. /\ NULL \notin F /\ F \in SUBSET Nat /\ heap \in HeapOver(D) /\ Chain(heap, "available", F)
        /\ \A a \in F : a \in D /\ a <= N
    BY <1>1, PmallocAssumption DEF OnList, Bounded
  <2>2. \A a \in D : heap.node[a].size \in 0 .. U32 - 1
    BY <2>1 DEF HeapOver, HeaderOver
  <2> QED BY <2>1, <2>2, PmallocAssumption
<1>3. PICK w : /\ FirstFit(n) = IF heap.root["available"] = NULL THEN NULL
                                ELSE w[heap.root["available"]]
               /\ Searches(w, heap, D, n)
  BY <1>2, FirstFitWalk
<1> DEFINE Finds(c, a) == IF a = NULL THEN \A b \in F : c <= b => heap.node[b].size < n
                          ELSE /\ a \in F /\ heap.node[a].size >= n
                               /\ \A b \in F : c <= b /\ b < a => heap.node[b].size < n
           T == {c \in F : ~Finds(c, w[c])}
<1>4. T = {}
  <2> SUFFICES ASSUME T # {} PROVE FALSE
    OBVIOUS
  <2>1. T \in SUBSET Nat /\ \A c \in T : c <= N
    BY <1>2
  <2> HIDE DEF T
  <2>2. PICK m \in T : \A k \in T : k <= m
    BY <2>1, <1>1, GreatestOf
  <2> USE DEF T
  <2> DEFINE q == heap.node[m].next
             s == heap.node[m].size
  <2>3. m \in F /\ m \in Nat /\ m \in D /\ s \in Nat /\ ~Finds(m, w[m]) /\ IsNext(q, m, F)
    BY <2>2, <1>2 DEF Chain
  <2>4. w[m] = IF s >= n THEN m ELSE IF q # NULL THEN w[q] ELSE NULL
    BY <1>3, <2>3 DEF Searches
  <2>5. CASE s >= n
    <3>1. w[m] = m /\ m # NULL
      BY <2>3, <2>4, <2>5, <1>2
    <3>2. \A b \in F : ~(m <= b /\ b < m)
      BY <2>3, <1>2
    <3> QED BY <3>1, <3>2, <2>3, <2>5
  <2>6. CASE s < n /\ q = NULL
    <3>1. w[m] = NULL
      BY <2>3, <2>4, <2>6
    <3>2. \A b \in F : b \in Nat /\ b <= m
      BY <2>3, <2>6, <1>2 DEF IsNext
    <3>3. \A b \in F : m <= b => b = m
      BY <3>2, <2>3
    <3>4. Finds(m, NULL)
      BY <3>3, <2>6
    <3> QED BY <3>1, <3>4, <2>3
  <2>7. CASE s < n /\ q # NULL
    <3>1. w[m] = w[q]
      BY <2>3, <2>4, <2>7
    <3>2. q \in F /\ q \in Nat /\ m < q /\ \A b \in F : b \in Nat /\ (b <= m \/ q <= b)
      BY <2>3, <2>7, <1>2 DEF IsNext
    <3>3. q \notin T
      BY <3>2, <2>2, <2>3
    <3>4. Finds(q, w[q])
      BY <3>2, <3>3
    <3>5. \A b \in F : m <= b => b = m \/ q <= b
      BY <3>2, <2>3
    <3>6. Finds(m, w[q])
      BY <3>4, <3>5, <2>7
    <3> QED BY <3>1, <3>6, <2>3
  <2> QED BY <2>3, <2>5, <2>6, <2>7
<1>5. CASE heap.root["available"] = NULL
  BY <1>5, <1>2, <1>3 DEF Chain
<1>6. CASE heap.root["available"] # NULL
  <2> DEFINE r == heap.root["available"]
  <2>1. r \in F /\ \A b \in F : r <= b
    BY <1>6, <1>2 DEF Chain
  <2>2. Finds(r, w[r]) /\ FirstFit(n) = w[r]
    BY <2>1, <1>3, <1>4, <1>6
  <2> HIDE DEF r
  <2> QED BY <2>1, <2>2
<1> QED BY <1>5, <1>6

---------------------------------------------------------------------------
(* Where the block of header a ends.  The blocks of F do not overlap. *)
EndOf(h, a) == a + Hdr + h.node[a].size
Apart(h, F) == \A a, b \in F : a < b => EndOf(h, a) <= b

(* w[c] is where the backward scan of pfree ends if it comes to c. *)
ScansBack(w, h, D) ==
  \A c \in D : LET p == h.node[c].prev
               IN  w[c] = IF p # NULL /\ c = EndOf(h, p) THEN w[p] ELSE c

(* The backward loop of pfree is such a walk from the block given back. *)
LEMMA LowEndWalk ==
  ASSUME NEW D, NEW h \in HeapOver(D), NEW n
  PROVE  \E w : LowEnd(h, n) = w[n] /\ ScansBack(w, h, D)
<1> DEFINE Goes(f, c) == LET p == h.node[c].prev
                         IN  IF p # NULL /\ c = p + Hdr + h.node[p].size THEN f[p] ELSE c
           step == [c \in D |-> Goes([p \in D |-> p], c)]
           out  == [c \in D |-> c]
           back[c \in DOMAIN h.node] ==
             LET p == h.node[c].prev
             IN  IF p # NULL /\ c = p + Hdr + h.node[p].size THEN back[p] ELSE c
<1>1. DOMAIN h.node = D /\ \A c \in D : h.node[c].prev \in D \cup {NULL}
  BY DEF HeapOver, HeaderOver
<1>2. PICK f : Maps(f, D, D) /\ Loops(f, D, step, out)
  <2>1. Maps(out, D, D) /\ Maps(step, D, D)
    BY <1>1 DEF Maps
  <2> HIDE DEF step, out
  <2> QED BY <2>1, LoopExists
<1>3. ASSUME NEW c \in D PROVE f[c] = Goes(f, c)
  BY <1>1, <1>2 DEF Loops
<1>4. \E g : g = [c \in DOMAIN h.node |->
               LET p == h.node[c].prev
               IN  IF p # NULL /\ c = p + Hdr + h.node[p].size THEN g[p] ELSE c]
  <2>1. f = [c \in D |-> Goes(f, c)]
    BY <1>2, <1>3 DEF Maps
  <2> QED BY <1>1, <2>1
<1>5. back = [c \in DOMAIN h.node |->
               LET p == h.node[c].prev
               IN  IF p # NULL /\ c = p + Hdr + h.node[p].size THEN back[p] ELSE c]
  BY <1>4
<1>6. LowEnd(h, n) = back[n]
  BY DEF LowEnd
<1> HIDE DEF back
<1>7. ASSUME NEW c \in D PROVE back[c] = Goes(back, c)
  BY <1>1, <1>5
<1>8. ScansBack(back, h, D)
  BY <1>7 DEF ScansBack, EndOf
<1> QED BY <1>6, <1>8

(* When no two other available blocks touch, the backward scan of pfree    *)
(* ends at the available block that ends where n starts, if there is one.  *)
LEMMA LowEndIs ==
  ASSUME NEW h, NEW D, NEW F, OnList(h, D, "available", F), NEW n \in F, Apart(h, F),
         \A a \in F \ {n} : EndOf(h, a) \notin F \ {n}
  PROVE  LET lo == LowEnd(h, n)
         IN  \/ lo \in F \ {n} /\ EndOf(h, lo) = n
             \/ lo = n /\ \A a \in F : EndOf(h, a) # n
<1>1. /\ NULL \notin F /\ h \in HeapOver(D) /\ Chain(h, "available", F)
      /\ \A a \in F : a \in D /\ a \in Nat
  BY PmallocAssumption DEF OnList, Bounded
<1>2. \A a \in F : h.node[a].size \in Nat /\ EndOf(h, a) \in Nat /\ a < EndOf(h, a)
  <2>1. \A a \in F : h.node[a].size \in 0 .. U32 - 1
    BY <1>1 DEF HeapOver, HeaderOver
  <2> QED BY <2>1, <1>1, PmallocAssumption DEF EndOf
<1>3. PICK w : LowEnd(h, n) = w[n] /\ ScansBack(w, h, D)
  BY <1>1, LowEndWalk
<1> DEFINE p == h.node[n].prev
<1>4. IsPrev(p, n, F) /\ w[n] = IF p # NULL /\ n = EndOf(h, p) THEN w[p] ELSE n
  BY <1>1, <1>3 DEF Chain, ScansBack
<1>5. CASE p # NULL /\ n = EndOf(h, p)
  <2> DEFINE pp == h.node[p].prev
  <2>1. p \in F /\ p # n /\ p \in D
    BY <1>1, <1>2, <1>4, <1>5 DEF IsPrev
  <2>2. IsPrev(pp, p, F) /\ w[p] = IF pp # NULL /\ p = EndOf(h, pp) THEN w[pp] ELSE p
    BY <2>1, <1>1, <1>3 DEF Chain, ScansBack
  <2>3. pp # NULL => pp \in F /\ pp < p /\ p < n
    BY <2>1, <2>2, <1>1, <1>2, <1>5 DEF IsPrev
  <2>4. pp # NULL => pp \in F \ {n} /\ p \in F \ {n}
    BY <2>1, <2>3, <1>1
  <2> HIDE DEF p, pp
  <2>5. w[p] = p
    BY <2>2, <2>4
  <2> QED BY <2>1, <2>5, <1>3, <1>4, <1>5
<1>6. CASE ~(p # NULL /\ n = EndOf(h, p))
  <2>1. ASSUME NEW a \in F, EndOf(h, a) = n PROVE FALSE
    <3>1. a < n
      BY <2>1, <1>2
    <3>2. p # NULL /\ p \in F /\ p < n /\ a <= p
      BY <3>1, <1>1, <1>4 DEF IsPrev
    <3>3. a # p
      BY <2>1, <3>2, <1>6
    <3>4. a < p
      BY <3>2, <3>3, <1>1
    <3>5. EndOf(h, a) <= p
      BY <3>2, <3>4 DEF Apart
    <3> QED BY <2>1, <3>2, <3>5, <1>1
  <2>2. w[n] = n
    BY <1>4, <1>6
  <2> QED BY <2>1, <2>2, <1>3
<1> QED BY <1>5, <1>6

---------------------------------------------------------------------------
(* One turn of pfree's forward loop, or none when it would stop. *)
Absorb(t, n) ==
  LET q == t.heap.node[n].next
  IN  IF q # NULL /\ q = n + Hdr + t.heap.node[n].size THEN MergeForward(t, n) ELSE t

(* What is left of a number in a uint32_t. *)
LEMMA WordRange ==
  ASSUME NEW x \in Int
  PROVE  x % U32 \in 0 .. U32 - 1 /\ (x \in 0 .. U32 - 1 => x % U32 = x)
BY PmallocAssumption

(* The counters of a state of that loop agree with its lists, but for what *)
(* a word cannot hold.                                                     *)
Counts(t, F, G) ==
  /\ t.freemem = SizeSum(t.heap, F) % U32
  /\ t.totalnodes = Cardinality(F \cup G) % U32

(* A loop that has nothing left to do after two turns is done after two. *)
LEMMA MergeAllIs ==
  ASSUME NEW s, NEW n, NEW t, t = Absorb(Absorb(s, n), n), Absorb(t, n) = t,
         Cardinality(DOMAIN s.heap.node) \in Nat \ {0}
  PROVE  MergeAll(s, n) = t
<1> DEFINE Goes(f, k) == LET u == IF k = 0 THEN s ELSE f[k - 1]
                             q == u.heap.node[n].next
                         IN  IF q # NULL /\ q = n + Hdr + u.heap.node[n].size
                             THEN MergeForward(u, n) ELSE u
           f == [k \in Nat |-> IF k = 0 THEN Absorb(s, n) ELSE t]
           merge[k \in Nat] ==
             LET u == IF k = 0 THEN s ELSE merge[k - 1]
                 q == u.heap.node[n].next
             IN  IF q # NULL /\ q = n + Hdr + u.heap.node[n].size
                 THEN MergeForward(u, n) ELSE u
<1>1. ASSUME NEW g, NEW k \in Nat
      PROVE  Goes(g, k) = Absorb(IF k = 0 THEN s ELSE g[k - 1], n)
  BY DEF Absorb
<1>2. ASSUME NEW k \in Nat PROVE f[k] = Goes(f, k)
  <2>1. CASE k = 0
    <3>1. f[k] = Absorb(s, n)
      BY <2>1
    <3> QED BY <2>1, <3>1, <1>1
  <2>2. CASE k = 1
    <3>1. f[k] = t /\ k - 1 = 0 /\ k # 0 /\ f[0] = Absorb(s, n)
      BY <2>2
    <3>2. Goes(f, k) = Absorb(f[0], n)
      <4>1. Goes(f, k) = Absorb(IF k = 0 THEN s ELSE f[k - 1], n)
        BY <1>1
      <4> QED BY <4>1, <3>1
    <3> QED BY <3>1, <3>2
  <2>3. CASE k # 0 /\ k # 1
    <3>1. f[k] = t /\ k - 1 \in Nat /\ k - 1 # 0 /\ f[k - 1] = t
      BY <2>3
    <3> QED BY <2>3, <3>1, <1>1
  <2> QED BY <2>1, <2>2, <2>3
<1>3. \E g : g = [k \in Nat |->
               LET u == IF k = 0 THEN s ELSE g[k - 1]
                   q == u.heap.node[n].next
               IN  IF q # NULL /\ q = n + Hdr + u.heap.node[n].size
                   THEN MergeForward(u, n) ELSE u]
  <2>1. f = [k \in Nat |-> Goes(f, k)]
    BY <1>2
  <2> QED BY <2>1
<1>4. merge = [k \in Nat |->
               LET u == IF k = 0 THEN s ELSE merge[k - 1]
                   q == u.heap.node[n].next
               IN  IF q # NULL /\ q = n + Hdr + u.heap.node[n].size
                   THEN MergeForward(u, n) ELSE u]
  BY <1>3
<1>5. MergeAll(s, n) = merge[Cardinality(DOMAIN s.heap.node)]
  BY DEF MergeAll
<1> HIDE DEF merge
<1>6. ASSUME NEW k \in Nat
      PROVE  merge[k] = Absorb(IF k = 0 THEN s ELSE merge[k - 1], n)
  <2>1. merge[k] = Goes(merge, k)
    BY <1>4
  <2> QED BY <2>1, <1>1
<1>7. merge[0] = Absorb(s, n)
  BY <1>6
<1>8. merge[1] = t
  BY <1>6, <1>7
<1> DEFINE T == {k \in Nat : k # 0 /\ merge[k] # t}
<1>9. T = {}
  <2> SUFFICES ASSUME T # {} PROVE FALSE
    OBVIOUS
  <2>1. T \in SUBSET Nat
    OBVIOUS
  <2> HIDE DEF T
  <2>2. PICK m \in T : \A k \in T : m <= k
    BY <2>1, LeastOf
  <2> USE DEF T
  <2>3. m \in Nat /\ m # 0 /\ m # 1 /\ merge[m] # t
    BY <2>2, <1>8
  <2>4. m - 1 \in Nat /\ m - 1 # 0 /\ m - 1 \notin T
    BY <2>2, <2>3
  <2>5. merge[m - 1] = t
    BY <2>4
  <2>6. merge[m] = Absorb(merge[m - 1], n)
    BY <2>3, <1>6
  <2> QED BY <2>3, <2>5, <2>6
<1> QED BY <1>5, <1>9

(* q follows n on its list, and s is the size of both with q's header. *)
Joins(h, n, q, s) ==
  q = h.node[n].next /\ s \in 0 .. U32 - 1 /\ s = h.node[n].size + h.node[q].size + Hdr

(* u is t without q's header, its cells now part of n's block. *)
Swallows(u, t, F, G, n, q, s) ==
  /\ Shape(u.heap, F \ {q}, G)
  /\ Counts(u, F \ {q}, G)
  /\ SameSizes(u.heap, t.heap, (F \cup G) \ {n, q})
  /\ u.heap.node[n].size = s
  /\ Room(u.heap, (F \ {q}) \cup G) = Room(t.heap, F \cup G)

(* One block of the room of two: what is available is a header more, and   *)
(* the headers are one less.                                               *)
Joined(g, h, F, G, q) ==
  /\ SizeSum(g, F \ {q}) = SizeSum(h, F) + Hdr
  /\ Cardinality((F \ {q}) \cup G) = Cardinality(F \cup G) - 1
  /\ Room(g, (F \ {q}) \cup G) = Room(h, F \cup G)

(* Adding the block q and its header to n's size does that. *)
LEMMA JoinedSizes ==
  ASSUME NEW h, NEW F, NEW G, Shape(h, F, G), NEW n \in F, NEW q \in F, n # q, q \notin G,
         NEW g, SameSizes(g, h, (F \cup G) \ {n, q}),
         g.node[n].size = h.node[n].size + h.node[q].size + Hdr
  PROVE  Joined(g, h, F, G, q)
<1> DEFINE D == F \cup G
           k == [h EXCEPT !.node[n].size = g.node[n].size]
           x == h.node[n].size
           y == h.node[q].size
           z == g.node[n].size
<1>1. Sized(h, F) /\ Sized(h, D) /\ x \in Nat /\ y \in Nat /\ Hdr \in Nat
  <2>1. Sized(h, F) /\ Sized(h, D)
    BY SizedPart
  <2> QED BY <2>1, PmallocAssumption DEF Sized
<1>2. z = x + y + Hdr /\ z \in Nat
  BY <1>1
<1>3. ASSUME NEW E, E = F \/ E = D
      PROVE  /\ SizeSum(g, E \ {q}) = SizeSum(h, E) + Hdr
             /\ Cardinality(E \ {q}) = Cardinality(E) - 1
             /\ Room(g, E \ {q}) = Room(h, E)
  <2>1. Sized(h, E) /\ n \in E /\ q \in E
    BY <1>1, <1>3
  <2>2. Shrunk(h, h, E, q)
    BY <2>1, SizeSumDrop DEF SameSizes
  <2> DEFINE C == E \ {q}
  <2>3. Sized(h, C) /\ n \in C /\ SameSizes(g, h, C \ {n})
    <3>1. IsFiniteSet(C)
      BY <2>1, FS_RemoveElement DEF Sized
    <3> QED BY <3>1, <2>1, <1>3 DEF Sized, SameSizes
  <2> HIDE DEF C
  <2>4. Resized(g, h, C, n)
    BY <2>3, <1>2, SizeSumChange
  <2>5. SizeSum(h, E) \in Nat /\ Room(h, E) \in Nat
    BY <2>1, SizeSumIs
  <2>6. /\ SizeSum(h, C) = SizeSum(h, E) - y /\ Cardinality(C) = Cardinality(E) - 1
        /\ Room(h, C) = Room(h, E) - y - Hdr
    BY <2>2 DEF Shrunk, C
  <2>7. SizeSum(g, C) = SizeSum(h, C) - x + z /\ Room(g, C) = Room(h, C) - x + z
    BY <2>4 DEF Resized
  <2> HIDE DEF x, y, z
  <2>8. SizeSum(g, C) = SizeSum(h, E) + Hdr /\ Room(g, C) = Room(h, E)
    BY <2>5, <2>6, <2>7, <1>1, <1>2
  <2> QED BY <2>6, <2>8 DEF C
<1>4. D \ {q} = (F \ {q}) \cup G
  OBVIOUS
<1> HIDE DEF D
<1> QED BY <1>3, <1>4 DEF Joined, D

(* Swallowing the next header takes it off the heap and adds its block and *)
(* its own cells to the block before.                                      *)
LEMMA MergeForwardEffect ==
  ASSUME NEW t, NEW F, NEW G, Shape(t.heap, F, G), Counts(t, F, G), NEW n \in F, NEW q \in F,
         NEW s, Joins(t.heap, n, q, s)
  PROVE  Swallows(MergeForward(t, n), t, F, G, n, q, s)
<1> DEFINE D == F \cup G
           E == D \ {q}
           h == t.heap
           k == LLRemove(h, "available", q)
           u == MergeForward(t, n)
           g == u.heap
<1>1. q = h.node[n].next /\ s \in 0 .. U32 - 1 /\ s = h.node[n].size + h.node[q].size + Hdr
  BY DEF Joins
<1>2. "available" \in Lists /\ "assigned" \in Lists /\ "available" # "assigned"
  BY DEF Lists
<1>3. OnList(h, D, "available", F) /\ OnList(h, D, "assigned", G) /\ F \cap G = {}
  BY DEF Shape, OnList
<1>4. OnList(k, D, "available", F \ {q}) /\ Keeps(k, h, D, "available", F)
  BY <1>2, <1>3, RemoveEffect
<1>5. /\ g = [node |-> [a \in DOMAIN h.node \ {q} |->
                   IF a = n THEN [k.node[n] EXCEPT !.size = (@ + h.node[q].size + Hdr) % U32]
                            ELSE k.node[a]],
                 root |-> k.root]
      /\ u.freemem = (t.freemem + Hdr) % U32
      /\ u.totalnodes = (t.totalnodes - 1) % U32
  BY <1>1 DEF MergeForward
<1> HIDE DEF k, u
<1>6. OnList(k, D, "assigned", G)
  BY <1>2, <1>3, <1>4, OtherList
<1>7. NULL \notin D /\ D \in SUBSET Nat /\ n \in D /\ q \in D /\ n \notin G /\ q \notin G /\ q # n
  <2>1. NULL \notin D /\ D \in SUBSET Nat /\ n \in D /\ q \in D /\ n \notin G /\ q \notin G
    BY <1>3, PmallocAssumption DEF OnList, Bounded
  <2>2. IsNext(q, n, F)
    BY <1>1, <1>3 DEF OnList, Chain
  <2> QED BY <2>1, <2>2 DEF IsNext
<1>8. /\ k = [node |-> k.node, root |-> k.root]
      /\ k.node \in [D -> HeaderOver(D)]
      /\ k.root \in [Lists -> D \cup {NULL}]
  BY <1>4 DEF OnList, HeapOver
<1>9. \A a \in D : k.node[a].size = h.node[a].size
  BY <1>4 DEF Keeps
<1>10. (k.node[n].size + h.node[q].size + Hdr) % U32 = s
  <2>1. k.node[n].size = h.node[n].size
    BY <1>7, <1>9
  <2>2. s % U32 = s
    <3>1. s \in 0 .. U32 - 1
      BY <1>1
    <3> HIDE DEF g, h, D, E
    <3> QED BY <3>1, PmallocAssumption
  <2> QED BY <2>1, <2>2, <1>1
<1>11. /\ g = [node |-> g.node, root |-> k.root]
       /\ g.node = [a \in E |-> IF a = n THEN [k.node[n] EXCEPT !.size = s] ELSE k.node[a]]
  <2>1. /\ g.node = [a \in D \ {q} |->
                      IF a = n THEN [k.node[n] EXCEPT !.size = (@ + h.node[q].size + Hdr) % U32]
                               ELSE k.node[a]]
        /\ g = [node |-> g.node, root |-> k.root]
    <3>1. DOMAIN h.node = D
      BY <1>3 DEF OnList, HeapOver
    <3>2. g.root = k.root /\ g = [node |-> g.node, root |-> g.root]
      BY <1>5
    <3>3. g.node = [a \in DOMAIN h.node \ {q} |->
                      IF a = n THEN [k.node[n] EXCEPT !.size = (@ + h.node[q].size + Hdr) % U32]
                               ELSE k.node[a]]
      BY <1>5
    <3> HIDE DEF g, h, D
    <3> QED BY <3>1, <3>2, <3>3
  <2>2. [k.node[n] EXCEPT !.size = (@ + h.node[q].size + Hdr) % U32] = [k.node[n] EXCEPT !.size = s]
    BY <1>10
  <2> HIDE DEF g, D
  <2> QED BY <2>1, <2>2
<1> HIDE DEF g
<1>12. /\ g.node[n] = [k.node[n] EXCEPT !.size = s]
       /\ \A a \in E \ {n} : g.node[a] = k.node[a]
       /\ g.root = k.root
  <2>1. n \in E
    BY <1>7
  <2>2. g.root = k.root
    BY <1>11
  <2> HIDE DEF E
  <2> QED BY <2>1, <2>2, <1>11
<1>13. g.node[n].size = s /\ SameSizes(g, h, D \ {n, q})
  <2>1. k.node[n] = [prev |-> k.node[n].prev, next |-> k.node[n].next, size |-> k.node[n].size]
    BY <1>7, <1>8 DEF HeaderOver
  <2>2. g.node[n].size = s
    BY <2>1, <1>12
  <2> QED BY <2>2, <1>9, <1>12 DEF SameSizes
<1>14. ASSUME NEW a \in E
       PROVE  g.node[a].prev = k.node[a].prev /\ g.node[a].next = k.node[a].next
  <2>1. CASE a = n
    <3>1. k.node[n] = [prev |-> k.node[n].prev, next |-> k.node[n].next, size |-> k.node[n].size]
      BY <1>7, <1>8 DEF HeaderOver
    <3> QED BY <2>1, <3>1, <1>12
  <2>2. CASE a # n
    BY <2>2, <1>12
  <2> QED BY <2>1, <2>2
<1>15. Chain(k, "available", F \ {q}) /\ Chain(k, "assigned", G)
  BY <1>4, <1>6 DEF OnList
<1>16. Chain(g, "available", F \ {q}) /\ Chain(g, "assigned", G)
  <2>1. F \ {q} \subseteq E /\ G \subseteq E
    BY <1>7
  <2> QED BY <2>1, <1>12, <1>14, <1>15, ChainFrame
<1>17. g \in HeapOver(E)
  <2>1. k.root \in [Lists -> E \cup {NULL}]
    <3>1. ASSUME NEW l \in Lists PROVE k.root[l] \in E \cup {NULL}
      <4>1. l = "available" \/ l = "assigned"
        BY DEF Lists
      <4>2. k.root["available"] \in (F \ {q}) \cup {NULL} /\ k.root["assigned"] \in G \cup {NULL}
        BY <1>15 DEF Chain
      <4> QED BY <4>1, <4>2, <1>7
    <3> QED BY <3>1, <1>8
  <2>2. ASSUME NEW a \in E PROVE g.node[a] \in HeaderOver(E)
    <3>1. k.node[a].prev \in E \cup {NULL} /\ k.node[a].next \in E \cup {NULL}
      <4>1. CASE a \in F \ {q}
        <5>1. IsPrev(k.node[a].prev, a, F \ {q}) /\ IsNext(k.node[a].next, a, F \ {q})
          BY <4>1, <1>15 DEF Chain
        <5> QED BY <5>1 DEF IsPrev, IsNext
      <4>2. CASE a \in G
        <5>1. IsPrev(k.node[a].prev, a, G) /\ IsNext(k.node[a].next, a, G)
          BY <4>2, <1>15 DEF Chain
        <5> QED BY <5>1, <1>7 DEF IsPrev, IsNext
      <4> QED BY <4>1, <4>2
    <3>2. k.node[a] = [prev |-> k.node[a].prev, next |-> k.node[a].next, size |-> k.node[a].size]
          /\ k.node[a].size \in 0 .. U32 - 1
      BY <1>8 DEF HeaderOver
    <3>3. CASE a = n
      <4>1. g.node[a] = [prev |-> k.node[a].prev, next |-> k.node[a].next, size |-> s]
        BY <3>2, <3>3, <1>12
      <4>2. s \in 0 .. U32 - 1
        BY <1>1
      <4> QED BY <4>1, <4>2, <3>1 DEF HeaderOver
    <3>4. CASE a # n
      <4>1. g.node[a] = [prev |-> k.node[a].prev, next |-> k.node[a].next, size |-> k.node[a].size]
        BY <3>2, <3>4, <1>12
      <4> QED BY <4>1, <3>1, <3>2 DEF HeaderOver
    <3> QED BY <3>3, <3>4
  <2>3. g.node \in [E -> HeaderOver(E)]
    BY <2>2, <1>11
  <2> HIDE DEF E
  <2>4. g = [node |-> g.node, root |-> k.root]
    BY <1>11
  <2> QED BY <2>1, <2>3, <2>4 DEF HeapOver
<1>18. (F \ {q}) \cup G = E /\ (F \ {q}) \cap G = {} /\ Bounded(E)
  BY <1>3, <1>7 DEF OnList, Bounded
<1>19. Shape(g, F \ {q}, G)
  BY <1>16, <1>17, <1>18 DEF Shape
<1>20. SameSizes(u.heap, h, (F \cup G) \ {n, q}) /\ u.heap.node[n].size = s /\ Shape(u.heap, F \ {q}, G)
  BY <1>13, <1>19 DEF g
<1>21. Joined(u.heap, h, F, G, q)
  <2>1. Shape(h, F, G) /\ n # q /\ q \notin G
    BY <1>7
  <2>2. u.heap.node[n].size = h.node[n].size + h.node[q].size + Hdr
    BY <1>1, <1>20
  <2> HIDE DEF D, E, h
  <2> QED BY <2>1, <2>2, <1>20, JoinedSizes
<1>22. Counts(u, F \ {q}, G)
  <2> DEFINE x == SizeSum(h, F)
             c == Cardinality(F \cup G)
  <2>1. x \in Nat /\ c \in Nat
    <3>1. Sized(h, F) /\ Sized(h, F \cup G)
      BY SizedPart
    <3> QED BY <3>1, SizeSumIs
  <2>2. t.freemem = x % U32 /\ t.totalnodes = c % U32
    BY DEF Counts
  <2>3. SizeSum(u.heap, F \ {q}) = x + Hdr /\ Cardinality((F \ {q}) \cup G) = c - 1
    BY <1>21 DEF Joined
  <2>4. u.freemem = (t.freemem + Hdr) % U32 /\ u.totalnodes = (t.totalnodes - 1) % U32
    BY <1>5
  <2> HIDE DEF x, c
  <2>5. ((x % U32) + Hdr) % U32 = (x + Hdr) % U32 /\ ((c % U32) - 1) % U32 = (c - 1) % U32
    <3>1. x \in Int /\ c \in Int /\ Hdr \in Int /\ 1 \in Int /\ U32 \in Nat \ {0}
      BY <2>1, PmallocAssumption
    <3> QED BY <3>1, WrapLate
  <2> QED BY <2>2, <2>3, <2>4, <2>5 DEF Counts
<1> QED BY <1>20, <1>21, <1>22 DEF u, Swallows, Joined

(* What the forward loop keeps: both lists in order, counters in range, no *)
(* overlap among the available blocks.                                     *)
Merging(t, F, G) == Shape(t.heap, F, G) /\ Counts(t, F, G) /\ Apart(t.heap, F)

(* The facts about addresses and sizes that the walks need as numbers. *)
LEMMA Numbers ==
  ASSUME NEW h, NEW F, NEW G, Shape(h, F, G)
  PROVE  /\ NULL \notin F \cup G
         /\ \A a \in F \cup G : /\ a \in Nat
                                /\ h.node[a].size \in 0 .. U32 - 1 /\ h.node[a].size \in Nat
                                /\ EndOf(h, a) \in Nat /\ a + Hdr <= EndOf(h, a) /\ a < EndOf(h, a)
<1>1. NULL \notin F \cup G /\ \A a \in F \cup G : a \in Nat
  BY PmallocAssumption DEF Shape, Bounded
<1>2. \A a \in F \cup G : h.node[a].size \in 0 .. U32 - 1
  BY DEF Shape, HeapOver, HeaderOver
<1>3. ASSUME NEW a \in F \cup G
      PROVE  /\ h.node[a].size \in Nat
             /\ EndOf(h, a) \in Nat /\ a + Hdr <= EndOf(h, a) /\ a < EndOf(h, a)
  <2>1. a \in Nat /\ h.node[a].size \in 0 .. U32 - 1 /\ U32 \in Nat /\ Hdr \in Nat \ {0}
    BY <1>1, <1>2, PmallocAssumption
  <2> QED BY <2>1 DEF EndOf
<1> QED BY <1>1, <1>2, <1>3

(* The loop stops when no available block starts where n ends. *)
LEMMA AbsorbNothing ==
  ASSUME NEW t, NEW F, NEW G, Merging(t, F, G), NEW n \in F, EndOf(t.heap, n) \notin F
  PROVE  Absorb(t, n) = t
<1> DEFINE q == t.heap.node[n].next
<1>1. IsNext(q, n, F)
  BY DEF Merging, Shape, Chain
<1>2. q # NULL => q \in F
  BY <1>1 DEF IsNext
<1>3. Absorb(t, n) = IF q # NULL /\ q = EndOf(t.heap, n) THEN MergeForward(t, n) ELSE t
  BY DEF Absorb, EndOf
<1> HIDE DEF q
<1> QED BY <1>2, <1>3

(* e starts where n ends, and a block of the size of both has a size that  *)
(* fits a uint32_t.                                                        *)
Touches(h, n, e) == e = EndOf(h, n) /\ EndOf(h, e) - n - Hdr \in 0 .. U32 - 1

(* u is t with e's block made part of n's. *)
Absorbed(u, t, F, G, n, e) ==
  /\ Merging(u, F \ {e}, G)
  /\ SameSizes(u.heap, t.heap, (F \cup G) \ {n, e})
  /\ u.heap.node[n].size = EndOf(t.heap, e) - n - Hdr
  /\ EndOf(u.heap, n) = EndOf(t.heap, e)
  /\ Room(u.heap, (F \ {e}) \cup G) = Room(t.heap, F \cup G)

(* Otherwise it swallows that block, and n ends where that block ended. *)
LEMMA AbsorbNext ==
  ASSUME NEW t, NEW F, NEW G, Merging(t, F, G), NEW n \in F, NEW e \in F, Touches(t.heap, n, e)
  PROVE  Absorbed(Absorb(t, n), t, F, G, n, e)
<1> DEFINE h == t.heap
           q == h.node[n].next
           u == Absorb(t, n)
<1>1. Shape(h, F, G) /\ Counts(t, F, G) /\ Apart(h, F)
  BY DEF Merging
<1>2. e = EndOf(h, n) /\ EndOf(h, e) - n - Hdr \in 0 .. U32 - 1
  BY DEF Touches
<1>3. /\ NULL \notin F
      /\ Hdr \in Nat
      /\ \A a \in F : a \in Nat /\ h.node[a].size \in Nat /\ EndOf(h, a) \in Nat /\ a < EndOf(h, a)
  BY <1>1, Numbers, PmallocAssumption
<1>4. IsNext(q, n, F)
  BY <1>1 DEF Shape, Chain
<1>5. q = e
  <2>1. n < e
    BY <1>2, <1>3
  <2>2. q # NULL
    BY <2>1, <1>3, <1>4 DEF IsNext
  <2>3. q \in F /\ n < q /\ q <= e
    BY <2>1, <2>2, <1>3, <1>4 DEF IsNext
  <2>4. e <= q
    BY <2>3, <1>2, <1>1 DEF Apart
  <2> HIDE DEF q
  <2> QED BY <2>3, <2>4, <1>3
<1>6. u = MergeForward(t, n)
  <2>1. u = IF q # NULL /\ q = EndOf(h, n) THEN MergeForward(t, n) ELSE t
    BY DEF Absorb, EndOf
  <2> HIDE DEF q, u
  <2> QED BY <2>1, <1>2, <1>3, <1>5
<1>7. h.node[n].size + h.node[e].size + Hdr = EndOf(h, e) - n - Hdr
  <2>1. e = n + Hdr + h.node[n].size /\ EndOf(h, e) = e + Hdr + h.node[e].size
    BY <1>2 DEF EndOf
  <2> HIDE DEF h
  <2> QED BY <2>1, <1>3
<1>8. /\ Shape(u.heap, F \ {e}, G)
      /\ Counts(u, F \ {e}, G)
      /\ SameSizes(u.heap, h, (F \cup G) \ {n, e})
      /\ u.heap.node[n].size = EndOf(h, e) - n - Hdr
      /\ Room(u.heap, (F \ {e}) \cup G) = Room(h, F \cup G)
  <2> DEFINE v == MergeForward(t, n)
             s == EndOf(h, e) - n - Hdr
  <2>1. s \in 0 .. U32 - 1 /\ s = h.node[n].size + h.node[e].size + Hdr /\ e = h.node[n].next
    BY <1>2, <1>5, <1>7
  <2> HIDE DEF q, u, s
  <2>2. Joins(h, n, e, s)
    BY <2>1 DEF Joins
  <2>3. /\ Shape(v.heap, F \ {e}, G)
        /\ Counts(v, F \ {e}, G)
        /\ SameSizes(v.heap, h, (F \cup G) \ {n, e})
        /\ v.heap.node[n].size = s
        /\ Room(v.heap, (F \ {e}) \cup G) = Room(h, F \cup G)
    <3> HIDE DEF h, v
    <3>1. Swallows(v, t, F, G, n, e, s)
      BY <2>2, <1>1, MergeForwardEffect DEF h, v
    <3> QED BY <3>1 DEF Swallows, h
  <2> HIDE DEF h, v
  <2> QED BY <2>3, <1>6 DEF v, s
<1> HIDE DEF u, q
<1>9. EndOf(u.heap, n) = EndOf(h, e)
  <2>1. EndOf(u.heap, n) = n + Hdr + (EndOf(h, e) - n - Hdr)
    BY <1>8 DEF EndOf
  <2> HIDE DEF h
  <2> QED BY <2>1, <1>3
<1>10. ASSUME NEW a \in F \ {n, e} PROVE EndOf(u.heap, a) = EndOf(h, a)
  BY <1>8 DEF SameSizes, EndOf
<1>11. Apart(u.heap, F \ {e})
  <2> HIDE DEF h
  <2> SUFFICES ASSUME NEW a \in F \ {e}, NEW b \in F \ {e}, a < b
               PROVE  EndOf(u.heap, a) <= b
    BY DEF Apart
  <2>1. CASE a # n
    BY <2>1, <1>1, <1>10 DEF Apart
  <2>2. CASE a = n
    <3>1. e <= b
      BY <2>2, <1>2, <1>1, <1>3 DEF Apart, h
    <3>2. e < b
      BY <3>1, <1>3
    <3> QED BY <2>2, <3>2, <1>1, <1>9 DEF Apart
  <2> QED BY <2>1, <2>2
<1> QED BY <1>8, <1>9, <1>11 DEF u, Merging, Absorbed

(* The header of F that ends where b starts, or b; and the one that starts *)
(* where b ends, or b.                                                     *)
Neighbours(h, F, b, lo, hi) ==
  /\ \/ lo \in F \ {b} /\ EndOf(h, lo) = b
     \/ lo = b /\ \A a \in F : EndOf(h, a) # b
  /\ \/ hi \in F \ {b} /\ hi = EndOf(h, b)
     \/ hi = b /\ EndOf(h, b) \notin F

(* A block made of b and those neighbours has a size that fits a uint32_t. *)
Fits(h, F, b) ==
  \A a, c \in F : (a = b \/ EndOf(h, a) = b) /\ (c = b \/ c = EndOf(h, b))
                   => EndOf(h, c) - a - Hdr \in 0 .. U32 - 1

(* But for b, no two blocks of F touch. *)
ApartBut(h, F, b) == \A a \in F \ {b} : EndOf(h, a) \notin F \ {b}

(* u is h with b and its neighbours made one block. *)
Merged(u, h, F, G, b, lo, hi) ==
  /\ Shape(u.heap, (F \ {b, hi}) \cup {lo}, G)
  /\ Counts(u, (F \ {b, hi}) \cup {lo}, G)
  /\ SameSizes(u.heap, h, (F \cup G) \ {lo, b, hi})
  /\ u.heap.node[lo].size = EndOf(h, hi) - lo - Hdr
  /\ Room(u.heap, ((F \ {b, hi}) \cup {lo}) \cup G) = Room(h, F \cup G)

(* The two loops of pfree make one block of the one given back and the     *)
(* available blocks that touch it.                                         *)
LEMMA MergeEffect ==
  ASSUME NEW s, NEW F, NEW G, Merging(s, F, G), NEW b \in F,
         ApartBut(s.heap, F, b), Fits(s.heap, F, b)
  PROVE  \E lo, hi \in F : /\ Neighbours(s.heap, F, b, lo, hi)
                            /\ Merged(MergeAll(s, LowEnd(s.heap, b)), s.heap, F, G, b, lo, hi)
<1> DEFINE h == s.heap
           lo == LowEnd(h, b)
           hi == IF EndOf(h, b) \in F THEN EndOf(h, b) ELSE b
           u == Absorb(s, lo)
           v == Absorb(u, lo)
<1>1. Shape(h, F, G) /\ Counts(s, F, G) /\ Apart(h, F)
  BY DEF Merging
<1>2. /\ NULL \notin F
      /\ Hdr \in Nat
      /\ \A a \in F : a \in Nat /\ EndOf(h, a) \in Nat /\ a < EndOf(h, a)
  BY <1>1, Numbers, PmallocAssumption
<1>3. \/ lo \in F \ {b} /\ EndOf(h, lo) = b
      \/ lo = b /\ \A a \in F : EndOf(h, a) # b
  <2>1. OnList(h, F \cup G, "available", F)
    BY <1>1 DEF Shape, OnList
  <2>2. \A a \in F \ {b} : EndOf(h, a) \notin F \ {b}
    BY DEF ApartBut
  <2> QED BY <2>1, <2>2, <1>1, LowEndIs
<1> HIDE DEF lo
<1>4. \/ hi \in F \ {b} /\ hi = EndOf(h, b)
      \/ hi = b /\ EndOf(h, b) \notin F
  BY <1>2
<1> HIDE DEF hi, h
<1>5. lo \in F /\ hi \in F /\ Neighbours(h, F, b, lo, hi)
  BY <1>3, <1>4 DEF Neighbours
<1>6. EndOf(h, hi) \notin F
  <2>1. CASE hi = b
    BY <2>1, <1>4
  <2>2. CASE hi # b
    <3>1. EndOf(h, hi) \notin F \ {b}
      BY <2>2, <1>5 DEF ApartBut, h
    <3>2. b < EndOf(h, b) /\ hi = EndOf(h, b) /\ hi < EndOf(h, hi)
      BY <2>2, <1>2, <1>4, <1>5
    <3>3. EndOf(h, hi) # b
      BY <3>2, <1>2, <1>5
    <3> QED BY <3>1, <3>3
  <2> QED BY <2>1, <2>2
<1>7. EndOf(h, hi) - lo - Hdr \in 0 .. U32 - 1 /\ EndOf(h, b) - lo - Hdr \in 0 .. U32 - 1
  <2>1. (lo = b \/ EndOf(h, lo) = b) /\ (hi = b \/ hi = EndOf(h, b))
    BY <1>3, <1>4
  <2> QED BY <2>1, <1>5 DEF Fits, h
<1>8. ASSUME lo = b, hi = b PROVE  Absorb(v, lo) = v /\ Merged(v, h, F, G, b, lo, hi)
  <2>1. u = s
    BY <1>1, <1>6, <1>8, AbsorbNothing DEF h
  <2>2. v = u /\ Absorb(v, lo) = v
    BY <2>1
  <2>3. Merged(v, h, F, G, b, lo, hi)
    <3>1. v = s /\ (F \ {b, hi}) \cup {lo} = F
      BY <2>1, <2>2, <1>8
    <3>2. h.node[b].size = EndOf(h, b) - b - Hdr
      <4>1. h.node[b].size \in Nat /\ b \in Nat
        BY <1>1, Numbers DEF h
      <4> QED BY <4>1, <1>2 DEF EndOf
    <3> HIDE DEF u, v
    <3> QED BY <3>1, <3>2, <1>1, <1>8 DEF Merged, SameSizes, h
  <2> QED BY <2>2, <2>3
<1>9. ASSUME lo = b, hi # b PROVE  Absorb(v, lo) = v /\ Merged(v, h, F, G, b, lo, hi)
  <2>1. Touches(h, b, hi)
    BY <1>4, <1>7, <1>9 DEF Touches
  <2>2. Absorbed(u, s, F, G, b, hi)
    BY <2>1, <1>5, <1>9, AbsorbNext DEF h
  <2>3. v = u
    <3>1. Merging(u, F \ {hi}, G) /\ b \in F \ {hi} /\ EndOf(u.heap, b) \notin F \ {hi}
      BY <2>2, <1>6, <1>9 DEF Absorbed, h
    <3> HIDE DEF u
    <3> QED BY <3>1, <1>9, AbsorbNothing
  <2>4. Merged(v, h, F, G, b, lo, hi)
    <3>1. (F \ {b, hi}) \cup {lo} = F \ {hi} /\ (F \cup G) \ {lo, b, hi} = (F \cup G) \ {b, hi}
      BY <1>9
    <3> HIDE DEF u, v
    <3> QED BY <2>2, <2>3, <3>1, <1>9 DEF Absorbed, Merging, Merged, h
  <2> QED BY <2>3, <2>4
<1>10. ASSUME lo # b PROVE  Absorb(v, lo) = v /\ Merged(v, h, F, G, b, lo, hi)
  <2>1. Touches(h, lo, b)
    BY <1>3, <1>7, <1>10 DEF Touches
  <2>2. Absorbed(u, s, F, G, lo, b)
    BY <2>1, <1>5, AbsorbNext DEF h
  <2> HIDE DEF u
  <2>3. Merging(u, F \ {b}, G) /\ lo \in F \ {b} /\ EndOf(u.heap, lo) = EndOf(h, b)
    BY <2>2, <1>5, <1>10 DEF Absorbed, h
  <2>4. CASE hi = b
    <3>1. v = u
      BY <2>3, <2>4, <1>6, AbsorbNothing
    <3>2. Merged(v, h, F, G, b, lo, hi)
      <4>1. (F \ {b, hi}) \cup {lo} = F \ {b} /\ (F \cup G) \ {lo, b, hi} = (F \cup G) \ {lo, b}
        BY <2>3, <2>4
      <4> HIDE DEF v
      <4> QED BY <2>2, <2>4, <3>1, <4>1 DEF Absorbed, Merging, Merged, h
    <3> QED BY <3>1, <3>2
  <2>5. CASE hi # b
    <3>1. hi \in F \ {b} /\ hi = EndOf(h, b) /\ hi # lo
      <4>1. hi \in F \ {b} /\ hi = EndOf(h, b)
        BY <2>5, <1>4
      <4>2. lo < b /\ b < hi
        BY <4>1, <1>2, <1>3, <1>5, <1>10
      <4> QED BY <4>1, <4>2, <1>2, <1>5
    <3>2. u.heap.node[hi].size = h.node[hi].size
      BY <2>2, <3>1 DEF Absorbed, SameSizes, h
    <3>3. EndOf(u.heap, hi) = EndOf(h, hi)
      BY <3>2 DEF EndOf
    <3>4. Touches(u.heap, lo, hi)
      BY <2>3, <3>1, <3>3, <1>7 DEF Touches
    <3>5. Absorbed(v, u, F \ {b}, G, lo, hi)
      BY <2>3, <3>1, <3>4, AbsorbNext
    <3> HIDE DEF v
    <3>6. /\ Merging(v, (F \ {b}) \ {hi}, G)
          /\ lo \in (F \ {b}) \ {hi}
          /\ EndOf(v.heap, lo) = EndOf(h, hi)
      BY <2>3, <3>1, <3>3, <3>5 DEF Absorbed
    <3>7. Absorb(v, lo) = v
      BY <3>6, <1>6, AbsorbNothing
    <3>8. Merged(v, h, F, G, b, lo, hi)
      <4>1. (F \ {b, hi}) \cup {lo} = (F \ {b}) \ {hi}
        BY <2>3, <3>1
      <4>2. SameSizes(v.heap, h, (F \cup G) \ {lo, b, hi})
        <5>1. b \notin G /\ hi \notin G /\ lo \notin G
          BY <1>1, <1>5 DEF Shape
        <5> QED BY <5>1, <2>2, <3>5 DEF Absorbed, SameSizes, h
      <4>3. v.heap.node[lo].size = EndOf(h, hi) - lo - Hdr
        BY <3>3, <3>5 DEF Absorbed
      <4>4. Room(v.heap, ((F \ {b}) \ {hi}) \cup G) = Room(h, F \cup G)
        <5>1. Room(v.heap, ((F \ {b}) \ {hi}) \cup G) = Room(u.heap, (F \ {b}) \cup G)
          BY <3>5 DEF Absorbed
        <5>2. Room(u.heap, (F \ {b}) \cup G) = Room(h, F \cup G)
          BY <2>2 DEF Absorbed, h
        <5> QED BY <5>1, <5>2
      <4> QED BY <3>6, <4>1, <4>2, <4>3, <4>4 DEF Merging, Merged
    <3> QED BY <3>7, <3>8
  <2> QED BY <2>4, <2>5
<1>11. Absorb(v, lo) = v /\ Merged(v, h, F, G, b, lo, hi)
  BY <1>8, <1>9, <1>10
<1>12. Cardinality(DOMAIN h.node) \in Nat \ {0}
  <2>1. DOMAIN h.node = F \cup G /\ Bounded(F \cup G)
    BY <1>1 DEF Shape, HeapOver
  <2>2. IsFiniteSet(F \cup G)
    BY <2>1, FS_BoundedSetOfNaturals DEF Bounded
  <2>3. Cardinality(F \cup G) \in Nat /\ Cardinality(F \cup G) # 0
    BY <2>2, FS_CardinalityType, FS_EmptySet
  <2> QED BY <2>1, <2>3
<1>13. MergeAll(s, lo) = v
  BY <1>11, <1>12, MergeAllIs DEF h
<1> QED BY <1>5, <1>11, <1>13 DEF h, lo

(* What the abstract heap is read off. *)
Free == Members(heap, "available")
Used == Members(heap, "assigned")

(* The abstract heap, with its proofs. *)
P == INSTANCE HeapProofs WITH
       Requests <- Asked, given <- added, free <- Free, used <- Used, size <- Sizes

(* The lists and the counters beside them, as the loops of pfree pass them *)
(* on.                                                                     *)
Now == [heap |-> heap, freemem |-> freemem, totalnodes |-> totalnodes]

(* The blocks take the room of the areas that were added. *)
AreaSize == [r \in Areas |-> r.size]
Filled ==
  /\ IsFiniteSet(added)
  /\ Room(heap, Free \cup Used) = SumFunctionOnSet(AreaSize, added)

(* __totalmem counts the first area, and nothing before it. *)
TotalOfOne ==
  /\ added = {} => totalmem = 0
  /\ \A r \in Areas : added = {r} => totalmem = r.size - Hdr

(* The inductive invariant. *)
Inv ==
  /\ Shape(heap, Free, Used)
  /\ P!HeapInv
  /\ Counts(Now, Free, Used)
  /\ totalmem \in 0 .. U32 - 1
  /\ Filled
  /\ TotalOfOne
  /\ DOMAIN held \subseteq Nat
  /\ HeldSound

---------------------------------------------------------------------------
(* What pmalloc is asked for is a word, pcalloc's product included. *)
LEMMA AskedAre == Asked \subseteq 0 .. U32 - 1
<1>1. ASSUME NEW num \in Nums, NEW n \in Requests PROVE (num * n) % U32 \in 0 .. U32 - 1
  <2>1. num \in Nat /\ n \in Nat
    BY PmallocAssumption
  <2>2. num * n \in Int
    BY <2>1
  <2> QED BY <2>2, WordRange
<1>2. ASSUME NEW x \in Asked PROVE x \in 0 .. U32 - 1
  <2>1. x \in Requests \/ \E num \in Nums, n \in Requests : x = (num * n) % U32
    BY DEF Asked
  <2>2. CASE x \in Requests
    BY <2>2, PmallocAssumption
  <2>3. CASE \E num \in Nums, n \in Requests : x = (num * n) % U32
    <3> DEFINE W == 0 .. U32 - 1
    <3>1. \A num \in Nums, n \in Requests : (num * n) % U32 \in W
      BY <1>1
    <3> HIDE DEF W
    <3>2. x \in W
      BY <2>3, <3>1, Zenon
    <3> QED BY <3>2 DEF W
  <2> QED BY <2>1, <2>2, <2>3
<1> QED BY <1>2

(* The assumptions of Heap hold here. *)
LEMMA HeapAssumptions ==
  /\ Hdr \in Nat \ {0}
  /\ Areas \subseteq [base : Nat, size : Nat]
  /\ \A r \in Areas : r.size >= Hdr
  /\ \A r, s \in Areas : r # s => P!AreaEnd(r) < s.base \/ P!AreaEnd(s) < r.base
  /\ Asked \subseteq Nat
<1>1. Areas \subseteq [base : Nat, size : Nat] /\ \A r \in Areas : r.size >= Hdr
  BY PmallocAssumption
<1>2. Asked \subseteq Nat
  BY AskedAre, PmallocAssumption
<1> QED BY <1>1, <1>2, PmallocAssumption, SeparateAssumption DEF P!AreaEnd, AreaEnd

(* What HeapProofs shows, of the heap the lists describe: its invariant is *)
(* inductive,                                                              *)
LEMMA HeapSteps == P!HeapInv /\ [P!Next]_P!vars => P!HeapInv'
BY HeapAssumptions, P!HeapNext

(* holds at the start, *)
LEMMA HeapStarts == P!Init => P!HeapInv
BY HeapAssumptions, P!HeapInit

(* keeps blocks clear of an area that was not added, *)
LEMMA HeapAreaIsClear ==
  ASSUME P!HeapInv, NEW r \in Areas, r \notin added
  PROVE  \A b \in P!Blocks : P!End(b) < r.base \/ P!AreaEnd(r) < b
BY HeapAssumptions, P!AreaIsClear

(* keeps the place clear where a split puts its header, *)
LEMMA HeapRestIsClear ==
  ASSUME P!HeapInv, NEW b \in P!Blocks, NEW n \in Nat, Sizes[b] >= n + Hdr
  PROVE  b + Hdr + n \notin P!Blocks
BY HeapAssumptions, P!RestIsClear

(* and keeps a block and its neighbours in one area. *)
LEMMA HeapRunInArea ==
  ASSUME P!HeapInv, NEW lo \in P!Blocks, NEW b \in P!Blocks, NEW hi \in P!Blocks,
         lo = b \/ P!End(lo) = b, hi = b \/ hi = P!End(b)
  PROVE  \E r \in added : r.base <= lo /\ P!End(hi) <= P!AreaEnd(r)
BY HeapAssumptions, P!RunInArea

---------------------------------------------------------------------------
(* What the lists of a heap hold, and hence what the abstract heap is. *)
LEMMA ListsAre ==
  ASSUME NEW h, NEW F, NEW G, Shape(h, F, G)
  PROVE  Members(h, "available") = F /\ Members(h, "assigned") = G /\ DOMAIN h.node = F \cup G
<1>1. OnList(h, F \cup G, "available", F) /\ OnList(h, F \cup G, "assigned", G)
  BY DEF Shape, OnList
<1>2. DOMAIN h.node = F \cup G
  BY DEF Shape, HeapOver
<1> QED BY <1>1, <1>2, MembersAre

(* What the heap's headers say, and what the abstract heap makes of it. *)
LEMMA BlocksAre ==
  ASSUME Inv
  PROVE  /\ P!Blocks = Free \cup Used /\ DOMAIN heap.node = Free \cup Used
         /\ Free \cap Used = {} /\ NULL \notin Free \cup Used
         /\ \A b \in Free \cup Used :
              /\ b \in Nat
              /\ Sizes[b] = heap.node[b].size
              /\ heap.node[b].size \in 0 .. U32 - 1 /\ heap.node[b].size \in Nat
              /\ P!End(b) = EndOf(heap, b)
              /\ EndOf(heap, b) \in Nat /\ b < EndOf(heap, b)
<1>1. Shape(heap, Free, Used)
  BY DEF Inv
<1>2. DOMAIN heap.node = Free \cup Used
  BY <1>1 DEF Shape, HeapOver
<1>3. \A b \in Free \cup Used : Sizes[b] = heap.node[b].size
  BY <1>2 DEF Sizes
<1>4. \A b \in Free \cup Used : P!End(b) = EndOf(heap, b)
  BY <1>3 DEF P!End, EndOf
<1>5. P!Blocks = Free \cup Used /\ Free \cap Used = {}
  BY <1>1 DEF P!Blocks, Shape
<1> QED BY <1>1, <1>2, <1>3, <1>4, <1>5, Numbers

(* The counters are words that agree with the lists but for what a word    *)
(* cannot hold.                                                            *)
LEMMA CountersAre ==
  ASSUME Inv
  PROVE  /\ freemem = SizeSum(heap, Free) % U32 /\ freemem \in 0 .. U32 - 1
         /\ totalnodes = Cardinality(Free \cup Used) % U32 /\ totalnodes \in 0 .. U32 - 1
         /\ SizeSum(heap, Free) \in Nat /\ SizeSum(heap, Used) \in Nat
         /\ Cardinality(Free \cup Used) \in Nat /\ Room(heap, Free \cup Used) \in Nat
         /\ Sized(heap, Free) /\ Sized(heap, Used) /\ Sized(heap, Free \cup Used)
<1>1. Sized(heap, Free) /\ Sized(heap, Used) /\ Sized(heap, Free \cup Used)
  BY SizedPart DEF Inv
<1>2. /\ SizeSum(heap, Free) \in Nat /\ SizeSum(heap, Used) \in Nat
      /\ Cardinality(Free \cup Used) \in Nat /\ Room(heap, Free \cup Used) \in Nat
  BY <1>1, SizeSumIs
<1>3. freemem = SizeSum(heap, Free) % U32 /\ totalnodes = Cardinality(Free \cup Used) % U32
  BY DEF Inv, Counts, Now
<1>4. freemem \in 0 .. U32 - 1 /\ totalnodes \in 0 .. U32 - 1
  BY <1>2, <1>3, WordRange
<1> QED BY <1>1, <1>2, <1>3, <1>4

(* An added area is filled when its block is. *)
LEMMA FilledAdd ==
  ASSUME Filled, added \subseteq Areas, NEW r \in Areas, r \notin added, added' = added \cup {r},
         Room(heap', Free' \cup Used') = r.size + Room(heap, Free \cup Used)
  PROVE  Filled'
<1>1. Weighs(AreaSize, added \cup {r}) /\ AreaSize[r] = r.size
  BY PmallocAssumption DEF Weighs, AreaSize
<1>2. IsFiniteSet(added \cup {r}) /\ IsFiniteSet(added)
  BY FS_AddElement DEF Filled
<1>3. SumFunctionOnSet(AreaSize, added \cup {r}) = r.size + SumFunctionOnSet(AreaSize, added)
  BY <1>1, <1>2, SumAdd
<1> QED BY <1>2, <1>3 DEF Filled

(* The lists after a step and the abstract heap after it are the same. *)
LEMMA After ==
  ASSUME NEW F, NEW G, Shape(heap', F, G)
  PROVE  /\ Free' = F /\ Used' = G /\ Shape(heap', Free', Used')
         /\ DOMAIN heap'.node = F \cup G
         /\ Sizes' = [b \in F \cup G |-> heap'.node[b].size]
<1>1. Free' = F /\ Used' = G /\ DOMAIN heap'.node = F \cup G
  BY ListsAre DEF Free, Used
<1> QED BY <1>1 DEF Sizes

---------------------------------------------------------------------------
(* paddblock makes the area one available block. *)
LEMMA AddStep ==
  ASSUME Inv, NEW r \in Areas, Paddblock(r, Clear)
  PROVE  P!AddArea(r) /\ Inv'
<1> DEFINE g == LLInsertSorted(NewHeader(heap, r.base, NULL, NULL, (r.size - Hdr) % U32),
                               "available", r.base)
           F == Free \cup {r.base}
<1>1. /\ r.base \in Nat /\ r.size \in Nat /\ r.size - Hdr \in 0 .. U32 - 1
      /\ r.size \in 0 .. U32 - 1 /\ Hdr \in Nat
      /\ (r.size - Hdr) % U32 = r.size - Hdr
  <2>1. /\ r.base \in Nat /\ r.size \in Nat /\ r.size - Hdr \in 0 .. U32 - 1
        /\ r.size \in 0 .. U32 - 1 /\ Hdr \in Nat /\ r.size - Hdr \in Int
    BY PmallocAssumption
  <2>2. (r.size - Hdr) % U32 = r.size - Hdr
    BY <2>1, WordRange
  <2> QED BY <2>1, <2>2
<1>2. r \notin added /\ added' = added \cup {r} /\ held' = held
      /\ freemem' = (freemem + r.size - Hdr) % U32
      /\ totalmem' = (totalmem + freemem') % U32
      /\ totalnodes' = (totalnodes + 1) % U32
  BY DEF Paddblock
<1>3. heap' = g
  <2>1. \E p, q \in Clear :
          heap' = LLInsertSorted(NewHeader(heap, r.base, p, q, (r.size - Hdr) % U32),
                                 "available", r.base)
    BY DEF Paddblock
  <2> QED BY <2>1 DEF Clear
<1>4. r.base \notin Free \cup Used
  <2>1. \A b \in Free \cup Used : EndOf(heap, b) < r.base \/ P!AreaEnd(r) < b
    BY <1>2, BlocksAre, HeapAreaIsClear DEF Inv
  <2>2. P!AreaEnd(r) = r.base + r.size
    BY DEF P!AreaEnd
  <2>3. ASSUME r.base \in Free \cup Used PROVE FALSE
    BY <2>1, <2>2, <2>3, <1>1, BlocksAre
  <2> QED BY <2>3
<1>5. /\ Shape(heap', F, Used)
      /\ SameSizes(heap', heap, Free \cup Used)
      /\ heap'.node[r.base].size = r.size - Hdr
  <2>1. Shape(heap, Free, Used)
    BY DEF Inv
  <2> DEFINE n == r.base
             s == r.size - Hdr
             k == LLInsertSorted(NewHeader(heap, n, NULL, NULL, s), "available", n)
  <2>2. heap' = k /\ n \in Nat /\ s \in 0 .. U32 - 1 /\ n \notin Free \cup Used
    BY <1>1, <1>3, <1>4
  <2> HIDE DEF n, s, g
  <2>3. Adds(k, heap, Free, Used, n, s)
    BY <2>1, <2>2, AddEffect
  <2> HIDE DEF k
  <2> QED BY <2>2, <2>3 DEF n, s, Adds
<1>6. Free' = F /\ Used' = Used /\ Shape(heap', Free', Used')
      /\ Sizes' = [b \in F \cup Used |-> heap'.node[b].size]
  BY <1>5, After
<1> HIDE DEF g
<1>7. P!AddArea(r)
  <2>1. Sizes' = [b \in P!Blocks \cup {r.base} |-> IF b = r.base THEN r.size - Hdr ELSE Sizes[b]]
    <3>1. ASSUME NEW b \in F \cup Used
          PROVE  heap'.node[b].size = IF b = r.base THEN r.size - Hdr ELSE Sizes[b]
      BY <1>5, BlocksAre DEF SameSizes
    <3>2. F \cup Used = P!Blocks \cup {r.base}
      BY BlocksAre
    <3> HIDE DEF F
    <3> QED BY <3>1, <3>2, <1>6
  <2> QED BY <2>1, <1>2, <1>6 DEF P!AddArea
<1>8. P!HeapInv'
  <2>1. P!Next
    BY <1>7 DEF P!Next
  <2> QED BY <2>1, HeapSteps DEF Inv
<1>9. Counts(Now, Free, Used)' /\ totalmem' \in 0 .. U32 - 1 /\ Filled'
  <2> DEFINE x == SizeSum(heap, Free)
             c == Cardinality(Free \cup Used)
             d == r.size - Hdr
  <2>1. /\ x \in Nat /\ freemem = x % U32 /\ c \in Nat /\ totalnodes = c % U32
        /\ Room(heap, Free \cup Used) \in Nat
        /\ Sized(heap, Free) /\ Sized(heap, Free \cup Used)
    BY CountersAre
  <2>2. heap'.node[r.base].size = d /\ d \in Nat /\ r.size = d + Hdr
    BY <1>1, <1>5
  <2>3. F \cup Used = (Free \cup Used) \cup {r.base}
    OBVIOUS
  <2>4. Grown(heap', heap, Free, r.base) /\ Grown(heap', heap, Free \cup Used, r.base)
    <3> DEFINE a == r.base
    <3>1. /\ SameSizes(heap', heap, Free) /\ SameSizes(heap', heap, Free \cup Used)
          /\ a \notin Free /\ a \notin Free \cup Used /\ heap'.node[a].size \in Nat
      BY <1>4, <1>5, <2>2 DEF SameSizes
    <3> HIDE DEF a
    <3>2. Grown(heap', heap, Free, a)
      BY <3>1, <2>1, SizeSumAdd
    <3>3. Grown(heap', heap, Free \cup Used, a)
      BY <3>1, <2>1, SizeSumAdd
    <3> QED BY <3>2, <3>3 DEF a
  <2>5. /\ SizeSum(heap', Free') = d + x
        /\ Cardinality(Free' \cup Used') = c + 1
        /\ Room(heap', Free' \cup Used') = d + Hdr + Room(heap, Free \cup Used)
    BY <2>2, <2>3, <2>4, <1>6 DEF Grown
  <2>6. freemem' = ((x % U32) + d) % U32 /\ totalnodes' = ((c % U32) + 1) % U32
    <3>1. freemem \in Int
      BY CountersAre, PmallocAssumption
    <3> HIDE DEF x, c, d
    <3>2. freemem + r.size - Hdr = freemem + d
      BY <3>1, <2>2, <1>1
    <3> QED BY <3>2, <2>1, <1>2
  <2> HIDE DEF x, c, d, F
  <2>7. freemem' = (d + x) % U32 /\ totalnodes' = (c + 1) % U32
    <3>1. x \in Int /\ d \in Int /\ c \in Int /\ 1 \in Int /\ U32 \in Nat \ {0} /\ x + d = d + x
      BY <2>1, <2>2, PmallocAssumption
    <3>2. ((x % U32) + d) % U32 = (x + d) % U32 /\ ((c % U32) + 1) % U32 = (c + 1) % U32
      BY <3>1, WrapLate
    <3> QED BY <2>6, <3>1, <3>2
  <2>8. Counts(Now, Free, Used)'
    BY <2>5, <2>7 DEF Counts, Now
  <2>9. totalmem' \in 0 .. U32 - 1
    <3>1. d + x \in Int /\ totalmem \in Int
      BY <2>1, <2>2, PmallocAssumption DEF Inv
    <3>2. freemem' \in 0 .. U32 - 1
      BY <3>1, <2>7, WordRange
    <3>3. totalmem + freemem' \in Int
      BY <3>1, <3>2, PmallocAssumption
    <3> QED BY <3>3, <1>2, WordRange
  <2>10. Filled'
    <3>1. Room(heap', Free' \cup Used') = r.size + Room(heap, Free \cup Used)
      BY <2>1, <2>2, <2>5, <1>1
    <3>2. Filled /\ added \subseteq Areas
      BY DEF Inv, P!HeapInv, P!TypeOK
    <3> QED BY <3>1, <3>2, <1>2, FilledAdd
  <2> QED BY <2>8, <2>9, <2>10
<1>10. TotalOfOne'
  <2>1. ASSUME added = {} PROVE totalmem' = r.size - Hdr
    <3> DEFINE d == r.size - Hdr
    <3>1. Free = {}
      <4>1. \A b \in P!Blocks : \E q \in added : q.base <= b
        BY DEF Inv, P!HeapInv, P!InAreas
      <4> QED BY <4>1, <2>1 DEF P!Blocks
    <3>2. freemem = 0
      <4>1. SizeSum(heap, {}) = 0 /\ 0 % U32 = 0
        BY <3>1, CountersAre, SizeSumIs, WordRange, PmallocAssumption
      <4> QED BY <4>1, <3>1, CountersAre
    <3>3. totalmem = 0
      BY <2>1 DEF Inv, TotalOfOne
    <3>4. freemem + r.size - Hdr = d /\ d \in 0 .. U32 - 1 /\ d \in Int
      BY <3>2, <1>1
    <3> HIDE DEF d
    <3>5. freemem' = d
      BY <3>4, <1>1, <1>2, WordRange
    <3>6. totalmem + freemem' = d
      BY <3>3, <3>4, <3>5
    <3>7. totalmem' = d
      BY <3>4, <3>6, <1>2, WordRange
    <3> QED BY <3>7 DEF d
  <2>2. ASSUME NEW a \in Areas, added' = {a} PROVE totalmem' = a.size - Hdr
    <3>1. added = {} /\ a = r
      BY <2>2, <1>2
    <3> QED BY <3>1, <2>1
  <2>3. added' # {}
    BY <1>2
  <2> QED BY <2>2, <2>3 DEF TotalOfOne
<1>11. DOMAIN held' \subseteq Nat /\ HeldSound'
  <2>1. Used = {p - Hdr : p \in DOMAIN held} /\ \A p \in DOMAIN held : heap.node[p - Hdr].size = held[p]
    BY DEF Inv, HeldSound, Used
  <2>2. \A p \in DOMAIN held : heap'.node[p - Hdr].size = held[p]
    BY <2>1, <1>5 DEF SameSizes
  <2> QED BY <1>2, <1>6, <2>1, <2>2 DEF Inv, HeldSound, Used
<1> QED BY <1>6, <1>7, <1>8, <1>9, <1>10, <1>11 DEF Inv

---------------------------------------------------------------------------
(* The search finds an available block; where there is room, it is exactly *)
(* as large as asked for, or larger by a header at least.                  *)
LEMMA Found ==
  ASSUME Inv, NEW n \in Asked, Roomy(n), FirstFit(n) # NULL
  PROVE  LET cur == FirstFit(n)
         IN  /\ cur \in Free /\ n \in Nat
             /\ heap.node[cur].size = n \/ heap.node[cur].size >= n + Hdr
<1>1. n \in Nat
  BY HeapAssumptions
<1>2. FirstFit(n) \in Free
  <2>1. OnList(heap, Free \cup Used, "available", Free)
    BY DEF Inv, Shape, OnList
  <2> QED BY <2>1, <1>1, FirstFitIs
<1> QED BY <1>1, <1>2 DEF Roomy

(* The caller holds the block that was taken, in the size it asked for. *)
LEMMA HeldAfterTake ==
  ASSUME Inv, NEW cur \in Free, NEW n, Used' = Used \cup {cur},
         held' = [p \in DOMAIN held \cup {cur + Hdr} |-> IF p = cur + Hdr THEN n ELSE held[p]],
         heap'.node[cur].size = n,
         \A b \in Used : heap'.node[b].size = heap.node[b].size
  PROVE  DOMAIN held' \subseteq Nat /\ HeldSound'
<1>1. cur \in Nat /\ cur \notin Used /\ Hdr \in Nat /\ (cur + Hdr) - Hdr = cur
  BY BlocksAre, PmallocAssumption
<1>2. /\ DOMAIN held \subseteq Nat /\ Used = {p - Hdr : p \in DOMAIN held}
      /\ \A p \in DOMAIN held : heap.node[p - Hdr].size = held[p]
  BY DEF Inv, HeldSound, Used
<1>3. DOMAIN held' = DOMAIN held \cup {cur + Hdr}
  OBVIOUS
<1>4. DOMAIN held' \subseteq Nat
  BY <1>1, <1>2, <1>3
<1>5. Used' = {p - Hdr : p \in DOMAIN held'}
  BY <1>1, <1>2, <1>3
<1>6. ASSUME NEW p \in DOMAIN held' PROVE heap'.node[p - Hdr].size = held'[p]
  <2>1. CASE p = cur + Hdr
    BY <2>1, <1>1
  <2>2. CASE p # cur + Hdr
    <3>1. p \in DOMAIN held /\ held'[p] = held[p] /\ p - Hdr \in Used
      BY <2>2, <1>2, <1>3
    <3> QED BY <3>1, <1>2
  <2> QED BY <2>1, <2>2
<1> QED BY <1>4, <1>5, <1>6 DEF HeldSound, Used

(* A block of exactly the size asked for is handed out as it is. *)
LEMMA TakeWholeStep ==
  ASSUME Inv, NEW n \in Asked, Roomy(n), NEW cur, cur = FirstFit(n), cur # NULL,
         heap.node[cur].size = n,
         heap' = LLInsertSorted(LLRemove(heap, "available", cur), "assigned", cur),
         freemem' = (freemem - n) % U32, UNCHANGED <<added, totalmem, totalnodes>>,
         held' = [p \in DOMAIN held \cup {cur + Hdr} |-> IF p = cur + Hdr THEN n ELSE held[p]]
  PROVE  P!Next /\ Inv'
<1>1. cur \in Free /\ n \in Nat
  BY Found
<1>2. Shape(heap', Free \ {cur}, Used \cup {cur}) /\ SameSizes(heap', heap, Free \cup Used)
  BY <1>1, TakeEffect DEF Inv
<1>3. /\ Free' = Free \ {cur} /\ Used' = Used \cup {cur} /\ Shape(heap', Free', Used')
      /\ Sizes' = [b \in (Free \ {cur}) \cup (Used \cup {cur}) |-> heap'.node[b].size]
  BY <1>2, After
<1>4. (Free \ {cur}) \cup (Used \cup {cur}) = Free \cup Used
  BY <1>1
<1>5. Sizes' = Sizes
  <2>1. Sizes = [b \in Free \cup Used |-> heap.node[b].size]
    BY BlocksAre DEF Sizes
  <2>2. Sizes' = [b \in Free \cup Used |-> heap'.node[b].size]
    BY <1>3, <1>4
  <2> QED BY <2>1, <2>2, <1>2 DEF SameSizes
<1>6. P!TakeWhole(cur, n)
  BY <1>1, <1>3, <1>5, BlocksAre DEF P!TakeWhole
<1>7. P!Next /\ P!HeapInv'
  <2>1. P!Next
    BY <1>1, <1>6 DEF P!Next, P!Allocate
  <2> QED BY <2>1, HeapSteps DEF Inv
<1>8. Counts(Now, Free, Used)' /\ totalmem' \in 0 .. U32 - 1 /\ Filled'
  <2> DEFINE x == SizeSum(heap, Free)
  <2>1. x \in Nat /\ freemem = x % U32 /\ Sized(heap, Free) /\ Sized(heap, Free \cup Used)
    BY CountersAre
  <2>2. Shrunk(heap', heap, Free, cur)
    <3>1. SameSizes(heap', heap, Free \ {cur})
      BY <1>2 DEF SameSizes
    <3> QED BY <3>1, <2>1, <1>1, SizeSumDrop
  <2>3. SizeSum(heap', Free') = x - n
    BY <2>2, <1>3 DEF Shrunk
  <2>4. Room(heap', Free' \cup Used') = Room(heap, Free \cup Used)
        /\ Cardinality(Free' \cup Used') = Cardinality(Free \cup Used)
    <3>1. Free' \cup Used' = Free \cup Used
      BY <1>3, <1>4
    <3>2. Room(heap', Free \cup Used) = Room(heap, Free \cup Used)
      BY <2>1, <1>2, SizeSumSame
    <3> QED BY <3>1, <3>2
  <2> HIDE DEF x
  <2>5. ((x % U32) - n) % U32 = (x - n) % U32
    <3>1. x \in Int /\ n \in Int /\ U32 \in Nat \ {0}
      BY <2>1, <1>1, PmallocAssumption
    <3> QED BY <3>1, WrapLate
  <2>6. freemem' = (x - n) % U32 /\ totalnodes' = Cardinality(Free \cup Used) % U32
    BY <2>1, <2>5, CountersAre
  <2>7. Counts(Now, Free, Used)'
    BY <2>3, <2>4, <2>6 DEF Counts, Now
  <2> QED BY <2>4, <2>7 DEF Inv, Filled
<1>9. TotalOfOne'
  BY DEF Inv, TotalOfOne
<1>10. DOMAIN held' \subseteq Nat /\ HeldSound'
  <2>1. heap'.node[cur].size = n /\ \A b \in Used : heap'.node[b].size = heap.node[b].size
    BY <1>1, <1>2 DEF SameSizes
  <2> QED BY <2>1, <1>1, <1>3, HeldAfterTake
<1> QED BY <1>3, <1>7, <1>8, <1>9, <1>10 DEF Inv

(* A larger block is split: its first n bytes are handed out, the rest     *)
(* becomes an available block with a header of its own.                    *)
LEMMA SplitStep ==
  ASSUME Inv, NEW n \in Asked, Roomy(n), NEW cur, cur = FirstFit(n), cur # NULL,
         heap.node[cur].size # n,
         NEW k, k = LLInsertSorted(LLRemove(heap, "available", cur), "assigned", cur),
         heap' = LLInsertSorted(
                   NewHeader([k EXCEPT !.node[cur].size = n], cur + Hdr + n, NULL, NULL,
                             (heap.node[cur].size - Hdr - n) % U32),
                   "available", cur + Hdr + n),
         freemem' = (freemem - Hdr - n) % U32, totalnodes' = (totalnodes + 1) % U32,
         UNCHANGED <<added, totalmem>>,
         held' = [p \in DOMAIN held \cup {cur + Hdr} |-> IF p = cur + Hdr THEN n ELSE held[p]]
  PROVE  P!Next /\ Inv'
<1> DEFINE rest == cur + Hdr + n
           s == heap.node[cur].size
           left == s - Hdr - n
           F == (Free \ {cur}) \cup {rest}
           G == Used \cup {cur}
           j == [k EXCEPT !.node[cur].size = n]
<1>1. /\ cur \in Free /\ n \in Nat /\ s >= n + Hdr /\ cur \notin Used
      /\ cur \in Nat /\ s \in Nat /\ s \in 0 .. U32 - 1 /\ Hdr \in Nat \ {0}
      /\ n \in 0 .. U32 - 1
  <2>1. cur \in Free /\ n \in Nat /\ s >= n + Hdr
    BY Found
  <2> HIDE DEF s
  <2> QED BY <2>1, BlocksAre, AskedAre, PmallocAssumption DEF s
<1>2. rest \in Nat /\ left \in 0 .. U32 - 1 /\ left % U32 = left
  <2>1. rest \in Nat /\ left \in 0 .. U32 - 1 /\ left \in Int
    <3> HIDE DEF s
    <3> QED BY <1>1, PmallocAssumption
  <2> HIDE DEF left
  <2> QED BY <2>1, WordRange
<1>3. rest \notin Free \cup Used
  <2>1. Sizes[cur] >= n + Hdr /\ cur \in P!Blocks
    BY <1>1, BlocksAre
  <2> QED BY <2>1, <1>1, BlocksAre, HeapRestIsClear DEF Inv
<1>4. Shape(k, Free \ {cur}, G) /\ SameSizes(k, heap, Free \cup Used)
  BY <1>1, TakeEffect DEF Inv
<1>5. Resizes(j, k, Free \ {cur}, G, cur, n)
  <2>1. cur \in (Free \ {cur}) \cup G
    OBVIOUS
  <2> HIDE DEF G
  <2> QED BY <2>1, <1>1, <1>4, ResizeEffect
<1> HIDE DEF j
<1>6. Adds(heap', j, Free \ {cur}, G, rest, left)
  <2>1. heap' = LLInsertSorted(NewHeader(j, rest, NULL, NULL, left), "available", rest)
    BY <1>2 DEF j
  <2>2. rest \notin (Free \ {cur}) \cup G
    BY <1>1, <1>3
  <2>3. Shape(j, Free \ {cur}, G)
    BY <1>5 DEF Resizes
  <2> HIDE DEF G, rest, left
  <2> QED BY <2>1, <2>2, <2>3, <1>2, AddEffect
<1> HIDE DEF left, rest
<1>7. Shape(heap', F, G)
  BY <1>6 DEF Adds
<1>8. /\ \A b \in (Free \cup Used) \ {cur} : heap'.node[b].size = heap.node[b].size
      /\ heap'.node[cur].size = n
      /\ heap'.node[rest].size = left
  <2>1. \A b \in Free \cup Used : k.node[b].size = heap.node[b].size
    BY <1>4 DEF SameSizes
  <2>2. \A b \in (Free \cup Used) \ {cur} : j.node[b].size = k.node[b].size
    BY <1>5 DEF Resizes, SameSizes
  <2>3. \A b \in Free \cup Used : heap'.node[b].size = j.node[b].size
    BY <1>6 DEF Adds, SameSizes
  <2>4. j.node[cur].size = n /\ heap'.node[rest].size = left
    BY <1>5, <1>6 DEF Resizes, Adds
  <2>5. heap'.node[cur].size = n
    BY <2>3, <2>4, <1>1
  <2>6. ASSUME NEW b \in (Free \cup Used) \ {cur} PROVE heap'.node[b].size = heap.node[b].size
    <3>1. heap'.node[b].size = j.node[b].size
      BY <2>3
    <3>2. j.node[b].size = k.node[b].size
      BY <2>2
    <3>3. k.node[b].size = heap.node[b].size
      BY <2>1
    <3> QED BY <3>1, <3>2, <3>3
  <2> QED BY <2>4, <2>5, <2>6
<1>9. /\ Free' = F /\ Used' = G /\ Shape(heap', Free', Used')
      /\ Sizes' = [b \in F \cup G |-> heap'.node[b].size]
  BY <1>7, After
<1>10. F \cup G = (Free \cup Used) \cup {rest}
  BY <1>1
<1>11. P!Split(cur, n)
  <2>1. Sizes' = [c \in P!Blocks \cup {rest} |->
                    CASE c = cur  -> n
                      [] c = rest -> Sizes[cur] - Hdr - n
                      [] OTHER    -> Sizes[c]]
    <3>1. Sizes[cur] = s /\ \A b \in Free \cup Used : Sizes[b] = heap.node[b].size
      BY <1>1, BlocksAre
    <3>2. F \cup G = P!Blocks \cup {rest}
      BY <1>10, BlocksAre
    <3>3. ASSUME NEW c \in F \cup G
          PROVE  heap'.node[c].size = CASE c = cur  -> n
                                        [] c = rest -> Sizes[cur] - Hdr - n
                                        [] OTHER    -> Sizes[c]
      <4>1. CASE c = cur
        BY <4>1, <1>1, <1>3, <1>8
      <4>2. CASE c = rest
        BY <4>2, <3>1, <1>1, <1>3, <1>8 DEF left
      <4>3. CASE c # cur /\ c # rest
        <5>1. c \in Free \cup Used
          BY <4>3, <1>10
        <5>2. heap'.node[c].size = heap.node[c].size /\ heap.node[c].size = Sizes[c]
          BY <4>3, <5>1, <3>1, <1>8
        <5> QED BY <4>3, <5>2
      <4> QED BY <4>1, <4>2, <4>3
    <3> HIDE DEF F, G
    <3> QED BY <3>2, <3>3, <1>9
  <2>2. Sizes[cur] >= n + Hdr
    BY <1>1, BlocksAre
  <2>3. Free' = (Free \ {cur}) \cup {rest} /\ Used' = Used \cup {cur} /\ added' = added
    BY <1>9
  <2> QED BY <2>1, <2>2, <2>3 DEF P!Split, rest
<1>12. P!Next /\ P!HeapInv'
  <2>1. P!Next
    BY <1>1, <1>11 DEF P!Next, P!Allocate
  <2> QED BY <2>1, HeapSteps DEF Inv
<1>13. Counts(Now, Free, Used)' /\ totalmem' \in 0 .. U32 - 1 /\ Filled'
  <2> DEFINE D == Free \cup Used
             x == SizeSum(heap, Free)
             c == Cardinality(D)
             m == Room(heap, D)
  <2>1. /\ x \in Nat /\ freemem = x % U32 /\ c \in Nat /\ totalnodes = c % U32 /\ m \in Nat
        /\ Sized(heap, Free) /\ Sized(heap, D)
    BY CountersAre
  <2>2. s = left + Hdr + n /\ left \in Nat
    <3> HIDE DEF s
    <3> QED BY <1>1, <1>2, PmallocAssumption DEF left
  <2>3. /\ Sized(heap', Free \ {cur}) /\ Sized(heap', D) /\ rest \notin D /\ rest \notin Free \ {cur}
        /\ SameSizes(heap', heap, Free \ {cur}) /\ SameSizes(heap', heap, D \ {cur})
        /\ heap'.node[rest].size \in Nat /\ cur \in D /\ heap'.node[cur].size \in Nat
    <3>1. Sized(heap', Free \ {cur}) /\ Sized(heap', D)
      BY <1>7, <1>10, SizedPart
    <3>2. heap'.node[rest].size \in Nat /\ heap'.node[cur].size \in Nat
      <4>1. heap'.node[cur].size = n /\ heap'.node[rest].size = left
        BY <1>8
      <4>2. n \in Nat /\ left \in Nat
        BY <2>2, <1>1
      <4> QED BY <4>1, <4>2
    <3> QED BY <3>1, <3>2, <1>1, <1>3, <1>8 DEF SameSizes
  <2> HIDE DEF D
  <2>4. Shrunk(heap', heap, Free, cur)
    BY <2>1, <2>3, <1>1, SizeSumDrop
  <2>5. Grown(heap', heap', Free \ {cur}, rest) /\ Grown(heap', heap', D, rest)
    <3>1. SameSizes(heap', heap', Free \ {cur}) /\ SameSizes(heap', heap', D)
      BY DEF SameSizes
    <3>2. Grown(heap', heap', D, rest)
      BY <3>1, <2>3, SizeSumAdd
    <3> DEFINE E == Free \ {cur}
    <3>3. Sized(heap', E) /\ SameSizes(heap', heap', E) /\ rest \notin E
      BY <3>1, <2>3
    <3> HIDE DEF E
    <3>4. Grown(heap', heap', E, rest)
      BY <3>3, <2>3, SizeSumAdd
    <3> QED BY <3>2, <3>4 DEF E
  <2>6. Resized(heap', heap, D, cur)
    BY <2>1, <2>3, SizeSumChange
  <2>7. /\ SizeSum(heap', Free') = left + (x - s)
        /\ Cardinality(Free' \cup Used') = c + 1
        /\ Room(heap', Free' \cup Used') = left + Hdr + (m - s + n)
    <3>1. Free' = (Free \ {cur}) \cup {rest} /\ Free' \cup Used' = D \cup {rest}
      BY <1>9, <1>10 DEF D
    <3>2. SizeSum(heap', Free \ {cur}) = x - s
      BY <2>4 DEF Shrunk
    <3>3. SizeSum(heap', (Free \ {cur}) \cup {rest}) = left + SizeSum(heap', Free \ {cur})
      BY <2>5, <1>8 DEF Grown
    <3>4. Room(heap', D) = m - s + n
      BY <2>6, <1>8 DEF Resized
    <3>5. Room(heap', D \cup {rest}) = left + Hdr + Room(heap', D) /\ Cardinality(D \cup {rest}) = c + 1
      BY <2>5, <1>8 DEF Grown
    <3> HIDE DEF x, c, m, s, D
    <3> QED BY <3>1, <3>2, <3>3, <3>4, <3>5
  <2> HIDE DEF x, c, m, s
  <2>8. /\ SizeSum(heap', Free') = x - (Hdr + n)
        /\ Room(heap', Free' \cup Used') = m
    BY <2>1, <2>2, <2>7, <1>1
  <2>9. freemem' = (x - (Hdr + n)) % U32 /\ totalnodes' = (c + 1) % U32
    <3> DEFINE d == Hdr + n
    <3>1. x \in Int /\ c \in Int /\ d \in Int /\ 1 \in Int /\ U32 \in Nat \ {0}
      BY <2>1, <1>1, PmallocAssumption
    <3>2. freemem - Hdr - n = freemem - d
      <4>1. freemem \in Int
        BY CountersAre, PmallocAssumption
      <4> QED BY <4>1, <1>1
    <3>3. freemem' = ((x % U32) - d) % U32 /\ totalnodes' = ((c % U32) + 1) % U32
      BY <2>1, <3>2
    <3> HIDE DEF d
    <3>4. ((x % U32) - d) % U32 = (x - d) % U32 /\ ((c % U32) + 1) % U32 = (c + 1) % U32
      BY <3>1, WrapLate
    <3> QED BY <3>3, <3>4 DEF d
  <2>10. Counts(Now, Free, Used)'
    BY <2>7, <2>8, <2>9 DEF Counts, Now
  <2> QED BY <2>8, <2>10 DEF Inv, Filled, m, D
<1>14. TotalOfOne'
  BY DEF Inv, TotalOfOne
<1>15. DOMAIN held' \subseteq Nat /\ HeldSound'
  <2>1. \A b \in Used : heap'.node[b].size = heap.node[b].size
    BY <1>1, <1>8
  <2> QED BY <2>1, <1>1, <1>8, <1>9, HeldAfterTake
<1> QED BY <1>9, <1>12, <1>13, <1>14, <1>15 DEF Inv

---------------------------------------------------------------------------
(* s is what pfree hands to its loops: the lists h it has made and the     *)
(* counters, the size of n added to __freemem.                             *)
Given(s, h, n) ==
  /\ s.heap = h
  /\ s.freemem = (freemem + heap.node[n].size) % U32
  /\ s.totalnodes = totalnodes

(* pfree moves the block to the available list; there it is one with its   *)
(* neighbours.                                                             *)
LEMMA Gives ==
  ASSUME Inv, NEW n \in Used, NEW s, NEW h,
         h = LLInsertSorted(LLRemove(heap, "assigned", n), "available", n),
         Given(s, h, n)
  PROVE  /\ SameSizes(h, heap, Free \cup Used)
         /\ Room(h, Free \cup Used) = Room(heap, Free \cup Used)
         /\ \A a \in Free \cup Used : EndOf(h, a) = P!End(a)
         /\ Merging(s, Free \cup {n}, Used \ {n})
         /\ ApartBut(h, Free \cup {n}, n)
         /\ Fits(h, Free \cup {n}, n)
<1> DEFINE F == Free \cup {n}
<1>1. Shape(h, F, Used \ {n}) /\ SameSizes(h, heap, Free \cup Used)
  <2>1. Shape(heap, Free, Used)
    BY DEF Inv
  <2> QED BY <2>1, GiveEffect
<1>2. \A a \in Free \cup Used : EndOf(h, a) = P!End(a)
  <2>1. \A a \in Free \cup Used : EndOf(h, a) = EndOf(heap, a)
    BY <1>1 DEF SameSizes, EndOf
  <2> QED BY <2>1, BlocksAre
<1>3. /\ F \subseteq Free \cup Used /\ F \subseteq P!Blocks
      /\ \A a \in F : a \in Nat /\ P!End(a) \in Nat /\ a < P!End(a) /\ a + Hdr <= P!End(a)
  <2>1. F \subseteq Free \cup Used /\ F \subseteq P!Blocks
    BY BlocksAre
  <2>2. \A a \in Free \cup Used : P!End(a) = EndOf(heap, a) /\ a + Hdr <= EndOf(heap, a)
    BY BlocksAre, Numbers DEF Inv
  <2> QED BY <2>1, <2>2, BlocksAre
<1>4. Apart(h, F)
  <2> SUFFICES ASSUME NEW a \in F, NEW b \in F, a < b PROVE EndOf(h, a) <= b
    BY DEF Apart
  <2>1. P!End(a) <= b \/ P!End(b) <= a
    <3>1. a # b
      BY <1>3
    <3> QED BY <3>1, <1>3 DEF Inv, P!HeapInv, P!Disjoint
  <2> HIDE DEF F
  <2> QED BY <2>1, <1>2, <1>3
<1>5. ApartBut(h, F, n)
  <2>1. n \notin Free
    BY BlocksAre
  <2>2. \A a \in Free : P!End(a) \notin Free
    BY DEF Inv, P!HeapInv, P!Coalesced
  <2> QED BY <2>1, <2>2, <1>2 DEF ApartBut
<1>6. Fits(h, F, n)
  <2> SUFFICES ASSUME NEW a \in F, NEW c \in F, a = n \/ EndOf(h, a) = n, c = n \/ c = EndOf(h, n)
               PROVE  EndOf(h, c) - a - Hdr \in 0 .. U32 - 1
    BY DEF Fits
  <2>1. a = n \/ P!End(a) = n
    BY <1>2, <1>3
  <2>2. c = n \/ c = P!End(n)
    BY <1>2
  <2>3. n \in F
    OBVIOUS
  <2>4. PICK r \in added : r.base <= a /\ P!End(c) <= P!AreaEnd(r)
    BY <2>1, <2>2, <2>3, <1>3, HeapRunInArea DEF Inv
  <2>5. r.base \in Nat /\ r.size \in Nat /\ r.size <= U32 - 1
    BY PmallocAssumption DEF Inv, P!HeapInv, P!TypeOK
  <2> HIDE DEF F
  <2>6. a <= c
    BY <2>1, <2>2, <2>3, <1>3
  <2>7. P!End(c) <= r.base + r.size
    BY <2>4 DEF P!AreaEnd
  <2>8. EndOf(h, c) = P!End(c)
    BY <1>2, <1>3
  <2> QED BY <2>4, <2>5, <2>6, <2>7, <2>8, <1>3, PmallocAssumption
<1>7. s.heap = h
  BY DEF Given
<1>8. Counts(s, F, Used \ {n}) /\ Room(h, Free \cup Used) = Room(heap, Free \cup Used)
  <2> DEFINE x == SizeSum(heap, Free)
             y == heap.node[n].size
  <2>1. /\ x \in Nat /\ freemem = x % U32 /\ y \in Nat
        /\ totalnodes = Cardinality(Free \cup Used) % U32
        /\ Sized(heap, Free) /\ Sized(heap, Free \cup Used)
    BY CountersAre, BlocksAre
  <2>2. SameSizes(h, heap, Free) /\ h.node[n].size = y /\ n \notin Free /\ F \cup (Used \ {n}) = Free \cup Used
    BY <1>1, BlocksAre DEF SameSizes
  <2>3. Room(h, Free \cup Used) = Room(heap, Free \cup Used)
    BY <2>1, <1>1, SizeSumSame
  <2>4. Grown(h, heap, Free, n)
    BY <2>1, <2>2, SizeSumAdd
  <2>5. SizeSum(h, F) = y + x
    BY <2>2, <2>4 DEF Grown
  <2> HIDE DEF x, y, F
  <2>6. ((x % U32) + y) % U32 = (x + y) % U32 /\ x + y = y + x
    <3>1. x \in Int /\ y \in Int /\ U32 \in Nat \ {0}
      BY <2>1, PmallocAssumption
    <3>2. ((x % U32) + y) % U32 = (x + y) % U32
      BY <3>1, WrapLate
    <3>3. x + y = y + x
      BY <3>1
    <3> QED BY <3>2, <3>3
  <2>7. s.freemem = (y + x) % U32
    BY <2>1, <2>6 DEF y, Given
  <2>8. s.totalnodes = totalnodes
    BY DEF Given
  <2> QED BY <2>1, <2>2, <2>3, <2>5, <2>7, <2>8, <1>7 DEF Counts
<1> QED BY <1>1, <1>2, <1>4, <1>5, <1>6, <1>7, <1>8 DEF Merging

(* A step of pfree is a step of the abstract Release. *)
LEMMA FreeStep ==
  ASSUME Inv, NEW ptr \in DOMAIN held, Pfree(ptr)
  PROVE  P!Next /\ Inv'
<1> DEFINE n == ptr - Hdr
           h == LLInsertSorted(LLRemove(heap, "assigned", n), "available", n)
           s == [heap |-> h, freemem |-> (freemem + heap.node[n].size) % U32,
                 totalnodes |-> totalnodes]
           t == MergeAll(s, LowEnd(h, n))
           F == Free \cup {n}
           G == Used \ {n}
<1>1. /\ heap' = t.heap /\ freemem' = t.freemem /\ totalnodes' = t.totalnodes
      /\ held' = [p \in DOMAIN held \ {ptr} |-> held[p]]
      /\ added' = added /\ totalmem' = totalmem
  BY DEF Pfree
<1>2. /\ n \in Used /\ n \notin Free /\ n \in Nat /\ ptr \in Nat
      /\ DOMAIN held \subseteq Nat /\ Used = {p - Hdr : p \in DOMAIN held}
      /\ \A p \in DOMAIN held : heap.node[p - Hdr].size = held[p]
  <2>1. /\ DOMAIN held \subseteq Nat /\ Used = {p - Hdr : p \in DOMAIN held}
        /\ \A p \in DOMAIN held : heap.node[p - Hdr].size = held[p]
    BY DEF Inv, HeldSound, Used
  <2>2. n \in Used
    BY <2>1
  <2> QED BY <2>1, <2>2, BlocksAre
<1>3. Given(s, h, n) /\ s.heap = h
  BY DEF Given
<1> HIDE DEF s, n
<1>4. /\ SameSizes(h, heap, Free \cup Used)
      /\ Room(h, Free \cup Used) = Room(heap, Free \cup Used)
      /\ \A a \in Free \cup Used : EndOf(h, a) = P!End(a)
      /\ Merging(s, F, G)
      /\ ApartBut(h, F, n)
      /\ Fits(h, F, n)
  BY <1>2, <1>3, Gives
<1> HIDE DEF h
<1>5. PICK lo \in F, hi \in F : Neighbours(h, F, n, lo, hi) /\ Merged(t, h, F, G, n, lo, hi)
  <2>1. n \in F
    OBVIOUS
  <2> HIDE DEF F, G
  <2> QED BY <2>1, <1>3, <1>4, MergeEffect
<1> HIDE DEF t
<1>6. /\ \/ lo \in Free /\ P!End(lo) = n
         \/ lo = n /\ \A a \in Free : P!End(a) # n
      /\ \/ hi \in Free /\ hi = P!End(n)
         \/ hi = n /\ P!End(n) \notin Free
  <2>1. F \ {n} = Free /\ \A a \in F : EndOf(h, a) = P!End(a)
    BY <1>2, <1>4
  <2>2. n \in F
    OBVIOUS
  <2>3. /\ \/ lo \in F \ {n} /\ EndOf(h, lo) = n
           \/ lo = n /\ \A a \in F : EndOf(h, a) # n
        /\ \/ hi \in F \ {n} /\ hi = EndOf(h, n)
           \/ hi = n /\ EndOf(h, n) \notin F
    BY <1>5 DEF Neighbours
  <2>4. P!End(n) \notin F => P!End(n) \notin Free
    OBVIOUS
  <2>5. \A a \in Free : a \in F
    OBVIOUS
  <2> HIDE DEF F
  <2> QED BY <2>1, <2>2, <2>3, <2>4, <2>5
<1>7. /\ Shape(heap', (Free \ {hi}) \cup {lo}, G)
      /\ Counts(t, (Free \ {hi}) \cup {lo}, G)
      /\ Room(heap', ((Free \ {hi}) \cup {lo}) \cup G) = Room(heap, Free \cup Used)
      /\ heap'.node[lo].size = P!End(hi) - lo - Hdr
      /\ \A b \in (Free \cup Used) \ {lo, n, hi} : heap'.node[b].size = heap.node[b].size
  <2>1. (F \ {n, hi}) \cup {lo} = (Free \ {hi}) \cup {lo}
    BY <1>2
  <2>2. F \cup G = Free \cup Used
    BY <1>2
  <2>3. EndOf(h, hi) = P!End(hi)
    BY <1>2, <1>4
  <2> HIDE DEF F, G
  <2> QED BY <2>1, <2>2, <2>3, <1>1, <1>4, <1>5 DEF Merged, SameSizes
<1>8. /\ Free' = (Free \ {hi}) \cup {lo} /\ Used' = G /\ Shape(heap', Free', Used')
      /\ Sizes' = [b \in Free' \cup Used' |-> heap'.node[b].size]
  BY <1>7, After
<1>9. lo \in Free \cup Used /\ hi \in Free \cup Used
  BY <1>2
<1>10. ASSUME NEW b \in Free' \cup Used', b # lo
       PROVE  b \in Free \cup Used /\ heap'.node[b].size = heap.node[b].size
  <2>1. b \in (Free \cup Used) \ {lo, n, hi}
    <3>1. CASE b \in Free
      BY <3>1, <1>2, <1>8, <1>10, BlocksAre
    <3>2. CASE b \notin Free
      BY <3>2, <1>2, <1>6, <1>8, <1>10
    <3> QED BY <3>1, <3>2
  <2> QED BY <2>1, <1>7
<1>11. P!Release(n)
  <2>1. P!IsLow(lo, n) /\ P!IsHigh(hi, n)
    BY <1>6 DEF P!IsLow, P!IsHigh
  <2>2. Sizes' = [c \in Free' \cup Used' |-> IF c = lo THEN P!End(hi) - lo - Hdr ELSE Sizes[c]]
    <3>1. ASSUME NEW c \in Free' \cup Used'
          PROVE  heap'.node[c].size = IF c = lo THEN P!End(hi) - lo - Hdr ELSE Sizes[c]
      BY <1>7, <1>10, BlocksAre
    <3> QED BY <3>1, <1>8
  <2> QED BY <2>1, <2>2, <1>1, <1>8 DEF P!Release
<1>12. P!Next /\ P!HeapInv'
  <2>1. P!Next
    BY <1>2, <1>11 DEF P!Next
  <2> QED BY <2>1, HeapSteps DEF Inv
<1>13. Counts(Now, Free, Used)' /\ totalmem' \in 0 .. U32 - 1 /\ Filled'
  BY <1>1, <1>7, <1>8 DEF Counts, Now, Inv, Filled
<1>14. TotalOfOne'
  BY <1>1 DEF Inv, TotalOfOne
<1>15. DOMAIN held' \subseteq Nat /\ HeldSound'
  <2>1. DOMAIN held' = DOMAIN held \ {ptr} /\ \A p \in DOMAIN held' : held'[p] = held[p]
    BY <1>1
  <2>2. \A p \in DOMAIN held : p \in Nat /\ (p - Hdr = n <=> p = ptr)
    BY <1>2, PmallocAssumption DEF n
  <2>3. Used' = {p - Hdr : p \in DOMAIN held'}
    BY <2>1, <2>2, <1>2, <1>8
  <2>4. ASSUME NEW p \in DOMAIN held' PROVE heap'.node[p - Hdr].size = held'[p]
    <3>1. p \in DOMAIN held /\ p - Hdr \in Used' /\ held'[p] = held[p]
      BY <2>1, <2>3
    <3>2. p - Hdr # lo
      BY <3>1, <2>1, <2>2, <1>2, <1>6, <1>8, BlocksAre
    <3> QED BY <3>1, <3>2, <1>2, <1>10
  <2> QED BY <2>1, <2>3, <2>4, <1>2 DEF HeldSound, Used
<1> QED BY <1>8, <1>12, <1>13, <1>14, <1>15 DEF Inv

---------------------------------------------------------------------------
(* An empty heap has two empty lists. *)
LEMMA Starts == Init => P!Init /\ Inv
<1> SUFFICES ASSUME Init PROVE P!Init /\ Inv
  OBVIOUS
<1>1. /\ heap = [node |-> <<>>, root |-> [l \in Lists |-> NULL]]
      /\ added = {} /\ freemem = 0 /\ totalmem = 0 /\ totalnodes = 0 /\ held = <<>>
  BY DEF Init
<1>2. heap.node = <<>> /\ heap.root = [l \in Lists |-> NULL] /\ DOMAIN heap.node = {}
  BY <1>1
<1>3. Shape(heap, {}, {})
  <2>1. Bounded({} \cup {})
    BY DEF Bounded
  <2>2. heap \in HeapOver({} \cup {})
    <3>1. heap.node \in [{} -> HeaderOver({})] /\ heap.root \in [Lists -> {NULL}]
      BY <1>2
    <3>2. heap = [node |-> heap.node, root |-> heap.root]
      BY <1>1
    <3> QED BY <3>1, <3>2 DEF HeapOver
  <2>3. Chain(heap, "available", {}) /\ Chain(heap, "assigned", {})
    BY <1>2 DEF Chain, Lists
  <2> QED BY <2>1, <2>2, <2>3 DEF Shape
<1>4. Free = {} /\ Used = {}
  BY <1>3, ListsAre DEF Free, Used
<1>5. P!Init
  BY <1>1, <1>2, <1>4 DEF P!Init, Sizes
<1>6. DOMAIN held = {}
  BY <1>1
<1>7. HeldSound
  BY <1>4, <1>6 DEF HeldSound, Used
<1>8. Counts(Now, Free, Used) /\ totalmem \in 0 .. U32 - 1 /\ Filled
  <2>1. Sized(heap, {}) /\ IsFiniteSet({})
    BY FS_EmptySet DEF Sized
  <2>2. SizeSum(heap, {}) = 0 /\ Cardinality({}) = 0
    BY <2>1, SizeSumIs
  <2>3. 0 \in 0 .. U32 - 1 /\ 0 % U32 = 0
    BY WordRange, PmallocAssumption
  <2>4. Free \cup Used = {} /\ freemem = 0 /\ totalnodes = 0 /\ totalmem = 0 /\ added = {}
    BY <1>1, <1>4
  <2>5. Counts(Now, Free, Used)
    BY <2>2, <2>3, <2>4, <1>4 DEF Counts, Now
  <2>6. SumFunctionOnSet(AreaSize, {}) = 0
    BY <2>1, SumUnfold DEF Weighs
  <2>7. Room(heap, {}) = 0
    BY <2>2, PmallocAssumption DEF Room
  <2> QED BY <2>1, <2>3, <2>4, <2>5, <2>6, <2>7 DEF Filled
<1>9. TotalOfOne
  BY <1>1 DEF TotalOfOne
<1> QED BY <1>3, <1>4, <1>5, <1>6, <1>7, <1>8, <1>9, HeapStarts DEF Inv

(* pmalloc as a step of the abstract heap, whether it splits or not. *)
LEMMA AllocateStep ==
  ASSUME Inv, NEW n \in Asked, Roomy(n), Allocate(n, n, Clear)
  PROVE  P!Next /\ Inv'
<1> DEFINE cur == FirstFit(n)
           k == LLInsertSorted(LLRemove(heap, "available", cur), "assigned", cur)
<1>1. /\ cur # NULL
      /\ held' = [p \in DOMAIN held \cup {cur + Hdr} |-> IF p = cur + Hdr THEN n ELSE held[p]]
      /\ UNCHANGED <<added, totalmem>>
      /\ \/ /\ heap.node[cur].size = n
            /\ heap' = k
            /\ freemem' = (freemem - n) % U32
            /\ UNCHANGED totalnodes
         \/ /\ heap.node[cur].size # n
            /\ \E p, q \in Clear :
                 heap' = LLInsertSorted(
                           NewHeader([k EXCEPT !.node[cur].size = n], cur + Hdr + n, p, q,
                                     (heap.node[cur].size - Hdr - n) % U32),
                           "available", cur + Hdr + n)
            /\ freemem' = (freemem - Hdr - n) % U32
            /\ totalnodes' = (totalnodes + 1) % U32
  BY DEF Allocate
<1>2. CASE heap.node[cur].size = n
  <2>1. heap' = k /\ freemem' = (freemem - n) % U32 /\ UNCHANGED totalnodes
    BY <1>1, <1>2
  <2> HIDE DEF cur
  <2> QED BY <1>1, <1>2, <2>1, TakeWholeStep DEF cur
<1>3. CASE heap.node[cur].size # n
  <2>1. /\ heap' = LLInsertSorted(
                     NewHeader([k EXCEPT !.node[cur].size = n], cur + Hdr + n, NULL, NULL,
                               (heap.node[cur].size - Hdr - n) % U32),
                     "available", cur + Hdr + n)
        /\ freemem' = (freemem - Hdr - n) % U32
        /\ totalnodes' = (totalnodes + 1) % U32
    BY <1>1, <1>3 DEF Clear
  <2> HIDE DEF cur
  <2> QED BY <1>1, <1>3, <2>1, SplitStep DEF cur
<1> QED BY <1>2, <1>3

(* Every step of the linked lists is one of the abstract heap, or none. *)
LEMMA Steps == Inv /\ [OrderlyNext]_vars => [P!Next]_P!vars /\ Inv'
<1> SUFFICES ASSUME Inv, [OrderlyNext]_vars PROVE [P!Next]_P!vars /\ Inv'
  OBVIOUS
<1>1. ASSUME UNCHANGED vars PROVE UNCHANGED P!vars /\ Inv'
  <2>1. /\ added' = added /\ heap' = heap /\ freemem' = freemem /\ totalmem' = totalmem
        /\ totalnodes' = totalnodes /\ held' = held
    BY <1>1 DEF vars
  <2>2. Free' = Free /\ Used' = Used /\ Sizes' = Sizes
    BY <2>1 DEF Free, Used, Sizes
  <2>3. UNCHANGED P!vars
    BY <2>1, <2>2 DEF P!vars
  <2>4. P!HeapInv'
    BY <2>3, HeapSteps DEF Inv
  <2>5. HeldSound'
    BY <2>1, <2>2 DEF Inv, HeldSound, Used
  <2>6. Counts(Now, Free, Used)' /\ Filled'
    BY <2>1, <2>2 DEF Inv, Counts, Now, Filled
  <2>7. TotalOfOne'
    BY <2>1 DEF Inv, TotalOfOne
  <2> QED BY <2>1, <2>2, <2>3, <2>4, <2>5, <2>6, <2>7 DEF Inv
<1>2. ASSUME NEW r \in Areas, Paddblock(r, Clear) PROVE P!Next /\ Inv'
  BY <1>2, AddStep DEF P!Next
<1>3. ASSUME NEW n \in Requests, Roomy(n), Pmalloc(n, Clear) PROVE [P!Next]_P!vars /\ Inv'
  <2>1. CASE Allocate(n, n, Clear)
    BY <2>1, <1>3, AllocateStep DEF Asked
  <2>2. CASE OutOfMemory(n)
    BY <2>2, <1>1 DEF OutOfMemory
  <2> QED BY <1>3, <2>1, <2>2 DEF Pmalloc
<1>4. ASSUME NEW num \in Nums, NEW n \in Requests, num * n < U32, Roomy(num * n),
             Pcalloc(num, n, Clear)
      PROVE  [P!Next]_P!vars /\ Inv'
  <2> DEFINE m == num * n
             bytes == m % U32
  <2>1. m \in 0 .. U32 - 1 /\ m \in Int
    <3>1. num \in Nat /\ n \in Nat
      BY PmallocAssumption
    <3>2. m \in Nat
      BY <3>1
    <3>3. m < U32
      BY <1>4
    <3> HIDE DEF m
    <3> QED BY <3>2, <3>3, PmallocAssumption
  <2>2. bytes \in Asked
    BY DEF Asked
  <2>3. Allocate(bytes, m, Clear) \/ OutOfMemory(bytes)
    BY <1>4 DEF Pcalloc
  <2>7. Roomy(m)
    BY <1>4
  <2> HIDE DEF m
  <2>4. bytes = m
    BY <2>1, WordRange
  <2> HIDE DEF bytes
  <2>5. CASE Allocate(bytes, bytes, Clear)
    BY <2>2, <2>4, <2>5, <2>7, AllocateStep
  <2>6. CASE OutOfMemory(bytes)
    BY <2>6, <1>1 DEF OutOfMemory
  <2> QED BY <2>3, <2>4, <2>5, <2>6
<1>5. ASSUME NEW ptr \in DOMAIN held, Pfree(ptr) PROVE P!Next /\ Inv'
  BY <1>5, FreeStep
<1> QED BY <1>1, <1>2, <1>3, <1>4, <1>5 DEF OrderlyNext

(* The inductive invariant holds of the linked lists whatever is called in *)
(* whatever order, while headers are written to clear memory, no split     *)
(* leaves less than a header and no product wraps: the conditions of       *)
(* OrderlySpec, which every theorem below is under.                        *)
THEOREM PmallocInvariance == OrderlySpec => []Inv
BY Starts, Steps, PTL DEF OrderlySpec

(* Types, in orderly use: every link is NULL or leads to a header, every   *)
(* counter and size fits a uint32_t, and every pointer handed out has a    *)
(* header before it.                                                       *)
THEOREM PmallocTypeOK == OrderlySpec => []TypeOK
<1>1. Inv => TypeOK
  <2> SUFFICES ASSUME Inv PROVE TypeOK
    OBVIOUS
  <2>1. Shape(heap, Free, Used) /\ DOMAIN heap.node = Free \cup Used
    BY BlocksAre DEF Inv
  <2>2. /\ heap.node \in [Free \cup Used -> HeaderOver(Free \cup Used)]
        /\ heap.root \in [Lists -> (Free \cup Used) \cup {NULL}]
    BY <2>1 DEF Shape, HeapOver
  <2>3. added \subseteq Areas
    BY DEF Inv, P!HeapInv, P!TypeOK
  <2>4. \A p \in DOMAIN held : p - Hdr \in DOMAIN heap.node
    BY <2>1 DEF Inv, HeldSound, Used
  <2>5. heap.node \in [DOMAIN heap.node -> [prev : Pointers, next : Pointers, size : 0 .. U32 - 1]]
    BY <2>1, <2>2 DEF HeaderOver, Pointers
  <2>6. heap.root \in [Lists -> Pointers]
    BY <2>1, <2>2 DEF Pointers
  <2>7. {freemem, totalmem, totalnodes} \subseteq 0 .. U32 - 1
    BY CountersAre DEF Inv
  <2> QED BY <2>3, <2>4, <2>5, <2>6, <2>7 DEF TypeOK
<1> QED BY <1>1, PmallocInvariance, PTL

(* List l of h is doubly linked, its head without a prev. *)
Doubly(h, l, F) ==
  /\ h.root[l] # NULL => h.node[h.root[l]].prev = NULL
  /\ \A n \in F : h.node[n].next # NULL =>
                    n < h.node[n].next /\ h.node[h.node[n].next].prev = n

(* A list in the order of addresses is doubly linked. *)
LEMMA ChainIsDoubly ==
  ASSUME NEW F, F \in SUBSET Nat, NEW h, NEW l, Chain(h, l, F)
  PROVE  Doubly(h, l, F)
<1>1. ASSUME h.root[l] # NULL PROVE h.node[h.root[l]].prev = NULL
  <2>1. h.root[l] \in F
    BY <1>1 DEF Chain
  <2>2. ASSUME NEW a \in F, h.root[l] = a PROVE h.node[a].prev = NULL
    <3>1. IsPrev(h.node[a].prev, a, F) /\ \A b \in F : a <= b
      BY <1>1, <2>2 DEF Chain
    <3>2. \A p \in F : p \in Nat /\ a \in Nat /\ ~(p < a)
      BY <3>1
    <3> QED BY <3>1, <3>2 DEF IsPrev
  <2> QED BY <2>1, <2>2
<1>2. ASSUME NEW n \in F, h.node[n].next # NULL
      PROVE  n < h.node[n].next /\ h.node[h.node[n].next].prev = n
  BY <1>2, ChainLinks
<1> QED BY <1>1, <1>2 DEF Doubly

(* In orderly use both lists stay sorted by address and doubly linked, and *)
(* every header in memory is on exactly one of them, through every         *)
(* ll_insert_sorted, ll_remove and merge.  Over memory that is not clear   *)
(* they do not: ChainEnds.                                                 *)
THEOREM PmallocListsSound == OrderlySpec => []ListsSound
<1>1. Inv => ListsSound
  <2> SUFFICES ASSUME Inv PROVE ListsSound
    OBVIOUS
  <2>1. /\ Free \in SUBSET Nat /\ Chain(heap, "available", Free)
        /\ Used \in SUBSET Nat /\ Chain(heap, "assigned", Used)
    BY DEF Inv, Shape, Bounded
  <2>2. Free \cup Used = DOMAIN heap.node /\ Free \cap Used = {} /\ NULL \notin Free \cup Used
    BY BlocksAre
  <2>3. Doubly(heap, "available", Free) /\ Doubly(heap, "assigned", Used)
    BY <2>1, ChainIsDoubly
  <2>4. \A l \in Lists : heap.root[l] # NULL => heap.node[heap.root[l]].prev = NULL
    BY <2>3 DEF Doubly, Lists
  <2>5. \A n \in DOMAIN heap.node :
          heap.node[n].next # NULL => n < heap.node[n].next /\ heap.node[heap.node[n].next].prev = n
    BY <2>2, <2>3 DEF Doubly
  <2> QED BY <2>2, <2>4, <2>5 DEF ListsSound, Free, Used
<1> QED BY <1>1, PmallocInvariance, PTL

(* In orderly use the assigned list is what callers hold, in the sizes     *)
(* they asked for.                                                         *)
THEOREM PmallocHeldSound == OrderlySpec => []HeldSound
<1>1. Inv => HeldSound
  BY DEF Inv
<1> QED BY <1>1, PmallocInvariance, PTL

(* In orderly use the counters kept beside the lists never drift from      *)
(* them, however often blocks are split and merged: __freemem is what the  *)
(* available blocks add up to, no byte of the areas is lost, and of a      *)
(* single area __totalmem is the usable size.                              *)
THEOREM PmallocAccounts == OrderlySpec => []Accounts
<1>1. Inv => Accounts
  <2> SUFFICES ASSUME Inv PROVE Accounts
    OBVIOUS
  <2> DEFINE D == Free \cup Used
             x == SizeSum(heap, Free)
             y == SizeSum(heap, Used)
             c == Cardinality(D)
             total == SumFunctionOnSet(AreaSize, added)
  <2>1. /\ x \in Nat /\ y \in Nat /\ c \in Nat /\ Hdr \in Nat \ {0}
        /\ freemem = x % U32 /\ totalnodes = c % U32
        /\ Sized(heap, Free) /\ Sized(heap, Used) /\ Sized(heap, D)
    BY CountersAre, PmallocAssumption
  <2>2. DOMAIN heap.node = D /\ Free \cap Used = {} /\ \A b \in D : Sizes[b] = heap.node[b].size
    BY BlocksAre
  <2>3. SumFunctionOnSet(Sizes, Free) = x /\ SumFunctionOnSet(Sizes, Used) = y
        /\ SumFunctionOnSet(Sizes, D) = SizeSum(heap, D)
    <3>1. ASSUME NEW E \in SUBSET D, Sized(heap, E)
          PROVE  SumFunctionOnSet(Sizes, E) = SizeSum(heap, E)
      <4> DEFINE v == [a \in E |-> heap.node[a].size]
      <4>1. IsFiniteSet(E) /\ Weighs(Sizes, E) /\ \A a \in E : Sizes[a] = v[a]
        BY <2>2, <3>1 DEF Sized, Weighs
      <4> HIDE DEF v
      <4> QED BY <4>1, SumSame DEF SizeSum, v
    <3> QED BY <2>1, <3>1
  <2>4. SizeSum(heap, D) = x + y
    <3>1. IsFiniteSet(Free) /\ IsFiniteSet(Used) /\ Weighs(Sizes, D)
      BY <2>1, <2>2 DEF Sized, Weighs
    <3> QED BY <2>2, <2>3, <3>1, SumUnion
  <2>5. x + y + Hdr * c = total
    BY <2>4 DEF Inv, Filled, Room
  <2>6. total < U32
    <3>1. IsFiniteSet(Areas) /\ (\A r \in Areas : AreaSize[r] \in Nat) /\ added \in SUBSET Areas
      BY RoomAssumption, PmallocAssumption DEF Inv, P!HeapInv, P!TypeOK, AreaSize
    <3>2. /\ total \in Nat /\ SumFunctionOnSet(AreaSize, Areas) \in Nat
          /\ total <= SumFunctionOnSet(AreaSize, Areas)
      BY <3>1, SumPart
    <3>3. SumFunctionOnSet(AreaSize, Areas) < U32
      BY RoomAssumption DEF AreaSize
    <3> HIDE DEF total
    <3> QED BY <3>2, <3>3, PmallocAssumption
  <2> HIDE DEF x, y, c, total, D
  <2>7. Hdr * c \in Nat /\ c <= Hdr * c
    BY <2>1
  <2>8. x < U32 /\ c < U32
    BY <2>1, <2>5, <2>6, <2>7, PmallocAssumption
  <2>9. freemem = x /\ totalnodes = c
    <3>1. x \in 0 .. U32 - 1 /\ c \in 0 .. U32 - 1 /\ x \in Int /\ c \in Int
      BY <2>1, <2>8, PmallocAssumption
    <3> QED BY <2>1, <3>1, WordRange
  <2>10. \A r \in Areas : added = {r} => totalmem = r.size - Hdr
    BY DEF Inv, TotalOfOne
  <2> QED BY <2>2, <2>3, <2>5, <2>9, <2>10 DEF Accounts, AreaSize, total, c, Free, Used
<1> QED BY <1>1, PmallocInvariance, PTL

(* What the abstract heap promises of its blocks holds, in orderly use, of *)
(* those the lists describe: no two overlap, each lies in an area that was added, they     *)
(* tile the areas, no two available ones touch, and once all are given     *)
(* back each area is one block again.                                      *)
THEOREM PmallocBlocksSafe ==
  OrderlySpec => [](P!Disjoint /\ P!InAreas /\ P!Tiled /\ P!Coalesced /\ P!Restored)
<1>1. P!HeapInv => P!Restored
  BY HeapAssumptions, P!HeapInvRestored
<1>2. Inv => P!Disjoint /\ P!InAreas /\ P!Tiled /\ P!Coalesced /\ P!Restored
  BY <1>1 DEF Inv, P!HeapInv
<1> QED BY <1>2, PmallocInvariance, PTL

(* pmalloc answers NULL only if no available block is large enough.        *)
NoFalseAlarm ==
  \A n \in Asked : FirstFit(n) = NULL => \A b \in Members(heap, "available") : heap.node[b].size < n

(* In orderly use the search never overlooks a block that would do. *)
THEOREM PmallocNoFalseAlarm == OrderlySpec => []NoFalseAlarm
<1>1. Inv => NoFalseAlarm
  <2> SUFFICES ASSUME Inv, NEW n \in Asked, FirstFit(n) = NULL
               PROVE  \A b \in Free : heap.node[b].size < n
    BY DEF NoFalseAlarm, Free
  <2>1. OnList(heap, Free \cup Used, "available", Free)
    BY DEF Inv, Shape, OnList
  <2>2. n \in Nat
    BY HeapAssumptions
  <2> QED BY <2>1, <2>2, FirstFitIs
<1> QED BY <1>1, PmallocInvariance, PTL

(* The linked lists implement the abstract heap, while headers are written *)
(* to clear memory, no split leaves less than a header and no product      *)
(* wraps; without the first two they do not (ChainEnds, HandedOutFits).    *)
THEOREM PmallocImplementsHeap == OrderlySpec => HeapSpec
<1>1. P!Init => H!Init
  BY DEF P!Init, H!Init, Free, Used, Sizes
<1>2. P!vars = H!vars /\ P!vars' = H!vars'
  BY DEF P!vars, H!vars, Free, Used, Sizes
<1>3. P!Blocks = H!Blocks /\ \A b : P!End(b) = H!End(b)
  BY DEF P!Blocks, H!Blocks, P!End, H!End, Free, Used, Sizes
<1>4. ASSUME NEW r, P!AddArea(r) PROVE H!AddArea(r)
  BY <1>3, <1>4 DEF P!AddArea, H!AddArea, Free, Used, Sizes
<1>5. ASSUME NEW b, NEW n, P!TakeWhole(b, n) PROVE H!TakeWhole(b, n)
  BY <1>5 DEF P!TakeWhole, H!TakeWhole, Free, Used, Sizes
<1>6. ASSUME NEW b, NEW n, P!Split(b, n) PROVE H!Split(b, n)
  BY <1>3, <1>6 DEF P!Split, H!Split, Free, Used, Sizes
<1>7. ASSUME NEW b, P!Release(b) PROVE H!Release(b)
  <2>1. ASSUME NEW c PROVE (P!IsLow(c, b) <=> H!IsLow(c, b)) /\ (P!IsHigh(c, b) <=> H!IsHigh(c, b))
    BY <1>3 DEF P!IsLow, H!IsLow, P!IsHigh, H!IsHigh, Free
  <2> QED BY <2>1, <1>3, <1>7 DEF P!Release, H!Release, Free, Used, Sizes
<1>8. P!Next => H!Next
  BY <1>4, <1>5, <1>6, <1>7 DEF P!Next, H!Next, P!Allocate, H!Allocate, Free, Used, Asked
<1>9. [P!Next]_P!vars => [H!Next]_H!vars
  BY <1>2, <1>8
<1> QED BY <1>1, <1>9, Starts, Steps, PTL DEF OrderlySpec, HeapSpec, H!Spec
=============================================================================
