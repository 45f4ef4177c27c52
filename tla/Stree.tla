------------------------------- MODULE Stree -------------------------------
(***************************************************************************)
(* The ternary search tree of stree.c, with which the assembler keeps its  *)
(* mnemonics, its labels and the references still open.  A word is a       *)
(* sequence of characters.  malloc's memory is taken to be zero, as it is  *)
(* for a program that has freed nothing yet: stree_new sets the character  *)
(* of a node and leaves the rest as it finds it.  stree_balance calls      *)
(* itself for the subtrees, as btree_balance does: its calls to come are   *)
(* kept, and each turn of its loop is an action.                           *)
(***************************************************************************)
EXTENDS Trees

CONSTANTS
  Words,       \* the words callers store
  NameValues,  \* and what they store with them; 0 is a NULL pointer
  Addresses,   \* where malloc may put a copy of a word
  RootLetter   \* the character of the root, '-' in mhasm.c

ASSUME StreeAssumption ==
  /\ Words \subseteq Seq(Nat) \ {<<>>} /\ RootLetter \in Nat
  /\ NameValues \subseteq Nat
  /\ Addresses \subseteq Nat \ {0}

VARIABLES
  names,      \* the tree
  stored,     \* word -> the value it was given last
  taken,      \* addresses of the words copied so far
  rehung,     \* stree_balance: "no", "yes", or "used" when more was stored after it
  pending,    \* where its calls are made, the running one first
  inside,     \* it was found not to be NULL
  turns       \* and its variable m

namesVars == <<names, stored, taken, rehung, pending, inside, turns>>

(* stree_new.  key is the address of the copy of the word, 0 for none. *)
NewNode(c) == [c |-> c, key |-> 0, word |-> <<>>, value |-> 0]

(* Where stree_set and stree_get go on from node n for character c. *)
Turning(n, c) == IF n.c = c THEN "forward" ELSE IF c < n.c THEN "left" ELSE "right"

(* Which character of a word is compared with the node at p, and whether p *)
(* is on the way of word w down t.                                         *)
Depth(p) == 1 + Cardinality({i \in DOMAIN p : p[i] = "forward"})
OnWay(t, w, p) ==
  /\ Depth(p) <= Len(w)
  /\ \A q \in DOMAIN t, side \in Links :
       IsPrefix(Append(q, side), p) => side = Turning(t[q], w[Depth(q)])

(* stree_get and stree_find: where the node of w is, if there is one. *)
StreeGet(t, w) == {p \in DOMAIN t : OnWay(t, w, p) /\ Depth(p) = Len(w) /\ t[p].c = w[Len(w)]}

StreeExists(t, w) == \E p \in StreeGet(t, w) : t[p].value # 0

(* stree_add, and the shortcut of stree_set: what is missing of w goes to  *)
(* the first NULL on its way, one node forward of the other.               *)
Ends(t) == {Append(p, side) : p \in DOMAIN t, side \in Links} \ DOMAIN t
Chain(w, d) == [p \in {[i \in 1 .. n |-> "forward"] : n \in 0 .. Len(w) - d} |-> NewNode(w[d + Len(p)])]
Grown(t, w) ==
  IF StreeGet(t, w) # {} THEN t
  ELSE LET p == CHOOSE p \in Ends(t) : OnWay(t, w, p) IN Hang(t, p, Chain(w, Depth(p)))

(* Mutant: a word that begins one already there is not given its value. *)
StreeSetNew(t, w, mark) ==
  IF StreeGet(t, w) # {} THEN t
  ELSE LET g == Grown(t, w)
       IN  [p \in DOMAIN g |-> IF p \in StreeGet(g, w) THEN mark @@ g[p] ELSE g[p]]

(* stree_set: mark is what the node of w is given. *)
StreeSet(t, w, mark) ==
  LET g == Grown(t, w)
  IN  [p \in DOMAIN g |->
         IF p \in StreeGet(g, w)
         THEN [g[p] EXCEPT !.key = mark.key, !.word = mark.word, !.value = mark.value]
         ELSE g[p]]

(* Mutant: the longer words are gone to from nodes without a word only. *)
VisitedShort(t) ==
  {p \in DOMAIN t : /\ t[p].value # 0
                    /\ \A q \in DOMAIN t : IsPrefix(Append(q, "forward"), p) => t[q].value = 0}

(* The nodes stree_iterate gives its callback, when that always returns    *)
(* false, as those of mhasm.c do: nodes of value NULL are passed over.     *)
Visited(t) == {p \in DOMAIN t : t[p].value # 0}

---------------------------------------------------------------------------
NoWords == [w \in {} |-> 0]

NamesInit ==
  /\ names = NoTree /\ stored = NoWords /\ taken = {} /\ rehung = "no"
  /\ pending = <<>> /\ inside = FALSE /\ turns = 0

NamesNew ==
  /\ names = NoTree
  /\ names' = [p \in {<<>>} |-> NewNode(RootLetter)]
  /\ UNCHANGED <<stored, taken, rehung, pending, inside, turns>>

(* stree_set; the copy of the word goes to any free address, and that of   *)
(* an earlier call with the same word is never released.                   *)
NamesSet(w, v) ==
  /\ names # NoTree /\ pending = <<>>
  /\ \E a \in Addresses \ taken :
       /\ names' = StreeSet(names, w, [key |-> a, word |-> w, value |-> v])
       /\ taken' = taken \cup {a}
  /\ stored' = [u \in DOMAIN stored \cup {w} |-> IF u = w THEN v ELSE stored[u]]
  /\ rehung' = IF rehung = "yes" THEN "used" ELSE rehung
  /\ UNCHANGED <<pending, inside, turns>>

(* stree_balance is called. *)
NamesBalance ==
  /\ names # NoTree /\ pending = <<>>
  /\ pending' = << <<>> >>
  /\ rehung' = IF rehung = "no" THEN "yes" ELSE rehung
  /\ UNCHANGED <<names, stored, taken, inside, turns>>

(* A call begins: it returns at once from NULL. *)
NamesEnter ==
  /\ pending # <<>> /\ ~inside
  /\ IF Head(pending) \in DOMAIN names
     THEN inside' = TRUE /\ turns' = Moves(At(names, Head(pending))) /\ UNCHANGED pending
     ELSE pending' = Tail(pending) /\ UNCHANGED <<inside, turns>>
  /\ UNCHANGED <<names, stored, taken, rehung>>

(* One turn of its loop.  stree_insert goes by the address of the word,    *)
(* not by the character.                                                   *)
NamesMove ==
  /\ inside /\ turns # 0
  /\ names' = Hang(names, Head(pending),
                   RootDown(At(names, Head(pending)), IF turns > 0 THEN "right" ELSE "left"))
  /\ turns' = IF turns > 0 THEN turns - 1 ELSE turns + 1
  /\ UNCHANGED <<stored, taken, rehung, pending, inside>>

(* It goes on with the subtrees. *)
NamesDown ==
  /\ inside /\ turns = 0
  /\ pending' = [i \in 1 .. 3 |-> Append(Head(pending), <<"left", "right", "forward">>[i])]
                  \o Tail(pending)
  /\ inside' = FALSE
  /\ UNCHANGED <<names, stored, taken, rehung, turns>>

(* stree_free *)
NamesFree ==
  /\ names # NoTree /\ pending = <<>>
  /\ names' = NoTree /\ stored' = NoWords /\ taken' = {} /\ rehung' = "no"
  /\ UNCHANGED <<pending, inside, turns>>

NamesNext ==
  \/ NamesNew
  \/ \E w \in Words, v \in NameValues : NamesSet(w, v)
  \/ NamesBalance \/ NamesEnter \/ NamesMove \/ NamesDown
  \/ NamesFree

---------------------------------------------------------------------------
Beginnings(w) == {SubSeq(w, 1, i) : i \in 1 .. Len(w)}

Letters == {RootLetter} \cup UNION {{w[i] : i \in DOMAIN w} : w \in Words}

(* Whatever words were stored and in whatever order, a lookup finds the    *)
(* words stored, each with the value it was given last; it finds besides   *)
(* only what begins such a word, and the root, and those with value NULL,  *)
(* so that stree_exists does not take them for words.  A tree that went    *)
(* through stree_balance is ordered by address and promises this no more.  *)
NamesFound ==
  names # NoTree /\ rehung = "no" =>
    \A w \in {<<RootLetter>>} \cup UNION {Beginnings(x \o <<c>>) : x \in Words, c \in Letters} :
      LET found == StreeGet(names, w)
      IN  /\ found # {} <=> w = <<RootLetter>> \/ \E x \in DOMAIN stored : w \in Beginnings(x)
          /\ \A p \in found : names[p].value = IF w \in DOMAIN stored THEN stored[w] ELSE 0
          /\ StreeExists(names, w) <=> w \in DOMAIN stored /\ stored[w] # 0

(* stree_iterate gives its callback each word stored with a value, once    *)
(* and with the value it was given last: the last pass of the assembler    *)
(* comes to every name that has open references.  stree_balance loses none *)
(* of them, in no turn of its loop, but a word stored after it may come to *)
(* have two nodes.                                                         *)
NamesVisited ==
  rehung # "used" =>
    /\ {<<names[p].word, names[p].value>> : p \in Visited(names)}
         = {<<w, stored[w]>> : w \in {w \in DOMAIN stored : stored[w] # 0}}
    /\ \A p, q \in Visited(names) : names[p].word = names[q].word => p = q

---------------------------------------------------------------------------
NamesSpec == NamesInit /\ [][NamesNext]_namesVars
=============================================================================
