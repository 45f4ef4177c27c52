------------------------------- MODULE Trees -------------------------------
(***************************************************************************)
(* Binary trees as btree.c and stree.c link them.  A node is one           *)
(* allocation and no two links lead to the same, so a node is known by the *)
(* links that lead to it from the root, in their order; a tree is a        *)
(* function from these to what its nodes hold.  Here is what both files do *)
(* with left and right: they insert by key, and balance by moving a root   *)
(* down into one of its subtrees.                                          *)
(***************************************************************************)
EXTENDS Integers, FiniteSets, SequencesExt

Links == {"left", "right", "forward"}
Ways == Seq(Links)

NoTree == <<>>    \* a NULL link, the function without arguments

(* The rest of q, which begins with p. *)
Rest(p, q) == SubSeq(q, Len(p) + 1, Len(q))

(* What a link leads to, and what becomes of t when s is written to it. *)
At(t, p) == [q \in {Rest(p, r) : r \in {r \in DOMAIN t : IsPrefix(p, r)}} |-> t[p \o q]]
Hang(t, p, s) ==
  [q \in {r \in DOMAIN t : ~IsPrefix(p, r)} \cup {p \o r : r \in DOMAIN s} |->
     IF IsPrefix(p, q) THEN s[Rest(p, q)] ELSE t[q]]

(* Where to go from node n for key k. *)
SideOf(n, k) == IF k < n.key THEN "left" ELSE "right"

(* p is on the way of key k down t. *)
Leads(t, k, p) ==
  \A q \in DOMAIN t, side \in Links : IsPrefix(Append(q, side), p) => side = SideOf(t[q], k)

(* The first NULL on the way of key k. *)
Free(t) == ({<<>>} \cup {Append(p, side) : p \in DOMAIN t, side \in {"left", "right"}}) \ DOMAIN t
Slot(t, k) == CHOOSE p \in Free(t) : Leads(t, k, p)

(* Mutant: an equal key goes to the left. *)
InsertLeft(t, s) ==
  Hang(t, CHOOSE p \in Free(t) : \A q \in DOMAIN t, side \in Links :
            IsPrefix(Append(q, side), p) =>
              side = (IF s[<<>>].key <= t[q].key THEN "left" ELSE "right"), s)

(* btree_insert, and stree_insert: s, a node with what hangs from it, goes *)
(* where its key belongs.                                                  *)
Insert(t, s) == Hang(t, Slot(t, s[<<>>].key), s)

(* _btree_count: how many nodes follow the root on one side. *)
Spine(t, side) ==
  Cardinality({p \in DOMAIN t : p # <<>> /\ \A i \in DOMAIN p : p[i] = side})

(* Mutant: the root goes down without its other subtree. *)
RootDownAlone(t, side) ==
  Insert(At(t, <<side>>), [p \in {<<>>} |-> t[<<>>]])

(* The root goes down into its subtree on one side. *)
RootDown(t, side) == Insert(At(t, <<side>>), Hang(t, <<side>>, NoTree))

(* How often it goes, to the right or, when negative, to the left; C       *)
(* divides towards zero.                                                   *)
Half(m) == IF m < 0 THEN -((-m) \div 2) ELSE m \div 2
Moves(t) == Half(Spine(t, "right") - Spine(t, "left"))
=============================================================================
