------------------------------- MODULE Btree -------------------------------
(***************************************************************************)
(* The binary tree of btree.c, with which the disassembler keeps its       *)
(* labels.  Keys may be added twice.  btree_balance calls itself for the   *)
(* subtrees: its calls still to come are kept, and each turn of its loop   *)
(* is an action.                                                           *)
(***************************************************************************)
EXTENDS Trees

CONSTANTS
  Keys,        \* keys of 32 bits
  MaxEntries   \* bound on the entries of a tree

ASSUME BtreeAssumption == Keys \subseteq Nat /\ MaxEntries \in Nat

VARIABLES
  tree,
  added,      \* the entries <<key, value>> in the order they came
  shuffled,   \* the tree was balanced with some key in it twice
  calls,      \* where the calls of btree_balance are made, the running one first
  entered,    \* it was found not to be NULL
  moves       \* and its variable m

treeVars == <<tree, added, shuffled, calls, entered, moves>>

(* btree_new *)
Leaf(k, v) == [p \in {<<>>} |-> [key |-> k, value |-> v]]

BtreeAdd(t, k, v) == IF t = NoTree THEN Leaf(k, v) ELSE Insert(t, Leaf(k, v))

(* The node with key k that lookups come to first; none when they find     *)
(* NULL.                                                                   *)
Finds(t, k) ==
  {p \in DOMAIN t : /\ t[p].key = k /\ Leads(t, k, p)
                    /\ \A q \in DOMAIN t : IsStrictPrefix(q, p) => t[q].key # k}
BtreeGet(t, k) == {t[p] : p \in Finds(t, k)}

(* btree_iterate gives its callback p before q: at some node r, all that   *)
(* hangs to its left comes first, then r, then what hangs to its right.    *)
(* The callback asks for more each time, as those of the tests do.         *)
GivenBefore(t, p, q) ==
  \E r \in DOMAIN t :
    \/ IsPrefix(Append(r, "left"), p) /\ (q = r \/ IsPrefix(Append(r, "right"), q))
    \/ p = r /\ IsPrefix(Append(r, "right"), q)

---------------------------------------------------------------------------
TreeInit ==
  /\ tree = NoTree /\ added = <<>> /\ shuffled = FALSE /\ calls = <<>>
  /\ entered = FALSE /\ moves = 0

(* btree_add; the value tells which call it was. *)
TreeAdd(k) ==
  /\ calls = <<>>
  /\ Len(added) < MaxEntries
  /\ tree' = BtreeAdd(tree, k, Len(added) + 1)
  /\ added' = Append(added, <<k, Len(added) + 1>>)
  /\ UNCHANGED <<shuffled, calls, entered, moves>>

TwiceIn(entries) ==
  \E i, j \in DOMAIN entries : i # j /\ entries[i][1] = entries[j][1]

(* btree_balance is called. *)
TreeBalance ==
  /\ calls = <<>>
  /\ calls' = << <<>> >>
  /\ shuffled' = (shuffled \/ TwiceIn(added))
  /\ UNCHANGED <<tree, added, entered, moves>>

(* A call begins: it returns at once from NULL. *)
BalanceEnter ==
  /\ calls # <<>> /\ ~entered
  /\ IF Head(calls) \in DOMAIN tree
     THEN entered' = TRUE /\ moves' = Moves(At(tree, Head(calls))) /\ UNCHANGED calls
     ELSE calls' = Tail(calls) /\ UNCHANGED <<entered, moves>>
  /\ UNCHANGED <<tree, added, shuffled>>

(* One turn of its loop. *)
BalanceMove ==
  /\ entered /\ moves # 0
  /\ tree' = Hang(tree, Head(calls),
                  RootDown(At(tree, Head(calls)), IF moves > 0 THEN "right" ELSE "left"))
  /\ moves' = IF moves > 0 THEN moves - 1 ELSE moves + 1
  /\ UNCHANGED <<added, shuffled, calls, entered>>

(* It goes on with the subtrees. *)
BalanceDown ==
  /\ entered /\ moves = 0
  /\ calls' = <<Append(Head(calls), "left"), Append(Head(calls), "right")>> \o Tail(calls)
  /\ entered' = FALSE
  /\ UNCHANGED <<tree, added, shuffled, moves>>

(* btree_free *)
TreeFree ==
  /\ calls = <<>>
  /\ tree' = NoTree
  /\ added' = <<>>
  /\ shuffled' = FALSE
  /\ UNCHANGED <<calls, entered, moves>>

TreeNext ==
  \/ \E k \in Keys : TreeAdd(k)
  \/ TreeBalance \/ BalanceEnter \/ BalanceMove \/ BalanceDown
  \/ TreeFree

---------------------------------------------------------------------------
(* The calls that added key k. *)
CallsFor(k) == {i \in DOMAIN added : added[i][1] = k}

(* A lookup finds every key that was added, with the value it was added    *)
(* with first, however the tree was balanced on the way and in the midst   *)
(* of it, and no other key; a tree that was balanced with a key in it      *)
(* twice promises the value no longer, nor to find every key.              *)
KeysFound ==
  \A k \in Keys :
    /\ \A n \in BtreeGet(tree, k) : n.key = k /\ n.value \in CallsFor(k)
    /\ ~shuffled /\ CallsFor(k) # {} =>
         \E n \in BtreeGet(tree, k) : \A i \in CallsFor(k) : n.value <= i

(* Balancing moves nodes and loses none: an iteration gives each entry     *)
(* once, by key and equal keys as they came, and once still when the order *)
(* was given up by balancing a tree with a key in it twice.                *)
EntriesKept ==
  /\ {tree[p] : p \in DOMAIN tree} = {[key |-> added[i][1], value |-> added[i][2]] : i \in DOMAIN added}
  /\ \A p, q \in DOMAIN tree : p # q => tree[p] # tree[q]
  /\ ~shuffled => \A p, q \in DOMAIN tree :
       GivenBefore(tree, p, q) <=>
         \/ tree[p].key < tree[q].key
         \/ tree[p].key = tree[q].key /\ tree[p].value < tree[q].value

---------------------------------------------------------------------------
TreeSpec == TreeInit /\ [][TreeNext]_treeVars
=============================================================================
