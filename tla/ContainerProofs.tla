-------------------------- MODULE ContainerProofs --------------------------
(***************************************************************************)
(* Theorems about the three containers.  The list of dll.c has sound links *)
(* and implements a deque, for any set of addresses and values.  The trees *)
(* of btree.c and stree.c find and keep what is stored in them, in the     *)
(* midst of balancing too.                                                 *)
(***************************************************************************)
EXTENDS Dll, Btree, Stree, Walks, SequenceTheorems

(* What holds of a list between two calls, and within them. *)
DllInv == DllTypeOK /\ Linked

---------------------------------------------------------------------------
(* What both invariants say of an idle list that is not empty: its ends    *)
(* are the first and the last address of order.                            *)
LEMMA DllEnds ==
  ASSUME DllInv
  PROVE  /\ Len(order) \in Nat
         /\ \A i \in Places : order[i] \in Nodes /\ order[i] # NULL
         /\ first = NULL <=> Len(order) = 0
         /\ last = NULL <=> Len(order) = 0
         /\ Len(order) # 0 => 1 \in Places /\ Len(order) \in Places
                              /\ first = order[1] /\ last = order[Len(order)]
<1>1. order \in Seq(Nodes) /\ Len(order) \in Nat
  BY DEF DllInv, DllTypeOK
<1>2. \A i \in Places : order[i] \in Nodes /\ order[i] # NULL
  BY <1>1, DllAssumption DEF Places
<1>3. first = NodeAt(1) /\ last = NodeAt(Len(order))
  BY DEF DllInv, Linked
<1>4. CASE Len(order) = 0
  BY <1>1, <1>3, <1>4 DEF NodeAt, Places
<1>5. CASE Len(order) # 0
  BY <1>1, <1>2, <1>3, <1>5 DEF NodeAt, Places
<1>6. QED
  BY <1>2, <1>1, <1>4, <1>5

LEMMA DllInitInv == DllInit => DllInv
<1> SUFFICES ASSUME DllInit PROVE DllInv
  OBVIOUS
<1>1. order = <<>> /\ Len(order) = 0 /\ order \in Seq(Nodes) /\ Places = {} /\ DOMAIN node = {}
  BY DEF DllInit, Places
<1>2. DllTypeOK
  BY <1>1 DEF DllInit, DllTypeOK
<1>3. Linked
  BY <1>1 DEF DllInit, Linked, NodeAt, Kept
<1>4. QED
  BY <1>2, <1>3 DEF DllInv

LEMMA DllPushInv ==
  ASSUME DllInv, NEW v \in Values, DllPush(v)
  PROVE  DllInv'
<1>. DEFINE k == Len(order)
<1>1. PICK n \in Fresh :
        /\ node' = [m \in DOMAIN node \cup {n} |->
                      IF m = n THEN [next |-> NULL, prev |-> IF first = NULL THEN NULL ELSE last,
                                     value |-> v]
                      ELSE IF first # NULL /\ m = last THEN [node[m] EXCEPT !.next = n]
                      ELSE node[m]]
        /\ first' = IF first = NULL THEN n ELSE first
        /\ last' = n
        /\ order' = Append(order, n)
  BY DEF DllPush
<1>2. n \in Nodes /\ n \notin DOMAIN node /\ n # NULL
  BY DllAssumption DEF Fresh
<1>3. /\ order \in Seq(Nodes) /\ k \in Nat /\ order' \in Seq(Nodes) /\ Len(order') = k + 1
      /\ \A i \in 1 .. k : order'[i] = order[i]
      /\ order'[k + 1] = n
  BY <1>1, <1>2, AppendProperties DEF DllInv, DllTypeOK
<1>4. Places = 1 .. k /\ Places' = 1 .. k + 1 /\ Kept = Places /\ Kept' = Places'
  BY <1>3 DEF Places, Kept, DllPush, walk
<1>5. DOMAIN node = {order[i] : i \in 1 .. k}
  BY <1>4 DEF DllInv, Linked
<1>6. DllTypeOK'
  <2>1. \A m \in DOMAIN node' : node'[m] \in DllNode
    <3>1. \A m \in DOMAIN node : node[m] \in DllNode
      BY DEF DllInv, DllTypeOK
    <3>2. \A d \in DllNode : [d EXCEPT !.next = n] \in DllNode
      BY <1>2 DEF DllNode
    <3>3. [next |-> NULL, prev |-> IF first = NULL THEN NULL ELSE last, value |-> v] \in DllNode
      BY DEF DllInv, DllTypeOK, DllNode
    <3>4. QED
      BY <1>1, <3>1, <3>2, <3>3
  <2>2. DOMAIN node' \subseteq Nodes
    BY <1>1, <1>2 DEF DllInv, DllTypeOK
  <2>3. busy = "no" /\ index' = 0 /\ count' = k + 1 /\ UNCHANGED <<busy, forward, cursor>>
    BY DEF DllInv, Linked, DllPush, walk
  <2>4. first' \in Nodes /\ last' \in Nodes
    BY <1>1, <1>2 DEF DllInv, DllTypeOK
  <2>5. QED
    BY <1>3, <2>1, <2>2, <2>3, <2>4 DEF DllInv, DllTypeOK
<1>7. Linked'
  <2>1. \A i, j \in Places' : order'[i] = order'[j] => i = j
    <3>1. \A i \in 1 .. k : order[i] # n
      BY <1>2, <1>5
    <3>2. \A i, j \in 1 .. k : order[i] = order[j] => i = j
      BY <1>4 DEF DllInv, Linked
    <3>3. QED
      BY <1>3, <1>4, <3>1, <3>2
  <2>2. first' = NodeAt(1)' /\ last' = NodeAt(Len(order))'
    BY <1>1, <1>3, <1>4, DllEnds DEF NodeAt
  <2>3. DOMAIN node' = {order'[i] : i \in Kept'}
    <3>1. DOMAIN node' = DOMAIN node \cup {n}
      BY <1>1
    <3>2. QED
      BY <3>1, <1>3, <1>4, <1>5
  <2>4. ASSUME NEW i \in Kept'
        PROVE  node'[order'[i]].next = NodeAt(i + 1)' /\ node'[order'[i]].prev = NodeAt(i - 1)'
    <3>1. CASE i = k + 1
      BY <3>1, <1>1, <1>2, <1>3, <1>4, DllEnds DEF NodeAt
    <3>2. CASE i \in 1 .. k
      <4>1. order'[i] = order[i] /\ order[i] \in DOMAIN node /\ order[i] # n
        BY <3>2, <1>2, <1>3, <1>5
      <4>2. node[order[i]].next = NodeAt(i + 1) /\ node[order[i]].prev = NodeAt(i - 1)
        BY <3>2, <1>4 DEF DllInv, Linked
      <4>3. node[order[i]] \in DllNode
        BY <4>1 DEF DllInv, DllTypeOK
      <4>4. first # NULL /\ last = order[k]
        BY <3>2, <1>3, DllEnds
      <4>5. order[i] = last <=> i = k
        BY <3>2, <4>4, <1>4 DEF DllInv, Linked
      <4>6. node'[order[i]].prev = node[order[i]].prev
        BY <1>1, <4>1, <4>3 DEF DllNode
      <4>7. node'[order[i]].next = IF i = k THEN n ELSE node[order[i]].next
        BY <1>1, <4>1, <4>3, <4>4, <4>5 DEF DllNode
      <4>8. QED
        BY <3>2, <4>1, <4>2, <4>6, <4>7, <1>3, <1>4 DEF NodeAt
    <3>3. QED
      BY <3>1, <3>2, <1>4, <1>3
  <2>5. QED
    BY <2>1, <2>2, <2>3, <2>4, <1>3 DEF Linked, DllInv, DllPush, walk
<1>8. QED
  BY <1>6, <1>7 DEF DllInv

LEMMA DllUnshiftInv ==
  ASSUME DllInv, NEW v \in Values, DllUnshift(v)
  PROVE  DllInv'
<1>. DEFINE k == Len(order)
<1>1. PICK n \in Fresh :
        /\ node' = [m \in DOMAIN node \cup {n} |->
                      IF m = n THEN [next |-> first, prev |-> NULL, value |-> v]
                      ELSE IF m = first THEN [node[m] EXCEPT !.prev = n]
                      ELSE node[m]]
        /\ first' = n
        /\ last' = IF first = NULL THEN n ELSE last
        /\ order' = <<n>> \o order
  BY DEF DllUnshift
<1>2. n \in Nodes /\ n \notin DOMAIN node /\ n # NULL
  BY DllAssumption DEF Fresh
<1>3. /\ order \in Seq(Nodes) /\ k \in Nat /\ order' \in Seq(Nodes) /\ Len(order') = k + 1
      /\ order'[1] = n
      /\ \A i \in 2 .. k + 1 : order'[i] = order[i - 1]
  <2>1. order \in Seq(Nodes) /\ <<n>> \in Seq(Nodes) /\ Len(<<n>>) = 1 /\ k \in Nat
    BY <1>2 DEF DllInv, DllTypeOK
  <2>2. /\ order' \in Seq(Nodes) /\ Len(order') = 1 + k
        /\ \A i \in 1 .. 1 + k : order'[i] = IF i <= 1 THEN <<n>>[i] ELSE order[i - 1]
    BY <1>1, <2>1, ConcatProperties
  <2>3. QED
    BY <2>1, <2>2
<1>4. Places = 1 .. k /\ Places' = 1 .. k + 1 /\ Kept = Places /\ Kept' = Places'
  BY <1>3 DEF Places, Kept, DllUnshift, walk
<1>5. DOMAIN node = {order[i] : i \in 1 .. k}
  BY <1>4 DEF DllInv, Linked
<1>6. DllTypeOK'
  <2>1. \A m \in DOMAIN node' : node'[m] \in DllNode
    BY <1>1, <1>2 DEF DllInv, DllTypeOK, DllNode
  <2>2. DOMAIN node' \subseteq Nodes
    BY <1>1, <1>2 DEF DllInv, DllTypeOK
  <2>3. busy = "no" /\ index' = 0 /\ count' = k + 1 /\ UNCHANGED <<busy, forward, cursor>>
    BY DEF DllInv, Linked, DllUnshift, walk
  <2>4. first' \in Nodes /\ last' \in Nodes \cup {NULL}
    BY <1>1, <1>2 DEF DllInv, DllTypeOK
  <2>5. QED
    BY <1>3, <2>1, <2>2, <2>3, <2>4 DEF DllInv, DllTypeOK
<1>7. Linked'
  <2>1. \A i, j \in Places' : order'[i] = order'[j] => i = j
    <3>1. \A i \in 1 .. k : order[i] # n
      BY <1>2, <1>5
    <3>2. \A i, j \in 1 .. k : order[i] = order[j] => i = j
      BY <1>4 DEF DllInv, Linked
    <3>3. SUFFICES ASSUME NEW i \in 1 .. k + 1, NEW j \in 1 .. k + 1, order'[i] = order'[j]
                   PROVE  i = j
      BY <1>4
    <3>4. \A h \in 1 .. k + 1 : h = 1 \/ (h - 1 \in 1 .. k /\ order'[h] = order[h - 1])
      BY <1>3
    <3>5. CASE i = 1
      BY <3>1, <3>3, <3>4, <3>5, <1>3
    <3>6. CASE j = 1
      BY <3>1, <3>3, <3>4, <3>6, <1>3
    <3>7. CASE i # 1 /\ j # 1
      <4>. HIDE DEF k
      <4>1. i - 1 \in 1 .. k /\ j - 1 \in 1 .. k /\ order[i - 1] = order[j - 1]
        BY <3>3, <3>4, <3>7
      <4>2. i - 1 = j - 1
        BY <3>2, <4>1
      <4>3. QED
        BY <4>2, <1>3
    <3>8. QED
      BY <3>5, <3>6, <3>7
  <2>2. first' = NodeAt(1)' /\ last' = NodeAt(Len(order))'
    BY <1>1, <1>3, <1>4, DllEnds DEF NodeAt
  <2>3. DOMAIN node' = {order'[i] : i \in Kept'}
    <3>1. DOMAIN node' = DOMAIN node \cup {n}
      BY <1>1
    <3>2. {order'[i] : i \in 1 .. k + 1} = {order[i] : i \in 1 .. k} \cup {n}
      <4>1. \A i \in 1 .. k : order[i] = order'[i + 1] /\ i + 1 \in 1 .. k + 1
        BY <1>3
      <4>2. \A i \in 1 .. k + 1 : i # 1 => i - 1 \in 1 .. k
        BY <1>3
      <4>3. \A i \in 1 .. k + 1 : i # 1 => order'[i] = order[i - 1]
        BY <1>3
      <4>4. 1 \in 1 .. k + 1
        BY <1>3
      <4>5. \A x \in {order'[i] : i \in 1 .. k + 1} : x \in {order[i] : i \in 1 .. k} \cup {n}
        <5>1. order'[1] = n
          BY <1>3
        <5>2. QED
          BY <4>2, <4>3, <5>1
      <4>6. \A x \in {order[i] : i \in 1 .. k} \cup {n} : x \in {order'[i] : i \in 1 .. k + 1}
        <5>1. order'[1] = n
          BY <1>3
        <5>2. QED
          BY <4>1, <4>4, <5>1
      <4>7. QED
        BY <4>5, <4>6
    <3>3. QED
      BY <3>1, <3>2, <1>4, <1>5
  <2>4. ASSUME NEW i \in Kept'
        PROVE  node'[order'[i]].next = NodeAt(i + 1)' /\ node'[order'[i]].prev = NodeAt(i - 1)'
    <3>1. CASE i = 1
      BY <3>1, <1>1, <1>2, <1>3, <1>4, DllEnds DEF NodeAt
    <3>2. CASE i \in 2 .. k + 1
      <4>. DEFINE j == i - 1
      <4>1. j \in 1 .. k /\ order'[i] = order[j] /\ order[j] \in DOMAIN node /\ order[j] # n
        BY <3>2, <1>2, <1>3, <1>5
      <4>2. node[order[j]].next = NodeAt(j + 1) /\ node[order[j]].prev = NodeAt(j - 1)
        BY <4>1, <1>4 DEF DllInv, Linked
      <4>3. node[order[j]] \in DllNode
        BY <4>1 DEF DllInv, DllTypeOK
      <4>4. first = order[1] /\ 1 \in 1 .. k
        BY <4>1, <1>3, DllEnds
      <4>5. order[j] = first <=> j = 1
        BY <4>1, <4>4, <1>4 DEF DllInv, Linked
      <4>6. node'[order[j]].next = node[order[j]].next
        BY <1>1, <4>1, <4>3 DEF DllNode
      <4>7. node'[order[j]].prev = IF j = 1 THEN n ELSE node[order[j]].prev
        BY <1>1, <4>1, <4>3, <4>4, <4>5 DEF DllNode
      <4>8. NodeAt(i + 1)' = NodeAt(j + 1)
        <5>1. CASE i = k + 1
          <6>1. i + 1 \notin Places' /\ j + 1 \notin Places
            BY <5>1, <1>3, <1>4
          <6>2. QED
            BY <6>1 DEF NodeAt
        <5>2. CASE i # k + 1
          <6>1. /\ i + 1 \in Places' /\ j + 1 \in Places /\ i + 1 \in 2 .. k + 1
                /\ (i + 1) - 1 = j + 1
            BY <5>2, <3>2, <1>3, <1>4
          <6>2. order'[i + 1] = order[(i + 1) - 1]
            BY <6>1, <1>3
          <6>3. QED
            BY <6>1, <6>2 DEF NodeAt
        <5>3. QED
          BY <5>1, <5>2
      <4>9. NodeAt(i - 1)' = IF j = 1 THEN n ELSE NodeAt(j - 1)
        <5>1. CASE j = 1
          <6>1. i - 1 = 1 /\ 1 \in Places'
            BY <5>1, <1>3, <1>4
          <6>2. QED
            BY <5>1, <6>1, <1>3 DEF NodeAt
        <5>2. CASE j # 1
          <6>1. /\ i - 1 \in Places' /\ j - 1 \in Places /\ i - 1 \in 2 .. k + 1
                /\ (i - 1) - 1 = j - 1
            BY <5>2, <3>2, <1>3, <1>4
          <6>2. order'[i - 1] = order[(i - 1) - 1]
            BY <6>1, <1>3
          <6>3. QED
            BY <5>2, <6>1, <6>2 DEF NodeAt
        <5>3. QED
          BY <5>1, <5>2
      <4>10. QED
        BY <4>1, <4>2, <4>6, <4>7, <4>8, <4>9
    <3>3. QED
      BY <3>1, <3>2, <1>4, <1>3
  <2>5. QED
    BY <2>1, <2>2, <2>3, <2>4, <1>3 DEF Linked, DllInv, DllUnshift, walk
<1>8. QED
  BY <1>6, <1>7 DEF DllInv

LEMMA DllPopInv ==
  ASSUME DllInv, DllPop
  PROVE  DllInv'
<1>. DEFINE k == Len(order)
<1>1. /\ busy = "no" /\ first # NULL
      /\ last' = node[last].prev
      /\ node' = [m \in DOMAIN node \ {last} |->
                    IF m = node[last].prev THEN [node[m] EXCEPT !.next = NULL] ELSE node[m]]
      /\ first' = IF first = last THEN NULL ELSE first
      /\ order' = SubSeq(order, 1, k - 1)
  BY DEF DllPop
<1>2. /\ order \in Seq(Nodes) /\ k \in Nat /\ k >= 1 /\ Places = 1 .. k /\ Kept = Places
      /\ first = order[1] /\ last = order[k] /\ last \in DOMAIN node
  BY <1>1, DllEnds DEF DllInv, DllTypeOK, Linked, Places, Kept
<1>3. /\ order' \in Seq(Nodes) /\ Len(order') = k - 1
      /\ \A i \in 1 .. k - 1 : order'[i] = order[i]
      /\ Places' = 1 .. k - 1 /\ Kept' = Places'
  <2>1. \A i \in 1 .. k - 1 : order[i] \in Nodes
    BY <1>2
  <2>2. /\ order' \in Seq(Nodes) /\ Len(order') = IF 1 <= k - 1 THEN (k - 1) - 1 + 1 ELSE 0
        /\ \A i \in 1 .. (k - 1) - 1 + 1 : order'[i] = order[1 + i - 1]
    BY <1>1, <1>2, <2>1, SubSeqProperties
  <2>3. Len(order') = k - 1
    <3>1. k \in Nat /\ k >= 1
      BY <1>2
    <3>2. Len(order') = IF 1 <= k - 1 THEN (k - 1) - 1 + 1 ELSE 0
      BY <2>2
    <3>. HIDE DEF k
    <3>3. QED
      BY <3>1, <3>2
  <2>4. ASSUME NEW i \in 1 .. k - 1 PROVE order'[i] = order[i]
    <3>1. i \in 1 .. (k - 1) - 1 + 1 /\ 1 + i - 1 = i
      BY <1>2
    <3>2. QED
      BY <3>1, <2>2
  <2>5. busy' = "no"
    BY <1>1 DEF DllPop, walk
  <2>6. QED
    BY <2>2, <2>3, <2>4, <2>5 DEF Places, Kept
<1>4. \A i, j \in 1 .. k : order[i] = order[j] => i = j
  BY <1>2 DEF DllInv, Linked
<1>5. /\ node[last].prev = IF k = 1 THEN NULL ELSE order[k - 1]
      /\ DOMAIN node = {order[i] : i \in 1 .. k}
  <2>1. k \in Kept /\ (k - 1 \in Places <=> k # 1)
    <3>1. k \in Nat /\ k >= 1
      BY <1>2
    <3>2. k \in 1 .. k /\ (k - 1 \in 1 .. k <=> k # 1)
      <4>. HIDE DEF k
      <4>1. QED
        BY <3>1
    <3>3. QED
      BY <1>2, <3>2
  <2>2. node[order[k]].prev = NodeAt(k - 1)
    BY <2>1 DEF DllInv, Linked
  <2>3. DOMAIN node = {order[i] : i \in Kept}
    BY DEF DllInv, Linked
  <2>4. QED
    BY <1>2, <2>1, <2>2, <2>3 DEF NodeAt
<1>6. DOMAIN node' = {order[i] : i \in 1 .. k - 1}
  <2>1. DOMAIN node' = DOMAIN node \ {order[k]}
    BY <1>1, <1>2
  <2>2. QED
    BY <2>1, <1>2, <1>4, <1>5
<1>7. DllTypeOK'
  <2>1. \A m \in DOMAIN node' : node'[m] \in DllNode
    <3>1. \A m \in DOMAIN node : node[m] \in DllNode
      BY DEF DllInv, DllTypeOK
    <3>2. \A d \in DllNode : [d EXCEPT !.next = NULL] \in DllNode
      BY DEF DllNode
    <3>3. QED
      BY <1>1, <3>1, <3>2
  <2>2. DOMAIN node' \subseteq Nodes
    BY <1>1 DEF DllInv, DllTypeOK
  <2>3. index' = 0 /\ count' = k - 1 /\ UNCHANGED <<busy, forward, cursor>>
    BY <1>1 DEF DllInv, Linked, DllPop, walk
  <2>4. first' \in Nodes \cup {NULL} /\ last' \in Nodes \cup {NULL}
    BY <1>1, <1>2 DEF DllInv, DllTypeOK, DllNode
  <2>5. QED
    BY <1>2, <1>3, <2>1, <2>2, <2>3, <2>4 DEF DllInv, DllTypeOK
<1>8. Linked'
  <2>1. \A i, j \in Places' : order'[i] = order'[j] => i = j
    BY <1>2, <1>3, <1>4
  <2>2. first' = NodeAt(1)' /\ last' = NodeAt(Len(order))'
    <3>1. first = last <=> k = 1
      <4>1. 1 \in 1 .. k /\ k \in 1 .. k
        BY <1>2
      <4>2. QED
        BY <4>1, <1>2, <1>4
    <3>2. QED
      BY <3>1, <1>1, <1>2, <1>3, <1>5 DEF NodeAt
  <2>3. DOMAIN node' = {order'[i] : i \in Kept'}
    BY <1>3, <1>6
  <2>4. ASSUME NEW i \in Kept'
        PROVE  node'[order'[i]].next = NodeAt(i + 1)' /\ node'[order'[i]].prev = NodeAt(i - 1)'
    <3>1. /\ i \in 1 .. k - 1 /\ order'[i] = order[i] /\ order[i] \in DOMAIN node'
          /\ order[i] \in DOMAIN node
      BY <1>2, <1>3, <1>5, <1>6
    <3>2. node[order[i]].next = NodeAt(i + 1) /\ node[order[i]].prev = NodeAt(i - 1)
      <4>1. i \in Kept
        BY <3>1, <1>2
      <4>2. QED
        BY <4>1 DEF DllInv, Linked
    <3>3. node[order[i]] \in DllNode
      BY <3>1 DEF DllInv, DllTypeOK
    <3>4. order[i] = node[last].prev <=> i = k - 1
      BY <3>1, <1>2, <1>4, <1>5, DllEnds
    <3>5. node'[order[i]].prev = node[order[i]].prev
      BY <1>1, <3>1, <3>3 DEF DllNode
    <3>6. node'[order[i]].next = IF i = k - 1 THEN NULL ELSE node[order[i]].next
      BY <1>1, <3>1, <3>3, <3>4 DEF DllNode
    <3>7. QED
      BY <3>1, <3>2, <3>5, <3>6, <1>2, <1>3 DEF NodeAt
  <2>5. QED
    BY <2>1, <2>2, <2>3, <2>4, <1>3, <1>2 DEF Linked, DllInv, DllPop, walk
<1>9. QED
  BY <1>7, <1>8 DEF DllInv

LEMMA DllShiftInv ==
  ASSUME DllInv, DllShift
  PROVE  DllInv'
<1>. DEFINE k == Len(order)
<1>1. /\ busy = "no" /\ first # NULL
      /\ first' = node[first].next
      /\ node' = [m \in DOMAIN node \ {first} |->
                    IF m = node[first].next THEN [node[m] EXCEPT !.prev = NULL] ELSE node[m]]
      /\ last' = IF last = first THEN NULL ELSE last
      /\ order' = Tail(order)
  BY DEF DllShift
<1>2. /\ order \in Seq(Nodes) /\ k \in Nat /\ k >= 1 /\ Places = 1 .. k /\ Kept = Places
      /\ first = order[1] /\ last = order[k] /\ first \in DOMAIN node
  <2>1. order \in Seq(Nodes) /\ k \in Nat /\ k # 0 /\ Places = 1 .. k /\ Kept = Places
    BY <1>1, DllEnds DEF DllInv, DllTypeOK, Places, Kept
  <2>2. first = order[1] /\ last = order[k] /\ 1 \in Kept
    BY <2>1, DllEnds
  <2>3. first \in DOMAIN node
    BY <2>2 DEF DllInv, Linked
  <2>4. QED
    BY <2>1, <2>2, <2>3
<1>3. /\ order' \in Seq(Nodes) /\ Len(order') = k - 1
      /\ \A i \in 1 .. k - 1 : order'[i] = order[i + 1]
      /\ Places' = 1 .. k - 1 /\ Kept' = Places'
  <2>1. order # <<>>
    BY <1>2
  <2>2. /\ order' \in Seq(Nodes) /\ Len(order') = k - 1
        /\ \A i \in 1 .. Len(order') : order'[i] = order[i + 1]
    BY <1>1, <1>2, <2>1, HeadTailProperties
  <2>3. busy' = "no"
    BY <1>1 DEF DllShift, walk
  <2>4. QED
    BY <2>2, <2>3 DEF Places, Kept
<1>4. \A i, j \in 1 .. k : order[i] = order[j] => i = j
  BY <1>2 DEF DllInv, Linked
<1>5. /\ node[first].next = IF k = 1 THEN NULL ELSE order[2]
      /\ DOMAIN node = {order[i] : i \in 1 .. k}
  <2>1. k \in Nat /\ k >= 1
    BY <1>2
  <2>2. 1 \in 1 .. k /\ (2 \in 1 .. k <=> k # 1)
    <3>. HIDE DEF k
    <3>1. QED
      BY <2>1
  <2>3. node[order[1]].next = NodeAt(1 + 1)
    <3>1. 1 \in Kept
      BY <1>2, <2>2
    <3>2. QED
      BY <3>1 DEF DllInv, Linked
  <2>4. DOMAIN node = {order[i] : i \in Kept}
    BY DEF DllInv, Linked
  <2>5. QED
    BY <1>2, <2>2, <2>3, <2>4 DEF NodeAt
<1>6. \A i \in 1 .. k : i = 1 \/ (i - 1 \in 1 .. k - 1 /\ order'[i - 1] = order[i])
  <2>1. k \in Nat
    BY <1>2
  <2>2. \A i \in 1 .. k : i = 1 \/ (i - 1 \in 1 .. k - 1 /\ (i - 1) + 1 = i)
    <3>. HIDE DEF k
    <3>1. QED
      BY <2>1
  <2>3. QED
    BY <2>2, <1>3
<1>7. \A i \in 1 .. k - 1 : i + 1 \in 1 .. k /\ i + 1 # 1
  <2>1. k \in Nat
    BY <1>2
  <2>. HIDE DEF k
  <2>2. QED
    BY <2>1
<1>8. DOMAIN node' = {order'[i] : i \in 1 .. k - 1}
  <2>1. DOMAIN node' = {order[i] : i \in 1 .. k} \ {order[1]}
    BY <1>1, <1>2, <1>5
  <2>2. ASSUME NEW n \in DOMAIN node' PROVE n \in {order'[i] : i \in 1 .. k - 1}
    <3>1. PICK i \in 1 .. k : n = order[i]
      BY <2>1, <2>2
    <3>2. i # 1
      BY <2>1, <2>2, <3>1
    <3>3. QED
      BY <3>1, <3>2, <1>6
  <2>3. ASSUME NEW i \in 1 .. k - 1 PROVE order'[i] \in DOMAIN node'
    <3>1. 1 \in 1 .. k /\ i + 1 \in 1 .. k /\ i + 1 # 1 /\ order'[i] = order[i + 1]
      BY <1>2, <1>3, <1>7
    <3>2. order[i + 1] # order[1]
      BY <3>1, <1>4
    <3>3. QED
      BY <2>1, <3>1, <3>2
  <2>4. QED
    BY <2>2, <2>3
<1>9. DllTypeOK'
  <2>1. \A m \in DOMAIN node' : node'[m] \in DllNode
    <3>1. \A m \in DOMAIN node : node[m] \in DllNode
      BY DEF DllInv, DllTypeOK
    <3>2. \A d \in DllNode : [d EXCEPT !.prev = NULL] \in DllNode
      BY DEF DllNode
    <3>3. QED
      BY <1>1, <3>1, <3>2
  <2>2. DOMAIN node' \subseteq Nodes
    BY <1>1 DEF DllInv, DllTypeOK
  <2>3. index' = 0 /\ count' = k - 1 /\ UNCHANGED <<busy, forward, cursor>>
    BY <1>1 DEF DllInv, Linked, DllShift, walk
  <2>4. first' \in Nodes \cup {NULL} /\ last' \in Nodes \cup {NULL}
    BY <1>1, <1>2 DEF DllInv, DllTypeOK, DllNode
  <2>5. QED
    BY <1>2, <1>3, <2>1, <2>2, <2>3, <2>4 DEF DllInv, DllTypeOK
<1>10. Linked'
  <2>1. \A i, j \in Places' : order'[i] = order'[j] => i = j
    <3>1. SUFFICES ASSUME NEW i \in 1 .. k - 1, NEW j \in 1 .. k - 1, order'[i] = order'[j]
                   PROVE  i = j
      BY <1>3
    <3>2. order[i + 1] = order[j + 1] /\ i + 1 \in 1 .. k /\ j + 1 \in 1 .. k
      BY <3>1, <1>3, <1>7
    <3>3. i + 1 = j + 1
      BY <3>2, <1>4
    <3>4. QED
      BY <3>3
  <2>2. first' = NodeAt(1)' /\ last' = NodeAt(Len(order))'
    <3>1. 1 \in 1 .. k /\ k \in 1 .. k
      BY <1>2
    <3>2. first = last <=> k = 1
      BY <3>1, <1>2, <1>4
    <3>3. CASE k = 1
      <4>1. Places' = {}
        BY <3>3, <1>3
      <4>2. QED
        BY <4>1, <3>2, <3>3, <1>1, <1>5 DEF NodeAt
    <3>4. CASE k # 1
      <4>1. 1 \in Places' /\ k - 1 \in Places' /\ 1 + 1 = 2 /\ (k - 1) + 1 = k
        BY <3>4, <1>2, <1>3
      <4>2. order'[1] = order[2] /\ order'[k - 1] = order[k]
        BY <4>1, <1>3
      <4>3. QED
        BY <4>1, <4>2, <3>2, <3>4, <1>1, <1>2, <1>3, <1>5 DEF NodeAt
    <3>5. QED
      BY <3>3, <3>4
  <2>3. DOMAIN node' = {order'[i] : i \in Kept'}
    BY <1>3, <1>8
  <2>4. ASSUME NEW i \in Kept'
        PROVE  node'[order'[i]].next = NodeAt(i + 1)' /\ node'[order'[i]].prev = NodeAt(i - 1)'
    <3>. DEFINE j == i + 1
    <3>1. /\ i \in 1 .. k - 1 /\ j \in 1 .. k /\ j # 1 /\ order'[i] = order[j]
          /\ order[j] \in DOMAIN node' /\ order[j] \in DOMAIN node
      BY <1>3, <1>5, <1>7, <1>8
    <3>2. node[order[j]].next = NodeAt(j + 1) /\ node[order[j]].prev = NodeAt(j - 1)
      <4>1. j \in Kept
        BY <3>1, <1>2
      <4>2. QED
        BY <4>1 DEF DllInv, Linked
    <3>3. node[order[j]] \in DllNode
      BY <3>1 DEF DllInv, DllTypeOK
    <3>4. order[j] = node[first].next <=> i = 1
      <4>1. k # 1 /\ node[first].next = order[2] /\ 2 \in 1 .. k
        BY <3>1, <1>2, <1>5
      <4>2. order[j] = order[2] <=> j = 2
        BY <3>1, <4>1, <1>4
      <4>3. QED
        BY <3>1, <4>1, <4>2
    <3>5. node'[order[j]].next = node[order[j]].next
      BY <1>1, <3>1, <3>3 DEF DllNode
    <3>6. node'[order[j]].prev = IF i = 1 THEN NULL ELSE node[order[j]].prev
      BY <1>1, <3>1, <3>3, <3>4 DEF DllNode
    <3>7. NodeAt(i + 1)' = NodeAt(j + 1)
      <4>1. i + 1 \in 1 .. k - 1 <=> j + 1 \in 1 .. k
        BY <3>1, <1>2
      <4>2. i + 1 \in 1 .. k - 1 => order'[i + 1] = order[j + 1]
        BY <1>3
      <4>3. QED
        BY <4>1, <4>2, <1>2, <1>3 DEF NodeAt
    <3>8. NodeAt(i - 1)' = IF i = 1 THEN NULL ELSE NodeAt(j - 1)
      <4>1. CASE i = 1
        BY <4>1, <1>3 DEF NodeAt
      <4>2. CASE i # 1
        <5>1. i - 1 \in 1 .. k - 1 /\ j - 1 \in 1 .. k /\ (i - 1) + 1 = j - 1
          BY <4>2, <3>1, <1>2
        <5>2. order'[i - 1] = order[j - 1]
          BY <5>1, <1>3
        <5>3. QED
          BY <4>2, <5>1, <5>2, <1>2, <1>3 DEF NodeAt
      <4>3. QED
        BY <4>1, <4>2
    <3>9. QED
      BY <3>1, <3>2, <3>5, <3>6, <3>7, <3>8
  <2>5. QED
    BY <2>1, <2>2, <2>3, <2>4, <1>3, <1>2 DEF Linked, DllInv, DllShift, walk
<1>11. QED
  BY <1>9, <1>10 DEF DllInv

---------------------------------------------------------------------------
(* The steps that leave the links alone. *)
LEMMA DllWalkInv ==
  ASSUME DllInv, NEW d \in BOOLEAN,
         DllTakeNothing \/ DllIterate(d) \/ DllVisit(d) \/ DllIterateEnd \/ DllFree
  PROVE  DllInv'
<1>. DEFINE k == Len(order)
<1>1. /\ UNCHANGED <<first, last, count, node, order>> /\ Places' = Places
      /\ busy \in {"no", "iterate"} /\ busy' \in {"no", "iterate", "free"}
      /\ \A i \in Int : NodeAt(i)' = NodeAt(i)
      /\ Kept = Places
  BY DEF DllTakeNothing, DllIterate, DllVisit, DllIterateEnd, DllFree, list, ghost, walk,
         Places, NodeAt, Kept
<1>2. k \in Nat /\ index \in 0 .. k + 1 /\ Places = 1 .. k
  BY DEF DllInv, DllTypeOK, Places
<1>3. first = NodeAt(1)
  BY DEF DllInv, Linked
<1>4. busy' = "free" => index' = 1
  BY DEF DllTakeNothing, DllIterate, DllVisit, DllIterateEnd, DllFree, walk
<1>5. Kept' = Kept
  <2>1. CASE busy' = "free"
    <3>1. index' = 1 /\ \A i \in Places : i >= 1
      BY <2>1, <1>2, <1>4
    <3>2. Kept' = {i \in Places : i >= 1}
      BY <2>1, <3>1, <1>1 DEF Kept
    <3>3. QED
      BY <3>1, <3>2, <1>1
  <2>2. CASE busy' # "free"
    BY <2>2, <1>1 DEF Kept
  <2>3. QED
    BY <2>1, <2>2
<1>6. /\ index' \in 0 .. k + 1
      /\ busy' \in {"iterate", "free"} => cursor' = NodeAt(index')
      /\ busy' = "no" => cursor' = NULL /\ index' = 0
  <2>1. CASE DllTakeNothing
    BY <2>1, <1>2 DEF DllTakeNothing, walk, ghost, DllInv, Linked
  <2>2. CASE DllIterate(d) \/ DllFree
    BY <2>2, <1>2, <1>3 DEF DllIterate, DllFree
  <2>3. CASE DllIterateEnd
    BY <2>3, <1>2 DEF DllIterateEnd
  <2>4. CASE DllVisit(d)
    <3>1. cursor = NodeAt(index) /\ cursor # NULL
      BY <2>4 DEF DllVisit, DllInv, Linked
    <3>2. index \in Places /\ cursor = order[index]
      BY <3>1 DEF NodeAt
    <3>3. node[cursor].next = NodeAt(index + 1) /\ node[cursor].prev = NodeAt(index - 1)
      BY <3>2, <1>1 DEF DllInv, Linked
    <3>4. index + 1 \in 0 .. k + 1 /\ index - 1 \in 0 .. k + 1
      BY <3>2, <1>2
    <3>5. QED
      BY <2>4, <3>3, <3>4, <1>2 DEF DllVisit
  <2>5. QED
    BY <2>1, <2>2, <2>3, <2>4
<1>7. forward' \in BOOLEAN
  BY DEF DllTakeNothing, DllIterate, DllVisit, DllIterateEnd, DllFree, walk, DllInv, DllTypeOK
<1>8. cursor' \in Nodes \cup {NULL}
  <2>1. \A i \in Int : NodeAt(i) \in Nodes \cup {NULL}
    BY DEF NodeAt, Places, DllInv, DllTypeOK
  <2>2. QED
    BY <2>1, <1>1, <1>2, <1>6
<1>9. DllTypeOK'
  BY <1>1, <1>2, <1>6, <1>7, <1>8 DEF DllInv, DllTypeOK
<1>10. Linked'
  <2>1. \A i, j \in Places' : order'[i] = order'[j] => i = j
    BY <1>1 DEF DllInv, Linked
  <2>2. first' = NodeAt(1)' /\ last' = NodeAt(Len(order))'
    BY <1>1 DEF DllInv, Linked, NodeAt
  <2>3. DOMAIN node' = {order'[i] : i \in Kept'}
    BY <1>1, <1>5 DEF DllInv, Linked
  <2>4. \A i \in Kept' : /\ node'[order'[i]].next = NodeAt(i + 1)'
                         /\ node'[order'[i]].prev = NodeAt(i - 1)'
    BY <1>1, <1>2, <1>5 DEF DllInv, Linked, NodeAt
  <2>5. count' = Len(order')
    BY <1>1 DEF DllInv, Linked
  <2>6. cursor' = NodeAt(index)' \/ busy' = "no"
    BY <1>1, <1>6 DEF NodeAt
  <2>7. QED
    BY <2>1, <2>2, <2>3, <2>4, <2>5, <2>6, <1>1, <1>4, <1>6 DEF Linked
<1>11. QED
  BY <1>9, <1>10 DEF DllInv

LEMMA DllFreeNodeInv ==
  ASSUME DllInv, DllFreeNode
  PROVE  DllInv'
<1>. DEFINE k == Len(order)
<1>1. /\ busy = "free" /\ cursor # NULL /\ cursor' = node[cursor].next
      /\ node' = [m \in DOMAIN node \ {cursor} |-> node[m]] /\ index' = index + 1
      /\ UNCHANGED <<first, last, count, busy, forward, order>>
      /\ Places' = Places /\ \A i \in Int : NodeAt(i)' = NodeAt(i)
  BY DEF DllFreeNode, Without, Places, NodeAt
<1>2. /\ k \in Nat /\ index \in 0 .. k + 1 /\ Places = 1 .. k
      /\ cursor = NodeAt(index) /\ index # 0
  BY <1>1 DEF DllInv, DllTypeOK, Linked, Places
<1>3. index \in Places /\ cursor = order[index]
  BY <1>1, <1>2 DEF NodeAt
<1>4. /\ index \in Kept /\ index + 1 \in 0 .. k + 1
      /\ Kept = {i \in Places : i >= index} /\ Kept' = {i \in Places : i >= index + 1}
      /\ Kept' = Kept \ {index}
  <2>1. \A i \in Places : i >= index + 1 <=> i >= index /\ i # index
    BY <1>2, <1>3
  <2>2. QED
    BY <1>1, <1>2, <1>3, <2>1 DEF Kept
<1>5. \A i, j \in Places : order[i] = order[j] => i = j
  BY DEF DllInv, Linked
<1>6. DOMAIN node = {order[i] : i \in Kept}
  BY DEF DllInv, Linked
<1>7. DOMAIN node' = {order[i] : i \in Kept'}
  <2>1. DOMAIN node' = DOMAIN node \ {order[index]}
    BY <1>1, <1>3
  <2>2. \A i \in Kept : i \in Places
    BY <1>4
  <2>3. QED
    BY <2>1, <2>2, <1>3, <1>4, <1>5, <1>6
<1>8. cursor' = NodeAt(index + 1)
  BY <1>1, <1>3, <1>4 DEF DllInv, Linked
<1>9. DllTypeOK'
  <2>1. cursor' \in Nodes \cup {NULL}
    BY <1>8, <1>2 DEF NodeAt, Places, DllInv, DllTypeOK
  <2>2. \A m \in DOMAIN node' : node'[m] \in DllNode
    BY <1>1 DEF DllInv, DllTypeOK
  <2>3. DOMAIN node' \subseteq Nodes
    BY <1>1 DEF DllInv, DllTypeOK
  <2>4. QED
    BY <1>1, <1>4, <2>1, <2>2, <2>3 DEF DllInv, DllTypeOK
<1>10. Linked'
  <2>1. \A i \in Kept' : /\ node'[order'[i]].next = NodeAt(i + 1)'
                         /\ node'[order'[i]].prev = NodeAt(i - 1)'
    <3>1. SUFFICES ASSUME NEW i \in Kept'
                   PROVE  /\ node'[order'[i]].next = NodeAt(i + 1)'
                          /\ node'[order'[i]].prev = NodeAt(i - 1)'
      OBVIOUS
    <3>2. i \in Kept /\ order[i] \in DOMAIN node' /\ i + 1 \in Int /\ i - 1 \in Int
      BY <1>2, <1>4, <1>7
    <3>3. node'[order'[i]] = node[order[i]]
      BY <1>1, <3>2
    <3>4. QED
      BY <3>2, <3>3, <1>1 DEF DllInv, Linked
  <2>2. first' = NodeAt(1)' /\ last' = NodeAt(Len(order))'
    BY <1>1, <1>2 DEF DllInv, Linked, NodeAt
  <2>3. cursor' = NodeAt(index)'
    BY <1>1, <1>8 DEF NodeAt
  <2>4. index' # 0
    BY <1>1, <1>2
  <2>5. \A i, j \in Places' : order'[i] = order'[j] => i = j
    BY <1>1, <1>5
  <2>6. busy' = "free" /\ count' = Len(order')
    BY <1>1 DEF DllInv, Linked
  <2>7. DOMAIN node' = {order'[i] : i \in Kept'}
    BY <1>1, <1>7
  <2>8. QED
    BY <2>1, <2>2, <2>3, <2>4, <2>5, <2>6, <2>7 DEF Linked
<1>11. QED
  BY <1>9, <1>10 DEF DllInv

LEMMA DllFreeEndInv ==
  ASSUME DllInv, DllFreeEnd
  PROVE  DllInv'
<1>1. /\ busy = "free" /\ cursor = NULL /\ cursor' = NULL /\ busy' = "freed" /\ node' = node
      /\ first' = NULL /\ last' = NULL /\ order' = <<>> /\ index' = 0
      /\ UNCHANGED <<count, forward>>
  BY DEF DllFreeEnd
<1>2. Len(order) \in Nat /\ index \in 0 .. Len(order) + 1 /\ index # 0 /\ NodeAt(index) = NULL
  BY <1>1 DEF DllInv, DllTypeOK, Linked
<1>3. \A i \in Places : order[i] # NULL
  BY DllEnds
<1>4. index \notin Places
  BY <1>2, <1>3 DEF NodeAt
<1>5. DOMAIN node = {}
  <2>1. Kept = {}
    BY <1>1, <1>2, <1>4 DEF Kept, Places
  <2>2. QED
    BY <2>1 DEF DllInv, Linked
<1>6. Places' = {} /\ Kept' = {} /\ Len(order') = 0 /\ order' \in Seq(Nodes)
  BY <1>1 DEF Places, Kept
<1>7. DllTypeOK'
  BY <1>1, <1>5, <1>6 DEF DllTypeOK, DllInv
<1>8. Linked'
  BY <1>1, <1>5, <1>6 DEF Linked, NodeAt
<1>9. QED
  BY <1>7, <1>8 DEF DllInv

LEMMA DllNextInv == DllInv /\ [DllNext]_dllVars => DllInv'
<1> SUFFICES ASSUME DllInv, [DllNext]_dllVars PROVE DllInv'
  OBVIOUS
<1>1. CASE \E v \in Values : DllPush(v)
  BY <1>1, DllPushInv
<1>2. CASE \E v \in Values : DllUnshift(v)
  BY <1>2, DllUnshiftInv
<1>3. CASE DllPop
  BY <1>3, DllPopInv
<1>4. CASE DllShift
  BY <1>4, DllShiftInv
<1>5. CASE \E d \in BOOLEAN : DllTakeNothing \/ DllIterate(d) \/ DllVisit(d) \/ DllIterateEnd \/ DllFree
  BY <1>5, DllWalkInv
<1>6. CASE DllFreeNode
  BY <1>6, DllFreeNodeInv
<1>7. CASE DllFreeEnd
  BY <1>7, DllFreeEndInv
<1>8. CASE UNCHANGED dllVars
  BY <1>8 DEF dllVars, DllInv, DllTypeOK, Linked, Places, Kept, NodeAt
<1>9. QED
  BY <1>1, <1>2, <1>3, <1>4, <1>5, <1>6, <1>7, <1>8 DEF DllNext

(* Every part of the list has its type, with any number of nodes. *)
THEOREM DllTyped == DllSpec => []DllTypeOK
<1>1. DllSpec => []DllInv
  BY DllInitInv, DllNextInv, PTL DEF DllSpec
<1>2. DllInv => DllTypeOK
  BY DEF DllInv
<1>3. QED
  BY <1>1, <1>2, PTL

(* The links agree in both directions, no node is lost, and count tells    *)
(* how many there are: dll_push, dll_pop, dll_shift, dll_unshift and the   *)
(* loops keep it so.                                                       *)
THEOREM DllLinked == DllSpec => []Linked
<1>1. DllSpec => []DllInv
  BY DllInitInv, DllNextInv, PTL DEF DllSpec
<1>2. DllInv => Linked
  BY DEF DllInv
<1>3. QED
  BY <1>1, <1>2, PTL

---------------------------------------------------------------------------
(* The refinement: what the list holds is the sequence of its values. *)
LEMMA ContentsOfList ==
  ASSUME DllInv, ~GivenUp
  PROVE  /\ Contents \in Seq(Values) /\ Len(Contents) = Len(order) /\ Len(order) \in Nat
         /\ \A i \in Places : order[i] \in DOMAIN node /\ Contents[i] = node[order[i]].value
         /\ Kept = Places
         /\ Contents = <<>> <=> first = NULL
<1>1. Kept = Places /\ Len(order) \in Nat
  BY DEF Kept, GivenUp, DllInv, DllTypeOK
<1>2. \A i \in Places : order[i] \in DOMAIN node
  BY <1>1 DEF DllInv, Linked
<1>3. \A i \in Places : node[order[i]].value \in Values
  BY <1>2 DEF DllInv, DllTypeOK, DllNode
<1>4. Contents = [i \in Places |-> node[order[i]].value]
  BY DEF Contents
<1>5. Contents \in Seq(Values) /\ Len(Contents) = Len(order)
  BY <1>1, <1>3, <1>4, IsASeq, LenProperties DEF Places
<1>6. Contents = <<>> <=> first = NULL
  BY <1>5, <1>1, DllEnds, EmptySeq
<1>7. QED
  BY <1>1, <1>2, <1>4, <1>5, <1>6

(* The same of the state a step leads to. *)
LEMMA ContentsOfNextList ==
  ASSUME DllInv', ~GivenUp'
  PROVE  /\ Contents' \in Seq(Values) /\ Len(Contents') = Len(order')
         /\ \A i \in Places' : order'[i] \in DOMAIN node' /\ Contents'[i] = node'[order'[i]].value
<1>1. Kept' = Places' /\ Len(order') \in Nat
  BY DEF Kept, GivenUp, DllInv, DllTypeOK
<1>2. \A i \in Places' : order'[i] \in DOMAIN node'
  BY <1>1 DEF DllInv, Linked
<1>3. \A i \in Places' : node'[order'[i]].value \in Values
  BY <1>2 DEF DllInv, DllTypeOK, DllNode
<1>4. Contents' = [i \in Places' |-> node'[order'[i]].value]
  BY DEF Contents
<1>5. Contents' \in Seq(Values) /\ Len(Contents') = Len(order')
  BY <1>1, <1>3, <1>4, IsASeq, LenProperties DEF Places
<1>6. QED
  BY <1>2, <1>4, <1>5

LEMMA DllPushStep ==
  ASSUME DllInv, DllInv', NEW v \in Values, DllPush(v)
  PROVE  D!Push(v)
<1>1. /\ ~GivenUp /\ ~GivenUp' /\ GivenUp' = GivenUp
      /\ Place = 0 /\ Place' = 0 /\ forward' = forward /\ answer' = NULL
  BY DEF DllPush, GivenUp, Place, walk
<1>2. PICK n \in Fresh :
        /\ node' = [m \in DOMAIN node \cup {n} |->
                      IF m = n THEN [next |-> NULL, prev |-> IF first = NULL THEN NULL ELSE last,
                                     value |-> v]
                      ELSE IF first # NULL /\ m = last THEN [node[m] EXCEPT !.next = n]
                      ELSE node[m]]
        /\ order' = Append(order, n)
  BY DEF DllPush
<1>3. n \in Nodes /\ n \notin DOMAIN node
  BY <1>2 DEF Fresh
<1>4. /\ Len(order') = Len(order) + 1 /\ order'[Len(order) + 1] = n
      /\ \A i \in Places : order'[i] = order[i]
  BY <1>2, <1>3, AppendProperties DEF DllInv, DllTypeOK, Places
<1>5. /\ Contents \in Seq(Values) /\ Len(Contents) = Len(order) /\ Len(order) \in Nat
      /\ \A i \in Places : order[i] \in DOMAIN node /\ Contents[i] = node[order[i]].value
  BY <1>1, ContentsOfList
<1>6. /\ Contents' \in Seq(Values) /\ Len(Contents') = Len(order')
      /\ \A i \in Places' : Contents'[i] = node'[order'[i]].value
  BY <1>1, ContentsOfNextList
<1>7. /\ Append(Contents, v) \in Seq(Values) /\ Len(Append(Contents, v)) = Len(Contents) + 1
      /\ \A i \in 1 .. Len(Contents) : Append(Contents, v)[i] = Contents[i]
      /\ Append(Contents, v)[Len(Contents) + 1] = v
  BY <1>5, AppendProperties
<1>8. ASSUME NEW i \in 1 .. Len(Contents') PROVE Contents'[i] = Append(Contents, v)[i]
  <2>1. i \in Places' /\ Contents'[i] = node'[order'[i]].value
    BY <1>4, <1>5, <1>6 DEF Places
  <2>2. CASE i = Len(order) + 1
    BY <2>1, <2>2, <1>2, <1>4, <1>5, <1>7
  <2>3. CASE i # Len(order) + 1
    <3>1. i \in Places /\ order'[i] = order[i] /\ order[i] \in DOMAIN node /\ order[i] # n
      BY <2>3, <1>3, <1>4, <1>5, <1>6 DEF Places
    <3>2. node[order[i]] \in DllNode
      BY <3>1 DEF DllInv, DllTypeOK
    <3>3. node'[order[i]].value = node[order[i]].value
      BY <1>2, <3>1, <3>2 DEF DllNode
    <3>4. QED
      BY <2>1, <3>1, <3>3, <1>5, <1>7 DEF Places
  <2>4. QED
    BY <2>2, <2>3
<1>9. Contents' = Append(Contents, v)
  BY <1>4, <1>5, <1>6, <1>7, <1>8, SeqEqual
<1>10. QED
  BY <1>1, <1>9 DEF D!Push, D!Idle

LEMMA DllUnshiftStep ==
  ASSUME DllInv, DllInv', NEW v \in Values, DllUnshift(v)
  PROVE  D!Unshift(v)
<1>1. /\ ~GivenUp /\ ~GivenUp' /\ GivenUp' = GivenUp
      /\ Place = 0 /\ Place' = 0 /\ forward' = forward /\ answer' = NULL
  BY DEF DllUnshift, GivenUp, Place, walk
<1>2. PICK n \in Fresh :
        /\ node' = [m \in DOMAIN node \cup {n} |->
                      IF m = n THEN [next |-> first, prev |-> NULL, value |-> v]
                      ELSE IF m = first THEN [node[m] EXCEPT !.prev = n]
                      ELSE node[m]]
        /\ order' = <<n>> \o order
  BY DEF DllUnshift
<1>3. n \in Nodes /\ n \notin DOMAIN node /\ <<n>> \in Seq(Nodes) /\ Len(<<n>>) = 1
  BY <1>2 DEF Fresh
<1>4. /\ Len(order') = 1 + Len(order)
      /\ \A i \in 1 .. 1 + Len(order) : order'[i] = IF i <= 1 THEN n ELSE order[i - 1]
  <2>1. /\ Len(order') = 1 + Len(order)
        /\ \A i \in 1 .. 1 + Len(order) : order'[i] = IF i <= 1 THEN <<n>>[i] ELSE order[i - 1]
    BY <1>2, <1>3, ConcatProperties DEF DllInv, DllTypeOK
  <2>2. QED
    BY <2>1
<1>5. /\ Contents \in Seq(Values) /\ Len(Contents) = Len(order) /\ Len(order) \in Nat
      /\ \A i \in Places : order[i] \in DOMAIN node /\ Contents[i] = node[order[i]].value
  BY <1>1, ContentsOfList
<1>6. /\ Contents' \in Seq(Values) /\ Len(Contents') = Len(order')
      /\ \A i \in Places' : Contents'[i] = node'[order'[i]].value
  BY <1>1, ContentsOfNextList
<1>7. /\ <<v>> \o Contents \in Seq(Values) /\ Len(<<v>> \o Contents) = 1 + Len(Contents)
      /\ \A i \in 1 .. 1 + Len(Contents) :
           (<<v>> \o Contents)[i] = IF i <= 1 THEN v ELSE Contents[i - 1]
  <2>1. <<v>> \in Seq(Values) /\ Len(<<v>>) = 1
    OBVIOUS
  <2>2. /\ <<v>> \o Contents \in Seq(Values) /\ Len(<<v>> \o Contents) = 1 + Len(Contents)
        /\ \A i \in 1 .. 1 + Len(Contents) :
             (<<v>> \o Contents)[i] = IF i <= 1 THEN <<v>>[i] ELSE Contents[i - 1]
    BY <1>5, <2>1, ConcatProperties
  <2>3. QED
    BY <2>2
<1>8. ASSUME NEW i \in 1 .. Len(Contents') PROVE Contents'[i] = (<<v>> \o Contents)[i]
  <2>1. i \in Places' /\ Contents'[i] = node'[order'[i]].value /\ i \in 1 .. 1 + Len(order)
    BY <1>4, <1>5, <1>6 DEF Places
  <2>2. CASE i = 1
    BY <2>1, <2>2, <1>2, <1>4, <1>5, <1>7
  <2>3. CASE i # 1
    <3>1. i - 1 \in Places
      BY <2>1, <2>3, <1>5 DEF Places
    <3>2. order'[i] = order[i - 1] /\ order[i - 1] \in DOMAIN node /\ order[i - 1] # n
      BY <2>1, <2>3, <3>1, <1>3, <1>4, <1>5
    <3>3. node[order[i - 1]] \in DllNode
      BY <3>2 DEF DllInv, DllTypeOK
    <3>4. node'[order[i - 1]].value = node[order[i - 1]].value
      BY <1>2, <3>2, <3>3 DEF DllNode
    <3>5. (<<v>> \o Contents)[i] = Contents[i - 1]
      BY <2>1, <2>3, <1>5, <1>7
    <3>6. QED
      BY <2>1, <3>1, <3>2, <3>4, <3>5, <1>5
  <2>4. QED
    BY <2>2, <2>3
<1>9. Contents' = <<v>> \o Contents
  BY <1>4, <1>5, <1>6, <1>7, <1>8, SeqEqual
<1>10. QED
  BY <1>1, <1>9 DEF D!Unshift, D!Idle

LEMMA DllPopStep ==
  ASSUME DllInv, DllInv', DllPop
  PROVE  D!Pop
<1>1. /\ ~GivenUp /\ ~GivenUp' /\ GivenUp' = GivenUp
      /\ Place = 0 /\ Place' = 0 /\ forward' = forward
  BY DEF DllPop, GivenUp, Place, walk
<1>2. /\ first # NULL /\ answer' = node[last].value
      /\ node' = [m \in DOMAIN node \ {last} |->
                    IF m = node[last].prev THEN [node[m] EXCEPT !.next = NULL] ELSE node[m]]
      /\ order' = SubSeq(order, 1, Len(order) - 1)
  BY DEF DllPop
<1>3. /\ Contents \in Seq(Values) /\ Len(Contents) = Len(order) /\ Len(order) \in Nat
      /\ \A i \in Places : order[i] \in DOMAIN node /\ Contents[i] = node[order[i]].value
      /\ Contents # <<>> /\ Len(order) # 0 /\ Len(order) \in Places /\ last = order[Len(order)]
  BY <1>1, <1>2, ContentsOfList, DllEnds
<1>4. /\ Contents' \in Seq(Values) /\ Len(Contents') = Len(order')
      /\ \A i \in Places' : order'[i] \in DOMAIN node' /\ Contents'[i] = node'[order'[i]].value
  BY <1>1, ContentsOfNextList
<1>. DEFINE k == Len(order)
            rest == SubSeq(Contents, 1, k - 1)
<1>5. /\ rest \in Seq(Values) /\ Len(rest) = k - 1 /\ Len(order') = k - 1
      /\ \A i \in 1 .. k - 1 : rest[i] = Contents[i] /\ order'[i] = order[i] /\ i \in Places
  <2>1. k \in Nat /\ k # 0 /\ Places = 1 .. k
    BY <1>3 DEF Places
  <2>2. \A i \in 1 .. k - 1 : i \in Places /\ Contents[i] \in Values /\ order[i] \in Nodes
    BY <1>3, <2>1 DEF DllInv, DllTypeOK
  <2>3. /\ rest \in Seq(Values)
        /\ Len(rest) = IF 1 <= k - 1 THEN (k - 1) - 1 + 1 ELSE 0
        /\ \A i \in 1 .. (k - 1) - 1 + 1 : rest[i] = Contents[1 + i - 1]
    BY <2>1, <2>2, SubSeqProperties
  <2>4. /\ Len(order') = IF 1 <= k - 1 THEN (k - 1) - 1 + 1 ELSE 0
        /\ \A i \in 1 .. (k - 1) - 1 + 1 : order'[i] = order[1 + i - 1]
    BY <1>2, <2>1, <2>2, SubSeqProperties
  <2>. HIDE DEF k, rest
  <2>5. \A i \in 1 .. k - 1 : i \in 1 .. (k - 1) - 1 + 1 /\ 1 + i - 1 = i
    BY <2>1
  <2>6. Len(rest) = k - 1 /\ Len(order') = k - 1
    BY <2>1, <2>3, <2>4
  <2>7. QED
    BY <2>2, <2>3, <2>4, <2>5, <2>6
<1>6. ASSUME NEW i \in 1 .. Len(Contents') PROVE Contents'[i] = rest[i]
  <2>1. i \in Places' /\ i \in 1 .. k - 1
    BY <1>4, <1>5 DEF Places
  <2>2. /\ i \in Places /\ order'[i] = order[i] /\ rest[i] = Contents[i]
        /\ order[i] \in DOMAIN node' /\ order[i] \in DOMAIN node
    BY <2>1, <1>3, <1>4, <1>5
  <2>3. node[order[i]] \in DllNode
    BY <2>2 DEF DllInv, DllTypeOK
  <2>4. node'[order[i]].value = node[order[i]].value
    BY <1>2, <2>2, <2>3 DEF DllNode
  <2>5. QED
    BY <2>1, <2>2, <2>4, <1>3, <1>4
<1>7. Contents' = rest
  BY <1>4, <1>5, <1>6, SeqEqual
<1>8. answer' = Contents[Len(Contents)]
  BY <1>2, <1>3
<1>9. QED
  BY <1>1, <1>3, <1>7, <1>8 DEF D!Pop, D!Idle

LEMMA DllShiftStep ==
  ASSUME DllInv, DllInv', DllShift
  PROVE  D!Shift
<1>1. /\ ~GivenUp /\ ~GivenUp' /\ GivenUp' = GivenUp
      /\ Place = 0 /\ Place' = 0 /\ forward' = forward
  BY DEF DllShift, GivenUp, Place, walk
<1>2. /\ first # NULL /\ answer' = node[first].value
      /\ node' = [m \in DOMAIN node \ {first} |->
                    IF m = node[first].next THEN [node[m] EXCEPT !.prev = NULL] ELSE node[m]]
      /\ order' = Tail(order)
  BY DEF DllShift
<1>3. /\ Contents \in Seq(Values) /\ Len(Contents) = Len(order) /\ Len(order) \in Nat
      /\ \A i \in Places : order[i] \in DOMAIN node /\ Contents[i] = node[order[i]].value
      /\ Contents # <<>> /\ Len(order) # 0 /\ 1 \in Places /\ first = order[1]
  BY <1>1, <1>2, ContentsOfList, DllEnds
<1>4. /\ Contents' \in Seq(Values) /\ Len(Contents') = Len(order')
      /\ \A i \in Places' : order'[i] \in DOMAIN node' /\ Contents'[i] = node'[order'[i]].value
  BY <1>1, ContentsOfNextList
<1>. DEFINE k == Len(order)
            rest == Tail(Contents)
<1>5. /\ rest \in Seq(Values) /\ Len(rest) = k - 1 /\ Len(order') = k - 1
      /\ \A i \in 1 .. k - 1 : /\ rest[i] = Contents[i + 1] /\ order'[i] = order[i + 1]
                               /\ i + 1 \in Places
  <2>1. k \in Nat /\ k # 0 /\ Places = 1 .. k /\ order \in Seq(Nodes) /\ order # <<>>
    BY <1>3 DEF Places, DllInv, DllTypeOK
  <2>2. /\ rest \in Seq(Values) /\ Len(rest) = k - 1
        /\ \A i \in 1 .. Len(rest) : rest[i] = Contents[i + 1]
    BY <1>3, HeadTailProperties
  <2>3. Len(order') = k - 1 /\ \A i \in 1 .. Len(order') : order'[i] = order[i + 1]
    BY <1>2, <2>1, HeadTailProperties
  <2>4. \A i \in 1 .. k - 1 : i + 1 \in 1 .. k
    <3>. HIDE DEF k
    <3>1. QED
      BY <2>1
  <2>5. QED
    BY <2>1, <2>2, <2>3, <2>4
<1>6. ASSUME NEW i \in 1 .. Len(Contents') PROVE Contents'[i] = rest[i]
  <2>1. i \in Places' /\ i \in 1 .. k - 1
    BY <1>4, <1>5 DEF Places
  <2>2. /\ i + 1 \in Places /\ order'[i] = order[i + 1] /\ rest[i] = Contents[i + 1]
        /\ order[i + 1] \in DOMAIN node' /\ order[i + 1] \in DOMAIN node
    BY <2>1, <1>3, <1>4, <1>5
  <2>3. node[order[i + 1]] \in DllNode
    BY <2>2 DEF DllInv, DllTypeOK
  <2>4. node'[order[i + 1]].value = node[order[i + 1]].value
    BY <1>2, <2>2, <2>3 DEF DllNode
  <2>5. QED
    BY <2>1, <2>2, <2>4, <1>3, <1>4
<1>7. Contents' = rest
  BY <1>4, <1>5, <1>6, SeqEqual
<1>8. answer' = Contents[1]
  BY <1>2, <1>3
<1>9. QED
  BY <1>1, <1>3, <1>7, <1>8 DEF D!Shift, D!Idle

(* The loops: what is visited is at the place the walk has come to. *)
LEMMA DllWalkStep ==
  ASSUME DllInv, DllInv', NEW d \in BOOLEAN,
         DllTakeNothing \/ DllIterate(d) \/ DllVisit(d) \/ DllIterateEnd \/ DllFree
  PROVE  D!Pop \/ D!Iterate(d) \/ D!Visit \/ D!Free \/ UNCHANGED D!vars
<1>1. CASE DllTakeNothing
  <2>1. ~GivenUp /\ GivenUp' = GivenUp /\ Place = 0 /\ Place' = 0 /\ forward' = forward
    BY <1>1 DEF DllTakeNothing, GivenUp, Place, walk
  <2>2. Contents' = Contents
    BY <1>1 DEF DllTakeNothing, Contents, GivenUp, Places, walk, list, ghost
  <2>3. Contents = <<>> /\ answer' = NULL
    BY <1>1, <2>1, ContentsOfList DEF DllTakeNothing
  <2>4. QED
    BY <2>1, <2>2, <2>3 DEF D!Pop, D!Idle
<1>2. CASE DllIterate(d)
  <2>1. ~GivenUp /\ GivenUp' = GivenUp /\ Place = 0 /\ forward' = d /\ answer' = NULL
    BY <1>2 DEF DllIterate, GivenUp, Place
  <2>2. Contents' = Contents
    BY <1>2 DEF DllIterate, Contents, GivenUp, Places, list
  <2>3. Contents \in Seq(Values) /\ Len(Contents) = Len(order) /\ Len(order) \in Nat
    BY <2>1, ContentsOfList
  <2>4. Place' = IF Contents = <<>> THEN 0 ELSE 1
    BY <1>2, <2>3, EmptySeq DEF DllIterate, Place, Places
  <2>5. Place' \in 0 .. Len(Contents)
    BY <2>3, <2>4, EmptySeq
  <2>6. QED
    BY <2>1, <2>2, <2>4, <2>5 DEF D!Iterate, D!Idle
<1>3. CASE DllVisit(d)
  <2>1. /\ ~GivenUp /\ GivenUp' = GivenUp /\ forward' = forward /\ answer' = node[cursor].value
        /\ order' = order /\ busy = "iterate"
    BY <1>3 DEF DllVisit, GivenUp
  <2>2. Contents' = Contents
    BY <1>3 DEF DllVisit, Contents, GivenUp, Places, list
  <2>3. cursor = NodeAt(index) /\ cursor # NULL
    BY <1>3, <2>1 DEF DllVisit, DllInv, Linked
  <2>4. index \in Places /\ Place = index
    BY <2>1, <2>3 DEF NodeAt, Place
  <2>5. /\ Len(Contents) = Len(order) /\ Len(order) \in Nat
        /\ Contents[index] = node[order[index]].value
    BY <2>1, <2>4, ContentsOfList
  <2>6. answer' = Contents[Place] /\ Place # 0
    BY <2>1, <2>3, <2>4, <2>5 DEF NodeAt, Places
  <2>7. \/ Place' = 0
        \/ Place' \in IF forward THEN {IF Place = Len(Contents) THEN 0 ELSE Place + 1}
                      ELSE 0 .. Len(Contents)
    <3>1. CASE d
      BY <1>3, <3>1 DEF DllVisit, Place
    <3>2. CASE ~d
      <4>1. busy' = "iterate" /\ index' = IF forward THEN index + 1 ELSE index - 1
        BY <1>3, <2>1, <3>2 DEF DllVisit
      <4>2. Place' = IF index' \in Places THEN index' ELSE 0
        BY <2>1, <4>1 DEF Place, Places
      <4>3. QED
        BY <2>4, <2>5, <4>1, <4>2 DEF Places
    <3>3. QED
      BY <3>1, <3>2
  <2>8. QED
    BY <2>1, <2>2, <2>6, <2>7 DEF D!Visit
<1>4. CASE DllIterateEnd
  <2>1. /\ ~GivenUp /\ GivenUp' = GivenUp /\ forward' = forward /\ answer' = answer
        /\ Place' = 0
    BY <1>4 DEF DllIterateEnd, GivenUp, Place
  <2>2. Contents' = Contents
    BY <1>4 DEF DllIterateEnd, Contents, GivenUp, Places, list
  <2>3. NodeAt(index) = NULL
    BY <1>4 DEF DllIterateEnd, DllInv, Linked
  <2>4. Place = 0
    BY <2>3, DllEnds DEF NodeAt, Place
  <2>5. QED
    BY <2>1, <2>2, <2>4 DEF D!vars
<1>5. CASE DllFree
  <2>1. /\ ~GivenUp /\ GivenUp' = TRUE /\ forward' = forward /\ answer' = NULL
        /\ Place = 0 /\ Place' = 0
    BY <1>5 DEF DllFree, GivenUp, Place
  <2>2. Contents' = <<>>
    BY <2>1 DEF Contents
  <2>3. QED
    BY <2>1, <2>2 DEF D!Free, D!Idle
<1>6. QED
  BY <1>1, <1>2, <1>3, <1>4, <1>5

LEMMA DllFreeStep ==
  ASSUME DllFreeNode \/ DllFreeEnd
  PROVE  UNCHANGED D!vars
<1>1. /\ GivenUp /\ GivenUp' /\ GivenUp' = GivenUp /\ forward' = forward /\ answer' = answer
      /\ Place = 0 /\ Place' = 0
  BY DEF DllFreeNode, DllFreeEnd, GivenUp, Place
<1>2. Contents = <<>> /\ Contents' = <<>>
  BY <1>1 DEF Contents
<1>3. QED
  BY <1>1, <1>2 DEF D!vars

LEMMA DllStep == DllInv /\ DllInv' /\ [DllNext]_dllVars => [D!Next]_D!vars
<1> SUFFICES ASSUME DllInv, DllInv', [DllNext]_dllVars PROVE D!Next \/ UNCHANGED D!vars
  OBVIOUS
<1>1. CASE \E v \in Values : DllPush(v) \/ DllUnshift(v)
  BY <1>1, DllPushStep, DllUnshiftStep DEF D!Next
<1>2. CASE DllPop \/ DllShift
  BY <1>2, DllPopStep, DllShiftStep DEF D!Next
<1>3. CASE \E d \in BOOLEAN : DllTakeNothing \/ DllIterate(d) \/ DllVisit(d) \/ DllIterateEnd \/ DllFree
  BY <1>3, DllWalkStep DEF D!Next
<1>4. CASE DllFreeNode \/ DllFreeEnd
  BY <1>4, DllFreeStep
<1>5. CASE UNCHANGED dllVars
  <2>1. GivenUp' = GivenUp /\ Place' = Place /\ forward' = forward /\ answer' = answer
    BY <1>5 DEF dllVars, GivenUp, Place, Places
  <2>2. Contents' = Contents
    BY <1>5 DEF dllVars, GivenUp, Contents, Places
  <2>3. QED
    BY <2>1, <2>2 DEF D!vars
<1>6. QED
  BY <1>1, <1>2, <1>3, <1>4, <1>5 DEF DllNext

(* The list implements a deque, whatever the addresses and the values:     *)
(* dll_push, dll_unshift, dll_pop, dll_shift, dll_iterate and dll_free.    *)
THEOREM DllIsDeque == DllSpec => DequeSpec
<1>1. DllInit => D!Init
  <2> SUFFICES ASSUME DllInit PROVE D!Init
    OBVIOUS
  <2>1. GivenUp = FALSE /\ Place = 0 /\ forward = TRUE /\ answer = NULL
    BY DEF DllInit, GivenUp, Place
  <2>2. Places = {}
    BY DEF DllInit, Places
  <2>3. Contents = <<>>
    BY <2>1, <2>2 DEF Contents
  <2>4. QED
    BY <2>1, <2>3 DEF D!Init
<1>2. DllSpec => []DllInv
  BY DllInitInv, DllNextInv, PTL DEF DllSpec
<1>3. QED
  BY <1>1, <1>2, DllStep, PTL DEF DllSpec, DequeSpec, D!Spec

---------------------------------------------------------------------------
(* One sequence begins another when they agree as far as it goes. *)
LEMMA PrefixIs ==
  ASSUME NEW p \in Ways, NEW q \in Ways
  PROVE  IsPrefix(p, q) <=> Len(p) <= Len(q) /\ \A i \in 1 .. Len(p) : p[i] = q[i]
<1>1. Len(p) \in Nat /\ Len(q) \in Nat
  BY DEF Ways
<1>2. SubSeq(p, 1, Len(p)) = p
  BY SubSeqFull DEF Ways
<1>3. ASSUME Len(p) <= Len(q)
      PROVE  /\ SubSeq(q, 1, Len(p)) \in Seq(Links)
             /\ Len(SubSeq(q, 1, Len(p))) = Len(p)
             /\ \A i \in 1 .. Len(p) : SubSeq(q, 1, Len(p))[i] = q[i]
  BY <1>1, <1>3 DEF Ways
<1>4. ASSUME Len(p) <= Len(q), \A i \in 1 .. Len(p) : p[i] = q[i]
      PROVE  p = SubSeq(q, 1, Len(p))
  BY <1>1, <1>3, <1>4, SeqEqual DEF Ways
<1> QED BY <1>1, <1>2, <1>3, <1>4 DEF IsPrefix

(* Being a prefix is a partial order, and the prefixes of one sequence are *)
(* ordered one after the other.                                            *)
LEMMA PrefixOrder ==
  ASSUME NEW p \in Ways, NEW q \in Ways, NEW r \in Ways
  PROVE  /\ IsPrefix(p, p)
         /\ IsPrefix(<<>>, p)
         /\ IsPrefix(p, q) /\ IsPrefix(q, r) => IsPrefix(p, r)
         /\ IsPrefix(p, q) /\ IsPrefix(q, p) => p = q
         /\ IsPrefix(p, r) /\ IsPrefix(q, r) => IsPrefix(p, q) \/ IsPrefix(q, p)
<1>1. Len(p) \in Nat /\ Len(q) \in Nat /\ Len(r) \in Nat /\ Len(<<>>) = 0 /\ <<>> \in Ways
  BY DEF Ways
<1>2. IsPrefix(p, p) /\ IsPrefix(<<>>, p)
  BY <1>1, PrefixIs
<1>3. IsPrefix(p, q) /\ IsPrefix(q, r) => IsPrefix(p, r)
  BY <1>1, PrefixIs
<1>4. IsPrefix(p, q) /\ IsPrefix(q, p) => p = q
  BY <1>1, PrefixIs, SeqEqual DEF Ways
<1>5. IsPrefix(p, r) /\ IsPrefix(q, r) => IsPrefix(p, q) \/ IsPrefix(q, p)
  BY <1>1, PrefixIs
<1> QED BY <1>2, <1>3, <1>4, <1>5

(* A link on the way to q. *)
LEMMA PrefixLink ==
  ASSUME NEW p \in Ways, NEW q \in Ways, NEW side \in Links
  PROVE  /\ Append(p, side) \in Ways /\ IsPrefix(p, Append(p, side)) /\ Append(p, side) # p
         /\ IsPrefix(Append(p, side), q) <=>
              IsPrefix(p, q) /\ Len(p) < Len(q) /\ q[Len(p) + 1] = side
         /\ IsPrefix(q, Append(p, side)) <=> IsPrefix(q, p) \/ q = Append(p, side)
<1> DEFINE a == Append(p, side)
<1>1. /\ a \in Ways /\ Len(a) = Len(p) + 1 /\ Len(p) \in Nat /\ Len(q) \in Nat
      /\ \A i \in 1 .. Len(p) : a[i] = p[i]
      /\ a[Len(p) + 1] = side
  BY AppendProperties DEF Ways
<1> HIDE DEF a
<1>2. IsPrefix(p, a) /\ a # p
  BY <1>1, PrefixIs
<1>3. IsPrefix(a, q) <=> IsPrefix(p, q) /\ Len(p) < Len(q) /\ q[Len(p) + 1] = side
  <2>1. IsPrefix(a, q) <=> Len(a) <= Len(q) /\ \A i \in 1 .. Len(a) : a[i] = q[i]
    BY <1>1, PrefixIs
  <2>2. IsPrefix(p, q) <=> Len(p) <= Len(q) /\ \A i \in 1 .. Len(p) : p[i] = q[i]
    BY PrefixIs
  <2>3. (\A i \in 1 .. Len(a) : a[i] = q[i])
          <=> (\A i \in 1 .. Len(p) : p[i] = q[i]) /\ q[Len(p) + 1] = side
    BY <1>1
  <2> QED BY <1>1, <2>1, <2>2, <2>3
<1>4. IsPrefix(q, a) <=> IsPrefix(q, p) \/ q = a
  <2>1. ASSUME IsPrefix(q, a), q # a PROVE IsPrefix(q, p)
    <3>1. Len(q) <= Len(a) /\ \A i \in 1 .. Len(q) : q[i] = a[i]
      BY <1>1, <2>1, PrefixIs
    <3>2. Len(q) # Len(a)
      BY <1>1, <2>1, <3>1, SeqEqual DEF Ways
    <3>3. Len(q) <= Len(p)
      BY <1>1, <3>1, <3>2
    <3>4. \A i \in 1 .. Len(q) : q[i] = p[i]
      BY <1>1, <3>1, <3>3
    <3> QED BY <3>3, <3>4, PrefixIs
  <2>2. IsPrefix(q, p) => IsPrefix(q, a)
    BY <1>1, <1>2, PrefixOrder
  <2> QED BY <1>1, <2>1, <2>2, PrefixOrder
<1> QED BY <1>1, <1>2, <1>3, <1>4 DEF a

(* A way continued, and its rest. *)
LEMMA PrefixConcat ==
  ASSUME NEW p \in Ways, NEW r \in Ways
  PROVE  /\ p \o r \in Ways /\ IsPrefix(p, p \o r) /\ Rest(p, p \o r) = r
         /\ p \o <<>> = p /\ <<>> \o p = p
         /\ Len(p \o r) = Len(p) + Len(r)
         /\ \A i \in 1 .. Len(p) : (p \o r)[i] = p[i]
         /\ \A i \in 1 .. Len(r) : (p \o r)[Len(p) + i] = r[i]
<1> DEFINE c == p \o r
<1>1. /\ c \in Ways /\ Len(c) = Len(p) + Len(r) /\ Len(p) \in Nat /\ Len(r) \in Nat
      /\ \A i \in 1 .. Len(p) + Len(r) : c[i] = IF i <= Len(p) THEN p[i] ELSE r[i - Len(p)]
  BY ConcatProperties DEF Ways
<1> HIDE DEF c
<1>2. \A i \in 1 .. Len(p) : c[i] = p[i]
  BY <1>1
<1>3. ASSUME NEW i \in 1 .. Len(r) PROVE c[Len(p) + i] = r[i]
  <2>1. Len(p) + i \in 1 .. Len(p) + Len(r) /\ ~(Len(p) + i <= Len(p)) /\ (Len(p) + i) - Len(p) = i
    BY <1>1
  <2> QED BY <1>1, <2>1
<1>4. IsPrefix(p, c)
  BY <1>1, <1>2, PrefixIs
<1>5. Rest(p, c) = r
  <2> DEFINE s == SubSeq(c, Len(p) + 1, Len(c))
  <2>1. s \in Ways /\ Len(s) = Len(r) /\ \A i \in 1 .. Len(r) : s[i] = c[Len(p) + i]
    <3>1. \A i \in Len(p) + 1 .. Len(c) : c[i] \in Links
      BY <1>1, ElementOfSeq DEF Ways
    <3>2. Len(p) + 1 \in Int /\ Len(c) \in Int /\ Len(c) - (Len(p) + 1) + 1 = Len(r)
      BY <1>1
    <3>3. /\ s \in Seq(Links)
          /\ Len(s) = IF Len(p) + 1 <= Len(c) THEN Len(c) - (Len(p) + 1) + 1 ELSE 0
          /\ \A i \in 1 .. Len(c) - (Len(p) + 1) + 1 : s[i] = c[(Len(p) + 1) + i - 1]
      BY <3>1, <3>2, SubSeqProperties
    <3> HIDE DEF s
    <3>4. Len(s) = Len(r)
      BY <1>1, <3>2, <3>3
    <3>5. ASSUME NEW i \in 1 .. Len(r) PROVE s[i] = c[Len(p) + i]
      <4>1. (Len(p) + 1) + i - 1 = Len(p) + i
        BY <1>1
      <4> QED BY <3>2, <3>3, <4>1
    <3> QED BY <3>3, <3>4, <3>5 DEF Ways
  <2> HIDE DEF s
  <2>2. s = r
    BY <1>3, <2>1, SeqEqual DEF Ways
  <2> QED BY <2>2 DEF s, Rest
<1>6. p \o <<>> = p /\ <<>> \o p = p
  BY ConcatEmptySeq DEF Ways
<1> QED BY <1>1, <1>2, <1>3, <1>4, <1>5, <1>6 DEF c

(* What is left of a sequence after a prefix, with the prefix, is the      *)
(* sequence.                                                               *)
LEMMA PrefixRest ==
  ASSUME NEW p \in Ways, NEW q \in Ways, IsPrefix(p, q)
  PROVE  Rest(p, q) \in Ways /\ q = p \o Rest(p, q)
<1>1. /\ Len(p) \in Nat /\ Len(q) \in Nat /\ Len(p) <= Len(q)
      /\ \A i \in 1 .. Len(p) : p[i] = q[i]
  BY PrefixIs DEF Ways
<1> DEFINE n == Len(q) - Len(p)
           s == [i \in 1 .. n |-> q[Len(p) + i]]
<1>2. n \in Nat /\ \A i \in 1 .. n : Len(p) + i \in 1 .. Len(q)
  BY <1>1
<1>3. s \in Ways /\ Len(s) = n /\ \A i \in 1 .. n : s[i] = q[Len(p) + i]
  <2>1. \A i \in 1 .. n : q[Len(p) + i] \in Links
    BY <1>2, ElementOfSeq DEF Ways
  <2> HIDE DEF n
  <2>2. s \in [1 .. n -> Links]
    BY <2>1
  <2> QED BY <1>2, <2>2 DEF Ways
<1> HIDE DEF s
<1>4. /\ p \o s \in Ways /\ Len(p \o s) = Len(p) + n /\ Rest(p, p \o s) = s
      /\ \A i \in 1 .. Len(p) : (p \o s)[i] = p[i]
      /\ \A i \in 1 .. n : (p \o s)[Len(p) + i] = s[i]
  BY <1>3, PrefixConcat
<1>5. Len(p) + n = Len(q)
  BY <1>1
<1>6. ASSUME NEW i \in 1 .. Len(q) PROVE q[i] = (p \o s)[i]
  <2>1. CASE i \in 1 .. Len(p)
    BY <1>1, <1>4, <2>1
  <2>2. CASE i \notin 1 .. Len(p)
    <3>1. i - Len(p) \in 1 .. n /\ Len(p) + (i - Len(p)) = i
      BY <1>1, <2>2
    <3> QED BY <1>3, <1>4, <3>1
  <2> QED BY <2>1, <2>2
<1>7. q = p \o s
  BY <1>4, <1>5, <1>6, SeqEqual DEF Ways
<1> QED BY <1>3, <1>4, <1>7

(* What holds of ways holds of their continuations. *)
LEMMA PrefixShift ==
  ASSUME NEW p \in Ways, NEW a \in Ways, NEW b \in Ways
  PROVE  /\ IsPrefix(p \o a, p \o b) <=> IsPrefix(a, b)
         /\ p \o a = p \o b => a = b
<1>1. p \o a = p \o b => a = b
  <2>1. Rest(p, p \o a) = a /\ Rest(p, p \o b) = b
    BY PrefixConcat
  <2>2. p \o a = p \o b => Rest(p, p \o a) = Rest(p, p \o b)
    OBVIOUS
  <2> QED BY <2>1, <2>2
<1>3. IsPrefix(a, b) => IsPrefix(p \o a, p \o b)
  <2>1. ASSUME IsPrefix(a, b) PROVE IsPrefix(p \o a, p \o b)
    <3>1. Rest(a, b) \in Ways /\ b = a \o Rest(a, b)
      BY <2>1, PrefixRest
    <3>2. PICK c \in Ways : b = a \o c
      BY <3>1
    <3>3. (p \o a) \o c = p \o (a \o c)
      <4>1. p \in Seq(Links) /\ a \in Seq(Links) /\ c \in Seq(Links)
        BY <3>2 DEF Ways
      <4> QED BY <4>1, ConcatAssociative
    <3> QED BY <3>2, <3>3, PrefixConcat
  <2> QED BY <2>1
<1>4. IsPrefix(p \o a, p \o b) => IsPrefix(a, b)
  <2>1. ASSUME IsPrefix(p \o a, p \o b) PROVE IsPrefix(a, b)
    <3> DEFINE c == Rest(p \o a, p \o b)
    <3>1. c \in Ways /\ p \o b = (p \o a) \o c
      BY <2>1, PrefixRest, PrefixConcat
    <3> HIDE DEF c
    <3>2. p \o b = p \o (a \o c) /\ a \o c \in Ways
      <4>1. p \in Seq(Links) /\ a \in Seq(Links) /\ c \in Seq(Links)
        BY <3>1 DEF Ways
      <4>2. (p \o a) \o c = p \o (a \o c)
        BY <4>1, ConcatAssociative
      <4>3. a \o c \in Ways
        BY <3>1, PrefixConcat
      <4> QED BY <3>1, <4>2, <4>3
    <3>3. b = a \o c
      <4>1. Rest(p, p \o b) = b /\ Rest(p, p \o (a \o c)) = a \o c
        BY <3>2, PrefixConcat
      <4>2. Rest(p, p \o b) = Rest(p, p \o (a \o c))
        BY <3>2
      <4> QED BY <4>1, <4>2
    <3> QED BY <3>1, <3>3, PrefixConcat
  <2> QED BY <2>1
<1> QED BY <1>1, <1>3, <1>4

(* A link from a node of a subtree is a link from that node of the tree. *)
LEMMA AppendShift ==
  ASSUME NEW p \in Ways, NEW a \in Ways, NEW side \in Links
  PROVE  Append(p \o a, side) = p \o Append(a, side)
<1>1. <<side>> \in Seq(Links) /\ p \o a \in Seq(Links)
  BY PrefixConcat DEF Ways
<1>2. Append(p \o a, side) = (p \o a) \o <<side>> /\ Append(a, side) = a \o <<side>>
  BY <1>1, AppendIsConcat DEF Ways
<1>3. (p \o a) \o <<side>> = p \o (a \o <<side>>)
  BY <1>1, ConcatAssociative DEF Ways
<1> QED BY <1>2, <1>3

(* Two ways fork where they first differ. *)
LEMMA Fork ==
  ASSUME NEW p \in Ways, NEW q \in Ways, ~IsPrefix(p, q), ~IsPrefix(q, p)
  PROVE  \E r \in Ways : \E s1, s2 \in Links :
           s1 # s2 /\ IsPrefix(Append(r, s1), p) /\ IsPrefix(Append(r, s2), q)
<1> DEFINE Z == {i \in Nat : i \in 1 .. Len(p) /\ i \in 1 .. Len(q) /\ p[i] # q[i]}
<1>1. Len(p) \in Nat /\ Len(q) \in Nat
  BY DEF Ways
<1>2. Z # {} /\ Z \in SUBSET Nat
  <2>1. CASE Len(p) <= Len(q)
    BY <1>1, <2>1, PrefixIs
  <2>2. CASE Len(q) <= Len(p)
    BY <1>1, <2>2, PrefixIs
  <2> QED BY <1>1, <2>1, <2>2
<1>3. PICK m \in Z : \A i \in Z : m <= i
  BY <1>2, LeastOf
<1>4. m \in 1 .. Len(p) /\ m \in 1 .. Len(q) /\ p[m] # q[m] /\ m - 1 \in Nat
  BY <1>3
<1>5. \A i \in 1 .. m - 1 : p[i] = q[i]
  <2>1. ASSUME NEW i \in 1 .. m - 1, p[i] # q[i] PROVE FALSE
    <3>1. i \in Z
      BY <1>1, <1>4, <2>1
    <3> QED BY <1>3, <1>4, <3>1
  <2> QED BY <2>1
<1> HIDE DEF Z
<1> DEFINE r == SubSeq(p, 1, m - 1)
<1>6. r \in Ways /\ Len(r) = m - 1 /\ \A i \in 1 .. m - 1 : r[i] = p[i]
  BY <1>1, <1>4 DEF Ways
<1> HIDE DEF r
<1>7. IsPrefix(r, p) /\ IsPrefix(r, q)
  BY <1>1, <1>4, <1>5, <1>6, PrefixIs
<1>8. p[m] \in Links /\ q[m] \in Links
  BY <1>4, ElementOfSeq DEF Ways
<1>9. Len(r) + 1 = m /\ Len(r) < Len(p) /\ Len(r) < Len(q)
  BY <1>1, <1>4, <1>6
<1>10. IsPrefix(Append(r, p[m]), p) /\ IsPrefix(Append(r, q[m]), q)
  BY <1>6, <1>7, <1>8, <1>9, PrefixLink
<1> QED BY <1>4, <1>6, <1>8, <1>10

---------------------------------------------------------------------------
(* What makes a function a tree: with a node it has those on the way to    *)
(* it, and it is not endlessly deep.                                       *)
IsTree(t) ==
  /\ DOMAIN t \subseteq Ways
  /\ t = [p \in DOMAIN t |-> t[p]]
  /\ \A p \in DOMAIN t, q \in Ways : IsPrefix(q, p) => q \in DOMAIN t
  /\ \E n \in Nat : \A p \in DOMAIN t : Len(p) <= n

(* The link at the end of p belongs to a node, or p is the root. *)
Reaches(t, p) == \A q \in Ways : IsPrefix(q, p) /\ q # p => q \in DOMAIN t

(* The NULL pointer is a tree. *)
LEMMA EmptyTree ==
  IsTree(NoTree) /\ DOMAIN NoTree = {}
<1>1. DOMAIN NoTree = {}
  BY DEF NoTree
<1>2. NoTree = [p \in DOMAIN NoTree |-> NoTree[p]]
  BY DEF NoTree
<1>3. 0 \in Nat
  OBVIOUS
<1> QED BY <1>1, <1>2, <1>3 DEF IsTree

(* A subtree. *)
LEMMA AtIs ==
  ASSUME NEW t, IsTree(t), NEW p \in Ways
  PROVE  /\ IsTree(At(t, p))
         /\ \A r \in Ways : r \in DOMAIN At(t, p) <=> p \o r \in DOMAIN t
         /\ \A r \in DOMAIN At(t, p) : At(t, p)[r] = t[p \o r]
<1> DEFINE Z == {Rest(p, r) : r \in {r \in DOMAIN t : IsPrefix(p, r)}}
           a == [q \in Z |-> t[p \o q]]
<1>1. DOMAIN t \subseteq Ways
  BY DEF IsTree
<1>2. ASSUME NEW r \in Z PROVE r \in Ways /\ p \o r \in DOMAIN t
  <2>1. PICK q \in DOMAIN t : IsPrefix(p, q) /\ r = Rest(p, q)
    BY <1>2
  <2>2. q \in Ways
    BY <1>1
  <2> QED BY <2>1, <2>2, PrefixRest
<1>3. ASSUME NEW r \in Ways, p \o r \in DOMAIN t PROVE r \in Z
  <2>1. IsPrefix(p, p \o r) /\ r = Rest(p, p \o r)
    BY PrefixConcat
  <2> QED BY <1>3, <2>1
<1> HIDE DEF Z
<1>4. DOMAIN a = Z /\ a = [q \in Z |-> a[q]] /\ \A r \in Z : a[r] = t[p \o r]
  OBVIOUS
<1>5. At(t, p) = a
  BY DEF At, Z
<1> HIDE DEF a
<1>6. ASSUME NEW r \in Z, NEW q \in Ways, IsPrefix(q, r) PROVE q \in Z
  <2>1. p \o r \in DOMAIN t /\ p \o q \in Ways /\ IsPrefix(p \o q, p \o r)
    BY <1>2, <1>6, PrefixShift, PrefixConcat
  <2>2. p \o q \in DOMAIN t
    BY <2>1 DEF IsTree
  <2> QED BY <1>3, <2>2
<1>7. PICK n \in Nat : \A q \in DOMAIN t : Len(q) <= n
  BY DEF IsTree
<1>8. ASSUME NEW r \in Z PROVE Len(r) <= n
  <2>1. Len(p \o r) = Len(p) + Len(r) /\ Len(p) \in Nat /\ Len(r) \in Nat
    BY <1>2, PrefixConcat DEF Ways
  <2>2. Len(p \o r) <= n
    BY <1>2, <1>7
  <2> QED BY <2>1, <2>2
<1>9. IsTree(a)
  <2>1. Z \subseteq Ways
    BY <1>2
  <2>2. \A r \in Z, q \in Ways : IsPrefix(q, r) => q \in Z
    BY <1>6
  <2>3. \E m \in Nat : \A r \in Z : Len(r) <= m
    BY <1>8
  <2> QED BY <1>4, <2>1, <2>2, <2>3 DEF IsTree
<1> QED BY <1>2, <1>3, <1>4, <1>5, <1>9

(* A tree h that is t with s in place of what hung at p. *)
Hangs(h, t, p, s) ==
  /\ IsTree(h)
  /\ \A q \in DOMAIN h :
       \/ q \in DOMAIN t /\ ~IsPrefix(p, q) /\ h[q] = t[q]
       \/ \E r \in DOMAIN s : q = p \o r /\ h[q] = s[r]
  /\ \A q \in DOMAIN t : ~IsPrefix(p, q) => q \in DOMAIN h /\ h[q] = t[q]
  /\ \A r \in DOMAIN s : p \o r \in DOMAIN h /\ h[p \o r] = s[r]

(* Hang(t, p, s) is a tree, and that one. *)
LEMMA HangIs ==
  ASSUME NEW t, IsTree(t), NEW s, IsTree(s), NEW p \in Ways, Reaches(t, p)
  PROVE  Hangs(Hang(t, p, s), t, p, s)
<1> DEFINE D1 == {r \in DOMAIN t : ~IsPrefix(p, r)}
           D2 == {p \o r : r \in DOMAIN s}
           h == [q \in D1 \cup D2 |-> IF IsPrefix(p, q) THEN s[Rest(p, q)] ELSE t[q]]
<1>1. DOMAIN t \subseteq Ways /\ DOMAIN s \subseteq Ways
  BY DEF IsTree
<1>2. Hang(t, p, s) = h
  BY DEF Hang
<1>3. DOMAIN h = D1 \cup D2 /\ h = [q \in DOMAIN h |-> h[q]]
  OBVIOUS
<1>4. ASSUME NEW q \in D1 PROVE q \in DOMAIN t /\ ~IsPrefix(p, q) /\ h[q] = t[q]
  BY <1>4
<1>5. ASSUME NEW r \in DOMAIN s PROVE p \o r \in D2 /\ h[p \o r] = s[r] /\ p \o r \in Ways
  <2>1. IsPrefix(p, p \o r) /\ Rest(p, p \o r) = r /\ p \o r \in Ways
    BY <1>1, PrefixConcat
  <2>2. p \o r \in D2
    OBVIOUS
  <2>3. h[p \o r] = IF IsPrefix(p, p \o r) THEN s[Rest(p, p \o r)] ELSE t[p \o r]
    BY <2>2
  <2> QED BY <2>1, <2>2, <2>3
<1>6. \A q \in DOMAIN t : ~IsPrefix(p, q) => q \in D1
  OBVIOUS
<1>7. \A q \in D2 : \E r \in DOMAIN s : q = p \o r
  OBVIOUS
<1>d. D1 \subseteq DOMAIN t
  OBVIOUS
<1> HIDE DEF h, D1, D2
<1>8. ASSUME NEW q \in D1 \cup D2, NEW a \in Ways, IsPrefix(a, q) PROVE a \in D1 \cup D2
  <2>1. CASE q \in D1
    <3>1. a \in DOMAIN t
      BY <1>4, <1>8, <2>1 DEF IsTree
    <3>2. ~IsPrefix(p, a)
      BY <1>1, <1>4, <1>8, <2>1, PrefixOrder
    <3> QED BY <1>6, <3>1, <3>2
  <2>2. CASE q \in D2
    <3>1. PICK r \in DOMAIN s : q = p \o r
      BY <1>7, <2>2
    <3>2. r \in Ways /\ q \in Ways /\ IsPrefix(p, q)
      BY <1>1, <3>1, PrefixConcat
    <3>3. CASE IsPrefix(p, a)
      <4>1. PICK b \in Ways : a = p \o b
        BY <3>3, PrefixRest
      <4>2. IsPrefix(b, r)
        BY <1>8, <3>1, <3>2, <4>1, PrefixShift
      <4>3. b \in DOMAIN s
        BY <3>1, <4>2 DEF IsTree
      <4> QED BY <1>5, <4>1, <4>3
    <3>4. CASE ~IsPrefix(p, a)
      <4>1. IsPrefix(a, p) /\ a # p
        BY <1>8, <3>2, <3>4, PrefixOrder
      <4>2. a \in DOMAIN t
        BY <4>1 DEF Reaches
      <4> QED BY <1>6, <3>4, <4>2
    <3> QED BY <3>3, <3>4
  <2> QED BY <1>8, <2>1, <2>2
<1>9. \E n \in Nat : \A q \in D1 \cup D2 : Len(q) <= n
  <2>1. PICK n1 \in Nat : \A q \in DOMAIN t : Len(q) <= n1
    BY DEF IsTree
  <2>2. PICK n2 \in Nat : \A r \in DOMAIN s : Len(r) <= n2
    BY DEF IsTree
  <2>3. Len(p) \in Nat
    BY DEF Ways
  <2>4. ASSUME NEW q \in D1 \cup D2 PROVE Len(q) <= n1 + Len(p) + n2
    <3>1. CASE q \in D1
      <4>1. Len(q) \in Nat /\ Len(q) <= n1
        BY <1>1, <1>d, <2>1, <3>1 DEF Ways
      <4> QED BY <2>3, <4>1
    <3>2. CASE q \in D2
      <4>1. PICK r \in DOMAIN s : q = p \o r
        BY <1>7, <3>2
      <4>2. Len(q) = Len(p) + Len(r) /\ Len(r) <= n2 /\ Len(r) \in Nat
        BY <1>1, <2>2, <4>1, PrefixConcat DEF Ways
      <4> QED BY <2>3, <4>2
    <3> QED BY <2>4, <3>1, <3>2
  <2>5. n1 + Len(p) + n2 \in Nat
    BY <2>3
  <2> QED BY <2>4, <2>5
<1>10. D1 \cup D2 \subseteq Ways
  BY <1>1, <1>5, <1>7, <1>d
<1>11. IsTree(h)
  BY <1>3, <1>8, <1>9, <1>10 DEF IsTree
<1>12. \A q \in DOMAIN h :
         \/ q \in DOMAIN t /\ ~IsPrefix(p, q) /\ h[q] = t[q]
         \/ \E r \in DOMAIN s : q = p \o r /\ h[q] = s[r]
  BY <1>3, <1>4, <1>5, <1>7
<1>13. Hangs(h, t, p, s)
  BY <1>3, <1>4, <1>5, <1>6, <1>11, <1>12 DEF Hangs
<1> QED BY <1>2, <1>13

(* A tree is entered at its root. *)
LEMMA RootIn ==
  ASSUME NEW t, IsTree(t), DOMAIN t # {}
  PROVE  <<>> \in DOMAIN t /\ \A side \in Links : <<side>> \in Ways /\ Reaches(t, <<side>>)
<1>0. <<>> \in Ways
  BY DEF Ways
<1>1. <<>> \in DOMAIN t
  <2>1. PICK p \in DOMAIN t : TRUE
    OBVIOUS
  <2>2. p \in Ways /\ IsPrefix(<<>>, p)
    BY <2>1, PrefixOrder DEF IsTree
  <2> QED BY <1>0, <2>2 DEF IsTree
<1>2. ASSUME NEW side \in Links PROVE <<side>> \in Ways /\ Reaches(t, <<side>>)
  <2>1. Append(<<>>, side) = <<side>> /\ <<side>> \in Ways
    BY DEF Ways
  <2>2. ASSUME NEW q \in Ways, IsPrefix(q, <<side>>), q # <<side>> PROVE q = <<>>
    <3>1. IsPrefix(q, <<>>)
      <4>1. IsPrefix(q, Append(<<>>, side)) <=> IsPrefix(q, <<>>) \/ q = Append(<<>>, side)
        BY <1>0, PrefixLink
      <4> QED BY <2>1, <2>2, <4>1
    <3> QED BY <1>0, <3>1, PrefixOrder
  <2> QED BY <1>1, <2>1, <2>2 DEF Reaches
<1> QED BY <1>1, <1>2

---------------------------------------------------------------------------
(* What a tree holds, and that it holds no value twice: a node without one *)
(* has nothing that tells it from others.                                  *)
Held(t) == {t[p] : p \in DOMAIN t}
Valued(t) == {n \in Held(t) : n.value # 0}
Single(t) == \A p, q \in DOMAIN t : t[p] = t[q] /\ t[p].value # 0 => p = q

(* A tree is what is left of it without a subtree, and the subtree. *)
LEMMA PartsHeld ==
  ASSUME NEW t, IsTree(t), NEW p \in Ways, Reaches(t, p)
  PROVE  /\ Held(t) = Held(Hang(t, p, NoTree)) \cup Held(At(t, p))
         /\ Single(t) => /\ Single(Hang(t, p, NoTree)) /\ Single(At(t, p))
                         /\ Valued(Hang(t, p, NoTree)) \cap Valued(At(t, p)) = {}
<1> DEFINE c == Hang(t, p, NoTree)
           a == At(t, p)
<1>1. IsTree(NoTree) /\ DOMAIN NoTree = {}
  BY EmptyTree
<1>c. Hangs(c, t, p, NoTree)
  BY <1>1, HangIs
<1> HIDE DEF c
<1>2. /\ \A q \in DOMAIN c : q \in DOMAIN t /\ ~IsPrefix(p, q) /\ c[q] = t[q]
      /\ \A q \in DOMAIN t : ~IsPrefix(p, q) => q \in DOMAIN c
  BY <1>1, <1>c DEF Hangs
<1>3. /\ \A r \in Ways : r \in DOMAIN a <=> p \o r \in DOMAIN t
      /\ \A r \in DOMAIN a : a[r] = t[p \o r]
      /\ DOMAIN a \subseteq Ways
  BY AtIs DEF IsTree
<1>4. DOMAIN t \subseteq Ways
  BY DEF IsTree
<1> HIDE DEF a
<1>5. ASSUME NEW q \in DOMAIN t, IsPrefix(p, q)
      PROVE  \E r \in DOMAIN a : q = p \o r /\ a[r] = t[q]
  <2>1. PICK r \in Ways : q = p \o r
    BY <1>4, <1>5, PrefixRest
  <2> QED BY <1>3, <2>1
<1>6. ASSUME NEW r \in DOMAIN a PROVE p \o r \in DOMAIN t /\ IsPrefix(p, p \o r) /\ a[r] = t[p \o r]
  <2>1. r \in Ways
    BY <1>3
  <2> QED BY <1>3, <2>1, PrefixConcat
<1>7. Held(t) = Held(c) \cup Held(a)
  <2>1. ASSUME NEW q \in DOMAIN t PROVE t[q] \in Held(c) \cup Held(a)
    BY <1>2, <1>5 DEF Held
  <2>2. ASSUME NEW q \in DOMAIN c PROVE c[q] \in Held(t)
    BY <1>2 DEF Held
  <2>3. ASSUME NEW r \in DOMAIN a PROVE a[r] \in Held(t)
    BY <1>6 DEF Held
  <2> QED BY <2>1, <2>2, <2>3 DEF Held
<1>8. ASSUME Single(t) PROVE Single(c) /\ Single(a) /\ Valued(c) \cap Valued(a) = {}
  <2>1. Single(c)
    BY <1>2, <1>8 DEF Single
  <2>2. ASSUME NEW r1 \in DOMAIN a, NEW r2 \in DOMAIN a, a[r1] = a[r2], a[r1].value # 0 PROVE r1 = r2
    <3>1. p \o r1 = p \o r2
      BY <1>6, <1>8, <2>2 DEF Single
    <3>2. r1 \in Ways /\ r2 \in Ways
      BY <1>3
    <3> QED BY <3>1, <3>2, PrefixShift
  <2>3. ASSUME NEW q \in DOMAIN c, NEW r \in DOMAIN a, c[q] = a[r], c[q].value # 0 PROVE FALSE
    BY <1>2, <1>6, <1>8, <2>3 DEF Single
  <2> QED BY <2>1, <2>2, <2>3 DEF Single, Held, Valued
<1> QED BY <1>7, <1>8 DEF a, c

(* With another tree in its place it holds that one instead. *)
LEMMA HangHeld ==
  ASSUME NEW t, IsTree(t), NEW s, IsTree(s), NEW p \in Ways, Reaches(t, p)
  PROVE  /\ Held(Hang(t, p, s)) = Held(Hang(t, p, NoTree)) \cup Held(s)
         /\ Single(Hang(t, p, NoTree)) /\ Single(s) /\ Valued(Hang(t, p, NoTree)) \cap Valued(s) = {}
              => Single(Hang(t, p, s))
<1> DEFINE c == Hang(t, p, NoTree)
           h == Hang(t, p, s)
<1>1. IsTree(NoTree) /\ DOMAIN NoTree = {}
  BY EmptyTree
<1>c. Hangs(c, t, p, NoTree) /\ Hangs(h, t, p, s)
  BY <1>1, HangIs
<1> HIDE DEF c, h
<1>2. /\ \A q \in DOMAIN c : q \in DOMAIN t /\ ~IsPrefix(p, q) /\ c[q] = t[q]
      /\ \A q \in DOMAIN t : ~IsPrefix(p, q) => q \in DOMAIN c /\ c[q] = t[q]
  BY <1>1, <1>c DEF Hangs
<1>3. /\ \A q \in DOMAIN h :
           \/ q \in DOMAIN t /\ ~IsPrefix(p, q) /\ h[q] = t[q]
           \/ \E r \in DOMAIN s : q = p \o r /\ h[q] = s[r]
      /\ \A q \in DOMAIN t : ~IsPrefix(p, q) => q \in DOMAIN h /\ h[q] = t[q]
      /\ \A r \in DOMAIN s : p \o r \in DOMAIN h /\ h[p \o r] = s[r]
  BY <1>c DEF Hangs
<1>4. \A q \in DOMAIN h :
           \/ q \in DOMAIN c /\ h[q] = c[q]
           \/ \E r \in DOMAIN s : q = p \o r /\ h[q] = s[r]
  BY <1>2, <1>3
<1>5. \A q \in DOMAIN c : q \in DOMAIN h /\ h[q] = c[q]
  BY <1>2, <1>3
<1>6. Held(h) = Held(c) \cup Held(s)
  <2>1. ASSUME NEW q \in DOMAIN h PROVE h[q] \in Held(c) \cup Held(s)
    BY <1>4 DEF Held
  <2>2. ASSUME NEW q \in DOMAIN c PROVE c[q] \in Held(h)
    BY <1>5 DEF Held
  <2>3. ASSUME NEW r \in DOMAIN s PROVE s[r] \in Held(h)
    BY <1>3 DEF Held
  <2> QED BY <2>1, <2>2, <2>3 DEF Held
<1>7. ASSUME Single(c), Single(s), Valued(c) \cap Valued(s) = {} PROVE Single(h)
  <2>1. ASSUME NEW q1 \in DOMAIN h, NEW q2 \in DOMAIN h, h[q1] = h[q2], h[q1].value # 0
        PROVE  q1 = q2
    <3>1. CASE q1 \in DOMAIN c /\ h[q1] = c[q1]
      <4>1. h[q1] \in Valued(c)
        BY <2>1, <3>1 DEF Held, Valued
      <4>2. h[q2] \notin Held(s)
        BY <1>7, <2>1, <4>1 DEF Valued
      <4>3. q2 \in DOMAIN c /\ h[q2] = c[q2]
        BY <1>4, <4>2 DEF Held
      <4> QED BY <1>7, <2>1, <3>1, <4>3 DEF Single
    <3>2. CASE \E r \in DOMAIN s : q1 = p \o r /\ h[q1] = s[r]
      <4>1. PICK r1 \in DOMAIN s : q1 = p \o r1 /\ h[q1] = s[r1]
        BY <3>2
      <4>2. h[q2] \notin Held(c)
        BY <1>7, <2>1, <4>1 DEF Held, Valued
      <4>3. PICK r2 \in DOMAIN s : q2 = p \o r2 /\ h[q2] = s[r2]
        BY <1>4, <4>2 DEF Held
      <4> QED BY <1>7, <2>1, <4>1, <4>3 DEF Single
    <3> QED BY <1>4, <3>1, <3>2
  <2> QED BY <2>1 DEF Single
<1> QED BY <1>6, <1>7 DEF c, h

---------------------------------------------------------------------------
(* Every node of a tree lies where its key leads. *)
Ordered(t) == \A q \in DOMAIN t : Leads(t, t[q].key, q)

(* A subtree of an ordered tree is ordered. *)
LEMMA AtOrdered ==
  ASSUME NEW t, IsTree(t), Ordered(t), NEW p \in Ways
  PROVE  Ordered(At(t, p))
<1> DEFINE a == At(t, p)
<1>1. /\ \A r \in Ways : r \in DOMAIN a <=> p \o r \in DOMAIN t
      /\ \A r \in DOMAIN a : a[r] = t[p \o r]
      /\ DOMAIN a \subseteq Ways
  BY AtIs DEF IsTree
<1> HIDE DEF a
<1>2. ASSUME NEW q \in DOMAIN a, NEW r \in DOMAIN a, NEW side \in Links, IsPrefix(Append(r, side), q)
      PROVE  side = SideOf(a[r], a[q].key)
  <2>1. /\ r \in Ways /\ q \in Ways /\ Append(r, side) \in Ways
        /\ p \o r \in DOMAIN t /\ p \o q \in DOMAIN t /\ a[r] = t[p \o r] /\ a[q] = t[p \o q]
    <3>1. r \in Ways /\ q \in Ways
      BY <1>1
    <3> QED BY <1>1, <3>1, PrefixLink
  <2>2. IsPrefix(p \o Append(r, side), p \o q) /\ Append(p \o r, side) = p \o Append(r, side)
    <3>1. IsPrefix(p \o Append(r, side), p \o q) <=> IsPrefix(Append(r, side), q)
      <4>1. PICK b \in Ways : b = Append(r, side)
        BY <2>1
      <4>2. IsPrefix(p \o b, p \o q) <=> IsPrefix(b, q)
        BY <2>1, PrefixShift
      <4> QED BY <4>1, <4>2
    <3>2. Append(p \o r, side) = p \o Append(r, side)
      BY <2>1, AppendShift
    <3> QED BY <1>2, <3>1, <3>2
  <2> QED BY <2>1, <2>2 DEF Ordered, Leads
<1>3. Ordered(a)
  BY <1>2 DEF Ordered, Leads
<1> QED BY <1>3 DEF a

(* To hang a tree where all its keys lead keeps the order. *)
LEMMA HangOrdered ==
  ASSUME NEW t, IsTree(t), Ordered(t), NEW s, IsTree(s), Ordered(s),
         NEW p \in Ways, Reaches(t, p), \A r \in DOMAIN s : Leads(t, s[r].key, p)
  PROVE  Ordered(Hang(t, p, s))
<1> DEFINE h == Hang(t, p, s)
<1>0. Hangs(h, t, p, s)
  BY HangIs
<1> HIDE DEF h
<1>1. /\ IsTree(h)
      /\ \A q \in DOMAIN h :
           \/ q \in DOMAIN t /\ ~IsPrefix(p, q) /\ h[q] = t[q]
           \/ \E r \in DOMAIN s : q = p \o r /\ h[q] = s[r]
      /\ \A q \in DOMAIN t : ~IsPrefix(p, q) => q \in DOMAIN h /\ h[q] = t[q]
      /\ \A r \in DOMAIN s : p \o r \in DOMAIN h /\ h[p \o r] = s[r]
  BY <1>0 DEF Hangs
<1>2. DOMAIN t \subseteq Ways /\ DOMAIN s \subseteq Ways /\ DOMAIN h \subseteq Ways
  BY <1>1 DEF IsTree
<1>3. ASSUME NEW q \in DOMAIN h, NEW a \in DOMAIN h, NEW side \in Links, IsPrefix(Append(a, side), q)
      PROVE  side = SideOf(h[a], h[q].key)
  <2>0. q \in Ways /\ a \in Ways /\ Append(a, side) \in Ways /\ IsPrefix(a, Append(a, side))
    BY <1>2, PrefixLink
  <2>1. IsPrefix(a, q)
    BY <1>3, <2>0, PrefixOrder
  <2>2. CASE q \in DOMAIN t /\ ~IsPrefix(p, q) /\ h[q] = t[q]
    <3>1. ~IsPrefix(p, a)
      BY <2>0, <2>1, <2>2, PrefixOrder
    <3>2. a \in DOMAIN t /\ h[a] = t[a]
      <4>1. ~(\E r \in DOMAIN s : a = p \o r)
        BY <1>2, <3>1, PrefixConcat
      <4> QED BY <1>1, <4>1
    <3> QED BY <1>3, <2>2, <3>2 DEF Ordered, Leads
  <2>3. CASE \E r \in DOMAIN s : q = p \o r /\ h[q] = s[r]
    <3>1. PICK r \in DOMAIN s : q = p \o r /\ h[q] = s[r]
      BY <2>3
    <3>2. r \in Ways /\ IsPrefix(p, q)
      BY <1>2, <3>1, PrefixConcat
    <3>3. CASE IsPrefix(p, a)
      <4>1. PICK b \in DOMAIN s : a = p \o b /\ h[a] = s[b]
        BY <1>1, <3>3
      <4>2. b \in Ways /\ Append(b, side) \in Ways
        BY <1>2, PrefixLink
      <4>3. Append(p \o b, side) = p \o Append(b, side)
        BY <4>2, AppendShift
      <4>4. IsPrefix(Append(b, side), r)
        BY <1>3, <3>1, <3>2, <4>1, <4>2, <4>3, PrefixShift
      <4> QED BY <3>1, <4>1, <4>4 DEF Ordered, Leads
    <3>4. CASE ~IsPrefix(p, a)
      <4>1. a \in DOMAIN t /\ h[a] = t[a]
        <5>1. ~(\E b \in DOMAIN s : a = p \o b)
          BY <1>2, <3>4, PrefixConcat
        <5> QED BY <1>1, <5>1
      <4>2. IsPrefix(Append(a, side), p) \/ IsPrefix(p, Append(a, side))
        BY <1>3, <2>0, <3>2, PrefixOrder
      <4>3. IsPrefix(p, Append(a, side)) => p = Append(a, side)
        BY <2>0, <3>4, PrefixLink
      <4>4. IsPrefix(Append(a, side), p)
        BY <2>0, <4>2, <4>3, PrefixOrder
      <4>5. Leads(t, s[r].key, p)
        OBVIOUS
      <4> QED BY <3>1, <4>1, <4>4, <4>5 DEF Leads
    <3> QED BY <3>3, <3>4
  <2> QED BY <1>1, <2>2, <2>3
<1>4. Ordered(h)
  BY <1>3 DEF Ordered, Leads
<1> QED BY <1>4 DEF h

(* The way of a key ends somewhere. *)
LEMMA SlotIs ==
  ASSUME NEW t, IsTree(t), NEW k
  PROVE  /\ Slot(t, k) \in Ways /\ Slot(t, k) \notin DOMAIN t /\ Leads(t, k, Slot(t, k))
         /\ Reaches(t, Slot(t, k))
<1> DEFINE S == {Len(p) : p \in {p \in DOMAIN t : Leads(t, k, p)}}
<1>0. DOMAIN t \subseteq Ways
  BY DEF IsTree
<1>1. \E p \in Free(t) : Leads(t, k, p)
  <2>1. CASE DOMAIN t = {}
    <3>1. <<>> \in Free(t)
      BY <2>1 DEF Free
    <3>2. Leads(t, k, <<>>)
      BY <2>1 DEF Leads
    <3> QED BY <3>1, <3>2
  <2>2. CASE DOMAIN t # {}
    <3>1. <<>> \in DOMAIN t /\ <<>> \in Ways
      BY <2>2, RootIn DEF IsTree
    <3>2. Leads(t, k, <<>>)
      <4>1. ASSUME NEW q \in DOMAIN t, NEW side \in Links PROVE ~IsPrefix(Append(q, side), <<>>)
        <5>1. q \in Ways /\ Len(q) \in Nat /\ Len(<<>>) = 0
          BY <1>0 DEF Ways
        <5> QED BY <3>1, <5>1, PrefixLink
      <4> QED BY <4>1 DEF Leads
    <3>3. S \in SUBSET Nat /\ S # {}
      <4>1. \A p \in DOMAIN t : Len(p) \in Nat
        BY <1>0 DEF Ways
      <4> QED BY <3>1, <3>2, <4>1
    <3>4. PICK n \in Nat : \A p \in DOMAIN t : Len(p) <= n
      BY DEF IsTree
    <3>5. \A m \in S : m <= n
      BY <3>4
    <3>6. PICK m \in S : \A j \in S : j <= m
      BY <3>3, <3>5, GreatestOf
    <3>7. PICK p \in DOMAIN t : Leads(t, k, p) /\ Len(p) = m
      BY <3>6
    <3> DEFINE side == SideOf(t[p], k)
               f == Append(p, side)
    <3>8. p \in Ways /\ side \in {"left", "right"} /\ side \in Links
      BY <1>0 DEF SideOf, Links
    <3> HIDE DEF side
    <3>9. f \in Ways /\ Len(f) = Len(p) + 1 /\ Len(p) \in Nat
      BY <3>8 DEF Ways
    <3>10. Leads(t, k, f)
      <4>1. ASSUME NEW q \in DOMAIN t, NEW l \in Links, IsPrefix(Append(q, l), f)
            PROVE  l = SideOf(t[q], k)
        <5>1. q \in Ways /\ Append(q, l) \in Ways
          BY <1>0, PrefixLink
        <5>2. IsPrefix(Append(q, l), p) \/ Append(q, l) = f
          BY <3>8, <4>1, <5>1, PrefixLink
        <5>3. CASE IsPrefix(Append(q, l), p)
          BY <3>7, <5>3 DEF Leads
        <5>4. CASE Append(q, l) = f
          <6>1. q = p /\ l = side
            BY <3>8, <5>1, <5>4, AppendInjective DEF Ways
          <6> QED BY <6>1 DEF side
        <5> QED BY <5>2, <5>3, <5>4
      <4> QED BY <4>1 DEF Leads
    <3>11. f \notin DOMAIN t
      <4>1. ASSUME f \in DOMAIN t PROVE FALSE
        <5>1. Len(f) \in S
          BY <3>10, <4>1
        <5> QED BY <3>6, <3>7, <3>9, <5>1
      <4> QED BY <4>1
    <3>12. f \in Free(t)
      BY <3>8, <3>11 DEF Free
    <3> QED BY <3>10, <3>12
  <2> QED BY <2>1, <2>2
<1> DEFINE z == Slot(t, k)
<1>2. z \in Free(t) /\ Leads(t, k, z)
  BY <1>1 DEF Slot
<1> HIDE DEF z
<1>3. z \notin DOMAIN t /\ (z = <<>> \/ \E p \in DOMAIN t, side \in {"left", "right"} : z = Append(p, side))
  BY <1>2 DEF Free
<1>4. CASE z = <<>>
  <2>1. z \in Ways
    BY <1>4 DEF Ways
  <2>2. \A q \in Ways : IsPrefix(q, z) => q = z
    BY <1>4, <2>1, PrefixOrder
  <2>3. Reaches(t, z)
    BY <2>2 DEF Reaches
  <2> QED BY <1>2, <1>3, <2>1, <2>3 DEF z
<1>5. CASE \E p \in DOMAIN t, side \in {"left", "right"} : z = Append(p, side)
  <2>1. PICK p \in DOMAIN t, side \in {"left", "right"} : z = Append(p, side)
    BY <1>5
  <2>2. p \in Ways /\ side \in Links
    BY <1>0, <2>1 DEF Links
  <2>3. z \in Ways /\ \A q \in Ways : IsPrefix(q, z) => IsPrefix(q, p) \/ q = z
    BY <2>1, <2>2, PrefixLink
  <2>4. Reaches(t, z)
    BY <2>3, <2>1 DEF Reaches, IsTree
  <2> QED BY <1>2, <1>3, <2>3, <2>4 DEF z
<1> QED BY <1>3, <1>4, <1>5

---------------------------------------------------------------------------
(* btree_insert. *)
LEMMA InsertIs ==
  ASSUME NEW t, IsTree(t), NEW s, IsTree(s), DOMAIN s # {}
  PROVE  /\ IsTree(Insert(t, s)) /\ DOMAIN Insert(t, s) # {}
         /\ Held(Insert(t, s)) = Held(t) \cup Held(s)
         /\ Single(t) /\ Single(s) /\ Valued(t) \cap Valued(s) = {} => Single(Insert(t, s))
         /\ Ordered(t) /\ Ordered(s)
              /\ (\A q \in DOMAIN t, r \in DOMAIN s :
                    SideOf(t[q], s[r].key) = SideOf(t[q], s[<<>>].key))
              => Ordered(Insert(t, s))
<1> DEFINE k == s[<<>>].key
           z == Slot(t, k)
           c == Hang(t, z, NoTree)
<1>1. z \in Ways /\ z \notin DOMAIN t /\ Leads(t, k, z) /\ Reaches(t, z)
  BY SlotIs
<1>2. Insert(t, s) = Hang(t, z, s)
  BY DEF Insert
<1> HIDE DEF z
<1>3. Held(At(t, z)) = {}
  <2>1. ASSUME NEW r \in DOMAIN At(t, z) PROVE FALSE
    <3>1. r \in Ways /\ z \o r \in DOMAIN t
      BY <1>1, AtIs DEF IsTree
    <3>2. IsPrefix(z, z \o r)
      BY <1>1, <3>1, PrefixConcat
    <3> QED BY <1>1, <3>1, <3>2 DEF IsTree
  <2> QED BY <2>1 DEF Held
<1>4. Held(t) = Held(c) /\ (Single(t) => Single(c))
  <2>1. /\ Held(t) = Held(c) \cup Held(At(t, z))
        /\ Single(t) => Single(c)
    BY <1>1, PartsHeld
  <2> QED BY <1>3, <2>1
<1> HIDE DEF c
<1>5. Hangs(Hang(t, z, s), t, z, s)
  BY <1>1, HangIs
<1>6. IsTree(Hang(t, z, s)) /\ DOMAIN Hang(t, z, s) # {}
  BY <1>5 DEF Hangs
<1>7. /\ Held(Hang(t, z, s)) = Held(c) \cup Held(s)
      /\ Single(c) /\ Single(s) /\ Valued(c) \cap Valued(s) = {} => Single(Hang(t, z, s))
  BY <1>1, HangHeld DEF c
<1>8. ASSUME Ordered(t), Ordered(s), \A q \in DOMAIN t, r \in DOMAIN s : SideOf(t[q], s[r].key) = SideOf(t[q], k)
      PROVE  Ordered(Hang(t, z, s))
  <2>1. ASSUME NEW r \in DOMAIN s PROVE Leads(t, s[r].key, z)
    BY <1>1, <1>8 DEF Leads
  <2> HIDE DEF k
  <2> QED BY <1>1, <1>8, <2>1, HangOrdered
<1>9. Valued(t) = Valued(c)
  BY <1>4 DEF Valued
<1> QED BY <1>2, <1>4, <1>6, <1>7, <1>8, <1>9

(* No key twice. *)
KeysDiffer(t) == \A p, q \in DOMAIN t : t[p].key = t[q].key => p = q

(* A turn of the loop of btree_balance. *)
LEMMA RootDownIs ==
  ASSUME NEW t, IsTree(t), DOMAIN t # {}, NEW side \in {"left", "right"}
  PROVE  /\ IsTree(RootDown(t, side)) /\ DOMAIN RootDown(t, side) # {}
         /\ Held(RootDown(t, side)) = Held(t)
         /\ Single(t) => Single(RootDown(t, side))
         /\ Ordered(t) /\ KeysDiffer(t) /\ (\A p \in DOMAIN t : t[p].key \in Int)
              => Ordered(RootDown(t, side))
<1> DEFINE s == <<side>>
           a == At(t, s)
           c == Hang(t, s, NoTree)
<1>1. side \in Links
  BY DEF Links
<1>2. <<>> \in DOMAIN t /\ s \in Ways /\ Reaches(t, s) /\ <<>> \in Ways
  BY <1>1, RootIn DEF IsTree
<1>3. IsTree(NoTree) /\ DOMAIN NoTree = {}
  BY EmptyTree
<1>s. s = Append(<<>>, side) /\ Len(s) = 1
  OBVIOUS
<1> HIDE DEF s
<1>4. /\ IsTree(a) /\ DOMAIN a \subseteq Ways
      /\ \A r \in DOMAIN a : s \o r \in DOMAIN t /\ a[r] = t[s \o r]
  <2>1. IsTree(a) /\ DOMAIN a \subseteq Ways
    BY <1>2, AtIs DEF IsTree
  <2>2. ASSUME NEW r \in DOMAIN a PROVE s \o r \in DOMAIN t /\ a[r] = t[s \o r]
    <3>1. r \in Ways
      BY <2>1
    <3> QED BY <1>2, <3>1, AtIs
  <2> QED BY <2>1, <2>2
<1>c. Hangs(c, t, s, NoTree)
  BY <1>2, <1>3, HangIs
<1>5. /\ Held(t) = Held(c) \cup Held(a)
      /\ Single(t) => Single(c) /\ Single(a) /\ Valued(c) \cap Valued(a) = {}
  BY <1>2, PartsHeld
<1>6. RootDown(t, side) = Insert(a, c)
  BY DEF RootDown, s
<1>7. Ordered(t) => Ordered(a)
  BY <1>2, AtOrdered
<1>8. Ordered(t) => Ordered(c)
  <2>1. Ordered(NoTree)
    BY <1>3 DEF Ordered
  <2> QED BY <1>2, <1>3, <2>1, HangOrdered
<1> HIDE DEF a, c
<1>9. /\ IsTree(c)
      /\ \A q \in DOMAIN c : q \in DOMAIN t /\ ~IsPrefix(s, q) /\ c[q] = t[q]
      /\ \A q \in DOMAIN t : ~IsPrefix(s, q) => q \in DOMAIN c /\ c[q] = t[q]
  BY <1>3, <1>c DEF Hangs
<1>10. ~IsPrefix(s, <<>>)
  BY <1>s DEF IsPrefix
<1>11. <<>> \in DOMAIN c /\ c[<<>>] = t[<<>>]
  BY <1>2, <1>9, <1>10
<1>12. /\ IsTree(Insert(a, c)) /\ DOMAIN Insert(a, c) # {}
       /\ Held(Insert(a, c)) = Held(a) \cup Held(c)
       /\ Single(a) /\ Single(c) /\ Valued(a) \cap Valued(c) = {} => Single(Insert(a, c))
       /\ Ordered(a) /\ Ordered(c)
              /\ (\A q \in DOMAIN a, r \in DOMAIN c :
                    SideOf(a[q], c[r].key) = SideOf(a[q], c[<<>>].key))
              => Ordered(Insert(a, c))
  BY <1>4, <1>9, <1>11, InsertIs
<1>13. ASSUME Ordered(t), KeysDiffer(t), \A p \in DOMAIN t : t[p].key \in Int,
              NEW q \in DOMAIN a, NEW r \in DOMAIN c
       PROVE  SideOf(a[q], c[r].key) = SideOf(a[q], c[<<>>].key)
  <2> DEFINE root == t[<<>>].key
             x == a[q].key
             y == c[r].key
  <2>1. q \in Ways /\ s \o q \in DOMAIN t /\ a[q] = t[s \o q] /\ IsPrefix(s, s \o q)
    BY <1>2, <1>4, PrefixConcat
  <2>2. r \in DOMAIN t /\ ~IsPrefix(s, r) /\ c[r] = t[r] /\ r \in Ways
    BY <1>9 DEF IsTree
  <2>3. x \in Int /\ y \in Int /\ root \in Int
    BY <1>2, <1>13, <2>1, <2>2
  <2>4. side = SideOf(t[<<>>], x)
    BY <1>1, <1>2, <1>13, <1>s, <2>1 DEF Ordered, Leads
  <2>5. x # root
    <3>1. s \o q # <<>>
      BY <1>10, <2>1
    <3> QED BY <1>2, <1>13, <2>1, <3>1 DEF KeysDiffer
  <2>6. r = <<>> \/ SideOf(t[<<>>], y) # side
    <3>1. ASSUME r # <<>> PROVE SideOf(t[<<>>], y) # side
      <4>1. Len(r) \in Nat /\ Len(r) > 0
        BY <2>2, <3>1 DEF Ways
      <4> DEFINE l == r[1]
      <4>2. l \in Links
        BY <2>2, <4>1, ElementOfSeq DEF Ways
      <4>3. IsPrefix(<<>>, r) /\ Len(<<>>) = 0
        BY <2>2, PrefixOrder
      <4>4. IsPrefix(Append(<<>>, l), r)
        <5>1. Len(<<>>) < Len(r) /\ r[Len(<<>>) + 1] = l
          BY <4>1, <4>3
        <5> QED BY <1>2, <2>2, <4>2, <4>3, <5>1, PrefixLink
      <4>5. l = SideOf(t[<<>>], y)
        BY <1>2, <1>13, <2>2, <4>2, <4>4 DEF Ordered, Leads
      <4>6. l # side
        BY <1>s, <2>2, <4>4
      <4> QED BY <4>5, <4>6
    <3> QED BY <3>1
  <2>7. c[<<>>].key = root
    BY <1>11
  <2> HIDE DEF x, y, root
  <2>8. CASE side = "right"
    <3>1. ~(x < root) /\ (y < root \/ y = root)
      BY <2>2, <2>4, <2>6, <2>8, <1>11 DEF SideOf, root, y
    <3>2. root < x /\ y < x
      BY <2>3, <2>5, <3>1
    <3> QED BY <2>7, <3>2 DEF SideOf, x, y
  <2>9. CASE side = "left"
    <3>1. x < root /\ (~(y < root) \/ y = root)
      BY <2>2, <2>4, <2>6, <2>9, <1>11 DEF SideOf, root, y
    <3>2. ~(root < x) /\ ~(y < x)
      BY <2>3, <2>5, <3>1
    <3> QED BY <2>7, <3>2 DEF SideOf, x, y
  <2> QED BY <2>8, <2>9
<1> QED BY <1>5, <1>6, <1>7, <1>8, <1>12, <1>13

(* The same in place: the subtree at p is what its turn leaves of it. *)
LEMMA TurnIs ==
  ASSUME NEW t, IsTree(t), NEW p \in DOMAIN t, NEW side \in {"left", "right"}
  PROVE  LET h == Hang(t, p, RootDown(At(t, p), side))
         IN  /\ IsTree(h) /\ p \in DOMAIN h
             /\ Held(h) = Held(t)
             /\ Single(t) => Single(h)
             /\ Ordered(t) /\ KeysDiffer(t) /\ (\A q \in DOMAIN t : t[q].key \in Int)
                  => Ordered(h)
<1> DEFINE a == At(t, p)
           d == RootDown(a, side)
           h == Hang(t, p, d)
           c == Hang(t, p, NoTree)
<1>1. p \in Ways /\ Reaches(t, p)
  BY DEF IsTree, Reaches
<1>2. /\ IsTree(a) /\ DOMAIN a \subseteq Ways
      /\ \A r \in Ways : r \in DOMAIN a <=> p \o r \in DOMAIN t
      /\ \A r \in DOMAIN a : a[r] = t[p \o r]
  BY <1>1, AtIs DEF IsTree
<1>3. /\ Held(t) = Held(c) \cup Held(a)
      /\ Single(t) => Single(c) /\ Single(a) /\ Valued(c) \cap Valued(a) = {}
  BY <1>1, PartsHeld
<1>4. Ordered(t) => Ordered(a)
  BY <1>1, AtOrdered
<1> HIDE DEF a
<1>5. <<>> \in DOMAIN a /\ <<>> \in Ways
  <2>1. <<>> \in Ways /\ p \o <<>> = p
    BY <1>1, PrefixConcat DEF Ways
  <2> QED BY <1>2, <2>1
<1>6. /\ IsTree(d) /\ DOMAIN d # {}
      /\ Held(d) = Held(a)
      /\ Single(a) => Single(d)
      /\ Ordered(a) /\ KeysDiffer(a) /\ (\A q \in DOMAIN a : a[q].key \in Int) => Ordered(d)
  BY <1>2, <1>5, RootDownIs
<1> HIDE DEF d
<1>7. /\ Held(h) = Held(c) \cup Held(d)
      /\ Single(c) /\ Single(d) /\ Valued(c) \cap Valued(d) = {} => Single(h)
  BY <1>1, <1>6, HangHeld
<1>8. Hangs(h, t, p, d)
  BY <1>1, <1>6, HangIs
<1>9. IsTree(h) /\ p \in DOMAIN h
  <2>1. <<>> \in DOMAIN d
    BY <1>6, RootIn
  <2>2. p \o <<>> \in DOMAIN h
    BY <1>8, <2>1 DEF Hangs
  <2>3. p \o <<>> = p
    BY <1>1, <1>5, PrefixConcat
  <2> QED BY <1>8, <2>2, <2>3 DEF Hangs
<1>10. ASSUME Ordered(t), KeysDiffer(t), \A q \in DOMAIN t : t[q].key \in Int PROVE Ordered(h)
  <2>1. ASSUME NEW r1 \in DOMAIN a, NEW r2 \in DOMAIN a, a[r1].key = a[r2].key PROVE r1 = r2
    <3>1. r1 \in Ways /\ r2 \in Ways /\ p \o r1 \in DOMAIN t /\ p \o r2 \in DOMAIN t
      BY <1>2
    <3>2. p \o r1 = p \o r2
      BY <1>2, <1>10, <2>1, <3>1 DEF KeysDiffer
    <3> QED BY <1>1, <3>1, <3>2, PrefixShift
  <2>2. \A r \in DOMAIN a : a[r].key \in Int
    BY <1>2, <1>10
  <2>3. Ordered(d)
    BY <1>4, <1>6, <1>10, <2>1, <2>2 DEF KeysDiffer
  <2>4. ASSUME NEW r \in DOMAIN d PROVE Leads(t, d[r].key, p)
    <3>1. d[r] \in Held(a)
      BY <1>6 DEF Held
    <3>2. PICK b \in DOMAIN a : d[r] = a[b]
      BY <3>1 DEF Held
    <3>3. b \in Ways /\ p \o b \in DOMAIN t /\ d[r] = t[p \o b] /\ IsPrefix(p, p \o b) /\ p \o b \in Ways
      BY <1>1, <1>2, <3>2, PrefixConcat
    <3>4. ASSUME NEW q \in DOMAIN t, NEW l \in Links, IsPrefix(Append(q, l), p)
          PROVE  l = SideOf(t[q], d[r].key)
      <4>1. q \in Ways /\ Append(q, l) \in Ways
        BY PrefixLink DEF IsTree
      <4>2. IsPrefix(Append(q, l), p \o b)
        BY <1>1, <3>3, <3>4, <4>1, PrefixOrder
      <4> QED BY <1>10, <3>3, <4>2 DEF Ordered, Leads
    <3> QED BY <3>4 DEF Leads
  <2> QED BY <1>1, <1>6, <1>10, <2>3, <2>4, HangOrdered
<1>11. Valued(d) = Valued(a)
  BY <1>6 DEF Valued
<1> QED BY <1>3, <1>6, <1>7, <1>9, <1>10, <1>11 DEF a, d

---------------------------------------------------------------------------
(* The invariant of btree.c. *)
Entry(i) == [key |-> added[i][1], value |-> added[i][2]]

(* Of equal keys the one added first is above the others. *)
Aged(t) ==
  \A p, q \in DOMAIN t : IsStrictPrefix(p, q) /\ t[p].key = t[q].key => t[p].value < t[q].value

TreeInv ==
  /\ added \in Seq(Keys \X Nat)
  /\ \A i \in DOMAIN added : added[i][2] = i
  /\ IsTree(tree) /\ Single(tree)
  /\ Held(tree) = {Entry(i) : i \in DOMAIN added}
  /\ ~shuffled => Ordered(tree) /\ Aged(tree)
  /\ calls \in Seq(Ways)
  /\ calls # <<>> /\ ~shuffled => ~TwiceIn(added)
  /\ entered => calls # <<>> /\ Head(calls) \in DOMAIN tree

(* What a tree holds are entries. *)
LEMMA NodeIs ==
  ASSUME TreeInv, NEW p \in DOMAIN tree
  PROVE  \E i \in DOMAIN added : /\ tree[p].key = added[i][1] /\ tree[p].value = i
                                 /\ tree[p] = Entry(i)
                                 /\ added[i][1] \in Keys /\ added[i][1] \in Int /\ i \in Nat /\ i # 0
<1>1. tree[p] \in Held(tree)
  BY DEF Held
<1>2. PICK i \in DOMAIN added : tree[p] = Entry(i)
  BY <1>1 DEF TreeInv
<1>3. added[i] \in Keys \X Nat /\ i \in Nat /\ i # 0 /\ added[i][2] = i
  BY DEF TreeInv
<1>4. added[i][1] \in Keys /\ added[i][1] \in Int
  <2>1. added[i][1] \in Keys
    BY <1>3
  <2>2. \A k \in Keys : k \in Int
    BY BtreeAssumption
  <2> QED BY <2>1, <2>2
<1> QED BY <1>2, <1>3, <1>4 DEF Entry

(* Every entry has a node that holds it. *)
LEMMA EntryIn ==
  ASSUME TreeInv, NEW i \in DOMAIN added
  PROVE  \E p \in DOMAIN tree : tree[p] = Entry(i) /\ tree[p].key = added[i][1] /\ tree[p].value = i
<1>1. Entry(i) \in Held(tree)
  BY DEF TreeInv
<1>2. PICK p \in DOMAIN tree : tree[p] = Entry(i)
  BY <1>1 DEF Held
<1>3. added[i][2] = i
  BY DEF TreeInv
<1> QED BY <1>2, <1>3 DEF Entry

(* Keys added once differ. *)
LEMMA OnceDiffer ==
  ASSUME TreeInv, ~TwiceIn(added)
  PROVE  KeysDiffer(tree)
<1>1. ASSUME NEW p \in DOMAIN tree, NEW q \in DOMAIN tree, tree[p].key = tree[q].key PROVE p = q
  <2>1. PICK i \in DOMAIN added :
          tree[p].key = added[i][1] /\ tree[p] = Entry(i) /\ tree[p].value # 0
    BY NodeIs
  <2>2. PICK j \in DOMAIN added : tree[q].key = added[j][1] /\ tree[q] = Entry(j)
    BY NodeIs
  <2>3. i = j
    BY <1>1, <2>1, <2>2 DEF TwiceIn
  <2> QED BY <2>1, <2>2, <2>3 DEF TreeInv, Single
<1> QED BY <1>1 DEF KeysDiffer

(* One node. *)
LEMMA LeafIs ==
  ASSUME NEW k, NEW v
  PROVE  /\ IsTree(Leaf(k, v)) /\ DOMAIN Leaf(k, v) = {<<>>}
         /\ Leaf(k, v)[<<>>] = [key |-> k, value |-> v]
         /\ Single(Leaf(k, v)) /\ Held(Leaf(k, v)) = {[key |-> k, value |-> v]}
         /\ Ordered(Leaf(k, v))
<1> DEFINE l == Leaf(k, v)
<1>1. DOMAIN l = {<<>>} /\ l[<<>>] = [key |-> k, value |-> v] /\ l = [p \in DOMAIN l |-> l[p]]
  BY DEF Leaf
<1> HIDE DEF l
<1>2. <<>> \in Ways /\ Len(<<>>) = 0
  BY DEF Ways
<1>3. \A q \in Ways : IsPrefix(q, <<>>) => q = <<>>
  BY <1>2, PrefixOrder
<1>4. IsTree(l)
  <2>1. \A p \in DOMAIN l : Len(p) <= 0
    BY <1>1, <1>2
  <2> QED BY <1>1, <1>2, <1>3, <2>1 DEF IsTree
<1>5. Single(l) /\ Held(l) = {[key |-> k, value |-> v]}
  BY <1>1 DEF Single, Held
<1>6. \A side \in Links : ~IsPrefix(Append(<<>>, side), <<>>)
  BY <1>2, PrefixLink
<1>7. Ordered(l)
  BY <1>1, <1>6 DEF Ordered, Leads
<1> QED BY <1>1, <1>4, <1>5, <1>7 DEF l

(* Adding a key keeps the invariant: the entry comes to lie where its key  *)
(* leads, under those added before it.                                     *)
LEMMA AddStep ==
  ASSUME TreeInv, NEW k \in Keys, TreeAdd(k)
  PROVE  TreeInv'
<1> DEFINE n == Len(added) + 1
           l == Leaf(k, n)
           h == Insert(tree, l)
<1>1. /\ calls = <<>> /\ added' = Append(added, <<k, n>>)
      /\ tree' = (IF tree = NoTree THEN l ELSE h)
      /\ shuffled' = shuffled /\ calls' = calls /\ entered' = entered
  BY DEF TreeAdd, BtreeAdd
<1>2. added \in Seq(Keys \X Nat) /\ n \in Nat /\ Len(added) \in Nat /\ DOMAIN added = 1 .. Len(added)
  BY DEF TreeInv
<1>3. /\ IsTree(l) /\ DOMAIN l = {<<>>} /\ l[<<>>] = [key |-> k, value |-> n]
      /\ Single(l) /\ Held(l) = {[key |-> k, value |-> n]} /\ Ordered(l)
  BY LeafIs
<1> HIDE DEF l
<1>4. \A p \in DOMAIN tree : tree[p].value \in Nat /\ tree[p].value < n
  <2>1. ASSUME NEW p \in DOMAIN tree PROVE tree[p].value \in Nat /\ tree[p].value < n
    <3>1. PICK i \in DOMAIN added : tree[p].value = i
      BY NodeIs
    <3> QED BY <1>2, <3>1
  <2> QED BY <2>1
<1>5. Valued(tree) \cap Valued(l) = {}
  <2>1. ASSUME NEW p \in DOMAIN tree, tree[p] = [key |-> k, value |-> n] PROVE FALSE
    <3>1. tree[p].value = n
      BY <2>1
    <3> QED BY <1>2, <1>4, <3>1
  <2> QED BY <1>3, <2>1 DEF Held, Valued
<1>6. IsTree(tree) /\ Single(tree)
  BY DEF TreeInv
<1>7. /\ IsTree(h) /\ Held(h) = Held(tree) \cup Held(l) /\ Single(h)
      /\ Ordered(tree) => Ordered(h)
  BY <1>3, <1>5, <1>6, InsertIs
<1>8. Aged(tree) => Aged(h)
  <2> DEFINE z == Slot(tree, l[<<>>].key)
  <2>1. z \in Ways /\ z \notin DOMAIN tree /\ Reaches(tree, z)
    BY <1>6, SlotIs
  <2>2. h = Hang(tree, z, l)
    BY DEF Insert
  <2> HIDE DEF z, h
  <2>3. Hangs(h, tree, z, l)
    BY <1>3, <1>6, <2>1, <2>2, HangIs
  <2>4. z \o <<>> = z
    BY <2>1, PrefixConcat DEF Ways
  <2>5. \A q \in DOMAIN h : \/ q \in DOMAIN tree /\ ~IsPrefix(z, q) /\ h[q] = tree[q]
                            \/ q = z /\ h[q].value = n
    BY <1>3, <2>3, <2>4 DEF Hangs
  <2>6. ASSUME Aged(tree), NEW p \in DOMAIN h, NEW q \in DOMAIN h, IsStrictPrefix(p, q),
               h[p].key = h[q].key
        PROVE  h[p].value < h[q].value
    <3>1. IsPrefix(p, q) /\ p # q
      BY <2>6 DEF IsStrictPrefix
    <3>2. CASE q = z
      <4>1. h[q].value = n
        BY <2>1, <2>5, <3>2
      <4>2. p \in DOMAIN tree /\ h[p] = tree[p]
        BY <2>5, <3>1, <3>2
      <4> QED BY <1>4, <4>1, <4>2
    <3>3. CASE q # z
      <4>1. q \in DOMAIN tree /\ ~IsPrefix(z, q) /\ h[q] = tree[q]
        BY <2>5, <3>3
      <4>2. p \in DOMAIN tree /\ h[p] = tree[p]
        BY <2>5, <3>1, <4>1
      <4> QED BY <2>6, <4>1, <4>2 DEF Aged
    <3> QED BY <3>2, <3>3
  <2> QED BY <2>6 DEF Aged
<1> HIDE DEF h
<1>9. tree = NoTree => Held(tree) = {} /\ Aged(l)
  <2>1. tree = NoTree => Held(tree) = {}
    BY EmptyTree DEF Held
  <2>2. Aged(l)
    BY <1>3 DEF Aged, IsStrictPrefix
  <2> QED BY <2>1, <2>2
<1>10. /\ IsTree(tree') /\ Held(tree') = Held(tree) \cup {[key |-> k, value |-> n]} /\ Single(tree')
       /\ ~shuffled => Ordered(tree') /\ Aged(tree')
  BY <1>1, <1>3, <1>7, <1>8, <1>9 DEF TreeInv
<1>11. /\ added' \in Seq(Keys \X Nat) /\ DOMAIN added' = DOMAIN added \cup {n}
       /\ \A i \in DOMAIN added : added'[i] = added[i]
       /\ added'[n] = <<k, n>>
  BY <1>1, <1>2
<1>12. \A i \in DOMAIN added' : added'[i][2] = i
  BY <1>11 DEF TreeInv
<1>13. {Entry(i)' : i \in DOMAIN added'} = {Entry(i) : i \in DOMAIN added} \cup {[key |-> k, value |-> n]}
  <2>1. \A i \in DOMAIN added : Entry(i)' = Entry(i)
    BY <1>11 DEF Entry
  <2>2. n \in DOMAIN added' /\ [key |-> added'[n][1], value |-> added'[n][2]] = [key |-> k, value |-> n]
    BY <1>11
  <2>3. \A i \in DOMAIN added' : Entry(i)' = [key |-> added'[i][1], value |-> added'[i][2]]
    BY DEF Entry
  <2> QED BY <1>11, <2>1, <2>2, <2>3
<1>14. Held(tree') = {Entry(i)' : i \in DOMAIN added'}
  BY <1>10, <1>13 DEF TreeInv
<1> QED BY <1>1, <1>10, <1>11, <1>12, <1>14 DEF TreeInv, Held, Single, Ordered, Aged, IsTree, Leads

(* So does a call of btree_balance; it gives up the order when a key is    *)
(* there twice.                                                            *)
LEMMA BalanceStep ==
  ASSUME TreeInv, TreeBalance
  PROVE  TreeInv'
<1>1. /\ calls' = << <<>> >> /\ shuffled' = (shuffled \/ TwiceIn(added)) /\ calls = <<>>
      /\ tree' = tree /\ added' = added /\ entered' = entered
  BY DEF TreeBalance
<1>2. calls' \in Seq(Ways)
  BY <1>1 DEF Ways
<1>3. ~shuffled' => ~shuffled /\ ~TwiceIn(added)'
  BY <1>1 DEF TwiceIn
<1>4. Held(tree)' = {Entry(i)' : i \in DOMAIN added'}
  BY <1>1 DEF TreeInv, Entry, Held
<1>5. ~entered'
  BY <1>1 DEF TreeInv
<1>6. IsTree(tree)' /\ Single(tree)' /\ (~shuffled' => Ordered(tree)' /\ Aged(tree)')
  BY <1>1, <1>3 DEF TreeInv, IsTree, Single, Ordered, Aged, Leads
<1> QED BY <1>1, <1>2, <1>3, <1>4, <1>5, <1>6 DEF TreeInv

(* Only the calls to come change. *)
LEMMA CallsStep ==
  ASSUME TreeInv, tree' = tree, added' = added, shuffled' = shuffled, calls # <<>>,
         calls' \in Seq(Ways), entered' => calls' # <<>> /\ Head(calls') \in DOMAIN tree
  PROVE  TreeInv'
<1>1. Held(tree)' = {Entry(i)' : i \in DOMAIN added'}
  BY DEF TreeInv, Entry, Held
<1>2. IsTree(tree)' /\ Single(tree)' /\ (~shuffled' => Ordered(tree)' /\ Aged(tree)')
  BY DEF TreeInv, IsTree, Single, Ordered, Aged, Leads
<1>3. ~shuffled' => ~TwiceIn(added)'
  BY DEF TreeInv, TwiceIn
<1> QED BY <1>1, <1>2, <1>3 DEF TreeInv

(* So does the beginning of a call that waited. *)
LEMMA EnterStep ==
  ASSUME TreeInv, BalanceEnter
  PROVE  TreeInv'
<1>1. /\ calls # <<>> /\ ~entered /\ tree' = tree /\ added' = added /\ shuffled' = shuffled
      /\ calls \in Seq(Ways)
  BY DEF BalanceEnter, TreeInv
<1>2. CASE Head(calls) \in DOMAIN tree
  <2>1. calls' = calls
    BY <1>2 DEF BalanceEnter
  <2> QED BY <1>1, <1>2, <2>1, CallsStep
<1>3. CASE Head(calls) \notin DOMAIN tree
  <2>1. calls' = Tail(calls) /\ ~entered'
    BY <1>1, <1>3 DEF BalanceEnter
  <2>2. calls' \in Seq(Ways)
    BY <1>1, <2>1, HeadTailProperties
  <2> QED BY <1>1, <2>1, <2>2, CallsStep
<1> QED BY <1>2, <1>3

(* So does going on with the subtrees. *)
LEMMA DownStep ==
  ASSUME TreeInv, BalanceDown
  PROVE  TreeInv'
<1> DEFINE two == <<Append(Head(calls), "left"), Append(Head(calls), "right")>>
<1>1. /\ entered /\ calls # <<>> /\ ~entered' /\ tree' = tree /\ added' = added /\ shuffled' = shuffled
      /\ calls \in Seq(Ways) /\ calls' = two \o Tail(calls)
  BY DEF BalanceDown, TreeInv
<1>2. Head(calls) \in Ways /\ Tail(calls) \in Seq(Ways)
  BY <1>1, HeadTailProperties
<1>3. "left" \in Links /\ "right" \in Links
  BY DEF Links
<1>4. Append(Head(calls), "left") \in Ways /\ Append(Head(calls), "right") \in Ways
  BY <1>2, <1>3, PrefixLink
<1>5. two \in Seq(Ways)
  BY <1>4
<1> HIDE DEF two
<1>6. calls' \in Seq(Ways)
  BY <1>1, <1>2, <1>5, ConcatProperties
<1> QED BY <1>1, <1>6, CallsStep

(* So does a turn of its loop. *)
LEMMA MoveStep ==
  ASSUME TreeInv, BalanceMove
  PROVE  TreeInv'
<1> DEFINE p == Head(calls)
           side == IF moves > 0 THEN "right" ELSE "left"
           h == Hang(tree, p, RootDown(At(tree, p), side))
<1>1. /\ entered /\ calls # <<>> /\ p \in DOMAIN tree
      /\ tree' = h /\ added' = added /\ shuffled' = shuffled /\ calls' = calls /\ entered' = entered
      /\ calls \in Seq(Ways)
  BY DEF BalanceMove, TreeInv
<1>2. side \in {"left", "right"} /\ IsTree(tree) /\ Single(tree)
  BY DEF TreeInv
<1>3. \A q \in DOMAIN tree : tree[q].key \in Int
  BY NodeIs
<1> HIDE DEF side, p
<1>4. /\ IsTree(h) /\ p \in DOMAIN h
      /\ Held(h) = Held(tree)
      /\ Single(tree) => Single(h)
      /\ Ordered(tree) /\ KeysDiffer(tree) /\ (\A q \in DOMAIN tree : tree[q].key \in Int)
           => Ordered(h)
  BY <1>1, <1>2, TurnIs
<1> HIDE DEF h
<1>5. ASSUME ~shuffled PROVE Ordered(h) /\ Aged(h)
  <2>1. KeysDiffer(tree) /\ Ordered(tree)
    BY <1>1, <1>5, OnceDiffer DEF TreeInv
  <2>2. Ordered(h)
    BY <1>3, <1>4, <2>1
  <2>3. ASSUME NEW a \in DOMAIN h, NEW b \in DOMAIN h, h[a].key = h[b].key PROVE a = b
    <3>1. h[a] \in Held(tree) /\ h[b] \in Held(tree)
      BY <1>4 DEF Held
    <3>2. PICK c \in DOMAIN tree, d \in DOMAIN tree : h[a] = tree[c] /\ h[b] = tree[d]
      BY <3>1 DEF Held
    <3>3. c = d
      BY <2>1, <2>3, <3>2 DEF KeysDiffer
    <3>4. tree[c].value # 0
      BY NodeIs
    <3> QED BY <1>2, <1>4, <3>2, <3>3, <3>4 DEF Single
  <2>4. Aged(h)
    BY <2>3 DEF Aged, IsStrictPrefix
  <2> QED BY <2>2, <2>4
<1>6. Held(h) = {Entry(i)' : i \in DOMAIN added'}
  BY <1>1, <1>4 DEF TreeInv, Entry
<1>7. IsTree(tree') /\ Single(tree') /\ Held(tree') = {Entry(i)' : i \in DOMAIN added'}
      /\ (~shuffled' => Ordered(tree') /\ Aged(tree'))
  BY <1>1, <1>2, <1>4, <1>5, <1>6
<1>8. ~shuffled' => ~TwiceIn(added)'
  BY <1>1 DEF TreeInv, TwiceIn
<1>9. entered' => calls' # <<>> /\ Head(calls') \in DOMAIN tree'
  BY <1>1, <1>4 DEF p
<1>10. added' \in Seq(Keys \X Nat) /\ \A i \in DOMAIN added' : added'[i][2] = i
  BY <1>1 DEF TreeInv
<1> QED BY <1>1, <1>7, <1>8, <1>9, <1>10 DEF TreeInv, Held, Single, Ordered, Aged, IsTree, Leads

(* So does btree_free. *)
LEMMA FreeStep ==
  ASSUME TreeInv, TreeFree
  PROVE  TreeInv'
<1>1. /\ calls = <<>> /\ tree' = NoTree /\ added' = <<>> /\ calls' = calls /\ entered' = entered
  BY DEF TreeFree
<1>2. IsTree(tree') /\ DOMAIN tree' = {}
  BY <1>1, EmptyTree
<1>3. Single(tree') /\ Held(tree') = {} /\ Ordered(tree') /\ Aged(tree')
  BY <1>2 DEF Single, Held, Ordered, Aged
<1>4. added' \in Seq(Keys \X Nat) /\ DOMAIN added' = {}
  BY <1>1
<1>5. Held(tree') = {Entry(i)' : i \in DOMAIN added'}
  BY <1>3, <1>4
<1>6. ~entered' /\ calls' \in Seq(Ways) /\ calls' = <<>>
  BY <1>1 DEF TreeInv
<1> QED BY <1>2, <1>3, <1>4, <1>5, <1>6 DEF TreeInv, Held, Single, Ordered, Aged, IsTree, Leads

(* The invariant of btree.c is kept by every step, of its loop too. *)
LEMMA TreeInvStep ==
  ASSUME TreeInv, [TreeNext]_treeVars
  PROVE  TreeInv'
<1>1. CASE \E k \in Keys : TreeAdd(k)
  BY <1>1, AddStep
<1>2. CASE TreeBalance
  BY <1>2, BalanceStep
<1>3. CASE BalanceEnter
  BY <1>3, EnterStep
<1>4. CASE BalanceMove
  BY <1>4, MoveStep
<1>5. CASE BalanceDown
  BY <1>5, DownStep
<1>6. CASE TreeFree
  BY <1>6, FreeStep
<1>7. CASE UNCHANGED treeVars
  <2>1. /\ tree' = tree /\ added' = added /\ shuffled' = shuffled /\ calls' = calls
        /\ entered' = entered
    BY <1>7 DEF treeVars
  <2>2. Held(tree)' = {Entry(i)' : i \in DOMAIN added'}
    BY <2>1 DEF TreeInv, Entry, Held
  <2>3. IsTree(tree)' /\ Single(tree)' /\ (~shuffled' => Ordered(tree)' /\ Aged(tree)')
    BY <2>1 DEF TreeInv, IsTree, Single, Ordered, Aged, Leads
  <2>4. TwiceIn(added)' <=> TwiceIn(added)
    BY <2>1 DEF TwiceIn
  <2> QED BY <2>1, <2>2, <2>3, <2>4 DEF TreeInv
<1> QED BY <1>1, <1>2, <1>3, <1>4, <1>5, <1>6, <1>7 DEF TreeNext

(* It holds at first. *)
LEMMA TreeInvStart ==
  ASSUME TreeInit
  PROVE  TreeInv
<1>1. tree = NoTree /\ added = <<>> /\ calls = <<>> /\ ~entered
  BY DEF TreeInit
<1>2. IsTree(tree) /\ DOMAIN tree = {}
  BY <1>1, EmptyTree
<1>3. Single(tree) /\ Held(tree) = {} /\ Ordered(tree) /\ Aged(tree)
  BY <1>2 DEF Single, Held, Ordered, Aged
<1>4. added \in Seq(Keys \X Nat) /\ DOMAIN added = {} /\ calls \in Seq(Ways)
  BY <1>1
<1> QED BY <1>1, <1>2, <1>3, <1>4 DEF TreeInv

---------------------------------------------------------------------------
(* Two nodes on the way of one key: one is above the other. *)
LEMMA LedTogether ==
  ASSUME NEW t, IsTree(t), NEW k, NEW p \in DOMAIN t, NEW q \in DOMAIN t,
         Leads(t, k, p), Leads(t, k, q)
  PROVE  IsPrefix(p, q) \/ IsPrefix(q, p)
<1> SUFFICES ASSUME ~IsPrefix(p, q), ~IsPrefix(q, p) PROVE FALSE
  OBVIOUS
<1>1. p \in Ways /\ q \in Ways
  BY DEF IsTree
<1>2. PICK r \in Ways, s1 \in Links, s2 \in Links :
        s1 # s2 /\ IsPrefix(Append(r, s1), p) /\ IsPrefix(Append(r, s2), q)
  BY <1>1, Fork
<1>3. IsPrefix(r, p)
  BY <1>1, <1>2, PrefixLink
<1>4. r \in DOMAIN t
  BY <1>3 DEF IsTree
<1>5. s1 = SideOf(t[r], k) /\ s2 = SideOf(t[r], k)
  BY <1>2, <1>4 DEF Leads
<1> QED BY <1>2, <1>5

(* A node above another is the shorter way. *)
LEMMA AboveShorter ==
  ASSUME NEW p \in Ways, NEW q \in Ways, IsStrictPrefix(p, q)
  PROVE  Len(p) < Len(q)
<1>1. Len(p) <= Len(q) /\ \A i \in 1 .. Len(p) : p[i] = q[i]
  BY PrefixIs DEF IsStrictPrefix
<1>2. p # q /\ Len(p) \in Nat /\ Len(q) \in Nat
  BY DEF IsStrictPrefix, Ways
<1>3. Len(p) # Len(q)
  BY <1>1, <1>2, SeqEqual DEF Ways
<1> QED BY <1>1, <1>2, <1>3

(* A lookup comes to the node of its key that was added first. *)
LEMMA FirstFound ==
  ASSUME TreeInv, ~shuffled, NEW k, CallsFor(k) # {}
  PROVE  \E p \in Finds(tree, k) : \A i \in CallsFor(k) : tree[p].value <= i
<1> DEFINE W == {p \in DOMAIN tree : tree[p].key = k}
           S == {Len(p) : p \in W}
<1>1. IsTree(tree) /\ Ordered(tree) /\ Aged(tree) /\ W \subseteq Ways
  BY DEF TreeInv, IsTree
<1>2. \A i \in CallsFor(k) : \E p \in W : tree[p].value = i
  <2>1. ASSUME NEW i \in CallsFor(k) PROVE \E p \in W : tree[p].value = i
    <3>1. i \in DOMAIN added /\ added[i][1] = k
      BY DEF CallsFor
    <3>2. PICK p \in DOMAIN tree : tree[p].key = added[i][1] /\ tree[p].value = i
      BY <3>1, EntryIn
    <3> QED BY <3>1, <3>2
  <2> QED BY <2>1
<1>3. S \in SUBSET Nat /\ S # {}
  <2>1. \A p \in W : Len(p) \in Nat
    BY <1>1 DEF Ways
  <2> QED BY <1>2, <2>1
<1>4. PICK m \in S : \A n \in S : m <= n
  BY <1>3, LeastOf
<1>5. PICK p \in W : Len(p) = m
  BY <1>4
<1>6. \A q \in W : Len(p) <= Len(q) /\ Len(q) \in Nat
  BY <1>3, <1>4, <1>5
<1>7. \A q \in W : ~IsStrictPrefix(q, p)
  <2>1. ASSUME NEW q \in W, IsStrictPrefix(q, p) PROVE FALSE
    <3>1. Len(q) < Len(p)
      BY <1>1, <2>1, AboveShorter
    <3> QED BY <1>6, <3>1
  <2> QED BY <2>1
<1>8. \A q \in W : Leads(tree, k, q)
  BY <1>1 DEF Ordered
<1>9. p \in Finds(tree, k)
  BY <1>7, <1>8 DEF Finds
<1>10. ASSUME NEW i \in CallsFor(k) PROVE tree[p].value <= i
  <2>1. PICK q \in W : tree[q].value = i
    BY <1>2
  <2>2. tree[p].value \in Nat /\ tree[q].value \in Nat
    BY NodeIs
  <2>3. IsPrefix(p, q) \/ IsPrefix(q, p)
    BY <1>1, <1>8, LedTogether
  <2>4. p = q \/ IsStrictPrefix(p, q)
    BY <1>7, <2>3 DEF IsStrictPrefix
  <2>5. IsStrictPrefix(p, q) => tree[p].value < tree[q].value
    BY <1>1 DEF Aged
  <2> QED BY <2>1, <2>2, <2>4, <2>5
<1> QED BY <1>9, <1>10

(* Where it holds, a lookup finds every key. *)
LEMMA FoundWhenInv ==
  ASSUME TreeInv
  PROVE  KeysFound
<1>1. ASSUME NEW k \in Keys, NEW n \in BtreeGet(tree, k)
      PROVE  n.key = k /\ n.value \in CallsFor(k)
  <2>1. PICK p \in DOMAIN tree : n = tree[p] /\ tree[p].key = k
    BY <1>1 DEF BtreeGet, Finds
  <2>2. PICK i \in DOMAIN added : tree[p].key = added[i][1] /\ tree[p].value = i
    BY NodeIs
  <2> QED BY <2>1, <2>2 DEF CallsFor
<1>2. ASSUME NEW k \in Keys, ~shuffled, CallsFor(k) # {}
      PROVE  \E n \in BtreeGet(tree, k) : \A i \in CallsFor(k) : n.value <= i
  <2>1. PICK p \in Finds(tree, k) : \A i \in CallsFor(k) : tree[p].value <= i
    BY <1>2, FirstFound
  <2>2. tree[p] \in BtreeGet(tree, k)
    BY DEF BtreeGet
  <2> QED BY <2>1, <2>2
<1> QED BY <1>1, <1>2 DEF KeysFound

(* By key and then by age: what lies on the two sides of a node. *)
Less(p, q) ==
  \/ tree[p].key < tree[q].key
  \/ tree[p].key = tree[q].key /\ tree[p].value < tree[q].value

(* In a tree not given up, smaller keys and older equal ones lie before a  *)
(* node, the others behind.                                                *)
LEMMA SidesLess ==
  ASSUME TreeInv, ~shuffled, NEW r \in DOMAIN tree, NEW p \in DOMAIN tree
  PROVE  /\ IsPrefix(Append(r, "left"), p) => Less(p, r)
         /\ IsPrefix(Append(r, "right"), p) => Less(r, p)
         /\ ~IsPrefix(Append(r, "forward"), p)
<1>1. tree[r].key \in Int /\ tree[p].key \in Int /\ tree[r].value \in Nat /\ tree[p].value \in Nat
  BY NodeIs
<1>2. Leads(tree, tree[p].key, p) /\ Aged(tree) /\ r \in Ways /\ p \in Ways
  BY DEF TreeInv, Ordered, IsTree
<1>3. {"left", "right", "forward"} = Links
  BY DEF Links
<1>4. \A side \in Links : IsPrefix(Append(r, side), p) => side = SideOf(tree[r], tree[p].key)
  BY <1>2 DEF Leads
<1>5. IsPrefix(Append(r, "left"), p) => tree[p].key < tree[r].key
  BY <1>3, <1>4 DEF SideOf
<1>6. IsPrefix(Append(r, "right"), p) => tree[r].key <= tree[p].key /\ IsStrictPrefix(r, p)
  <2>1. ASSUME IsPrefix(Append(r, "right"), p) PROVE tree[r].key <= tree[p].key
    BY <1>1, <1>3, <1>4, <2>1 DEF SideOf
  <2>2. ASSUME IsPrefix(Append(r, "right"), p) PROVE IsStrictPrefix(r, p)
    <3>1. "right" \in Links
      BY <1>3
    <3>2. IsPrefix(r, p) /\ Len(r) < Len(p) /\ Len(r) \in Nat
      BY <1>2, <2>2, <3>1, PrefixLink DEF Ways
    <3> QED BY <3>2 DEF IsStrictPrefix
  <2> QED BY <2>1, <2>2
<1>7. ~IsPrefix(Append(r, "forward"), p)
  BY <1>3, <1>4 DEF SideOf
<1>8. IsStrictPrefix(r, p) /\ tree[r].key = tree[p].key => tree[r].value < tree[p].value
  BY <1>2 DEF Aged
<1> QED BY <1>1, <1>5, <1>6, <1>7, <1>8 DEF Less

(* The order of an iteration is that of the keys. *)
LEMMA GivenLess ==
  ASSUME TreeInv, ~shuffled, NEW p \in DOMAIN tree, NEW q \in DOMAIN tree, GivenBefore(tree, p, q)
  PROVE  Less(p, q)
<1>1. PICK r \in DOMAIN tree :
        \/ IsPrefix(Append(r, "left"), p) /\ (q = r \/ IsPrefix(Append(r, "right"), q))
        \/ p = r /\ IsPrefix(Append(r, "right"), q)
  BY DEF GivenBefore
<1>2. /\ IsPrefix(Append(r, "left"), p) => Less(p, r)
      /\ IsPrefix(Append(r, "right"), q) => Less(r, q)
  BY SidesLess
<1>3. /\ tree[r].key \in Int /\ tree[p].key \in Int /\ tree[q].key \in Int
      /\ tree[r].value \in Nat /\ tree[p].value \in Nat /\ tree[q].value \in Nat
  BY NodeIs
<1>4. Less(p, r) /\ Less(r, q) => Less(p, q)
  BY <1>3 DEF Less
<1> QED BY <1>1, <1>2, <1>4

(* Of two nodes an iteration gives one first. *)
LEMMA OneGiven ==
  ASSUME TreeInv, ~shuffled, NEW p \in DOMAIN tree, NEW q \in DOMAIN tree, p # q
  PROVE  GivenBefore(tree, p, q) \/ GivenBefore(tree, q, p)
<1>1. IsTree(tree) /\ DOMAIN tree \subseteq Ways
  BY DEF TreeInv, IsTree
<1>2. Links = {"left", "right", "forward"}
  BY DEF Links
<1>3. ASSUME NEW a \in DOMAIN tree, NEW b \in DOMAIN tree, a # b, IsPrefix(a, b)
      PROVE  GivenBefore(tree, a, b) \/ GivenBefore(tree, b, a)
  <2>1. IsStrictPrefix(a, b) /\ a \in Ways /\ b \in Ways
    BY <1>1, <1>3 DEF IsStrictPrefix
  <2>2. Len(a) < Len(b) /\ Len(a) \in Nat /\ Len(b) \in Nat
    BY <2>1, AboveShorter DEF Ways
  <2>3. Len(a) + 1 \in 1 .. Len(b)
    BY <2>2
  <2>4. PICK side \in Links : b[Len(a) + 1] = side
    BY <2>1, <2>3, ElementOfSeq DEF Ways
  <2>5. IsPrefix(Append(a, side), b)
    BY <1>3, <2>1, <2>2, <2>4, PrefixLink
  <2>6. ~IsPrefix(Append(a, "forward"), b)
    BY SidesLess
  <2>7. side = "left" \/ side = "right"
    BY <1>2, <2>5, <2>6
  <2> QED BY <2>5, <2>7 DEF GivenBefore
<1>4. ASSUME ~IsPrefix(p, q), ~IsPrefix(q, p)
      PROVE  GivenBefore(tree, p, q) \/ GivenBefore(tree, q, p)
  <2>1. PICK r \in Ways, s1 \in Links, s2 \in Links :
          s1 # s2 /\ IsPrefix(Append(r, s1), p) /\ IsPrefix(Append(r, s2), q)
    BY <1>1, <1>4, Fork
  <2>2. IsPrefix(r, p)
    BY <1>1, <2>1, PrefixLink
  <2>3. r \in DOMAIN tree
    BY <1>1, <2>2 DEF IsTree
  <2>4. ~IsPrefix(Append(r, "forward"), p) /\ ~IsPrefix(Append(r, "forward"), q)
    BY <2>3, SidesLess
  <2>5. s1 # "forward" /\ s2 # "forward"
    BY <2>1, <2>4
  <2>6. (s1 = "left" /\ s2 = "right") \/ (s1 = "right" /\ s2 = "left")
    BY <1>2, <2>1, <2>5
  <2> QED BY <2>1, <2>3, <2>6 DEF GivenBefore
<1> QED BY <1>3, <1>4

(* Where the invariant holds, an iteration gives every entry once and in   *)
(* order.                                                                  *)
LEMMA KeptWhenInv ==
  ASSUME TreeInv
  PROVE  EntriesKept
<1>1. {tree[p] : p \in DOMAIN tree}
        = {[key |-> added[i][1], value |-> added[i][2]] : i \in DOMAIN added}
  BY DEF TreeInv, Held, Entry
<1>2. \A p, q \in DOMAIN tree : p # q => tree[p] # tree[q]
  <2>1. \A p \in DOMAIN tree : tree[p].value # 0
    BY NodeIs
  <2> QED BY <2>1 DEF TreeInv, Single
<1>3. ASSUME ~shuffled, NEW p \in DOMAIN tree, NEW q \in DOMAIN tree
      PROVE  GivenBefore(tree, p, q) <=> Less(p, q)
  <2>1. GivenBefore(tree, p, q) => Less(p, q)
    BY <1>3, GivenLess
  <2>2. GivenBefore(tree, q, p) => Less(q, p)
    BY <1>3, GivenLess
  <2>3. /\ tree[p].key \in Int /\ tree[q].key \in Int
        /\ tree[p].value \in Nat /\ tree[q].value \in Nat
    BY NodeIs
  <2>4. Less(p, q) => p # q /\ ~Less(q, p)
    BY <2>3 DEF Less
  <2>5. p # q => GivenBefore(tree, p, q) \/ GivenBefore(tree, q, p)
    BY <1>3, OneGiven
  <2> QED BY <2>1, <2>2, <2>4, <2>5
<1> QED BY <1>1, <1>2, <1>3 DEF EntriesKept, Less

(* Balanced or not, and in the midst of it, a lookup finds what was added  *)
(* under its key, and of several entries the first (btree_get after        *)
(* btree_add and btree_balance); once a tree with a key in it twice was    *)
(* balanced, what it finds is still an entry of that key.                  *)
THEOREM KeysAreFound == TreeSpec => []KeysFound
<1>1. TreeSpec => []TreeInv
  BY TreeInvStart, TreeInvStep, PTL DEF TreeSpec
<1>2. TreeInv => KeysFound
  BY FoundWhenInv
<1> QED BY <1>1, <1>2, PTL

(* Balancing loses no entry and gives none twice, and an iteration gives   *)
(* the entries by key and age (btree_balance, btree_iterate).              *)
THEOREM EntriesAreKept == TreeSpec => []EntriesKept
<1>1. TreeSpec => []TreeInv
  BY TreeInvStart, TreeInvStep, PTL DEF TreeSpec
<1>2. TreeInv => EntriesKept
  BY KeptWhenInv
<1> QED BY <1>1, <1>2, PTL

---------------------------------------------------------------------------
(* The ternary tree of stree.c: how many links of a way lead forward. *)
LEMMA DepthIs ==
  ASSUME NEW p \in Ways
  PROVE  /\ Depth(p) \in Nat /\ 1 <= Depth(p) /\ Depth(<<>>) = 1
         /\ \A side \in Links :
              Depth(Append(p, side)) = IF side = "forward" THEN Depth(p) + 1 ELSE Depth(p)
<1> DEFINE F(q) == {i \in DOMAIN q : q[i] = "forward"}
<1>1. Len(p) \in Nat /\ DOMAIN p = 1 .. Len(p)
  BY DEF Ways
<1>2. IsFiniteSet(F(p)) /\ Cardinality(F(p)) \in Nat
  <2>1. IsFiniteSet(1 .. Len(p))
    BY <1>1, FS_Interval
  <2>2. F(p) \in SUBSET (1 .. Len(p))
    BY <1>1
  <2> HIDE DEF F
  <2> QED BY <2>1, <2>2, FS_Subset, FS_CardinalityType
<1>3. Depth(p) = 1 + Cardinality(F(p))
  BY DEF Depth
<1>4. Depth(<<>>) = 1
  <2>1. {i \in DOMAIN <<>> : <<>>[i] = "forward"} = {}
    OBVIOUS
  <2> QED BY <2>1, FS_EmptySet DEF Depth
<1>5. ASSUME NEW side \in Links
      PROVE  Depth(Append(p, side)) = IF side = "forward" THEN Depth(p) + 1 ELSE Depth(p)
  <2> DEFINE a == Append(p, side)
  <2>1. /\ Len(a) = Len(p) + 1 /\ DOMAIN a = 1 .. Len(p) + 1
        /\ \A i \in 1 .. Len(p) : a[i] = p[i]
        /\ a[Len(p) + 1] = side
    BY <1>1 DEF Ways
  <2>2. Depth(a) = 1 + Cardinality(F(a))
    BY DEF Depth
  <2> HIDE DEF a
  <2>3. F(a) = IF side = "forward" THEN F(p) \cup {Len(p) + 1} ELSE F(p)
    <3>1. \A i \in DOMAIN p : i \in 1 .. Len(p) + 1 /\ i # Len(p) + 1 /\ a[i] = p[i]
      BY <1>1, <2>1
    <3>2. \A i \in 1 .. Len(p) + 1 : i \in DOMAIN p \/ i = Len(p) + 1
      BY <1>1
    <3>3. Len(p) + 1 \in 1 .. Len(p) + 1
      BY <1>1
    <3> QED BY <2>1, <3>1, <3>2, <3>3
  <2>4. Len(p) + 1 \notin F(p)
    BY <1>1
  <2> HIDE DEF F
  <2>5. Cardinality(F(p) \cup {Len(p) + 1}) = Cardinality(F(p)) + 1
    BY <1>2, <2>4, FS_AddElement
  <2>6. CASE side = "forward"
    BY <1>2, <1>3, <2>2, <2>3, <2>5, <2>6 DEF a
  <2>7. CASE side # "forward"
    BY <1>2, <1>3, <2>2, <2>3, <2>7 DEF a
  <2> QED BY <2>6, <2>7
<1> QED BY <1>2, <1>3, <1>4, <1>5

(* No node stands for an earlier character than one above it. *)
LEMMA DepthGrows ==
  ASSUME NEW p \in Ways, NEW q \in Ways, IsPrefix(p, q)
  PROVE  Depth(p) <= Depth(q)
<1> DEFINE F(r) == {i \in DOMAIN r : r[i] = "forward"}
<1>1. /\ Len(p) \in Nat /\ DOMAIN p = 1 .. Len(p) /\ Len(q) \in Nat /\ DOMAIN q = 1 .. Len(q)
      /\ Len(p) <= Len(q) /\ \A i \in 1 .. Len(p) : p[i] = q[i]
  BY PrefixIs DEF Ways
<1>2. F(p) \in SUBSET F(q) /\ F(q) \in SUBSET (1 .. Len(q))
  BY <1>1
<1>3. Depth(p) = 1 + Cardinality(F(p)) /\ Depth(q) = 1 + Cardinality(F(q))
  BY DEF Depth
<1> HIDE DEF F
<1>4. IsFiniteSet(F(q)) /\ IsFiniteSet(F(p))
  <2>1. IsFiniteSet(1 .. Len(q))
    BY <1>1, FS_Interval
  <2>2. IsFiniteSet(F(q))
    BY <1>2, <2>1, FS_Subset
  <2> QED BY <1>2, <2>2, FS_Subset
<1>5. Cardinality(F(p)) <= Cardinality(F(q)) /\ Cardinality(F(p)) \in Nat /\ Cardinality(F(q)) \in Nat
  BY <1>2, <1>4, FS_Subset, FS_CardinalityType
<1> QED BY <1>3, <1>5

(* A way passes every depth above its own, and leaves it forward. *)
LEMMA AtDepth ==
  ASSUME NEW p \in Ways, NEW j \in Nat, 1 <= j, j < Depth(p)
  PROVE  \E q \in Ways : IsPrefix(Append(q, "forward"), p) /\ Depth(q) = j
<1> DEFINE S == {q \in Ways : IsPrefix(q, p) /\ Depth(q) <= j}
           L == {Len(q) : q \in S}
<1>0. <<>> \in Ways /\ Depth(p) \in Nat /\ Depth(<<>>) = 1 /\ "forward" \in Links
  BY DepthIs DEF Ways, Links
<1>1. <<>> \in S
  BY <1>0, PrefixOrder
<1>2. Len(p) \in Nat /\ \A q \in S : Len(q) \in Nat /\ Len(q) <= Len(p)
  <2>1. Len(p) \in Nat
    BY DEF Ways
  <2>2. ASSUME NEW q \in S PROVE Len(q) \in Nat /\ Len(q) <= Len(p)
    BY PrefixIs DEF Ways
  <2> QED BY <2>1, <2>2
<1>3. L \in SUBSET Nat /\ L # {} /\ \A n \in L : n <= Len(p)
  BY <1>1, <1>2
<1>4. PICK m \in L : \A n \in L : n <= m
  BY <1>2, <1>3, GreatestOf
<1>5. PICK q \in S : Len(q) = m
  BY <1>4
<1>6. q \in Ways /\ IsPrefix(q, p) /\ Depth(q) <= j /\ q # p /\ Len(q) \in Nat /\ Depth(q) \in Nat
  BY <1>0, <1>2, <1>5, DepthIs
<1>7. Len(q) < Len(p)
  BY <1>6, AboveShorter DEF IsStrictPrefix
<1>8. PICK side \in Links : p[Len(q) + 1] = side
  <2>1. Len(q) + 1 \in 1 .. Len(p)
    BY <1>2, <1>6, <1>7
  <2> QED BY <2>1, ElementOfSeq DEF Ways
<1>9. IsPrefix(Append(q, side), p) /\ Append(q, side) \in Ways
  <2>1. Append(q, side) \in Ways
    BY <1>6, PrefixLink
  <2>2. IsPrefix(Append(q, side), p) <=>
          IsPrefix(q, p) /\ Len(q) < Len(p) /\ p[Len(q) + 1] = side
    BY <1>6, PrefixLink
  <2> QED BY <1>6, <1>7, <1>8, <2>1, <2>2
<1>10. Append(q, side) \notin S
  <2>1. Len(Append(q, side)) = Len(q) + 1
    BY <1>6 DEF Ways
  <2>2. Append(q, side) \in S => Len(q) + 1 <= Len(q)
    BY <1>4, <1>5, <2>1
  <2> QED BY <1>6, <2>2
<1>11. ~(Depth(Append(q, side)) <= j)
  BY <1>9, <1>10
<1>12. Depth(Append(q, side)) = IF side = "forward" THEN Depth(q) + 1 ELSE Depth(q)
  BY <1>6, DepthIs
<1>13. side = "forward" /\ Depth(q) = j
  BY <1>6, <1>11, <1>12
<1> QED BY <1>6, <1>9, <1>13

(* A node is left forward for its own character only. *)
LEMMA TurningIs ==
  ASSUME NEW n, NEW c
  PROVE  Turning(n, c) \in Links /\ (Turning(n, c) = "forward" <=> n.c = c)
BY DEF Turning, Links

(* A word has one node. *)
LEMMA OneNode ==
  ASSUME NEW t, IsTree(t), NEW w \in Seq(Nat), NEW p \in StreeGet(t, w), NEW q \in StreeGet(t, w)
  PROVE  p = q
<1>1. /\ p \in DOMAIN t /\ OnWay(t, w, p) /\ Depth(p) = Len(w) /\ t[p].c = w[Len(w)]
      /\ q \in DOMAIN t /\ OnWay(t, w, q) /\ Depth(q) = Len(w) /\ t[q].c = w[Len(w)]
  BY DEF StreeGet
<1>2. p \in Ways /\ q \in Ways /\ Len(w) \in Nat
  BY <1>1 DEF IsTree
<1>3. ASSUME NEW a \in DOMAIN t, NEW b \in DOMAIN t, OnWay(t, w, b), Depth(a) = Len(w), Depth(b) = Len(w),
             t[a].c = w[Len(w)], a # b
      PROVE  ~IsPrefix(a, b)
  <2> SUFFICES ASSUME IsPrefix(a, b) PROVE FALSE
    OBVIOUS
  <2>1. a \in Ways /\ b \in Ways
    BY DEF IsTree
  <2>2. Len(a) < Len(b) /\ Len(a) \in Nat /\ Len(b) \in Nat
    BY <1>3, <2>1, AboveShorter DEF IsStrictPrefix, Ways
  <2>3. Len(a) + 1 \in 1 .. Len(b)
    BY <2>2
  <2>4. PICK side \in Links : b[Len(a) + 1] = side
    BY <2>1, <2>3, ElementOfSeq DEF Ways
  <2>5. IsPrefix(Append(a, side), b) /\ Append(a, side) \in Ways
    BY <2>1, <2>2, <2>4, PrefixLink
  <2>6. side = Turning(t[a], w[Depth(a)])
    BY <1>3, <2>5 DEF OnWay
  <2>7. side = "forward"
    BY <1>3, <2>6, TurningIs
  <2>8. Depth(Append(a, side)) = Depth(a) + 1
    BY <2>1, <2>7, DepthIs
  <2>9. Depth(Append(a, side)) <= Depth(b)
    BY <2>1, <2>5, DepthGrows
  <2> QED BY <1>2, <1>3, <2>8, <2>9
<1>4. ASSUME ~IsPrefix(p, q), ~IsPrefix(q, p) PROVE FALSE
  <2>1. PICK r \in Ways, s1 \in Links, s2 \in Links :
          s1 # s2 /\ IsPrefix(Append(r, s1), p) /\ IsPrefix(Append(r, s2), q)
    BY <1>2, <1>4, Fork
  <2>2. IsPrefix(r, p)
    BY <1>2, <2>1, PrefixLink
  <2>3. r \in DOMAIN t
    BY <1>1, <2>2 DEF IsTree
  <2>4. s1 = Turning(t[r], w[Depth(r)]) /\ s2 = Turning(t[r], w[Depth(r)])
    BY <1>1, <2>1, <2>3 DEF OnWay
  <2> QED BY <2>1, <2>4
<1> QED BY <1>1, <1>3, <1>4

(* And a node one word. *)
LEMMA OneWord ==
  ASSUME NEW t, IsTree(t), NEW w1 \in Seq(Nat), NEW w2 \in Seq(Nat), NEW p,
         p \in StreeGet(t, w1), p \in StreeGet(t, w2)
  PROVE  w1 = w2
<1>1. /\ p \in DOMAIN t /\ OnWay(t, w1, p) /\ OnWay(t, w2, p) /\ Depth(p) = Len(w1)
      /\ Len(w2) = Len(w1) /\ t[p].c = w1[Len(w1)] /\ t[p].c = w2[Len(w1)]
  BY DEF StreeGet
<1>2. p \in Ways /\ Len(w1) \in Nat
  BY <1>1 DEF IsTree
<1>3. ASSUME NEW j \in 1 .. Len(w1), j # Len(w1) PROVE w1[j] = w2[j]
  <2>1. j \in Nat /\ 1 <= j /\ j < Depth(p)
    BY <1>1, <1>2, <1>3
  <2>2. PICK q \in Ways : IsPrefix(Append(q, "forward"), p) /\ Depth(q) = j
    BY <1>2, <2>1, AtDepth
  <2>3. "forward" \in Links
    BY DEF Links
  <2>4. IsPrefix(q, p)
    BY <1>2, <2>2, <2>3, PrefixLink
  <2>5. q \in DOMAIN t
    BY <1>1, <2>4 DEF IsTree
  <2>6. "forward" = Turning(t[q], w1[j]) /\ "forward" = Turning(t[q], w2[j])
    BY <1>1, <2>2, <2>3, <2>5 DEF OnWay
  <2>7. t[q].c = w1[j] /\ t[q].c = w2[j]
    BY <2>6, TurningIs
  <2> QED BY <2>7
<1>4. \A j \in 1 .. Len(w1) : w1[j] = w2[j]
  BY <1>1, <1>3
<1> QED BY <1>1, <1>4, SeqEqual

(* What begins a word that has a node has one. *)
LEMMA Begun ==
  ASSUME NEW t, IsTree(t), NEW w \in Seq(Nat), NEW p \in StreeGet(t, w), NEW j \in 1 .. Len(w)
  PROVE  StreeGet(t, SubSeq(w, 1, j)) # {}
<1> DEFINE b == SubSeq(w, 1, j)
<1>1. /\ p \in DOMAIN t /\ OnWay(t, w, p) /\ Depth(p) = Len(w) /\ p \in Ways /\ Len(w) \in Nat
  BY DEF StreeGet, IsTree
<1>2. b \in Seq(Nat) /\ Len(b) = j /\ \A i \in 1 .. j : b[i] = w[i]
  BY <1>1
<1>3. CASE j = Len(w)
  <2>1. b = w
    BY <1>1, <1>2, <1>3, SeqEqual
  <2> QED BY <2>1
<1>4. CASE j # Len(w)
  <2>1. j \in Nat /\ 1 <= j /\ j < Depth(p)
    BY <1>1, <1>4
  <2>2. PICK q \in Ways : IsPrefix(Append(q, "forward"), p) /\ Depth(q) = j
    BY <1>1, <2>1, AtDepth
  <2>3. "forward" \in Links
    BY DEF Links
  <2>4. IsPrefix(q, p)
    BY <1>1, <2>2, <2>3, PrefixLink
  <2>5. q \in DOMAIN t
    BY <1>1, <2>4 DEF IsTree
  <2>6. "forward" = Turning(t[q], w[j])
    BY <1>1, <2>2, <2>3, <2>5 DEF OnWay
  <2>7. t[q].c = w[j]
    BY <2>6, TurningIs
  <2> HIDE DEF b
  <2>8. ASSUME NEW r \in DOMAIN t, NEW side \in Links, IsPrefix(Append(r, side), q)
        PROVE  side = Turning(t[r], b[Depth(r)])
    <3>1. r \in Ways /\ Append(r, side) \in Ways
      BY PrefixLink DEF IsTree
    <3>2. IsPrefix(Append(r, side), p) /\ IsPrefix(r, q)
      BY <1>1, <2>4, <2>8, <3>1, PrefixOrder, PrefixLink
    <3>3. side = Turning(t[r], w[Depth(r)])
      BY <1>1, <3>2 DEF OnWay
    <3>4. Depth(r) \in Nat /\ 1 <= Depth(r) /\ Depth(r) <= j
      BY <2>2, <3>1, <3>2, DepthIs, DepthGrows
    <3>5. w[Depth(r)] = b[Depth(r)]
      BY <1>2, <2>1, <3>4
    <3> QED BY <3>3, <3>5
  <2>9. q \in StreeGet(t, b)
    BY <1>2, <2>1, <2>2, <2>5, <2>7, <2>8 DEF StreeGet, OnWay
  <2> QED BY <2>9 DEF b
<1> QED BY <1>3, <1>4

(* A word without a node has a first NULL on its way. *)
LEMMA EndIs ==
  ASSUME NEW t, IsTree(t), DOMAIN t # {}, NEW w \in Seq(Nat), w # <<>>, StreeGet(t, w) = {}
  PROVE  /\ \E z \in Ends(t) : OnWay(t, w, z)
         /\ \A z \in Ends(t) : z \in Ways /\ z \notin DOMAIN t /\ Reaches(t, z)
<1> DEFINE S == {p \in DOMAIN t : OnWay(t, w, p)}
           L == {Len(p) : p \in S}
<1>0. Len(w) \in Nat /\ 1 <= Len(w) /\ DOMAIN t \subseteq Ways /\ <<>> \in Ways /\ <<>> \in DOMAIN t
  <2>1. Len(w) \in Nat /\ 1 <= Len(w)
    BY EmptySeq
  <2> QED BY <2>1, RootIn DEF IsTree, Ways
<1>1. <<>> \in S
  <2>1. \A q \in DOMAIN t, side \in Links : ~IsPrefix(Append(q, side), <<>>)
    <3>1. ASSUME NEW q \in DOMAIN t, NEW side \in Links, IsPrefix(Append(q, side), <<>>) PROVE FALSE
      <4>1. q \in Ways
        BY <1>0
      <4>2. Len(q) < Len(<<>>) /\ Len(q) \in Nat
        BY <1>0, <3>1, <4>1, PrefixLink DEF Ways
      <4> QED BY <4>2
    <3> QED BY <3>1
  <2>2. Depth(<<>>) <= Len(w)
    BY <1>0, DepthIs
  <2> QED BY <1>0, <2>1, <2>2 DEF OnWay
<1>2. PICK n \in Nat : \A p \in DOMAIN t : Len(p) <= n
  BY DEF IsTree
<1>3. L \in SUBSET Nat /\ L # {} /\ \A l \in L : l <= n
  <2>1. \A p \in S : Len(p) \in Nat /\ Len(p) <= n
    BY <1>0, <1>2 DEF Ways
  <2> QED BY <1>1, <2>1
<1>4. PICK m \in L : \A l \in L : l <= m
  BY <1>2, <1>3, GreatestOf
<1>5. PICK p \in S : Len(p) = m
  BY <1>4
<1> DEFINE side == Turning(t[p], w[Depth(p)])
           a == Append(p, side)
<1>6. p \in Ways /\ p \in DOMAIN t /\ OnWay(t, w, p) /\ side \in Links /\ a \in Ways /\ Len(p) \in Nat
      /\ Len(a) = Len(p) + 1
  <2>1. p \in Ways /\ p \in DOMAIN t /\ OnWay(t, w, p) /\ side \in Links
    BY <1>0, <1>5, TurningIs
  <2> QED BY <2>1, PrefixLink DEF Ways
<1>a. \A r \in Ways : IsPrefix(r, a) => IsPrefix(r, p) \/ r = a
  <2> HIDE DEF side
  <2> QED BY <1>6, PrefixLink
<1>7. a \notin S
  <2>1. a \in S => Len(p) + 1 <= Len(p)
    BY <1>4, <1>5, <1>6
  <2> QED BY <1>6, <2>1
<1>8. Depth(a) = (IF side = "forward" THEN Depth(p) + 1 ELSE Depth(p)) /\ Depth(p) \in Nat /\ Depth(p) <= Len(w)
  BY <1>6, DepthIs DEF OnWay
<1>9. Depth(a) <= Len(w)
  <2>1. side = "forward" => Depth(p) # Len(w)
    <3>1. ASSUME side = "forward", Depth(p) = Len(w) PROVE FALSE
      <4>1. t[p].c = w[Len(w)]
        BY <3>1, TurningIs
      <4>2. p \in StreeGet(t, w)
        BY <1>6, <3>1, <4>1 DEF StreeGet
      <4> QED BY <4>2
    <3> QED BY <3>1
  <2> HIDE DEF side, a
  <2> QED BY <1>0, <1>8, <2>1
<1>10. \A q \in DOMAIN t, s \in Links : IsPrefix(Append(q, s), a) => s = Turning(t[q], w[Depth(q)])
  <2>1. ASSUME NEW q \in DOMAIN t, NEW s \in Links, IsPrefix(Append(q, s), a)
        PROVE  s = Turning(t[q], w[Depth(q)])
    <3>1. q \in Ways /\ Append(q, s) \in Ways
      BY <1>0, PrefixLink
    <3>2. IsPrefix(Append(q, s), p) \/ Append(q, s) = a
      BY <1>a, <2>1, <3>1
    <3>3. Append(q, s) = a => q = p /\ s = side
      BY <1>6, <3>1, AppendInjective DEF Ways
    <3> QED BY <1>6, <3>2, <3>3 DEF OnWay
  <2> QED BY <2>1
<1>11. OnWay(t, w, a)
  BY <1>9, <1>10 DEF OnWay
<1>12. a \notin DOMAIN t
  BY <1>7, <1>11
<1>13. a \in Ends(t)
  BY <1>6, <1>12 DEF Ends
<1>14. ASSUME NEW z \in Ends(t) PROVE z \in Ways /\ z \notin DOMAIN t /\ Reaches(t, z)
  <2>1. PICK q \in DOMAIN t, s \in Links : z = Append(q, s)
    BY DEF Ends
  <2>2. q \in Ways
    BY <1>0
  <2>3. ASSUME NEW r \in Ways, IsPrefix(r, z), r # z PROVE r \in DOMAIN t
    <3>1. IsPrefix(r, q)
      BY <2>1, <2>2, <2>3, PrefixLink
    <3> QED BY <3>1 DEF IsTree
  <2> QED BY <2>1, <2>2, <2>3, PrefixLink DEF Ends, Reaches
<1> QED BY <1>11, <1>13, <1>14

(* The nodes of the rest of a word, one forward of the other. *)
Forwards(n) == [i \in 1 .. n |-> "forward"]

(* The forward links of the rest of a word, and what begins them. *)
LEMMA ForwardsIs ==
  ASSUME NEW n \in Nat
  PROVE  /\ Forwards(n) \in Ways /\ Len(Forwards(n)) = n /\ Forwards(0) = <<>>
         /\ Forwards(n + 1) = Append(Forwards(n), "forward")
         /\ \A q \in Ways : IsPrefix(q, Forwards(n)) => Len(q) \in 0 .. n /\ q = Forwards(Len(q))
<1>1. /\ "forward" \in Links /\ Forwards(n) \in Ways /\ Len(Forwards(n)) = n
      /\ \A i \in 1 .. n : Forwards(n)[i] = "forward"
  BY DEF Forwards, Links, Ways
<1>2. Forwards(0) = <<>>
  <2>1. Forwards(0) \in Seq(Links) /\ Len(Forwards(0)) = 0
    BY DEF Forwards
  <2> QED BY <2>1, EmptySeq
<1>3. Forwards(n + 1) = Append(Forwards(n), "forward")
  <2> DEFINE a == Append(Forwards(n), "forward")
  <2>1. /\ Forwards(n + 1) \in Seq(Links) /\ Len(Forwards(n + 1)) = n + 1
        /\ \A i \in 1 .. n + 1 : Forwards(n + 1)[i] = "forward"
    BY <1>1 DEF Forwards
  <2>2. a \in Seq(Links) /\ Len(a) = n + 1 /\ \A i \in 1 .. n + 1 : a[i] = "forward"
    BY <1>1, AppendProperties DEF Ways
  <2> HIDE DEF a
  <2>3. \A i \in 1 .. Len(a) : a[i] = Forwards(n + 1)[i]
    BY <2>1, <2>2
  <2>4. a = Forwards(n + 1)
    BY <2>1, <2>2, <2>3, SeqEqual
  <2> QED BY <2>4 DEF a
<1>4. ASSUME NEW q \in Ways, IsPrefix(q, Forwards(n)) PROVE Len(q) \in 0 .. n /\ q = Forwards(Len(q))
  <2>1. Len(q) \in Nat /\ Len(q) <= n /\ \A i \in 1 .. Len(q) : q[i] = Forwards(n)[i]
    BY <1>1, <1>4, PrefixIs DEF Ways
  <2>2. \A i \in 1 .. Len(q) : q[i] = "forward"
    BY <1>1, <2>1
  <2>3. Forwards(Len(q)) \in Seq(Links) /\ Len(Forwards(Len(q))) = Len(q)
        /\ \A i \in 1 .. Len(q) : Forwards(Len(q))[i] = "forward"
    BY <1>1, <2>1 DEF Forwards
  <2> QED BY <2>1, <2>2, <2>3, SeqEqual DEF Ways
<1> QED BY <1>1, <1>2, <1>3, <1>4

(* Each of them goes on by one character. *)
LEMMA ForwardDepth ==
  ASSUME NEW z \in Ways, NEW n \in Nat
  PROVE  z \o Forwards(n) \in Ways /\ Depth(z \o Forwards(n)) = Depth(z) + n
<1>1. Depth(z) \in Nat
  BY DepthIs
<1> DEFINE Bad == {k \in Nat : Depth(z \o Forwards(k)) # Depth(z) + k}
<1>2. Bad = {}
  <2> SUFFICES ASSUME Bad # {} PROVE FALSE
    OBVIOUS
  <2>1. PICK m \in Bad : \A k \in Bad : m <= k
    <3>1. Bad \in SUBSET Nat
      OBVIOUS
    <3> HIDE DEF Bad
    <3> QED BY <3>1, LeastOf
  <2>2. m # 0
    <3>1. z \o Forwards(0) = z
      <4>1. Forwards(0) = <<>>
        BY ForwardsIs
      <4> QED BY <4>1, PrefixConcat DEF Ways
    <3>2. Depth(z \o Forwards(0)) = Depth(z) + 0
      <4>1. Depth(z \o Forwards(0)) = Depth(z)
        BY <3>1
      <4>2. Depth(z) = Depth(z) + 0
        BY <1>1
      <4> QED BY <4>1, <4>2
    <3>3. 0 \notin Bad
      BY <3>2
    <3> QED BY <2>1, <3>3
  <2>3. m - 1 \in Nat /\ m - 1 \notin Bad /\ (m - 1) + 1 = m
    BY <2>1, <2>2
  <2> DEFINE f == Forwards(m - 1)
  <2>4. f \in Ways /\ Forwards(m) = Append(f, "forward") /\ "forward" \in Links
    BY <2>3, ForwardsIs DEF Links
  <2>5. z \o Forwards(m) = Append(z \o f, "forward")
    BY <2>4, AppendShift
  <2>6. z \o f \in Ways /\ Depth(z \o f) = Depth(z) + (m - 1)
    BY <2>3, <2>4, PrefixConcat
  <2>7. Depth(z \o Forwards(m)) = (Depth(z) + (m - 1)) + 1
    BY <2>4, <2>5, <2>6, DepthIs
  <2> QED BY <1>1, <2>1, <2>3, <2>7
<1>3. z \o Forwards(n) \in Ways
  BY ForwardsIs, PrefixConcat
<1> QED BY <1>2, <1>3

(* The nodes for the rest of a word are a tree, one for each character. *)
LEMMA ChainIs ==
  ASSUME NEW w \in Seq(Nat), NEW d \in Nat, 1 <= d, d <= Len(w)
  PROVE  /\ IsTree(Chain(w, d)) /\ DOMAIN Chain(w, d) = {Forwards(n) : n \in 0 .. Len(w) - d}
         /\ \A n \in 0 .. Len(w) - d : Chain(w, d)[Forwards(n)] = NewNode(w[d + n])
<1> DEFINE s == Chain(w, d)
           m == Len(w) - d
<1>1. m \in Nat /\ \A n \in 0 .. m : n \in Nat /\ Forwards(n) \in Ways /\ Len(Forwards(n)) = n
  <2>1. Len(w) \in Nat
    OBVIOUS
  <2>2. m \in Nat
    BY <2>1
  <2> HIDE DEF m
  <2>3. \A n \in 0 .. m : n \in Nat
    BY <2>2
  <2>4. \A n \in Nat : Forwards(n) \in Ways /\ Len(Forwards(n)) = n
    BY ForwardsIs
  <2> QED BY <2>2, <2>3, <2>4
<1>2. DOMAIN s = {Forwards(n) : n \in 0 .. m}
  BY DEF Chain, Forwards
<1>3. /\ \A p \in DOMAIN s : s[p] = NewNode(w[d + Len(p)])
      /\ s = [p \in DOMAIN s |-> s[p]]
  BY DEF Chain
<1> HIDE DEF s, m
<1>4. ASSUME NEW n \in 0 .. m PROVE s[Forwards(n)] = NewNode(w[d + n])
  <2>1. Forwards(n) \in DOMAIN s
    BY <1>2
  <2>2. s[Forwards(n)] = NewNode(w[d + Len(Forwards(n))])
    BY <1>3, <2>1
  <2> QED BY <1>1, <2>2
<1>5. DOMAIN s \subseteq Ways /\ \A p \in DOMAIN s : Len(p) <= m
  <2>1. ASSUME NEW p \in DOMAIN s PROVE p \in Ways /\ Len(p) <= m
    <3>1. PICK n \in 0 .. m : p = Forwards(n)
      BY <1>2
    <3> QED BY <1>1, <3>1
  <2> QED BY <2>1
<1>6. ASSUME NEW p \in DOMAIN s, NEW q \in Ways, IsPrefix(q, p) PROVE q \in DOMAIN s
  <2>1. PICK n \in 0 .. m : p = Forwards(n)
    BY <1>2
  <2>2. Len(q) \in 0 .. n /\ q = Forwards(Len(q))
    BY <1>1, <1>6, <2>1, ForwardsIs
  <2>3. Len(q) \in 0 .. m
    BY <1>1, <2>2
  <2> QED BY <1>2, <2>2, <2>3
<1>7. IsTree(s)
  BY <1>1, <1>3, <1>5, <1>6 DEF IsTree
<1> QED BY <1>2, <1>4, <1>7 DEF s, m

(* The nodes a tree has keep their words when it grows. *)
LEMMA WordsStay ==
  ASSUME NEW t, IsTree(t), NEW g, IsTree(g), DOMAIN t \subseteq DOMAIN g,
         \A q \in DOMAIN t : g[q].c = t[q].c,
         NEW w, NEW p \in DOMAIN t
  PROVE  p \in StreeGet(t, w) <=> p \in StreeGet(g, w)
<1>1. ASSUME NEW q \in DOMAIN g, NEW side \in Links, IsPrefix(Append(q, side), p)
      PROVE  q \in DOMAIN t
  <2>1. q \in Ways /\ p \in Ways
    BY DEF IsTree
  <2>2. IsPrefix(q, p)
    BY <1>1, <2>1, PrefixLink
  <2> QED BY <2>1, <2>2 DEF IsTree
<1>2. \A q \in DOMAIN t : \A c : Turning(t[q], c) = Turning(g[q], c)
  BY DEF Turning
<1>3. OnWay(t, w, p) <=> OnWay(g, w, p)
  BY <1>1, <1>2 DEF OnWay
<1> QED BY <1>3 DEF StreeGet

(* Making room for a word adds nodes for what begins it and touches no     *)
(* other.                                                                  *)
LEMMA GrownIs ==
  ASSUME NEW t, IsTree(t), DOMAIN t # {}, NEW w \in Seq(Nat), w # <<>>
  PROVE  LET g == Grown(t, w)
         IN  /\ IsTree(g) /\ DOMAIN t \subseteq DOMAIN g
             /\ \A p \in DOMAIN t : g[p] = t[p]
             /\ StreeGet(g, w) # {}
             /\ \A p \in DOMAIN g : p \in DOMAIN t \/
                  \E j \in 1 .. Len(w) : p \in StreeGet(g, SubSeq(w, 1, j)) /\ g[p] = NewNode(w[j])
<1> DEFINE g == Grown(t, w)
<1>1. CASE StreeGet(t, w) # {}
  <2>1. g = t
    BY <1>1 DEF Grown
  <2> QED BY <1>1, <2>1
<1>2. CASE StreeGet(t, w) = {}
  <2> DEFINE z == CHOOSE p \in Ends(t) : OnWay(t, w, p)
             d == Depth(z)
             s == Chain(w, d)
  <2>1. z \in Ends(t) /\ OnWay(t, w, z)
    BY <1>2, EndIs
  <2>2. z \in Ways /\ z \notin DOMAIN t /\ Reaches(t, z)
    BY <1>2, <2>1, EndIs
  <2>3. g = Hang(t, z, s)
    BY <1>2 DEF Grown
  <2> HIDE DEF g, z
  <2>4. d \in Nat /\ 1 <= d /\ d <= Len(w) /\ Len(w) \in Nat
    BY <2>1, <2>2, DepthIs DEF OnWay
  <2> HIDE DEF d
  <2>5. /\ IsTree(s) /\ DOMAIN s = {Forwards(n) : n \in 0 .. Len(w) - d}
        /\ \A n \in 0 .. Len(w) - d : s[Forwards(n)] = NewNode(w[d + n])
    BY <2>4, ChainIs
  <2> HIDE DEF s
  <2>6. Hangs(g, t, z, s)
    BY <2>2, <2>3, <2>5, HangIs
  <2>7. ASSUME NEW p \in DOMAIN t PROVE ~IsPrefix(z, p)
    BY <2>2, <2>7 DEF IsTree
  <2>8. IsTree(g) /\ DOMAIN t \subseteq DOMAIN g /\ \A p \in DOMAIN t : g[p] = t[p]
    BY <2>6, <2>7 DEF Hangs
  <2>9. ASSUME NEW n \in 0 .. Len(w) - d
        PROVE  /\ z \o Forwards(n) \in DOMAIN g /\ g[z \o Forwards(n)] = NewNode(w[d + n])
               /\ d + n \in 1 .. Len(w) /\ n \in Nat
               /\ z \o Forwards(n) \in StreeGet(g, SubSeq(w, 1, d + n))
    <3> DEFINE p == z \o Forwards(n)
               b == SubSeq(w, 1, d + n)
    <3>1. n \in Nat /\ d + n \in 1 .. Len(w) /\ d + n \in Nat
      BY <2>4
    <3>2. p \in DOMAIN g /\ g[p] = NewNode(w[d + n])
      BY <2>5, <2>6 DEF Hangs
    <3>3. p \in Ways /\ Depth(p) = d + n
      BY <2>2, <3>1, ForwardDepth DEF d
    <3>4. b \in Seq(Nat) /\ Len(b) = d + n /\ \A i \in 1 .. d + n : b[i] = w[i]
      BY <2>4, <3>1
    <3> HIDE DEF b
    <3>5. ASSUME NEW q \in DOMAIN g, NEW side \in Links, IsPrefix(Append(q, side), p)
          PROVE  side = Turning(g[q], b[Depth(q)])
      <4>1. q \in Ways /\ Append(q, side) \in Ways
        BY <2>8, PrefixLink DEF IsTree
      <4>2. IsPrefix(q, p) /\ Depth(q) \in Nat /\ 1 <= Depth(q) /\ Depth(q) <= d + n
        BY <3>3, <3>5, <4>1, PrefixLink, DepthIs, DepthGrows
      <4>3. b[Depth(q)] = w[Depth(q)]
        BY <3>1, <3>4, <4>2
      <4>4. CASE q \in DOMAIN t
        <5>1. IsPrefix(Append(q, side), z)
          <6>1. IsPrefix(z, p)
            BY <2>2, <3>1, ForwardsIs, PrefixConcat
          <6>2. IsPrefix(Append(q, side), z) \/ IsPrefix(z, Append(q, side))
            BY <2>2, <3>3, <3>5, <4>1, <6>1, PrefixOrder
          <6>3. IsPrefix(z, Append(q, side)) => IsPrefix(z, q) \/ z = Append(q, side)
            BY <2>2, <4>1, PrefixLink
          <6> QED BY <2>2, <2>7, <4>4, <6>2, <6>3, PrefixOrder
        <5>2. side = Turning(t[q], w[Depth(q)])
          BY <2>1, <4>4, <5>1 DEF OnWay
        <5> QED BY <2>8, <4>3, <4>4, <5>2
      <4>5. CASE q \notin DOMAIN t
        <5>1. PICK m \in 0 .. Len(w) - d : q = z \o Forwards(m)
          <6>1. \E a \in DOMAIN s : q = z \o a
            BY <2>6, <4>1, <4>5 DEF Hangs
          <6> QED BY <2>5, <6>1
        <5>2. m \in Nat /\ Depth(q) = d + m /\ Forwards(m) \in Ways
          BY <2>2, <2>4, <5>1, ForwardDepth, ForwardsIs DEF d
        <5>3. g[q] = NewNode(w[d + m])
          BY <2>5, <2>6, <5>1 DEF Hangs
        <5>4. side = "forward"
          <6>1. Append(q, side) = z \o Append(Forwards(m), side) /\ Append(Forwards(m), side) \in Ways
            <7>1. Append(z \o Forwards(m), side) = z \o Append(Forwards(m), side)
              BY <2>2, <5>2, AppendShift
            <7>2. Append(Forwards(m), side) \in Ways
              BY <5>2, PrefixLink
            <7> QED BY <5>1, <7>1, <7>2
          <6>2. IsPrefix(Append(Forwards(m), side), Forwards(n))
            BY <2>2, <3>1, <3>5, <6>1, PrefixShift, ForwardsIs
          <6>3. /\ Len(Forwards(m)) < Len(Forwards(n)) /\ Forwards(n)[Len(Forwards(m)) + 1] = side
                /\ Len(Forwards(m)) = m /\ Len(Forwards(n)) = n
            BY <3>1, <5>2, <6>2, ForwardsIs, PrefixLink
          <6>4. m + 1 \in 1 .. n
            BY <3>1, <5>2, <6>3
          <6> QED BY <6>3, <6>4 DEF Forwards
        <5>5. g[q].c = w[Depth(q)]
          BY <5>2, <5>3 DEF NewNode
        <5> QED BY <4>3, <5>4, <5>5, TurningIs
      <4> QED BY <4>4, <4>5
    <3>6. g[p].c = b[d + n]
      BY <3>1, <3>2, <3>4 DEF NewNode
    <3> HIDE DEF p
    <3>7. p \in StreeGet(g, b)
      BY <3>1, <3>2, <3>3, <3>4, <3>5, <3>6 DEF StreeGet, OnWay
    <3> QED BY <3>1, <3>2, <3>7 DEF p, b
  <2>10. StreeGet(g, w) # {}
    <3>1. Len(w) - d \in 0 .. Len(w) - d /\ d + (Len(w) - d) = Len(w)
      BY <2>4
    <3>2. SubSeq(w, 1, Len(w)) = w
      BY SubSeqFull
    <3>3. \A n \in 0 .. Len(w) - d : StreeGet(g, SubSeq(w, 1, d + n)) # {}
      BY <2>9
    <3> QED BY <3>1, <3>2, <3>3
  <2>11. ASSUME NEW p \in DOMAIN g, p \notin DOMAIN t
         PROVE  \E j \in 1 .. Len(w) : p \in StreeGet(g, SubSeq(w, 1, j)) /\ g[p] = NewNode(w[j])
    <3>1. PICK n \in 0 .. Len(w) - d : p = z \o Forwards(n)
      <4>1. \E a \in DOMAIN s : p = z \o a
        BY <2>6, <2>11 DEF Hangs
      <4> QED BY <2>5, <4>1
    <3> QED BY <2>9, <3>1
  <2> QED BY <2>8, <2>10, <2>11 DEF g
<1> QED BY <1>1, <1>2

(* The fields of a node. *)
Shaped(t) ==
  \A p \in DOMAIN t : t[p] = [c |-> t[p].c, key |-> t[p].key, word |-> t[p].word, value |-> t[p].value]

(* h is g with the node of w marked. *)
Marked(h, g, w, mark) ==
  /\ IsTree(h) /\ Shaped(h) /\ DOMAIN h = DOMAIN g
  /\ \A p \in DOMAIN h :
       /\ h[p].c = g[p].c
       /\ p \in StreeGet(g, w) => h[p].word = mark.word /\ h[p].value = mark.value
       /\ p \notin StreeGet(g, w) => h[p] = g[p]

(* stree_set: it marks the node of the word, and that only. *)
LEMMA SetIs ==
  ASSUME NEW t, IsTree(t), DOMAIN t # {}, Shaped(t), NEW w \in Seq(Nat), w # <<>>, NEW mark
  PROVE  Marked(StreeSet(t, w, mark), Grown(t, w), w, mark)
<1> DEFINE g == Grown(t, w)
           h == StreeSet(t, w, mark)
<1>1. /\ IsTree(g) /\ \A p \in DOMAIN t : g[p] = t[p]
      /\ \A p \in DOMAIN g : p \in DOMAIN t \/ \E c : g[p] = NewNode(c)
  BY GrownIs
<1> HIDE DEF g
<1>2. Shaped(g)
  BY <1>1 DEF NewNode, Shaped
<1>3. /\ DOMAIN h = DOMAIN g /\ h = [p \in DOMAIN h |-> h[p]]
      /\ \A p \in DOMAIN g :
           h[p] = IF p \in StreeGet(g, w)
                  THEN [g[p] EXCEPT !.key = mark.key, !.word = mark.word, !.value = mark.value]
                  ELSE g[p]
  BY DEF StreeSet, g
<1> HIDE DEF h
<1>4. IsTree(h)
  BY <1>1, <1>3 DEF IsTree
<1>5. ASSUME NEW p \in DOMAIN g, p \in StreeGet(g, w)
      PROVE  h[p] = [c |-> g[p].c, key |-> mark.key, word |-> mark.word, value |-> mark.value]
  <2>1. h[p] = [g[p] EXCEPT !.key = mark.key, !.word = mark.word, !.value = mark.value]
    BY <1>3, <1>5
  <2>2. g[p] = [c |-> g[p].c, key |-> g[p].key, word |-> g[p].word, value |-> g[p].value]
    BY <1>2 DEF Shaped
  <2> QED BY <2>1, <2>2
<1>6. Shaped(h)
  BY <1>2, <1>3, <1>5 DEF Shaped
<1>7. \A p \in DOMAIN h :
        /\ h[p].c = g[p].c
        /\ p \in StreeGet(g, w) => h[p].word = mark.word /\ h[p].value = mark.value
        /\ p \notin StreeGet(g, w) => h[p] = g[p]
  BY <1>3, <1>5
<1> QED BY <1>3, <1>4, <1>6, <1>7 DEF Marked, g, h

---------------------------------------------------------------------------
(* The invariant of stree.c, of a tree t that stores s.  Until it is       *)
(* balanced every node has a word, which is stored or begins one that is;  *)
(* until it is used after that, the values in it are those stored.         *)
Known(s, w) == w = <<RootLetter>> \/ \E x \in DOMAIN s : w \in Beginnings(x)

Says(s, n, w) ==
  /\ n.value = IF w \in DOMAIN s THEN s[w] ELSE 0
  /\ w \in DOMAIN s => n.word = w

Named(t, s) ==
  /\ \A p \in DOMAIN t : \E w \in Seq(Nat) \ {<<>>} :
       p \in StreeGet(t, w) /\ Known(s, w) /\ Says(s, t[p], w)
  /\ \A x \in DOMAIN s : StreeGet(t, x) # {}
  /\ StreeGet(t, <<RootLetter>>) # {}

Listed(t, s) ==
  /\ Single(t)
  /\ \A n \in Valued(t) : n.word \in DOMAIN s /\ n.value = s[n.word]
  /\ \A w \in DOMAIN s : s[w] # 0 => \E n \in Valued(t) : n.word = w
  /\ \A m, n \in Valued(t) : m.word = n.word => m = n

NamesInv ==
  /\ IsTree(names) /\ Shaped(names)
  /\ DOMAIN stored \subseteq Words
  /\ rehung \in {"no", "yes", "used"}
  /\ names = NoTree => stored = NoWords /\ rehung = "no"
  /\ names # NoTree => DOMAIN names # {}
  /\ pending \in Seq(Ways) /\ (pending # <<>> => rehung # "no")
  /\ inside => pending # <<>> /\ Head(pending) \in DOMAIN names
  /\ names # NoTree /\ rehung = "no" => Named(names, stored)
  /\ rehung # "used" => Listed(names, stored)

(* The words stored and the root are not empty. *)
LEMMA WordsAre ==
  /\ \A w \in Words : w \in Seq(Nat) /\ w # <<>>
  /\ <<RootLetter>> \in Seq(Nat) /\ <<RootLetter>> # <<>>
<1>1. RootLetter \in Nat
  BY StreeAssumption
<1>2. \A w \in Words : w \in Seq(Nat) /\ w # <<>>
  BY StreeAssumption
<1> QED BY <1>1, <1>2

(* What lookups promise implies what an iteration promises. *)
LEMMA NamedListed ==
  ASSUME NEW t, IsTree(t), NEW s, DOMAIN s \subseteq Words, Named(t, s)
  PROVE  Listed(t, s)
<1>1. ASSUME NEW p \in DOMAIN t, t[p].value # 0
      PROVE  \E w \in DOMAIN s : w \in Seq(Nat) /\ p \in StreeGet(t, w) /\ t[p].word = w /\ t[p].value = s[w]
  <2>1. PICK w \in Seq(Nat) \ {<<>>} : p \in StreeGet(t, w) /\ Says(s, t[p], w)
    BY DEF Named
  <2> QED BY <1>1, <2>1 DEF Says
<1>2. ASSUME NEW p \in DOMAIN t, NEW q \in DOMAIN t, t[p].value # 0, t[q].value # 0, t[p].word = t[q].word
      PROVE  p = q
  <2>1. PICK w \in Seq(Nat) : p \in StreeGet(t, w) /\ t[p].word = w
    BY <1>1, <1>2
  <2>2. PICK x \in Seq(Nat) : q \in StreeGet(t, x) /\ t[q].word = x
    BY <1>1, <1>2
  <2>3. w = x
    BY <1>2, <2>1, <2>2
  <2> QED BY <2>1, <2>2, <2>3, OneNode
<1>3. Single(t)
  BY <1>2 DEF Single
<1>4. \A n \in Valued(t) : \E p \in DOMAIN t : n = t[p] /\ t[p].value # 0
  BY DEF Valued, Held
<1>5. \A n \in Valued(t) : n.word \in DOMAIN s /\ n.value = s[n.word]
  BY <1>1, <1>4
<1>6. \A m, n \in Valued(t) : m.word = n.word => m = n
  BY <1>2, <1>4
<1>7. ASSUME NEW w \in DOMAIN s, s[w] # 0 PROVE \E n \in Valued(t) : n.word = w
  <2>1. PICK p \in StreeGet(t, w) : TRUE
    BY DEF Named
  <2>2. p \in DOMAIN t
    BY DEF StreeGet
  <2>3. PICK x \in Seq(Nat) : p \in StreeGet(t, x) /\ Says(s, t[p], x)
    BY <2>2 DEF Named
  <2>4. w \in Seq(Nat)
    BY WordsAre
  <2>5. x = w
    BY <2>3, <2>4, OneWord
  <2>6. t[p].value # 0 /\ t[p].word = w
    BY <1>7, <2>3, <2>5 DEF Says
  <2> QED BY <2>2, <2>6 DEF Valued, Held
<1> QED BY <1>3, <1>5, <1>6, <1>7 DEF Listed

(* The root alone satisfies the invariant. *)
LEMMA NewStep ==
  ASSUME NamesInv, NamesNew
  PROVE  NamesInv'
<1> DEFINE t == [p \in {<<>>} |-> NewNode(RootLetter)]
<1>1. /\ names = NoTree /\ names' = t /\ stored' = stored /\ stored = NoWords /\ rehung' = "no"
      /\ pending' = pending /\ inside' = inside /\ pending = <<>> /\ ~inside
  BY DEF NamesNew, NamesInv
<1>2. DOMAIN t = {<<>>} /\ t[<<>>] = NewNode(RootLetter) /\ t = [p \in DOMAIN t |-> t[p]]
  OBVIOUS
<1> HIDE DEF t
<1>3. <<>> \in Ways /\ Len(<<>>) = 0
  BY DEF Ways
<1>4. IsTree(t)
  <2>1. \A q \in Ways : IsPrefix(q, <<>>) => q = <<>>
    BY <1>3, PrefixOrder
  <2>2. \A p \in DOMAIN t : Len(p) <= 0
    BY <1>2, <1>3
  <2> QED BY <1>2, <1>3, <2>1, <2>2 DEF IsTree
<1>5. Shaped(t)
  BY <1>2 DEF Shaped, NewNode
<1>6. DOMAIN stored = {}
  BY <1>1 DEF NoWords
<1>7. <<>> \in StreeGet(t, <<RootLetter>>)
  <2>1. \A side \in Links : ~IsPrefix(Append(<<>>, side), <<>>)
    BY <1>3, PrefixLink
  <2>2. Depth(<<>>) = 1
    BY <1>3, DepthIs
  <2>3. Len(<<RootLetter>>) = 1 /\ <<RootLetter>>[1] = RootLetter
    OBVIOUS
  <2> QED BY <1>2, <2>1, <2>2, <2>3 DEF StreeGet, OnWay, NewNode
<1>8. Named(t, stored)
  <2>1. Known(stored, <<RootLetter>>)
    BY DEF Known
  <2>2. Says(stored, t[<<>>], <<RootLetter>>)
    BY <1>2, <1>6 DEF Says, NewNode
  <2> QED BY <1>2, <1>6, <1>7, <2>1, <2>2, WordsAre DEF Named
<1>9. Listed(t, stored)
  BY <1>4, <1>6, <1>8, NamedListed
<1>10. IsTree(names') /\ Shaped(names') /\ Named(names', stored') /\ Listed(names', stored')
  BY <1>1, <1>4, <1>5, <1>8, <1>9
<1>11. names' # NoTree /\ DOMAIN names' # {}
  <2>1. DOMAIN names' # {}
    BY <1>1, <1>2
  <2> QED BY <2>1, EmptyTree
<1>12. DOMAIN stored' \subseteq Words /\ pending' \in Seq(Ways)
  BY <1>1, <1>6
<1> QED BY <1>1, <1>10, <1>11, <1>12 DEF NamesInv

(* What a word is given is said of its node, and nothing changes for those *)
(* of other words.                                                         *)
LEMMA SetNamed ==
  ASSUME NEW t, IsTree(t), Shaped(t), DOMAIN t # {}, NEW s, DOMAIN s \subseteq Words, Named(t, s),
         NEW w \in Words, NEW mark, mark.word = w,
         NEW z, DOMAIN z = DOMAIN s \cup {w}, z[w] = mark.value,
         \A u \in DOMAIN s : u # w => z[u] = s[u]
  PROVE  Named(StreeSet(t, w, mark), z)
<1> DEFINE g == Grown(t, w)
           h == StreeSet(t, w, mark)
<1>0. w \in Seq(Nat) /\ w # <<>>
  BY WordsAre
<1>1. /\ IsTree(g) /\ DOMAIN t \subseteq DOMAIN g
      /\ \A p \in DOMAIN t : g[p] = t[p]
      /\ StreeGet(g, w) # {}
      /\ \A p \in DOMAIN g : p \in DOMAIN t \/
           \E j \in 1 .. Len(w) : p \in StreeGet(g, SubSeq(w, 1, j)) /\ g[p] = NewNode(w[j])
  BY <1>0, GrownIs
<1>2. /\ IsTree(h) /\ DOMAIN h = DOMAIN g
      /\ \A p \in DOMAIN h :
           /\ h[p].c = g[p].c
           /\ p \in StreeGet(g, w) => h[p].word = mark.word /\ h[p].value = mark.value
           /\ p \notin StreeGet(g, w) => h[p] = g[p]
  <2>1. Marked(h, g, w, mark)
    BY <1>0, SetIs
  <2> HIDE DEF g, h
  <2> QED BY <2>1 DEF Marked
<1> HIDE DEF g, h
<1>3. \A u : \A p \in DOMAIN t : p \in StreeGet(t, u) <=> p \in StreeGet(g, u)
  BY <1>1, WordsStay
<1>4. \A u : \A p \in DOMAIN g : p \in StreeGet(g, u) <=> p \in StreeGet(h, u)
  BY <1>1, <1>2, WordsStay
<1>5. \A u : \A p : (p \in StreeGet(t, u) => p \in DOMAIN t) /\ (p \in StreeGet(g, u) => p \in DOMAIN g)
  BY DEF StreeGet
<1>6. \A u : StreeGet(t, u) # {} => StreeGet(h, u) # {}
  BY <1>1, <1>3, <1>4, <1>5
<1>7. StreeGet(h, w) # {}
  BY <1>1, <1>4, <1>5
<1>8. \A u : Known(s, u) => Known(z, u)
  BY DEF Known
<1>9. ASSUME NEW p \in DOMAIN h
      PROVE  \E u \in Seq(Nat) \ {<<>>} : p \in StreeGet(h, u) /\ Known(z, u) /\ Says(z, h[p], u)
  <2>1. CASE p \in StreeGet(g, w)
    <3>1. Says(z, h[p], w)
      BY <1>2, <2>1 DEF Says
    <3>2. w \in Beginnings(w)
      <4>1. Len(w) \in 1 .. Len(w)
        BY <1>0, EmptySeq
      <4>2. SubSeq(w, 1, Len(w)) = w
        BY <1>0, SubSeqFull
      <4> QED BY <4>1, <4>2 DEF Beginnings
    <3>3. Known(z, w)
      BY <3>2 DEF Known
    <3>4. p \in StreeGet(h, w)
      BY <1>2, <1>4, <2>1
    <3> QED BY <1>0, <3>1, <3>3, <3>4
  <2>2. CASE p \notin StreeGet(g, w) /\ p \in DOMAIN t
    <3>1. PICK u \in Seq(Nat) \ {<<>>} : p \in StreeGet(t, u) /\ Known(s, u) /\ Says(s, t[p], u)
      BY <2>2 DEF Named
    <3>2. p \in StreeGet(g, u) /\ p \in StreeGet(h, u)
      BY <1>1, <1>3, <1>4, <2>2, <3>1
    <3>3. u # w /\ h[p] = t[p]
      BY <1>1, <1>2, <2>2, <3>2
    <3>4. Says(z, h[p], u)
      BY <3>1, <3>3 DEF Says
    <3> QED BY <1>8, <3>1, <3>2, <3>4
  <2>3. CASE p \notin StreeGet(g, w) /\ p \notin DOMAIN t
    <3>1. PICK j \in 1 .. Len(w) : p \in StreeGet(g, SubSeq(w, 1, j)) /\ g[p] = NewNode(w[j])
      BY <1>1, <1>2, <2>3
    <3> DEFINE u == SubSeq(w, 1, j)
    <3>2. u \in Seq(Nat) /\ u # <<>>
      <4>1. j \in Nat /\ 1 <= j /\ j <= Len(w) /\ Len(w) \in Nat
        BY <1>0
      <4>2. u \in Seq(Nat) /\ Len(u) = j
        BY <1>0, <4>1
      <4> HIDE DEF u
      <4> QED BY <4>1, <4>2
    <3>3. u \in Beginnings(w)
      BY DEF Beginnings
    <3> HIDE DEF u
    <3>4. p \in StreeGet(g, u) /\ g[p] = NewNode(w[j])
      BY <3>1 DEF u
    <3>5. u # w /\ h[p] = g[p]
      BY <1>2, <2>3, <3>4
    <3>6. u \notin DOMAIN s
      <4>1. ASSUME u \in DOMAIN s PROVE FALSE
        <5>1. PICK q \in StreeGet(t, u) : TRUE
          BY <4>1 DEF Named
        <5>2. q \in DOMAIN t /\ q \in StreeGet(g, u)
          BY <1>3, <1>5
        <5>3. q = p
          BY <1>1, <3>2, <3>4, <5>2, OneNode
        <5> QED BY <2>3, <5>2, <5>3
      <4> QED BY <4>1
    <3>7. Says(z, h[p], u)
      BY <3>4, <3>5, <3>6 DEF Says, NewNode
    <3>8. Known(z, u)
      BY <3>3 DEF Known
    <3>9. p \in StreeGet(h, u)
      BY <1>2, <1>4, <3>4
    <3> QED BY <3>2, <3>7, <3>8, <3>9
  <2> QED BY <2>1, <2>2, <2>3
<1>10. \A x \in DOMAIN z : StreeGet(h, x) # {}
  BY <1>6, <1>7 DEF Named
<1>11. StreeGet(h, <<RootLetter>>) # {}
  BY <1>6 DEF Named
<1>12. Named(h, z)
  BY <1>9, <1>10, <1>11 DEF Named
<1> QED BY <1>12 DEF h

(* Storing a word keeps it: lookups of other words answer as before. *)
LEMMA SetStep ==
  ASSUME NamesInv, NEW w \in Words, NEW v \in NameValues, NamesSet(w, v)
  PROVE  NamesInv'
<1>1. PICK a \in Addresses : names' = StreeSet(names, w, [key |-> a, word |-> w, value |-> v])
  BY DEF NamesSet
<1> DEFINE mark == [key |-> a, word |-> w, value |-> v]
           g == Grown(names, w)
<1>2. /\ names # NoTree /\ pending = <<>> /\ pending' = pending /\ inside' = inside /\ ~inside
      /\ stored' = [u \in DOMAIN stored \cup {w} |-> IF u = w THEN v ELSE stored[u]]
      /\ rehung' = IF rehung = "yes" THEN "used" ELSE rehung
  BY DEF NamesSet, NamesInv
<1>3. IsTree(names) /\ Shaped(names) /\ DOMAIN names # {} /\ DOMAIN stored \subseteq Words
  BY <1>2 DEF NamesInv
<1>w. w \in Seq(Nat) /\ w # <<>>
  BY WordsAre
<1>4. mark.word = w /\ mark.value = v
  OBVIOUS
<1>5. names' = StreeSet(names, w, mark)
  BY <1>1
<1> HIDE DEF mark
<1>6. IsTree(g) /\ DOMAIN names \subseteq DOMAIN g
  BY <1>3, <1>w, GrownIs
<1>7. IsTree(names') /\ Shaped(names') /\ DOMAIN names' = DOMAIN g
  <2>1. Marked(names', g, w, mark)
    <3> HIDE DEF g
    <3>1. g = Grown(names, w)
      BY DEF g
    <3> QED BY <1>3, <1>w, <1>5, <3>1, SetIs
  <2> QED BY <2>1 DEF Marked
<1>8. DOMAIN names' # {} /\ names' # NoTree
  <2>1. DOMAIN names' # {}
    BY <1>3, <1>6, <1>7
  <2> QED BY <2>1, EmptyTree
<1>9. /\ DOMAIN stored' = DOMAIN stored \cup {w} /\ stored'[w] = mark.value
      /\ \A u \in DOMAIN stored : u # w => stored'[u] = stored[u]
  BY <1>2, <1>4
<1>10. DOMAIN stored' \subseteq Words
  BY <1>3, <1>9
<1>11. rehung = "no" => Named(names', stored')
  <2>1. ASSUME rehung = "no" PROVE Named(names, stored)
    BY <1>2, <2>1 DEF NamesInv
  <2>2. ASSUME Named(names, stored), NEW z, z = stored' PROVE Named(StreeSet(names, w, mark), z)
    <3>1. /\ DOMAIN z = DOMAIN stored \cup {w} /\ z[w] = mark.value
          /\ \A u \in DOMAIN stored : u # w => z[u] = stored[u]
      BY <1>9, <2>2
    <3>2. Named(names, stored) /\ mark.word = w
      BY <1>4, <2>2
    <3> QED BY <1>3, <3>1, <3>2, SetNamed
  <2> QED BY <1>5, <2>1, <2>2
<1>12. rehung = "no" => Listed(names', stored')
  BY <1>7, <1>10, <1>11, NamedListed
<1>13. rehung' \in {"no", "yes", "used"} /\ (rehung' = "no" => rehung = "no")
       /\ (rehung' # "used" => rehung = "no")
  BY <1>2 DEF NamesInv
<1>14. pending' \in Seq(Ways) /\ pending' = <<>> /\ ~inside'
  BY <1>2 DEF NamesInv
<1> QED BY <1>7, <1>8, <1>10, <1>11, <1>12, <1>13, <1>14 DEF NamesInv

(* Only the calls to come change. *)
LEMMA PendingStep ==
  ASSUME NamesInv, names' = names, stored' = stored, rehung' = rehung, rehung # "no",
         pending' \in Seq(Ways), inside' => pending' # <<>> /\ Head(pending') \in DOMAIN names
  PROVE  NamesInv'
BY DEF NamesInv

(* So does a call of stree_balance: from here on only iterations promise   *)
(* anything.                                                               *)
LEMMA NamesBalanceStep ==
  ASSUME NamesInv, NamesBalance
  PROVE  NamesInv'
<1>1. /\ names # NoTree /\ pending = <<>> /\ pending' = << <<>> >> /\ inside' = inside /\ ~inside
      /\ rehung' = (IF rehung = "no" THEN "yes" ELSE rehung)
      /\ names' = names /\ stored' = stored
  BY DEF NamesBalance, NamesInv
<1>2. pending' \in Seq(Ways)
  BY <1>1 DEF Ways
<1>3. rehung' \in {"yes", "used"} /\ (rehung' # "used" => rehung # "used")
  BY <1>1 DEF NamesInv
<1> QED BY <1>1, <1>2, <1>3 DEF NamesInv

(* So does the beginning of a call that waited. *)
LEMMA NamesEnterStep ==
  ASSUME NamesInv, NamesEnter
  PROVE  NamesInv'
<1>1. /\ pending # <<>> /\ ~inside /\ names' = names /\ stored' = stored /\ rehung' = rehung
      /\ pending \in Seq(Ways) /\ rehung # "no"
  BY DEF NamesEnter, NamesInv
<1>2. CASE Head(pending) \in DOMAIN names
  <2>1. pending' = pending
    BY <1>2 DEF NamesEnter
  <2> QED BY <1>1, <1>2, <2>1, PendingStep
<1>3. CASE Head(pending) \notin DOMAIN names
  <2>1. pending' = Tail(pending) /\ ~inside'
    BY <1>1, <1>3 DEF NamesEnter
  <2>2. pending' \in Seq(Ways)
    BY <1>1, <2>1, HeadTailProperties
  <2> QED BY <1>1, <2>1, <2>2, PendingStep
<1> QED BY <1>2, <1>3

(* So does going on with the subtrees. *)
LEMMA NamesDownStep ==
  ASSUME NamesInv, NamesDown
  PROVE  NamesInv'
<1> DEFINE three == [i \in 1 .. 3 |-> Append(Head(pending), <<"left", "right", "forward">>[i])]
<1>1. /\ inside /\ pending # <<>> /\ ~inside' /\ names' = names /\ stored' = stored
      /\ rehung' = rehung /\ rehung # "no" /\ pending \in Seq(Ways)
      /\ pending' = three \o Tail(pending)
  BY DEF NamesDown, NamesInv
<1>2. Head(pending) \in Ways /\ Tail(pending) \in Seq(Ways)
  BY <1>1, HeadTailProperties
<1>3. \A i \in 1 .. 3 : <<"left", "right", "forward">>[i] \in Links
  BY DEF Links
<1>4. \A i \in 1 .. 3 : Append(Head(pending), <<"left", "right", "forward">>[i]) \in Ways
  BY <1>2, <1>3, PrefixLink
<1>5. three \in Seq(Ways)
  BY <1>4
<1> HIDE DEF three
<1>6. pending' \in Seq(Ways)
  BY <1>1, <1>2, <1>5, ConcatProperties
<1> QED BY <1>1, <1>6, PendingStep

(* So does a turn of its loop, which keeps all that the nodes hold. *)
LEMMA NamesMoveStep ==
  ASSUME NamesInv, NamesMove
  PROVE  NamesInv'
<1> DEFINE p == Head(pending)
           side == IF turns > 0 THEN "right" ELSE "left"
           h == Hang(names, p, RootDown(At(names, p), side))
<1>1. /\ inside /\ pending # <<>> /\ p \in DOMAIN names /\ names' = h /\ stored' = stored
      /\ rehung' = rehung /\ pending' = pending /\ inside' = inside
      /\ pending \in Seq(Ways) /\ rehung \in {"yes", "used"}
  BY DEF NamesMove, NamesInv
<1>2. side \in {"left", "right"} /\ IsTree(names)
  BY DEF NamesInv
<1> HIDE DEF side, p
<1>3. IsTree(h) /\ p \in DOMAIN h /\ Held(h) = Held(names) /\ (Single(names) => Single(h))
  BY <1>1, <1>2, TurnIs
<1> HIDE DEF h
<1>4. Shaped(h)
  <2>1. ASSUME NEW q \in DOMAIN h
        PROVE  h[q] = [c |-> h[q].c, key |-> h[q].key, word |-> h[q].word, value |-> h[q].value]
    <3>1. h[q] \in Held(names)
      BY <1>3 DEF Held
    <3>2. PICK r \in DOMAIN names : h[q] = names[r]
      BY <3>1 DEF Held
    <3>3. Shaped(names)
      BY DEF NamesInv
    <3> QED BY <3>2, <3>3 DEF Shaped
  <2> QED BY <2>1 DEF Shaped
<1>5. Listed(names, stored) => Listed(h, stored)
  <2>1. Valued(h) = Valued(names)
    BY <1>3 DEF Valued
  <2> QED BY <1>3, <2>1 DEF Listed
<1>6. IsTree(names') /\ Shaped(names') /\ (Listed(names, stored) => Listed(names', stored'))
  BY <1>1, <1>3, <1>4, <1>5
<1>7. DOMAIN names' # {} /\ names' # NoTree
  <2>1. DOMAIN names' # {}
    BY <1>1, <1>3
  <2> QED BY <2>1, EmptyTree
<1>8. inside' => pending' # <<>> /\ Head(pending') \in DOMAIN names'
  BY <1>1, <1>3 DEF p
<1> QED BY <1>1, <1>6, <1>7, <1>8 DEF NamesInv

(* Nothing is in the tree that is NULL. *)
LEMMA EmptyListed ==
  IsTree(NoTree) /\ Shaped(NoTree) /\ Listed(NoTree, NoWords) /\ DOMAIN NoWords = {}
<1>1. IsTree(NoTree) /\ DOMAIN NoTree = {}
  BY EmptyTree
<1>2. DOMAIN NoWords = {}
  BY DEF NoWords
<1>3. Shaped(NoTree) /\ Single(NoTree) /\ Valued(NoTree) = {}
  BY <1>1 DEF Shaped, Single, Valued, Held
<1> QED BY <1>1, <1>2, <1>3 DEF Listed

(* So does stree_free. *)
LEMMA NamesFreeStep ==
  ASSUME NamesInv, NamesFree
  PROVE  NamesInv'
<1>1. /\ names' = NoTree /\ stored' = NoWords /\ rehung' = "no" /\ pending = <<>>
      /\ pending' = pending /\ inside' = inside
  BY DEF NamesFree
<1>2. pending' \in Seq(Ways) /\ ~inside'
  BY <1>1 DEF NamesInv
<1>3. IsTree(names') /\ Shaped(names') /\ Listed(names', stored') /\ DOMAIN stored' = {}
  BY <1>1, EmptyListed
<1> QED BY <1>1, <1>2, <1>3 DEF NamesInv

(* The invariant of stree.c is kept by every step. *)
LEMMA NamesInvStep ==
  ASSUME NamesInv, [NamesNext]_namesVars
  PROVE  NamesInv'
<1>1. CASE NamesNew
  BY <1>1, NewStep
<1>2. CASE \E w \in Words, v \in NameValues : NamesSet(w, v)
  BY <1>2, SetStep
<1>3. CASE NamesBalance
  BY <1>3, NamesBalanceStep
<1>4. CASE NamesEnter
  BY <1>4, NamesEnterStep
<1>5. CASE NamesMove
  BY <1>5, NamesMoveStep
<1>6. CASE NamesDown
  BY <1>6, NamesDownStep
<1>7. CASE NamesFree
  BY <1>7, NamesFreeStep
<1>8. CASE UNCHANGED namesVars
  BY <1>8 DEF namesVars, NamesInv
<1> QED BY <1>1, <1>2, <1>3, <1>4, <1>5, <1>6, <1>7, <1>8 DEF NamesNext

(* It holds at first. *)
LEMMA NamesInvStart ==
  ASSUME NamesInit
  PROVE  NamesInv
<1>1. /\ names = NoTree /\ stored = NoWords /\ rehung = "no" /\ pending = <<>> /\ ~inside
  BY DEF NamesInit
<1>2. pending \in Seq(Ways)
  BY <1>1
<1>3. IsTree(names) /\ Shaped(names) /\ Listed(names, stored) /\ DOMAIN stored = {}
  BY <1>1, EmptyListed
<1> QED BY <1>1, <1>2, <1>3 DEF NamesInv

(* What is looked up are words. *)
LEMMA LookedUp ==
  ASSUME NEW w,
         w \in {<<RootLetter>>} \cup UNION {Beginnings(x \o <<c>>) : x \in Words, c \in Letters}
  PROVE  w \in Seq(Nat)
<1>1. CASE w = <<RootLetter>>
  BY <1>1, WordsAre
<1>2. CASE w # <<RootLetter>>
  <2>1. PICK x \in Words, c \in Letters : w \in Beginnings(x \o <<c>>)
    BY <1>2
  <2>2. x \in Seq(Nat)
    BY WordsAre
  <2>3. c \in Nat
    <3>1. CASE c = RootLetter
      BY <3>1, StreeAssumption
    <3>2. CASE c # RootLetter
      <4>1. c \in UNION {{y[i] : i \in DOMAIN y} : y \in Words}
        BY <2>1, <3>2 DEF Letters
      <4>2. PICK y \in Words : c \in {y[i] : i \in DOMAIN y}
        BY <4>1
      <4>3. y \in Seq(Nat)
        BY WordsAre
      <4> QED BY <4>2, <4>3, ElementOfSeq
    <3> QED BY <3>1, <3>2
  <2> DEFINE y == x \o <<c>>
  <2>4. y \in Seq(Nat)
    BY <2>2, <2>3
  <2> HIDE DEF y
  <2>5. PICK i \in 1 .. Len(y) : w = SubSeq(y, 1, i)
    BY <2>1 DEF Beginnings, y
  <2>6. Len(y) \in Nat /\ i <= Len(y) /\ i \in Nat
    BY <2>4
  <2> QED BY <2>4, <2>5, <2>6
<1> QED BY <1>1, <1>2

(* Where it holds, a lookup finds the words stored and what begins them,   *)
(* and nothing else.                                                       *)
LEMMA NamesFoundWhenInv ==
  ASSUME NamesInv
  PROVE  NamesFound
<1> SUFFICES ASSUME names # NoTree, rehung = "no",
                    NEW w \in {<<RootLetter>>} \cup
                                UNION {Beginnings(x \o <<c>>) : x \in Words, c \in Letters}
             PROVE  /\ StreeGet(names, w) # {}
                         <=> w = <<RootLetter>> \/ \E x \in DOMAIN stored : w \in Beginnings(x)
                    /\ \A p \in StreeGet(names, w) :
                         names[p].value = IF w \in DOMAIN stored THEN stored[w] ELSE 0
                    /\ StreeExists(names, w) <=> w \in DOMAIN stored /\ stored[w] # 0
  BY DEF NamesFound
<1>1. IsTree(names) /\ Named(names, stored) /\ DOMAIN stored \subseteq Words
  BY DEF NamesInv
<1>2. w \in Seq(Nat)
  <2>1. w \in {<<RootLetter>>} \cup
               UNION {Beginnings(x \o <<c>>) : x \in Words, c \in Letters}
    OBVIOUS
  <2> QED BY <2>1, LookedUp
<1>3. ASSUME NEW p \in StreeGet(names, w) PROVE Known(stored, w) /\ Says(stored, names[p], w)
  <2>1. p \in DOMAIN names
    BY DEF StreeGet
  <2>2. PICK u \in Seq(Nat) : p \in StreeGet(names, u) /\ Known(stored, u) /\ Says(stored, names[p], u)
    BY <1>1, <2>1 DEF Named
  <2>3. u = w
    BY <1>1, <1>2, <2>2, OneWord
  <2> QED BY <2>2, <2>3
<1>4. ASSUME NEW x \in DOMAIN stored, w \in Beginnings(x) PROVE StreeGet(names, w) # {}
  <2>1. PICK i \in 1 .. Len(x) : w = SubSeq(x, 1, i)
    BY <1>4 DEF Beginnings
  <2>2. x \in Seq(Nat)
    BY <1>1, WordsAre
  <2>3. PICK p \in StreeGet(names, x) : TRUE
    BY <1>1 DEF Named
  <2> QED BY <1>1, <2>1, <2>2, <2>3, Begun
<1>5. StreeGet(names, <<RootLetter>>) # {}
  BY <1>1 DEF Named
<1>6. w \in DOMAIN stored => StreeGet(names, w) # {}
  BY <1>1 DEF Named
<1>7. StreeExists(names, w) <=> w \in DOMAIN stored /\ stored[w] # 0
  BY <1>3, <1>6 DEF StreeExists, Says
<1> QED BY <1>3, <1>4, <1>5, <1>7 DEF Known, Says

(* Where it holds, an iteration gives every word stored once. *)
LEMMA NamesVisitedWhenInv ==
  ASSUME NamesInv
  PROVE  NamesVisited
<1> SUFFICES ASSUME rehung # "used"
             PROVE  /\ {<<names[p].word, names[p].value>> : p \in Visited(names)}
                         = {<<w, stored[w]>> : w \in {w \in DOMAIN stored : stored[w] # 0}}
                    /\ \A p, q \in Visited(names) : names[p].word = names[q].word => p = q
  BY DEF NamesVisited
<1>1. Listed(names, stored)
  BY DEF NamesInv
<1>2. \A p \in Visited(names) : p \in DOMAIN names /\ names[p].value # 0 /\ names[p] \in Valued(names)
  BY DEF Visited, Valued, Held
<1>3. \A n \in Valued(names) : \E p \in Visited(names) : n = names[p]
  BY DEF Visited, Valued, Held
<1>4. ASSUME NEW p \in Visited(names)
      PROVE  /\ names[p].word \in DOMAIN stored /\ names[p].value = stored[names[p].word]
             /\ stored[names[p].word] # 0
  BY <1>1, <1>2 DEF Listed
<1>5. ASSUME NEW w \in DOMAIN stored, stored[w] # 0
      PROVE  \E p \in Visited(names) : names[p].word = w /\ names[p].value = stored[w]
  BY <1>1, <1>3, <1>4, <1>5 DEF Listed
<1>6. \A p, q \in Visited(names) : names[p].word = names[q].word => p = q
  BY <1>1, <1>2 DEF Listed, Single
<1> QED BY <1>4, <1>5, <1>6

(* Whatever words stree_set was given, in whatever order, stree_get finds  *)
(* these, each with the value it was given last, and besides only what     *)
(* begins one, with none.  This is so until stree_balance is called.       *)
THEOREM NamesAreFound == NamesSpec => []NamesFound
<1>1. NamesSpec => []NamesInv
  BY NamesInvStart, NamesInvStep, PTL DEF NamesSpec
<1>2. NamesInv => NamesFound
  BY NamesFoundWhenInv
<1> QED BY <1>1, <1>2, PTL

(* stree_iterate comes to every word that has a value, once, and still     *)
(* does in the midst of stree_balance and after it.                        *)
THEOREM NamesAreVisited == NamesSpec => []NamesVisited
<1>1. NamesSpec => []NamesInv
  BY NamesInvStart, NamesInvStep, PTL DEF NamesSpec
<1>2. NamesInv => NamesVisited
  BY NamesVisitedWhenInv
<1> QED BY <1>1, <1>2, PTL
=============================================================================
