-------------------------------- MODULE Dll --------------------------------
(***************************************************************************)
(* The doubly linked list of dll.c.  node holds the nodes that are         *)
(* allocated, by address; calloc picks any address that is not, so a node  *)
(* that was freed can come back as another.  The loops of dll_iterate and  *)
(* dll_free run one turn at a time, and nobody calls the list while one is *)
(* running, as in mhasm.c.  order and index are not in the code: order is  *)
(* the list of the nodes' addresses that the links are meant to represent, *)
(* index the place of the cursor in it.                                    *)
(***************************************************************************)
EXTENDS Integers, Sequences

CONSTANTS
  Nodes,    \* addresses calloc may return
  Values,   \* what callers push
  NULL

ASSUME DllAssumption == NULL \notin Nodes

VARIABLES
  first, last, count, node,
  busy,      \* "no", "iterate" or "free" inside these two, "freed" after
  forward,   \* dll_iterate's argument
  cursor,    \* the variable current of both loops
  answer,    \* what the last call returned, or the callback was given
  order, index

list == <<first, last, count, node>>
walk == <<busy, forward, cursor>>
ghost == <<order, index>>
dllVars == <<first, last, count, node, busy, forward, cursor, answer, order, index>>

DllInit ==
  /\ first = NULL /\ last = NULL /\ count = 0 /\ node = <<>>
  /\ busy = "no" /\ forward = TRUE /\ cursor = NULL /\ answer = NULL
  /\ order = <<>> /\ index = 0

Fresh == Nodes \ DOMAIN node

(* The nodes that are left when n is freed. *)
Without(n) == [m \in DOMAIN node \ {n} |-> node[m]]

---------------------------------------------------------------------------
(* Mutant: the new last node is not told which came before it. *)
DllPushOneWay(v) ==
  /\ busy = "no"
  /\ \E n \in Fresh :
       /\ node' = [m \in DOMAIN node \cup {n} |->
                     IF m = n THEN [next |-> NULL, prev |-> NULL, value |-> v]
                     ELSE IF first # NULL /\ m = last THEN [node[m] EXCEPT !.next = n]
                     ELSE node[m]]
       /\ first' = IF first = NULL THEN n ELSE first
       /\ last' = n
       /\ order' = Append(order, n)
  /\ count' = count + 1
  /\ answer' = NULL
  /\ UNCHANGED <<walk, index>>

(* dll_push *)
DllPush(v) ==
  /\ busy = "no"
  /\ \E n \in Fresh :
       /\ node' = [m \in DOMAIN node \cup {n} |->
                     IF m = n THEN [next |-> NULL, prev |-> IF first = NULL THEN NULL ELSE last,
                                    value |-> v]
                     ELSE IF first # NULL /\ m = last THEN [node[m] EXCEPT !.next = n]
                     ELSE node[m]]
       /\ first' = IF first = NULL THEN n ELSE first
       /\ last' = n
       /\ order' = Append(order, n)
  /\ count' = count + 1
  /\ answer' = NULL
  /\ UNCHANGED <<walk, index>>

(* dll_unshift *)
DllUnshift(v) ==
  /\ busy = "no"
  /\ \E n \in Fresh :
       /\ node' = [m \in DOMAIN node \cup {n} |->
                     IF m = n THEN [next |-> first, prev |-> NULL, value |-> v]
                     ELSE IF m = first THEN [node[m] EXCEPT !.prev = n]
                     ELSE node[m]]
       /\ first' = n
       /\ last' = IF first = NULL THEN n ELSE last
       /\ order' = <<n>> \o order
  /\ count' = count + 1
  /\ answer' = NULL
  /\ UNCHANGED <<walk, index>>

(* A call on an empty list returns NULL. *)
DllTakeNothing ==
  /\ busy = "no"
  /\ first = NULL
  /\ answer' = NULL
  /\ UNCHANGED <<list, walk, ghost>>

(* dll_pop *)
DllPop ==
  /\ busy = "no"
  /\ first # NULL
  /\ LET p == node[last].prev
     IN  /\ last' = p
         /\ node' = [m \in DOMAIN node \ {last} |->
                       IF m = p THEN [node[m] EXCEPT !.next = NULL] ELSE node[m]]
         /\ first' = IF first = last THEN NULL ELSE first
  /\ answer' = node[last].value
  /\ count' = count - 1
  /\ order' = SubSeq(order, 1, Len(order) - 1)
  /\ UNCHANGED <<walk, index>>

(* dll_shift *)
DllShift ==
  /\ busy = "no"
  /\ first # NULL
  /\ LET s == node[first].next
     IN  /\ first' = s
         /\ node' = [m \in DOMAIN node \ {first} |->
                       IF m = s THEN [node[m] EXCEPT !.prev = NULL] ELSE node[m]]
         /\ last' = IF last = first THEN NULL ELSE last
  /\ answer' = node[first].value
  /\ count' = count - 1
  /\ order' = Tail(order)
  /\ UNCHANGED <<walk, index>>

---------------------------------------------------------------------------
(* dll_iterate: the loop starts at first in either direction. *)
DllIterate(d) ==
  /\ busy = "no"
  /\ busy' = "iterate"
  /\ forward' = d
  /\ cursor' = first
  /\ index' = 1
  /\ answer' = NULL
  /\ UNCHANGED <<list, order>>

(* Mutant: a turn goes on from the node the callback was given to the one  *)
(* after its successor.                                                    *)
DllVisitSkips(stop) ==
  /\ busy = "iterate"
  /\ cursor # NULL
  /\ answer' = node[cursor].value
  /\ IF stop
     THEN cursor' = NULL /\ index' = 0 /\ busy' = "no"
     ELSE /\ cursor' = IF forward THEN (IF node[cursor].next = NULL THEN NULL
                                        ELSE node[node[cursor].next].next)
                       ELSE node[cursor].prev
          /\ index' = IF forward THEN index + 2 ELSE index - 1
          /\ UNCHANGED busy
  /\ UNCHANGED <<list, forward, order>>

(* One turn of its loop; stop is what the callback returns. *)
DllVisit(stop) ==
  /\ busy = "iterate"
  /\ cursor # NULL
  /\ answer' = node[cursor].value
  /\ IF stop
     THEN cursor' = NULL /\ index' = 0 /\ busy' = "no"
     ELSE /\ cursor' = IF forward THEN node[cursor].next ELSE node[cursor].prev
          /\ index' = IF forward THEN index + 1 ELSE index - 1
          /\ UNCHANGED busy
  /\ UNCHANGED <<list, forward, order>>

DllIterateEnd ==
  /\ busy = "iterate"
  /\ cursor = NULL
  /\ busy' = "no"
  /\ index' = 0
  /\ UNCHANGED <<list, forward, cursor, answer, order>>

(* dll_free: the caller has no more use for the list. *)
DllFree ==
  /\ busy = "no"
  /\ busy' = "free"
  /\ cursor' = first
  /\ index' = 1
  /\ answer' = NULL
  /\ UNCHANGED <<list, forward, order>>

DllFreeNode ==
  /\ busy = "free"
  /\ cursor # NULL
  /\ cursor' = node[cursor].next
  /\ node' = Without(cursor)
  /\ index' = index + 1
  /\ UNCHANGED <<first, last, count, busy, forward, answer, order>>

(* first and last are reset, count is not. *)
DllFreeEnd ==
  /\ busy = "free"
  /\ cursor = NULL
  /\ busy' = "freed"
  /\ first' = NULL
  /\ last' = NULL
  /\ order' = <<>>
  /\ index' = 0
  /\ UNCHANGED <<count, node, forward, cursor, answer>>

DllNext ==
  \/ \E v \in Values : DllPush(v) \/ DllUnshift(v)
  \/ DllTakeNothing \/ DllPop \/ DllShift
  \/ \E d \in BOOLEAN : DllIterate(d)
  \/ \E stop \in BOOLEAN : DllVisit(stop)
  \/ DllIterateEnd
  \/ DllFree \/ DllFreeNode \/ DllFreeEnd

DllSpec == DllInit /\ [][DllNext]_dllVars

---------------------------------------------------------------------------
DllNode == [next : Nodes \cup {NULL}, prev : Nodes \cup {NULL}, value : Values]

(* Every part of the list has its type. *)
DllTypeOK ==
  /\ first \in Nodes \cup {NULL} /\ last \in Nodes \cup {NULL} /\ count \in Nat
  /\ DOMAIN node \subseteq Nodes
  /\ \A n \in DOMAIN node : node[n] \in DllNode
  /\ busy \in {"no", "iterate", "free", "freed"}
  /\ forward \in BOOLEAN
  /\ cursor \in Nodes \cup {NULL}
  /\ order \in Seq(Nodes) /\ index \in 0 .. Len(order) + 1

Places == 1 .. Len(order)

NodeAt(i) == IF i \in Places THEN order[i] ELSE NULL

(* The nodes dll_free has not come to yet. *)
Kept == IF busy = "free" THEN {i \in Places : i >= index} ELSE Places

(* Following next from first and following prev from last give the same    *)
(* nodes in opposite orders, each once; those and no others are allocated, *)
(* so no node is lost or freed twice; count tells how many there are until *)
(* the list is given up; the cursor of a loop is on the list.              *)
Linked ==
  /\ \A i, j \in Places : order[i] = order[j] => i = j
  /\ first = NodeAt(1)
  /\ last = NodeAt(Len(order))
  /\ DOMAIN node = {order[i] : i \in Kept}
  /\ \A i \in Kept : node[order[i]].next = NodeAt(i + 1) /\ node[order[i]].prev = NodeAt(i - 1)
  /\ busy # "freed" => count = Len(order)
  /\ busy \in {"iterate", "free"} => cursor = NodeAt(index)
  /\ busy \in {"no", "freed"} => cursor = NULL /\ index = 0
  /\ busy = "free" => index # 0
  /\ busy = "freed" => order = <<>>

GivenUp == busy \in {"free", "freed"}

(* The values in the order of the list, and the place of a walk in it. *)
Contents == IF GivenUp THEN <<>> ELSE [i \in Places |-> node[order[i]].value]
Place == IF busy = "iterate" /\ index \in Places THEN index ELSE 0

D == INSTANCE Deque WITH contents <- Contents, place <- Place, onward <- forward,
                         given <- answer, freed <- GivenUp, Nothing <- NULL

(* The list is a deque: whatever the sequence of calls at both ends, each  *)
(* returns the value a sequence would give up there, a walk gives its      *)
(* callback every value in order until the callback stops it, and nothing  *)
(* else changes what the list holds.                                       *)
DequeSpec == D!Spec
=============================================================================
