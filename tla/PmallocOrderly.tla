-------------------------- MODULE PmallocOrderly --------------------------
(***************************************************************************)
(* The runs in which pmalloc.c keeps what Heap promises.  The code checks  *)
(* nothing of this; what it asks of the areas is assumed of the constant,  *)
(* and what it asks of a call is a condition on that call, so that any     *)
(* sequence of sizes which meets it is covered.  The violation runs of     *)
(* Pmalloc show what goes wrong without the first two conditions: ChainEnds *)
(* for memory that is not clear, HandedOutFits for too small a remainder.  *)
(***************************************************************************)
EXTENDS Pmalloc

(* Between two areas there is at least one cell that belongs to neither:   *)
(* pfree would merge across the border of areas that touch.                *)
ASSUME SeparateAssumption ==
  \A r, s \in Areas : r # s => AreaEnd(r) < s.base \/ AreaEnd(s) < r.base

(* The counters can hold the size of all areas together. *)
ASSUME RoomAssumption ==
  IsFiniteSet(Areas) /\ SumFunctionOnSet([r \in Areas |-> r.size], Areas) < U32

(* What pmalloc may be asked for. *)
Asked == Requests \cup {(num * n) % U32 : num \in Nums, n \in Requests}

(* The link fields of memory that is clear. *)
Clear == {NULL}

(* The block the search ends at has exactly the size asked for, or enough  *)
(* of a remainder for its header.                                          *)
Roomy(n) ==
  FirstFit(n) # NULL =>
    LET s == heap.node[FirstFit(n)].size IN s = n \/ s >= n + Hdr

(* Every header is written to clear memory, every split leaves room for a  *)
(* header, and the product pcalloc forms does not wrap.                    *)
OrderlyNext ==
  \/ \E r \in Areas : Paddblock(r, Clear)
  \/ \E n \in Requests : Roomy(n) /\ Pmalloc(n, Clear)
  \/ \E num \in Nums, n \in Requests :
       num * n < U32 /\ Roomy(num * n) /\ Pcalloc(num, n, Clear)
  \/ \E ptr \in DOMAIN held : Pfree(ptr)

OrderlySpec == Init /\ [][OrderlyNext]_vars
=============================================================================
