----------------------------- MODULE HeapProofs -----------------------------
(***************************************************************************)
(* The heap's safety, proved for every header size, every set of separated *)
(* areas and every set of requests.  HeapInv is inductive: Disjoint needs  *)
(* the sizes to be naturals (TypeOK); InAreas and Disjoint together say    *)
(* that a new area meets no block; Coalesced says which blocks a merge     *)
(* consumes, so that Tiled and Disjoint survive it.                        *)
(***************************************************************************)
EXTENDS Heap, TLAPS

HeapInv ==
  /\ TypeOK
  /\ Disjoint
  /\ InAreas
  /\ Tiled
  /\ Coalesced

(* The initial heap, to which no area was given, satisfies the invariant. *)
LEMMA HeapInit == Init => HeapInv
BY DEF Init, HeapInv, TypeOK, Disjoint, InAreas, Tiled, Coalesced, Blocks

(* A new area meets no block, nor touches one. *)
LEMMA AreaIsClear ==
  ASSUME HeapInv, NEW r \in Areas, r \notin given
  PROVE  \A b \in Blocks : End(b) < r.base \/ AreaEnd(r) < b
<1> USE HdrAssumption DEF HeapInv, Blocks
<1>1. /\ r.base \in Nat /\ r.size \in Nat /\ r.size >= Hdr
      /\ r.size - Hdr \in Nat
  BY AreasAssumption
<1>2. \A b \in Blocks : b \in Nat /\ size[b] \in Nat
  BY DEF TypeOK
<1>3. \A b \in Blocks : End(b) < r.base \/ AreaEnd(r) < b
  <2> SUFFICES ASSUME NEW b \in Blocks PROVE End(b) < r.base \/ AreaEnd(r) < b
    OBVIOUS
  <2>1. PICK s \in given : s.base <= b /\ End(b) <= AreaEnd(s)
    BY DEF InAreas
  <2>2. s \in Areas /\ s # r
    BY DEF TypeOK
  <2>3. s.base \in Nat /\ s.size \in Nat
    BY <2>2, AreasAssumption
  <2>4. AreaEnd(s) < r.base \/ AreaEnd(r) < s.base
    BY <2>2, AreasAssumption
  <2> QED BY <1>1, <1>2, <2>1, <2>3, <2>4 DEF End, AreaEnd
<1> QED BY <1>3

(* paddblock preserves the invariant: the new area is away from every      *)
(* block, so its one block neither overlaps nor touches another.           *)
LEMMA AddAreaPreserves ==
  ASSUME HeapInv, NEW r \in Areas, AddArea(r)
  PROVE  HeapInv'
<1> USE HdrAssumption DEF HeapInv, Blocks
<1>1. /\ r.base \in Nat /\ r.size \in Nat /\ r.size >= Hdr
      /\ r.size - Hdr \in Nat
  BY AreasAssumption
<1>2. \A b \in Blocks : b \in Nat /\ size[b] \in Nat
  BY DEF TypeOK
<1>3. \A b \in Blocks : End(b) < r.base \/ AreaEnd(r) < b
  BY AreaIsClear DEF AddArea
<1>4. r.base \notin Blocks
  BY <1>1, <1>2, <1>3 DEF End, AreaEnd
<1>5. Blocks' = Blocks \cup {r.base}
  BY DEF AddArea
<1>6. /\ \A b \in Blocks : size'[b] = size[b] /\ End(b)' = End(b)
      /\ size'[r.base] = r.size - Hdr
      /\ r.base + Hdr + size'[r.base] = AreaEnd(r)
  BY <1>1, <1>4 DEF AddArea, End, AreaEnd
<1>7. TypeOK'
  BY <1>1, <1>4 DEF TypeOK, AddArea
<1>8. Disjoint'
  <2> SUFFICES ASSUME NEW b \in Blocks', NEW c \in Blocks', b # c
               PROVE  End(b)' <= c \/ End(c)' <= b
    BY DEF Disjoint
  <2>1. CASE b \in Blocks /\ c \in Blocks
    BY <2>1, <1>6 DEF Disjoint
  <2>2. CASE b = r.base /\ c \in Blocks
    BY <2>2, <1>1, <1>2, <1>3, <1>6 DEF End, AreaEnd
  <2>3. CASE c = r.base /\ b \in Blocks
    BY <2>3, <1>1, <1>2, <1>3, <1>6 DEF End, AreaEnd
  <2> QED BY <2>1, <2>2, <2>3, <1>5
<1>9. InAreas'
  <2> SUFFICES ASSUME NEW b \in Blocks'
               PROVE  \E s \in given' : s.base <= b /\ End(b)' <= AreaEnd(s)
    BY DEF InAreas, AreaEnd
  <2>1. CASE b \in Blocks
    BY <2>1, <1>6 DEF InAreas, AddArea
  <2>2. CASE b = r.base
    BY <2>2, <1>1, <1>6 DEF AddArea, End, AreaEnd
  <2> QED BY <2>1, <2>2, <1>5
<1>10. Tiled'
  <2>1. \A s \in given' : s.base \in Blocks'
    BY <1>5 DEF Tiled, AddArea
  <2>2. ASSUME NEW b \in Blocks'
        PROVE  End(b)' \in Blocks' \/ \E s \in given' : End(b)' = AreaEnd(s)
    <3>1. CASE b \in Blocks
      <4>1. End(b) \in Blocks \/ \E s \in given : End(b) = AreaEnd(s)
        BY <3>1 DEF Tiled
      <4>2. End(b)' = End(b) /\ Blocks \subseteq Blocks' /\ given \subseteq given'
        BY <3>1, <1>5, <1>6 DEF AddArea
      <4> QED BY <4>1, <4>2
    <3>2. CASE b = r.base
      BY <3>2, <1>6 DEF AddArea, End
    <3> QED BY <3>1, <3>2, <1>5
  <2> QED BY <2>1, <2>2 DEF Tiled, AreaEnd
<1>11. Coalesced'
  <2> SUFFICES ASSUME NEW b \in free' PROVE End(b)' \notin free'
    BY DEF Coalesced
  <2>1. free' = free \cup {r.base}
    BY DEF AddArea
  <2>2. CASE b \in free
    BY <2>1, <2>2, <1>1, <1>2, <1>3, <1>6 DEF Coalesced, End, AreaEnd
  <2>3. CASE b = r.base
    BY <2>1, <2>3, <1>1, <1>2, <1>3, <1>6 DEF End, AreaEnd
  <2> QED BY <2>1, <2>2, <2>3
<1> QED BY <1>7, <1>8, <1>9, <1>10, <1>11

(* Handing out a whole block moves it from one list to the other. *)
LEMMA TakeWholePreserves ==
  ASSUME HeapInv, NEW n \in Requests, NEW b \in free, TakeWhole(b, n)
  PROVE  HeapInv'
<1>1. Blocks' = Blocks /\ size' = size /\ given' = given /\ free' \subseteq free
  BY DEF TakeWhole, Blocks
<1>2. \A c : End(c)' = End(c)
  BY <1>1 DEF End
<1>3. TypeOK'
  BY <1>1 DEF HeapInv, TypeOK, TakeWhole, Blocks
<1>4. Disjoint' /\ InAreas' /\ Tiled'
  BY <1>1, <1>2 DEF HeapInv, Disjoint, InAreas, Tiled
<1>5. Coalesced'
  BY <1>1, <1>2 DEF HeapInv, Coalesced
<1> QED BY <1>3, <1>4, <1>5 DEF HeapInv

(* The header of the remainder of a split is written over no other header. *)
LEMMA RestIsClear ==
  ASSUME HeapInv, NEW b \in Blocks, NEW n \in Nat, size[b] >= n + Hdr
  PROVE  b + Hdr + n \notin Blocks
<1>1. \A c \in Blocks : c \in Nat /\ size[c] \in Nat
  BY DEF HeapInv, TypeOK, Blocks
<1>2. \A c \in Blocks : c # b => End(b) <= c \/ End(c) <= b
  BY DEF HeapInv, Disjoint
<1> QED BY <1>1, <1>2, HdrAssumption DEF End

(* Splitting a block leaves a used block and a free one that tile exactly  *)
(* the cells of the old one, so the neighbours see no difference.          *)
LEMMA SplitPreserves ==
  ASSUME HeapInv, NEW n \in Requests, NEW b \in free, Split(b, n)
  PROVE  HeapInv'
<1> DEFINE rest == b + Hdr + n
<1> USE HdrAssumption DEF HeapInv, Blocks
<1>1. /\ n \in Nat /\ b \in Nat /\ b \in Blocks /\ size[b] \in Nat
      /\ size[b] >= n + Hdr /\ rest \in Nat
  BY RequestsAssumption DEF TypeOK, Split
<1>2. \A c \in Blocks : c \in Nat /\ size[c] \in Nat
  BY DEF TypeOK
<1>3. \A c \in Blocks : c # b => End(b) <= c \/ End(c) <= b
  BY <1>1 DEF Disjoint
<1>4. rest \notin Blocks
  BY <1>1, RestIsClear
<1>5. Blocks' = Blocks \cup {rest} /\ given' = given
  BY <1>1 DEF Split
<1>6. /\ \A c \in Blocks : c # b => End(c)' = End(c)
      /\ End(b)' = rest
      /\ End(rest)' = End(b)
  <2>1. /\ \A c \in Blocks : c # b => size'[c] = size[c]
        /\ size'[b] = n
        /\ size'[rest] = size[b] - Hdr - n
    <3>1. size' = [c \in Blocks \cup {rest} |->
                     CASE c = b    -> n
                       [] c = rest -> size[b] - Hdr - n
                       [] OTHER    -> size[c]]
      BY DEF Split
    <3>2. rest # b
      BY <1>1, <1>4
    <3> QED BY <1>1, <1>4, <3>1, <3>2
  <2> QED BY <1>1, <2>1 DEF End
<1>7. TypeOK'
  <2>1. size[b] - Hdr - n \in Nat
    BY <1>1
  <2>2. size' \in [Blocks' -> Nat]
    BY <2>1, <1>1, <1>2, <1>4, <1>5 DEF Split, TypeOK
  <2>3. free' \cap used' = {} /\ free' \subseteq Nat /\ used' \subseteq Nat
    BY <1>1, <1>4 DEF Split, TypeOK
  <2> QED BY <2>2, <2>3, <1>5 DEF TypeOK
<1>8. Disjoint'
  <2> SUFFICES ASSUME NEW c \in Blocks', NEW d \in Blocks', c # d
               PROVE  End(c)' <= d \/ End(d)' <= c
    BY DEF Disjoint
  <2>1. CASE c \in Blocks \ {b} /\ d \in Blocks \ {b}
    BY <2>1, <1>6 DEF Disjoint
  <2>2. CASE c \in {b, rest} /\ d \in Blocks \ {b}
    BY <2>2, <1>1, <1>2, <1>3, <1>6 DEF End
  <2>3. CASE d \in {b, rest} /\ c \in Blocks \ {b}
    BY <2>3, <1>1, <1>2, <1>3, <1>6 DEF End
  <2>4. CASE c \in {b, rest} /\ d \in {b, rest}
    BY <2>4, <1>1, <1>6
  <2> QED BY <2>1, <2>2, <2>3, <2>4, <1>5
<1>9. InAreas'
  <2> SUFFICES ASSUME NEW c \in Blocks'
               PROVE  \E s \in given : s.base <= c /\ End(c)' <= AreaEnd(s)
    BY <1>5 DEF InAreas, AreaEnd
  <2>1. CASE c \in Blocks \ {b}
    BY <2>1, <1>6 DEF InAreas
  <2>2. CASE c \in {b, rest}
    <3>1. PICK s \in given : s.base <= b /\ End(b) <= AreaEnd(s)
      BY <1>1 DEF InAreas
    <3>2. s.base \in Nat /\ AreaEnd(s) \in Nat
      BY AreasAssumption DEF TypeOK, AreaEnd
    <3> QED BY <2>2, <3>1, <3>2, <1>1, <1>6 DEF End
  <2> QED BY <2>1, <2>2, <1>5
<1>10. Tiled'
  <2>1. \A s \in given' : s.base \in Blocks'
    BY <1>5 DEF Tiled
  <2>2. ASSUME NEW c \in Blocks'
        PROVE  End(c)' \in Blocks' \/ \E s \in given' : End(c)' = AreaEnd(s)
    <3>1. CASE c \in Blocks \ {b}
      BY <3>1, <1>5, <1>6 DEF Tiled
    <3>2. CASE c = b
      BY <3>2, <1>5, <1>6
    <3>3. CASE c = rest
      BY <3>3, <1>1, <1>5, <1>6 DEF Tiled
    <3> QED BY <3>1, <3>2, <3>3, <1>5
  <2> QED BY <2>1, <2>2 DEF Tiled, AreaEnd
<1>11. Coalesced'
  <2> SUFFICES ASSUME NEW c \in free' PROVE End(c)' \notin free'
    BY DEF Coalesced
  <2>1. free' = (free \ {b}) \cup {rest}
    BY DEF Split
  <2>2. CASE c \in free \ {b}
    <3>1. End(c)' = End(c) /\ End(c) \notin free
      BY <2>2, <1>6 DEF Coalesced
    <3>2. End(c) # rest
      BY <2>2, <1>1, <1>2, <1>3 DEF End
    <3> QED BY <2>1, <3>1, <3>2
  <2>3. CASE c = rest
    <3>1. End(c)' = End(b) /\ End(b) \notin free /\ End(b) # rest
      BY <2>3, <1>1, <1>6 DEF Coalesced, End
    <3> QED BY <2>1, <3>1
  <2> QED BY <2>1, <2>2, <2>3
<1> QED BY <1>7, <1>8, <1>9, <1>10, <1>11

(* At most one block ends at an address. *)
LEMMA EndUnique ==
  ASSUME HeapInv, NEW c \in Blocks, NEW d \in Blocks, End(c) = End(d)
  PROVE  c = d
<1>1. c \in Nat /\ d \in Nat /\ size[c] \in Nat /\ size[d] \in Nat
  BY DEF HeapInv, TypeOK, Blocks
<1> QED BY <1>1, HdrAssumption DEF HeapInv, Disjoint, End

(* Two areas that hold the same block are the same area. *)
LEMMA OneArea ==
  ASSUME HeapInv, NEW b \in Blocks, NEW r \in given, NEW s \in given,
         r.base <= b, End(b) <= AreaEnd(r), s.base <= b, End(b) <= AreaEnd(s)
  PROVE  r = s
<1>1. b \in Nat /\ size[b] \in Nat
  BY DEF HeapInv, TypeOK, Blocks
<1>2. r \in Areas /\ s \in Areas
  BY DEF HeapInv, TypeOK
<1>3. r.base \in Nat /\ r.size \in Nat /\ s.base \in Nat /\ s.size \in Nat
  BY <1>2, AreasAssumption
<1> QED BY <1>1, <1>2, <1>3, HdrAssumption, AreasAssumption DEF End, AreaEnd

(* Blocks that touch lie in one area: areas never do. *)
LEMMA TouchingShareArea ==
  ASSUME HeapInv, NEW c \in Blocks, NEW d \in Blocks, End(c) = d
  PROVE  \E r \in given : r.base <= c /\ End(d) <= AreaEnd(r)
<1>1. c \in Nat /\ d \in Nat /\ size[c] \in Nat /\ size[d] \in Nat
  BY DEF HeapInv, TypeOK, Blocks
<1>2. PICK r \in given : r.base <= c /\ End(c) <= AreaEnd(r)
  BY DEF HeapInv, InAreas
<1>3. PICK s \in given : s.base <= d /\ End(d) <= AreaEnd(s)
  BY DEF HeapInv, InAreas
<1>4. r \in Areas /\ s \in Areas
  BY DEF HeapInv, TypeOK
<1>5. r.base \in Nat /\ r.size \in Nat /\ s.base \in Nat /\ s.size \in Nat
  BY <1>4, AreasAssumption
<1>6. r = s
  BY <1>1, <1>2, <1>3, <1>4, <1>5, HdrAssumption, AreasAssumption DEF End, AreaEnd
<1> QED BY <1>2, <1>3, <1>6

(* No block ends where an area starts. *)
LEMMA BaseIsNoEnd ==
  ASSUME HeapInv, NEW c \in Blocks, NEW s \in given
  PROVE  End(c) # s.base
<1>1. c \in Nat /\ size[c] \in Nat
  BY DEF HeapInv, TypeOK, Blocks
<1>2. PICK r \in given : r.base <= c /\ End(c) <= AreaEnd(r)
  BY DEF HeapInv, InAreas
<1>3. r \in Areas /\ s \in Areas
  BY DEF HeapInv, TypeOK
<1>4. r.base \in Nat /\ r.size \in Nat /\ s.base \in Nat /\ s.size \in Nat
  BY <1>3, AreasAssumption
<1> QED BY <1>1, <1>2, <1>3, <1>4, HdrAssumption, AreasAssumption DEF End, AreaEnd

(* A block and the ones that touch it lie in one area. *)
LEMMA RunInArea ==
  ASSUME HeapInv, NEW lo \in Blocks, NEW b \in Blocks, NEW hi \in Blocks,
         lo = b \/ End(lo) = b, hi = b \/ hi = End(b)
  PROVE  \E r \in given : r.base <= lo /\ End(hi) <= AreaEnd(r)
<1>0. \A c \in {lo, b, hi} : c \in Nat /\ size[c] \in Nat /\ End(c) \in Nat /\ c <= End(c)
  BY HdrAssumption DEF HeapInv, TypeOK, End, Blocks
<1>1. PICK r \in given : r.base <= b /\ End(b) <= AreaEnd(r)
  BY DEF HeapInv, InAreas
<1>2. r.base \in Nat /\ AreaEnd(r) \in Nat
  BY AreasAssumption DEF HeapInv, TypeOK, AreaEnd
<1>3. r.base <= lo
  <2>1. CASE lo = b
    BY <2>1, <1>1
  <2>2. CASE End(lo) = b
    <3>1. PICK s \in given : s.base <= lo /\ End(b) <= AreaEnd(s)
      BY <2>2, TouchingShareArea
    <3>2. s.base \in Nat
      BY AreasAssumption DEF HeapInv, TypeOK
    <3>3. s.base <= b
      BY <3>1, <3>2, <1>0
    <3>4. s = r
      BY <3>1, <3>3, <1>1, OneArea
    <3> QED BY <3>1, <3>4
  <2> QED BY <2>1, <2>2
<1>4. End(hi) <= AreaEnd(r)
  <2>1. CASE hi = b
    BY <2>1, <1>1
  <2>2. CASE hi = End(b)
    <3>1. PICK s \in given : s.base <= b /\ End(hi) <= AreaEnd(s)
      BY <2>2, TouchingShareArea
    <3>2. AreaEnd(s) \in Nat
      BY AreasAssumption DEF HeapInv, TypeOK, AreaEnd
    <3>3. End(b) <= AreaEnd(s)
      BY <2>2, <3>1, <3>2, <1>0
    <3>4. s = r
      BY <3>1, <3>3, <1>1, OneArea
    <3> QED BY <3>1, <3>4
  <2> QED BY <2>1, <2>2
<1> QED BY <1>3, <1>4

(* pfree preserves the invariant: lo, b and hi are consecutive, and lo     *)
(* takes over exactly their cells.                                         *)
LEMMA ReleasePreserves ==
  ASSUME HeapInv, NEW b \in used, Release(b)
  PROVE  HeapInv'
<1> USE HdrAssumption DEF Blocks
<1>1. PICK lo \in free \cup {b}, hi \in free \cup {b} :
        /\ IsLow(lo, b)
        /\ IsHigh(hi, b)
        /\ used' = used \ {b}
        /\ free' = (free \ {hi}) \cup {lo}
        /\ size' = [c \in free' \cup used' |->
                      IF c = lo THEN End(hi) - lo - Hdr ELSE size[c]]
        /\ given' = given
  BY DEF Release
<1>2. \A c \in Blocks : c \in Nat /\ size[c] \in Nat /\ End(c) \in Nat /\ c + Hdr <= End(c)
  BY DEF HeapInv, TypeOK, End
<1>3. lo \in Blocks /\ b \in Blocks /\ hi \in Blocks
  OBVIOUS
<1>4. lo = b \/ End(lo) = b
  BY <1>1 DEF IsLow
<1>5. hi = b \/ hi = End(b)
  BY <1>1 DEF IsHigh
<1>6. lo <= b /\ b <= hi /\ lo + Hdr <= End(hi) /\ End(hi) - lo - Hdr \in Nat
  BY <1>2, <1>3, <1>4, <1>5
<1>7. Blocks' = (Blocks \ {b, hi}) \cup {lo}
  BY <1>1 DEF HeapInv, TypeOK
<1>8. /\ End(lo)' = End(hi)
      /\ \A c \in Blocks' : c # lo => End(c)' = End(c)
  <2>1. lo \in Blocks' /\ size'[lo] = End(hi) - lo - Hdr
    BY <1>1
  <2>2. \A c \in Blocks' : c # lo => size'[c] = size[c]
    BY <1>1
  <2>3. End(lo)' = lo + Hdr + (End(hi) - lo - Hdr)
    BY <2>1 DEF End
  <2> QED BY <2>2, <2>3, <1>2, <1>3 DEF End
<1>9. \A c \in Blocks : c \notin {lo, b, hi} => End(hi) <= c \/ End(c) <= lo
  <2> SUFFICES ASSUME NEW c \in Blocks, c \notin {lo, b, hi}
               PROVE  End(hi) <= c \/ End(c) <= lo
    OBVIOUS
  <2>1. /\ End(hi) <= c \/ End(c) <= hi
        /\ End(b) <= c \/ End(c) <= b
        /\ End(lo) <= c \/ End(c) <= lo
    BY <1>3 DEF HeapInv, Disjoint
  <2> QED BY <2>1, <1>2, <1>3, <1>4, <1>5
<1>10. TypeOK'
  <2>1. \A c \in Blocks' : (IF c = lo THEN End(hi) - lo - Hdr ELSE size[c]) \in Nat
    BY <1>2, <1>6, <1>7
  <2>2. size' \in [Blocks' -> Nat]
    BY <2>1, <1>1
  <2>3. free' \cap used' = {} /\ free' \subseteq Nat /\ used' \subseteq Nat
    BY <1>1 DEF HeapInv, TypeOK
  <2> QED BY <2>2, <2>3, <1>1 DEF HeapInv, TypeOK
<1>11. Disjoint'
  <2> SUFFICES ASSUME NEW c \in Blocks', NEW d \in Blocks', c # d
               PROVE  End(c)' <= d \/ End(d)' <= c
    BY DEF Disjoint
  <2>1. CASE c # lo /\ d # lo
    BY <2>1, <1>7, <1>8 DEF HeapInv, Disjoint
  <2>2. CASE c = lo /\ d # lo
    BY <2>2, <1>7, <1>8, <1>9
  <2>3. CASE d = lo /\ c # lo
    BY <2>3, <1>7, <1>8, <1>9
  <2> QED BY <2>1, <2>2, <2>3
<1>12. InAreas'
  <2> SUFFICES ASSUME NEW c \in Blocks'
               PROVE  \E s \in given : s.base <= c /\ End(c)' <= AreaEnd(s)
    BY <1>1 DEF InAreas, AreaEnd
  <2>1. CASE c # lo
    BY <2>1, <1>7, <1>8 DEF HeapInv, InAreas
  <2>2. CASE c = lo
    <3>1. PICK r \in given : r.base <= lo /\ End(hi) <= AreaEnd(r)
      BY <1>3, <1>4, <1>5, RunInArea
    <3> QED BY <2>2, <3>1, <1>8
  <2> QED BY <2>1, <2>2
<1>13. Tiled'
  <2>1. ASSUME NEW s \in given PROVE s.base \in Blocks'
    <3>1. s.base \in Blocks
      BY DEF HeapInv, Tiled
    <3>2. s.base = b => lo = b
      BY <1>3, <1>4, BaseIsNoEnd
    <3>3. s.base = hi => hi = b
      BY <1>3, <1>5, BaseIsNoEnd
    <3> QED BY <3>1, <3>2, <3>3, <1>7
  <2>2. ASSUME NEW c \in Blocks'
        PROVE  End(c)' \in Blocks' \/ \E s \in given : End(c)' = AreaEnd(s)
    <3>1. CASE c = lo
      <4>1. End(hi) \in Blocks \/ \E s \in given : End(hi) = AreaEnd(s)
        BY <1>3 DEF HeapInv, Tiled
      <4>2. End(hi) # b /\ End(hi) # hi
        BY <1>2, <1>3, <1>6
      <4> QED BY <3>1, <4>1, <4>2, <1>7, <1>8
    <3>2. CASE c # lo
      <4>1. c \in Blocks /\ c \notin {b, hi} /\ End(c)' = End(c)
        BY <3>2, <1>7, <1>8
      <4>2. End(c) \in Blocks \/ \E s \in given : End(c) = AreaEnd(s)
        BY <4>1 DEF HeapInv, Tiled
      <4>3. End(c) = b => lo = b
        BY <3>2, <4>1, <1>3, <1>4, EndUnique
      <4>4. End(c) = hi => hi = b
        BY <4>1, <1>3, <1>5, EndUnique
      <4> QED BY <4>1, <4>2, <4>3, <4>4, <1>7
    <3> QED BY <3>1, <3>2
  <2> QED BY <2>1, <2>2, <1>1 DEF Tiled, AreaEnd
<1>14. Coalesced'
  <2> SUFFICES ASSUME NEW c \in free' PROVE End(c)' \notin free'
    BY DEF Coalesced
  <2>1. CASE c = lo
    <3>1. End(hi) \notin free
      BY <1>1 DEF HeapInv, Coalesced, IsHigh
    <3>2. End(hi) # lo
      BY <1>2, <1>3, <1>6
    <3> QED BY <2>1, <3>1, <3>2, <1>1, <1>8
  <2>2. CASE c # lo
    <3>1. c \in free /\ c \in Blocks' /\ End(c)' = End(c)
      BY <2>2, <1>1, <1>8
    <3>2. End(c) \notin free
      BY <3>1 DEF HeapInv, Coalesced
    <3>3. End(c) # lo
      BY <3>1, <3>2, <1>1 DEF IsLow
    <3> QED BY <3>1, <3>2, <3>3, <1>1
  <2> QED BY <2>1, <2>2
<1> QED BY <1>10, <1>11, <1>12, <1>13, <1>14 DEF HeapInv

---------------------------------------------------------------------------
(* No step of the heap leaves the invariant. *)
LEMMA HeapNext == HeapInv /\ [Next]_vars => HeapInv'
<1> SUFFICES ASSUME HeapInv, [Next]_vars PROVE HeapInv'
  OBVIOUS
<1>1. CASE \E r \in Areas : AddArea(r)
  BY <1>1, AddAreaPreserves
<1>2. CASE \E n \in Requests, b \in free : TakeWhole(b, n)
  BY <1>2, TakeWholePreserves
<1>3. CASE \E n \in Requests, b \in free : Split(b, n)
  BY <1>3, SplitPreserves
<1>4. CASE \E b \in used : Release(b)
  BY <1>4, ReleasePreserves
<1>5. CASE UNCHANGED vars
  BY <1>5 DEF vars, HeapInv, TypeOK, Disjoint, InAreas, Tiled, Coalesced,
              Blocks, End
<1> QED BY <1>1, <1>2, <1>3, <1>4, <1>5 DEF Next, Allocate

(* The inductive invariant holds of every behaviour of the heap. *)
THEOREM HeapInvariance == Spec => []HeapInv
BY HeapInit, HeapNext, PTL DEF Spec

(* The lists stay disjoint sets of addresses, and sizes never go negative: *)
(* what the code keeps in a uint32_t is never the result of a wrap.        *)
THEOREM HeapTypeOK == Spec => []TypeOK
<1>1. HeapInv => TypeOK
  BY DEF HeapInv
<1> QED BY <1>1, HeapInvariance, PTL

(* No two blocks share a cell, however pmalloc and pfree are called. *)
THEOREM HeapDisjoint == Spec => []Disjoint
<1>1. HeapInv => Disjoint
  BY DEF HeapInv
<1> QED BY <1>1, HeapInvariance, PTL

(* No block, its header included, reaches outside the areas handed over. *)
THEOREM HeapInAreas == Spec => []InAreas
<1>1. HeapInv => InAreas
  BY DEF HeapInv
<1> QED BY <1>1, HeapInvariance, PTL

(* The blocks tile the areas: no split or merge loses a cell. *)
THEOREM HeapTiled == Spec => []Tiled
<1>1. HeapInv => Tiled
  BY DEF HeapInv
<1> QED BY <1>1, HeapInvariance, PTL

(* Free blocks never touch: pfree has always merged all it can. *)
THEOREM HeapCoalesced == Spec => []Coalesced
<1>1. HeapInv => Coalesced
  BY DEF HeapInv
<1> QED BY <1>1, HeapInvariance, PTL

(* Free blocks that tile the areas and never touch are the whole areas. *)
LEMMA HeapInvRestored == HeapInv => Restored
<1> SUFFICES ASSUME HeapInv, used = {}
             PROVE  /\ free = {r.base : r \in given}
                    /\ \A r \in given : size[r.base] = r.size - Hdr
  BY DEF Restored
<1>1. Blocks = free
  BY DEF Blocks
<1>2. \A b \in free : b \in Nat /\ size[b] \in Nat
  BY DEF HeapInv, TypeOK, Blocks
<1>3. ASSUME NEW b \in free, NEW r \in given, r.base <= b, End(b) <= AreaEnd(r)
      PROVE  End(b) = AreaEnd(r)
  <2>1. PICK s \in given : End(b) = AreaEnd(s)
    BY <1>1 DEF HeapInv, Tiled, Coalesced
  <2>2. r \in Areas /\ s \in Areas
    BY DEF HeapInv, TypeOK
  <2>3. r.base \in Nat /\ r.size \in Nat /\ s.base \in Nat /\ s.size \in Nat
    BY <2>2, AreasAssumption
  <2>4. PICK t \in given : t.base <= b /\ End(b) <= AreaEnd(t)
    BY <1>1 DEF HeapInv, InAreas
  <2>5. AreaEnd(r) < s.base \/ AreaEnd(s) < r.base \/ r = s
    BY <2>2, AreasAssumption
  <2>6. End(b) \in Nat /\ b < End(b) /\ s.base <= AreaEnd(s)
    BY <1>2, <2>3, HdrAssumption DEF End, AreaEnd
  <2> QED BY <1>2, <1>3, <2>1, <2>3, <2>5, <2>6 DEF AreaEnd
<1>4. ASSUME NEW r \in given
      PROVE  r.base \in free /\ End(r.base) = AreaEnd(r)
  <2>1. r.base \in free
    BY <1>1 DEF HeapInv, Tiled
  <2>2. PICK s \in given : s.base <= r.base /\ End(r.base) <= AreaEnd(s)
    BY <2>1, <1>1 DEF HeapInv, InAreas
  <2>3. r \in Areas /\ s \in Areas
    BY DEF HeapInv, TypeOK
  <2>4. r.base \in Nat /\ r.size \in Nat /\ s.base \in Nat /\ s.size \in Nat
    BY <2>3, AreasAssumption
  <2>5. r = s
    BY <1>2, <2>1, <2>2, <2>3, <2>4, HdrAssumption, AreasAssumption DEF End, AreaEnd
  <2> QED BY <1>3, <2>1, <2>2, <2>4, <2>5
<1>5. ASSUME NEW b \in free PROVE \E r \in given : b = r.base
  <2>1. PICK r \in given : r.base <= b /\ End(b) <= AreaEnd(r)
    BY <1>1 DEF HeapInv, InAreas
  <2>2. End(b) = AreaEnd(r) /\ r.base \in free /\ End(r.base) = AreaEnd(r)
    BY <2>1, <1>3, <1>4
  <2> QED BY <2>2, <1>1, EndUnique
<1>6. ASSUME NEW r \in given PROVE size[r.base] = r.size - Hdr
  <2>1. r.base \in free /\ End(r.base) = AreaEnd(r)
    BY <1>4
  <2>2. r.base \in Nat /\ r.size \in Nat
    BY AreasAssumption DEF HeapInv, TypeOK
  <2> QED BY <2>1, <2>2, <1>2, HdrAssumption DEF End, AreaEnd
<1> QED BY <1>4, <1>5, <1>6

(* Once everything is freed, each area is one free block again. *)
THEOREM HeapRestored == Spec => []Restored
BY HeapInvRestored, HeapInvariance, PTL

(* No step of pmalloc, pfree or paddblock resizes a block another caller   *)
(* holds: psizeof keeps returning what was asked for.                      *)
THEOREM HeapLiveBlocksStable == Spec => LiveBlocksStable
<1>1. ASSUME HeapInv, [Next]_vars
      PROVE  [\A b \in used \cap used' : size'[b] = size[b]]_vars
  <2> SUFFICES ASSUME Next, NEW b \in used \cap used' PROVE size'[b] = size[b]
    BY <1>1 DEF vars
  <2>1. ASSUME NEW r \in Areas, AddArea(r) PROVE size'[b] = size[b]
    <3>1. b # r.base
      <4>1. PICK s \in given : s.base <= b /\ End(b) <= AreaEnd(s)
        BY <1>1 DEF HeapInv, InAreas, Blocks
      <4>2. s \in Areas /\ s # r
        BY <1>1, <2>1 DEF HeapInv, TypeOK, AddArea
      <4>3. /\ b \in Nat /\ size[b] \in Nat
            /\ s.base \in Nat /\ s.size \in Nat /\ r.base \in Nat /\ r.size \in Nat
        BY <1>1, <4>2, AreasAssumption DEF HeapInv, TypeOK, Blocks
      <4> QED BY <4>1, <4>2, <4>3, AreasAssumption, HdrAssumption DEF End, AreaEnd
    <3> QED BY <2>1, <3>1 DEF AddArea, Blocks
  <2>2. ASSUME NEW n \in Requests, NEW c \in free, TakeWhole(c, n)
        PROVE  size'[b] = size[b]
    BY <2>2 DEF TakeWhole
  <2>3. ASSUME NEW n \in Requests, NEW c \in free, Split(c, n)
        PROVE  size'[b] = size[b]
    <3>1. size[b] \in Nat /\ size[c] \in Nat /\ b \in Nat /\ c \in Nat /\ n \in Nat
      BY <1>1, RequestsAssumption DEF HeapInv, TypeOK, Blocks
    <3>2. b # c
      BY <1>1 DEF HeapInv, TypeOK
    <3>3. End(b) <= c \/ End(c) <= b
      BY <1>1, <3>2 DEF HeapInv, Disjoint, Blocks
    <3>4. size[c] >= n + Hdr
      BY <2>3 DEF Split
    <3>5. b # c + Hdr + n
      BY <3>1, <3>3, <3>4, HdrAssumption DEF End
    <3>6. size' = [d \in Blocks \cup {c + Hdr + n} |->
                     CASE d = c           -> n
                       [] d = c + Hdr + n -> size[c] - Hdr - n
                       [] OTHER           -> size[d]]
      BY <2>3 DEF Split
    <3> QED BY <3>2, <3>5, <3>6 DEF Blocks
  <2>4. ASSUME NEW c \in used, Release(c) PROVE size'[b] = size[b]
    <3>1. PICK lo \in free \cup {c}, hi \in free \cup {c} :
            /\ used' = used \ {c}
            /\ size' = [d \in free' \cup used' |->
                          IF d = lo THEN End(hi) - lo - Hdr ELSE size[d]]
      BY <2>4 DEF Release
    <3>2. b # lo
      BY <1>1, <3>1 DEF HeapInv, TypeOK
    <3> QED BY <3>1, <3>2
  <2> QED BY <2>1, <2>2, <2>3, <2>4 DEF Next, Allocate
<1> QED BY <1>1, HeapInvariance, PTL DEF Spec, LiveBlocksStable

=============================================================================
