-------------------------- MODULE AssemblerProofs --------------------------
(***************************************************************************)
(* Proofs about the assembler: the offsets it writes lead the machine to   *)
(* the labels they stand for, for every set of names, every program and    *)
(* every width of a word.                                                  *)
(***************************************************************************)
EXTENDS Assembler, TLAPS

---------------------------------------------------------------------------
(* Arithmetic modulo U32. *)

(* Division with remainder. *)
LEMMA DivMod ==
  ASSUME NEW x \in Int
  PROVE  /\ x = U32 * (x \div U32) + (x % U32)
         /\ x % U32 \in 0 .. U32 - 1
         /\ x \div U32 \in Int
BY OffsetsAssumption, SMT

(* A word is its own remainder. *)
LEMMA ModWord ==
  ASSUME NEW x \in 0 .. U32 - 1
  PROVE  x % U32 = x
BY OffsetsAssumption, SMT

(* Multiples of U32 are at least U32 apart. *)
LEMMA MultiplesApart ==
  ASSUME NEW a \in Int, NEW b \in Int, a >= b + 1
  PROVE  U32 * a >= U32 * b + U32
BY OffsetsAssumption, SMT

(* The remainder is unique. *)
LEMMA RemainderUnique ==
  ASSUME NEW a \in Int, NEW b \in Int,
         NEW r \in 0 .. U32 - 1, NEW s \in 0 .. U32 - 1,
         U32 * a + r = U32 * b + s
  PROVE  r = s
<1>1. CASE a = b
  BY <1>1, OffsetsAssumption, SMT
<1>2. CASE a >= b + 1
  BY <1>2, MultiplesApart, OffsetsAssumption, SMT
<1>3. CASE b >= a + 1
  BY <1>3, MultiplesApart, OffsetsAssumption, SMT
<1> QED
  BY <1>1, <1>2, <1>3

(* A sum may be wrapped before its last addition. *)
LEMMA ModAdd ==
  ASSUME NEW x \in Int, NEW y \in Int
  PROVE  ((x % U32) + y) % U32 = (x + y) % U32
<1> DEFINE r == x % U32
           q == x \div U32
           z == (r + y) % U32
           p == (r + y) \div U32
           t == (x + y) % U32
           u == (x + y) \div U32
<1>1. x = U32 * q + r /\ r \in 0 .. U32 - 1 /\ q \in Int
  BY DivMod
<1>2. r + y = U32 * p + z /\ z \in 0 .. U32 - 1 /\ p \in Int
  BY DivMod, <1>1
<1>3. x + y = U32 * u + t /\ t \in 0 .. U32 - 1 /\ u \in Int
  BY DivMod
<1>4. U32 * (q + p) = U32 * q + U32 * p
  BY <1>1, <1>2, OffsetsAssumption, SMT
<1> HIDE DEF r, q, z, p, t, u
<1>5. U32 * (q + p) + z = U32 * u + t
  BY <1>1, <1>2, <1>3, <1>4, OffsetsAssumption, SMT
<1>6. z = t
  BY <1>1, <1>2, <1>3, <1>5, RemainderUnique
<1> QED
  BY <1>6 DEF z, t, r

(* A branch goes to its label: the address after the slot and the offset   *)
(* that was encoded into it give the label back, wherever the two are.     *)
THEOREM BranchLands ==
  ASSUME NEW label \in 0 .. U32 - 1, NEW slot \in Int
  PROVE  Land((slot + 4) % U32, Encode(label, slot)) = label
<1> DEFINE o == label - slot - 8
           e == o % U32
<1>1. o \in Int /\ e \in Int
  BY DivMod, OffsetsAssumption, SMT
<1>2. (((slot + 4) % U32) + (e + 4)) % U32 = ((slot + 4) + (e + 4)) % U32
  BY <1>1, ModAdd
<1>3. (e + (slot + 8)) % U32 = (o + (slot + 8)) % U32
  BY <1>1, ModAdd
<1>4. o + (slot + 8) = label
  BY OffsetsAssumption, SMT
<1>5. (slot + 4) + (e + 4) = e + (slot + 8)
  BY <1>1, SMT
<1>6. ((slot + 4) % U32) + (e + 4) = ((slot + 4) % U32) + e + 4
  BY <1>1, DivMod, OffsetsAssumption, SMT
<1> QED
  BY <1>2, <1>3, <1>4, <1>5, <1>6, ModWord DEF Land, Encode

(* REFER computes the address of its label. *)
THEOREM ReferArrives ==
  ASSUME NEW label \in 0 .. U32 - 1, NEW slot \in Int
  PROVE  ReferTo((slot + 5) % U32, Encode(label, slot)) = label
<1> DEFINE o == label - slot - 8
           e == o % U32
<1>1. o \in Int /\ e \in Int
  BY DivMod, OffsetsAssumption, SMT
<1>2. (((slot + 5) % U32) + (e + 3)) % U32 = ((slot + 5) + (e + 3)) % U32
  BY <1>1, ModAdd
<1>3. (e + (slot + 8)) % U32 = (o + (slot + 8)) % U32
  BY <1>1, ModAdd
<1>4. o + (slot + 8) = label
  BY OffsetsAssumption, SMT
<1>5. (slot + 5) + (e + 3) = e + (slot + 8)
  BY <1>1, SMT
<1>6. ((slot + 5) % U32) + (e + 3) = ((slot + 5) % U32) + e + 3
  BY <1>1, DivMod, OffsetsAssumption, SMT
<1> QED
  BY <1>2, <1>3, <1>4, <1>5, <1>6, ModWord DEF ReferTo, Encode

(* The disassembler's passes agree on where a label is: the first, which   *)
(* counts four bytes more than it has read of the code, puts it under the  *)
(* position the second looks for, and that is the label's.                 *)
THEOREM LabelKeysMeet ==
  ASSUME NEW label \in 0 .. U32 - 1, NEW slot \in Int
  PROVE  /\ LabelKey(slot + 8, Encode(label, slot)) = label
         /\ LookupKey(slot + 4, Encode(label, slot)) = label
<1> DEFINE o == label - slot - 8
           e == o % U32
<1>1. o \in Int /\ e \in Int
  BY DivMod, OffsetsAssumption, SMT
<1>2. (e + (slot + 8)) % U32 = (o + (slot + 8)) % U32
  BY <1>1, ModAdd
<1>3. o + (slot + 8) = label
  BY OffsetsAssumption, SMT
<1>4. (slot + 8) + e = e + (slot + 8) /\ (slot + 4) + e + 4 = e + (slot + 8)
  BY <1>1, SMT
<1> QED
  BY <1>2, <1>3, <1>4, ModWord DEF LabelKey, LookupKey, Encode

---------------------------------------------------------------------------
(* The inductive invariant.  TypeOK and Boundaries alone do not tell why a *)
(* reference ends up resolved: that takes what the list of a forward label *)
(* holds, and what becomes of a slot that leaves it.                       *)

(* Positions of labels are positions the output has already reached. *)
LabelsBehind == \A n \in DOMAIN labels : labels[n] \in Header .. pos

(* The slots on a label's list are references to it, still open until the  *)
(* last pass comes to them.                                                *)
ListsHoldOpen ==
  \A n \in DOMAIN fwd : \A s \in fwd[n] :
    /\ s \in DOMAIN out
    /\ out[s].name = n
    /\ n \notin fixed => out[s].word = Placeholder

(* Slot s is resolved. *)
Settled(s) ==
  /\ out[s].name \in DOMAIN labels
  /\ out[s].word = Encode(labels[out[s].name], s)

(* Slot s stays open for good. *)
Abandoned(s) ==
  /\ phase # "reading"
  /\ out[s].name \notin DOMAIN labels
  /\ out[s].word = Placeholder

Accounted ==
  \A s \in DOMAIN out :
    Clear(out[s].name) => Waiting(s) \/ Settled(s) \/ Abandoned(s)

Phases ==
  /\ phase = "reading" => fixed = {}
  /\ phase = "done" => DOMAIN fwd \subseteq fixed

AsmInv ==
  /\ TypeOK /\ Boundaries
  /\ LabelsBehind /\ ListsHoldOpen /\ Accounted /\ Phases

(* The invariant holds of the assembler's first state. *)
LEMMA AsmInit == Init => AsmInv
BY AssemblerAssumption
   DEF Init, Empty, AsmInv, TypeOK, Boundaries, LabelsBehind, ListsHoldOpen,
       Accounted, Phases

(* Offsets are words, and no word is the placeholder. *)
LEMMA EncodeWord ==
  ASSUME NEW label \in Int, NEW slot \in Int
  PROVE  Encode(label, slot) \in 0 .. U32 - 1 /\ Encode(label, slot) # Placeholder
<1>1. label - slot - 8 \in Int
  OBVIOUS
<1>2. (label - slot - 8) % U32 \in 0 .. U32 - 1
  BY <1>1, DivMod
<1> QED
  BY <1>2, OffsetsAssumption DEF Encode, Placeholder

(* A step that changes nothing but the phase, away from reading. *)
LEMMA PhasePreserves ==
  ASSUME AsmInv,
         UNCHANGED <<pos, labels, fwd, fixed, out>>,
         phase' \in {"fixing", "done", "crashed"},
         phase' = "done" => DOMAIN fwd \subseteq fixed
  PROVE  AsmInv'
BY DEF AsmInv, TypeOK, Boundaries, LabelsBehind, ListsHoldOpen, Accounted,
       Phases, Waiting, Settled, Abandoned, Clear, Words

(* A free label is not in the tree: a label that is there has a position   *)
(* other than 0, the header being before it.                               *)
LEMMA FreeIsNew ==
  ASSUME AsmInv, NEW lab \in OptionalLabel, LabelFree(lab)
  PROVE  /\ lab \cap DOMAIN labels = {}
         /\ lab \subseteq Names
         /\ DOMAIN Labelled(lab) = DOMAIN labels \cup lab
         /\ \A n \in DOMAIN labels : Labelled(lab)[n] = labels[n]
         /\ \A n \in lab : Labelled(lab)[n] = pos
<1>1. lab \cap DOMAIN labels = {}
  BY AssemblerAssumption
     DEF AsmInv, LabelsBehind, LabelFree, Exists, Found, Position, TypeOK
<1>2. lab \subseteq Names
  BY DEF OptionalLabel
<1> QED
  BY <1>1, <1>2 DEF Labelled

(* A line without a label operand: its label stands where the output has   *)
(* got to, beyond every slot written before.                               *)
LEMMA LinePreserves ==
  ASSUME AsmInv, NEW lab \in OptionalLabel, LabelFree(lab),
         labels' = Labelled(lab),
         pos' \in pos .. MaxPos,
         phase' \in {"reading", "fixing"},
         UNCHANGED <<fwd, fixed, out>>
  PROVE  AsmInv'
<1> USE DEF AsmInv
<1>0. phase = "reading" /\ fixed = {}
  BY DEF LabelFree, Phases
<1>a. /\ lab \subseteq Names
      /\ DOMAIN labels' = DOMAIN labels \cup lab
      /\ \A n \in DOMAIN labels : labels'[n] = labels[n]
      /\ \A n \in lab : labels'[n] = pos
  BY FreeIsNew
<1>b. pos \in Header .. MaxPos /\ pos' \in Header .. MaxPos /\ pos <= pos'
  BY AssemblerAssumption DEF TypeOK
<1>1. TypeOK'
  <2>1. \A n \in DOMAIN labels' : labels'[n] \in Header .. MaxPos
    BY <1>a, <1>b DEF TypeOK
  <2> QED
    BY <2>1, <1>a, <1>b DEF TypeOK
<1>2. Boundaries'
  <2> SUFFICES ASSUME NEW s \in DOMAIN out
               PROVE  /\ s - 1 + Words(out[s].op) <= pos'
                      /\ \A t \in DOMAIN out : t > s => t - 1 >= s - 1 + Words(out[s].op)
                      /\ \A n \in DOMAIN labels' :
                           labels'[n] <= s - 1 \/ labels'[n] >= s - 1 + Words(out[s].op)
    BY DEF Boundaries, Words
  <2>1. /\ s - 1 + Words(out[s].op) <= pos
        /\ \A t \in DOMAIN out : t > s => t - 1 >= s - 1 + Words(out[s].op)
        /\ \A n \in DOMAIN labels :
             labels[n] <= s - 1 \/ labels[n] >= s - 1 + Words(out[s].op)
    BY DEF Boundaries
  <2>2. s \in Int /\ Words(out[s].op) \in Int /\ pos \in Int /\ pos' \in Int
    BY AssemblerAssumption DEF TypeOK, Words
  <2>3. \A n \in DOMAIN labels' :
          labels'[n] <= s - 1 \/ labels'[n] >= s - 1 + Words(out[s].op)
    BY <2>1, <2>2, <1>a
  <2> QED
    BY <2>1, <2>2, <2>3
<1>3. LabelsBehind'
  BY <1>a, <1>b, AssemblerAssumption DEF LabelsBehind
<1>4. ListsHoldOpen'
  BY DEF ListsHoldOpen
<1>5. Accounted'
  <2> SUFFICES ASSUME NEW s \in DOMAIN out, Clear(out[s].name)
               PROVE  (Waiting(s) \/ Settled(s))'
    BY DEF Accounted, Clear
  <2>1. Waiting(s) \/ Settled(s)
    BY <1>0 DEF Accounted, Abandoned
  <2> QED
    BY <2>1, <1>a DEF Waiting, Settled
<1>6. Phases'
  BY <1>0 DEF Phases
<1> QED
  BY <1>1, <1>2, <1>3, <1>4, <1>5, <1>6

(* Writing a reference: its slot is new, after every slot and label that   *)
(* is there, its own label included.                                       *)
LEMMA WriteExtends ==
  ASSUME AsmInv, NEW lab \in OptionalLabel, NEW op \in Ops, NEW n \in Names, NEW w,
         LabelFree(lab),
         pos + Words(op) <= MaxPos,
         labels' = Labelled(lab),
         Write(op, n, w)
  PROVE  /\ pos + 1 \notin DOMAIN out
         /\ DOMAIN out' = DOMAIN out \cup {pos + 1}
         /\ out'[pos + 1] = [op |-> op, name |-> n, word |-> w]
         /\ \A s \in DOMAIN out : out'[s] = out[s]
         /\ pos' \in Header .. MaxPos
         /\ pos + 1 \in Header .. MaxPos
         /\ Boundaries' /\ LabelsBehind'
<1> USE DEF AsmInv
<1> DEFINE new == pos + 1
<1>1. /\ DOMAIN labels' = DOMAIN labels \cup lab
      /\ \A m \in DOMAIN labels : labels'[m] = labels[m]
      /\ \A m \in lab : labels'[m] = pos
  BY FreeIsNew
<1>2. Words(op) \in {5, 6}
  BY DEF Words
<1>3. pos \in Header .. MaxPos /\ pos' = pos + Words(op)
  BY DEF TypeOK, Write
<1>4. /\ pos' \in Header .. MaxPos
      /\ new \in Header .. MaxPos
  BY <1>2, <1>3, AssemblerAssumption
<1>5. /\ DOMAIN out' = DOMAIN out \cup {new}
      /\ out'[new] = [op |-> op, name |-> n, word |-> w]
      /\ \A s \in DOMAIN out \ {new} : out'[s] = out[s]
  BY DEF Write, Set
<1>6. \A s \in DOMAIN out : s \in Int /\ Words(out[s].op) \in {5, 6}
  BY AssemblerAssumption DEF TypeOK, Words
<1>7. \A s \in DOMAIN out :
        /\ s - 1 + Words(out[s].op) <= pos
        /\ \A t \in DOMAIN out : t > s => t - 1 >= s - 1 + Words(out[s].op)
        /\ \A m \in DOMAIN labels :
             labels[m] <= s - 1 \/ labels[m] >= s - 1 + Words(out[s].op)
  BY DEF Boundaries
<1>8. new \notin DOMAIN out
  BY <1>3, <1>6, <1>7, AssemblerAssumption
<1>9. LabelsBehind'
  BY <1>1, <1>2, <1>3, AssemblerAssumption DEF LabelsBehind
<1>10. Boundaries'
  <2> SUFFICES ASSUME NEW s \in DOMAIN out'
               PROVE  /\ s - 1 + Words(out'[s].op) <= pos'
                      /\ \A t \in DOMAIN out' : t > s => t - 1 >= s - 1 + Words(out'[s].op)
                      /\ \A m \in DOMAIN labels' :
                           labels'[m] <= s - 1 \/ labels'[m] >= s - 1 + Words(out'[s].op)
    BY DEF Boundaries, Words
  <2>1. \A m \in DOMAIN labels' : labels'[m] \in Int /\ labels'[m] <= pos
    BY <1>1, <1>3, AssemblerAssumption DEF LabelsBehind
  <2>2. CASE s = new
    <3>1. out'[s].op = op
      BY <2>2, <1>5
    <3>2. \A t \in DOMAIN out' : ~(t > s)
      BY <2>2, <1>3, <1>5, <1>6, <1>7, AssemblerAssumption
    <3> QED
      BY <3>1, <3>2, <2>1, <2>2, <1>2, <1>3, AssemblerAssumption
  <2>3. CASE s \in DOMAIN out
    <3>1. out'[s] = out[s]
      BY <2>3, <1>5, <1>8
    <3>2. \A t \in DOMAIN out' : t > s => t - 1 >= s - 1 + Words(out[s].op)
      BY <2>3, <1>3, <1>5, <1>6, <1>7, AssemblerAssumption
    <3>3. \A m \in DOMAIN labels' :
            labels'[m] <= s - 1 \/ labels'[m] >= s - 1 + Words(out[s].op)
      BY <2>3, <1>1, <1>3, <1>6, <1>7, AssemblerAssumption
    <3>4. s - 1 + Words(out[s].op) <= pos'
      BY <2>3, <1>2, <1>3, <1>6, <1>7, AssemblerAssumption
    <3> QED
      BY <3>1, <3>2, <3>3, <3>4
  <2> QED
    BY <2>2, <2>3, <1>5
<1> QED
  BY <1>4, <1>5, <1>8, <1>9, <1>10

(* A reference to a label that is there: its word is right at once. *)
LEMMA BackwardPreserves ==
  ASSUME AsmInv, NEW lab \in OptionalLabel, NEW op \in Ops, NEW n \in Names,
         Backward(lab, op, n)
  PROVE  AsmInv'
<1> USE DEF AsmInv
<1> DEFINE new == pos + 1
           w == Encode(Position(labels', n), new)
<1>1. /\ LabelFree(lab) /\ labels' = Labelled(lab) /\ Write(op, n, w)
      /\ Found(labels', n)
      /\ fwd' = fwd /\ fixed' = fixed /\ phase' = phase
      /\ pos + Words(op) <= MaxPos
  BY DEF Backward, Write
<1>2. /\ lab \subseteq Names
      /\ DOMAIN labels' = DOMAIN labels \cup lab
      /\ \A m \in DOMAIN labels : labels'[m] = labels[m]
  BY <1>1, FreeIsNew
<1>3. phase = "reading" /\ fixed = {}
  BY <1>1 DEF LabelFree, Phases
<1>4. /\ new \notin DOMAIN out
      /\ DOMAIN out' = DOMAIN out \cup {new}
      /\ out'[new] = [op |-> op, name |-> n, word |-> w]
      /\ \A s \in DOMAIN out : out'[s] = out[s]
      /\ pos' \in Header .. MaxPos /\ new \in Header .. MaxPos
      /\ Boundaries' /\ LabelsBehind'
  BY <1>1, WriteExtends
<1>5. Position(labels', n) \in Int /\ new \in Int
  BY <1>4, AssemblerAssumption DEF LabelsBehind, Position
<1>6. w \in 0 .. U32 - 1
  BY <1>5, EncodeWord
<1> HIDE DEF w
<1>7. TypeOK'
  <2>1. \A m \in DOMAIN labels' : labels'[m] \in Header .. MaxPos
    BY <1>4, AssemblerAssumption DEF LabelsBehind
  <2>2. \A s \in DOMAIN out' :
          out'[s] \in [op : Ops, name : Names, word : {Placeholder} \cup 0 .. U32 - 1]
    BY <1>4, <1>6 DEF TypeOK
  <2> QED
    BY <1>1, <1>2, <1>4, <2>1, <2>2 DEF TypeOK
<1>8. ListsHoldOpen'
  BY <1>1, <1>4 DEF ListsHoldOpen
<1>9. Accounted'
  <2> SUFFICES ASSUME NEW s \in DOMAIN out', Clear(out'[s].name)
               PROVE  (Waiting(s) \/ Settled(s))'
    BY DEF Accounted, Clear
  <2>1. CASE s = new
    <3>1. n \in DOMAIN labels' /\ out'[s].name = n
      BY <2>1, <1>1, <1>4 DEF Found, Clear
    <3> QED
      BY <3>1, <2>1, <1>4 DEF Settled, Position, w
  <2>2. CASE s \in DOMAIN out
    <3>1. Waiting(s) \/ Settled(s)
      BY <2>2, <1>3, <1>4 DEF Accounted, Abandoned
    <3> QED
      BY <3>1, <2>2, <1>1, <1>2, <1>4 DEF Waiting, Settled
  <2> QED
    BY <2>1, <2>2, <1>4
<1>10. Phases'
  BY <1>1, <1>3 DEF Phases
<1> QED
  BY <1>4, <1>7, <1>8, <1>9, <1>10

(* A reference to a label yet to come: its slot waits on the label's list. *)
LEMMA ForwardPreserves ==
  ASSUME AsmInv, NEW lab \in OptionalLabel, NEW op \in Ops, NEW n \in Names,
         Forward(lab, op, n)
  PROVE  AsmInv'
<1> USE DEF AsmInv
<1> DEFINE new == pos + 1
           old == IF n \in DOMAIN fwd THEN fwd[n] ELSE {}
<1>1. /\ LabelFree(lab) /\ labels' = Labelled(lab) /\ Write(op, n, Placeholder)
      /\ fwd' = Set(fwd, n, {new} \cup old)
      /\ fixed' = fixed /\ phase' = phase
      /\ pos + Words(op) <= MaxPos
  BY DEF Forward, Write
<1>2. /\ lab \subseteq Names
      /\ DOMAIN labels' = DOMAIN labels \cup lab
      /\ \A m \in DOMAIN labels : labels'[m] = labels[m]
  BY <1>1, FreeIsNew
<1>3. phase = "reading" /\ fixed = {}
  BY <1>1 DEF LabelFree, Phases
<1>4. /\ new \notin DOMAIN out
      /\ DOMAIN out' = DOMAIN out \cup {new}
      /\ out'[new] = [op |-> op, name |-> n, word |-> Placeholder]
      /\ \A s \in DOMAIN out : out'[s] = out[s]
      /\ pos' \in Header .. MaxPos /\ new \in Header .. MaxPos
      /\ Boundaries' /\ LabelsBehind'
  BY <1>1, WriteExtends
<1>5. /\ DOMAIN fwd' = DOMAIN fwd \cup {n}
      /\ fwd'[n] = {new} \cup old
      /\ \A m \in DOMAIN fwd \ {n} : fwd'[m] = fwd[m]
  BY <1>1 DEF Set
<1>6. TypeOK'
  <2>1. \A m \in DOMAIN labels' : labels'[m] \in Header .. MaxPos
    BY <1>4, AssemblerAssumption DEF LabelsBehind
  <2>2. \A s \in DOMAIN out' :
          out'[s] \in [op : Ops, name : Names, word : {Placeholder} \cup 0 .. U32 - 1]
    BY <1>4 DEF TypeOK
  <2>3. \A m \in DOMAIN fwd' : fwd'[m] \subseteq DOMAIN out'
    BY <1>4, <1>5 DEF TypeOK
  <2> QED
    BY <1>1, <1>2, <1>3, <1>4, <1>5, <2>1, <2>2, <2>3 DEF TypeOK
<1>7. ListsHoldOpen'
  <2> SUFFICES ASSUME NEW m \in DOMAIN fwd', NEW s \in fwd'[m]
               PROVE  /\ s \in DOMAIN out'
                      /\ out'[s].name = m
                      /\ out'[s].word = Placeholder
    BY DEF ListsHoldOpen
  <2>1. CASE m = n /\ s = new
    BY <2>1, <1>4
  <2>2. CASE m \in DOMAIN fwd /\ s \in fwd[m]
    BY <2>2, <1>3, <1>4 DEF ListsHoldOpen
  <2> QED
    BY <2>1, <2>2, <1>5
<1>8. Accounted'
  <2> SUFFICES ASSUME NEW s \in DOMAIN out', Clear(out'[s].name)
               PROVE  (Waiting(s) \/ Settled(s))'
    BY DEF Accounted, Clear
  <2>1. CASE s = new
    <3>1. out'[s].name = n
      BY <2>1, <1>4
    <3>2. n \in DOMAIN fwd' /\ s \in fwd'[n]
      BY <2>1, <1>5
    <3>3. n \notin fixed'
      BY <1>1, <1>3
    <3> QED
      BY <3>1, <3>2, <3>3 DEF Waiting
  <2>2. CASE s \in DOMAIN out
    <3>1. Waiting(s) \/ Settled(s)
      BY <2>2, <1>3, <1>4 DEF Accounted, Abandoned
    <3> QED
      BY <3>1, <2>2, <1>1, <1>2, <1>4, <1>5 DEF Waiting, Settled
  <2> QED
    BY <2>1, <2>2, <1>4
<1>9. Phases'
  BY <1>1, <1>3 DEF Phases
<1> QED
  BY <1>4, <1>6, <1>7, <1>8, <1>9

(* The last pass fills in the slots of one label, all of which were open,  *)
(* or abandons them all.                                                   *)
LEMMA FixUpPreserves ==
  ASSUME AsmInv, NEW n \in Names, FixUp(n)
  PROVE  AsmInv'
<1> USE DEF AsmInv
<1> DEFINE fills(s) == s \in fwd[n] /\ Found(labels, n)
           w(s) == Encode(Position(labels, n), s)
<1>1. /\ phase = "fixing" /\ phase' = "fixing"
      /\ n \in DOMAIN fwd /\ n \notin fixed
      /\ fixed' = fixed \cup {n}
      /\ pos' = pos /\ labels' = labels /\ fwd' = fwd
  BY DEF FixUp
<1>2. /\ DOMAIN out' = DOMAIN out
      /\ \A s \in DOMAIN out : ~fills(s) => out'[s] = out[s]
      /\ \A s \in DOMAIN out : fills(s) => out'[s] = [out[s] EXCEPT !.word = w(s)]
  BY DEF FixUp
<1>3. \A s \in DOMAIN out : out[s] \in [op : Ops, name : Names, word : {Placeholder} \cup 0 .. U32 - 1]
  BY DEF TypeOK
<1>4. \A s \in DOMAIN out : w(s) \in 0 .. U32 - 1
  <2>1. Position(labels, n) \in Int
    BY AssemblerAssumption DEF TypeOK, Position
  <2>2. DOMAIN out \subseteq Int
    BY AssemblerAssumption DEF TypeOK
  <2> QED
    BY <2>1, <2>2, EncodeWord
<1> HIDE DEF w, fills
<1>5. \A s \in DOMAIN out :
        /\ out'[s].op = out[s].op /\ out'[s].name = out[s].name
        /\ fills(s) => out'[s].word = w(s)
        /\ out'[s] \in [op : Ops, name : Names, word : {Placeholder} \cup 0 .. U32 - 1]
  BY <1>2, <1>3, <1>4
<1>6. TypeOK'
  BY <1>1, <1>2, <1>5 DEF TypeOK
<1>7. Boundaries' /\ LabelsBehind'
  BY <1>1, <1>2, <1>5 DEF Boundaries, LabelsBehind, Words
<1>8. ListsHoldOpen'
  <2> SUFFICES ASSUME NEW m \in DOMAIN fwd, NEW s \in fwd[m]
               PROVE  /\ s \in DOMAIN out'
                      /\ out'[s].name = m
                      /\ m \notin fixed' => out'[s].word = Placeholder
    BY <1>1 DEF ListsHoldOpen
  <2>1. s \in DOMAIN out /\ out[s].name = m /\ (m \notin fixed => out[s].word = Placeholder)
    BY DEF ListsHoldOpen
  <2>2. m \notin fixed' => ~fills(s)
    <3> SUFFICES ASSUME m # n
                 PROVE  ~fills(s)
      BY <1>1
    <3>1. s \notin fwd[n]
      BY <2>1, <1>1 DEF ListsHoldOpen
    <3> QED
      BY <3>1 DEF fills
  <2> QED
    BY <2>1, <2>2, <1>1, <1>2, <1>5
<1>9. Accounted'
  <2> SUFFICES ASSUME NEW s \in DOMAIN out, Clear(out[s].name)
               PROVE  (Waiting(s) \/ Settled(s) \/ Abandoned(s))'
    BY <1>2, <1>5 DEF Accounted, Clear
  <2>1. Waiting(s) \/ Settled(s) \/ Abandoned(s)
    BY DEF Accounted
  <2>2. CASE s \in fwd[n]
    <3>1. out[s].name = n /\ out[s].word = Placeholder
      BY <2>2, <1>1 DEF ListsHoldOpen
    <3>2. fills(s) <=> n \in DOMAIN labels
      BY <2>2, <3>1 DEF fills, Found, Clear
    <3>3. CASE n \in DOMAIN labels
      BY <3>1, <3>2, <3>3, <1>1, <1>5 DEF Settled, w, Position
    <3>4. CASE n \notin DOMAIN labels
      BY <3>1, <3>2, <3>4, <1>1, <1>2 DEF Abandoned
    <3> QED
      BY <3>3, <3>4
  <2>3. CASE s \notin fwd[n]
    <3>1. out'[s] = out[s]
      BY <2>3, <1>2 DEF fills
    <3>2. CASE Waiting(s)
      <4>1. out[s].name # n
        BY <3>2, <2>3 DEF Waiting
      <4> QED
        BY <4>1, <3>1, <3>2, <1>1 DEF Waiting
    <3>3. CASE Settled(s) \/ Abandoned(s)
      BY <3>1, <3>3, <1>1 DEF Settled, Abandoned
    <3> QED
      BY <2>1, <3>2, <3>3
  <2> QED
    BY <2>2, <2>3
<1>10. Phases'
  BY <1>1 DEF Phases
<1> QED
  BY <1>6, <1>7, <1>8, <1>9, <1>10

(* Every step keeps the invariant. *)
LEMMA AsmNext == AsmInv /\ [Next]_vars => AsmInv'
<1> SUFFICES ASSUME AsmInv, [Next]_vars
             PROVE  AsmInv'
  OBVIOUS
<1>1. ASSUME NEW n \in Names, Redefinition(n)
      PROVE  AsmInv'
  BY <1>1, PhasePreserves DEF Redefinition
<1>2. ASSUME NEW lab \in OptionalLabel, NEW size \in Sizes, Plain(lab, size)
      PROVE  AsmInv'
  <2>1. pos' \in pos .. MaxPos
    BY <1>2, AssemblerAssumption DEF Plain, AsmInv, TypeOK
  <2> QED
    BY <1>2, <2>1, LinePreserves DEF Plain, LabelFree
<1>3. ASSUME NEW lab \in OptionalLabel, Unknown(lab)
      PROVE  AsmInv'
  <2>1. pos' \in pos .. MaxPos
    BY <1>3, AssemblerAssumption DEF Unknown, AsmInv, TypeOK
  <2> QED
    BY <1>3, <2>1, LinePreserves DEF Unknown
<1>4. ASSUME NEW lab \in OptionalLabel, NEW op \in Ops, NEW n \in Names, Backward(lab, op, n)
      PROVE  AsmInv'
  BY <1>4, BackwardPreserves
<1>5. ASSUME NEW lab \in OptionalLabel, NEW op \in Ops, NEW n \in Names, Forward(lab, op, n)
      PROVE  AsmInv'
  BY <1>5, ForwardPreserves
<1>6. ASSUME NEW lab \in OptionalLabel, NEW n \in Names, Crash(lab, n)
      PROVE  AsmInv'
  BY <1>6, PhasePreserves DEF Crash
<1>7. CASE EndOfFile
  BY <1>7, PhasePreserves DEF EndOfFile
<1>8. ASSUME NEW n \in Names, FixUp(n)
      PROVE  AsmInv'
  BY <1>8, FixUpPreserves
<1>9. CASE Finish
  BY <1>9, PhasePreserves DEF Finish
<1>10. CASE UNCHANGED vars
  BY <1>10 DEF vars, AsmInv, TypeOK, Boundaries, LabelsBehind, ListsHoldOpen,
       Accounted, Phases, Waiting, Settled, Abandoned, Clear, Words
<1> QED
  BY <1>1, <1>2, <1>3, <1>4, <1>5, <1>6, <1>7, <1>8, <1>9, <1>10 DEF Next

(* The invariant holds in every reachable state. *)
THEOREM AsmInvariance == Spec => []AsmInv
BY AsmInit, AsmNext, PTL DEF Spec

(* The assembler's state keeps its types. *)
THEOREM AsmTypeOK == Spec => []TypeOK
<1>1. AsmInv => TypeOK
  BY DEF AsmInv
<1> QED
  BY <1>1, AsmInvariance, PTL

(* Instructions do not overlap and labels stand between them. *)
THEOREM AsmBoundaries == Spec => []Boundaries
<1>1. AsmInv => Boundaries
  BY DEF AsmInv
<1> QED
  BY <1>1, AsmInvariance, PTL

(* Every reference that no longer waits leads the machine to its label.    *)
THEOREM AsmResolved == Spec => []Resolved
<1>1. AsmInv => Resolved
  <2> SUFFICES ASSUME AsmInv, NEW s \in DOMAIN out, Clear(out[s].name),
                      ~Waiting(s), out[s].name \in DOMAIN labels
               PROVE  out[s].word # Placeholder /\ Target(s) = labels[out[s].name]
    BY DEF Resolved
  <2> DEFINE l == labels[out[s].name]
  <2>1. out[s].word = Encode(l, s)
    BY DEF AsmInv, Accounted, Settled, Abandoned
  <2>2. l \in 0 .. U32 - 1
    BY AssemblerAssumption, OffsetsAssumption DEF AsmInv, TypeOK
  <2>3. s \in Int
    BY AssemblerAssumption DEF AsmInv, TypeOK
  <2> HIDE DEF l
  <2>4. out[s].word # Placeholder
    <3>1. l \in Int
      BY <2>2, OffsetsAssumption
    <3>2. Encode(l, s) # Placeholder
      BY <3>1, <2>3, EncodeWord
    <3> QED
      BY <3>2, <2>1
  <2>5. Target(s) = l
    BY <2>1, <2>2, <2>3, BranchLands, ReferArrives DEF Target
  <2> QED
    BY <2>4, <2>5 DEF l
<1> QED
  BY <1>1, AsmInvariance, PTL

(* The placeholders that remain are those of labels never defined. *)
THEOREM AsmLeftOpen == Spec => []LeftOpen
<1>1. AsmInv => LeftOpen
  <2> SUFFICES ASSUME AsmInv, phase = "done", NEW s \in DOMAIN out, Clear(out[s].name)
               PROVE  out[s].word = Placeholder <=> out[s].name \notin DOMAIN labels
    BY DEF LeftOpen
  <2>1. ~Waiting(s)
    BY DEF AsmInv, Phases, Waiting
  <2>2. Settled(s) \/ Abandoned(s)
    BY <2>1 DEF AsmInv, Accounted
  <2>3. Settled(s) => out[s].word # Placeholder
    <3>1. s \in Int /\ \A n \in DOMAIN labels : labels[n] \in Int
      BY AssemblerAssumption DEF AsmInv, TypeOK
    <3> QED
      BY <3>1, EncodeWord DEF Settled
  <2> QED
    BY <2>2, <2>3 DEF Settled, Abandoned
<1> QED
  BY <1>1, AsmInvariance, PTL

(* No label moves and no word is written twice. *)
THEOREM AsmWrittenOnce == Spec => WrittenOnce
<1> DEFINE Keeps ==
             /\ \A n \in DOMAIN labels : n \in DOMAIN labels' /\ labels'[n] = labels[n]
             /\ \A s \in DOMAIN out : s \in DOMAIN out'
                  /\ (out[s].word # Placeholder => out'[s] = out[s])
<1>1. AsmInv /\ [Next]_vars => [Keeps]_vars
  <2> SUFFICES ASSUME AsmInv, Next
               PROVE  Keeps
    OBVIOUS
  <2>1. CASE UNCHANGED <<labels, out>>
    BY <2>1
  <2>2. ASSUME NEW lab \in OptionalLabel, LabelFree(lab), labels' = Labelled(lab), out' = out
        PROVE  Keeps
    BY <2>2, FreeIsNew
  <2>3. ASSUME NEW lab \in OptionalLabel, NEW op \in Ops, NEW n \in Names, NEW w,
               LabelFree(lab), pos + Words(op) <= MaxPos, labels' = Labelled(lab),
               Write(op, n, w)
        PROVE  Keeps
    <3>1. \A s \in DOMAIN out : s \in DOMAIN out' /\ out'[s] = out[s]
      BY <2>3, WriteExtends
    <3>2. \A m \in DOMAIN labels : m \in DOMAIN labels' /\ labels'[m] = labels[m]
      BY <2>3, FreeIsNew
    <3> QED
      BY <3>1, <3>2
  <2>4. ASSUME NEW n \in Names, FixUp(n)
        PROVE  Keeps
    BY <2>4 DEF FixUp, AsmInv, ListsHoldOpen
  <2> QED
    BY <2>1, <2>2, <2>3, <2>4
       DEF Next, Redefinition, Plain, Unknown, Backward, Forward, Crash, EndOfFile, Finish
<1> QED
  BY <1>1, AsmInvariance, PTL DEF Spec, WrittenOnce

=============================================================================
