----------------------------- MODULE Assembler -----------------------------
(***************************************************************************)
(* The Mihini assembler (mhasm.c): one pass over the source lines, writing *)
(* code as it reads; references to labels not yet defined leave a          *)
(* placeholder in the file, and a pass over them at the end of the source  *)
(* fills it in.                                                            *)
(*                                                                         *)
(* A line is an optional label and a statement.  Of a statement only its   *)
(* size in the file and its label operand matter here.  Labels live in a   *)
(* ternary search tree (stree.c), in which a key that is a strict prefix   *)
(* of another has a node of its own, with value 0, before it is ever set.  *)
(***************************************************************************)
EXTENDS Offsets

CONSTANTS
  Names,    \* label names
  Longer,   \* name -> the names it is a strict prefix of
  Sizes,    \* sizes of the statements without a label operand
  Header,   \* bytes before the code: magic and version
  MaxPos    \* bound on the size of the output file

ASSUME AssemblerAssumption ==
  /\ Longer \in [Names -> SUBSET Names]
  /\ Sizes \subseteq Nat
  /\ Header \in Nat \ {0} /\ MaxPos \in Nat
  /\ Header <= MaxPos /\ MaxPos < U32

VARIABLES
  phase,   \* "reading", "fixing", "done" or "crashed"
  pos,     \* position in the output file
  labels,  \* the tree of labels: name -> position
  fwd,     \* the tree of forward labels: name -> slots waiting for it
  fixed,   \* forward labels the last pass has been through
  out      \* the output: slot -> the reference it stands for and its word

vars == <<phase, pos, labels, fwd, fixed, out>>

Placeholder == -1   \* 0xA5A5A5A5

Ops == {"branch", "refer"}
Words(op) == IF op = "refer" THEN 6 ELSE 5   \* bytes of the instruction

---------------------------------------------------------------------------
(* Trees.  stree_get finds a node for every key set and for every prefix   *)
(* of one; the value of the latter is 0, for malloc's memory is fresh: the *)
(* assembler frees nothing before its last pass.                           *)
Set(tree, n, v) == [m \in DOMAIN tree \cup {n} |-> IF m = n THEN v ELSE tree[m]]
Found(tree, n) == n \in DOMAIN tree \/ Longer[n] \cap DOMAIN tree # {}
Position(tree, n) == IF n \in DOMAIN tree THEN tree[n] ELSE 0
Exists(tree, n) == Found(tree, n) /\ Position(tree, n) # 0

---------------------------------------------------------------------------
(* Reading a line.  lab is the set of its label, if it has one. *)

(* Mutant: a label may be defined again. *)
LabelFreeAlways(lab) == phase = "reading"

LabelFree(lab) == phase = "reading" /\ \A n \in lab : ~Exists(labels, n)

(* Mutant: the label is set after the opcode has been written. *)
LabelledLate(lab) ==
  [m \in DOMAIN labels \cup lab |-> IF m \in lab THEN pos + 1 ELSE labels[m]]

Labelled(lab) ==
  [m \in DOMAIN labels \cup lab |-> IF m \in lab THEN pos ELSE labels[m]]

(* A label that is there already ends the reading. *)
Redefinition(n) ==
  /\ phase = "reading"
  /\ Exists(labels, n)
  /\ phase' = "fixing"
  /\ UNCHANGED <<pos, labels, fwd, fixed, out>>

(* A statement without a label operand, or none. *)
Plain(lab, size) ==
  /\ LabelFree(lab)
  /\ pos + size <= MaxPos
  /\ labels' = Labelled(lab)
  /\ pos' = pos + size
  /\ UNCHANGED <<phase, fwd, fixed, out>>

(* An unknown opcode ends the reading; its label stays. *)
Unknown(lab) ==
  /\ LabelFree(lab)
  /\ labels' = Labelled(lab)
  /\ phase' = "fixing"
  /\ UNCHANGED <<pos, fwd, fixed, out>>

(* The statement is written with word w in its slot. *)
Write(op, n, w) ==
  /\ out' = Set(out, pos + 1, [op |-> op, name |-> n, word |-> w])
  /\ pos' = pos + Words(op)
  /\ UNCHANGED <<phase, fixed>>

(* A reference to a label that the tree finds. *)
Backward(lab, op, n) ==
  /\ LabelFree(lab)
  /\ pos + Words(op) <= MaxPos
  /\ labels' = Labelled(lab)
  /\ Found(labels', n)
  /\ Write(op, n, Encode(Position(labels', n), pos + 1))
  /\ UNCHANGED fwd

(* A reference to a label yet to come: its slot joins those that wait. *)
Forward(lab, op, n) ==
  /\ LabelFree(lab)
  /\ pos + Words(op) <= MaxPos
  /\ labels' = Labelled(lab)
  /\ ~Found(labels', n)
  /\ n \in DOMAIN fwd \/ ~Found(fwd, n)
  /\ fwd' = Set(fwd, n, {pos + 1} \cup IF n \in DOMAIN fwd THEN fwd[n] ELSE {})
  /\ Write(op, n, Placeholder)

(* The tree of forward labels finds a node that was never set: the list of *)
(* slots is NULL, and dll_push follows it.                                 *)
Crash(lab, n) ==
  /\ LabelFree(lab)
  /\ ~Found(Labelled(lab), n)
  /\ n \notin DOMAIN fwd /\ Found(fwd, n)
  /\ phase' = "crashed"
  /\ UNCHANGED <<pos, labels, fwd, fixed, out>>

EndOfFile ==
  /\ phase = "reading"
  /\ phase' = "fixing"
  /\ UNCHANGED <<pos, labels, fwd, fixed, out>>

---------------------------------------------------------------------------
(* The last pass. *)

(* Mutant: a label that is not defined is taken to be at 0. *)
FixUpUndefined(n) ==
  /\ phase = "fixing"
  /\ n \in DOMAIN fwd \ fixed
  /\ out' = [s \in DOMAIN out |->
               IF s \in fwd[n] THEN [out[s] EXCEPT !.word = Encode(Position(labels, n), s)]
               ELSE out[s]]
  /\ fixed' = fixed \cup {n}
  /\ UNCHANGED <<phase, pos, labels, fwd>>

(* Mutant: a label that is not defined ends the pass. *)
FixUpStops(n) ==
  /\ phase = "fixing"
  /\ n \in DOMAIN fwd \ fixed
  /\ Found(labels, n)
  /\ out' = [s \in DOMAIN out |->
               IF s \in fwd[n] THEN [out[s] EXCEPT !.word = Encode(Position(labels, n), s)]
               ELSE out[s]]
  /\ fixed' = fixed \cup {n}
  /\ UNCHANGED <<phase, pos, labels, fwd>>

(* The slots that wait for n are filled in, or n is reported undefined. *)
FixUp(n) ==
  /\ phase = "fixing"
  /\ n \in DOMAIN fwd \ fixed
  /\ out' = [s \in DOMAIN out |->
               IF s \in fwd[n] /\ Found(labels, n)
               THEN [out[s] EXCEPT !.word = Encode(Position(labels, n), s)]
               ELSE out[s]]
  /\ fixed' = fixed \cup {n}
  /\ UNCHANGED <<phase, pos, labels, fwd>>

Finish ==
  /\ phase = "fixing"
  /\ DOMAIN fwd \subseteq fixed
  /\ phase' = "done"
  /\ UNCHANGED <<pos, labels, fwd, fixed, out>>

---------------------------------------------------------------------------
Empty == [n \in {} |-> 0]

Init ==
  /\ phase = "reading"
  /\ pos = Header
  /\ labels = Empty
  /\ fwd = Empty
  /\ fixed = {}
  /\ out = Empty

OptionalLabel == {{}} \cup {{n} : n \in Names}

Next ==
  \/ \E n \in Names : Redefinition(n)
  \/ \E lab \in OptionalLabel, size \in Sizes : Plain(lab, size)
  \/ \E lab \in OptionalLabel : Unknown(lab)
  \/ \E lab \in OptionalLabel, op \in Ops, n \in Names : Backward(lab, op, n)
  \/ \E lab \in OptionalLabel, op \in Ops, n \in Names : Forward(lab, op, n)
  \/ \E lab \in OptionalLabel, n \in Names : Crash(lab, n)
  \/ EndOfFile
  \/ \E n \in Names : FixUp(n)
  \/ Finish

Spec == Init /\ [][Next]_vars

(* One process, and a source file that has an end. *)
FairSpec == Spec /\ WF_vars(Next)

---------------------------------------------------------------------------
(* The machine's view of a slot: the address its instruction leads to. *)
Target(s) ==
  IF out[s].op = "refer" THEN ReferTo((s + 5) % U32, out[s].word)
  ELSE Land((s + 4) % U32, out[s].word)

(* A name the tree cannot confuse with a longer one. *)
Clear(n) == Longer[n] = {}

(* Slot s still waits for the last pass to come to its label. *)
Waiting(s) ==
  /\ out[s].name \in DOMAIN fwd /\ s \in fwd[out[s].name]
  /\ out[s].name \notin fixed

(* Types of the assembler's state. *)
TypeOK ==
  /\ phase \in {"reading", "fixing", "done", "crashed"}
  /\ pos \in Header .. MaxPos
  /\ DOMAIN labels \subseteq Names
  /\ \A n \in DOMAIN labels : labels[n] \in Header .. MaxPos
  /\ DOMAIN fwd \subseteq Names
  /\ \A n \in DOMAIN fwd : fwd[n] \subseteq DOMAIN out
  /\ fixed \subseteq DOMAIN fwd
  /\ DOMAIN out \subseteq Header .. MaxPos
  /\ \A s \in DOMAIN out :
       out[s] \in [op : Ops, name : Names, word : {Placeholder} \cup 0 .. U32 - 1]

(* Every reference that no longer waits, and whose label is defined, leads *)
(* the machine to exactly the position of that label: the arithmetic of    *)
(* parse_label and fix_fwd_labels_iter_2 and that of the branches and of   *)
(* REFER in vm.c agree, for labels before and after the reference.         *)
Resolved ==
  \A s \in DOMAIN out :
    Clear(out[s].name) /\ ~Waiting(s) /\ out[s].name \in DOMAIN labels =>
      out[s].word # Placeholder /\ Target(s) = labels[out[s].name]

(* When the assembler ends, the placeholders left in the file are those of *)
(* the labels that were reported as not defined.                           *)
LeftOpen ==
  phase = "done" =>
    \A s \in DOMAIN out : Clear(out[s].name) =>
      (out[s].word = Placeholder <=> out[s].name \notin DOMAIN labels)

(* Instructions with a label operand do not overlap in the file, and no    *)
(* label stands inside one: a branch never lands inside an operand.        *)
Boundaries ==
  \A s \in DOMAIN out :
    LET first == s - 1
        next == first + Words(out[s].op)
    IN  /\ next <= pos
        /\ \A t \in DOMAIN out : t > s => t - 1 >= next
        /\ \A n \in DOMAIN labels : labels[n] <= first \/ labels[n] >= next

(* A label keeps its position, and a word once written keeps its value: a  *)
(* reference resolved on the way is not undone by the last pass.           *)
WrittenOnce ==
  [][/\ \A n \in DOMAIN labels : n \in DOMAIN labels' /\ labels'[n] = labels[n]
     /\ \A s \in DOMAIN out : s \in DOMAIN out'
          /\ (out[s].word # Placeholder => out'[s] = out[s])]_vars

(* The assembler comes to an end whatever labels are missing: reading and  *)
(* the last pass do not go on for ever.  That it died counts as an end.    *)
Finishes == <>(phase \in {"done", "crashed"})

---------------------------------------------------------------------------
(* What the documents say and the code does not do.                        *)

(* mhasm.h:40, "Previous Labels so far (stree maps label -> pos)": every   *)
(* reference to a defined label leads to it, whatever the names.           *)
AllResolved ==
  phase = "done" =>
    \A s \in DOMAIN out : out[s].name \in DOMAIN labels =>
      Target(s) = labels[out[s].name]

=============================================================================
