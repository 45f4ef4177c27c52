------------------------------ MODULE Offsets ------------------------------
(***************************************************************************)
(* Branch offsets: what the assembler writes into the four byte slot of a  *)
(* label operand, and where the virtual machine goes with it.  Positions   *)
(* and offsets are words of 32 bits; U32 is how many there are.            *)
(***************************************************************************)
EXTENDS Integers

CONSTANT U32

ASSUME OffsetsAssumption == U32 \in Nat \ {0}

(* Mutant: the offset counts from the end of the slot alone. *)
EncodeShort(label, slot) == (label - slot - 4) % U32

(* Mutant: the offset is not cut to 32 bits. *)
EncodeWide(label, slot) == label - slot - 8

(* parse_label and fix_fwd_labels_iter_2, for a label and the slot that    *)
(* refers to it.                                                           *)
Encode(label, slot) == (label - slot - 8) % U32

(* Where a taken branch goes: the offset is added to ip, which is past the *)
(* operand, with 4 more.                                                   *)
Land(after, offset) == (after + offset + 4) % U32

(* What REFER computes: ip is past the register byte too. *)
ReferTo(after, offset) == (after + offset + 3) % U32

(* The disassembler: where its first pass puts a label, pos being 4 ahead  *)
(* of the code, and where its second looks for it.                         *)
LabelKey(pos, offset) == (pos + offset) % U32
LookupKey(pos, offset) == (pos + offset + 4) % U32

=============================================================================
