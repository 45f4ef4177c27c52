---------------------------- MODULE Disassembler ----------------------------
(***************************************************************************)
(* The disassembler (mhdasm.c) on what the assembler wrote: a first pass   *)
(* over the code collects the positions that operands refer to, a second   *)
(* prints it, and names them.  Each turn of the two loops is an action.    *)
(*                                                                         *)
(* feof is true only after a read has failed, so each loop takes a turn    *)
(* more, on whatever read_uint8 and read_uint32 leave in their variables,  *)
(* which nobody set: that is a choice from GarbageBytes and GarbageWords.  *)
(* Positions count from the first byte after the header, for assembler and *)
(* machine too: only differences matter.                                   *)
(***************************************************************************)
EXTENDS Codec, Offsets, Btree, SequencesExt

CONSTANTS GarbageBytes, GarbageWords

(* What the last byte of a word counts. *)
Top == 16777216

ASSUME DisassemblerAssumption ==
  /\ (U32 - 1) \div Top < 256
  /\ GarbageBytes \subseteq 0 .. 255 /\ GarbageWords \subseteq 0 .. U32 - 1

VARIABLES
  program,    \* the source: statements [op, w, target], target for a label operand
  code,       \* the file the assembler made of it
  stage,      \* "first", "second", "done" or "crashed"
  filePos,    \* bytes of the code read so far
  eof,        \* feof(source)
  scanPos,    \* state.pos
  labels,     \* state.labels: position -> number
  labelNum,   \* state.label_num
  lines       \* what was printed

dasmVars == <<program, code, stage, filePos, eof, scanPos, labels, labelNum, lines>>

---------------------------------------------------------------------------
(* The file.  An operand that is not a label is told by its argument. *)
StatementSize(s) == 1 + Size(Written(s.op, s.w))

(* Where statement i of p starts; one past the last is where p ends. *)
StartOf(p, i) == SumFunctionOnSet([k \in DOMAIN p |-> StatementSize(p[k])], 1 .. i - 1)

(* write_uint32, and read_uint32. *)
WordBytes(v) == <<v % 256, (v \div 256) % 256, (v \div 65536) % 256, v \div Top>>
WordOf(b) == (b[1] + 256 * b[2] + 65536 * b[3] + (Top % U32) * b[4]) % U32

OperandBytes(p, i, j) ==
  LET s == p[i]
      operand == Written(s.op, s.w)[j]
      slot == StartOf(p, i) + 1 + SizeTo(Written(s.op, s.w), j - 1)
  IN  IF operand = Label THEN WordBytes(Encode(StartOf(p, s.target), slot))
      ELSE [k \in 1 .. operand[2] |-> IF k = 1 THEN Argument(s.op, j) ELSE 0]

StatementBytes(p, i) ==
  <<OpcodeByte(p[i].op, p[i].w)>>
    \o FlattenSeq([j \in 1 .. Len(Written(p[i].op, p[i].w)) |-> OperandBytes(p, i, j)])

CodeOf(p) == FlattenSeq([i \in DOMAIN p |-> StatementBytes(p, i)])

---------------------------------------------------------------------------
(* fread: n bytes from offset at, or garbage when the file ends. *)
Got(at, n) == at + n <= Len(code)
BytesAt(at, n) == SubSeq(code, at + 1, at + n)

(* What a turn reads: the opcode and the operands its layout asks for. *)
Turn(Layout(_, _), byte) ==
  LET op == CHOOSE o \in Meant(byte) : TRUE
      operands == Layout(op, byte % 4)
  IN  [op |-> op, w |-> IF byte < BRA THEN byte % 4 ELSE 0, operands |-> operands,
       size |-> 1 + Size(operands)]

WordAt(at, garbage) == IF Got(at, 4) THEN WordOf(BytesAt(at, 4)) ELSE garbage

Advance(size) ==
  /\ filePos' = IF Got(filePos, size) THEN filePos + size ELSE Len(code)
  /\ eof' = ~Got(filePos, size)
  /\ scanPos' = scanPos + size

(* The byte a turn takes for its opcode. *)
Opcodes == IF Got(filePos, 1) THEN {code[filePos + 1]} ELSE GarbageBytes

(* Mutant: the first pass takes for the label what the offset is from. *)
FirstTurnSlot(byte, garbage) ==
  /\ stage = "first" /\ ~eof
  /\ Meant(byte) \cap Tabled # {}
  /\ LET t == Turn(FirstPass, byte)
         key == (scanPos + 1) % U32
     IN  /\ Advance(t.size)
         /\ IF Len(t.operands) > 0 /\ t.operands[1] = Label
            THEN labels' = BtreeAdd(labels, key, labelNum) /\ labelNum' = labelNum + 1
            ELSE UNCHANGED <<labels, labelNum>>
  /\ UNCHANGED <<program, code, stage, lines>>

(* first_pass *)
FirstTurn(byte, garbage) ==
  /\ stage = "first" /\ ~eof
  /\ Meant(byte) \cap Tabled # {}
  /\ LET t == Turn(FirstPass, byte)
         key == LabelKey(scanPos + 5, WordAt(filePos + 1, garbage))
     IN  /\ Advance(t.size)
         /\ IF Len(t.operands) > 0 /\ t.operands[1] = Label
            THEN labels' = BtreeAdd(labels, key, labelNum) /\ labelNum' = labelNum + 1
            ELSE UNCHANGED <<labels, labelNum>>
  /\ UNCHANGED <<program, code, stage, lines>>

(* An opcode that is not in the table: its name is read through NULL. *)
UnknownOpcode ==
  /\ stage \in {"first", "second"} /\ ~eof
  /\ \E byte \in Opcodes : Meant(byte) \cap Tabled = {}
  /\ stage' = "crashed"
  /\ UNCHANGED <<program, code, filePos, eof, scanPos, labels, labelNum, lines>>

(* fseek clears the end of file. *)
Rewind ==
  /\ stage = "first" /\ eof
  /\ stage' = "second"
  /\ filePos' = 0 /\ scanPos' = 0 /\ eof' = FALSE
  /\ UNCHANGED <<program, code, labels, labelNum, lines>>

LabelAt(key) ==
  LET found == BtreeGet(labels, key)
  IN  IF found = {} THEN 0 ELSE (CHOOSE n \in found : TRUE).value

(* What is printed for operand j of a turn: the number of a label, 0 for   *)
(* one that is not found, or bytes.                                        *)
Printed(t, j, garbage) ==
  LET before == 1 + SizeTo(t.operands, j - 1)
      size == t.operands[j][2]
  IN  IF t.operands[j] = Label
      THEN LabelAt(LookupKey(scanPos + before + 4, WordAt(filePos + before, garbage)))
      ELSE IF Got(filePos + before, size) THEN BytesAt(filePos + before, size)
      ELSE <<>>

(* disassemble.  A label that is not found leaves its line without a       *)
(* statement, and ext prints none.                                         *)
SecondTurn(byte, garbage) ==
  /\ stage = "second" /\ ~eof
  /\ Meant(byte) \cap Tabled # {}
  /\ LET t == Turn(SecondPass, byte)
         args == [a \in DOMAIN t.operands |-> Printed(t, Argument(t.op, a), garbage)]
         silent == t.op = "ext" \/ \E j \in DOMAIN t.operands :
                                     t.operands[j] = Label /\ args[j] = 0
     IN  /\ Advance(t.size)
         /\ lines' = Append(lines,
              [label |-> LabelAt(scanPos), op |-> IF silent THEN "none" ELSE t.op,
               w |-> t.w, args |-> IF silent THEN <<>> ELSE args])
  /\ UNCHANGED <<program, code, stage, labels, labelNum>>

(* cleanup frees the two trees. *)
DasmEnd ==
  /\ stage = "second" /\ eof
  /\ stage' = "done"
  /\ UNCHANGED <<program, code, filePos, eof, scanPos, labels, labelNum, lines>>

(* Read before the first pass: the magic, which does not count in          *)
(* state.pos, and the version, which does.                                 *)
DasmStart(p) ==
  /\ program = p /\ code = CodeOf(p)
  /\ stage = "first" /\ filePos = 0 /\ eof = FALSE
  /\ scanPos = 4
  /\ labels = Leaf(0, 1) /\ labelNum = 2
  /\ lines = <<>>

DasmNext ==
  \/ \E byte \in Opcodes, garbage \in GarbageWords : FirstTurn(byte, garbage)
  \/ UnknownOpcode
  \/ Rewind
  \/ \E byte \in Opcodes, garbage \in GarbageWords : SecondTurn(byte, garbage)
  \/ DasmEnd

---------------------------------------------------------------------------
(* The passes of the disassembler read for s what the assembler wrote. *)
Regular(s) ==
  LET byte == OpcodeByte(s.op, s.w)
  IN  /\ Meant(byte) = {s.op} /\ s.op \in Tabled
      /\ Written(s.op, s.w) = FirstPass(s.op, byte % 4)
      /\ Written(s.op, s.w) = SecondPass(s.op, byte % 4)

(* What a line says, labels apart, is what the statement said. *)
SaysStatement(line, s) ==
  /\ line.op = s.op
  /\ s.op \in Widened /\ Number[s.op] < BRA => line.w = s.w
  /\ DOMAIN line.args = DOMAIN Written(s.op, s.w)
  /\ \A a \in DOMAIN line.args :
       Written(s.op, s.w)[Argument(s.op, a)] # Label => line.args[a][1] = a

(* The listing of a program of regular statements is that program: each    *)
(* statement is printed in its place with its arguments in order, each     *)
(* operand that names a label names the one printed before the statement   *)
(* it led to, before it or after it or at the end of the program, and no   *)
(* two lines have one label.                                               *)
ListingRight ==
  stage = "done" /\ (\A i \in DOMAIN program : Regular(program[i])) =>
    /\ Len(lines) = Len(program) + 1
    /\ \A i \in DOMAIN program :
         /\ SaysStatement(lines[i], program[i])
         /\ \A j \in DOMAIN lines[i].args :
              Written(program[i].op, program[i].w)[j] = Label =>
                lines[i].args[j] # 0 /\ lines[i].args[j] = lines[program[i].target].label
    /\ \A i, j \in DOMAIN lines : i # j /\ lines[i].label # 0 => lines[i].label # lines[j].label

(* Where the machine finds the next opcode after the one at position at of *)
(* c, and where it has come to from the first on after n instructions, one *)
(* after the other.                                                        *)
NextFetch(c, at) ==
  IF at >= Len(c) THEN at
  ELSE at + (IF Meant(c[at + 1]) = {} THEN 1 ELSE Turn(Executed, c[at + 1]).size)
FetchAt(c, n) ==
  LET at[k \in 0 .. n] == IF k = 0 THEN 0 ELSE NextFetch(c, at[k - 1])
  IN  at[n]

(* The statements whose bytes the machine does not take for what they are: *)
(* a shift by an immediate, written at its width and read as one byte, and *)
(* a width, reported and written all the same, in an opcode that has no    *)
(* bits for one.                                                           *)
Misread(s) ==
  \/ s.op \in ShiftImms /\ s.w # 0
  \/ OpcodeByte(s.op, s.w) # Number[s.op] /\ Number[s.op] >= BRA

(* The machine comes to the opcodes the assembler wrote, in their order,   *)
(* and never to an operand: the sizes in assemble and those in             *)
(* vm_opcode_execute agree for every other statement at every width.       *)
MachineReads ==
  (\A i \in DOMAIN program : ~Misread(program[i])) =>
    /\ \A i \in 1 .. Len(program) + 1 : FetchAt(code, i - 1) = StartOf(program, i)
    /\ \A i \in DOMAIN program : Meant(code[StartOf(program, i) + 1]) = {program[i].op}
    /\ StartOf(program, Len(program) + 1) = Len(code)

---------------------------------------------------------------------------
(* What an author can write, ext apart, which is in the tables but not in  *)
(* assemble: targets are statements or the end, in less than U32 bytes.    *)
Statements == [op : Tabled \ {"ext"}, w : 0 .. 3, target : Nat \ {0}]
Sources ==
  {p \in Seq(Statements) : /\ \A i \in DOMAIN p : p[i].target <= Len(p) + 1
                           /\ StartOf(p, Len(p) + 1) < U32}

DasmSpec == (\E p \in Sources : DasmStart(p)) /\ [][DasmNext]_dasmVars
=============================================================================
