------------------------------- MODULE Codec -------------------------------
(***************************************************************************)
(* The instruction format: the numbers of opcodes.h, and the operand bytes *)
(* that the assembler writes, the machine reads, and each pass of the      *)
(* disassembler reads, after an opcode.  The four are four switches in the *)
(* source, and they do not always agree.  An operand is its kind and its   *)
(* size in bytes.                                                          *)
(***************************************************************************)
EXTENDS Integers, Sequences, Functions

(* The opcodes with room for a width, in steps of four from 0, and those   *)
(* without, one after the other from OPCODE_BRA.                           *)
Wide == <<"nop", "load", "move", "push", "pop", "inc", "dec", "clr", "addi", "add", "subi",
          "sub", "muli", "mul", "divi", "div", "andi", "and", "ori", "or", "xori", "xor",
          "lsli", "lsl", "lsri", "lsr", "roli", "rol", "rori", "ror", "not", "tsti", "tst",
          "cmpi", "cmp", "fload", "fcast", "fround", "fadd", "fsub", "fmul", "fdiv", "fmod",
          "fsqrt", "fexp", "flog", "flog10", "fceil", "ffloor", "fpow", "fsin", "fcos", "ftan">>
Narrow == <<"bra", "beq", "bne", "bcb", "blt", "bgt", "ble", "bge", "jmpi", "jmpm", "jmp",
            "calli", "callm", "call", "ret", "alloc", "free", "syscall", "refer">>
BRA == 232

Numbered ==
  {<<Wide[i], 4 * (i - 1)>> : i \in DOMAIN Wide}
    \cup {<<Narrow[i], BRA + i - 1>> : i \in DOMAIN Narrow}
    \cup {<<"stop", 253>>, <<"ext", 255>>}

Mnemonics == {n[1] : n \in Numbered}
Number == [op \in Mnemonics |-> (CHOOSE n \in Numbered : n[1] = op)[2]]

(* tsti has a number and is in neither table of opcodes.c.  The assembler  *)
(* has one mnemonic more, data, which is no instruction: see OperandText.  *)
Tabled == Mnemonics \ {"tsti"}

(* What remains of an opcode byte when its width is taken off. *)
Base(byte) == IF byte < BRA THEN byte - (byte % 4) ELSE byte
Meant(byte) == {op \in Mnemonics : Number[op] = Base(byte)}

(* opcode | width, on the two bits of a width. *)
WithWidth(n, w) ==
  LET low == n % 4
  IN  n - low + (IF w \in {0, low} THEN low ELSE IF low = 0 THEN w ELSE 3)

(* These are written with their width, although all but the first group    *)
(* have no bits for one.                                                   *)
Widened == {Wide[i] : i \in 2 .. Len(Wide)} \cup {"callm", "jmpm", "free", "alloc"}
OpcodeByte(op, w) == IF op \in Widened THEN WithWidth(Number[op], w) ELSE Number[op]

---------------------------------------------------------------------------
Reg == <<"reg", 1>>
Mask == <<"mask", 2>>
Label == <<"label", 4>>
Imm(bytes) == <<"imm", bytes>>
ByWidth(w) == Imm(<<1, 2, 4, 8>>[w + 1])

Branches == {"bra", "beq", "bne", "bcb", "blt", "bgt", "ble", "bge", "call"}
ShiftImms == {"lsli", "lsri", "roli", "rori"}
ImmRegs == {"load", "addi", "subi", "muli", "andi", "ori", "xori", "cmpi"} \cup ShiftImms

(* Where the four switches agree. *)
Operands(op, w) ==
  CASE op \in {"nop", "ret", "stop", "ext"} -> <<>>
    [] op \in Branches -> <<Label>>
    [] op \in {"jmpi", "calli", "syscall"} -> <<Imm(4)>>
    [] op \in {"callm", "jmpm", "free", "not", "inc", "dec", "clr"} -> <<Reg>>
    [] op = "refer" -> <<Label, Reg>>
    [] op = "alloc" -> <<Imm(4), Reg>>
    [] op = "tsti" -> <<Imm(1), Reg>>
    [] op = "fload" -> <<Imm(8), Reg>>
    [] op \in {"push", "pop"} -> <<Mask, Reg>>
    [] op = "divi" -> <<ByWidth(w), Reg, Reg>>
    [] op = "div" -> <<Reg, Reg, Reg>>
    [] OTHER -> <<Reg, Reg>>

(* Mutant: the immediate of divi is a byte, whatever its width. *)
WrittenDivByte(op, w) ==
  IF op = "jmp" THEN <<Label>>
  ELSE IF op \in ImmRegs THEN <<ByWidth(w), Reg>>
  ELSE IF op = "divi" THEN <<Imm(1), Reg, Reg>>
  ELSE Operands(op, w)

(* assemble, in mhasm.c *)
Written(op, w) ==
  IF op = "jmp" THEN <<Label>>
  ELSE IF op \in ImmRegs THEN <<ByWidth(w), Reg>>
  ELSE Operands(op, w)

(* vm_opcode_execute *)
Executed(op, w) ==
  IF op = "jmp" THEN <<Label>>
  ELSE IF op \in ShiftImms THEN <<Imm(1), Reg>>
  ELSE IF op \in ImmRegs THEN <<ByWidth(w), Reg>>
  ELSE Operands(op, w)

(* first_pass, in mhdasm.c: it reads no operand for jmp. *)
FirstPass(op, w) ==
  IF op = "jmp" THEN <<>>
  ELSE IF op \in ImmRegs THEN <<Imm(8), Reg>>
  ELSE Operands(op, w)

(* disassemble *)
SecondPass(op, w) ==
  IF op = "jmp" THEN <<Label>>
  ELSE IF op \in ImmRegs THEN <<Imm(1), Reg>>
  ELSE Operands(op, w)

(* The bytes of operands 1 to j. *)
SizeTo(operands, j) == SumFunctionOnSet([k \in DOMAIN operands |-> operands[k][2]], 1 .. j)

Size(operands) == SizeTo(operands, Len(operands))

(* pop takes its register first, and both the assembler and the            *)
(* disassembler put it after the mask in the file: which argument of the   *)
(* source operand j is.                                                    *)
Argument(op, j) == IF op = "pop" THEN 3 - j ELSE j
=============================================================================
