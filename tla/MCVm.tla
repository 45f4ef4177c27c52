-------------------------------- MODULE MCVm --------------------------------
(* Programs for the virtual machine.  With one bit to a byte the widths    *)
(* are 1, 2, 4 and 8 bits, addresses wrap at 16 and registers at 256.      *)
EXTENDS Vm

Dir(r) == [mode |-> "direct", r |-> r]
Ref(r) == [mode |-> "ref", r |-> r]
Dec1(r) == [mode |-> "predec", r |-> r]
Inc1(r) == [mode |-> "postinc", r |-> r]

Bad(r) == [mode |-> "unknown", r |-> r]

Everywhere(S) == [a \in 0 .. U32 - 1 |-> S]

(* D0 and D1 hold the given values, A0 points at cell 6. *)
Regs(x, y) == [r \in 0 .. 15 |-> CASE r = 0 -> x [] r = 1 -> y [] r = 8 -> 6 [] OTHER -> 0]

(* Instructions on registers and memory, no two alike.  Memory operands    *)
(* are wider than a byte, and instructions that write back what they read  *)
(* address memory through (An): the runs below say why.                    *)
OpsCode == Everywhere(
  {[op |-> "NOP"], [op |-> "EXT"], [op |-> "UNKNOWN"], [op |-> "FSTUB", w |-> 1, a |-> Dir(0), b |-> Dir(1)],
   [op |-> "RET"], [op |-> "STOP"],
   [op |-> "LOAD", w |-> 2, imm |-> 3, a |-> Inc1(8)],
   [op |-> "LOAD", w |-> 1, imm |-> 0, a |-> Dir(1)],
   [op |-> "MOVE", w |-> 4, a |-> Bad(15), b |-> Dir(1)],
   [op |-> "SUB", w |-> 4, a |-> Dir(1), b |-> Bad(15)],
   [op |-> "PUSH", w |-> 2, imm |-> {0, 1, 15}, a |-> Dec1(15)],
   [op |-> "POP", w |-> 4, imm |-> {0, 1}, a |-> Inc1(15)],
   [op |-> "CLR", w |-> 4, a |-> Ref(8)], [op |-> "DEC", w |-> 2, a |-> Dir(0)],
   [op |-> "NOT", w |-> 2, a |-> Ref(8)],
   [op |-> "ROLI", w |-> 2, imm |-> 1, a |-> Dir(0)],
   [op |-> "ROR", w |-> 4, a |-> Dir(0), b |-> Dir(1)],
   [op |-> "DIVI", w |-> 2, imm |-> 2, a |-> Dir(0), b |-> Ref(8)],
   [op |-> "DIVI", w |-> 2, imm |-> 0, a |-> Dir(0), b |-> Dir(1)],
   [op |-> "DIV", w |-> 4, a |-> Dir(0), b |-> Dir(1), c |-> Ref(8)],
   [op |-> "TSTI", w |-> 2, imm |-> 1, a |-> Inc1(8)],
   [op |-> "TST", w |-> 4, a |-> Dir(0), b |-> Dir(1)],
   [op |-> "CMPI", w |-> 2, imm |-> 1, a |-> Dec1(8)],
   [op |-> "FLOAD", w |-> 2, imm |-> 9, a |-> Ref(8)],
   [op |-> "FCAST", w |-> 1, a |-> Dir(0), b |-> Dir(1)],
   [op |-> "FCAST", w |-> 4, a |-> Dir(0), b |-> Dir(1)],
   [op |-> "JMPI", imm |-> 3], [op |-> "JMPM", a |-> Inc1(8)],
   [op |-> "CALLI", imm |-> 3], [op |-> "CALL", imm |-> 2], [op |-> "CALLM", a |-> Ref(8)],
   [op |-> "ALLOC", w |-> 1, imm |-> 2, a |-> Dir(8)], [op |-> "FREE", a |-> Inc1(8)],
   [op |-> "REFER", imm |-> 1, a |-> Dec1(8)],
   [op |-> "BCB", imm |-> 1], [op |-> "BRA", imm |-> 12]}
  \cup {[op |-> "SYSCALL", imm |-> n] : n \in {1, 2, 3}}
  \cup {[op |-> "MOVE", w |-> w, a |-> Inc1(8), b |-> Dec1(8)] : w \in {2, 4}}
  \cup {[op |-> "MOVE", w |-> 8, a |-> Dir(0), b |-> Ref(8)]}
  \cup {[op |-> "INC", w |-> w, a |-> Dir(1)] : w \in {1, 8}}
  \cup {[op |-> o, w |-> w, a |-> Dir(0), b |-> Dir(1)] : o \in RingOps, w \in {1, 4}}
  \cup {[op |-> "SUB", w |-> 2, a |-> Inc1(8), b |-> Ref(8)],
        [op |-> "LSR", w |-> 4, a |-> Dir(0), b |-> Dir(1)],
        [op |-> "ADDI", w |-> 4, imm |-> 5, a |-> Ref(8)],
        [op |-> "LSLI", w |-> 2, imm |-> 7, a |-> Dir(1)]}
  \cup {[op |-> "CMP", w |-> 1, a |-> Dir(0), b |-> Dir(1)]}
  \cup {[op |-> o, imm |-> 1] : o \in {"BEQ", "BNE", "BLT", "BLE", "BGT", "BGE"}})
ASSUME OpsTame == \A a \in DOMAIN OpsCode : \A i \in OpsCode[a] : WellFormed(i) /\ Tame(i)

OpsRegs == {Regs(0, 2), Regs(255, 2), Regs(19, 255), Regs(2, 2)}

StackCode == Everywhere(
  {[op |-> "CALL", imm |-> 1], [op |-> "CALLI", imm |-> 3], [op |-> "CALLM", a |-> Dir(0)],
   [op |-> "RET"],
   [op |-> "PUSH", w |-> 4, imm |-> {0}, a |-> Dec1(15)],
   [op |-> "MOVE", w |-> 4, a |-> Inc1(15), b |-> Dir(0)],
   [op |-> "SYSCALL", imm |-> 1], [op |-> "SYSCALL", imm |-> 2],
   [op |-> "MOVE", w |-> 8, a |-> Inc1(8), b |-> Dir(1)],
   [op |-> "INC", w |-> 8, a |-> Dir(0)],
   [op |-> "BNE", imm |-> 12]})
ASSUME StackOnStack == \A a \in DOMAIN StackCode : \A i \in StackCode[a] : WellFormed(i) /\ OnStack(i)
StackRegs == {Regs(x, 0) : x \in {0, 23}}

(* Memory as malloc left it: cleared, or with something in it. *)
Cleared == [a \in Addresses |-> 0]
OpsMems == {Cleared, [a \in Addresses |-> IF a % 3 = 0 THEN 1 ELSE 0]}
StackMems == {Cleared}

NoPointers == {0, 23}
PopCode == Everywhere({[op |-> "POP", w |-> 4, imm |-> {0, 1}, a |-> Inc1(15)],
                       [op |-> "POP", w |-> 4, imm |-> {}, a |-> Inc1(15)],
                       [op |-> "BRA", imm |-> 1]})
DocRegs == {Regs(19, 2)}

(* Programs of the instruction a document describes. *)
ByteCode == Everywhere({[op |-> "LOAD", w |-> 1, imm |-> 1, a |-> Ref(8)],
                        [op |-> "MOVE", w |-> 1, a |-> Dir(0), b |-> Inc1(8)]})
SubCode == Everywhere({[op |-> "SUB", w |-> w, a |-> Dir(0), b |-> Dir(1)] : w \in {1, 2}})
=============================================================================
