------------------------------ MODULE VmWords ------------------------------
(***************************************************************************)
(* The words of the virtual machine: bytes in memory, the three integer    *)
(* widths that wrap, and the arithmetic of vm.c on them.                   *)
(***************************************************************************)
EXTENDS Integers, FiniteSets, FiniteSetsExt, Functions

CONSTANT Bits   \* bits in a byte

ASSUME BitsAssumption == Bits \in Nat \ {0}

(* How many values there are in n bytes. *)
Span(n) == 2 ^ (Bits * n)

Byte == Span(1)
U32 == Span(4)       \* uint32_t: addresses, offsets, ip
Word == Span(8)      \* uint64_t: registers
WordBits == Bits * 8

Bytes == 0 .. Byte - 1
Values == 0 .. Word - 1
Widths == {1, 2, 4, 8}   \* .b .w .l .x

(* Every byte an access at a uint32_t address can touch. *)
Addresses == 0 .. U32 + 7
Memories == [Addresses -> Bytes]

(* v in the low w bytes: the mask of vm_width_to_mask. *)
Low(v, w) == v % Span(w)

(* vm_read_memory: the address is truncated to uint32_t, the bytes are     *)
(* little endian.                                                          *)
ReadMem(mem, address, w) ==
  SumFunctionOnSet([k \in 0 .. w - 1 |-> mem[(address % U32) + k] * Span(k)], 0 .. w - 1)

(* Mutant: the break after the case of .w is missing as well. *)
WriteMemRunsOn(mem, address, v, w) ==
  LET base == address % U32
      n == IF w < 4 THEN 4 ELSE w
  IN  [a \in DOMAIN mem |->
         IF a \in base .. base + n - 1 THEN (v \div Span(a - base)) % Byte ELSE mem[a]]

(* vm_write_memory: the case of .b falls through into that of .w. *)
WriteMem(mem, address, v, w) ==
  LET base == address % U32
      n == IF w = 1 THEN 2 ELSE w
  IN  [a \in DOMAIN mem |->
         IF a \in base .. base + n - 1 THEN (v \div Span(a - base)) % Byte ELSE mem[a]]

(* Bitwise operators on words. *)
Ones(v) == {k \in 0 .. WordBits - 1 : (v \div 2 ^ k) % 2 = 1}
OfBits(S) == SumFunctionOnSet([k \in S |-> 2 ^ k], S)
BitAnd(x, y) == OfBits(Ones(x) \cap Ones(y))
BitOr(x, y) == OfBits(Ones(x) \cup Ones(y))
BitXor(x, y) == OfBits((Ones(x) \ Ones(y)) \cup (Ones(y) \ Ones(x)))

(* Shifts of a uint64_t.  A count of 64 or more, or below 0, is undefined  *)
(* in C; x86 and ARM take it modulo 64.                                    *)
ShiftLeft(v, n) == (v * 2 ^ (n % WordBits)) % Word
ShiftRight(v, n) == v \div 2 ^ (n % WordBits)

(* (int)1 << n as vm_opcode_tst uses it: the count is taken modulo 32 and  *)
(* bit 31 sign-extends.                                                    *)
BitMask(n) ==
  LET k == n % (4 * Bits)
  IN  IF k = 4 * Bits - 1 THEN Word - 2 ^ k ELSE 2 ^ k

(* Mutant: AND is the logical one of C, as NOT is. *)
AluLogical(op, x, y) ==
  CASE op \in {"ADD", "ADDI"} -> (x + y) % Word
    [] op \in {"SUB", "SUBI"} -> (x - y) % Word
    [] op \in {"MUL", "MULI"} -> (x * y) % Word
    [] op \in {"AND", "ANDI"} -> IF x = 0 \/ y = 0 THEN 0 ELSE 1
    [] op \in {"OR", "ORI"}   -> BitOr(x, y)
    [] op \in {"XOR", "XORI"} -> BitXor(x, y)
    [] op \in {"LSL", "LSLI"} -> ShiftLeft(x, y)
    [] op \in {"LSR", "LSRI"} -> ShiftRight(x, y)

(* The arithmetic of ADD ... LSR, in 64 bits whatever the width. *)
Alu(op, x, y) ==
  CASE op \in {"ADD", "ADDI"} -> (x + y) % Word
    [] op \in {"SUB", "SUBI"} -> (x - y) % Word
    [] op \in {"MUL", "MULI"} -> (x * y) % Word
    [] op \in {"AND", "ANDI"} -> BitAnd(x, y)
    [] op \in {"OR", "ORI"}   -> BitOr(x, y)
    [] op \in {"XOR", "XORI"} -> BitXor(x, y)
    [] op \in {"LSL", "LSLI"} -> ShiftLeft(x, y)
    [] op \in {"LSR", "LSRI"} -> ShiftRight(x, y)

(* ROL and ROR of a value v of w bytes by n bits. *)
Rotate(op, v, n, w) ==
  LET width == w * Bits
  IN  IF op \in {"ROL", "ROLI"}
      THEN Low(BitOr(ShiftLeft(v, n), ShiftRight(v, width - n)), w)
      ELSE Low(BitOr(ShiftRight(v, n), ShiftLeft(v, width - n)), w)

(* Where branches and REFER lead. *)
INSTANCE Offsets

=============================================================================
