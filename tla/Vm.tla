-------------------------------- MODULE Vm --------------------------------
(***************************************************************************)
(* The Mihini virtual machine (vm.c): sixteen registers, a byte memory, a  *)
(* condition register and an instruction pointer.                          *)
(*                                                                         *)
(* The machine is scaled: a byte has Bits bits, so .b .w .l .x are 1, 2, 4 *)
(* and 8 bytes of Bits bits each, uint32_t wraps at Byte^4 and a register  *)
(* at Byte^8.  Memory is a function on every byte a 32 bit address can     *)
(* name; the bytes from MemSize on belong to the host process.             *)
(*                                                                         *)
(* Instructions are records: width w in bytes, immediate, offset, routine  *)
(* or register mask imm, operands a, b and c.  They are already decoded,   *)
(* with a compiler that evaluates the arguments of a call from left to     *)
(* right, as vm_opcode_execute needs it to.  Code says which instructions  *)
(* a program may have at each address, so a run covers every program built *)
(* from them; programs do not write over their own code.                   *)
(***************************************************************************)
EXTENDS Integers, FiniteSets, VmWords

CONSTANTS
  MemSize,       \* bytes of VM memory
  Code,          \* address -> the instructions that may be there
  MaxSteps,      \* bound on the instructions executed
  HostPointers,  \* what pmalloc may return to ALLOC, 0 when out of memory
  FloatValues,   \* bit patterns a cast to floating point may give
  InitRegs,      \* initial values of the registers but A7
  InitMems       \* what malloc may leave in the memory

VARIABLES reg, mem, cond, ip, status, pop, last, steps

vars == <<reg, mem, cond, ip, status, pop, last, steps>>

SP == 15
Idle == -1

---------------------------------------------------------------------------
(* Operands.  m is a record [reg, mem], o a record [mode, r]. *)

Bump(m, r, n) == [m EXCEPT !.reg[r] = (@ + n) % Word]

(* vm_read_register_or_memory: the value, and the machine after it.  A     *)
(* mode it does not know reads as 0.                                       *)
ReadOp(m, o, w) ==
  LET n == Bump(m, o.r, -w)
  IN  CASE o.mode = "direct"  -> [v |-> m.reg[o.r], m |-> m]
        [] o.mode = "ref"     -> [v |-> ReadMem(m.mem, m.reg[o.r], w), m |-> m]
        [] o.mode = "predec"  -> [v |-> ReadMem(n.mem, n.reg[o.r], w), m |-> n]
        [] o.mode = "postinc" -> [v |-> ReadMem(m.mem, m.reg[o.r], w),
                                  m |-> Bump(m, o.r, w)]
        [] o.mode = "unknown" -> [v |-> 0, m |-> m]

(* vm_write_register_or_memory: a register takes all 64 bits, and a mode   *)
(* it does not know nothing.                                               *)
WriteOp(m, o, v, w) ==
  LET n == Bump(m, o.r, -w)
  IN  CASE o.mode = "direct"  -> [m EXCEPT !.reg[o.r] = v]
        [] o.mode = "ref"     -> [m EXCEPT !.mem = WriteMem(@, m.reg[o.r], v, w)]
        [] o.mode = "predec"  -> [n EXCEPT !.mem = WriteMem(@, n.reg[o.r], v, w)]
        [] o.mode = "postinc" -> Bump([m EXCEPT !.mem = WriteMem(@, m.reg[o.r], v, w)], o.r, w)
        [] o.mode = "unknown" -> m

Machine == [reg |-> reg, mem |-> mem]
PushSP == [mode |-> "predec", r |-> SP]
PopSP == [mode |-> "postinc", r |-> SP]

(* The two operands of an expression a OP b: C leaves the order in which   *)
(* they are read, and their increments made, to the compiler.              *)
ReadBoth(m, a, b, w) ==
  LET a1 == ReadOp(m, a, w)    b1 == ReadOp(a1.m, b, w)
      b2 == ReadOp(m, b, w)    a2 == ReadOp(b2.m, a, w)
  IN  {[x |-> a1.v, y |-> b1.v, m |-> b1.m], [x |-> a2.v, y |-> b2.v, m |-> a2.m]}

---------------------------------------------------------------------------
(* Instruction formats: the bytes an instruction takes. *)
RegRegOps == {"MOVE", "ADD", "SUB", "MUL", "AND", "OR", "XOR", "LSL", "LSR",
              "ROL", "ROR", "TST", "CMP", "FCAST", "FSTUB"}
ImmRegOps == {"LOAD", "ADDI", "SUBI", "MULI", "ANDI", "ORI", "XORI", "CMPI"}
Imm8RegOps == {"LSLI", "LSRI", "ROLI", "RORI", "TSTI"}
BranchOps == {"BRA", "BEQ", "BNE", "BCB", "BLT", "BGT", "BLE", "BGE", "JMP"}

Length(i) ==
  CASE i.op \in {"NOP", "RET", "STOP", "EXT", "UNKNOWN"} -> 1
    [] i.op \in {"INC", "DEC", "CLR", "NOT", "JMPM", "CALLM", "FREE"} -> 2
    [] i.op \in RegRegOps \cup Imm8RegOps -> 3
    [] i.op \in {"PUSH", "POP", "DIV"} -> 4
    [] i.op \in BranchOps \cup {"JMPI", "CALLI", "CALL", "SYSCALL"} -> 5
    [] i.op \in {"ALLOC", "REFER"} -> 6
    [] i.op \in ImmRegOps -> 2 + i.w
    [] i.op = "DIVI" -> 3 + i.w
    [] i.op = "FLOAD" -> 10

(* What the instructions carry: a width, operands a, b and c, and in imm a *)
(* value, a mask of registers, or a distance or address.  Mode "unknown"   *)
(* is any but the four, as in the byte 0xFF that parse_register answers    *)
(* for a register it cannot read.                                          *)
Operands == [mode : {"direct", "ref", "predec", "postinc", "unknown"}, r : 0 .. 15]
Wide == RegRegOps \cup ImmRegOps \cup Imm8RegOps
        \cup {"INC", "DEC", "CLR", "NOT", "PUSH", "POP", "DIV", "DIVI", "FLOAD"}
HaveA == Wide \cup {"JMPM", "CALLM", "FREE", "ALLOC", "REFER"}
HaveB == RegRegOps \cup {"DIV", "DIVI"}
HaveValue == ImmRegOps \cup Imm8RegOps \cup {"DIVI", "FLOAD"}
HaveTarget == BranchOps \cup {"JMPI", "CALLI", "CALL", "REFER"}
Operations == HaveA \cup HaveTarget \cup {"NOP", "RET", "STOP", "EXT", "SYSCALL", "UNKNOWN"}

WellFormed(i) ==
  /\ i.op \in Operations
  /\ i.op \in Wide => i.w \in Widths
  /\ i.op \in HaveA => i.a \in Operands
  /\ i.op \in HaveB => i.b \in Operands
  /\ i.op = "DIV" => i.c \in Operands
  /\ i.op \in HaveValue => i.imm \in Values
  /\ i.op \in {"PUSH", "POP"} => i.imm \subseteq 0 .. 15
  /\ i.op \in HaveTarget => i.imm \in 0 .. U32 - 1

ASSUME VmAssumption ==
  /\ MemSize \in 0 .. U32 /\ MaxSteps \in Nat
  /\ \A a \in DOMAIN Code : \A i \in Code[a] : WellFormed(i)
  /\ HostPointers \subseteq Values /\ FloatValues \subseteq Values
  /\ InitRegs \subseteq [0 .. 15 -> Values] /\ InitMems \subseteq Memories

(* Mutant: ip is wider than the 32 bits of an address. *)
AfterUnwrapped(i) == ip + Length(i)

(* What every instruction does first: fetch, and move ip past itself. *)
After(i) == (ip + Length(i)) % U32

(* The end of an instruction that leaves machine m, conditions c and ip a. *)
Goto(m, c, a) ==
  /\ reg' = m.reg
  /\ mem' = m.mem
  /\ cond' = c
  /\ ip' = a
  /\ UNCHANGED <<status, pop>>

Done(i, m, c) == Goto(m, c, After(i))

Zero(v) == IF v = 0 THEN {"EQ"} ELSE {}

---------------------------------------------------------------------------
(* Moving data.  An opcode the machine does not know is reported and       *)
(* passed over.                                                            *)
Nop(i) ==
  /\ i.op \in {"NOP", "EXT", "FSTUB", "UNKNOWN"}
  /\ Done(i, Machine, cond)

Load(i) ==
  /\ i.op = "LOAD"
  /\ Done(i, WriteOp(Machine, i.a, i.imm, i.w), Zero(i.imm))

Move(i) ==
  LET x == ReadOp(Machine, i.a, i.w) IN
  /\ i.op = "MOVE"
  /\ Done(i, WriteOp(x.m, i.b, x.v, i.w), Zero(x.v))

(* The registers of the mask, D0 first, each written through i.a. *)
Push(i) ==
  LET after[k \in 0 .. 16] ==
        IF k = 0 THEN Machine
        ELSE IF k - 1 \in i.imm
             THEN WriteOp(after[k - 1], i.a, after[k - 1].reg[k - 1], i.w)
             ELSE after[k - 1]
  IN
  /\ i.op = "PUSH"
  /\ Done(i, after[16], {})

(* vm_opcode_pop counts a uint8_t down from 15 while it is >= 0. *)
PopStart(i) ==
  /\ i.op = "POP"
  /\ pop' = 15
  /\ ip' = After(i)
  /\ UNCHANGED <<reg, mem, cond, status>>

(* One turn of that loop.  Shifting an int by 32 or more is undefined; the *)
(* hardware takes the count modulo 32, and N[k] is then outside the        *)
(* register file.                                                          *)
PopStep ==
  LET x == ReadOp(Machine, last.a, last.w)
      m == [x.m EXCEPT !.reg[pop] = x.v]
  IN
  /\ pop # Idle
  /\ pop' = (pop - 1) % 256
  /\ \/ /\ pop % 32 \notin last.imm
        /\ UNCHANGED <<reg, mem, status>>
     \/ /\ pop \in last.imm
        /\ reg' = m.reg
        /\ mem' = m.mem
        /\ UNCHANGED status
     \/ /\ pop > 15 /\ pop % 32 \in last.imm
        /\ status' = "crashed"
        /\ UNCHANGED <<reg, mem>>
  /\ UNCHANGED <<cond, ip, last, steps>>

Inc(i) ==
  LET x == ReadOp(Machine, i.a, i.w)
      v == (x.v + 1) % Word
  IN
  /\ i.op = "INC"
  /\ Done(i, WriteOp(x.m, i.a, v, i.w),
          Zero(v) \cup (IF Low(x.v, i.w) = Low(-1, i.w) THEN {"CB"} ELSE {}))

(* Mutant: the zero flag is taken from the value before the decrement. *)
DecTestsOld(i) ==
  LET x == ReadOp(Machine, i.a, i.w)
      old == Low(x.v, i.w)
  IN
  /\ i.op = "DEC"
  /\ Done(i, WriteOp(x.m, i.a, (old - 1) % Word, i.w),
          Zero(old) \cup (IF old = 0 THEN {"CB"} ELSE {}))

Dec(i) ==
  LET x == ReadOp(Machine, i.a, i.w)
      old == Low(x.v, i.w)
      v == (old - 1) % Word
  IN
  /\ i.op = "DEC"
  /\ Done(i, WriteOp(x.m, i.a, v, i.w),
          Zero(v) \cup (IF old = 0 THEN {"CB"} ELSE {}))

Clr(i) ==
  /\ i.op = "CLR"
  /\ Done(i, WriteOp(Machine, i.a, 0, i.w), {"EQ"})

---------------------------------------------------------------------------
(* Arithmetic, bitwise operations and shifts. *)

(* ADDI SUBI MULI ANDI ORI XORI LSLI LSRI: the operand is read, combined   *)
(* with the immediate and written, its addressing mode applied each time.  *)
AluImm(i) ==
  LET x == ReadOp(Machine, i.a, i.w)
      v == Alu(i.op, x.v, i.imm)
  IN
  /\ i.op \in {"ADDI", "SUBI", "MULI", "ANDI", "ORI", "XORI", "LSLI", "LSRI"}
  /\ Done(i, WriteOp(x.m, i.a, v, i.w), Zero(v))

(* ADD SUB MUL AND OR XOR LSL LSR: a OP b, into b. *)
AluReg(i) ==
  /\ i.op \in {"ADD", "SUB", "MUL", "AND", "OR", "XOR", "LSL", "LSR"}
  /\ \E z \in ReadBoth(Machine, i.a, i.b, i.w) :
       LET v == Alu(i.op, z.x, z.y)
       IN  Done(i, WriteOp(z.m, i.b, v, i.w), Zero(v))

RotateImm(i) ==
  LET x == ReadOp(Machine, i.a, i.w)
      v == Rotate(i.op, Low(x.v, i.w), i.imm, i.w)
  IN
  /\ i.op \in {"ROLI", "RORI"}
  /\ Done(i, WriteOp(x.m, i.a, v, i.w), Zero(v))

RotateReg(i) ==
  LET n == ReadOp(Machine, i.a, 1)
      x == ReadOp(n.m, i.b, i.w)
      v == Rotate(i.op, Low(x.v, i.w), n.v, i.w)
  IN
  /\ i.op \in {"ROL", "ROR"}
  /\ Done(i, WriteOp(x.m, i.b, v, i.w), Zero(v))

(* C's logical not; conditions are set when the result is 0, else kept. *)
Not(i) ==
  LET x == ReadOp(Machine, i.a, i.w)
      v == IF x.v = 0 THEN 1 ELSE 0
  IN
  /\ i.op = "NOT"
  /\ Done(i, WriteOp(x.m, i.a, v, i.w), IF v = 0 THEN {"EQ"} ELSE cond)

(* Dividing by zero kills the host process. *)
DivideByZero(i) ==
  LET x == ReadOp(Machine, i.a, i.w)
      y == ReadOp(x.m, i.b, i.w)
  IN
  /\ \/ i.op = "DIVI" /\ i.imm = 0
     \/ i.op = "DIV" /\ y.v = 0
  /\ status' = "crashed"
  /\ UNCHANGED <<reg, mem, cond, ip, pop>>

DivImm(i) ==
  LET x == ReadOp(Machine, i.a, i.w)
      m == WriteOp(x.m, i.a, x.v \div i.imm, i.w)
  IN
  /\ i.op = "DIVI" /\ i.imm # 0
  /\ Done(i, WriteOp(m, i.b, x.v % i.imm, i.w), {})

DivReg(i) ==
  LET x == ReadOp(Machine, i.a, i.w)
      y == ReadOp(x.m, i.b, i.w)
      m == WriteOp(y.m, i.b, x.v \div y.v, i.w)
  IN
  /\ i.op = "DIV" /\ y.v # 0
  /\ Done(i, WriteOp(m, i.c, x.v % y.v, i.w), {})

---------------------------------------------------------------------------
(* Tests. *)

(* TSTI leaves the conditions alone when the bit is set. *)
TestImm(i) ==
  LET x == ReadOp(Machine, i.a, i.w) IN
  /\ i.op = "TSTI"
  /\ Done(i, x.m, IF BitAnd(x.v, BitMask(i.imm)) = 0 THEN {"EQ"} ELSE cond)

TestReg(i) ==
  LET n == ReadOp(Machine, i.a, 1)
      x == ReadOp(n.m, i.b, i.w)
  IN
  /\ i.op = "TST"
  /\ Done(i, x.m, Zero(BitAnd(x.v, BitMask(n.v))))

(* Mutant: the operands of a comparison are exchanged. *)
OrderReversed(y, x) == CASE y = x -> {"EQ"} [] x > y -> {"GT"} [] x < y -> {"LT"}

Order(y, x) == CASE y = x -> {"EQ"} [] y > x -> {"GT"} [] y < x -> {"LT"}

CompareImm(i) ==
  LET x == ReadOp(Machine, i.a, i.w) IN
  /\ i.op = "CMPI"
  /\ Done(i, x.m, Order(i.imm, x.v))

CompareReg(i) ==
  LET x == ReadOp(Machine, i.a, i.w)
      y == ReadOp(x.m, i.b, i.w)
  IN
  /\ i.op = "CMP"
  /\ Done(i, y.m, Order(y.v, x.v))

---------------------------------------------------------------------------
(* Floating point: a load, a cast, and stubs (Nop). *)
FLoad(i) ==
  /\ i.op = "FLOAD"
  /\ Done(i, IF i.w = 1 THEN Machine ELSE WriteOp(Machine, i.a, i.imm, i.w), cond)

(* The cast goes back into the first operand, and only for .l and .x. *)
FCast(i) ==
  LET x == ReadOp(Machine, i.a, i.w) IN
  /\ i.op = "FCAST"
  /\ \/ i.w \in {1, 2} /\ Done(i, x.m, cond)
     \/ i.w \in {4, 8} /\ \E f \in FloatValues : Done(i, WriteOp(x.m, i.a, f, i.w), cond)

---------------------------------------------------------------------------
(* Branches, calls and returns. *)
Taken(op) ==
  \/ op \in {"BRA", "JMP"}
  \/ op = "BEQ" /\ "EQ" \in cond
  \/ op = "BNE" /\ "EQ" \notin cond
  \/ op = "BCB" /\ "CB" \in cond
  \/ op = "BLT" /\ "LT" \in cond
  \/ op = "BGT" /\ "GT" \in cond
  \/ op = "BLE" /\ cond \cap {"EQ", "LT"} # {}
  \/ op = "BGE" /\ cond \cap {"EQ", "GT"} # {}

Branch(i) ==
  /\ i.op \in BranchOps
  /\ Goto(Machine, cond, IF Taken(i.op) THEN Land(After(i), i.imm) ELSE After(i))

JumpImm(i) ==
  /\ i.op = "JMPI"
  /\ Goto(Machine, cond, i.imm)

JumpReg(i) ==
  LET x == ReadOp(Machine, i.a, 4) IN
  /\ i.op = "JMPM"
  /\ Goto(x.m, cond, x.v % U32)

(* Mutant: the return address is taken before the operand is read. *)
CallEarly(i) ==
  LET pushed == WriteOp(Machine, PushSP, (ip + 1) % U32, 4) IN
  \/ i.op = "CALLI" /\ Goto(pushed, cond, i.imm)
  \/ i.op = "CALL" /\ Goto(pushed, cond, Land(After(i), i.imm))
  \/ /\ i.op = "CALLM"
     /\ LET x == ReadOp(pushed, i.a, 4) IN Goto(x.m, cond, x.v % U32)

Call(i) ==
  LET pushed == WriteOp(Machine, PushSP, After(i), 4) IN
  \/ /\ i.op = "CALLI"
     /\ Goto(pushed, cond, i.imm)
  \/ /\ i.op = "CALL"
     /\ Goto(pushed, cond, Land(After(i), i.imm))
  \/ /\ i.op = "CALLM"
     /\ LET x == ReadOp(pushed, i.a, 4) IN Goto(x.m, cond, x.v % U32)

Ret(i) ==
  LET x == ReadOp(Machine, PopSP, 4) IN
  /\ i.op = "RET"
  /\ Goto(x.m, cond, x.v % U32)

---------------------------------------------------------------------------
(* Memory management, addresses, system calls. *)

(* pmalloc answers with an address of the host, not of the VM. *)
Alloc(i) ==
  /\ i.op = "ALLOC"
  /\ \E p \in HostPointers : Done(i, WriteOp(Machine, i.a, p, 4), cond)

Free(i) ==
  /\ i.op = "FREE"
  /\ Done(i, ReadOp(Machine, i.a, 4).m, cond)

Refer(i) ==
  /\ i.op = "REFER"
  /\ Done(i, WriteOp(Machine, i.a, ReferTo(After(i), i.imm), 4), cond)

(* The routine takes its argument from the A7 stack. *)
Syscall(i) ==
  /\ i.op = "SYSCALL"
  /\ \/ i.imm \in {0, 2} /\ Done(i, ReadOp(Machine, PopSP, 4).m, cond)
     \/ i.imm = 3 /\ Done(i, ReadOp(Machine, PopSP, 1).m, cond)
     \/ i.imm \notin {0, 2, 3} /\ Done(i, Machine, cond)

Stop(i) ==
  /\ i.op = "STOP"
  /\ status' = "stopped"
  /\ ip' = After(i)
  /\ UNCHANGED <<reg, mem, cond, pop>>

---------------------------------------------------------------------------
(* vm_init, and the start address of vm_run. *)
Init ==
  /\ reg \in {[r \in 0 .. 15 |-> IF r = SP THEN MemSize ELSE f[r]] : f \in InitRegs}
  /\ mem \in InitMems
  /\ cond = {}
  /\ ip = 0
  /\ status = "running"
  /\ pop = Idle
  /\ last = [op |-> "NOP"]
  /\ steps = 0

Instruction(i) ==
  \/ Nop(i) \/ Load(i) \/ Move(i) \/ Push(i) \/ PopStart(i)
  \/ Inc(i) \/ Dec(i) \/ Clr(i)
  \/ AluImm(i) \/ AluReg(i) \/ RotateImm(i) \/ RotateReg(i) \/ Not(i)
  \/ DivideByZero(i) \/ DivImm(i) \/ DivReg(i)
  \/ TestImm(i) \/ TestReg(i) \/ CompareImm(i) \/ CompareReg(i)
  \/ FLoad(i) \/ FCast(i)
  \/ Branch(i) \/ JumpImm(i) \/ JumpReg(i) \/ Call(i) \/ Ret(i)
  \/ Alloc(i) \/ Free(i) \/ Refer(i) \/ Syscall(i) \/ Stop(i)

(* One turn of vm_run's loop. *)
Execute ==
  /\ status = "running"
  /\ pop = Idle
  /\ steps < MaxSteps
  /\ ip \in DOMAIN Code
  /\ steps' = steps + 1
  /\ \E i \in Code[ip] : last' = i /\ Instruction(i)

Next == Execute \/ (status = "running" /\ PopStep)

Spec == Init /\ [][Next]_vars

(* vm_run is a loop of its own: nothing keeps it from its next turn. *)
FairSpec == Spec /\ WF_vars(Next)

---------------------------------------------------------------------------
(* Types: every byte, register and address stays within its width. *)
TypeOK ==
  /\ reg \in [0 .. 15 -> Values]
  /\ mem \in Memories
  /\ cond \subseteq {"EQ", "CB", "GT", "LT"}
  /\ ip \in 0 .. U32 - 1
  /\ status \in {"running", "stopped", "crashed"}
  /\ pop \in -1 .. 255
  /\ steps \in 0 .. MaxSteps

(* The cells of memory operand o of width w in machine m. *)
Cells(m, o, w) ==
  LET base == (IF o.mode = "predec" THEN m.reg[o.r] - w ELSE m.reg[o.r]) % U32
  IN  IF o.mode \in {"direct", "unknown"} THEN {} ELSE base .. base + w - 1

InPlace == {"INC", "DEC", "CLR", "NOT", "ADDI", "SUBI", "MULI", "ANDI", "ORI",
            "XORI", "LSLI", "LSRI", "ROLI", "RORI", "LOAD", "FLOAD", "FCAST",
            "ALLOC", "REFER"}

(* How far from where its register points PUSH writes. *)
Strides(i) ==
  LET n == Cardinality(i.imm)
  IN  CASE i.a.mode \in {"direct", "unknown"} -> {}
        [] i.a.mode = "ref"     -> {0}
        [] i.a.mode = "predec"  -> {-(k * i.w) : k \in 1 .. n}
        [] i.a.mode = "postinc" -> {k * i.w : k \in 0 .. n - 1}

(* The cells instruction i may write: those of its destination operands,   *)
(* of the stack slot of a call, and of each register of PUSH.              *)
Footprint(i) ==
  LET width == IF i.op \in {"ALLOC", "REFER"} THEN 4 ELSE i.w
      width1 == IF i.op \in {"ROL", "ROR", "TST"} THEN 1 ELSE i.w
  IN
  CASE i.op \in {"CALL", "CALLI", "CALLM"} -> Cells(Machine, PushSP, 4)
    [] i.op \in InPlace -> Cells(Machine, i.a, width)
    [] i.op = "PUSH" ->
         {((reg[i.a.r] + d) % U32) + n : d \in Strides(i), n \in 0 .. i.w - 1}
    [] i.op \in RegRegOps \ {"CMP", "TST", "FCAST", "FSTUB"} ->
         Cells(ReadOp(Machine, i.a, width1).m, i.b, i.w)
    [] i.op = "DIVI" -> Cells(Machine, i.a, i.w) \cup Cells(Machine, i.b, i.w)
    [] i.op = "DIV" -> Cells(Machine, i.b, i.w) \cup Cells(Machine, i.c, i.w)
    [] OTHER -> {}

(* The registers instruction i names, and A7 if it works on the stack. *)
Named(i) ==
  (IF i.op \in HaveA THEN {i.a.r} ELSE {})
  \cup (IF i.op \in HaveB THEN {i.b.r} ELSE {})
  \cup (IF i.op = "DIV" THEN {i.c.r} ELSE {})
  \cup (IF i.op = "POP" THEN i.imm ELSE {})
  \cup (IF i.op \in {"CALL", "CALLI", "CALLM", "RET", "SYSCALL"} THEN {SP} ELSE {})

(* The operands instruction i writes, of its own width, and those it reads *)
(* before it writes.                                                       *)
Written(i) ==
  CASE i.op = "DIVI" -> {i.a, i.b}
    [] i.op = "DIV" -> {i.b, i.c}
    [] i.op \in (InPlace \ {"ALLOC", "REFER"}) \cup {"PUSH"} -> {i.a}
    [] i.op \in RegRegOps \ {"CMP", "TST", "FCAST", "FSTUB"} -> {i.b}
    [] OTHER -> {}
ReadFirst(i) ==
  CASE i.op = "DIV" -> {i.a, i.b}
    [] i.op \in (InPlace \ {"LOAD", "CLR", "FLOAD", "ALLOC", "REFER"}) \cup {"DIVI"} -> {i.a}
    [] i.op \in RegRegOps \ {"MOVE", "CMP", "TST", "FCAST", "FSTUB"} -> {i.b}
    [] OTHER -> {}

(* The instructions of which Frame is promised.  A store of one byte       *)
(* writes two (ByteStore), an operand that is read and then written has    *)
(* its increment applied twice, and where a division leaves its quotient   *)
(* may be what the address of its remainder is taken from.                 *)
Tame(i) ==
  /\ \A o \in Written(i) : o.mode # "direct" => i.w # 1
  /\ \A o \in ReadFirst(i) : o.mode \in {"direct", "ref", "unknown"}
  /\ i.op = "DIVI" /\ i.a.mode = "direct" /\ i.a.r = i.b.r => i.b.mode = "direct"
  /\ i.op = "DIV" /\ i.b.mode = "direct" /\ i.b.r = i.c.r => i.c.mode = "direct"

(* An instruction changes no byte of memory but those its operands name,   *)
(* at its width (VM_LAYOUT.md:42-45, 68-71), and no register it does not   *)
(* name.                                                                   *)
Frame ==
  [][/\ \A a \in Addresses : mem'[a] # mem[a] => a \in Footprint(last')
     /\ \A r \in 0 .. 15 : reg'[r] # reg[r] => r \in Named(last')]_vars

(* Arithmetic is done in 64 bits whatever the width, yet for the           *)
(* operations of a ring the low bits come out as if it had been done at    *)
(* the width of the instruction.  A difference is the first operand less   *)
(* the second, as vm.c:568 has it; VM_LAYOUT.md:133 has it the other way   *)
(* round (SubtractsFirst, below).                                          *)
RingOps == {"ADD", "SUB", "MUL", "AND", "OR", "XOR"}
NarrowExact ==
  [][last'.op \in RingOps /\ steps' # steps
       /\ last'.a.mode = "direct" /\ last'.b.mode = "direct" =>
     LET x == reg[last'.a.r]  y == reg[last'.b.r]  w == last'.w
         narrow == CASE last'.op = "ADD" -> Low(x, w) + Low(y, w)
                     [] last'.op = "SUB" -> Low(x, w) - Low(y, w)
                     [] last'.op = "MUL" -> Low(x, w) * Low(y, w)
                     [] last'.op = "AND" -> BitAnd(Low(x, w), Low(y, w))
                     [] last'.op = "OR"  -> BitOr(Low(x, w), Low(y, w))
                     [] last'.op = "XOR" -> BitXor(Low(x, w), Low(y, w))
     IN  Low(reg'[last'.b.r], w) = Low(narrow, w)]_vars

(* After an instruction that sets conditions and leaves its result in a    *)
(* register, BEQ branches exactly when that register is zero.              *)
OneOperand == {"LOAD", "INC", "DEC", "CLR", "ADDI", "SUBI", "MULI", "ANDI",
               "ORI", "XORI", "LSLI", "LSRI", "ROLI", "RORI"}
TwoOperands == {"MOVE", "ADD", "SUB", "MUL", "AND", "OR", "XOR", "LSL", "LSR", "ROL", "ROR"}
ZeroFlag ==
  /\ last.op \in OneOperand /\ last.a.mode = "direct" =>
       ("EQ" \in cond <=> reg[last.a.r] = 0)
  /\ last.op \in TwoOperands /\ last.b.mode = "direct" =>
       ("EQ" \in cond <=> reg[last.b.r] = 0)

(* A branch right after a comparison of two registers goes the way the     *)
(* branch's name says of the second and the first.  The name is that of    *)
(* opcodes.h and of the handler.  The tables of VM_LAYOUT.md say otherwise *)
(* of two: 101, which both call BGT, is "less than or equal" there, and    *)
(* 110, BLE, is "greater than" (lines 93-94, 273-274).  A program written  *)
(* by those words takes these two branches the wrong way.                  *)
Holds(op, y, x) ==
  CASE op = "BEQ" -> y = x  [] op = "BNE" -> y # x
    [] op = "BLT" -> y < x  [] op = "BLE" -> y <= x
    [] op = "BGT" -> y > x  [] op = "BGE" -> y >= x
Decides(test, branch) ==
  /\ test.op = "CMP" /\ test.a.mode = "direct" /\ test.b.mode = "direct"
  /\ branch.op \in {"BEQ", "BNE", "BLT", "BLE", "BGT", "BGE"}
CompareThenBranch ==
  [][Decides(last, last') =>
       ip' = IF Holds(last'.op, reg[last.b.r], reg[last.a.r])
             THEN Land(After(last'), last'.imm)
             ELSE After(last')]_vars

---------------------------------------------------------------------------
(* What the documents say and vm.c does not do.                            *)

(* VM_LAYOUT.md:42, "00 - .b 8 bits": a store of .b changes one byte.      *)
ByteStore ==
  [][last'.op \in {"LOAD", "MOVE"} /\ last'.w = 1 =>
       Cardinality({a \in Addresses : mem'[a] # mem[a]}) <= 1]_vars

(* VM_LAYOUT.md:133, "Subtract register or memory from register or         *)
(* memory": SUB takes its first operand from its second, where the result  *)
(* goes, as SUBI and CMP do.                                               *)
SubtractsFirst ==
  [][last'.op = "SUB" /\ steps' # steps
       /\ last'.a.mode = "direct" /\ last'.b.mode = "direct" =>
     Low(reg'[last'.b.r], last'.w) = Low(reg[last'.b.r] - reg[last'.a.r], last'.w)]_vars

(* VM_LAYOUT.md:118, "POP registers from memory": the pop comes to an end. *)
PopCompletes == pop # Idle ~> pop = Idle

---------------------------------------------------------------------------
(* The stack that A7 and memory implement. *)
Room == (MemSize \div 4) - 1
Within == \E k \in 0 .. Room : reg[SP] = MemSize - 4 * k
Stacked ==
  IF Within
  THEN [k \in 1 .. (MemSize - reg[SP]) \div 4 |-> ReadMem(mem, MemSize - 4 * k, 4)]
  ELSE <<>>
Did ==
  CASE last.op \in {"CALL", "CALLI", "CALLM"} -> "call"
    [] last.op = "RET" -> "ret"
    [] last.op = "PUSH" -> "push"
    [] last.op = "MOVE" /\ last.a = PopSP -> "pop"
    [] last.op = "SYSCALL" /\ last.imm \in {0, 2} -> "drop"
    [] OTHER -> "other"

Abstract == INSTANCE CallStack WITH
  Size <- U32,
  Lengths <- {2, 3, 4, 5},
  pc <- ip,
  d <- reg[0],
  stack <- Stacked,
  sound <- Within,
  did <- Did

(* Instructions that have nothing to do with the stack: they name A7       *)
(* nowhere and leave what they compute in registers.                       *)
Apart(i) ==
  /\ i.op \notin {"CALL", "CALLI", "CALLM", "RET", "PUSH", "POP", "SYSCALL"}
  /\ SP \notin Named(i)
  /\ Tame(i)
  /\ \A o \in Written(i) : o.mode = "direct"
  /\ i.op \in {"ALLOC", "REFER"} => i.a.mode = "direct"

(* Those, and the instructions that use it a word at a time. *)
OnStack(i) ==
  \/ Apart(i)
  \/ i.op \in {"CALL", "CALLI", "RET"}
  \/ i.op = "CALLM" /\ i.a.mode = "direct"
  \/ i.op = "PUSH" /\ i.w = 4 /\ i.imm = {0} /\ i.a = PushSP
  \/ i.op = "MOVE" /\ i.w = 4 /\ i.a = PopSP /\ i.b = [mode |-> "direct", r |-> 0]
  \/ i.op = "SYSCALL" /\ i.imm # 3

(* For a program that touches the stack by CALL, RET, PUSH.L D0 -(A7),     *)
(* MOVE.L (A7)+ D0 and system calls, the bytes above A7 are the stack of   *)
(* CallStack: every RET returns to the instruction after its CALL.         *)
StackSpec == Abstract!Spec

=============================================================================
