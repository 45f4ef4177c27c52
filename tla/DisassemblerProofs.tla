------------------------- MODULE DisassemblerProofs -------------------------
(***************************************************************************)
(* Theorems about the instruction format and the disassembler: for every   *)
(* program an author can write, the machine comes to the opcodes the       *)
(* assembler wrote, and the listing of regular statements is the program.  *)
(***************************************************************************)
EXTENDS Disassembler, ContainerProofs

(* The sums over the first so many places. *)
LEMMA SumSteps ==
  ASSUME NEW f, NEW n \in Nat, \A k \in 1 .. n : f[k] \in Nat
  PROVE  /\ SumFunctionOnSet(f, 1 .. 0) = 0
         /\ \A i \in 0 .. n : SumFunctionOnSet(f, 1 .. i) \in Nat
         /\ \A i \in 1 .. n : SumFunctionOnSet(f, 1 .. i) = SumFunctionOnSet(f, 1 .. i - 1) + f[i]
         /\ \A i, j \in 0 .. n : i <= j => SumFunctionOnSet(f, 1 .. i) <= SumFunctionOnSet(f, 1 .. j)
<1> DEFINE Sum(T) == SumFunctionOnSet(f, T)
<1>1. Sum(1 .. 0) = 0
  <2>1. 1 .. 0 = {} /\ IsFiniteSet(1 .. 0) /\ Weighs(f, 1 .. 0)
    BY FS_EmptySet DEF Weighs
  <2> QED BY <2>1, SumUnfold
<1>2. ASSUME NEW i \in 0 .. n, NEW j \in 0 .. n, i <= j
      PROVE  Sum(1 .. i) \in Nat /\ Sum(1 .. i) <= Sum(1 .. j)
  <2>1. IsFiniteSet(1 .. j) /\ 1 .. i \in SUBSET (1 .. j) /\ \A a \in 1 .. j : f[a] \in Nat
    BY <1>2, FS_Interval
  <2> QED BY <2>1, SumPart
<1>3. ASSUME NEW i \in 1 .. n PROVE Sum(1 .. i) = Sum(1 .. i - 1) + f[i]
  <2> DEFINE T == 1 .. i - 1
  <2>1. IsFiniteSet(T)
    BY FS_Interval
  <2>2. i \notin T /\ T \cup {i} = 1 .. i
    OBVIOUS
  <2>3. Weighs(f, 1 .. i)
    BY DEF Weighs
  <2> HIDE DEF T
  <2>4. Sum(T \cup {i}) = f[i] + Sum(T) /\ Sum(T) \in Int /\ f[i] \in Int
    BY <2>1, <2>2, <2>3, SumAdd
  <2>5. Sum(1 .. i) = Sum(T \cup {i})
    BY <2>2
  <2> HIDE DEF Sum
  <2>6. Sum(1 .. i) = Sum(T) + f[i]
    BY <2>4, <2>5
  <2> QED BY <2>6 DEF T
<1> HIDE DEF Sum
<1>4. \A i \in 0 .. n : Sum(1 .. i) \in Nat
  BY <1>2
<1> QED BY <1>1, <1>2, <1>3, <1>4 DEF Sum

(* How long the sequences in q are, and where in their row the i-th begins. *)
Lengths(q) == [k \in DOMAIN q |-> Len(q[k])]
Before(q, i) == SumFunctionOnSet(Lengths(q), 1 .. i - 1)

(* r is the sequences in q up to the i-th, one behind the other. *)
InRow(r, q, S, i) ==
  /\ r \in Seq(S)
  /\ Len(r) = Before(q, i + 1)
  /\ \A j \in 1 .. i : \A k \in 1 .. Len(q[j]) :
       Before(q, j) + k \in 1 .. Len(r) /\ r[Before(q, j) + k] = q[j][k]

(* Where the sequences in a row begin. *)
LEMMA BeforeIs ==
  ASSUME NEW S, NEW q \in Seq(Seq(S))
  PROVE  /\ Before(q, 1) = 0
         /\ \A i \in 1 .. Len(q) + 1 : Before(q, i) \in Nat
         /\ \A i \in 1 .. Len(q) : Before(q, i + 1) = Before(q, i) + Len(q[i])
         /\ \A i, j \in 1 .. Len(q) + 1 : i <= j => Before(q, i) <= Before(q, j)
<1> DEFINE n == Len(q)
           f == Lengths(q)
<1>1. n \in Nat /\ \A k \in 1 .. n : f[k] = Len(q[k]) /\ f[k] \in Nat
  BY DEF Lengths
<1> HIDE DEF f, n
<1>2. /\ SumFunctionOnSet(f, 1 .. 0) = 0
      /\ \A i \in 0 .. n : SumFunctionOnSet(f, 1 .. i) \in Nat
      /\ \A i \in 1 .. n : SumFunctionOnSet(f, 1 .. i) = SumFunctionOnSet(f, 1 .. i - 1) + f[i]
      /\ \A i, j \in 0 .. n : i <= j => SumFunctionOnSet(f, 1 .. i) <= SumFunctionOnSet(f, 1 .. j)
  BY <1>1, SumSteps
<1>3. \A i : Before(q, i) = SumFunctionOnSet(f, 1 .. i - 1)
  BY DEF Before, f
<1>4. Before(q, 1) = 0
  <2>1. 1 - 1 = 0
    OBVIOUS
  <2> QED BY <1>2, <1>3, <2>1
<1>5. ASSUME NEW i \in 1 .. n + 1 PROVE Before(q, i) \in Nat
  <2>1. i - 1 \in 0 .. n
    BY <1>1
  <2> QED BY <1>2, <1>3, <2>1
<1>6. ASSUME NEW i \in 1 .. n PROVE Before(q, i + 1) = Before(q, i) + Len(q[i])
  <2>1. (i + 1) - 1 = i
    BY <1>1
  <2>2. Before(q, i + 1) = SumFunctionOnSet(f, 1 .. i)
    BY <1>3, <2>1
  <2> QED BY <1>1, <1>2, <1>3, <2>2
<1>7. ASSUME NEW i \in 1 .. n + 1, NEW j \in 1 .. n + 1, i <= j PROVE Before(q, i) <= Before(q, j)
  <2>1. i - 1 \in 0 .. n /\ j - 1 \in 0 .. n /\ i - 1 <= j - 1
    BY <1>1, <1>7
  <2> QED BY <1>2, <1>3, <2>1
<1> QED BY <1>4, <1>5, <1>6, <1>7 DEF n

(* One more sequence at the end of a row. *)
LEMMA RowGrows ==
  ASSUME NEW S, NEW q \in Seq(Seq(S)), NEW i \in 1 .. Len(q), NEW r, InRow(r, q, S, i - 1)
  PROVE  InRow(r \o q[i], q, S, i)
<1> DEFINE x == q[i]
           s == r \o x
<1>1. r \in Seq(S) /\ x \in Seq(S) /\ i \in Nat /\ Len(q) \in Nat
  BY DEF InRow
<1>2. /\ s \in Seq(S) /\ Len(s) = Len(r) + Len(x)
      /\ \A k \in 1 .. Len(r) : s[k] = r[k]
      /\ \A k \in 1 .. Len(x) : s[Len(r) + k] = x[k]
      /\ Len(r) \in Nat /\ Len(x) \in Nat
  BY <1>1
<1>3. Len(r) = Before(q, i)
  <2>1. (i - 1) + 1 = i
    BY <1>1
  <2> QED BY <2>1 DEF InRow
<1>4. Before(q, i + 1) = Before(q, i) + Len(x)
  BY BeforeIs
<1> HIDE DEF s
<1>5. Len(s) = Before(q, i + 1)
  BY <1>2, <1>3, <1>4
<1>6. ASSUME NEW j \in 1 .. i, NEW k \in 1 .. Len(q[j])
      PROVE  Before(q, j) + k \in 1 .. Len(s) /\ s[Before(q, j) + k] = q[j][k]
  <2>1. CASE j = i
    <3>1. k \in 1 .. Len(x) /\ Len(r) + k \in 1 .. Len(s)
      BY <1>2, <2>1
    <3> QED BY <1>2, <1>3, <2>1, <3>1
  <2>2. CASE j # i
    <3>1. j \in 1 .. i - 1
      BY <1>1, <2>2
    <3>2. Before(q, j) + k \in 1 .. Len(r) /\ r[Before(q, j) + k] = q[j][k]
      BY <3>1 DEF InRow
    <3> DEFINE y == Before(q, j) + k
    <3>3. y \in 1 .. Len(r) /\ r[y] = q[j][k]
      BY <3>2
    <3> HIDE DEF y
    <3>4. y \in 1 .. Len(s) /\ s[y] = r[y]
      BY <1>2, <3>3
    <3> QED BY <3>3, <3>4 DEF y
  <2> QED BY <2>1, <2>2
<1> QED BY <1>2, <1>5, <1>6 DEF InRow, s

(* FlattenSeq puts sequences in a row. *)
LEMMA FlattenIs ==
  ASSUME NEW S, NEW q \in Seq(Seq(S))
  PROVE  InRow(FlattenSeq(q), q, S, Len(q))
<1> DEFINE n == Len(q)
           Eq(h) == h = [i \in 1 .. n |-> IF i = 1 THEN q[i] ELSE h[i - 1] \o q[i]]
<1>1. n \in Nat /\ \A i \in 1 .. n : q[i] \in Seq(S)
  OBVIOUS
<1>2. Before(q, 1) = 0
  BY BeforeIs
<1>3. CASE n = 0
  <2>1. FlattenSeq(q) = q /\ q = <<>>
    BY <1>3 DEF FlattenSeq
  <2>2. q \in Seq(S) /\ Len(q) = 0 /\ 0 + 1 = 1 /\ 1 .. 0 = {}
    BY <2>1
  <2> QED BY <1>2, <2>1, <2>2 DEF InRow
<1>4. CASE n # 0
  <2> DEFINE f == CHOOSE h : Eq(h)
             step == [k \in 1 .. n |-> [r \in Seq(S) |-> r \o q[k]]]
  <2>1. FlattenSeq(q) = f[n]
    BY <1>4 DEF FlattenSeq
  <2>2. PICK g : Maps(g, 0 .. n, Seq(S)) /\ Unrolls(g, n, <<>>, step)
    <3>1. <<>> \in Seq(S)
      OBVIOUS
    <3>2. ASSUME NEW k \in 1 .. n PROVE Maps(step[k], Seq(S), Seq(S))
      <4>1. \A r \in Seq(S) : r \o q[k] \in Seq(S)
        BY <1>1
      <4> QED BY <4>1 DEF Maps
    <3> HIDE DEF step, n
    <3> QED BY <1>1, <3>1, <3>2, RecursionExists
  <2> DEFINE h == [i \in 1 .. n |-> g[i]]
  <2>3. Eq(h)
    <3>1. ASSUME NEW i \in 1 .. n PROVE h[i] = IF i = 1 THEN q[i] ELSE h[i - 1] \o q[i]
      <4>1. i \in 0 .. n /\ i # 0 /\ i - 1 \in 0 .. n
        BY <1>1
      <4>2. g[i] = step[i][g[i - 1]] /\ g[i - 1] \in Seq(S)
        BY <2>2, <4>1 DEF Unrolls, Maps
      <4>3. g[i] = g[i - 1] \o q[i]
        BY <4>2
      <4>4. CASE i = 1
        <5>1. g[0] = <<>>
          BY <1>1, <2>2 DEF Unrolls
        <5>2. g[i] = <<>> \o q[i]
          <6>1. i - 1 = 0
            BY <4>4
          <6> QED BY ONLY <4>3, <5>1, <6>1
        <5>3. q[i] \in Seq(S)
          BY <1>1
        <5>4. g[i] = q[i]
          BY <5>2, <5>3, ConcatEmptySeq
        <5> QED BY <4>4, <5>4
      <4>5. CASE i # 1
        <5>1. i - 1 \in 1 .. n
          BY <1>1, <4>5
        <5> QED BY <4>3, <4>5, <5>1
      <4> QED BY <4>4, <4>5
    <3>2. h = [i \in 1 .. n |-> h[i]]
      OBVIOUS
    <3> HIDE DEF h, n
    <3> QED BY <3>1, <3>2
  <2>4. Eq(f)
    <3> HIDE DEF Eq, h
    <3> QED BY <2>3
  <2> HIDE DEF f, h, step
  <2>5. \A i \in 1 .. n : f[i] = IF i = 1 THEN q[i] ELSE f[i - 1] \o q[i]
    <3> HIDE DEF n
    <3> QED BY <2>4
  <2> HIDE DEF Eq
  <2> DEFINE Bad == {i \in 1 .. n : ~InRow(f[i], q, S, i)}
  <2>6. ASSUME Bad # {} PROVE FALSE
    <3>1. PICK i \in Bad : \A k \in Bad : i <= k
      <4>1. Bad \in SUBSET Nat
        BY <1>1
      <4> HIDE DEF Bad
      <4> QED BY <2>6, <4>1, LeastOf
    <3>2. i \in 1 .. n /\ ~InRow(f[i], q, S, i) /\ i \in Nat
      BY <3>1
    <3>3. InRow(<<>>, q, S, 0)
      <4>1. <<>> \in Seq(S) /\ Len(<<>>) = 0 /\ 0 + 1 = 1 /\ 1 .. 0 = {}
        OBVIOUS
      <4> QED BY <1>2, <4>1 DEF InRow
    <3>4. CASE i = 1
      <4>1. <<>> \o q[i] = q[i] /\ i - 1 = 0
        BY <1>1, <3>2, <3>4
      <4>2. InRow(<<>> \o q[i], q, S, i)
        BY <3>2, <3>3, <4>1, RowGrows
      <4> QED BY <2>5, <3>2, <3>4, <4>1, <4>2
    <3>5. CASE i # 1
      <4>1. i - 1 \in 1 .. n /\ i - 1 \notin Bad
        BY <1>1, <3>1, <3>2, <3>5
      <4>2. InRow(f[i - 1], q, S, i - 1)
        BY <4>1
      <4>3. InRow(f[i - 1] \o q[i], q, S, i)
        BY <3>2, <4>2, RowGrows
      <4> QED BY <2>5, <3>2, <3>5, <4>3
    <3> QED BY <3>4, <3>5
  <2>7. n \in 1 .. n
    BY <1>1, <1>4
  <2> QED BY <2>1, <2>6, <2>7
<1> QED BY <1>3, <1>4

---------------------------------------------------------------------------
(* How an opcode comes by its number. *)
IsWide(op, n) == \E i \in 1 .. 53 : op = Wide[i] /\ n = 4 * (i - 1)
IsNarrow(op, n) == \E i \in 1 .. 19 : op = Narrow[i] /\ n = 231 + i

(* The numbers of opcodes.h. *)
LEMMA NumberedIs ==
  ASSUME NEW n \in Numbered
  PROVE  \/ IsWide(n[1], n[2])
         \/ IsNarrow(n[1], n[2])
         \/ n[1] = "stop" /\ n[2] = 253
         \/ n[1] = "ext" /\ n[2] = 255
<1>1. DOMAIN Wide = 1 .. 53
  BY DEF Wide
<1>2. DOMAIN Narrow = 1 .. 19
  BY DEF Narrow
<1>3. CASE n \in {<<Wide[i], 4 * (i - 1)>> : i \in DOMAIN Wide}
  BY <1>1, <1>3 DEF IsWide
<1>4. CASE n \in {<<Narrow[i], BRA + i - 1>> : i \in DOMAIN Narrow}
  <2>1. PICK i \in 1 .. 19 : n = <<Narrow[i], BRA + i - 1>>
    BY <1>2, <1>4
  <2>2. BRA + i - 1 = 231 + i
    BY DEF BRA
  <2> QED BY <2>1, <2>2 DEF IsNarrow
<1>5. CASE n \in {<<"stop", 253>>, <<"ext", 255>>}
  BY <1>5
<1> QED BY <1>3, <1>4, <1>5 DEF Numbered

(* No two opcodes have a number in common. *)
LEMMA NumbersApart ==
  ASSUME NEW m \in Numbered, NEW n \in Numbered, m[2] = n[2]
  PROVE  m[1] = n[1]
<1> DEFINE Kind(k, x) ==
      \/ k = 1 /\ IsWide(x[1], x[2])
      \/ k = 2 /\ IsNarrow(x[1], x[2])
      \/ k = 3 /\ x[1] = "stop" /\ x[2] = 253
      \/ k = 4 /\ x[1] = "ext" /\ x[2] = 255
<1>1. PICK j \in 1 .. 4 : Kind(j, m)
  BY NumberedIs
<1>2. PICK k \in 1 .. 4 : Kind(k, n)
  BY NumberedIs
<1>3. \A x : /\ Kind(1, x) => x[2] \in 0 .. 208
             /\ Kind(2, x) => x[2] \in 232 .. 250
             /\ Kind(3, x) => x[2] = 253
             /\ Kind(4, x) => x[2] = 255
  BY DEF IsWide, IsNarrow
<1>4. j = k
  <2> HIDE DEF Kind
  <2>1. j \in {1, 2, 3, 4} /\ k \in {1, 2, 3, 4}
    OBVIOUS
  <2> QED BY <1>1, <1>2, <1>3, <2>1
<1>5. CASE j = 1
  <2>1. IsWide(m[1], m[2]) /\ IsWide(n[1], n[2])
    BY <1>1, <1>2, <1>4, <1>5
  <2>2. PICK a \in 1 .. 53 : m[1] = Wide[a] /\ m[2] = 4 * (a - 1)
    BY <2>1 DEF IsWide
  <2>3. PICK b \in 1 .. 53 : n[1] = Wide[b] /\ n[2] = 4 * (b - 1)
    BY <2>1 DEF IsWide
  <2>4. a = b
    <3>1. a \in Int /\ b \in Int
      OBVIOUS
    <3>2. 4 * (a - 1) = 4 * (b - 1)
      BY <2>2, <2>3
    <3> QED BY ONLY <3>1, <3>2
  <2> QED BY <2>2, <2>3, <2>4
<1>6. CASE j = 2
  <2>1. IsNarrow(m[1], m[2]) /\ IsNarrow(n[1], n[2])
    BY <1>1, <1>2, <1>4, <1>6
  <2>2. PICK a \in 1 .. 19 : m[1] = Narrow[a] /\ m[2] = 231 + a
    BY <2>1 DEF IsNarrow
  <2>3. PICK b \in 1 .. 19 : n[1] = Narrow[b] /\ n[2] = 231 + b
    BY <2>1 DEF IsNarrow
  <2>4. a = b
    <3>1. a \in Int /\ b \in Int
      OBVIOUS
    <3>2. 231 + a = 231 + b
      BY <2>2, <2>3
    <3> QED BY ONLY <3>1, <3>2
  <2> QED BY <2>2, <2>3, <2>4
<1>7. CASE j \notin {1, 2}
  BY <1>1, <1>2, <1>4, <1>7
<1> QED BY <1>5, <1>6, <1>7

(* The table of numbers holds what the list of numbers says. *)
LEMMA NumberIs ==
  ASSUME NEW op \in Mnemonics
  PROVE  <<op, Number[op]>> \in Numbered
<1>1. PICK n \in Numbered : n[1] = op
  BY DEF Mnemonics
<1> DEFINE c == CHOOSE x \in Numbered : x[1] = op
<1>2. c \in Numbered /\ c[1] = op
  BY <1>1
<1>3. Number[op] = c[2]
  BY DEF Number
<1> HIDE DEF c
<1>4. \A x \in Numbered : x = <<x[1], x[2]>>
  BY DEF Numbered
<1> QED BY <1>2, <1>3, <1>4

(* A mnemonic is told by its number. *)
LEMMA NumberTells ==
  ASSUME NEW op \in Mnemonics, NEW other \in Mnemonics, Number[op] = Number[other]
  PROVE  op = other
<1> DEFINE m == <<op, Number[op]>>
           n == <<other, Number[other]>>
<1>1. m \in Numbered /\ n \in Numbered
  BY NumberIs
<1>2. m[2] = n[2] /\ m[1] = op /\ n[1] = other
  OBVIOUS
<1> HIDE DEF m, n
<1>3. m[1] = n[1]
  BY <1>1, <1>2, NumbersApart
<1> QED BY <1>2, <1>3

(* Numbers below that of bra leave room for a width, the others do not. *)
LEMMA NumberRoom ==
  ASSUME NEW op \in Mnemonics
  PROVE  /\ Number[op] \in 0 .. 255
         /\ Number[op] < BRA => Number[op] % 4 = 0
         /\ Number[op] < BRA <=> IsWide(op, Number[op])
<1> DEFINE n == <<op, Number[op]>>
<1>1. n \in Numbered /\ n[1] = op /\ n[2] = Number[op]
  BY NumberIs
<1> HIDE DEF n
<1>2. \/ IsWide(op, Number[op]) \/ IsNarrow(op, Number[op])
      \/ Number[op] = 253 \/ Number[op] = 255
  BY <1>1, NumberedIs
<1>3. ASSUME IsWide(op, Number[op])
      PROVE  Number[op] \in 0 .. 208 /\ Number[op] % 4 = 0
  <2>1. PICK i \in 1 .. 53 : Number[op] = 4 * (i - 1)
    BY <1>3 DEF IsWide
  <2>2. (4 * (i - 1)) % 4 = 0
    OBVIOUS
  <2> QED BY <2>1, <2>2
<1>4. IsNarrow(op, Number[op]) => Number[op] \in 232 .. 250
  BY DEF IsNarrow
<1> QED BY <1>2, <1>3, <1>4 DEF BRA

---------------------------------------------------------------------------
(* The opcodes with an immediate of their width have room for it. *)
LEMMA WidthHasRoom ==
  ASSUME NEW op \in Mnemonics, op \in ImmRegs \cup {"divi"}
  PROVE  Number[op] < BRA /\ op \in Widened
<1>1. op \in {"load", "addi", "subi", "muli", "andi", "ori", "xori", "cmpi",
              "lsli", "lsri", "roli", "rori", "divi"}
  BY DEF ImmRegs, ShiftImms
<1> DEFINE n == <<op, Number[op]>>
<1>2. n \in Numbered /\ n[1] = op /\ n[2] = Number[op]
  BY NumberIs
<1> HIDE DEF n
<1>3. IsWide(op, Number[op]) \/ IsNarrow(op, Number[op]) \/ op \in {"stop", "ext"}
  BY <1>2, NumberedIs
<1>4. \A i \in 1 .. 19 :
        Narrow[i] \in {"bra", "beq", "bne", "bcb", "blt", "bgt", "ble", "bge", "jmpi", "jmpm", "jmp",
                       "calli", "callm", "call", "ret", "alloc", "free", "syscall", "refer"}
  BY DEF Narrow
<1>5. ~IsNarrow(op, Number[op])
  BY <1>1, <1>4 DEF IsNarrow
<1>6. IsWide(op, Number[op])
  BY <1>1, <1>3, <1>5
<1>7. PICK i \in 1 .. 53 : op = Wide[i]
  BY <1>6 DEF IsWide
<1>8. Wide[1] = "nop" /\ Len(Wide) = 53
  BY DEF Wide
<1>9. i \in 2 .. Len(Wide)
  BY <1>1, <1>7, <1>8
<1>10. op \in Widened
  BY <1>7, <1>9 DEF Widened
<1> QED BY <1>6, <1>10, NumberRoom

(* The opcode byte of a statement stands for its opcode, and has its width *)
(* where there is room for one.                                            *)
LEMMA ByteTells ==
  ASSUME NEW op \in Mnemonics, NEW w \in 0 .. 3,
         Number[op] < BRA \/ OpcodeByte(op, w) = Number[op]
  PROVE  /\ Meant(OpcodeByte(op, w)) = {op}
         /\ Number[op] < BRA /\ op \in Widened => OpcodeByte(op, w) < BRA /\ OpcodeByte(op, w) % 4 = w
<1> DEFINE n == Number[op]
           b == OpcodeByte(op, w)
<1>1. n \in Int /\ (n < BRA => n % 4 = 0)
  BY NumberRoom
<1>2. BRA = 232 /\ w \in Int /\ 0 <= w /\ w <= 3
  BY DEF BRA
<1>3. b = IF op \in Widened THEN WithWidth(n, w) ELSE n
  BY DEF OpcodeByte
<1>4. n % 4 = 0 => WithWidth(n, w) = n + w
  <2>1. n % 4 = 0 => WithWidth(n, w) = n - 0 + (IF w \in {0, 0} THEN 0 ELSE w)
    BY DEF WithWidth
  <2> HIDE DEF n
  <2> QED BY <1>1, <1>2, <2>1
<1> HIDE DEF n, b
<1>5. ASSUME n < BRA, op \in Widened PROVE b < BRA /\ b % 4 = w /\ b - (b % 4) = n
  <2>1. b = n + w
    BY <1>1, <1>3, <1>4, <1>5
  <2> QED BY <1>1, <1>2, <1>5, <2>1
<1>6. Base(b) = n
  <2>1. CASE n < BRA /\ op \in Widened
    BY <1>5, <2>1 DEF Base
  <2>2. CASE n < BRA /\ op \notin Widened
    BY <1>1, <1>2, <1>3, <2>2 DEF Base
  <2>3. CASE ~(n < BRA)
    <3>1. b = n
      BY <2>3 DEF b, n
    <3> QED BY <2>3, <3>1 DEF Base
  <2> QED BY <2>1, <2>2, <2>3
<1>7. Meant(b) = {op}
  <2>1. \A other \in Mnemonics : Number[other] = n => other = op
    BY NumberTells DEF n
  <2> QED BY <1>6, <2>1 DEF Meant, n
<1> QED BY <1>5, <1>7 DEF b, n

---------------------------------------------------------------------------
(* The operands there are. *)
Kinds == {Reg, Mask, Label, Imm(1), Imm(2), Imm(4), Imm(8)}
IsLayout(l) ==
  /\ l \in Seq(Kinds)
  /\ \A j \in DOMAIN l : l[j] = Label => j = 1

(* How many bytes an operand has. *)
LEMMA KindIs ==
  ASSUME NEW k \in Kinds
  PROVE  k[2] \in Nat /\ k[2] # 0 /\ (k = Label => k[2] = 4)
BY DEF Kinds, Reg, Mask, Label, Imm

(* The operands of an opcode without width do not depend on one. *)
LEMMA OperandsAre ==
  ASSUME NEW op, NEW w \in 0 .. 3
  PROVE  /\ IsLayout(Operands(op, w)) /\ IsLayout(<<ByWidth(w), Reg>>)
         /\ op # "divi" => \A v : Operands(op, v) = Operands(op, w)
<1>1. ByWidth(w) \in {Imm(1), Imm(2), Imm(4), Imm(8)}
  BY DEF ByWidth
<1>2. Reg # Label /\ Mask # Label /\ \A b : Imm(b) # Label
  BY DEF Reg, Mask, Label, Imm
<1>3. \A a \in Kinds \ {Label}, b \in Kinds \ {Label} : IsLayout(<<a, b>>)
  BY DEF IsLayout
<1>4. \A a \in Kinds \ {Label}, b \in Kinds \ {Label}, c \in Kinds \ {Label} : IsLayout(<<a, b, c>>)
  BY DEF IsLayout
<1>5. \A b \in Kinds \ {Label} : IsLayout(<<Label, b>>)
  BY DEF IsLayout, Kinds
<1>6. \A a \in Kinds : IsLayout(<<a>>)
  BY DEF IsLayout
<1>7. IsLayout(<<>>)
  BY DEF IsLayout
<1>8. /\ {Reg, Mask, Imm(1), Imm(4), Imm(8), ByWidth(w)} \subseteq Kinds \ {Label}
      /\ Label \in Kinds
  BY <1>1, <1>2 DEF Kinds
<1>9. IsLayout(Operands(op, w))
  BY <1>3, <1>4, <1>5, <1>6, <1>7, <1>8 DEF Operands
<1>10. op # "divi" => \A v : Operands(op, v) = Operands(op, w)
  BY DEF Operands
<1> QED BY <1>3, <1>8, <1>9, <1>10

(* The operands that are written and read. *)
LEMMA LayoutsAre ==
  ASSUME NEW op, NEW w \in 0 .. 3
  PROVE  /\ IsLayout(Written(op, w)) /\ IsLayout(Executed(op, w))
         /\ IsLayout(FirstPass(op, w)) /\ IsLayout(SecondPass(op, w))
<1>1. IsLayout(Operands(op, w)) /\ IsLayout(<<ByWidth(w), Reg>>)
  BY OperandsAre
<1>2. IsLayout(<<Label>>) /\ IsLayout(<<>>)
  BY DEF IsLayout, Kinds
<1>3. \A a \in {1, 8} : IsLayout(<<Imm(a), Reg>>)
  <2>1. \A a \in {1, 8} : Imm(a) \in Kinds /\ Reg \in Kinds
    BY DEF Kinds
  <2>2. Reg # Label /\ \A a : Imm(a) # Label
    BY DEF Reg, Label, Imm
  <2> QED BY <2>1, <2>2 DEF IsLayout
<1> QED BY <1>1, <1>2, <1>3 DEF Written, Executed, FirstPass, SecondPass

(* The machine takes the operands of every statement that is not misread   *)
(* for what was written.                                                   *)
LEMMA ReadAsWritten ==
  ASSUME NEW s, s.op \in Mnemonics, s.w \in 0 .. 3, ~Misread(s)
  PROVE  /\ Meant(OpcodeByte(s.op, s.w)) = {s.op}
         /\ Executed(s.op, OpcodeByte(s.op, s.w) % 4) = Written(s.op, s.w)
<1> DEFINE op == s.op
           w == s.w
           b == OpcodeByte(op, w)
<1>1. Number[op] < BRA \/ b = Number[op]
  <2>1. Number[op] \in Int /\ BRA \in Int
    BY NumberRoom DEF BRA
  <2> QED BY <2>1 DEF Misread
<1>2. Meant(b) = {op} /\ (Number[op] < BRA /\ op \in Widened => b % 4 = w)
  BY <1>1, ByteTells
<1>3. op \in ShiftImms => w = 0
  BY DEF Misread
<1> HIDE DEF b, op, w
<1>4. op \in Mnemonics /\ w \in 0 .. 3
  BY DEF op, w
<1>5. CASE op \in ImmRegs
  <2>1. b % 4 = w /\ op # "jmp"
    BY <1>2, <1>4, <1>5, WidthHasRoom DEF ImmRegs, ShiftImms
  <2>2. op \in ShiftImms => ByWidth(w) = Imm(1)
    BY <1>3 DEF ByWidth
  <2> QED BY <1>2, <1>5, <2>1, <2>2 DEF Executed, Written, b, op, w
<1>6. CASE op = "divi"
  <2>1. b % 4 = w
    BY <1>2, <1>4, <1>6, WidthHasRoom
  <2>2. op \notin ImmRegs /\ op \notin ShiftImms /\ op # "jmp"
    BY <1>6 DEF ImmRegs, ShiftImms
  <2> QED BY <1>2, <2>1, <2>2 DEF Executed, Written, b, op, w
<1>7. CASE op \notin ImmRegs \cup {"divi"}
  <2>1. Operands(op, b % 4) = Operands(op, w)
    BY <1>4, <1>7, OperandsAre
  <2>2. op \notin ShiftImms
    BY <1>7 DEF ImmRegs
  <2> QED BY <1>2, <1>7, <2>1, <2>2 DEF Executed, Written, b, op, w
<1> QED BY <1>5, <1>6, <1>7

---------------------------------------------------------------------------
(* Where the operands of a statement lie, after its opcode. *)
LEMMA SizesAre ==
  ASSUME NEW l, IsLayout(l)
  PROVE  /\ SizeTo(l, 0) = 0 /\ Size(l) \in Nat /\ Len(l) \in Nat /\ DOMAIN l = 1 .. Len(l)
         /\ \A j \in 0 .. Len(l) : SizeTo(l, j) \in Nat
         /\ \A j \in 1 .. Len(l) : /\ SizeTo(l, j) = SizeTo(l, j - 1) + l[j][2]
                                   /\ SizeTo(l, j) <= Size(l)
                                   /\ SizeTo(l, j - 1) \in Nat /\ l[j][2] \in Nat
<1> DEFINE n == Len(l)
           f == [k \in DOMAIN l |-> l[k][2]]
<1>1. n \in Nat /\ DOMAIN l = 1 .. n /\ \A k \in 1 .. n : l[k] \in Kinds
  BY DEF IsLayout
<1>2. \A k \in 1 .. n : f[k] = l[k][2] /\ f[k] \in Nat
  BY <1>1, KindIs
<1>3. \A j : SizeTo(l, j) = SumFunctionOnSet(f, 1 .. j)
  BY DEF SizeTo
<1> HIDE DEF f, n
<1>4. /\ SumFunctionOnSet(f, 1 .. 0) = 0
      /\ \A i \in 0 .. n : SumFunctionOnSet(f, 1 .. i) \in Nat
      /\ \A i \in 1 .. n : SumFunctionOnSet(f, 1 .. i) = SumFunctionOnSet(f, 1 .. i - 1) + f[i]
      /\ \A i, j \in 0 .. n : i <= j => SumFunctionOnSet(f, 1 .. i) <= SumFunctionOnSet(f, 1 .. j)
  BY <1>1, <1>2, SumSteps
<1>5. Size(l) = SizeTo(l, n) /\ n \in 0 .. n
  BY <1>1 DEF Size, n
<1>6. ASSUME NEW j \in 1 .. n
      PROVE  /\ SizeTo(l, j) = SizeTo(l, j - 1) + l[j][2]
             /\ SizeTo(l, j) <= Size(l)
             /\ SizeTo(l, j - 1) \in Nat /\ l[j][2] \in Nat
  <2>1. j \in 0 .. n /\ j - 1 \in 0 .. n /\ j <= n
    BY <1>1
  <2> QED BY <1>2, <1>3, <1>4, <1>5, <2>1
<1>7. SizeTo(l, 0) = 0 /\ \A j \in 0 .. n : SizeTo(l, j) \in Nat
  BY <1>3, <1>4
<1> QED BY <1>1, <1>5, <1>6, <1>7 DEF n

(* An author's program. *)
LEMMA SourceIs ==
  ASSUME NEW p \in Sources
  PROVE  /\ p \in Seq(Statements) /\ Len(p) \in Nat /\ DOMAIN p = 1 .. Len(p)
         /\ StartOf(p, Len(p) + 1) < U32
         /\ \A i \in DOMAIN p :
              /\ p[i].op \in Mnemonics /\ p[i].op \in Tabled /\ p[i].op # "ext" /\ p[i].w \in 0 .. 3
              /\ p[i].target \in 1 .. Len(p) + 1
<1>1. p \in Seq(Statements) /\ StartOf(p, Len(p) + 1) < U32
  BY DEF Sources
<1>2. Len(p) \in Nat /\ DOMAIN p = 1 .. Len(p) /\ \A i \in DOMAIN p : p[i] \in Statements
  BY <1>1
<1>3. \A i \in DOMAIN p : p[i].target <= Len(p) + 1
  BY DEF Sources
<1>4. \A s \in Statements : /\ s.op \in Tabled /\ s.op # "ext" /\ s.w \in 0 .. 3
                            /\ s.target \in Nat /\ s.target # 0
  BY DEF Statements
<1>5. \A i \in DOMAIN p : p[i].target \in 1 .. Len(p) + 1
  BY <1>2, <1>3, <1>4
<1> QED BY <1>1, <1>2, <1>4, <1>5 DEF Tabled

(* Statements take one byte and more, and lie one behind the other. *)
LEMMA StartsAre ==
  ASSUME NEW p \in Sources
  PROVE  /\ StartOf(p, 1) = 0
         /\ \A i \in 1 .. Len(p) + 1 : StartOf(p, i) \in Nat /\ StartOf(p, i) < U32
         /\ \A i \in 1 .. Len(p) : /\ StatementSize(p[i]) \in Nat /\ StatementSize(p[i]) # 0
                                   /\ StartOf(p, i + 1) = StartOf(p, i) + StatementSize(p[i])
         /\ \A i, j \in 1 .. Len(p) + 1 : i < j => StartOf(p, i) < StartOf(p, j)
<1> DEFINE n == Len(p)
           f == [k \in DOMAIN p |-> StatementSize(p[k])]
<1>1. n \in Nat /\ DOMAIN p = 1 .. n /\ StartOf(p, n + 1) < U32
  BY SourceIs
<1>2. ASSUME NEW k \in 1 .. n PROVE StatementSize(p[k]) \in Nat /\ StatementSize(p[k]) # 0
  <2>1. IsLayout(Written(p[k].op, p[k].w))
    BY <1>1, SourceIs, LayoutsAre
  <2>2. Size(Written(p[k].op, p[k].w)) \in Nat
    BY <2>1, SizesAre
  <2> QED BY <2>2 DEF StatementSize
<1>3. \A k \in 1 .. n : f[k] = StatementSize(p[k]) /\ f[k] \in Nat
  BY <1>1, <1>2
<1>4. \A i : StartOf(p, i) = SumFunctionOnSet(f, 1 .. i - 1)
  BY DEF StartOf
<1> HIDE DEF f, n
<1>5. /\ SumFunctionOnSet(f, 1 .. 0) = 0
      /\ \A i \in 0 .. n : SumFunctionOnSet(f, 1 .. i) \in Nat
      /\ \A i \in 1 .. n : SumFunctionOnSet(f, 1 .. i) = SumFunctionOnSet(f, 1 .. i - 1) + f[i]
      /\ \A i, j \in 0 .. n : i <= j => SumFunctionOnSet(f, 1 .. i) <= SumFunctionOnSet(f, 1 .. j)
  BY <1>1, <1>3, SumSteps
<1>6. StartOf(p, 1) = 0
  <2>1. 1 - 1 = 0
    OBVIOUS
  <2> QED BY <1>4, <1>5, <2>1
<1>7. ASSUME NEW i \in 1 .. n + 1 PROVE StartOf(p, i) \in Nat /\ StartOf(p, i) <= StartOf(p, n + 1)
  <2>1. i - 1 \in 0 .. n /\ (n + 1) - 1 = n /\ n \in 0 .. n /\ i - 1 <= n
    BY <1>1
  <2> QED BY <1>4, <1>5, <2>1
<1>8. ASSUME NEW i \in 1 .. n PROVE StartOf(p, i + 1) = StartOf(p, i) + StatementSize(p[i])
  <2>1. (i + 1) - 1 = i
    BY <1>1
  <2>2. StartOf(p, i + 1) = SumFunctionOnSet(f, 1 .. i)
    BY <1>4, <2>1
  <2> QED BY <1>3, <1>4, <1>5, <2>2
<1>9. ASSUME NEW i \in 1 .. n + 1, NEW j \in 1 .. n + 1, i < j PROVE StartOf(p, i) < StartOf(p, j)
  <2>1. i \in 1 .. n /\ i \in 0 .. n /\ j - 1 \in 0 .. n /\ i <= j - 1 /\ (i + 1) - 1 = i
    BY <1>1, <1>9
  <2>2. StartOf(p, i + 1) <= StartOf(p, j)
    <3>1. StartOf(p, i + 1) = SumFunctionOnSet(f, 1 .. i) /\ StartOf(p, j) = SumFunctionOnSet(f, 1 .. j - 1)
      BY <1>4, <2>1
    <3> QED BY <1>5, <2>1, <3>1
  <2>3. i + 1 \in 1 .. n + 1
    BY <1>1, <2>1
  <2>4. StartOf(p, i) \in Nat /\ StartOf(p, i + 1) \in Nat /\ StartOf(p, j) \in Nat
    BY <1>7, <2>3
  <2> QED BY <1>2, <1>8, <2>1, <2>2, <2>4
<1>10. \A i \in 1 .. n + 1 : StartOf(p, i) < U32
  <2>1. U32 \in Nat /\ n + 1 \in 1 .. n + 1
    BY <1>1, OffsetsAssumption
  <2>2. StartOf(p, n + 1) \in Nat
    BY <1>7, <2>1
  <2> QED BY <1>1, <1>7, <2>1, <2>2
<1> QED BY <1>2, <1>6, <1>7, <1>8, <1>9, <1>10 DEF n

(* A word is four bytes, which are read back as the word. *)
LEMMA WordsAreBytes ==
  ASSUME NEW v \in 0 .. U32 - 1
  PROVE  /\ WordBytes(v) \in Seq(Int) /\ Len(WordBytes(v)) = 4
         /\ WordOf(WordBytes(v)) = v
<1>1. U32 \in Nat /\ U32 # 0 /\ v \in Nat /\ v < U32
  BY OffsetsAssumption
<1> DEFINE a == v % 256
           b == (v \div 256) % 256
           c == (v \div 65536) % 256
           d == v \div Top
           t == Top % U32
<1>2. a \in Int /\ b \in Int /\ c \in Int /\ d \in Int
  BY <1>1 DEF Top
<1>3. a + 256 * b + 65536 * c + Top * d = v
  BY <1>1 DEF Top
<1>4. t * d = Top * d
  <2>1. CASE Top < U32
    <3>1. t = Top
      BY <1>1, <2>1 DEF Top
    <3> QED BY <3>1
  <2>2. CASE ~(Top < U32)
    <3>1. d = 0
      BY <1>1, <2>2 DEF Top
    <3>2. t \in Int /\ Top \in Int
      BY <1>1 DEF Top
    <3> HIDE DEF d, t
    <3> QED BY <3>1, <3>2
  <2> QED BY <2>1, <2>2
<1>5. WordBytes(v) = <<a, b, c, d>>
  BY DEF WordBytes
<1>6. WordOf(<<a, b, c, d>>) = (a + 256 * b + 65536 * c + t * d) % U32
  BY DEF WordOf
<1> HIDE DEF a, b, c, d, t
<1>7. v % U32 = v
  BY <1>1
<1> QED BY <1>2, <1>3, <1>4, <1>5, <1>6, <1>7

---------------------------------------------------------------------------
(* The bytes of an operand are as many as its kind says. *)
LEMMA OperandBytesAre ==
  ASSUME NEW p \in Sources, NEW i \in DOMAIN p, NEW j \in DOMAIN Written(p[i].op, p[i].w)
  PROVE  /\ OperandBytes(p, i, j) \in Seq(Int)
         /\ Len(OperandBytes(p, i, j)) = Written(p[i].op, p[i].w)[j][2]
         /\ Written(p[i].op, p[i].w)[j] = Label =>
              WordOf(OperandBytes(p, i, j)) =
                Encode(StartOf(p, p[i].target),
                       StartOf(p, i) + 1 + SizeTo(Written(p[i].op, p[i].w), j - 1))
         /\ Written(p[i].op, p[i].w)[j] # Label => OperandBytes(p, i, j)[1] = Argument(p[i].op, j)
<1> DEFINE l == Written(p[i].op, p[i].w)
           k == l[j]
           slot == StartOf(p, i) + 1 + SizeTo(l, j - 1)
           v == Encode(StartOf(p, p[i].target), slot)
<1>1. p[i].op \in Mnemonics /\ p[i].w \in 0 .. 3 /\ p[i].target \in 1 .. Len(p) + 1 /\ i \in 1 .. Len(p)
      /\ Len(p) \in Nat
  BY SourceIs
<1>2. IsLayout(l)
  BY <1>1, LayoutsAre
<1>3. k \in Kinds /\ j \in 1 .. Len(l)
  BY <1>2 DEF IsLayout
<1>4. SizeTo(l, j - 1) \in Nat /\ j \in Int
  BY <1>2, <1>3, SizesAre
<1>5. StartOf(p, p[i].target) \in Nat /\ StartOf(p, i) \in Nat
  BY <1>1, StartsAre
<1>6. v \in 0 .. U32 - 1
  <2>1. slot \in Int
    BY <1>4, <1>5
  <2> HIDE DEF slot
  <2>2. StartOf(p, p[i].target) - slot - 8 \in Int
    BY <1>5, <2>1
  <2> QED BY <2>2, OffsetsAssumption DEF Encode
<1>7. OperandBytes(p, i, j) = IF k = Label THEN WordBytes(v)
                              ELSE [x \in 1 .. k[2] |-> IF x = 1 THEN Argument(p[i].op, j) ELSE 0]
  BY DEF OperandBytes
<1>8. k[2] \in Nat /\ k[2] # 0 /\ (k = Label => k[2] = 4)
  BY <1>3, KindIs
<1>9. Argument(p[i].op, j) \in Int
  BY <1>4 DEF Argument
<1> HIDE DEF k, v
<1>10. CASE k = Label
  <2>1. WordBytes(v) \in Seq(Int) /\ Len(WordBytes(v)) = 4 /\ WordOf(WordBytes(v)) = v
    BY <1>6, WordsAreBytes
  <2> QED BY <1>7, <1>8, <1>10, <2>1 DEF k, v
<1>11. CASE k # Label
  <2> DEFINE n == k[2]
             a == Argument(p[i].op, j)
             b == [x \in 1 .. n |-> IF x = 1 THEN a ELSE 0]
  <2>1. n \in Nat /\ n # 0 /\ a \in Int /\ OperandBytes(p, i, j) = b
    BY <1>7, <1>8, <1>9, <1>11
  <2> HIDE DEF n, a
  <2>2. b \in Seq(Int) /\ Len(b) = n /\ b[1] = a
    BY <2>1
  <2> HIDE DEF b
  <2> QED BY <1>11, <2>1, <2>2 DEF k, n, a
<1> QED BY <1>10, <1>11

(* A statement is its opcode and its operands, one behind the other. *)
LEMMA StatementBytesAre ==
  ASSUME NEW p \in Sources, NEW i \in DOMAIN p
  PROVE  /\ StatementBytes(p, i) \in Seq(Int)
         /\ Len(StatementBytes(p, i)) = StatementSize(p[i])
         /\ StatementBytes(p, i)[1] = OpcodeByte(p[i].op, p[i].w)
         /\ \A j \in DOMAIN Written(p[i].op, p[i].w) :
              \A k \in 1 .. Written(p[i].op, p[i].w)[j][2] :
                StatementBytes(p, i)[1 + SizeTo(Written(p[i].op, p[i].w), j - 1) + k] = OperandBytes(p, i, j)[k]
<1> DEFINE l == Written(p[i].op, p[i].w)
           b == OpcodeByte(p[i].op, p[i].w)
           q == [j \in 1 .. Len(l) |-> OperandBytes(p, i, j)]
           r == FlattenSeq(q)
<1>1. p[i].op \in Mnemonics /\ p[i].w \in 0 .. 3
  BY SourceIs
<1>2. IsLayout(l) /\ DOMAIN l = 1 .. Len(l) /\ Len(l) \in Nat
  <2>1. IsLayout(l)
    BY <1>1, LayoutsAre
  <2> QED BY <2>1, SizesAre
<1>3. \A j \in DOMAIN l : OperandBytes(p, i, j) \in Seq(Int) /\ Len(OperandBytes(p, i, j)) = l[j][2]
  BY OperandBytesAre
<1>4. /\ q \in Seq(Seq(Int)) /\ Len(q) = Len(l) /\ DOMAIN q = DOMAIN l
      /\ \A j \in DOMAIN l : q[j] = OperandBytes(p, i, j) /\ Len(q[j]) = l[j][2]
  BY <1>2, <1>3
<1>5. b \in Int
  <2>1. Number[p[i].op] \in Int
    BY <1>1, NumberRoom
  <2>2. WithWidth(Number[p[i].op], p[i].w) \in Int
    <3>1. \A n \in Int, w \in 0 .. 3 : WithWidth(n, w) \in Int
      <4>1. \A n \in Int : n % 4 \in Int
        OBVIOUS
      <4> QED BY <4>1 DEF WithWidth
    <3> QED BY <1>1, <2>1, <3>1
  <2> QED BY <2>1, <2>2 DEF OpcodeByte
<1>6. StatementBytes(p, i) = <<b>> \o r
  BY DEF StatementBytes
<1> HIDE DEF l, b, q
<1>7. InRow(r, q, Int, Len(q))
  BY <1>4, FlattenIs
<1>8. \A j : Before(q, j) = SizeTo(l, j - 1)
  <2>1. Lengths(q) = [k \in DOMAIN l |-> l[k][2]]
    BY <1>4 DEF Lengths
  <2> QED BY <2>1 DEF Before, SizeTo
<1>9. r \in Seq(Int) /\ Len(r) = Size(l)
  <2>1. (Len(q) + 1) - 1 = Len(l)
    BY <1>2, <1>4
  <2>2. Len(r) = SizeTo(l, Len(l))
    BY <1>7, <1>8, <2>1 DEF InRow
  <2>3. r \in Seq(Int)
    BY <1>7 DEF InRow
  <2> QED BY <2>2, <2>3 DEF Size
<1>10. \A j \in DOMAIN l : \A k \in 1 .. l[j][2] :
         SizeTo(l, j - 1) + k \in 1 .. Len(r) /\ r[SizeTo(l, j - 1) + k] = OperandBytes(p, i, j)[k]
  <2> SUFFICES ASSUME NEW j \in DOMAIN l, NEW k \in 1 .. l[j][2]
               PROVE  /\ SizeTo(l, j - 1) + k \in 1 .. Len(r)
                      /\ r[SizeTo(l, j - 1) + k] = OperandBytes(p, i, j)[k]
    OBVIOUS
  <2>1. j \in 1 .. Len(q) /\ k \in 1 .. Len(q[j]) /\ q[j] = OperandBytes(p, i, j)
    BY <1>2, <1>4
  <2>2. Before(q, j) + k \in 1 .. Len(r) /\ r[Before(q, j) + k] = q[j][k]
    BY <1>7, <2>1 DEF InRow
  <2> QED BY <1>8, <2>1, <2>2
<1> HIDE DEF r
<1>11. /\ <<b>> \o r \in Seq(Int) /\ Len(<<b>> \o r) = 1 + Len(r) /\ (<<b>> \o r)[1] = b
       /\ \A k \in 1 .. Len(r) : (<<b>> \o r)[1 + k] = r[k]
  BY <1>5, <1>9
<1>12. ASSUME NEW j \in DOMAIN l, NEW k \in 1 .. l[j][2]
       PROVE  StatementBytes(p, i)[1 + SizeTo(l, j - 1) + k] = OperandBytes(p, i, j)[k]
  <2> DEFINE z == SizeTo(l, j - 1)
  <2>1. z \in Nat /\ k \in Int
    BY <1>2, SizesAre
  <2>2. z + k \in 1 .. Len(r) /\ r[z + k] = OperandBytes(p, i, j)[k]
    BY <1>10
  <2> HIDE DEF z
  <2>3. 1 + z + k = 1 + (z + k)
    BY <2>1
  <2>4. StatementBytes(p, i)[1 + z + k] = OperandBytes(p, i, j)[k]
    BY <1>6, <1>11, <2>2, <2>3
  <2> QED BY <2>4 DEF z
<1>13. StatementSize(p[i]) = 1 + Size(l)
  BY DEF StatementSize, l
<1> QED BY <1>6, <1>9, <1>11, <1>12, <1>13 DEF l, b

(* The file is the statements, one behind the other. *)
LEMMA CodeIs ==
  ASSUME NEW p \in Sources
  PROVE  /\ CodeOf(p) \in Seq(Int)
         /\ Len(CodeOf(p)) = StartOf(p, Len(p) + 1)
         /\ \A i \in DOMAIN p : \A k \in 1 .. StatementSize(p[i]) :
              /\ StartOf(p, i) + k \in 1 .. Len(CodeOf(p))
              /\ CodeOf(p)[StartOf(p, i) + k] = StatementBytes(p, i)[k]
<1> DEFINE q == [i \in DOMAIN p |-> StatementBytes(p, i)]
           r == FlattenSeq(q)
<1>1. Len(p) \in Nat /\ DOMAIN p = 1 .. Len(p)
  BY SourceIs
<1>2. \A i \in DOMAIN p : StatementBytes(p, i) \in Seq(Int) /\ Len(StatementBytes(p, i)) = StatementSize(p[i])
  BY StatementBytesAre
<1>3. /\ q \in Seq(Seq(Int)) /\ Len(q) = Len(p) /\ DOMAIN q = DOMAIN p
      /\ \A i \in DOMAIN p : q[i] = StatementBytes(p, i) /\ Len(q[i]) = StatementSize(p[i])
  BY <1>1, <1>2
<1>4. CodeOf(p) = r
  BY DEF CodeOf
<1> HIDE DEF q
<1>5. InRow(r, q, Int, Len(q))
  BY <1>3, FlattenIs
<1>6. \A i : Before(q, i) = StartOf(p, i)
  <2>1. Lengths(q) = [k \in DOMAIN p |-> StatementSize(p[k])]
    BY <1>3 DEF Lengths
  <2> QED BY <2>1 DEF Before, StartOf
<1> HIDE DEF r
<1>7. r \in Seq(Int) /\ Len(r) = StartOf(p, Len(p) + 1)
  BY <1>3, <1>5, <1>6 DEF InRow
<1>8. ASSUME NEW i \in DOMAIN p, NEW k \in 1 .. StatementSize(p[i])
      PROVE  /\ StartOf(p, i) + k \in 1 .. Len(r)
             /\ r[StartOf(p, i) + k] = StatementBytes(p, i)[k]
  <2>1. i \in 1 .. Len(q) /\ k \in 1 .. Len(q[i]) /\ q[i] = StatementBytes(p, i)
    BY <1>1, <1>3
  <2>2. Before(q, i) + k \in 1 .. Len(r) /\ r[Before(q, i) + k] = q[i][k]
    BY <1>5, <2>1 DEF InRow
  <2> QED BY <1>6, <2>1, <2>2
<1> QED BY <1>4, <1>7, <1>8

---------------------------------------------------------------------------
(* The machine goes from one opcode to the next. *)
LEMMA FetchGoesOn ==
  ASSUME NEW p \in Sources, NEW i \in DOMAIN p, ~Misread(p[i])
  PROVE  /\ NextFetch(CodeOf(p), StartOf(p, i)) = StartOf(p, i + 1)
         /\ Meant(CodeOf(p)[StartOf(p, i) + 1]) = {p[i].op}
<1> DEFINE c == CodeOf(p)
           at == StartOf(p, i)
           op == p[i].op
           w == p[i].w
           b == OpcodeByte(op, w)
<1>1. Len(p) \in Nat /\ i \in 1 .. Len(p) /\ op \in Mnemonics /\ w \in 0 .. 3
  BY SourceIs
<1>2. Meant(b) = {op} /\ Executed(op, b % 4) = Written(op, w)
  BY <1>1, ReadAsWritten
<1>3. /\ StatementSize(p[i]) \in Nat /\ StatementSize(p[i]) # 0 /\ at \in Nat
      /\ StartOf(p, i + 1) = at + StatementSize(p[i])
      /\ StartOf(p, Len(p) + 1) \in Nat /\ at < StartOf(p, Len(p) + 1)
  <2>1. i \in 1 .. Len(p) + 1 /\ Len(p) + 1 \in 1 .. Len(p) + 1 /\ i < Len(p) + 1
    BY <1>1
  <2> QED BY <1>1, <2>1, StartsAre
<1>4. Len(c) = StartOf(p, Len(p) + 1) /\ c[at + 1] = b
  <2>1. 1 \in 1 .. StatementSize(p[i])
    BY <1>3
  <2>2. c[at + 1] = StatementBytes(p, i)[1] /\ Len(c) = StartOf(p, Len(p) + 1)
    BY <2>1, CodeIs
  <2>3. StatementBytes(p, i)[1] = b
    BY StatementBytesAre
  <2> QED BY <2>2, <2>3
<1>5. Turn(Executed, b).size = StatementSize(p[i])
  <2>1. (CHOOSE o \in Meant(b) : TRUE) = op
    BY <1>2
  <2>2. Turn(Executed, b).size = 1 + Size(Executed(CHOOSE o \in Meant(b) : TRUE, b % 4))
    BY DEF Turn
  <2>3. StatementSize(p[i]) = 1 + Size(Written(op, w))
    BY DEF StatementSize
  <2> HIDE DEF b, op, w
  <2> QED BY <1>2, <2>1, <2>2, <2>3
<1>6. ~(at >= Len(c))
  BY <1>3, <1>4
<1>7. NextFetch(c, at) = at + StatementSize(p[i])
  <2> HIDE DEF c, at, b
  <2>1. NextFetch(c, at) = at + (IF Meant(b) = {} THEN 1 ELSE Turn(Executed, b).size)
    BY <1>4, <1>6 DEF NextFetch
  <2>2. Meant(b) # {}
    BY <1>2
  <2> QED BY <1>5, <2>1, <2>2
<1> QED BY <1>2, <1>3, <1>4, <1>7

(* Wherever it goes, it has come somewhere. *)
LEMMA FetchComes ==
  ASSUME NEW c \in Seq(Int), NEW at \in Nat
  PROVE  NextFetch(c, at) \in Nat
<1>1. CASE at >= Len(c)
  BY <1>1 DEF NextFetch
<1>2. CASE ~(at >= Len(c))
  <2> DEFINE b == c[at + 1]
             op == CHOOSE o \in Meant(b) : TRUE
  <2>1. b \in Int
    <3>1. Len(c) \in Nat /\ at + 1 \in 1 .. Len(c)
      BY <1>2
    <3> QED BY <3>1
  <2> HIDE DEF b, op
  <2>2. IsLayout(Executed(op, b % 4))
    <3>1. b % 4 \in 0 .. 3
      BY <2>1
    <3> QED BY <3>1, LayoutsAre
  <2>3. Size(Executed(op, b % 4)) \in Nat
    BY <2>2, SizesAre
  <2>4. Turn(Executed, b).size = 1 + Size(Executed(op, b % 4))
    BY DEF Turn, op
  <2>5. NextFetch(c, at) = at + (IF Meant(b) = {} THEN 1 ELSE Turn(Executed, b).size)
    BY <1>2 DEF NextFetch, b
  <2> QED BY <2>3, <2>4, <2>5
<1> QED BY <1>1, <1>2

(* The n-th opcode it comes to. *)
LEMMA FetchIs ==
  ASSUME NEW p \in Sources, \A i \in DOMAIN p : ~Misread(p[i]), NEW n \in 0 .. Len(p)
  PROVE  FetchAt(CodeOf(p), n) = StartOf(p, n + 1)
<1> DEFINE c == CodeOf(p)
           Eq(h) == h = [k \in 0 .. n |-> IF k = 0 THEN 0 ELSE NextFetch(c, h[k - 1])]
           at == CHOOSE h : Eq(h)
           step == [k \in 1 .. n |-> [a \in Nat |-> NextFetch(c, a)]]
<1>1. n \in Nat /\ Len(p) \in Nat /\ DOMAIN p = 1 .. Len(p)
  BY SourceIs
<1>2. FetchAt(c, n) = at[n]
  BY DEF FetchAt
<1>3. c \in Seq(Int)
  BY CodeIs
<1>4. PICK g : Maps(g, 0 .. n, Nat) /\ Unrolls(g, n, 0, step)
  <2>1. ASSUME NEW k \in 1 .. n PROVE Maps(step[k], Nat, Nat)
    <3>1. \A a \in Nat : NextFetch(c, a) \in Nat
      BY <1>3, FetchComes
    <3> HIDE DEF c
    <3> QED BY <3>1 DEF Maps
  <2> HIDE DEF step
  <2>2. 0 \in Nat
    OBVIOUS
  <2> QED BY <1>1, <2>1, <2>2, RecursionExists
<1>5. Eq(g)
  <2>1. ASSUME NEW k \in 0 .. n
        PROVE  (IF k = 0 THEN 0 ELSE step[k][g[k - 1]]) = IF k = 0 THEN 0 ELSE NextFetch(c, g[k - 1])
    <3>1. k # 0 => k \in 1 .. n /\ k - 1 \in 0 .. n
      BY <1>1
    <3>2. k # 0 => g[k - 1] \in Nat
      BY <1>4, <3>1 DEF Maps
    <3> HIDE DEF c
    <3> QED BY <3>1, <3>2
  <2> HIDE DEF step, c
  <2> QED BY <1>4, <2>1 DEF Unrolls
<1>6. Eq(at)
  <2> HIDE DEF Eq
  <2> QED BY <1>5
<1> HIDE DEF at, step, c
<1>7. \A k \in 0 .. n : at[k] = IF k = 0 THEN 0 ELSE NextFetch(c, at[k - 1])
  BY <1>6
<1> HIDE DEF Eq
<1> DEFINE Bad == {k \in 0 .. n : at[k] # StartOf(p, k + 1)}
<1>8. ASSUME Bad # {} PROVE FALSE
  <2>1. PICK k \in Bad : \A m \in Bad : k <= m
    <3>1. Bad \in SUBSET Nat
      BY <1>1
    <3> HIDE DEF Bad
    <3> QED BY <1>8, <3>1, LeastOf
  <2>2. k \in 0 .. n /\ at[k] # StartOf(p, k + 1)
    BY <2>1
  <2>3. CASE k = 0
    <3>1. k + 1 = 1
      BY <2>3
    <3> QED BY <1>7, <2>2, <2>3, <3>1, StartsAre
  <2>4. CASE k # 0
    <3>1. k - 1 \in 0 .. n /\ k - 1 \notin Bad /\ (k - 1) + 1 = k /\ k \in DOMAIN p
      BY <1>1, <2>1, <2>2, <2>4
    <3>2. at[k - 1] = StartOf(p, k)
      BY <3>1
    <3>3. NextFetch(c, StartOf(p, k)) = StartOf(p, k + 1)
      BY <3>1, FetchGoesOn DEF c
    <3> HIDE DEF Bad
    <3> QED BY <1>7, <2>2, <2>4, <3>2, <3>3
  <2> QED BY <2>3, <2>4
<1>9. n \in 0 .. n
  BY <1>1
<1> QED BY <1>2, <1>8, <1>9 DEF c

(* The program and its file stay what they are. *)
Assembled == program \in Sources /\ code = CodeOf(program)

(* The machine comes to the opcodes that the assembler wrote, whatever the *)
(* program: the sizes in assemble and in vm_opcode_execute agree wherever  *)
(* the opcode byte tells the width.                                        *)
THEOREM MachineReadsAll == DasmSpec => []MachineReads
<1>1. ASSUME Assembled PROVE MachineReads
  <2> SUFFICES ASSUME \A i \in DOMAIN program : ~Misread(program[i])
               PROVE  /\ \A i \in 1 .. Len(program) + 1 : FetchAt(code, i - 1) = StartOf(program, i)
                      /\ \A i \in DOMAIN program : Meant(code[StartOf(program, i) + 1]) = {program[i].op}
                      /\ StartOf(program, Len(program) + 1) = Len(code)
    BY DEF MachineReads
  <2>1. program \in Sources /\ code = CodeOf(program) /\ Len(program) \in Nat
    BY <1>1, SourceIs DEF Assembled
  <2>2. ASSUME NEW i \in 1 .. Len(program) + 1 PROVE FetchAt(code, i - 1) = StartOf(program, i)
    <3>1. i - 1 \in 0 .. Len(program) /\ (i - 1) + 1 = i
      BY <2>1
    <3>2. FetchAt(CodeOf(program), i - 1) = StartOf(program, (i - 1) + 1)
      BY <2>1, <3>1, FetchIs
    <3> QED BY <2>1, <3>1, <3>2
  <2>3. \A i \in DOMAIN program : Meant(code[StartOf(program, i) + 1]) = {program[i].op}
    BY <2>1, FetchGoesOn
  <2> QED BY <2>1, <2>2, <2>3, CodeIs
<1>2. (\E p \in Sources : DasmStart(p)) => Assembled
  BY DEF DasmStart, Assembled
<1>3. Assembled /\ [DasmNext]_dasmVars => Assembled'
  BY DEF Assembled, dasmVars, DasmNext, FirstTurn, UnknownOpcode, Rewind, SecondTurn, DasmEnd
<1> QED BY <1>1, <1>2, <1>3, PTL DEF DasmSpec

---------------------------------------------------------------------------
(* The disassembler reads the operands of a statement where they were      *)
(* written.                                                                *)
LEMMA OperandRead ==
  ASSUME Assembled, NEW i \in DOMAIN program,
         NEW j \in DOMAIN Written(program[i].op, program[i].w), NEW at,
         at = StartOf(program, i) + (1 + SizeTo(Written(program[i].op, program[i].w), j - 1))
  PROVE  /\ Got(at, Written(program[i].op, program[i].w)[j][2])
         /\ BytesAt(at, Written(program[i].op, program[i].w)[j][2]) = OperandBytes(program, i, j)
<1> DEFINE l == Written(program[i].op, program[i].w)
           n == l[j][2]
           z == SizeTo(l, j - 1)
           x == StartOf(program, i)
           o == OperandBytes(program, i, j)
<1>1. program \in Sources /\ code = CodeOf(program)
  BY DEF Assembled
<1>2. program[i].op \in Mnemonics /\ program[i].w \in 0 .. 3 /\ i \in 1 .. Len(program) /\ Len(program) \in Nat
  BY <1>1, SourceIs
<1>3. IsLayout(l)
  BY <1>2, LayoutsAre
<1>4. j \in 1 .. Len(l) /\ l[j] \in Kinds
  BY <1>3 DEF IsLayout
<1>5. z \in Nat /\ n \in Nat /\ n # 0 /\ z + n <= Size(l) /\ Size(l) \in Nat
  <2>1. SizeTo(l, j) = z + n /\ SizeTo(l, j) <= Size(l) /\ z \in Nat /\ n \in Nat /\ Size(l) \in Nat
    BY <1>3, <1>4, SizesAre
  <2>2. n # 0
    BY <1>4, KindIs
  <2> QED BY <2>1, <2>2
<1>6. x \in Nat
  BY <1>1, <1>2, StartsAre
<1>7. StatementSize(program[i]) = 1 + Size(l)
  BY DEF StatementSize
<1>8. o \in Seq(Int) /\ Len(o) = n
  BY <1>1, OperandBytesAre
<1>9. \A k \in 1 .. n : StatementBytes(program, i)[1 + z + k] = o[k]
  BY <1>1, StatementBytesAre
<1>10. at = x + (1 + z)
  OBVIOUS
<1>11. code \in Seq(Int) /\ Len(code) \in Nat
  BY <1>1, CodeIs
<1>12. \A k \in 1 .. StatementSize(program[i]) :
         x + k \in 1 .. Len(code) /\ code[x + k] = StatementBytes(program, i)[k]
  BY <1>1, CodeIs
<1> HIDE DEF l, n, z, x, o
<1>13. ASSUME NEW k \in 1 .. n PROVE at + k \in 1 .. Len(code) /\ code[at + k] = o[k]
  <2>1. 1 + z + k \in 1 .. StatementSize(program[i]) /\ at + k = x + (1 + z + k)
    BY <1>5, <1>6, <1>7, <1>10
  <2> QED BY <1>9, <1>12, <2>1
<1>14. at \in Nat /\ at + n <= Len(code)
  <2>1. n \in 1 .. n
    BY <1>5
  <2>2. at + n \in 1 .. Len(code)
    BY <1>13, <2>1
  <2> QED BY <1>5, <1>6, <1>10, <1>11, <2>2
<1>15. BytesAt(at, n) = o
  <2> DEFINE s == SubSeq(code, at + 1, at + n)
  <2>1. /\ s \in Seq(Int) /\ Len(s) = n /\ \A k \in 1 .. n : s[k] = code[at + k]
    <3> DEFINE a == at + 1
               e == at + n
    <3>1. a \in Int /\ e \in Int /\ 1 <= a /\ a <= e /\ e <= Len(code)
      BY <1>5, <1>14
    <3>2. e - a + 1 = n /\ \A k \in 1 .. n : a + k - 1 = at + k
      BY <1>5, <1>14
    <3> HIDE DEF a, e, s
    <3>3. \A k \in a .. e : code[k] \in Int
      <4>1. \A k \in a .. e : k \in 1 .. Len(code)
        BY <1>11, <3>1
      <4> QED BY <1>11, <4>1
    <3>4. /\ SubSeq(code, a, e) \in Seq(Int)
          /\ Len(SubSeq(code, a, e)) = IF a <= e THEN e - a + 1 ELSE 0
          /\ \A k \in 1 .. e - a + 1 : SubSeq(code, a, e)[k] = code[a + k - 1]
      BY <3>1, <3>3, SubSeqProperties
    <3>5. s = SubSeq(code, a, e)
      BY DEF s, a, e
    <3> QED BY <3>1, <3>2, <3>4, <3>5
  <2> HIDE DEF s
  <2>2. \A k \in 1 .. n : s[k] = o[k]
    BY <1>13, <2>1
  <2>3. s = o
    BY <1>8, <2>1, <2>2, SeqEqual
  <2> QED BY <2>3 DEF BytesAt, s
<1> QED BY <1>14, <1>15 DEF Got, n, o, l

(* What it takes for the position a label operand refers to is where its   *)
(* target starts, in both passes.                                          *)
LEMMA KeysMeet ==
  ASSUME NEW a \in Nat, a < U32, NEW slot \in Int
  PROVE  /\ LabelKey(slot + 8, Encode(a, slot)) = a
         /\ LookupKey(slot + 4, Encode(a, slot)) = a
<1>1. U32 \in Nat \ {0}
  BY OffsetsAssumption
<1> DEFINE d == a - slot - 8
<1>2. d \in Int /\ slot + 8 \in Int
  OBVIOUS
<1>3. ((d % U32) + (slot + 8)) % U32 = (d + (slot + 8)) % U32
  <2> HIDE DEF d
  <2> QED BY <1>1, <1>2, WrapLate
<1>4. d + (slot + 8) = a /\ a % U32 = a
  BY <1>1
<1> DEFINE e == d % U32
<1>5. e \in Int
  BY <1>1, <1>2
<1>6. Encode(a, slot) = e
  BY DEF Encode
<1> HIDE DEF d, e
<1>7. slot + 8 + e = e + (slot + 8) /\ slot + 4 + e + 4 = e + (slot + 8)
  BY <1>5
<1>8. (e + (slot + 8)) % U32 = a
  BY <1>3, <1>4 DEF e
<1> QED BY <1>6, <1>7, <1>8 DEF LabelKey, LookupKey

(* The word at a label operand. *)
LEMMA LabelRead ==
  ASSUME Assembled, NEW i \in DOMAIN program,
         NEW j \in DOMAIN Written(program[i].op, program[i].w),
         Written(program[i].op, program[i].w)[j] = Label, NEW at, NEW garbage,
         at = StartOf(program, i) + (1 + SizeTo(Written(program[i].op, program[i].w), j - 1))
  PROVE  /\ LabelKey(at + 8, WordAt(at, garbage)) = StartOf(program, program[i].target)
         /\ LookupKey(at + 4, WordAt(at, garbage)) = StartOf(program, program[i].target)
<1> DEFINE l == Written(program[i].op, program[i].w)
           a == StartOf(program, program[i].target)
<1>1. program \in Sources
  BY DEF Assembled
<1>2. /\ program[i].op \in Mnemonics /\ program[i].w \in 0 .. 3 /\ i \in 1 .. Len(program)
      /\ Len(program) \in Nat /\ program[i].target \in 1 .. Len(program) + 1
  BY <1>1, SourceIs
<1>3. SizeTo(l, j - 1) \in Nat
  <2>1. IsLayout(l)
    BY <1>2, LayoutsAre
  <2> QED BY <2>1, SizesAre
<1>4. StartOf(program, i) \in Nat /\ a \in Nat /\ a < U32
  BY <1>1, <1>2, StartsAre
<1>5. at \in Int /\ at = StartOf(program, i) + 1 + SizeTo(l, j - 1)
  <2> HIDE DEF l
  <2>1. at = StartOf(program, i) + (1 + SizeTo(l, j - 1))
    BY DEF l
  <2> QED BY <1>3, <1>4, <2>1
<1>6. l[j][2] = 4
  BY DEF Label
<1>7. Got(at, 4) /\ BytesAt(at, 4) = OperandBytes(program, i, j)
  <2>1. Got(at, l[j][2]) /\ BytesAt(at, l[j][2]) = OperandBytes(program, i, j)
    BY OperandRead
  <2> QED BY <1>6, <2>1
<1>8. WordOf(OperandBytes(program, i, j)) = Encode(a, at)
  <2>1. WordOf(OperandBytes(program, i, j)) = Encode(a, StartOf(program, i) + 1 + SizeTo(l, j - 1))
    BY <1>1, OperandBytesAre
  <2> QED BY <1>5, <2>1
<1>9. WordAt(at, garbage) = Encode(a, at)
  BY <1>7, <1>8 DEF WordAt
<1> HIDE DEF a
<1>10. LabelKey(at + 8, Encode(a, at)) = a /\ LookupKey(at + 4, Encode(a, at)) = a
  BY <1>4, <1>5, KeysMeet
<1> QED BY <1>9, <1>10 DEF a

---------------------------------------------------------------------------
(* A turn of either pass on a regular statement reads that statement. *)
LEMMA RegularTurn ==
  ASSUME Assembled, NEW i \in DOMAIN program, Regular(program[i]),
         filePos = StartOf(program, i), NEW byte \in Opcodes,
         NEW t \in {Turn(FirstPass, byte), Turn(SecondPass, byte)}
  PROVE  /\ t.op = program[i].op /\ t.operands = Written(program[i].op, program[i].w)
         /\ program[i].op \in Widened /\ Number[program[i].op] < BRA => t.w = program[i].w
         /\ t.size = StatementSize(program[i]) /\ Got(filePos, t.size)
         /\ filePos + t.size = StartOf(program, i + 1)
<1> DEFINE op == program[i].op
           w == program[i].w
           b == OpcodeByte(op, w)
           x == StartOf(program, i)
           size == StatementSize(program[i])
<1>1. program \in Sources /\ code = CodeOf(program)
  BY DEF Assembled
<1>2. Len(program) \in Nat /\ i \in 1 .. Len(program) /\ op \in Mnemonics /\ w \in 0 .. 3
  BY <1>1, SourceIs
<1>3. /\ size \in Nat /\ size # 0 /\ x \in Nat
      /\ StartOf(program, i + 1) = x + size
  <2>1. i \in 1 .. Len(program) + 1
    BY <1>2
  <2> QED BY <1>1, <1>2, <2>1, StartsAre
<1>4. x + size <= Len(code) /\ x + 1 <= Len(code) /\ Len(code) \in Nat
  <2>1. size \in 1 .. size /\ 1 \in 1 .. size
    BY <1>3
  <2>2. x + size \in 1 .. Len(code) /\ x + 1 \in 1 .. Len(code)
    BY <1>1, <2>1, CodeIs
  <2>3. Len(code) \in Nat
    <3>1. code \in Seq(Int)
      BY <1>1, CodeIs
    <3> QED BY <3>1
  <2> QED BY <2>2, <2>3
<1>5. code[x + 1] = b
  <2>1. 1 \in 1 .. size
    BY <1>3
  <2>2. code[x + 1] = StatementBytes(program, i)[1]
    BY <1>1, <2>1, CodeIs
  <2>3. StatementBytes(program, i)[1] = b
    BY <1>1, StatementBytesAre
  <2> QED BY <2>2, <2>3
<1>6. byte = b
  <2>1. Got(filePos, 1)
    BY <1>4 DEF Got
  <2> QED BY <1>5, <2>1 DEF Opcodes
<1>7. /\ Meant(b) = {op}
      /\ Written(op, w) = FirstPass(op, b % 4) /\ Written(op, w) = SecondPass(op, b % 4)
  BY DEF Regular
<1>8. op \in Widened /\ Number[op] < BRA => b < BRA /\ b % 4 = w
  BY <1>2, ByteTells
<1>9. size = 1 + Size(Written(op, w))
  BY DEF StatementSize
<1> HIDE DEF op, w, b, x, size
<1> DEFINE o == CHOOSE c \in Meant(byte) : TRUE
           Read(l) == [op |-> o, w |-> IF byte < BRA THEN byte % 4 ELSE 0,
                       operands |-> l, size |-> 1 + Size(l)]
<1>10. t \in {Read(FirstPass(o, byte % 4)), Read(SecondPass(o, byte % 4))}
  BY DEF Turn
<1>11. o = op
  BY <1>6, <1>7
<1> HIDE DEF o
<1>12. t = Read(Written(op, w))
  BY <1>6, <1>7, <1>10, <1>11
<1>13. /\ t.op = op /\ t.operands = Written(op, w) /\ t.size = size
       /\ op \in Widened /\ Number[op] < BRA => t.w = w
  BY <1>6, <1>8, <1>9, <1>11, <1>12
<1> HIDE DEF Read
<1> QED BY <1>3, <1>4, <1>13 DEF Got, op, w, x, size

(* The turn after the last statement finds the end of the file. *)
LEMMA LastTurn ==
  ASSUME Assembled, filePos = StartOf(program, Len(program) + 1), NEW byte \in Opcodes,
         NEW t \in {Turn(FirstPass, byte), Turn(SecondPass, byte)}
  PROVE  ~Got(filePos, t.size)
<1>1. program \in Sources /\ code = CodeOf(program)
  BY DEF Assembled
<1>2. filePos = Len(code) /\ Len(code) \in Nat
  <2>1. Len(code) = StartOf(program, Len(program) + 1) /\ code \in Seq(Int)
    BY <1>1, CodeIs
  <2> QED BY <2>1
<1>3. byte \in Int
  <2>1. ~Got(filePos, 1)
    BY <1>2 DEF Got
  <2>2. byte \in GarbageBytes
    BY <2>1 DEF Opcodes
  <2>3. GarbageBytes \subseteq 0 .. 255
    BY DisassemblerAssumption
  <2> QED BY <2>2, <2>3
<1> DEFINE o == CHOOSE c \in Meant(byte) : TRUE
<1>4. /\ IsLayout(FirstPass(o, byte % 4)) /\ IsLayout(SecondPass(o, byte % 4))
  <2>1. byte % 4 \in 0 .. 3
    BY <1>3
  <2> HIDE DEF o
  <2> QED BY <2>1, LayoutsAre
<1>5. Size(FirstPass(o, byte % 4)) \in Nat /\ Size(SecondPass(o, byte % 4)) \in Nat
  <2> HIDE DEF o
  <2> QED BY <1>4, SizesAre
<1>6. t.size \in {1 + Size(FirstPass(o, byte % 4)), 1 + Size(SecondPass(o, byte % 4))}
  BY DEF Turn
<1> HIDE DEF o
<1> QED BY <1>2, <1>5, <1>6 DEF Got

---------------------------------------------------------------------------
(* What holds of the labels: each has a number of its own, which was given *)
(* out, and lookups find it.                                               *)
WellNumbered(t, num) ==
  /\ IsTree(t) /\ DOMAIN t # {} /\ Ordered(t) /\ Single(t)
  /\ num \in Nat /\ \A n \in Held(t) : n.value \in 1 .. num - 1
  /\ \A m, n \in Held(t) : m.value = n.value => m = n

(* The label at 0, which both passes start with. *)
LEMMA FirstLabel ==
  WellNumbered(Leaf(0, 1), 2)
<1>1. /\ IsTree(Leaf(0, 1)) /\ DOMAIN Leaf(0, 1) # {} /\ Ordered(Leaf(0, 1)) /\ Single(Leaf(0, 1))
      /\ Held(Leaf(0, 1)) = {[key |-> 0, value |-> 1]}
  BY LeafIs
<1>2. \A n \in Held(Leaf(0, 1)) : n = [key |-> 0, value |-> 1] /\ n.value \in 1 .. 2 - 1
  BY <1>1
<1> QED BY <1>1, <1>2 DEF WellNumbered

(* One label more. *)
LEMMA MoreLabels ==
  ASSUME NEW t, NEW num, WellNumbered(t, num), NEW k
  PROVE  /\ WellNumbered(BtreeAdd(t, k, num), num + 1)
         /\ Held(BtreeAdd(t, k, num)) = Held(t) \cup {[key |-> k, value |-> num]}
<1> DEFINE l == Leaf(k, num)
           e == [key |-> k, value |-> num]
           h == Insert(t, l)
<1>1. /\ IsTree(l) /\ DOMAIN l = {<<>>} /\ l[<<>>] = e
      /\ Single(l) /\ Held(l) = {e} /\ Ordered(l)
  BY LeafIs
<1>2. IsTree(t) /\ DOMAIN t # {} /\ Ordered(t) /\ Single(t) /\ num \in Nat
  BY DEF WellNumbered
<1>3. t # NoTree
  BY <1>2, EmptyTree
<1>4. BtreeAdd(t, k, num) = h
  BY <1>3 DEF BtreeAdd
<1> HIDE DEF l
<1>5. \A n \in Held(t) : n.value \in Nat /\ n.value # 0 /\ n.value < num
  BY <1>2 DEF WellNumbered
<1>6. e.value = num
  OBVIOUS
<1> HIDE DEF e
<1>7. \A n \in Held(t) : n.value # num
  BY <1>2, <1>5
<1>8. Valued(t) \cap Valued(l) = {}
  BY <1>1, <1>6, <1>7 DEF Valued
<1>9. \A q \in DOMAIN t, r \in DOMAIN l : SideOf(t[q], l[r].key) = SideOf(t[q], l[<<>>].key)
  BY <1>1
<1>10. IsTree(h) /\ DOMAIN h # {} /\ Held(h) = Held(t) \cup {e} /\ Single(h) /\ Ordered(h)
  BY <1>1, <1>2, <1>8, <1>9, InsertIs
<1> HIDE DEF h
<1>11. \A n \in Held(h) : n.value \in 1 .. (num + 1) - 1
  <2>1. num # 0
    <3>1. PICK p \in DOMAIN t : TRUE
      BY <1>2
    <3>2. t[p] \in Held(t)
      BY DEF Held
    <3> QED BY <1>2, <1>5, <3>2
  <2>2. \A n \in Held(t) : n.value \in 1 .. (num + 1) - 1
    BY <1>2, <1>5
  <2>3. e.value \in 1 .. (num + 1) - 1
    BY <1>2, <1>6, <2>1
  <2> QED BY <1>10, <2>2, <2>3
<1>12. \A m, n \in Held(h) : m.value = n.value => m = n
  BY <1>6, <1>7, <1>10 DEF WellNumbered
<1>13. num + 1 \in Nat
  BY <1>2
<1>14. WellNumbered(h, num + 1)
  BY <1>10, <1>11, <1>12, <1>13 DEF WellNumbered
<1> QED BY <1>4, <1>10, <1>14 DEF e

(* There is a label at position k. *)
Labelled(k) == \E n \in Held(labels) : n.key = k

(* A lookup finds the labels there are, and no other, and each has its     *)
(* number alone.                                                           *)
LEMMA LabelFound ==
  ASSUME WellNumbered(labels, labelNum), NEW k
  PROVE  /\ Labelled(k) => LabelAt(k) \in Nat /\ LabelAt(k) # 0
                           /\ \E n \in Held(labels) : n.key = k /\ n.value = LabelAt(k)
         /\ ~Labelled(k) => LabelAt(k) = 0
<1> DEFINE found == BtreeGet(labels, k)
<1>1. \A n \in found : n \in Held(labels) /\ n.key = k
  BY DEF BtreeGet, Finds, Held
<1>2. IsTree(labels) /\ Ordered(labels) /\ labelNum \in Nat
  BY DEF WellNumbered
<1>3. ASSUME Labelled(k) PROVE found # {}
  <2> DEFINE W == {p \in DOMAIN labels : labels[p].key = k}
             S == {Len(p) : p \in W}
  <2>1. W # {} /\ W \subseteq Ways
    BY <1>2, <1>3 DEF Labelled, Held, IsTree
  <2>2. S \in SUBSET Nat /\ S # {}
    <3>1. \A p \in W : Len(p) \in Nat
      BY <2>1 DEF Ways
    <3> QED BY <2>1, <3>1
  <2>3. PICK m \in S : \A n \in S : m <= n
    BY <2>2, LeastOf
  <2>4. PICK p \in W : Len(p) = m
    BY <2>3
  <2>5. \A q \in W : Len(p) <= Len(q) /\ Len(q) \in Nat
    BY <2>2, <2>3, <2>4
  <2>6. \A q \in W : ~IsStrictPrefix(q, p)
    <3>1. ASSUME NEW q \in W, IsStrictPrefix(q, p) PROVE FALSE
      <4>1. Len(q) < Len(p)
        BY <2>1, <3>1, AboveShorter
      <4> QED BY <2>5, <4>1
    <3> QED BY <3>1
  <2>7. Leads(labels, k, p)
    BY <1>2 DEF Ordered
  <2>8. p \in Finds(labels, k)
    BY <2>6, <2>7 DEF Finds
  <2> QED BY <2>8 DEF BtreeGet
<1>4. found # {} => Labelled(k)
  BY <1>1 DEF Labelled
<1>5. LabelAt(k) = IF found = {} THEN 0 ELSE (CHOOSE n \in found : TRUE).value
  BY DEF LabelAt
<1> HIDE DEF found
<1>6. ASSUME found # {}
      PROVE  \E n \in Held(labels) : n.key = k /\ n.value = LabelAt(k)
  BY <1>1, <1>5, <1>6
<1>7. \A n \in Held(labels) : n.value \in Nat /\ n.value # 0
  BY <1>2 DEF WellNumbered
<1>8. found # {} => LabelAt(k) \in Nat /\ LabelAt(k) # 0
  BY <1>6, <1>7
<1> QED BY <1>3, <1>4, <1>5, <1>6, <1>8

(* Positions that have one number are one position. *)
LEMMA LabelsDiffer ==
  ASSUME WellNumbered(labels, labelNum), NEW k, NEW m, LabelAt(k) # 0, LabelAt(k) = LabelAt(m)
  PROVE  k = m
<1>1. Labelled(k) /\ Labelled(m)
  BY LabelFound
<1>2. PICK a \in Held(labels) : a.key = k /\ a.value = LabelAt(k)
  BY <1>1, LabelFound
<1>3. PICK b \in Held(labels) : b.key = m /\ b.value = LabelAt(m)
  BY <1>1, LabelFound
<1>4. a = b
  BY <1>2, <1>3 DEF WellNumbered
<1> QED BY <1>2, <1>3, <1>4

---------------------------------------------------------------------------
(* Where the label operand of a statement leads, if it has one. *)
HasLabel(s) == Len(Written(s.op, s.w)) > 0 /\ Written(s.op, s.w)[1] = Label
LeadsTo(k) == StartOf(program, program[k].target)

(* What the first pass has when it comes to statement i, and what the      *)
(* second has printed for statement k.                                     *)
Collected(i) == \A k \in DOMAIN program : k < i /\ HasLabel(program[k]) => Labelled(LeadsTo(k))
LineIs(line, k) ==
  /\ SaysStatement(line, program[k])
  /\ line.label = LabelAt(StartOf(program, k))
  /\ \A j \in DOMAIN line.args :
       Written(program[k].op, program[k].w)[j] = Label => line.args[j] = LabelAt(LeadsTo(k))
Printing(n) ==
  /\ lines \in Seq(Range(lines)) /\ Len(lines) = n
  /\ \A k \in DOMAIN program : k <= n => LineIs(lines[k], k)

(* The passes on a program of regular statements: each comes to the        *)
(* statements one after the other, and takes one turn more; the second     *)
(* begins when the first knows all labels.                                 *)
FirstScan ==
  \/ eof /\ Collected(Len(program) + 1)
  \/ ~eof /\ \E i \in 1 .. Len(program) + 1 :
       filePos = StartOf(program, i) /\ scanPos = filePos + 4 /\ Collected(i)
SecondScan ==
  /\ Collected(Len(program) + 1)
  /\ IF eof THEN /\ Printing(Len(program) + 1)
                 /\ lines[Len(program) + 1].label = LabelAt(StartOf(program, Len(program) + 1))
     ELSE \E i \in 1 .. Len(program) + 1 :
            filePos = StartOf(program, i) /\ scanPos = filePos /\ Printing(i - 1)

DasmInv ==
  /\ Assembled
  /\ WellNumbered(labels, labelNum)
  /\ (\A i \in DOMAIN program : Regular(program[i])) =>
       /\ stage = "first" => lines = <<>> /\ FirstScan
       /\ stage = "second" => SecondScan
       /\ stage = "done" => eof /\ SecondScan

(* A label operand is the first of its statement. *)
LEMMA LabelFirst ==
  ASSUME program \in Sources, NEW k \in DOMAIN program,
         NEW j \in DOMAIN Written(program[k].op, program[k].w),
         Written(program[k].op, program[k].w)[j] = Label
  PROVE  j = 1 /\ HasLabel(program[k])
<1> DEFINE l == Written(program[k].op, program[k].w)
<1>1. IsLayout(l)
  BY SourceIs, LayoutsAre
<1>2. j = 1 /\ Len(l) \in Nat /\ DOMAIN l = 1 .. Len(l)
  BY <1>1, SizesAre DEF IsLayout
<1>3. Len(l) > 0
  BY <1>2
<1> QED BY <1>2, <1>3 DEF HasLabel

(* Which argument an operand is. *)
LEMMA ArgumentIs ==
  ASSUME program \in Sources, NEW k \in DOMAIN program,
         NEW j \in DOMAIN Written(program[k].op, program[k].w)
  PROVE  /\ Argument(program[k].op, j) \in DOMAIN Written(program[k].op, program[k].w)
         /\ Argument(program[k].op, Argument(program[k].op, j)) = j
         /\ Written(program[k].op, program[k].w)[j] = Label => Argument(program[k].op, j) = j
<1> DEFINE op == program[k].op
           l == Written(op, program[k].w)
<1>1. CASE op = "pop"
  <2>1. l = <<Mask, Reg>>
    BY <1>1 DEF Written, Operands, ImmRegs, ShiftImms, Branches
  <2>2. Mask # Label /\ Reg # Label
    BY DEF Mask, Reg, Label
  <2>3. DOMAIN l = {1, 2} /\ l[1] # Label /\ l[2] # Label
    BY <2>1, <2>2
  <2> HIDE DEF l
  <2>4. j \in {1, 2}
    BY <2>3 DEF l
  <2> HIDE DEF op
  <2>5. Argument(op, 1) = 2 /\ Argument(op, 2) = 1
    BY <1>1 DEF Argument
  <2> QED BY <2>3, <2>4, <2>5 DEF l, op
<1>2. CASE op # "pop"
  BY <1>2 DEF Argument
<1> QED BY <1>1, <1>2

(* What the second pass prints for the operands of a statement. *)
LEMMA PrintedIs ==
  ASSUME Assembled, NEW i \in DOMAIN program, filePos = StartOf(program, i), scanPos = filePos,
         NEW t, t.operands = Written(program[i].op, program[i].w), NEW garbage,
         NEW j \in DOMAIN Written(program[i].op, program[i].w)
  PROVE  Printed(t, j, garbage) = IF Written(program[i].op, program[i].w)[j] = Label THEN LabelAt(LeadsTo(i))
                                  ELSE OperandBytes(program, i, j)
<1> DEFINE l == Written(program[i].op, program[i].w)
           before == 1 + SizeTo(l, j - 1)
           at == filePos + before
<1>1. /\ Printed(t, j, garbage) =
           IF l[j] = Label THEN LabelAt(LookupKey(scanPos + before + 4, WordAt(at, garbage)))
           ELSE IF Got(at, l[j][2]) THEN BytesAt(at, l[j][2])
           ELSE <<>>
  BY DEF Printed
<1>2. at = StartOf(program, i) + (1 + SizeTo(l, j - 1)) /\ scanPos + before + 4 = at + 4
  OBVIOUS
<1> HIDE DEF at, before
<1>3. Got(at, l[j][2]) /\ BytesAt(at, l[j][2]) = OperandBytes(program, i, j)
  BY <1>2, OperandRead
<1>4. l[j] = Label => LookupKey(at + 4, WordAt(at, garbage)) = LeadsTo(i)
  BY <1>2, LabelRead DEF LeadsTo
<1> HIDE DEF l
<1> QED BY <1>1, <1>2, <1>3, <1>4 DEF l

(* Labels that are there stay when more come. *)
LEMMA LabelsStay ==
  ASSUME NEW t, Held(labels) \subseteq Held(t), labels' = t, program' = program,
         NEW i, Collected(i)
  PROVE  Collected(i)'
BY DEF Collected, Labelled, LeadsTo, Held

(* A turn of the first pass. *)
LEMMA FirstTurnStep ==
  ASSUME DasmInv, NEW byte \in Opcodes, NEW garbage, FirstTurn(byte, garbage)
  PROVE  DasmInv'
<1> DEFINE t == Turn(FirstPass, byte)
           n == Len(program)
           key == LabelKey(scanPos + 5, WordAt(filePos + 1, garbage))
           has == Len(t.operands) > 0 /\ t.operands[1] = Label
<1>1. /\ stage = "first" /\ ~eof /\ stage' = "first"
      /\ program' = program /\ code' = code /\ lines' = lines
      /\ Advance(t.size)
      /\ IF has THEN labels' = BtreeAdd(labels, key, labelNum) /\ labelNum' = labelNum + 1
         ELSE labels' = labels /\ labelNum' = labelNum
  BY DEF FirstTurn
<1>2. Assembled /\ WellNumbered(labels, labelNum)
  BY DEF DasmInv
<1>3. Assembled'
  BY <1>1, <1>2 DEF Assembled
<1> HIDE DEF t, key
<1>4. /\ WellNumbered(labels', labelNum')
      /\ Held(labels) \subseteq Held(labels')
      /\ has => [key |-> key, value |-> labelNum] \in Held(labels')
  <2>1. CASE has
    BY <1>1, <1>2, <2>1, MoreLabels
  <2>2. CASE ~has
    BY <1>1, <1>2, <2>2
  <2> QED BY <2>1, <2>2
<1>5. WellNumbered(labels, labelNum)'
  BY <1>4 DEF WellNumbered, IsTree, Ordered, Single, Held, Leads
<1>6. ASSUME \A i \in DOMAIN program : Regular(program[i]) PROVE lines' = <<>> /\ FirstScan'
  <2>1. lines = <<>> /\ FirstScan
    BY <1>1, <1>6 DEF DasmInv
  <2>2. PICK i \in 1 .. n + 1 : filePos = StartOf(program, i) /\ scanPos = filePos + 4 /\ Collected(i)
    BY <1>1, <2>1 DEF FirstScan
  <2>3. program \in Sources /\ n \in Nat /\ DOMAIN program = 1 .. n
    BY <1>2, SourceIs DEF Assembled
  <2>4. StartOf(program, i) \in Nat
    BY <2>2, <2>3, StartsAre
  <2>5. CASE i \in 1 .. n
    <3>1. /\ t.operands = Written(program[i].op, program[i].w)
          /\ t.size = StatementSize(program[i]) /\ Got(filePos, t.size)
          /\ filePos + t.size = StartOf(program, i + 1)
      BY <1>2, <1>6, <2>2, <2>3, <2>5, RegularTurn DEF t
    <3>2. filePos' = StartOf(program, i + 1) /\ ~eof' /\ scanPos' = scanPos + t.size
      BY <1>1, <3>1 DEF Advance
    <3>3. scanPos' = filePos' + 4
      <4>1. t.size \in Nat
        BY <2>3, <2>5, <3>1, StartsAre
      <4>2. filePos \in Nat /\ scanPos = filePos + 4
        BY <2>2, <2>4
      <4> QED BY <3>1, <3>2, <4>1, <4>2
    <3>4. HasLabel(program[i]) => has /\ key = LeadsTo(i)
      <4> SUFFICES ASSUME HasLabel(program[i]) PROVE has /\ key = LeadsTo(i)
        OBVIOUS
      <4> DEFINE l == Written(program[i].op, program[i].w)
                 at == filePos + 1
      <4>1. Len(l) > 0 /\ l[1] = Label
        BY DEF HasLabel
      <4>2. IsLayout(l)
        BY <2>3, <2>5, SourceIs, LayoutsAre
      <4>3. 1 \in DOMAIN l /\ SizeTo(l, 1 - 1) = 0
        <5>1. SizeTo(l, 0) = 0 /\ DOMAIN l = 1 .. Len(l) /\ Len(l) \in Nat
          BY <4>2, SizesAre
        <5>2. 1 - 1 = 0 /\ 1 \in 1 .. Len(l)
          BY <4>1, <5>1
        <5> QED BY <5>1, <5>2
      <4>4. at = StartOf(program, i) + (1 + SizeTo(l, 1 - 1)) /\ at + 8 = scanPos + 5
        BY <2>2, <2>4, <4>3
      <4> HIDE DEF at
      <4>5. LabelKey(at + 8, WordAt(at, garbage)) = StartOf(program, program[i].target)
        BY <1>2, <2>3, <2>5, <4>1, <4>3, <4>4, LabelRead
      <4>6. has
        BY <3>1, <4>1
      <4>7. key = LabelKey(at + 8, WordAt(at, garbage))
        BY <4>4 DEF key, at
      <4> QED BY <4>5, <4>6, <4>7 DEF LeadsTo
    <3>5. Collected(i)'
      BY <1>1, <1>4, <2>2, LabelsStay
    <3>6. Collected(i + 1)'
      <4> SUFFICES ASSUME NEW k \in DOMAIN program, k < i + 1, HasLabel(program[k])
                   PROVE  \E m \in Held(labels') : m.key = LeadsTo(k)
        BY <1>1 DEF Collected, Labelled, LeadsTo, Held
      <4>1. CASE k = i
        <5>1. [key |-> key, value |-> labelNum] \in Held(labels')
          BY <1>4, <3>4, <4>1
        <5>2. [key |-> key, value |-> labelNum].key = LeadsTo(k)
          BY <3>4, <4>1
        <5> QED BY <5>1, <5>2
      <4>2. CASE k # i
        <5>1. k < i
          BY <2>3, <4>2
        <5>2. k \in DOMAIN program' /\ HasLabel(program'[k])
          BY <1>1
        <5> QED BY <1>1, <3>5, <5>1, <5>2 DEF Collected, Labelled, LeadsTo, Held
      <4> QED BY <4>1, <4>2
    <3>7. i + 1 \in 1 .. Len(program') + 1
      BY <1>1, <2>3, <2>5
    <3>8. filePos' = StartOf(program', i + 1)
      BY <1>1, <3>2
    <3> QED BY <1>1, <2>1, <3>2, <3>3, <3>6, <3>7, <3>8 DEF FirstScan
  <2>6. CASE i = n + 1
    <3>1. ~Got(filePos, t.size)
      BY <1>2, <2>2, <2>6, LastTurn DEF t
    <3>2. eof'
      BY <1>1, <3>1 DEF Advance
    <3>3. Collected(n + 1)'
      BY <1>1, <1>4, <2>2, <2>6, LabelsStay
    <3>4. Collected(Len(program) + 1)'
      BY <1>1, <3>3
    <3> QED BY <1>1, <2>1, <3>2, <3>4 DEF FirstScan
  <2> QED BY <2>2, <2>3, <2>5, <2>6
<1>7. (\A i \in DOMAIN program : Regular(program[i]))' => \A i \in DOMAIN program : Regular(program[i])
  BY <1>1
<1> QED BY <1>1, <1>3, <1>5, <1>6, <1>7 DEF DasmInv

(* The line that a turn of the second pass prints for a statement. *)
LEMMA LinePrinted ==
  ASSUME Assembled, WellNumbered(labels, labelNum), Collected(Len(program) + 1),
         NEW i \in DOMAIN program, filePos = StartOf(program, i), scanPos = filePos,
         NEW t, t.op = program[i].op, t.operands = Written(program[i].op, program[i].w),
         program[i].op \in Widened /\ Number[program[i].op] < BRA => t.w = program[i].w,
         NEW garbage, NEW args,
         args = [a \in DOMAIN t.operands |-> Printed(t, Argument(t.op, a), garbage)]
  PROVE  /\ ~(t.op = "ext" \/ \E j \in DOMAIN t.operands : t.operands[j] = Label /\ args[j] = 0)
         /\ LineIs([label |-> LabelAt(scanPos), op |-> t.op, w |-> t.w, args |-> args], i)
<1> DEFINE l == Written(program[i].op, program[i].w)
           op == program[i].op
<1>1. program \in Sources /\ i \in 1 .. Len(program) /\ Len(program) \in Nat /\ op # "ext"
  BY SourceIs DEF Assembled
<1>2. DOMAIN args = DOMAIN l
  OBVIOUS
<1>3. ASSUME NEW a \in DOMAIN l
      PROVE  /\ Argument(op, a) \in DOMAIN l
             /\ l[a] = Label => args[a] = LabelAt(LeadsTo(i))
             /\ l[Argument(op, a)] # Label => args[a][1] = a
  <2>1. /\ Argument(op, a) \in DOMAIN l /\ Argument(op, Argument(op, a)) = a
        /\ l[a] = Label => Argument(op, a) = a
    BY <1>1, ArgumentIs
  <2> DEFINE j == Argument(op, a)
  <2>2. args[a] = Printed(t, j, garbage)
    OBVIOUS
  <2>3. Printed(t, j, garbage) = IF l[j] = Label THEN LabelAt(LeadsTo(i)) ELSE OperandBytes(program, i, j)
    BY <2>1, PrintedIs
  <2>4. l[j] # Label => OperandBytes(program, i, j)[1] = Argument(op, j)
    BY <1>1, <2>1, OperandBytesAre
  <2> HIDE DEF j, l, op
  <2> QED BY <2>1, <2>2, <2>3, <2>4 DEF j
<1>4. ASSUME NEW j \in DOMAIN l, l[j] = Label PROVE args[j] # 0
  <2>1. HasLabel(program[i])
    BY <1>1, <1>4, LabelFirst
  <2>2. i < Len(program) + 1
    BY <1>1
  <2>3. Labelled(LeadsTo(i))
    BY <2>1, <2>2 DEF Collected
  <2>4. LabelAt(LeadsTo(i)) # 0
    BY <2>3, LabelFound
  <2> QED BY <1>3, <1>4, <2>4
<1> DEFINE line == [label |-> LabelAt(scanPos), op |-> t.op, w |-> t.w, args |-> args]
<1>5. line.label = LabelAt(scanPos) /\ line.op = t.op /\ line.w = t.w /\ line.args = args
  OBVIOUS
<1> HIDE DEF line
<1>6. SaysStatement(line, program[i])
  BY <1>2, <1>3, <1>5 DEF SaysStatement
<1>7. LineIs(line, i)
  BY <1>2, <1>3, <1>5, <1>6 DEF LineIs
<1>8. ~(t.op = "ext" \/ \E j \in DOMAIN t.operands : t.operands[j] = Label /\ args[j] = 0)
  BY <1>1, <1>4
<1> QED BY <1>7, <1>8 DEF line

(* A line more at the end. *)
LEMMA PrintMore ==
  ASSUME NEW n \in Nat, Printing(n), NEW line, lines' = Append(lines, line),
         program' = program, labels' = labels,
         n + 1 \in DOMAIN program => LineIs(line, n + 1), DOMAIN program \subseteq Nat \ {0}
  PROVE  Printing(n + 1)' /\ lines'[n + 1] = line
<1> DEFINE R == Range(lines) \cup {line}
<1>1. lines \in Seq(Range(lines)) /\ Len(lines) = n
  BY DEF Printing
<1>2. Range(lines) \subseteq R /\ line \in R
  OBVIOUS
<1> HIDE DEF R
<1>3. lines \in Seq(R)
  BY <1>1, <1>2, SeqMonotonic
<1>4. /\ lines' \in Seq(R) /\ Len(lines') = n + 1 /\ lines'[n + 1] = line
      /\ \A k \in 1 .. n : lines'[k] = lines[k]
  BY <1>1, <1>2, <1>3, AppendProperties
<1>5. lines' \in Seq(Range(lines'))
  BY <1>4, SeqOfRange
<1>6. ASSUME NEW k \in DOMAIN program, k <= n + 1 PROVE LineIs(lines[k], k)'
  <2>1. LineIs(lines'[k], k)
    <3>1. CASE k = n + 1
      BY <1>4, <3>1
    <3>2. CASE k # n + 1
      <4>1. k <= n /\ LineIs(lines[k], k)
        BY <1>6, <3>2 DEF Printing
      <4>2. k \in 1 .. n
        BY <4>1
      <4> QED BY <1>4, <4>1, <4>2
    <3> QED BY <3>1, <3>2
  <2>2. \A x : LabelAt(x)' = LabelAt(x)
    BY DEF LabelAt
  <2>3. LeadsTo(k)' = LeadsTo(k)
    BY DEF LeadsTo
  <2>4. SaysStatement(lines[k], program[k])' = SaysStatement(lines'[k], program[k])
    BY DEF SaysStatement
  <2> QED BY <2>1, <2>2, <2>3, <2>4 DEF LineIs
<1> QED BY <1>4, <1>5, <1>6 DEF Printing

(* A turn of the second pass. *)
LEMMA SecondTurnStep ==
  ASSUME DasmInv, NEW byte \in Opcodes, NEW garbage, SecondTurn(byte, garbage)
  PROVE  DasmInv'
<1> DEFINE t == Turn(SecondPass, byte)
           n == Len(program)
           args == [a \in DOMAIN t.operands |-> Printed(t, Argument(t.op, a), garbage)]
           silent == t.op = "ext" \/ \E j \in DOMAIN t.operands : t.operands[j] = Label /\ args[j] = 0
           line == [label |-> LabelAt(scanPos), op |-> IF silent THEN "none" ELSE t.op,
                    w |-> t.w, args |-> IF silent THEN <<>> ELSE args]
<1>1. /\ stage = "second" /\ ~eof /\ stage' = "second"
      /\ program' = program /\ code' = code /\ labels' = labels /\ labelNum' = labelNum
      /\ Advance(t.size) /\ lines' = Append(lines, line)
  BY DEF SecondTurn
<1>2. Assembled /\ WellNumbered(labels, labelNum)
  BY DEF DasmInv
<1>3. Assembled' /\ WellNumbered(labels, labelNum)'
  BY <1>1, <1>2 DEF Assembled, WellNumbered, IsTree, Ordered, Single, Held, Leads
<1> HIDE DEF t
<1>4. ASSUME \A i \in DOMAIN program : Regular(program[i]) PROVE SecondScan'
  <2>1. SecondScan
    BY <1>1, <1>4 DEF DasmInv
  <2>2. PICK i \in 1 .. n + 1 : filePos = StartOf(program, i) /\ scanPos = filePos /\ Printing(i - 1)
    BY <1>1, <2>1 DEF SecondScan
  <2>3. program \in Sources /\ n \in Nat /\ DOMAIN program = 1 .. n
    BY <1>2, SourceIs DEF Assembled
  <2>4. Collected(n + 1) /\ Collected(n + 1)'
    <3>1. Collected(n + 1)
      BY <2>1 DEF SecondScan
    <3> QED BY <1>1, <3>1 DEF Collected, Labelled, LeadsTo, Held
  <2>5. CASE i \in 1 .. n
    <3>1. /\ t.op = program[i].op /\ t.operands = Written(program[i].op, program[i].w)
          /\ program[i].op \in Widened /\ Number[program[i].op] < BRA => t.w = program[i].w
          /\ t.size = StatementSize(program[i]) /\ Got(filePos, t.size)
          /\ filePos + t.size = StartOf(program, i + 1)
      BY <1>2, <1>4, <2>2, <2>3, <2>5, RegularTurn DEF t
    <3>2. /\ ~silent
          /\ LineIs([label |-> LabelAt(scanPos), op |-> t.op, w |-> t.w, args |-> args], i)
      BY <1>2, <2>2, <2>3, <2>4, <2>5, <3>1, LinePrinted
    <3>3. line = [label |-> LabelAt(scanPos), op |-> t.op, w |-> t.w, args |-> args]
      BY <3>2
    <3> HIDE DEF line, args, silent
    <3>4. LineIs(line, i)
      BY <3>2, <3>3
    <3>5. i - 1 \in Nat /\ (i - 1) + 1 = i /\ DOMAIN program \subseteq Nat \ {0}
      BY <2>3, <2>5
    <3>6. Printing((i - 1) + 1)'
      BY <1>1, <2>2, <3>4, <3>5, PrintMore
    <3>7. filePos' = StartOf(program, i + 1) /\ ~eof' /\ scanPos' = filePos'
      BY <1>1, <2>2, <3>1 DEF Advance
    <3>8. (i + 1) - 1 = (i - 1) + 1 /\ i + 1 \in 1 .. n + 1
      BY <2>3, <2>5
    <3>9. Printing((i + 1) - 1)'
      BY <3>6, <3>8
    <3> QED BY <1>1, <2>4, <3>7, <3>8, <3>9 DEF SecondScan
  <2>6. CASE i = n + 1
    <3>1. ~Got(filePos, t.size)
      BY <1>2, <2>2, <2>6, LastTurn DEF t
    <3>2. eof'
      BY <1>1, <3>1 DEF Advance
    <3>3. line.label = LabelAt(StartOf(program, n + 1))
      BY <2>2, <2>6
    <3> HIDE DEF line, args, silent
    <3>4. Printing(n) /\ n + 1 \notin DOMAIN program /\ DOMAIN program \subseteq Nat \ {0}
      <4>1. i - 1 = n
        BY <2>3, <2>6
      <4> QED BY <2>2, <2>3, <4>1
    <3>5. Printing(n + 1)' /\ lines'[n + 1] = line
      BY <1>1, <2>3, <3>4, PrintMore
    <3>6. LabelAt(StartOf(program, n + 1))' = LabelAt(StartOf(program, n + 1))
      BY <1>1 DEF LabelAt
    <3> QED BY <1>1, <2>4, <3>2, <3>3, <3>5, <3>6 DEF SecondScan
  <2> QED BY <2>2, <2>3, <2>5, <2>6
<1> HIDE DEF line, args, silent
<1>5. (\A i \in DOMAIN program : Regular(program[i]))' => \A i \in DOMAIN program : Regular(program[i])
  BY <1>1
<1> QED BY <1>1, <1>3, <1>4, <1>5 DEF DasmInv

(* The first pass ends with every label there is. *)
LEMMA RewindStep ==
  ASSUME DasmInv, Rewind
  PROVE  DasmInv'
<1> DEFINE n == Len(program)
<1>1. /\ stage = "first" /\ eof /\ stage' = "second" /\ filePos' = 0 /\ scanPos' = 0 /\ ~eof'
      /\ program' = program /\ code' = code /\ labels' = labels /\ labelNum' = labelNum /\ lines' = lines
  BY DEF Rewind
<1>2. Assembled /\ WellNumbered(labels, labelNum)
  BY DEF DasmInv
<1>3. Assembled' /\ WellNumbered(labels, labelNum)'
  BY <1>1, <1>2 DEF Assembled, WellNumbered, IsTree, Ordered, Single, Held, Leads
<1>4. ASSUME \A i \in DOMAIN program : Regular(program[i]) PROVE SecondScan'
  <2>1. lines = <<>> /\ Collected(n + 1)
    BY <1>1, <1>4 DEF DasmInv, FirstScan
  <2>2. Collected(n + 1)'
    BY <1>1, <2>1 DEF Collected, Labelled, LeadsTo, Held
  <2>3. program \in Sources /\ n \in Nat /\ DOMAIN program = 1 .. n
    BY <1>2, SourceIs DEF Assembled
  <2>4. StartOf(program, 1) = 0 /\ 1 \in 1 .. n + 1
    BY <2>3, StartsAre
  <2>5. Printing(1 - 1)'
    <3>1. lines' \in Seq(Range(lines')) /\ Len(lines') = 0 /\ 1 - 1 = 0
      BY <1>1, <2>1
    <3>2. \A k \in DOMAIN program : ~(k <= 0)
      BY <2>3
    <3> QED BY <1>1, <3>1, <3>2 DEF Printing
  <2> QED BY <1>1, <2>2, <2>4, <2>5 DEF SecondScan
<1>5. (\A i \in DOMAIN program : Regular(program[i]))' => \A i \in DOMAIN program : Regular(program[i])
  BY <1>1
<1> QED BY <1>1, <1>3, <1>4, <1>5 DEF DasmInv

(* The second ends with the listing, and a crash with nothing. *)
LEMMA EndStep ==
  ASSUME DasmInv, DasmEnd \/ UnknownOpcode \/ UNCHANGED dasmVars
  PROVE  DasmInv'
<1>1. /\ program' = program /\ code' = code /\ labels' = labels /\ labelNum' = labelNum /\ lines' = lines
      /\ filePos' = filePos /\ scanPos' = scanPos /\ eof' = eof
  BY DEF DasmEnd, UnknownOpcode, dasmVars
<1>2. /\ stage' = "first" => stage = "first"
      /\ stage' = "second" => stage = "second"
      /\ stage' = "done" => stage = "done" \/ (stage = "second" /\ eof)
  <2>1. CASE DasmEnd
    BY <2>1 DEF DasmEnd
  <2>2. CASE UnknownOpcode
    <3>1. stage' = "crashed"
      BY <2>2 DEF UnknownOpcode
    <3> QED BY <3>1
  <2>3. CASE UNCHANGED dasmVars
    BY <2>3 DEF dasmVars
  <2> QED BY <2>1, <2>2, <2>3
<1>3. Assembled' /\ WellNumbered(labels, labelNum)'
  BY <1>1 DEF DasmInv, Assembled, WellNumbered, IsTree, Ordered, Single, Held, Leads
<1>4. (FirstScan => FirstScan') /\ (SecondScan => SecondScan')
  <2>1. \A i : Collected(i) => Collected(i)'
    BY <1>1 DEF Collected, Labelled, LeadsTo, Held
  <2>2. \A line, k : LineIs(line, k) => LineIs(line, k)'
    BY <1>1 DEF LineIs, SaysStatement, LabelAt, LeadsTo
  <2>3. \A n : Printing(n) => Printing(n)'
    BY <1>1, <2>2 DEF Printing
  <2>4. FirstScan => FirstScan'
    BY <1>1, <2>1 DEF FirstScan
  <2>5. SecondScan => SecondScan'
    <3>1. LabelAt(StartOf(program, Len(program) + 1))' = LabelAt(StartOf(program, Len(program) + 1))
      BY <1>1 DEF LabelAt
    <3> QED BY <1>1, <2>1, <2>3, <3>1 DEF SecondScan
  <2> QED BY <2>4, <2>5
<1>5. (\A i \in DOMAIN program : Regular(program[i]))' => \A i \in DOMAIN program : Regular(program[i])
  BY <1>1
<1> QED BY <1>1, <1>2, <1>3, <1>4, <1>5 DEF DasmInv

(* It starts with the label at 0. *)
LEMMA DasmInvStart ==
  ASSUME NEW p \in Sources, DasmStart(p)
  PROVE  DasmInv
<1>1. /\ program = p /\ code = CodeOf(p) /\ stage = "first" /\ filePos = 0 /\ ~eof /\ scanPos = 4
      /\ labels = Leaf(0, 1) /\ labelNum = 2 /\ lines = <<>>
  BY DEF DasmStart
<1>2. WellNumbered(labels, labelNum)
  BY <1>1, FirstLabel
<1>3. Len(program) \in Nat /\ DOMAIN program = 1 .. Len(program)
  BY <1>1, SourceIs
<1>4. StartOf(program, 1) = 0 /\ 1 \in 1 .. Len(program) + 1
  BY <1>1, <1>3, StartsAre
<1>5. Collected(1)
  BY <1>3 DEF Collected
<1>6. FirstScan
  BY <1>1, <1>4, <1>5 DEF FirstScan
<1> QED BY <1>1, <1>2, <1>6 DEF DasmInv, Assembled

(* Where it holds at the end, the listing is the program. *)
LEMMA ListingWhenInv ==
  ASSUME DasmInv
  PROVE  ListingRight
<1> DEFINE n == Len(program)
<1> SUFFICES ASSUME stage = "done", \A i \in DOMAIN program : Regular(program[i])
             PROVE  /\ Len(lines) = n + 1
                    /\ \A i \in DOMAIN program :
                         /\ SaysStatement(lines[i], program[i])
                         /\ \A j \in DOMAIN lines[i].args :
                              Written(program[i].op, program[i].w)[j] = Label =>
                                lines[i].args[j] # 0 /\ lines[i].args[j] = lines[program[i].target].label
                    /\ \A i, j \in DOMAIN lines :
                         i # j /\ lines[i].label # 0 => lines[i].label # lines[j].label
  BY DEF ListingRight
<1>1. /\ Collected(n + 1) /\ Printing(n + 1)
      /\ lines[n + 1].label = LabelAt(StartOf(program, n + 1))
  BY DEF DasmInv, SecondScan
<1>2. program \in Sources /\ WellNumbered(labels, labelNum)
  BY DEF DasmInv, Assembled
<1>3. n \in Nat /\ DOMAIN program = 1 .. n
  BY <1>2, SourceIs
<1>4. Len(lines) = n + 1 /\ DOMAIN lines = 1 .. n + 1
  BY <1>1 DEF Printing
<1>5. \A i \in DOMAIN program : LineIs(lines[i], i)
  <2>1. \A i \in DOMAIN program : i <= n + 1
    BY <1>3
  <2> QED BY <1>1, <2>1 DEF Printing
<1>6. \A i \in 1 .. n + 1 : lines[i].label = LabelAt(StartOf(program, i))
  <2>1. \A i \in 1 .. n + 1 : i = n + 1 \/ i \in DOMAIN program
    BY <1>3
  <2> QED BY <1>1, <1>5, <2>1 DEF LineIs
<1>7. ASSUME NEW i \in DOMAIN program, NEW j \in DOMAIN lines[i].args,
             Written(program[i].op, program[i].w)[j] = Label
      PROVE  lines[i].args[j] # 0 /\ lines[i].args[j] = lines[program[i].target].label
  <2>1. lines[i].args[j] = LabelAt(LeadsTo(i)) /\ j \in DOMAIN Written(program[i].op, program[i].w)
    BY <1>5, <1>7 DEF LineIs, SaysStatement
  <2>2. HasLabel(program[i]) /\ i < n + 1
    BY <1>2, <1>3, <1>7, <2>1, LabelFirst
  <2>3. LabelAt(LeadsTo(i)) # 0
    BY <1>1, <1>2, <2>2, LabelFound DEF Collected
  <2>4. program[i].target \in 1 .. n + 1
    BY <1>2, SourceIs
  <2> QED BY <1>6, <2>1, <2>3, <2>4 DEF LeadsTo
<1>8. ASSUME NEW i \in DOMAIN lines, NEW j \in DOMAIN lines, i # j, lines[i].label # 0
      PROVE  lines[i].label # lines[j].label
  <2>1. i \in 1 .. n + 1 /\ j \in 1 .. n + 1 /\ i \in Int /\ j \in Int
    BY <1>3, <1>4
  <2>2. StartOf(program, i) # StartOf(program, j)
    <3>1. i < j \/ j < i
      BY <1>8, <2>1
    <3>2. StartOf(program, i) \in Nat /\ StartOf(program, j) \in Nat
      BY <1>2, <2>1, StartsAre
    <3>3. StartOf(program, i) < StartOf(program, j) \/ StartOf(program, j) < StartOf(program, i)
      BY <1>2, <2>1, <3>1, StartsAre
    <3> QED BY <3>2, <3>3
  <2> QED BY <1>2, <1>6, <1>8, <2>1, <2>2, LabelsDiffer
<1> QED BY <1>4, <1>5, <1>7, <1>8 DEF LineIs

(* The listing of a program of regular statements is that program, label   *)
(* by label, whatever the two passes read after the end of the file.       *)
THEOREM ListingIsProgram == DasmSpec => []ListingRight
<1>1. (\E p \in Sources : DasmStart(p)) => DasmInv
  BY DasmInvStart
<1>2. DasmInv /\ [DasmNext]_dasmVars => DasmInv'
  BY FirstTurnStep, SecondTurnStep, RewindStep, EndStep DEF DasmNext
<1>3. DasmInv => ListingRight
  BY ListingWhenInv
<1> QED BY <1>1, <1>2, <1>3, PTL DEF DasmSpec

=============================================================================
