------------------------------ MODULE VmProofs ------------------------------
(***************************************************************************)
(* Theorems about the virtual machine: first about its words (VmWords),    *)
(* whatever the number of bits in a byte, then about Vm, for every program *)
(* of well-formed instructions.                                            *)
(***************************************************************************)
EXTENDS Vm, Walks, Sequences

---------------------------------------------------------------------------
(* Powers of two.  What 2^n is, the prover knows only as the number of     *)
(* subsets of a set of n members.                                          *)

(* How many subsets a finite set has. *)
LEMMA PowerIs ==
  ASSUME NEW S, IsFiniteSet(S)
  PROVE  IsFiniteSet(SUBSET S) /\ Cardinality(SUBSET S) = 2 ^ Cardinality(S)
BY FS_SUBSET

(* The empty word has one value. *)
LEMMA PowerZero == 2 ^ 0 = 1
OBVIOUS

(* A power of two is a positive number. *)
LEMMA PowerType ==
  ASSUME NEW n \in Nat
  PROVE  2 ^ n \in Nat \ {0}
<1>1. IsFiniteSet(1 .. n) /\ Cardinality(1 .. n) = n
  BY FS_Interval
<1>2. IsFiniteSet(SUBSET (1 .. n)) /\ Cardinality(SUBSET (1 .. n)) = 2 ^ n
  BY <1>1, PowerIs
<1>3. SUBSET (1 .. n) # {}
  OBVIOUS
<1> QED BY <1>2, <1>3, FS_CardinalityType, FS_EmptySet

(* A subset of m + n numbers is one of the first m and one of the rest. *)
LEMMA PowerSum ==
  ASSUME NEW m \in Nat, NEW n \in Nat
  PROVE  2 ^ (m + n) = 2 ^ m * 2 ^ n
<1> DEFINE A == 1 .. m
           B == m + 1 .. m + n
           f == [p \in (SUBSET A) \X (SUBSET B) |-> p[1] \cup p[2]]
<1>1. /\ IsFiniteSet(A) /\ Cardinality(A) = m
      /\ IsFiniteSet(B) /\ Cardinality(B) = n
      /\ IsFiniteSet(A \cup B) /\ Cardinality(A \cup B) = m + n
  <2>1. A \cup B = 1 .. m + n /\ m + n \in Nat
    OBVIOUS
  <2>2. \A k \in Nat : IsFiniteSet(1 .. k) /\ Cardinality(1 .. k) = k
    BY FS_Interval
  <2>3. IsFiniteSet(B) /\ Cardinality(B) = n
    <3>1. m + 1 \in Int /\ m + n \in Int /\ (IF m + 1 > m + n THEN 0 ELSE m + n - (m + 1) + 1) = n
      OBVIOUS
    <3> QED BY <3>1, FS_Interval
  <2> QED BY <2>1, <2>2, <2>3
<1>2. A \cap B = {}
  OBVIOUS
<1> HIDE DEF A, B
<1>3. ExistsBijection((SUBSET A) \X (SUBSET B), SUBSET (A \cup B))
  <2>1. f \in [(SUBSET A) \X (SUBSET B) -> SUBSET (A \cup B)]
    OBVIOUS
  <2>2. ASSUME NEW p \in (SUBSET A) \X (SUBSET B), NEW q \in (SUBSET A) \X (SUBSET B), f[p] = f[q]
        PROVE  p = q
    <3>1. p[1] \cup p[2] = q[1] \cup q[2] /\ p = <<p[1], p[2]>> /\ q = <<q[1], q[2]>>
      BY <2>2
    <3>2. p[1] \subseteq A /\ q[1] \subseteq A /\ p[2] \subseteq B /\ q[2] \subseteq B
      OBVIOUS
    <3>3. p[1] = q[1] /\ p[2] = q[2]
      BY <3>1, <3>2, <1>2
    <3> QED BY <3>1, <3>3
  <2>3. ASSUME NEW U \in SUBSET (A \cup B) PROVE \E p \in (SUBSET A) \X (SUBSET B) : f[p] = U
    <3>1. <<U \cap A, U \cap B>> \in (SUBSET A) \X (SUBSET B) /\ f[<<U \cap A, U \cap B>>] = U
      OBVIOUS
    <3> QED BY <3>1
  <2> DEFINE P == (SUBSET A) \X (SUBSET B)
             Q == SUBSET (A \cup B)
  <2>4. f \in Bijection(P, Q)
    <3>1. f \in [P -> Q]
      BY <2>1
    <3>2. \A p, q \in P : f[p] = f[q] => p = q
      BY <2>2
    <3>3. \A U \in Q : \E p \in P : f[p] = U
      BY <2>3
    <3> HIDE DEF f, P, Q
    <3>4. f \in Injection(P, Q)
      BY <3>1, <3>2 DEF Injection, IsInjective
    <3>5. f \in Surjection(P, Q)
      BY <3>1, <3>3 DEF Surjection
    <3> QED BY <3>4, <3>5 DEF Bijection
  <2> QED BY <2>4 DEF ExistsBijection
<1>4. /\ IsFiniteSet(SUBSET A) /\ Cardinality(SUBSET A) = 2 ^ m
      /\ IsFiniteSet(SUBSET B) /\ Cardinality(SUBSET B) = 2 ^ n
      /\ IsFiniteSet(SUBSET (A \cup B)) /\ Cardinality(SUBSET (A \cup B)) = 2 ^ (m + n)
  BY <1>1, PowerIs
<1>5. /\ IsFiniteSet((SUBSET A) \X (SUBSET B))
      /\ Cardinality((SUBSET A) \X (SUBSET B)) = 2 ^ m * 2 ^ n
  <2> DEFINE X == SUBSET A
             Y == SUBSET B
  <2>1. IsFiniteSet(X) /\ Cardinality(X) = 2 ^ m /\ IsFiniteSet(Y) /\ Cardinality(Y) = 2 ^ n
    BY <1>4
  <2> HIDE DEF X, Y
  <2>2. IsFiniteSet(X \X Y) /\ Cardinality(X \X Y) = Cardinality(X) * Cardinality(Y)
    BY <2>1, FS_Product
  <2>3. IsFiniteSet(X \X Y) /\ Cardinality(X \X Y) = 2 ^ m * 2 ^ n
    BY <2>1, <2>2
  <2> QED BY <2>3 DEF X, Y
<1> QED BY <1>3, <1>4, <1>5, FS_Bijection

(* One bit more makes twice as many values. *)
LEMMA PowerNext ==
  ASSUME NEW n \in Nat
  PROVE  2 ^ (n + 1) = 2 * 2 ^ n
<1>1. 2 ^ 1 = 2
  OBVIOUS
<1>2. 2 ^ (n + 1) = 2 ^ n * 2 ^ 1
  BY PowerSum
<1> QED BY <1>1, <1>2, PowerType

---------------------------------------------------------------------------
(* Products and remainders, where the prover needs to be shown the way. *)

(* Products are integers, and natural if their factors are. *)
LEMMA ProductType ==
  ASSUME NEW x \in Int, NEW y \in Int
  PROVE  /\ x * y \in Int
         /\ x \in Nat /\ y \in Nat => x * y \in Nat
OBVIOUS

(* A product grows with its factor. *)
LEMMA ProductGrows ==
  ASSUME NEW x \in Nat, NEW y \in Nat, x <= y, NEW z \in Nat
  PROVE  z * x <= z * y
OBVIOUS

(* The low digit of v, and what is above it. *)
LEMMA DivideIs ==
  ASSUME NEW v \in Int, NEW p \in Nat \ {0}
  PROVE  /\ v \div p \in Int /\ v % p \in 0 .. p - 1
         /\ v = p * (v \div p) + (v % p)
         /\ v \in Nat => v \div p \in Nat
OBVIOUS

(* The remainder by a product has the remainder by one factor as its low   *)
(* digit and the quotient's remainder by the other as the high one.        *)
LEMMA RemainderSplit ==
  ASSUME NEW v \in Int, NEW p \in Nat \ {0}, NEW b \in Nat \ {0}
  PROVE  v % (p * b) = (v % p) + ((v \div p) % b) * p
<1> DEFINE q == v \div p
           r == v % p
           s == q \div b
           t == q % b
<1>1. q \in Int /\ r \in 0 .. p - 1 /\ v = p * q + r
  BY DivideIs
<1>2. s \in Int /\ t \in 0 .. b - 1 /\ q = b * s + t
  BY <1>1, DivideIs
<1> HIDE DEF q, r, s, t
<1>3. v = (p * b) * s + (r + t * p)
  <2>1. p * (b * s + t) = p * (b * s) + p * t /\ p * (b * s) = (p * b) * s
    BY <1>2
  <2>2. p * t = t * p /\ p * t \in Int /\ (p * b) * s \in Int
    BY <1>2
  <2> QED BY <1>1, <1>2, <2>1, <2>2
<1>4. r + t * p \in 0 .. p * b - 1
  <2>1. p * t <= p * (b - 1) /\ p * t \in Nat
    BY <1>2, ProductGrows
  <2>2. p * (b - 1) = p * b - p /\ p * t = t * p /\ p * b \in Nat
    BY <1>2
  <2> QED BY <1>1, <2>1, <2>2
<1>5. p * b \in Nat \ {0}
  OBVIOUS
<1>6. v % (p * b) = r + t * p
  BY <1>2, <1>3, <1>4, <1>5, RemainderIs
<1> QED BY <1>6 DEF q, r, s, t

---------------------------------------------------------------------------
(* Numbers by their digits: digit k of f counts 2^(b * k). *)

Digits(f, b, n) == SumFunctionOnSet([k \in 0 .. n - 1 |-> f[k] * 2 ^ (b * k)], 0 .. n - 1)

(* What digit k counts is a positive number. *)
LEMMA PowersType ==
  ASSUME NEW b \in Nat, NEW k \in Nat
  PROVE  b * k \in Nat /\ 2 ^ (b * k) \in Nat \ {0}
BY PowerType, ProductType

(* No digits make 0. *)
LEMMA DigitsNone ==
  ASSUME NEW f, NEW b \in Nat
  PROVE  Digits(f, b, 0) = 0
<1> DEFINE v == [k \in 0 .. 0 - 1 |-> f[k] * 2 ^ (b * k)]
<1>1. 0 .. 0 - 1 = {} /\ IsFiniteSet(0 .. 0 - 1) /\ Weighs(v, 0 .. 0 - 1)
  BY FS_EmptySet DEF Weighs
<1> HIDE DEF v
<1>2. SumFunctionOnSet(v, 0 .. 0 - 1) = 0
  BY <1>1, SumUnfold
<1> QED BY <1>2 DEF Digits, v

(* One digit more adds what it counts. *)
LEMMA DigitsNext ==
  ASSUME NEW b \in Nat, NEW n \in Nat, NEW f, \A k \in 0 .. n : f[k] \in Int
  PROVE  /\ Digits(f, b, n + 1) = Digits(f, b, n) + f[n] * 2 ^ (b * n)
         /\ Digits(f, b, n) \in Int
<1> DEFINE S == 0 .. n - 1
           v == [k \in S |-> f[k] * 2 ^ (b * k)]
           w == [k \in 0 .. n |-> f[k] * 2 ^ (b * k)]
<1>1. ASSUME NEW k \in 0 .. n PROVE f[k] * 2 ^ (b * k) \in Int
  <2>1. 2 ^ (b * k) \in Int
    BY PowersType
  <2> QED BY <2>1, ProductType
<1>2. IsFiniteSet(S) /\ n \notin S /\ S \cup {n} = 0 .. n /\ n + 1 - 1 = n
  <2>1. n - 1 \in Int /\ 0 \in Int
    OBVIOUS
  <2>2. IsFiniteSet(S)
    BY <2>1, FS_Interval
  <2> QED BY <2>2
<1>3. Weighs(v, S) /\ Weighs(w, S \cup {n}) /\ \A a \in S : v[a] = w[a]
  BY <1>1, <1>2 DEF Weighs
<1>4. Digits(f, b, n) = SumFunctionOnSet(v, S) /\ Digits(f, b, n + 1) = SumFunctionOnSet(w, S \cup {n})
  <2>1. Digits(f, b, n + 1) = SumFunctionOnSet(w, 0 .. n)
    <3>1. [k \in 0 .. n + 1 - 1 |-> f[k] * 2 ^ (b * k)] = w
      BY <1>2
    <3> HIDE DEF w
    <3> QED BY <1>2, <3>1 DEF Digits
  <2> QED BY <1>2, <2>1 DEF Digits
<1>5. w[n] = f[n] * 2 ^ (b * n)
  OBVIOUS
<1> HIDE DEF S, v, w
<1>6. SumFunctionOnSet(v, S) = SumFunctionOnSet(w, S)
  BY <1>2, <1>3, SumSame
<1>7. /\ SumFunctionOnSet(w, S \cup {n}) = w[n] + SumFunctionOnSet(w, S)
      /\ SumFunctionOnSet(w, S) \in Int /\ w[n] \in Int
  BY <1>2, <1>3, SumAdd
<1> QED BY <1>4, <1>5, <1>6, <1>7

(* Digits below 2^b make a number below 2^(b * n). *)
LEMMA DigitsBound ==
  ASSUME NEW b \in Nat, NEW N \in Nat, NEW f, \A k \in 0 .. N - 1 : f[k] \in 0 .. 2 ^ b - 1
  PROVE  Digits(f, b, N) \in 0 .. 2 ^ (b * N) - 1
<1> DEFINE Bad == {n \in 0 .. N : Digits(f, b, n) \notin 0 .. 2 ^ (b * n) - 1}
<1>1. ASSUME Bad # {} PROVE FALSE
  <2>1. PICK n \in Bad : \A k \in Bad : n <= k
    <3>1. Bad \in SUBSET Nat
      OBVIOUS
    <3> HIDE DEF Bad
    <3> QED BY <1>1, <3>1, LeastOf
  <2>2. n # 0
    <3>1. Digits(f, b, 0) = 0 /\ 2 ^ (b * 0) \in Nat \ {0}
      BY DigitsNone, PowersType
    <3> QED BY <2>1, <3>1
  <2> DEFINE m == n - 1
  <2>3. m \in 0 .. N - 1 /\ m \notin Bad /\ n = m + 1
    BY <2>1, <2>2
  <2> DEFINE p == 2 ^ (b * m)
             q == 2 ^ b
             d == Digits(f, b, m)
             t == f[m]
  <2>4. d \in 0 .. p - 1
    BY <2>3
  <2>5. p \in Nat \ {0} /\ q \in Nat \ {0} /\ t \in 0 .. q - 1
    BY <2>3, PowersType, PowerType
  <2>6. Digits(f, b, n) = d + t * p
    <3> HIDE DEF Bad, m
    <3>1. m \in Nat /\ \A k \in 0 .. m : f[k] \in Int
      <4>1. q \in Nat
        BY <2>5
      <4> QED BY <2>3, <4>1
    <3> QED BY <2>3, <3>1, DigitsNext
  <2>7. 2 ^ (b * n) = p * q
    <3>1. b * (m + 1) = b * m + b /\ b * m \in Nat
      BY <2>3
    <3> HIDE DEF Bad, m
    <3>2. 2 ^ (b * m + b) = 2 ^ (b * m) * 2 ^ b
      BY <3>1, PowerSum
    <3> QED BY <2>3, <3>1, <3>2
  <2> HIDE DEF m, p, q, d, t
  <2>8. d + t * p \in 0 .. p * q - 1
    <3>1. p * t <= p * (q - 1) /\ p * t \in Nat
      BY <2>5, ProductGrows
    <3>2. p * (q - 1) = p * q - p /\ p * t = t * p /\ p * q \in Nat
      BY <2>5
    <3> QED BY <2>4, <2>5, <3>1, <3>2
  <2> QED BY <2>1, <2>6, <2>7, <2>8
<1>2. N \notin Bad
  BY <1>1
<1> QED BY <1>2

(* The digits of v make up v, as far as they reach. *)
LEMMA DigitsOf ==
  ASSUME NEW b \in Nat, NEW N \in Nat, NEW v \in Int, NEW f,
         \A k \in 0 .. N - 1 : f[k] = (v \div 2 ^ (b * k)) % 2 ^ b
  PROVE  Digits(f, b, N) = v % 2 ^ (b * N)
<1> DEFINE Bad == {n \in 0 .. N : Digits(f, b, n) # v % 2 ^ (b * n)}
<1>1. ASSUME Bad # {} PROVE FALSE
  <2>1. PICK n \in Bad : \A k \in Bad : n <= k
    <3>1. Bad \in SUBSET Nat
      OBVIOUS
    <3> HIDE DEF Bad
    <3> QED BY <1>1, <3>1, LeastOf
  <2>2. n # 0
    <3>1. Digits(f, b, 0) = 0 /\ b * 0 = 0 /\ 2 ^ 0 = 1
      BY DigitsNone, PowerZero
    <3>2. v % 1 = 0
      OBVIOUS
    <3> QED BY <2>1, <3>1, <3>2
  <2> DEFINE m == n - 1
  <2>3. m \in 0 .. N - 1 /\ m \notin Bad /\ n = m + 1
    BY <2>1, <2>2
  <2> DEFINE p == 2 ^ (b * m)
             q == 2 ^ b
  <2>4. Digits(f, b, m) = v % p /\ f[m] = (v \div p) % q
    BY <2>3
  <2>5. p \in Nat \ {0} /\ q \in Nat \ {0}
    BY <2>3, PowersType, PowerType
  <2>6. Digits(f, b, n) = Digits(f, b, m) + f[m] * p
    <3> HIDE DEF Bad, m
    <3>1. m \in Nat /\ \A k \in 0 .. m : f[k] \in Int
      <4>1. ASSUME NEW k \in 0 .. m PROVE f[k] \in Int
        <5>1. f[k] = (v \div 2 ^ (b * k)) % 2 ^ b /\ 2 ^ (b * k) \in Nat \ {0}
          BY <2>3, PowersType
        <5> DEFINE x == 2 ^ (b * k)
        <5> HIDE DEF x
        <5>2. (v \div x) % q \in Int
          <6>1. x \in Nat \ {0}
            BY <5>1 DEF x
          <6>2. v \div x \in Int
            BY <6>1, DivideIs
          <6> QED BY <6>2, <2>5, DivideIs
        <5> QED BY <5>1, <5>2 DEF x
      <4> QED BY <2>3, <4>1
    <3> QED BY <2>3, <3>1, DigitsNext
  <2>7. 2 ^ (b * n) = p * q
    <3>1. b * (m + 1) = b * m + b /\ b * m \in Nat
      BY <2>3
    <3> HIDE DEF Bad, m
    <3>2. 2 ^ (b * m + b) = 2 ^ (b * m) * 2 ^ b
      BY <3>1, PowerSum
    <3> QED BY <2>3, <3>1, <3>2
  <2> HIDE DEF m, p, q
  <2>8. v % (p * q) = (v % p) + ((v \div p) % q) * p
    BY <2>5, RemainderSplit
  <2> QED BY <2>1, <2>4, <2>6, <2>7, <2>8
<1>2. N \notin Bad
  BY <1>1
<1> QED BY <1>2

---------------------------------------------------------------------------
(* Bytes and words. *)

(* A span is a positive number. *)
LEMMA SpanType ==
  ASSUME NEW n \in Nat
  PROVE  Bits * n \in Nat /\ Span(n) \in Nat \ {0}
BY BitsAssumption, PowerType, ProductType DEF Span

(* Two words side by side. *)
LEMMA SpanSum ==
  ASSUME NEW m \in Nat, NEW n \in Nat
  PROVE  Span(m + n) = Span(m) * Span(n)
<1>1. Bits * (m + n) = Bits * m + Bits * n /\ Bits * m \in Nat /\ Bits * n \in Nat
  BY BitsAssumption
<1>2. 2 ^ (Bits * m + Bits * n) = 2 ^ (Bits * m) * 2 ^ (Bits * n)
  BY <1>1, PowerSum
<1> QED BY <1>1, <1>2 DEF Span

(* A wider word holds what a narrower one does. *)
LEMMA SpanGrows ==
  ASSUME NEW m \in Nat, NEW n \in Nat, m <= n
  PROVE  /\ Span(m) <= Span(n)
         /\ \E f \in Nat \ {0} : Span(n) = Span(m) * f
<1> DEFINE f == Span(n - m)
<1>1. n - m \in Nat /\ n = m + (n - m)
  OBVIOUS
<1>2. Span(n) = Span(m) * f /\ f \in Nat \ {0} /\ Span(m) \in Nat
  BY <1>1, SpanSum, SpanType
<1> HIDE DEF f
<1>3. Span(m) * 1 <= Span(m) * f
  BY <1>2, ProductGrows
<1> QED BY <1>2, <1>3

(* The sizes of the words, in order. *)
LEMMA SizesType ==
  /\ Byte \in Nat \ {0} /\ U32 \in Nat \ {0} /\ Word \in Nat \ {0}
  /\ Byte <= U32 /\ U32 <= Word
  /\ Bits * 1 = Bits /\ Byte = 2 ^ Bits
<1>1. Byte \in Nat \ {0} /\ U32 \in Nat \ {0} /\ Word \in Nat \ {0}
  BY SpanType DEF Byte, U32, Word
<1>2. Byte <= U32 /\ U32 <= Word
  BY SpanGrows DEF Byte, U32, Word
<1>3. Bits * 1 = Bits
  BY BitsAssumption
<1> QED BY <1>1, <1>2, <1>3 DEF Byte, Span

(* A register holds 0, 1 and every 32 bit word, and more. *)
LEMMA SmallValues ==
  0 \in Values /\ 1 \in Values /\ U32 < Word /\ U32 \in Values
<1>1. U32 >= 2 /\ U32 \in Nat
  <2> DEFINE n == Bits * 4 - 1
  <2>1. n \in Nat /\ n + 1 = Bits * 4
    BY BitsAssumption
  <2> HIDE DEF n
  <2>2. 2 ^ (n + 1) = 2 * 2 ^ n /\ 2 ^ n \in Nat \ {0}
    BY <2>1, PowerNext, PowerType
  <2> DEFINE p == 2 ^ n
  <2>3. U32 = 2 * p /\ p \in Nat \ {0}
    BY <2>1, <2>2 DEF U32, Span
  <2> HIDE DEF p
  <2> QED BY <2>3
<1>2. Word = U32 * U32
  <2>1. 4 + 4 = 8
    OBVIOUS
  <2> QED BY <2>1, SpanSum DEF Word, U32
<1>3. U32 * 2 <= U32 * U32
  BY <1>1, ProductGrows
<1>4. U32 < U32 * U32
  BY <1>1, <1>3
<1> QED BY <1>1, <1>2, <1>4, SizesType DEF Values

(* A value cut to w bytes fits in them, and in a register. *)
LEMMA LowType ==
  ASSUME NEW v \in Int, NEW w \in 0 .. 8
  PROVE  Low(v, w) \in 0 .. Span(w) - 1 /\ Low(v, w) \in Values
<1>1. Span(w) \in Nat \ {0} /\ Span(w) <= Word /\ Word \in Nat
  <2>1. w \in Nat /\ 8 \in Nat /\ w <= 8
    OBVIOUS
  <2>2. Span(w) \in Nat \ {0} /\ Span(w) <= Span(8)
    BY <2>1, SpanType, SpanGrows
  <2> QED BY <2>2, SizesType DEF Word
<1>2. v % Span(w) \in 0 .. Span(w) - 1
  BY <1>1
<1> QED BY <1>1, <1>2 DEF Low, Values

(* A wrapped result fits in its word. *)
LEMMA WrapType ==
  ASSUME NEW v \in Int
  PROVE  v % Word \in Values /\ v % U32 \in 0 .. U32 - 1 /\ v % U32 \in Values
BY SizesType DEF Values

(* A set of bits below n makes a number below 2^n. *)
LEMMA OfBitsBound ==
  ASSUME NEW n \in Nat, NEW S \in SUBSET (0 .. n - 1)
  PROVE  OfBits(S) \in 0 .. 2 ^ n - 1
<1> DEFINE A == 0 .. n - 1
           v == [k \in S |-> 2 ^ k]
           w == [k \in A |-> 2 ^ k]
           one == [k \in A |-> 1]
<1>1. IsFiniteSet(A) /\ IsFiniteSet(S)
  <2>1. n - 1 \in Int /\ 0 \in Int
    OBVIOUS
  <2> QED BY <2>1, FS_Interval, FS_Subset
<1>2. \A k \in A : w[k] \in Nat
  BY PowerType
<1>3. Weighs(v, S) /\ (\A a \in S : v[a] = w[a]) /\ OfBits(S) = SumFunctionOnSet(v, S)
  BY <1>2 DEF Weighs, OfBits
<1>4. Digits(one, 1, n) = SumFunctionOnSet(w, A)
  <2>1. \A k \in A : one[k] * 2 ^ (1 * k) = 2 ^ k
    <3>1. ASSUME NEW k \in A PROVE 1 * 2 ^ (1 * k) = 2 ^ k
      <4>1. 1 * k = k /\ 2 ^ k \in Nat
        BY PowerType
      <4>2. 2 ^ (1 * k) = 2 ^ k
        BY <4>1
      <4> QED BY <4>1, <4>2
    <3> QED BY <3>1
  <2>2. [k \in A |-> one[k] * 2 ^ (1 * k)] = w
    BY <2>1
  <2> HIDE DEF one, w
  <2> QED BY <2>2 DEF Digits
<1>5. Digits(one, 1, n) \in 0 .. 2 ^ (1 * n) - 1
  <2>1. \A k \in 0 .. n - 1 : one[k] \in 0 .. 2 ^ 1 - 1
    <3>1. 2 ^ 1 = 2
      OBVIOUS
    <3> QED BY <3>1
  <2> HIDE DEF one
  <2> QED BY <2>1, DigitsBound
<1>6. 2 ^ (1 * n) = 2 ^ n /\ 2 ^ n \in Nat
  <2>1. 1 * n = n
    OBVIOUS
  <2> QED BY <2>1, PowerType
<1> HIDE DEF v, w, one
<1>7. SumFunctionOnSet(v, S) = SumFunctionOnSet(w, S)
  BY <1>1, <1>3, SumSame
<1> HIDE DEF A
<1>8. /\ SumFunctionOnSet(w, S) \in Nat /\ SumFunctionOnSet(w, A) \in Nat
      /\ SumFunctionOnSet(w, S) <= SumFunctionOnSet(w, A)
  <2>1. S \in SUBSET A
    BY DEF A
  <2> QED BY <1>1, <1>2, <2>1, SumPart
<1> QED BY <1>3, <1>4, <1>5, <1>6, <1>7, <1>8

(* A set of bits of a word makes a word. *)
LEMMA BitsMakeWords ==
  ASSUME NEW S \in SUBSET (0 .. WordBits - 1)
  PROVE  OfBits(S) \in Values
<1>1. WordBits \in Nat /\ 2 ^ WordBits = Word
  BY BitsAssumption DEF WordBits, Word, Span
<1> QED BY <1>1, OfBitsBound DEF Values

(* The bitwise operators make words, *)
LEMMA BitwiseType ==
  ASSUME NEW x, NEW y
  PROVE  BitAnd(x, y) \in Values /\ BitOr(x, y) \in Values /\ BitXor(x, y) \in Values
<1>1. \A v : Ones(v) \subseteq 0 .. WordBits - 1
  BY DEF Ones
<1> QED BY <1>1, BitsMakeWords DEF BitAnd, BitOr, BitXor

(* as the shifts do, *)
LEMMA ShiftType ==
  ASSUME NEW v \in Values, NEW n \in Int
  PROVE  ShiftLeft(v, n) \in Values /\ ShiftRight(v, n) \in Values
<1> DEFINE p == 2 ^ (n % WordBits)
<1>1. p \in Nat \ {0}
  <2>1. n % WordBits \in Nat
    BY BitsAssumption DEF WordBits
  <2> QED BY <2>1, PowerType
<1> HIDE DEF p
<1>2. v \in Nat /\ Word \in Nat
  BY SizesType DEF Values
<1>3. (v * p) % Word \in Values
  <2> DEFINE y == v * p
  <2>1. y \in Int
    BY <1>1, <1>2
  <2> HIDE DEF y
  <2>2. y % Word \in Values
    BY <2>1, WrapType
  <2> QED BY <2>2 DEF y
<1>4. v \div p \in Values
  <2>1. v \div p \in Nat /\ v % p \in Nat /\ v = p * (v \div p) + (v % p)
    <3>1. v \in Int /\ v \in Nat /\ p \in Nat \ {0}
      BY <1>1, <1>2
    <3>2. \A x \in Int : /\ x % p \in 0 .. p - 1 /\ x = p * (x \div p) + (x % p)
                         /\ x \in Nat => x \div p \in Nat
      BY <1>1, DivideIs
    <3>3. v % p \in 0 .. p - 1
      BY <3>1, <3>2
    <3> QED BY <3>1, <3>2, <3>3
  <2>2. 1 * (v \div p) <= p * (v \div p) /\ p * (v \div p) \in Nat
    BY <1>1, <2>1
  <2>3. v \div p <= v
    BY <2>1, <2>2
  <2> QED BY <1>2, <2>1, <2>3 DEF Values
<1> QED BY <1>3, <1>4 DEF ShiftLeft, ShiftRight, p

(* the quotient and the remainder, *)
LEMMA QuotientType ==
  ASSUME NEW v \in Values, NEW d \in Values, d # 0
  PROVE  v \div d \in Values /\ v % d \in Values
<1>1. v \in Nat /\ d \in Nat \ {0} /\ Word \in Nat /\ v < Word /\ d < Word
  BY SizesType DEF Values
<1>2. v \div d \in Nat /\ v % d \in 0 .. d - 1 /\ v = d * (v \div d) + (v % d)
  <2>1. \A p \in Nat \ {0} : \A x \in Int :
          /\ x \div p \in Int /\ x % p \in 0 .. p - 1 /\ x = p * (x \div p) + (x % p)
          /\ x \in Nat => x \div p \in Nat
    BY DivideIs
  <2>2. v \in Int
    BY <1>1
  <2> QED BY <1>1, <2>1, <2>2
<1> DEFINE q == v \div d
           r == v % d
<1>3. q \in Nat /\ r \in 0 .. d - 1 /\ v = d * q + r
  BY <1>2
<1> HIDE DEF q, r
<1>4. q <= v
  <2>1. q * 1 <= q * d
    BY <1>1, <1>3, ProductGrows
  <2>2. q * d = d * q /\ d * q \in Nat
    BY <1>1, <1>3
  <2> QED BY <1>1, <1>3, <2>1, <2>2
<1>5. q \in 0 .. Word - 1 /\ r \in 0 .. Word - 1
  BY <1>1, <1>3, <1>4
<1> QED BY <1>5 DEF q, r, Values

AluOps == {"ADD", "SUB", "MUL", "AND", "OR", "XOR", "LSL", "LSR",
           "ADDI", "SUBI", "MULI", "ANDI", "ORI", "XORI", "LSLI", "LSRI"}

(* every arithmetic instruction, *)
LEMMA AluType ==
  ASSUME NEW op \in AluOps, NEW x \in Values, NEW y \in Int
  PROVE  Alu(op, x, y) \in Values
<1>1. x \in Int
  BY DEF Values
<1>2. x + y \in Int /\ x - y \in Int /\ x * y \in Int
  BY <1>1, ProductType
<1>3. (x + y) % Word \in Values /\ (x - y) % Word \in Values /\ (x * y) % Word \in Values
  BY <1>2, WrapType
<1> QED BY <1>3, BitwiseType, ShiftType DEF Alu, AluOps

(* and the rotations. *)
LEMMA RotateType ==
  ASSUME NEW op, NEW v, NEW n, NEW w \in Widths
  PROVE  Rotate(op, v, n, w) \in Values
<1>1. w \in 0 .. 8
  BY DEF Widths
<1>2. \A x, y : BitOr(x, y) \in Int
  BY BitwiseType DEF Values
<1> QED BY <1>1, <1>2, LowType DEF Rotate

---------------------------------------------------------------------------
(* Memory. *)

(* Every byte of an access has an address. *)
LEMMA AddressType ==
  ASSUME NEW a \in Int, NEW k \in 0 .. 7
  PROVE  (a % U32) + k \in Addresses
BY SizesType DEF Addresses

(* A read of w bytes answers with a value of w bytes, *)
LEMMA ReadMemType ==
  ASSUME NEW store \in Memories, NEW a \in Int, NEW w \in Widths
  PROVE  ReadMem(store, a, w) \in 0 .. Span(w) - 1 /\ ReadMem(store, a, w) \in Values
<1> DEFINE f == [k \in 0 .. w - 1 |-> store[(a % U32) + k]]
<1>1. ASSUME NEW k \in 0 .. w - 1 PROVE f[k] \in 0 .. 2 ^ Bits - 1
  <2>1. k \in 0 .. 7
    BY DEF Widths
  <2>2. store[(a % U32) + k] \in Bytes
    BY <2>1, AddressType DEF Memories
  <2> QED BY <2>2, SizesType DEF Bytes
<1>2. ReadMem(store, a, w) = Digits(f, Bits, w)
  BY DEF ReadMem, Digits, Span
<1> HIDE DEF f
<1>3. w \in Nat /\ w <= 8
  BY DEF Widths
<1>4. Digits(f, Bits, w) \in 0 .. Span(w) - 1
  BY <1>1, <1>3, DigitsBound, BitsAssumption DEF Span
<1>5. Span(w) <= Word /\ Span(w) \in Nat /\ Word \in Nat
  BY <1>3, SpanType, SpanGrows, SizesType DEF Word
<1> QED BY <1>2, <1>4, <1>5 DEF Values

(* and a write leaves every byte a byte. *)
LEMMA WriteMemType ==
  ASSUME NEW store \in Memories, NEW a \in Int, NEW v \in Int, NEW w \in Widths
  PROVE  WriteMem(store, a, v, w) \in Memories
<1> DEFINE base == a % U32
           n == IF w = 1 THEN 2 ELSE w
<1>1. DOMAIN store = Addresses /\ \A c \in Addresses : store[c] \in Bytes
  BY DEF Memories
<1>2. ASSUME NEW c \in Addresses, c \in base .. base + n - 1
      PROVE  (v \div Span(c - base)) % Byte \in Bytes
  <2>1. base \in Nat /\ c \in Nat /\ n \in Nat
    BY SizesType DEF Addresses, Widths
  <2>2. c - base \in Nat
    BY <1>2, <2>1
  <2>3. v \div Span(c - base) \in Int
    <3>1. Span(c - base) \in Nat \ {0}
      BY <2>2, SpanType
    <3> HIDE DEF base
    <3> QED BY <3>1, DivideIs
  <2> QED BY <2>3, SizesType, DivideIs DEF Bytes
<1>3. WriteMem(store, a, v, w) = [c \in Addresses |->
        IF c \in base .. base + n - 1 THEN (v \div Span(c - base)) % Byte ELSE store[c]]
  BY <1>1 DEF WriteMem
<1> HIDE DEF base, n
<1> QED BY <1>1, <1>2, <1>3 DEF Memories

---------------------------------------------------------------------------
(* The low part of a result: sums, products and bits below w bytes do not  *)
(* depend on what is above.                                                *)

(* A quotient is unique. *)
LEMMA QuotientIs ==
  ASSUME NEW w \in Nat \ {0}, NEW q \in Int, NEW r \in 0 .. w - 1
  PROVE  (w * q + r) \div w = q
OBVIOUS

(* Multiples of w do not show in the remainder by w. *)
LEMMA RemainderShift ==
  ASSUME NEW w \in Nat \ {0}, NEW k \in Int, NEW v \in Int
  PROVE  (w * k + v) % w = v % w
<1> DEFINE q == v \div w
           r == v % w
<1>1. q \in Int /\ r \in 0 .. w - 1 /\ v = w * q + r
  BY DivideIs
<1> HIDE DEF q, r
<1>2. w * k + v = w * (k + q) + r /\ k + q \in Int
  <2>1. w * (k + q) = w * k + w * q
    BY <1>1
  <2>2. w * k \in Int /\ w * q \in Int
    BY <1>1
  <2> QED BY <1>1, <2>1, <2>2
<1>3. (w * (k + q) + r) % w = r
  BY <1>1, <1>2, RemainderIs
<1> QED BY <1>2, <1>3 DEF r

(* What wraps at a word has the low part of what did not wrap. *)
LEMMA LowWrapped ==
  ASSUME NEW m \in Nat, NEW n \in Nat, m <= n, NEW v \in Int
  PROVE  (v % Span(n)) % Span(m) = v % Span(m)
<1>1. PICK f \in Nat \ {0} : Span(n) = Span(m) * f
  BY SpanGrows
<1> DEFINE s == Span(m)
           t == Span(n)
           q == v \div t
           r == v % t
<1>2. s \in Nat \ {0} /\ t \in Nat \ {0} /\ t = s * f
  BY <1>1, SpanType
<1> HIDE DEF s, t
<1>3. q \in Int /\ r \in Int /\ v = t * q + r
  <2>1. v \div t \in Int /\ v % t \in 0 .. t - 1 /\ v = t * (v \div t) + (v % t)
    BY <1>2, DivideIs
  <2> QED BY <2>1
<1> HIDE DEF q, r
<1>4. v = s * (f * q) + r /\ f * q \in Int
  BY <1>2, <1>3
<1>5. (s * (f * q) + r) % s = r % s
  BY <1>2, <1>3, <1>4, RemainderShift
<1> QED BY <1>4, <1>5 DEF r, s, t

(* Sums, differences and products of the low parts. *)
LEMMA LowRing ==
  ASSUME NEW n \in Nat, NEW x \in Int, NEW y \in Int
  PROVE  /\ (x + y) % Span(n) = ((x % Span(n)) + (y % Span(n))) % Span(n)
         /\ (x - y) % Span(n) = ((x % Span(n)) - (y % Span(n))) % Span(n)
         /\ (x * y) % Span(n) = ((x % Span(n)) * (y % Span(n))) % Span(n)
<1> DEFINE s == Span(n)
           p == x \div s
           a == x % s
           q == y \div s
           b == y % s
<1>1. s \in Nat \ {0}
  BY SpanType
<1> HIDE DEF s
<1>2. p \in Int /\ a \in Int /\ x = s * p + a /\ q \in Int /\ b \in Int /\ y = s * q + b
  BY <1>1, DivideIs
<1> HIDE DEF p, a, q, b
<1>3. x + y = s * (p + q) + (a + b) /\ p + q \in Int /\ a + b \in Int
  <2>1. s * (p + q) = s * p + s * q /\ s * p \in Int /\ s * q \in Int
    BY <1>1, <1>2
  <2> QED BY <1>2, <2>1
<1>4. x - y = s * (p - q) + (a - b) /\ p - q \in Int /\ a - b \in Int
  <2>1. s * (p - q) = s * p - s * q /\ s * p \in Int /\ s * q \in Int
    BY <1>1, <1>2
  <2> QED BY <1>2, <2>1
<1>5. PICK k \in Int : x * y = s * k + a * b /\ a * b \in Int
  <2> DEFINE k == p * y + a * q
  <2>1. x * y = (s * p) * y + a * y
    BY <1>1, <1>2
  <2>2. (s * p) * y = s * (p * y) /\ p * y \in Int
    BY <1>1, <1>2
  <2>3. a * y = a * (s * q) + a * b /\ a * (s * q) = s * (a * q) /\ a * q \in Int /\ a * b \in Int
    BY <1>1, <1>2
  <2>4. s * (p * y + a * q) = s * (p * y) + s * (a * q)
    BY <1>1, <2>2, <2>3
  <2>5. s * (p * y) \in Int /\ s * (a * q) \in Int
    BY <1>1, <2>2, <2>3
  <2>6. k \in Int /\ x * y = s * k + a * b
    BY <2>1, <2>2, <2>3, <2>4, <2>5
  <2> QED BY <2>3, <2>6
<1>6. (x + y) % s = (a + b) % s
  <2>1. (s * (p + q) + (a + b)) % s = (a + b) % s
    BY <1>1, <1>3, RemainderShift
  <2> QED BY <1>3, <2>1
<1>7. (x - y) % s = (a - b) % s
  <2>1. (s * (p - q) + (a - b)) % s = (a - b) % s
    BY <1>1, <1>4, RemainderShift
  <2> QED BY <1>4, <2>1
<1>8. (x * y) % s = (a * b) % s
  <2>1. (s * k + a * b) % s = (a * b) % s
    BY <1>1, <1>5, RemainderShift
  <2> QED BY <1>5, <2>1
<1> QED BY <1>6, <1>7, <1>8 DEF a, b, s

(* A sum of multiples of g is a multiple of g. *)
LEMMA SumMultiple ==
  ASSUME NEW g \in Nat, NEW S, IsFiniteSet(S), NEW v, \A a \in S : v[a] \in Int,
         \A a \in S : \E k \in Int : v[a] = g * k
  PROVE  \E k \in Int : SumFunctionOnSet(v, S) = g * k
<1> DEFINE Sum(T) == SumFunctionOnSet(v, T)
           Bad == {T \in SUBSET S : ~ \E k \in Int : Sum(T) = g * k}
<1>1. ASSUME NEW T \in SUBSET S
      PROVE  T = {} => Sum(T) = 0
  <2>1. IsFiniteSet(T) /\ Weighs(v, T)
    BY FS_Subset DEF Weighs
  <2> QED BY <2>1, SumUnfold
<1>2. ASSUME NEW T \in SUBSET S, NEW a \in T
      PROVE  Sum(T) = v[a] + Sum(T \ {a})
  <2>1. IsFiniteSet(T) /\ Weighs(v, T)
    BY FS_Subset DEF Weighs
  <2> QED BY <2>1, SumTake
<1>3. ASSUME Bad # {} PROVE FALSE
  <2> HIDE DEF Sum
  <2>1. PICK T \in Bad : \A U \in SUBSET T : U # T => U \notin Bad
    <3> HIDE DEF Bad
    <3>1. Bad \in SUBSET SUBSET S
      BY DEF Bad
    <3> QED BY <3>1, <1>3, LeastSubset
  <2>2. T \in SUBSET S /\ ~ \E k \in Int : Sum(T) = g * k
    BY <2>1
  <2>3. PICK a \in T : TRUE
    <3>1. g * 0 = 0
      OBVIOUS
    <3> QED BY <1>1, <2>2, <3>1
  <2>4. PICK k \in Int : v[a] = g * k
    BY <2>2, <2>3
  <2>5. T \ {a} \notin Bad /\ T \ {a} \in SUBSET S
    BY <2>1, <2>2, <2>3
  <2>6. PICK n \in Int : Sum(T \ {a}) = g * n
    BY <2>5
  <2>7. Sum(T) = g * (k + n) /\ k + n \in Int
    <3>1. g * (k + n) = g * k + g * n
      OBVIOUS
    <3> QED BY <1>2, <2>2, <2>3, <2>4, <2>6, <3>1
  <2> QED BY <2>2, <2>7
<1>4. S \notin Bad
  BY <1>3
<1> QED BY <1>4

(* The low n bits of a word are the bits below n of its set. *)
LEMMA LowOfBits ==
  ASSUME NEW n \in Nat, NEW S \in SUBSET (0 .. WordBits - 1)
  PROVE  OfBits(S) % 2 ^ n = OfBits(S \cap (0 .. n - 1))
<1> DEFINE L == S \cap (0 .. n - 1)
           H == S \ (0 .. n - 1)
           v == [k \in S |-> 2 ^ k]
           p == 2 ^ n
<1>1. \A k \in S : k \in Nat /\ v[k] \in Int
  <2>1. \A k \in S : k \in Nat
    OBVIOUS
  <2> QED BY <2>1, PowerType
<1>2. IsFiniteSet(S) /\ IsFiniteSet(L) /\ IsFiniteSet(H)
  <2>1. IsFiniteSet(0 .. WordBits - 1)
    <3>1. WordBits - 1 \in Int /\ 0 \in Int
      BY BitsAssumption DEF WordBits
    <3> QED BY <3>1, FS_Interval
  <2> QED BY <2>1, FS_Subset
<1>3. OfBits(S) = SumFunctionOnSet(v, S)
  BY DEF OfBits
<1>4. OfBits(L) = SumFunctionOnSet(v, L)
  <2> DEFINE u == [k \in L |-> 2 ^ k]
  <2>1. Weighs(u, L) /\ \A k \in L : u[k] = v[k]
    BY <1>1 DEF Weighs
  <2>2. OfBits(L) = SumFunctionOnSet(u, L)
    BY DEF OfBits
  <2> HIDE DEF u, v, L
  <2> QED BY <1>2, <2>1, <2>2, SumSame
<1>5. p \in Nat \ {0}
  BY PowerType
<1>6. \A k \in H : \E f \in Int : v[k] = p * f
  <2> SUFFICES ASSUME NEW k \in H PROVE \E f \in Int : v[k] = p * f
    OBVIOUS
  <2>1. k \in Nat /\ k - n \in Nat /\ k = n + (k - n)
    BY <1>1
  <2>2. 2 ^ (n + (k - n)) = 2 ^ n * 2 ^ (k - n) /\ 2 ^ (k - n) \in Int
    BY <2>1, PowerSum, PowerType
  <2> QED BY <2>1, <2>2
<1>7. OfBits(L) \in 0 .. p - 1
  BY OfBitsBound
<1> HIDE DEF v, p
<1>8. PICK f \in Int : SumFunctionOnSet(v, H) = p * f
  <2>1. \A k \in H : v[k] \in Int
    BY <1>1
  <2> HIDE DEF H
  <2> QED BY <1>2, <1>5, <1>6, <2>1, SumMultiple
<1>9. SumFunctionOnSet(v, S) = SumFunctionOnSet(v, L) + SumFunctionOnSet(v, H)
  <2>1. S = L \cup H /\ L \cap H = {} /\ Weighs(v, L \cup H)
    BY <1>1 DEF Weighs
  <2> HIDE DEF L, H
  <2> QED BY <1>2, <2>1, SumUnion
<1>10. OfBits(S) = p * f + OfBits(L)
  BY <1>3, <1>4, <1>5, <1>7, <1>8, <1>9
<1>11. (p * f + OfBits(L)) % p = OfBits(L)
  BY <1>5, <1>7, RemainderIs
<1> QED BY <1>10, <1>11 DEF p

(* And the set of the low n bits is that of the word, below n. *)
LEMMA OnesOfLow ==
  ASSUME NEW v \in Int, NEW n \in 0 .. WordBits
  PROVE  Ones(v % 2 ^ n) = Ones(v) \cap (0 .. n - 1)
<1> DEFINE p == 2 ^ n
           q == v \div p
           r == v % p
<1>1. n \in Nat /\ p \in Nat \ {0}
  BY PowerType, BitsAssumption DEF WordBits
<1>2. q \in Int /\ r \in 0 .. p - 1 /\ v = p * q + r
  BY <1>1, DivideIs
<1> SUFFICES ASSUME NEW k \in 0 .. WordBits - 1
             PROVE  (r \div 2 ^ k) % 2 = 1 <=> k < n /\ (v \div 2 ^ k) % 2 = 1
  <2>1. \A k \in 0 .. WordBits - 1 : k < n <=> k \in 0 .. n - 1
    BY <1>1, BitsAssumption DEF WordBits
  <2> QED BY <2>1 DEF Ones
<1> DEFINE s == 2 ^ k
<1>3. k \in Nat /\ s \in Nat \ {0}
  BY PowerType, BitsAssumption DEF WordBits
<1> HIDE DEF q, r
<1>4. CASE k < n
  <2> DEFINE j == n - k - 1
             t == 2 ^ j
             a == r \div s
             b == r % s
  <2>1. j \in Nat /\ n = k + (j + 1) /\ j + 1 \in Nat
    BY <1>1, <1>3, <1>4
  <2> HIDE DEF j
  <2>2. t \in Nat /\ 2 ^ (j + 1) = 2 * t
    BY <2>1, PowerType, PowerNext
  <2>3. p = s * (2 * t)
    BY <1>3, <2>1, <2>2, PowerSum
  <2>4. a \in Int /\ b \in 0 .. s - 1 /\ r = s * a + b
    <3>1. r \in Int /\ s \in Nat \ {0}
      BY <1>1, <1>2, <1>3
    <3> HIDE DEF s
    <3> QED BY <3>1, DivideIs
  <2> HIDE DEF p, s, t, a, b
  <2>5. v = s * (2 * (t * q) + a) + b /\ t * q \in Int
    <3>1. t * q \in Int /\ (s * (2 * t)) * q = s * (2 * (t * q))
      BY <1>2, <1>3, <2>2
    <3> DEFINE c == 2 * (t * q)
    <3>2. c \in Int
      BY <3>1
    <3> HIDE DEF c
    <3>3. s * (c + a) = s * c + s * a /\ s * c \in Int /\ s * a \in Int
      BY <1>3, <2>4, <3>2
    <3>4. v = s * c + r
      BY <1>2, <2>3, <3>1 DEF c
    <3> QED BY <2>4, <3>1, <3>3, <3>4 DEF c
  <2>6. v \div s = 2 * (t * q) + a
    <3> DEFINE c == 2 * (t * q) + a
    <3>1. c \in Int /\ v = s * c + b /\ s \in Nat \ {0}
      BY <1>3, <2>4, <2>5 DEF s
    <3> HIDE DEF c
    <3>2. (s * c + b) \div s = c
      BY <2>4, <3>1, QuotientIs
    <3> QED BY <3>1, <3>2 DEF c
  <2>7. (2 * (t * q) + a) % 2 = a % 2
    BY <2>4, <2>5, RemainderShift
  <2> QED BY <1>4, <2>6, <2>7 DEF a, s
<1>5. CASE ~(k < n)
  <2>1. k - n \in Nat /\ k = n + (k - n)
    BY <1>1, <1>3, <1>5
  <2>2. 2 ^ (n + (k - n)) = p * 2 ^ (k - n) /\ 2 ^ (k - n) \in Nat \ {0}
    BY <1>1, <2>1, PowerSum, PowerType
  <2>3. p <= s
    <3> DEFINE t == 2 ^ (k - n)
    <3>1. s = p * t /\ t \in Nat \ {0}
      BY <2>1, <2>2
    <3> HIDE DEF p, s, t
    <3>2. p * 1 <= p * t
      BY <1>1, <3>1, ProductGrows
    <3> QED BY <1>1, <3>1, <3>2
  <2> HIDE DEF p, s
  <2>4. r = s * 0 + r /\ r \in 0 .. s - 1
    BY <1>1, <1>2, <1>3, <2>3
  <2>5. r \div s = 0
    BY <1>3, <2>4, QuotientIs
  <2> QED BY <1>5, <2>5 DEF s
<1> QED BY <1>4, <1>5

(* So the bitwise operators too may be applied to the low parts. *)
LEMMA LowBits ==
  ASSUME NEW w \in 0 .. 8, NEW x \in Int, NEW y \in Int
  PROVE  /\ Low(BitAnd(x, y), w) = Low(BitAnd(Low(x, w), Low(y, w)), w)
         /\ Low(BitOr(x, y), w) = Low(BitOr(Low(x, w), Low(y, w)), w)
         /\ Low(BitXor(x, y), w) = Low(BitXor(Low(x, w), Low(y, w)), w)
<1> DEFINE n == Bits * w
           A == 0 .. n - 1
<1>1. n \in 0 .. WordBits /\ n \in Nat
  <2>1. Bits * w <= Bits * 8 /\ Bits * w \in Nat
    BY BitsAssumption, ProductGrows
  <2> QED BY <2>1, BitsAssumption DEF WordBits
<1>2. \A v : Low(v, w) = v % 2 ^ n
  BY DEF Low, Span
<1> HIDE DEF n
<1>3. Ones(Low(x, w)) = Ones(x) \cap A /\ Ones(Low(y, w)) = Ones(y) \cap A
  BY <1>1, <1>2, OnesOfLow
<1>4. ASSUME NEW S \in SUBSET (0 .. WordBits - 1), NEW T \in SUBSET (0 .. WordBits - 1),
             S \cap A = T \cap A
      PROVE  Low(OfBits(S), w) = Low(OfBits(T), w)
  BY <1>1, <1>2, <1>4, LowOfBits
<1>5. \A v : Ones(v) \in SUBSET (0 .. WordBits - 1)
  BY DEF Ones
<1> DEFINE X == Ones(x)
           Y == Ones(y)
           U == Ones(Low(x, w))
           V == Ones(Low(y, w))
<1> HIDE DEF X, Y, U, V, A
<1>6. /\ X \in SUBSET (0 .. WordBits - 1) /\ Y \in SUBSET (0 .. WordBits - 1)
      /\ U \in SUBSET (0 .. WordBits - 1) /\ V \in SUBSET (0 .. WordBits - 1)
      /\ U = X \cap A /\ V = Y \cap A
  BY <1>3, <1>5 DEF X, Y, U, V
<1>7. /\ (X \cap Y) \cap A = (U \cap V) \cap A
      /\ (X \cup Y) \cap A = (U \cup V) \cap A
      /\ ((X \ Y) \cup (Y \ X)) \cap A = ((U \ V) \cup (V \ U)) \cap A
  BY <1>6
<1>8. /\ Low(OfBits(X \cap Y), w) = Low(OfBits(U \cap V), w)
      /\ Low(OfBits(X \cup Y), w) = Low(OfBits(U \cup V), w)
      /\ Low(OfBits((X \ Y) \cup (Y \ X)), w) = Low(OfBits((U \ V) \cup (V \ U)), w)
  BY <1>4, <1>6, <1>7
<1> QED BY <1>8 DEF BitAnd, BitOr, BitXor, X, Y, U, V

---------------------------------------------------------------------------
(* What memory keeps. *)

(* What is stored is loaded again, at any address and width: the value cut *)
(* to the width.                                                           *)
LEMMA ReadBack ==
  ASSUME NEW store \in Memories, NEW a \in Int, NEW v \in Int, NEW w \in Widths
  PROVE  ReadMem(WriteMem(store, a, v, w), a, w) = v % Span(w)
<1> DEFINE base == a % U32
           m == WriteMem(store, a, v, w)
           f == [k \in 0 .. w - 1 |-> m[base + k]]
<1>1. base \in Nat /\ w \in Nat
  BY SizesType DEF Widths
<1>2. ASSUME NEW k \in 0 .. w - 1 PROVE m[base + k] = (v \div Span(k)) % Byte
  <2>1. base + k \in Addresses
    <3>1. k \in 0 .. 7
      BY DEF Widths
    <3> QED BY <3>1, AddressType
  <2>2. base + k \in base .. base + (IF w = 1 THEN 2 ELSE w) - 1 /\ base + k - base = k
    <3> HIDE DEF base
    <3> QED BY <1>1
  <2>3. m = [c \in Addresses |->
               IF c \in base .. base + (IF w = 1 THEN 2 ELSE w) - 1
               THEN (v \div Span(c - base)) % Byte ELSE store[c]]
    BY DEF WriteMem, Memories
  <2> DEFINE c == base + k
  <2>4. c \in Addresses /\ c \in base .. base + (IF w = 1 THEN 2 ELSE w) - 1 /\ c - base = k
    <3> HIDE DEF base
    <3>1. c \in Addresses /\ c \in base .. base + (IF w = 1 THEN 2 ELSE w) - 1
      BY <2>1, <2>2
    <3>2. c - base = k
      BY <1>1
    <3> QED BY <3>1, <3>2
  <2> HIDE DEF base, m, c
  <2>5. m[c] = (v \div Span(c - base)) % Byte
    BY <2>3, <2>4
  <2>6. m[c] = (v \div Span(k)) % Byte
    BY <2>4, <2>5
  <2> QED BY <2>6 DEF c
<1>3. ReadMem(m, a, w) = Digits(f, Bits, w)
  BY DEF ReadMem, Digits, Span
<1>4. \A k \in 0 .. w - 1 : f[k] = (v \div 2 ^ (Bits * k)) % 2 ^ Bits
  BY <1>2, SizesType DEF Span
<1> HIDE DEF f, m, base
<1>5. Digits(f, Bits, w) = v % 2 ^ (Bits * w)
  BY <1>1, <1>4, DigitsOf, BitsAssumption
<1> QED BY <1>3, <1>5 DEF Span, m

(* A store of w bytes, w not 1, changes the w bytes at its address. *)
LEMMA WriteMemFrame ==
  ASSUME NEW store \in Memories, NEW a \in Int, NEW v \in Int, NEW w \in Widths, w # 1
  PROVE  \A c \in Addresses : c \notin a % U32 .. (a % U32) + w - 1 => WriteMem(store, a, v, w)[c] = store[c]
<1>1. DOMAIN store = Addresses
  BY DEF Memories
<1>2. (IF w = 1 THEN 2 ELSE w) = w
  OBVIOUS
<1> QED BY <1>1, <1>2 DEF WriteMem

(* Memories that agree on the bytes of a word agree on the word, *)
LEMMA ReadSame ==
  ASSUME NEW store, NEW m, NEW a, NEW w, \A k \in 0 .. w - 1 : m[(a % U32) + k] = store[(a % U32) + k]
  PROVE  ReadMem(m, a, w) = ReadMem(store, a, w)
<1>1. [k \in 0 .. w - 1 |-> m[(a % U32) + k] * Span(k)] = [k \in 0 .. w - 1 |-> store[(a % U32) + k] * Span(k)]
  OBVIOUS
<1> QED BY <1>1 DEF ReadMem

(* and a store wider than a byte leaves the words beside it alone. *)
LEMMA ReadBeside ==
  ASSUME NEW store \in Memories, NEW a \in 0 .. U32 - 1, NEW v \in Int, NEW w \in Widths, w # 1,
         NEW b \in 0 .. U32 - 1, b >= a + w \/ b + w <= a
  PROVE  ReadMem(WriteMem(store, a, v, w), b, w) = ReadMem(store, b, w)
<1>1. a % U32 = a /\ b % U32 = b /\ a \in Nat /\ b \in Nat /\ w \in Nat
  BY SizesType DEF Widths
<1>2. ASSUME NEW k \in 0 .. w - 1
      PROVE  WriteMem(store, a, v, w)[(b % U32) + k] = store[(b % U32) + k]
  <2>1. (b % U32) + k \in Addresses
    <3>1. k \in 0 .. 7 /\ b \in Int
      BY <1>1 DEF Widths
    <3> QED BY <3>1, AddressType
  <2>2. b + k \notin a .. a + w - 1 /\ (IF w = 1 THEN 2 ELSE w) = w
    BY <1>1
  <2> QED BY <1>1, <2>1, <2>2 DEF WriteMem, Memories
<1> QED BY <1>2, ReadSame

(* Addresses and two of them fit in a register with room to spare. *)
LEMMA WordRoom == U32 + 4 < Word /\ U32 >= 5
<1>1. Byte >= 2
  <2>1. Bits - 1 \in Nat
    BY BitsAssumption
  <2>2. 2 ^ (Bits - 1 + 1) = 2 * 2 ^ (Bits - 1) /\ 2 ^ (Bits - 1) \in Nat \ {0}
    BY <2>1, PowerNext, PowerType
  <2>3. Bits - 1 + 1 = Bits
    BY BitsAssumption
  <2> QED BY <2>2, <2>3, SizesType
<1>2. ASSUME NEW x \in Nat, NEW y \in Nat, x >= 2, y >= x PROVE x * y >= 2 * y
  BY <1>2
<1>3. Span(2) = Byte * Byte /\ Span(4) = Span(2) * Span(2) /\ Span(8) = Span(4) * Span(4)
  <2>1. Span(1 + 1) = Span(1) * Span(1) /\ Span(2 + 2) = Span(2) * Span(2) /\ Span(4 + 4) = Span(4) * Span(4)
    BY SpanSum
  <2>2. 1 + 1 = 2 /\ 2 + 2 = 4 /\ 4 + 4 = 8
    OBVIOUS
  <2> QED BY <2>1, <2>2 DEF Byte
<1>4. Span(2) \in Nat /\ Span(4) \in Nat /\ Byte \in Nat
  BY SpanType, SizesType
<1>5. Span(2) >= 4
  BY <1>1, <1>2, <1>3, <1>4
<1>6. Span(4) >= 2 * Span(2)
  BY <1>2, <1>3, <1>4, <1>5
<1>7. Span(8) >= 2 * Span(4)
  BY <1>2, <1>3, <1>4, <1>5, <1>6
<1>8. Span(8) \in Nat /\ U32 = Span(4) /\ Word = Span(8)
  BY SpanType DEF U32, Word
<1> QED BY <1>4, <1>5, <1>6, <1>7, <1>8

---------------------------------------------------------------------------
(* Operands. *)

Machines == [reg : [0 .. 15 -> Values], mem : Memories]
Flags == {"EQ", "CB", "GT", "LT"}

(* What a machine is made of. *)
LEMMA MachineIs ==
  ASSUME NEW m \in Machines
  PROVE  /\ m = [reg |-> m.reg, mem |-> m.mem]
         /\ m.reg \in [0 .. 15 -> Values] /\ m.mem \in Memories
         /\ \A r \in 0 .. 15 : m.reg[r] \in Values /\ m.reg[r] \in Int
BY DEF Machines, Values

(* An increment or decrement of a register wraps and leaves memory alone. *)
LEMMA BumpType ==
  ASSUME NEW m \in Machines, NEW r \in 0 .. 15, NEW n \in Int
  PROVE  /\ Bump(m, r, n) \in Machines
         /\ Bump(m, r, n) = [reg |-> [m.reg EXCEPT ![r] = (@ + n) % Word], mem |-> m.mem]
<1>1. (m.reg[r] + n) % Word \in Values
  BY MachineIs, WrapType
<1>2. Bump(m, r, n) = [reg |-> [m.reg EXCEPT ![r] = (@ + n) % Word], mem |-> m.mem]
  BY MachineIs DEF Bump
<1>3. [m.reg EXCEPT ![r] = (@ + n) % Word] \in [0 .. 15 -> Values]
  BY <1>1, MachineIs
<1> QED BY <1>2, <1>3, MachineIs DEF Machines

(* Reading an operand gives a value and a machine; reading a register      *)
(* changes nothing. *)
LEMMA ReadOpType ==
  ASSUME NEW m \in Machines, NEW o \in Operands, NEW w \in Widths
  PROVE  /\ ReadOp(m, o, w).m \in Machines
         /\ ReadOp(m, o, w).v \in Values /\ ReadOp(m, o, w).v \in Int
         /\ o.mode = "direct" => ReadOp(m, o, w) = [v |-> m.reg[o.r], m |-> m]
<1>1. o.r \in 0 .. 15 /\ o.mode \in {"direct", "ref", "predec", "postinc", "unknown"}
  BY DEF Operands
<1>2. w \in Int /\ -w \in Int
  BY DEF Widths
<1> DEFINE n == Bump(m, o.r, -w)
           k == Bump(m, o.r, w)
<1>3. n \in Machines /\ k \in Machines
  BY <1>1, <1>2, BumpType
<1>4. \A a \in Int : ReadMem(m.mem, a, w) \in Values /\ ReadMem(n.mem, a, w) \in Values
  <2> HIDE DEF n
  <2> QED BY <1>3, MachineIs, ReadMemType
<1>5. m.reg[o.r] \in Values /\ m.reg[o.r] \in Int /\ n.reg[o.r] \in Int
  <2> HIDE DEF n
  <2> QED BY <1>1, <1>3, MachineIs
<1>6. ReadOp(m, o, w) =
        CASE o.mode = "direct"  -> [v |-> m.reg[o.r], m |-> m]
          [] o.mode = "ref"     -> [v |-> ReadMem(m.mem, m.reg[o.r], w), m |-> m]
          [] o.mode = "predec"  -> [v |-> ReadMem(n.mem, n.reg[o.r], w), m |-> n]
          [] o.mode = "postinc" -> [v |-> ReadMem(m.mem, m.reg[o.r], w), m |-> k]
          [] o.mode = "unknown" -> [v |-> 0, m |-> m]
  BY DEF ReadOp
<1> HIDE DEF n, k
<1>7. 0 \in Values /\ \A x \in Values : x \in Int
  BY SmallValues DEF Values
<1> QED BY <1>1, <1>3, <1>4, <1>5, <1>6, <1>7

(* Writing an operand leaves a machine; writing a register changes no more. *)
LEMMA WriteOpType ==
  ASSUME NEW m \in Machines, NEW o \in Operands, NEW v \in Values, NEW w \in Widths
  PROVE  /\ WriteOp(m, o, v, w) \in Machines
         /\ o.mode = "direct" => WriteOp(m, o, v, w) = [reg |-> [m.reg EXCEPT ![o.r] = v], mem |-> m.mem]
<1>1. o.r \in 0 .. 15 /\ o.mode \in {"direct", "ref", "predec", "postinc", "unknown"}
  BY DEF Operands
<1>2. w \in Int /\ -w \in Int /\ v \in Int
  BY DEF Widths, Values
<1> DEFINE n == Bump(m, o.r, -w)
           d == [m EXCEPT !.reg[o.r] = v]
           x == [m EXCEPT !.mem = WriteMem(@, m.reg[o.r], v, w)]
           y == [n EXCEPT !.mem = WriteMem(@, n.reg[o.r], v, w)]
<1>3. n \in Machines
  BY <1>1, <1>2, BumpType
<1>4. d \in Machines /\ d = [reg |-> [m.reg EXCEPT ![o.r] = v], mem |-> m.mem]
  BY <1>1, MachineIs DEF Machines
<1>5. ASSUME NEW k \in Machines, NEW a \in Int PROVE [k EXCEPT !.mem = WriteMem(@, a, v, w)] \in Machines
  <2>1. WriteMem(k.mem, a, v, w) \in Memories
    BY <1>2, MachineIs, WriteMemType
  <2> QED BY <2>1, MachineIs DEF Machines
<1>6. m.reg[o.r] \in Int /\ n.reg[o.r] \in Int
  <2> HIDE DEF n
  <2> QED BY <1>1, <1>3, MachineIs
<1>7. x \in Machines /\ y \in Machines
  <2> HIDE DEF n
  <2> QED BY <1>3, <1>5, <1>6
<1> DEFINE z == Bump(x, o.r, w)
<1>8. z \in Machines
  <2> HIDE DEF x
  <2> QED BY <1>1, <1>2, <1>7, BumpType
<1>9. WriteOp(m, o, v, w) =
        CASE o.mode = "direct"  -> d
          [] o.mode = "ref"     -> x
          [] o.mode = "predec"  -> y
          [] o.mode = "postinc" -> z
          [] o.mode = "unknown" -> m
  BY DEF WriteOp
<1> HIDE DEF d, x, y, z
<1> QED BY <1>1, <1>4, <1>7, <1>8, <1>9

(* So does reading two, in either order. *)
LEMMA ReadBothType ==
  ASSUME NEW m \in Machines, NEW a \in Operands, NEW b \in Operands, NEW w \in Widths,
         NEW z \in ReadBoth(m, a, b, w)
  PROVE  z.m \in Machines /\ z.x \in Values /\ z.y \in Values /\ z.y \in Int
<1>1. \A k \in Machines, o \in Operands : ReadOp(k, o, w).m \in Machines /\ ReadOp(k, o, w).v \in Values
  BY ReadOpType
<1>2. \A x \in Values : x \in Int
  BY DEF Values
<1> QED BY <1>1, <1>2 DEF ReadBoth

(* What PUSH leads to after k registers: the machine of the last, with the *)
(* register written if the mask has it.                                    *)
PushOne(i, k, m) == IF k - 1 \in i.imm THEN WriteOp(m, i.a, m.reg[k - 1], i.w) ELSE m
Pushes(f, i, m) ==
  f = [k \in 0 .. 16 |->
         IF k = 0 THEN m
         ELSE IF k - 1 \in i.imm
              THEN WriteOp(f[k - 1], i.a, f[k - 1].reg[k - 1], i.w)
              ELSE f[k - 1]]
Pushed(i, m) == CHOOSE f : Pushes(f, i, m)

(* One register of PUSH leaves a machine, *)
LEMMA PushOneType ==
  ASSUME NEW i, i.a \in Operands, i.w \in Widths, NEW k \in 1 .. 16, NEW m \in Machines
  PROVE  PushOne(i, k, m) \in Machines
<1>1. k - 1 \in 0 .. 15
  OBVIOUS
<1>2. m.reg[k - 1] \in Values
  BY <1>1, MachineIs
<1> QED BY <1>2, WriteOpType DEF PushOne

(* and so do all sixteen: the recursion of Push has a meaning. *)
LEMMA PushedIs ==
  ASSUME NEW i, i.a \in Operands, i.w \in Widths, NEW m \in Machines
  PROVE  /\ Pushed(i, m)[0] = m
         /\ \A k \in 1 .. 16 : Pushed(i, m)[k] = PushOne(i, k, Pushed(i, m)[k - 1])
         /\ \A k \in 0 .. 16 : Pushed(i, m)[k] \in Machines
<1> DEFINE step == [k \in 1 .. 16 |-> [x \in Machines |-> PushOne(i, k, x)]]
<1>1. \A k \in 1 .. 16 : Maps(step[k], Machines, Machines)
  BY PushOneType DEF Maps
<1>2. PICK g : Maps(g, 0 .. 16, Machines) /\ Unrolls(g, 16, m, step)
  <2> HIDE DEF step
  <2> QED BY <1>1, RecursionExists
<1>3. Pushes(g, i, m)
  <2>1. ASSUME NEW k \in 0 .. 16, k # 0 PROVE step[k][g[k - 1]] = PushOne(i, k, g[k - 1])
    <3>1. k \in 1 .. 16 /\ k - 1 \in 0 .. 16
      BY <2>1
    <3>2. g[k - 1] \in Machines
      BY <1>2, <3>1 DEF Maps
    <3> QED BY <3>1, <3>2
  <2>2. g = [k \in 0 .. 16 |-> IF k = 0 THEN m ELSE step[k][g[k - 1]]]
    BY <1>2 DEF Unrolls
  <2> HIDE DEF step
  <2>3. g = [k \in 0 .. 16 |-> IF k = 0 THEN m ELSE PushOne(i, k, g[k - 1])]
    BY <2>1, <2>2
  <2> QED BY <2>3 DEF Pushes, PushOne
<1>4. Pushes(Pushed(i, m), i, m)
  BY <1>3 DEF Pushed
<1> DEFINE f == Pushed(i, m)
<1>5. f[0] = m /\ \A k \in 1 .. 16 : f[k] = PushOne(i, k, f[k - 1])
  <2>1. f = [k \in 0 .. 16 |->
         IF k = 0 THEN m
         ELSE IF k - 1 \in i.imm
              THEN WriteOp(f[k - 1], i.a, f[k - 1].reg[k - 1], i.w)
              ELSE f[k - 1]]
    BY <1>4 DEF Pushes
  <2> HIDE DEF f
  <2>2. \A k \in 1 .. 16 : k # 0 /\ k \in 0 .. 16
    OBVIOUS
  <2>3. 0 \in 0 .. 16
    OBVIOUS
  <2> QED BY <2>1, <2>2, <2>3 DEF PushOne
<1> HIDE DEF f
<1> DEFINE Bad == {k \in 0 .. 16 : f[k] \notin Machines}
<1>6. ASSUME Bad # {} PROVE FALSE
  <2>1. PICK k \in Bad : \A n \in Bad : k <= n
    <3>1. Bad \in SUBSET Nat
      OBVIOUS
    <3> HIDE DEF Bad
    <3> QED BY <1>6, <3>1, LeastOf
  <2>2. k \in 1 .. 16 /\ k - 1 \in 0 .. 16 /\ k - 1 \notin Bad
    BY <2>1, <1>5
  <2>3. f[k - 1] \in Machines /\ f[k] = PushOne(i, k, f[k - 1])
    BY <2>2, <1>5
  <2>4. f[k] \in Machines
    BY <2>2, <2>3, PushOneType
  <2> QED BY <2>1, <2>4
<1>7. \A k \in 0 .. 16 : f[k] \in Machines
  BY <1>6
<1> QED BY <1>5, <1>7 DEF f

---------------------------------------------------------------------------
(* Where an instruction ends. *)

(* The next instruction is at an address. *)
LEMMA AfterType ==
  ASSUME NEW i, WellFormed(i), ip \in 0 .. U32 - 1
  PROVE  After(i) \in 0 .. U32 - 1 /\ Length(i) \in Nat
<1>1. Length(i) \in Nat
  <2>1. i.op \in Operations /\ (i.op \in ImmRegOps \cup {"DIVI"} => i.w \in Nat)
    BY DEF WellFormed, Widths, Wide
  <2>2. \/ i.op \in {"NOP", "RET", "STOP", "EXT", "UNKNOWN"}
        \/ i.op \in {"INC", "DEC", "CLR", "NOT", "JMPM", "CALLM", "FREE"}
        \/ i.op \in RegRegOps \cup Imm8RegOps
        \/ i.op \in {"PUSH", "POP", "DIV"}
        \/ i.op \in BranchOps \cup {"JMPI", "CALLI", "CALL", "SYSCALL"}
        \/ i.op \in {"ALLOC", "REFER"}
        \/ i.op \in ImmRegOps
        \/ i.op = "DIVI"
        \/ i.op = "FLOAD"
    BY <2>1, Zenon DEF Operations, HaveA, HaveTarget, Wide
  <2> QED BY <2>1, <2>2 DEF Length
<1>2. (ip + Length(i)) % U32 \in 0 .. U32 - 1
  <2>1. ip + Length(i) \in Int
    BY <1>1
  <2> QED BY <2>1, WrapType
<1> QED BY <1>1, <1>2 DEF After

(* So is where a branch leads, and what REFER computes is a value. *)
LEMMA LandType ==
  ASSUME NEW x \in Int, NEW y \in Int
  PROVE  Land(x, y) \in 0 .. U32 - 1 /\ ReferTo(x, y) \in Values
<1>1. (x + y + 4) % U32 \in 0 .. U32 - 1 /\ (x + y + 3) % U32 \in Values
  BY WrapType
<1> QED BY <1>1 DEF Land, ReferTo

---------------------------------------------------------------------------
(* Every instruction but a few ends in a machine, conditions and an        *)
(* address of the right types.                                             *)
Moves == \E m \in Machines, c \in SUBSET Flags, a \in 0 .. U32 - 1 : Goto(m, c, a)

(* The registers and the memory are a machine. *)
LEMMA NowMachine ==
  ASSUME TypeOK
  PROVE  /\ Machine \in Machines /\ cond \in SUBSET Flags /\ ip \in 0 .. U32 - 1
         /\ Machine.reg = reg /\ Machine.mem = mem
BY DEF TypeOK, Machine, Machines, Flags

(* An instruction that ends in a machine moves. *)
LEMMA DoneMoves ==
  ASSUME TypeOK, NEW i, WellFormed(i), NEW m \in Machines, NEW c \in SUBSET Flags, Done(i, m, c)
  PROVE  Moves
BY NowMachine, AfterType DEF Moves, Done

(* The conditions instructions set are conditions. *)
LEMMA FlagSets ==
  /\ \A v : Zero(v) \in SUBSET Flags
  /\ \A v, w : Zero(v) \cup (IF Low(v, w) = Low(-1, w) THEN {"CB"} ELSE {}) \in SUBSET Flags
  /\ {} \in SUBSET Flags /\ {"EQ"} \in SUBSET Flags
BY DEF Zero, Flags

(* So are those of a comparison. *)
LEMMA OrderFlags ==
  ASSUME NEW y \in Int, NEW x \in Int
  PROVE  Order(y, x) \in SUBSET Flags
BY DEF Order, Flags

(* What an instruction of each kind carries. *)
LEMMA Carries ==
  ASSUME NEW i, WellFormed(i)
  PROVE  /\ i.op \in {"LOAD", "MOVE", "PUSH", "POP", "INC", "DEC", "CLR", "NOT", "TSTI", "TST",
                      "CMPI", "CMP", "DIVI", "DIV", "FLOAD", "FCAST", "ROL", "ROR", "ROLI", "RORI"}
                      \cup AluOps
            => i.w \in Widths /\ i.a \in Operands
         /\ i.op \in {"JMPM", "CALLM", "FREE", "ALLOC", "REFER"} => i.a \in Operands
         /\ i.op \in {"MOVE", "TST", "CMP", "DIVI", "DIV", "ROL", "ROR", "ADD", "SUB", "MUL",
                      "AND", "OR", "XOR", "LSL", "LSR"}
            => i.b \in Operands
         /\ i.op = "DIV" => i.c \in Operands
         /\ i.op \in {"LOAD", "CMPI", "DIVI", "FLOAD", "TSTI", "ROLI", "RORI", "ADDI", "SUBI", "MULI",
                      "ANDI", "ORI", "XORI", "LSLI", "LSRI"}
            => i.imm \in Values /\ i.imm \in Int
         /\ i.op \in {"PUSH", "POP"} => i.imm \subseteq 0 .. 15
         /\ i.op \in BranchOps \cup {"JMPI", "CALLI", "CALL", "REFER"} => i.imm \in 0 .. U32 - 1
<1>1. \A x \in Values : x \in Int
  BY DEF Values
<1>2. AluOps \subseteq Wide
  BY DEF AluOps, Wide, RegRegOps, ImmRegOps, Imm8RegOps
<1>3. {"LOAD", "MOVE", "PUSH", "POP", "INC", "DEC", "CLR", "NOT", "TSTI", "TST", "CMPI", "CMP",
       "DIVI", "DIV", "FLOAD", "FCAST", "ROL", "ROR", "ROLI", "RORI"} \subseteq Wide
  BY DEF Wide, RegRegOps, ImmRegOps, Imm8RegOps
<1>4. {"LOAD", "CMPI", "DIVI", "FLOAD", "TSTI", "ROLI", "RORI", "ADDI", "SUBI", "MULI",
       "ANDI", "ORI", "XORI", "LSLI", "LSRI"} \subseteq HaveValue
  BY DEF HaveValue, ImmRegOps, Imm8RegOps
<1>5. {"MOVE", "TST", "CMP", "DIVI", "DIV", "ROL", "ROR", "ADD", "SUB", "MUL", "AND", "OR", "XOR",
       "LSL", "LSR"} \subseteq HaveB
  BY DEF HaveB, RegRegOps
<1>6. Wide \subseteq HaveA /\ {"JMPM", "CALLM", "FREE", "ALLOC", "REFER"} \subseteq HaveA
  BY DEF HaveA
<1>7. BranchOps \cup {"JMPI", "CALLI", "CALL", "REFER"} = HaveTarget
  BY DEF HaveTarget
<1> QED BY <1>1, <1>2, <1>3, <1>4, <1>5, <1>6, <1>7 DEF WellFormed

(* Instructions that leave their result where operand o says set the       *)
(* condition EQ exactly when the result is zero.                           *)
Sets(o, w) ==
  \E m \in Machines, v \in Values, c \in SUBSET Flags, a \in 0 .. U32 - 1 :
    Goto(WriteOp(m, o, v, w), c, a) /\ ("EQ" \in c <=> v = 0)

(* Where they leave it. *)
Result(i) == IF i.op \in OneOperand THEN i.a ELSE i.b

(* A value written and its conditions set: what makes an instruction Set.  *)
LEMMA DoneSets ==
  ASSUME TypeOK, NEW i, WellFormed(i), NEW o, NEW w,
         NEW m \in Machines, NEW v \in Values, NEW c, c \in SUBSET Flags,
         "EQ" \in c <=> v = 0, Done(i, WriteOp(m, o, v, w), c)
  PROVE  Sets(o, w)
BY NowMachine, AfterType DEF Sets, Done

(* Such an instruction moves, and EQ then tells whether the register that  *)
(* has the result is zero.                                                 *)
LEMMA SetsMoves ==
  ASSUME NEW o \in Operands, NEW w \in Widths, Sets(o, w)
  PROVE  Moves /\ (o.mode = "direct" => ("EQ" \in cond' <=> reg'[o.r] = 0))
<1>1. PICK m \in Machines, v \in Values, c \in SUBSET Flags, a \in 0 .. U32 - 1 :
        Goto(WriteOp(m, o, v, w), c, a) /\ ("EQ" \in c <=> v = 0)
  BY DEF Sets
<1> DEFINE n == WriteOp(m, o, v, w)
<1>2. n \in Machines /\ (o.mode = "direct" => n = [reg |-> [m.reg EXCEPT ![o.r] = v], mem |-> m.mem])
  BY WriteOpType
<1>3. Goto(n, c, a)
  BY <1>1
<1>4. o.r \in 0 .. 15 /\ m.reg \in [0 .. 15 -> Values]
  BY MachineIs DEF Operands
<1> HIDE DEF n
<1>5. Moves
  BY <1>2, <1>3 DEF Moves
<1>6. ASSUME o.mode = "direct" PROVE "EQ" \in cond' <=> reg'[o.r] = 0
  <2>1. n.reg[o.r] = v
    BY <1>2, <1>4, <1>6
  <2>2. reg' = n.reg /\ cond' = c
    BY <1>3 DEF Goto
  <2> QED BY <1>1, <2>1, <2>2
<1> QED BY <1>5, <1>6

(* The instructions of which ZeroFlag speaks are such instructions. *)
LEMMA ResultsSet ==
  ASSUME TypeOK, NEW i, WellFormed(i),
         \/ Load(i) \/ Move(i) \/ Inc(i) \/ Dec(i) \/ Clr(i)
         \/ AluImm(i) \/ AluReg(i) \/ RotateImm(i) \/ RotateReg(i)
  PROVE  i.w \in Widths /\ Result(i) \in Operands /\ Sets(Result(i), i.w)
<1>1. Machine \in Machines /\ cond \in SUBSET Flags
  BY NowMachine
<1>2. i.w \in Widths /\ i.a \in Operands
  BY Carries DEF Load, Move, Inc, Dec, Clr, AluImm, AluReg, RotateImm, RotateReg, AluOps
<1>3. \A v : Zero(v) \in SUBSET Flags /\ ("EQ" \in Zero(v) <=> v = 0)
  BY DEF Zero, Flags
<1> DEFINE x == ReadOp(Machine, i.a, i.w)
<1>4. x.m \in Machines /\ x.v \in Values /\ x.v \in Int
  BY <1>1, <1>2, ReadOpType
<1> SUFFICES \/ i.op \in OneOperand /\ Sets(i.a, i.w)
             \/ i.op \notin OneOperand /\ i.b \in Operands /\ Sets(i.b, i.w)
  BY <1>2 DEF Result
<1>5. CASE Load(i)
  <2>1. i.imm \in Values /\ i.op \in OneOperand
    BY <1>5, Carries DEF Load, OneOperand
  <2>2. Done(i, WriteOp(Machine, i.a, i.imm, i.w), Zero(i.imm))
    BY <1>5 DEF Load
  <2> QED BY <1>1, <1>3, <2>1, <2>2, DoneSets
<1>6. CASE Move(i)
  <2>1. i.b \in Operands /\ i.op \notin OneOperand
    BY <1>6, Carries DEF Move, OneOperand
  <2>2. Done(i, WriteOp(x.m, i.b, x.v, i.w), Zero(x.v))
    BY <1>6 DEF Move
  <2> HIDE DEF x
  <2> QED BY <1>3, <1>4, <2>1, <2>2, DoneSets
<1>7. CASE Inc(i)
  <2> DEFINE v == (x.v + 1) % Word
             c == Zero(v) \cup (IF Low(x.v, i.w) = Low(-1, i.w) THEN {"CB"} ELSE {})
  <2>1. Done(i, WriteOp(x.m, i.a, v, i.w), c) /\ i.op \in OneOperand
    BY <1>7 DEF Inc, OneOperand
  <2>2. c \in SUBSET Flags /\ ("EQ" \in c <=> v = 0)
    BY DEF Zero, Flags
  <2> HIDE DEF x, c
  <2>3. v \in Values
    <3>1. x.v + 1 \in Int
      BY <1>4
    <3> QED BY <3>1, WrapType
  <2> HIDE DEF v
  <2> QED BY <1>4, <2>1, <2>2, <2>3, DoneSets
<1>8. CASE Dec(i)
  <2> DEFINE old == Low(x.v, i.w)
             v == (old - 1) % Word
             c == Zero(v) \cup (IF old = 0 THEN {"CB"} ELSE {})
  <2>1. Done(i, WriteOp(x.m, i.a, v, i.w), c) /\ i.op \in OneOperand
    BY <1>8 DEF Dec, OneOperand
  <2>2. c \in SUBSET Flags /\ ("EQ" \in c <=> v = 0)
    BY DEF Zero, Flags
  <2> HIDE DEF x, c
  <2>3. old \in Int
    <3>1. i.w \in 0 .. 8
      BY <1>2 DEF Widths
    <3>2. Low(x.v, i.w) \in Values
      BY <1>4, <3>1, LowType
    <3> QED BY <3>2 DEF Values
  <2> HIDE DEF old
  <2>4. v \in Values
    <3>1. old - 1 \in Int
      BY <2>3
    <3> QED BY <3>1, WrapType
  <2> HIDE DEF v
  <2> QED BY <1>4, <2>1, <2>2, <2>4, DoneSets
<1>9. CASE Clr(i)
  <2>1. 0 \in Values
    BY SmallValues
  <2>2. Done(i, WriteOp(Machine, i.a, 0, i.w), {"EQ"}) /\ i.op \in OneOperand
    BY <1>9 DEF Clr, OneOperand
  <2>3. {"EQ"} \in SUBSET Flags /\ "EQ" \in {"EQ"}
    BY DEF Flags
  <2> QED BY <1>1, <2>1, <2>2, <2>3, DoneSets
<1>10. CASE AluImm(i)
  <2> DEFINE v == Alu(i.op, x.v, i.imm)
  <2>1. Done(i, WriteOp(x.m, i.a, v, i.w), Zero(v)) /\ i.op \in OneOperand
    BY <1>10 DEF AluImm, OneOperand
  <2>2. i.imm \in Int /\ i.op \in AluOps
    BY <1>10, Carries DEF AluImm, AluOps
  <2> HIDE DEF x
  <2>3. v \in Values
    BY <1>4, <2>2, AluType
  <2> HIDE DEF v
  <2> QED BY <1>3, <1>4, <2>1, <2>3, DoneSets
<1>11. CASE AluReg(i)
  <2>1. PICK z \in ReadBoth(Machine, i.a, i.b, i.w) :
          Done(i, WriteOp(z.m, i.b, Alu(i.op, z.x, z.y), i.w), Zero(Alu(i.op, z.x, z.y)))
    BY <1>11 DEF AluReg
  <2>2. i.b \in Operands /\ i.op \in AluOps /\ i.op \notin OneOperand
    BY <1>11, Carries DEF AluReg, AluOps, OneOperand
  <2>3. z.m \in Machines /\ z.x \in Values /\ z.y \in Int
    BY <1>1, <1>2, <2>2, ReadBothType
  <2> DEFINE v == Alu(i.op, z.x, z.y)
  <2>4. v \in Values
    BY <2>2, <2>3, AluType
  <2>5. Done(i, WriteOp(z.m, i.b, v, i.w), Zero(v))
    BY <2>1
  <2> HIDE DEF v
  <2> QED BY <1>3, <2>2, <2>3, <2>4, <2>5, DoneSets
<1>12. CASE RotateImm(i)
  <2> DEFINE v == Rotate(i.op, Low(x.v, i.w), i.imm, i.w)
  <2>1. Done(i, WriteOp(x.m, i.a, v, i.w), Zero(v)) /\ i.op \in OneOperand
    BY <1>12 DEF RotateImm, OneOperand
  <2> HIDE DEF x
  <2>2. v \in Values
    BY <1>2, RotateType
  <2> HIDE DEF v
  <2> QED BY <1>3, <1>4, <2>1, <2>2, DoneSets
<1>13. CASE RotateReg(i)
  <2> DEFINE n == ReadOp(Machine, i.a, 1)
             y == ReadOp(n.m, i.b, i.w)
             v == Rotate(i.op, Low(y.v, i.w), n.v, i.w)
  <2>1. Done(i, WriteOp(y.m, i.b, v, i.w), Zero(v))
    BY <1>13 DEF RotateReg
  <2>2. i.b \in Operands /\ i.op \notin OneOperand
    BY <1>13, Carries DEF RotateReg, OneOperand
  <2>3. n.m \in Machines
    <3>1. 1 \in Widths
      BY DEF Widths
    <3> QED BY <1>1, <1>2, <3>1, ReadOpType
  <2> HIDE DEF n
  <2>4. y.m \in Machines
    BY <1>2, <2>2, <2>3, ReadOpType
  <2> HIDE DEF y
  <2>5. v \in Values
    BY <1>2, RotateType
  <2> HIDE DEF v
  <2> QED BY <1>3, <2>1, <2>2, <2>4, <2>5, DoneSets
<1> QED BY <1>5, <1>6, <1>7, <1>8, <1>9, <1>10, <1>11, <1>12, <1>13

(* So do the other instructions that move, store or divide. *)
LEMMA DataMoves ==
  ASSUME TypeOK, NEW i, WellFormed(i), Nop(i) \/ Push(i) \/ Not(i) \/ DivImm(i) \/ DivReg(i)
  PROVE  Moves
<1>1. Machine \in Machines /\ cond \in SUBSET Flags
  BY NowMachine
<1> DEFINE x == ReadOp(Machine, i.a, i.w)
<1>2. CASE Nop(i)
  BY <1>1, <1>2, DoneMoves DEF Nop
<1>3. CASE Push(i)
  <2>1. i.a \in Operands /\ i.w \in Widths
    BY <1>3, Carries DEF Push
  <2>2. Done(i, Pushed(i, Machine)[16], {})
    BY <1>3 DEF Push, Pushed, Pushes
  <2>3. Pushed(i, Machine)[16] \in Machines
    BY <1>1, <2>1, PushedIs
  <2> QED BY <2>2, <2>3, FlagSets, DoneMoves
<1>4. CASE Not(i)
  <2> DEFINE v == IF x.v = 0 THEN 1 ELSE 0
             c == IF v = 0 THEN {"EQ"} ELSE cond
  <2>1. i.a \in Operands /\ i.w \in Widths
    BY <1>4, Carries DEF Not
  <2>2. x.m \in Machines
    BY <1>1, <2>1, ReadOpType
  <2>3. Done(i, WriteOp(x.m, i.a, v, i.w), c)
    BY <1>4 DEF Not
  <2>4. v \in Values /\ c \in SUBSET Flags
    BY <1>1, SmallValues, FlagSets
  <2> HIDE DEF x, v, c
  <2>5. WriteOp(x.m, i.a, v, i.w) \in Machines
    BY <2>1, <2>2, <2>4, WriteOpType
  <2> QED BY <2>3, <2>4, <2>5, DoneMoves
<1>5. ASSUME DivImm(i) \/ DivReg(i)
      PROVE  i.w \in Widths /\ i.a \in Operands /\ x.m \in Machines /\ x.v \in Values
  <2>1. i.w \in Widths /\ i.a \in Operands
    BY <1>5, Carries DEF DivImm, DivReg
  <2> QED BY <1>1, <2>1, ReadOpType
<1>6. CASE DivImm(i)
  <2> DEFINE q == x.v \div i.imm
             r == x.v % i.imm
             m == WriteOp(x.m, i.a, q, i.w)
  <2>1. Done(i, WriteOp(m, i.b, r, i.w), {})
    BY <1>6 DEF DivImm
  <2>2. i.b \in Operands /\ i.imm \in Values /\ i.imm # 0
    BY <1>6, Carries DEF DivImm
  <2> HIDE DEF x
  <2>3. q \in Values /\ r \in Values
    BY <1>5, <1>6, <2>2, QuotientType
  <2> HIDE DEF q, r
  <2>4. m \in Machines
    BY <1>5, <1>6, <2>3, WriteOpType
  <2> HIDE DEF m
  <2>5. WriteOp(m, i.b, r, i.w) \in Machines
    BY <1>5, <1>6, <2>2, <2>3, <2>4, WriteOpType
  <2> QED BY <2>1, <2>5, FlagSets, DoneMoves
<1>7. CASE DivReg(i)
  <2> DEFINE y == ReadOp(x.m, i.b, i.w)
             q == x.v \div y.v
             r == x.v % y.v
             m == WriteOp(y.m, i.b, q, i.w)
  <2>1. Done(i, WriteOp(m, i.c, r, i.w), {}) /\ y.v # 0
    BY <1>7 DEF DivReg
  <2>2. i.b \in Operands /\ i.c \in Operands
    BY <1>7, Carries DEF DivReg
  <2> HIDE DEF x
  <2>3. y.m \in Machines /\ y.v \in Values
    BY <1>5, <1>7, <2>2, ReadOpType
  <2> HIDE DEF y
  <2>4. q \in Values /\ r \in Values
    BY <1>5, <1>7, <2>1, <2>3, QuotientType
  <2> HIDE DEF q, r
  <2>5. m \in Machines
    BY <1>5, <1>7, <2>2, <2>3, <2>4, WriteOpType
  <2> HIDE DEF m
  <2>6. WriteOp(m, i.c, r, i.w) \in Machines
    BY <1>5, <1>7, <2>2, <2>4, <2>5, WriteOpType
  <2> QED BY <2>1, <2>6, FlagSets, DoneMoves
<1> QED BY <1>2, <1>3, <1>4, <1>6, <1>7

(* Tests, comparisons and floating point move, *)
LEMMA TestMoves ==
  ASSUME TypeOK, NEW i, WellFormed(i),
         TestImm(i) \/ TestReg(i) \/ CompareImm(i) \/ CompareReg(i) \/ FLoad(i) \/ FCast(i)
  PROVE  Moves
<1>1. Machine \in Machines /\ cond \in SUBSET Flags
  BY NowMachine
<1> DEFINE x == ReadOp(Machine, i.a, i.w)
<1>2. i.w \in Widths /\ i.a \in Operands
  BY Carries DEF TestImm, TestReg, CompareImm, CompareReg, FLoad, FCast
<1>3. x.m \in Machines /\ x.v \in Int
  BY <1>1, <1>2, ReadOpType
<1>4. CASE TestImm(i)
  <2> DEFINE c == IF BitAnd(x.v, BitMask(i.imm)) = 0 THEN {"EQ"} ELSE cond
  <2>1. Done(i, x.m, c)
    BY <1>4 DEF TestImm
  <2>2. c \in SUBSET Flags
    BY <1>1, FlagSets
  <2> QED BY <1>3, <2>1, <2>2, DoneMoves
<1>5. CASE TestReg(i)
  <2> DEFINE n == ReadOp(Machine, i.a, 1)
             y == ReadOp(n.m, i.b, i.w)
  <2>1. Done(i, y.m, Zero(BitAnd(y.v, BitMask(n.v))))
    BY <1>5 DEF TestReg
  <2>2. i.b \in Operands
    BY <1>5, Carries DEF TestReg
  <2>3. n.m \in Machines
    <3>1. 1 \in Widths
      BY DEF Widths
    <3> QED BY <1>1, <1>2, <3>1, ReadOpType
  <2> HIDE DEF n
  <2>4. y.m \in Machines
    BY <1>2, <2>2, <2>3, ReadOpType
  <2> HIDE DEF y
  <2> QED BY <2>1, <2>4, FlagSets, DoneMoves
<1>6. CASE CompareImm(i)
  <2>1. Done(i, x.m, Order(i.imm, x.v))
    BY <1>6 DEF CompareImm
  <2>2. i.imm \in Int
    BY <1>6, Carries DEF CompareImm
  <2>3. Order(i.imm, x.v) \in SUBSET Flags
    BY <1>3, <2>2, OrderFlags
  <2> QED BY <1>3, <2>1, <2>3, DoneMoves
<1>7. CASE CompareReg(i)
  <2> DEFINE y == ReadOp(x.m, i.b, i.w)
  <2>1. Done(i, y.m, Order(y.v, x.v))
    BY <1>7 DEF CompareReg
  <2>2. i.b \in Operands
    BY <1>7, Carries DEF CompareReg
  <2> HIDE DEF x
  <2>3. y.m \in Machines /\ y.v \in Int
    BY <1>2, <1>3, <2>2, ReadOpType
  <2> HIDE DEF y
  <2>4. Order(y.v, x.v) \in SUBSET Flags
    BY <1>3, <2>3, OrderFlags
  <2> QED BY <2>1, <2>3, <2>4, DoneMoves
<1>8. CASE FLoad(i)
  <2>1. i.imm \in Values
    BY <1>8, Carries DEF FLoad
  <2>2. WriteOp(Machine, i.a, i.imm, i.w) \in Machines
    BY <1>1, <1>2, <2>1, WriteOpType
  <2> QED BY <1>1, <1>8, <2>2, DoneMoves DEF FLoad
<1>9. CASE FCast(i)
  <2> HIDE DEF x
  <2>1. CASE Done(i, x.m, cond)
    BY <1>1, <1>3, <2>1, DoneMoves
  <2>2. ASSUME NEW f \in FloatValues, Done(i, WriteOp(x.m, i.a, f, i.w), cond) PROVE Moves
    <3>1. f \in Values
      BY VmAssumption
    <3>2. WriteOp(x.m, i.a, f, i.w) \in Machines
      BY <1>2, <1>3, <3>1, WriteOpType
    <3> QED BY <1>1, <2>2, <3>2, DoneMoves
  <2> QED BY <1>9, <2>1, <2>2 DEF FCast, x
<1> QED BY <1>4, <1>5, <1>6, <1>7, <1>8, <1>9

(* branches, jumps, calls and returns, *)
LEMMA FlowMoves ==
  ASSUME TypeOK, NEW i, WellFormed(i),
         Branch(i) \/ JumpImm(i) \/ JumpReg(i) \/ Call(i) \/ Ret(i)
  PROVE  Moves
<1>1. Machine \in Machines /\ cond \in SUBSET Flags
  BY NowMachine
<1>2. After(i) \in 0 .. U32 - 1 /\ After(i) \in Int /\ After(i) \in Values
  <2>1. After(i) \in 0 .. U32 - 1
    BY NowMachine, AfterType
  <2> QED BY <2>1, SizesType DEF Values
<1>3. PushSP \in Operands /\ PopSP \in Operands /\ 4 \in Widths
  BY DEF PushSP, PopSP, SP, Operands, Widths
<1>4. \A v \in Int : v % U32 \in 0 .. U32 - 1
  BY WrapType
<1>5. ASSUME i.op \in BranchOps \cup {"JMPI", "CALLI", "CALL"}
      PROVE  i.imm \in 0 .. U32 - 1 /\ Land(After(i), i.imm) \in 0 .. U32 - 1
  <2>1. i.imm \in 0 .. U32 - 1
    BY <1>5, Carries
  <2>2. i.imm \in Int
    BY <2>1
  <2> QED BY <2>1, <2>2, <1>2, LandType
<1>6. CASE Branch(i)
  BY <1>1, <1>2, <1>5, <1>6 DEF Branch, Moves
<1>7. CASE JumpImm(i)
  BY <1>1, <1>5, <1>7 DEF JumpImm, Moves
<1>8. CASE JumpReg(i)
  <2> DEFINE x == ReadOp(Machine, i.a, 4)
  <2>1. Goto(x.m, cond, x.v % U32)
    BY <1>8 DEF JumpReg
  <2>2. x.m \in Machines /\ x.v \in Int
    BY <1>1, <1>3, <1>8, Carries, ReadOpType DEF JumpReg
  <2> HIDE DEF x
  <2> QED BY <1>1, <1>4, <2>1, <2>2 DEF Moves
<1>9. CASE Call(i)
  <2> DEFINE p == WriteOp(Machine, PushSP, After(i), 4)
  <2>1. p \in Machines
    BY <1>1, <1>2, <1>3, WriteOpType
  <2>2. CASE i.op = "CALLI" /\ Goto(p, cond, i.imm)
    BY <1>1, <1>5, <2>1, <2>2 DEF Moves
  <2>3. CASE i.op = "CALL" /\ Goto(p, cond, Land(After(i), i.imm))
    BY <1>1, <1>5, <2>1, <2>3 DEF Moves
  <2>4. CASE i.op = "CALLM" /\ Goto(ReadOp(p, i.a, 4).m, cond, ReadOp(p, i.a, 4).v % U32)
    <3> DEFINE x == ReadOp(p, i.a, 4)
    <3>1. i.a \in Operands
      BY <2>4, Carries
    <3> HIDE DEF p
    <3>2. x.m \in Machines /\ x.v \in Int
      BY <1>3, <2>1, <3>1, ReadOpType
    <3>3. Goto(x.m, cond, x.v % U32)
      BY <2>4
    <3> HIDE DEF x
    <3> QED BY <1>1, <1>4, <3>2, <3>3 DEF Moves
  <2> QED BY <1>9, <2>2, <2>3, <2>4 DEF Call
<1>10. CASE Ret(i)
  <2> DEFINE x == ReadOp(Machine, PopSP, 4)
  <2>1. Goto(x.m, cond, x.v % U32)
    BY <1>10 DEF Ret
  <2>2. x.m \in Machines /\ x.v \in Int
    BY <1>1, <1>3, ReadOpType
  <2> HIDE DEF x
  <2> QED BY <1>1, <1>4, <2>1, <2>2 DEF Moves
<1> QED BY <1>6, <1>7, <1>8, <1>9, <1>10

(* and ALLOC, FREE, REFER and the system calls. *)
LEMMA SystemMoves ==
  ASSUME TypeOK, NEW i, WellFormed(i),
         Alloc(i) \/ Free(i) \/ Refer(i) \/ Syscall(i)
  PROVE  Moves
<1>1. Machine \in Machines /\ cond \in SUBSET Flags
  BY NowMachine
<1>2. PopSP \in Operands /\ 4 \in Widths /\ 1 \in Widths
  BY DEF PopSP, SP, Operands, Widths
<1>3. CASE Alloc(i)
  <2>1. i.a \in Operands
    BY <1>3, Carries DEF Alloc
  <2>2. PICK p \in HostPointers : Done(i, WriteOp(Machine, i.a, p, 4), cond)
    BY <1>3 DEF Alloc
  <2>3. p \in Values
    BY VmAssumption
  <2>4. WriteOp(Machine, i.a, p, 4) \in Machines
    BY <1>1, <1>2, <2>1, <2>3, WriteOpType
  <2> QED BY <1>1, <2>2, <2>4, DoneMoves
<1>4. CASE Free(i)
  <2>1. i.a \in Operands
    BY <1>4, Carries DEF Free
  <2>2. ReadOp(Machine, i.a, 4).m \in Machines
    BY <1>1, <1>2, <2>1, ReadOpType
  <2> QED BY <1>1, <1>4, <2>2, DoneMoves DEF Free
<1>5. CASE Refer(i)
  <2> DEFINE v == ReferTo(After(i), i.imm)
  <2>1. i.a \in Operands /\ i.imm \in Int
    BY <1>5, Carries DEF Refer
  <2>2. v \in Values
    <3>1. After(i) \in Int
      BY NowMachine, AfterType
    <3> QED BY <2>1, <3>1, LandType
  <2>3. Done(i, WriteOp(Machine, i.a, v, 4), cond)
    BY <1>5 DEF Refer
  <2> HIDE DEF v
  <2>4. WriteOp(Machine, i.a, v, 4) \in Machines
    BY <1>1, <1>2, <2>1, <2>2, WriteOpType
  <2> QED BY <1>1, <2>3, <2>4, DoneMoves
<1>6. CASE Syscall(i)
  <2>1. ReadOp(Machine, PopSP, 4).m \in Machines /\ ReadOp(Machine, PopSP, 1).m \in Machines
    BY <1>1, <1>2, ReadOpType
  <2> QED BY <1>1, <1>6, <2>1, DoneMoves DEF Syscall
<1> QED BY <1>3, <1>4, <1>5, <1>6

---------------------------------------------------------------------------
(* The invariant. *)

(* The machine is at a well-formed instruction, at a POP while POP counts. *)
Popping == WellFormed(last) /\ (pop # Idle => last.op = "POP")

(* After a comparison of two registers the conditions say how they compare.*)
Compared ==
  last.op = "CMP" /\ last.a.mode = "direct" /\ last.b.mode = "direct" =>
    cond = Order(reg[last.b.r], reg[last.a.r])

VmInv == TypeOK /\ Popping /\ ZeroFlag /\ Compared

(* The instructions that set conditions for their result, and the          *)
(* comparisons, are those of the actions of these names.                   *)
LEMMA WhichAction ==
  ASSUME NEW i, Instruction(i)
  PROVE  /\ i.op \in OneOperand \cup TwoOperands =>
              \/ Load(i) \/ Move(i) \/ Inc(i) \/ Dec(i) \/ Clr(i)
              \/ AluImm(i) \/ AluReg(i) \/ RotateImm(i) \/ RotateReg(i)
         /\ i.op = "CMP" => CompareReg(i)
         /\ i.op = "POP" => PopStart(i)
         /\ i.op \in BranchOps => Branch(i)
<1> DEFINE Ops(S) == i.op \in S
<1>1. CASE Load(i) \/ Move(i) \/ Inc(i) \/ Dec(i) \/ Clr(i)
  <2>1. Ops({"LOAD", "MOVE", "INC", "DEC", "CLR"})
    BY <1>1 DEF Load, Move, Inc, Dec, Clr
  <2> QED BY <1>1, <2>1 DEF BranchOps
<1>2. CASE AluImm(i) \/ AluReg(i) \/ RotateImm(i) \/ RotateReg(i)
  <2>1. Ops(AluOps \cup {"ROL", "ROR", "ROLI", "RORI"})
    BY <1>2 DEF AluImm, AluReg, RotateImm, RotateReg, AluOps
  <2> QED BY <1>2, <2>1 DEF BranchOps, AluOps
<1>3. CASE Nop(i) \/ Push(i) \/ PopStart(i) \/ Not(i) \/ DivideByZero(i) \/ DivImm(i) \/ DivReg(i)
  <2>1. Ops({"NOP", "EXT", "FSTUB", "UNKNOWN", "PUSH", "POP", "NOT", "DIVI", "DIV"})
    BY <1>3 DEF Nop, Push, PopStart, Not, DivideByZero, DivImm, DivReg
  <2>2. i.op = "POP" => PopStart(i)
    BY <1>3 DEF Nop, Push, PopStart, Not, DivideByZero, DivImm, DivReg
  <2> QED BY <2>1, <2>2 DEF BranchOps, OneOperand, TwoOperands
<1>4. CASE TestImm(i) \/ TestReg(i) \/ CompareImm(i) \/ CompareReg(i) \/ FLoad(i) \/ FCast(i)
  <2>1. Ops({"TSTI", "TST", "CMPI", "CMP", "FLOAD", "FCAST"})
    BY <1>4 DEF TestImm, TestReg, CompareImm, CompareReg, FLoad, FCast
  <2>2. i.op = "CMP" => CompareReg(i)
    BY <1>4 DEF TestImm, TestReg, CompareImm, CompareReg, FLoad, FCast
  <2> QED BY <2>1, <2>2 DEF BranchOps, OneOperand, TwoOperands
<1>5. CASE Branch(i) \/ JumpImm(i) \/ JumpReg(i) \/ Call(i) \/ Ret(i)
  <2>1. Ops(BranchOps \cup {"JMPI", "JMPM", "CALLI", "CALL", "CALLM", "RET"})
    BY <1>5 DEF Branch, JumpImm, JumpReg, Call, Ret
  <2>2. i.op \in BranchOps => Branch(i)
    BY <1>5 DEF BranchOps, JumpImm, JumpReg, Call, Ret
  <2> QED BY <2>1, <2>2 DEF BranchOps, OneOperand, TwoOperands
<1>6. CASE Alloc(i) \/ Free(i) \/ Refer(i) \/ Syscall(i) \/ Stop(i)
  <2>1. Ops({"ALLOC", "FREE", "REFER", "SYSCALL", "STOP"})
    BY <1>6 DEF Alloc, Free, Refer, Syscall, Stop
  <2> QED BY <2>1 DEF BranchOps, OneOperand, TwoOperands
<1> QED BY <1>1, <1>2, <1>3, <1>4, <1>5, <1>6 DEF Instruction

(* Every instruction but POP, STOP and a division by zero moves. *)
LEMMA WhatMoves ==
  ASSUME TypeOK, NEW i, WellFormed(i), Instruction(i)
  PROVE  \/ Moves
         \/ PopStart(i) \/ Stop(i) \/ DivideByZero(i)
<1>1. CASE \/ Load(i) \/ Move(i) \/ Inc(i) \/ Dec(i) \/ Clr(i)
           \/ AluImm(i) \/ AluReg(i) \/ RotateImm(i) \/ RotateReg(i)
  BY <1>1, ResultsSet, SetsMoves
<1>2. CASE Nop(i) \/ Push(i) \/ Not(i) \/ DivImm(i) \/ DivReg(i)
  BY <1>2, DataMoves
<1>3. CASE TestImm(i) \/ TestReg(i) \/ CompareImm(i) \/ CompareReg(i) \/ FLoad(i) \/ FCast(i)
  BY <1>3, TestMoves
<1>4. CASE Branch(i) \/ JumpImm(i) \/ JumpReg(i) \/ Call(i) \/ Ret(i)
  BY <1>4, FlowMoves
<1>5. CASE Alloc(i) \/ Free(i) \/ Refer(i) \/ Syscall(i)
  BY <1>5, SystemMoves
<1> QED BY <1>1, <1>2, <1>3, <1>4, <1>5 DEF Instruction

(* Comparing two registers leaves both alone. *)
LEMMA ComparesRegisters ==
  ASSUME TypeOK, NEW i, WellFormed(i), CompareReg(i),
         i.a.mode = "direct", i.b.mode = "direct"
  PROVE  reg' = reg /\ cond' = Order(reg[i.b.r], reg[i.a.r])
<1>1. i.op = "CMP"
  BY DEF CompareReg
<1>2. i.w \in Widths /\ i.a \in Operands /\ i.b \in Operands
  BY <1>1, Carries
<1>3. Machine \in Machines /\ Machine.reg = reg
  BY NowMachine
<1>4. /\ ReadOp(Machine, i.a, i.w) = [v |-> reg[i.a.r], m |-> Machine]
      /\ ReadOp(Machine, i.b, i.w) = [v |-> reg[i.b.r], m |-> Machine]
  BY <1>2, <1>3, ReadOpType
<1>5. Done(i, Machine, Order(reg[i.b.r], reg[i.a.r]))
  BY <1>4 DEF CompareReg
<1> QED BY <1>3, <1>5 DEF Done, Goto

(* The machine starts in the invariant. *)
LEMMA VmInit ==
  ASSUME Init
  PROVE  VmInv
<1>1. MemSize \in Values
  BY VmAssumption, SmallValues, SizesType DEF Values
<1>2. reg \in [0 .. 15 -> Values] /\ mem \in Memories
  BY <1>1, VmAssumption DEF Init
<1>3. 0 \in 0 .. U32 - 1 /\ 0 \in 0 .. MaxSteps
  BY SizesType, VmAssumption
<1>4. TypeOK
  BY <1>2, <1>3 DEF Init, TypeOK, Idle
<1>5. Popping /\ ZeroFlag /\ Compared
  <2>1. last.op = "NOP" /\ pop = Idle
    BY DEF Init
  <2>2. WellFormed(last)
    BY <2>1 DEF WellFormed, Operations, HaveA, HaveTarget, HaveB, HaveValue, Wide, RegRegOps, ImmRegOps,
                Imm8RegOps, BranchOps
  <2> QED BY <2>1, <2>2 DEF Popping, ZeroFlag, Compared, OneOperand, TwoOperands
<1> QED BY <1>4, <1>5 DEF VmInv

(* A turn of vm_run's loop keeps it. *)
LEMMA ExecuteKeeps ==
  ASSUME VmInv, Execute
  PROVE  VmInv'
<1>1. PICK i \in Code[ip] : last' = i /\ Instruction(i)
  BY DEF Execute
<1>2. TypeOK /\ WellFormed(i)
  BY VmAssumption DEF VmInv, Execute
<1>3. status = "running" /\ pop = Idle /\ steps' = steps + 1 /\ steps < MaxSteps
  BY DEF Execute
<1>4. steps' \in 0 .. MaxSteps
  BY <1>2, <1>3, VmAssumption DEF TypeOK
<1>5. TypeOK'
  <2>1. CASE Moves
    <3>1. PICK m \in Machines, c \in SUBSET Flags, a \in 0 .. U32 - 1 : Goto(m, c, a)
      BY <2>1 DEF Moves
    <3>2. m.reg \in [0 .. 15 -> Values] /\ m.mem \in Memories
      BY MachineIs
    <3> QED BY <1>2, <1>4, <3>1, <3>2 DEF TypeOK, Goto, Flags
  <2>2. CASE PopStart(i) \/ Stop(i) \/ DivideByZero(i)
    <3>1. After(i) \in 0 .. U32 - 1
      BY <1>2, AfterType DEF TypeOK
    <3>2. UNCHANGED <<reg, mem, cond>> /\ ip' \in 0 .. U32 - 1
      BY <1>2, <2>2, <3>1 DEF PopStart, Stop, DivideByZero, TypeOK
    <3>3. pop' \in -1 .. 255 /\ status' \in {"running", "stopped", "crashed"}
      BY <1>2, <2>2 DEF PopStart, Stop, DivideByZero, TypeOK
    <3> QED BY <1>2, <1>4, <3>2, <3>3 DEF TypeOK
  <2> QED BY <1>1, <1>2, <2>1, <2>2, WhatMoves
<1>6. Popping'
  <2>1. pop' = Idle \/ PopStart(i)
    <3>1. CASE Moves
      BY <1>3, <3>1 DEF Moves, Goto
    <3>2. CASE Stop(i) \/ DivideByZero(i)
      BY <1>3, <3>2 DEF Stop, DivideByZero
    <3> QED BY <1>1, <1>2, <3>1, <3>2, WhatMoves
  <2>2. PopStart(i) => i.op = "POP"
    BY DEF PopStart
  <2> QED BY <1>1, <1>2, <2>1, <2>2 DEF Popping
<1>7. ZeroFlag'
  <2>1. ASSUME i.op \in OneOperand \cup TwoOperands
        PROVE  Result(i).mode = "direct" => ("EQ" \in cond' <=> reg'[Result(i).r] = 0)
    <3>1. i.w \in Widths /\ Result(i) \in Operands /\ Sets(Result(i), i.w)
      BY <1>1, <1>2, <2>1, WhichAction, ResultsSet
    <3> QED BY <3>1, SetsMoves
  <2>2. i.op \in TwoOperands => i.op \notin OneOperand
    BY DEF OneOperand, TwoOperands
  <2> QED BY <1>1, <2>1, <2>2 DEF ZeroFlag, Result
<1>8. Compared'
  <2>1. ASSUME i.op = "CMP", i.a.mode = "direct", i.b.mode = "direct"
        PROVE  cond' = Order(reg'[i.b.r], reg'[i.a.r])
    <3>1. CompareReg(i)
      BY <1>1, <2>1, WhichAction
    <3>2. reg' = reg /\ cond' = Order(reg[i.b.r], reg[i.a.r])
      BY <1>2, <2>1, <3>1, ComparesRegisters
    <3> QED BY <3>2
  <2>2. Compared' = (last'.op = "CMP" /\ last'.a.mode = "direct" /\ last'.b.mode = "direct" =>
                       cond' = Order(reg'[last'.b.r], reg'[last'.a.r]))
    BY DEF Compared, Order
  <2> QED BY <1>1, <2>1, <2>2
<1> QED BY <1>5, <1>6, <1>7, <1>8 DEF VmInv

(* And so does a turn of POP's loop. *)
LEMMA PopStepKeeps ==
  ASSUME VmInv, PopStep
  PROVE  VmInv'
<1>1. pop # Idle /\ pop \in -1 .. 255 /\ last' = last /\ cond' = cond /\ ip' = ip /\ steps' = steps
  BY DEF PopStep, VmInv, TypeOK
<1>2. last.op = "POP" /\ WellFormed(last)
  BY <1>1 DEF VmInv, Popping
<1>3. last.w \in Widths /\ last.a \in Operands /\ last.imm \subseteq 0 .. 15
  BY <1>2, Carries
<1>4. Machine \in Machines
  BY NowMachine DEF VmInv
<1> DEFINE x == ReadOp(Machine, last.a, last.w)
           m == [x.m EXCEPT !.reg[pop] = x.v]
<1>5. ASSUME pop \in last.imm PROVE m.reg \in [0 .. 15 -> Values] /\ m.mem \in Memories
  <2>1. x.m \in Machines /\ x.v \in Values /\ pop \in 0 .. 15
    BY <1>3, <1>4, <1>5, ReadOpType
  <2> HIDE DEF x
  <2>2. x.m.reg \in [0 .. 15 -> Values] /\ x.m.mem \in Memories
    BY <2>1, MachineIs
  <2>3. x.m = [reg |-> x.m.reg, mem |-> x.m.mem]
    BY <2>1, MachineIs
  <2> QED BY <2>1, <2>2, <2>3
<1>6. reg' \in [0 .. 15 -> Values] /\ mem' \in Memories /\ status' \in {"running", "stopped", "crashed"}
  <2>1. \/ reg' = reg /\ mem' = mem /\ (status' = status \/ status' = "crashed")
        \/ pop \in last.imm /\ reg' = m.reg /\ mem' = m.mem /\ status' = status
    BY DEF PopStep
  <2> HIDE DEF m
  <2> QED BY <1>5, <2>1 DEF VmInv, TypeOK
<1>7. pop' \in -1 .. 255
  <2>1. pop' = (pop - 1) % 256
    BY DEF PopStep
  <2> QED BY <1>1, <2>1
<1>8. TypeOK'
  BY <1>1, <1>6, <1>7 DEF VmInv, TypeOK
<1>9. Popping' /\ ZeroFlag' /\ Compared'
  BY <1>1, <1>2 DEF Popping, ZeroFlag, Compared, OneOperand, TwoOperands
<1> QED BY <1>8, <1>9 DEF VmInv

(* VmInv is an invariant of the machine. *)
THEOREM VmInvariant == Spec => []VmInv
<1>1. Init => VmInv
  BY VmInit
<1>2. VmInv /\ [Next]_vars => VmInv'
  <2>1. ASSUME VmInv, Next PROVE VmInv'
    BY <2>1, ExecuteKeeps, PopStepKeeps DEF Next
  <2>2. ASSUME VmInv, UNCHANGED vars PROVE VmInv'
    BY <2>2 DEF vars, VmInv, TypeOK, Popping, ZeroFlag, Compared
  <2> QED BY <2>1, <2>2
<1> QED BY <1>1, <1>2, PTL DEF Spec

(* Whatever the program, every register, byte and address the machine      *)
(* makes stays within its width, through wrapping arithmetic, shifts,      *)
(* rotations, predecrements below 0 and the falling through of .b stores   *)
(* (vm_read_register_or_memory, vm_write_register_or_memory, the opcodes). *)
THEOREM VmTypeOK == Spec => []TypeOK
BY VmInvariant, PTL DEF VmInv

(* Whatever the program, when an instruction that sets conditions has left *)
(* its result in a register, EQ is set exactly when that register is zero: *)
(* each handler tests the same 64 bits that it gives the register.         *)
THEOREM VmZeroFlag == Spec => []ZeroFlag
BY VmInvariant, PTL DEF VmInv

(* A branch that follows a comparison of two registers is taken exactly    *)
(* when its name's relation holds of the second and the first, and leads   *)
(* to its label or to the next instruction.  By the words VM_LAYOUT.md has *)
(* for BGT and BLE (273-274) it would be the other way round for the two.  *)
THEOREM VmCompareThenBranch == Spec => CompareThenBranch
<1>1. ASSUME VmInv, [Next]_vars
      PROVE  [Decides(last, last') =>
                ip' = IF Holds(last'.op, reg[last.b.r], reg[last.a.r])
                      THEN Land(After(last'), last'.imm)
                      ELSE After(last')]_vars
  <2> SUFFICES ASSUME Next, Decides(last, last')
               PROVE  ip' = IF Holds(last'.op, reg[last.b.r], reg[last.a.r])
                            THEN Land(After(last'), last'.imm)
                            ELSE After(last')
    BY <1>1
  <2>1. last.op = "CMP" /\ last.a.mode = "direct" /\ last.b.mode = "direct"
        /\ last'.op \in {"BEQ", "BNE", "BLT", "BLE", "BGT", "BGE"}
    BY DEF Decides
  <2>2. Execute
    BY <2>1 DEF Next, PopStep
  <2>3. PICK i \in Code[ip] : last' = i /\ Instruction(i)
    BY <2>2 DEF Execute
  <2>4. Branch(i)
    BY <2>1, <2>3, WhichAction DEF BranchOps
  <2>5. ip' = IF Taken(i.op) THEN Land(After(i), i.imm) ELSE After(i)
    BY <2>4 DEF Branch, Goto
  <2>6. reg[last.a.r] \in Int /\ reg[last.b.r] \in Int
    <3>1. last.a \in Operands /\ last.b \in Operands
      BY <1>1, <2>1, Carries DEF VmInv, Popping
    <3>2. Machine \in Machines /\ Machine.reg = reg
      BY <1>1, NowMachine DEF VmInv
    <3> QED BY <3>1, <3>2, MachineIs DEF Operands
  <2>7. cond = Order(reg[last.b.r], reg[last.a.r])
    BY <1>1, <2>1 DEF VmInv, Compared
  <2>8. Taken(i.op) <=> Holds(i.op, reg[last.b.r], reg[last.a.r])
    <3> DEFINE y == reg[last.b.r]
               x == reg[last.a.r]
    <3>1. /\ Holds("BEQ", y, x) <=> y = x
          /\ Holds("BNE", y, x) <=> y # x
          /\ Holds("BLT", y, x) <=> y < x
          /\ Holds("BLE", y, x) <=> y <= x
          /\ Holds("BGT", y, x) <=> y > x
          /\ Holds("BGE", y, x) <=> y >= x
      BY DEF Holds
    <3> HIDE DEF x, y
    <3>2. \/ y = x /\ cond = {"EQ"}
          \/ y > x /\ y # x /\ cond = {"GT"}
          \/ y < x /\ y # x /\ cond = {"LT"}
      BY <2>6, <2>7 DEF Order, x, y
    <3>3. x \in Int /\ y \in Int
      BY <2>6 DEF x, y
    <3>4. i.op \in {"BEQ", "BNE", "BLT", "BLE", "BGT", "BGE"}
      BY <2>1, <2>3
    <3>5. /\ Taken("BEQ") <=> "EQ" \in cond
          /\ Taken("BNE") <=> "EQ" \notin cond
          /\ Taken("BLT") <=> "LT" \in cond
          /\ Taken("BLE") <=> cond \cap {"EQ", "LT"} # {}
          /\ Taken("BGT") <=> "GT" \in cond
          /\ Taken("BGE") <=> cond \cap {"EQ", "GT"} # {}
      BY DEF Taken
    <3>6. /\ Taken("BEQ") <=> Holds("BEQ", y, x)
          /\ Taken("BNE") <=> Holds("BNE", y, x)
          /\ Taken("BLT") <=> Holds("BLT", y, x)
          /\ Taken("BLE") <=> Holds("BLE", y, x)
          /\ Taken("BGT") <=> Holds("BGT", y, x)
          /\ Taken("BGE") <=> Holds("BGE", y, x)
      <4>1. CASE y = x /\ cond = {"EQ"}
        BY <3>1, <3>3, <3>5, <4>1
      <4>2. CASE y > x /\ y # x /\ cond = {"GT"}
        BY <3>1, <3>3, <3>5, <4>2
      <4>3. CASE y < x /\ y # x /\ cond = {"LT"}
        BY <3>1, <3>3, <3>5, <4>3
      <4> QED BY <3>2, <4>1, <4>2, <4>3
    <3>7. Taken(i.op) <=> Holds(i.op, y, x)
      BY <3>4, <3>6
    <3> QED BY <3>7 DEF x, y
  <2> QED BY <2>3, <2>5, <2>8
<1> QED BY <1>1, VmInvariant, PTL DEF Spec, CompareThenBranch

---------------------------------------------------------------------------
(* Arithmetic at the width of the instruction. *)

(* The operation op on the low w bytes of x and y. *)
Narrow(op, x, y, w) ==
  CASE op = "ADD" -> Low(x, w) + Low(y, w)
    [] op = "SUB" -> Low(x, w) - Low(y, w)
    [] op = "MUL" -> Low(x, w) * Low(y, w)
    [] op = "AND" -> BitAnd(Low(x, w), Low(y, w))
    [] op = "OR"  -> BitOr(Low(x, w), Low(y, w))
    [] op = "XOR" -> BitXor(Low(x, w), Low(y, w))

(* 64 bits or w bytes make no difference to the low w bytes. *)
LEMMA AluNarrow ==
  ASSUME NEW op \in RingOps, NEW x \in Int, NEW y \in Int, NEW w \in Widths
  PROVE  Low(Alu(op, x, y), w) = Low(Narrow(op, x, y, w), w)
<1>1. w \in Nat /\ w <= 8 /\ 8 \in Nat /\ w \in 0 .. 8
  BY DEF Widths
<1>2. \A v \in Int : (v % Word) % Span(w) = v % Span(w)
  BY <1>1, LowWrapped DEF Word
<1>3. x + y \in Int /\ x - y \in Int /\ x * y \in Int
  BY ProductType
<1>4. /\ Low((x + y) % Word, w) = Low(Low(x, w) + Low(y, w), w)
      /\ Low((x - y) % Word, w) = Low(Low(x, w) - Low(y, w), w)
      /\ Low((x * y) % Word, w) = Low(Low(x, w) * Low(y, w), w)
  <2>1. /\ (x + y) % Span(w) = ((x % Span(w)) + (y % Span(w))) % Span(w)
        /\ (x - y) % Span(w) = ((x % Span(w)) - (y % Span(w))) % Span(w)
        /\ (x * y) % Span(w) = ((x % Span(w)) * (y % Span(w))) % Span(w)
    BY <1>1, LowRing
  <2>2. /\ ((x + y) % Word) % Span(w) = (x + y) % Span(w)
        /\ ((x - y) % Word) % Span(w) = (x - y) % Span(w)
        /\ ((x * y) % Word) % Span(w) = (x * y) % Span(w)
    BY <1>2, <1>3
  <2> QED BY <2>1, <2>2, Zenon DEF Low
<1>5. /\ Low(BitAnd(x, y), w) = Low(BitAnd(Low(x, w), Low(y, w)), w)
      /\ Low(BitOr(x, y), w) = Low(BitOr(Low(x, w), Low(y, w)), w)
      /\ Low(BitXor(x, y), w) = Low(BitXor(Low(x, w), Low(y, w)), w)
  BY <1>1, LowBits
<1> QED BY <1>4, <1>5 DEF RingOps, Alu, Narrow

(* For every width and every two registers, the low bytes of a sum,        *)
(* difference, product or bitwise combination are what an operation at     *)
(* that width would give (vm_opcode_add ... vm_opcode_xor): a program that *)
(* looks at the width it asked for cannot tell.  A difference is the first *)
(* operand less the second, which is not what VM_LAYOUT.md:133 says.       *)
THEOREM VmNarrowExact == Spec => NarrowExact
<1>1. ASSUME VmInv, Next, last'.op \in RingOps, steps' # steps,
             last'.a.mode = "direct", last'.b.mode = "direct"
      PROVE  Low(reg'[last'.b.r], last'.w)
               = Low(Narrow(last'.op, reg[last'.a.r], reg[last'.b.r], last'.w), last'.w)
  <2>1. Execute
    BY <1>1 DEF Next, PopStep
  <2>2. PICK i \in Code[ip] : last' = i /\ Instruction(i)
    BY <2>1 DEF Execute
  <2>3. TypeOK /\ WellFormed(i)
    BY <1>1, <2>1, VmAssumption DEF VmInv, Execute
  <2>4. AluReg(i)
    <3>1. i.op \in TwoOperands /\ i.op \in RingOps
      BY <1>1, <2>2 DEF RingOps, TwoOperands
    <3>2. \/ Load(i) \/ Move(i) \/ Inc(i) \/ Dec(i) \/ Clr(i)
          \/ AluImm(i) \/ AluReg(i) \/ RotateImm(i) \/ RotateReg(i)
      BY <2>2, <3>1, WhichAction
    <3> QED BY <3>1, <3>2 DEF RingOps, Load, Move, Inc, Dec, Clr, AluImm, RotateImm, RotateReg
  <2>5. i.w \in Widths /\ i.a \in Operands /\ i.b \in Operands /\ i.op \in AluOps
    <3>1. i.op \in {"ADD", "SUB", "MUL", "AND", "OR", "XOR", "LSL", "LSR"}
      BY <2>4 DEF AluReg
    <3> QED BY <2>3, <3>1, Carries DEF AluOps
  <2> DEFINE x == reg[i.a.r]
             y == reg[i.b.r]
             v == Alu(i.op, x, y)
  <2>6. Machine \in Machines /\ Machine.reg = reg
    BY <2>3, NowMachine
  <2>7. x \in Values /\ x \in Int /\ y \in Int
    BY <2>5, <2>6, MachineIs DEF Operands
  <2>8. Done(i, WriteOp(Machine, i.b, v, i.w), Zero(v))
    <3>1. /\ ReadOp(Machine, i.a, i.w) = [v |-> x, m |-> Machine]
          /\ ReadOp(Machine, i.b, i.w) = [v |-> y, m |-> Machine]
      BY <1>1, <2>2, <2>5, <2>6, ReadOpType
    <3>2. ReadBoth(Machine, i.a, i.b, i.w) = {[x |-> x, y |-> y, m |-> Machine]}
      BY <3>1 DEF ReadBoth
    <3> QED BY <2>4, <3>2 DEF AluReg
  <2>9. v \in Values
    BY <2>5, <2>7, AluType
  <2> HIDE DEF x, y, v
  <2>10. WriteOp(Machine, i.b, v, i.w) = [reg |-> [reg EXCEPT ![i.b.r] = v], mem |-> Machine.mem]
    BY <1>1, <2>2, <2>5, <2>6, <2>9, WriteOpType
  <2>11. reg' = [reg EXCEPT ![i.b.r] = v]
    BY <2>8, <2>10 DEF Done, Goto
  <2>12. reg'[i.b.r] = v
    BY <2>3, <2>5, <2>11 DEF TypeOK, Operands
  <2>13. Low(v, i.w) = Low(Narrow(i.op, x, y, i.w), i.w)
    BY <1>1, <2>2, <2>5, <2>7, AluNarrow DEF v
  <2> QED BY <2>2, <2>12, <2>13 DEF x, y
<1>2. ASSUME VmInv, [Next]_vars
      PROVE  [last'.op \in RingOps /\ steps' # steps
                /\ last'.a.mode = "direct" /\ last'.b.mode = "direct" =>
              LET x == reg[last'.a.r]  y == reg[last'.b.r]  w == last'.w
                  narrow == CASE last'.op = "ADD" -> Low(x, w) + Low(y, w)
                              [] last'.op = "SUB" -> Low(x, w) - Low(y, w)
                              [] last'.op = "MUL" -> Low(x, w) * Low(y, w)
                              [] last'.op = "AND" -> BitAnd(Low(x, w), Low(y, w))
                              [] last'.op = "OR"  -> BitOr(Low(x, w), Low(y, w))
                              [] last'.op = "XOR" -> BitXor(Low(x, w), Low(y, w))
              IN  Low(reg'[last'.b.r], w) = Low(narrow, w)]_vars
  BY <1>1, <1>2 DEF Narrow
<1> QED BY <1>2, VmInvariant, PTL DEF Spec, NarrowExact

---------------------------------------------------------------------------
(* The frame: what an instruction leaves alone. *)

(* From m to n, memory changes within C only, and registers within R. *)
Confined(m, n, C, R) ==
  /\ \A a \in Addresses : n.mem[a] # m.mem[a] => a \in C
  /\ \A r \in 0 .. 15 : n.reg[r] # m.reg[r] => r \in R

(* One change after the other. *)
LEMMA ConfinedBoth ==
  ASSUME NEW m, NEW n, NEW k, NEW C, NEW D, NEW R, NEW Q,
         Confined(m, n, C, R), Confined(n, k, D, Q)
  PROVE  Confined(m, k, C \cup D, R \cup Q)
BY DEF Confined

(* A wider frame is a frame. *)
LEMMA ConfinedMore ==
  ASSUME NEW m, NEW n, NEW C, NEW R, Confined(m, n, C, R),
         NEW D, NEW Q, C \subseteq D, R \subseteq Q
  PROVE  Confined(m, n, D, Q)
BY DEF Confined

(* An increment changes its register. *)
LEMMA BumpConfined ==
  ASSUME NEW m \in Machines, NEW r \in 0 .. 15, NEW n \in Int
  PROVE  /\ Confined(m, Bump(m, r, n), {}, {r})
         /\ Bump(m, r, n).mem = m.mem
         /\ Bump(m, r, n).reg[r] = (m.reg[r] + n) % Word
<1> DEFINE v == (m.reg[r] + n) % Word
           k == Bump(m, r, n)
<1>1. k = [reg |-> [m.reg EXCEPT ![r] = v], mem |-> m.mem]
  BY BumpType
<1>2. m.reg \in [0 .. 15 -> Values]
  BY MachineIs
<1> HIDE DEF v, k
<1>3. k.mem = m.mem /\ k.reg = [m.reg EXCEPT ![r] = v]
  BY <1>1
<1>4. k.reg[r] = v /\ \A q \in 0 .. 15 : q # r => k.reg[q] = m.reg[q]
  BY <1>2, <1>3
<1> QED BY <1>3, <1>4 DEF Confined, k, v

(* Reading an operand changes its register at most, and only with an       *)
(* increment or decrement.                                                 *)
LEMMA ReadConfined ==
  ASSUME NEW m \in Machines, NEW o \in Operands, NEW w \in Widths
  PROVE  /\ Confined(m, ReadOp(m, o, w).m, {}, {o.r})
         /\ o.mode \in {"direct", "ref", "unknown"} => ReadOp(m, o, w).m = m
<1>1. o.r \in 0 .. 15 /\ o.mode \in {"direct", "ref", "predec", "postinc", "unknown"}
  BY DEF Operands
<1>2. w \in Int /\ -w \in Int
  BY DEF Widths
<1>3. Confined(m, Bump(m, o.r, -w), {}, {o.r}) /\ Confined(m, Bump(m, o.r, w), {}, {o.r})
  BY <1>1, <1>2, BumpConfined
<1>4. Confined(m, m, {}, {o.r})
  BY DEF Confined
<1>5. /\ o.mode \in {"direct", "ref", "unknown"} => ReadOp(m, o, w).m = m
      /\ o.mode = "predec" => ReadOp(m, o, w).m = Bump(m, o.r, -w)
      /\ o.mode = "postinc" => ReadOp(m, o, w).m = Bump(m, o.r, w)
  BY DEF ReadOp
<1> QED BY <1>1, <1>3, <1>4, <1>5

(* Writing an operand changes its cells and its register; a direct operand *)
(* has no cells, and one in memory writes the cells Cells says if it is    *)
(* wider than a byte.                                                      *)
LEMMA WriteConfined ==
  ASSUME NEW m \in Machines, NEW o \in Operands, NEW v \in Values, NEW w \in Widths,
         o.mode # "direct" => w # 1
  PROVE  Confined(m, WriteOp(m, o, v, w), Cells(m, o, w), {o.r})
<1>1. o.r \in 0 .. 15 /\ o.mode \in {"direct", "ref", "predec", "postinc", "unknown"}
  BY DEF Operands
<1>2. w \in Int /\ -w \in Int /\ v \in Int
  BY DEF Widths, Values
<1> DEFINE Stored(k, a) == [k EXCEPT !.mem = WriteMem(@, a, v, w)]
<1>3. ASSUME NEW k \in Machines, NEW a \in Int, w # 1
      PROVE  /\ Stored(k, a) \in Machines
             /\ Confined(k, Stored(k, a), a % U32 .. (a % U32) + w - 1, {o.r})
  <2> DEFINE x == WriteMem(k.mem, a, v, w)
  <2>1. k.mem \in Memories /\ k = [reg |-> k.reg, mem |-> k.mem] /\ k.reg \in [0 .. 15 -> Values]
    BY MachineIs
  <2>2. x \in Memories
    BY <1>2, <2>1, WriteMemType
  <2>3. \A c \in Addresses : c \notin a % U32 .. (a % U32) + w - 1 => x[c] = k.mem[c]
    BY <1>2, <1>3, <2>1, WriteMemFrame
  <2> HIDE DEF x
  <2>4. Stored(k, a) = [reg |-> k.reg, mem |-> x]
    BY <2>1 DEF x
  <2> HIDE DEF Stored
  <2>5. Stored(k, a) \in Machines
    BY <2>1, <2>2, <2>4 DEF Machines
  <2>6. Stored(k, a).reg = k.reg /\ Stored(k, a).mem = x
    BY <2>4
  <2> QED BY <2>3, <2>5, <2>6 DEF Confined
<1>4. m.reg[o.r] \in Int
  BY <1>1, MachineIs
<1>5. CASE o.mode = "direct"
  <2>1. WriteOp(m, o, v, w) = [reg |-> [m.reg EXCEPT ![o.r] = v], mem |-> m.mem]
    BY <1>5, WriteOpType
  <2>2. m.reg \in [0 .. 15 -> Values]
    BY MachineIs
  <2>3. /\ WriteOp(m, o, v, w).mem = m.mem
        /\ WriteOp(m, o, v, w).reg = [m.reg EXCEPT ![o.r] = v]
    BY <2>1
  <2>4. \A q \in 0 .. 15 : q # o.r => [m.reg EXCEPT ![o.r] = v][q] = m.reg[q]
    BY <1>1, <2>2
  <2> QED BY <2>3, <2>4 DEF Confined
<1>6. CASE o.mode = "ref"
  <2>1. WriteOp(m, o, v, w) = Stored(m, m.reg[o.r])
    BY <1>6 DEF WriteOp
  <2>2. Cells(m, o, w) = m.reg[o.r] % U32 .. (m.reg[o.r] % U32) + w - 1
    BY <1>6 DEF Cells
  <2> HIDE DEF Stored
  <2> QED BY <1>3, <1>4, <1>6, <2>1, <2>2
<1>7. CASE o.mode = "predec"
  <2> DEFINE n == Bump(m, o.r, -w)
  <2>1. WriteOp(m, o, v, w) = Stored(n, n.reg[o.r])
    BY <1>7 DEF WriteOp
  <2>2. n \in Machines /\ Confined(m, n, {}, {o.r}) /\ n.reg[o.r] = (m.reg[o.r] + -w) % Word
    BY <1>1, <1>2, BumpType, BumpConfined
  <2> HIDE DEF n, Stored
  <2>3. n.reg[o.r] \in Int /\ n.reg[o.r] % U32 = (m.reg[o.r] - w) % U32
    <3> DEFINE x == m.reg[o.r]
    <3>1. x + -w = x - w /\ x - w \in Int
      BY <1>2, <1>4
    <3> DEFINE y == x - w
    <3> HIDE DEF x, y
    <3>2. (y % Word) % U32 = y % U32
      <4>1. 4 \in Nat /\ 8 \in Nat /\ 4 <= 8 /\ y \in Int
        BY <3>1 DEF y
      <4> QED BY <4>1, LowWrapped DEF Word, U32
    <3>3. n.reg[o.r] \in Int
      BY <1>1, <2>2, MachineIs
    <3> QED BY <2>2, <3>1, <3>2, <3>3 DEF x, y
  <2>4. Cells(m, o, w) = n.reg[o.r] % U32 .. (n.reg[o.r] % U32) + w - 1
    BY <1>7, <2>3 DEF Cells
  <2>5. Confined(n, Stored(n, n.reg[o.r]), Cells(m, o, w), {o.r})
    BY <1>3, <1>7, <2>2, <2>3, <2>4
  <2>6. Confined(m, Stored(n, n.reg[o.r]), {} \cup Cells(m, o, w), {o.r} \cup {o.r})
    BY <2>2, <2>5, ConfinedBoth
  <2> QED BY <2>1, <2>6
<1>8. CASE o.mode = "postinc"
  <2> DEFINE x == Stored(m, m.reg[o.r])
  <2>1. WriteOp(m, o, v, w) = Bump(x, o.r, w)
    BY <1>8 DEF WriteOp
  <2>2. Cells(m, o, w) = m.reg[o.r] % U32 .. (m.reg[o.r] % U32) + w - 1
    BY <1>8 DEF Cells
  <2> HIDE DEF Stored
  <2>3. x \in Machines /\ Confined(m, x, Cells(m, o, w), {o.r})
    BY <1>3, <1>4, <1>8, <2>2
  <2> HIDE DEF x
  <2>4. Confined(x, Bump(x, o.r, w), {}, {o.r})
    BY <1>1, <1>2, <2>3, BumpConfined
  <2>5. Confined(m, Bump(x, o.r, w), Cells(m, o, w) \cup {}, {o.r} \cup {o.r})
    BY <2>3, <2>4, ConfinedBoth
  <2> QED BY <2>1, <2>5
<1>9. CASE o.mode = "unknown"
  <2>1. WriteOp(m, o, v, w) = m
    BY <1>9 DEF WriteOp
  <2> QED BY <2>1 DEF Confined
<1> QED BY <1>1, <1>5, <1>6, <1>7, <1>8, <1>9

(* What Footprint is for the instructions that write. *)
LEMMA FootprintIs ==
  ASSUME NEW i
  PROVE  /\ i.op \in {"CALL", "CALLI", "CALLM"} => Footprint(i) = Cells(Machine, PushSP, 4)
         /\ i.op \in InPlace \ {"ALLOC", "REFER"} => Footprint(i) = Cells(Machine, i.a, i.w)
         /\ i.op \in {"ALLOC", "REFER"} => Footprint(i) = Cells(Machine, i.a, 4)
         /\ i.op = "PUSH" => Footprint(i) =
              {((reg[i.a.r] + d) % U32) + n : d \in Strides(i), n \in 0 .. i.w - 1}
         /\ i.op \in {"MOVE", "ADD", "SUB", "MUL", "AND", "OR", "XOR", "LSL", "LSR"} =>
              Footprint(i) = Cells(ReadOp(Machine, i.a, i.w).m, i.b, i.w)
         /\ i.op \in {"ROL", "ROR"} => Footprint(i) = Cells(ReadOp(Machine, i.a, 1).m, i.b, i.w)
         /\ i.op = "DIVI" => Footprint(i) = Cells(Machine, i.a, i.w) \cup Cells(Machine, i.b, i.w)
         /\ i.op = "DIV" => Footprint(i) = Cells(Machine, i.b, i.w) \cup Cells(Machine, i.c, i.w)
<1>1. i.op \in {"CALL", "CALLI", "CALLM"} => Footprint(i) = Cells(Machine, PushSP, 4)
  BY DEF Footprint, InPlace, RegRegOps
<1>2. /\ i.op \in InPlace \ {"ALLOC", "REFER"} => Footprint(i) = Cells(Machine, i.a, i.w)
      /\ i.op \in {"ALLOC", "REFER"} => Footprint(i) = Cells(Machine, i.a, 4)
  BY DEF Footprint, InPlace, RegRegOps
<1>3. i.op = "PUSH" => Footprint(i) =
        {((reg[i.a.r] + d) % U32) + n : d \in Strides(i), n \in 0 .. i.w - 1}
  BY DEF Footprint, InPlace, RegRegOps
<1>4. /\ i.op \in {"MOVE", "ADD", "SUB", "MUL", "AND", "OR", "XOR", "LSL", "LSR"} =>
           Footprint(i) = Cells(ReadOp(Machine, i.a, i.w).m, i.b, i.w)
      /\ i.op \in {"ROL", "ROR"} => Footprint(i) = Cells(ReadOp(Machine, i.a, 1).m, i.b, i.w)
  BY DEF Footprint, InPlace, RegRegOps
<1>5. /\ i.op = "DIVI" => Footprint(i) = Cells(Machine, i.a, i.w) \cup Cells(Machine, i.b, i.w)
      /\ i.op = "DIV" => Footprint(i) = Cells(Machine, i.b, i.w) \cup Cells(Machine, i.c, i.w)
  BY DEF Footprint, InPlace, RegRegOps
<1> QED BY <1>1, <1>2, <1>3, <1>4, <1>5

(* An instruction stays within its footprint and its registers. *)
Keeps(i) == Confined(Machine, [reg |-> reg', mem |-> mem'], Footprint(i), Named(i))

(* One that ends in a machine confined to them does, *)
LEMMA GotoKeeps ==
  ASSUME NEW i, NEW m, NEW c, NEW a, Goto(m, c, a),
         NEW C, NEW R, Confined(Machine, m, C, R), C \subseteq Footprint(i), R \subseteq Named(i)
  PROVE  Keeps(i)
<1>1. reg' = m.reg /\ mem' = m.mem
  BY DEF Goto
<1> HIDE DEF Footprint, Named
<1> QED BY <1>1 DEF Keeps, Confined

(* and so does one that changes neither registers nor memory. *)
LEMMA StillKeeps ==
  ASSUME NEW i, reg' = reg, mem' = mem
  PROVE  Keeps(i)
BY DEF Keeps, Confined, Machine

(* Writing after reading. *)
LEMMA ReadWriteConfined ==
  ASSUME NEW m \in Machines, NEW a \in Operands, NEW b \in Operands, NEW u \in Widths,
         NEW w \in Widths, NEW v \in Values, b.mode # "direct" => w # 1
  PROVE  Confined(m, WriteOp(ReadOp(m, a, u).m, b, v, w), Cells(ReadOp(m, a, u).m, b, w), {a.r, b.r})
<1> DEFINE n == ReadOp(m, a, u).m
<1>1. n \in Machines /\ Confined(m, n, {}, {a.r})
  BY ReadOpType, ReadConfined
<1> HIDE DEF n
<1>2. Confined(n, WriteOp(n, b, v, w), Cells(n, b, w), {b.r})
  BY <1>1, WriteConfined
<1>3. Confined(m, WriteOp(n, b, v, w), {} \cup Cells(n, b, w), {a.r} \cup {b.r})
  BY <1>1, <1>2, ConfinedBoth
<1>4. {a.r} \cup {b.r} = {a.r, b.r} /\ {} \cup Cells(n, b, w) = Cells(n, b, w)
  OBVIOUS
<1> QED BY <1>3, <1>4 DEF n

(* What Tame asks of the destinations of the instructions. *)
LEMMA TameIs ==
  ASSUME NEW i, Tame(i)
  PROVE  /\ i.op \in {"LOAD", "CLR", "FLOAD", "PUSH"} => (i.a.mode # "direct" => i.w # 1)
         /\ i.op \in {"INC", "DEC", "NOT", "ADDI", "SUBI", "MULI", "ANDI", "ORI", "XORI", "LSLI",
                      "LSRI", "ROLI", "RORI", "FCAST"} =>
              (i.a.mode # "direct" => i.w # 1) /\ i.a.mode \in {"direct", "ref", "unknown"}
         /\ i.op = "MOVE" => (i.b.mode # "direct" => i.w # 1)
         /\ i.op \in {"ADD", "SUB", "MUL", "AND", "OR", "XOR", "LSL", "LSR", "ROL", "ROR"} =>
              (i.b.mode # "direct" => i.w # 1) /\ i.b.mode \in {"direct", "ref", "unknown"}
         /\ i.op = "DIVI" =>
              /\ (i.a.mode # "direct" => i.w # 1) /\ (i.b.mode # "direct" => i.w # 1)
              /\ i.a.mode \in {"direct", "ref", "unknown"}
              /\ i.a.mode = "direct" /\ i.a.r = i.b.r => i.b.mode = "direct"
         /\ i.op = "DIV" =>
              /\ (i.b.mode # "direct" => i.w # 1) /\ (i.c.mode # "direct" => i.w # 1)
              /\ i.a.mode \in {"direct", "ref", "unknown"} /\ i.b.mode \in {"direct", "ref", "unknown"}
              /\ i.b.mode = "direct" /\ i.b.r = i.c.r => i.c.mode = "direct"
<1>1. /\ i.op \in {"LOAD", "CLR", "FLOAD", "PUSH", "INC", "DEC", "NOT", "ADDI", "SUBI", "MULI",
                   "ANDI", "ORI", "XORI", "LSLI", "LSRI", "ROLI", "RORI", "FCAST"} => Written(i) = {i.a}
      /\ i.op = "DIVI" => Written(i) = {i.a, i.b}
      /\ i.op = "DIV" => Written(i) = {i.b, i.c}
  BY DEF Written, InPlace, RegRegOps
<1>2. i.op \in {"MOVE", "ADD", "SUB", "MUL", "AND", "OR", "XOR", "LSL", "LSR", "ROL", "ROR"} =>
        Written(i) = {i.b}
  BY DEF Written, InPlace, RegRegOps
<1>3. /\ i.op \in {"INC", "DEC", "NOT", "ADDI", "SUBI", "MULI", "ANDI", "ORI", "XORI", "LSLI",
                   "LSRI", "ROLI", "RORI", "FCAST", "DIVI"} => ReadFirst(i) = {i.a}
      /\ i.op = "DIV" => ReadFirst(i) = {i.a, i.b}
  BY DEF ReadFirst, InPlace, RegRegOps
<1>4. i.op \in {"ADD", "SUB", "MUL", "AND", "OR", "XOR", "LSL", "LSR", "ROL", "ROR"} =>
        ReadFirst(i) = {i.b}
  BY DEF ReadFirst, InPlace, RegRegOps
<1> QED BY <1>1, <1>2, <1>3, <1>4 DEF Tame

(* The registers of its operands are those an instruction names. *)
LEMMA NamedIs ==
  ASSUME NEW i
  PROVE  /\ i.op \in {"LOAD", "MOVE", "PUSH", "POP", "INC", "DEC", "CLR", "NOT", "TSTI", "TST",
                      "CMPI", "CMP", "DIVI", "DIV", "FLOAD", "FCAST", "ROL", "ROR", "ROLI", "RORI"}
                      \cup AluOps \cup {"JMPM", "CALLM", "FREE", "ALLOC", "REFER"}
            => i.a.r \in Named(i)
         /\ i.op \in {"MOVE", "TST", "CMP", "DIVI", "DIV", "ROL", "ROR", "ADD", "SUB", "MUL",
                      "AND", "OR", "XOR", "LSL", "LSR"}
            => i.b.r \in Named(i)
         /\ i.op = "DIV" => i.c.r \in Named(i)
         /\ i.op = "POP" => i.imm \subseteq Named(i)
         /\ i.op \in {"CALL", "CALLI", "CALLM", "RET", "SYSCALL"} => SP \in Named(i)
<1>1. {"LOAD", "MOVE", "PUSH", "POP", "INC", "DEC", "CLR", "NOT", "TSTI", "TST", "CMPI", "CMP",
       "DIVI", "DIV", "FLOAD", "FCAST", "ROL", "ROR", "ROLI", "RORI"} \subseteq HaveA
  BY DEF HaveA, Wide, RegRegOps, ImmRegOps, Imm8RegOps
<1>2. AluOps \subseteq HaveA
  BY DEF AluOps, HaveA, Wide, RegRegOps, ImmRegOps, Imm8RegOps
<1>3. {"JMPM", "CALLM", "FREE", "ALLOC", "REFER"} \subseteq HaveA
  BY DEF HaveA
<1>4. {"MOVE", "TST", "CMP", "DIVI", "DIV", "ROL", "ROR", "ADD", "SUB", "MUL", "AND", "OR", "XOR",
       "LSL", "LSR"} \subseteq HaveB
  BY DEF HaveB, RegRegOps
<1> QED BY <1>1, <1>2, <1>3, <1>4 DEF Named

(* An instruction that writes one operand keeps to it, *)
LEMMA WriteKeeps ==
  ASSUME TypeOK, NEW i, NEW a \in Operands, NEW w \in Widths, NEW v \in Values,
         a.mode # "direct" => w # 1, NEW c, NEW d, Goto(WriteOp(Machine, a, v, w), c, d),
         Footprint(i) = Cells(Machine, a, w), a.r \in Named(i)
  PROVE  Keeps(i)
<1>1. Confined(Machine, WriteOp(Machine, a, v, w), Cells(Machine, a, w), {a.r})
  BY NowMachine, WriteConfined
<1>2. {a.r} \subseteq Named(i) /\ Cells(Machine, a, w) \subseteq Footprint(i)
  OBVIOUS
<1> QED BY <1>1, <1>2, GotoKeeps

(* and so does one that reads it first, through a register left alone. *)
LEMMA InPlaceKeeps ==
  ASSUME TypeOK, NEW i, NEW a \in Operands, NEW w \in Widths, NEW v \in Values,
         a.mode # "direct" => w # 1, a.mode \in {"direct", "ref", "unknown"},
         NEW c, NEW d, Goto(WriteOp(ReadOp(Machine, a, w).m, a, v, w), c, d),
         Footprint(i) = Cells(Machine, a, w), a.r \in Named(i)
  PROVE  Keeps(i)
<1>1. ReadOp(Machine, a, w).m = Machine
  BY NowMachine, ReadConfined
<1>2. Goto(WriteOp(Machine, a, v, w), c, d)
  BY <1>1
<1> QED BY <1>2, WriteKeeps

(* One that reads an operand changes nothing but its register, *)
LEMMA ReadKeeps ==
  ASSUME TypeOK, NEW i, NEW a \in Operands, NEW w \in Widths,
         NEW c, NEW d, Goto(ReadOp(Machine, a, w).m, c, d), a.r \in Named(i)
  PROVE  Keeps(i)
<1>1. Confined(Machine, ReadOp(Machine, a, w).m, {}, {a.r})
  BY NowMachine, ReadConfined
<1>2. {a.r} \subseteq Named(i) /\ {} \subseteq Footprint(i)
  OBVIOUS
<1> QED BY <1>1, <1>2, GotoKeeps

(* one that reads two, no more than those of both, *)
LEMMA ReadTwoKeeps ==
  ASSUME TypeOK, NEW i, NEW a \in Operands, NEW b \in Operands, NEW u \in Widths, NEW w \in Widths,
         NEW c, NEW d, Goto(ReadOp(ReadOp(Machine, a, u).m, b, w).m, c, d),
         a.r \in Named(i), b.r \in Named(i)
  PROVE  Keeps(i)
<1> DEFINE n == ReadOp(Machine, a, u).m
           k == ReadOp(n, b, w).m
<1>1. n \in Machines /\ Confined(Machine, n, {}, {a.r})
  BY NowMachine, ReadOpType, ReadConfined
<1> HIDE DEF n
<1>2. Confined(n, k, {}, {b.r})
  BY <1>1, ReadConfined
<1>3. Goto(k, c, d)
  BY DEF n
<1> HIDE DEF k
<1>4. Confined(Machine, k, {} \cup {}, {a.r} \cup {b.r})
  BY <1>1, <1>2, ConfinedBoth
<1>5. {} \cup {} \subseteq Footprint(i) /\ {a.r} \cup {b.r} \subseteq Named(i)
  OBVIOUS
<1> QED BY <1>3, <1>4, <1>5, GotoKeeps

(* and one that reads an operand and writes another changes the cells of   *)
(* the second and the registers of both.                                   *)
LEMMA MoveKeeps ==
  ASSUME TypeOK, NEW i, NEW a \in Operands, NEW b \in Operands, NEW u \in Widths, NEW w \in Widths,
         NEW v \in Values, b.mode # "direct" => w # 1,
         NEW c, NEW d, Goto(WriteOp(ReadOp(Machine, a, u).m, b, v, w), c, d),
         Footprint(i) = Cells(ReadOp(Machine, a, u).m, b, w), a.r \in Named(i), b.r \in Named(i)
  PROVE  Keeps(i)
<1>1. Confined(Machine, WriteOp(ReadOp(Machine, a, u).m, b, v, w),
               Cells(ReadOp(Machine, a, u).m, b, w), {a.r, b.r})
  BY NowMachine, ReadWriteConfined
<1>2. {a.r, b.r} \subseteq Named(i) /\ Cells(ReadOp(Machine, a, u).m, b, w) \subseteq Footprint(i)
  OBVIOUS
<1> QED BY <1>1, <1>2, GotoKeeps

(* The instructions on one operand. *)
LEMMA OneOperandKeeps ==
  ASSUME TypeOK, NEW i, WellFormed(i), Tame(i),
         Load(i) \/ Inc(i) \/ Dec(i) \/ Clr(i) \/ AluImm(i) \/ RotateImm(i) \/ Not(i)
  PROVE  Keeps(i)
<1>1. Machine \in Machines
  BY NowMachine
<1>2. i.w \in Widths /\ i.a \in Operands /\ i.a.r \in Named(i)
  BY Carries, NamedIs DEF Load, Inc, Dec, Clr, AluImm, RotateImm, Not, AluOps
<1>3. i.a.mode # "direct" => i.w # 1
  BY TameIs DEF Load, Inc, Dec, Clr, AluImm, RotateImm, Not
<1>4. Footprint(i) = Cells(Machine, i.a, i.w)
  BY FootprintIs DEF Load, Inc, Dec, Clr, AluImm, RotateImm, Not, InPlace
<1> DEFINE x == ReadOp(Machine, i.a, i.w)
<1>5. x.v \in Values /\ x.v \in Int
  BY <1>1, <1>2, ReadOpType
<1>6. ASSUME NEW v \in Values, NEW c, Done(i, WriteOp(Machine, i.a, v, i.w), c)
      PROVE  Keeps(i)
  BY <1>2, <1>3, <1>4, <1>6, WriteKeeps DEF Done
<1>7. ASSUME NEW v \in Values, NEW c, Done(i, WriteOp(x.m, i.a, v, i.w), c),
             i.a.mode \in {"direct", "ref", "unknown"}
      PROVE  Keeps(i)
  BY <1>2, <1>3, <1>4, <1>7, InPlaceKeeps DEF Done
<1>8. ~Load(i) /\ ~Clr(i) => i.a.mode \in {"direct", "ref", "unknown"}
  BY TameIs DEF Inc, Dec, AluImm, RotateImm, Not
<1> HIDE DEF x
<1>9. CASE Load(i)
  <2>1. i.imm \in Values /\ Done(i, WriteOp(Machine, i.a, i.imm, i.w), Zero(i.imm))
    BY <1>9, Carries DEF Load
  <2> QED BY <1>6, <2>1
<1>10. CASE Clr(i)
  <2>1. 0 \in Values /\ Done(i, WriteOp(Machine, i.a, 0, i.w), {"EQ"})
    BY <1>10, SmallValues DEF Clr
  <2> QED BY <1>6, <2>1
<1>11. ASSUME ~Load(i), ~Clr(i)
       PROVE  \E v \in Values : \E c : Done(i, WriteOp(x.m, i.a, v, i.w), c)
  <2>1. CASE Inc(i)
    <3>1. x.v + 1 \in Int
      BY <1>5
    <3>2. (x.v + 1) % Word \in Values
      BY <3>1, WrapType
    <3> QED BY <2>1, <3>2 DEF Inc, x
  <2>2. CASE Dec(i)
    <3>1. Low(x.v, i.w) - 1 \in Int
      <4>1. i.w \in 0 .. 8
        BY <1>2 DEF Widths
      <4>2. Low(x.v, i.w) \in Values
        BY <1>5, <4>1, LowType
      <4> QED BY <4>2 DEF Values
    <3>2. (Low(x.v, i.w) - 1) % Word \in Values
      BY <3>1, WrapType
    <3> QED BY <2>2, <3>2 DEF Dec, x
  <2>3. CASE AluImm(i)
    <3>1. i.imm \in Int /\ i.op \in AluOps
      BY <2>3, Carries DEF AluImm, AluOps
    <3>2. Alu(i.op, x.v, i.imm) \in Values
      BY <1>5, <3>1, AluType
    <3> QED BY <2>3, <3>2 DEF AluImm, x
  <2>4. CASE RotateImm(i)
    <3>1. Rotate(i.op, Low(x.v, i.w), i.imm, i.w) \in Values
      BY <1>2, RotateType
    <3> QED BY <2>4, <3>1 DEF RotateImm, x
  <2>5. CASE Not(i)
    <3>1. (IF x.v = 0 THEN 1 ELSE 0) \in Values
      BY SmallValues
    <3> QED BY <2>5, <3>1 DEF Not, x
  <2> QED BY <1>11, <2>1, <2>2, <2>3, <2>4, <2>5
<1> QED BY <1>7, <1>8, <1>9, <1>10, <1>11

(* Those of floating point, and those that write an address or a pointer. *)
LEMMA AddressKeeps ==
  ASSUME TypeOK, NEW i, WellFormed(i), Tame(i), FLoad(i) \/ FCast(i) \/ Alloc(i) \/ Refer(i)
  PROVE  Keeps(i)
<1>1. Machine \in Machines /\ 4 \in Widths
  BY NowMachine DEF Widths
<1>2. i.a \in Operands /\ i.a.r \in Named(i)
  BY Carries, NamedIs DEF FLoad, FCast, Alloc, Refer
<1>3. CASE FLoad(i)
  <2>1. i.w \in Widths /\ i.imm \in Values /\ (i.a.mode # "direct" => i.w # 1)
    BY <1>3, Carries, TameIs DEF FLoad
  <2>2. Footprint(i) = Cells(Machine, i.a, i.w)
    BY <1>3, FootprintIs DEF FLoad, InPlace
  <2>3. CASE i.w = 1
    <3>1. reg' = reg /\ mem' = mem
      BY <1>3, <2>3 DEF FLoad, Done, Goto, Machine
    <3> QED BY <3>1, StillKeeps
  <2>4. CASE i.w # 1
    <3>1. Goto(WriteOp(Machine, i.a, i.imm, i.w), cond, After(i))
      BY <1>3, <2>4 DEF FLoad, Done
    <3> QED BY <1>2, <2>1, <2>2, <3>1, WriteKeeps
  <2> QED BY <2>3, <2>4
<1>4. CASE FCast(i)
  <2>1. i.w \in Widths /\ (i.a.mode # "direct" => i.w # 1) /\ i.a.mode \in {"direct", "ref", "unknown"}
    BY <1>4, Carries, TameIs DEF FCast
  <2>2. Footprint(i) = Cells(Machine, i.a, i.w)
    BY <1>4, FootprintIs DEF FCast, InPlace
  <2>3. \/ Goto(ReadOp(Machine, i.a, i.w).m, cond, After(i))
        \/ \E f \in FloatValues : Goto(WriteOp(ReadOp(Machine, i.a, i.w).m, i.a, f, i.w), cond, After(i))
    BY <1>4 DEF FCast, Done
  <2>4. FloatValues \subseteq Values
    BY VmAssumption
  <2> QED BY <1>2, <2>1, <2>2, <2>3, <2>4, ReadKeeps, InPlaceKeeps
<1>5. CASE Alloc(i)
  <2>1. Footprint(i) = Cells(Machine, i.a, 4)
    BY <1>5, FootprintIs DEF Alloc
  <2>2. PICK p \in HostPointers : Goto(WriteOp(Machine, i.a, p, 4), cond, After(i))
    BY <1>5 DEF Alloc, Done
  <2>3. p \in Values
    BY VmAssumption
  <2> QED BY <1>1, <1>2, <2>1, <2>2, <2>3, WriteKeeps
<1>6. CASE Refer(i)
  <2>1. Footprint(i) = Cells(Machine, i.a, 4)
    BY <1>6, FootprintIs DEF Refer
  <2>2. Goto(WriteOp(Machine, i.a, ReferTo(After(i), i.imm), 4), cond, After(i))
    BY <1>6 DEF Refer, Done
  <2>3. ReferTo(After(i), i.imm) \in Values
    <3>1. After(i) \in Int /\ i.imm \in Int
      BY <1>6, NowMachine, AfterType, Carries DEF Refer
    <3> QED BY <3>1, LandType
  <2> QED BY <1>1, <1>2, <2>1, <2>2, <2>3, WriteKeeps
<1> QED BY <1>3, <1>4, <1>5, <1>6

(* The instructions that combine two operands into the second, and MOVE. *)
LEMMA TwoOperandsKeep ==
  ASSUME TypeOK, NEW i, WellFormed(i), Tame(i), Move(i) \/ AluReg(i) \/ RotateReg(i)
  PROVE  Keeps(i)
<1>1. Machine \in Machines /\ 1 \in Widths
  BY NowMachine DEF Widths
<1>2. i.w \in Widths /\ i.a \in Operands /\ i.b \in Operands /\ i.a.r \in Named(i) /\ i.b.r \in Named(i)
  BY Carries, NamedIs DEF Move, AluReg, RotateReg, AluOps
<1>3. i.b.mode # "direct" => i.w # 1
  BY TameIs DEF Move, AluReg, RotateReg
<1>4. CASE Move(i)
  <2> DEFINE x == ReadOp(Machine, i.a, i.w)
  <2>1. x.v \in Values
    BY <1>1, <1>2, ReadOpType
  <2>2. Goto(WriteOp(x.m, i.b, x.v, i.w), Zero(x.v), After(i))
    BY <1>4 DEF Move, Done
  <2>3. Footprint(i) = Cells(x.m, i.b, i.w)
    BY <1>4, FootprintIs DEF Move
  <2> QED BY <1>2, <1>3, <2>1, <2>2, <2>3, MoveKeeps
<1>5. CASE AluReg(i)
  <2>1. PICK z \in ReadBoth(Machine, i.a, i.b, i.w) :
          Goto(WriteOp(z.m, i.b, Alu(i.op, z.x, z.y), i.w), Zero(Alu(i.op, z.x, z.y)), After(i))
    BY <1>5 DEF AluReg, Done
  <2>2. i.op \in AluOps /\ i.b.mode \in {"direct", "ref", "unknown"}
    BY <1>5, TameIs DEF AluReg, AluOps
  <2>3. z.x \in Values /\ z.y \in Int
    BY <1>1, <1>2, ReadBothType
  <2>4. Alu(i.op, z.x, z.y) \in Values
    BY <2>2, <2>3, AluType
  <2>5. z.m = ReadOp(Machine, i.a, i.w).m
    <3>1. ReadOp(Machine, i.a, i.w).m \in Machines
      BY <1>1, <1>2, ReadOpType
    <3>2. \A m \in Machines : ReadOp(m, i.b, i.w).m = m
      BY <1>2, <2>2, ReadConfined
    <3> QED BY <1>1, <3>1, <3>2 DEF ReadBoth
  <2>6. Footprint(i) = Cells(ReadOp(Machine, i.a, i.w).m, i.b, i.w)
    BY <1>5, FootprintIs DEF AluReg
  <2>7. Goto(WriteOp(ReadOp(Machine, i.a, i.w).m, i.b, Alu(i.op, z.x, z.y), i.w),
             Zero(Alu(i.op, z.x, z.y)), After(i))
    BY <2>1, <2>5
  <2> QED BY <1>2, <1>3, <2>4, <2>6, <2>7, MoveKeeps
<1>6. CASE RotateReg(i)
  <2> DEFINE n == ReadOp(Machine, i.a, 1)
             x == ReadOp(n.m, i.b, i.w)
             v == Rotate(i.op, Low(x.v, i.w), n.v, i.w)
  <2>1. Goto(WriteOp(x.m, i.b, v, i.w), Zero(v), After(i))
    BY <1>6 DEF RotateReg, Done
  <2>2. x.m = n.m
    <3>1. n.m \in Machines /\ i.b.mode \in {"direct", "ref", "unknown"}
      BY <1>1, <1>2, <1>6, ReadOpType, TameIs DEF RotateReg
    <3> QED BY <1>2, <3>1, ReadConfined
  <2>3. v \in Values
    BY <1>2, RotateType
  <2>4. Footprint(i) = Cells(n.m, i.b, i.w)
    BY <1>6, FootprintIs DEF RotateReg
  <2> HIDE DEF x, v
  <2>5. Goto(WriteOp(n.m, i.b, v, i.w), Zero(v), After(i))
    BY <2>1, <2>2
  <2> QED BY <1>1, <1>2, <1>3, <2>3, <2>4, <2>5, MoveKeeps
<1> QED BY <1>4, <1>5, <1>6

(* Writing a register, or through a register left alone, and then writing  *)
(* elsewhere: the second has the cells it would have had before the first. *)
LEMMA WriteTwoConfined ==
  ASSUME NEW m \in Machines, NEW a \in Operands, NEW b \in Operands, NEW w \in Widths,
         NEW q \in Values, NEW r \in Values, a.mode # "direct" => w # 1, b.mode # "direct" => w # 1,
         a.mode \in {"direct", "ref", "unknown"}, a.mode = "direct" /\ a.r = b.r => b.mode = "direct"
  PROVE  Confined(m, WriteOp(WriteOp(m, a, q, w), b, r, w), Cells(m, a, w) \cup Cells(m, b, w),
                  {a.r} \cup {b.r})
<1> DEFINE n == WriteOp(m, a, q, w)
<1>1. n \in Machines /\ Confined(m, n, Cells(m, a, w), {a.r})
  BY WriteOpType, WriteConfined
<1>2. a.r \in 0 .. 15 /\ b.r \in 0 .. 15
  BY DEF Operands
<1>3. ASSUME b.mode # "direct" PROVE n.reg[b.r] = m.reg[b.r]
  <2>1. CASE a.mode = "direct"
    <3>1. a.r # b.r
      BY <1>3, <2>1
    <3> QED BY <1>1, <1>2, <3>1 DEF Confined
  <2>2. CASE a.mode = "ref"
    <3>1. n = [m EXCEPT !.mem = WriteMem(@, m.reg[a.r], q, w)]
      BY <2>2 DEF WriteOp
    <3>2. m = [reg |-> m.reg, mem |-> m.mem]
      BY MachineIs
    <3>3. n.reg = m.reg
      BY <3>1, <3>2
    <3> QED BY <3>3
  <2>3. CASE a.mode = "unknown"
    BY <2>3 DEF WriteOp
  <2> QED BY <2>1, <2>2, <2>3
<1> HIDE DEF n
<1>4. Cells(n, b, w) = Cells(m, b, w)
  BY <1>3 DEF Cells
<1>5. Confined(n, WriteOp(n, b, r, w), Cells(n, b, w), {b.r})
  BY <1>1, WriteConfined
<1>6. Confined(m, WriteOp(n, b, r, w), Cells(m, a, w) \cup Cells(n, b, w), {a.r} \cup {b.r})
  BY <1>1, <1>5, ConfinedBoth
<1> QED BY <1>4, <1>6 DEF n

(* The divisions. *)
LEMMA DivisionsKeep ==
  ASSUME TypeOK, NEW i, WellFormed(i), Tame(i), DivImm(i) \/ DivReg(i)
  PROVE  Keeps(i)
<1>1. Machine \in Machines
  BY NowMachine
<1>2. i.w \in Widths /\ i.a \in Operands /\ i.b \in Operands /\ i.a.r \in Named(i) /\ i.b.r \in Named(i)
  BY Carries, NamedIs DEF DivImm, DivReg
<1> DEFINE x == ReadOp(Machine, i.a, i.w)
<1>3. x.m = Machine /\ x.v \in Values
  <2>1. i.a.mode \in {"direct", "ref", "unknown"}
    BY TameIs DEF DivImm, DivReg
  <2> QED BY <1>1, <1>2, <2>1, ReadOpType, ReadConfined
<1> HIDE DEF x
<1>4. CASE DivImm(i)
  <2> DEFINE q == x.v \div i.imm
             r == x.v % i.imm
  <2>1. Goto(WriteOp(WriteOp(x.m, i.a, q, i.w), i.b, r, i.w), {}, After(i))
    BY <1>4 DEF DivImm, Done, x
  <2>2. i.imm \in Values /\ i.imm # 0
    BY <1>4, Carries DEF DivImm
  <2>3. q \in Values /\ r \in Values
    BY <1>3, <2>2, QuotientType
  <2> HIDE DEF q, r
  <2>4. Goto(WriteOp(WriteOp(Machine, i.a, q, i.w), i.b, r, i.w), {}, After(i))
    BY <1>3, <2>1
  <2>5. Confined(Machine, WriteOp(WriteOp(Machine, i.a, q, i.w), i.b, r, i.w),
                 Cells(Machine, i.a, i.w) \cup Cells(Machine, i.b, i.w), {i.a.r} \cup {i.b.r})
    BY <1>1, <1>2, <1>4, <2>3, TameIs, WriteTwoConfined DEF DivImm
  <2>6. Footprint(i) = Cells(Machine, i.a, i.w) \cup Cells(Machine, i.b, i.w)
    <3>1. i.op = "DIVI"
      BY <1>4 DEF DivImm
    <3> QED BY <3>1, FootprintIs
  <2>7. {i.a.r} \cup {i.b.r} \subseteq Named(i)
    BY <1>2
  <2> QED BY <2>4, <2>5, <2>6, <2>7, GotoKeeps
<1>5. CASE DivReg(i)
  <2> DEFINE y == ReadOp(x.m, i.b, i.w)
             q == x.v \div y.v
             r == x.v % y.v
  <2>1. Goto(WriteOp(WriteOp(y.m, i.b, q, i.w), i.c, r, i.w), {}, After(i)) /\ y.v # 0
    BY <1>5 DEF DivReg, Done, x
  <2>2. i.c \in Operands /\ i.c.r \in Named(i) /\ i.b.mode \in {"direct", "ref", "unknown"}
    BY <1>5, Carries, NamedIs, TameIs DEF DivReg
  <2>3. y.m = Machine /\ y.v \in Values
    BY <1>1, <1>2, <1>3, <2>2, ReadOpType, ReadConfined
  <2> HIDE DEF y
  <2>4. q \in Values /\ r \in Values
    BY <1>3, <2>1, <2>3, QuotientType
  <2> HIDE DEF q, r
  <2>5. Goto(WriteOp(WriteOp(Machine, i.b, q, i.w), i.c, r, i.w), {}, After(i))
    BY <2>1, <2>3
  <2>6. Confined(Machine, WriteOp(WriteOp(Machine, i.b, q, i.w), i.c, r, i.w),
                 Cells(Machine, i.b, i.w) \cup Cells(Machine, i.c, i.w), {i.b.r} \cup {i.c.r})
    BY <1>1, <1>2, <1>5, <2>2, <2>4, TameIs, WriteTwoConfined DEF DivReg
  <2>7. Footprint(i) = Cells(Machine, i.b, i.w) \cup Cells(Machine, i.c, i.w)
    <3>1. i.op = "DIV"
      BY <1>5 DEF DivReg
    <3> QED BY <3>1, FootprintIs
  <2>8. {i.b.r} \cup {i.c.r} \subseteq Named(i)
    BY <1>2, <2>2
  <2> QED BY <2>5, <2>6, <2>7, <2>8, GotoKeeps
<1> QED BY <1>4, <1>5

(* Tests and comparisons, jumps and returns, FREE and system calls. *)
LEMMA ReadersKeep ==
  ASSUME TypeOK, NEW i, WellFormed(i),
         \/ TestImm(i) \/ TestReg(i) \/ CompareImm(i) \/ CompareReg(i)
         \/ JumpReg(i) \/ Ret(i) \/ Free(i) \/ Syscall(i)
  PROVE  Keeps(i)
<1>1. 1 \in Widths /\ 4 \in Widths
  BY DEF Widths
<1>2. PopSP \in Operands /\ PopSP.r = SP
  BY DEF PopSP, SP, Operands
<1>3. CASE TestImm(i) \/ CompareImm(i)
  <2>1. i.w \in Widths /\ i.a \in Operands /\ i.a.r \in Named(i)
    BY <1>3, Carries, NamedIs DEF TestImm, CompareImm
  <2>2. \E c : Goto(ReadOp(Machine, i.a, i.w).m, c, After(i))
    BY <1>3 DEF TestImm, CompareImm, Done
  <2> QED BY <2>1, <2>2, ReadKeeps
<1>4. CASE TestReg(i) \/ CompareReg(i)
  <2>1. i.w \in Widths /\ i.a \in Operands /\ i.a.r \in Named(i) /\ i.b \in Operands /\ i.b.r \in Named(i)
    BY <1>4, Carries, NamedIs DEF TestReg, CompareReg
  <2>2. \E u \in Widths : \E c : Goto(ReadOp(ReadOp(Machine, i.a, u).m, i.b, i.w).m, c, After(i))
    BY <1>1, <1>4, <2>1 DEF TestReg, CompareReg, Done
  <2> QED BY <2>1, <2>2, ReadTwoKeeps
<1>5. CASE JumpReg(i) \/ Free(i)
  <2>1. i.a \in Operands /\ i.a.r \in Named(i)
    BY <1>5, Carries, NamedIs DEF JumpReg, Free
  <2>2. \E a : Goto(ReadOp(Machine, i.a, 4).m, cond, a)
    BY <1>5 DEF JumpReg, Free, Done
  <2> QED BY <1>1, <2>1, <2>2, ReadKeeps
<1>6. CASE Ret(i) \/ Syscall(i)
  <2>1. SP \in Named(i)
    BY <1>6, NamedIs DEF Ret, Syscall
  <2>2. \/ \E a : Goto(ReadOp(Machine, PopSP, 4).m, cond, a)
        \/ \E a : Goto(ReadOp(Machine, PopSP, 1).m, cond, a)
        \/ reg' = reg /\ mem' = mem
    BY <1>6 DEF Ret, Syscall, Done, Goto, Machine
  <2> QED BY <1>1, <1>2, <2>1, <2>2, ReadKeeps, StillKeeps
<1> QED BY <1>3, <1>4, <1>5, <1>6

(* A call writes its slot of the stack. *)
LEMMA CallKeeps ==
  ASSUME TypeOK, NEW i, WellFormed(i), Call(i)
  PROVE  Keeps(i)
<1>1. PushSP \in Operands /\ PushSP.r = SP /\ 4 \in Widths /\ 4 # 1
  BY DEF PushSP, SP, Operands, Widths
<1>2. After(i) \in Values
  <2>1. After(i) \in 0 .. U32 - 1
    BY NowMachine, AfterType
  <2> QED BY <2>1, SizesType DEF Values
<1>3. Footprint(i) = Cells(Machine, PushSP, 4) /\ SP \in Named(i)
  BY FootprintIs, NamedIs DEF Call
<1> DEFINE p == WriteOp(Machine, PushSP, After(i), 4)
<1>4. p \in Machines /\ Confined(Machine, p, Cells(Machine, PushSP, 4), {SP})
  BY <1>1, <1>2, NowMachine, WriteOpType, WriteConfined
<1>5. CASE i.op \in {"CALLI", "CALL"}
  <2>1. \E a : Goto(p, cond, a)
    BY <1>5 DEF Call
  <2> HIDE DEF p
  <2>2. Cells(Machine, PushSP, 4) \subseteq Footprint(i) /\ {SP} \subseteq Named(i)
    BY <1>3
  <2> QED BY <1>4, <2>1, <2>2, GotoKeeps
<1>6. CASE i.op = "CALLM"
  <2> DEFINE n == ReadOp(p, i.a, 4).m
  <2>1. \E a : Goto(n, cond, a)
    BY <1>6 DEF Call
  <2>2. i.a \in Operands /\ i.a.r \in Named(i)
    BY <1>6, Carries, NamedIs
  <2> HIDE DEF p
  <2>3. Confined(p, n, {}, {i.a.r})
    BY <1>1, <1>4, <2>2, ReadConfined
  <2> HIDE DEF n
  <2>4. Confined(Machine, n, Cells(Machine, PushSP, 4) \cup {}, {SP} \cup {i.a.r})
    BY <1>4, <2>3, ConfinedBoth
  <2>5. Cells(Machine, PushSP, 4) \cup {} \subseteq Footprint(i) /\ {SP} \cup {i.a.r} \subseteq Named(i)
    BY <1>3, <2>2
  <2> QED BY <2>1, <2>4, <2>5, GotoKeeps
<1> QED BY <1>5, <1>6 DEF Call

(* What PUSH writes after n registers begins Distance away from where its  *)
(* register points at first.                                               *)
Distance(i, n) ==
  CASE i.a.mode = "predec"  -> -(n * i.w)
    [] i.a.mode = "postinc" -> n * i.w
    [] OTHER -> 0

(* A write through a register moves it by the width, in 32 bits. *)
LEMMA WriteMovesRegister ==
  ASSUME NEW m \in Machines, NEW o \in Operands, NEW v \in Values, NEW w \in Widths, o.mode # "direct"
  PROVE  /\ o.mode \in {"ref", "unknown"} => WriteOp(m, o, v, w).reg[o.r] = m.reg[o.r]
         /\ o.mode = "predec" => WriteOp(m, o, v, w).reg[o.r] = (m.reg[o.r] - w) % Word
         /\ o.mode = "postinc" => WriteOp(m, o, v, w).reg[o.r] = (m.reg[o.r] + w) % Word
<1>1. o.r \in 0 .. 15 /\ w \in Int /\ -w \in Int /\ m.reg[o.r] \in Int
  BY MachineIs DEF Operands, Widths
<1>2. ASSUME NEW k \in Machines, NEW x
      PROVE  [k EXCEPT !.mem = x].reg = k.reg /\ [k EXCEPT !.mem = x] = [reg |-> k.reg, mem |-> x]
  BY MachineIs
<1>3. CASE o.mode = "ref"
  BY <1>2, <1>3 DEF WriteOp
<1>4. CASE o.mode = "predec"
  <2> DEFINE n == Bump(m, o.r, -w)
  <2>1. WriteOp(m, o, v, w) = [n EXCEPT !.mem = WriteMem(@, n.reg[o.r], v, w)]
    BY <1>4 DEF WriteOp
  <2>2. n \in Machines /\ n.reg[o.r] = (m.reg[o.r] + -w) % Word
    BY <1>1, BumpType, BumpConfined
  <2> HIDE DEF n
  <2>3. WriteOp(m, o, v, w).reg = n.reg
    <3>1. WriteOp(m, o, v, w) = [n EXCEPT !.mem = WriteMem(n.mem, n.reg[o.r], v, w)]
      BY <2>1, <2>2, MachineIs
    <3> QED BY <1>2, <2>2, <3>1
  <2>4. m.reg[o.r] + -w = m.reg[o.r] - w
    BY <1>1
  <2> QED BY <1>4, <2>2, <2>3, <2>4
<1>5. CASE o.mode = "postinc"
  <2> DEFINE y == WriteMem(m.mem, m.reg[o.r], v, w)
             x == [m EXCEPT !.mem = y]
  <2>1. y \in Memories
    <3>1. v \in Int
      BY DEF Values
    <3> QED BY <1>1, <3>1, MachineIs, WriteMemType
  <2>2. WriteOp(m, o, v, w) = Bump(x, o.r, w)
    <3>1. x = [m EXCEPT !.mem = WriteMem(@, m.reg[o.r], v, w)]
      BY MachineIs
    <3> QED BY <1>5, <3>1 DEF WriteOp
  <2> HIDE DEF y
  <2>3. x \in Machines /\ x.reg = m.reg
    BY <1>2, <2>1, MachineIs DEF Machines
  <2> HIDE DEF x
  <2>4. Bump(x, o.r, w).reg[o.r] = (x.reg[o.r] + w) % Word
    BY <1>1, <2>3, BumpConfined
  <2> QED BY <1>5, <2>2, <2>3, <2>4
<1>6. CASE o.mode = "unknown"
  BY <1>6 DEF WriteOp
<1> QED BY <1>1, <1>3, <1>4, <1>5, <1>6 DEF Operands

(* One register more and one width further. *)
LEMMA DistanceNext ==
  ASSUME NEW i, i.w \in Widths, NEW n \in Nat
  PROVE  /\ Distance(i, n) \in Int /\ Distance(i, 0) = 0
         /\ i.a.mode = "predec" => Distance(i, n + 1) = Distance(i, n) - i.w
         /\ i.a.mode = "postinc" => Distance(i, n + 1) = Distance(i, n) + i.w
         /\ i.a.mode \in {"ref", "unknown"} => Distance(i, n) = 0
<1>1. i.w \in Nat
  BY DEF Widths
<1>2. n * i.w \in Int /\ (n + 1) * i.w = n * i.w + i.w /\ 0 * i.w = 0
  BY <1>1
<1> QED BY <1>1, <1>2 DEF Distance

(* How many registers PUSH has done after k turns. *)
Turns(i, k) == Cardinality(i.imm \cap (0 .. k - 1))

(* A turn adds one or none, and never more than the mask has. *)
LEMMA TurnsNext ==
  ASSUME NEW i, i.imm \subseteq 0 .. 15, NEW k \in 1 .. 16
  PROVE  /\ Turns(i, k - 1) \in Nat /\ Turns(i, 0) = 0 /\ Cardinality(i.imm) \in Nat
         /\ k - 1 \in i.imm => Turns(i, k) = Turns(i, k - 1) + 1 /\ Turns(i, k) <= Cardinality(i.imm)
         /\ k - 1 \notin i.imm => Turns(i, k) = Turns(i, k - 1)
<1>1. IsFiniteSet(i.imm)
  <2>1. 0 \in Int /\ 15 \in Int
    OBVIOUS
  <2>2. IsFiniteSet(0 .. 15)
    BY <2>1, FS_Interval
  <2> QED BY <2>2, FS_Subset
<1> DEFINE S == i.imm \cap (0 .. k - 2)
           T == i.imm \cap (0 .. k - 1)
<1>2. IsFiniteSet(S) /\ IsFiniteSet(T) /\ Cardinality(S) \in Nat /\ Cardinality(i.imm) \in Nat
      /\ Cardinality(T) <= Cardinality(i.imm)
  BY <1>1, FS_Subset, FS_CardinalityType
<1>3. i.imm \cap (0 .. 0 - 1) = {}
  OBVIOUS
<1>4. Turns(i, 0) = 0
  BY <1>3, FS_EmptySet DEF Turns
<1>5. Turns(i, k - 1) = Cardinality(S) /\ Turns(i, k) = Cardinality(T)
  <2>1. k - 1 - 1 = k - 2
    OBVIOUS
  <2> QED BY <2>1 DEF Turns
<1>6. /\ k - 1 \in i.imm => T = S \cup {k - 1} /\ k - 1 \notin S
      /\ k - 1 \notin i.imm => T = S
  OBVIOUS
<1> HIDE DEF S, T
<1>7. k - 1 \in i.imm => Cardinality(T) = Cardinality(S) + 1
  BY <1>2, <1>6, FS_AddElement
<1> QED BY <1>2, <1>4, <1>5, <1>6, <1>7

(* The cells PUSH writes for the n-th register it has are in its footprint.*)
LEMMA PushCells ==
  ASSUME NEW i, i.w \in Widths, i.a \in Operands, i.op = "PUSH",
         i.a.mode \notin {"direct", "unknown"},
         NEW n \in Nat, n < Cardinality(i.imm), Cardinality(i.imm) \in Nat,
         NEW m, m.reg[i.a.r] \in Int, reg[i.a.r] \in Int,
         m.reg[i.a.r] % U32 = (reg[i.a.r] + Distance(i, n)) % U32
  PROVE  Cells(m, i.a, i.w) \subseteq Footprint(i)
<1>1. i.w \in Nat /\ i.w # 0 /\ U32 \in Nat \ {0}
  BY SizesType DEF Widths
<1>2. Footprint(i) = {((reg[i.a.r] + d) % U32) + k : d \in Strides(i), k \in 0 .. i.w - 1}
  BY FootprintIs
<1> DEFINE x == m.reg[i.a.r]
           y == reg[i.a.r]
<1>3. ASSUME NEW b \in Int, NEW d \in Strides(i), b = (y + d) % U32
      PROVE  b .. b + i.w - 1 \subseteq Footprint(i)
  <2>1. ASSUME NEW c \in b .. b + i.w - 1 PROVE c \in Footprint(i)
    <3> DEFINE k == c - b
    <3>1. k \in 0 .. i.w - 1 /\ c = b + k
      BY <1>1
    <3>2. c = ((y + d) % U32) + k
      BY <1>3, <3>1
    <3> HIDE DEF k
    <3> QED BY <1>2, <3>1, <3>2
  <2> QED BY <2>1
<1>4. x \in Int /\ y \in Int /\ Distance(i, n) \in Int /\ x % U32 \in Int
      /\ x % U32 = (y + Distance(i, n)) % U32
  BY <1>1, DistanceNext
<1> HIDE DEF x, y
<1>5. CASE i.a.mode = "predec"
  <2> DEFINE d == -((n + 1) * i.w)
  <2>1. d \in Strides(i)
    <3>1. n + 1 \in 1 .. Cardinality(i.imm)
      OBVIOUS
    <3> QED BY <1>5, <3>1 DEF Strides
  <2>2. d = Distance(i, n) - i.w
    BY <1>5, DistanceNext DEF Distance
  <2> HIDE DEF d
  <2>3. (x - i.w) % U32 = (y + d) % U32
    <3> DEFINE z == y + Distance(i, n)
    <3>1. z \in Int /\ z - i.w = y + d
      BY <1>1, <1>4, <2>2
    <3> HIDE DEF z
    <3>2. \A k \in Int : ((k % U32) - i.w) % U32 = (k - i.w) % U32
      <4>1. i.w \in Int
        BY <1>1
      <4> QED BY <1>1, <4>1, WrapLate
    <3>3. /\ ((x % U32) - i.w) % U32 = (x - i.w) % U32
          /\ ((z % U32) - i.w) % U32 = (z - i.w) % U32
      BY <1>4, <3>1, <3>2
    <3>4. x % U32 = z % U32
      BY <1>4 DEF z
    <3> QED BY <3>1, <3>3, <3>4
  <2>4. (x - i.w) % U32 \in Int
    BY <1>1, <1>4
  <2>5. Cells(m, i.a, i.w) = (x - i.w) % U32 .. ((x - i.w) % U32) + i.w - 1
    BY <1>5 DEF Cells, x
  <2> QED BY <1>3, <2>1, <2>3, <2>4, <2>5
<1>6. CASE i.a.mode # "predec"
  <2> DEFINE d == Distance(i, n)
  <2>1. d \in Strides(i)
    <3>1. i.a.mode = "ref" \/ i.a.mode = "postinc"
      BY <1>6 DEF Operands
    <3>2. n \in 0 .. Cardinality(i.imm) - 1
      OBVIOUS
    <3> QED BY <3>1, <3>2 DEF Strides, Distance
  <2>2. Cells(m, i.a, i.w) = x % U32 .. (x % U32) + i.w - 1
    BY <1>6 DEF Cells, x
  <2> HIDE DEF d
  <2> QED BY <1>3, <1>4, <2>1, <2>2 DEF d
<1> QED BY <1>5, <1>6

(* So PUSH keeps to its footprint: every turn does, and every turn leaves  *)
(* its register where the next one's cells are counted from.               *)
LEMMA PushKeeps ==
  ASSUME TypeOK, NEW i, WellFormed(i), Tame(i), Push(i)
  PROVE  Keeps(i)
<1> DEFINE f == Pushed(i, Machine)
           r == i.a.r
<1>1. i.op = "PUSH" /\ Goto(f[16], {}, After(i))
  BY DEF Push, Pushed, Pushes, Done
<1>2. i.w \in Widths /\ i.a \in Operands /\ i.imm \subseteq 0 .. 15 /\ r \in Named(i)
      /\ (i.a.mode # "direct" => i.w # 1)
  BY <1>1, Carries, NamedIs, TameIs
<1>3. Machine \in Machines /\ Machine.reg = reg
  BY NowMachine
<1>4. f[0] = Machine /\ \A k \in 1 .. 16 : f[k] = PushOne(i, k, f[k - 1]) /\ f[k - 1] \in Machines
  <2>1. \A k \in 1 .. 16 : k - 1 \in 0 .. 16
    OBVIOUS
  <2> QED BY <1>2, <1>3, <2>1, PushedIs
<1>5. reg[r] \in Int /\ r \in 0 .. 15 /\ U32 \in Nat \ {0}
  BY <1>2, <1>3, MachineIs, SizesType DEF Operands
<1> HIDE DEF f
<1> DEFINE Kept(k) ==
             /\ Confined(Machine, f[k], Footprint(i), {r})
             /\ i.a.mode # "direct" => f[k].reg[r] % U32 = (reg[r] + Distance(i, Turns(i, k))) % U32
<1>6. Kept(0)
  <2>1. 1 \in 1 .. 16
    OBVIOUS
  <2>2. Turns(i, 0) = 0
    BY <1>2, <2>1, TurnsNext
  <2>3. Distance(i, 0) = 0
    BY <1>2, DistanceNext
  <2>4. Confined(Machine, Machine, Footprint(i), {r})
    BY DEF Confined
  <2> QED BY <1>3, <1>4, <1>5, <2>2, <2>3, <2>4
<1>7. ASSUME NEW k \in 1 .. 16, Kept(k - 1) PROVE Kept(k)
  <2> DEFINE m == f[k - 1]
             n == Turns(i, k - 1)
             v == m.reg[k - 1]
  <2>1. m \in Machines /\ f[k] = PushOne(i, k, m)
    BY <1>4
  <2>2. n \in Nat /\ Cardinality(i.imm) \in Nat
    BY <1>2, TurnsNext
  <2>3. CASE k - 1 \notin i.imm
    <3>1. f[k] = m
      BY <2>1, <2>3 DEF PushOne
    <3>2. Turns(i, k) = n
      BY <1>2, <2>3, TurnsNext
    <3> QED BY <1>7, <3>1, <3>2
  <2>4. CASE k - 1 \in i.imm
    <3>1. f[k] = WriteOp(m, i.a, v, i.w)
      BY <2>1, <2>4 DEF PushOne
    <3>2. Turns(i, k) = n + 1 /\ n < Cardinality(i.imm)
      <4>1. Turns(i, k) = n + 1 /\ Turns(i, k) <= Cardinality(i.imm)
        BY <1>2, <2>4, TurnsNext
      <4> HIDE DEF n
      <4> QED BY <2>2, <4>1
    <3>3. v \in Values /\ m.reg[r] \in Int
      <4>1. k - 1 \in 0 .. 15
        OBVIOUS
      <4> HIDE DEF m
      <4> QED BY <1>5, <2>1, <4>1, MachineIs
    <3>4. Confined(Machine, m, Footprint(i), {r})
          /\ (i.a.mode # "direct" => m.reg[r] % U32 = (reg[r] + Distance(i, n)) % U32)
      BY <1>7
    <3> HIDE DEF m, n, v
    <3>5. Confined(m, f[k], Cells(m, i.a, i.w), {r})
      BY <1>2, <2>1, <3>1, <3>3, WriteConfined
    <3>6. Cells(m, i.a, i.w) \subseteq Footprint(i)
      <4>1. CASE i.a.mode \in {"direct", "unknown"}
        BY <4>1 DEF Cells
      <4>2. CASE i.a.mode \notin {"direct", "unknown"}
        BY <1>1, <1>2, <1>5, <2>2, <3>2, <3>3, <3>4, <4>2, PushCells
      <4> QED BY <4>1, <4>2
    <3>7. Confined(Machine, f[k], Footprint(i), {r})
      <4>1. Confined(Machine, f[k], Footprint(i) \cup Cells(m, i.a, i.w), {r} \cup {r})
        BY <3>4, <3>5, ConfinedBoth
      <4>2. Footprint(i) \cup Cells(m, i.a, i.w) = Footprint(i) /\ {r} \cup {r} = {r}
        BY <3>6
      <4> QED BY <4>1, <4>2
    <3>8. ASSUME i.a.mode # "direct"
          PROVE  f[k].reg[r] % U32 = (reg[r] + Distance(i, n + 1)) % U32
      <4> DEFINE x == m.reg[r]
                 y == reg[r]
                 d == Distance(i, n)
      <4>1. x \in Int /\ y \in Int /\ d \in Int /\ y + d \in Int /\ i.w \in Int /\ x % U32 = (y + d) % U32
        <5>1. d \in Int
          BY <1>2, <2>2, DistanceNext
        <5>2. i.w \in Int
          BY <1>2 DEF Widths
        <5> QED BY <1>5, <3>3, <3>4, <3>8, <5>1, <5>2
      <4>2. /\ i.a.mode \in {"ref", "unknown"} => f[k].reg[r] = x
            /\ i.a.mode = "predec" => f[k].reg[r] = (x - i.w) % Word
            /\ i.a.mode = "postinc" => f[k].reg[r] = (x + i.w) % Word
        BY <1>2, <2>1, <3>1, <3>3, <3>8, WriteMovesRegister
      <4> HIDE DEF x, y, d
      <4>3. \A a \in Int : (a % Word) % U32 = a % U32
        <5>1. 4 \in Nat /\ 8 \in Nat /\ 4 <= 8
          OBVIOUS
        <5> QED BY <5>1, LowWrapped DEF Word, U32
      <4>4. \A a \in Int : ((a % U32) + i.w) % U32 = (a + i.w) % U32
                           /\ ((a % U32) - i.w) % U32 = (a - i.w) % U32
        BY <1>5, <4>1, WrapLate
      <4>5. i.a.mode \in {"ref", "unknown", "predec", "postinc"}
        BY <1>2, <3>8 DEF Operands
      <4>6. CASE i.a.mode \in {"ref", "unknown"}
        <5>1. Distance(i, n + 1) = d
          <6>1. n + 1 \in Nat
            BY <2>2
          <6> QED BY <1>2, <2>2, <4>6, <6>1, DistanceNext DEF d
        <5> QED BY <4>1, <4>2, <4>6, <5>1 DEF y
      <4>7. CASE i.a.mode = "predec"
        <5>1. Distance(i, n + 1) = d - i.w
          BY <1>2, <2>2, <4>7, DistanceNext DEF d
        <5>2. f[k].reg[r] % U32 = (x - i.w) % U32
          <6>1. x - i.w \in Int
            BY <4>1
          <6> QED BY <4>2, <4>3, <4>7, <6>1
        <5>3. (x - i.w) % U32 = (y + d - i.w) % U32
          BY <4>1, <4>4
        <5>4. y + d - i.w = y + (d - i.w)
          BY <4>1
        <5> QED BY <5>1, <5>2, <5>3, <5>4 DEF y
      <4>8. CASE i.a.mode = "postinc"
        <5>1. Distance(i, n + 1) = d + i.w
          BY <1>2, <2>2, <4>8, DistanceNext DEF d
        <5>2. f[k].reg[r] % U32 = (x + i.w) % U32
          <6>1. x + i.w \in Int
            BY <4>1
          <6> QED BY <4>2, <4>3, <4>8, <6>1
        <5>3. (x + i.w) % U32 = (y + d + i.w) % U32
          BY <4>1, <4>4
        <5>4. y + d + i.w = y + (d + i.w)
          BY <4>1
        <5> QED BY <5>1, <5>2, <5>3, <5>4 DEF y
      <4> QED BY <4>5, <4>6, <4>7, <4>8
    <3> QED BY <3>2, <3>7, <3>8
  <2> QED BY <2>3, <2>4
<1> HIDE DEF Kept
<1> DEFINE Bad == {k \in 0 .. 16 : ~Kept(k)}
<1>8. ASSUME Bad # {} PROVE FALSE
  <2>1. PICK k \in Bad : \A n \in Bad : k <= n
    <3>1. Bad \in SUBSET Nat
      OBVIOUS
    <3> HIDE DEF Bad
    <3> QED BY <1>8, <3>1, LeastOf
  <2>2. k \in 1 .. 16 /\ k - 1 \in 0 .. 16 /\ k - 1 \notin Bad
    BY <2>1, <1>6
  <2>3. Kept(k - 1)
    BY <2>2
  <2>4. Kept(k)
    BY <1>7, <2>2, <2>3
  <2> QED BY <2>1, <2>4
<1>9. Confined(Machine, f[16], Footprint(i), {r})
  <2>1. Kept(16)
    BY <1>8
  <2> QED BY <2>1 DEF Kept
<1>10. {r} \subseteq Named(i) /\ Goto(f[16], {}, After(i))
  BY <1>1, <1>2 DEF f
<1> HIDE DEF r
<1> QED BY <1>9, <1>10, GotoKeeps

(* A turn of POP's loop changes the register it is at, if the mask has it, *)
(* and the register it reads through.                                      *)
LEMMA PopStepConfined ==
  ASSUME VmInv, PopStep
  PROVE  Keeps(last)
<1>1. last.op = "POP" /\ WellFormed(last) /\ TypeOK
  BY DEF VmInv, Popping, PopStep
<1>2. last.w \in Widths /\ last.a \in Operands /\ last.a.r \in Named(last) /\ last.imm \subseteq Named(last)
      /\ last.imm \subseteq 0 .. 15
  BY <1>1, Carries, NamedIs
<1> DEFINE x == ReadOp(Machine, last.a, last.w)
           m == [x.m EXCEPT !.reg[pop] = x.v]
<1>3. CASE reg' = reg /\ mem' = mem
  BY <1>3, StillKeeps
<1>4. CASE pop \in last.imm /\ reg' = m.reg /\ mem' = m.mem
  <2>1. x.m \in Machines /\ Confined(Machine, x.m, {}, {last.a.r})
    BY <1>1, <1>2, NowMachine, ReadOpType, ReadConfined
  <2> HIDE DEF x
  <2>2. x.m = [reg |-> x.m.reg, mem |-> x.m.mem] /\ x.m.reg \in [0 .. 15 -> Values]
    BY <2>1, MachineIs
  <2>3. m.mem = x.m.mem /\ m.reg = [x.m.reg EXCEPT ![pop] = x.v]
    BY <2>2
  <2> HIDE DEF m
  <2>4. \A q \in 0 .. 15 : q # pop => m.reg[q] = x.m.reg[q]
    BY <2>2, <2>3
  <2>5. Confined(x.m, m, {}, {pop})
    BY <2>3, <2>4 DEF Confined
  <2>6. Confined(Machine, m, {} \cup {}, {last.a.r} \cup {pop})
    BY <2>1, <2>5, ConfinedBoth
  <2>7. {} \cup {} \subseteq Footprint(last) /\ {last.a.r} \cup {pop} \subseteq Named(last)
    BY <1>2, <1>4
  <2>8. Confined(Machine, m, Footprint(last), Named(last))
    BY <2>6, <2>7, ConfinedMore
  <2> QED BY <1>4, <2>8 DEF Keeps, Confined
<1>5. \/ reg' = reg /\ mem' = mem
      \/ pop \in last.imm /\ reg' = m.reg /\ mem' = m.mem
  BY DEF PopStep
<1> QED BY <1>3, <1>4, <1>5

(* Every instruction of which Tame holds stays within its footprint. *)
LEMMA InstructionKeeps ==
  ASSUME TypeOK, NEW i, WellFormed(i), Tame(i), Instruction(i)
  PROVE  Keeps(i)
<1>1. CASE Nop(i) \/ PopStart(i) \/ DivideByZero(i) \/ Branch(i) \/ JumpImm(i) \/ Stop(i)
  <2>1. reg' = reg /\ mem' = mem
    BY <1>1 DEF Nop, PopStart, DivideByZero, Branch, JumpImm, Stop, Done, Goto, Machine
  <2> QED BY <2>1, StillKeeps
<1>2. CASE Load(i) \/ Inc(i) \/ Dec(i) \/ Clr(i) \/ AluImm(i) \/ RotateImm(i) \/ Not(i)
  BY <1>2, OneOperandKeeps
<1>3. CASE FLoad(i) \/ FCast(i) \/ Alloc(i) \/ Refer(i)
  BY <1>3, AddressKeeps
<1>4. CASE Move(i) \/ AluReg(i) \/ RotateReg(i)
  BY <1>4, TwoOperandsKeep
<1>5. CASE DivImm(i) \/ DivReg(i)
  BY <1>5, DivisionsKeep
<1>6. CASE \/ TestImm(i) \/ TestReg(i) \/ CompareImm(i) \/ CompareReg(i)
           \/ JumpReg(i) \/ Ret(i) \/ Free(i) \/ Syscall(i)
  BY <1>6, ReadersKeep
<1>7. CASE Call(i)
  BY <1>7, CallKeeps
<1>8. CASE Push(i)
  BY <1>8, PushKeeps
<1> QED BY <1>1, <1>2, <1>3, <1>4, <1>5, <1>6, <1>7, <1>8 DEF Instruction

(* In a program of tame instructions no step changes a byte of memory its  *)
(* instruction's operands do not name, or a register it does not name      *)
(* (VM_LAYOUT.md:42-45, 68-71): not a MOVE through two moving registers,   *)
(* not a division that leaves its quotient in memory, not a PUSH of        *)
(* sixteen registers, one of them the register it writes through.          *)
THEOREM VmFrame ==
  ASSUME \A a \in DOMAIN Code : \A i \in Code[a] : Tame(i)
  PROVE  Spec => Frame
<1>1. ASSUME VmInv, Next PROVE Keeps(last')
  <2>1. CASE Execute
    <3>1. PICK i \in Code[ip] : last' = i /\ Instruction(i)
      BY <2>1 DEF Execute
    <3>2. TypeOK /\ WellFormed(i) /\ Tame(i)
      BY <1>1, <2>1, VmAssumption DEF VmInv, Execute
    <3>3. Keeps(i)
      BY <3>1, <3>2, InstructionKeeps
    <3> QED BY <3>1, <3>3
  <2>2. CASE PopStep
    <3>1. last' = last
      BY <2>2 DEF PopStep
    <3>2. Keeps(last)
      BY <1>1, <2>2, PopStepConfined
    <3> QED BY <3>1, <3>2
  <2> QED BY <1>1, <2>1, <2>2 DEF Next
<1>2. ASSUME VmInv, [Next]_vars
      PROVE  [/\ \A a \in Addresses : mem'[a] # mem[a] => a \in Footprint(last')
              /\ \A r \in 0 .. 15 : reg'[r] # reg[r] => r \in Named(last')]_vars
  <2>1. CASE Next
    <3>1. Keeps(last')
      BY <1>1, <1>2, <2>1
    <3> QED BY <3>1 DEF Keeps, Confined, Machine
  <2>2. CASE UNCHANGED vars
    BY <2>2
  <2> QED BY <1>2, <2>1, <2>2
<1> QED BY <1>2, VmInvariant, PTL DEF Spec, Frame

---------------------------------------------------------------------------
(* The stack. *)

(* The words from the bottom of the stack up: n of them in memory m. *)
Slots(m, n) == [j \in 1 .. n |-> ReadMem(m, MemSize - 4 * j, 4)]

(* Stacked and Within for any A7 and memory. *)
WithinOf(s) == \E k \in 0 .. Room : s = MemSize - 4 * k
StackOf(s, m) == IF WithinOf(s) THEN Slots(m, (MemSize - s) \div 4) ELSE <<>>

(* Memory has room for the words, and a register for the addresses. *)
LEMMA RoomIs ==
  ASSUME MemSize >= 4
  PROVE  /\ MemSize \in Nat /\ MemSize <= U32 /\ U32 \in Nat \ {0} /\ Word \in Nat /\ U32 + 4 < Word
         /\ Room \in Nat /\ 4 * Room + 4 <= MemSize
<1>1. MemSize \in Nat /\ MemSize <= U32 /\ U32 \in Nat \ {0} /\ Word \in Nat /\ U32 + 4 < Word
  BY VmAssumption, SizesType, WordRoom
<1> QED BY <1>1 DEF Room

(* Where A7 is with n words on the stack. *)
LEMMA SlotAt ==
  ASSUME MemSize >= 4, NEW n \in 0 .. Room + 1
  PROVE  /\ MemSize - 4 * n \in 0 .. U32 /\ MemSize - 4 * n \in Values
         /\ n # 0 => MemSize - 4 * n \in 0 .. U32 - 1 /\ (MemSize - 4 * n) % U32 = MemSize - 4 * n
         /\ (MemSize - (MemSize - 4 * n)) \div 4 = n
<1>1. /\ MemSize \in Nat /\ MemSize <= U32 /\ U32 \in Nat \ {0} /\ Word \in Nat /\ U32 + 4 < Word
      /\ Room \in Nat /\ 4 * Room + 4 <= MemSize
  BY RoomIs
<1> DEFINE s == MemSize - 4 * n
<1>2. s \in 0 .. U32 /\ (n # 0 => s \in 0 .. U32 - 1) /\ MemSize - s = 4 * n
  BY <1>1
<1>3. s \in Values
  BY <1>1, <1>2 DEF Values
<1>4. (4 * n) \div 4 = n
  OBVIOUS
<1> HIDE DEF s
<1>5. n # 0 => s % U32 = s
  BY <1>1, <1>2
<1> QED BY <1>2, <1>3, <1>4, <1>5 DEF s

(* With n words, n within the room, the stack is those words. *)
LEMMA StackAt ==
  ASSUME MemSize >= 4, NEW n \in 0 .. Room, NEW m
  PROVE  WithinOf(MemSize - 4 * n) /\ StackOf(MemSize - 4 * n, m) = Slots(m, n)
<1>1. n \in 0 .. Room + 1
  BY RoomIs
<1>2. (MemSize - (MemSize - 4 * n)) \div 4 = n
  BY <1>1, SlotAt
<1> QED BY <1>2 DEF WithinOf, StackOf

(* A word less than none, or more than there is room for, is not within.   *)
LEMMA NotWithin ==
  ASSUME MemSize >= 4
  PROVE  ~WithinOf(MemSize + 4) /\ ~WithinOf(MemSize - 4 * (Room + 1))
BY RoomIs DEF WithinOf

(* Storing a word below the stack appends it. *)
LEMMA PushSlots ==
  ASSUME MemSize >= 4, NEW n \in 0 .. Room, NEW m \in Memories, NEW v \in Int
  PROVE  Slots(WriteMem(m, MemSize - 4 * (n + 1), v, 4), n + 1) = Append(Slots(m, n), v % U32)
<1> DEFINE a == MemSize - 4 * (n + 1)
           k == WriteMem(m, a, v, 4)
<1>1. /\ MemSize \in Nat /\ MemSize <= U32 /\ U32 \in Nat \ {0}
      /\ Room \in Nat /\ 4 * Room + 4 <= MemSize /\ 4 \in Widths
  BY RoomIs DEF Widths
<1>2. a \in 0 .. U32 - 1
  BY <1>1
<1>3. ReadMem(k, a, 4) = v % U32
  BY <1>1, <1>2, ReadBack DEF U32
<1>4. ASSUME NEW j \in 1 .. n PROVE ReadMem(k, MemSize - 4 * j, 4) = ReadMem(m, MemSize - 4 * j, 4)
  <2> DEFINE b == MemSize - 4 * j
  <2>1. b \in 0 .. U32 - 1 /\ b >= a + 4
    BY <1>1
  <2> HIDE DEF a, b
  <2> QED BY <1>1, <1>2, <2>1, ReadBeside DEF b
<1> HIDE DEF k
<1>5. Slots(k, n + 1) = [j \in 1 .. n + 1 |-> IF j = n + 1 THEN v % U32 ELSE ReadMem(m, MemSize - 4 * j, 4)]
  BY <1>3, <1>4 DEF Slots
<1>6. Append(Slots(m, n), v % U32)
        = [j \in 1 .. n + 1 |-> IF j = n + 1 THEN v % U32 ELSE ReadMem(m, MemSize - 4 * j, 4)]
  BY DEF Slots
<1> QED BY <1>5, <1>6 DEF k

(* The stack without its last word. *)
LEMMA PopSlots ==
  ASSUME NEW m, NEW n \in Nat
  PROVE  /\ Len(Slots(m, n)) = n
         /\ n = 0 => Slots(m, n) = <<>>
         /\ n # 0 => /\ Slots(m, n) # <<>>
                     /\ Abstract!Last(Slots(m, n)) = ReadMem(m, MemSize - 4 * n, 4)
                     /\ Abstract!Front(Slots(m, n)) = Slots(m, n - 1)
<1>1. Len(Slots(m, n)) = n
  BY DEF Slots
<1>2. n = 0 => Slots(m, n) = <<>>
  BY DEF Slots
<1>3. ASSUME n # 0
      PROVE  /\ Slots(m, n) # <<>>
             /\ Slots(m, n)[n] = ReadMem(m, MemSize - 4 * n, 4)
             /\ SubSeq(Slots(m, n), 1, n - 1) = Slots(m, n - 1)
  BY <1>1, <1>3 DEF Slots
<1> QED BY <1>1, <1>2, <1>3 DEF Abstract!Last, Abstract!Front

(* Pushing a word: A7 goes down by four and the word is stored there. *)
LEMMA PushSPIs ==
  ASSUME TypeOK, MemSize >= 4, NEW n \in 0 .. Room, reg[SP] = MemSize - 4 * n, NEW v \in Values
  PROVE  WriteOp(Machine, PushSP, v, 4) =
           [reg |-> [reg EXCEPT ![SP] = MemSize - 4 * (n + 1)],
            mem |-> WriteMem(mem, MemSize - 4 * (n + 1), v, 4)]
<1> DEFINE k == Bump(Machine, SP, -4)
           a == MemSize - 4 * (n + 1)
<1>1. Machine \in Machines /\ Machine.reg = reg /\ Machine.mem = mem /\ reg \in [0 .. 15 -> Values]
  BY NowMachine DEF TypeOK
<1>2. (reg[SP] + -4) % Word = a
  <2>1. a \in 0 .. U32
    <3>1. n + 1 \in 0 .. Room + 1
      BY RoomIs
    <3> QED BY <3>1, SlotAt
  <2>2. reg[SP] + -4 = a /\ a \in 0 .. Word - 1 /\ Word \in Nat \ {0}
    BY <2>1, RoomIs
  <2> HIDE DEF a
  <2> QED BY <2>2
<1>3. k = [reg |-> [reg EXCEPT ![SP] = a], mem |-> mem]
  <2>1. SP \in 0 .. 15 /\ -4 \in Int
    BY DEF SP
  <2>2. k = [reg |-> [Machine.reg EXCEPT ![SP] = (@ + -4) % Word], mem |-> Machine.mem]
    BY <1>1, <2>1, BumpType
  <2> QED BY <1>1, <1>2, <2>1, <2>2
<1>4. WriteOp(Machine, PushSP, v, 4) = [k EXCEPT !.mem = WriteMem(@, k.reg[SP], v, 4)]
  BY DEF WriteOp, PushSP
<1>5. k.reg[SP] = a /\ k.mem = mem /\ k.reg = [reg EXCEPT ![SP] = a]
  <2>1. SP \in 0 .. 15 /\ [reg EXCEPT ![SP] = a][SP] = a
    BY <1>1 DEF SP
  <2> HIDE DEF k, a
  <2> QED BY <1>3, <2>1
<1> HIDE DEF k, a
<1>6. [k EXCEPT !.mem = WriteMem(@, k.reg[SP], v, 4)] = [reg |-> k.reg, mem |-> WriteMem(mem, a, v, 4)]
  BY <1>3, <1>5
<1> QED BY <1>4, <1>5, <1>6 DEF a

(* Popping one: it is read where A7 points, and A7 goes up by four. *)
LEMMA PopSPIs ==
  ASSUME TypeOK, MemSize >= 4, NEW n \in 0 .. Room, reg[SP] = MemSize - 4 * n
  PROVE  ReadOp(Machine, PopSP, 4) =
           [v |-> ReadMem(mem, MemSize - 4 * n, 4),
            m |-> [reg |-> [reg EXCEPT ![SP] = MemSize - 4 * n + 4], mem |-> mem]]
<1> DEFINE k == Bump(Machine, SP, 4)
           a == MemSize - 4 * n
<1>1. Machine \in Machines /\ Machine.reg = reg /\ Machine.mem = mem /\ reg \in [0 .. 15 -> Values]
  BY NowMachine DEF TypeOK
<1>2. (reg[SP] + 4) % Word = a + 4
  <2>1. a \in 0 .. U32
    <3>1. n \in 0 .. Room + 1
      BY RoomIs
    <3> QED BY <3>1, SlotAt
  <2>2. reg[SP] + 4 = a + 4 /\ a + 4 \in 0 .. Word - 1 /\ Word \in Nat \ {0}
    BY <2>1, RoomIs
  <2> HIDE DEF a
  <2> QED BY <2>2
<1>3. k = [reg |-> [reg EXCEPT ![SP] = a + 4], mem |-> mem]
  <2>1. SP \in 0 .. 15 /\ 4 \in Int
    BY DEF SP
  <2>2. k = [reg |-> [Machine.reg EXCEPT ![SP] = (@ + 4) % Word], mem |-> Machine.mem]
    BY <1>1, <2>1, BumpType
  <2> QED BY <1>1, <1>2, <2>1, <2>2
<1>4. ReadOp(Machine, PopSP, 4) = [v |-> ReadMem(mem, reg[SP], 4), m |-> k]
  BY <1>1 DEF ReadOp, PopSP
<1> HIDE DEF k
<1> QED BY <1>3, <1>4

(* What a word does to the stack: it comes on top, or there was no room.   *)
PushesWord(w) ==
  \/ /\ WithinOf(reg[SP]) /\ WithinOf(reg'[SP])
     /\ Len(StackOf(reg[SP], mem)) < Room
     /\ StackOf(reg'[SP], mem') = Append(StackOf(reg[SP], mem), w)
  \/ /\ WithinOf(reg[SP]) /\ ~WithinOf(reg'[SP])
     /\ Len(StackOf(reg[SP], mem)) = Room

(* It comes off again, or there was none. *)
PopsWord(w) ==
  \/ /\ WithinOf(reg[SP]) /\ WithinOf(reg'[SP])
     /\ StackOf(reg[SP], mem) # <<>>
     /\ w = Abstract!Last(StackOf(reg[SP], mem))
     /\ StackOf(reg'[SP], mem') = Abstract!Front(StackOf(reg[SP], mem))
  \/ /\ WithinOf(reg[SP]) /\ ~WithinOf(reg'[SP])
     /\ StackOf(reg[SP], mem) = <<>>

(* An instruction that leaves the machine after a push pushes, *)
LEMMA PushStep ==
  ASSUME TypeOK, MemSize >= 4, WithinOf(reg[SP]), NEW v \in Values, NEW m, m = WriteOp(Machine, PushSP, v, 4),
         reg'[SP] = m.reg[SP], mem' = m.mem
  PROVE  PushesWord(v % U32) /\ \A r \in 0 .. 15 \ {SP} : m.reg[r] = reg[r]
<1>1. PICK n \in 0 .. Room : reg[SP] = MemSize - 4 * n
  BY DEF WithinOf
<1> DEFINE a == MemSize - 4 * (n + 1)
<1>2. m = [reg |-> [reg EXCEPT ![SP] = a], mem |-> WriteMem(mem, a, v, 4)]
  BY <1>1, PushSPIs
<1>3. reg'[SP] = a /\ mem' = WriteMem(mem, a, v, 4)
  <2>1. reg \in [0 .. 15 -> Values] /\ SP \in 0 .. 15
    BY DEF TypeOK, SP
  <2> HIDE DEF a
  <2> QED BY <1>2, <2>1
<1>4. \A r \in 0 .. 15 \ {SP} : m.reg[r] = reg[r]
  <2>1. m.reg = [reg EXCEPT ![SP] = a] /\ reg \in [0 .. 15 -> Values]
    <3>1. reg \in [0 .. 15 -> Values]
      BY DEF TypeOK
    <3> DEFINE R == [reg EXCEPT ![SP] = a]
               M == WriteMem(mem, a, v, 4)
    <3>2. m = [reg |-> R, mem |-> M]
      BY <1>2
    <3> HIDE DEF R, M
    <3>3. m.reg = R
      BY <3>2
    <3> QED BY <3>1, <3>3 DEF R
  <2> HIDE DEF a
  <2> QED BY <2>1
<1>5. WithinOf(reg[SP]) /\ StackOf(reg[SP], mem) = Slots(mem, n) /\ Len(Slots(mem, n)) = n
  BY <1>1, StackAt, PopSlots
<1>6. CASE n < Room
  <2>1. n + 1 \in 0 .. Room
    BY <1>6, RoomIs
  <2>2. WithinOf(a) /\ StackOf(a, mem') = Slots(mem', n + 1)
    BY <2>1, StackAt
  <2>3. Slots(WriteMem(mem, a, v, 4), n + 1) = Append(Slots(mem, n), v % U32)
    <3>1. mem \in Memories /\ v \in Int
      BY DEF TypeOK, Values
    <3> QED BY <3>1, PushSlots
  <2> HIDE DEF a
  <2> QED BY <1>3, <1>4, <1>5, <1>6, <2>2, <2>3 DEF PushesWord
<1>7. CASE n = Room
  <2>1. ~WithinOf(a)
    BY <1>7, NotWithin
  <2> HIDE DEF a
  <2> QED BY <1>3, <1>4, <1>5, <1>7, <2>1 DEF PushesWord
<1>8. n < Room \/ n = Room
  BY RoomIs
<1> QED BY <1>6, <1>7, <1>8, <1>4

(* and one that leaves the machine after a pop pops. *)
LEMMA PopsStep ==
  ASSUME TypeOK, MemSize >= 4, WithinOf(reg[SP]),
         reg'[SP] = ReadOp(Machine, PopSP, 4).m.reg[SP], mem' = mem
  PROVE  /\ PopsWord(ReadOp(Machine, PopSP, 4).v)
         /\ ReadOp(Machine, PopSP, 4).v \in 0 .. U32 - 1
         /\ ReadOp(Machine, PopSP, 4).m.mem = mem
         /\ \A r \in 0 .. 15 \ {SP} : ReadOp(Machine, PopSP, 4).m.reg[r] = reg[r]
<1>1. PICK n \in 0 .. Room : reg[SP] = MemSize - 4 * n
  BY DEF WithinOf
<1> DEFINE a == MemSize - 4 * n
           x == ReadOp(Machine, PopSP, 4)
<1>2. x = [v |-> ReadMem(mem, a, 4), m |-> [reg |-> [reg EXCEPT ![SP] = a + 4], mem |-> mem]]
  BY <1>1, PopSPIs
<1>3. reg'[SP] = a + 4 /\ x.v = ReadMem(mem, a, 4)
  <2>1. reg \in [0 .. 15 -> Values] /\ SP \in 0 .. 15 /\ reg'[SP] = x.m.reg[SP]
    BY DEF TypeOK, SP
  <2> HIDE DEF a, x
  <2> QED BY <1>2, <2>1
<1>4. x.v \in 0 .. U32 - 1
  <2>1. mem \in Memories /\ a \in Int /\ 4 \in Widths
    BY RoomIs DEF TypeOK, Widths
  <2>2. ReadMem(mem, a, 4) \in 0 .. Span(4) - 1
    <3> HIDE DEF a
    <3> QED BY <2>1, ReadMemType
  <2> QED BY <1>3, <2>2 DEF U32
<1>5. x.m.mem = mem /\ \A r \in 0 .. 15 \ {SP} : x.m.reg[r] = reg[r]
  <2>1. x.m.reg = [reg EXCEPT ![SP] = a + 4] /\ x.m.mem = mem /\ reg \in [0 .. 15 -> Values]
    <3>1. reg \in [0 .. 15 -> Values]
      BY DEF TypeOK
    <3> HIDE DEF a, x
    <3> QED BY <1>2, <3>1
  <2> HIDE DEF a, x
  <2> QED BY <2>1
<1> HIDE DEF x
<1>6. StackOf(reg[SP], mem) = Slots(mem, n) /\ n \in Nat
  BY <1>1, StackAt
<1>7. ASSUME n = 0 PROVE PopsWord(x.v)
  <2>1. ~WithinOf(a + 4)
    <3>1. a + 4 = MemSize + 4
      BY <1>7, RoomIs
    <3> HIDE DEF a
    <3> QED BY <3>1, NotWithin
  <2>2. Slots(mem, n) = <<>>
    BY <1>6, <1>7, PopSlots
  <2> QED BY <1>3, <1>6, <2>1, <2>2 DEF PopsWord
<1>8. ASSUME n # 0 PROVE PopsWord(x.v)
  <2>1. n - 1 \in 0 .. Room /\ a + 4 = MemSize - 4 * (n - 1)
    BY <1>8, RoomIs
  <2>2. WithinOf(MemSize - 4 * (n - 1)) /\ StackOf(MemSize - 4 * (n - 1), mem) = Slots(mem, n - 1)
    BY <2>1, StackAt
  <2>3. WithinOf(reg'[SP]) /\ StackOf(reg'[SP], mem') = Slots(mem, n - 1)
    <3> HIDE DEF a
    <3> QED BY <1>3, <2>1, <2>2
  <2>4. /\ Slots(mem, n) # <<>> /\ Abstract!Last(Slots(mem, n)) = ReadMem(mem, a, 4)
        /\ Abstract!Front(Slots(mem, n)) = Slots(mem, n - 1)
    BY <1>6, <1>8, PopSlots
  <2> HIDE DEF a
  <2> QED BY <1>3, <1>6, <2>3, <2>4 DEF PopsWord
<1> QED BY <1>4, <1>5, <1>7, <1>8 DEF x

(* The stack of the refinement is StackOf, now and after a step. *)
LEMMA StackIs ==
  /\ Within <=> WithinOf(reg[SP])
  /\ Within' <=> WithinOf(reg'[SP])
  /\ Stacked = StackOf(reg[SP], mem)
  /\ Stacked' = StackOf(reg'[SP], mem')
<1>1. (Within <=> WithinOf(reg[SP])) /\ Stacked = StackOf(reg[SP], mem)
  BY DEF Within, WithinOf, Stacked, StackOf, Slots
<1>2. (Within' <=> WithinOf(reg'[SP])) /\ Stacked' = StackOf(reg'[SP], mem')
  BY DEF Within, WithinOf, Stacked, StackOf, Slots
<1> QED BY <1>1, <1>2

(* A step that pushes a return address is a call of CallStack's, *)
LEMMA CallMeets ==
  ASSUME NEW n \in {2, 3, 4, 5}, PushesWord((ip + n) % U32), Did' = "call",
         ip' \in 0 .. U32 - 1, reg'[0] = reg[0]
  PROVE  Abstract!Next
<1>1. \/ /\ Within /\ Within' /\ Len(Stacked) < Room
         /\ Stacked' = Append(Stacked, (ip + n) % U32)
      \/ Within /\ ~Within' /\ Len(Stacked) = Room
  BY StackIs DEF PushesWord
<1>2. CASE /\ Within /\ Within' /\ Len(Stacked) < Room
           /\ Stacked' = Append(Stacked, (ip + n) % U32)
  <2>1. Abstract!CallTo
    BY <1>2 DEF Abstract!CallTo, Abstract!Past
  <2> QED BY <1>2, <2>1 DEF Abstract!Next
<1>3. CASE Within /\ ~Within' /\ Len(Stacked) = Room
  <2>1. Abstract!Overflow
    BY <1>3 DEF Abstract!Overflow
  <2> QED BY <1>3, <2>1 DEF Abstract!Next
<1> QED BY <1>1, <1>2, <1>3

(* one that pushes D0 is a push of it, *)
LEMMA PushMeets ==
  ASSUME NEW n \in {2, 3, 4, 5}, PushesWord(reg[0] % U32), Did' = "push",
         ip' = (ip + n) % U32, reg'[0] = reg[0]
  PROVE  Abstract!Next
<1>1. \/ /\ Within /\ Within' /\ Len(Stacked) < Room
         /\ Stacked' = Append(Stacked, reg[0] % U32)
      \/ Within /\ ~Within' /\ Len(Stacked) = Room
  BY StackIs DEF PushesWord
<1>2. CASE /\ Within /\ Within' /\ Len(Stacked) < Room
           /\ Stacked' = Append(Stacked, reg[0] % U32)
  <2>1. Abstract!PushData
    BY <1>2 DEF Abstract!PushData, Abstract!Past
  <2> QED BY <1>2, <2>1 DEF Abstract!Next
<1>3. CASE Within /\ ~Within' /\ Len(Stacked) = Room
  <2>1. Abstract!Overflow
    BY <1>3 DEF Abstract!Overflow
  <2> QED BY <1>3, <2>1 DEF Abstract!Next
<1> QED BY <1>1, <1>2, <1>3

(* and one that pops is a return, a pop or a drop. *)
LEMMA PopMeets ==
  ASSUME NEW w, PopsWord(w), NEW n \in {2, 3, 4, 5},
         \/ Did' = "ret" /\ ip' = w /\ reg'[0] = reg[0]
         \/ Did' = "pop" /\ ip' = (ip + n) % U32 /\ reg'[0] = w
         \/ Did' = "drop" /\ ip' = (ip + n) % U32 /\ reg'[0] = reg[0]
  PROVE  Abstract!Next
<1>1. \/ /\ Within /\ Within' /\ Stacked # <<>> /\ w = Abstract!Last(Stacked)
         /\ Stacked' = Abstract!Front(Stacked)
      \/ Within /\ ~Within' /\ Stacked = <<>>
  BY StackIs DEF PopsWord
<1>2. CASE /\ Within /\ Within' /\ Stacked # <<>> /\ w = Abstract!Last(Stacked)
           /\ Stacked' = Abstract!Front(Stacked)
  <2>1. Abstract!Return \/ Abstract!PopData \/ Abstract!Drop
    BY <1>2 DEF Abstract!Return, Abstract!PopData, Abstract!Drop, Abstract!Past
  <2> QED BY <1>2, <2>1 DEF Abstract!Next
<1>3. CASE Within /\ ~Within' /\ Stacked = <<>>
  <2>1. Abstract!Underflow
    BY <1>3 DEF Abstract!Underflow
  <2> QED BY <1>3, <2>1 DEF Abstract!Next
<1> QED BY <1>1, <1>2, <1>3

(* A step that leaves A7 and memory alone leaves the stack alone. *)
LEMMA OtherMeets ==
  ASSUME Within, reg'[SP] = reg[SP], mem' = mem, Did' = "other"
  PROVE  Abstract!Next
<1>1. Within' /\ Stacked' = Stacked
  BY StackIs
<1>2. Abstract!Other
  BY <1>1 DEF Abstract!Other
<1> QED BY <1>1, <1>2 DEF Abstract!Next

(* An instruction apart from the stack has no footprint. *)
LEMMA ApartFootprint ==
  ASSUME NEW i, Apart(i)
  PROVE  Footprint(i) = {}
<1>1. ASSUME NEW m, NEW o, NEW w, o.mode = "direct" PROVE Cells(m, o, w) = {}
  BY <1>1 DEF Cells
<1>2. CASE i.op \in InPlace \ {"ALLOC", "REFER"}
  <2>1. i.a \in Written(i)
    BY <1>2 DEF Written, InPlace, RegRegOps
  <2> QED BY <1>1, <1>2, <2>1, FootprintIs DEF Apart
<1>3. CASE i.op \in {"ALLOC", "REFER"}
  BY <1>1, <1>3, FootprintIs DEF Apart
<1>4. CASE i.op \in {"MOVE", "ADD", "SUB", "MUL", "AND", "OR", "XOR", "LSL", "LSR", "ROL", "ROR"}
  <2>1. i.b \in Written(i)
    BY <1>4 DEF Written, InPlace, RegRegOps
  <2> QED BY <1>1, <1>4, <2>1, FootprintIs DEF Apart
<1>5. CASE i.op = "DIVI"
  <2>1. Written(i) = {i.a, i.b}
    BY <1>5 DEF Written, InPlace, RegRegOps
  <2> QED BY <1>1, <1>5, <2>1, FootprintIs DEF Apart
<1>6. CASE i.op = "DIV"
  <2>1. Written(i) = {i.b, i.c}
    BY <1>6 DEF Written, InPlace, RegRegOps
  <2> QED BY <1>1, <1>6, <2>1, FootprintIs DEF Apart
<1>7. ASSUME i.op \notin InPlace, i.op \notin {"DIVI", "DIV"},
             i.op \notin {"MOVE", "ADD", "SUB", "MUL", "AND", "OR", "XOR", "LSL", "LSR", "ROL", "ROR"}
      PROVE  Footprint(i) = {}
  <2>1. i.op \notin {"CALL", "CALLI", "CALLM", "PUSH"}
    BY DEF Apart
  <2> QED BY <1>7, <2>1 DEF Footprint, RegRegOps
<1> QED BY <1>2, <1>3, <1>4, <1>5, <1>6, <1>7 DEF InPlace

(* So it keeps the stack. *)
LEMMA ApartMeets ==
  ASSUME TypeOK, TypeOK', Within, NEW i, last' = i, WellFormed(i), Instruction(i), Apart(i)
  PROVE  Abstract!Next
<1>1. Keeps(i)
  BY InstructionKeeps DEF Apart
<1>2. reg'[SP] = reg[SP]
  BY <1>1 DEF Keeps, Confined, Machine, SP, Apart
<1>3. mem' = mem
  <2>1. \A a \in Addresses : mem'[a] = mem[a]
    BY <1>1, ApartFootprint DEF Keeps, Confined, Machine
  <2> QED BY <2>1 DEF TypeOK, Memories
<1>4. Did' = "other"
  <2>1. i.op = "MOVE" => i.a # PopSP
    BY NamedIs DEF Apart, PopSP
  <2> QED BY <2>1 DEF Did, Apart, PopSP
<1> QED BY <1>2, <1>3, <1>4, OtherMeets

(* The instructions that use the stack are those of the actions of their   *)
(* names.                                                                  *)
LEMMA StackAction ==
  ASSUME NEW i, Instruction(i)
  PROVE  /\ i.op \in {"CALL", "CALLI", "CALLM"} => Call(i)
         /\ i.op = "RET" => Ret(i)
         /\ i.op = "PUSH" => Push(i)
         /\ i.op = "MOVE" => Move(i)
         /\ i.op = "SYSCALL" => Syscall(i)
<1> DEFINE Uses == {"CALL", "CALLI", "CALLM", "RET", "PUSH", "MOVE", "SYSCALL"}
<1>1. CASE Load(i) \/ Inc(i) \/ Dec(i) \/ Clr(i) \/ Not(i) \/ RotateImm(i) \/ RotateReg(i)
  <2>1. i.op \notin Uses
    BY <1>1 DEF Load, Inc, Dec, Clr, Not, RotateImm, RotateReg
  <2> QED BY <2>1
<1>2. CASE AluImm(i) \/ AluReg(i) \/ Nop(i) \/ PopStart(i) \/ DivideByZero(i) \/ DivImm(i) \/ DivReg(i)
  <2>1. i.op \notin Uses
    BY <1>2 DEF AluImm, AluReg, Nop, PopStart, DivideByZero, DivImm, DivReg
  <2> QED BY <2>1
<1>3. CASE TestImm(i) \/ TestReg(i) \/ CompareImm(i) \/ CompareReg(i) \/ FLoad(i) \/ FCast(i)
  <2>1. i.op \notin Uses
    BY <1>3 DEF TestImm, TestReg, CompareImm, CompareReg, FLoad, FCast
  <2> QED BY <2>1
<1>4. CASE Branch(i) \/ JumpImm(i) \/ JumpReg(i) \/ Alloc(i) \/ Free(i) \/ Refer(i) \/ Stop(i)
  <2>1. i.op \notin Uses
    BY <1>4 DEF Branch, BranchOps, JumpImm, JumpReg, Alloc, Free, Refer, Stop
  <2> QED BY <2>1
<1>5. CASE Call(i) \/ Ret(i) \/ Push(i) \/ Move(i) \/ Syscall(i)
  BY <1>5 DEF Call, Ret, Push, Move, Syscall
<1> QED BY <1>1, <1>2, <1>3, <1>4, <1>5 DEF Instruction

(* A call pushes the address of the instruction after it. *)
LEMMA CallOnStack ==
  ASSUME TypeOK, TypeOK', MemSize >= 4, Within, NEW i, last' = i, WellFormed(i), OnStack(i), Call(i)
  PROVE  Abstract!Next
<1> DEFINE p == WriteOp(Machine, PushSP, After(i), 4)
<1>1. i.op \in {"CALL", "CALLI", "CALLM"} /\ Did' = "call"
  BY DEF Call, Did
<1>2. After(i) \in 0 .. U32 - 1 /\ After(i) \in Values
  <2>1. After(i) \in 0 .. U32 - 1
    BY NowMachine, AfterType
  <2> QED BY <2>1, SizesType DEF Values
<1>3. PushSP \in Operands /\ 4 \in Widths
  BY DEF PushSP, SP, Operands, Widths
<1>4. p \in Machines
  BY <1>2, <1>3, NowMachine, WriteOpType
<1>5. reg' = p.reg /\ mem' = p.mem
  <2>1. CASE i.op \in {"CALL", "CALLI"}
    BY <2>1 DEF Call, Goto
  <2>2. CASE i.op = "CALLM"
    <3>1. i.a.mode = "direct" /\ i.a \in Operands
      BY <2>2, Carries DEF OnStack, Apart
    <3>2. ReadOp(p, i.a, 4).m = p
      <4> HIDE DEF p
      <4> QED BY <1>3, <1>4, <3>1, ReadConfined
    <3>3. Goto(ReadOp(p, i.a, 4).m, cond, ReadOp(p, i.a, 4).v % U32)
      BY <2>2 DEF Call
    <3> HIDE DEF p
    <3> QED BY <3>2, <3>3 DEF Goto
  <2> QED BY <1>1, <2>1, <2>2
<1>6. PushesWord(After(i) % U32) /\ \A r \in 0 .. 15 \ {SP} : p.reg[r] = reg[r]
  BY <1>2, <1>5, StackIs, PushStep
<1> HIDE DEF p
<1>7. reg'[0] = reg[0]
  BY <1>5, <1>6 DEF SP
<1>8. ip' \in 0 .. U32 - 1
  BY DEF TypeOK
<1>9. Length(i) \in {2, 3, 4, 5} /\ After(i) = (ip + Length(i)) % U32
  BY <1>1 DEF Length, After, RegRegOps, Imm8RegOps, ImmRegOps, BranchOps
<1>10. After(i) % U32 = After(i)
  BY <1>2, SizesType
<1> QED BY <1>1, <1>6, <1>7, <1>8, <1>9, <1>10, CallMeets

(* PUSH.L D0 -(A7) pushes D0: the other fifteen turns do nothing. *)
LEMMA PushOnStack ==
  ASSUME TypeOK, MemSize >= 4, Within, NEW i, last' = i, WellFormed(i), OnStack(i), Push(i)
  PROVE  Abstract!Next
<1> DEFINE f == Pushed(i, Machine)
<1>1. i.op = "PUSH" /\ Goto(f[16], {}, After(i)) /\ Did' = "push"
  BY DEF Push, Pushed, Pushes, Done, Did
<1>2. i.w = 4 /\ i.imm = {0} /\ i.a = PushSP /\ i.w \in Widths /\ i.a \in Operands
  BY <1>1, Carries DEF OnStack, Apart
<1>3. /\ f[0] = Machine /\ Machine.reg = reg
      /\ \A k \in 1 .. 16 : f[k] = PushOne(i, k, f[k - 1])
  BY <1>2, NowMachine, PushedIs
<1> HIDE DEF f
<1>4. f[1] = WriteOp(Machine, PushSP, reg[0], 4)
  <2>1. 1 \in 1 .. 16 /\ 1 - 1 = 0
    OBVIOUS
  <2>2. f[1] = PushOne(i, 1, f[1 - 1])
    BY <1>3, <2>1
  <2> QED BY <1>2, <1>3, <2>1, <2>2 DEF PushOne
<1>5. f[16] = f[1]
  <2> DEFINE Bad == {k \in 1 .. 16 : f[k] # f[1]}
  <2>1. ASSUME Bad # {} PROVE FALSE
    <3>1. PICK k \in Bad : \A n \in Bad : k <= n
      <4>1. Bad \in SUBSET Nat
        OBVIOUS
      <4> HIDE DEF Bad
      <4> QED BY <2>1, <4>1, LeastOf
    <3>2. k \in 2 .. 16 /\ k - 1 \in 1 .. 16 /\ k - 1 \notin Bad
      BY <3>1
    <3>3. f[k - 1] = f[1] /\ k - 1 \notin i.imm
      BY <1>2, <3>2
    <3>4. f[k] = PushOne(i, k, f[k - 1])
      BY <1>3, <3>2
    <3>5. f[k] = f[1]
      BY <3>3, <3>4 DEF PushOne
    <3> QED BY <3>1, <3>5
  <2> QED BY <2>1
<1>6. reg' = f[1].reg /\ mem' = f[1].mem /\ ip' = After(i)
  BY <1>1, <1>5 DEF Goto, f
<1>7. reg[0] \in Values
  BY DEF TypeOK
<1>8. PushesWord(reg[0] % U32) /\ \A r \in 0 .. 15 \ {SP} : f[1].reg[r] = reg[r]
  BY <1>4, <1>6, <1>7, StackIs, PushStep
<1>9. reg'[0] = reg[0]
  BY <1>6, <1>8 DEF SP
<1>10. Length(i) \in {2, 3, 4, 5} /\ After(i) = (ip + Length(i)) % U32
  BY <1>1 DEF Length, After, RegRegOps, Imm8RegOps, ImmRegOps, BranchOps
<1> QED BY <1>1, <1>6, <1>8, <1>9, <1>10, PushMeets

(* RET, MOVE.L (A7)+ D0 and the system calls with an argument pop. *)
LEMMA PopOnStack ==
  ASSUME TypeOK, MemSize >= 4, Within, NEW i, last' = i, WellFormed(i), OnStack(i),
         \/ Ret(i)
         \/ Move(i) /\ i.a = PopSP
         \/ Syscall(i) /\ i.imm \in {0, 2}
  PROVE  Abstract!Next
<1> DEFINE x == ReadOp(Machine, PopSP, 4)
<1>1. PopSP \in Operands /\ 4 \in Widths /\ SP \in 0 .. 15 /\ SP # 0
  BY DEF PopSP, SP, Operands, Widths
<1>2. x.m \in Machines /\ x.v \in Values
  BY <1>1, NowMachine, ReadOpType
<1>3. ASSUME reg'[SP] = x.m.reg[SP], mem' = x.m.mem
      PROVE  PopsWord(x.v) /\ x.v \in 0 .. U32 - 1 /\ x.m.reg[0] = reg[0]
  <2>1. x.m.mem = mem
    <3>1. PICK n \in 0 .. Room : reg[SP] = MemSize - 4 * n
      BY StackIs DEF WithinOf
    <3>2. x = [v |-> ReadMem(mem, MemSize - 4 * n, 4),
               m |-> [reg |-> [reg EXCEPT ![SP] = MemSize - 4 * n + 4], mem |-> mem]]
      BY <3>1, PopSPIs
    <3> HIDE DEF x
    <3> QED BY <3>2
  <2>2. mem' = mem
    BY <1>3, <2>1
  <2>3. /\ PopsWord(x.v) /\ x.v \in 0 .. U32 - 1
        /\ \A r \in 0 .. 15 \ {SP} : x.m.reg[r] = reg[r]
    BY <1>3, <2>2, StackIs, PopsStep
  <2>4. 0 \in 0 .. 15 \ {SP}
    BY <1>1
  <2> HIDE DEF x
  <2> QED BY <2>3, <2>4
<1> HIDE DEF x
<1>4. CASE Ret(i)
  <2>1. reg' = x.m.reg /\ mem' = x.m.mem /\ ip' = x.v % U32 /\ Did' = "ret"
    BY <1>4 DEF Ret, Goto, Did, x
  <2>2. PopsWord(x.v) /\ x.v \in 0 .. U32 - 1 /\ x.m.reg[0] = reg[0]
    BY <1>3, <2>1
  <2>3. x.v % U32 = x.v
    BY <2>2, SizesType
  <2> QED BY <2>1, <2>2, <2>3, PopMeets
<1>5. CASE Syscall(i) /\ i.imm \in {0, 2}
  <2>1. reg' = x.m.reg /\ mem' = x.m.mem /\ ip' = After(i) /\ i.op = "SYSCALL"
    BY <1>5 DEF Syscall, Done, Goto, x
  <2>2. Did' = "drop"
    BY <1>5, <2>1 DEF Did
  <2>3. PopsWord(x.v) /\ x.m.reg[0] = reg[0]
    BY <1>3, <2>1
  <2>4. Length(i) \in {2, 3, 4, 5} /\ After(i) = (ip + Length(i)) % U32
    BY <2>1 DEF Length, After, RegRegOps, Imm8RegOps, ImmRegOps, BranchOps
  <2> QED BY <2>1, <2>2, <2>3, <2>4, PopMeets
<1>6. CASE Move(i) /\ i.a = PopSP
  <2>1. i.op = "MOVE" /\ i.w = 4 /\ i.b = [mode |-> "direct", r |-> 0]
    <3>1. i.op = "MOVE"
      BY <1>6 DEF Move
    <3>2. i.a.r \in Named(i)
      BY <3>1, NamedIs
    <3> QED BY <1>6, <3>1, <3>2 DEF OnStack, Apart, PopSP
  <2>2. Did' = "pop"
    BY <1>6, <2>1 DEF Did
  <2> DEFINE n == WriteOp(x.m, i.b, x.v, 4)
  <2>3. reg' = n.reg /\ mem' = n.mem /\ ip' = After(i)
    BY <1>6, <2>1 DEF Move, Done, Goto, x
  <2>4. n = [reg |-> [x.m.reg EXCEPT ![0] = x.v], mem |-> x.m.mem]
    <3>1. i.b \in Operands /\ i.b.mode = "direct" /\ i.b.r = 0
      BY <2>1, Carries
    <3> QED BY <1>1, <1>2, <3>1, WriteOpType
  <2>5. x.m.reg \in [0 .. 15 -> Values]
    BY <1>2, MachineIs
  <2> DEFINE R == [x.m.reg EXCEPT ![0] = x.v]
  <2> HIDE DEF n
  <2>6. n.reg = R /\ n.mem = x.m.mem
    BY <2>4
  <2>7. R[0] = x.v /\ R[SP] = x.m.reg[SP]
    BY <1>1, <2>5
  <2> HIDE DEF R
  <2>8. reg'[SP] = x.m.reg[SP] /\ mem' = x.m.mem /\ reg'[0] = x.v
    BY <2>3, <2>6, <2>7
  <2>9. PopsWord(x.v)
    BY <1>3, <2>8
  <2>10. Length(i) \in {2, 3, 4, 5} /\ After(i) = (ip + Length(i)) % U32
    BY <2>1 DEF Length, After, RegRegOps, Imm8RegOps, ImmRegOps, BranchOps
  <2> QED BY <2>2, <2>3, <2>8, <2>9, <2>10, PopMeets
<1> QED BY <1>4, <1>5, <1>6

(* A program that uses A7 by whole words implements CallStack, however     *)
(* deep its calls nest and whatever it computes beside: every RET goes to  *)
(* the instruction after the latest call that has not returned             *)
(* (vm_opcode_call*, vm_opcode_ret), and D0 gets back what it pushed.      *)
THEOREM VmStackSpec ==
  ASSUME MemSize >= 4, \A a \in DOMAIN Code : \A i \in Code[a] : OnStack(i)
  PROVE  Spec => StackSpec
<1> DEFINE NoPop == last.op # "POP"
<1>1. Init => NoPop
  BY DEF Init
<1>2. NoPop /\ [Next]_vars => NoPop'
  <2>1. ASSUME NoPop, Execute PROVE NoPop'
    <3>1. PICK i \in Code[ip] : last' = i
      BY <2>1 DEF Execute
    <3>2. OnStack(i)
      BY <2>1 DEF Execute
    <3> QED BY <3>1, <3>2 DEF OnStack, Apart
  <2>2. ASSUME NoPop, PopStep \/ UNCHANGED vars PROVE NoPop'
    BY <2>2 DEF PopStep, vars
  <2> QED BY <2>1, <2>2 DEF Next
<1>3. Spec => []NoPop
  BY <1>1, <1>2, PTL DEF Spec
<1>4. Init => Abstract!Init
  <2> SUFFICES ASSUME Init PROVE Abstract!Init
    OBVIOUS
  <2>1. reg[SP] = MemSize /\ reg[0] \in Nat
    <3>1. PICK f \in InitRegs : reg = [r \in 0 .. 15 |-> IF r = SP THEN MemSize ELSE f[r]]
      BY DEF Init
    <3>2. f[0] \in Values
      BY VmAssumption
    <3> QED BY <3>1, <3>2 DEF SP, Values
  <2>2. Within /\ Stacked = <<>>
    <3>1. 0 \in 0 .. Room /\ MemSize - 4 * 0 = MemSize
      BY RoomIs
    <3>2. WithinOf(MemSize) /\ StackOf(MemSize, mem) = Slots(mem, 0)
      BY <3>1, StackAt
    <3>3. Slots(mem, 0) = <<>>
      BY PopSlots
    <3> QED BY <2>1, <3>2, <3>3, StackIs
  <2>3. Did = "other" /\ ip = 0
    BY DEF Init, Did
  <2> QED BY <2>1, <2>2, <2>3 DEF Abstract!Init
<1>5. VmInv /\ VmInv' /\ NoPop /\ [Next]_vars => [Abstract!Next]_(Abstract!vars)
  <2>1. ASSUME VmInv, VmInv', Next, NoPop PROVE Abstract!Next
    <3>1. Execute
      BY <2>1 DEF Next, PopStep, VmInv, Popping
    <3>2. PICK i \in Code[ip] : last' = i /\ Instruction(i)
      BY <3>1 DEF Execute
    <3>3. TypeOK /\ TypeOK' /\ WellFormed(i) /\ OnStack(i)
      BY <2>1, <3>1, VmAssumption DEF VmInv, Execute
    <3>4. CASE ~Within
      BY <3>4 DEF Abstract!Next
    <3>5. CASE Within
      <4>1. CASE Apart(i)
        BY <3>2, <3>3, <3>5, <4>1, ApartMeets
      <4>2. CASE i.op \in {"CALL", "CALLI", "CALLM"}
        BY <3>2, <3>3, <3>5, <4>2, StackAction, CallOnStack
      <4>3. CASE i.op = "PUSH"
        BY <3>2, <3>3, <3>5, <4>3, StackAction, PushOnStack
      <4>4. CASE i.op = "RET" \/ (i.op = "MOVE" /\ i.a = PopSP) \/ (i.op = "SYSCALL" /\ i.imm \in {0, 2})
        BY <3>2, <3>3, <3>5, <4>4, StackAction, PopOnStack
      <4>5. CASE i.op = "SYSCALL" /\ i.imm \notin {0, 2}
        <5>1. Syscall(i) /\ i.imm # 3
          BY <3>2, <3>3, <4>5, StackAction DEF OnStack, Apart
        <5>2. reg' = reg /\ mem' = mem
          BY <4>5, <5>1 DEF Syscall, Done, Goto, Machine
        <5>3. Did' = "other"
          BY <3>2, <4>5 DEF Did
        <5> QED BY <3>5, <5>2, <5>3, OtherMeets
      <4> QED BY <3>3, <4>1, <4>2, <4>3, <4>4, <4>5 DEF OnStack
    <3> QED BY <3>4, <3>5
  <2>2. ASSUME UNCHANGED vars PROVE UNCHANGED Abstract!vars
    BY <2>2 DEF vars, Abstract!vars, Stacked, Within, Did
  <2> QED BY <2>1, <2>2
<1>6. Spec => StackSpec
  BY <1>3, <1>4, <1>5, VmInvariant, PTL DEF Spec, StackSpec, Abstract!Spec
<1> QED BY <1>6
=============================================================================
