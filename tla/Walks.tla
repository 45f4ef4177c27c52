------------------------------- MODULE Walks -------------------------------
(***************************************************************************)
(* What a loop computes that goes over data step by step, and how one      *)
(* reasons about it without induction.                                     *)
(*                                                                         *)
(* A recursive function f[c \in D] == ... f[step(c)] ... is the CHOSEN      *)
(* function that satisfies its equation.  LoopExists gives one that does,  *)
(* so the chosen one does too; what it answers is then shown at the least  *)
(* place where it would answer something else (LeastOf, GreatestOf,        *)
(* LeastSubset), since from there the loop goes to a place where it        *)
(* answers right.  The sums of SumFunctionOnSet are such a loop.           *)
(***************************************************************************)
EXTENDS Integers, FiniteSetsExt, FiniteSetTheorems, WellFoundedInduction, TLAPS

(* A set of naturals that is not empty has a least member. *)
LEMMA LeastOf ==
  ASSUME NEW T \in SUBSET Nat, T # {}
  PROVE  \E m \in T : \A k \in T : m <= k
<1> DEFINE R == OpToRel(<, Nat)
<1>1. PICK m \in T : \A k \in T : ~(<<k, m>> \in R)
  <2> HIDE DEF R
  <2>1. IsWellFoundedOn(R, Nat)
    BY NatLessThanWellFounded DEF R
  <2> QED BY <2>1, WFMin
<1>2. ASSUME NEW k \in T PROVE m <= k
  <2>1. ~(k < m)
    BY <1>1 DEF OpToRel
  <2> QED BY <2>1
<1> QED BY <1>2

(* And a greatest one, if it has a bound. *)
LEMMA GreatestOf ==
  ASSUME NEW T \in SUBSET Nat, T # {}, NEW N \in Nat, \A k \in T : k <= N
  PROVE  \E m \in T : \A k \in T : k <= m
<1> DEFINE U == {N - k : k \in T}
<1>1. U \in SUBSET Nat /\ U # {}
  <2>1. \A k \in T : N - k \in Nat
    OBVIOUS
  <2> QED BY <2>1
<1>2. PICK u \in U : \A v \in U : u <= v
  BY <1>1, LeastOf
<1>3. PICK m \in T : u = N - m
  BY <1>2
<1>4. ASSUME NEW k \in T PROVE k <= m
  <2>1. N - m <= N - k
    BY <1>2, <1>3
  <2> QED BY <2>1
<1> QED BY <1>4

(* f gives every member of D a member of R. *)
Maps(f, D, R) == f \in [D -> R]

(* Where a walk comes to that starts at c and goes from a to step[a]. *)
Orbit(D, step, c) ==
  {a \in D : \A S \in SUBSET D : c \in S /\ (\A b \in S : step[b] \in S) => a \in S}

(* A walk comes to where it starts, and goes on from wherever it comes to. *)
LEMMA OrbitStart ==
  ASSUME NEW D, NEW step, Maps(step, D, D), NEW c \in D
  PROVE  /\ c \in Orbit(D, step, c)
         /\ \A a \in Orbit(D, step, c) : step[a] \in Orbit(D, step, c)
BY DEF Orbit, Maps

(* It comes to its start and to all that the walk from the next place      *)
(* comes to.                                                               *)
LEMMA OrbitUnfold ==
  ASSUME NEW D, NEW step, Maps(step, D, D), NEW c \in D
  PROVE  Orbit(D, step, c) = {c} \cup Orbit(D, step, step[c])
<1> DEFINE O == Orbit(D, step, c)
           P == Orbit(D, step, step[c])
<1>1. O \subseteq {c} \cup P
  <2>1. {c} \cup P \in SUBSET D
    BY DEF Orbit
  <2>2. \A b \in {c} \cup P : step[b] \in {c} \cup P
    BY OrbitStart DEF Maps
  <2> QED BY <2>1, <2>2 DEF Orbit, Maps
<1>2. P \subseteq O
  <2>1. O \in SUBSET D /\ step[c] \in O /\ \A b \in O : step[b] \in O
    BY OrbitStart DEF Orbit, Maps
  <2> QED BY <2>1 DEF Orbit
<1> QED BY <1>1, <1>2, OrbitStart DEF Maps

(* A walk that cannot leave its start comes to nothing else. *)
LEMMA OrbitStays ==
  ASSUME NEW D, NEW step, Maps(step, D, D), NEW c \in D, step[c] = c
  PROVE  Orbit(D, step, c) = {c}
<1>1. {c} \in SUBSET D /\ \A b \in {c} : step[b] \in {c}
  OBVIOUS
<1>2. Orbit(D, step, c) \subseteq {c}
  BY <1>1 DEF Orbit
<1> QED BY <1>2, OrbitStart

(* What a loop answers that goes from c to step[c] until the two are the   *)
(* same, and then gives out[c].                                            *)
Loops(f, D, step, out) ==
  \A c \in D : f[c] = IF step[c] = c THEN out[c] ELSE f[step[c]]

(* A loop that goes from c to step[c] until these are the same, and then   *)
(* answers out[c], has a meaning whether or not it ends.                   *)
LEMMA LoopExists ==
  ASSUME NEW D, NEW R, NEW step, NEW out, Maps(step, D, D), Maps(out, D, R)
  PROVE  \E f : Maps(f, D, R) /\ Loops(f, D, step, out)
<1> DEFINE Ends(c) == {a \in Orbit(D, step, c) : step[a] = a}
           f == [c \in D |-> IF Ends(c) = {} THEN CHOOSE r \in R : TRUE
                             ELSE out[CHOOSE a : a \in Ends(c)]]
<1>1. ASSUME NEW c \in D, step[c] = c PROVE f[c] = out[c]
  <2>1. Orbit(D, step, c) = {c}
    BY <1>1, OrbitStays
  <2>2. Ends(c) = {c}
    BY <1>1, <2>1
  <2> QED BY <2>2
<1>2. ASSUME NEW c \in D, step[c] # c PROVE f[c] = f[step[c]]
  <2>1. Ends(c) = Ends(step[c])
    BY <1>2, OrbitUnfold DEF Maps
  <2>2. step[c] \in D
    BY DEF Maps
  <2> HIDE DEF Ends
  <2> QED BY <2>1, <2>2
<1>3. f \in [D -> R]
  <2> SUFFICES ASSUME NEW c \in D
               PROVE  (IF Ends(c) = {} THEN CHOOSE r \in R : TRUE
                       ELSE out[CHOOSE a : a \in Ends(c)]) \in R
    BY Zenon
  <2>1. out[c] \in R /\ (CHOOSE r \in R : TRUE) \in R
    BY DEF Maps
  <2>2. Ends(c) # {} => (CHOOSE a : a \in Ends(c)) \in D
    BY DEF Orbit
  <2> HIDE DEF Ends
  <2> QED BY <2>1, <2>2 DEF Maps
<1> HIDE DEF f
<1> QED BY <1>1, <1>2, <1>3 DEF Maps, Loops

(* g goes on from base by step[k] at each k. *)
Unrolls(g, N, base, step) ==
  g = [k \in 0 .. N |-> IF k = 0 THEN base ELSE step[k][g[k - 1]]]

(* A recursive function on 0 .. N that goes from each number to the next   *)
(* has a meaning, and its values are where the steps lead to.              *)
LEMMA RecursionExists ==
  ASSUME NEW N \in Nat, NEW R, NEW base \in R, NEW step,
         \A k \in 1 .. N : Maps(step[k], R, R)
  PROVE  \E g : Maps(g, 0 .. N, R) /\ Unrolls(g, N, base, step)
<1> DEFINE Bad == {n \in 0 .. N : ~ \E g : Maps(g, 0 .. n, R) /\ Unrolls(g, n, base, step)}
<1>1. ASSUME Bad # {} PROVE FALSE
  <2>1. PICK n \in Bad : \A k \in Bad : n <= k
    <3>1. Bad \in SUBSET Nat
      OBVIOUS
    <3> HIDE DEF Bad
    <3> QED BY <1>1, <3>1, LeastOf
  <2>2. n \in 0 .. N /\ ~ \E g : Maps(g, 0 .. n, R) /\ Unrolls(g, n, base, step)
    BY <2>1
  <2>3. CASE n = 0
    <3> DEFINE g == [k \in 0 .. 0 |-> base]
    <3>1. Maps(g, 0 .. 0, R)
      BY DEF Maps
    <3>2. Unrolls(g, 0, base, step)
      BY DEF Unrolls
    <3> HIDE DEF g
    <3> QED BY <2>2, <2>3, <3>1, <3>2
  <2>4. CASE n # 0
    <3> DEFINE m == n - 1
    <3>1. m \in 0 .. N /\ m \notin Bad /\ n \in 1 .. N /\ m \in Nat /\ n = m + 1
      BY <2>1, <2>2, <2>4
    <3>2. PICK f : Maps(f, 0 .. m, R) /\ Unrolls(f, m, base, step)
      BY <3>1
    <3> DEFINE x == step[n][f[m]]
               g == [k \in 0 .. n |-> IF k = n THEN x ELSE f[k]]
    <3>3. x \in R
      BY <3>1, <3>2 DEF Maps
    <3> HIDE DEF x, Bad
    <3>4. ASSUME NEW k \in 0 .. n, k # n PROVE k \in 0 .. m /\ k - 1 # n /\ (k # 0 => k - 1 \in 0 .. m)
      BY <3>1, <3>4
    <3>5. Maps(g, 0 .. n, R)
      BY <3>2, <3>3, <3>4 DEF Maps
    <3>6. ASSUME NEW k \in 0 .. n
          PROVE  g[k] = IF k = 0 THEN base ELSE step[k][g[k - 1]]
      <4>1. CASE k = n
        <5>1. k # 0 /\ k - 1 = m /\ m # n /\ m \in 0 .. n
          BY <3>1, <4>1
        <5>2. g[k] = x /\ g[m] = f[m]
          BY <4>1, <5>1
        <5> QED BY <4>1, <5>1, <5>2 DEF x
      <4>2. CASE k # n
        <5>1. k \in 0 .. m /\ k - 1 # n
          BY <3>4, <4>2
        <5>2. f[k] = IF k = 0 THEN base ELSE step[k][f[k - 1]]
          BY <3>2, <5>1 DEF Unrolls
        <5>3. ASSUME k # 0 PROVE g[k - 1] = f[k - 1]
          <6>1. k - 1 \in 0 .. n /\ k - 1 # n
            BY <5>1, <5>3, <3>1
          <6> QED BY <6>1
        <5>4. g[k] = f[k]
          BY <4>2
        <5> HIDE DEF g, m
        <5> QED BY <5>2, <5>3, <5>4
      <4> QED BY <4>1, <4>2
    <3>7. Unrolls(g, n, base, step)
      <4>1. g = [k \in 0 .. n |-> g[k]]
        OBVIOUS
      <4> HIDE DEF g
      <4> QED BY <3>6, <4>1 DEF Unrolls
    <3> HIDE DEF g
    <3> QED BY <2>2, <3>5, <3>7
  <2> QED BY <2>3, <2>4
<1>2. N \notin Bad
  BY <1>1
<1> QED BY <1>2

---------------------------------------------------------------------------
(* Sums over finite sets. *)

(* What SumFunctionOnSet takes from a set first. *)
First(S) == CHOOSE x \in S : TRUE

(* g sums v over every subset of S, as SumFunctionOnSet does. *)
SumsUp(g, v, S) ==
  g = [T \in SUBSET S |-> IF T = {} THEN 0 ELSE v[First(T)] + g[T \ {First(T)}]]

(* v gives a number to every member of S. *)
Weighs(v, S) == \A a \in S : v[a] \in Int

(* A set of finite sets has a member that holds no other. *)
LEMMA LeastSubset ==
  ASSUME NEW S, IsFiniteSet(S), NEW B \in SUBSET SUBSET S, B # {}
  PROVE  \E T \in B : \A U \in SUBSET T : U # T => U \notin B
<1>1. IsWellFoundedOn(StrictSubsetOrdering(S), SUBSET S)
  BY FS_StrictSubsetOrderingWellFounded, FS_FiniteSubsetsOfFinite
<1>2. PICK T \in B : \A U \in B : ~(<<U, T>> \in StrictSubsetOrdering(S))
  BY <1>1, WFMin
<1>3. ASSUME NEW U \in SUBSET T, U # T PROVE U \notin B
  BY <1>2, <1>3 DEF StrictSubsetOrdering
<1> QED BY <1>3

(* SumFunctionOnSet is such a g, applied to the whole set. *)
LEMMA SumIs ==
  ASSUME NEW v, NEW S
  PROVE  SumFunctionOnSet(v, S) = (CHOOSE g : SumsUp(g, v, S))[S]
BY DEF SumFunctionOnSet, FoldFunctionOnSet, MapThenFoldSet, SumsUp, First

(* There is such a g: the loop that takes one member after the other and   *)
(* adds its weight to what it has.                                         *)
LEMMA SumExists ==
  ASSUME NEW v, NEW S, IsFiniteSet(S), Weighs(v, S)
  PROVE  \E g \in [SUBSET S -> Int] : SumsUp(g, v, S)
<1> DEFINE D == (SUBSET S) \X Int
           step == [d \in D |-> IF d[1] = {} THEN d
                                ELSE <<d[1] \ {First(d[1])}, d[2] + v[First(d[1])]>>]
           out == [d \in D |-> d[2]]
<1>1. \A T \in SUBSET S : T # {} => First(T) \in T /\ v[First(T)] \in Int
  BY DEF First, Weighs
<1>2. Maps(step, D, D) /\ Maps(out, D, Int)
  <2>1. ASSUME NEW d \in D
        PROVE  (IF d[1] = {} THEN d ELSE <<d[1] \ {First(d[1])}, d[2] + v[First(d[1])]>>) \in D
    <3>1. d[1] \in SUBSET S /\ d[2] \in Int
      OBVIOUS
    <3>2. CASE d[1] = {}
      BY <3>2
    <3>3. CASE d[1] # {}
      BY <3>1, <3>3, <1>1
    <3> QED BY <3>2, <3>3
  <2> QED BY <2>1 DEF Maps
<1>3. PICK f : Maps(f, D, Int) /\ Loops(f, D, step, out)
  BY <1>2, LoopExists, Zenon
<1>4. ASSUME NEW x \in Int PROVE f[<<{}, x>>] = x
  <2>1. <<{}, x>> \in D /\ step[<<{}, x>>] = <<{}, x>> /\ out[<<{}, x>>] = x
    BY <1>4
  <2> HIDE DEF D, step, out
  <2> QED BY <2>1, <1>3 DEF Loops
<1>5. ASSUME NEW T \in SUBSET S, T # {}, NEW x \in Int
      PROVE  f[<<T, x>>] = f[<<T \ {First(T)}, x + v[First(T)]>>]
  <2>1. <<T, x>> \in D /\ step[<<T, x>>] = <<T \ {First(T)}, x + v[First(T)]>>
    BY <1>5
  <2>2. step[<<T, x>>] # <<T, x>>
    BY <2>1, <1>1, <1>5
  <2> HIDE DEF D, step, out
  <2> QED BY <2>1, <2>2, <1>3 DEF Loops
<1>6. ASSUME NEW T \in SUBSET S, NEW x \in Int PROVE f[<<T, x>>] \in Int
  BY <1>3 DEF Maps
<1> HIDE DEF D, step, out
<1>7. ASSUME NEW T \in SUBSET S PROVE \A x \in Int : f[<<T, x>>] = x + f[<<T, 0>>]
  <2> DEFINE Bad == {U \in SUBSET S : ~(\A x \in Int : f[<<U, x>>] = x + f[<<U, 0>>])}
  <2>1. ASSUME Bad # {} PROVE FALSE
    <3>1. PICK U \in Bad : \A V \in SUBSET U : V # U => V \notin Bad
      <4> HIDE DEF Bad
      <4>1. Bad \in SUBSET SUBSET S
        BY DEF Bad
      <4> QED BY <4>1, <2>1, LeastSubset
    <3>2. U \in SUBSET S
      BY <3>1
    <3>3. U # {}
      BY <3>1, <1>4
    <3> DEFINE W == U \ {First(U)}
               w == v[First(U)]
    <3>4. W \in SUBSET S /\ W \notin Bad /\ w \in Int
      BY <3>1, <3>2, <3>3, <1>1
    <3>5. \A x \in Int : f[<<W, x>>] = x + f[<<W, 0>>]
      BY <3>4
    <3>6. \A x \in Int : f[<<U, x>>] = f[<<W, x + w>>]
      BY <3>2, <3>3, <1>5
    <3> HIDE DEF W, w
    <3>7. f[<<W, 0>>] \in Int
      BY <3>4, <1>6
    <3>8. ASSUME NEW x \in Int PROVE f[<<U, x>>] = x + f[<<U, 0>>]
      <4>1. f[<<U, x>>] = f[<<W, x + w>>] /\ f[<<U, 0>>] = f[<<W, 0 + w>>]
        BY <3>6
      <4>2. x + w \in Int /\ 0 + w \in Int
        BY <3>4
      <4>3. f[<<W, x + w>>] = (x + w) + f[<<W, 0>>] /\ f[<<W, 0 + w>>] = (0 + w) + f[<<W, 0>>]
        BY <3>5, <4>2
      <4> QED BY <4>1, <4>3, <3>4, <3>7
    <3> QED BY <3>1, <3>8
  <2> QED BY <2>1
<1> DEFINE g == [T \in SUBSET S |-> f[<<T, 0>>]]
<1>8. ASSUME NEW T \in SUBSET S
      PROVE  g[T] = IF T = {} THEN 0 ELSE v[First(T)] + g[T \ {First(T)}]
  <2>1. CASE T = {}
    BY <2>1, <1>4
  <2>2. CASE T # {}
    <3> DEFINE W == T \ {First(T)}
               w == v[First(T)]
    <3>1. W \in SUBSET S /\ w \in Int
      BY <2>2, <1>1
    <3>2. f[<<T, 0>>] = f[<<W, 0 + w>>]
      BY <2>2, <1>5
    <3>3. g[T] = f[<<T, 0>>] /\ g[W] = f[<<W, 0>>]
      BY <3>1
    <3> HIDE DEF W, w, g
    <3>4. f[<<W, 0 + w>>] = w + f[<<W, 0>>]
      BY <3>1, <1>7
    <3> QED BY <2>2, <3>2, <3>3, <3>4 DEF W, w
  <2> QED BY <2>1, <2>2
<1>9. g \in [SUBSET S -> Int]
  BY <1>6
<1>10. SumsUp(g, v, S)
  <2>1. g = [T \in SUBSET S |-> g[T]]
    OBVIOUS
  <2> HIDE DEF g
  <2>2. g = [T \in SUBSET S |-> IF T = {} THEN 0 ELSE v[First(T)] + g[T \ {First(T)}]]
    BY <1>8, <2>1
  <2> QED BY <2>2 DEF SumsUp
<1> QED BY <1>9, <1>10

(* Two of them agree wherever their weights do. *)
LEMMA SumsAgree ==
  ASSUME NEW g, NEW v, NEW S, SumsUp(g, v, S), NEW h, NEW w, NEW T, SumsUp(h, w, T),
         NEW U, U \subseteq S, U \subseteq T, IsFiniteSet(U), \A a \in U : v[a] = w[a]
  PROVE  g[U] = h[U]
<1> DEFINE Bad == {V \in SUBSET U : g[V] # h[V]}
<1>1. ASSUME Bad # {} PROVE FALSE
  <2>1. PICK V \in Bad : \A X \in SUBSET V : X # V => X \notin Bad
    <3> HIDE DEF Bad
    <3>1. Bad \in SUBSET SUBSET U
      BY DEF Bad
    <3> QED BY <3>1, <1>1, LeastSubset
  <2>2. V \in SUBSET S /\ V \in SUBSET T
    BY <2>1
  <2>3. g[V] = (IF V = {} THEN 0 ELSE v[First(V)] + g[V \ {First(V)}])
        /\ h[V] = (IF V = {} THEN 0 ELSE w[First(V)] + h[V \ {First(V)}])
    BY <2>2 DEF SumsUp
  <2>4. V # {}
    BY <2>1, <2>3
  <2>5. First(V) \in V
    BY <2>4 DEF First
  <2>6. g[V \ {First(V)}] = h[V \ {First(V)}] /\ v[First(V)] = w[First(V)]
    BY <2>1, <2>5
  <2> QED BY <2>1, <2>3, <2>4, <2>6
<1> QED BY <1>1

(* The sum of a finite set of integers is an integer; that of nothing is   *)
(* 0, and any other one is the first weight and the sum of the rest.       *)
LEMMA SumUnfold ==
  ASSUME NEW v, NEW S, IsFiniteSet(S), Weighs(v, S)
  PROVE  /\ SumFunctionOnSet(v, S) \in Int
         /\ S = {} => SumFunctionOnSet(v, S) = 0
         /\ S # {} => SumFunctionOnSet(v, S) = v[First(S)] + SumFunctionOnSet(v, S \ {First(S)})
<1> DEFINE g == CHOOSE g : SumsUp(g, v, S)
           W == S \ {First(S)}
           h == CHOOSE h : SumsUp(h, v, W)
<1>1. PICK k \in [SUBSET S -> Int] : SumsUp(k, v, S)
  BY SumExists
<1>2. SumsUp(g, v, S)
  BY <1>1
<1>3. IsFiniteSet(W) /\ Weighs(v, W)
  BY FS_Subset DEF Weighs
<1>4. SumsUp(h, v, W)
  <2> HIDE DEF W
  <2> QED BY <1>3, SumExists
<1>5. SumFunctionOnSet(v, S) = g[S] /\ SumFunctionOnSet(v, W) = h[W]
  <2> HIDE DEF W
  <2> QED BY SumIs
<1> HIDE DEF g, h
<1>6. g[S] = k[S] /\ g[W] = h[W]
  BY <1>1, <1>2, <1>3, <1>4, SumsAgree
<1>7. g[S] = IF S = {} THEN 0 ELSE v[First(S)] + g[W]
  BY <1>2 DEF SumsUp
<1> QED BY <1>5, <1>6, <1>7

(* A sum depends on the weights of the members alone. *)
LEMMA SumSame ==
  ASSUME NEW S, IsFiniteSet(S), NEW v, NEW w, Weighs(v, S), \A a \in S : v[a] = w[a]
  PROVE  SumFunctionOnSet(v, S) = SumFunctionOnSet(w, S)
<1>1. Weighs(w, S)
  BY DEF Weighs
<1>2. SumsUp(CHOOSE g : SumsUp(g, v, S), v, S) /\ SumsUp(CHOOSE g : SumsUp(g, w, S), w, S)
  BY <1>1, SumExists
<1> QED BY <1>2, SumsAgree, SumIs

(* Which member is taken first does not matter. *)
LEMMA SumTake ==
  ASSUME NEW v, NEW S, IsFiniteSet(S), Weighs(v, S), NEW a \in S
  PROVE  SumFunctionOnSet(v, S) = v[a] + SumFunctionOnSet(v, S \ {a})
<1> DEFINE Sum(T) == SumFunctionOnSet(v, T)
           Bad == {T \in SUBSET S : \E b \in T : Sum(T) # v[b] + Sum(T \ {b})}
<1>1. ASSUME NEW T \in SUBSET S
      PROVE  /\ Sum(T) \in Int
             /\ T # {} => Sum(T) = v[First(T)] + Sum(T \ {First(T)})
  <2>1. IsFiniteSet(T) /\ Weighs(v, T)
    BY FS_Subset DEF Weighs
  <2> QED BY <2>1, SumUnfold
<1>2. ASSUME Bad # {} PROVE FALSE
  <2> HIDE DEF Sum
  <2>1. PICK T \in Bad : \A U \in SUBSET T : U # T => U \notin Bad
    <3> HIDE DEF Bad
    <3>1. Bad \in SUBSET SUBSET S
      BY DEF Bad
    <3> QED BY <3>1, <1>2, LeastSubset
  <2>2. T \in SUBSET S
    BY <2>1
  <2>3. PICK b \in T : Sum(T) # v[b] + Sum(T \ {b})
    BY <2>1
  <2> DEFINE f == First(T)
  <2>4. f \in T /\ v[f] \in Int /\ v[b] \in Int
    BY <2>2, <2>3 DEF First, Weighs
  <2>5. Sum(T) = v[f] + Sum(T \ {f})
    BY <1>1, <2>2, <2>3
  <2>6. b # f
    BY <2>3, <2>5
  <2> HIDE DEF f
  <2> DEFINE R == T \ {f, b}
  <2>7. Sum(T \ {f}) = v[b] + Sum(R)
    <3>1. T \ {f} \notin Bad /\ T \ {f} \in SUBSET S /\ b \in T \ {f} /\ (T \ {f}) \ {b} = R
      BY <2>1, <2>2, <2>4, <2>6
    <3> QED BY <3>1
  <2>8. Sum(T \ {b}) = v[f] + Sum(R)
    <3>1. T \ {b} \notin Bad /\ T \ {b} \in SUBSET S /\ f \in T \ {b} /\ (T \ {b}) \ {f} = R
      BY <2>1, <2>2, <2>3, <2>4, <2>6
    <3> QED BY <3>1
  <2>9. Sum(R) \in Int
    BY <1>1, <2>2
  <2> QED BY <2>3, <2>4, <2>5, <2>7, <2>8, <2>9
<1>3. S \notin Bad
  BY <1>2
<1> QED BY <1>3

(* One more member adds its weight. *)
LEMMA SumAdd ==
  ASSUME NEW v, NEW S, IsFiniteSet(S), NEW a, a \notin S, Weighs(v, S \cup {a})
  PROVE  /\ SumFunctionOnSet(v, S \cup {a}) = v[a] + SumFunctionOnSet(v, S)
         /\ SumFunctionOnSet(v, S) \in Int /\ v[a] \in Int
<1>1. IsFiniteSet(S \cup {a}) /\ (S \cup {a}) \ {a} = S /\ Weighs(v, S)
  BY FS_AddElement DEF Weighs
<1>2. SumFunctionOnSet(v, S \cup {a}) = v[a] + SumFunctionOnSet(v, (S \cup {a}) \ {a})
  BY <1>1, SumTake
<1> QED BY <1>1, <1>2, SumUnfold DEF Weighs

(* Sets that have no member in common add up to the sum of both. *)
LEMMA SumUnion ==
  ASSUME NEW v, NEW S, NEW T, IsFiniteSet(S), IsFiniteSet(T), S \cap T = {}, Weighs(v, S \cup T)
  PROVE  SumFunctionOnSet(v, S \cup T) = SumFunctionOnSet(v, S) + SumFunctionOnSet(v, T)
<1> DEFINE Sum(U) == SumFunctionOnSet(v, U)
           Bad == {U \in SUBSET S : Sum(U \cup T) # Sum(U) + Sum(T)}
<1>1. ASSUME Bad # {} PROVE FALSE
  <2>1. PICK U \in Bad : \A V \in SUBSET U : V # U => V \notin Bad
    <3> HIDE DEF Bad
    <3>1. Bad \in SUBSET SUBSET S
      BY DEF Bad
    <3> QED BY <3>1, <1>1, LeastSubset
  <2>2. U \in SUBSET S /\ Sum(U \cup T) # Sum(U) + Sum(T)
    BY <2>1
  <2>3. Weighs(v, T) /\ Sum(T) \in Int
    <3>1. Weighs(v, T)
      BY DEF Weighs
    <3> QED BY <3>1, SumUnfold
  <2>4. CASE U = {}
    <3>1. Sum(U) = 0 /\ U \cup T = T
      BY <2>4, SumUnfold, FS_EmptySet DEF Weighs
    <3>2. Sum(U \cup T) = Sum(T)
      BY <3>1
    <3> HIDE DEF Sum, Bad
    <3> QED BY <2>2, <2>3, <3>1, <3>2
  <2>5. CASE U # {}
    <3>1. PICK a \in U : TRUE
      BY <2>5
    <3> DEFINE V == U \ {a}
    <3>2. /\ V \notin Bad /\ V \in SUBSET S /\ IsFiniteSet(V) /\ IsFiniteSet(V \cup T)
          /\ a \notin V /\ a \notin V \cup T /\ V \cup {a} = U /\ (V \cup T) \cup {a} = U \cup T
      <4>1. V \notin Bad /\ V \in SUBSET S
        BY <2>1, <2>2, <3>1
      <4>2. IsFiniteSet(V) /\ IsFiniteSet(V \cup T)
        BY <4>1, FS_Subset, FS_Union
      <4>3. a \notin V /\ a \notin V \cup T /\ V \cup {a} = U /\ (V \cup T) \cup {a} = U \cup T
        BY <2>2, <3>1
      <4> QED BY <4>1, <4>2, <4>3
    <3>3. Sum(V \cup T) = Sum(V) + Sum(T)
      BY <3>2
    <3> HIDE DEF V, Bad
    <3>4. Weighs(v, V \cup {a}) /\ Weighs(v, (V \cup T) \cup {a})
      BY <2>2, <3>2 DEF Weighs
    <3>5. Sum(U) = v[a] + Sum(V) /\ Sum(V) \in Int /\ v[a] \in Int
      BY <3>2, <3>4, SumAdd
    <3>6. Sum(U \cup T) = v[a] + Sum(V \cup T)
      BY <3>2, <3>4, SumAdd
    <3> HIDE DEF Sum
    <3> QED BY <2>2, <2>3, <3>3, <3>5, <3>6
  <2> QED BY <2>4, <2>5
<1>2. S \notin Bad
  BY <1>1
<1> QED BY <1>2

(* Weights that are not negative add up to no less than those of a part.   *)
LEMMA SumPart ==
  ASSUME NEW v, NEW S, IsFiniteSet(S), \A a \in S : v[a] \in Nat, NEW T \in SUBSET S
  PROVE  /\ SumFunctionOnSet(v, S) \in Nat /\ SumFunctionOnSet(v, T) \in Nat
         /\ SumFunctionOnSet(v, T) <= SumFunctionOnSet(v, S)
<1> DEFINE Sum(U) == SumFunctionOnSet(v, U)
           Bad == {U \in SUBSET S : ~(Sum(U) \in Nat /\ \A V \in SUBSET U : Sum(V) <= Sum(U))}
<1>1. ASSUME NEW U \in SUBSET S
      PROVE  /\ Sum(U) \in Int
             /\ U = {} => Sum(U) = 0
             /\ \A a \in U : Sum(U) = v[a] + Sum(U \ {a})
  <2>1. IsFiniteSet(U) /\ Weighs(v, U)
    BY FS_Subset DEF Weighs
  <2>2. \A a \in U : Sum(U) = v[a] + Sum(U \ {a})
    BY <2>1, SumTake
  <2>3. Sum(U) \in Int /\ (U = {} => Sum(U) = 0)
    BY <2>1, SumUnfold
  <2> QED BY <2>2, <2>3
<1>2. ASSUME Bad # {} PROVE FALSE
  <2> HIDE DEF Sum
  <2>1. PICK U \in Bad : \A V \in SUBSET U : V # U => V \notin Bad
    <3> HIDE DEF Bad
    <3>1. Bad \in SUBSET SUBSET S
      BY DEF Bad
    <3> QED BY <3>1, <1>2, LeastSubset
  <2>2. U \in SUBSET S /\ Sum(U) \in Int
    BY <1>1, <2>1
  <2>3. ASSUME NEW a \in U
        PROVE  /\ Sum(U) = v[a] + Sum(U \ {a}) /\ v[a] \in Nat /\ Sum(U \ {a}) \in Nat
               /\ \A V \in SUBSET (U \ {a}) : Sum(V) <= Sum(U \ {a})
    <3>1. U \ {a} \notin Bad /\ U \ {a} \in SUBSET S
      BY <2>1, <2>2
    <3> QED BY <3>1, <1>1, <2>2
  <2>4. Sum(U) \in Nat
    <3>1. CASE U = {}
      BY <3>1, <1>1, <2>2
    <3>2. CASE U # {}
      <4>1. PICK a \in U : TRUE
        BY <3>2
      <4> DEFINE x == v[a]
                 y == Sum(U \ {a})
      <4>2. Sum(U) = x + y /\ x \in Nat /\ y \in Nat
        BY <2>3
      <4> HIDE DEF x, y
      <4> QED BY <4>2
    <3> QED BY <3>1, <3>2
  <2>5. ASSUME NEW V \in SUBSET U PROVE Sum(V) <= Sum(U)
    <3>1. CASE V = U
      BY <3>1, <2>4
    <3>2. CASE V # U
      <4>1. PICK a \in U : a \notin V
        BY <3>2
      <4>2. V \in SUBSET (U \ {a}) /\ Sum(V) \in Int
        BY <4>1, <1>1, <2>2
      <4> DEFINE x == v[a]
                 y == Sum(U \ {a})
      <4>3. Sum(U) = x + y /\ x \in Nat /\ y \in Nat /\ Sum(V) <= y
        BY <4>2, <2>3
      <4> HIDE DEF x, y
      <4> QED BY <4>2, <4>3
    <3> QED BY <3>1, <3>2
  <2> QED BY <2>1, <2>4, <2>5
<1>3. S \notin Bad /\ T \notin Bad
  BY <1>2
<1> QED BY <1>3

---------------------------------------------------------------------------
(* Words. *)

(* A remainder is unique. *)
LEMMA RemainderIs ==
  ASSUME NEW w \in Nat \ {0}, NEW q \in Int, NEW r \in 0 .. w - 1
  PROVE  (w * q + r) % w = r
OBVIOUS

(* What wraps before an addition or a subtraction may as well wrap after   *)
(* it.                                                                     *)
LEMMA WrapLate ==
  ASSUME NEW w \in Nat \ {0}, NEW x \in Int, NEW y \in Int
  PROVE  /\ ((x % w) + y) % w = (x + y) % w
         /\ ((x % w) - y) % w = (x - y) % w
<1>1. ASSUME NEW d \in Int, NEW z \in Int, z = (x % w) + d PROVE z % w = (x + d) % w
  <2> DEFINE q == x \div w
             p == z \div w
             r == z % w
  <2>1. q \in Int /\ x % w \in Int /\ x = w * q + (x % w)
    OBVIOUS
  <2>2. p \in Int /\ r \in 0 .. w - 1 /\ z = w * p + r
    BY <1>1
  <2> HIDE DEF q, p, r
  <2>3. x + d = w * q + z
    BY <1>1, <2>1
  <2>4. x + d = w * (q + p) + r /\ q + p \in Int
    BY <2>1, <2>2, <2>3
  <2>5. (x + d) % w = r
    BY <2>2, <2>4, RemainderIs
  <2> QED BY <2>5 DEF r
<1>2. x % w \in Int
  OBVIOUS
<1>3. ((x % w) + y) % w = (x + y) % w
  <2>1. (x % w) + y \in Int
    BY <1>2
  <2> QED BY <2>1, <1>1
<1>4. ((x % w) - y) % w = (x - y) % w
  <2> DEFINE d == 0 - y
             z == (x % w) - y
  <2>1. d \in Int /\ z \in Int /\ z = (x % w) + d /\ x - y = x + d
    BY <1>2
  <2> HIDE DEF d, z
  <2>2. z % w = (x + d) % w
    BY <2>1, <1>1
  <2> QED BY <2>1, <2>2 DEF z
<1> QED BY <1>3, <1>4
=============================================================================
