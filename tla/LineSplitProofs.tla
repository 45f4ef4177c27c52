-------------------------- MODULE LineSplitProofs --------------------------
(***************************************************************************)
(* The assembler splits every line that is shorter than a position can     *)
(* count as it reads (SplitRight), whatever its words.  The invariant      *)
(* relates the place next_segment was left at to the words of the line:    *)
(* the words before it are those found, and offsets holds their meaning.   *)
(***************************************************************************)
EXTENDS LineSplit, Walks

(* The least of a set of naturals. *)
LEMMA MinOf ==
  ASSUME NEW S \in SUBSET Nat, S # {}
  PROVE  Min(S) \in S /\ \A k \in S : Min(S) <= k
<1>1. \E x \in S : \A k \in S : x <= k
  BY LeastOf
<1> QED BY <1>1 DEF Min

(* It is the one that is no greater than the others. *)
LEMMA MinAt ==
  ASSUME NEW S \in SUBSET Nat, NEW m \in S, \A k \in S : m <= k
  PROVE  Min(S) = m
<1>1. Min(S) \in S /\ Min(S) <= m
  BY MinOf
<1>2. Min(S) \in Nat /\ m \in Nat /\ m <= Min(S)
  BY <1>1
<1> QED BY <1>1, <1>2

---------------------------------------------------------------------------
(* A line that next_segment can count. *)
Short == buffer \in Seq(Chars) /\ Len(buffer) < Wrap

(* Lengths and positions in such a line are what they are modulo Wrap. *)
LEMMA LineBounds ==
  ASSUME Short
  PROVE  Len(buffer) \in Nat /\ Wrap \in Nat /\ Len(buffer) < Wrap /\ Wrap <= LengthWrap
<1>1. Len(buffer) \in Nat
  BY DEF Short
<1>2. Wrap \in 3 .. LengthWrap
  BY LineSplitAssumption
<1>3. LengthWrap \in Nat
  BY DEF LengthWrap
<1>4. Wrap \in Nat /\ Wrap <= LengthWrap
  BY <1>2, <1>3
<1> QED BY <1>1, <1>4 DEF Short

(* A line has the characters of a line, and a terminator. *)
LEMMA CharIs ==
  ASSUME Short, NEW i \in Nat
  PROVE  /\ i < Len(buffer) => Char(i) \in Chars
         /\ i >= Len(buffer) => Char(i) = NUL
         /\ Char(i) \in Text \cup {Blank, NUL}
         /\ Char(i) = NUL => i >= Len(buffer)
<1>1. i < Len(buffer) => Char(i) \in Chars
  <2>1. ASSUME i < Len(buffer) PROVE i + 1 \in 1 .. Len(buffer)
    BY <2>1 DEF Short
  <2> QED BY <2>1 DEF Char, Short
<1>2. i >= Len(buffer) => Char(i) = NUL
  BY DEF Char, Short
<1>3. NUL \notin Chars
  BY DEF NUL, Chars, Text, Blank
<1>4. Len(buffer) \in Nat
  BY DEF Short
<1> QED BY <1>1, <1>2, <1>3, <1>4 DEF Chars

(* A slash is text, a blank and the terminator are not. *)
LEMMA TextOrBlank ==
  Text \cap {Blank, NUL} = {} /\ Blank # NUL /\ "/" \in Text
BY DEF Text, Blank, NUL

(* i is the first place from p on that is not blank. *)
NextText(p, i) ==
  /\ i \in p .. Len(buffer)
  /\ Char(i) # Blank
  /\ \A j \in p .. i - 1 : Char(j) = Blank

(* There is such a place from everywhere in the line: the terminator at    *)
(* the latest.                                                             *)
LEMMA TextAhead ==
  ASSUME Short, NEW p \in 0 .. Len(buffer)
  PROVE  \E i \in 0 .. Len(buffer) : NextText(p, i)
<1> DEFINE S == {i \in p .. Len(buffer) : Char(i) # Blank}
<1>1. Len(buffer) \in S /\ S \in SUBSET Nat
  BY LineBounds, CharIs, TextOrBlank
<1>2. Min(S) \in S /\ \A k \in S : Min(S) <= k
  BY <1>1, MinOf
<1> DEFINE i == Min(S)
<1> HIDE DEF i
<1>3. i \in p .. Len(buffer) /\ Char(i) # Blank
  BY <1>2 DEF i
<1>4. ASSUME NEW j \in p .. i - 1, Char(j) # Blank PROVE FALSE
  <2>1. j \in S
    BY <1>3, <1>4, LineBounds
  <2>2. i <= j
    BY <1>2, <2>1 DEF i
  <2> QED BY <1>3, <2>2, LineBounds
<1>5. NextText(p, i)
  BY <1>3, <1>4 DEF NextText
<1> QED BY <1>3, <1>5, LineBounds

(* Where a word ends. *)
LEMMA EndIs ==
  ASSUME Short, NEW i \in 0 .. Len(buffer)
  PROVE  /\ WordEnd(i) \in i .. Len(buffer)
         /\ Char(WordEnd(i)) \in {Blank, NUL}
         /\ \A j \in i .. WordEnd(i) - 1 : Char(j) \notin {Blank, NUL}
<1> DEFINE S == {j \in i .. Len(buffer) : Char(j) \in {Blank, NUL}}
<1>1. Len(buffer) \in S /\ S \in SUBSET Nat
  BY LineBounds, CharIs
<1>2. Min(S) \in S /\ \A k \in S : Min(S) <= k
  BY <1>1, MinOf
<1>3. WordEnd(i) = Min(S)
  BY DEF WordEnd
<1> HIDE DEF S
<1>4. WordEnd(i) \in S /\ \A k \in S : WordEnd(i) <= k
  BY <1>2, <1>3
<1>5. WordEnd(i) \in i .. Len(buffer) /\ Char(WordEnd(i)) \in {Blank, NUL}
  BY <1>4 DEF S
<1>6. ASSUME NEW j \in i .. WordEnd(i) - 1, Char(j) \in {Blank, NUL} PROVE FALSE
  <2>1. j \in S
    BY <1>5, <1>6, LineBounds DEF S
  <2>2. WordEnd(i) <= j
    BY <2>1, <1>4
  <2> QED BY <2>2, <1>5, LineBounds
<1> QED BY <1>5, <1>6

(* A loop of next_segment that runs to a character it comes to before the  *)
(* end of the line.                                                        *)
LEMMA ReachIs ==
  ASSUME Short, NEW p \in 0 .. Len(buffer), NEW C, NEW i \in p .. Len(buffer),
         Char(i) \in C, \A j \in p .. i - 1 : Char(j) \notin C
  PROVE  Reach(p, C) # {} /\ Min(Reach(p, C)) = i - p /\ (p + (i - p)) % Wrap = i
<1>1. \A k \in 0 .. i - p : p + k \in Nat /\ p + k < Wrap /\ (p + k) % Wrap = p + k
  BY LineBounds
<1>2. i - p \in 0 .. Wrap - 1 /\ p + (i - p) = i /\ i - p \in 0 .. i - p
  BY LineBounds
<1>3. i - p \in Reach(p, C)
  BY <1>1, <1>2 DEF Reach
<1>4. ASSUME NEW k \in Reach(p, C) PROVE i - p <= k
  <2>1. k \in 0 .. Wrap - 1 /\ Char((p + k) % Wrap) \in C
    BY DEF Reach
  <2>2. CASE k \in 0 .. i - p
    <3>1. (p + k) % Wrap = p + k
      BY <2>2, <1>1
    <3>2. Char(p + k) \in C
      BY <2>1, <3>1
    <3>3. ~(p + k \in p .. i - 1)
      BY <3>2
    <3> QED BY <2>2, <3>3, LineBounds
  <2> QED BY <2>1, <2>2, LineBounds
<1>5. Reach(p, C) \in SUBSET Nat
  BY LineBounds DEF Reach
<1>6. Min(Reach(p, C)) = i - p
  BY <1>3, <1>4, <1>5, MinAt
<1> QED BY <1>1, <1>2, <1>3, <1>6

(* next_segment finds the next word, and its end. *)
LEMMA SegmentIs ==
  ASSUME Short, NEW p \in 0 .. Len(buffer), NEW i \in 0 .. Len(buffer), NextText(p, i)
  PROVE  NextSegment(p) = {WordFrom(i)}
<1> DEFINE C == Text \cup {NUL}
           D == {Blank, NUL}
           e == WordEnd(i)
<1>1. i \in p .. Len(buffer) /\ Char(i) \in C /\ \A j \in p .. i - 1 : Char(j) \notin C
  BY LineBounds, CharIs, TextOrBlank DEF NextText
<1>2. e \in i .. Len(buffer) /\ Char(e) \in D /\ \A j \in i .. e - 1 : Char(j) \notin D
  BY EndIs
<1> HIDE DEF C, D, e
<1>3. Reach(p, C) # {} /\ Min(Reach(p, C)) = i - p /\ (p + (i - p)) % Wrap = i
  BY <1>1, ReachIs
<1>4. Reach(i, D) # {} /\ Min(Reach(i, D)) = e - i /\ (i + (e - i)) % Wrap = e
  BY <1>2, ReachIs
<1>5. NextSegment(p) = {Piece(i, e)}
  BY <1>3, <1>4 DEF NextSegment, C, D
<1> QED BY <1>5 DEF WordFrom, e

(* The words of the line that lie before e, when p was between two words   *)
(* and i is where the next one starts.                                     *)
LEMMA WordsAhead ==
  ASSUME Short, NEW p \in 0 .. Len(buffer), NEW i \in 0 .. Len(buffer), NextText(p, i),
         p = 0 \/ Char(p) \in {Blank, NUL}
  PROVE  /\ i = Len(buffer) => \A j \in WordStarts : j < p
         /\ i < Len(buffer) =>
              /\ i \in WordStarts /\ p <= i /\ i < WordEnd(i)
              /\ \A j \in WordStarts : j < WordEnd(i) <=> j < p \/ j = i
<1> DEFINE e == WordEnd(i)
<1>1. /\ e \in i .. Len(buffer) /\ Char(e) \in {Blank, NUL}
      /\ \A j \in i .. e - 1 : Char(j) \notin {Blank, NUL}
  BY EndIs
<1> HIDE DEF e
<1>2. i \in p .. Len(buffer) /\ Char(i) # Blank /\ \A j \in p .. i - 1 : Char(j) = Blank
  BY DEF NextText
<1>3. WordStarts \subseteq 0 .. Len(buffer) - 1
  BY DEF WordStarts
<1>4. ASSUME NEW j \in WordStarts PROVE ~(p <= j /\ j < i)
  <2>1. Char(j) # Blank
    BY DEF WordStarts
  <2> QED BY <1>2, <1>3, <2>1, LineBounds
<1>5. i = Len(buffer) => \A j \in WordStarts : j < p
  BY <1>3, <1>4, LineBounds
<1>6. ASSUME i < Len(buffer)
      PROVE  /\ i \in WordStarts /\ p <= i /\ i < e
             /\ \A j \in WordStarts : j < e <=> j < p \/ j = i
  <2>1. Char(i) # NUL
    BY <1>6, CharIs, TextOrBlank, LineBounds
  <2>2. i # e
    BY <1>1, <1>2, <2>1
  <2>3. i < e /\ p <= i
    BY <1>1, <1>2, <2>2, LineBounds
  <2>4. i = 0 \/ Char(i - 1) = Blank
    <3>1. CASE p < i
      <4>1. i - 1 \in p .. i - 1
        BY <3>1, LineBounds
      <4> QED BY <1>2, <4>1
    <3>2. CASE p = i
      BY <3>2, <1>2, <2>1
    <3> QED BY <3>1, <3>2, <2>3, LineBounds
  <2>5. i \in WordStarts
    BY <1>2, <1>6, <2>4, LineBounds DEF WordStarts
  <2>6. ASSUME NEW j \in WordStarts PROVE ~(i < j /\ j < e)
    <3>1. j = 0 \/ Char(j - 1) = Blank
      BY DEF WordStarts
    <3>2. ASSUME i < j, j < e PROVE FALSE
      <4>1. j - 1 \in i .. e - 1 /\ j # 0
        BY <3>2, <1>3, <1>1, LineBounds
      <4> QED BY <4>1, <3>1, <1>1
    <3> QED BY <3>2
  <2>7. ASSUME NEW j \in WordStarts PROVE j < e <=> j < p \/ j = i
    <3>1. j \in Nat /\ e \in Nat
      BY <1>1, <1>3, LineBounds
    <3> QED BY <1>4, <2>3, <2>6, <3>1, LineBounds
  <2> QED BY <2>3, <2>5, <2>7
<1> QED BY <1>5, <1>6 DEF e

---------------------------------------------------------------------------
(* Counting the words of the statement. *)
LEMMA CodeIsFinite ==
  ASSUME Short
  PROVE  /\ WordStarts \subseteq 0 .. Len(buffer) - 1
         /\ CodeStarts \subseteq WordStarts /\ CommentStarts \subseteq WordStarts
         /\ CodeStarts \cap CommentStarts = {}
         /\ IsFiniteSet(CodeStarts)
         /\ \A i : IsFiniteSet(CodeBefore(i)) /\ CodeBefore(i) \subseteq CodeStarts
<1>1. /\ WordStarts \subseteq 0 .. Len(buffer) - 1
      /\ CodeStarts \subseteq WordStarts /\ CommentStarts \subseteq WordStarts
  BY DEF WordStarts, CodeStarts, CommentStarts
<1>2. \A i : CodeBefore(i) \subseteq CodeStarts
  BY DEF CodeBefore
<1>3. CodeStarts \subseteq 0 .. Len(buffer) - 1 /\ IsFiniteSet(0 .. Len(buffer) - 1)
  <2>1. Len(buffer) - 1 \in Int /\ 0 \in Int
    BY LineBounds
  <2> QED BY <1>1, <2>1, FS_Interval
<1>4. IsFiniteSet(CodeStarts)
  BY <1>3, FS_Subset
<1>5. CodeStarts \cap CommentStarts = {}
  <2>1. ASSUME NEW i \in CodeStarts, i \in CommentStarts PROVE FALSE
    <3>1. i < i /\ i \in Int
      BY <1>1, <2>1, LineBounds DEF CodeStarts
    <3> QED BY <3>1
  <2> QED BY <2>1
<1> QED BY <1>1, <1>2, <1>4, <1>5, FS_Subset

(* Places in the line are numbers. *)
LEMMA LineNaturals ==
  ASSUME Short
  PROVE  /\ WordStarts \subseteq Nat
         /\ \A p \in 0 .. Len(buffer) : p \in Nat /\ WordEnd(p) \in Nat
<1>1. Len(buffer) \in Nat
  BY LineBounds
<1>2. WordStarts \subseteq Nat
  <2>1. WordStarts \subseteq 0 .. Len(buffer) - 1
    BY CodeIsFinite
  <2> QED BY <1>1, <2>1
<1>3. ASSUME NEW p \in 0 .. Len(buffer) PROVE p \in Nat /\ WordEnd(p) \in Nat
  <2>1. WordEnd(p) \in p .. Len(buffer)
    BY EndIs
  <2> QED BY <1>1, <2>1
<1> QED BY <1>2, <1>3

(* A later word has more words before it. *)
LEMMA CountGrows ==
  ASSUME Short, NEW i \in CodeStarts, NEW j \in CodeStarts, i < j
  PROVE  Cardinality(CodeBefore(i)) < Cardinality(CodeBefore(j))
<1>1. i \in Int /\ j \in Int /\ \A k \in CodeStarts : k \in Int
  BY CodeIsFinite, LineBounds
<1>2. CodeBefore(i) \subseteq CodeBefore(j)
  <2>1. ASSUME NEW k \in CodeBefore(i) PROVE k \in CodeBefore(j)
    <3>1. k \in CodeStarts /\ k < i
      BY DEF CodeBefore
    <3>2. k < j
      BY <1>1, <3>1
    <3> QED BY <3>1, <3>2 DEF CodeBefore
  <2> QED BY <2>1
<1>3. i \in CodeBefore(j) /\ ~(i < i)
  BY <1>1 DEF CodeBefore
<1>4. i \notin CodeBefore(i)
  BY <1>3 DEF CodeBefore
<1>5. IsFiniteSet(CodeBefore(j)) /\ CodeBefore(i) # CodeBefore(j)
  BY <1>3, <1>4, CodeIsFinite
<1>6. /\ Cardinality(CodeBefore(i)) <= Cardinality(CodeBefore(j))
      /\ Cardinality(CodeBefore(i)) # Cardinality(CodeBefore(j))
  BY <1>2, <1>5, FS_Subset
<1>7. Cardinality(CodeBefore(i)) \in Nat /\ Cardinality(CodeBefore(j)) \in Nat
  BY CodeIsFinite, FS_CardinalityType
<1> QED BY <1>6, <1>7

(* The word with n - 1 before it is the n-th and no other, *)
LEMMA NthIs ==
  ASSUME Short, NEW i \in CodeStarts, NEW n \in Int, Cardinality(CodeBefore(i)) = n - 1
  PROVE  Nth(n) = {i}
<1>1. ASSUME NEW j \in Nth(n), j # i PROVE FALSE
  <2>1. j \in CodeStarts /\ Cardinality(CodeBefore(j)) = n - 1
    BY <1>1 DEF Nth
  <2>2. i \in Int /\ j \in Int
    BY <2>1, CodeIsFinite, LineBounds
  <2>3. CASE i < j
    BY <2>1, <2>3, CountGrows
  <2>4. CASE j < i
    BY <2>1, <2>4, CountGrows
  <2> QED BY <1>1, <2>2, <2>3, <2>4
<1> QED BY <1>1 DEF Nth

(* and there is none beyond the last. *)
LEMMA NthNone ==
  ASSUME Short, NEW n \in Int, Cardinality(CodeStarts) < n
  PROVE  Nth(n) = {}
<1>1. ASSUME NEW i \in Nth(n) PROVE FALSE
  <2>1. i \in CodeStarts /\ Cardinality(CodeBefore(i)) = n - 1
    BY DEF Nth
  <2>2. i \in Int /\ i \notin CodeBefore(i)
    BY <2>1, CodeIsFinite, LineBounds DEF CodeBefore
  <2>3. CodeBefore(i) \subseteq CodeStarts /\ CodeBefore(i) # CodeStarts
    BY <2>1, <2>2 DEF CodeBefore
  <2>4. /\ Cardinality(CodeBefore(i)) < Cardinality(CodeStarts)
        /\ Cardinality(CodeStarts) \in Nat
    BY <2>3, CodeIsFinite, FS_Subset, FS_CardinalityType
  <2> QED BY <2>1, <2>4
<1> QED BY <1>1

---------------------------------------------------------------------------
(* The invariant. *)

(* Which of the words of the line field f holds. *)
Rank(f) ==
  LET label == IF Labelled0 THEN 1 ELSE 0
  IN  CASE f = "label" -> 1
        [] f \in {"opcode", "width"} -> label + 1
        [] f = "arg1" -> label + 2
        [] f = "arg2" -> label + 3
        [] f = "arg3" -> label + 4

Fields == {"label", "opcode", "width", "arg1", "arg2", "arg3"}

(* Of the words found, n of them, each field of o has its meaning. *)
Holding(o, n) ==
  o = [f \in Fields \cup {"comment"} |->
               IF f \in Fields /\ Rank(f) <= n THEN Meaning(f) ELSE None]

(* None of the words found is empty. *)
Present(n) == \A f \in {"opcode", "arg1", "arg2"} : Rank(f) <= n => Meaning(f).length # 0

WordsBefore(p) == {j \in WordStarts : j < p}

(* parse looks for segment k from textPos on. *)
Reading(k) ==
  /\ textPos \in 0 .. Len(buffer)
  /\ \/ textPos = 0 /\ k = 1
     \/ Char(textPos) \in {Blank, NUL} /\ k > 1
  /\ WordStarts # {}
  /\ WordsBefore(textPos) \subseteq CodeStarts
  /\ Cardinality(WordsBefore(textPos)) = k - 1
  /\ ~Nameless => Holding(offsets, k - 1) /\ Present(k - 1)

LineInv ==
  /\ buffer \in Seq(Chars)
  /\ segment = Untrimmed => textPos = 0 /\ offsets = NoOffsets
  /\ segment \in 0 .. 7
  /\ SplitRight
  /\ Len(buffer) < Wrap /\ segment \in 1 .. 5 => Reading(segment)

---------------------------------------------------------------------------
(* A word as a segment. *)
LEMMA WordFromIs ==
  ASSUME Short, NEW i \in 0 .. Len(buffer)
  PROVE  /\ WordFrom(i).start = i /\ WordFrom(i).end = WordEnd(i)
         /\ WordFrom(i).length = WordEnd(i) - i
<1>1. WordEnd(i) \in i .. Len(buffer)
  BY EndIs
<1> DEFINE d == WordEnd(i) - i
<1>2. Len(buffer) \in Nat /\ Len(buffer) < 65536
  BY LineBounds DEF LengthWrap
<1>3. WordEnd(i) \in Int /\ i <= WordEnd(i) /\ WordEnd(i) <= Len(buffer) /\ i \in Int /\ 0 <= i
  BY <1>1, <1>2
<1>4. d \in Nat /\ d < 65536
  BY <1>2, <1>3
<1> HIDE DEF d
<1>5. d % LengthWrap = d
  BY <1>4 DEF LengthWrap
<1>6. WordFrom(i) = [start |-> i, end |-> WordEnd(i), length |-> d % LengthWrap]
  BY DEF WordFrom, Piece, d
<1>7. WordFrom(i) = [start |-> i, end |-> WordEnd(i), length |-> d]
  BY <1>5, <1>6
<1> QED BY <1>7 DEF d

(* The label, if there is one, is the first word of the line. *)
Shift == IF Labelled0 THEN 1 ELSE 0

(* The n-th word of the code is the one with n - 1 words before it. *)
LEMMA WordIs ==
  ASSUME Short, NEW i \in CodeStarts, NEW n \in Int, Cardinality(CodeBefore(i)) = n - 1
  PROVE  Word(n - Shift) = WordFrom(i)
<1>1. Nth(n) = {i}
  BY NthIs
<1>2. (IF Labelled0 THEN (n - Shift) + 1 ELSE n - Shift) = n
  BY DEF Shift
<1>3. {WordFrom(j) : j \in Nth(n)} = {WordFrom(i)}
  BY <1>1
<1>4. Word(n - Shift) = CHOOSE w \in {WordFrom(i)} : TRUE
  BY <1>2, <1>3 DEF Word
<1> QED BY <1>4

(* There is no n-th word when the code has fewer than n. *)
LEMMA WordNone ==
  ASSUME Short, NEW n \in Int, Cardinality(CodeStarts) < n
  PROVE  Word(n - Shift) = None
<1>1. Nth(n) = {}
  BY NthNone
<1>2. (IF Labelled0 THEN (n - Shift) + 1 ELSE n - Shift) = n
  BY DEF Shift
<1> QED BY <1>1, <1>2 DEF Word

(* What next_segment finds when parse looks for segment k. *)
Finds(k, i) ==
  /\ i \in 0 .. Len(buffer)
  /\ NextSegment(textPos) = {WordFrom(i)}
  /\ i = Len(buffer) => WordFrom(i).length = 0 /\ WordStarts = WordsBefore(textPos)
  /\ i < Len(buffer) =>
       /\ i \in WordStarts /\ textPos <= i /\ i < WordEnd(i)
       /\ \A j \in WordStarts : j < WordEnd(i) <=> j < textPos \/ j = i

(* next_segment finds the next word, or the end of the line. *)
LEMMA SegmentFound ==
  ASSUME Short, NEW k \in 1 .. 5, Reading(k)
  PROVE  \E i : Finds(k, i)
<1>1. textPos \in 0 .. Len(buffer) /\ (textPos = 0 \/ Char(textPos) \in {Blank, NUL})
  BY DEF Reading
<1>2. PICK i \in 0 .. Len(buffer) : NextText(textPos, i)
  BY <1>1, TextAhead
<1>3. NextSegment(textPos) = {WordFrom(i)}
  BY <1>1, <1>2, SegmentIs
<1>4. /\ i = Len(buffer) => \A j \in WordStarts : j < textPos
      /\ i < Len(buffer) =>
           /\ i \in WordStarts /\ textPos <= i /\ i < WordEnd(i)
           /\ \A j \in WordStarts : j < WordEnd(i) <=> j < textPos \/ j = i
  BY <1>1, <1>2, WordsAhead
<1>5. i = Len(buffer) => WordFrom(i).length = 0
  <2>1. i = Len(buffer) => WordEnd(i) = i
    BY EndIs, LineBounds
  <2> QED BY <2>1, WordFromIs, LineBounds
<1>6. i = Len(buffer) => WordStarts = WordsBefore(textPos)
  BY <1>4 DEF WordsBefore
<1>7. Finds(k, i)
  BY <1>3, <1>4, <1>5, <1>6 DEF Finds
<1> QED BY <1>7

(* Once there are no more words, what was found is the statement. *)
LEMMA AllFound ==
  ASSUME Short, NEW k \in 1 .. 5, Reading(k), WordStarts = WordsBefore(textPos)
  PROVE  CodeStarts = WordsBefore(textPos) /\ CommentStarts = {}
BY CodeIsFinite DEF Reading

(* A comment starts where the statement ends. *)
LEMMA CommentFound ==
  ASSUME Short, NEW k \in 1 .. 5, Reading(k), NEW i, Finds(k, i), Comment(WordFrom(i))
  PROVE  /\ CodeStarts = WordsBefore(textPos)
         /\ CommentStarts # {} /\ Min(CommentStarts) = i
<1>0. i \in 0 .. Len(buffer) /\ Char(i) = "/" /\ Char(i + 1) = "/"
  BY WordFromIs DEF Finds, Comment
<1>1. i < Len(buffer)
  BY <1>0, CharIs, TextOrBlank, LineBounds DEF Text, NUL
<1>2. /\ i \in WordStarts /\ textPos <= i /\ i < WordEnd(i)
      /\ \A j \in WordStarts : j < WordEnd(i) <=> j < textPos \/ j = i
  BY <1>1 DEF Finds
<1>3. i \in CommentStarts
  BY <1>0, <1>2 DEF CommentStarts
<1>4. WordStarts \subseteq Nat /\ textPos \in Nat /\ WordEnd(i) \in Nat
  <2>1. textPos \in 0 .. Len(buffer)
    BY DEF Reading
  <2> QED BY <1>0, <2>1, LineNaturals
<1>5. ASSUME NEW j \in CodeStarts PROVE j \in WordsBefore(textPos)
  <2>1. j < i /\ j \in WordStarts
    BY <1>3, CodeIsFinite DEF CodeStarts
  <2>2. j < WordEnd(i) /\ j # i
    BY <1>2, <1>4, <2>1
  <2> QED BY <1>2, <2>1, <2>2 DEF WordsBefore
<1>6. CodeStarts = WordsBefore(textPos)
  BY <1>5 DEF Reading
<1>7. ASSUME NEW c \in CommentStarts PROVE i <= c
  <2>1. c \in WordStarts /\ c \notin WordsBefore(textPos)
    BY <1>6, CodeIsFinite
  <2>2. ~(c < textPos)
    BY <2>1 DEF WordsBefore
  <2>3. ASSUME c < i PROVE FALSE
    <3>1. c < WordEnd(i) /\ c # i
      BY <1>2, <1>4, <2>1, <2>3
    <3> QED BY <1>2, <2>1, <2>2, <3>1
  <2> QED BY <1>4, <1>2, <2>1, <2>3
<1>8. CommentStarts \in SUBSET Nat
  BY <1>4, CodeIsFinite
<1> QED BY <1>3, <1>6, <1>7, <1>8, MinAt

(* A word that starts no comment is the next of the statement. *)
LEMMA WordFound ==
  ASSUME Short, NEW k \in 1 .. 5, Reading(k), NEW i, Finds(k, i), i < Len(buffer),
         ~Comment(WordFrom(i))
  PROVE  /\ i \in CodeStarts /\ Cardinality(CodeBefore(i)) = k - 1
         /\ WordsBefore(WordEnd(i)) \subseteq CodeStarts
         /\ Cardinality(WordsBefore(WordEnd(i))) = k
         /\ i # 0 => Char(i - 1) = Blank
         /\ k = 1 => (i = 0 <=> Labelled0)
<1>1. /\ i \in WordStarts /\ textPos <= i /\ i < WordEnd(i)
      /\ \A j \in WordStarts : j < WordEnd(i) <=> j < textPos \/ j = i
  BY DEF Finds
<1>2. /\ WordStarts \subseteq Nat /\ textPos \in Nat /\ WordEnd(i) \in Nat
      /\ i \in 0 .. Len(buffer)
  <2>1. textPos \in 0 .. Len(buffer) /\ i \in 0 .. Len(buffer)
    BY DEF Reading, Finds
  <2> QED BY <2>1, LineNaturals
<1>3. ~(Char(i) = "/" /\ Char(i + 1) = "/")
  BY <1>2, WordFromIs DEF Comment
<1>4. i \notin CommentStarts
  BY <1>3 DEF CommentStarts
<1>5. WordsBefore(textPos) \subseteq CodeStarts /\ Cardinality(WordsBefore(textPos)) = k - 1
  BY DEF Reading
<1>6. ASSUME NEW c \in CommentStarts PROVE i < c
  <2>1. c \in WordStarts /\ c \notin WordsBefore(textPos) /\ c # i
    BY <1>4, <1>5, CodeIsFinite
  <2>2. ~(c < textPos)
    BY <2>1 DEF WordsBefore
  <2>3. ~(c < WordEnd(i))
    BY <1>1, <2>1, <2>2
  <2> QED BY <1>1, <1>2, <2>1, <2>3
<1>7. i \in CodeStarts
  BY <1>1, <1>6 DEF CodeStarts
<1>8. WordsBefore(WordEnd(i)) = WordsBefore(textPos) \cup {i} /\ i \notin WordsBefore(textPos)
  <2>1. i \notin WordsBefore(textPos)
    BY <1>1, <1>2 DEF WordsBefore
  <2>2. ASSUME NEW j \in WordStarts
        PROVE  j \in WordsBefore(WordEnd(i)) <=> j \in WordsBefore(textPos) \/ j = i
    <3>1. j < WordEnd(i) <=> j < textPos \/ j = i
      BY <1>1
    <3> QED BY <3>1 DEF WordsBefore
  <2>3. WordsBefore(WordEnd(i)) \subseteq WordStarts /\ WordsBefore(textPos) \subseteq WordStarts
    BY DEF WordsBefore
  <2> QED BY <1>1, <2>1, <2>2, <2>3
<1>9. CodeBefore(i) = WordsBefore(textPos)
  <2>1. ASSUME NEW j \in CodeBefore(i) PROVE j \in WordsBefore(textPos)
    <3>1. j \in WordStarts /\ j < i /\ j \in Nat
      BY <1>2, CodeIsFinite DEF CodeBefore
    <3>2. j < WordEnd(i) /\ j # i
      BY <1>1, <1>2, <3>1
    <3> QED BY <1>1, <3>1, <3>2 DEF WordsBefore
  <2>2. ASSUME NEW j \in WordsBefore(textPos) PROVE j \in CodeBefore(i)
    <3>1. j \in CodeStarts /\ j < textPos /\ j \in Nat
      BY <1>2, <1>5 DEF WordsBefore
    <3>2. j < i
      BY <1>1, <1>2, <3>1
    <3> QED BY <3>1, <3>2 DEF CodeBefore
  <2> QED BY <2>1, <2>2
<1>10. IsFiniteSet(WordsBefore(textPos))
  BY <1>9, CodeIsFinite
<1>11. Cardinality(WordsBefore(WordEnd(i))) = k
  BY <1>5, <1>8, <1>10, FS_AddElement
<1>12. i # 0 => Char(i - 1) = Blank
  BY <1>1 DEF WordStarts
<1>13. ASSUME k = 1 PROVE i = 0 <=> Labelled0
  <2>1. textPos = 0
    BY <1>13 DEF Reading
  <2>2. ASSUME 0 \in CodeStarts PROVE i = 0
    <3>1. 0 \in WordStarts /\ 0 < WordEnd(i)
      BY <1>1, <1>2, <2>2, CodeIsFinite
    <3> QED BY <1>1, <2>1, <3>1
  <2> QED BY <1>7, <2>2 DEF Labelled0
<1> QED BY <1>5, <1>7, <1>8, <1>9, <1>11, <1>12, <1>13
---------------------------------------------------------------------------
(* Where a word of the line lies. *)
LEMMA WordPlace ==
  ASSUME Short, NEW i \in WordStarts
  PROVE  /\ i \in 0 .. Len(buffer) /\ i \in Nat /\ WordEnd(i) \in Nat /\ i < WordEnd(i)
         /\ WordEnd(i) <= Len(buffer)
<1>1. i \in 0 .. Len(buffer) - 1
  BY CodeIsFinite
<1>2. i \in 0 .. Len(buffer) /\ i < Len(buffer)
  BY <1>1, LineBounds
<1>3. WordEnd(i) \in i .. Len(buffer) /\ Char(WordEnd(i)) \in {Blank, NUL}
  BY <1>2, EndIs
<1>4. Char(i) # Blank /\ Char(i) # NUL
  <2>1. i \in Nat /\ ~(i >= Len(buffer))
    BY <1>2, LineBounds
  <2> QED BY <2>1, CharIs DEF WordStarts
<1>5. WordEnd(i) # i
  BY <1>3, <1>4
<1> QED BY <1>2, <1>3, <1>5, LineBounds

(* Fields by rank. *)
LEMMA Ranks ==
  /\ Shift \in {0, 1} /\ (Shift = 1 <=> Labelled0)
  /\ Rank("label") = 1 /\ Rank("opcode") = Shift + 1 /\ Rank("width") = Shift + 1
  /\ Rank("arg1") = Shift + 2 /\ Rank("arg2") = Shift + 3 /\ Rank("arg3") = Shift + 4
BY DEF Shift, Rank

(* What each field should hold, one by one. *)
LEMMA Meanings ==
  /\ Meaning("label") = IF Labelled0 THEN WordFrom(0) ELSE None
  /\ Meaning("opcode") = IF Cut THEN Piece(Word(1).start, Word(1).end - 2) ELSE Word(1)
  /\ Meaning("width") = IF Cut THEN Piece(Word(1).end - 1, Word(1).end) ELSE None
  /\ Meaning("arg1") = Word(2) /\ Meaning("arg2") = Word(3) /\ Meaning("arg3") = Word(4)
BY DEF Meaning

(* The word that is the opcode: OpcodeAt cuts it as its meaning says.  A   *)
(* word of one character has a blank before it, not a dot.                 *)
LEMMA OpcodeWord ==
  ASSUME Short, NEW i \in CodeStarts, Cardinality(CodeBefore(i)) = Shift
  PROVE  /\ Word(1) = WordFrom(i)
         /\ Cut <=> Char(WordEnd(i) - 2) = "."
         /\ ~Nameless => Meaning("opcode").length # 0
<1>1. i \in WordStarts
  BY CodeIsFinite
<1>2. i \in 0 .. Len(buffer) /\ i \in Nat /\ WordEnd(i) \in Nat /\ i < WordEnd(i)
      /\ WordEnd(i) <= Len(buffer)
  BY <1>1, WordPlace
<1>3. /\ WordFrom(i).start = i /\ WordFrom(i).end = WordEnd(i)
      /\ WordFrom(i).length = WordEnd(i) - i
  BY <1>2, WordFromIs
<1>4. Shift \in Int /\ Shift \in {0, 1}
  BY Ranks
<1>5. Word(1) = WordFrom(i)
  <2>1. Word((Shift + 1) - Shift) = WordFrom(i)
    <3>1. Shift + 1 \in Int /\ Cardinality(CodeBefore(i)) = (Shift + 1) - 1
      BY <1>4
    <3> QED BY <3>1, WordIs
  <2>2. (Shift + 1) - Shift = 1
    BY <1>4
  <2> QED BY <2>1, <2>2
<1>6. i # 0
  <2>1. ASSUME i = 0 PROVE FALSE
    <3>1. Shift = 1
      BY <2>1, Ranks DEF Labelled0
    <3>2. CodeBefore(i) = {}
      <4>1. \A j \in CodeStarts : j \in Nat
        BY CodeIsFinite, LineNaturals
      <4>2. \A j \in CodeStarts : ~(j < i)
        BY <2>1, <4>1
      <4> QED BY <4>2 DEF CodeBefore
    <3> QED BY <3>1, <3>2, FS_EmptySet
  <2> QED BY <2>1
<1>7. Char(i - 1) = Blank
  BY <1>1, <1>6 DEF WordStarts
<1>8. Cut <=> WordEnd(i) - i > 1 /\ Char(WordEnd(i) - 2) = "."
  BY <1>3, <1>5 DEF Cut
<1>9. WordEnd(i) - i > 1 \/ WordEnd(i) - 2 = i - 1
  BY <1>2
<1>10. Cut <=> Char(WordEnd(i) - 2) = "."
  BY <1>7, <1>8, <1>9 DEF Blank
<1>11. ASSUME ~Nameless PROVE Meaning("opcode").length # 0
  <2>1. CASE ~Cut
    <3>1. Meaning("opcode") = WordFrom(i)
      BY <2>1, <1>5, Meanings
    <3> QED BY <3>1, <1>2, <1>3
  <2>2. CASE Cut
    <3>1. Meaning("opcode") = Piece(i, WordEnd(i) - 2)
      BY <2>2, <1>3, <1>5, Meanings
    <3>2. WordEnd(i) - i > 2
      BY <1>2, <1>3, <1>5, <1>8, <1>11, <2>2 DEF Nameless
    <3> DEFINE d == (WordEnd(i) - 2) - i
    <3>3. Len(buffer) \in Nat /\ Len(buffer) < 65536
      BY LineBounds DEF LengthWrap
    <3>4. d \in Nat /\ d > 0 /\ d < 65536
      BY <3>2, <3>3, <1>2
    <3> HIDE DEF d
    <3>5. d % LengthWrap = d
      BY <3>4 DEF LengthWrap
    <3>6. Meaning("opcode").length = d % LengthWrap
      BY <3>1 DEF Piece, d
    <3> QED BY <3>4, <3>5, <3>6
  <2> QED BY <2>1, <2>2
<1> QED BY <1>5, <1>10, <1>11

(* A later word is an argument. *)
LEMMA ArgumentWord ==
  ASSUME Short, NEW i \in CodeStarts, NEW n \in 2 .. 4, Cardinality(CodeBefore(i)) = Shift + n - 1
  PROVE  Word(n) = WordFrom(i) /\ Word(n).length # 0
<1>1. Shift \in Int
  BY Ranks
<1>2. Shift + n \in Int /\ (Shift + n) - Shift = n
  BY <1>1
<1>3. Word((Shift + n) - Shift) = WordFrom(i)
  <2>1. Cardinality(CodeBefore(i)) = (Shift + n) - 1
    BY <1>1
  <2> QED BY <1>2, <2>1, WordIs
<1>4. i \in 0 .. Len(buffer) /\ i \in Nat /\ WordEnd(i) \in Nat /\ i < WordEnd(i)
  BY CodeIsFinite, WordPlace
<1>5. WordFrom(i).length # 0
  BY <1>4, WordFromIs
<1> QED BY <1>2, <1>3, <1>5

(* A field whose word the statement does not have means nothing. *)
LEMMA MeansNothing ==
  ASSUME Short, NEW f \in Fields, Rank(f) > Cardinality(CodeStarts)
  PROVE  Meaning(f) = None
<1>1. Cardinality(CodeStarts) \in Nat /\ Shift \in {0, 1}
  BY CodeIsFinite, FS_CardinalityType, Ranks
<1>2. ASSUME NEW n \in Int, n + Shift > Cardinality(CodeStarts) PROVE Word(n) = None
  <2>1. n + Shift \in Int /\ (n + Shift) - Shift = n
    BY <1>1
  <2>2. Word((n + Shift) - Shift) = None
    BY <1>2, <2>1, WordNone
  <2> QED BY <2>1, <2>2
<1>3. CASE f = "label"
  <2>1. Cardinality(CodeStarts) = 0
    BY <1>1, <1>3, Ranks
  <2>2. CodeStarts = {}
    BY <2>1, CodeIsFinite, FS_EmptySet
  <2> QED BY <1>3, <2>2, Meanings DEF Labelled0
<1>4. CASE f \in {"opcode", "width"}
  <2>1. 1 + Shift > Cardinality(CodeStarts)
    BY <1>1, <1>4, Ranks
  <2>2. Word(1) = None
    BY <1>2, <2>1
  <2>3. ~Cut
    BY <2>2 DEF Cut, None
  <2> QED BY <1>4, <2>2, <2>3, Meanings
<1>5. CASE f = "arg1"
  <2>1. 2 + Shift > Cardinality(CodeStarts)
    BY <1>1, <1>5, Ranks
  <2> QED BY <1>2, <1>5, <2>1, Meanings
<1>6. CASE f = "arg2"
  <2>1. 3 + Shift > Cardinality(CodeStarts)
    BY <1>1, <1>6, Ranks
  <2> QED BY <1>2, <1>6, <2>1, Meanings
<1>7. CASE f = "arg3"
  <2>1. 4 + Shift > Cardinality(CodeStarts)
    BY <1>1, <1>7, Ranks
  <2> QED BY <1>2, <1>7, <2>1, Meanings
<1> QED BY <1>3, <1>4, <1>5, <1>6, <1>7 DEF Fields

---------------------------------------------------------------------------
(* The fields, one more word found. *)
AllFields == Fields \cup {"comment"}

(* Storing the k-th word in its field leaves the fields right for k words. *)
LEMMA HoldingMore ==
  ASSUME NEW k \in Nat, NEW o, NEW o1, Holding(o, k - 1), o1 = [f \in AllFields |-> o1[f]],
         \A f \in AllFields :
           o1[f] = IF f \in Fields /\ Rank(f) = k THEN Meaning(f) ELSE o[f]
  PROVE  Holding(o1, k)
<1>1. ASSUME NEW f \in AllFields
      PROVE  o1[f] = IF f \in Fields /\ Rank(f) <= k THEN Meaning(f) ELSE None
  <2>1. o[f] = IF f \in Fields /\ Rank(f) <= k - 1 THEN Meaning(f) ELSE None
    BY DEF Holding, AllFields
  <2>2. f \in Fields => Rank(f) \in Int
    BY Ranks DEF Fields
  <2> QED BY <2>1, <2>2
<1> QED BY <1>1 DEF Holding, AllFields

(* What the fields hold, one by one. *)
LEMMA HoldingIs ==
  ASSUME NEW o, NEW n, Holding(o, n)
  PROVE  /\ o = [f \in AllFields |-> o[f]]
         /\ \A f \in Fields : o[f] = IF Rank(f) <= n THEN Meaning(f) ELSE None
         /\ o.comment = None
<1>1. o = [f \in AllFields |-> IF f \in Fields /\ Rank(f) <= n THEN Meaning(f) ELSE None]
  BY DEF Holding, AllFields
<1>2. "comment" \notin Fields /\ "comment" \in AllFields /\ Fields \subseteq AllFields
  BY DEF Fields, AllFields
<1> QED BY <1>1, <1>2

(* The label is taken, *)
LEMMA LabelTaken ==
  ASSUME Labelled0, Holding(offsets, 0)
  PROVE  /\ Holding([offsets EXCEPT !.label = WordFrom(0)], 1)
         /\ Present(1)
<1> DEFINE o == [offsets EXCEPT !.label = WordFrom(0)]
<1>1. offsets = [f \in AllFields |-> offsets[f]]
  BY HoldingIs
<1>2. \A f \in AllFields : o[f] = IF f = "label" THEN WordFrom(0) ELSE offsets[f]
  BY <1>1
<1>3. o = [f \in AllFields |-> o[f]]
  BY <1>1
<1>4. \A f \in AllFields : f \in Fields /\ Rank(f) = 1 <=> f = "label"
  BY Ranks DEF Fields, AllFields
<1>5. Meaning("label") = WordFrom(0)
  BY Meanings
<1> HIDE DEF o
<1>6. Holding(o, 1)
  <2>1. \A f \in AllFields :
          o[f] = IF f \in Fields /\ Rank(f) = 1 THEN Meaning(f) ELSE offsets[f]
    BY <1>2, <1>4, <1>5
  <2>2. 1 \in Nat /\ 1 - 1 = 0
    OBVIOUS
  <2> QED BY <1>3, <2>1, <2>2, HoldingMore
<1>7. Present(1)
  BY Ranks DEF Present
<1> QED BY <1>6, <1>7 DEF o

(* the opcode with its width, *)
LEMMA OpcodeTaken ==
  ASSUME Short, NEW k \in Nat, Rank("opcode") = k, NEW i \in CodeStarts,
         Cardinality(CodeBefore(i)) = k - 1, Holding(offsets, k - 1), ~Nameless
  PROVE  /\ Holding(OpcodeAt(WordFrom(i)), k)
         /\ Present(k)
<1> DEFINE o == OpcodeAt(WordFrom(i))
           e == WordEnd(i)
<1>1. k = Shift + 1 /\ Shift \in {0, 1} /\ Cardinality(CodeBefore(i)) = Shift
  BY Ranks
<1>2. /\ Word(1) = WordFrom(i)
      /\ Cut <=> Char(e - 2) = "."
      /\ Meaning("opcode").length # 0
  BY <1>1, OpcodeWord
<1>3. WordFrom(i).start = i /\ WordFrom(i).end = e
  BY CodeIsFinite, WordPlace, WordFromIs
<1>4. offsets = [f \in AllFields |-> offsets[f]]
  BY HoldingIs
<1>5. \A f \in Fields : offsets[f] = IF Rank(f) <= k - 1 THEN Meaning(f) ELSE None
  BY HoldingIs
<1>6. offsets["width"] = None
  <2>1. "width" \in Fields /\ ~(Rank("width") <= k - 1)
    BY <1>1, Ranks DEF Fields
  <2> QED BY <1>5, <2>1
<1>7. \A f \in AllFields : o[f] = IF f \in {"opcode", "width"} THEN Meaning(f) ELSE offsets[f]
  <2>1. CASE Cut
    <3>1. o = [offsets EXCEPT !.opcode = Meaning("opcode"), !.width = Meaning("width")]
      BY <2>1, <1>2, <1>3, Meanings DEF OpcodeAt
    <3> HIDE DEF o
    <3> QED BY <1>4, <3>1
  <2>2. CASE ~Cut
    <3>1. o = [offsets EXCEPT !.opcode = Meaning("opcode")] /\ Meaning("width") = None
      BY <2>2, <1>2, <1>3, Meanings DEF OpcodeAt
    <3> HIDE DEF o
    <3> QED BY <1>4, <1>6, <3>1
  <2> QED BY <2>1, <2>2
<1>8. o = [f \in AllFields |-> o[f]]
  BY <1>4 DEF OpcodeAt
<1> HIDE DEF o
<1>9. ASSUME NEW f \in AllFields
      PROVE  o[f] = IF f \in Fields /\ Rank(f) = k THEN Meaning(f) ELSE offsets[f]
  <2>1. CASE f \in {"opcode", "width"}
    BY <1>1, <1>7, <2>1, Ranks DEF Fields
  <2>2. CASE f = "label"
    <3>1. Shift = 1 => Rank(f) # k /\ o[f] = offsets[f]
      BY <1>1, <1>7, <2>2, Ranks
    <3>2. Shift = 0 => Rank(f) = k /\ Meaning(f) = None /\ o[f] = offsets[f]
      BY <1>1, <1>7, <2>2, Ranks, Meanings
    <3>3. Shift = 0 => offsets[f] = None
      BY <1>1, <1>5, <2>2, Ranks DEF Fields
    <3> QED BY <1>1, <3>1, <3>2, <3>3
  <2>3. CASE f = "comment"
    BY <1>7, <2>3 DEF Fields
  <2>4. CASE f \in {"arg1", "arg2", "arg3"}
    <3>1. Rank(f) # k
      BY <1>1, <2>4, Ranks
    <3> QED BY <1>7, <2>4, <3>1
  <2> QED BY <2>1, <2>2, <2>3, <2>4 DEF AllFields, Fields
<1>10. Holding(o, k)
  BY <1>8, <1>9, HoldingMore
<1>11. Present(k)
  <2>1. ~(Rank("arg1") <= k) /\ ~(Rank("arg2") <= k)
    BY <1>1, Ranks
  <2> QED BY <1>2, <2>1 DEF Present
<1> QED BY <1>10, <1>11 DEF o

(* an argument. *)
LEMMA ArgumentTaken ==
  ASSUME Short, NEW k \in Nat, NEW a \in {"arg1", "arg2", "arg3"}, Rank(a) = k,
         NEW i \in CodeStarts, Cardinality(CodeBefore(i)) = k - 1,
         Holding(offsets, k - 1), Present(k - 1)
  PROVE  /\ Holding([offsets EXCEPT ![a] = WordFrom(i)], k)
         /\ Present(k)
<1> DEFINE o == [offsets EXCEPT ![a] = WordFrom(i)]
<1>1. Shift \in {0, 1}
  BY Ranks
<1>2. PICK n \in 2 .. 4 : k = Shift + n /\ Meaning(a) = Word(n)
  <2>1. CASE a = "arg1"
    BY <2>1, <1>1, Ranks, Meanings
  <2>2. CASE a = "arg2"
    BY <2>2, <1>1, Ranks, Meanings
  <2>3. CASE a = "arg3"
    BY <2>3, <1>1, Ranks, Meanings
  <2> QED BY <2>1, <2>2, <2>3
<1>3. Word(n) = WordFrom(i) /\ Word(n).length # 0
  BY <1>1, <1>2, ArgumentWord
<1>4. offsets = [f \in AllFields |-> offsets[f]]
  BY HoldingIs
<1>5. \A f \in AllFields : o[f] = IF f = a THEN Meaning(a) ELSE offsets[f]
  BY <1>2, <1>3, <1>4
<1>6. o = [f \in AllFields |-> o[f]]
  BY <1>4
<1> HIDE DEF o
<1>7. k # 1 /\ k # Shift + 1
  BY <1>1, <1>2
<1>8. \A f \in Fields : Rank(f) = k <=> f = a
  BY <1>1, <1>7, Ranks DEF Fields
<1>9. ASSUME NEW f \in AllFields
      PROVE  o[f] = IF f \in Fields /\ Rank(f) = k THEN Meaning(f) ELSE offsets[f]
  BY <1>5, <1>8 DEF AllFields, Fields
<1>10. Holding(o, k)
  BY <1>6, <1>9, HoldingMore
<1>11. Present(k)
  <2>1. ASSUME NEW f \in {"opcode", "arg1", "arg2"}, Rank(f) <= k PROVE Meaning(f).length # 0
    <3>1. f \in Fields /\ Rank(f) \in Int
      BY Ranks DEF Fields
    <3>2. CASE Rank(f) = k
      BY <1>2, <1>3, <1>8, <3>1, <3>2
    <3>3. CASE Rank(f) <= k - 1
      BY <3>3 DEF Present
    <3> QED BY <2>1, <3>1, <3>2, <3>3
  <2> QED BY <2>1 DEF Present
<1> QED BY <1>10, <1>11 DEF o

(* FieldFor names the field whose turn it is. *)
LEMMA FieldForIs ==
  ASSUME NEW k \in 2 .. 4, Holding(offsets, k - 1), Present(k - 1)
  PROVE  FieldFor(k) \in {"opcode", "arg1", "arg2", "arg3"} /\ Rank(FieldFor(k)) = k
<1>1. \A f \in Fields : offsets[f] = IF Rank(f) <= k - 1 THEN Meaning(f) ELSE None
  BY HoldingIs
<1>2. ASSUME NEW f \in {"opcode", "arg1", "arg2"}
      PROVE  offsets[f].length = 0 <=> ~(Rank(f) <= k - 1)
  <2>1. f \in Fields
    BY DEF Fields
  <2>2. Rank(f) <= k - 1 => Meaning(f).length # 0
    BY DEF Present
  <2>3. None.length = 0
    BY DEF None
  <2> QED BY <1>1, <2>1, <2>2, <2>3
<1>3. Shift \in {0, 1}
  BY Ranks
<1>4. CASE k = 2
  <2>1. FieldFor(k) = IF offsets["opcode"].length = 0 THEN "opcode" ELSE "arg1"
    BY <1>4 DEF FieldFor
  <2> QED BY <1>2, <1>3, <1>4, <2>1, Ranks
<1>5. CASE k = 3
  <2>1. FieldFor(k) = IF offsets["arg1"].length = 0 THEN "arg1" ELSE "arg2"
    BY <1>5 DEF FieldFor
  <2> QED BY <1>2, <1>3, <1>5, <2>1, Ranks
<1>6. CASE k = 4
  <2>1. FieldFor(k) = IF offsets["arg2"].length = 0 THEN "arg2" ELSE "arg3"
    BY <1>6 DEF FieldFor
  <2> QED BY <1>2, <1>3, <1>6, <2>1, Ranks
<1> QED BY <1>4, <1>5, <1>6

---------------------------------------------------------------------------
(* What the properties say of the fields o, once the line is split. *)
Right(o) ==
  /\ \A f \in {"label", "opcode", "width", "arg1", "arg2"} : o[f] = Meaning(f)
  /\ ~Labelled0 => o.arg3 = Meaning("arg3")
  /\ CommentStarts # {} /\ Cardinality(CodeStarts) < 5 =>
       o.comment = Piece(Min(CommentStarts), Len(buffer))

(* After the last word every field is right, *)
LEMMA RightAtEnd ==
  ASSUME Short, Holding(offsets, Cardinality(CodeStarts))
  PROVE  \A f \in Fields : offsets[f] = Meaning(f)
<1> DEFINE n == Cardinality(CodeStarts)
<1>1. n \in Nat
  BY CodeIsFinite, FS_CardinalityType
<1>2. ASSUME NEW f \in Fields PROVE offsets[f] = Meaning(f)
  <2>1. offsets[f] = IF Rank(f) <= n THEN Meaning(f) ELSE None
    BY HoldingIs
  <2>2. Rank(f) \in Int
    BY Ranks DEF Fields
  <2>3. ~(Rank(f) <= n) => Meaning(f) = None
    BY <1>1, <2>2, MeansNothing
  <2> QED BY <2>1, <2>3
<1> QED BY <1>2

(* and after four words those that are promised. *)
LEMMA RightAfterFour ==
  ASSUME Short, Holding(offsets, 4), Cardinality(CodeStarts) >= 5
  PROVE  Right(offsets)
<1>1. \A f \in Fields : offsets[f] = IF Rank(f) <= 4 THEN Meaning(f) ELSE None
  BY HoldingIs
<1>2. Shift \in {0, 1} /\ (Labelled0 <=> Shift = 1)
  BY Ranks
<1>3. \A f \in {"label", "opcode", "width", "arg1", "arg2"} : Rank(f) <= 4 /\ f \in Fields
  BY <1>2, Ranks DEF Fields
<1>4. ~Labelled0 => Rank("arg3") <= 4 /\ "arg3" \in Fields
  BY <1>2, Ranks DEF Fields
<1>5. ~(Cardinality(CodeStarts) < 5)
  BY CodeIsFinite, FS_CardinalityType
<1> QED BY <1>1, <1>3, <1>4, <1>5 DEF Right

(* A step that leaves the line alone leaves its words alone. *)
LEMMA LineStands ==
  ASSUME buffer' = buffer
  PROVE  /\ \A i : Char(i)' = Char(i)
         /\ WordStarts' = WordStarts /\ CodeStarts' = CodeStarts
         /\ CommentStarts' = CommentStarts
         /\ Labelled0' = Labelled0 /\ Nameless' = Nameless
         /\ \A f \in Fields : Meaning(f)' = Meaning(f) /\ Rank(f)' = Rank(f)
<1>1. \A i : Char(i)' = Char(i)
  BY DEF Char
<1>2. WordStarts' = WordStarts
  BY <1>1 DEF WordStarts
<1>3. CommentStarts' = CommentStarts
  BY <1>1, <1>2 DEF CommentStarts
<1>4. CodeStarts' = CodeStarts
  BY <1>2, <1>3 DEF CodeStarts
<1>5. \A i : WordEnd(i)' = WordEnd(i)
  BY <1>1 DEF WordEnd
<1>6. \A i : WordFrom(i)' = WordFrom(i)
  BY <1>5 DEF WordFrom
<1>7. \A n : Nth(n)' = Nth(n)
  <2>1. \A i : CodeBefore(i)' = CodeBefore(i)
    BY <1>4 DEF CodeBefore
  <2> QED BY <1>4, <2>1 DEF Nth
<1>8. Labelled0' = Labelled0
  BY <1>4 DEF Labelled0
<1>9. ASSUME NEW k PROVE Word(k)' = Word(k)
  <2> DEFINE n == IF Labelled0 THEN k + 1 ELSE k
             word == {WordFrom(i) : i \in Nth(n)}
  <2>1. n' = n
    BY <1>8
  <2>2. Nth(n)' = Nth(n)
    BY <1>7, <2>1
  <2>3. word' = word
    BY <1>6, <2>2
  <2>4. Word(k) = IF word = {} THEN None ELSE CHOOSE w \in word : TRUE
    BY DEF Word
  <2>5. Word(k)' = IF word' = {} THEN None ELSE CHOOSE w \in word' : TRUE
    BY DEF Word, None
  <2> HIDE DEF word
  <2> QED BY <2>3, <2>4, <2>5
<1>10. Cut' = Cut
  BY <1>1, <1>9 DEF Cut
<1>11. Nameless' = Nameless
  BY <1>9, <1>10 DEF Nameless
<1>12. \A f \in Fields : Meaning(f)' = Meaning(f)
  BY <1>6, <1>8, <1>9, <1>10 DEF Meaning, Fields
<1>13. \A f \in Fields : Rank(f)' = Rank(f)
  BY <1>8 DEF Rank, Fields
<1> QED BY <1>1, <1>2, <1>3, <1>4, <1>8, <1>11, <1>12, <1>13

(* Which is how the parts of the invariant are carried over a step: when   *)
(* the line is split, *)
LEMMA SplitCarried ==
  ASSUME Short, buffer' = buffer, segment' = AllSplit, Right(offsets') \/ Nameless,
         buffer \in Seq(Chars)
  PROVE  LineInv'
<1>1. /\ CodeStarts' = CodeStarts /\ CommentStarts' = CommentStarts
      /\ Labelled0' = Labelled0 /\ Nameless' = Nameless
      /\ \A f \in Fields : Meaning(f)' = Meaning(f)
  BY LineStands
<1>2. {"label", "opcode", "width", "arg1", "arg2", "arg3"} = Fields
  BY DEF Fields
<1>3. ~Nameless' =>
        /\ \A f \in {"label", "opcode", "width", "arg1", "arg2"} : offsets'[f] = Meaning(f)'
        /\ ~Labelled0' => offsets'.arg3 = Meaning("arg3")'
        /\ CommentStarts' # {} /\ Cardinality(CodeStarts') < 5 =>
             offsets'.comment = Piece(Min(CommentStarts'), Len(buffer'))
  BY <1>1, <1>2 DEF Right
<1>4. SplitRight'
  BY <1>3 DEF SplitRight, AllSplit, Endless, Piece
<1> QED BY <1>4 DEF LineInv, AllSplit, Untrimmed

(* and when one more word is found. *)
LEMMA ReadingCarried ==
  ASSUME Short, buffer' = buffer, NEW k \in 1 .. 4, Reading(k), NEW i, Finds(k, i),
         i < Len(buffer), ~Comment(WordFrom(i)),
         segment' = k + 1, textPos' = WordEnd(i),
         ~Nameless => Holding(offsets', k) /\ Present(k)
  PROVE  LineInv'
<1>1. /\ \A j : Char(j)' = Char(j)
      /\ WordStarts' = WordStarts /\ CodeStarts' = CodeStarts /\ Nameless' = Nameless
      /\ \A f \in Fields : Meaning(f)' = Meaning(f) /\ Rank(f)' = Rank(f)
  BY LineStands
<1>2. /\ WordsBefore(WordEnd(i)) \subseteq CodeStarts
      /\ Cardinality(WordsBefore(WordEnd(i))) = k
  BY WordFound
<1>3. WordEnd(i) \in 0 .. Len(buffer) /\ Char(WordEnd(i)) \in {Blank, NUL}
  <2>1. i \in 0 .. Len(buffer)
    BY DEF Finds
  <2> QED BY <2>1, EndIs, LineBounds
<1>4. WordsBefore(textPos)' = WordsBefore(WordEnd(i))
  BY <1>1 DEF WordsBefore
<1>5. Holding(offsets', k) => Holding(offsets, k)'
  BY <1>1 DEF Holding
<1>6. Present(k) => Present(k)'
  BY <1>1 DEF Present, Fields
<1>7. (k + 1) - 1 = k /\ k + 1 > 1 /\ k + 1 \in 2 .. 5
  OBVIOUS
<1>8. Reading(k + 1)'
  <2>1. textPos' \in 0 .. Len(buffer') /\ Char(textPos)' \in {Blank, NUL}
    BY <1>1, <1>3
  <2>2. WordStarts' # {}
    BY <1>1 DEF Reading
  <2>3. WordsBefore(textPos)' \subseteq CodeStarts' /\ Cardinality(WordsBefore(textPos)') = k
    BY <1>1, <1>2, <1>4
  <2>4. ~Nameless' => Holding(offsets, k)' /\ Present(k)'
    BY <1>1, <1>5, <1>6
  <2> QED BY <1>7, <2>1, <2>2, <2>3, <2>4 DEF Reading
<1>9. segment' \in 2 .. 5
  BY <1>7
<1>10. SplitRight'
  BY <1>9 DEF SplitRight, AllSplit, Endless
<1> QED BY <1>8, <1>9, <1>10 DEF LineInv, Short, Untrimmed

---------------------------------------------------------------------------
(* The steps of a line that can be counted. *)
LEMMA EndsAtAll ==
  ASSUME Short, LineInv, NeverEnds
  PROVE  FALSE
<1>1. segment \in 1 .. 5 /\ Reading(segment)
  BY DEF LineInv, NeverEnds, Short
<1>2. PICK i : Finds(segment, i)
  BY <1>1, SegmentFound
<1> QED BY <1>2 DEF Finds, NeverEnds

(* Taking a comment keeps the invariant. *)
LEMMA CommentStep ==
  ASSUME Short, LineInv, SegmentComment
  PROVE  LineInv'
<1> DEFINE k == segment
<1>1. k \in 1 .. 5 /\ Reading(k)
  BY DEF LineInv, SegmentComment, Short
<1>2. PICK i : Finds(k, i)
  BY <1>1, SegmentFound
<1>3. i \in 0 .. Len(buffer) /\ NextSegment(textPos) = {WordFrom(i)}
  BY <1>2 DEF Finds
<1>4. Comment(WordFrom(i)) /\ offsets' = [offsets EXCEPT !.comment = Piece(i, Len(buffer))]
  BY <1>3, WordFromIs DEF SegmentComment
<1>5. buffer' = buffer /\ segment' = AllSplit
  BY DEF SegmentComment
<1>6. /\ CodeStarts = WordsBefore(textPos)
      /\ CommentStarts # {} /\ Min(CommentStarts) = i
  BY <1>1, <1>2, <1>4, CommentFound
<1>7. ASSUME ~Nameless PROVE Right(offsets')
  <2>1. Holding(offsets, Cardinality(CodeStarts))
    BY <1>1, <1>6, <1>7 DEF Reading
  <2>2. \A f \in Fields : offsets[f] = Meaning(f)
    BY <2>1, RightAtEnd
  <2>3. offsets = [f \in AllFields |-> offsets[f]]
    BY <2>1, HoldingIs
  <2>4. /\ \A f \in Fields : offsets'[f] = offsets[f]
        /\ offsets'.comment = Piece(i, Len(buffer))
    BY <1>4, <2>3 DEF AllFields, Fields
  <2> QED BY <1>6, <2>2, <2>4 DEF Right, Fields
<1> QED BY <1>5, <1>7, SplitCarried DEF LineInv

(* So does taking the first word of the line. *)
LEMMA FirstStep ==
  ASSUME Short, LineInv, SegmentFirst
  PROVE  LineInv'
<1>1. segment = 1 /\ Reading(1) /\ textPos = 0
  BY DEF LineInv, SegmentFirst, Short, Reading
<1>2. PICK i : Finds(1, i)
  BY <1>1, SegmentFound
<1>3. i \in 0 .. Len(buffer) /\ NextSegment(0) = {WordFrom(i)}
  BY <1>1, <1>2 DEF Finds
<1>4. WordFrom(i).start = i /\ WordFrom(i).end = WordEnd(i)
  BY <1>3, WordFromIs
<1>5. /\ ~Comment(WordFrom(i)) /\ textPos' = WordEnd(i) /\ segment' = 1 + 1 /\ buffer' = buffer
      /\ offsets' = IF i = 0 THEN [offsets EXCEPT !.label = WordFrom(0)] ELSE OpcodeAt(WordFrom(i))
  BY <1>3, <1>4 DEF SegmentFirst
<1>6. i < Len(buffer)
  <2>1. ASSUME i = Len(buffer) PROVE FALSE
    <3>1. WordStarts = WordsBefore(0) /\ WordStarts # {}
      BY <1>1, <1>2, <2>1 DEF Finds, Reading
    <3>2. WordStarts \subseteq Nat
      BY LineNaturals
    <3>3. PICK j \in WordStarts : TRUE
      BY <3>1
    <3>4. j < 0 /\ j \in Nat
      BY <3>1, <3>2, <3>3 DEF WordsBefore
    <3> QED BY <3>4
  <2> QED BY <1>3, <2>1, LineBounds
<1>7. i \in CodeStarts /\ Cardinality(CodeBefore(i)) = 1 - 1 /\ (i = 0 <=> Labelled0)
  BY <1>1, <1>2, <1>5, <1>6, WordFound
<1>8. ASSUME ~Nameless PROVE Holding(offsets', 1) /\ Present(1)
  <2>1. Holding(offsets, 1 - 1)
    BY <1>1, <1>8 DEF Reading
  <2>2. CASE i = 0
    <3>1. Holding(offsets, 0)
      BY <2>1
    <3> QED BY <1>5, <1>7, <2>2, <3>1, LabelTaken
  <2>3. CASE i # 0
    <3>1. Rank("opcode") = 1 /\ 1 \in Nat
      BY <1>7, <2>3, Ranks
    <3> QED BY <1>5, <1>7, <1>8, <2>1, <2>3, <3>1, OpcodeTaken
  <2> QED BY <2>2, <2>3
<1>9. 1 \in 1 .. 4
  OBVIOUS
<1> QED BY <1>1, <1>2, <1>5, <1>6, <1>8, <1>9, ReadingCarried

(* So does coming to the end of the line. *)
LEMMA NoneStep ==
  ASSUME Short, LineInv, SegmentNone
  PROVE  LineInv'
<1> DEFINE k == segment
<1>1. k \in 1 .. 5 /\ Reading(k)
  BY DEF LineInv, SegmentNone, Short
<1>2. PICK i : Finds(k, i)
  BY <1>1, SegmentFound
<1>3. i \in 0 .. Len(buffer) /\ WordFrom(i).length = 0
  BY <1>2 DEF Finds, SegmentNone
<1>4. i = Len(buffer)
  <2>1. ASSUME i < Len(buffer) PROVE FALSE
    <3>1. i \in WordStarts
      BY <1>2, <2>1 DEF Finds
    <3>2. i \in Nat /\ WordEnd(i) \in Nat /\ i < WordEnd(i)
      BY <3>1, WordPlace
    <3> QED BY <1>3, <3>2, WordFromIs
  <2> QED BY <1>3, <2>1, LineBounds
<1>5. WordStarts = WordsBefore(textPos)
  BY <1>2, <1>4 DEF Finds
<1>6. CodeStarts = WordsBefore(textPos) /\ CommentStarts = {}
  BY <1>1, <1>5, AllFound
<1>7. buffer' = buffer /\ segment' = AllSplit /\ offsets' = offsets
  BY DEF SegmentNone
<1>8. ASSUME ~Nameless PROVE Right(offsets')
  <2>1. Holding(offsets, Cardinality(CodeStarts))
    BY <1>1, <1>6, <1>8 DEF Reading
  <2>2. \A f \in Fields : offsets[f] = Meaning(f)
    BY <2>1, RightAtEnd
  <2> QED BY <1>6, <1>7, <2>2 DEF Right, Fields
<1> QED BY <1>7, <1>8, SplitCarried DEF LineInv

(* So does taking one of the second to the fourth word. *)
LEMMA NextStep ==
  ASSUME Short, LineInv, SegmentNext
  PROVE  LineInv'
<1> DEFINE k == segment
<1>1. k \in 2 .. 4 /\ k \in 1 .. 5 /\ k \in 1 .. 4 /\ k \in Nat /\ Reading(k)
  BY DEF LineInv, SegmentNext, Short
<1>2. PICK i : Finds(k, i)
  BY <1>1, SegmentFound
<1>3. i \in 0 .. Len(buffer) /\ NextSegment(textPos) = {WordFrom(i)}
  BY <1>2 DEF Finds
<1>4. WordFrom(i).start = i /\ WordFrom(i).end = WordEnd(i)
  BY <1>3, WordFromIs
<1>5. /\ ~Comment(WordFrom(i)) /\ WordFrom(i).length # 0 /\ textPos' = WordEnd(i)
      /\ segment' = k + 1 /\ buffer' = buffer
      /\ offsets' = IF FieldFor(k) = "opcode" THEN OpcodeAt(WordFrom(i))
                    ELSE [offsets EXCEPT ![FieldFor(k)] = WordFrom(i)]
  BY <1>3, <1>4 DEF SegmentNext
<1>6. i < Len(buffer)
  <2>1. i = Len(buffer) => WordFrom(i).length = 0
    BY <1>2 DEF Finds
  <2> QED BY <1>3, <1>5, <2>1, LineBounds
<1>7. i \in CodeStarts /\ Cardinality(CodeBefore(i)) = k - 1
  BY <1>1, <1>2, <1>5, <1>6, WordFound
<1> HIDE DEF k
<1>8. ASSUME ~Nameless PROVE Holding(offsets', k) /\ Present(k)
  <2>1. Holding(offsets, k - 1) /\ Present(k - 1)
    BY <1>1, <1>8 DEF Reading
  <2>2. FieldFor(k) \in {"opcode", "arg1", "arg2", "arg3"} /\ Rank(FieldFor(k)) = k
    BY <1>1, <2>1, FieldForIs
  <2>3. CASE FieldFor(k) = "opcode"
    <3>1. Rank("opcode") = k
      BY <2>2, <2>3
    <3>2. Holding(OpcodeAt(WordFrom(i)), k) /\ Present(k)
      BY <1>1, <1>7, <1>8, <2>1, <3>1, OpcodeTaken
    <3> QED BY <1>5, <2>3, <3>2
  <2>4. CASE FieldFor(k) # "opcode"
    <3>1. FieldFor(k) \in {"arg1", "arg2", "arg3"}
      BY <2>2, <2>4
    <3>2. Holding([offsets EXCEPT ![FieldFor(k)] = WordFrom(i)], k) /\ Present(k)
      BY <1>1, <1>7, <2>1, <2>2, <3>1, ArgumentTaken
    <3> QED BY <1>5, <2>4, <3>2
  <2> QED BY <2>3, <2>4
<1> QED BY <1>1, <1>2, <1>5, <1>6, <1>8, ReadingCarried

(* So does leaving the fifth. *)
LEMMA LeftStep ==
  ASSUME Short, LineInv, SegmentLeft
  PROVE  LineInv'
<1>1. segment = 5 /\ 5 \in 1 .. 5 /\ Reading(5)
  BY DEF LineInv, SegmentLeft, Short
<1>2. PICK i : Finds(5, i)
  BY <1>1, SegmentFound
<1>3. i \in 0 .. Len(buffer) /\ ~Comment(WordFrom(i)) /\ WordFrom(i).length # 0
  BY <1>2 DEF Finds, SegmentLeft
<1>4. i < Len(buffer)
  <2>1. i = Len(buffer) => WordFrom(i).length = 0
    BY <1>2 DEF Finds
  <2> QED BY <1>3, <2>1, LineBounds
<1>5. i \in CodeStarts /\ Cardinality(CodeBefore(i)) = 5 - 1
  BY <1>1, <1>2, <1>3, <1>4, WordFound
<1>6. Cardinality(CodeStarts) >= 5
  <2>1. i \in Nat /\ i \notin CodeBefore(i) /\ CodeBefore(i) \subseteq CodeStarts
    BY <1>5, CodeIsFinite, LineNaturals DEF CodeBefore
  <2>2. IsFiniteSet(CodeStarts) /\ IsFiniteSet(CodeBefore(i))
    BY CodeIsFinite
  <2>3. CodeBefore(i) \cup {i} \subseteq CodeStarts
    BY <1>5, <2>1
  <2>4. Cardinality(CodeBefore(i) \cup {i}) = Cardinality(CodeBefore(i)) + 1
    BY <2>1, <2>2, FS_AddElement
  <2>5. Cardinality(CodeBefore(i) \cup {i}) <= Cardinality(CodeStarts)
    BY <2>2, <2>3, FS_Subset
  <2>6. Cardinality(CodeStarts) \in Nat
    BY <2>2, FS_CardinalityType
  <2> QED BY <1>5, <2>4, <2>5, <2>6
<1>7. buffer' = buffer /\ segment' = AllSplit /\ offsets' = offsets
  BY DEF SegmentLeft
<1>8. ASSUME ~Nameless PROVE Right(offsets')
  <2>1. Holding(offsets, 4)
    BY <1>1, <1>8 DEF Reading
  <2> QED BY <1>6, <1>7, <2>1, RightAfterFour
<1> QED BY <1>7, <1>8, SplitCarried DEF LineInv

---------------------------------------------------------------------------
(* Before the first segment. *)
LEMMA StartReading ==
  Short /\ textPos = 0 /\ offsets = NoOffsets /\ (\E j \in 0 .. Len(buffer) - 1 : Char(j) # Blank)
    => Reading(1)
<1> SUFFICES ASSUME Short, textPos = 0, offsets = NoOffsets,
                    NEW j \in 0 .. Len(buffer) - 1, Char(j) # Blank
             PROVE  Reading(1)
  OBVIOUS
<1>1. 0 \in 0 .. Len(buffer) /\ j \in Nat /\ j < Len(buffer)
  BY LineBounds
<1>2. PICK i \in 0 .. Len(buffer) : NextText(0, i)
  BY <1>1, TextAhead
<1>3. i # Len(buffer)
  BY <1>1, <1>2, LineBounds DEF NextText
<1>4. i \in WordStarts
  BY <1>1, <1>2, <1>3, WordsAhead, LineBounds
<1>5. WordsBefore(textPos) = {}
  BY LineNaturals DEF WordsBefore
<1>6. Cardinality(WordsBefore(textPos)) = 1 - 1
  BY <1>5, FS_EmptySet
<1>7. Shift \in {0, 1}
  BY Ranks
<1>8. \A f \in Fields : ~(Rank(f) <= 1 - 1)
  BY <1>7, Ranks DEF Fields
<1>9. Holding(offsets, 1 - 1) /\ Present(1 - 1)
  BY <1>8 DEF Holding, Present, NoOffsets, Fields
<1> QED BY <1>1, <1>4, <1>5, <1>6, <1>9 DEF Reading

(* An empty line is split. *)
LEMMA EmptyRight ==
  Short /\ Len(buffer) = 0 /\ offsets = NoOffsets => Right(offsets)
<1> SUFFICES ASSUME Short, Len(buffer) = 0, offsets = NoOffsets
             PROVE  Right(offsets)
  OBVIOUS
<1>1. WordStarts = {}
  BY CodeIsFinite
<1>2. CodeStarts = {} /\ CommentStarts = {}
  BY <1>1, CodeIsFinite
<1>3. Cardinality(CodeStarts) = 0
  BY <1>2, FS_EmptySet
<1>4. Shift \in {0, 1}
  BY Ranks
<1>5. \A f \in Fields : Rank(f) > Cardinality(CodeStarts)
  BY <1>3, <1>4, Ranks DEF Fields
<1>6. \A f \in Fields : Meaning(f) = None
  BY <1>5, MeansNothing
<1> QED BY <1>2, <1>6 DEF Right, NoOffsets, Fields

(* Trimming the line establishes what reading it needs. *)
LEMMA TrimStep ==
  ASSUME LineInv, TrimLine
  PROVE  LineInv'
<1> DEFINE kept == {i \in DOMAIN buffer : buffer[i] # Blank}
           m == Max(kept)
<1>1. buffer \in Seq(Chars) /\ textPos = 0 /\ offsets = NoOffsets
  BY DEF LineInv, TrimLine
<1>2. textPos' = 0 /\ offsets' = NoOffsets
  BY <1>1 DEF TrimLine
<1>3. (Short /\ textPos = 0 /\ offsets = NoOffsets
         /\ (\E j \in 0 .. Len(buffer) - 1 : Char(j) # Blank) => Reading(1))'
  BY StartReading, PTL
<1>4. (Short /\ Len(buffer) = 0 /\ offsets = NoOffsets => Right(offsets))'
  BY EmptyRight, PTL
<1>5. CASE kept = {}
  <2>1. buffer' = <<>> /\ segment' = AllSplit
    BY <1>5 DEF TrimLine
  <2>2. Short' /\ Len(buffer') = 0
    BY <2>1, LineSplitAssumption DEF Short
  <2>3. Right(offsets)'
    BY <1>2, <1>4, <2>2 DEF NoOffsets, None
  <2>4. SplitRight'
    BY <2>1, <2>3 DEF SplitRight, Right, AllSplit, Endless
  <2> QED BY <2>1, <2>2, <2>4 DEF LineInv, Short, AllSplit, Untrimmed
<1>6. CASE kept # {}
  <2>1. DOMAIN buffer = 1 .. Len(buffer) /\ Len(buffer) \in Nat
    BY <1>1
  <2>2. kept \subseteq 1 .. Len(buffer) /\ kept \in SUBSET Int
    BY <2>1
  <2>3. m \in kept
    <3>1. \E x \in kept : \A k \in kept : k <= x
      <4>1. \A k \in kept : k <= Len(buffer)
        BY <2>1, <2>2
      <4>2. kept \in SUBSET Nat
        BY <2>2
      <4> HIDE DEF kept
      <4> QED BY <1>6, <2>1, <4>1, <4>2, GreatestOf
    <3> QED BY <3>1 DEF Max
  <2>4. m \in 1 .. Len(buffer) /\ buffer[m] # Blank
    BY <2>2, <2>3
  <2>5. buffer' = SubSeq(buffer, 1, m) /\ segment' = 1
    BY <1>6 DEF TrimLine
  <2> HIDE DEF kept, m
  <2>a. PICK n \in 1 .. Len(buffer) : n = m
    BY <2>4
  <2>6. /\ buffer' \in Seq(Chars) /\ Len(buffer') = n /\ n \in Nat /\ 1 <= n
        /\ buffer'[n] = buffer[n] /\ buffer[n] # Blank
    BY <1>1, <2>1, <2>4, <2>5, <2>a
  <2>7. n - 1 \in 0 .. Len(buffer') - 1 /\ Char(n - 1)' # Blank
    <3>1. n - 1 < Len(buffer') /\ (n - 1) + 1 = n /\ n - 1 \in 0 .. Len(buffer') - 1
      BY <2>6
    <3> QED BY <2>6, <3>1 DEF Char
  <2>8. Short' => Reading(1)'
    BY <1>2, <1>3, <2>7 DEF NoOffsets, None, Blank
  <2>9. SplitRight'
    BY <2>5 DEF SplitRight, AllSplit, Endless
  <2> QED BY <2>5, <2>6, <2>8, <2>9 DEF LineInv, Short, Untrimmed
<1> QED BY <1>5, <1>6

(* Nothing changes. *)
LEMMA StandsStill ==
  ASSUME LineInv, buffer' = buffer, segment' = segment, textPos' = textPos, offsets' = offsets
  PROVE  LineInv'
<1>1. /\ \A j : Char(j)' = Char(j)
      /\ WordStarts' = WordStarts /\ CodeStarts' = CodeStarts
      /\ CommentStarts' = CommentStarts
      /\ Labelled0' = Labelled0 /\ Nameless' = Nameless
      /\ \A f \in Fields : Meaning(f)' = Meaning(f) /\ Rank(f)' = Rank(f)
  BY LineStands
<1>2. WordsBefore(textPos)' = WordsBefore(textPos)
  BY <1>1 DEF WordsBefore
<1>3. \A n : Holding(offsets, n)' <=> Holding(offsets, n)
  BY <1>1 DEF Holding
<1>4. \A n : Present(n)' <=> Present(n)
  BY <1>1 DEF Present, Fields
<1>5. \A k : Reading(k) => Reading(k)'
  BY <1>1, <1>2, <1>3, <1>4 DEF Reading
<1>6. SplitRight => SplitRight'
  BY <1>1 DEF SplitRight, Piece, Fields
<1> QED BY <1>5, <1>6 DEF LineInv

(* A line that is too long promises nothing, and stays too long. *)
LEMMA LongStep ==
  ASSUME LineInv, segment # Untrimmed, Len(buffer) >= Wrap, LineNext
  PROVE  LineInv'
<1>1. buffer' = buffer /\ segment' \in 1 .. 7
  BY DEF LineInv, LineNext, TrimLine, NeverEnds, SegmentComment, SegmentFirst, SegmentNone,
         SegmentNext, SegmentLeft, Untrimmed, AllSplit, Endless
<1>2. ~(Len(buffer') < Wrap)
  BY <1>1, LineSplitAssumption DEF LineInv
<1> QED BY <1>1, <1>2 DEF LineInv, SplitRight, Untrimmed

(* Every line that is shorter than a position counts is split as it reads, *)
(* and parse ends (SplitRight).                                            *)
THEOREM LineSplitRight == LineSpec => []SplitRight
<1>1. ASSUME \E line \in Seq(Chars) : LineStart(line) PROVE LineInv
  <2>1. buffer \in Seq(Chars) /\ segment = Untrimmed /\ textPos = 0 /\ offsets = NoOffsets
    BY <1>1 DEF LineStart
  <2> QED BY <2>1 DEF LineInv, SplitRight, Untrimmed, AllSplit, Endless
<1>2. ASSUME LineInv, [LineNext]_lineVars PROVE LineInv'
  <2>1. CASE TrimLine
    BY <1>2, <2>1, TrimStep
  <2>2. CASE LineNext /\ ~TrimLine
    <3>1. segment # Untrimmed /\ buffer \in Seq(Chars)
      BY <1>2, <2>2 DEF LineInv, LineNext, TrimLine, NeverEnds, SegmentComment, SegmentFirst,
                       SegmentNone, SegmentNext, SegmentLeft, Untrimmed
    <3>2. CASE Len(buffer) < Wrap
      <4>1. Short
        BY <3>1, <3>2 DEF Short
      <4> QED BY <1>2, <2>2, <4>1, EndsAtAll, CommentStep, FirstStep, NoneStep, NextStep, LeftStep
              DEF LineNext
    <3>3. CASE Len(buffer) >= Wrap
      BY <1>2, <2>2, <3>1, <3>3, LongStep
    <3> QED BY <3>1, <3>2, <3>3, LineSplitAssumption
  <2>3. CASE UNCHANGED lineVars
    <3>1. buffer' = buffer /\ segment' = segment /\ textPos' = textPos /\ offsets' = offsets
      BY <2>3 DEF lineVars
    <3> QED BY <1>2, <3>1, StandsStill
  <2> QED BY <1>2, <2>1, <2>2, <2>3
<1>3. LineInv => SplitRight
  BY DEF LineInv
<1> QED BY <1>1, <1>2, <1>3, PTL DEF LineSpec

=============================================================================
