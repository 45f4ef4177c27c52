----------------------------- MODULE LineSplit -----------------------------
(***************************************************************************)
(* How the assembler splits a source line into a label, an opcode with its *)
(* width, up to three arguments and a comment: str_trim_right, parse and   *)
(* next_segment of mhasm.c.  parse looks for five segments one after the   *)
(* other; each is an action here.  A character is blank, a slash, a dot or *)
(* any other; next_segment counts them modulo Wrap, 256 in the code.       *)
(***************************************************************************)
EXTENDS Integers, Sequences, FiniteSetsExt

CONSTANT Wrap

(* The length of a segment is a uint16_t, a position is shorter. *)
LengthWrap == 65536

ASSUME LineSplitAssumption == Wrap \in 3 .. LengthWrap

VARIABLES
  buffer,      \* state.sourceline
  segment,     \* which of the five parse looks for, or one of the three below
  textPos,     \* the variable pos of parse
  offsets      \* state.offsets

lineVars == <<buffer, segment, textPos, offsets>>

Untrimmed == 0
AllSplit == 6
Endless == 7   \* inside a loop of next_segment that does not end

Blank == " "
NUL == "nul"
Char(i) == IF i < Len(buffer) THEN buffer[i + 1] ELSE NUL

None == [start |-> 0, end |-> 0, length |-> 0]
NoOffsets == [f \in {"label", "opcode", "width", "arg1", "arg2", "arg3", "comment"} |-> None]

Piece(a, b) == [start |-> a, end |-> b, length |-> (b - a) % LengthWrap]

---------------------------------------------------------------------------
(* How far from p the loops of next_segment run, each to a character in C. *)
Reach(p, C) == {k \in 0 .. Wrap - 1 : Char((p + k) % Wrap) \in C}

Text == {"x", ".", "/"}
Chars == Text \cup {Blank}

(* next_segment; none when a loop never ends. *)
NextSegment(p) ==
  LET k == Min(Reach(p, Text \cup {NUL}))
      start == (p + k) % Wrap
      m == Min(Reach(start, {Blank, NUL}))
  IN  IF Reach(p, Text \cup {NUL}) = {} \/ Reach(start, {Blank, NUL}) = {} THEN {}
      ELSE {Piece(start, (start + m) % Wrap)}

Comment(s) == Char(s.start) = "/" /\ Char(s.start + 1) = "/"

(* An opcode may end in a dot and a width. *)
OpcodeAt(s) ==
  IF Char(s.end - 2) = "."
  THEN [offsets EXCEPT !.opcode = Piece(s.start, s.end - 2), !.width = Piece(s.end - 1, s.end)]
  ELSE [offsets EXCEPT !.opcode = s]

---------------------------------------------------------------------------
LineStart(line) ==
  /\ buffer = line
  /\ segment = Untrimmed /\ textPos = 0
  /\ offsets = NoOffsets

(* str_trim_right, and the test for an empty line. *)
TrimLine ==
  /\ segment = Untrimmed
  /\ LET kept == {i \in DOMAIN buffer : buffer[i] # Blank}
     IN  /\ buffer' = IF kept = {} THEN <<>> ELSE SubSeq(buffer, 1, Max(kept))
         /\ segment' = IF kept = {} THEN AllSplit ELSE 1
  /\ UNCHANGED <<textPos, offsets>>

NeverEnds ==
  /\ segment \in 1 .. 5
  /\ NextSegment(textPos) = {}
  /\ segment' = Endless
  /\ UNCHANGED <<buffer, textPos, offsets>>

(* The rest of the line is a comment. *)
SegmentComment ==
  /\ segment \in 1 .. 5
  /\ \E s \in NextSegment(textPos) :
       /\ Comment(s)
       /\ offsets' = [offsets EXCEPT !.comment = Piece(s.start, Len(buffer))]
  /\ segment' = AllSplit
  /\ UNCHANGED <<buffer, textPos>>

(* The first segment: a label when it begins the line. *)
SegmentFirst ==
  /\ segment = 1
  /\ \E s \in NextSegment(0) :
       /\ ~Comment(s)
       /\ offsets' = IF s.start = 0 THEN [offsets EXCEPT !.label = s] ELSE OpcodeAt(s)
       /\ textPos' = s.end
  /\ segment' = 2
  /\ UNCHANGED buffer

SegmentNone ==
  /\ segment \in 2 .. 5
  /\ \E s \in NextSegment(textPos) : s.length = 0
  /\ segment' = AllSplit
  /\ UNCHANGED <<buffer, textPos, offsets>>

(* Mutant: the place of the first argument is not looked at again. *)
FieldForSkips(k) ==
  CASE k = 2 -> IF offsets.opcode.length = 0 THEN "opcode" ELSE "arg1"
    [] k = 3 -> "arg2"
    [] k = 4 -> IF offsets.arg2.length = 0 THEN "arg2" ELSE "arg3"

(* What segment k is, by what is there already. *)
FieldFor(k) ==
  CASE k = 2 -> IF offsets.opcode.length = 0 THEN "opcode" ELSE "arg1"
    [] k = 3 -> IF offsets.arg1.length = 0 THEN "arg1" ELSE "arg2"
    [] k = 4 -> IF offsets.arg2.length = 0 THEN "arg2" ELSE "arg3"

SegmentNext ==
  /\ segment \in 2 .. 4
  /\ \E s \in NextSegment(textPos) :
       /\ s.length # 0 /\ ~Comment(s)
       /\ offsets' = IF FieldFor(segment) = "opcode" THEN OpcodeAt(s)
                     ELSE [offsets EXCEPT ![FieldFor(segment)] = s]
       /\ textPos' = s.end
  /\ segment' = segment + 1
  /\ UNCHANGED buffer

(* The fifth is taken when it is a comment only. *)
SegmentLeft ==
  /\ segment = 5
  /\ \E s \in NextSegment(textPos) : s.length # 0 /\ ~Comment(s)
  /\ segment' = AllSplit
  /\ UNCHANGED <<buffer, textPos, offsets>>

LineNext ==
  \/ TrimLine \/ NeverEnds
  \/ SegmentComment \/ SegmentFirst \/ SegmentNone \/ SegmentNext \/ SegmentLeft

---------------------------------------------------------------------------
(* The words of the line as its author sees them: where they start, in     *)
(* order, and where each ends; a comment is what follows two slashes.      *)
WordStarts == {i \in 0 .. Len(buffer) - 1 : Char(i) # Blank /\ (i = 0 \/ Char(i - 1) = Blank)}
CommentStarts == {i \in WordStarts : Char(i) = "/" /\ Char(i + 1) = "/"}
CodeStarts == {i \in WordStarts : \A j \in CommentStarts : i < j}
WordEnd(i) == Min({j \in i .. Len(buffer) : Char(j) \in {Blank, NUL}})
WordFrom(i) == Piece(i, WordEnd(i))
CodeBefore(i) == {j \in CodeStarts : j < i}
Nth(n) == {i \in CodeStarts : Cardinality(CodeBefore(i)) = n - 1}

(* What offsets should hold: the words after the label, when there is one, *)
(* and the opcode cut at its dot.                                          *)
Labelled0 == 0 \in CodeStarts
Word(k) == LET word == {WordFrom(i) : i \in Nth(IF Labelled0 THEN k + 1 ELSE k)}
           IN  IF word = {} THEN None ELSE CHOOSE w \in word : TRUE
Cut == Word(1).length > 1 /\ Char(Word(1).end - 2) = "."
Meaning(f) ==
  CASE f = "label"  -> IF Labelled0 THEN WordFrom(0) ELSE None
    [] f = "opcode" -> IF Cut THEN Piece(Word(1).start, Word(1).end - 2) ELSE Word(1)
    [] f = "width"  -> IF Cut THEN Piece(Word(1).end - 1, Word(1).end) ELSE None
    [] f = "arg1"   -> Word(2)
    [] f = "arg2"   -> Word(3)
    [] f = "arg3"   -> Word(4)

(* A dot and a width where the opcode should be. *)
Nameless == Cut /\ Word(1).length = 2

(* A line shorter than Wrap is split as it reads, whatever its words, its  *)
(* indent and its comment, and parse ends.  Three things are not promised: *)
(* with a label there is no third argument, a comment is taken as the      *)
(* fifth segment at the latest, and where the opcode has no name the next  *)
(* word is taken for it.                                                   *)
SplitRight ==
  Len(buffer) < Wrap =>
    /\ segment # Endless
    /\ segment = AllSplit /\ ~Nameless =>
         /\ \A f \in {"label", "opcode", "width", "arg1", "arg2"} : offsets[f] = Meaning(f)
         /\ ~Labelled0 => offsets.arg3 = Meaning("arg3")
         /\ CommentStarts # {} /\ Cardinality(CodeStarts) < 5 =>
              offsets.comment = Piece(Min(CommentStarts), Len(buffer))

---------------------------------------------------------------------------
LineSpec == (\E line \in Seq(Chars) : LineStart(line)) /\ [][LineNext]_lineVars
=============================================================================
