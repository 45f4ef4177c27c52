---------------------------- MODULE OperandText ----------------------------
(***************************************************************************)
(* Widths, registers, sets of registers and integers as the text of a      *)
(* source line and as the operand in the file: parser.c reads the text,    *)
(* printer.c writes it.  And what write_data of mhasm.c reads of the rest  *)
(* of a data line, which nothing prints.  A text is a sequence of          *)
(* characters; a register byte is a number, the 16 bits of a mask the set  *)
(* of registers they stand for, and data the sequence of its numbers.      *)
(***************************************************************************)
EXTENDS Integers, Sequences, TLC

CONSTANTS
  Bank,      \* registers of a letter: 8 in the code
  WordBits   \* bits of an integer: 64 in the code

ASSUME OperandTextAssumption == Bank \in 1 .. 8 /\ WordBits \in Nat /\ WordBits >= 8

VARIABLES
  form,    \* "width", "register", "mask", "integer" or "data"
  told,    \* the operand as "text" or as "value"
  text, value,
  meant    \* what the operand stood for at first

textVars == <<form, told, text, value, meant>>

Digits == <<"0", "1", "2", "3", "4", "5", "6", "7", "8", "9", "a", "b", "c", "d", "e", "f">>
Capitals == <<"A", "B", "C", "D", "E", "F", "X">>
Smalls == <<"a", "b", "c", "d", "e", "f", "x">>
Figure(n) == Digits[n + 1]
IsFigure(c) == \E n \in 0 .. Bank - 1 : Digits[n + 1] = c
IndexIn(s, c) == CHOOSE i \in DOMAIN s : s[i] = c
NumberOf(c) == IndexIn(Digits, c) - 1

(* get_segment, which cuts a word out of the line. *)
Small(c) == IF \E i \in DOMAIN Capitals : Capitals[i] = c THEN Smalls[IndexIn(Capitals, c)] ELSE c
Lowered(t) == [i \in DOMAIN t |-> Small(t[i])]

---------------------------------------------------------------------------
(* print_width and parse_width: 255 is WIDTH_UNKNOWN. *)
WidthLetters == <<"b", "w", "l", "x">>
PrintWidth(w) == <<WidthLetters[w + 1]>>
ParseWidth(t) ==
  IF \E i \in DOMAIN WidthLetters : WidthLetters[i] = t[1] THEN IndexIn(WidthLetters, t[1]) - 1 ELSE 255

---------------------------------------------------------------------------
(* A register byte is 0mmmannn: mode, bank and number. *)

(* print_register *)
PrintRegister(byte) ==
  LET mode == (byte \div 16) % 8
      name == <<IF (byte \div 8) % 2 = 1 THEN "a" ELSE "d", Figure(byte % 8)>>
  IN  CASE mode = 1 -> <<"(">> \o name \o <<")">>
        [] mode = 2 -> <<"-", "(">> \o name \o <<")">>
        [] mode = 3 -> <<"(">> \o name \o <<")", "+">>
        [] OTHER -> name

(* parse_register *)
ParseRegister(t) ==
  LET Named(i) == t[i] \in {"d", "a"}
      Byte(mode, i) == 16 * mode + (IF t[i] = "a" THEN 8 ELSE 0) + NumberOf(t[i + 1])
  IN  CASE Len(t) = 2 /\ Named(1) -> Byte(0, 1)
        [] Len(t) = 4 /\ t[1] = "(" /\ t[4] = ")" /\ Named(2) -> Byte(1, 2)
        [] Len(t) = 5 /\ t[1] = "-" /\ t[2] = "(" /\ t[5] = ")" /\ Named(3) -> Byte(2, 3)
        [] Len(t) = 5 /\ t[1] = "(" /\ t[4] = ")" /\ t[5] = "+" /\ Named(2) -> Byte(3, 2)
        [] OTHER -> 255

---------------------------------------------------------------------------
(* A register of a mask. *)
Bits == {"d", "a"} \X (0 .. Bank - 1)

(* Mutant: the run that reaches the last register is not closed. *)
RECURSIVE PrintRunsOpen(_, _, _, _, _)
PrintRunsOpen(mask, letter, i, run, first) ==
  LET close == IF run > 1 THEN <<"-", letter, Figure(i - 1)>> ELSE <<>>
      open == (IF first THEN <<>> ELSE <<",">>) \o <<letter, Figure(i)>>
  IN  IF i = Bank THEN <<>>
      ELSE IF <<letter, i>> \in mask
           THEN (IF run = 0 THEN open ELSE <<>>) \o PrintRunsOpen(mask, letter, i + 1, run + 1, FALSE)
      ELSE close \o PrintRunsOpen(mask, letter, i + 1, 0, first)

(* The loops of print_register_bitmask over one bank: from number i on,    *)
(* with the run that reaches up to i.                                      *)
RECURSIVE PrintRuns(_, _, _, _, _)
PrintRuns(mask, letter, i, run, first) ==
  LET close == IF run > 1 THEN <<"-", letter, Figure(i - 1)>> ELSE <<>>
      open == (IF first THEN <<>> ELSE <<",">>) \o <<letter, Figure(i)>>
  IN  IF i = Bank THEN close
      ELSE IF <<letter, i>> \in mask
           THEN (IF run = 0 THEN open ELSE <<>>) \o PrintRuns(mask, letter, i + 1, run + 1, FALSE)
      ELSE close \o PrintRuns(mask, letter, i + 1, 0, first)

(* print_register_bitmask *)
PrintMask(mask) ==
  LET d == PrintRuns(mask, "d", 0, 0, TRUE)
      a == PrintRuns(mask, "a", 0, 0, TRUE)
  IN  d \o (IF d # <<>> /\ a # <<>> THEN <<"/">> ELSE <<>>) \o a

(* What parse_register_bitmask returns for a text it cannot read, 0xFF in  *)
(* most cases, is a mask too.                                              *)
AllOf(letters) == {b \in Bits : b[1] \in letters}

(* The loop of parse_register_bitmask: what is left of the text, the last  *)
(* register read, none after a range, and the mask so far.  A range may be *)
(* typed downwards.                                                        *)
RECURSIVE MaskOf(_, _, _)
MaskOf(t, last, mask) ==
  IF t = <<>> THEN mask
  ELSE LET c == t[1]
           rest == SubSeq(t, 3, Len(t))
       IN  CASE c \in {"d", "a"} ->
                  IF Len(t) < 2 \/ ~IsFigure(t[2]) THEN AllOf({"d"})
                  ELSE LET b == <<c, NumberOf(t[2])>> IN MaskOf(rest, {b}, mask \cup {b})
             [] c = "-" ->
                  IF last = {} \/ Len(t) < 3 \/ ~IsFigure(t[3]) THEN AllOf({"d"})
                  ELSE LET b == CHOOSE r \in last : TRUE
                           ends == {b[2], NumberOf(t[3])}
                       IN  IF t[2] # b[1] THEN AllOf({"d"})
                           ELSE MaskOf(Tail(rest), {}, mask \cup
                                  {r \in Bits : r[1] = b[1] /\ \E x, y \in ends : x <= r[2] /\ r[2] <= y})
             [] c \in {",", "/"} -> MaskOf(Tail(t), last, mask)
             [] OTHER -> AllOf({"d", "a"})

ParseMask(t) == MaskOf(t, {}, {})

---------------------------------------------------------------------------
RECURSIVE Numeral(_, _)
Numeral(base, n) ==
  IF n < base THEN <<Figure(n)>> ELSE Append(Numeral(base, n \div base), Figure(n % base))

(* print_immediate_value *)
PrintInteger(v) == <<"#", "0", "x">> \o Numeral(16, v)

(* The C library reads as many digits as there are, sum being what came    *)
(* before them.                                                            *)
RECURSIVE Leading(_, _, _)
Leading(base, t, sum) ==
  IF t # <<>> /\ \E n \in 0 .. base - 1 : Figure(n) = Small(t[1])
  THEN Leading(base, Tail(t), base * sum + NumberOf(Small(t[1])))
  ELSE sum

Least(x, y) == IF x < y THEN x ELSE y

(* strtoul and strtol, which answer with their limit beyond it.  Blanks, a *)
(* plus or a prefix 0x before the digits, which they also pass over, stand *)
(* in no text of the runs.                                                 *)
Unsigned(base, t) == Least(Leading(base, t, 0), 2 ^ WordBits - 1)
Signed(t) ==
  IF t # <<>> /\ t[1] = "-"
  THEN (-Least(Leading(10, Tail(t), 0), 2 ^ (WordBits - 1))) % 2 ^ WordBits
  ELSE Least(Leading(10, t, 0), 2 ^ (WordBits - 1) - 1)

Ascii == "nul" :> 0 @@ "a" :> 97 @@ "A" :> 65 @@ "x" :> 120 @@ "/" :> 47 @@ " " :> 32
Escaped == "r" :> 13 @@ "n" :> 10 @@ "t" :> 9

(* parse_immediate_value.  For a text it cannot read it returns 32 bits    *)
(* set, and 8 for an escape it does not know.                              *)
ParseInteger(t) ==
  LET From(i) == SubSeq(t, i, Len(t))
      At(i) == IF i > Len(t) THEN "nul" ELSE t[i]
      third == At(3)
  IN  IF Len(t) < 2 \/ t[1] # "#" THEN 2 ^ (WordBits \div 2) - 1
      ELSE
      CASE At(2) = "0" ->
             (CASE third \in {"x", "X"} -> Unsigned(16, From(4))
                [] third \in {"b", "B"} -> Unsigned(2, From(4))
                [] third = "d" -> Unsigned(10, From(4))
                [] OTHER -> Unsigned(10, From(2)))
        [] At(2) = "'" ->
             IF third # "\\" THEN Ascii[third]
             ELSE IF At(4) \in DOMAIN Escaped THEN Escaped[At(4)]
             ELSE IF At(4) = "\\" THEN 92 ELSE 255
        [] OTHER -> Signed(From(2))

(* write_data: what is written of the rest of the line, in a mode, with    *)
(* the number that was begun.                                              *)
RECURSIVE Data(_, _, _)
Data(t, mode, number) ==
  IF t = <<>> THEN IF mode = "number" THEN <<ParseInteger(number)>> ELSE <<>>
  ELSE LET c == Head(t)
           On(m, n) == Data(Tail(t), m, n)
       IN  CASE mode = "between" /\ c = " " -> On("between", <<>>)
             [] mode = "between" /\ c = "\"" -> On("string", <<>>)
             [] mode = "between" /\ c \notin {" ", "\""} -> On("number", <<"#", c>>)
             [] mode = "string" /\ c = "\\" -> On("escape", <<>>)
             [] mode = "string" /\ c = "\"" -> On("between", <<>>)
             [] mode = "string" /\ c \notin {"\\", "\""} -> <<Ascii[c]>> \o On("string", <<>>)
             [] mode = "escape" ->
                  (IF c \in DOMAIN Escaped THEN <<Escaped[c]>>
                   ELSE IF c = "\"" THEN <<34>> ELSE <<>>) \o On("string", <<>>)
             [] mode = "number" /\ c = " " -> <<ParseInteger(number)>> \o On("between", <<>>)
             [] mode = "number" /\ c # " " -> On("number", Append(number, c))

---------------------------------------------------------------------------
(* The assembler reads an operand, the disassembler prints it, and so on.  *)
TextParse ==
  /\ told = "text"
  /\ value' = CASE form = "width" -> ParseWidth(Lowered(text))
                [] form = "register" -> ParseRegister(Lowered(text))
                [] form = "mask" -> ParseMask(Lowered(text))
                [] form = "integer" -> ParseInteger(Lowered(text))
                [] form = "data" -> Data(text, "between", <<>>)
  /\ told' = "value"
  /\ UNCHANGED <<form, text, meant>>

TextPrint ==
  /\ told = "value" /\ form # "data"
  /\ text' = CASE form = "width" -> PrintWidth(value)
               [] form = "register" -> PrintRegister(value)
               [] form = "mask" -> PrintMask(value)
               [] form = "integer" -> PrintInteger(value)
  /\ told' = "text"
  /\ UNCHANGED <<form, value, meant>>

TextNext == TextParse \/ TextPrint

(* An operand keeps its meaning: every width, every register in its four   *)
(* modes, every set of registers, every integer, and every list of         *)
(* registers and ranges an author may type, upwards or downwards,          *)
(* overlapping or not, capital or small, and every integer in each         *)
(* notation, is the same operand after the assembler has read it, and      *)
(* after any number of listings and assemblies; and the numbers and        *)
(* strings of a data line are written as they stand there.                 *)
TextReturns == told = "value" => value = meant
=============================================================================
