------------------------------ MODULE MCTools ------------------------------
(* The abstract heap, the containers, the line splitter, the operand texts *)
(* and the disassembler.  They run apart, so a behaviour is one of one of  *)
(* them.                                                                   *)
EXTENDS Heap, Dll, Btree, Stree, Disassembler, LineSplit, OperandText

VARIABLE part

toolsVars == <<part, vars, dllVars, treeVars, namesVars, dasmVars, lineVars, textVars>>

(* Two areas that do not touch, with headers of two cells.  The first is   *)
(* split into up to four blocks, so a block can be freed with a free       *)
(* neighbour on either side, on both and on none.                          *)
HeapAreas == {[base |-> 0, size |-> 13], [base |-> 15, size |-> 6]}

(* Siblings to the left and right of the root and far enough from it to be *)
(* moved, words that begin others, and one that begins with the root.      *)
StoredWords == {<<1>>, <<2>>, <<3>>, <<4>>, <<4, 3>>, <<4, 4>>, <<4, 5>>, <<2, 2, 1>>}

(* Every statement an author can write, of every width, before a stop, and *)
(* every program of three over the kinds of operands that the passes read  *)
(* alike.  ext is in the tables, and assemble has no case for it.          *)
Statement(op, w, target) == [op |-> op, w |-> w, target |-> target]
Targets(op) == IF op \in Branches \cup {"refer", "jmp"} THEN 1 .. 3 ELSE {1}
Singles ==
  UNION {{<<Statement(op, w, target), Statement("stop", 0, 1)>> : w \in 0 .. 3, target \in Targets(op)}
         : op \in Tabled \ {"ext"}}
Core == {Statement(op, 1, 1) : op \in {"pop", "divi"}}
          \cup {Statement("load", 0, 1), Statement("bra", 0, 1), Statement("bra", 0, 4)}
          \cup {Statement("refer", 0, t) : t \in 2 .. 4}
Programs == Singles \cup [1 .. 3 -> Core]

(* A label or an indent, up to five words, a comment among them; and lines *)
(* of one word as long as Wrap and longer.                                 *)
LineWords == {<<"x">>, <<"x", ".", "x">>, <<".", "x">>, <<"/", "/", "x">>, <<"/">>}
RECURSIVE Indented(_)
Indented(n) ==
  IF n = 0 THEN {<<>>}
  ELSE Indented(n - 1) \cup {l \o <<" ">> \o w : l \in Indented(n - 1), w \in LineWords}
Lines ==
  Indented(5) \cup {Tail(l) : l \in Indented(5) \ {<<>>}} \cup {l \o <<" ">> : l \in Indented(2)}
    \cup {[i \in 1 .. n |-> "x"] : n \in Wrap - 2 .. Wrap + 2}

(* Every width, register byte, mask and integer as the file may have them. *)
TextStart ==
  /\ text = <<>> /\ told = "value"
  /\ \/ form = "width" /\ value \in 0 .. 3
     \/ form = "register" /\ value \in 0 .. 63
     \/ form = "mask" /\ value \in SUBSET Bits
     \/ form = "integer" /\ value \in 0 .. 2 ^ WordBits - 1
  /\ meant = value

(* Lists of two items as typed. *)
Item == [letter : {"d", "A"}, from : 0 .. Bank - 1, to : 0 .. Bank - 1]
ItemText(i) ==
  <<i.letter, Figure(i.from)>>
    \o (IF i.from = i.to THEN <<>> ELSE <<"-", i.letter, Figure(i.to)>>)
ItemMeans(i) == {Small(i.letter)} \X ((i.from .. i.to) \cup (i.to .. i.from))

MaskTyped ==
  /\ form = "mask" /\ told = "text" /\ value = {}
  /\ \E i, j \in Item, between \in {",", "/"} :
       /\ text = ItemText(i) \o <<between>> \o ItemText(j)
       /\ meant = ItemMeans(i) \cup ItemMeans(j)

(* Integers in every notation; one with a sign or no notation at all has   *)
(* half the range, and a character is a small one, for get_segment makes   *)
(* it one.                                                                 *)
Capital(t) == [i \in DOMAIN t |-> IF \E k \in DOMAIN Smalls : Smalls[k] = t[i]
                                  THEN Capitals[IndexIn(Smalls, t[i])] ELSE t[i]]
Notations(n) ==
  {<<"#", "0", b[1]>> \o Numeral(b[2], n) : b \in {<<"x", 16>>, <<"b", 2>>, <<"d", 10>>}}
    \cup {<<"#", "0">> \o Numeral(10, n)}
    \cup (IF n < 2 ^ (WordBits - 1) THEN {<<"#">> \o Numeral(10, n)}
          ELSE {<<"#", "-">> \o Numeral(10, 2 ^ WordBits - n)})
    \cup {<<"#", "'", c, "'">> : c \in {d \in {"a", "x", "/"} : Ascii[d] = n}}
    \cup {<<"#", "'", "\\", e, "'">> : e \in {d \in DOMAIN Escaped : Escaped[d] = n}}
    \cup (IF n = 92 THEN {<<"#", "'", "\\", "\\", "'">>} ELSE {})

IntegerTyped ==
  /\ form = "integer" /\ told = "text" /\ value = 0
  /\ \E n \in 0 .. 2 ^ WordBits - 1 :
       /\ meant = n
       /\ text \in Notations(n) \cup
            {Capital(t) : t \in {u \in Notations(n) : u[2] = "0"}}

(* Data lines of up to three items, with the numbers each stands for.  0d  *)
(* and what follows must be small: nothing lowers it, and 0D is not known. *)
DataItems ==
  {<< <<"5">>, <<5>> >>, << <<"0", "X", "A", "5">>, <<165>> >>, << <<"0", "d", "1", "0">>, <<10>> >>,
   << <<"-", "1">>, <<2 ^ WordBits - 1>> >>, << <<"'", "A", "'">>, <<65>> >>,
   << <<"\"", "a", " ", "A", "/", "\"">>, <<97, 32, 65, 47>> >>,
   << <<"\"", "\\", "n", "\\", "\"", "x", "\"">>, <<10, 34, 120>> >>, << <<"\"", "\"">>, <<>> >>}

DataTyped ==
  /\ form = "data" /\ told = "text" /\ value = <<>>
  /\ \E i, j, k \in DataItems :
       /\ text = i[1] \o <<" ">> \o j[1] \o <<" ">> \o k[1]
       /\ meant = i[2] \o j[2] \o k[2]

ToolsInit ==
  /\ part \in {"heap", "list", "tree", "names", "disassembler", "line", "operand"}
  /\ Init /\ DllInit /\ TreeInit /\ NamesInit
  /\ IF part = "disassembler" THEN \E p \in Programs : DasmStart(p) ELSE DasmStart(<<>>)
  /\ IF part = "line" THEN \E l \in Lines : LineStart(l) ELSE LineStart(<<>>)
  /\ IF part = "operand" THEN TextStart \/ MaskTyped \/ IntegerTyped \/ DataTyped
     ELSE form = "register" /\ told = "value" /\ text = <<>> /\ value = 0 /\ meant = 0

ToolsNext ==
  /\ UNCHANGED part
  /\ \/ part = "heap" /\ Next
        /\ UNCHANGED <<dllVars, treeVars, namesVars, dasmVars, lineVars, textVars>>
     \/ part = "list" /\ DllNext
        /\ UNCHANGED <<vars, treeVars, namesVars, dasmVars, lineVars, textVars>>
     \/ part = "tree" /\ TreeNext
        /\ UNCHANGED <<vars, dllVars, namesVars, dasmVars, lineVars, textVars>>
     \/ part = "names" /\ NamesNext
        /\ UNCHANGED <<vars, dllVars, treeVars, dasmVars, lineVars, textVars>>
     \/ part = "disassembler" /\ DasmNext
        /\ UNCHANGED <<vars, dllVars, treeVars, namesVars, lineVars, textVars>>
     \/ part = "line" /\ LineNext
        /\ UNCHANGED <<vars, dllVars, treeVars, namesVars, dasmVars, textVars>>
     \/ part = "operand" /\ TextNext
        /\ UNCHANGED <<vars, dllVars, treeVars, namesVars, dasmVars, lineVars>>

ToolsSpec == ToolsInit /\ [][ToolsNext]_toolsVars
=============================================================================
