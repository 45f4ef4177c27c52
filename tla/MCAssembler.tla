---------------------------- MODULE MCAssembler ----------------------------
(* Three labels, one of them a prefix of another. *)
EXTENDS Assembler

MCNames == {"loop", "looper", "end"}
MCLonger == [n \in MCNames |-> IF n = "loop" THEN {"looper"} ELSE {}]
=============================================================================
