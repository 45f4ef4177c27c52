----------------------------- MODULE CallStack -----------------------------
(***************************************************************************)
(* What the A7 stack promises a program: calls and returns nest, and what  *)
(* is pushed is what is popped.  A program that pops an empty stack, or    *)
(* pushes more than the stack's room, is promised nothing any more.        *)
(***************************************************************************)
EXTENDS Integers, Sequences, SequencesExt

CONSTANTS
  Size,     \* addresses are 0 .. Size - 1
  Room,     \* words the stack has room for
  Lengths   \* lengths of an instruction

VARIABLES
  pc,     \* address of the next instruction
  d,      \* the data register that is pushed and popped
  stack,  \* return addresses and saved values, the latest last
  sound,  \* the program kept within the stack
  did     \* what the last step was

vars == <<pc, d, stack, sound, did>>

Init ==
  /\ pc = 0
  /\ stack = <<>>
  /\ sound = TRUE
  /\ did = "other"
  /\ d \in Nat

Past(n) == (pc + n) % Size

(* A call leaves the address of the instruction after it. *)
CallTo ==
  /\ did' = "call"
  /\ Len(stack) < Room
  /\ \E n \in Lengths : stack' = Append(stack, Past(n))
  /\ pc' \in 0 .. Size - 1
  /\ d' = d

(* A return goes where the latest call not yet returned from left off. *)
Return ==
  /\ did' = "ret"
  /\ stack # <<>>
  /\ pc' = Last(stack)
  /\ stack' = Front(stack)
  /\ d' = d

PushData ==
  /\ did' = "push"
  /\ Len(stack) < Room
  /\ \E n \in Lengths : pc' = Past(n)
  /\ stack' = Append(stack, d % Size)
  /\ d' = d

PopData ==
  /\ did' = "pop"
  /\ stack # <<>>
  /\ \E n \in Lengths : pc' = Past(n)
  /\ d' = Last(stack)
  /\ stack' = Front(stack)

(* A system routine takes its argument off the stack. *)
Drop ==
  /\ did' = "drop"
  /\ stack # <<>>
  /\ \E n \in Lengths : pc' = Past(n)
  /\ stack' = Front(stack)
  /\ d' = d

Other ==
  /\ did' = "other"
  /\ stack' = stack

Underflow ==
  /\ stack = <<>>
  /\ did' \in {"ret", "pop", "drop"}
  /\ sound' = FALSE

Overflow ==
  /\ Len(stack) = Room
  /\ did' \in {"call", "push"}
  /\ sound' = FALSE

Next ==
  \/ /\ sound /\ sound'
     /\ CallTo \/ Return \/ PushData \/ PopData \/ Drop \/ Other
  \/ sound /\ (Underflow \/ Overflow)
  \/ ~sound

Spec == Init /\ [][Next]_vars

=============================================================================
