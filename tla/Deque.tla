------------------------------- MODULE Deque -------------------------------
(***************************************************************************)
(* What the list of dll.c promises its callers: a sequence of values with  *)
(* two ends, and a walk over them from the first to the last that its      *)
(* callback may stop.  A walk in the other direction is promised to visit  *)
(* members of the list, in no order and no number.                         *)
(***************************************************************************)
EXTENDS Integers, Sequences

CONSTANTS Values, Nothing

VARIABLES
  contents,   \* the values, first to last
  place,      \* where the walk under way is, 0 when there is none
  onward,     \* the direction of the last walk
  given,      \* what the last call returned, or the callback was given
  freed       \* the list was given up

vars == <<contents, place, onward, given, freed>>

Init == contents = <<>> /\ place = 0 /\ onward = TRUE /\ given = Nothing /\ freed = FALSE

Idle == place = 0 /\ ~freed

Push(v) ==
  /\ Idle
  /\ contents' = Append(contents, v)
  /\ given' = Nothing
  /\ UNCHANGED <<place, onward, freed>>

Unshift(v) ==
  /\ Idle
  /\ contents' = <<v>> \o contents
  /\ given' = Nothing
  /\ UNCHANGED <<place, onward, freed>>

Pop ==
  /\ Idle
  /\ IF contents = <<>>
     THEN given' = Nothing /\ UNCHANGED contents
     ELSE /\ given' = contents[Len(contents)]
          /\ contents' = SubSeq(contents, 1, Len(contents) - 1)
  /\ UNCHANGED <<place, onward, freed>>

Shift ==
  /\ Idle
  /\ IF contents = <<>>
     THEN given' = Nothing /\ UNCHANGED contents
     ELSE given' = contents[1] /\ contents' = Tail(contents)
  /\ UNCHANGED <<place, onward, freed>>

Iterate(d) ==
  /\ Idle
  /\ onward' = d
  /\ place' \in IF d THEN {IF contents = <<>> THEN 0 ELSE 1} ELSE 0 .. Len(contents)
  /\ given' = Nothing
  /\ UNCHANGED <<contents, freed>>

(* The callback is given the value at place; the walk goes on or stops. *)
Visit ==
  /\ place # 0
  /\ given' = contents[place]
  /\ \/ place' = 0
     \/ place' \in IF onward
                   THEN {IF place = Len(contents) THEN 0 ELSE place + 1}
                   ELSE 0 .. Len(contents)
  /\ UNCHANGED <<contents, onward, freed>>

Free ==
  /\ Idle
  /\ contents' = <<>>
  /\ freed' = TRUE
  /\ given' = Nothing
  /\ UNCHANGED <<place, onward>>

Next ==
  \/ \E v \in Values : Push(v) \/ Unshift(v)
  \/ Pop \/ Shift
  \/ \E d \in BOOLEAN : Iterate(d)
  \/ Visit
  \/ Free

Spec == Init /\ [][Next]_vars
=============================================================================
