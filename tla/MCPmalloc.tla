----------------------------- MODULE MCPmalloc -----------------------------
(* Headers of two bytes, two areas with a gap between them, and requests    *)
(* of which some do not divide the areas: a split that would leave less     *)
(* than a header is not taken, every other is.                              *)
EXTENDS PmallocOrderly

TwoAreas == {[base |-> 0, size |-> 13], [base |-> 15, size |-> 4]}

Junk == {NULL, 77}
=============================================================================
