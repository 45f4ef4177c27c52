--------------------------- MODULE MCPmallocOdd ---------------------------
(* What PmallocOrderly rules out: an area and a request that are not        *)
(* multiples of the header, and memory that was not cleared before it is    *)
(* added or after it is freed.                                              *)
EXTENDS Pmalloc

OddArea == {[base |-> 0, size |-> 5]}
OneArea == {[base |-> 0, size |-> 14]}

NoJunk == {NULL}
Junk == {NULL, 77}
=============================================================================
