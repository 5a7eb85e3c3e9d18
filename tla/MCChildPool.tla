---------------------------- MODULE MCChildPool ----------------------------
(* Instances of ChildPool for TLC: one pid more than there are slots, so    *)
(* that a client too many could be served, and two accept() errors, one of  *)
(* the list filtered_accept ignores and one that it does not.               *)
EXTENDS ChildPool

CONSTANTS c1, c2, c3, c4

ThreePids == {c1, c2, c3}
FourPids == {c1, c2, c3, c4}
TwoErrors == {"ECONNRESET", "EMFILE"}
=============================================================================
