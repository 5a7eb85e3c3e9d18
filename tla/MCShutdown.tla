----------------------------- MODULE MCShutdown -----------------------------
(* Instances of Shutdown for TLC: a master and two children, so that one is *)
(* in the fork window while another serves, and up to two stop signals from *)
(* outside, so that a handler may be interrupted by another run of itself.  *)
EXTENDS Shutdown

CONSTANTS c1, c2

OneChild == {c1}
TwoChildren == {c1, c2}
=============================================================================
