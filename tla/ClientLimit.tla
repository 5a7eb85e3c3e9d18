---------------------------- MODULE ClientLimit ----------------------------
(* What the server promises about its clients: each one is served by a      *)
(* process of its own, and no more than Max of them hold a slot at a time.  *)
(* It says nothing of counters, signals or descriptors; ChildPool shows how *)
(* the daemon implements it.                                                *)
EXTENDS Naturals, FiniteSets

CONSTANTS Client, Max

VARIABLE active     \* the clients that hold a slot

Init == active = {}

\* A slot is given out only while one is free.
Admit(c) ==
  /\ c \notin active
  /\ Cardinality(active) < Max
  /\ active' = active \union {c}

\* A slot is given back, one client at a time.
Release(c) ==
  /\ c \in active
  /\ active' = active \ {c}

Next == \E c \in Client : Admit(c) \/ Release(c)

Spec == Init /\ [][Next]_active
=============================================================================
