----------------------------- MODULE MCLockfile -----------------------------
(* Instances of Lockfile for TLC.  Every pid runs the program once, so three *)
(* pids are a daemon that dies and leaves its lockfile, and two invocations  *)
(* that find it; where the state space allows, a fourth comes in between.    *)
EXTENDS Lockfile, TLC

CONSTANTS p1, p2, p3, p4

ThreePids == {p1, p2, p3}
FourPids == {p1, p2, p3, p4}

\* Every invocation uses the same configuration.
SamePort == [p \in Proc |-> 3000]

\* A port each: -p or another configuration file.
OwnPorts == [p \in Proc |-> p]

\* One user runs them all; or two of them, a third one root, and the fourth one
\* somebody else.
OneUser == [p \in Proc |-> "user"]
ManyUsers ==
  [p \in Proc |-> CASE p \in {p1, p2} -> "user" [] p = p3 -> Root [] OTHER -> "other"]

NoFaults == {}
CrashOnly == {"crash"}

\* The pids of one user are alike.
Pids == Permutations({p1, p2})
=============================================================================
