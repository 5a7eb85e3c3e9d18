-------------------------- MODULE ChildPool_proofs --------------------------
(* Proofs about ChildPool for every set of pids, every limit and every set  *)
(* of accept() errors.                                                      *)
EXTENDS ChildPool, FiniteSetTheorems, TLAPS

(* The inductive invariant.                                                 *)

\* A slot the loop has counted and not yet given to a child.
InFlight == IF pc \in {"fork", "decr", "decr_store"} THEN 1 ELSE 0

\* The counter may exceed the number of children, it never falls below it.
CountCovers == child_count >= Cardinality(Unreaped) + InFlight

\* What the loop is about to store is no less than what the handler left in
\* the counter meanwhile, and no more than the limit.
RegCovers ==
  /\ pc = "incr" => child_count < maxchild
  /\ pc = "incr_store" => reg < maxchild /\ reg >= child_count
  /\ pc = "decr_store" => reg >= child_count

\* A signal, pending or being handled, stands for a zombie of its own, as
\* long as no child has been stopped; and only a stop can make wait3() find
\* nobody.
SignalsCovered ==
  /\ ~suspended => Stopped = {}
  /\ ~suspended /\ (sigchld \/ handler = "wait3") => Zombies # {}
  /\ ~suspended /\ sigchld /\ handler = "wait3"
       => \E a, b \in Zombies : a # b

\* With nobody left to die the counter is below the limit, stopped children
\* or not: the signal of the stop has either reaped somebody or panicked.
NeverStuckFull ==
  /\ Running = {} /\ ~sigchld /\ handler = "idle" /\ InFlight = 0
  /\ pc # "panic"
  => maxchild = 0 \/ child_count < maxchild

IInv == TypeOK /\ CountCovers /\ RegCovers /\ SignalsCovered /\ NeverStuckFull
-----------------------------------------------------------------------------
(* Facts about the process table.                                           *)

\* The three classes of pids are finite.
LEMMA TableFinite ==
  /\ IsFiniteSet(Unreaped)
  /\ Cardinality(Unreaped) \in Nat
  /\ Zombies # {} => Cardinality(Unreaped) >= 1
<1>1. IsFiniteSet(Unreaped)
  <2>1. Unreaped \subseteq Child
    BY DEF Unreaped, Running, Stopped, Zombies
  <2> QED
    BY <2>1, ChildAssumption, FS_Subset
<1>2. Cardinality(Unreaped) \in Nat
  BY <1>1, FS_CardinalityType
<1>3. ASSUME Zombies # {} PROVE Cardinality(Unreaped) >= 1
  <2>1. Unreaped # {}
    BY <1>3 DEF Unreaped
  <2>2. Cardinality(Unreaped) # 0
    BY <2>1, <1>1, FS_EmptySet
  <2> QED
    BY <2>2, <1>2
<1> QED
  BY <1>1, <1>2, <1>3

\* A fork adds one process to the table.
LEMMA ForkAddsOne ==
  ASSUME TypeOK, NEW c \in Child, child[c] = "free",
         child' = [child EXCEPT ![c] = "running"]
  PROVE  Cardinality(Unreaped') = Cardinality(Unreaped) + 1
<1>1. Unreaped' = Unreaped \union {c} /\ c \notin Unreaped
  BY DEF TypeOK, Unreaped, Running, Stopped, Zombies
<1> QED
  BY <1>1, TableFinite, FS_AddElement

\* A death moves a process to the zombies, from the running or the stopped.
LEMMA ExitKeepsTable ==
  ASSUME TypeOK, NEW c \in Child, child[c] \in {"running", "stopped"},
         child' = [child EXCEPT ![c] = "zombie"]
  PROVE  /\ Unreaped' = Unreaped
         /\ Zombies' = Zombies \union {c}
         /\ c \notin Zombies
         /\ Stopped' = Stopped \ {c}
BY DEF TypeOK, Unreaped, Running, Stopped, Zombies

\* A stop or a continue moves a process between the running and the stopped.
LEMMA SuspendKeepsTable ==
  ASSUME TypeOK, NEW c \in Child, ChildStops(c) \/ ChildContinues(c)
  PROVE  /\ Unreaped' = Unreaped
         /\ Zombies' = Zombies
         /\ (Running \union Stopped)' = Running \union Stopped
BY DEF TypeOK, ChildStops, ChildContinues, Suspend, Unreaped, Running, Stopped,
   Zombies

\* wait3() takes one zombie out of the table.
LEMMA ReapRemovesOne ==
  ASSUME TypeOK, NEW c \in Child, child[c] = "zombie",
         child' = [child EXCEPT ![c] = "free"]
  PROVE  /\ Cardinality(Unreaped') = Cardinality(Unreaped) - 1
         /\ Unreaped' = Unreaped \ {c}
         /\ Zombies' = Zombies \ {c}
         /\ Running' = Running
         /\ Stopped' = Stopped
<1>1. /\ Unreaped' = Unreaped \ {c}
      /\ c \in Unreaped
      /\ Zombies' = Zombies \ {c}
      /\ Running' = Running
      /\ Stopped' = Stopped
  BY DEF TypeOK, Unreaped, Running, Stopped, Zombies
<1> QED
  BY <1>1, TableFinite, FS_RemoveElement
-----------------------------------------------------------------------------
(* The invariant is inductive: one lemma per action that moves the counter  *)
(* or the table, one for the rest of the loop.                              *)

\* The server starts with an empty table and a counter of 0.
LEMMA InitIInv == Init => IInv
<1> SUFFICES ASSUME Init PROVE IInv
  OBVIOUS
<1>1. Unreaped = {} /\ Zombies = {} /\ Stopped = {}
  BY DEF Init, Unreaped, Running, Stopped, Zombies
<1>2. Cardinality(Unreaped) = 0
  BY <1>1, FS_EmptySet
<1>3. TypeOK
  <2>1. 0 \in 0..maxchild
    BY MaxAssumption
  <2>2. [c \in Child |-> "free"]
          \in [Child -> {"free", "running", "stopped", "zombie"}]
    OBVIOUS
  <2> QED
    BY <2>1, <2>2 DEF Init, TypeOK, PC, Errno
<1>4. CountCovers /\ RegCovers /\ SignalsCovered
  BY <1>1, <1>2 DEF Init, CountCovers, InFlight, RegCovers, SignalsCovered
<1>5. NeverStuckFull
  BY MaxAssumption DEF Init, NeverStuckFull
<1> QED
  BY <1>3, <1>4, <1>5 DEF IInv

\* The steps of the loop that leave the process table alone.
LoopStep ==
  \/ AcceptConnection \/ (\E e \in AcceptErrors : AcceptFails(e))
  \/ AcceptInterrupted \/ SquashError \/ TestErrno
  \/ DupSocket \/ DupFails \/ CheckLimit
  \/ LoadForIncrement \/ StoreIncrement
  \/ ForkFails \/ LoadForDecrement \/ StoreDecrement
  \/ CloseConnection

\* Every step of the loop but the fork keeps the invariant: none of them
\* touches the table or the signal.
LEMMA LoopStepIInv == IInv /\ LoopStep => IInv'
<1> SUFFICES ASSUME IInv, LoopStep PROVE IInv'
  OBVIOUS
<1> USE MaxAssumption DEF At, Goto, kernel, errors, streams
<1>1. child' = child /\ sigchld' = sigchld /\ handler' = handler
      /\ suspended' = suspended /\ handler = "idle"
  BY DEF LoopStep, AcceptConnection, AcceptFails, AcceptInterrupted,
         SquashError, TestErrno, DupSocket, DupFails, CheckLimit,
         LoadForIncrement, StoreIncrement, ForkFails, LoadForDecrement,
         StoreDecrement, CloseConnection
<1>2. Unreaped' = Unreaped /\ Zombies' = Zombies /\ Running' = Running
      /\ Stopped' = Stopped
  BY <1>1 DEF Unreaped, Zombies, Stopped, Running
<1>3. Cardinality(Unreaped) \in Nat /\ Cardinality(Unreaped') = Cardinality(Unreaped)
  BY <1>2, TableFinite
<1>4. SignalsCovered'
  BY <1>1, <1>2 DEF IInv, SignalsCovered
<1>5. TypeOK /\ CountCovers /\ RegCovers /\ NeverStuckFull
  BY DEF IInv
<1>6. TypeOK' /\ CountCovers' /\ RegCovers' /\ NeverStuckFull'
  <2>1. CASE AcceptConnection
    BY <2>1, <1>1, <1>2, <1>3, <1>5 DEF AcceptConnection, TypeOK, PC, CountCovers,
       InFlight, RegCovers, NeverStuckFull
  <2>2. ASSUME NEW e \in AcceptErrors, AcceptFails(e)
        PROVE  TypeOK' /\ CountCovers' /\ RegCovers' /\ NeverStuckFull'
    BY <2>2, <1>1, <1>2, <1>3, <1>5 DEF AcceptFails, TypeOK, PC, Errno, CountCovers,
       InFlight, RegCovers, NeverStuckFull
  <2>3. CASE AcceptInterrupted
    BY <2>3, <1>1, <1>2, <1>3, <1>5 DEF AcceptInterrupted, TypeOK, PC, Errno,
       CountCovers, InFlight, RegCovers, NeverStuckFull
  <2>4. CASE SquashError
    BY <2>4, <1>1, <1>2, <1>3, <1>5 DEF SquashError, TypeOK, PC, Errno,
       CountCovers, InFlight, RegCovers, NeverStuckFull
  <2>5. CASE TestErrno
    BY <2>5, <1>1, <1>2, <1>3, <1>5 DEF TestErrno, TypeOK, PC,
       CountCovers, InFlight, RegCovers, NeverStuckFull
  <2>6. CASE DupSocket
    BY <2>6, <1>1, <1>2, <1>3, <1>5 DEF DupSocket, TypeOK, PC,
       CountCovers, InFlight, RegCovers, NeverStuckFull
  <2>7. CASE DupFails
    BY <2>7, <1>1, <1>2, <1>3, <1>5 DEF DupFails, TypeOK, PC,
       CountCovers, InFlight, RegCovers, NeverStuckFull
  <2>8. CASE CheckLimit
    BY <2>8, <1>1, <1>2, <1>3, <1>5 DEF CheckLimit, TypeOK, PC,
       CountCovers, InFlight, RegCovers, NeverStuckFull
  <2>9. CASE LoadForIncrement
    BY <2>9, <1>1, <1>2, <1>3, <1>5 DEF LoadForIncrement, TypeOK, PC,
       CountCovers, InFlight, RegCovers, NeverStuckFull
  <2>10. CASE StoreIncrement
    BY <2>10, <1>1, <1>2, <1>3, <1>5 DEF StoreIncrement, TypeOK, PC,
       CountCovers, InFlight, RegCovers, NeverStuckFull
  <2>11. CASE ForkFails
    BY <2>11, <1>1, <1>2, <1>3, <1>5 DEF ForkFails, TypeOK, PC,
       CountCovers, InFlight, RegCovers, NeverStuckFull
  <2>12. CASE LoadForDecrement
    BY <2>12, <1>1, <1>2, <1>3, <1>5 DEF LoadForDecrement, TypeOK, PC,
       CountCovers, InFlight, RegCovers, NeverStuckFull
  <2>13. CASE StoreDecrement
    BY <2>13, <1>1, <1>2, <1>3, <1>5 DEF StoreDecrement, TypeOK, PC,
       CountCovers, InFlight, RegCovers, NeverStuckFull
  <2>14. CASE CloseConnection
    BY <2>14, <1>1, <1>2, <1>3, <1>5 DEF CloseConnection, TypeOK, PC,
       CountCovers, InFlight, RegCovers, NeverStuckFull
  <2> QED
    BY <2>1, <2>2, <2>3, <2>4, <2>5, <2>6, <2>7, <2>8, <2>9, <2>10, <2>11,
       <2>12, <2>13, <2>14 DEF LoopStep
<1> QED
  BY <1>4, <1>6 DEF IInv

\* The fork: the slot in flight becomes the child's.
LEMMA ForkIInv == \A c \in Child : IInv /\ Fork(c) => IInv'
<1> SUFFICES ASSUME NEW c \in Child, IInv, Fork(c) PROVE IInv'
  OBVIOUS
<1> USE DEF At, Goto, errors, streams
<1>1. TypeOK'
  BY DEF IInv, Fork, TypeOK, PC
<1>2. CountCovers'
  <2>1. Cardinality(Unreaped') = Cardinality(Unreaped) + 1
    BY ForkAddsOne DEF IInv, Fork
  <2> QED
    BY <2>1, TableFinite DEF IInv, Fork, CountCovers, InFlight
<1>3. RegCovers'
  BY DEF Fork, RegCovers
<1>4. SignalsCovered'
  <2>1. Zombies' = Zombies /\ Stopped' = Stopped
    BY DEF IInv, TypeOK, Fork, Zombies, Stopped
  <2> QED
    BY <2>1 DEF IInv, Fork, SignalsCovered
<1>5. NeverStuckFull'
  <2>1. c \in Running'
    BY DEF IInv, TypeOK, Fork, Running
  <2> QED
    BY <2>1 DEF NeverStuckFull
<1> QED
  BY <1>1, <1>2, <1>3, <1>4, <1>5 DEF IInv

\* A death: one zombie more, and a signal for it if none was pending.
LEMMA ExitIInv == \A c \in Child : IInv /\ ChildExit(c) => IInv'
<1> SUFFICES ASSUME NEW c \in Child, IInv, ChildExit(c) PROVE IInv'
  OBVIOUS
<1> USE DEF errors, streams
<1>1. TypeOK'
  BY DEF IInv, ChildExit, TypeOK
<1>2. Unreaped' = Unreaped /\ Zombies' = Zombies \union {c} /\ c \notin Zombies
      /\ Stopped' = Stopped \ {c}
  BY ExitKeepsTable DEF IInv, ChildExit
<1>3. CountCovers' /\ RegCovers'
  BY <1>2 DEF IInv, ChildExit, CountCovers, InFlight, RegCovers
<1>4. SignalsCovered'
  BY <1>2 DEF IInv, ChildExit, SignalsCovered
<1>5. NeverStuckFull'
  BY DEF ChildExit, NeverStuckFull
<1> QED
  BY <1>1, <1>3, <1>4, <1>5 DEF IInv

\* A stop or a continue: a signal with no zombie to it, which suspended owns.
LEMMA SuspendIInv ==
  \A c \in Child : IInv /\ (ChildStops(c) \/ ChildContinues(c)) => IInv'
<1> SUFFICES ASSUME NEW c \in Child, IInv, ChildStops(c) \/ ChildContinues(c)
             PROVE  IInv'
  OBVIOUS
<1> USE DEF errors, streams
<1>1. TypeOK'
  BY DEF IInv, ChildStops, ChildContinues, Suspend, TypeOK
<1>2. Unreaped' = Unreaped
  BY SuspendKeepsTable DEF IInv
<1>3. CountCovers' /\ RegCovers'
  BY <1>2 DEF IInv, ChildStops, ChildContinues, Suspend, CountCovers, InFlight,
     RegCovers
<1>4. SignalsCovered' /\ NeverStuckFull'
  BY DEF ChildStops, ChildContinues, Suspend, SignalsCovered, NeverStuckFull
<1> QED
  BY <1>1, <1>3, <1>4 DEF IInv

\* Delivery: the pending signal becomes the one being handled.
LEMMA DeliverIInv == IInv /\ DeliverSigchld => IInv'
<1> SUFFICES ASSUME IInv, DeliverSigchld PROVE IInv'
  OBVIOUS
<1> USE DEF Goto, errors, streams
<1>1. TypeOK'
  BY DEF IInv, DeliverSigchld, TypeOK, PC
<1>2. Unreaped' = Unreaped /\ Zombies' = Zombies /\ Stopped' = Stopped
  BY DEF DeliverSigchld, Unreaped, Zombies, Stopped, Running
<1>3. CountCovers' /\ RegCovers'
  BY <1>2 DEF IInv, DeliverSigchld, CountCovers, InFlight, RegCovers
<1>4. SignalsCovered' /\ NeverStuckFull'
  BY <1>2 DEF IInv, DeliverSigchld, SignalsCovered, NeverStuckFull
<1> QED
  BY <1>1, <1>3, <1>4 DEF IInv

\* When the handler runs it finds a zombie, or a child was stopped; and a
\* zombie has its slot counted.
LEMMA ReaperReady == IInv => ReaperFindsChild
<1> SUFFICES ASSUME IInv, handler = "wait3"
             PROVE  /\ Zombies # {} \/ suspended
                    /\ Zombies # {} => child_count > 0
  BY DEF ReaperFindsChild
<1>1. Zombies # {} \/ suspended
  BY DEF IInv, TypeOK, SignalsCovered
<1>2. ASSUME Zombies # {} PROVE child_count > 0
  <2>1. Cardinality(Unreaped) >= 1 /\ Cardinality(Unreaped) \in Nat
    BY <1>2, TableFinite
  <2> QED
    BY <2>1, MaxAssumption DEF IInv, TypeOK, CountCovers, InFlight
<1> QED
  BY <1>1, <1>2

\* A reap: one zombie and one slot less, whatever the loop holds.
LEMMA ReapIInv ==
  \A c \in Child : IInv /\ handler = "wait3" /\ Reap(c) => IInv'
<1> SUFFICES ASSUME NEW c \in Child, IInv, handler = "wait3", Reap(c)
             PROVE  IInv'
  OBVIOUS
<1> USE DEF errors, streams
<1>1. c \in Zombies /\ child_count > 0
  BY ReaperReady DEF ReaperFindsChild, Reap, Zombies
<1>3. handler' = "idle"
  BY DEF Reap
<1>4. child_count \in 1..maxchild /\ child_count' = child_count - 1
  BY <1>1, MaxAssumption DEF IInv, TypeOK, Reap
<1>5. TypeOK'
  BY <1>3, <1>4, MaxAssumption DEF IInv, TypeOK, Reap, LogMsg, Errno
<1>6. /\ Cardinality(Unreaped') = Cardinality(Unreaped) - 1
      /\ Zombies' = Zombies \ {c}
      /\ Stopped' = Stopped
  BY ReapRemovesOne DEF IInv, Reap
<1>7. CountCovers' /\ RegCovers'
  BY <1>4, <1>6, TableFinite, MaxAssumption
  DEF IInv, TypeOK, Reap, CountCovers, InFlight, RegCovers
<1>8. SignalsCovered'
  BY <1>3, <1>6 DEF IInv, Reap, SignalsCovered
<1>9. NeverStuckFull'
  BY <1>4, MaxAssumption DEF NeverStuckFull
<1> QED
  BY <1>5, <1>7, <1>8, <1>9 DEF IInv

\* A PANIC of the handler leaves everything but pc as it was.
LEMMA PanicIInv == IInv /\ dead_child /\ ReaperPanics => IInv'
<1> SUFFICES ASSUME IInv, dead_child, ReaperPanics PROVE IInv'
  OBVIOUS
<1> USE DEF errors, streams, kernel, Goto
<1>1. TypeOK' /\ RegCovers' /\ NeverStuckFull'
  BY DEF IInv, ReaperPanics, TypeOK, PC, RegCovers, NeverStuckFull
<1>2. Unreaped' = Unreaped /\ Zombies' = Zombies /\ Stopped' = Stopped
  BY DEF ReaperPanics, Unreaped, Running, Stopped, Zombies
<1>3. CountCovers'
  <2>1. Cardinality(Unreaped) \in Nat /\ InFlight' = 0 /\ InFlight \in {0, 1}
    BY TableFinite DEF ReaperPanics, InFlight
  <2>2. child_count' = child_count /\ child_count \in Nat
    BY MaxAssumption DEF ReaperPanics, IInv, TypeOK
  <2> QED
    BY <1>2, <2>1, <2>2 DEF IInv, CountCovers
<1>4. SignalsCovered'
  BY <1>2 DEF IInv, ReaperPanics, SignalsCovered
<1> QED
  BY <1>1, <1>3, <1>4 DEF IInv

\* Every step of the server keeps the invariant.
LEMMA NextIInv == IInv /\ [Next]_vars => IInv'
<1> SUFFICES ASSUME IInv, [Next]_vars PROVE IInv'
  OBVIOUS
<1>1. CASE LoopStep
  BY <1>1, LoopStepIInv
<1>2. ASSUME NEW c \in Child, Fork(c) PROVE IInv'
  BY <1>2, ForkIInv
<1>3. ASSUME NEW c \in Child, ChildExit(c) PROVE IInv'
  BY <1>3, ExitIInv
<1>4. CASE DeliverSigchld
  BY <1>4, DeliverIInv
<1>5. CASE dead_child
  <2>1. CASE ReaperPanics
    BY <1>5, <2>1, PanicIInv
  <2>2. ASSUME NEW c \in Child, Reap(c) PROVE IInv'
    BY <1>5, <2>2, ReapIInv DEF dead_child
  <2> QED
    BY <1>5, <2>1, <2>2 DEF dead_child
<1>7. ASSUME NEW c \in Child, ChildStops(c) \/ ChildContinues(c) PROVE IInv'
  BY <1>7, SuspendIInv
<1>6. CASE UNCHANGED vars
  BY <1>6 DEF vars, kernel, IInv, TypeOK, CountCovers, InFlight, RegCovers,
     SignalsCovered, NeverStuckFull, Unreaped, Running, Stopped, Zombies
<1> QED
  BY <1>1, <1>2, <1>3, <1>4, <1>5, <1>6, <1>7
  DEF Next, Master, Environment, LoopStep

\* The inductive invariant holds in every behaviour of the server.
THEOREM Invariance == Spec => []IInv
  BY InitIInv, NextIInv, PTL DEF Spec
-----------------------------------------------------------------------------
(* What follows from it.                                                    *)

\* Every variable keeps its type, the counter its range 0..maxchild: it never
\* wraps, and the equality test of the limit is enough.
THEOREM TypeCorrect == Spec => []TypeOK
<1>1. IInv => TypeOK
  BY DEF IInv
<1> QED
  BY <1>1, Invariance, PTL

\* Never more child processes than maxchild.
THEOREM LimitHolds == Spec => []ClientsLimited
<1>1. IInv => ClientsLimited
  BY TableFinite, MaxAssumption
  DEF IInv, TypeOK, CountCovers, InFlight, ClientsLimited
<1> QED
  BY <1>1, Invariance, PTL

\* dead_child finds a child to reap unless a child was stopped or continued,
\* and never finds one whose slot is not counted.
THEOREM ReaperFindsItsChild == Spec => []ReaperFindsChild
  BY ReaperReady, Invariance, PTL

\* A client is refused only while another one is being served or leaving.
THEOREM RefusalIsTemporary == Spec => RefusedOnlyWhenBusy
<1>1. IInv /\ [Next]_vars
        => [Refuse => maxchild = 0 \/ Running # {} \/ sigchld]_vars
  <2> SUFFICES ASSUME IInv, Next, Refuse
               PROVE  maxchild = 0 \/ Running # {} \/ sigchld
    BY DEF Refuse
  <2>1. CheckLimit
    BY DEF Next, Master, Environment, Refuse, AcceptConnection, AcceptFails,
           AcceptInterrupted, SquashError, TestErrno, DupSocket, DupFails,
           LoadForIncrement, StoreIncrement, ForkFails, Fork,
           LoadForDecrement, StoreDecrement, CloseConnection, ChildExit,
           ChildStops, ChildContinues, Suspend, DeliverSigchld, dead_child,
           Reap, ReaperPanics, At, Goto
  <2>2. child_count = maxchild /\ handler = "idle"
    BY <2>1 DEF CheckLimit, At, Goto, Refuse
  <2> QED
    BY <2>2, MaxAssumption DEF IInv, TypeOK, NeverStuckFull, InFlight, Refuse
<1> QED
  BY <1>1, Invariance, PTL DEF Spec, RefusedOnlyWhenBusy
-----------------------------------------------------------------------------
(* Refinement: the accept loop implements the limit on clients.             *)

\* An empty table is the abstract initial state.
LEMMA LimitInit == Init => Limit!Init
  BY DEF Init, Limit!Init, Unreaped, Running, Stopped, Zombies

\* The instance's Cardinality is the one of FiniteSets.
LEMMA SameCardinality == \A S : Limit!Cardinality(S) = Cardinality(S)
  BY Zenon DEF Limit!Cardinality, Cardinality

\* A fork admits, a reap releases, every other step stutters.
LEMMA LimitStep == IInv /\ [Next]_vars => [Limit!Next]_Unreaped
<1> SUFFICES ASSUME IInv, [Next]_vars
             PROVE  Limit!Next \/ UNCHANGED Unreaped
  OBVIOUS
<1> USE DEF At, Goto, kernel
<1>1. CASE LoopStep \/ DeliverSigchld \/ UNCHANGED vars
  <2>1. child' = child
    BY <1>1 DEF LoopStep, AcceptConnection, AcceptFails, AcceptInterrupted,
           SquashError, TestErrno, DupSocket, DupFails, CheckLimit,
           LoadForIncrement, StoreIncrement, ForkFails, LoadForDecrement,
           StoreDecrement, CloseConnection, DeliverSigchld, vars
  <2> QED
    BY <2>1 DEF Unreaped, Running, Stopped, Zombies
<1>2. ASSUME NEW c \in Child, Fork(c) PROVE Limit!Next
  <2>1. c \notin Unreaped /\ Unreaped' = Unreaped \union {c}
    BY <1>2 DEF IInv, TypeOK, Fork, Unreaped, Running, Stopped, Zombies
  <2>2. Cardinality(Unreaped) < maxchild
    BY <1>2, TableFinite, MaxAssumption
    DEF Fork, IInv, TypeOK, CountCovers, InFlight
  <2>3. Limit!Admit(c)
    BY <2>1, <2>2, SameCardinality DEF Limit!Admit
  <2> QED
    BY <2>3 DEF Limit!Next
<1>3. ASSUME NEW c \in Child, ChildExit(c) PROVE UNCHANGED Unreaped
  BY <1>3, ExitKeepsTable DEF IInv, ChildExit
<1>4. CASE dead_child
  <2>1. CASE ReaperPanics
    BY <2>1 DEF ReaperPanics, Unreaped, Running, Stopped, Zombies
  <2>2. ASSUME NEW c \in Child, Reap(c) PROVE Limit!Next
    <3>1. c \in Unreaped /\ Unreaped' = Unreaped \ {c}
      BY <2>2, ReapRemovesOne DEF Reap, IInv, Unreaped, Zombies
    <3> QED
      BY <3>1 DEF Limit!Next, Limit!Release
  <2> QED
    BY <1>4, <2>1, <2>2 DEF dead_child
<1>5. ASSUME NEW c \in Child, ChildStops(c) \/ ChildContinues(c)
      PROVE  UNCHANGED Unreaped
  BY <1>5, SuspendKeepsTable DEF IInv
<1> QED
  BY <1>1, <1>2, <1>3, <1>4, <1>5 DEF Next, Master, Environment, LoopStep

\* The processes of the table behave as clients of ClientLimit.
THEOREM Implementation == Spec => ImplementsLimit
  BY LimitInit, LimitStep, Invariance, PTL DEF Spec, Limit!Spec, ImplementsLimit
-----------------------------------------------------------------------------
(* errno: what can stand in it when the loop tests it.                      *)

\* The handler's log_msg was the last to write errno.
Overwritten == LogSyncFails /\ errno = "EINVAL"

\* From accept() to the test, errno is what accept() failed with, or EAGAIN,
\* or what a handler in between has left.
ErrnoKept ==
  /\ pc = "squash" =>
       \/ errno = accept_err /\ accept_err \in AcceptErrors \union {"EINTR"}
       \/ Overwritten
  /\ pc = "test" =>
       \/ errno = "EAGAIN"
       \/ accept_err \in AcceptErrors \ squash_errors
       \/ Overwritten
  /\ PanicOnlyOnRealError

\* A reap keeps errno, or leaves it overwritten.
LEMMA ReapErrno ==
  \A c \in Child : pc # "panic" /\ ErrnoKept /\ Reap(c) => ErrnoKept'
BY DEF Reap, LogMsg, ErrnoKept, PanicOnlyOnRealError, Overwritten

\* Every step keeps errno one of these.
LEMMA ErrnoStep == IInv /\ ErrnoKept /\ [Next]_vars => ErrnoKept'
<1> SUFFICES ASSUME IInv, ErrnoKept, [Next]_vars PROVE ErrnoKept'
  OBVIOUS
<1> USE ErrnoAssumption
    DEF At, Goto, kernel, errors, ErrnoKept, PanicOnlyOnRealError, Overwritten
<1>1. CASE LoopStep
  <2>1. ASSUME NEW e \in AcceptErrors, AcceptFails(e) PROVE ErrnoKept'
    BY <2>1 DEF AcceptFails
  <2>2. CASE AcceptInterrupted
    BY <2>2 DEF AcceptInterrupted
  <2>3. CASE SquashError
    BY <2>3 DEF SquashError, squash_errors
  <2>4. CASE TestErrno
    BY <2>4 DEF TestErrno
  <2>5. CASE CheckLimit
    BY <2>5 DEF CheckLimit
  <2>6. CASE \/ AcceptConnection \/ DupSocket \/ DupFails
             \/ LoadForIncrement \/ StoreIncrement \/ ForkFails
             \/ LoadForDecrement \/ StoreDecrement \/ CloseConnection
    BY <2>6 DEF AcceptConnection, DupSocket, DupFails, LoadForIncrement,
       StoreIncrement, ForkFails, LoadForDecrement, StoreDecrement,
       CloseConnection
  <2> QED
    BY <1>1, <2>1, <2>2, <2>3, <2>4, <2>5, <2>6 DEF LoopStep
<1>2. ASSUME NEW c \in Child, Fork(c) \/ ChildExit(c) PROVE ErrnoKept'
  BY <1>2 DEF Fork, ChildExit
<1>3. ASSUME NEW c \in Child, ChildStops(c) \/ ChildContinues(c)
      PROVE  ErrnoKept'
  BY <1>3 DEF ChildStops, ChildContinues, Suspend
<1>4. CASE DeliverSigchld
  BY <1>4 DEF DeliverSigchld
<1>5. CASE dead_child
  <2>1. CASE ReaperPanics
    <3>1. handler = "wait3" /\ suspended
      BY <1>5, <2>1, ReaperReady DEF dead_child, ReaperPanics, ReaperFindsChild
    <3> QED
      BY <2>1, <3>1 DEF ReaperPanics
  <2>2. ASSUME NEW c \in Child, Reap(c) PROVE ErrnoKept'
    BY <1>5, <2>2, ReapErrno DEF dead_child
  <2> QED
    BY <1>5, <2>1, <2>2 DEF dead_child
<1>6. CASE UNCHANGED vars
  BY <1>6 DEF vars
<1> QED
  BY <1>1, <1>2, <1>3, <1>4, <1>5, <1>6 DEF Next, Master, Environment, LoopStep

\* The master panics only on an accept() error outside filtered_accept's
\* list, on an errno its own handler's log_msg has left between accept() and
\* the test, or in the handler after a child was stopped or continued.
THEOREM PanicsAreReal == Spec => []PanicOnlyOnRealError
<1>1. Init => ErrnoKept
  BY DEF Init, ErrnoKept, PanicOnlyOnRealError
<1>2. IInv /\ ErrnoKept /\ [Next]_vars => ErrnoKept'
  BY ErrnoStep
<1>3. ErrnoKept => PanicOnlyOnRealError
  BY DEF ErrnoKept
<1> QED
  BY <1>1, <1>2, <1>3, Invariance, PTL DEF Spec
-----------------------------------------------------------------------------
(* The streams of a connection.                                             *)

\* Which streams are open where: none while the loop waits, outgoing from
\* accept() on, incoming from dup() on if it succeeds.
StreamsKept ==
  /\ pc \in {"accept", "interrupted", "squash", "test"} =>
       incoming = "null" /\ outgoing = "null"
  /\ pc = "dup" => incoming = "null" /\ outgoing = "open"
  /\ pc \in {"check", "incr", "incr_store", "fork", "decr", "decr_store",
             "close"} =>
       incoming \in {"null", "open"} /\ outgoing = "open"

\* Every path through the loop closes what it has opened, and no handler
\* touches the streams.
LEMMA StreamsStep == StreamsKept /\ [Next]_vars => StreamsKept'
<1> SUFFICES ASSUME StreamsKept, [Next]_vars PROVE StreamsKept'
  OBVIOUS
<1> USE DEF At, Goto, StreamsKept, streams
<1>1. CASE AcceptConnection \/ DupSocket \/ CloseConnection
  BY <1>1 DEF AcceptConnection, DupSocket, CloseConnection
<1>2. CASE \/ AcceptInterrupted \/ SquashError \/ TestErrno
           \/ \E e \in AcceptErrors : AcceptFails(e)
  BY <1>2 DEF AcceptInterrupted, SquashError, TestErrno, AcceptFails
<1>3. CASE \/ DupFails \/ CheckLimit \/ LoadForIncrement \/ StoreIncrement
           \/ ForkFails \/ LoadForDecrement \/ StoreDecrement
           \/ \E c \in Child : Fork(c)
  BY <1>3 DEF DupFails, CheckLimit, LoadForIncrement, StoreIncrement,
     ForkFails, LoadForDecrement, StoreDecrement, Fork
<1>4. CASE DeliverSigchld
  BY <1>4 DEF DeliverSigchld
<1>5. CASE \/ dead_child
           \/ \E c \in Child : ChildExit(c) \/ ChildStops(c) \/ ChildContinues(c)
  BY <1>5 DEF dead_child, Reap, ReaperPanics, ChildExit, ChildStops,
     ChildContinues, Suspend
<1>6. CASE UNCHANGED vars
  BY <1>6 DEF vars
<1> QED
  BY <1>1, <1>2, <1>3, <1>4, <1>5, <1>6 DEF Next, Master, Environment

\* The loop waits for a client with no stream of an earlier one open, and
\* error_shortcut never closes a stream twice.
THEOREM StreamsAreBalanced == Spec => []StreamsBalanced
<1>1. Init => StreamsKept
  BY DEF Init, StreamsKept
<1>2. StreamsKept => StreamsBalanced
  BY DEF StreamsKept, StreamsBalanced
<1> QED
  BY <1>1, <1>2, StreamsStep, PTL DEF Spec
-----------------------------------------------------------------------------
(* A connection is let go after a bounded number of the master's steps.     *)

\* From the accepted connection to error_shortcut.
Connected == {"dup", "check", "incr", "incr_store", "fork", "decr",
              "decr_store", "close"}

\* How many steps the loop has yet to do.
StepsLeft ==
  CASE pc = "dup" -> 8 [] pc = "check" -> 7 [] pc = "incr" -> 6
    [] pc = "incr_store" -> 5 [] pc = "fork" -> 4 [] pc = "decr" -> 3
    [] pc = "decr_store" -> 2 [] pc = "close" -> 1 [] OTHER -> 0

\* What a child does by itself, or has done to it.
ChildStep ==
  \E c \in Child : ChildExit(c) \/ ChildStops(c) \/ ChildContinues(c)

\* Each step of the loop, and each of the interruptions that are to come: a
\* handler, idle, may be started, and, started, takes a process off the table.
Rank ==
  3 * StepsLeft + 2 * Cardinality(Unreaped)
    + (IF handler = "idle" THEN 1 ELSE 0)

\* With a connection in hand a step of the master, of its loop or its handler,
\* comes nearer to the end of the connection, which is the way back to
\* accept() with both streams closed, or a panic of the handler; what the
\* children do meanwhile takes it no further away.
Approaches ==
  pc \in Connected =>
    \/ /\ Rank' < Rank
       /\ pc' \in Connected \/ (pc' = "accept" /\ outgoing' = "null")
    \/ dead_child /\ suspended /\ pc' = "panic"
    \/ ChildStep /\ UNCHANGED <<Rank, pc>>

LEMMA RankIsNatural == Rank \in Nat
BY TableFinite DEF Rank, StepsLeft

LEMMA RankStep == IInv /\ StreamsKept /\ Next => Approaches
<1> SUFFICES ASSUME IInv, StreamsKept, Next, pc \in Connected
             PROVE  \/ /\ Rank' < Rank
                       /\ pc' \in Connected \/ (pc' = "accept" /\ outgoing' = "null")
                    \/ dead_child /\ suspended /\ pc' = "panic"
                    \/ ChildStep /\ UNCHANGED <<Rank, pc>>
  BY DEF Approaches
<1> USE DEF At, Goto, Connected
<1> DEFINE n == Cardinality(Unreaped)
<1>0. n \in Nat
  BY TableFinite
<1>1. CASE LoopStep
  <2>1. UNCHANGED <<child, handler>>
    BY <1>1 DEF LoopStep, AcceptConnection, AcceptFails, AcceptInterrupted,
           SquashError, TestErrno, DupSocket, DupFails, CheckLimit,
           LoadForIncrement, StoreIncrement, ForkFails, LoadForDecrement,
           StoreDecrement, CloseConnection, kernel
  <2>2. n' = n
    BY <2>1 DEF Unreaped, Running, Stopped, Zombies
  <2>3. /\ StepsLeft' < StepsLeft /\ StepsLeft \in Nat /\ StepsLeft' \in Nat
        /\ pc' \in Connected \/ (pc' = "accept" /\ outgoing' = "null")
    BY <1>1 DEF LoopStep, AcceptConnection, AcceptFails, AcceptInterrupted,
           SquashError, TestErrno, DupSocket, DupFails, CheckLimit,
           LoadForIncrement, StoreIncrement, ForkFails, LoadForDecrement,
           StoreDecrement, CloseConnection, StepsLeft
  <2> HIDE DEF n
  <2> QED BY <1>0, <2>1, <2>2, <2>3 DEF Rank, n
<1>2. ASSUME NEW c \in Child, Fork(c)
      PROVE  Rank' < Rank /\ pc' = "close"
  <2>2. n' = n + 1
    BY <1>2, ForkAddsOne DEF IInv, Fork
  <2>3. StepsLeft = 4 /\ StepsLeft' = 1 /\ UNCHANGED handler /\ pc' = "close"
    BY <1>2 DEF Fork, StepsLeft
  <2> HIDE DEF n
  <2> QED BY <1>0, <2>2, <2>3 DEF Rank, n
<1>3. ASSUME NEW c \in Child, ChildExit(c) \/ ChildStops(c) \/ ChildContinues(c)
      PROVE  ChildStep /\ UNCHANGED <<Rank, pc>>
  <2>1. Unreaped' = Unreaped
    BY <1>3, ExitKeepsTable, SuspendKeepsTable DEF IInv, ChildExit
  <2>2. UNCHANGED <<pc, handler>>
    BY <1>3 DEF ChildExit, ChildStops, ChildContinues, Suspend
  <2> QED BY <1>3, <2>1, <2>2 DEF Rank, StepsLeft, ChildStep
<1>4. ASSUME DeliverSigchld
      PROVE  Rank' < Rank /\ pc' = pc
  <2>1. n' = n
    BY <1>4 DEF DeliverSigchld, Unreaped, Running, Stopped, Zombies
  <2>2. StepsLeft' = StepsLeft /\ StepsLeft \in Nat /\ UNCHANGED pc
        /\ handler = "idle" /\ handler' = "wait3"
    BY <1>4 DEF DeliverSigchld, StepsLeft
  <2> HIDE DEF n
  <2> QED BY <1>0, <2>1, <2>2 DEF Rank, n
<1>5. ASSUME NEW c \in Child, handler = "wait3", Reap(c)
      PROVE  Rank' < Rank /\ pc' = pc
  <2>1. n' = n - 1
    BY <1>5, ReapRemovesOne DEF IInv, Reap
  <2>2. StepsLeft' = StepsLeft /\ StepsLeft \in Nat /\ UNCHANGED pc
        /\ handler = "wait3" /\ handler' = "idle"
    BY <1>5 DEF Reap, StepsLeft
  <2> HIDE DEF n
  <2> QED BY <1>0, <2>1, <2>2 DEF Rank, n
<1>6. ASSUME dead_child, ReaperPanics
      PROVE  suspended /\ pc' = "panic"
  BY <1>6, ReaperReady DEF dead_child, ReaperPanics, ReaperFindsChild
<1> QED
  BY <1>1, <1>2, <1>3, <1>4, <1>5, <1>6
  DEF Next, Master, Environment, LoopStep, dead_child

\* While the master holds a connection, every step of its loop and of its
\* handler brings it closer to error_shortcut, where both streams are closed,
\* and no step of a child takes it away: there is no way round, and no panic
\* but that of the handler after a stop.
THEOREM ConnectionIsBrief == Spec => [](Rank \in Nat) /\ [][Approaches]_vars
<1>1. Rank \in Nat
  BY RankIsNatural
<1>2. IInv /\ StreamsKept /\ [Next]_vars => [Approaches]_vars
  BY RankStep
<1>3. Init => StreamsKept
  BY DEF Init, StreamsKept
<1> QED BY <1>1, <1>2, <1>3, StreamsStep, Invariance, PTL DEF Spec
-----------------------------------------------------------------------------
(* How long the server stays at its limit.                                  *)

Full == child_count = maxchild

Alive == Running \union Stopped

\* What has yet to happen until a slot returns: a fork under way makes one
\* child more, which dies, for which a handler is started, which reaps.
WaitLeft ==
  (IF pc = "fork" THEN 3 ELSE 0) + 2 * Cardinality(Alive)
    + (IF pc = "panic" THEN 0 ELSE IF handler = "idle" THEN 2 ELSE 1)

\* Something is on its way that gives a slot back.
SlotOnItsWay ==
  Full /\ maxchild # 0 /\ pc # "panic" =>
    \/ Running # {} \/ sigchld \/ handler = "wait3"
    \/ pc \in {"fork", "decr", "decr_store"}

\* A server at its limit that stays there has come nearer to a free slot, or
\* its loop has made a step, such as refusing a client, that costs nothing,
\* or a child was stopped or continued, which does not bring it back either.
Drains ==
  Full /\ Full' =>
    \/ WaitLeft' < WaitLeft
    \/ /\ WaitLeft' = WaitLeft
       /\ \/ UNCHANGED kernel
          \/ \E c \in Child : ChildStops(c) \/ ChildContinues(c)

\* The processes that have yet to die are finitely many.
LEMMA AliveFinite == IsFiniteSet(Alive) /\ Cardinality(Alive) \in Nat
<1>1. Alive \subseteq Child
  BY DEF Alive, Running, Stopped
<1> QED BY <1>1, ChildAssumption, FS_Subset, FS_CardinalityType

LEMMA WaitIsNatural == WaitLeft \in Nat
BY AliveFinite DEF WaitLeft

\* No step of the loop, of a child, of the kernel or of the handler takes a
\* full server further from a free slot.
LEMMA DrainsStep == IInv /\ Next => Drains
<1> SUFFICES ASSUME IInv, Next, Full, Full'
             PROVE  \/ WaitLeft' < WaitLeft
                    \/ /\ WaitLeft' = WaitLeft
                       /\ \/ UNCHANGED kernel
                          \/ \E c \in Child : ChildStops(c) \/ ChildContinues(c)
  BY DEF Drains
<1> USE DEF At, Goto, Full
<1> DEFINE n == Cardinality(Alive)
<1>0. n \in Nat
  BY AliveFinite
<1>m. maxchild \in Nat
  BY MaxAssumption
<1>1. CASE LoopStep
  <2>1. UNCHANGED kernel /\ handler = "idle" /\ pc # "panic"
    BY <1>1 DEF LoopStep, AcceptConnection, AcceptFails, AcceptInterrupted,
           SquashError, TestErrno, DupSocket, DupFails, CheckLimit,
           LoadForIncrement, StoreIncrement, ForkFails, LoadForDecrement,
           StoreDecrement, CloseConnection
  <2>2. n' = n
    BY <2>1 DEF Alive, Running, Stopped, kernel
  <2>3. ~StoreIncrement
    BY DEF StoreIncrement, IInv, RegCovers, TypeOK
  <2>4. pc' = "fork" => pc = "fork"
    BY <1>1, <2>3 DEF LoopStep, AcceptConnection, AcceptFails,
           AcceptInterrupted, SquashError, TestErrno, DupSocket, DupFails,
           CheckLimit, LoadForIncrement, ForkFails, LoadForDecrement,
           StoreDecrement, CloseConnection
  <2>5. handler' = "idle"
    BY <2>1 DEF kernel
  <2> HIDE DEF n
  <2> QED BY <1>0, <2>1, <2>2, <2>4, <2>5 DEF WaitLeft, n
<1>2. ASSUME NEW c \in Child, Fork(c)
      PROVE  WaitLeft' < WaitLeft
  <2>1. Alive' = Alive \union {c} /\ c \notin Alive
    BY <1>2 DEF IInv, TypeOK, Fork, Alive, Running, Stopped
  <2>2. n' = n + 1
    BY <2>1, AliveFinite, FS_AddElement
  <2>3. pc = "fork" /\ pc' = "close" /\ UNCHANGED handler
    BY <1>2 DEF Fork
  <2> HIDE DEF n
  <2> QED BY <1>0, <2>2, <2>3 DEF WaitLeft, n
<1>3. ASSUME NEW c \in Child, ChildExit(c)
      PROVE  WaitLeft' < WaitLeft
  <2>1. Alive' = Alive \ {c} /\ c \in Alive
    BY <1>3 DEF IInv, TypeOK, ChildExit, Alive, Running, Stopped
  <2>2. n' = n - 1
    BY <2>1, AliveFinite, FS_RemoveElement
  <2>3. UNCHANGED <<pc, handler>>
    BY <1>3 DEF ChildExit
  <2> HIDE DEF n
  <2> QED BY <1>0, <2>2, <2>3 DEF WaitLeft, n
<1>4. ASSUME DeliverSigchld
      PROVE  WaitLeft' < WaitLeft
  <2>1. n' = n
    BY <1>4 DEF DeliverSigchld, Alive, Running, Stopped
  <2>2. /\ pc' = "fork" <=> pc = "fork"
        /\ pc # "panic" /\ pc' # "panic"
        /\ handler = "idle" /\ handler' = "wait3"
    BY <1>4 DEF DeliverSigchld
  <2> HIDE DEF n
  <2> QED BY <1>0, <2>1, <2>2 DEF WaitLeft, n
<1>5. \A c \in Child : ~Reap(c)
  BY <1>m DEF Reap
<1>6. ASSUME dead_child, ReaperPanics
      PROVE  WaitLeft' < WaitLeft
  <2>1. n' = n
    BY <1>6 DEF ReaperPanics, kernel, Alive, Running, Stopped
  <2>2. pc # "panic" /\ pc' = "panic" /\ handler = "wait3"
    BY <1>6 DEF dead_child, ReaperPanics
  <2> HIDE DEF n
  <2> QED BY <1>0, <2>1, <2>2 DEF WaitLeft, n
<1>7. ASSUME NEW c \in Child, ChildStops(c) \/ ChildContinues(c)
      PROVE  WaitLeft' = WaitLeft
  <2>1. Alive' = Alive
    BY <1>7, SuspendKeepsTable DEF IInv, Alive
  <2>2. UNCHANGED <<pc, handler>>
    BY <1>7 DEF ChildStops, ChildContinues, Suspend
  <2> QED BY <2>1, <2>2 DEF WaitLeft
<1> QED
  BY <1>1, <1>2, <1>3, <1>4, <1>5, <1>6, <1>7
  DEF Next, Master, Environment, LoopStep, dead_child

\* A server at its limit is never there for good: what gives a slot back is
\* always on its way, and everything the children, the kernel and the handler
\* do brings it nearer, while the loop goes on refusing clients.
THEOREM FullnessIsBrief ==
  Spec => [](SlotOnItsWay /\ WaitLeft \in Nat) /\ [][Drains]_vars
<1>1. IInv => SlotOnItsWay
  BY MaxAssumption
  DEF IInv, TypeOK, NeverStuckFull, SlotOnItsWay, Full, InFlight
<1>2. IInv /\ [Next]_vars => [Drains]_vars
  BY DrainsStep
<1> QED BY <1>1, <1>2, WaitIsNatural, Invariance, PTL DEF Spec
=============================================================================
