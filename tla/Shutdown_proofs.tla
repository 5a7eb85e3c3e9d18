-------------------------- MODULE Shutdown_proofs --------------------------
(* Proofs about Shutdown for every set of children and every number of      *)
(* signals: what a master that stops with success leaves behind, and that   *)
(* its children leave its lockfile alone while it serves.                   *)
EXTENDS Shutdown, TLAPS

\* The steps of Next, one by one.
ChildMove(c) ==
  \/ Fork(c) \/ ClearFlag(c) \/ Detach(c) \/ ChildDone(c) \/ ChildFaults(c)
  \/ \E s \in StopSignal : SignalOneChild(c, s)

MasterMove ==
  \/ BecomeDaemon \/ CreateLock \/ Acquired \/ MasterPanics
  \/ TerminalInterrupt
  \/ \E s \in StopSignal : SignalMaster(s)

\* A step is one of the processes' own moves or of their environment.
LEMMA NextMoves ==
  Next => \/ MasterMove
          \/ \E c \in Child : ChildMove(c)
          \/ \E p \in Proc : Handler(p)
  BY DEF Next, Environment, ChildStep, MasterMove, ChildMove
-----------------------------------------------------------------------------
(* Types.                                                                   *)

\* Every step of the master, its children and the senders keeps the types.
LEMMA TypeStep == TypeOK /\ [Next]_vars => TypeOK'
<1> SUFFICES ASSUME TypeOK, [Next]_vars PROVE TypeOK'
  OBVIOUS
<1> USE DEF TypeOK, PC, Starting, MasterBranch, At, Goto, End, Panic, Send,
            EnterHandler, signals, startup, sends
<1>0. Master \in Proc /\ Child \subseteq Proc
  BY DEF Proc
<1>1. CASE MasterMove
  <2>1. CASE BecomeDaemon \/ CreateLock \/ Acquired
    BY <1>0, <2>1 DEF BecomeDaemon, CreateLock, Acquired
  <2>2. CASE MasterPanics
    BY <1>0, <2>2 DEF MasterPanics
  <2>3. CASE TerminalInterrupt
    BY <1>0, <2>3, BoundAssumption DEF TerminalInterrupt, StopSignal
  <2>4. ASSUME NEW s \in StopSignal, SignalMaster(s) PROVE TypeOK'
    BY <1>0, <2>4, BoundAssumption DEF SignalMaster
  <2> QED
    BY <1>1, <2>1, <2>2, <2>3, <2>4 DEF MasterMove
<1>2. ASSUME NEW c \in Child, ChildMove(c) PROVE TypeOK'
  <2>1. CASE Fork(c)
    BY <1>0, <2>1 DEF Fork
  <2>2. CASE ClearFlag(c) \/ Detach(c)
    BY <1>0, <2>2 DEF ClearFlag, Detach
  <2>3. CASE ChildDone(c)
    BY <1>0, <2>3 DEF ChildDone
  <2>5. CASE ChildFaults(c)
    BY <1>0, <2>5 DEF ChildFaults
  <2>4. ASSUME NEW s \in StopSignal, SignalOneChild(c, s) PROVE TypeOK'
    BY <1>0, <2>4, BoundAssumption DEF SignalOneChild
  <2> QED
    BY <1>2, <2>1, <2>2, <2>3, <2>4, <2>5 DEF ChildMove
<1>3. ASSUME NEW p \in Proc, Handler(p) PROVE TypeOK'
  <2>1. CASE IgnoreTerm(p)
    BY <2>1 DEF IgnoreTerm
  <2>2. CASE KillGroup(p)
    BY <2>2 DEF KillGroup, StopSignal
  <2>3. CASE CloseSocket(p)
    BY <2>3 DEF CloseSocket
  <2>4. CASE RemoveLock(p)
    BY <2>4 DEF RemoveLock
  <2>5. CASE Finish(p) \/ FinishChild(p)
    BY <2>5 DEF Finish, FinishChild
  <2>6. ASSUME NEW s \in StopSignal, TakeSignal(p, s) PROVE TypeOK'
    BY <2>6 DEF TakeSignal
  <2> QED
    BY <1>3, <2>1, <2>2, <2>3, <2>4, <2>5, <2>6 DEF Handler
<1>4. CASE UNCHANGED vars
  BY <1>4 DEF vars
<1> QED
  BY <1>1, <1>2, <1>3, <1>4, NextMoves

\* The types hold of a daemon that has just bound its socket.
LEMMA ShutdownInit == Init => TypeOK
<1> SUFFICES ASSUME Init PROVE TypeOK
  OBVIOUS
<1>1. pc \in [Proc -> PC] /\ status \in [Proc -> {"none", "done", "success", "failure"}]
  BY DEF Init, PC, Starting, MasterBranch
<1>2. /\ master_process \in [Proc -> BOOLEAN]
      /\ lock_acquired \in [Proc -> BOOLEAN]
      /\ tortu_sock \in [Proc -> BOOLEAN]
      /\ term_ignored \in [Proc -> BOOLEAN]
  BY DEF Init
<1>3. pending \in [Proc -> SUBSET StopSignal] /\ masked \in [Proc -> SUBSET StopSignal]
  BY DEF Init
<1>4. sent \in 0..MaxSignals
  BY BoundAssumption DEF Init
<1> QED
  BY <1>1, <1>2, <1>3, <1>4 DEF Init, TypeOK

\* Every variable keeps its type.
THEOREM ShutdownTypeCorrect == Spec => []TypeOK
<1>1. Init => TypeOK
  BY ShutdownInit
<1> QED
  BY <1>1, TypeStep, PTL DEF Spec
-----------------------------------------------------------------------------
(* What a successful stop leaves behind.                                    *)

\* Which branch of shutdown_signal a process can be in, by its flag; a child
\* that does not exist yet has no signal and no disposition of its own.
Branches ==
  /\ master_process[Master]
  /\ pc[Master] \notin {"none", "window", "detach", "run", "child_finish"}
  /\ \A c \in Child :
       /\ pc[c] \notin Starting \union {"serve"}
       /\ pc[c] \in {"detach", "run", "child_finish"} => ~master_process[c]
       /\ pc[c] \in MasterBranch => master_process[c]
       /\ pc[c] = "none" => pending[c] = {} /\ ~term_ignored[c]

\* SIGTERM is ignored only from inside the master's branch.
IgnoredInBranch ==
  \A c \in Child : term_ignored[c] => pc[c] \in MasterBranch \union {"dead"}

\* From the signal to the group until its end, a leader has told every child.
ChildrenTold ==
  /\ status[Master] = "success" => pc[Master] = "dead"
  /\ leader /\ (pc[Master] \in {"close", "remove", "finish"} \/ status[Master] = "success")
       => \A c \in Child : Alive(c) => Leaving(c)

\* Once the master has removed its lockfile nobody creates it again.
LockGivenUp ==
  pc[Master] = "finish" \/ status[Master] = "success" => ~file

SInv == TypeOK /\ Branches /\ IgnoredInBranch /\ ChildrenTold /\ LockGivenUp

\* The invariant holds of a daemon that has just bound its socket.
LEMMA SInit == Init => SInv
<1> SUFFICES ASSUME Init PROVE SInv
  OBVIOUS
<1>1. TypeOK
  BY ShutdownInit
<1>2. Branches /\ IgnoredInBranch /\ ChildrenTold /\ LockGivenUp
  BY MasterAssumption
  DEF Init, Proc, Branches, IgnoredInBranch, ChildrenTold, LockGivenUp, Starting,
      MasterBranch, Alive, Leaving
<1> QED
  BY <1>1, <1>2 DEF SInv

\* Every step of the master, its children and their handlers keeps it.
LEMMA SStep == SInv /\ [Next]_vars => SInv'
<1> SUFFICES ASSUME SInv, [Next]_vars PROVE SInv'
  OBVIOUS
<1>t. TypeOK /\ TypeOK'
  BY TypeStep DEF SInv
<1>0. /\ Master \in Proc /\ Child \subseteq Proc /\ Master \notin Child
      /\ \A p \in Proc : p = Master \/ p \in Child
  BY MasterAssumption DEF Proc
<1>i. Branches /\ IgnoredInBranch /\ ChildrenTold /\ LockGivenUp
  BY DEF SInv
<1> DEFINE Goal == Branches /\ IgnoredInBranch /\ ChildrenTold /\ LockGivenUp
<1>f. /\ pc \in [Proc -> PC]
      /\ status \in [Proc -> {"none", "done", "success", "failure"}]
      /\ master_process \in [Proc -> BOOLEAN]
      /\ pending \in [Proc -> SUBSET StopSignal]
      /\ term_ignored \in [Proc -> BOOLEAN]
  BY <1>t DEF TypeOK
<1> USE DEF Starting, MasterBranch, At, Goto, End, Panic, EnterHandler,
            signals, startup, sends, Alive, Leaving, Branches, IgnoredInBranch,
            ChildrenTold, LockGivenUp
<1>1. ASSUME MasterMove PROVE Goal'
  <2>1. CASE BecomeDaemon
    BY <1>0, <1>f, <1>i, <2>1 DEF BecomeDaemon
  <2>2. CASE CreateLock
    BY <1>0, <1>f, <1>i, <2>2 DEF CreateLock
  <2>3. CASE Acquired
    BY <1>0, <1>f, <1>i, <2>3 DEF Acquired
  <2>4. CASE MasterPanics
    BY <1>0, <1>f, <1>i, <2>4 DEF MasterPanics
  <2>6. CASE TerminalInterrupt
    BY <1>0, <1>f, <1>i, <2>6 DEF TerminalInterrupt, Send
  <2>7. ASSUME NEW s \in StopSignal, SignalMaster(s) PROVE Goal'
    BY <1>0, <1>f, <1>i, <2>7 DEF SignalMaster, Send
  <2> QED
    BY <1>1, <2>1, <2>2, <2>3, <2>4, <2>6, <2>7 DEF MasterMove
<1>2. ASSUME NEW c \in Child, ChildMove(c) PROVE Goal'
  <2>1. CASE Fork(c)
    BY <1>0, <1>f, <1>i, <2>1 DEF Fork
  <2>2. CASE ClearFlag(c)
    BY <1>0, <1>f, <1>i, <2>2 DEF ClearFlag
  <2>3. CASE Detach(c)
    BY <1>0, <1>f, <1>i, <2>3 DEF Detach
  <2>4. CASE ChildDone(c)
    BY <1>0, <1>f, <1>i, <2>4 DEF ChildDone
  <2>5. CASE ChildFaults(c)
    BY <1>0, <1>f, <1>i, <2>5 DEF ChildFaults
  <2>6. ASSUME NEW s \in StopSignal, SignalOneChild(c, s) PROVE Goal'
    BY <1>0, <1>f, <1>i, <2>6 DEF SignalOneChild, Send
  <2> QED
    BY <1>2, <2>1, <2>2, <2>3, <2>4, <2>5, <2>6 DEF ChildMove
<1>3. ASSUME NEW p \in Proc, Handler(p) PROVE Goal'
  <2>1. CASE IgnoreTerm(p)
    BY <1>0, <1>f, <1>i, <2>1 DEF IgnoreTerm
  <2>2. CASE KillGroup(p)
    <3>1. CASE p = Master /\ leader
      <4>1. /\ pc' = [pc EXCEPT ![Master] = "close"] /\ pc[Master] = "kill"
            /\ UNCHANGED <<status, master_process, term_ignored, file, leader>>
        BY <2>2, <3>1 DEF KillGroup
      <4>2. \A c \in Child :
              pending'[c] = IF Alive(c) /\ ~term_ignored[c]
                              THEN pending[c] \union {"SIGTERM"} ELSE pending[c]
        BY <1>0, <2>2, <3>1 DEF KillGroup, Send
      <4>3. \A c \in Child : Alive(c) /\ pc[c] \notin MasterBranch
                                => pending'[c] # {}
        BY <1>i, <4>2
      <4>4. Branches' /\ IgnoredInBranch'
        BY <1>0, <1>f, <1>i, <4>1, <4>2
      <4>5. ChildrenTold'
        BY <1>0, <1>f, <1>i, <4>1, <4>3
      <4>6. LockGivenUp'
        BY <1>0, <1>f, <1>i, <4>1
      <4> QED
        BY <4>4, <4>5, <4>6
    <3>2. CASE ~(p = Master /\ leader)
      BY <1>0, <1>f, <1>i, <2>2, <3>2 DEF KillGroup
    <3> QED
      BY <3>1, <3>2
  <2>3. CASE CloseSocket(p)
    BY <1>0, <1>f, <1>i, <2>3 DEF CloseSocket
  <2>4. CASE RemoveLock(p)
    BY <1>0, <1>f, <1>i, <2>4 DEF RemoveLock
  <2>5. CASE Finish(p)
    BY <1>0, <1>f, <1>i, <2>5 DEF Finish
  <2>6. CASE FinishChild(p)
    BY <1>0, <1>f, <1>i, <2>6 DEF FinishChild
  <2>7. ASSUME NEW s \in StopSignal, TakeSignal(p, s) PROVE Goal'
    BY <1>0, <1>f, <1>i, <2>7 DEF TakeSignal
  <2> QED
    BY <1>3, <2>1, <2>2, <2>3, <2>4, <2>5, <2>6, <2>7 DEF Handler
<1>4. ASSUME UNCHANGED vars PROVE Goal'
  BY <1>4, <1>i DEF vars
<1> HIDE DEF Goal
<1>5. Goal'
  BY <1>1, <1>2, <1>3, <1>4, NextMoves
<1> QED
  BY <1>t, <1>5 DEF SInv, Goal

\* The shutdown invariant holds in every behaviour.
LEMMA SInvariance == Spec => []SInv
  BY SInit, SStep, PTL DEF Spec

\* A master that ends with success has given its lock up, and has told every
\* child that is still there to go if it leads its process group.
THEOREM StopsCleanly == Spec => []StoppedCleanly
<1>1. SInv => StoppedCleanly
  BY DEF SInv, ChildrenTold, LockGivenUp, StoppedCleanly
<1> QED
  BY <1>1, SInvariance, PTL
-----------------------------------------------------------------------------
(* What children leave alone.                                               *)

\* A stop signal is on its way to the master, or it has taken one.
Disturbed ==
  pending[Master] # {} \/ pc[Master] \in MasterBranch \union {"dead"}

\* Without signals sent to a child alone, a child is in the master's branch,
\* or will be, only when the master has its signal too.
ChildrenFollow ==
  ~child_hit =>
    \A c \in Child : pending[c] # {} \/ pc[c] \in MasterBranch => Disturbed

LockThere ==
  pc[Master] \in {"flag", "serve"} /\ pending[Master] = {} /\ ~child_hit => file

HInv == SInv /\ ChildrenFollow /\ LockThere

\* Every step keeps the lockfile where the serving master expects it, until
\* it is disturbed.
LEMMA HStep == HInv /\ [Next]_vars => HInv'
<1> SUFFICES ASSUME HInv, [Next]_vars PROVE HInv'
  OBVIOUS
<1>t. SInv /\ SInv'
  BY SStep DEF HInv
<1>0. /\ Master \in Proc /\ Child \subseteq Proc /\ Master \notin Child
      /\ \A p \in Proc : p = Master \/ p \in Child
  BY MasterAssumption DEF Proc
<1>i. Branches /\ ChildrenFollow /\ LockThere
  BY DEF HInv, SInv
<1> DEFINE Goal == ChildrenFollow /\ LockThere
<1>f. /\ pc \in [Proc -> PC]
      /\ status \in [Proc -> {"none", "done", "success", "failure"}]
      /\ master_process \in [Proc -> BOOLEAN]
      /\ pending \in [Proc -> SUBSET StopSignal]
      /\ term_ignored \in [Proc -> BOOLEAN]
  BY <1>t DEF SInv, TypeOK
<1> USE DEF Starting, MasterBranch, At, Goto, End, Panic, EnterHandler,
            signals, startup, sends, Alive, Branches, ChildrenFollow, Disturbed,
            LockThere
<1>1. ASSUME MasterMove PROVE Goal'
  <2>1. CASE BecomeDaemon \/ CreateLock \/ Acquired
    BY <1>0, <1>f, <1>i, <2>1 DEF BecomeDaemon, CreateLock, Acquired
  <2>2. CASE MasterPanics
    BY <1>0, <1>f, <1>i, <2>2 DEF MasterPanics
  <2>3. CASE TerminalInterrupt
    BY <1>0, <1>f, <1>i, <2>3 DEF TerminalInterrupt, Send
  <2>4. ASSUME NEW s \in StopSignal, SignalMaster(s) PROVE Goal'
    BY <1>0, <1>f, <1>i, <2>4 DEF SignalMaster, Send
  <2> QED
    BY <1>1, <2>1, <2>2, <2>3, <2>4 DEF MasterMove
<1>2. ASSUME NEW c \in Child, ChildMove(c) PROVE Goal'
  <2>1. CASE Fork(c)
    BY <1>0, <1>f, <1>i, <2>1 DEF Fork
  <2>2. CASE ClearFlag(c) \/ Detach(c) \/ ChildDone(c)
    BY <1>0, <1>f, <1>i, <2>2 DEF ClearFlag, Detach, ChildDone
  <2>3. CASE ChildFaults(c)
    BY <1>0, <1>f, <1>i, <2>3 DEF ChildFaults
  <2>4. ASSUME NEW s \in StopSignal, SignalOneChild(c, s) PROVE Goal'
    BY <1>0, <1>f, <1>i, <2>4 DEF SignalOneChild, Send
  <2> QED
    BY <1>2, <2>1, <2>2, <2>3, <2>4 DEF ChildMove
<1>3. ASSUME NEW p \in Proc, Handler(p) PROVE Goal'
  <2>1. CASE IgnoreTerm(p)
    BY <1>0, <1>f, <1>i, <2>1 DEF IgnoreTerm
  <2>2. CASE KillGroup(p)
    BY <1>0, <1>f, <1>i, <2>2 DEF KillGroup, Send
  <2>3. CASE CloseSocket(p)
    BY <1>0, <1>f, <1>i, <2>3 DEF CloseSocket
  <2>4. CASE RemoveLock(p)
    BY <1>0, <1>f, <1>i, <2>4 DEF RemoveLock
  <2>5. CASE Finish(p) \/ FinishChild(p)
    BY <1>0, <1>f, <1>i, <2>5 DEF Finish, FinishChild
  <2>6. ASSUME NEW s \in StopSignal, TakeSignal(p, s) PROVE Goal'
    BY <1>0, <1>f, <1>i, <2>6 DEF TakeSignal
  <2> QED
    BY <1>3, <2>1, <2>2, <2>3, <2>4, <2>5, <2>6 DEF Handler
<1>4. ASSUME UNCHANGED vars PROVE Goal'
  BY <1>4, <1>i DEF vars
<1> HIDE DEF Goal
<1>5. Goal'
  BY <1>1, <1>2, <1>3, <1>4, NextMoves
<1> QED
  BY <1>t, <1>5 DEF HInv, Goal

\* While the master serves undisturbed its lockfile is there, whatever its
\* children do, as long as nobody signals a child alone.
THEOREM LockSurvivesChildren == Spec => []LockHeldWhileServing
<1>1. Init => HInv
  BY SInit, MasterAssumption
  DEF Init, HInv, Proc, ChildrenFollow, LockThere, MasterBranch
<1>2. HInv /\ [Next]_vars => HInv'
  BY HStep
<1>3. HInv => LockHeldWhileServing
  BY DEF HInv, LockThere, LockHeldWhileServing
<1> QED
  BY <1>1, <1>2, <1>3, PTL DEF Spec
-----------------------------------------------------------------------------
(* How far a handler is from its end.                                       *)

\* p is inside shutdown_signal.
Handling(p) == pc[p] \in MasterBranch \union {"child_finish"}

\* The stop signals that can still start p's handler again.
Unmasked(p) ==
  (IF "SIGINT" \in masked[p] THEN 0 ELSE 1)
    + (IF "SIGTERM" \in masked[p] THEN 0 ELSE 1)

\* The steps of the branch p is in.
Remaining(p) ==
  CASE pc[p] = "ignore" -> 5
    [] pc[p] = "kill" -> 4
    [] pc[p] = "close" -> 3
    [] pc[p] = "remove" -> 2
    [] pc[p] \in {"finish", "child_finish"} -> 1
    [] OTHER -> 0

Distance(p) == 6 * Unmasked(p) + Remaining(p)

\* What is left is a number of steps.
LEMMA DistanceIsNatural == \A p : Distance(p) \in Nat
<1> TAKE p
<1>1. Unmasked(p) \in 0..2
  BY DEF Unmasked
<1>2. Remaining(p) \in 0..5
  BY DEF Remaining
<1> QED
  BY <1>1, <1>2 DEF Distance

\* A process with a stop signal masked is inside its handler, or has ended:
\* the handler has never returned to the code it interrupted.
NeverReturns ==
  \A p \in Proc : masked[p] # {} => Handling(p) \/ pc[p] = "dead"

\* p has left shutdown_signal only by ending.
Stays(p) == Handling(p)' \/ pc'[p] = "dead"

\* A step either is one of p's handler, and brings its end nearer, or leaves
\* it where it is.
Advances(p) ==
  Handling(p) =>
    \/ Handler(p) /\ Distance(p)' < Distance(p) /\ Stays(p)
    \/ UNCHANGED <<pc[p], masked[p]>>

\* Each step of a handler brings the end nearer: a second signal starts it
\* again from the top, but there are only two to be masked.
LEMMA HandlerAdvances ==
  ASSUME TypeOK, NEW p \in Proc, Handler(p), Handling(p)
  PROVE  Distance(p)' < Distance(p) /\ Stays(p)
<1> USE DEF At, Goto, End, Panic, EnterHandler, signals, Handling, Stays,
            MasterBranch
<1>f. pc \in [Proc -> PC] /\ masked \in [Proc -> SUBSET StopSignal]
  BY DEF TypeOK
<1>1. Unmasked(p) \in 0..2 /\ Unmasked(p)' \in 0..2
  BY DEF Unmasked
<1>2. ASSUME masked' = masked, Remaining(p)' < Remaining(p), Stays(p)
      PROVE  Distance(p)' < Distance(p) /\ Stays(p)
  <2>1. Unmasked(p)' = Unmasked(p)
    BY <1>2 DEF Unmasked
  <2>2. Remaining(p) \in 0..5 /\ Remaining(p)' \in 0..5
    BY DEF Remaining
  <2> QED
    BY <1>1, <1>2, <2>1, <2>2 DEF Distance
<1>3. CASE IgnoreTerm(p)
  <2>1. Remaining(p) = 5 /\ Remaining(p)' = 4
    BY <1>f, <1>3 DEF IgnoreTerm, Remaining
  <2> QED
    BY <1>f, <1>2, <1>3, <2>1 DEF IgnoreTerm
<1>4. CASE KillGroup(p)
  <2>1. Remaining(p) = 4 /\ Remaining(p)' = 3
    BY <1>f, <1>4 DEF KillGroup, Remaining
  <2> QED
    BY <1>f, <1>2, <1>4, <2>1 DEF KillGroup
<1>5. CASE CloseSocket(p)
  <2>1. Remaining(p) = 3 /\ Remaining(p)' \in {0, 2}
    BY <1>f, <1>5 DEF CloseSocket, Remaining
  <2> QED
    BY <1>f, <1>2, <1>5, <2>1 DEF CloseSocket
<1>6. CASE RemoveLock(p)
  <2>1. Remaining(p) = 2 /\ Remaining(p)' \in {0, 1}
    BY <1>f, <1>6 DEF RemoveLock, Remaining
  <2> QED
    BY <1>f, <1>2, <1>6, <2>1 DEF RemoveLock
<1>7. CASE Finish(p) \/ FinishChild(p)
  <2>1. Remaining(p) = 1 /\ Remaining(p)' = 0
    BY <1>f, <1>7 DEF Finish, FinishChild, Remaining
  <2> QED
    BY <1>f, <1>2, <1>7, <2>1 DEF Finish, FinishChild
<1>8. ASSUME NEW s \in StopSignal, TakeSignal(p, s)
      PROVE  Distance(p)' < Distance(p) /\ Stays(p)
  <2>1. pc'[p] \in {"ignore", "child_finish"} /\ Stays(p)
    BY <1>f, <1>8 DEF TakeSignal
  <2>2. Remaining(p) \in 1..5 /\ Remaining(p)' \in 1..5
    BY <2>1 DEF Remaining
  <2>3. s \notin masked[p] /\ masked'[p] = masked[p] \union {s}
    BY <1>f, <1>8 DEF TakeSignal
  <2>4. Unmasked(p)' = Unmasked(p) - 1
    BY <2>3 DEF Unmasked, StopSignal
  <2> QED
    BY <1>1, <2>1, <2>2, <2>4 DEF Distance
<1> QED
  BY <1>3, <1>4, <1>5, <1>6, <1>7, <1>8 DEF Handler

\* Nobody else moves a process that is inside its handler.
LEMMA HandlerStep ==
  TypeOK /\ [Next]_vars => \A p \in Proc : Advances(p)
<1> SUFFICES ASSUME TypeOK, [Next]_vars, NEW p \in Proc, Handling(p)
             PROVE  \/ Handler(p) /\ Distance(p)' < Distance(p) /\ Stays(p)
                    \/ UNCHANGED <<pc[p], masked[p]>>
  BY DEF Advances
<1>f. pc \in [Proc -> PC] /\ masked \in [Proc -> SUBSET StopSignal]
  BY DEF TypeOK
<1> USE DEF At, Goto, End, Panic, EnterHandler, signals, Handling, MasterBranch
<1>1. CASE MasterMove
  BY <1>f, <1>1 DEF MasterMove, BecomeDaemon, CreateLock, Acquired,
     MasterPanics, TerminalInterrupt, SignalMaster, Proc
<1>2. ASSUME NEW c \in Child, ChildMove(c)
      PROVE  UNCHANGED <<pc[p], masked[p]>>
  BY <1>f, <1>2 DEF ChildMove, Fork, ClearFlag, Detach, ChildDone,
     ChildFaults, SignalOneChild
<1>3. CASE Handler(p)
  BY <1>3, HandlerAdvances
<1>4. ASSUME NEW q \in Proc, Handler(q), q # p
      PROVE  UNCHANGED <<pc[p], masked[p]>>
  BY <1>f, <1>4 DEF Handler, IgnoreTerm, KillGroup, CloseSocket, RemoveLock,
     Finish, FinishChild, TakeSignal
<1>5. CASE UNCHANGED vars
  BY <1>5 DEF vars
<1> QED
  BY <1>1, <1>2, <1>3, <1>4, <1>5, NextMoves

\* A stop signal is masked only on the way into the handler.
LEMMA MaskStep ==
  TypeOK /\ NeverReturns /\ [Next]_vars => NeverReturns'
<1> SUFFICES ASSUME TypeOK, NeverReturns, [Next]_vars, NEW p \in Proc,
                    masked'[p] # {}
             PROVE  Handling(p)' \/ pc'[p] = "dead"
  BY DEF NeverReturns
<1>f. pc \in [Proc -> PC] /\ masked \in [Proc -> SUBSET StopSignal]
  BY DEF TypeOK
<1>1. CASE Handling(p)
  BY <1>1, HandlerStep DEF Advances, Stays, Handling
<1>2. CASE pc[p] = "dead"
  <2> USE DEF At, Goto, End, Panic, signals, Alive
  <2>1. CASE MasterMove
    BY <1>f, <1>2, <2>1 DEF MasterMove, BecomeDaemon, CreateLock, Acquired,
       MasterPanics, TerminalInterrupt, SignalMaster, Proc
  <2>2. ASSUME NEW c \in Child, ChildMove(c) PROVE pc'[p] = "dead"
    BY <1>f, <1>2, <2>2 DEF ChildMove, Fork, ClearFlag, Detach, ChildDone,
       ChildFaults, SignalOneChild, EnterHandler
  <2>3. ASSUME NEW q \in Proc, Handler(q) PROVE pc'[p] = "dead"
    BY <1>f, <1>2, <2>3 DEF Handler, IgnoreTerm, KillGroup, CloseSocket,
       RemoveLock, Finish, FinishChild, TakeSignal, EnterHandler
  <2>4. CASE UNCHANGED vars
    BY <1>2, <2>4 DEF vars
  <2> QED
    BY <2>1, <2>2, <2>3, <2>4, NextMoves
<1>3. CASE masked[p] = {}
  <2> USE DEF signals
  <2>1. PICK q \in Proc : \E s \in StopSignal : TakeSignal(q, s)
    <3>1. ASSUME MasterMove PROVE FALSE
      BY <1>3, <3>1 DEF MasterMove, BecomeDaemon, CreateLock, Acquired,
         MasterPanics, TerminalInterrupt, SignalMaster
    <3>2. ASSUME NEW c \in Child, ChildMove(c) PROVE FALSE
      BY <1>3, <3>2 DEF ChildMove, Fork, ClearFlag, Detach, ChildDone,
         ChildFaults, SignalOneChild
    <3>3. ASSUME UNCHANGED vars PROVE FALSE
      BY <1>3, <3>3 DEF vars
    <3>4. PICK q \in Proc : Handler(q)
      BY <3>1, <3>2, <3>3, NextMoves
    <3>5. \E s \in StopSignal : TakeSignal(q, s)
      BY <1>3, <3>4 DEF Handler, IgnoreTerm, KillGroup, CloseSocket,
         RemoveLock, Finish, FinishChild
    <3> QED
      BY <3>5
  <2>2. q = p
    BY <1>f, <1>3, <2>1 DEF TakeSignal
  <2> QED
    BY <1>f, <2>1, <2>2 DEF TakeSignal, EnterHandler, Goto, Handling,
       MasterBranch
<1> QED
  BY <1>1, <1>2, <1>3 DEF NeverReturns

\* shutdown_signal ends the process it runs in: it never returns to the code
\* it interrupted, however many stop signals arrive, every step it takes
\* brings the end nearer, and no other process can hold it up or move it.
THEOREM HandlerEndsProcess ==
  Spec => /\ [](NeverReturns /\ \A p \in Proc : Distance(p) \in Nat)
          /\ [][\A p \in Proc : Advances(p)]_vars
<1>1. Init => NeverReturns
  BY DEF Init, NeverReturns
<1>2. \A p \in Proc : Distance(p) \in Nat
  BY DistanceIsNatural
<1>3. Spec => []TypeOK
  BY ShutdownTypeCorrect
<1>4. Spec => []NeverReturns
  BY <1>1, <1>3, MaskStep, PTL DEF Spec
<1>5. TypeOK /\ [Next]_vars => [\A p \in Proc : Advances(p)]_vars
  BY HandlerStep
<1> QED
  BY <1>2, <1>3, <1>4, <1>5, PTL DEF Spec
-----------------------------------------------------------------------------
(* Why a stop can fail.                                                     *)

\* The stop signals the master has been sent are no more than the sends, and
\* it does not add the SIGTERM of its own KillGroup to them.
SignalsAreSent ==
  /\ masked[Master] \union pending[Master] # {} => sent > 0
  /\ StopSignal \subseteq masked[Master] \union pending[Master] => sent > 1
  /\ pc[Master] \in {"kill", "close", "remove", "finish"} => term_ignored[Master]

\* A master whose socket is closed is on its way out in its first run of
\* shutdown_signal, or in its second.
SocketClosedOnce ==
  /\ pc[Master] \in MasterBranch => masked[Master] # {}
  /\ ~tortu_sock[Master] =>
       \/ pc[Master] \in {"remove", "finish", "dead"}
       \/ masked[Master] = StopSignal

\* A child has its copies of the master's flags from a master that had the
\* lock, and keeps master_process once it is in the master's branch.
ChildFlags ==
  /\ pc[Master] = "serve" => lock_acquired[Master]
  /\ pc[Master] \in Starting => \A c \in Child : pc[c] = "none"
  /\ \A c \in Child :
       /\ pc[c] = "none" => ~master_process[c]
       /\ pc[c] = "window" => lock_acquired[c]

\* A lockfile the master believes to hold is there, or a child has taken it.
LockAccounted ==
  /\ pc[Master] = "flag" => file
  /\ lock_acquired[Master] /\ ~file => \E c \in Child : TookLock(c)

\* A process that has ended has stopped changing.
EndedForGood == status[Master] # "none" => pc[Master] = "dead"

FInv ==
  /\ SInv /\ NeverReturns /\ SignalsAreSent /\ SocketClosedOnce /\ ChildFlags
  /\ LockAccounted /\ EndedForGood /\ StopFailureExplained

\* The invariant holds of a daemon that has just bound its socket.
LEMMA FInit == Init => FInv
<1> SUFFICES ASSUME Init PROVE FInv
  OBVIOUS
<1>1. SInv
  BY SInit
<1>2. NeverReturns /\ SignalsAreSent /\ SocketClosedOnce
  BY DEF Init, NeverReturns, SignalsAreSent, SocketClosedOnce, StopSignal,
     MasterBranch, Proc
<1>3. ChildFlags /\ LockAccounted /\ EndedForGood /\ StopFailureExplained
  BY MasterAssumption
  DEF Init, Proc, ChildFlags, LockAccounted, EndedForGood,
      StopFailureExplained, TookLock, Starting
<1> QED
  BY <1>1, <1>2, <1>3 DEF FInv

\* What a child has taken it has taken for good.
LEMMA TakenStays ==
  ASSUME TypeOK, Branches, ChildFlags, [Next]_vars, NEW c \in Child, TookLock(c)
  PROVE  TookLock(c)'
<1> USE DEF At, Goto, End, Panic, EnterHandler, signals, startup, sends, TookLock
<1>0. /\ Master \in Proc /\ Child \subseteq Proc /\ Master \notin Child
      /\ pc[c] \in MasterBranch \union {"dead"}
  BY MasterAssumption DEF Proc, Branches, ChildFlags, TypeOK, PC, Starting,
     MasterBranch
<1>f. /\ master_process \in [Proc -> BOOLEAN]
      /\ lock_acquired \in [Proc -> BOOLEAN]
  BY DEF TypeOK
<1>1. CASE MasterMove
  BY <1>0, <1>f, <1>1 DEF MasterMove, BecomeDaemon, CreateLock, Acquired,
     MasterPanics, TerminalInterrupt, SignalMaster
<1>2. ASSUME NEW d \in Child, ChildMove(d) PROVE TookLock(c)'
  BY <1>0, <1>f, <1>2 DEF ChildMove, Fork, ClearFlag, Detach, ChildDone,
     ChildFaults, SignalOneChild, MasterBranch
<1>3. ASSUME NEW p \in Proc, Handler(p) PROVE TookLock(c)'
  BY <1>0, <1>f, <1>3 DEF Handler, IgnoreTerm, KillGroup, CloseSocket,
     RemoveLock, Finish, FinishChild, TakeSignal
<1>4. CASE UNCHANGED vars
  BY <1>4 DEF vars
<1> QED
  BY <1>1, <1>2, <1>3, <1>4, NextMoves

\* Every step keeps the reasons for which a stop may fail.
LEMMA FStep == FInv /\ [Next]_vars => FInv'
<1> SUFFICES ASSUME FInv, [Next]_vars PROVE FInv'
  OBVIOUS
<1>t. TypeOK /\ Branches /\ SInv' /\ NeverReturns'
  BY SStep, MaskStep DEF FInv, SInv
<1>0. /\ Master \in Proc /\ Child \subseteq Proc /\ Master \notin Child
      /\ \A p \in Proc : p = Master \/ p \in Child
  BY MasterAssumption DEF Proc
<1>i. /\ NeverReturns /\ SignalsAreSent /\ SocketClosedOnce /\ ChildFlags
      /\ LockAccounted /\ EndedForGood /\ StopFailureExplained
  BY DEF FInv
<1>f. /\ pc \in [Proc -> PC]
      /\ status \in [Proc -> {"none", "done", "success", "failure"}]
      /\ master_process \in [Proc -> BOOLEAN]
      /\ lock_acquired \in [Proc -> BOOLEAN]
      /\ tortu_sock \in [Proc -> BOOLEAN]
      /\ pending \in [Proc -> SUBSET StopSignal]
      /\ masked \in [Proc -> SUBSET StopSignal]
      /\ term_ignored \in [Proc -> BOOLEAN]
      /\ sent \in Nat
  BY <1>t, BoundAssumption DEF TypeOK
<1>k. \A c \in Child : TookLock(c) => TookLock(c)'
  BY <1>t, <1>i, TakenStays
<1> DEFINE Goal == /\ SignalsAreSent /\ SocketClosedOnce /\ ChildFlags
                   /\ LockAccounted /\ EndedForGood /\ StopFailureExplained
<1> USE DEF Starting, MasterBranch, At, Goto, End, Panic, EnterHandler,
            signals, startup, sends, Alive
<1>1. ASSUME MasterMove PROVE Goal'
  <2>1. SignalsAreSent'
    BY <1>0, <1>f, <1>i, <1>1
    DEF SignalsAreSent, StopSignal, MasterMove, BecomeDaemon, CreateLock,
        Acquired, MasterPanics, TerminalInterrupt, SignalMaster, Send
  <2>2. SocketClosedOnce' /\ ChildFlags' /\ EndedForGood'
    BY <1>0, <1>f, <1>i, <1>1
    DEF SocketClosedOnce, ChildFlags, EndedForGood, MasterMove, BecomeDaemon,
        CreateLock, Acquired, MasterPanics, TerminalInterrupt, SignalMaster
  <2>3. LockAccounted'
    BY <1>0, <1>f, <1>i, <1>k, <1>1
    DEF LockAccounted, MasterMove, BecomeDaemon, CreateLock, Acquired,
        MasterPanics, TerminalInterrupt, SignalMaster
  <2>4. StopFailureExplained'
    <3>1. CASE MasterPanics
      BY <1>0, <1>f, <1>i, <3>1
      DEF MasterPanics, StopFailureExplained, NeverReturns, Handling
    <3>2. CASE ~MasterPanics
      BY <1>0, <1>f, <1>i, <1>k, <1>1, <3>2
      DEF StopFailureExplained, EndedForGood, MasterMove, BecomeDaemon,
          CreateLock, Acquired, TerminalInterrupt, SignalMaster
    <3> QED
      BY <3>1, <3>2
  <2> QED
    BY <2>1, <2>2, <2>3, <2>4
<1>2. ASSUME NEW c \in Child, ChildMove(c) PROVE Goal'
  <2>1. SignalsAreSent'
    BY <1>0, <1>f, <1>i, <1>2
    DEF SignalsAreSent, ChildMove, Fork, ClearFlag, Detach, ChildDone,
        ChildFaults, SignalOneChild, Send
  <2>2. SocketClosedOnce' /\ EndedForGood'
    BY <1>0, <1>f, <1>i, <1>2
    DEF SocketClosedOnce, EndedForGood, ChildMove, Fork, ClearFlag, Detach,
        ChildDone, ChildFaults, SignalOneChild
  <2>3. ChildFlags'
    BY <1>0, <1>f, <1>i, <1>t, <1>2
    DEF ChildFlags, Branches, ChildMove, Fork, ClearFlag, Detach, ChildDone,
        ChildFaults, SignalOneChild
  <2>4. LockAccounted' /\ StopFailureExplained'
    BY <1>0, <1>f, <1>i, <1>k, <1>2
    DEF LockAccounted, StopFailureExplained, ChildMove, Fork, ClearFlag,
        Detach, ChildDone, ChildFaults, SignalOneChild
  <2> QED
    BY <2>1, <2>2, <2>3, <2>4
<1>3. ASSUME NEW c \in Child, Handler(c) PROVE Goal'
  <2>1. SignalsAreSent'
    BY <1>0, <1>f, <1>i, <1>3
    DEF SignalsAreSent, Handler, IgnoreTerm, KillGroup, CloseSocket,
        RemoveLock, Finish, FinishChild, TakeSignal
  <2>2. SocketClosedOnce' /\ EndedForGood'
    BY <1>0, <1>f, <1>i, <1>3
    DEF SocketClosedOnce, EndedForGood, Handler, IgnoreTerm, KillGroup,
        CloseSocket, RemoveLock, Finish, FinishChild, TakeSignal
  <2>3. ChildFlags'
    BY <1>0, <1>f, <1>i, <1>t, <1>3
    DEF ChildFlags, Handler, IgnoreTerm, KillGroup, CloseSocket, RemoveLock,
        Finish, FinishChild, TakeSignal
  <2>4. file /\ ~file' => RemoveLock(c) /\ TookLock(c)'
    BY <1>0, <1>f, <1>t, <1>3
    DEF Branches, TookLock, Handler, IgnoreTerm, KillGroup, CloseSocket,
        RemoveLock, Finish, FinishChild, TakeSignal
  <2>5. UNCHANGED <<pc[Master], lock_acquired[Master], status[Master],
                    masked[Master], sent>>
    BY <1>0, <1>f, <1>3
    DEF Handler, IgnoreTerm, KillGroup, CloseSocket, RemoveLock, Finish,
        FinishChild, TakeSignal
  <2>6. RemoveLock(c) => pc[Master] # "flag"
    BY <1>0, <1>i DEF ChildFlags, RemoveLock
  <2>7. LockAccounted' /\ StopFailureExplained'
    BY <1>i, <1>f, <1>k, <2>4, <2>5, <2>6 DEF LockAccounted, StopFailureExplained
  <2> QED
    BY <2>1, <2>2, <2>3, <2>7
<1>4. ASSUME Handler(Master) PROVE Goal'
  <2>1. SignalsAreSent'
    BY <1>0, <1>f, <1>i, <1>4
    DEF SignalsAreSent, Handler, IgnoreTerm, KillGroup, CloseSocket,
        RemoveLock, Finish, FinishChild, TakeSignal, Send, StopSignal
  <2>2. SocketClosedOnce'
    <3>1. CASE IgnoreTerm(Master) \/ KillGroup(Master)
      BY <1>0, <1>f, <1>i, <3>1 DEF SocketClosedOnce, IgnoreTerm, KillGroup
    <3>2. CASE CloseSocket(Master) \/ RemoveLock(Master) \/ Finish(Master) \/ FinishChild(Master)
      BY <1>0, <1>f, <1>i, <3>2
      DEF SocketClosedOnce, CloseSocket, RemoveLock, Finish, FinishChild
    <3>3. ASSUME NEW s \in StopSignal, TakeSignal(Master, s)
          PROVE  SocketClosedOnce'
      <4>1. /\ s \notin masked[Master] /\ masked'[Master] = masked[Master] \union {s}
            /\ pc[Master] # "dead" /\ UNCHANGED tortu_sock
        BY <1>0, <1>f, <3>3 DEF TakeSignal
      <4>2. ASSUME ~tortu_sock[Master], masked[Master] # StopSignal
            PROVE  masked'[Master] = StopSignal
        <5>1. masked[Master] # {}
          BY <1>i, <4>1, <4>2 DEF SocketClosedOnce
        <5> QED
          BY <1>0, <1>f, <4>1, <5>1 DEF StopSignal
      <4>3. masked[Master] = StopSignal => masked'[Master] = StopSignal
        BY <4>1
      <4> QED
        BY <4>1, <4>2, <4>3 DEF SocketClosedOnce
    <3> QED
      BY <1>4, <3>1, <3>2, <3>3 DEF Handler
  <2>3. ChildFlags' /\ EndedForGood'
    BY <1>0, <1>f, <1>i, <1>t, <1>4
    DEF ChildFlags, EndedForGood, Branches, Handler, IgnoreTerm, KillGroup,
        CloseSocket, RemoveLock, Finish, FinishChild, TakeSignal
  <2>4. LockAccounted'
    BY <1>0, <1>f, <1>i, <1>k, <1>4
    DEF LockAccounted, Handler, IgnoreTerm, KillGroup, CloseSocket,
        RemoveLock, Finish, FinishChild, TakeSignal
  <2>5. StopFailureExplained'
    <3>1. CASE CloseSocket(Master)
      <4>1. tortu_sock[Master] => status'[Master] = "none"
        BY <1>0, <1>f, <1>i, <3>1 DEF CloseSocket, EndedForGood
      <4>2. ~tortu_sock[Master] => masked[Master] = StopSignal /\ sent > 1
        BY <1>0, <1>f, <1>i, <3>1
        DEF CloseSocket, SocketClosedOnce, SignalsAreSent
      <4>3. UNCHANGED <<masked, sent>>
        BY <3>1 DEF CloseSocket
      <4> QED
        BY <4>1, <4>2, <4>3 DEF StopFailureExplained
    <3>2. CASE RemoveLock(Master)
      <4>1. lock_acquired[Master] /\ file => status'[Master] = "none"
        BY <1>0, <1>f, <1>i, <3>2 DEF RemoveLock, EndedForGood
      <4>2. ~(lock_acquired[Master] /\ file) => UNCHANGED lock_acquired
        BY <3>2 DEF RemoveLock
      <4> QED
        BY <1>i, <1>k, <4>1, <4>2 DEF StopFailureExplained, LockAccounted
    <3>3. CASE Finish(Master)
      BY <1>0, <1>f, <3>3 DEF Finish, StopFailureExplained
    <3>4. CASE FinishChild(Master)
      BY <1>t, <3>4 DEF FinishChild, Branches
    <3>5. CASE \/ IgnoreTerm(Master) \/ KillGroup(Master)
               \/ \E s \in StopSignal : TakeSignal(Master, s)
      <4>1. pc[Master] # "dead" /\ UNCHANGED status
        BY <3>5 DEF IgnoreTerm, KillGroup, TakeSignal
      <4> QED
        BY <1>i, <4>1 DEF StopFailureExplained, EndedForGood
    <3> QED
      BY <1>4, <3>1, <3>2, <3>3, <3>4, <3>5 DEF Handler
  <2> QED
    BY <2>1, <2>2, <2>3, <2>4, <2>5
<1>5. ASSUME UNCHANGED vars PROVE Goal'
  BY <1>5, <1>i
  DEF vars, SignalsAreSent, SocketClosedOnce, ChildFlags, LockAccounted,
      EndedForGood, StopFailureExplained, TookLock
<1> HIDE DEF Goal
<1>6. Goal'
  BY <1>0, <1>1, <1>2, <1>3, <1>4, <1>5, NextMoves
<1> QED
  BY <1>t, <1>6 DEF FInv, Goal

\* A master that panics in its shutdown was sent both stop signals, or was
\* stopped before it had the lock, or lost its lockfile to a child that was
\* signalled in the fork window.
THEOREM StopFails == Spec => []StopFailureExplained
<1>1. FInv => StopFailureExplained
  BY DEF FInv
<1> QED
  BY <1>1, FInit, FStep, PTL DEF Spec
=============================================================================
