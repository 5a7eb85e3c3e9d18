-------------------------- MODULE Lockfile_proofs --------------------------
(* Proofs about Lockfile for every set of pids, every assignment of ports   *)
(* and every combination of faults: what the lockfile gives invocations     *)
(* that are started one after the other, and what the port gives the rest.  *)
EXTENDS Lockfile, TLAPS

(* The inductive invariant of one invocation at a time.                     *)

\* Only one invocation is on its way to its accept loop or to its end.
OneSettling ==
  \A p, q \in Proc : pc[p] \in Settling /\ pc[q] \in Settling => p = q

\* The file is still what the invocation has open, or gone.
FileIsOpened ==
  \A p \in Proc : pc[p] \in {"fscanf", "probe", "unlink"}
                    => file \in {opened[p], NoPid}

\* What an invocation has read it was allowed to read, its mode being 0600,
\* so that kill() fails with EPERM only for a stranger.
OpenedIsOwn ==
  \A p \in Proc : pc[p] \in {"fscanf", "probe"} => May(p, opened[p])

\* The lockfile to be removed as stale belongs to nobody any more.
StaleIsDead ==
  \A p \in Proc : pc[p] = "unlink" => pc[opened[p]] \in {"dead", "stranger"}

\* Inodes have creators that have been invoked.
CreatorsInvoked ==
  /\ file # NoPid => pc[file] # "idle"
  /\ \A p \in Proc : opened[p] # NoPid => pc[opened[p]] # "idle"

Order == /\ OneSettling
         /\ LockNamesServer
         /\ FileIsOpened
         /\ OpenedIsOwn
         /\ StaleIsDead
         /\ CreatorsInvoked

LInv == TypeOK /\ Order
-----------------------------------------------------------------------------
(* Types hold whatever the order of invocations.                            *)

\* Every step of every invocation keeps the types.
LEMMA TypeStep == TypeOK /\ [Next]_vars => TypeOK'
<1> SUFFICES ASSUME TypeOK, [Next]_vars PROVE TypeOK'
  OBVIOUS
<1> USE DEF TypeOK, PC, Settling, Checking, Stopping, At, Goto, Panic, ReturnZero
<1>1. ASSUME NEW p \in Proc, Run(p) PROVE TypeOK'
  <2>1. CASE FopenLock(p)
    BY <2>1, NoPidAssumption DEF FopenLock
  <2>2. CASE FscanfPid(p)
    BY <2>2 DEF FscanfPid
  <2>3. CASE Probe(p)
    BY <2>3 DEF Probe
  <2>4. CASE UnlinkStale(p)
    BY <2>4 DEF UnlinkStale
  <2>5. CASE Kill(p)
    BY <2>5 DEF Kill
  <2>6. CASE InitSocket(p)
    BY <2>6 DEF InitSocket
  <2>7. CASE CreateLock(p)
    BY <2>7 DEF CreateLock
  <2>8. CASE WritePid(p)
    BY <2>8 DEF WritePid
  <2>9. CASE Acquired(p) \/ CloseSocket(p) \/ RemoveLock(p) \/ Exit(p)
    BY <2>9 DEF Acquired, CloseSocket, RemoveLock, Exit
  <2> QED
    BY <1>1, <2>1, <2>2, <2>3, <2>4, <2>5, <2>6, <2>7, <2>8, <2>9 DEF Run
<1>2. ASSUME NEW p \in Proc, TakeSigint(p) PROVE TypeOK'
  BY <1>2 DEF TakeSigint
<1>3. ASSUME NEW p \in Proc, Environment(p) PROVE TypeOK'
  <2>1. ASSUME NEW t \in BOOLEAN, Invoke(p, t) PROVE TypeOK'
    BY <2>1 DEF Invoke
  <2>2. CASE Interrupt(p) \/ Crash(p)
    BY <2>2 DEF Interrupt, Crash
  <2>3. CASE ReusePid(p)
    BY <2>3 DEF ReusePid
  <2> QED
    BY <1>3, <2>1, <2>2, <2>3 DEF Environment
<1>4. CASE UNCHANGED vars
  BY <1>4 DEF vars
<1> QED
  BY <1>1, <1>2, <1>3, <1>4 DEF Next

\* Every variable keeps its type, and lockfile_check never reads or probes
\* without having opened a lockfile.
THEOREM LockTypeCorrect == Spec => []TypeOK
<1>1. Init => TypeOK
  BY DEF Init, TypeOK, PC, Settling, Checking, Stopping
<1> QED
  BY <1>1, TypeStep, PTL DEF Spec
-----------------------------------------------------------------------------
(* One invocation at a time.                                                *)

\* Before the first invocation there is no lockfile and nobody to own it.
LEMMA LInit == Init => LInv
<1> SUFFICES ASSUME Init PROVE LInv
  OBVIOUS
<1> USE DEF Init, Settling, Checking, Stopping
<1>1. TypeOK
  BY DEF TypeOK, PC
<1>2. OneSettling /\ LockNamesServer /\ FileIsOpened /\ OpenedIsOwn /\ StaleIsDead
  BY DEF OneSettling, LockNamesServer, FileIsOpened, OpenedIsOwn, StaleIsDead
<1>3. CreatorsInvoked
  BY DEF CreatorsInvoked
<1> QED
  BY <1>1, <1>2, <1>3 DEF LInv, Order

\* Every step keeps the invariant when invocations are serial.
LEMMA LStep == ASSUME Serial PROVE LInv /\ [Next]_vars => LInv'
<1> SUFFICES ASSUME LInv, [Next]_vars PROVE LInv'
  OBVIOUS
<1>0. TypeOK /\ TypeOK'
  BY TypeStep DEF LInv
<1>t. /\ pc \in [Proc -> PC]
      /\ file \in Proc \union {NoPid}
      /\ opened \in [Proc -> Proc \union {NoPid}]
  BY <1>0 DEF TypeOK
<1> USE NoPidAssumption
    DEF OneSettling, LockNamesServer, FileIsOpened, OpenedIsOwn, StaleIsDead,
        CreatorsInvoked, Settling, Checking, At, Goto, Panic, ReturnZero
<1>i. Order
  BY DEF LInv
<1>1. ASSUME NEW p \in Proc, Run(p) PROVE Order'
  <2>1. CASE FopenLock(p)
    BY <2>1, <1>t, <1>i DEF Order, FopenLock, May
  <2>2. CASE FscanfPid(p)
    BY <2>2, <1>t, <1>i DEF Order, May, FscanfPid
  <2>3. CASE Probe(p)
    <3>1. /\ UNCHANGED <<file, opened>>
          /\ \A q \in Proc : q # p => pc'[q] = pc[q]
          /\ pc[p] = "probe" /\ pc'[p] \in {"unlink", "kill", "dead"}
          /\ pc'[p] = "unlink" => pc[opened[p]] \in {"idle", "dead", "stranger"}
      BY <2>3, <1>t, <1>i DEF Order, Probe, KillFails, Alive
    <3>2. OneSettling' /\ LockNamesServer' /\ FileIsOpened' /\ OpenedIsOwn'
      BY <3>1, <1>i DEF Order, May
    <3>3. StaleIsDead' /\ CreatorsInvoked'
      BY <3>1, <1>t, <1>i, <1>0 DEF Order, TypeOK
    <3> QED
      BY <3>2, <3>3 DEF Order
  <2>4. CASE UnlinkStale(p)
    BY <2>4, <1>t, <1>i DEF Order, May, UnlinkStale
  <2>5. CASE Kill(p)
    BY <2>5, <1>t, <1>i DEF Order, May, Kill
  <2>6. CASE InitSocket(p)
    BY <2>6, <1>t, <1>i DEF Order, May, InitSocket
  <2>7. CASE CreateLock(p)
    BY <2>7, <1>t, <1>i DEF Order, May, CreateLock
  <2>8. CASE WritePid(p) \/ Acquired(p)
    BY <2>8, <1>t, <1>i DEF Order, May, WritePid, Acquired
  <2>9. CASE CloseSocket(p)
    BY <2>9, <1>t, <1>i DEF Order, May, CloseSocket
  <2>11. CASE Exit(p)
    BY <2>11, <1>t, <1>i DEF Order, May, Exit
  <2>10. CASE RemoveLock(p)
    BY <2>10, <1>t, <1>i DEF Order, May, RemoveLock
  <2> QED
    BY <1>1, <2>1, <2>2, <2>3, <2>4, <2>5, <2>6, <2>7, <2>8, <2>9, <2>10,
       <2>11 DEF Run
<1>2. ASSUME NEW p \in Proc, TakeSigint(p) PROVE Order'
  BY <1>2, <1>t, <1>i DEF Order, May, TakeSigint
<1>3. ASSUME NEW p \in Proc, Environment(p) PROVE Order'
  <2>1. ASSUME NEW t \in BOOLEAN, Invoke(p, t) PROVE Order'
    BY <2>1, <1>t, <1>i DEF Order, May, Invoke
  <2>2. CASE Interrupt(p)
    BY <2>2, <1>t, <1>i DEF Order, May, Interrupt
  <2>3. CASE Crash(p)
    BY <2>3, <1>t, <1>i DEF Order, May, Crash, Alive
  <2>4. CASE ReusePid(p)
    BY <2>4, <1>t, <1>i DEF Order, May, ReusePid
  <2> QED
    BY <1>3, <2>1, <2>2, <2>3, <2>4 DEF Environment
<1> HIDE DEF Settling, Checking
<1>4. ASSUME UNCHANGED vars PROVE Order'
  <2>1. pc' = pc /\ file' = file /\ opened' = opened
    BY <1>4 DEF vars
  <2>2. OneSettling' /\ LockNamesServer' /\ FileIsOpened' /\ OpenedIsOwn'
    BY <2>1, <1>i DEF Order, May
  <2>3. StaleIsDead' /\ CreatorsInvoked'
    BY <2>1, <1>i DEF Order
  <2> QED
    BY <2>2, <2>3 DEF Order
<1> HIDE DEF OneSettling, LockNamesServer, FileIsOpened, OpenedIsOwn,
             StaleIsDead, CreatorsInvoked
<1>5. Order'
  BY <1>1, <1>2, <1>3, <1>4 DEF Next
<1> QED
  BY <1>0, <1>5 DEF LInv

\* With serial invocations the invariant holds in every behaviour.
LEMMA LInvariance == ASSUME Serial PROVE Spec => []LInv
<1>1. LInv /\ [Next]_vars => LInv'
  BY LStep
<1> QED
  BY LInit, <1>1, PTL DEF Spec

\* The lockfile names the serving daemon for as long as it has the lock, when
\* invocations are serial: whatever crashes, reuses its pid or fills the disk.
THEOREM LockNamesServerSerial ==
  ASSUME Serial PROVE Spec => []LockNamesServer
<1>1. LInv => LockNamesServer
  BY DEF LInv, Order
<1> QED
  BY <1>1, LInvariance, PTL

\* At most one daemon serves, when invocations are serial.
THEOREM MutualExclusionSerial ==
  ASSUME Serial PROVE Spec => []MutualExclusion
<1>1. LInv => MutualExclusion
  BY DEF LInv, Order, LockNamesServer, MutualExclusion
<1> QED
  BY <1>1, LInvariance, PTL

\* No lockfile is taken from a live daemon, when invocations are serial.
THEOREM NeverStolenSerial == ASSUME Serial PROVE Spec => NeverStolen
<1>1. LInv /\ [Next]_vars
        => [\A p \in Proc : file = p /\ file' = NoPid
              => pc[p] \in {"remove", "dead", "stranger"}]_vars
  <2> SUFFICES ASSUME LInv, Next, NEW p \in Proc, file = p, file' = NoPid
               PROVE  pc[p] \in {"remove", "dead", "stranger"}
    BY NoPidAssumption
  <2>1. PICK q \in Proc : UnlinkStale(q) \/ RemoveLock(q)
    BY NoPidAssumption
    DEF Next, Run, Environment, FopenLock, FscanfPid, Probe, Kill, InitSocket,
        CreateLock, WritePid, Acquired, CloseSocket, Exit, TakeSigint, Invoke,
        Interrupt, Crash, ReusePid
  <2>2. CASE UnlinkStale(q)
    BY <2>2, NoPidAssumption
    DEF LInv, Order, FileIsOpened, StaleIsDead, UnlinkStale, At
  <2>3. CASE RemoveLock(q)
    BY <2>3 DEF LInv, Order, LockNamesServer, RemoveLock, At
  <2> QED
    BY <2>1, <2>2, <2>3
<1> QED
  BY <1>1, LInvariance, PTL DEF Spec, NeverStolen
-----------------------------------------------------------------------------
(* Invocations in any order, on one port.                                   *)

\* bind() admits one process at a time.
PortExclusive ==
  \A p, q \in Proc : Bound(p) /\ Bound(q) /\ Port[p] = Port[q] => p = q

\* Two daemons on one port never serve together, in whatever order they are
\* started: the port protects what the lockfile alone does not.
THEOREM MutualExclusionOnePort ==
  ASSUME \A p, q \in Proc : Port[p] = Port[q]
  PROVE  Spec => []MutualExclusion
<1>1. Init => TypeOK /\ PortExclusive
  BY DEF Init, TypeOK, PC, Settling, Checking, Stopping, PortExclusive, Bound
<1>2. TypeOK /\ PortExclusive /\ [Next]_vars => PortExclusive'
  <2> SUFFICES ASSUME TypeOK, PortExclusive, [Next]_vars
               PROVE  PortExclusive'
    OBVIOUS
  <2> USE DEF TypeOK, PortExclusive, Bound, At, Goto, Panic, ReturnZero
  <2>1. ASSUME NEW p \in Proc, Run(p) PROVE PortExclusive'
    BY <2>1 DEF Run, FopenLock, FscanfPid, Probe, UnlinkStale, Kill,
       InitSocket, CreateLock, WritePid, Acquired, CloseSocket, RemoveLock, Exit
  <2>2. ASSUME NEW p \in Proc, TakeSigint(p) PROVE PortExclusive'
    BY <2>2 DEF TakeSigint
  <2>3. ASSUME NEW p \in Proc, Environment(p) PROVE PortExclusive'
    BY <2>3 DEF Environment, Invoke, Interrupt, Crash, ReusePid
  <2>4. CASE UNCHANGED vars
    BY <2>4 DEF vars
  <2> QED
    BY <2>1, <2>2, <2>3, <2>4 DEF Next
<1>3. PortExclusive => MutualExclusion
  BY DEF PortExclusive, MutualExclusion, Bound
<1> QED
  BY <1>1, <1>2, <1>3, LockTypeCorrect, PTL DEF Spec
=============================================================================
