--------------------------- MODULE Startup_proofs ---------------------------
(* Proofs about Startup: who owns which descriptor, for every table size,   *)
(* every set of inherited descriptors and every configuration file.         *)
EXTENDS Startup, TLAPS

\* What a program that has been started leaves at descriptors of nobody's.
Base == {"free", "inherited", "null", "log"}

\* Where the process is between init_socket and the child's close().
Listening == {"become_daemon", "get_lock", "lock_write", "accept", "dup",
              "fork", "close", "detach"}

\* Each variable that holds a descriptor holds the one its owner has opened.
Handles ==
  /\ pc \in {"cmdline", "log_start"} => logfile = NoFd
  /\ pc = "config" => file \in FD /\ fd[file] = "config"
  /\ pc \in {"lock_read", "lock_write"} => file \in FD /\ fd[file] = "lockfile"
  /\ pc = "work" => file \in FD /\ fd[file] = "work"
  /\ pc \in Listening => tortu_sock \in FD /\ fd[tortu_sock] = "socket"
  /\ pc \in PC \ (Listening \union {"connect", "serve", "work", "exit"})
       => tortu_sock = NoFd
  /\ pc \in {"dup", "fork", "close", "detach", "connect", "serve", "work"}
       => clisockdes \in FD /\ fd[clisockdes] = "client"
  /\ pc \in {"fork", "detach", "connect", "serve", "work"}
       => clisockdes_dup \in FD /\ fd[clisockdes_dup] = "client"
  /\ pc = "close" /\ clisockdes_dup # NoFd => fd[clisockdes_dup] = "client"
  /\ pc \in PC \ {"fork", "close", "detach", "connect", "serve", "work", "exit"}
       => clisockdes_dup = NoFd

\* And nobody else's: whatever is open is one of theirs.
Contents ==
  /\ pc \notin {"serve", "work", "exit"} =>
       \A f \in FD :
         \/ fd[f] \in Base
         \/ fd[f] \in {"config", "lockfile"} /\ f = file
              /\ pc \in {"config", "lock_read", "lock_write"}
         \/ fd[f] = "socket" /\ f = tortu_sock /\ pc \in Listening
         \/ fd[f] = "client" /\ f \in {clisockdes, clisockdes_dup}
              /\ pc \in {"dup", "fork", "close", "detach", "connect"}
  /\ pc \in {"serve", "work"} => \A f \in FD : fd[f] # "socket"
  /\ role = "child" => pc \in {"detach", "connect", "serve", "work", "exit"}

\* The inductive invariant.
IInv == TypeOK /\ Handles /\ Contents /\ StdReserved

\* dup() fails on a descriptor that is closed, or with a full table.
LEMMA DupFd ==
  ASSUME NEW t, NEW f, NEW d \in Dup(t, f)
  PROVE \/ d \in Lowest(t)
        \/ d = NoFd /\ (t[f] = "free" \/ \A g \in FD : t[g] # "free")
BY DEF Dup, Free

\* The invariant holds when the program starts, whatever it inherits.
LEMMA InitIInv == Init => IInv
  BY FdAssumption DEF Init, IInv, TypeOK, Handles, Contents, StdReserved, PC,
     Listening, Base, Object, NoFd, FD

-----------------------------------------------------------------------------
\* Every step keeps the invariant.
LEMMA StepIInv == IInv /\ [Next]_vars => IInv'
<1> SUFFICES ASSUME IInv, [Next]_vars PROVE IInv'
  OBVIOUS
<1> USE FdAssumption
<1> USE DEF IInv, TypeOK, Handles, Contents, StdReserved, PC, Listening, Base,
            Object, Argument, NoFd, FD, Goto, Panic, options, globals, conn
<1>1. CASE \E a \in Argument : process_cmdline(a)
  BY <1>1 DEF process_cmdline
<1>2. CASE CmdlineDone
  BY <1>2 DEF CmdlineDone
<1>3. CASE LogStart /\ log_start_daemon
  <2> DEFINE t0 == close_all(fd, 0, tortu_sock)
  <2>1. t0 \in [FD -> Object] /\ \A f \in FD : t0[f] = "free"
    BY <1>3 DEF LogStart, close_all, Closed
  <2>2. PICK null \in Lowest(t0) :
          LET t == Opened(t0, null, "null")
          IN  \/ \E l \in Lowest(t) :
                   LET t2 == Opened(t, l, "log")
                   IN  /\ \E d \in Dup(t2, 1) : fd' = Opened(t2, d, t2[1])
                       /\ logfile' = l
                       /\ Goto("config_open")
              \/ fd' = t /\ Panic /\ UNCHANGED logfile
    BY <1>3 DEF log_start_daemon
  <2> DEFINE t == Opened(t0, null, "null")
  <2>3. /\ null = 0
        /\ t \in [FD -> Object]
        /\ \A f \in FD : t[f] = IF f = 0 THEN "null" ELSE "free"
    BY <2>1 DEF Lowest, Free, Opened
  <2>4. CASE fd' = t /\ Panic /\ UNCHANGED logfile
    BY <1>3, <2>3, <2>4 DEF LogStart
  <2>5. ASSUME NEW l \in Lowest(t), NEW d \in Dup(Opened(t, l, "log"), 1),
               LET t2 == Opened(t, l, "log") IN fd' = Opened(t2, d, t2[1]),
               logfile' = l, Goto("config_open")
        PROVE IInv'
    <3> DEFINE t2 == Opened(t, l, "log")
    <3>1. l = 1 /\ t2 \in [FD -> Object]
      BY <2>3 DEF Lowest, Free, Opened
    <3>2. \A f \in FD : t2[f] = IF f = 0 THEN "null" ELSE
                              IF f = 1 THEN "log" ELSE "free"
      BY <2>3, <3>1 DEF Opened
    <3>3. \/ d \in Lowest(t2)
          \/ d = NoFd /\ (t2[1] = "free" \/ \A g \in FD : t2[g] # "free")
      BY DupFd
    <3>4. d = 2
      <4> 1 \in FD /\ 2 \in FD
        OBVIOUS
      <4> QED
        BY <3>1, <3>2, <3>3 DEF Lowest, Free
    <3>5. /\ fd' \in [FD -> Object]
          /\ \A f \in FD : fd'[f] = IF f = 0 THEN "null" ELSE
                              IF f \in {1, 2} THEN "log" ELSE "free"
      BY <2>5, <3>1, <3>2, <3>4 DEF Opened
    <3> QED
      BY <1>3, <2>5, <3>1, <3>5 DEF LogStart
  <2> HIDE DEF t, t0
  <2> QED
    BY <2>2, <2>4, <2>5 DEF t
<1>4. CASE LogStart /\ log_start_foreground
  <2>1. CASE Panic /\ UNCHANGED <<fd, logfile>>
    BY <1>4, <2>1 DEF LogStart
  <2>2. ASSUME fd[1] # "free", NEW l \in Lowest(fd),
               NEW d \in Dup(Opened(fd, l, "log"), 1),
               LET t == Opened(fd, l, "log") IN fd' = Opened(t, d, t[1]),
               Goto(IF d = 0 THEN "exit" ELSE "config_open"), logfile' = l
        PROVE IInv'
    <3> DEFINE t == Opened(fd, l, "log")
    <3>1. l \in FD /\ fd[l] = "free" /\ \A g \in FD : fd[g] = "free" => l <= g
      BY DEF Lowest, Free
    <3>2. /\ t \in [FD -> Object]
          /\ \A f \in FD : t[f] = IF f = l THEN "log" ELSE fd[f]
      BY DEF Opened
    <3>3. \/ d \in FD /\ t[d] = "free" /\ \A g \in FD : t[g] = "free" => d <= g
          \/ d = NoFd /\ \A g \in FD : t[g] # "free"
      <4>1. \/ d \in Lowest(t)
            \/ d = NoFd /\ (t[1] = "free" \/ \A g \in FD : t[g] # "free")
        BY DupFd
      <4>2. t[1] # "free"
        BY <2>2, <3>2
      <4> QED
        BY <4>1, <4>2 DEF Lowest, Free
    <3>4. /\ fd' \in [FD -> Object]
          /\ \A f \in FD : fd'[f] = IF f = d THEN fd[1] ELSE t[f]
      BY <2>2, <3>1, <3>2 DEF Opened
    <3>5. \A f \in FD : fd[f] \in Base
      BY <1>4 DEF LogStart
    <3>6. TypeOK' /\ Handles' /\ Contents'
      BY <1>4, <2>2, <3>1, <3>2, <3>3, <3>4, <3>5 DEF LogStart
    <3>7. \A f \in 0..2 : fd'[f] # "free"
      BY <3>1, <3>2, <3>3, <3>4, <2>2
    <3> QED
      BY <2>2, <3>2, <3>4, <3>5, <3>6, <3>7
  <2> QED
    BY <1>4, <2>1, <2>2 DEF log_start_foreground
<1>5. CASE ConfigOpen
  BY <1>5 DEF ConfigOpen, OpenFile, Lowest, Free, Opened
<1>6. CASE process_configfile
  BY <1>6 DEF process_configfile, BooleanLine
<1>7. CASE ConfigDone
  BY <1>7 DEF ConfigDone, CloseFile, Closed
<1>8. CASE CheckCfg
  BY <1>8 DEF CheckCfg
<1>9. CASE LockCheck
  BY <1>9 DEF LockCheck, OpenFile, Lowest, Free, Opened
<1>10. CASE LockHeld
  BY <1>10 DEF LockHeld
<1>11. CASE LockUnlinkStale
  BY <1>11 DEF LockUnlinkStale, CloseFile, Closed
<1>12. CASE InitSocket
  <2>1. CASE Panic /\ UNCHANGED <<fd, tortu_sock>>
    BY <1>12, <2>1 DEF InitSocket
  <2>2. ASSUME NEW f \in Lowest(fd), fd' = Opened(fd, f, "socket"),
               tortu_sock' = f, Goto("become_daemon")
        PROVE IInv'
    <3> USE <1>12, <2>2 DEF InitSocket, Lowest, Free, Opened
    <3>1. TypeOK'
      OBVIOUS
    <3>2. Handles'
      OBVIOUS
    <3>3. Contents'
      OBVIOUS
    <3>4. StdReserved'
      OBVIOUS
    <3> QED
      BY <3>1, <3>2, <3>3, <3>4
  <2> QED
    BY <1>12, <2>1, <2>2 DEF InitSocket
<1>13. CASE BecomeDaemon
  BY <1>13 DEF BecomeDaemon, close_all, Closed
<1>14. CASE InitialExits
  BY <1>14 DEF InitialExits, close_all, Closed
<1>15. CASE GetLock
  BY <1>15 DEF GetLock, OpenFile, Lowest, Free, Opened
<1>16. CASE LockWrite
  BY <1>16 DEF LockWrite, CloseFile, Closed
<1>17. CASE Accept
  BY <1>17 DEF Accept, Lowest, Free, Opened
<1>18. CASE DupSocket
  BY <1>18 DEF DupSocket, Lowest, Free, Dup, Opened
<1>19. CASE Fork
  BY <1>19 DEF Fork
<1>20. CASE CloseConnection
  BY <1>20 DEF CloseConnection, Closed
<1>21. CASE Detach
  BY <1>21 DEF Detach, Closed
<1>22. CASE Connect
  <2>1. CASE Goto("exit")
    BY <1>22, <2>1 DEF Connect, Lowest, Free, Opened, Closed
  <2>2. CASE Goto("serve")
    BY <1>22, <2>2 DEF Connect, Lowest, Free, Opened, Closed
  <2> QED
    BY <1>22, <2>1, <2>2 DEF Connect
<1>23. CASE OpenWork
  BY <1>23 DEF OpenWork, OpenFile, Lowest, Free, Opened
<1>24. CASE CloseWork
  BY <1>24 DEF CloseWork, CloseFile, Closed
<1>25. CASE ServeDone
  BY <1>25 DEF ServeDone, Closed
<1>26. CASE UNCHANGED vars
  BY <1>26 DEF vars
<1> QED
  BY <1>1, <1>2, <1>3, <1>4, <1>5, <1>6, <1>7, <1>8, <1>9, <1>10, <1>11,
     <1>12, <1>13, <1>14, <1>15, <1>16, <1>17, <1>18, <1>19, <1>20, <1>21,
     <1>22, <1>23, <1>24, <1>25, <1>26
     DEF Next, Configure, Daemonise, Serve, LogStart
-----------------------------------------------------------------------------
\* The invariant implies what the runs check.
LEMMA IInvSafe == IInv => NothingLeaks /\ ChildDetached
BY DEF IInv, TypeOK, Handles, Contents, Listening, Base, Object, NothingLeaks,
       ChildDetached, PC

\* IInv is an invariant.
LEMMA SpecIInv == Spec => []IInv
<1> QED
  BY InitIInv, StepIInv, PTL DEF Spec

\* Whatever the program inherits and is told, its variables keep their types;
\* in particular what it holds as a descriptor is one.
THEOREM TypeCorrect == Spec => []TypeOK
<1>1. IInv => TypeOK
  BY DEF IInv
<1> QED
  BY <1>1, SpecIInv, PTL

\* stdin, stdout and stderr never become a client, a socket or a file of the
\* daemon, even when the launcher has closed them.
THEOREM StandardReserved == Spec => []StdReserved
<1>1. IInv => StdReserved
  BY DEF IInv
<1> QED
  BY <1>1, SpecIInv, PTL

\* A master that waits for a client holds its listening socket and nothing of
\* an earlier connection, of the lockfile or of the configuration file.
THEOREM MasterLeaksNothing == Spec => []NothingLeaks
<1> QED
  BY IInvSafe, SpecIInv, PTL

\* A child holds both descriptors of its client, and no listening socket.
THEOREM ChildLetsSocketGo == Spec => []ChildDetached
<1> QED
  BY IInvSafe, SpecIInv, PTL
-----------------------------------------------------------------------------
(* -o.                                                                      *)

\* No line of the file takes -o back.
CInv == CheckOnly /\ ("o" \in given => checkcfg)

\* Every step keeps it.
LEMMA StepCInv == CInv /\ [Next]_vars => CInv'
<1> SUFFICES ASSUME CInv, [Next]_vars PROVE CInv'
  OBVIOUS
<1> USE DEF CInv, CheckOnly, Goto, Panic, options, globals, conn
<1>1. CASE \E a \in Argument : process_cmdline(a)
  BY <1>1 DEF process_cmdline
<1>2. CASE CmdlineDone
  BY <1>2 DEF CmdlineDone
<1>3. CASE LogStart
  BY <1>3 DEF LogStart, log_start_daemon, log_start_foreground
<1>4. CASE ConfigOpen
  BY <1>4 DEF ConfigOpen, OpenFile
<1>5. CASE process_configfile
  BY <1>5 DEF process_configfile, BooleanLine
<1>6. CASE ConfigDone \/ CheckCfg
  BY <1>6 DEF ConfigDone, CloseFile, CheckCfg
<1>7. CASE LockCheck \/ LockHeld \/ LockUnlinkStale
  BY <1>7 DEF LockCheck, OpenFile, LockHeld, LockUnlinkStale, CloseFile
<1>8. CASE InitSocket \/ BecomeDaemon \/ InitialExits
  BY <1>8 DEF InitSocket, BecomeDaemon, InitialExits
<1>9. CASE GetLock \/ LockWrite
  BY <1>9 DEF GetLock, OpenFile, LockWrite, CloseFile
<1>10. CASE Accept \/ DupSocket \/ Fork \/ CloseConnection
  BY <1>10 DEF Accept, DupSocket, Fork, CloseConnection
<1>11. CASE Detach \/ Connect \/ OpenWork \/ CloseWork \/ ServeDone
  BY <1>11
     DEF Detach, Connect, OpenWork, OpenFile, CloseWork, CloseFile, ServeDone
<1>12. CASE UNCHANGED vars
  BY <1>12 DEF vars
<1> QED
  BY <1>1, <1>2, <1>3, <1>4, <1>5, <1>6, <1>7, <1>8, <1>9, <1>10, <1>11, <1>12
     DEF Next, Configure, Daemonise, Serve

\* CInv is an invariant.
LEMMA CInvariance == Spec => []CInv
<1>1. Init => CInv
  BY DEF Init, CInv, CheckOnly
<1> QED
  BY <1>1, StepCInv, PTL DEF Spec

\* -o checks the configuration and exits: whatever else is given, it comes
\* before -t, before the lockfile and before the daemon.
THEOREM CheckOnlyHolds == Spec => []CheckOnly
<1>1. CInv => CheckOnly
  BY DEF CInv
<1> QED
  BY <1>1, CInvariance, PTL
-----------------------------------------------------------------------------
(* The log.                                                                 *)

\* Where the process is once it is past become_daemon.
Serving == {"get_lock", "lock_write", "accept", "dup", "fork", "close",
            "detach", "connect", "serve", "work", "exit"}

\* A log that log_start opened for a daemon is among the descriptors that
\* become_daemon spares; without -F it was opened for a daemon, or by -o for a
\* program that gets no further than the check of its file.
LInv ==
  /\ LogIsLog
  /\ pc \notin Serving => role = "initial"
  /\ pc \in {"cmdline", "log_start"} /\ "F" \notin given /\ "o" \notin given
       => ~foregroundonly
  /\ pc \notin {"cmdline", "log_start", "exit"}
       /\ "F" \notin given /\ "o" \notin given
       => logfile \in 0..2

\* Every step keeps it.
LEMMA StepLInv == IInv /\ CInv /\ LInv /\ [Next]_vars => LInv'
<1> SUFFICES ASSUME IInv, CInv, LInv, [Next]_vars PROVE LInv'
  OBVIOUS
<1> USE FdAssumption
<1> USE DEF IInv, TypeOK, Handles, Contents, Listening, LInv, LogIsLog,
            LogLost, Serving, PC, NoFd, FD, Goto, Panic, options, globals, conn
<1>1. CASE \E a \in Argument : process_cmdline(a)
  BY <1>1 DEF process_cmdline
<1>2. CASE CmdlineDone
  BY <1>2 DEF CmdlineDone
<1>3. CASE LogStart
  <2>1. CASE foregroundonly /\ log_start_foreground
    <3>1. CASE Panic /\ UNCHANGED <<fd, logfile>>
      BY <1>3, <2>1, <3>1 DEF LogStart
    <3>2. ASSUME NEW l \in Lowest(fd), NEW d \in Dup(Opened(fd, l, "log"), 1),
                 LET t == Opened(fd, l, "log") IN fd' = Opened(t, d, t[1]),
                 logfile' = l
          PROVE LInv'
      <4>1. d # l
        BY DEF Dup, Opened, Lowest, Free
      <4> QED
        BY <1>3, <2>1, <3>2, <4>1 DEF LogStart, Opened, Lowest, Free
    <3> QED
      BY <2>1, <3>1, <3>2 DEF log_start_foreground
  <2>2. CASE log_start_daemon
    <3> DEFINE t0 == close_all(fd, 0, tortu_sock)
    <3>1. PICK null \in Lowest(t0) :
            LET t == Opened(t0, null, "null")
            IN  \/ \E l \in Lowest(t) :
                     LET t2 == Opened(t, l, "log")
                     IN  /\ \E d \in Dup(t2, 1) : fd' = Opened(t2, d, t2[1])
                         /\ logfile' = l
                         /\ Goto("config_open")
                \/ fd' = t /\ Panic /\ UNCHANGED logfile
      BY <2>2 DEF log_start_daemon
    <3>2. null = 0 /\ \A f \in FD : t0[f] = "free"
      BY <1>3 DEF LogStart, Lowest, Free, close_all, Closed
    <3> DEFINE t == Opened(t0, null, "null")
    <3>3. CASE fd' = t /\ Panic /\ UNCHANGED logfile
      BY <1>3, <3>3 DEF LogStart
    <3>4. ASSUME NEW l \in Lowest(t), NEW d \in Dup(Opened(t, l, "log"), 1),
                 LET t2 == Opened(t, l, "log") IN fd' = Opened(t2, d, t2[1]),
                 logfile' = l
          PROVE LInv'
      <4> DEFINE t2 == Opened(t, l, "log")
      <4>1. l = 1
        BY <3>2 DEF Opened, Lowest, Free
      <4>2. fd'[1] = "log"
        BY <3>4, <4>1 DEF Opened
      <4> HIDE DEF t2, t, t0
      <4> QED
        BY <1>3, <3>4, <4>1, <4>2 DEF LogStart
    <3> QED
      BY <3>1, <3>3, <3>4
  <2> QED
    BY <1>3, <2>1, <2>2 DEF LogStart
<1>4. CASE ConfigOpen
  BY <1>4 DEF ConfigOpen, OpenFile, Opened, Lowest, Free
<1>5. CASE process_configfile
  BY <1>5 DEF process_configfile, BooleanLine
<1>6. CASE ConfigDone
  BY <1>6 DEF ConfigDone, CloseFile, Closed
<1>7. CASE CheckCfg
  BY <1>7 DEF CheckCfg
<1>8. CASE LockCheck
  BY <1>8 DEF LockCheck, OpenFile, Opened, Lowest, Free
<1>9. CASE LockHeld
  BY <1>9 DEF LockHeld
<1>10. CASE LockUnlinkStale
  BY <1>10 DEF LockUnlinkStale, CloseFile, Closed
<1>11. CASE InitSocket
  BY <1>11 DEF InitSocket, Opened, Lowest, Free
<1>12. CASE BecomeDaemon
  BY <1>12 DEF BecomeDaemon, close_all, Closed, CInv, CheckOnly
<1>13. CASE InitialExits
  BY <1>13 DEF InitialExits
<1>14. CASE GetLock
  BY <1>14 DEF GetLock, OpenFile, Opened, Lowest, Free
<1>15. CASE LockWrite
  BY <1>15 DEF LockWrite, CloseFile, Closed
<1>16. CASE Accept
  BY <1>16 DEF Accept, Opened, Lowest, Free
<1>17. CASE DupSocket
  BY <1>17 DEF DupSocket, Dup, Opened, Lowest, Free
<1>18. CASE Fork
  BY <1>18 DEF Fork
<1>19. CASE CloseConnection
  BY <1>19 DEF CloseConnection, Closed
<1>20. CASE Detach
  BY <1>20 DEF Detach, Closed
<1>21. CASE Connect
  BY <1>21 DEF Connect, Opened, Lowest, Free, Closed
<1>22. CASE OpenWork
  BY <1>22 DEF OpenWork, OpenFile, Opened, Lowest, Free
<1>23. CASE CloseWork
  BY <1>23 DEF CloseWork, CloseFile, Closed
<1>24. CASE ServeDone
  BY <1>24 DEF ServeDone, Closed
<1>25. CASE UNCHANGED vars
  BY <1>25 DEF vars
<1> QED
  BY <1>1, <1>2, <1>3, <1>4, <1>5, <1>6, <1>7, <1>8, <1>9, <1>10, <1>11,
     <1>12, <1>13, <1>14, <1>15, <1>16, <1>17, <1>18, <1>19, <1>20, <1>21, <1>22,
     <1>23, <1>24, <1>25
     DEF Next, Configure, Daemonise, Serve

\* The log's descriptor is never closed behind its back, so that log_msg
\* writes to the log and to nothing else, except in a program that -F started
\* in the foreground and its configuration file turned into a daemon.
THEOREM LogStaysLog == Spec => []LogIsLog
<1>1. Init => LInv
  BY DEF Init, LInv, LogIsLog, Serving, NoFd
<1>2. LInv => LogIsLog
  BY DEF LInv
<1> QED
  BY <1>1, <1>2, StepLInv, SpecIInv, CInvariance, PTL DEF Spec
=============================================================================
