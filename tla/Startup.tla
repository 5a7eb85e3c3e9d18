------------------------------ MODULE Startup ------------------------------
(* One invocation from its command line to its clients: the options         *)
(* (confdata.c), the order of main (daemon.c) and, above all, the table of  *)
(* file descriptors that log_start, init_socket, become_daemon and the      *)
(* accept loop open and close by number.  open(), socket(), accept() and    *)
(* dup() return the lowest free descriptor, so a descriptor that is closed  *)
(* behind its owner's back soon belongs to somebody else.                   *)
(*                                                                          *)
(* The model follows one process: after a fork it goes on as the parent or  *)
(* as the child.                                                            *)
EXTENDS Integers

CONSTANT MaxFd     \* the highest descriptor a process may have

ASSUME FdAssumption == MaxFd \in Nat /\ MaxFd >= 2

\* Of the options that a configuration file may set, those that steer the
\* start.
Settable == {"foregroundonly", "terminate"}

VARIABLES
  pc,              \* where the process is in main, or in what main calls
  role,            \* "initial", "master" or "child"
  given,           \* the command-line arguments that have been read
  foregroundonly, checkcfg, terminate, configfile,  \* the options
  fd,              \* the descriptor table
  logfile,         \* the global of log.c, -1 without a log
  tortu_sock,      \* the global of daemon.c, -1 without a socket
  file,            \* the descriptor of a file that is open for a moment
  clisockdes, clisockdes_dup   \* the connection's two descriptors

options == <<foregroundonly, checkcfg, terminate, configfile>>
conn == <<clisockdes, clisockdes_dup>>
globals == <<logfile, tortu_sock>>
vars == <<pc, role, given, options, fd, globals, file, conn>>

FD == 0..MaxFd
NoFd == -1
Argument == {"F", "c", "t", "o", "h"}

\* What a descriptor may stand for.  "log" is the log file, or in the
\* foreground /dev/stdout opened anew.
Object == {"free", "inherited", "null", "log", "config", "lockfile", "socket",
           "client", "memcached", "work"}

PC == {"cmdline", "log_start", "config_open", "config", "checkcfg",
       "lock_check", "lock_read", "init_socket", "become_daemon", "get_lock",
       "lock_write", "accept", "dup", "fork", "close", "detach", "connect",
       "serve", "work", "exit"}
-----------------------------------------------------------------------------
(* Descriptor tables.                                                       *)

Free(t) == {f \in FD : t[f] = "free"}

\* What open(), socket(), accept() and dup() can return, short of an error: at
\* most one descriptor, and none when the table is full.
Lowest(t) == {f \in Free(t) : \A g \in Free(t) : f <= g}

\* What dup(f) can return; without an error it copies t[f].
Dup(t, f) ==
  IF t[f] = "free" \/ Free(t) = {} THEN {NoFd} ELSE Lowest(t)

\* t with obj at descriptor f, or as it was when f is NoFd.
Opened(t, f, obj) == [g \in FD |-> IF g = f THEN obj ELSE t[g]]

\* t after close() of the descriptors in S, open or not.
Closed(t, S) == [f \in FD |-> IF f \in S THEN "free" ELSE t[f]]

close_all(t, startfd, retainfd) ==
  Closed(t, {f \in FD : f >= startfd /\ f # retainfd})

\* open() of obj, its descriptor kept in file.
OpenFile(obj, next) ==
  \E f \in Lowest(fd) :
    /\ fd' = Opened(fd, f, obj)
    /\ file' = f
    /\ pc' = next

CloseFile(next) ==
  /\ fd' = Closed(fd, {file})
  /\ file' = NoFd
  /\ pc' = next

Goto(l) == pc' = l

\* PANIC and exit().
Panic == Goto("exit")

\* The launcher has left any descriptors open, among 0 to 2 and above.
Init ==
  /\ pc = "cmdline"
  /\ role = "initial"
  /\ given = {}
  /\ foregroundonly = FALSE
  /\ checkcfg = FALSE
  /\ terminate = FALSE
  /\ configfile = FALSE
  /\ fd \in [FD -> {"free", "inherited"}]
  /\ logfile = NoFd
  /\ tortu_sock = NoFd
  /\ file = NoFd
  /\ clisockdes = NoFd
  /\ clisockdes_dup = NoFd
-----------------------------------------------------------------------------
(* Plausible bugs: each stands in for the definition its name starts with,  *)
(* to show that a property can fail.  No specification uses them.           *)

LogStart_NoDup ==
  /\ pc = "log_start"
  /\ fd' = Opened(Opened(close_all(fd, 0, tortu_sock), 0, "null"), 1, "log")
  /\ logfile' = 1
  /\ Goto("config_open")
  /\ UNCHANGED <<role, given, options, tortu_sock, file, conn>>

BecomeDaemon_ClosesAll ==
  /\ pc = "become_daemon"
  /\ fd' = close_all(fd, 0, tortu_sock)
  /\ role' = "master"
  /\ Goto("get_lock")
  /\ UNCHANGED <<given, options, globals, file, conn>>

LockUnlinkStale_KeepsOpen ==
  /\ pc = "lock_read"
  /\ file' = NoFd
  /\ Goto(IF terminate THEN "exit" ELSE "init_socket")
  /\ UNCHANGED <<role, given, options, fd, globals, conn>>

Detach_ClosesClient ==
  /\ pc = "detach"
  /\ fd' = Closed(fd, {clisockdes})
  /\ Goto("connect")
  /\ UNCHANGED <<role, given, options, globals, file, conn>>

CheckCfg_TerminateFirst ==
  /\ pc = "checkcfg"
  /\ Goto(IF checkcfg /\ ~terminate THEN "exit" ELSE "lock_check")
  /\ UNCHANGED <<role, given, options, fd, globals, file, conn>>

DupSocket_NextNumber ==
  /\ pc = "dup"
  /\ fd' = Opened(fd, clisockdes + 1, "client")
  /\ clisockdes_dup' = clisockdes + 1
  /\ Goto("fork")
  /\ UNCHANGED <<role, given, options, globals, file, clisockdes>>
-----------------------------------------------------------------------------
(* Options.                                                                 *)

\* One argument of the command line, in any order and number; -h stands for
\* every argument that ends in the usage message.
process_cmdline(a) ==
  /\ pc = "cmdline"
  /\ given' = given \union {a}
  /\ foregroundonly' = (foregroundonly \/ a \in {"F", "o"})
  /\ checkcfg' = (checkcfg \/ a = "o")
  /\ terminate' = (terminate \/ a = "t")
  /\ configfile' = (configfile \/ a = "c")
  /\ UNCHANGED <<pc, role, fd, globals, file, conn>>

CmdlineDone ==
  /\ pc = "cmdline"
  /\ Goto(IF "h" \in given THEN "exit" ELSE "log_start")
  /\ UNCHANGED <<role, given, options, fd, globals, file, conn>>

\* The configuration file is opened; PANIC if it cannot be.
ConfigOpen ==
  /\ pc = "config_open"
  /\ \/ ~configfile /\ Goto("checkcfg") /\ UNCHANGED <<fd, file>>
     \/ configfile /\ OpenFile("config", "config")
     \/ configfile /\ Panic /\ UNCHANGED <<fd, file>>
  /\ UNCHANGED <<role, given, options, globals, conn>>

\* A line that sets one of them, after the log has been opened.  A line that
\* is bad, or that tries to set checkcfg or configfilename, is skipped.
BooleanLine(option, b) ==
  /\ pc = "config"
  /\ foregroundonly' = IF option = "foregroundonly" THEN b ELSE foregroundonly
  /\ terminate' = IF option = "terminate" THEN b ELSE terminate
  /\ UNCHANGED <<pc, role, given, checkcfg, configfile, fd, globals, file, conn>>

process_configfile == \E o \in Settable, b \in BOOLEAN : BooleanLine(o, b)

ConfigDone ==
  /\ pc = "config"
  /\ CloseFile("checkcfg")
  /\ UNCHANGED <<role, given, options, globals, conn>>

\* -o exits here, before -t and before anything that others can see.
CheckCfg ==
  /\ pc = "checkcfg"
  /\ Goto(IF checkcfg THEN "exit" ELSE "lock_check")
  /\ UNCHANGED <<role, given, options, fd, globals, file, conn>>
-----------------------------------------------------------------------------
(* The log.                                                                 *)

\* A daemon closes whatever it was given, and fills descriptors 0 to 2.
log_start_daemon ==
  \E null \in Lowest(close_all(fd, 0, tortu_sock)) :
    LET t == Opened(close_all(fd, 0, tortu_sock), null, "null")
    IN  \/ \E l \in Lowest(t) :
             LET t2 == Opened(t, l, "log")
             IN  /\ \E d \in Dup(t2, 1) : fd' = Opened(t2, d, t2[1])
                 /\ logfile' = l
                 /\ Goto("config_open")
        \/ fd' = t /\ Panic /\ UNCHANGED logfile

\* In the foreground the log is /dev/stdout, and nothing is closed.  dup(1)
\* must not return 0.
log_start_foreground ==
  \/ /\ fd[1] # "free"
     /\ \E l \in Lowest(fd) :
          LET t == Opened(fd, l, "log")
          IN  /\ \E d \in Dup(t, 1) :
                   /\ fd' = Opened(t, d, t[1])
                   /\ Goto(IF d = 0 THEN "exit" ELSE "config_open")
              /\ logfile' = l
  \/ Panic /\ UNCHANGED <<fd, logfile>>

LogStart ==
  /\ pc = "log_start"
  /\ IF foregroundonly THEN log_start_foreground ELSE log_start_daemon
  /\ UNCHANGED <<role, given, options, tortu_sock, file, conn>>
-----------------------------------------------------------------------------
(* Lock, socket, daemon.                                                    *)

\* lockfile_check, in fratricide or in main.
LockCheck ==
  /\ pc = "lock_check"
  /\ \/ OpenFile("lockfile", "lock_read")
     \/ /\ Goto(IF terminate THEN "exit" ELSE "init_socket")
        /\ UNCHANGED <<fd, file>>
  /\ UNCHANGED <<role, given, options, globals, conn>>

\* A lockfile that is unreadable or belongs to a live process ends this one.
LockHeld ==
  /\ pc = "lock_read"
  /\ Goto("exit")
  /\ UNCHANGED <<role, given, options, fd, globals, file, conn>>

\* A stale lockfile is closed and unlinked; -t then has nobody to kill.
LockUnlinkStale ==
  /\ pc = "lock_read"
  /\ CloseFile(IF terminate THEN "exit" ELSE "init_socket")
  /\ UNCHANGED <<role, given, options, globals, conn>>

InitSocket ==
  /\ pc = "init_socket"
  /\ \/ \E f \in Lowest(fd) :
          /\ fd' = Opened(fd, f, "socket")
          /\ tortu_sock' = f
          /\ Goto("become_daemon")
     \/ Panic /\ UNCHANGED <<fd, tortu_sock>>
  /\ UNCHANGED <<role, given, options, logfile, file, conn>>

\* The new process goes on; with -F, or when fork() fails, this one does.
BecomeDaemon ==
  /\ pc = "become_daemon"
  /\ \/ ~foregroundonly /\ fd' = close_all(fd, 3, tortu_sock)
     \/ UNCHANGED fd
  /\ role' = "master"
  /\ Goto("get_lock")
  /\ UNCHANGED <<given, options, globals, file, conn>>

\* The initial process finishes its log, closes everything and exits.
InitialExits ==
  /\ pc = "become_daemon"
  /\ ~foregroundonly
  /\ logfile' = NoFd
  /\ fd' = close_all(fd, 0, tortu_sock)
  /\ Goto("exit")
  /\ UNCHANGED <<role, given, options, tortu_sock, file, conn>>

GetLock ==
  /\ pc = "get_lock"
  /\ \/ OpenFile("lockfile", "lock_write")
     \/ Panic /\ UNCHANGED <<fd, file>>
  /\ UNCHANGED <<role, given, options, globals, conn>>

LockWrite ==
  /\ pc = "lock_write"
  /\ CloseFile("accept")
  /\ UNCHANGED <<role, given, options, globals, conn>>
-----------------------------------------------------------------------------
(* Connections.                                                             *)

\* An error of accept() is ignored, or ends the master.
Accept ==
  /\ pc = "accept"
  /\ \/ \E f \in Lowest(fd) :
          /\ fd' = Opened(fd, f, "client")
          /\ clisockdes' = f
          /\ Goto("dup")
     \/ Panic /\ UNCHANGED <<fd, clisockdes>>
  /\ UNCHANGED <<role, given, options, globals, file, clisockdes_dup>>

DupSocket ==
  /\ pc = "dup"
  /\ \E f \in Dup(fd, clisockdes) :
       /\ fd' = Opened(fd, f, fd[clisockdes])
       /\ clisockdes_dup' = f
       /\ Goto(IF f = NoFd THEN "close" ELSE "fork")
  /\ UNCHANGED <<role, given, options, globals, file, clisockdes>>

\* The model goes on as the master, who also comes here when it refuses the
\* client or fork() fails, or as the child.
Fork ==
  /\ pc = "fork"
  /\ \/ Goto("close") /\ UNCHANGED role
     \/ Goto("detach") /\ role' = "child"
  /\ UNCHANGED <<given, options, fd, globals, file, conn>>

\* error_shortcut.
CloseConnection ==
  /\ pc = "close"
  /\ fd' = Closed(fd, {clisockdes, clisockdes_dup})
  /\ clisockdes' = NoFd
  /\ clisockdes_dup' = NoFd
  /\ Goto("accept")
  /\ UNCHANGED <<role, given, options, globals, file>>

\* The child's close(tortu_sock).
Detach ==
  /\ pc = "detach"
  /\ fd' = Closed(fd, {tortu_sock})
  /\ Goto("connect")
  /\ UNCHANGED <<role, given, options, globals, file, conn>>

\* memcache_conection; without it the child is done.
Connect ==
  /\ pc = "connect"
  /\ \/ /\ \E f \in Lowest(fd) : fd' = Opened(fd, f, "memcached")
        /\ Goto("serve")
     \/ /\ fd' = Closed(fd, {clisockdes, clisockdes_dup})
        /\ Goto("exit")
  /\ UNCHANGED <<role, given, options, globals, file, conn>>

\* api.json or the pipe of the statistics command.
OpenWork ==
  /\ pc = "serve"
  /\ OpenFile("work", "work")
  /\ UNCHANGED <<role, given, options, globals, conn>>

CloseWork ==
  /\ pc = "work"
  /\ CloseFile("serve")
  /\ UNCHANGED <<role, given, options, globals, conn>>

\* cleanup_resources and _exit().
ServeDone ==
  /\ pc = "serve"
  /\ fd' = Closed(fd, {clisockdes, clisockdes_dup})
  /\ Goto("exit")
  /\ UNCHANGED <<role, given, options, globals, file, conn>>
-----------------------------------------------------------------------------
Configure ==
  \/ (\E a \in Argument : process_cmdline(a)) \/ CmdlineDone
  \/ LogStart \/ ConfigOpen \/ process_configfile \/ ConfigDone \/ CheckCfg

Daemonise ==
  \/ LockCheck \/ LockHeld \/ LockUnlinkStale \/ InitSocket
  \/ BecomeDaemon \/ InitialExits \/ GetLock \/ LockWrite

Serve ==
  \/ Accept \/ DupSocket \/ Fork \/ CloseConnection
  \/ Detach \/ Connect \/ OpenWork \/ CloseWork \/ ServeDone

Next == Configure \/ Daemonise \/ Serve

Spec == Init /\ [][Next]_vars
-----------------------------------------------------------------------------
(* Invariants.                                                              *)

TypeOK ==
  /\ pc \in PC
  /\ role \in {"initial", "master", "child"}
  /\ given \subseteq Argument
  /\ foregroundonly \in BOOLEAN /\ checkcfg \in BOOLEAN
  /\ terminate \in BOOLEAN /\ configfile \in BOOLEAN
  /\ fd \in [FD -> Object]
  /\ \A d \in {logfile, tortu_sock, file, clisockdes, clisockdes_dup} :
       d \in FD \union {NoFd}

\* become_daemon has closed a log that it did not expect above descriptor 2:
\* -F opened it in the foreground, and the file then asked for a daemon.
LogLost ==
  role # "initial" /\ "F" \in given /\ ~foregroundonly /\ logfile > 2

\* What log_msg writes to is the log that log_start has opened: not a closed
\* descriptor, and above all not a client, a lockfile or memcached.  Only a
\* configuration file that takes -F back can make it one.
LogIsLog == logfile # NoFd => fd[logfile] = "log" \/ LogLost

\* printf(), stderr and whatever reads stdin never reach a client, a socket or
\* a file of the daemon, however the program was launched.
StdReserved ==
  pc \notin {"cmdline", "log_start", "exit"}
    => \A f \in 0..2 : fd[f] \in {"inherited", "null", "log"}

\* Between two connections the master has its log, its standard descriptors
\* and its socket open, and nothing that a connection or its start-up needed.
NothingLeaks ==
  pc = "accept" =>
    /\ fd[tortu_sock] = "socket"
    /\ \A f \in FD \ {tortu_sock} : fd[f] \in {"free", "inherited", "null", "log"}

\* A child has let the listening socket go, and keeps its own client.
ChildDetached ==
  role = "child" /\ pc \notin {"detach", "exit"} =>
    /\ \A f \in FD : fd[f] # "socket"
    /\ fd[clisockdes] = "client" /\ fd[clisockdes_dup] = "client"

\* With -o the program neither touches the lockfile, nor signals a daemon,
\* nor becomes one, whatever else it is told on the command line or by file.
CheckOnly ==
  "o" \in given =>
    pc \in {"cmdline", "log_start", "config_open", "config", "checkcfg", "exit"}
=============================================================================
