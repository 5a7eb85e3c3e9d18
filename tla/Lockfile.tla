------------------------------ MODULE Lockfile ------------------------------
(* The pid lockfile (lockfile.c) as several invocations of the program use  *)
(* it at once: daemons that start (daemon.c, main up to the accept loop),   *)
(* serve and stop, and invocations with -t that terminate the daemon        *)
(* (daemon.c, fratricide).  They share the file system, the process table   *)
(* and the listening ports, and nothing orders their steps.                 *)
(*                                                                          *)
(* The file is an inode: unlink() takes the name away, a process that has   *)
(* it open goes on reading or writing what it opened.  An inode is known by *)
(* the process that created it, and its content can only be that pid.  It   *)
(* has mode 0600 and lies in /tmp, a sticky directory: only its owner and   *)
(* root may read it or take its name away, and only they may signal the     *)
(* process.                                                                 *)
(*                                                                          *)
(* SIGINT is the only stop signal here: it is what fratricide sends, and    *)
(* masked while its own handler runs.  Shutdown has the other signals.      *)
EXTENDS Naturals, FiniteSets

CONSTANTS
  Proc,      \* pids, each given to one invocation
  Port,      \* the port each invocation is configured with
  User,      \* the user who runs each invocation
  Root,      \* the user who may do anything
  NoPid,     \* no file, or no pid read yet
  Serial,    \* is an invocation started only after the last one has settled?
  Faults     \* what may go wrong: a subset of FaultKinds

FaultKinds == {"crash", "disk_full", "pid_reuse"}

ASSUME NoPidAssumption == NoPid \notin Proc
ASSUME FaultAssumption == Faults \subseteq FaultKinds /\ Serial \in BOOLEAN

VARIABLES
  pc,        \* where each invocation is
  killer,    \* was it invoked with -t?
  file,      \* the inode GLOBAL_LOCKFILE_NAME names, by creator
  written,   \* the inodes whose creator has written its pid
  opened,    \* the inode each invocation has read in lockfile_check
  sigint     \* is SIGINT pending for the pid?

vars == <<pc, killer, file, written, opened, sigint>>

\* lockfile_check, then get_lock_or_die, the daemon, its shutdown handler.
Checking == {"fopen", "fscanf", "probe", "unlink"}
Settling == Checking \union {"kill", "socket", "create", "write", "flag"}
Stopping == {"close", "remove", "exit"}
PC == Settling \union Stopping \union {"idle", "serve", "stranger", "dead"}

Alive(p) == pc[p] \notin {"idle", "dead"}

\* May p read and unlink the lockfile of q, and signal q?
May(p, q) == User[p] \in {User[q], Root}

\* kill() of q by p finds it, or fails: with ESRCH, or with EPERM.  A pid that
\* has gone to a stranger may belong to anybody.
Signals(p, q) == Alive(q) /\ (May(p, q) \/ pc[q] = "stranger")
KillFails(p, q) == ~Alive(q) \/ ~May(p, q) \/ pc[q] = "stranger"

\* From bind() until the shutdown handler closes the socket.
Bound(p) == pc[p] \in {"create", "write", "flag", "serve", "close"}

Init ==
  /\ pc = [p \in Proc |-> "idle"]
  /\ killer = [p \in Proc |-> FALSE]
  /\ file = NoPid
  /\ written = {}
  /\ opened = [p \in Proc |-> NoPid]
  /\ sigint = [p \in Proc |-> FALSE]
-----------------------------------------------------------------------------
At(p, l) == pc[p] = l
Goto(p, l) == pc' = [pc EXCEPT ![p] = l]

\* PANIC logs and exits; it leaves the lockfile as it is.
Panic(p) == Goto(p, "dead")

\* lockfile_check returns 0: main goes on to init_socket, fratricide panics
\* because there is nobody to kill.
ReturnZero(p) == IF killer[p] THEN Panic(p) ELSE Goto(p, "socket")

(* Plausible bugs: each stands in for the definition its name starts with,  *)
(* to show that a property can fail.  No specification uses them.           *)

Probe_NotProbed(p) ==
  /\ At(p, "probe")
  /\ Goto(p, "unlink")
  /\ UNCHANGED <<killer, file, written, opened, sigint>>

InitSocket_ReusePort(p) ==
  /\ At(p, "socket")
  /\ Goto(p, "create") \/ Panic(p)
  /\ UNCHANGED <<killer, file, written, opened, sigint>>

FopenLock_Unchecked(p) ==
  /\ At(p, "fopen")
  /\ Goto(p, "fscanf")
  /\ opened' = [opened EXCEPT ![p] = file]
  /\ UNCHANGED <<killer, file, written, sigint>>
-----------------------------------------------------------------------------
(* Starting an invocation.                                                  *)

\* The program is run, with or without -t.
Invoke(p, t) ==
  /\ At(p, "idle")
  /\ Serial => \A q \in Proc : pc[q] \notin Settling
  /\ Goto(p, "fopen")
  /\ killer' = [killer EXCEPT ![p] = t]
  /\ UNCHANGED <<file, written, opened, sigint>>

(* lockfile_check.                                                          *)

\* fopen() fails, because there is no lockfile or because it is another
\* user's: either way nobody is taken to hold the lock.
FopenLock(p) ==
  /\ At(p, "fopen")
  /\ IF file = NoPid \/ ~May(p, file)
       THEN ReturnZero(p) /\ UNCHANGED opened
       ELSE Goto(p, "fscanf") /\ opened' = [opened EXCEPT ![p] = file]
  /\ UNCHANGED <<killer, file, written, sigint>>

\* A lockfile without a pid in it is an error.
FscanfPid(p) ==
  /\ At(p, "fscanf")
  /\ IF opened[p] \in written THEN Goto(p, "probe") ELSE Panic(p)
  /\ UNCHANGED <<killer, file, written, opened, sigint>>

\* kill(pid,0): a pid it finds has the lock, whoever it is.  A new daemon
\* panics on it, fratricide goes on to kill it.  Whatever kill() fails with,
\* the lockfile is taken for stale.
Probe(p) ==
  /\ At(p, "probe")
  /\ \/ KillFails(p, opened[p]) /\ Goto(p, "unlink")
     \/ Signals(p, opened[p]) /\ killer[p] /\ Goto(p, "kill")
     \/ Signals(p, opened[p]) /\ ~killer[p] /\ Panic(p)
  /\ UNCHANGED <<killer, file, written, opened, sigint>>

\* unlink() of a stale lockfile, by name and with its error ignored.
UnlinkStale(p) ==
  /\ At(p, "unlink")
  /\ file' = IF file # NoPid /\ May(p, file) THEN NoPid ELSE file
  /\ ReturnZero(p)
  /\ UNCHANGED <<killer, written, opened, sigint>>

\* fratricide: SIGINT to the pid it read, PANIC if kill() fails meanwhile.
\* The pid cannot be its own, nor can it hold the lock itself.
Kill(p) ==
  /\ At(p, "kill")
  /\ Goto(p, "dead")
  /\ \/ /\ Signals(p, opened[p])
        /\ sigint' = [sigint EXCEPT ![opened[p]] = TRUE]
     \/ KillFails(p, opened[p]) /\ UNCHANGED sigint
  /\ UNCHANGED <<killer, file, written, opened>>

(* The daemon.                                                              *)

\* init_socket, then become_daemon: bind() fails while another process has
\* the port, and may fail for reasons of its own.
InitSocket(p) ==
  /\ At(p, "socket")
  /\ \/ /\ \A q \in Proc : Bound(q) => Port[q] # Port[p]
        /\ Goto(p, "create")
     \/ Panic(p)
  /\ UNCHANGED <<killer, file, written, opened, sigint>>

\* get_lock_or_die: open(O_CREAT|O_EXCL).
CreateLock(p) ==
  /\ At(p, "create")
  /\ IF file = NoPid
       THEN file' = p /\ Goto(p, "write")
       ELSE Panic(p) /\ UNCHANGED file
  /\ UNCHANGED <<killer, written, opened, sigint>>

\* write() of the pid; its result is not looked at.
WritePid(p) ==
  /\ At(p, "write")
  /\ \/ written' = written \union {p}
     \/ "disk_full" \in Faults /\ UNCHANGED written
  /\ Goto(p, "flag")
  /\ UNCHANGED <<killer, file, opened, sigint>>

\* lock_acquired = TRUE, and the accept loop.
Acquired(p) ==
  /\ At(p, "flag")
  /\ Goto(p, "serve")
  /\ UNCHANGED <<killer, file, written, opened, sigint>>

(* Stopping.                                                                *)

\* Somebody sends SIGINT, from a terminal for example.
Interrupt(p) ==
  /\ pc[p] \in {"serve", "socket", "create", "write", "flag"}
  /\ sigint' = [sigint EXCEPT ![p] = TRUE]
  /\ UNCHANGED <<pc, killer, file, written, opened>>

\* SIGINT is taken.  It kills a process that has no handler yet, and one that
\* is still in main: shutdown_signal panics there, on close(-1) before
\* init_socket or in lockfile_remove before lock_acquired is set.  A serving
\* daemon starts its shutdown; SIGINT stays masked from there on.
TakeSigint(p) ==
  /\ sigint[p]
  /\ pc[p] \in Settling \union {"serve", "stranger"}
  /\ Goto(p, IF At(p, "serve") THEN "close" ELSE "dead")
  /\ sigint' = [sigint EXCEPT ![p] = FALSE]
  /\ UNCHANGED <<killer, file, written, opened>>

\* close(tortu_sock).
CloseSocket(p) ==
  /\ At(p, "close")
  /\ Goto(p, "remove")
  /\ UNCHANGED <<killer, file, written, opened, sigint>>

\* lockfile_remove: unlink() by name, PANIC if there is no such file or it is
\* another user's.
RemoveLock(p) ==
  /\ At(p, "remove")
  /\ IF file = NoPid \/ ~May(p, file)
       THEN Panic(p) /\ UNCHANGED file
       ELSE Goto(p, "exit") /\ file' = NoPid
  /\ UNCHANGED <<killer, written, opened, sigint>>

Exit(p) ==
  /\ At(p, "exit")
  /\ Goto(p, "dead")
  /\ UNCHANGED <<killer, file, written, opened, sigint>>

(* The environment.                                                         *)

\* SIGKILL, the out-of-memory killer, or a signal nobody handles.
Crash(p) ==
  /\ "crash" \in Faults
  /\ Alive(p)
  /\ Goto(p, "dead")
  /\ UNCHANGED <<killer, file, written, opened, sigint>>

\* The kernel gives a dead invocation's pid to a program of somebody else.
ReusePid(p) ==
  /\ "pid_reuse" \in Faults
  /\ At(p, "dead")
  /\ Goto(p, "stranger")
  /\ sigint' = [sigint EXCEPT ![p] = FALSE]
  /\ UNCHANGED <<killer, file, written, opened>>
-----------------------------------------------------------------------------
Run(p) ==
  \/ FopenLock(p) \/ FscanfPid(p) \/ Probe(p) \/ UnlinkStale(p) \/ Kill(p)
  \/ InitSocket(p) \/ CreateLock(p) \/ WritePid(p) \/ Acquired(p)
  \/ CloseSocket(p) \/ RemoveLock(p) \/ Exit(p)

Environment(p) ==
  \/ \E t \in BOOLEAN : Invoke(p, t)
  \/ Interrupt(p) \/ Crash(p) \/ ReusePid(p)

Next == \E p \in Proc : Run(p) \/ TakeSigint(p) \/ Environment(p)

Spec == Init /\ [][Next]_vars
-----------------------------------------------------------------------------
(* Invariants.                                                              *)

TypeOK ==
  /\ pc \in [Proc -> PC]
  /\ killer \in [Proc -> BOOLEAN]
  /\ file \in Proc \union {NoPid}
  /\ written \subseteq Proc
  /\ opened \in [Proc -> Proc \union {NoPid}]
  /\ sigint \in [Proc -> BOOLEAN]
  /\ \A p \in Proc : pc[p] \in {"fscanf", "probe", "unlink", "kill"}
                       => opened[p] # NoPid

\* At most one daemon serves at a time.
MutualExclusion ==
  \A p, q \in Proc : pc[p] = "serve" /\ pc[q] = "serve" => p = q

\* The lockfile is the serving daemon's own until it removes it, so that the
\* next invocation finds the pid that really serves.
LockNamesServer ==
  \A p \in Proc : pc[p] \in {"write", "flag", "serve", "close", "remove"}
                    => file = p

\* A lockfile disappears only in its own daemon's shutdown or after that
\* daemon has died: neither a second start nor -t takes it from a live one.
NeverStolen ==
  [][\A p \in Proc : file = p /\ file' = NoPid
       => pc[p] \in {"remove", "dead", "stranger"}]_vars

(* What a comment says of the lockfile, and the code does not keep.         *)

\* "Removes stale lockfiles": a lockfile left by a dead process has a pid in
\* it, without which every later invocation panics.
StaleIsRemovable ==
  file # NoPid /\ ~Alive(file) => file \in written
=============================================================================
