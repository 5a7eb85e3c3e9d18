------------------------------ MODULE Shutdown ------------------------------
(* How one daemon stops: the master and the children it has forked, the     *)
(* stop signals they get, and what shutdown_signal (daemon.c) does in each  *)
(* of them to the process group, the listening socket and the lockfile.     *)
(*                                                                          *)
(* A handler never returns (it exits or panics), so a second, different     *)
(* stop signal simply starts it again from the top, with what the first run *)
(* has already done in place.  A child is forked with the master's flag     *)
(* master_process still set, and clears it a few instructions later: until  *)
(* then its handler takes the master's branch.                              *)
EXTENDS Naturals, FiniteSets

CONSTANTS
  Master,       \* the master daemon's pid
  Child,        \* pids of the children
  MaxSignals    \* bound on the stop signals sent from outside

ASSUME MasterAssumption == Master \notin Child
ASSUME BoundAssumption == MaxSignals \in Nat

VARIABLES
  pc,              \* where each process is
  status,          \* how it ended
  master_process,  \* its copy of the flag
  lock_acquired,   \* its copy of the flag
  tortu_sock,      \* does it have the listening socket open?
  pending,         \* the stop signals pending for it
  masked,          \* the stop signals whose handler is on its stack
  term_ignored,    \* has it set SIGTERM to SIG_IGN?
  file,            \* is there a lockfile?
  leader,          \* does the master lead its process group?
  daemonised,      \* has become_daemon forked?
  sent,            \* stop signals sent so far
  child_hit        \* has one of them been sent to a child alone? (history)

vars == <<pc, status, master_process, lock_acquired, tortu_sock, pending,
          masked, term_ignored, file, leader, daemonised, sent, child_hit>>
signals == <<pending, masked, term_ignored>>
startup == <<leader, daemonised>>
sends == <<sent, child_hit>>

Proc == {Master} \union Child
StopSignal == {"SIGINT", "SIGTERM"}

\* The master starts up and serves; a child is forked, clears its flag and
\* talks to its client; then either branch of shutdown_signal.
Starting == {"start", "lock", "flag"}
MasterBranch == {"ignore", "kill", "close", "remove", "finish"}
PC == Starting \union MasterBranch \union
      {"none", "serve", "window", "detach", "run", "child_finish", "dead"}

Alive(p) == pc[p] \notin {"none", "dead"}

\* Init is right after init_socket, with the signal handlers in place.  A
\* daemon started from an interactive shell leads its group, one started
\* from a script does not.
Init ==
  /\ pc = [p \in Proc |-> IF p = Master THEN "start" ELSE "none"]
  /\ status = [p \in Proc |-> "none"]
  /\ master_process = [p \in Proc |-> p = Master]
  /\ lock_acquired = [p \in Proc |-> FALSE]
  /\ tortu_sock = [p \in Proc |-> p = Master]
  /\ pending = [p \in Proc |-> {}]
  /\ masked = [p \in Proc |-> {}]
  /\ term_ignored = [p \in Proc |-> FALSE]
  /\ file = FALSE
  /\ leader \in BOOLEAN
  /\ daemonised = FALSE
  /\ sent = 0
  /\ child_hit = FALSE
-----------------------------------------------------------------------------
At(p, l) == pc[p] = l
Goto(p, l) == pc' = [pc EXCEPT ![p] = l]

\* The process ends; the kernel closes its socket.
End(p, s) ==
  /\ Goto(p, "dead")
  /\ status' = [status EXCEPT ![p] = s]
  /\ tortu_sock' = [tortu_sock EXCEPT ![p] = FALSE]

\* PANIC exits and leaves the lockfile as it is.
Panic(p) == End(p, "failure")

\* A stop signal for every live process of P that does not ignore it.
Send(P, s) ==
  pending' = [q \in Proc |->
    IF q \in P /\ Alive(q) /\ ~(s = "SIGTERM" /\ term_ignored[q])
      THEN pending[q] \union {s} ELSE pending[q]]

\* shutdown_signal, by the process's own copy of master_process.
EnterHandler(p) ==
  Goto(p, IF master_process[p] THEN "ignore" ELSE "child_finish")

(* Plausible bugs: each stands in for the definition its name starts with,  *)
(* to show that a property can fail.  No specification uses them.           *)

FinishChild_RemovesLock(c) ==
  /\ At(c, "child_finish")
  /\ file' = FALSE
  /\ End(c, "failure")
  /\ UNCHANGED <<master_process, lock_acquired, signals, startup, sends>>

KillGroup_MasterOnly(p) ==
  /\ At(p, "kill")
  /\ Goto(p, "close")
  /\ UNCHANGED <<status, master_process, lock_acquired, tortu_sock, signals,
                 file, startup, sends>>

IgnoreTerm_NotIgnored(p) ==
  /\ At(p, "ignore")
  /\ Goto(p, "kill")
  /\ UNCHANGED <<status, master_process, lock_acquired, tortu_sock, signals,
                 file, startup, sends>>

FinishChild_Returns(c) ==
  /\ At(c, "child_finish")
  /\ Goto(c, "run")
  /\ masked' = [masked EXCEPT ![c] = {}]
  /\ UNCHANGED <<status, master_process, lock_acquired, tortu_sock, pending,
                 term_ignored, file, startup, sends>>

CloseSocket_Retries(p) ==
  /\ At(p, "close")
  /\ tortu_sock[p]
  /\ tortu_sock' = [tortu_sock EXCEPT ![p] = FALSE]
  /\ Goto(p, "remove")
  /\ UNCHANGED <<status, master_process, lock_acquired, signals, file,
                 startup, sends>>

KillGroup_Sigkill(p) ==
  /\ At(p, "kill")
  /\ IF p = Master /\ leader THEN Send(Proc, "SIGKILL") ELSE UNCHANGED pending
  /\ Goto(p, "close")
  /\ UNCHANGED <<status, master_process, lock_acquired, tortu_sock, masked,
                 term_ignored, file, startup, sends>>
-----------------------------------------------------------------------------
(* Start-up.                                                                *)

\* become_daemon: the new process leads a session of its own.  With -F it is
\* not called; if its fork() fails main logs it and goes on as it is.
BecomeDaemon ==
  /\ At(Master, "start")
  /\ \/ leader' = TRUE /\ daemonised' = TRUE
     \/ UNCHANGED <<leader, daemonised>>
  /\ Goto(Master, "lock")
  /\ UNCHANGED <<status, master_process, lock_acquired, tortu_sock, signals,
                 file, sends>>

\* get_lock_or_die creates the lockfile and only then sets lock_acquired.
CreateLock ==
  /\ At(Master, "lock")
  /\ file' = TRUE
  /\ Goto(Master, "flag")
  /\ UNCHANGED <<status, master_process, lock_acquired, tortu_sock, signals,
                 startup, sends>>

Acquired ==
  /\ At(Master, "flag")
  /\ lock_acquired' = [lock_acquired EXCEPT ![Master] = TRUE]
  /\ Goto(Master, "serve")
  /\ UNCHANGED <<status, master_process, tortu_sock, signals, file, startup,
                 sends>>

(* Serving.                                                                 *)

\* fork(): the child has the master's flags and its socket, no signal pending.
Fork(c) ==
  /\ At(Master, "serve")
  /\ At(c, "none")
  /\ Goto(c, "window")
  /\ master_process' = [master_process EXCEPT ![c] = master_process[Master]]
  /\ lock_acquired' = [lock_acquired EXCEPT ![c] = lock_acquired[Master]]
  /\ tortu_sock' = [tortu_sock EXCEPT ![c] = tortu_sock[Master]]
  /\ UNCHANGED <<status, signals, file, startup, sends>>

\* master_process = FALSE in the child.
ClearFlag(c) ==
  /\ At(c, "window")
  /\ master_process' = [master_process EXCEPT ![c] = FALSE]
  /\ Goto(c, "detach")
  /\ UNCHANGED <<status, lock_acquired, tortu_sock, signals, file, startup,
                 sends>>

\* close(tortu_sock) in the child.
Detach(c) ==
  /\ At(c, "detach")
  /\ tortu_sock' = [tortu_sock EXCEPT ![c] = FALSE]
  /\ Goto(c, "run")
  /\ UNCHANGED <<status, master_process, lock_acquired, signals, file,
                 startup, sends>>

\* The child has answered its client.
ChildDone(c) ==
  /\ At(c, "run")
  /\ End(c, "done")
  /\ UNCHANGED <<master_process, lock_acquired, signals, file, startup, sends>>

\* The child faults: SIGSEGV has the same handler as the stop signals.
ChildFaults(c) ==
  /\ At(c, "run")
  /\ EnterHandler(c)
  /\ UNCHANGED <<status, master_process, lock_acquired, tortu_sock, signals,
                 file, startup, sends>>

\* The accept loop panics, on an accept() error for example.
MasterPanics ==
  /\ At(Master, "serve")
  /\ Panic(Master)
  /\ UNCHANGED <<master_process, lock_acquired, signals, file, startup, sends>>
-----------------------------------------------------------------------------
(* Stop signals.                                                            *)

\* kill <pid>, or -t.
SignalMaster(s) ==
  /\ sent < MaxSignals
  /\ Alive(Master)
  /\ Send({Master}, s)
  /\ sent' = sent + 1
  /\ UNCHANGED <<pc, status, master_process, lock_acquired, tortu_sock,
                 masked, term_ignored, file, startup, child_hit>>

\* Ctrl-C reaches the whole group of a daemon that still has its terminal.
TerminalInterrupt ==
  /\ sent < MaxSignals
  /\ ~daemonised
  /\ Send(Proc, "SIGINT")
  /\ sent' = sent + 1
  /\ UNCHANGED <<pc, status, master_process, lock_acquired, tortu_sock,
                 masked, term_ignored, file, startup, child_hit>>

\* kill <pid of a child>.
SignalOneChild(c, s) ==
  /\ sent < MaxSignals
  /\ Alive(c)
  /\ Send({c}, s)
  /\ sent' = sent + 1
  /\ child_hit' = TRUE
  /\ UNCHANGED <<pc, status, master_process, lock_acquired, tortu_sock,
                 masked, term_ignored, file, startup>>

\* Delivery, wherever the process is: a signal is masked only while its own
\* handler runs (sa_mask is empty).
TakeSignal(p, s) ==
  /\ Alive(p)
  /\ s \in pending[p] \ masked[p]
  /\ pending' = [pending EXCEPT ![p] = @ \ {s}]
  /\ masked' = [masked EXCEPT ![p] = @ \union {s}]
  /\ EnterHandler(p)
  /\ UNCHANGED <<status, master_process, lock_acquired, tortu_sock,
                 term_ignored, file, startup, sends>>

(* shutdown_signal, the master's branch.                                    *)

\* SIG_IGN for SIGTERM, which also discards one that is pending.
IgnoreTerm(p) ==
  /\ At(p, "ignore")
  /\ term_ignored' = [term_ignored EXCEPT ![p] = TRUE]
  /\ pending' = [pending EXCEPT ![p] = @ \ {"SIGTERM"}]
  /\ Goto(p, "kill")
  /\ UNCHANGED <<status, master_process, lock_acquired, tortu_sock, masked,
                 file, startup, sends>>

\* kill(-pid,SIGTERM): there is such a group only if p leads it.  The error
\* is logged and the shutdown goes on.
KillGroup(p) ==
  /\ At(p, "kill")
  /\ IF p = Master /\ leader THEN Send(Proc, "SIGTERM") ELSE UNCHANGED pending
  /\ Goto(p, "close")
  /\ UNCHANGED <<status, master_process, lock_acquired, tortu_sock, masked,
                 term_ignored, file, startup, sends>>

\* close(tortu_sock), PANIC if an earlier run of the handler has closed it.
CloseSocket(p) ==
  /\ At(p, "close")
  /\ IF tortu_sock[p]
       THEN /\ tortu_sock' = [tortu_sock EXCEPT ![p] = FALSE]
            /\ Goto(p, "remove")
            /\ UNCHANGED status
       ELSE Panic(p)
  /\ UNCHANGED <<master_process, lock_acquired, signals, file, startup, sends>>

\* lockfile_remove: PANIC without lock_acquired, or if there is no file.
RemoveLock(p) ==
  /\ At(p, "remove")
  /\ IF lock_acquired[p] /\ file
       THEN /\ file' = FALSE
            /\ lock_acquired' = [lock_acquired EXCEPT ![p] = FALSE]
            /\ Goto(p, "finish")
            /\ UNCHANGED <<status, tortu_sock>>
       ELSE Panic(p) /\ UNCHANGED <<file, lock_acquired>>
  /\ UNCHANGED <<master_process, signals, startup, sends>>

\* log_finish, close_all, exit(EXIT_SUCCESS).
Finish(p) ==
  /\ At(p, "finish")
  /\ End(p, "success")
  /\ UNCHANGED <<master_process, lock_acquired, signals, file, startup, sends>>

(* The child's branch: log_finish, close_all, _exit(EXIT_FAILURE).          *)
FinishChild(c) ==
  /\ At(c, "child_finish")
  /\ End(c, "failure")
  /\ UNCHANGED <<master_process, lock_acquired, signals, file, startup, sends>>
-----------------------------------------------------------------------------
Handler(p) ==
  \/ IgnoreTerm(p) \/ KillGroup(p) \/ CloseSocket(p) \/ RemoveLock(p)
  \/ Finish(p) \/ FinishChild(p)
  \/ \E s \in StopSignal : TakeSignal(p, s)

ChildStep(c) == ClearFlag(c) \/ Detach(c)

Environment ==
  \/ BecomeDaemon \/ CreateLock \/ Acquired \/ MasterPanics
  \/ TerminalInterrupt
  \/ \E s \in StopSignal : SignalMaster(s)
  \/ \E c \in Child : \/ Fork(c) \/ ChildDone(c) \/ ChildFaults(c)
                      \/ \E s \in StopSignal : SignalOneChild(c, s)

Next ==
  \/ \E p \in Proc : Handler(p)
  \/ \E c \in Child : ChildStep(c)
  \/ Environment

Spec == Init /\ [][Next]_vars

(* Signals are delivered and handlers run; nothing makes a client leave, so *)
(* ChildDone has no fairness.                                               *)
FairSpec == Spec /\ \A p \in Proc : WF_vars(Handler(p))
-----------------------------------------------------------------------------
(* Invariants.                                                              *)

TypeOK ==
  /\ pc \in [Proc -> PC]
  /\ status \in [Proc -> {"none", "done", "success", "failure"}]
  /\ master_process \in [Proc -> BOOLEAN]
  /\ lock_acquired \in [Proc -> BOOLEAN]
  /\ tortu_sock \in [Proc -> BOOLEAN]
  /\ pending \in [Proc -> SUBSET StopSignal]
  /\ masked \in [Proc -> SUBSET StopSignal]
  /\ term_ignored \in [Proc -> BOOLEAN]
  /\ file \in BOOLEAN
  /\ leader \in BOOLEAN
  /\ daemonised \in BOOLEAN
  /\ sent \in 0..MaxSignals
  /\ child_hit \in BOOLEAN

\* A live child on its way out: the signal is pending or its handler runs.
Leaving(c) == pc[c] \in MasterBranch \union {"child_finish"} \/ pending[c] # {}

\* A master that reports success has given up the lock and, if it led its
\* group, has told every child to go, including one forked a moment before.
StoppedCleanly ==
  status[Master] = "success" =>
    /\ ~file
    /\ leader => \A c \in Child : Alive(c) => Leaving(c)

\* While the master serves, undisturbed by a stop signal, its lockfile is
\* there: a child that ends, faults or gets the group's signal does not take
\* it along.  (A child signalled alone, just after its fork, would.)
LockHeldWhileServing ==
  pc[Master] = "serve" /\ pending[Master] = {} /\ ~child_hit => file

\* c has removed the lockfile from the master's branch of shutdown_signal.
TookLock(c) == master_process[c] /\ ~lock_acquired[c]

\* A master that panics in shutdown_signal was sent both signals from outside,
\* or was stopped before it had the lock, or a child forked a moment before
\* took the lockfile away: the SIGTERM it sends to its own group never starts
\* its handler again, and no other child disturbs the shutdown.
StopFailureExplained ==
  status[Master] = "failure" /\ masked[Master] # {} =>
    \/ sent > 1 /\ masked[Master] = StopSignal
    \/ ~lock_acquired[Master]
    \/ \E c \in Child : TookLock(c)

(* Liveness.                                                                *)

\* A serving master that is sent a stop signal ends.
MasterStops ==
  pc[Master] = "serve" /\ pending[Master] # {} ~> pc[Master] = "dead"

\* When a group leader has stopped with success no child outlives it for
\* long, whether or not its client has left.
ChildrenGone ==
  status[Master] = "success" /\ leader
    ~> \A c \in Child : ~Alive(c)

(* What a comment says of the shutdown, and the code does not keep.         *)

\* "both the initial process and the master daemon process have
\* master_process set", and no other: the master that holds the lock finds
\* its lockfile there when it comes to remove it, and does not panic.
MasterFindsItsLock ==
  pc[Master] = "remove" /\ lock_acquired[Master] => file
=============================================================================
