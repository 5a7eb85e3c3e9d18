----------------------------- MODULE ChildPool -----------------------------
(* The master daemon's accept loop (daemon.c, main) and the SIGCHLD handler *)
(* that interrupts it (daemon.c, dead_child), sharing child_count without   *)
(* any lock.  Every step of the loop that touches state the handler also    *)
(* touches is an action of its own, so that the handler may run between any *)
(* two of them: in particular child_count++ and child_count-- are a load    *)
(* and a store, which is what the Makefile's -g (no -O) compiles them to.   *)
(*                                                                          *)
(* The handler runs to completion before the loop goes on: SIGCHLD is       *)
(* masked while dead_child runs.  SIGCHLD is not queued: a second death     *)
(* before delivery leaves the one pending bit set.  And sa_flags = 0 has no *)
(* SA_NOCLDSTOP: a child that is stopped or continued raises SIGCHLD too,   *)
(* for which dead_child's wait3(), without WUNTRACED, finds nobody.         *)
EXTENDS Naturals, FiniteSets

CONSTANTS
  Child,          \* process ids the kernel may give to children
  maxchild,       \* global_options->maxchild
  AcceptErrors,   \* errno values accept() may fail with, EINTR aside
  LogSyncFails    \* log_msg's fsync() may fail: the log is a terminal or a pipe

\* filtered_accept's list; EWOULDBLOCK is EAGAIN on Linux.
squash_errors ==
  {"ECONNREFUSED", "ECONNRESET", "EHOSTDOWN", "EHOSTUNREACH", "EINTR",
   "ENETDOWN", "ENETUNREACH", "ENOTCONN", "EAGAIN"}

Errno == AcceptErrors \union {"OK", "EINTR", "EAGAIN", "EINVAL"}

ASSUME ChildAssumption == IsFiniteSet(Child)
ASSUME MaxAssumption == maxchild \in Nat
ASSUME ErrnoAssumption ==
  /\ AcceptErrors \intersect {"OK", "EINTR", "EINVAL"} = {}
  /\ LogSyncFails \in BOOLEAN

VARIABLES
  pc,           \* where the loop is
  reg,          \* the register child_count is loaded into by ++ and --
  child_count,  \* the global counter
  child,        \* the kernel's process table: what each pid is
  sigchld,      \* is SIGCHLD pending for the master
  suspended,    \* has a child ever been stopped or continued (history)
  handler,      \* "idle", or "wait3" while dead_child runs
  errno,        \* the master's errno
  accept_err,   \* what accept() last failed with (history)
  incoming,     \* the two stdio streams of the connection: NULL, open, or
  outgoing      \* a pointer to a stream that has been closed

vars == <<pc, reg, child_count, child, sigchld, suspended, handler, errno,
          accept_err, incoming, outgoing>>
kernel == <<child, sigchld, suspended, handler>>
streams == <<incoming, outgoing>>
errors == <<errno, accept_err>>

PC == {"accept", "interrupted", "squash", "test", "dup", "check",
       "incr", "incr_store", "fork", "decr", "decr_store", "close", "panic"}

Running == {c \in Child : child[c] = "running"}
Stopped == {c \in Child : child[c] = "stopped"}
Zombies == {c \in Child : child[c] = "zombie"}
Unreaped == Running \union Stopped \union Zombies

Init ==
  /\ pc = "accept"
  /\ reg = 0
  /\ child_count = 0
  /\ child = [c \in Child |-> "free"]
  /\ sigchld = FALSE
  /\ suspended = FALSE
  /\ handler = "idle"
  /\ errno = "OK"
  /\ accept_err = "OK"
  /\ incoming = "null"
  /\ outgoing = "null"
-----------------------------------------------------------------------------
(* Steps of the loop and of the handler.                                    *)

\* The loop is at l and no handler is on top of it.
At(l) == pc = l /\ handler = "idle"
Goto(l) == pc' = l

\* log_msg's fsync() overwrites errno when the log is not a regular file,
\* if the log level lets the message through at all.
LogMsg ==
  \/ UNCHANGED errno
  \/ LogSyncFails /\ errno' = "EINVAL"

(* Plausible bugs: each stands in for the definition its name starts with,  *)
(* to show that a property can fail.  No specification uses them.           *)

CheckLimit_OffByOne ==
  /\ At("check")
  /\ Goto(IF child_count > maxchild THEN "close" ELSE "incr")
  /\ UNCHANGED <<reg, child_count, kernel, errors, streams>>

SquashError_NotEINTR ==
  /\ At("squash")
  /\ errno' = IF errno \in squash_errors \ {"EINTR"} THEN "EAGAIN" ELSE errno
  /\ Goto("test")
  /\ UNCHANGED <<reg, child_count, kernel, accept_err, streams>>

DupFails_Continue ==
  /\ At("dup")
  /\ Goto("accept")
  /\ UNCHANGED <<reg, child_count, kernel, errors, streams>>

ForkFails_KeepsSlot ==
  /\ At("fork")
  /\ Goto("close")
  /\ UNCHANGED <<reg, child_count, kernel, errors, streams>>

StoreDecrement_Continues ==
  /\ At("decr_store")
  /\ child_count' = reg - 1
  /\ Goto("accept")
  /\ UNCHANGED <<reg, kernel, errors, streams>>

dead_child_ReapsAll ==
  /\ handler = "wait3"
  /\ pc # "panic"
  /\ child_count' = child_count - Cardinality(Zombies)
  /\ child' = [c \in Child |-> IF c \in Zombies THEN "free" ELSE child[c]]
  /\ handler' = "idle"
  /\ LogMsg
  /\ UNCHANGED <<pc, reg, sigchld, suspended, accept_err, streams>>

dead_child_NoReap ==
  /\ handler = "wait3"
  /\ pc # "panic"
  /\ child_count' = IF child_count = 0 THEN 0 ELSE child_count - 1
  /\ handler' = "idle"
  /\ LogMsg
  /\ UNCHANGED <<pc, reg, child, sigchld, suspended, accept_err, streams>>
-----------------------------------------------------------------------------
(* The accept loop.                                                         *)

\* accept() returns a connection; outgoing is opened on it.
AcceptConnection ==
  /\ At("accept")
  /\ outgoing' = "open"
  /\ Goto("dup")
  /\ UNCHANGED <<reg, child_count, kernel, errors, incoming>>

\* accept() returns -1 for a reason of its own.
AcceptFails(e) ==
  /\ At("accept")
  /\ errno' = e
  /\ accept_err' = e
  /\ Goto("squash")
  /\ UNCHANGED <<reg, child_count, kernel, streams>>

\* accept() was blocked when a handler ran: it returns -1 with EINTR, and
\* the library stores errno after the handler has returned.
AcceptInterrupted ==
  /\ At("interrupted")
  /\ errno' = "EINTR"
  /\ accept_err' = "EINTR"
  /\ Goto("squash")
  /\ UNCHANGED <<reg, child_count, kernel, streams>>

\* filtered_accept turns the errors of its list into EAGAIN.
SquashError ==
  /\ At("squash")
  /\ errno' = IF errno \in squash_errors THEN "EAGAIN" ELSE errno
  /\ Goto("test")
  /\ UNCHANGED <<reg, child_count, kernel, accept_err, streams>>

\* main continues on EAGAIN and panics on anything else.
TestErrno ==
  /\ At("test")
  /\ Goto(IF errno = "EAGAIN" THEN "accept" ELSE "panic")
  /\ UNCHANGED <<reg, child_count, kernel, errors, streams>>

\* dup() gives the descriptor incoming is opened on.
DupSocket ==
  /\ At("dup")
  /\ incoming' = "open"
  /\ Goto("check")
  /\ UNCHANGED <<reg, child_count, kernel, errors, outgoing>>

\* dup() fails: the client is told and the connection is closed.
DupFails ==
  /\ At("dup")
  /\ Goto("close")
  /\ UNCHANGED <<reg, child_count, kernel, errors, streams>>

\* "Maximum processes reached, try again later", or go on to fork.
CheckLimit ==
  /\ At("check")
  /\ Goto(IF child_count = maxchild THEN "close" ELSE "incr")
  /\ UNCHANGED <<reg, child_count, kernel, errors, streams>>

\* child_count++, before the fork, in two instructions.
LoadForIncrement ==
  /\ At("incr")
  /\ reg' = child_count
  /\ Goto("incr_store")
  /\ UNCHANGED <<child_count, kernel, errors, streams>>

StoreIncrement ==
  /\ At("incr_store")
  /\ child_count' = reg + 1
  /\ Goto("fork")
  /\ UNCHANGED <<reg, kernel, errors, streams>>

\* fork() in the parent: the child runs from here on.
Fork(c) ==
  /\ At("fork")
  /\ child[c] = "free"
  /\ child' = [child EXCEPT ![c] = "running"]
  /\ Goto("close")
  /\ UNCHANGED <<reg, child_count, sigchld, suspended, handler, errors, streams>>

\* fork() fails: the increment is undone, again in two instructions.
ForkFails ==
  /\ At("fork")
  /\ Goto("decr")
  /\ UNCHANGED <<reg, child_count, kernel, errors, streams>>

LoadForDecrement ==
  /\ At("decr")
  /\ reg' = child_count
  /\ Goto("decr_store")
  /\ UNCHANGED <<child_count, kernel, errors, streams>>

StoreDecrement ==
  /\ At("decr_store")
  /\ child_count' = reg - 1
  /\ Goto("close")
  /\ UNCHANGED <<reg, kernel, errors, streams>>

\* error_shortcut: the parent's copies of the streams are closed and the
\* pointers reset, whichever way the loop came here.
CloseConnection ==
  /\ At("close")
  /\ incoming' = "null"
  /\ outgoing' = "null"
  /\ Goto("accept")
  /\ UNCHANGED <<reg, child_count, kernel, errors>>
-----------------------------------------------------------------------------
(* Children and signals.                                                    *)

\* A child ends, by itself or killed.  SIGCHLD becomes pending, once, however
\* many children end before it is delivered.
ChildExit(c) ==
  /\ pc # "panic"
  /\ child[c] \in {"running", "stopped"}
  /\ child' = [child EXCEPT ![c] = "zombie"]
  /\ sigchld' = TRUE
  /\ UNCHANGED <<pc, reg, child_count, suspended, handler, errors, streams>>

\* A child is stopped, or a stopped one continued (SIGSTOP, SIGCONT, or job
\* control under -F): SIGCHLD as well, with nobody to be waited for.
Suspend(c, from, to) ==
  /\ pc # "panic"
  /\ child[c] = from
  /\ child' = [child EXCEPT ![c] = to]
  /\ sigchld' = TRUE
  /\ suspended' = TRUE
  /\ UNCHANGED <<pc, reg, child_count, handler, errors, streams>>

ChildStops(c) == Suspend(c, "running", "stopped")
ChildContinues(c) == Suspend(c, "stopped", "running")

\* SIGCHLD is delivered between two steps of the loop, or while accept() is
\* blocked, which it makes return EINTR (sa_flags has no SA_RESTART).
DeliverSigchld ==
  /\ pc # "panic"
  /\ sigchld
  /\ handler = "idle"
  /\ sigchld' = FALSE
  /\ handler' = "wait3"
  /\ \/ pc = "accept" /\ Goto("interrupted")
     \/ UNCHANGED pc
  /\ UNCHANGED <<reg, child_count, child, suspended, errors, streams>>

\* One child is reaped and its slot given back.
Reap(c) ==
  /\ child[c] = "zombie"
  /\ child' = [child EXCEPT ![c] = "free"]
  /\ child_count' = child_count - 1
  /\ handler' = "idle"
  /\ LogMsg
  /\ UNCHANGED <<pc, reg, sigchld, suspended, accept_err, streams>>

\* wait3() finds nobody, or the counter is 0: PANIC, inside the handler.
ReaperPanics ==
  /\ Zombies = {} \/ child_count = 0
  /\ Goto("panic")
  /\ UNCHANGED <<reg, child_count, kernel, errors, streams>>

\* One wait3() per signal.
dead_child ==
  /\ handler = "wait3"
  /\ pc # "panic"
  /\ \/ ReaperPanics
     \/ child_count # 0 /\ \E c \in Child : Reap(c)
-----------------------------------------------------------------------------
Master ==
  \/ AcceptInterrupted \/ SquashError \/ TestErrno
  \/ DupSocket \/ DupFails \/ CheckLimit
  \/ LoadForIncrement \/ StoreIncrement
  \/ ForkFails \/ (\E c \in Child : Fork(c))
  \/ LoadForDecrement \/ StoreDecrement
  \/ CloseConnection

\* What clients and the network do to the loop.
Environment ==
  \/ AcceptConnection
  \/ \E e \in AcceptErrors : AcceptFails(e)
  \/ \E c \in Child : ChildExit(c) \/ ChildStops(c) \/ ChildContinues(c)

Next == Master \/ Environment \/ DeliverSigchld \/ dead_child

Spec == Init /\ [][Next]_vars

(* The scheduler runs the master, a pending signal is delivered, and a      *)
(* handler that has started finishes.  Children that run end when their     *)
(* clients close: nothing in the code makes them, so this is assumed of the *)
(* clients and only where a property says so.  Nobody has to stop a child,  *)
(* nor to continue or kill a stopped one.                                   *)
Fairness ==
  /\ WF_vars(Master)
  /\ WF_vars(DeliverSigchld)
  /\ WF_vars(dead_child)

ClientsLeave ==
  \A c \in Child : WF_vars(child[c] = "running" /\ ChildExit(c))

FairSpec == Spec /\ Fairness /\ ClientsLeave
-----------------------------------------------------------------------------
(* Invariants.                                                              *)

\* Every variable has its type; the counter never wraps below zero or passes
\* the configured limit (it is unsigned, and CheckLimit tests for equality).
TypeOK ==
  /\ pc \in PC
  /\ reg \in 0..maxchild
  /\ child_count \in 0..maxchild
  /\ child \in [Child -> {"free", "running", "stopped", "zombie"}]
  /\ sigchld \in BOOLEAN
  /\ suspended \in BOOLEAN
  /\ handler \in {"idle", "wait3"}
  /\ errno \in Errno
  /\ accept_err \in Errno
  /\ incoming \in {"null", "open", "closed"}
  /\ outgoing \in {"null", "open", "closed"}

\* Never more processes than maxchild, whatever the handler does between the
\* test of the limit and the fork.
ClientsLimited == Cardinality(Unreaped) <= maxchild

\* When dead_child runs there is a child to reap, unless the signal was that
\* of a stop or a continue; and a child to reap has its slot counted, always.
\* So of dead_child's PANICs "no child exited" takes the server down only
\* after a child was stopped, and "child count == 0" never does.
ReaperFindsChild ==
  handler = "wait3" =>
    /\ Zombies # {} \/ suspended
    /\ Zombies # {} => child_count > 0

\* The master goes down in its loop only on an accept() error it did not mean
\* to ignore, or because the handler's log_msg left its own errno between
\* accept() and the test; in its handler only after a stop of a child.
PanicOnlyOnRealError ==
  pc = "panic" =>
    \/ handler = "wait3" /\ suspended
    \/ handler = "idle" /\ accept_err \in AcceptErrors \ squash_errors
    \/ handler = "idle" /\ LogSyncFails /\ errno = "EINVAL"

\* Back at accept() the loop holds no stream of an earlier connection, and
\* error_shortcut never closes a stream twice.
StreamsBalanced ==
  /\ pc = "accept" => incoming # "open" /\ outgoing # "open"
  /\ pc = "close" => incoming # "closed" /\ outgoing = "open"

(* Action properties.                                                       *)

\* A client is told "Maximum processes reached" only while another one is
\* being served, or while a SIGCHLD has yet to be handled: the drift of the
\* counter (a decrement lost between load and store, deaths that shared one
\* SIGCHLD, children stopped for good) never takes the last slot away.
Refuse == pc = "check" /\ pc' = "close"
RefusedOnlyWhenBusy ==
  [][Refuse => maxchild = 0 \/ Running # {} \/ sigchld]_vars

(* Liveness.                                                                *)

\* A connection that was accepted is let go by the master, served or refused:
\* closed on the way back to accept(), or by the master's own exit when a
\* stopped child has made its handler panic meanwhile.
ConnectionReleased ==
  (pc = "dup") ~> \/ pc = "accept" /\ outgoing = "null"
                  \/ pc = "panic" /\ handler = "wait3" /\ suspended

\* A refused client that tries again later finds the server below its limit
\* again and again, if clients leave.
SlotReturns == []<>(pc = "panic" \/ child_count < maxchild)
-----------------------------------------------------------------------------
(* Refinement: the processes of the table are the clients that hold a slot. *)
Limit == INSTANCE ClientLimit WITH Client <- Child, Max <- maxchild,
                                   active <- Unreaped
ImplementsLimit == Limit!Spec
=============================================================================
