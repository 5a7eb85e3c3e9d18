# A verification project for the tortu daemon (Práctica 5)

The program is a forking HTTP server in C (`src/tareas-so/docs/practicas/practica-5/Equipo-ERLM-GZAL-HMJA-MVA/files/`,
here `files/`).  It answers a small REST API out of memcached: a master process accepts connections and forks a
child for each; a pid lockfile keeps a second daemon away; signals end the children and the daemon.  The rest of
`src/` is a course site (Markdown, MkDocs) with no behaviour of its own.

This directory holds TLA+ modules translated from that code, the TLC configurations that check them on small
instances, and TLAPS proofs of what matters most for every value of the constants.

## 1. Inventory

### Components

| Component | Code | State it keeps | Operations |
|---|---|---|---|
| Accept loop and child table | `daemon.c` main 404-518, dead_child 62-106; `socket.c` filtered_accept | `child_count`, the two streams of the connection, `errno`; in the kernel: children (running, stopped, ended), the pending SIGCHLD | accept, dup, test the limit, count, fork, undo, close; reap |
| Pid lockfile | `lockfile.c`; `daemon.c` fratricide | `/tmp/daevel.pid`, `lock_acquired` | check (and remove a stale file), create, remove, `-t` |
| Stop signals and shutdown | `daemon.c` setup_signals, shutdown_signal | `master_process` and `lock_acquired` (copied by fork), `tortu_sock`, signal dispositions, the process group | handler in the master, in a child, in a child that is not one yet |
| Start-up | `daemon.c` main 293-395; `util.c` become_daemon; `socket.c` init_socket | the listening socket, the session | options, log, lock check, signals, socket, daemon, lock |
| Logging | `log.c` | `logfile`, `logfile_istty`, descriptors 0-2 | log_start, log_msg, log_finish, panic |
| Requests (child) | `daemon-child-func.c` | the memcached connection, one request | read and parse, GET/POST/PUT/DELETE of a day, `/`, `/version`, `/estado` |
| Statistics command | `daemon-child-func.c` handle_command | a popen'ed process | popen, read, pclose |
| Numbers and categories | `daemon-child-func.c` 144-215 | none (pure) | parse_numbers, get_max_val, get_category |
| Configuration | `confdata.c` | `global_options` | defaults, command line, configuration file |
| memcached, `nc`, apache, microjson (`mjson.c`) | external or third-party | | |

### How they interact

* **Shared memory with a handler.**  `dead_child` runs on top of any instruction of the accept loop and shares
  `child_count`, `errno` and stdio with it; there is no lock and no masking.
* **fork.**  A child gets copies of all flags, the listening socket and the handlers (also `dead_child`).  Two
  assignments and a `close` later it is a child; until then a signal makes it behave as the master.
* **Signals.**  Children tell the master by SIGCHLD that they ended, were stopped or continued (not queued); `-t` and the user stop the master
  by SIGINT/SIGTERM; the master stops its group by SIGTERM.
* **The file system and the port.**  Invocations see each other only through the lockfile's name, the pid in it,
  and `bind()`.
* **memcached.**  Children share its keys, each over its own connection, one command per request.

### What is hard, and what makes each component correct

| Component | Hard behaviour | Properties |
|---|---|---|
| Accept loop | the handler between any two instructions; SIGCHLD that merges deaths, or comes of a stop; fork and dup that fail; `errno` clobbered | never more than `maxchild` processes; the handler panics only after a child was stopped; the counter drifts upwards only and never swallows the last slot; the loop panics only over a real accept error or the handler's own `errno`; no stream leaks; every connection is let go |
| Lockfile | a check and an act that are far apart; crashes and stops in between; reused pids; several users | one daemon at a time; the file names it; nobody takes it from a live daemon; stale files go away |
| Shutdown | two handlers nested; a child in the fork window; a group that is not the master's | success means that the lock is gone and the children are told; a failure has one of three causes, none of them the master's own SIGTERM; the lock survives the children; the master ends |
| Start-up | descriptors closed and reused as 0-2, a failed fork that is only logged, options that the file changes after the log was opened | the log is never a client's or a lockfile's descriptor; 0 to 2 are nobody else's; nothing leaks into the loop or the child; `-o` only checks |
| Logging | `log_msg` interrupted by a handler that calls `log_msg` | no self-deadlock, no lost errno |
| Requests | concurrent children on one key; clients that stop in the middle; a memcached that goes away; `sscanf` and `fread` whose results nobody looks at; keys and bodies longer than their buffers | an answer agrees with the store at some moment during the request; a child faults only for known reasons, and ends once its client has done its part |
| Statistics | `pclose` and the inherited `dead_child` reap the same process; a buffer that fills up, lines longer than that of `fgets` | what is shown is whole lines but for one that came in pieces; an answer leaves no zombie; `/estado` is answered (violated) |
| Numbers | the ends of the table, zero and negative numbers | the maximum is one, and its category is the right one |
| Configuration | lines longer than the buffer, a last line without its end, read errors; command line, log and file set the same options | the last setting that counts wins; the rest of a long line is never taken for a line; ranges hold; reading ends |

The hazards, each at its line, are in `PROJECT.json`.  One has no property: a handler that logs while it interrupts
`log_msg` (`log.c:156`); what happens then is a matter of the C library's locks.

## 2. Modules

| Module | Models | Role |
|---|---|---|
| `ClientLimit` | what the server promises about its clients | abstract specification |
| `ChildPool` | accept loop, `dead_child`, kernel process table | detailed, implements `ClientLimit` |
| `MCChildPool`, `ChildPool_*.cfg` | | instances |
| `ChildPool_proofs` | | invariants and refinement, proved |
| `Lockfile` | several invocations: `lockfile_check`, `get_lock_or_die`, `lockfile_remove`, `fratricide` | detailed |
| `MCLockfile`, `Lockfile_*.cfg`, `Lockfile_proofs` | | instances, proofs |
| `Shutdown` | one daemon: its start after `init_socket`, its children, `shutdown_signal` everywhere | detailed |
| `MCShutdown`, `Shutdown_*.cfg`, `Shutdown_proofs` | | instances, proofs |
| `Startup` | one invocation from its command line to its clients: options, order of `main`, descriptor table | detailed |
| `MCStartup`, `Startup_*.cfg`, `Startup_proofs` | | instances, proofs |
| `DayStore` | what the server promises about days | abstract specification |
| `Numbers`, `Numbers_proofs` | `parse_numbers`, `get_max_val`, `get_category` and what they are for | functions and reference, proofs |
| `Statistics`, `Statistics_proofs` | one child's `handle_command`, the script, the inherited `dead_child` | part of `Requests`; the sum of a sequence, proofs |
| `Requests` | the children, their clients and memcached | detailed, extends the two, implements `DayStore` |
| `MCRequests`, `Requests_*.cfg`, `Requests_proofs` | | instances, proofs |
| `Options` | how the options get their values: defaults, command line, file | detailed |
| `MCOptions`, `Options_*.cfg`, `Options_proofs` | | instances, proofs |

`Lockfile` has many invocations and one kind of stop; `Shutdown` has one daemon, all its processes and every order
of stop signals.  What `Lockfile` takes for granted of a stop (the file is removed by the daemon itself, and a stop
that was asked for once succeeds) is what `Shutdown` establishes (`LockHeldWhileServing`, `StopFailureExplained`), short
of the fork window: a child signalled there removes the file while the master still serves (`stop_window`), so that
`Shutdown` is not a refinement of that stop.

### ChildPool

One action per statement of the loop that touches state the handler shares.  `pc` follows `main`; the handler, when
it is there (`handler = "wait3"`), stops the loop.

| Code | Action |
|---|---|
| `filtered_accept`: accept returns, fails, or is interrupted by SIGCHLD | `AcceptConnection` (with the `fdopen` of outgoing), `AcceptFails`, `AcceptInterrupted` |
| `filtered_accept`: the switch that turns listed errors into EAGAIN | `SquashError` |
| main: `if (errno == EAGAIN) continue; PANIC` | `TestErrno` |
| `dup`, `fdopen` of incoming | `DupSocket`, `DupFails` |
| `child_count == maxchild` | `CheckLimit` |
| `child_count++` | `LoadForIncrement`, `StoreIncrement` |
| `fork()` and, when it fails, `child_count--` | `Fork`, `ForkFails`, `LoadForDecrement`, `StoreDecrement` |
| `error_shortcut:` | `CloseConnection` |
| a child ends, is stopped or continued | `ChildExit`, `ChildStops`, `ChildContinues` |
| SIGCHLD is delivered; `dead_child`: one `wait3`; its PANICs | `DeliverSigchld`, `dead_child` (`Reap`, `ReaperPanics`) |

`child_count++` and `child_count--` are a load and a store because the Makefile compiles with `-g` and no
optimisation, which for a global in memory emits three instructions.  The handler runs to its end before the loop
goes on: SIGCHLD is masked while its handler runs.  `sa_flags` is 0, so a blocked `accept` returns EINTR (no
SA_RESTART), and a child that is stopped or continued raises SIGCHLD as one that ends does (no SA_NOCLDSTOP); `wait3`
without WUNTRACED then finds nobody.  `suspended` remembers that this has happened.  A child
of this model is a pid from `Fork` until it is reaped: what it does for its client is `ChildExit`'s business.
`errno` is modelled with the one thing that may change it behind main's back, `log_msg`'s `fsync` on a log that
is not a regular file (`LogSyncFails`, which the run allows and the proofs leave open).

### Lockfile

Each pid is one invocation, as a daemon or with `-t`.  `pc` goes through `lockfile_check` (`FopenLock`,
`FscanfPid`, `Probe`, `UnlinkStale`), then `Kill` for `-t`, or `InitSocket`, `CreateLock`, `WritePid`, `Acquired`
and serving; SIGINT leads to `CloseSocket`, `RemoveLock`, `Exit`.  The lockfile is an inode, so that a reader that
has it open is not disturbed by an `unlink`; an inode is known by its creator.  `Faults` turns on crashes (SIGKILL),
a full disk (`write` of the pid fails, its result ignored) and the reuse of a pid by a stranger.  `Serial` says that
an invocation is started only when no other is still on its way, which excludes the race between the probe and the
`unlink` (that race is `lock_overlap`).

Each invocation has a `User`.  The lockfile has mode 0600 and `/tmp` is sticky, so that only its owner and root may
read it, take its name away, and signal its process (`May`).  That is why two things in `lockfile_check` are harmless
that look like holes: a `kill(pid,0)` that fails with EPERM is taken for a dead process (`KillFails`), but who can read
the pid of a live daemon may also signal it, and only a pid that has gone to a stranger answers EPERM; and a lockfile
that cannot be opened is taken for no lockfile (`FopenLock`), but then `O_EXCL` stops the start (`CreateLock`).  With a full
disk the file holds no pid, so that "names the server" in `LockNamesServer` means that the file is the server's own.

`become_daemon` keeps the invocation's identity here: its fork happens before the lockfile is created, and the process
that writes the pid is the one that goes on.

### Shutdown

`pc`, `master_process`, `lock_acquired`, `tortu_sock` are functions of the process because fork copies them.
`Fork` leaves the child in `"window"`, with all of the master's flags; `ClearFlag` and `Detach` are the two
statements that make it a child.  A handler never returns, so the whole stack is one `pc`: a second, different signal
puts it back at the top of `shutdown_signal`.  `pending`, `masked` and `term_ignored` are the kernel's; setting
SIG_IGN discards a pending signal.  `leader` is whether `kill(-pid)` finds a group: it does after `become_daemon`
(`setsid`) and for a job of an interactive shell.  SIGINT and SIGTERM stand for the five signals that share the
handler: SIGTERM is the one the master ignores and sends, SIGINT any other.

### Startup

One process is followed; at `become_daemon` and `fork` the model goes on as either side (`role`).  `fd` is the
descriptor table: what each number stands for.  `open`, `socket`, `accept` and `dup` return the lowest free number
(`Lowest`), which is what `log_start` relies on to fill 0 to 2, and what makes a number that is closed too early
dangerous.  The initial table is any set of descriptors a launcher may leave open.

| Code | Action |
|---|---|
| `process_cmdline`, one argument at a time, in any order; the usage message | `process_cmdline(a)`, `CmdlineDone` |
| `log_start`: close everything, `/dev/null`, the log, `dup(1)`; with -F only the last two | `LogStart` |
| `process_configfile`: open, a line, close | `ConfigOpen`, `process_configfile` (`BooleanLine`), `ConfigDone` |
| main: `-o` exits | `CheckCfg` |
| `lockfile_check` (from `fratricide` with -t) | `LockCheck`, `LockHeld`, `LockUnlinkStale` |
| `init_socket` | `InitSocket` |
| `become_daemon`: the new process; the initial one; -F or a failed fork | `BecomeDaemon`, `InitialExits` |
| `get_lock_or_die` | `GetLock`, `LockWrite` |
| the accept loop and `error_shortcut` | `Accept`, `DupSocket`, `Fork`, `CloseConnection` |
| the child: `close(tortu_sock)`, `memcache_conection`, `fopen`/`popen`, `cleanup_resources` | `Detach`, `Connect`, `OpenWork`, `CloseWork`, `ServeDone` |

The file may set `foregroundonly` and `terminate` (`Settable`), after the log has been opened; the options that are
plain values (level, port, limit, names) change nothing here and are in `Options`.

### Requests, Statistics, Numbers

All variables are functions of the child; `store`, `up` and `stops` are memcached's.  A request is given when the
child starts and arrives piece by piece (`got`), or stops arriving (`eof`).

| Code | Action |
|---|---|
| `memcache_conection` and its error answer | `memcache_conection` |
| `daemon_child_function`: the loop of `fgets`; the `fread` of the body | `ReadHeaders`, `ReadBody` |
| `handle_request` and its branches; `handle_root_get`, `handle_version_get`; `send_error_response` | `HandleFixed`, `HandleUnknown`, and the next three |
| `get_data`, `memcached_delete`: the write, the read and the answer (`generate_json`) | `handle_dia_get` then `ShowDay`; `handle_dia_delete` then `DeleteDone` |
| `handle_dia_post`, `handle_dia_put`: `sscanf`, `save_data`'s write, its read, the answer | `SaveDay`, `SaveDone` |
| `handle_estado_get`: popen; the statistics; the answer | `handle_estado_get`, `RunScript`, `AnswerStats` |
| `handle_command`: a turn of the loop; its end; pclose; `dead_child` on top of it | `TakeLine`, `EndOfOutput`, `pclose`, `dead_child` |
| a stop signal in a child | `Stopped` |
| client, memcached and script (external) | `ClientSends`, `ClientCloses`; `Execute`, `MemcachedStops`, `MemcachedStarts`; `ScriptPrints`, `ScriptDies` |

What decides the data: `%s` in `sscanf` reads up to white space, so that the name of a day in a body of sscanf's own
form comes with the quote and comma behind it (`Swallowed`).  That makes twelve characters for `key[11]`, and their
NUL lands in the lowest byte of `values[0]` (`LowByteCleared`); the rest of the format then does not match.  A body of another
form leaves the `table_entry` as the stack had it (`Garbage`).  A payload that was never read is NULL (`NoData`), and
`sscanf` faults on it.

Three buffers have no check.  `strcpy` of a key from the endpoint (line 175) and `%s` up to the next blank (367, 388) write
into `key[11]`: a key that does not fit (`~Fits`) runs into the values, and a `Long` one over the whole `table_entry`.
`strncat` of the body (515) has no bound but the number of bytes read: a body that is too long (`"long"`) runs over
`message`, and behind headers that have filled it (`"buried"`) the blank line is lost.  An overrun is a choice, as it
is undefined behaviour: the child faults there, or when its function returns, or it goes on with any values (`Overrun`,
`Scanned`, `Found`).  `fgets` in `handle_command` has a buffer of `buf_len` bytes; a longer line is taken over in pieces
(`Piece`), and `result` counts the lines and the bytes of the next one.

`Days == INSTANCE DayStore WITH days <- store, call <- ...` is the refinement.  A child's operation is *asked* once
its command is written, *told* once memcached has executed it (the moment it takes effect, `Execute`), and *answered*.
A child whose connection breaks after that still answers from the reply it had; one without a reply answers that it
does not know (`AnswerUnknown`).  A memcached that restarts is `Forget`.

`Numbers` has the arithmetic of C where it matters: division truncates towards zero, and an index below zero reads
outside the table.

### Options

A line of the file has a length and a meaning (an option and an expression); a file says whether its last line ends in
`\n`.  `fgets` is the buffer of `CONFIG_FILE_LINELEN` bytes: it returns a line, the rest of one, or a part of one, and
notices the end of the file only when it has room left.

| Code | Action |
|---|---|
| `initialise_options`, `fill_default_options` | `Init` (`Defaults`) |
| `process_cmdline`: an argument; the usage message | `process_cmdline`, `CmdlineDone` |
| `log_start` (the log's name with -F) | `log_start` |
| `process_configfile`: fopen; the `fgets` of the loop; the inner loop that skips a long line | `OpenFile`, `ReadLine`, `SkipChunk` |
| `extract_option`, `parse_option`, `extract_expr`, the switch with `parseint`, `parsebool`, `parsestring` | `ParseLine` |
| a read error | `ReadFails` |

Integers are cut to the width of an int (`IntRange` values), options are unsigned.  `FromCmdline` and `FromFile` are
the reference: the value an option has by its last setting, with no reader in it.

## 3. Runs

| Run | Instance | Shows |
|---|---|---|
| `pool` | 3 slots, 4 pids, errors ECONNRESET (ignored) and EMFILE (fatal), children that stop and continue, a log that may not sync | the invariants and action properties of the accept loop, that it implements `ClientLimit`, and the two liveness properties |
| `lock_serial` | 4 invocations, two of one user, one of root, one of another user, own ports, all faults, one after the other | mutual exclusion, the lock names the server, never stolen |
| `lock_oneport` | 3 invocations, two of one user and one of root, one port, all faults, in any order | mutual exclusion all the same: the port gives it |
| `lock_overlap` (violation) | 3 invocations, own ports, crashes | a start unlinks the fresh lockfile of another: two daemons |
| `lock_stale` (violation) | no fault but SIGINT | an empty lockfile nobody can get past |
| `stop` | 2 children, 2 stop signals, fair handlers | a successful stop is complete, a stop that fails has a cause from outside or in the fork window, the lock survives the children, the master and then the children end |
| `stop_window` (violation) | 1 child, 1 signal | a child in the fork window removes the master's lockfile |
| `startup` | descriptors 0 to 8, any of them inherited; the file sets `foregroundonly` and `terminate` | the log (unless the file takes -F back), 0 to 2, the socket and the client stay what they are; nothing leaks; `-o` only checks |
| `options` | 9 command lines, every file of up to two lines, a buffer of 4 | the last setting that counts wins, lines are parsed whole, ranges hold, reading ends |
| `requests` | 2 children, 12 pairs of requests, long keys and bodies among them, one day, memcached may stop once | the children implement `DayStore`; days are classified right, faults are explained, statistics fit, the script is reaped; a child ends once its client has done its part |
| `requests_created` (violation) | 1 child, 1 POST | 201 is answered for a day that is not stored under its name |
| `estado_panic` (violation) | 1 child, `/estado` | `pclose` is first, and the inherited `dead_child` panics |

**Bounds.**  *Pids.*  Four pids for three slots, so that a client too many has a pid to be served by, and three
children can die on one signal while a fourth is forked.  The counter can only drift through a lost decrement (one
load/store pair in progress) and through merged signals (two deaths); both need two children.  *Invocations.*  Each
pid runs once; three make a dead owner, a slow and a fast successor, four add a `-t` or a stranger.  *Signals.*  A
nested handler needs two different signals, and an equal one is masked or merged.  *Children of `Shutdown`.*  One in
the window while one serves.  *Descriptors.*  A daemon needs
eight at once (0 to 2, socket, client twice, memcached, work) and a foreground program ten; with 0 to 8, of which any
set is inherited, every open both succeeds and meets a full table.  `lock_serial` and `lock_oneport` use symmetry over
the two pids of one user, which is sound: they check safety only, and ports are either all the same or all different.
*Requests.*  Two children meet on one key in every pair of get, set and delete; more would only repeat the pairs,
since a command touches one key at one moment.  One stop of memcached comes before, between and after the
two commands of a pair.  The four lines have a maximum of 0, at the end of a category, beyond the last one and below
the table.  `max_len` is 7 and the buffer of `fgets` 4, so that an output of two lines fits and one of three does not,
a line of 4 is taken over in two pieces, and of one of 7 only the first piece fits.  *Options.*  With a buffer of 4 a
line of 2 fits, one of 3 fills it, one of 6 takes two reads and a third for its end; two lines are what a setting and
one that overrides it, or a long line and the one behind it, need.  An int has 2^18 values, which is more than the
ports and fewer than a number in a line may have; the theorems hold for every width.

**Deadlock** is not checked, because in each model the system may stop for good: the master panics, the last
invocation ends, the daemon is dead.

**Fairness.**  `ChildPool`: the master is scheduled (`WF(Master)`, without the environment's part of `accept`), a
pending signal is delivered, a handler that has started goes on.  `ClientsLeave` is an assumption on clients, not on
the code: a child has no timeout (`daemon-child-func.c` 493-526), so a silent client keeps its slot, and
`SlotReturns` says nothing without it, and a stopped child need not be continued; `ConnectionReleased` concerns the
master alone.  `Shutdown`: a process with a
signal or a handler runs (`WF(Handler(p))`).  Serving, forking and the end of a child's work have no fairness: the
children must go because they are told to.  `Requests`: a child is scheduled (`WF(ChildStep(p))`), memcached executes
what it was sent, the script runs to its end.  Clients are not fair: `RequestEnds` speaks of one that has sent all it
announced or has closed.  `Options`: the process is scheduled (`WF(Step)`); a read error need not happen, and
`OptionsSettled` excludes the one that makes the program spin.

## 4. What the violations say

Each is a disagreement between a comment or message of the code and what the code does.

* `lock_overlap`: `lockfile.c:80` says 0 means that no other process has the lock.
* `lock_stale`: `lockfile.c:81` says stale lockfiles are removed; one without a pid in it is not.
* `stop_window`: `daemon.c:59` says that only the initial process and the master have `master_process` set.
* `requests_created`: `README.md:690` (of the practice) shows "Data added successfully" for a day that can be read by
  its key afterwards.  No body is ever stored under its own name (`daemon-child-func.c:367`): see `Swallowed` above.
* `estado_panic`: `README.md:75` says `/estado` shows the state of memcached.  The child has the master's
  `dead_child`; if SIGCHLD is delivered after `pclose` has waited for the script, `wait3` fails and the child panics.
  `ReapedByHandler`, which holds, says that this is the only way it can.

Some more was met on the way and bounds what can be claimed, without a run of its own:

* The counter of the accept loop may drift upwards: a handler between load and store of `child_count++` has its
  decrement overwritten, and two deaths on one SIGCHLD leave a zombie until some later child dies.  The limit of the
  drift is `RefusedOnlyWhenBusy`: the last slot is never lost, because a decrement can only be lost while a new
  slot is being taken.
* A child that is stopped or continued (`kill -STOP`, or Ctrl-Z and `fg` with -F) takes the master down: SIGCHLD comes
  without a zombie, because `setup_signals` sets no SA_NOCLDSTOP (`daemon.c:199`, `213`), `wait3` returns 0, and
  `dead_child` panics ("wait3 reported no child exited", `daemon.c:88-90`; its comment asks "how serious is this
  really?").  `ReaperFindsChild` and `PanicOnlyOnRealError` say that nothing else makes the handler panic.
* With a log that cannot be synced (`LogSyncFails = TRUE`, a terminal or pipe: `log.c:35` means to test for it, but
  `log_start` asks `isatty` of a descriptor that is not open yet) the handler's `log_msg` may turn EAGAIN into EINVAL,
  and the loop panics over an error it meant to ignore; `PanicOnlyOnRealError` lists the case.
* With a configuration file that takes `foregroundonly` back after a start with -F, `become_daemon` closes everything
  from 3 on while the log is above that (`util.c:112`): log lines may then go to a client or to memcached.  `LogIsLog` says
  that this is the only way to lose the log.
* `logfilename` in the file has no effect, because the log is started before the file is read; `-p` and `-m` take any
  number (`RangesKept` says that nothing else does).
* HOWTO and the usage message say other things of the options than `confdata.c` does, where `LastSettingWins` states
  the code's rule: `-d` is "ignored (with warning) if -o set as well" (`HOWTO:228`), but an argument `-d4` after `-o`
  counts, and the file is then checked at level 4 (`confdata.c:196-209`); `-m` is by default ABSOLUTE_MAX_CHILDREN
  (`HOWTO:245`, `confdata.c:301-302`), which is 200, but the limit is 3; the level is by default 0 (`HOWTO:230`), but it
  is 1; the port is 3000 in the usage message, but it is 80.
* A read error in `process_configfile` is taken for the end of the file, and one in the middle of a long line makes
  the program spin (`OptionsSettled`).

## 5. What is proved

The eight proof modules hold for every set of pids, every limit, every number of signals, every assignment of
ports, every size of the descriptor table, every set of children, days, lines and requests, and every command line, file
and buffer, from the assumptions named in the modules (a finite set of pids, `maxchild \in Nat`, errors distinct from
what the model reserves, `NoPid` not a pid, the master not its own child, at least three descriptors).

**ChildPool_proofs.**  `ClientsLimited` is not inductive: that the limit is respected rests on the counter, and the
counter may be wrong.  The invariant is that it is wrong in one direction only.

* `CountCovers`: the counter is at least the number of children plus the slot that is counted and not yet forked
  (`InFlight`).  This is why the increment has to come before the fork.
* `RegCovers`: in the middle of `++` or `--` the register is at least what the handler has left in memory, so the
  store may only raise the counter above what it should be; and it is below the limit, because the loop alone
  increments and only after its test.
* `SignalsCovered`: as long as no child was stopped or continued, a pending signal and a running handler stand for one
  zombie each, two when there are both, so that the handler finds one; and whenever it finds one the counter covers it
  (`ReaperFindsItsChild`).
* `NeverStuckFull`: with nobody left to die, the counter is below the limit; hence `RefusalIsTemporary`.

`StreamsAreBalanced` needs what each statement of the loop has open.
`Implementation` maps every step to one of `ClientLimit` or a stutter: a fork admits (by `CountCovers` and the test
there is room), a reap releases.  `PanicsAreReal` adds `ErrnoKept`: what `errno` may be between `accept` and its test.
`ConnectionIsBrief` and `FullnessIsBrief` are variants (see below).

**Lockfile_proofs.**  With `Serial`, the invariant `Order` says that one invocation at a time is on its way, that
the file it has opened is still the one the name stands for or is gone, that it may read what it has opened
(`OpenedIsOwn`), and so that what it is about to unlink belongs to the dead: a `kill` that fails over a process it may
signal has found nobody.  From it `LockNamesServerSerial`, `MutualExclusionSerial` and `NeverStolenSerial`.  Without `Serial` the
lockfile gives no exclusion (`lock_overlap`); on one port `bind` does (`MutualExclusionOnePort`, invariant
`PortExclusive`).

**Shutdown_proofs.**  `StopsCleanly` needs that a leader that has got past `kill(-pid)` has every live child on its
way out (`ChildrenTold`), and for that which branch a process can be in (`Branches`) and that SIGTERM is ignored only
inside the master's branch (`IgnoredInBranch`): a child that ignored it would not be told.  `LockSurvivesChildren`
needs that a child takes the master's branch only when the master has its signal too (`ChildrenFollow`), true as long
as nobody signals a child alone.  `HandlerEndsProcess` says that `shutdown_signal` never returns to what it interrupted:
a signal is masked only inside the handler (`NeverReturns`), and a handler only goes down (`Distance`).  `StopFails` goes
through the three PANICs a stop may end in.  The socket is closed twice only by a handler that was started again, by a
signal that is not masked; SIGTERM is ignored before the master sends it (`SignalsAreSent`), so the other one came from
outside (`SocketClosedOnce`).  The lockfile that is missing was taken by a child that had the master's flag
(`LockAccounted`).  `FInv` puts these together.

**Startup_proofs.**  `IInv` says who owns each descriptor in two directions: what a variable holds is what its owner has
opened (`Handles`), and whatever is open belongs to one of these variables or is log, null or inherited (`Contents`).
Neither is inductive alone: that a `close(file)` hits the configuration file is `Handles`, that no second socket
survives is `Contents`, and that a fresh number is never below 3 is `StdReserved` itself.  `LogStaysLog` needs in
addition that without -F and -o the log was opened for a daemon and is among 0 to 2 (`LInv`); with -o the program gets
no further than its check (`CInv`), and with -F what the file does afterwards is the exception that `LogLost` states.
`CheckOnlyHolds` needs that nothing takes `checkcfg` back (`CInv`).

**Numbers_proofs.**  `MaxIsMaximum` unfolds the loop of `get_max_val` over its ten slots (`LoopSolved`);
`CategoryFits` goes through the intervals of `get_category`, with the truncating division made explicit.

**Requests_proofs.**  `Implementation` is the refinement of `DayStore`, step by step: `StepKinds` sorts the actions by
what they do to an operation (nothing, a write to memcached, an answer, memcached's own step) and `DaysStep` maps each
kind.  It needs `Commands`: a command is written only in front of a read, a reply belongs to the command it answers,
and a child that has answered without a reply had its connection broken.  `DaysClassified` combines the two theorems
on numbers with the fact that what is shown is ten numbers, whatever they are.  `FaultsAreExplained` keeps track of where
the payload went, and of what may have run over its buffer.  `ScriptReaped` rests on `Reaping`: SIGCHLD is pending exactly from the script's death until the
handler, so that whoever was first is known from `chld` and `script` alone.  `StatisticsAlwaysFit` and `ChildrenProceed`
rest on it too.

**Statistics_proofs.**  What the buffer may hold is a sum over the lines taken over, so this module proves what a sum
over a sequence is: `Total` of no lines is 0 and one line more adds its length (`TotalOfMore`).  The induction is
on a number, and is done without an induction theorem: a set of naturals that is not empty has a least element (`Least`), so the
least length at which the sum does not exist, or at which two sequences with the same lines have different sums, leads
to a contradiction (`SumsExist`, `SumsAgree`).  `Fit` is `StatisticsFit` made inductive: a script prints once, so a line
taken over stays the line that was printed, which needs that nothing is there before the script has run; and a part of
a line is less than the line and came from one that is longer than the buffer (`PieceIs`).

**Options_proofs.**  `Reader` is where `fgets` stands: in the middle of a line only while skipping it, and when a long
last line has been read to its end without a line end, one read short of noticing it.  From `Fitting` (a read that
came whole is a line that fits, short of a last line that fills the buffer) it follows that lines are parsed whole.
`Settings` says that the options are at every point what the arguments or lines so far make of them (`FromCmdline`,
`FromFile`); an argument or line either overrides or extends (`LineOverrides`, `LineExtends`), and a line that
is skipped does not fit and so does not count.  No line sets `checkcfg` or `configfilename`, which is why the meaning of
the lines already read stays the same (`MeaningKept`).  `OneValue` shows that the reference is a function: no two values
of an option both are what arguments and file make of it, so `LastSettingWins` leaves no choice.  `ReadingShrinks` is
a variant.

**Variants.**  A liveness property needs fairness and `ENABLED`, which the prover cannot do.  What makes it true of the
code can be proved: a number, or a few of them in order of weight, that every step concerned makes smaller and no
other step makes larger, so that there is no way round.

| Theorem | What gets smaller | The liveness property it is the core of |
|---|---|---|
| `ConnectionIsBrief` | the loop's way to `error_shortcut`, and the children yet to die, their signals and the handler that interrupt it | `ConnectionReleased` |
| `FullnessIsBrief` | while the counter is at the limit: a fork under way, children yet to die, the signal, the handler; `SlotOnItsWay` says that one of them is there | `SlotReturns` |
| `HandlerEndsProcess` | the stop signals that may still start the handler again, then its statements | `MasterStops`, `ChildrenGone` |
| `ReadingShrinks` | a read that may fail, the phase, arguments, lines, bytes of a line, the turn | `OptionsSettled` |
| `ChildrenProceed` | the child's way to its end, then what memcached and the script owe it, then lines to take over, then bytes of the next one; `Attended` says that what it waits for is under way | `RequestEnds` |

Each also shows where the argument ends: refusing a client costs `FullnessIsBrief` nothing, the skip loop at a read error
is the one stutter of `ReadingShrinks`, and a silent client leaves `ChildrenProceed` where it is.

**Only model-checked**: the liveness properties themselves (`ConnectionReleased`, `SlotReturns`, `MasterStops`,
`ChildrenGone`, `RequestEnds`, `OptionsSettled`), because fairness is about `ENABLED`; and of course the violations.

## 6. What is left out

Left out of the present modules: the text of log and client messages; DNS (the name is only logged); the third to
fifth of the signals that share a handler; stdio's own failures (`fdopen` of NULL); a crash of the kernel.

* *Requests*: what an overrun of a buffer does other than to fault or to leave other values in the same `table_entry`
  (undefined behaviour has no end), and which bytes of a key that does not fit an answer shows: such an answer counts
  as one for that key; a `Content-Length` and a request line arrive as pieces, not as bytes; memcached's SERVER_ERROR and eviction; numbers wider than an int and lines of more than ten
  numbers (no child writes one); the statistics buffer before `memset`, whose `strlen` reads it uninitialised
  (`daemon-child-func.c:81`).
* *Options*: the characters of an option, a comment or a number (a line has a meaning instead); `atoi` beyond a long.
* *Logging*: `log_msg` interrupted by a handler that logs.  `localtime` and stdio may be holding a lock of the C
  library; which, the code does not say, so that a model could only repeat an assumption.
* `mjson.c` is third-party and none of its functions is called.  The site around the practice has no behaviour.

What could follow: requests byte by byte, if the bytes behind the message buffer are to be part of the model; and the
liveness properties as theorems, from the variants of section 5, once the prover handles `ENABLED`.
