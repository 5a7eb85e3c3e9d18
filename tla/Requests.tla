------------------------------ MODULE Requests ------------------------------
(* What the children of the daemon do for their clients                     *)
(* (daemon-child-func.c): each one connects to memcached, reads one request *)
(* as far as its client sends it, handles it and ends.  Several children    *)
(* share one memcached, each over a connection of its own; memcached        *)
(* executes one command at a time and may go away, with all it holds.       *)
(* For /estado a child runs a script under popen() while dead_child,        *)
(* inherited from the master, is its SIGCHLD handler.                       *)
EXTENDS Numbers, Statistics

CONSTANTS
  Day,           \* the names of days, as in /dia/{key}
  Junk,          \* a key that is the name of no day
  Long,          \* a key too long for a table_entry, which memcached takes
  NoKey,         \* a key it refuses: none, or one too long for it as well
  Line,          \* lines of ten numbers
  Requested,     \* what the clients may ask for: a request for each child
  Loaded,        \* what memcached may hold at first
  Garbage,       \* what a table_entry on the stack may hold at first
  MaxStops       \* bound on how often memcached goes away

\* The key of a day whose name sscanf's %s has read on to the next blank:
\* with the quote and the comma that follow it.
Swallowed(d) == <<d, "quote and comma">>

Key == Day \union {Swallowed(d) : d \in Day} \union {Junk, Long, NoKey}
NoLine == <<>>

\* The NUL of a key of twelve characters is the lowest byte of values[0].
LowByteCleared(values) == [values EXCEPT ![1] = @ - (@ % 256)]

\* table_entry.key holds this key and its NUL; what lies behind it is in no
\* other use, or holds the NUL.
Fits(k) == k \in Day \union {Junk, NoKey}

\* A body is written as sscanf's format has it ("own"), in another way, such
\* as the one the API documents ("other"), or not there ("none"); or it is
\* too long, as a whole or up to its first blank, for what it is read into
\* ("long"), or stands behind headers that fill the message ("buried").
Body == {"none", "own", "other", "long", "buried"}
Method == {"GET", "POST", "PUT", "DELETE", "PATCH"}
Endpoint == {"/", "/version", "/estado", "/dia", "/elsewhere"}
Request == [method : Method, endpoint : Endpoint, key : Key, body : Body,
            day : Day, values : Line]

ASSUME KeyAssumption ==
  /\ NoKey \notin Day \union {Swallowed(d) : d \in Day} \union {Junk, Long}
  /\ Long \notin Day \union {Junk}
ASSUME LineAssumption ==
  /\ Line \subseteq [1..Slots -> Int]
  /\ Zeros \in Line
  /\ \A v \in Line : LowByteCleared(v) \in Line
ASSUME LoadedAssumption ==
  \A s \in Loaded : s \in [Key -> Line \union {NoLine}] /\ s[NoKey] = NoLine
ASSUME GarbageAssumption == Garbage \subseteq [key : Key, values : Line]
ASSUME RequestAssumption ==
  Requested \subseteq [Child -> Request]
ASSUME StopsAssumption == MaxStops \in Nat

VARIABLES
  request,   \* what each client asks for
  got,       \* how much of it has arrived and is yet to be read
  eof,       \* has the client closed its side?
  payload,   \* what the child has read
  cmd,       \* the command it has written to memcached
  reply,     \* memcached's reply to it
  conn,      \* its connection to memcached
  answer,    \* what it answers
  store,     \* memcached: the line under each key
  up,        \* memcached: does it run?
  stops      \* memcached: how often it has gone away

client == <<request, got, eof, payload>>
link == <<cmd, reply, conn>>
memcached == <<store, up, stops>>
vars == <<client, pc, link, answer, memcached, stats>>

Words == {"none", "VALUE", "END", "STORED", "DELETED", "NOT_FOUND", "ERROR"}
Statuses == {"none", "200 OK", "201 Created", "400 Bad Request",
             "no memcached"}
NoReply == [word |-> "none", line |-> NoLine]
NoCommand == [op |-> "none", key |-> NoKey, line |-> NoLine]
Get(k) == [op |-> "get", key |-> k, line |-> NoLine]
Delete(k) == [op |-> "delete", key |-> k, line |-> NoLine]
Set(k, v) == [op |-> "set", key |-> k, line |-> v]

Status(s) == [status |-> s, key |-> NoKey, values |-> Zeros, max |-> 0,
              category |-> categories[1]]
PC == {"start", "headers", "body", "dispatch", "reply", "script", "pclose",
       "stats"} \union Ended

Init ==
  /\ request \in Requested
  /\ got = [p \in Child |-> "nothing"]
  /\ eof = [p \in Child |-> FALSE]
  /\ payload = [p \in Child |-> "unread"]
  /\ pc = [p \in Child |-> "start"]
  /\ cmd = [p \in Child |-> NoCommand]
  /\ reply = [p \in Child |-> NoReply]
  /\ conn = [p \in Child |-> "none"]
  /\ answer = [p \in Child |-> Status("none")]
  /\ store \in Loaded
  /\ up = TRUE
  /\ stops = 0
  /\ StatsInit
-----------------------------------------------------------------------------
\* cleanup_resources flushes the answer, and the child ends.
Answer(p, a) ==
  /\ Goto(p, "answered")
  /\ answer' = [answer EXCEPT ![p] = a]

\* Content-Length has been seen, and it is not 0.
HasLength(p) ==
  got[p] \in {"length", "head", "all"} /\ request[p].body # "none"

\* Reading the rest of the request has overrun message[BUFF_SIZE].
Overrun(p) == got[p] = "all" /\ request[p].body \in {"long", "buried"}

\* The child has read the request, as far as it has come: not even its first
\* line ("unread"), no Content-Length ("none"), no blank line ("headless"),
\* no body ("empty"), or all.
NoData == {"none", "headless"}       \* data == NULL
Read(p, what) ==
  /\ Goto(p, "dispatch")
  /\ payload' = [payload EXCEPT ![p] = what]
  /\ got' = [got EXCEPT ![p] = "nothing"]
  /\ eof' = [eof EXCEPT ![p] = FALSE]

Asks(p, m, e) ==
  /\ payload[p] # "unread"
  /\ request[p].method = m
  /\ request[p].endpoint = e

\* What the table_entry may hold after sscanf.  The name of an own body is
\* read too far, so that no number is; a long one goes over the values, and
\* beyond the entry, too; of any other body nothing is read.
Scanned(p) ==
  CASE payload[p] = "own" ->
         {[key |-> Swallowed(request[p].day),
           values |-> LowByteCleared(g.values)] : g \in Garbage}
    [] payload[p] = "long" -> [key : {Long, NoKey}, values : Line]
    [] OTHER -> Garbage

\* write() to memcached; SIGPIPE, which setup_signals does not handle, kills
\* the child when memcached has gone.
Send(p, c) ==
  IF conn[p] = "open"
    THEN /\ cmd' = [cmd EXCEPT ![p] = c]
         /\ Goto(p, "reply")
    ELSE /\ Goto(p, "broken pipe")
         /\ UNCHANGED cmd

\* read() returns: the reply, or nothing because memcached has gone.
Readable(p) == At(p, "reply") /\ (reply[p] # NoReply \/ conn[p] = "broken")

\* memcached's reply to a command when it holds s.
Reply(c, s) ==
  LET word == IF c.key = NoKey THEN "ERROR"
              ELSE IF c.op = "set" THEN "STORED"
              ELSE IF s[c.key] = NoLine
                THEN IF c.op = "get" THEN "END" ELSE "NOT_FOUND"
              ELSE IF c.op = "get" THEN "VALUE" ELSE "DELETED"
  IN  [word |-> word, line |-> IF word = "VALUE" THEN s[c.key] ELSE NoLine]

-----------------------------------------------------------------------------
(* Plausible bugs: each stands in for the definition its name starts with,  *)
(* to show that a property can fail.  No specification uses them.           *)

ReadBody_WaitsForAll(p) ==
  /\ At(p, "body")
  /\ got[p] = "all"
  /\ Read(p, IF request[p].body = "buried" THEN "headless"
             ELSE request[p].body)
  /\ UNCHANGED <<request, link, answer, memcached, stats>>

ReadBody_NoEmptyPayload(p) ==
  /\ At(p, "body")
  /\ got[p] = "all" \/ eof[p]
  /\ Read(p, IF got[p] = "all" THEN request[p].body ELSE "none")
  /\ UNCHANGED <<request, link, answer, memcached, stats>>

SaveDone_AnyReply(p) ==
  /\ Readable(p)
  /\ cmd[p].op = "set"
  /\ Answer(p, Status(IF request[p].method = "POST" THEN "201 Created"
                      ELSE "200 OK"))
  /\ UNCHANGED <<client, link, memcached, stats>>

Execute_StoresEmptyKey(p) ==
  /\ conn[p] = "open"
  /\ cmd[p] # NoCommand /\ reply[p] = NoReply
  /\ reply' = [reply EXCEPT ![p] = Reply(cmd[p], store)]
  /\ store' = IF cmd[p].op = "get" THEN store
              ELSE [store EXCEPT ![cmd[p].key] = cmd[p].line]
  /\ UNCHANGED <<client, pc, cmd, conn, answer, up, stops, stats>>

-----------------------------------------------------------------------------
(* daemon_child_function.                                                   *)

memcache_conection(p) ==
  /\ At(p, "start")
  /\ IF up
       THEN /\ conn' = [conn EXCEPT ![p] = "open"]
            /\ Goto(p, "headers")
            /\ UNCHANGED answer
       ELSE /\ Answer(p, Status("no memcached"))
            /\ UNCHANGED conn
  /\ UNCHANGED <<client, cmd, reply, memcached, stats>>

\* fgets until the blank line or the end of what the client sends.
ReadHeaders(p) ==
  /\ At(p, "headers")
  /\ got[p] \in {"head", "all"} \/ eof[p]
  /\ IF HasLength(p)
       THEN Goto(p, "body") /\ UNCHANGED <<got, eof, payload>>
       ELSE Read(p, IF got[p] = "nothing" THEN "unread"
                    ELSE IF request[p].body = "none" THEN "none"
                    ELSE "headless")
  /\ UNCHANGED <<request, link, answer, memcached, stats>>

\* fread until the announced length or the end of what the client sends,
\* and strncat of whatever fread has read; where the message ends, that may
\* fault.  There is no payload without the blank line; it is empty when the
\* client has left before its body.
ReadBody(p) ==
  /\ At(p, "body")
  /\ got[p] = "all" \/ eof[p]
  /\ \/ Read(p, IF got[p] = "length" \/ request[p].body = "buried"
                  THEN "headless"
                ELSE IF got[p] = "all" THEN request[p].body ELSE "empty")
     \/ Overrun(p) /\ Goto(p, "crashed") /\ UNCHANGED <<got, eof, payload>>
  /\ UNCHANGED <<request, link, answer, memcached, stats>>
-----------------------------------------------------------------------------
(* handle_request, one action for each of its branches.                     *)

\* / and /version; fopen of the API's description may fail.
HandleFixed(p) ==
  /\ At(p, "dispatch")
  /\ \/ /\ Asks(p, "GET", "/") \/ Asks(p, "GET", "/version")
        /\ Answer(p, Status("200 OK"))
     \/ /\ Asks(p, "GET", "/")
        /\ Answer(p, Status("400 Bad Request"))
  /\ UNCHANGED <<client, link, memcached, stats>>

HandleUnknown(p) ==
  /\ At(p, "dispatch")
  /\ \A e \in {"/", "/version", "/estado"} : ~Asks(p, "GET", e)
  /\ \A m \in {"GET", "POST", "PUT", "DELETE"} : ~Asks(p, m, "/dia")
  /\ Answer(p, Status("400 Bad Request"))
  /\ UNCHANGED <<client, link, memcached, stats>>

\* get_data sends.
handle_dia_get(p) ==
  /\ At(p, "dispatch")
  /\ Asks(p, "GET", "/dia")
  /\ Send(p, Get(request[p].key))
  /\ UNCHANGED <<client, reply, conn, answer, memcached, stats>>

\* memcached_delete sends.
handle_dia_delete(p) ==
  /\ At(p, "dispatch")
  /\ Asks(p, "DELETE", "/dia")
  /\ Send(p, Delete(request[p].key))
  /\ UNCHANGED <<client, reply, conn, answer, memcached, stats>>

\* handle_dia_post and handle_dia_put: sscanf and save_data's send.  Without
\* a payload sscanf faults, and with a long one it may.
SaveDay(p) ==
  /\ At(p, "dispatch")
  /\ Asks(p, "POST", "/dia") \/ Asks(p, "PUT", "/dia")
  /\ \/ /\ payload[p] \in NoData \union {"long"}
        /\ Goto(p, "crashed") /\ UNCHANGED cmd
     \/ /\ payload[p] \notin NoData
        /\ \E e \in Scanned(p) : Send(p, Set(e.key, e.values))
  /\ UNCHANGED <<client, reply, conn, answer, memcached, stats>>
-----------------------------------------------------------------------------
(* The reply and the answer.                                                *)

\* save_data: 201 for POST, 200 for PUT.  A handler that has overrun its
\* table_entry may fault on its way back, with its answer not yet flushed.
SaveDone(p) ==
  /\ Readable(p)
  /\ cmd[p].op = "set"
  /\ \/ Answer(p, Status(
          IF reply[p].word # "STORED" THEN "400 Bad Request"
          ELSE IF request[p].method = "POST" THEN "201 Created" ELSE "200 OK"))
     \/ payload[p] = "long" /\ Goto(p, "crashed") /\ UNCHANGED answer
  /\ UNCHANGED <<client, link, memcached, stats>>

\* memcached_delete.
DeleteDone(p) ==
  /\ Readable(p)
  /\ cmd[p].op = "delete"
  /\ Answer(p, Status(
       IF reply[p].word = "DELETED" THEN "200 OK" ELSE "400 Bad Request"))
  /\ UNCHANGED <<client, link, memcached, stats>>

\* generate_json: the key is filled in when something was read.
Shown(key, values) ==
  LET max == get_max_val(values)
  IN  [status |-> "200 OK", key |-> key, values |-> values, max |-> max,
       category |-> get_category(max)]

\* What get_data's table_entry may hold.  A key that does not fit runs into
\* the values: they are what is read, or with nothing read what a long key
\* has left there, and the key read back may end elsewhere.
Found(p) ==
  LET key == IF reply[p] = NoReply THEN NoKey ELSE cmd[p].key
  IN  [key : IF Fits(key) THEN {key} ELSE {key, Junk},
       values : IF key = Long /\ reply[p].word # "VALUE" THEN Line
                ELSE {parse_numbers(reply[p], Zeros)}]

\* get_data and generate_json; a category outside the table may fault, and so
\* may strcpy of a key that runs over the whole table_entry.
ShowDay(p) ==
  /\ Readable(p)
  /\ cmd[p].op = "get"
  /\ \E e \in Found(p) :
       \/ Answer(p, Shown(e.key, e.values))
       \/ /\ \/ Shown(e.key, e.values).category = Outside
             \/ cmd[p].key = Long /\ reply[p] # NoReply
          /\ Goto(p, "crashed")
          /\ UNCHANGED answer
  /\ UNCHANGED <<client, link, memcached, stats>>
-----------------------------------------------------------------------------
(* handle_estado_get, with handle_command in Statistics.                    *)

\* popen, which may fail.
handle_estado_get(p) ==
  /\ At(p, "dispatch")
  /\ Asks(p, "GET", "/estado")
  /\ \/ popen(p) /\ UNCHANGED answer
     \/ Answer(p, Status("200 OK")) /\ UNCHANGED stats
  /\ UNCHANGED <<client, link, memcached>>

RunScript(p) ==
  /\ HandleCommand(p)
  /\ UNCHANGED <<client, link, answer, memcached>>

AnswerStats(p) ==
  /\ Collected(p)
  /\ Answer(p, Status("200 OK"))
  /\ UNCHANGED <<client, link, memcached>>
-----------------------------------------------------------------------------
(* The child's surroundings.                                                *)

\* A stop signal: the child's branch of shutdown_signal.
Stopped(p) ==
  /\ Alive(p)
  /\ Goto(p, "stopped")
  /\ UNCHANGED <<client, link, answer, memcached, stats>>

\* The client sends its request line, the length of its body, the rest of
\* its headers and the blank line, the body; what comes before the child
\* reads or after is all the same to it.
Reading(p) == At(p, "headers") \/ At(p, "body")

ClientSends(p) ==
  /\ Reading(p) /\ ~eof[p]
  /\ \/ got[p] = "nothing" /\ got' = [got EXCEPT ![p] = "line"]
     \/ /\ got[p] = "line"
        /\ got' = [got EXCEPT
             ![p] = IF request[p].body = "none" THEN "head" ELSE "length"]
     \/ got[p] = "length" /\ got' = [got EXCEPT ![p] = "head"]
     \/ /\ got[p] = "head" /\ request[p].body # "none"
        /\ got' = [got EXCEPT ![p] = "all"]
  /\ UNCHANGED <<request, eof, payload, pc, link, answer, memcached, stats>>

ClientCloses(p) ==
  /\ Reading(p) /\ ~eof[p]
  /\ eof' = [eof EXCEPT ![p] = TRUE]
  /\ UNCHANGED <<request, got, payload, pc, link, answer, memcached, stats>>

\* memcached executes a command, of a child that may have ended since.
Execute(p) ==
  /\ conn[p] = "open"
  /\ cmd[p] # NoCommand /\ reply[p] = NoReply
  /\ reply' = [reply EXCEPT ![p] = Reply(cmd[p], store)]
  /\ store' = IF cmd[p].op = "get" \/ cmd[p].key = NoKey THEN store
              ELSE [store EXCEPT ![cmd[p].key] = cmd[p].line]
  /\ UNCHANGED <<client, pc, cmd, conn, answer, up, stops, stats>>

\* memcached goes, with its days and its connections, and comes back.
MemcachedStops ==
  /\ up /\ stops < MaxStops
  /\ up' = FALSE
  /\ stops' = stops + 1
  /\ store' = [k \in Key |-> NoLine]
  /\ conn' = [p \in Child |-> IF conn[p] = "open" THEN "broken" ELSE conn[p]]
  /\ UNCHANGED <<client, pc, cmd, reply, answer, stats>>

MemcachedStarts ==
  /\ ~up
  /\ up' = TRUE
  /\ UNCHANGED <<client, pc, link, answer, store, stops, stats>>

ScriptRuns(p) ==
  /\ Script(p)
  /\ UNCHANGED <<client, link, answer, memcached>>
-----------------------------------------------------------------------------
Dispatch(p) ==
  \/ HandleFixed(p) \/ HandleUnknown(p) \/ handle_estado_get(p)
  \/ handle_dia_get(p) \/ handle_dia_delete(p) \/ SaveDay(p)

ChildStep(p) ==
  \/ memcache_conection(p) \/ ReadHeaders(p) \/ ReadBody(p) \/ Dispatch(p)
  \/ SaveDone(p) \/ DeleteDone(p) \/ ShowDay(p)
  \/ RunScript(p) \/ AnswerStats(p)

Environment ==
  \/ \E p \in Child : Stopped(p) \/ ClientSends(p) \/ ClientCloses(p)
  \/ MemcachedStops \/ MemcachedStarts

Next ==
  \/ \E p \in Child : ChildStep(p) \/ Execute(p) \/ ScriptRuns(p)
  \/ Environment

Spec == Init /\ [][Next]_vars
-----------------------------------------------------------------------------
(* How the children implement DayStore.  What an answer shows of a key that *)
(* does not fit may be mangled; it counts as the key.                       *)

\* What a reply says, and what an answer says, as DayStore puts it.
SaidBy(p) ==
  LET c == cmd[p]
  IN  [at |-> "answered",
       ok |-> c.op = "get" \/ reply[p].word \in {"STORED", "DELETED"},
       key |-> IF c.op = "get" THEN c.key ELSE NoKey,
       line |-> IF c.op # "get" THEN NoLine
                ELSE IF reply[p].word = "VALUE" THEN reply[p].line ELSE Zeros]
SaidIn(p) ==
  [at |-> "answered",
   ok |-> answer[p].status # "400 Bad Request",
   key |-> IF Fits(cmd[p].key) \/ reply[p] = NoReply THEN answer[p].key
           ELSE SaidBy(p).key,
   line |-> IF cmd[p].op # "get" THEN NoLine
            ELSE IF cmd[p].key = Long /\ reply[p].word # "VALUE" THEN Zeros
            ELSE answer[p].values]

call == [p \in Child |->
  IF cmd[p] = NoCommand THEN [at |-> "idle"]
  ELSE IF At(p, "answered") THEN SaidIn(p)
  ELSE IF reply[p] = NoReply THEN [at |-> "asked", for |-> cmd[p]]
  ELSE [at |-> "told", answer |-> SaidBy(p)]]

Days == INSTANCE DayStore WITH
  Client <- Child, Blank <- Zeros, days <- store, call <- call

-----------------------------------------------------------------------------
(* Properties.                                                              *)

\* The types of the variables, and that nothing is stored under no key.
TypeOK ==
  /\ request \in Requested
  /\ got \in [Child -> {"nothing", "line", "length", "head", "all"}]
  /\ eof \in [Child -> BOOLEAN]
  /\ payload \in [Child -> {"unread", "headless", "empty"} \union Body]
  /\ pc \in [Child -> PC]
  /\ cmd \in [Child -> [op : {"none", "get", "set", "delete"}, key : Key,
                        line : Line \union {NoLine}]]
  /\ reply \in [Child -> [word : Words, line : Line \union {NoLine}]]
  /\ answer \in [Child -> [status : Statuses, key : Key, values : Line,
                           max : Int,
                           category : {categories[i] : i \in 1..6} \union {Outside}]]
  /\ conn \in [Child -> {"none", "open", "broken"}]
  /\ store \in [Key -> Line \union {NoLine}] /\ store[NoKey] = NoLine
  /\ up \in BOOLEAN
  /\ stops \in 0..MaxStops
  /\ StatsTypeOK

\* An answer about days says what memcached held at one moment of the
\* request, and a success is one; an answer without a reply claims nothing.
ImplementsDays == Days!Spec

\* What a client is shown of a day: the greatest of the ten numbers, and for
\* one that is not negative its category; a category from outside the table
\* only when every number is far below zero.
DayClassified ==
  \A p \in Child : At(p, "answered") /\ cmd[p].op = "get" =>
    LET a == answer[p]
    IN  /\ IsMaximum(a.max, a.values)
        /\ a.max >= 0 => InCategory(a.max, a.category)
        /\ a.category = Outside => a.max < -98

\* What it takes for a child to fault.  One that reads a day: its name is too
\* long for the table_entry, or what is shown of it is far below zero.  Any
\* other: its client announces no body for a day to save, or the headers do
\* not come to their blank line (the client leaves, or they fill the message;
\* a client that leaves later is answered), or the body is too long.
FaultsExplained ==
  \A p \in Child : At(p, "crashed") =>
    \/ request[p].body \in {"long", "buried"}
    \/ IF request[p].method = "GET"
         THEN /\ reply[p] # NoReply
              /\ \/ cmd[p].key = Long
                 \/ reply[p].word = "VALUE" /\ get_max_val(reply[p].line) < -98
         ELSE request[p].body = "none" \/ payload[p] = "headless"

\* A child always ends when its client has sent all it announced or has
\* left; with a silent client it may wait for ever.
Complete(p) ==
  \/ eof[p] \/ got[p] = "all"
  \/ got[p] = "head" /\ request[p].body = "none"
RequestEnds == \A p \in Child : Complete(p) ~> ~Alive(p)

FairSpec ==
  /\ Spec
  /\ \A p \in Child : WF_vars(ChildStep(p)) /\ WF_vars(Execute(p))
                      /\ WF_vars(ScriptRuns(p))

(* Violated: what the API says and the code does not do.                    *)

\* A day whose POST was answered with success is stored under its name with
\* its values (one client, no memcached restart).
CreatedIsStored ==
  \A p \in Child :
    At(p, "answered") /\ answer[p].status = "201 Created" =>
      store[request[p].day] = request[p].values
=============================================================================
