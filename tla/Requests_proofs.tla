-------------------------- MODULE Requests_proofs --------------------------
(* Proofs about Requests, for any number of children, days, lines and       *)
(* requests, and for any behaviour of clients, script and memcached.        *)
EXTENDS Requests, Numbers_proofs, Statistics_proofs

USE DEF At, Goto, client, link, memcached, stats

\* A step of the system is one of its actions, or changes nothing.
LEMMA StepCases ==
  ASSUME [Next]_vars
  PROVE  \/ \E p \in Child :
              \/ memcache_conection(p) \/ ReadHeaders(p) \/ ReadBody(p)
              \/ HandleFixed(p) \/ HandleUnknown(p)
              \/ handle_dia_get(p) \/ handle_dia_delete(p) \/ SaveDay(p)
              \/ SaveDone(p) \/ DeleteDone(p) \/ ShowDay(p)
              \/ handle_estado_get(p) \/ RunScript(p) \/ AnswerStats(p)
              \/ Stopped(p) \/ ClientSends(p) \/ ClientCloses(p)
              \/ Execute(p) \/ ScriptRuns(p)
         \/ MemcachedStops \/ MemcachedStarts
         \/ UNCHANGED vars
BY DEF Next, ChildStep, Dispatch, Environment
-----------------------------------------------------------------------------
(* Types.                                                                   *)

LEMMA ParsedLine ==
  ASSUME NEW r, r.line \in Line \union {NoLine}
  PROVE  /\ parse_numbers(r, Zeros) \in Line
         /\ r.word = "VALUE" /\ r.line \in Line
              => parse_numbers(r, Zeros) = r.line
         /\ r.word # "VALUE" => parse_numbers(r, Zeros) = Zeros
<1>1. Zeros \in Line /\ Line \subseteq [1..Slots -> Int]
  BY LineAssumption
<1>2. CASE r.word # "VALUE"
  BY <1>1, <1>2 DEF parse_numbers
<1>3. CASE r.word = "VALUE" /\ r.line \in Line
  <2>1. r.line \in [1..Slots -> Int] /\ Len(r.line) = Slots
    BY <1>1, <1>3 DEF Slots
  <2>2. \A i \in 1..Slots : i <= Len(r.line)
    BY <2>1 DEF Slots
  <2>3. parse_numbers(r, Zeros) = [i \in 1..Slots |-> r.line[i]]
    BY <1>3, <2>2 DEF parse_numbers
  <2> QED BY <2>1, <2>3, <1>3
<1>4. CASE r.word = "VALUE" /\ r.line = NoLine
  <2>1. Len(r.line) = 0
    BY <1>4 DEF NoLine
  <2>2. \A i \in 1..Slots : ~(i <= Len(r.line))
    BY <2>1 DEF Slots
  <2>3. parse_numbers(r, Zeros) = [i \in 1..Slots |-> Zeros[i]]
    BY <1>4, <2>2 DEF parse_numbers
  <2>4. NoLine \notin Line
    <3>1. SUFFICES ASSUME r.line \in Line PROVE FALSE
      BY <1>4
    <3>2. r.line \in [1..Slots -> Int] /\ Len(r.line) = Slots
      BY <3>1, <1>1 DEF Slots
    <3>3. Len(r.line) = 10
      BY <3>2 DEF Slots
    <3>4. Len(r.line) \in Nat /\ Len(r.line) # 0
      BY <3>3
    <3> QED BY <2>1, <3>4
  <2> QED BY <2>3, <2>4, <1>1, <1>4 DEF Zeros
<1> QED BY <1>2, <1>3, <1>4

LEMMA ShownType ==
  ASSUME NEW k \in Key, NEW v \in Line
  PROVE  Shown(k, v) \in
           [status : Statuses, key : Key, values : Line, max : Int,
            category : {categories[i] : i \in 1..6} \union {Outside}]
<1>1. v \in Ten
  BY LineAssumption DEF Ten
<1> QED BY <1>1, MaxIsMaximum, CategoryFits DEF Shown, Statuses

LEMMA StatusType ==
  ASSUME NEW s \in Statuses
  PROVE  Status(s) \in
           [status : Statuses, key : Key, values : Line, max : Int,
            category : {categories[i] : i \in 1..6} \union {Outside}]
BY LineAssumption DEF Status, Key

LEMMA ScannedType ==
  ASSUME TypeOK, NEW p \in Child, NEW e \in Scanned(p)
  PROVE  e.key \in Key /\ e.values \in Line
<1>1. request[p].day \in Day
  BY RequestAssumption DEF TypeOK, Request
<1>2. CASE payload[p] = "own"
  BY <1>1, <1>2, GarbageAssumption, LineAssumption DEF Scanned, Key
<1>3. CASE payload[p] = "long"
  BY <1>3 DEF Scanned, Key
<1>4. CASE payload[p] \notin {"own", "long"}
  <2>1. Scanned(p) = Garbage
    BY <1>4 DEF Scanned
  <2> QED BY <2>1, GarbageAssumption
<1> QED BY <1>2, <1>3, <1>4

LEMMA FoundType ==
  ASSUME TypeOK, NEW p \in Child, NEW e \in Found(p)
  PROVE  e.key \in Key /\ e.values \in Line
<1> DEFINE key == IF reply[p] = NoReply THEN NoKey ELSE cmd[p].key
           values == parse_numbers(reply[p], Zeros)
<1>1. key \in Key /\ Junk \in Key
  BY DEF TypeOK, Key
<1>2. values \in Line
  BY ParsedLine DEF TypeOK
<1>3. e \in [key : IF Fits(key) THEN {key} ELSE {key, Junk},
              values : IF key = Long /\ reply[p].word # "VALUE" THEN Line
                       ELSE {values}]
  BY DEF Found
<1> HIDE DEF key, values
<1> QED BY <1>1, <1>2, <1>3

LEMMA TypeInit == Init => TypeOK
<1> SUFFICES ASSUME Init PROVE TypeOK
  OBVIOUS
<1>1. Status("none") \in
        [status : Statuses, key : Key, values : Line, max : Int,
         category : {categories[i] : i \in 1..6} \union {Outside}]
  BY StatusType DEF Statuses
<1>2. StatsTypeOK
  BY DEF Init, StatsInit, StatsTypeOK, Empty
<1>3. NoCommand \in [op : {"none", "get", "set", "delete"}, key : Key,
                      line : Line \union {NoLine}]
  BY DEF NoCommand, Key
<1>4. NoReply \in [word : Words, line : Line \union {NoLine}]
  BY DEF NoReply, Words
<1>5. store \in [Key -> Line \union {NoLine}] /\ store[NoKey] = NoLine
  BY LoadedAssumption DEF Init
<1>6. stops \in 0..MaxStops
  BY StopsAssumption DEF Init
<1> QED BY <1>1, <1>2, <1>3, <1>4, <1>5, <1>6 DEF Init, TypeOK, PC

LEMMA TypeStep == TypeOK /\ [Next]_vars => TypeOK'
<1> SUFFICES ASSUME TypeOK, [Next]_vars PROVE TypeOK'
  OBVIOUS
<1> USE DEF PC, Ended, Killed
<1> DEFINE Answers == [status : Statuses, key : Key, values : Line,
                       max : Int, category :
                         {categories[i] : i \in 1..6} \union {Outside}]
<1>0. request \in [Child -> Request]
  BY RequestAssumption DEF TypeOK
<1>stats. UNCHANGED stats => StatsTypeOK'
  BY DEF TypeOK, StatsTypeOK
<1>1. ASSUME NEW p \in Child, NEW a \in Answers, Answer(p, a),
             UNCHANGED <<client, link, memcached, stats>>
      PROVE  TypeOK'
  BY <1>1 DEF Answer, TypeOK, StatsTypeOK
<1>2. ASSUME NEW p \in Child, NEW s \in Statuses, Answer(p, Status(s)),
             UNCHANGED <<client, link, memcached, stats>>
      PROVE  TypeOK'
  BY <1>1, <1>2, StatusType
<1>3. ASSUME NEW p \in Child, memcache_conection(p)
      PROVE  TypeOK'
  <2>1. Status("no memcached") \in Answers
    BY StatusType DEF Statuses
  <2>2. CASE up
    BY <1>3, <2>2 DEF memcache_conection, TypeOK, StatsTypeOK
  <2>3. CASE ~up
    <3>1. /\ Answer(p, Status("no memcached"))
          /\ UNCHANGED <<client, link, memcached, stats>>
      BY <1>3, <2>3 DEF memcache_conection
    <3> QED BY <1>1, <2>1, <3>1
  <2> QED BY <2>2, <2>3
<1>4. ASSUME NEW p \in Child, ReadHeaders(p) \/ ReadBody(p)
      PROVE  TypeOK'
  <2>1. request[p].body \in Body
    BY <1>0 DEF Request
  <2>2. \A what \in {"unread", "headless", "empty"} \union Body :
          Read(p, what) /\ UNCHANGED <<request, link, answer, memcached, stats>>
            => TypeOK'
    <3> SUFFICES ASSUME NEW what \in {"unread", "headless", "empty"} \union Body,
                        Read(p, what),
                        UNCHANGED <<request, link, answer, memcached, stats>>
                 PROVE  TypeOK'
      OBVIOUS
    <3>1. pc' \in [Child -> PC]
      BY DEF Read, TypeOK
    <3>2. /\ payload' \in [Child -> {"unread", "headless", "empty"} \union Body]
          /\ got' \in [Child -> {"nothing", "line", "length", "head", "all"}]
          /\ eof' \in [Child -> BOOLEAN]
      BY DEF Read, TypeOK
    <3> QED BY <3>1, <3>2, <1>stats DEF TypeOK
  <2>3. CASE At(p, "headers") /\ HasLength(p)
    <3>1. Goto(p, "body") /\ UNCHANGED <<client, link, answer, memcached, stats>>
      BY <1>4, <2>3 DEF ReadHeaders, ReadBody
    <3>2. pc' \in [Child -> PC]
      BY <3>1 DEF TypeOK
    <3> QED BY <3>1, <3>2, <1>stats DEF TypeOK
  <2>4. CASE At(p, "headers") /\ ~HasLength(p)
    BY <1>4, <2>2, <2>4 DEF ReadHeaders, ReadBody, Body
  <2>5. CASE At(p, "body")
    <3>1. CASE Goto(p, "crashed") /\ UNCHANGED <<got, eof, payload>>
               /\ UNCHANGED <<request, link, answer, memcached, stats>>
      <4>1. pc' \in [Child -> PC]
        BY <3>1 DEF TypeOK
      <4> QED BY <3>1, <4>1, <1>stats DEF TypeOK
    <3>2. \/ Goto(p, "crashed") /\ UNCHANGED <<got, eof, payload>>
          \/ \E what \in {"unread", "headless", "empty"} \union Body :
               Read(p, what)
      BY <1>4, <2>1, <2>5 DEF ReadHeaders, ReadBody
    <3>3. UNCHANGED <<request, link, answer, memcached, stats>>
      BY <1>4, <2>5 DEF ReadHeaders, ReadBody
    <3> QED BY <2>2, <3>1, <3>2, <3>3
  <2> QED BY <1>4, <2>3, <2>4, <2>5 DEF ReadHeaders, ReadBody
<1>5. ASSUME NEW p \in Child, HandleFixed(p) \/ HandleUnknown(p)
      PROVE  TypeOK'
  BY <1>2, <1>5 DEF HandleFixed, HandleUnknown, Statuses
<1>6. ASSUME NEW p \in Child, NEW c, Send(p, c),
             c \in [op : {"none", "get", "set", "delete"}, key : Key,
                    line : Line \union {NoLine}],
             UNCHANGED <<client, reply, conn, answer, memcached, stats>>
      PROVE  TypeOK'
  <2>1. CASE conn[p] = "open"
    <3>1. cmd' \in [Child -> [op : {"none", "get", "set", "delete"},
                              key : Key, line : Line \union {NoLine}]]
      BY <1>6, <2>1 DEF Send, TypeOK
    <3>2. pc' \in [Child -> PC]
      BY <1>6, <2>1 DEF Send, TypeOK
    <3> QED BY <1>6, <3>1, <3>2, <1>stats DEF TypeOK
  <2>2. CASE conn[p] # "open"
    BY <1>6, <2>2 DEF Send, TypeOK, StatsTypeOK
  <2> QED BY <2>1, <2>2
<1>7. ASSUME NEW p \in Child, handle_dia_get(p) \/ handle_dia_delete(p)
      PROVE  TypeOK'
  <2>1. request[p].key \in Key
    BY <1>0 DEF Request
  <2> QED BY <1>6, <1>7, <2>1 DEF handle_dia_get, handle_dia_delete, Get, Delete
<1>8. ASSUME NEW p \in Child, SaveDay(p)
      PROVE  TypeOK'
  <2>1. CASE Goto(p, "crashed") /\ UNCHANGED cmd
    BY <1>8, <2>1 DEF SaveDay, TypeOK, StatsTypeOK
  <2>2. ASSUME NEW e \in Scanned(p), Send(p, Set(e.key, e.values))
        PROVE  TypeOK'
    <3>1. e.key \in Key /\ e.values \in Line
      BY ScannedType
    <3> QED BY <1>6, <1>8, <2>2, <3>1 DEF SaveDay, Set
  <2> QED BY <1>8, <2>1, <2>2 DEF SaveDay
<1>9. ASSUME NEW p \in Child, SaveDone(p) \/ DeleteDone(p)
      PROVE  TypeOK'
  <2>1. CASE Goto(p, "crashed") /\ UNCHANGED answer
    BY <1>9, <2>1 DEF SaveDone, DeleteDone, TypeOK, StatsTypeOK
  <2>2. CASE \E st \in Statuses : Answer(p, Status(st))
    BY <1>2, <1>9, <2>2 DEF SaveDone, DeleteDone
  <2> QED BY <1>9, <2>1, <2>2 DEF SaveDone, DeleteDone, Statuses
<1>10. ASSUME NEW p \in Child, ShowDay(p)
       PROVE  TypeOK'
  <2>1. CASE Goto(p, "crashed") /\ UNCHANGED answer
    BY <1>10, <2>1 DEF ShowDay, TypeOK, StatsTypeOK
  <2>2. ASSUME NEW e \in Found(p), Answer(p, Shown(e.key, e.values))
        PROVE  TypeOK'
    <3>1. Shown(e.key, e.values) \in Answers
      BY FoundType, ShownType
    <3> QED BY <1>1, <1>10, <2>2, <3>1 DEF ShowDay
  <2> QED BY <1>10, <2>1, <2>2 DEF ShowDay
<1>11. ASSUME NEW p \in Child, handle_estado_get(p)
       PROVE  TypeOK'
  <2>1. CASE popen(p) /\ UNCHANGED answer
    BY <1>11, <2>1 DEF handle_estado_get, popen, TypeOK, StatsTypeOK
  <2>2. CASE Answer(p, Status("200 OK")) /\ UNCHANGED stats
    BY <1>2, <1>11, <2>2 DEF handle_estado_get, Statuses
  <2> QED BY <1>11, <2>1, <2>2 DEF handle_estado_get
<1>12. ASSUME NEW p \in Child, RunScript(p)
       PROVE  TypeOK'
  <2>0. StatsTypeOK /\ pc \in [Child -> PC]
    BY DEF TypeOK
  <2>1. CASE TakeLine(p)
    <3>1. result' \in [Child -> [lines : Nat, part : Nat]]
      <4>1. result \in [Child -> [lines : Nat, part : Nat]]
        BY <2>0 DEF StatsTypeOK
      <4>2. CASE UNCHANGED result
        BY <4>1, <4>2
      <4>3. CASE result' = [result EXCEPT ![p] =
                   IF Piece(p) = Left(p) THEN [lines |-> @.lines + 1, part |-> 0]
                   ELSE [lines |-> @.lines, part |-> @.part + Piece(p)]]
        <5>1. Piece(p) = Left(p) \/ Piece(p) \in Nat
          BY BufferAssumption DEF Piece
        <5> HIDE DEF stats
        <5> QED BY <4>1, <4>3, <5>1
      <4> QED BY <2>1, <4>2, <4>3 DEF TakeLine
    <3>3. StatsTypeOK' /\ pc' \in [Child -> PC]
      BY <2>0, <2>1, <3>1 DEF TakeLine, StatsTypeOK
    <3> QED BY <1>12, <3>3 DEF RunScript, TypeOK
  <2>2. CASE EndOfOutput(p) \/ pclose(p) \/ dead_child(p)
    <3>0. StatsTypeOK' /\ pc' \in [Child -> PC]
      <4>1. CASE EndOfOutput(p)
        BY <2>0, <4>1 DEF EndOfOutput, StatsTypeOK
      <4>2. CASE pclose(p)
        BY <2>0, <4>2 DEF pclose, StatsTypeOK
      <4>3. CASE dead_child(p) /\ script[p] = "zombie"
        BY <2>0, <4>3 DEF dead_child, StatsTypeOK
      <4>4. CASE dead_child(p) /\ script[p] # "zombie"
        BY <2>0, <4>4 DEF dead_child, StatsTypeOK
      <4> QED BY <2>2, <4>1, <4>2, <4>3, <4>4
    <3> QED BY <1>12, <3>0 DEF RunScript, TypeOK
  <2> QED BY <1>12, <2>1, <2>2 DEF RunScript, HandleCommand
<1>13. ASSUME NEW p \in Child, AnswerStats(p)
       PROVE  TypeOK'
  <2>1. Status("200 OK") \in Answers
    BY StatusType DEF Statuses
  <2> QED BY <1>13, <2>1 DEF AnswerStats, Collected, Answer, TypeOK, StatsTypeOK
<1>14. ASSUME NEW p \in Child,
              Stopped(p) \/ ClientSends(p) \/ ClientCloses(p)
       PROVE  TypeOK'
  <2>1. CASE Stopped(p)
    BY <2>1 DEF Stopped, TypeOK, StatsTypeOK
  <2>2. CASE ClientSends(p)
    <3>1. got' \in [Child -> {"nothing", "line", "length", "head", "all"}]
      <4>1. got \in [Child -> {"nothing", "line", "length", "head", "all"}]
        BY DEF TypeOK
      <4> QED BY <2>2, <4>1 DEF ClientSends
    <3> QED BY <2>2, <3>1 DEF ClientSends, TypeOK, StatsTypeOK
  <2>3. CASE ClientCloses(p)
    BY <2>3 DEF ClientCloses, TypeOK, StatsTypeOK
  <2> QED BY <1>14, <2>1, <2>2, <2>3
<1>15. ASSUME NEW p \in Child, Execute(p)
       PROVE  TypeOK'
  <2>1. Reply(cmd[p], store) \in [word : Words, line : Line \union {NoLine}]
    BY DEF Reply, Words, TypeOK
  <2>2. store' \in [Key -> Line \union {NoLine}] /\ store'[NoKey] = NoLine
    <3>1. /\ store \in [Key -> Line \union {NoLine}] /\ store[NoKey] = NoLine
          /\ cmd[p].key \in Key /\ cmd[p].line \in Line \union {NoLine}
      BY DEF TypeOK
    <3>2. \/ store' = store
          \/ /\ cmd[p].key # NoKey
             /\ store' = [store EXCEPT ![cmd[p].key] = cmd[p].line]
      BY <1>15 DEF Execute
    <3>3. NoKey \in Key
      BY DEF Key
    <3> QED BY <3>1, <3>2, <3>3
  <2> QED BY <1>15, <2>1, <2>2 DEF Execute, TypeOK, StatsTypeOK
<1>16. ASSUME NEW p \in Child, ScriptRuns(p)
       PROVE  TypeOK'
  <2>1. StatsTypeOK' /\ UNCHANGED pc
    <3>1. CASE ScriptPrints(p)
      <4>1. PICK o \in Output : printed' = [printed EXCEPT ![p] = o]
        BY <3>1 DEF ScriptPrints
      <4>2. o \in Seq(Nat)
        BY OutputAssumption
      <4> QED BY <3>1, <4>1, <4>2 DEF ScriptPrints, TypeOK, StatsTypeOK
    <3>2. CASE ScriptDies(p)
      BY <3>2 DEF ScriptDies, TypeOK, StatsTypeOK
    <3> QED BY <1>16, <3>1, <3>2 DEF ScriptRuns, Script
  <2> QED BY <1>16, <2>1 DEF ScriptRuns, TypeOK
<1>17. ASSUME MemcachedStops
       PROVE  TypeOK'
  <2>1. stops' \in 0..MaxStops
    <3>1. stops \in 0..MaxStops
      BY DEF TypeOK
    <3> QED BY <1>17, <3>1, StopsAssumption DEF MemcachedStops
  <2>2. conn' \in [Child -> {"none", "open", "broken"}]
    BY <1>17 DEF MemcachedStops, TypeOK
  <2>3. store' \in [Key -> Line \union {NoLine}] /\ store'[NoKey] = NoLine
    BY <1>17 DEF MemcachedStops, Key
  <2> QED BY <1>17, <2>1, <2>2, <2>3 DEF MemcachedStops, TypeOK, StatsTypeOK
<1>18. ASSUME MemcachedStarts
       PROVE  TypeOK'
  BY <1>18 DEF MemcachedStarts, TypeOK, StatsTypeOK
<1>19. ASSUME UNCHANGED vars
       PROVE  TypeOK'
  BY <1>19 DEF vars, TypeOK, StatsTypeOK
<1> QED BY <1>3, <1>4, <1>5, <1>7, <1>8, <1>9, <1>10, <1>11, <1>12, <1>13,
           <1>14, <1>15, <1>16, <1>17, <1>18, <1>19, StepCases

\* Every variable keeps its type, and nothing is ever stored under no key.
THEOREM TypeCorrect == Spec => []TypeOK
BY TypeInit, TypeStep, PTL DEF Spec
-----------------------------------------------------------------------------
(* What a step may do to a command and its reply.                           *)

\* The places a child is at before it has sent a command, or without one.
Early == {"start", "headers", "body", "dispatch", "script", "pclose", "stats"}

\* A child goes on, fails, or answers without having sent a command.
Quiet(p) ==
  /\ \E l \in PC :
       /\ Goto(p, l)
       /\ \/ l \in Early \union {"answered"} /\ pc[p] \in Early
          \/ l \in Killed /\ Alive(p)
  /\ \A q \in Child \ {p} : answer'[q] = answer[q]
  /\ UNCHANGED <<request, link, store>>

Connects(p) ==
  /\ At(p, "start") /\ Goto(p, "headers")
  /\ conn' = [conn EXCEPT ![p] = "open"]
  /\ UNCHANGED <<request, cmd, reply, answer, store>>

Sends(p, c) ==
  /\ At(p, "dispatch") /\ Goto(p, "reply")
  /\ c.op = "get" => request[p].method = "GET"
  /\ cmd' = [cmd EXCEPT ![p] = c]
  /\ UNCHANGED <<request, reply, conn, answer, store>>

Answers(p) ==
  /\ Readable(p)
  /\ \E a : Answer(p, a)
  /\ SaveDone(p) \/ DeleteDone(p) \/ ShowDay(p)
  /\ UNCHANGED <<request, link, store>>

Elsewhere == UNCHANGED <<request, pc, link, answer, store>>

Kinds ==
  \/ \E p \in Child : \/ Quiet(p) \/ Connects(p) \/ Answers(p) \/ Execute(p)
                      \/ \E c \in Days!Operation : Sends(p, c)
  \/ MemcachedStops
  \/ Elsewhere

LEMMA StepKinds ==
  ASSUME TypeOK, [Next]_vars
  PROVE  Kinds
<1> USE DEF Early, Killed, PC, Ended, Alive
<1> DEFINE Moves(p, l) == Goto(p, l) /\ UNCHANGED <<request, link, store>>
<1>1. request \in [Child -> Request]
  BY RequestAssumption DEF TypeOK
<1>2. ASSUME NEW p \in Child, NEW l \in Early, Moves(p, l), pc[p] \in Early,
             UNCHANGED answer
      PROVE  Quiet(p)
  BY <1>2 DEF Quiet
<1>3. ASSUME NEW p \in Child, NEW l \in Killed, Moves(p, l), Alive(p),
             UNCHANGED answer
      PROVE  Quiet(p)
  BY <1>3 DEF Quiet
<1>4. ASSUME NEW p \in Child, NEW a, Answer(p, a), pc[p] \in Early,
             UNCHANGED <<request, link, store>>
      PROVE  Quiet(p)
  BY <1>4 DEF Quiet, Answer, TypeOK
<1>5. ASSUME NEW p \in Child, memcache_conection(p)
      PROVE  Quiet(p) \/ Connects(p)
  <2>1. CASE up
    BY <1>5, <2>1 DEF memcache_conection, Connects
  <2>2. CASE ~up
    BY <1>4, <1>5, <2>2 DEF memcache_conection
  <2> QED BY <2>1, <2>2
<1>6. ASSUME NEW p \in Child, ReadHeaders(p) \/ ReadBody(p)
      PROVE  Quiet(p)
  <2>1. CASE Goto(p, "crashed")
    BY <1>3, <1>6, <2>1 DEF ReadHeaders, ReadBody
  <2>2. CASE Goto(p, "body") \/ Goto(p, "dispatch")
    BY <1>2, <1>6, <2>2 DEF ReadHeaders, ReadBody
  <2> QED BY <1>6, <2>1, <2>2 DEF ReadHeaders, ReadBody, Read
<1>7. ASSUME NEW p \in Child, HandleFixed(p) \/ HandleUnknown(p)
      PROVE  Quiet(p)
  BY <1>4, <1>7 DEF HandleFixed, HandleUnknown
<1>8. ASSUME NEW p \in Child, NEW c \in Days!Operation, Send(p, c),
             At(p, "dispatch"), c.op = "get" => request[p].method = "GET",
             UNCHANGED <<client, reply, conn, answer, memcached, stats>>
      PROVE  Quiet(p) \/ Sends(p, c)
  BY <1>3, <1>8 DEF Send, Sends
<1>9. ASSUME NEW p \in Child, handle_dia_get(p) \/ handle_dia_delete(p)
      PROVE  Quiet(p) \/ \E c \in Days!Operation : Sends(p, c)
  <2>1. request[p].key \in Key
    BY <1>1 DEF Request
  <2>2. /\ Get(request[p].key) \in Days!Operation
        /\ Delete(request[p].key) \in Days!Operation
    BY <2>1 DEF Get, Delete, Days!Operation, Days!Get, Days!Delete
  <2>3. CASE handle_dia_get(p)
    BY <1>8, <2>2, <2>3 DEF handle_dia_get, Asks
  <2>4. CASE handle_dia_delete(p)
    BY <1>8, <2>2, <2>4 DEF handle_dia_delete, Delete
  <2> QED BY <1>9, <2>3, <2>4
<1>10. ASSUME NEW p \in Child, SaveDay(p)
       PROVE  Quiet(p) \/ \E c \in Days!Operation : Sends(p, c)
  <2>1. CASE Goto(p, "crashed") /\ UNCHANGED cmd
    BY <1>3, <1>10, <2>1 DEF SaveDay
  <2>2. ASSUME NEW e \in Scanned(p), Send(p, Set(e.key, e.values))
        PROVE  Quiet(p) \/ \E c \in Days!Operation : Sends(p, c)
    <3>1. e.key \in Key /\ e.values \in Line
      BY ScannedType
    <3>2. Set(e.key, e.values) \in Days!Operation
      BY <3>1 DEF Set, Days!Operation, Days!Set
    <3> QED BY <1>8, <1>10, <2>2, <3>2 DEF SaveDay, Set
  <2> QED BY <1>10, <2>1, <2>2 DEF SaveDay
<1>11. ASSUME NEW p \in Child, SaveDone(p) \/ DeleteDone(p) \/ ShowDay(p)
       PROVE  Quiet(p) \/ Answers(p)
  <2>1. /\ (\E a : Answer(p, a)) \/ (Goto(p, "crashed") /\ UNCHANGED answer)
        /\ Readable(p)
        /\ UNCHANGED <<request, link, store>>
    BY <1>11 DEF SaveDone, DeleteDone, ShowDay
  <2>2. CASE \E a : Answer(p, a)
    BY <1>11, <2>1, <2>2 DEF Answers
  <2>3. CASE Goto(p, "crashed") /\ UNCHANGED answer
    BY <1>3, <2>1, <2>3 DEF Readable
  <2> QED BY <2>1, <2>2, <2>3
<1>12. ASSUME NEW p \in Child, handle_estado_get(p)
       PROVE  Quiet(p)
  BY <1>2, <1>4, <1>12 DEF handle_estado_get, popen
<1>13. ASSUME NEW p \in Child, RunScript(p)
       PROVE  Quiet(p) \/ Elsewhere
  <2>1. CASE TakeLine(p)
    BY <1>2, <1>13, <2>1 DEF RunScript, TakeLine, Elsewhere
  <2>2. CASE EndOfOutput(p) \/ pclose(p)
    BY <1>2, <1>13, <2>2 DEF RunScript, EndOfOutput, pclose
  <2>3. CASE dead_child(p)
    BY <1>3, <1>13, <2>3 DEF RunScript, dead_child, Elsewhere
  <2> QED BY <1>13, <2>1, <2>2, <2>3 DEF RunScript, HandleCommand
<1>14. ASSUME NEW p \in Child, AnswerStats(p)
       PROVE  Quiet(p)
  BY <1>4, <1>14 DEF AnswerStats, Collected
<1>15. ASSUME NEW p \in Child, Stopped(p)
       PROVE  Quiet(p)
  BY <1>3, <1>15 DEF Stopped
<1>16. ASSUME NEW p \in Child,
              ClientSends(p) \/ ClientCloses(p) \/ ScriptRuns(p)
       PROVE  Elsewhere
  BY <1>16 DEF ClientSends, ClientCloses, ScriptRuns, Script, ScriptPrints,
               ScriptDies, Elsewhere
<1>17. MemcachedStarts \/ UNCHANGED vars => Elsewhere
  BY DEF MemcachedStarts, vars, Elsewhere
<1> QED BY <1>5, <1>6, <1>7, <1>9, <1>10, <1>11, <1>12, <1>13, <1>14, <1>15,
           <1>16, <1>17, StepCases DEF Kinds

\* What a child has sent and what it has been told belong together.
Commands ==
  \A p \in Child :
    /\ cmd[p] \in Days!Operation \union {NoCommand}
    /\ cmd[p] = NoCommand => reply[p] = NoReply
    /\ pc[p] \in Early => cmd[p] = NoCommand
    /\ At(p, "reply") => cmd[p] # NoCommand
    /\ At(p, "answered") /\ cmd[p] # NoCommand =>
         reply[p] # NoReply \/ conn[p] = "broken"
    /\ cmd[p].op = "get" => request[p].method = "GET"
    /\ reply[p].word = "VALUE" => cmd[p].op = "get" /\ reply[p].line \in Line
    /\ reply[p].word = "STORED" => cmd[p].op = "set"
    /\ reply[p].word = "DELETED" => cmd[p].op = "delete"

LEMMA CommandsInit == Init => Commands
BY DEF Init, Commands, NoCommand, NoReply, Early

LEMMA OperationHasOp ==
  ASSUME NEW c \in Days!Operation
  PROVE  c # NoCommand /\ c.op \in {"get", "set", "delete"}
BY DEF Days!Operation, Days!Get, Days!Set, Days!Delete, NoCommand

LEMMA CommandsStep == TypeOK /\ Commands /\ [Next]_vars => Commands'
<1> SUFFICES ASSUME TypeOK, Commands, [Next]_vars
             PROVE  Commands'
  OBVIOUS
<1> USE DEF Early, Commands
<1>1. ASSUME NEW p \in Child, Quiet(p)
      PROVE  Commands'
  <2>1. PICK l \in PC :
          /\ Goto(p, l)
          /\ \/ l \in Early \union {"answered"} /\ pc[p] \in Early
             \/ l \in Killed /\ Alive(p)
    BY <1>1 DEF Quiet
  <2>2. UNCHANGED <<request, link, store>>
    BY <1>1 DEF Quiet
  <2>3. \A q \in Child : pc'[q] = IF q = p THEN l ELSE pc[q]
    BY <2>1 DEF TypeOK
  <2>4. /\ pc'[p] \in Early => cmd[p] = NoCommand
        /\ pc'[p] # "reply"
        /\ pc'[p] = "answered" => cmd[p] = NoCommand
    BY <2>1, <2>3 DEF Killed
  <2> QED BY <2>2, <2>3, <2>4
<1>2. ASSUME NEW p \in Child, Connects(p)
      PROVE  Commands'
  BY <1>2 DEF Connects, TypeOK
<1>3. ASSUME NEW p \in Child, Answers(p)
      PROVE  Commands'
  BY <1>3 DEF Answers, Answer, Readable, TypeOK
<1>4. ASSUME NEW p \in Child, NEW c \in Days!Operation, Sends(p, c)
      PROVE  Commands'
  BY <1>4, OperationHasOp DEF Sends, TypeOK, NoReply
<1>5. ASSUME NEW p \in Child, Execute(p)
      PROVE  Commands'
  <2>1. cmd[p] \in Days!Operation
    BY <1>5 DEF Execute
  <2>2. /\ Reply(cmd[p], store).word = "VALUE" =>
             cmd[p].op = "get" /\ Reply(cmd[p], store).line \in Line
        /\ Reply(cmd[p], store).word = "STORED" => cmd[p].op = "set"
        /\ Reply(cmd[p], store).word = "DELETED" => cmd[p].op = "delete"
    BY <2>1, OperationHasOp DEF Reply, TypeOK
  <2>3. Reply(cmd[p], store) # NoReply
    BY DEF Reply, NoReply
  <2> QED BY <1>5, <2>1, <2>2, <2>3 DEF Execute, TypeOK
<1>6. ASSUME MemcachedStops
      PROVE  Commands'
  BY <1>6 DEF MemcachedStops, TypeOK
<1>7. ASSUME Elsewhere
      PROVE  Commands'
  BY <1>7 DEF Elsewhere
<1> QED BY <1>1, <1>2, <1>3, <1>4, <1>5, <1>6, <1>7, StepKinds DEF Kinds

LEMMA CommandsCorrect == Spec => [](TypeOK /\ Commands)
<1>1. Init => TypeOK /\ Commands
  BY TypeInit, CommandsInit
<1>2. TypeOK /\ Commands /\ [Next]_vars => (TypeOK /\ Commands)'
  BY TypeStep, CommandsStep
<1> QED BY <1>1, <1>2, PTL DEF Spec
-----------------------------------------------------------------------------
(* The children and memcached implement DayStore.                           *)

\* What a child that shows a day has found.
LEMMA FoundIs ==
  ASSUME TypeOK, Commands, NEW p \in Child, NEW e \in Found(p)
  PROVE  /\ reply[p] = NoReply => e.key = NoKey /\ e.values = Zeros
         /\ reply[p] # NoReply /\ Fits(cmd[p].key) => e.key = cmd[p].key
         /\ reply[p].word = "VALUE" => e.values = reply[p].line
         /\ reply[p].word # "VALUE" /\ cmd[p].key # Long => e.values = Zeros
<1> DEFINE key == IF reply[p] = NoReply THEN NoKey ELSE cmd[p].key
           values == parse_numbers(reply[p], Zeros)
<1>1. e \in [key : IF Fits(key) THEN {key} ELSE {key, Junk},
              values : IF key = Long /\ reply[p].word # "VALUE" THEN Line
                       ELSE {values}]
  BY DEF Found
<1>2. /\ reply[p].word = "VALUE" => values = reply[p].line
      /\ reply[p].word # "VALUE" => values = Zeros
  BY ParsedLine DEF TypeOK, Commands
<1>3. Fits(NoKey) /\ NoKey # Long
  BY KeyAssumption DEF Fits
<1>4. CASE reply[p] = NoReply
  <2>1. key = NoKey /\ reply[p].word # "VALUE"
    BY <1>4 DEF NoReply
  <2> HIDE DEF key, values
  <2> QED BY <1>1, <1>2, <1>3, <1>4, <2>1
<1>5. CASE reply[p] # NoReply
  <2>1. key = cmd[p].key
    BY <1>5
  <2> HIDE DEF key, values
  <2> QED BY <1>1, <1>2, <1>5, <2>1
<1> QED BY <1>4, <1>5

\* Nothing that DayStore sees has changed for a child.
LEMMA CallKept ==
  ASSUME NEW q \in Child, cmd'[q] = cmd[q], reply'[q] = reply[q],
         cmd[q] = NoCommand \/ (At(q, "answered")' <=> At(q, "answered")),
         cmd[q] = NoCommand \/ ~At(q, "answered") \/ answer'[q] = answer[q]
  PROVE  call'[q] = call[q]
BY DEF call, SaidBy, SaidIn

LEMMA DaysInit == Init => Days!Init
BY LoadedAssumption DEF Init, Days!Init, Days!Idle, call

\* Every step is one of DayStore's, or one that it does not see.
LEMMA DaysStep ==
  TypeOK /\ Commands /\ [Next]_vars => [Days!Next]_<<store, call>>
<1> SUFFICES ASSUME TypeOK, Commands, [Next]_vars
             PROVE  [Days!Next]_<<store, call>>
  OBVIOUS
<1> USE DEF Early
<1>1. call = [q \in Child |-> call[q]] /\ call' = [q \in Child |-> call'[q]]
  BY DEF call
<1>2. ASSUME NEW p \in Child, Quiet(p)
      PROVE  UNCHANGED <<store, call>>
  <2>1. \A q \in Child : call'[q] = call[q]
    <3> SUFFICES ASSUME NEW q \in Child PROVE call'[q] = call[q]
      OBVIOUS
    <3>1. UNCHANGED link
      BY <1>2 DEF Quiet
    <3>2. CASE q # p
      BY <1>2, <3>1, <3>2, CallKept DEF Quiet, TypeOK
    <3>3. CASE q = p
      <4>1. cmd[p] = NoCommand \/ (~At(p, "answered") /\ ~At(p, "answered")')
        <5>1. PICK l \in PC :
                /\ Goto(p, l)
                /\ \/ l \in Early \union {"answered"} /\ pc[p] \in Early
                   \/ l \in Killed /\ Alive(p)
          BY <1>2 DEF Quiet
        <5>2. pc'[p] = l
          BY <5>1 DEF TypeOK
        <5>3. pc[p] \in Early => cmd[p] = NoCommand
          BY DEF Commands
        <5>4. CASE pc[p] \in Early
          BY <5>3, <5>4
        <5>5. CASE l \in Killed /\ Alive(p)
          BY <5>2, <5>5 DEF Killed, Alive, Ended
        <5> QED BY <5>1, <5>4, <5>5
      <4> QED BY <3>1, <3>3, <4>1, CallKept
    <3> QED BY <3>2, <3>3
  <2> QED BY <1>1, <1>2, <2>1 DEF Quiet
<1>3. ASSUME NEW p \in Child, Connects(p)
      PROVE  UNCHANGED <<store, call>>
  <2>1. \A q \in Child : At(q, "answered")' <=> At(q, "answered")
    BY <1>3 DEF Connects, TypeOK
  <2>2. \A q \in Child : call'[q] = call[q]
    BY <1>3, <2>1, CallKept DEF Connects
  <2> QED BY <1>1, <1>3, <2>2 DEF Connects
<1>4. ASSUME NEW p \in Child, NEW c \in Days!Operation, Sends(p, c)
      PROVE  Days!Ask(p)
  <2>1. \A q \in Child \ {p} : call'[q] = call[q]
    BY <1>4, CallKept DEF Sends, TypeOK
  <2>2. call[p] = Days!Idle
    BY <1>4 DEF Sends, Commands, call, Days!Idle
  <2>3. reply[p] = NoReply /\ cmd'[p] = c /\ ~At(p, "answered")'
    BY <1>4 DEF Sends, Commands, TypeOK
  <2>4. call'[p] = Days!Asked(c)
    BY <1>4, <2>3, OperationHasOp DEF Sends, call, Days!Asked
  <2>5. call' = [call EXCEPT ![p] = Days!Asked(c)]
    BY <1>1, <2>1, <2>4
  <2> QED BY <1>4, <2>2, <2>5 DEF Sends, Days!Ask
<1>5. ASSUME NEW p \in Child, Answers(p)
      PROVE  Days!Answer(p) \/ Days!AnswerUnknown(p)
  <2>1. PICK a : Answer(p, a)
    BY <1>5 DEF Answers
  <2>2. \A q \in Child \ {p} : call'[q] = call[q]
    BY <1>5, <2>1, CallKept DEF Answers, Answer, TypeOK
  <2>3. cmd[p] \in Days!Operation /\ cmd'[p] = cmd[p] /\ ~At(p, "answered")
        /\ At(p, "answered")'
    BY <1>5, <2>1 DEF Answers, Answer, Readable, Commands, TypeOK
  <2>4. call'[p] = SaidIn(p)'
    BY <2>3, OperationHasOp DEF call
  <2>5. SaidIn(p)' = IF reply[p] = NoReply THEN Days!Unknown(cmd[p])
                     ELSE SaidBy(p)
    <3>1. reply[p].line \in Line \union {NoLine}
      BY DEF TypeOK
    <3>2. CASE SaveDone(p) \/ DeleteDone(p)
      <4>a. ~Goto(p, "crashed")
        BY <2>3 DEF TypeOK
      <4>b. PICK s \in Statuses : /\ Answer(p, Status(s))
                                  /\ s # "400 Bad Request" <=>
                                       reply[p].word \in {"STORED", "DELETED"}
        BY <3>2, <4>a DEF SaveDone, DeleteDone, Commands, Statuses
      <4>1. /\ answer'[p] = Status(s)
            /\ s # "400 Bad Request" <=>
                 reply[p].word \in {"STORED", "DELETED"}
        BY <4>b DEF Answer, TypeOK
      <4>2. cmd[p].op # "get"
        BY <3>2 DEF SaveDone, DeleteDone
      <4> DEFINE said(ok) == [at |-> "answered", ok |-> ok, key |-> NoKey,
                              line |-> NoLine]
      <4>0. answer'[p].status = s /\ answer'[p].key = NoKey
        <5>1. Status(s).status = s /\ Status(s).key = NoKey
          BY DEF Status
        <5> QED BY <4>1, <5>1
      <4>5. /\ SaidBy(p)' = SaidBy(p) /\ SaidBy(p).key = NoKey
            /\ UNCHANGED <<cmd, reply>>
        BY <1>5, <4>2 DEF Answers, SaidBy
      <4>6. SaidIn(p)' = said(s # "400 Bad Request")
        BY <4>0, <4>2, <4>5 DEF SaidIn
      <4>3. CASE reply[p].word \in {"STORED", "DELETED"}
        <5>1. SaidIn(p)' = said(TRUE)
          BY <4>1, <4>3, <4>6
        <5>2. SaidBy(p) = said(TRUE)
          BY <4>2, <4>3 DEF SaidBy
        <5>3. reply[p] # NoReply
          BY <4>3 DEF NoReply
        <5> QED BY <5>1, <5>2, <5>3
      <4>4. CASE reply[p].word \notin {"STORED", "DELETED"}
        <5>1. SaidIn(p)' = said(FALSE)
          BY <4>1, <4>4, <4>6
        <5>2. SaidBy(p) = said(FALSE)
          BY <4>2, <4>4 DEF SaidBy
        <5>3. Days!Unknown(cmd[p]) = said(FALSE)
          BY <4>2 DEF Days!Unknown, Days!Answered
        <5> QED BY <5>1, <5>2, <5>3
      <4> QED BY <4>3, <4>4
    <3>3. CASE ShowDay(p)
      <4>a. ~Goto(p, "crashed")
        BY <2>3 DEF TypeOK
      <4>b. PICK e \in Found(p) : Answer(p, Shown(e.key, e.values))
        BY <3>3, <4>a DEF ShowDay
      <4>1. answer'[p] = Shown(e.key, e.values)
        BY <4>b DEF Answer, TypeOK
      <4>2. /\ answer'[p].key = e.key /\ answer'[p].values = e.values
            /\ answer'[p].status = "200 OK"
        <5> DEFINE k == e.key
                   v == e.values
        <5>1. answer'[p] = Shown(k, v)
          BY <4>1
        <5>2. /\ Shown(k, v).key = k /\ Shown(k, v).values = v
              /\ Shown(k, v).status = "200 OK"
          <6> HIDE DEF k, v
          <6> QED BY DEF Shown
        <5> QED BY <5>1, <5>2
      <4>3. /\ reply[p] = NoReply => e.key = NoKey /\ e.values = Zeros
            /\ reply[p] # NoReply /\ Fits(cmd[p].key) => e.key = cmd[p].key
            /\ reply[p].word = "VALUE" => e.values = reply[p].line
            /\ reply[p].word # "VALUE" /\ cmd[p].key # Long => e.values = Zeros
        BY FoundIs
      <4>4. cmd[p].op = "get"
        BY <3>3 DEF ShowDay
      <4>c. /\ SaidBy(p)' = SaidBy(p) /\ SaidBy(p).key = cmd[p].key
            /\ UNCHANGED <<cmd, reply>>
        BY <1>5, <4>4 DEF Answers, SaidBy
      <4> DEFINE key == IF Fits(cmd[p].key) \/ reply[p] = NoReply THEN e.key
                        ELSE cmd[p].key
                 line == IF cmd[p].key = Long /\ reply[p].word # "VALUE"
                         THEN Zeros ELSE e.values
      <4>5. SaidIn(p)' = [at |-> "answered", ok |-> TRUE, key |-> key,
                          line |-> line]
        <5>1. SaidIn(p)' =
                [at |-> "answered", ok |-> answer'[p].status # "400 Bad Request",
                 key |-> IF Fits(cmd[p].key) \/ reply[p] = NoReply
                           THEN answer'[p].key ELSE SaidBy(p).key,
                 line |-> IF cmd[p].op # "get" THEN NoLine
                          ELSE IF cmd[p].key = Long /\ reply[p].word # "VALUE"
                            THEN Zeros ELSE answer'[p].values]
          BY <4>c DEF SaidIn, Fits
        <5> QED BY <4>2, <4>4, <4>c, <5>1
      <4>6. CASE reply[p] = NoReply
        <5>1. key = NoKey /\ line = Zeros
          BY <4>3, <4>6
        <5> HIDE DEF key, line
        <5> QED BY <4>4, <4>5, <4>6, <5>1 DEF Days!Unknown, Days!Answered
      <4>7. CASE reply[p] # NoReply
        <5>1. key = cmd[p].key
          BY <4>3, <4>7
        <5>2. line = IF reply[p].word = "VALUE" THEN reply[p].line ELSE Zeros
          BY <4>3
        <5> HIDE DEF key, line
        <5>3. SaidBy(p) = [at |-> "answered", ok |-> TRUE, key |-> key,
                           line |-> line]
          BY <4>4, <5>1, <5>2 DEF SaidBy
        <5> QED BY <4>5, <4>7, <5>3
      <4> QED BY <4>6, <4>7
    <3> QED BY <1>5, <3>2, <3>3 DEF Answers
  <2>6. call' = [call EXCEPT ![p] = SaidIn(p)']
    BY <1>1, <2>2, <2>4
  <2>7. CASE reply[p] = NoReply
    <3>1. call[p] = [at |-> "asked", for |-> cmd[p]]
      BY <2>3, <2>7, OperationHasOp DEF call
    <3> QED BY <1>5, <2>5, <2>6, <2>7, <3>1 DEF Answers, Days!AnswerUnknown
  <2>8. CASE reply[p] # NoReply
    <3>1. call[p] = [at |-> "told", answer |-> SaidBy(p)]
      BY <2>3, <2>8, OperationHasOp DEF call
    <3> QED BY <1>5, <2>5, <2>6, <2>8, <3>1 DEF Answers, Days!Answer
  <2> QED BY <2>7, <2>8
<1>6. ASSUME NEW p \in Child, Execute(p)
      PROVE  Days!TakeEffect(p)
  <2>1. \A q \in Child \ {p} : call'[q] = call[q]
    BY <1>6, CallKept DEF Execute, TypeOK
  <2>2. /\ cmd[p] \in Days!Operation /\ cmd'[p] = cmd[p]
        /\ reply[p] = NoReply /\ reply'[p] = Reply(cmd[p], store)
        /\ ~At(p, "answered") /\ ~At(p, "answered")'
    BY <1>6 DEF Execute, Commands, TypeOK
  <2>3. call[p] = [at |-> "asked", for |-> cmd[p]]
    BY <2>2, OperationHasOp DEF call
  <2>4. Reply(cmd[p], store) # NoReply
    BY DEF Reply, NoReply
  <2>5. call'[p] = Days!Told(SaidBy(p)')
    BY <2>2, <2>4, OperationHasOp DEF call, Days!Told
  <2>6. SaidBy(p)' = Days!Verdict(cmd[p], Days!Found(cmd[p]))
    <3>1. cmd[p].op \in {"get", "set", "delete"} /\ store[NoKey] = NoLine
      BY <2>2, OperationHasOp DEF TypeOK
    <3>2. CASE cmd[p].op = "get"
      <4> DEFINE w == Days!Found(cmd[p])
      <4>1. SaidBy(p)' = [at |-> "answered", ok |-> TRUE, key |-> cmd[p].key,
                          line |-> IF Reply(cmd[p], store).word = "VALUE"
                                   THEN Reply(cmd[p], store).line ELSE Zeros]
        BY <2>2, <3>2 DEF SaidBy
      <4>2. /\ Reply(cmd[p], store).word = "VALUE" =>
                 Reply(cmd[p], store).line = w /\ w # NoLine
            /\ Reply(cmd[p], store).word # "VALUE" => w = NoLine
        BY <3>2 DEF Reply, Days!Found
      <4>3. Days!Verdict(cmd[p], w) =
              [at |-> "answered", ok |-> TRUE, key |-> cmd[p].key,
               line |-> IF w = NoLine THEN Zeros ELSE w]
        BY <3>2 DEF Days!Verdict, Days!Answered
      <4> QED BY <4>1, <4>2, <4>3
    <3>3. CASE cmd[p].op = "set"
      BY <2>2, <3>1, <3>3 DEF SaidBy, Reply, Days!Verdict, Days!Found,
         Days!Answered
    <3>4. CASE cmd[p].op = "delete"
      BY <2>2, <3>1, <3>4 DEF SaidBy, Reply, Days!Verdict, Days!Found,
         Days!Answered
    <3> QED BY <3>1, <3>2, <3>3, <3>4
  <2>7. call' = [call EXCEPT
                  ![p] = Days!Told(Days!Verdict(cmd[p], Days!Found(cmd[p])))]
    BY <1>1, <2>1, <2>5, <2>6
  <2> QED BY <1>6, <2>3, <2>7 DEF Execute, Days!TakeEffect
<1>7. ASSUME MemcachedStops
      PROVE  Days!Forget
  <2>1. \A q \in Child : call'[q] = call[q]
    BY <1>7, CallKept DEF MemcachedStops
  <2> QED BY <1>1, <1>7, <2>1 DEF MemcachedStops, Days!Forget
<1>8. ASSUME Elsewhere
      PROVE  UNCHANGED <<store, call>>
  <2>1. \A q \in Child : call'[q] = call[q]
    BY <1>8, CallKept DEF Elsewhere
  <2> QED BY <1>1, <1>8, <2>1 DEF Elsewhere
<1> QED BY <1>2, <1>3, <1>4, <1>5, <1>6, <1>7, <1>8, StepKinds
        DEF Kinds, Days!Next

\* What clients are told of days is what one store of days could have told
\* them, whatever is lost on the way.
THEOREM Implementation == Spec => ImplementsDays
<1>1. TypeOK /\ Commands /\ [Next]_vars => [Days!Next]_<<store, call>>
  BY DaysStep
<1> QED BY <1>1, DaysInit, CommandsCorrect, PTL
        DEF Spec, ImplementsDays, Days!Spec
-----------------------------------------------------------------------------
(* What is shown of a day.                                                  *)

LEMMA DayClassifiedStep ==
  TypeOK /\ Commands /\ DayClassified /\ [Next]_vars => DayClassified'
<1> SUFFICES ASSUME TypeOK, Commands, DayClassified, [Next]_vars,
                    NEW q \in Child, At(q, "answered")', cmd'[q].op = "get"
             PROVE  LET a == answer'[q]
                    IN  /\ IsMaximum(a.max, a.values)
                        /\ a.max >= 0 => InCategory(a.max, a.category)
                        /\ a.category = Outside => a.max < -98
  BY DEF DayClassified
<1>1. ASSUME At(q, "answered"), cmd[q].op = "get", answer'[q] = answer[q]
      PROVE  LET a == answer'[q]
             IN  /\ IsMaximum(a.max, a.values)
                 /\ a.max >= 0 => InCategory(a.max, a.category)
                 /\ a.category = Outside => a.max < -98
  BY <1>1 DEF DayClassified
<1>2. ASSUME NEW p \in Child, Quiet(p)
      PROVE  At(q, "answered") /\ cmd[q].op = "get" /\ answer'[q] = answer[q]
  <2>1. PICK l \in PC :
          /\ Goto(p, l)
          /\ \/ l \in Early \union {"answered"} /\ pc[p] \in Early
             \/ l \in Killed /\ Alive(p)
    BY <1>2 DEF Quiet
  <2>2. UNCHANGED cmd /\ (q # p => answer'[q] = answer[q])
    BY <1>2 DEF Quiet
  <2>3. CASE q = p
    <3>1. l = "answered" /\ pc[p] \in Early
      BY <2>1, <2>3 DEF TypeOK, Killed
    <3> QED BY <2>2, <2>3, <3>1 DEF Commands, NoCommand
  <2>4. CASE q # p
    BY <2>1, <2>2, <2>4 DEF TypeOK
  <2> QED BY <2>3, <2>4
<1>3. ASSUME NEW p \in Child, Answers(p), q # p
      PROVE  At(q, "answered") /\ cmd[q].op = "get" /\ answer'[q] = answer[q]
  BY <1>3 DEF Answers, Answer, TypeOK
<1>4. ASSUME Answers(q)
      PROVE  LET a == answer'[q]
             IN  /\ IsMaximum(a.max, a.values)
                 /\ a.max >= 0 => InCategory(a.max, a.category)
                 /\ a.category = Outside => a.max < -98
  <2>1. ShowDay(q) /\ \E a : Answer(q, a)
    BY <1>4 DEF Answers, SaveDone, DeleteDone
  <2>2. PICK e \in Found(q) : answer'[q] = Shown(e.key, e.values)
    <3>1. ~Goto(q, "crashed")
      BY <2>1 DEF Answer, TypeOK
    <3> QED BY <2>1, <3>1 DEF ShowDay, Answer, TypeOK
  <2>3. e.values \in Ten
    BY FoundType, LineAssumption DEF Ten
  <2> DEFINE max == get_max_val(e.values)
  <2>4. /\ answer'[q].max = max /\ answer'[q].values = e.values
        /\ answer'[q].category = get_category(max)
    <3> DEFINE k == e.key
               v == e.values
    <3>1. answer'[q] = Shown(k, v)
      BY <2>2
    <3>2. /\ Shown(k, v).max = get_max_val(v) /\ Shown(k, v).values = v
          /\ Shown(k, v).category = get_category(get_max_val(v))
      <4> HIDE DEF k, v
      <4> QED BY DEF Shown
    <3> QED BY <3>1, <3>2
  <2> HIDE DEF max
  <2>5. /\ IsMaximum(max, e.values) /\ (max >= 0 => InCategory(max, get_category(max)))
        /\ (get_category(max) = Outside => max < -98)
    BY <2>3, MaxIsMaximum, CategoryFits DEF max
  <2> QED BY <2>4, <2>5
<1>5. ASSUME NEW p \in Child,
             \/ Connects(p) \/ Execute(p)
             \/ \E c \in Days!Operation : Sends(p, c)
      PROVE  At(q, "answered") /\ cmd[q].op = "get" /\ answer'[q] = answer[q]
  BY <1>5 DEF Connects, Sends, Execute, TypeOK
<1>6. MemcachedStops \/ Elsewhere =>
        At(q, "answered") /\ cmd[q].op = "get" /\ answer'[q] = answer[q]
  BY DEF MemcachedStops, Elsewhere
<1> QED BY <1>1, <1>2, <1>3, <1>4, <1>5, <1>6, StepKinds DEF Kinds

\* A client that is shown a day is shown the greatest of its numbers and the
\* category that number is in.
THEOREM DaysClassified == Spec => []DayClassified
<1>1. Init => DayClassified
  BY DEF Init, DayClassified
<1> QED BY <1>1, DayClassifiedStep, CommandsCorrect, PTL DEF Spec
-----------------------------------------------------------------------------
(* Why a child faults.                                                      *)

Faults ==
  /\ FaultsExplained
  /\ \A p \in Child :
       /\ payload[p] = "none" => request[p].body = "none"
       /\ payload[p] = "long" => request[p].body = "long"

LEMMA FaultsStep ==
  TypeOK /\ Commands /\ Faults /\ [Next]_vars => Faults'
<1> SUFFICES ASSUME TypeOK, Commands, Faults, [Next]_vars PROVE Faults'
  OBVIOUS
<1> DEFINE OverABody(p) == request[p].body \in {"long", "buried"}
           OverADay(p) ==
             /\ request[p].method = "GET" /\ reply[p] # NoReply
             /\ \/ cmd[p].key = Long
                \/ reply[p].word = "VALUE" /\ get_max_val(reply[p].line) < -98
           OverNothing(p) ==
             /\ request[p].method # "GET"
             /\ request[p].body = "none" \/ payload[p] = "headless"
           Over(p) == OverABody(p) \/ OverADay(p) \/ OverNothing(p)
<1>a. \A p \in Child : At(p, "crashed") => Over(p)
  BY DEF Faults, FaultsExplained
<1>b. ASSUME \A p \in Child : At(p, "crashed")' => Over(p)',
             UNCHANGED <<request, payload>>
      PROVE  Faults'
  BY <1>b DEF Faults, FaultsExplained
<1>1. ASSUME NEW p \in Child, NEW l, Goto(p, l), l # "crashed" \/ Over(p),
             UNCHANGED <<request, payload, reply>>,
             l # "crashed" \/ cmd' = cmd,
             \A q \in Child \ {p} : cmd'[q] = cmd[q]
      PROVE  Faults'
  <2>1. \A q \in Child : pc'[q] = IF q = p THEN l ELSE pc[q]
    BY <1>1 DEF TypeOK
  <2>2. ASSUME NEW q \in Child, At(q, "crashed")'
        PROVE  Over(q) /\ cmd'[q] = cmd[q]
    BY <1>1, <1>a, <2>1, <2>2
  <2>3. \A q \in Child : At(q, "crashed")' => Over(q)'
    BY <1>1, <2>2
  <2> QED BY <1>1, <1>b, <2>3
<1>2. ASSUME UNCHANGED <<request, payload, reply, cmd, pc>>
      PROVE  Faults'
  BY <1>2, <1>a, <1>b
<1>3. ASSUME NEW p \in Child, ReadHeaders(p) \/ ReadBody(p)
      PROVE  Faults'
  <2>1. UNCHANGED <<request, reply, cmd>>
    BY <1>3 DEF ReadHeaders, ReadBody
  <2>2. \/ \E l : /\ Goto(p, l) /\ UNCHANGED payload
                  /\ l # "crashed" \/ OverABody(p)
        \/ \E what : /\ Read(p, what)
                     /\ what = "none" => request[p].body = "none"
                     /\ what = "long" => request[p].body = "long"
    <3>1. CASE ReadHeaders(p)
      BY <3>1 DEF ReadHeaders
    <3>2. CASE ReadBody(p)
      BY <3>2 DEF ReadBody, Overrun
    <3> QED BY <1>3, <3>1, <3>2
  <2>3. ASSUME NEW l, Goto(p, l), UNCHANGED payload,
               l # "crashed" \/ OverABody(p)
        PROVE  Faults'
    <3> HIDE DEF OverABody
    <3> QED BY <1>1, <2>1, <2>3
  <2>4. ASSUME NEW what, Read(p, what),
               what = "none" => request[p].body = "none",
               what = "long" => request[p].body = "long"
        PROVE  Faults'
    <3>1. /\ \A q \in Child : pc'[q] = IF q = p THEN "dispatch" ELSE pc[q]
          /\ \A q \in Child : payload'[q] = IF q = p THEN what ELSE payload[q]
      BY <2>4 DEF Read, TypeOK
    <3>2. \A q \in Child : At(q, "crashed")' => Over(q)'
      BY <1>a, <2>1, <3>1
    <3>3. FaultsExplained'
      BY <3>2 DEF FaultsExplained
    <3> QED BY <2>1, <2>4, <3>1, <3>3 DEF Faults
  <2> QED BY <2>2, <2>3, <2>4
<1>4. ASSUME NEW p \in Child, SaveDay(p) \/ SaveDone(p)
      PROVE  Faults'
  <2>1. /\ UNCHANGED <<request, payload, reply>>
        /\ \A q \in Child \ {p} : cmd'[q] = cmd[q]
    BY <1>4 DEF SaveDay, SaveDone, Send, TypeOK
  <2>2. CASE Goto(p, "crashed")
    <3>1. /\ payload[p] \in NoData \union {"long"} /\ UNCHANGED cmd
          /\ payload[p] \in NoData => request[p].method # "GET"
      <4>1. pc'[p] = "crashed"
        BY <2>2 DEF TypeOK
      <4>2. CASE SaveDay(p)
        BY <4>1, <4>2 DEF SaveDay, Send, Asks, TypeOK
      <4>3. CASE SaveDone(p)
        BY <4>1, <4>3 DEF SaveDone, Answer, NoData, TypeOK
      <4> QED BY <1>4, <4>2, <4>3
    <3>2. Over(p)
      BY <3>1 DEF NoData, Faults
    <3> QED BY <1>1, <2>1, <2>2, <3>1, <3>2
  <2>3. ASSUME NEW l, Goto(p, l), l # "crashed"
        PROVE  Faults'
    BY <1>1, <2>1, <2>3
  <2>4. \E l : Goto(p, l)
    BY <1>4 DEF SaveDay, SaveDone, Send, Answer
  <2> QED BY <2>2, <2>3, <2>4
<1>5. ASSUME NEW p \in Child, ShowDay(p)
      PROVE  Faults'
  <2>1. UNCHANGED <<request, payload, reply, cmd>>
    BY <1>5 DEF ShowDay
  <2>2. PICK e \in Found(p) :
          \/ Answer(p, Shown(e.key, e.values))
          \/ /\ \/ Shown(e.key, e.values).category = Outside
                \/ cmd[p].key = Long /\ reply[p] # NoReply
             /\ Goto(p, "crashed")
    BY <1>5 DEF ShowDay
  <2>3. request[p].method = "GET"
    BY <1>5 DEF ShowDay, Commands
  <2>4. CASE Answer(p, Shown(e.key, e.values))
    BY <1>1, <2>1, <2>4 DEF Answer
  <2>5. CASE cmd[p].key = Long /\ reply[p] # NoReply /\ Goto(p, "crashed")
    BY <1>1, <2>1, <2>3, <2>5
  <2>6. CASE /\ Shown(e.key, e.values).category = Outside
             /\ ~(cmd[p].key = Long /\ reply[p] # NoReply)
             /\ Goto(p, "crashed")
    <3>1. e.values \in Ten
      BY FoundType, LineAssumption DEF Ten
    <3>2. get_category(get_max_val(e.values)) = Outside
      <4> DEFINE k == e.key
                 v == e.values
      <4>1. Shown(k, v).category = Outside
        BY <2>6
      <4> HIDE DEF k, v
      <4>2. get_category(get_max_val(v)) = Outside
        BY <4>1 DEF Shown
      <4> QED BY <4>2 DEF v
    <3>3. get_max_val(e.values) < -98
      BY <3>1, <3>2, MaxIsMaximum, CategoryFits
    <3>4. e.values # Zeros
      BY <3>3, MaxOfZeros
    <3>5. reply[p].word = "VALUE" /\ reply[p] # NoReply
      BY <2>6, <3>4, FoundIs DEF NoReply
    <3>6. e.values = reply[p].line
      BY <3>5, FoundIs
    <3>7. Over(p)
      BY <2>3, <3>3, <3>5, <3>6
    <3> QED BY <1>1, <2>1, <2>6, <3>7
  <2> QED BY <2>2, <2>4, <2>5, <2>6
<1>6. ASSUME NEW p \in Child, Execute(p)
      PROVE  Faults'
  <2>1. /\ UNCHANGED <<request, payload, cmd, pc>> /\ reply[p] = NoReply
        /\ \A q \in Child \ {p} : reply'[q] = reply[q]
    BY <1>6 DEF Execute, TypeOK
  <2>2. ASSUME NEW q \in Child, At(q, "crashed")
        PROVE  Over(q)'
    <3>1. CASE q # p
      BY <1>a, <2>1, <2>2, <3>1
    <3>2. CASE q = p
      <4>1. OverABody(p) \/ OverNothing(p)
        BY <1>a, <2>1, <2>2, <3>2
      <4> QED BY <2>1, <3>2, <4>1
    <3> QED BY <3>1, <3>2
  <2> QED BY <1>b, <2>1, <2>2
<1>7. ASSUME NEW p \in Child,
             \/ memcache_conection(p) \/ HandleFixed(p) \/ HandleUnknown(p)
             \/ handle_dia_get(p) \/ handle_dia_delete(p)
             \/ DeleteDone(p)
             \/ handle_estado_get(p) \/ AnswerStats(p) \/ Stopped(p)
      PROVE  Faults'
  <2>1. UNCHANGED <<request, payload, reply>>
    BY <1>7 DEF memcache_conection, HandleFixed, HandleUnknown, handle_dia_get,
       handle_dia_delete, DeleteDone, handle_estado_get, AnswerStats, Stopped
  <2>2. \A q \in Child \ {p} : cmd'[q] = cmd[q]
    BY <1>7 DEF memcache_conection, HandleFixed, HandleUnknown, handle_dia_get,
       handle_dia_delete, Send, DeleteDone, handle_estado_get, AnswerStats,
       Stopped, TypeOK
  <2>3. \E l : Goto(p, l) /\ l # "crashed"
    <3>1. CASE memcache_conection(p) \/ HandleFixed(p) \/ HandleUnknown(p)
      BY <3>1 DEF memcache_conection, HandleFixed, HandleUnknown, Answer
    <3>2. CASE handle_dia_get(p) \/ handle_dia_delete(p)
      BY <3>2 DEF handle_dia_get, handle_dia_delete, Send
    <3>3. CASE DeleteDone(p) \/ handle_estado_get(p)
      BY <3>3 DEF DeleteDone, handle_estado_get, popen, Answer
    <3>4. CASE AnswerStats(p)
      <4>1. Goto(p, "answered")
        BY <3>4 DEF AnswerStats, Answer
      <4>2. "answered" # "crashed"
        OBVIOUS
      <4> HIDE DEF Goto
      <4> QED BY <4>1, <4>2
    <3>5. CASE Stopped(p)
      <4>1. Goto(p, "stopped")
        BY <3>5 DEF Stopped
      <4>2. "stopped" # "crashed"
        OBVIOUS
      <4> HIDE DEF Goto
      <4> QED BY <4>1, <4>2
    <3> QED BY <1>7, <3>1, <3>2, <3>3, <3>4, <3>5
  <2> QED BY <1>1, <2>1, <2>2, <2>3
<1>8. ASSUME NEW p \in Child, RunScript(p)
      PROVE  Faults'
  <2>1. UNCHANGED <<request, payload, reply, cmd>>
    BY <1>8 DEF RunScript
  <2>2. UNCHANGED pc \/ \E l : Goto(p, l) /\ l # "crashed"
    BY <1>8 DEF RunScript, HandleCommand, TakeLine, EndOfOutput, pclose,
       dead_child
  <2> QED BY <1>1, <1>2, <2>1, <2>2
<1>9. ASSUME NEW p \in Child,
             ClientSends(p) \/ ClientCloses(p) \/ ScriptRuns(p)
      PROVE  Faults'
  BY <1>2, <1>9 DEF ClientSends, ClientCloses, ScriptRuns, Script,
     ScriptPrints, ScriptDies
<1>10. MemcachedStops \/ MemcachedStarts \/ UNCHANGED vars => Faults'
  BY <1>2 DEF MemcachedStops, MemcachedStarts, vars
<1> QED BY <1>3, <1>4, <1>5, <1>6, <1>7, <1>8, <1>9, <1>10, StepCases

\* A child faults only over a day it is to save without a body, or with one
\* that is too long or stands behind headers that do not end in time, and
\* over one it is to show whose name is too long or whose numbers are far
\* below zero.
THEOREM FaultsAreExplained == Spec => []FaultsExplained
<1>1. Init => Faults
  BY DEF Init, Faults, FaultsExplained
<1>2. Faults => FaultsExplained
  BY DEF Faults
<1> QED BY <1>1, <1>2, FaultsStep, CommandsCorrect, PTL DEF Spec
-----------------------------------------------------------------------------
(* Who reaps the script.                                                    *)

Scriptless == {"start", "headers", "body", "dispatch", "reply"}

Reaping ==
  /\ ReapedByHandler
  /\ \A p \in Child :
       /\ pc[p] \in Scriptless => script[p] = "none"
       /\ At(p, "stats") => script[p] = "reaped"
       /\ script[p] \in {"none", "running", "exiting"} =>
            ~chld[p] /\ reaper[p] = "nobody"
       /\ script[p] = "zombie" => chld[p] /\ reaper[p] = "nobody"
       /\ script[p] = "reaped" => reaper[p] \in {"handler", "pclose"}
       /\ reaper[p] = "handler" => ~chld[p]
       /\ reaper[p] = "pclose" => chld[p] \/ At(p, "panicked")

LEMMA ReapingInit == Init => Reaping
BY DEF Init, StatsInit, Reaping, ReapedByHandler, Scriptless

LEMMA ReapingStep == TypeOK /\ Reaping /\ [Next]_vars => Reaping'
<1> SUFFICES ASSUME TypeOK, Reaping, [Next]_vars PROVE Reaping'
  OBVIOUS
<1> USE DEF Scriptless
<1>1. ASSUME NEW p \in Child, NEW l, Goto(p, l), UNCHANGED stats,
             \/ pc[p] \in Scriptless /\ l \notin {"stats", "panicked"}
             \/ Alive(p) /\ l = "stopped"
             \/ At(p, "script") /\ l = "pclose"
             \/ At(p, "stats") /\ l = "answered" /\ ~chld[p]
      PROVE  Reaping'
  <2>1. \A q \in Child : pc'[q] = IF q = p THEN l ELSE pc[q]
    BY <1>1 DEF TypeOK
  <2>2. script[p] \in {"none", "running", "exiting", "zombie", "reaped"}
    BY DEF TypeOK, StatsTypeOK
  <2>3. CASE pc[p] \in Scriptless /\ l \notin {"stats", "panicked"}
    BY <1>1, <2>1, <2>2, <2>3 DEF Reaping, ReapedByHandler
  <2>4. CASE Alive(p) /\ l = "stopped"
    <3>1. ~At(p, "answered") /\ ~At(p, "panicked")
      BY <2>4 DEF Alive, Ended, Killed
    <3>2. ReapedByHandler'
      BY <1>1, <2>1, <2>4 DEF Reaping, ReapedByHandler
    <3> QED BY <1>1, <2>1, <2>4, <3>1, <3>2 DEF Reaping
  <2>5. CASE At(p, "script") /\ l = "pclose"
    BY <1>1, <2>1, <2>5 DEF Reaping, ReapedByHandler
  <2>6. CASE At(p, "stats") /\ l = "answered" /\ ~chld[p]
    BY <1>1, <2>1, <2>6 DEF Reaping, ReapedByHandler
  <2> QED BY <1>1, <2>3, <2>4, <2>5, <2>6
<1>2. ASSUME UNCHANGED <<pc, script, chld, reaper>>
      PROVE  Reaping'
  BY <1>2 DEF Reaping, ReapedByHandler
<1>3. ASSUME NEW p \in Child,
             \/ memcache_conection(p) \/ ReadHeaders(p) \/ ReadBody(p)
             \/ HandleFixed(p) \/ HandleUnknown(p) \/ SaveDay(p)
             \/ handle_dia_get(p) \/ handle_dia_delete(p)
             \/ SaveDone(p) \/ DeleteDone(p) \/ ShowDay(p)
      PROVE  Reaping'
  <2>1. PICK l : /\ Goto(p, l) /\ UNCHANGED stats
                 /\ pc[p] \in Scriptless /\ l \notin {"stats", "panicked"}
    <3>1. CASE memcache_conection(p) \/ ReadHeaders(p) \/ ReadBody(p)
      BY <3>1 DEF memcache_conection, ReadHeaders, ReadBody, Read, Answer
    <3>2. CASE HandleFixed(p) \/ HandleUnknown(p)
      BY <3>2 DEF HandleFixed, HandleUnknown, Answer
    <3>3. CASE SaveDay(p) \/ handle_dia_get(p) \/ handle_dia_delete(p)
      BY <3>3 DEF SaveDay, handle_dia_get, handle_dia_delete, Send
    <3>4. CASE SaveDone(p) \/ DeleteDone(p) \/ ShowDay(p)
      BY <3>4 DEF SaveDone, DeleteDone, ShowDay, Answer, Readable
    <3> QED BY <1>3, <3>1, <3>2, <3>3, <3>4
  <2> QED BY <1>1, <2>1
<1>4. ASSUME NEW p \in Child, handle_estado_get(p)
      PROVE  Reaping'
  <2>0. StatsTypeOK /\ pc \in [Child -> PC]
    BY DEF TypeOK
  <2>1. CASE popen(p)
    <3>1. /\ Goto(p, "script") /\ UNCHANGED <<chld, reaper>>
          /\ script' = [script EXCEPT ![p] = "running"]
      BY <2>1 DEF popen
    <3>2. script'[p] = "running" /\ pc'[p] = "script"
      BY <2>0, <3>1 DEF StatsTypeOK
    <3>3. \A q \in Child \ {p} : script'[q] = script[q] /\ pc'[q] = pc[q]
      BY <2>0, <3>1 DEF StatsTypeOK
    <3>4. script[p] = "none"
      BY <1>4 DEF handle_estado_get, Reaping
    <3>5. ~chld'[p] /\ reaper'[p] = "nobody"
      BY <3>1, <3>4 DEF Reaping
    <3>6. ReapedByHandler'
      BY <3>1, <3>2, <3>3 DEF Reaping, ReapedByHandler
    <3> QED BY <3>1, <3>2, <3>3, <3>5, <3>6 DEF Reaping
  <2>2. CASE Answer(p, Status("200 OK")) /\ UNCHANGED stats
    BY <1>1, <1>4, <2>2 DEF handle_estado_get, Answer
  <2> QED BY <1>4, <2>1, <2>2 DEF handle_estado_get
<1>5. ASSUME NEW p \in Child, RunScript(p)
      PROVE  Reaping'
  <2>1. CASE TakeLine(p)
    <3>1. \/ UNCHANGED <<pc, script, chld, reaper>>
          \/ At(p, "script") /\ Goto(p, "pclose") /\ UNCHANGED stats
      BY <2>1 DEF TakeLine
    <3> QED BY <1>1, <1>2, <3>1
  <2>2. CASE EndOfOutput(p)
    BY <1>1, <2>2 DEF EndOfOutput
  <2>3. CASE pclose(p)
    BY <2>3 DEF pclose, TypeOK, StatsTypeOK, Reaping, ReapedByHandler
  <2>4. CASE dead_child(p)
    <3>1. script[p] \in {"none", "running", "exiting", "zombie", "reaped"}
      BY DEF TypeOK, StatsTypeOK
    <3>2. CASE script[p] = "zombie"
      <4>1. pc[p] \in {"script", "pclose"} /\ reaper[p] = "nobody"
        BY <2>4, <3>2 DEF dead_child, Alive, TypeOK, PC, Reaping
      <4> QED BY <2>4, <3>2, <4>1
              DEF dead_child, TypeOK, StatsTypeOK, Reaping, ReapedByHandler
    <3>3. CASE script[p] # "zombie"
      <4>1. script[p] = "reaped" /\ reaper[p] = "pclose"
        BY <2>4, <3>1, <3>3 DEF dead_child, Reaping
      <4> QED BY <2>4, <3>3, <4>1
              DEF dead_child, TypeOK, StatsTypeOK, Reaping, ReapedByHandler
    <3> QED BY <3>2, <3>3
  <2> QED BY <1>5, <2>1, <2>2, <2>3, <2>4 DEF RunScript, HandleCommand
<1>6. ASSUME NEW p \in Child, AnswerStats(p)
      PROVE  Reaping'
  BY <1>1, <1>6 DEF AnswerStats, Collected
<1>7. ASSUME NEW p \in Child, Stopped(p)
      PROVE  Reaping'
  BY <1>1, <1>7 DEF Stopped
<1>8. ASSUME NEW p \in Child, ScriptRuns(p)
      PROVE  Reaping'
  <2>0. /\ script \in [Child -> {"none", "running", "exiting", "zombie", "reaped"}]
        /\ chld \in [Child -> BOOLEAN]
    BY DEF TypeOK, StatsTypeOK
  <2>1. CASE ScriptPrints(p)
    BY <2>0, <2>1, <1>8 DEF ScriptRuns, ScriptPrints, Reaping, ReapedByHandler
  <2>2. CASE ScriptDies(p)
    BY <2>0, <2>2, <1>8 DEF ScriptRuns, ScriptDies, Reaping, ReapedByHandler
  <2> QED BY <1>8, <2>1, <2>2 DEF ScriptRuns, Script
<1>9. ASSUME NEW p \in Child, ClientSends(p) \/ ClientCloses(p) \/ Execute(p)
      PROVE  Reaping'
  BY <1>2, <1>9 DEF ClientSends, ClientCloses, Execute
<1>10. MemcachedStops \/ MemcachedStarts \/ UNCHANGED vars => Reaping'
  BY <1>2 DEF MemcachedStops, MemcachedStarts, vars
<1> QED BY <1>3, <1>4, <1>5, <1>6, <1>7, <1>8, <1>9, <1>10, StepCases

\* A child that answers /estado has had its script reaped by dead_child; one
\* that panics had reaped it itself.
THEOREM ScriptReaped == Spec => []ReapedByHandler
<1>1. Reaping => ReapedByHandler
  BY DEF Reaping
<1> QED BY <1>1, TypeInit, TypeStep, ReapingInit, ReapingStep, PTL DEF Spec
-----------------------------------------------------------------------------
(* The statistics.                                                          *)

LEMMA StatisticsStep ==
  TypeOK /\ Reaping /\ Fit /\ [Next]_vars => Fit'
<1> SUFFICES ASSUME TypeOK, Reaping, Fit, [Next]_vars PROVE Fit'
  OBVIOUS
<1>1. \/ UNCHANGED stats
      \/ \E p \in Child : \/ popen(p) /\ script[p] = "none"
                          \/ HandleCommand(p) \/ Script(p)
  <2>1. ASSUME NEW p \in Child, handle_estado_get(p)
        PROVE  \/ popen(p) /\ script[p] = "none"
               \/ UNCHANGED stats
    BY <2>1 DEF handle_estado_get, Reaping, Scriptless
  <2>2. ASSUME NEW p \in Child, RunScript(p) \/ ScriptRuns(p)
        PROVE  HandleCommand(p) \/ Script(p)
    BY <2>2 DEF RunScript, ScriptRuns
  <2>3. ASSUME NEW p \in Child,
               \/ memcache_conection(p) \/ ReadHeaders(p) \/ ReadBody(p)
               \/ HandleFixed(p) \/ HandleUnknown(p) \/ SaveDay(p)
               \/ handle_dia_get(p) \/ handle_dia_delete(p)
               \/ SaveDone(p) \/ DeleteDone(p) \/ ShowDay(p)
        PROVE  UNCHANGED stats
    BY <2>3 DEF memcache_conection, ReadHeaders, ReadBody, HandleFixed,
       HandleUnknown, SaveDay, handle_dia_get, handle_dia_delete, SaveDone,
       DeleteDone, ShowDay
  <2>4. ASSUME NEW p \in Child,
               \/ AnswerStats(p) \/ Stopped(p)
               \/ ClientSends(p) \/ ClientCloses(p) \/ Execute(p)
        PROVE  UNCHANGED stats
    BY <2>4 DEF AnswerStats, Collected, Stopped, ClientSends, ClientCloses,
       Execute
  <2>5. MemcachedStops \/ MemcachedStarts \/ UNCHANGED vars => UNCHANGED stats
    BY DEF MemcachedStops, MemcachedStarts, vars
  <2> QED BY <2>1, <2>2, <2>3, <2>4, <2>5, StepCases
<1>2. StatsTypeOK
  BY DEF TypeOK
<1> HIDE DEF stats
<1> QED BY <1>1, <1>2, FitStep

\* The statistics a child answers with are whole lines, the first the script
\* has printed, and leave room for the NUL, whatever the script prints and
\* however small the buffer is.
THEOREM StatisticsAlwaysFit == Spec => []StatisticsFit
<1>1. Init => Fit
  BY FitInit DEF Init
<1>2. Fit => StatisticsFit
  BY DEF Fit
<1> QED BY <1>1, <1>2, TypeInit, TypeStep, ReapingInit, ReapingStep,
           StatisticsStep, PTL DEF Spec
-----------------------------------------------------------------------------
(* How far a child is from its end.                                         *)

\* What the child has yet to do, by the function it is in.
Position(p) ==
  CASE pc[p] = "start" -> 7
    [] pc[p] = "headers" -> 6
    [] pc[p] = "body" -> 5
    [] pc[p] = "dispatch" -> 4
    [] pc[p] \in {"reply", "script"} -> 3
    [] pc[p] = "pclose" -> 2
    [] pc[p] = "stats" -> 1
    [] OTHER -> 0

\* What memcached and the script have yet to do for it, the SIGCHLD included.
Owed(p) ==
  (IF cmd[p] # NoCommand /\ reply[p] = NoReply THEN 1 ELSE 0)
    + (CASE script[p] = "running" -> 4
         [] script[p] = "exiting" -> 3
         [] script[p] = "zombie" -> 1
         [] OTHER -> 0)
    + (IF chld[p] THEN 1 ELSE 0)

\* The lines the script has printed that are yet to be taken over, and the
\* bytes of the first of them.
Unread(p) == Len(printed[p]) - result[p].lines
Rest(p) == IF result[p].lines < Len(printed[p]) THEN Left(p) ELSE 0

Distance(p) == <<Position(p), Owed(p), Unread(p), Rest(p)>>

Nearer(p) ==
  \/ Position(p)' < Position(p)
  \/ Position(p)' = Position(p) /\ Owed(p)' < Owed(p)
  \/ Position(p)' = Position(p) /\ Owed(p)' = Owed(p) /\ Unread(p)' < Unread(p)
  \/ /\ Position(p)' = Position(p) /\ Owed(p)' = Owed(p)
     /\ Unread(p)' = Unread(p) /\ Rest(p)' < Rest(p)

\* A step is taken by the child, for it or to stop it, and brings its end
\* nearer, or leaves it as far as it was.
Proceeds(p) ==
  \/ /\ ChildStep(p) \/ Execute(p) \/ ScriptRuns(p) \/ Stopped(p)
     /\ Nearer(p)
  \/ UNCHANGED Distance(p)

\* What a child waits for can come: the rest of a body that was announced, an
\* answer on a connection, the end of a script that was started.
Attended(p) ==
  /\ At(p, "body") => HasLength(p)
  /\ At(p, "reply") => cmd[p].op \in {"get", "set", "delete"}
                       /\ conn[p] \in {"open", "broken"}
  /\ pc[p] \in {"script", "pclose"} => script[p] # "none"

\* What the distance of a child depends on.
Own(p) ==
  <<pc[p], cmd[p], reply[p], script[p], chld[p], printed[p], result[p]>>

LEMMA OwnKept ==
  ASSUME NEW p, UNCHANGED Own(p)
  PROVE  UNCHANGED Distance(p)
BY DEF Own, Distance, Position, Owed, Unread, Rest, Left, NextLine

\* Its distance is made of numbers.
LEMMA DistanceIsNatural ==
  ASSUME TypeOK, Fit, NEW p \in Child
  PROVE  Distance(p) \in Nat \X Nat \X Nat \X Nat
<1>1. Position(p) \in Nat
  BY DEF Position
<1>2. Owed(p) \in Nat
  BY DEF Owed
<1>3. Unread(p) \in Nat
  <2> DEFINE all == Len(printed[p])
  <2>1. all \in Nat /\ result[p].lines \in Nat
    BY DEF TypeOK, StatsTypeOK
  <2>2. result[p].lines <= all
    BY DEF Fit, StatisticsFit
  <2>3. Unread(p) = all - result[p].lines
    BY DEF Unread
  <2> HIDE DEF all
  <2> QED BY <2>1, <2>2, <2>3
<1>4. Rest(p) \in Nat
  BY PieceIs DEF TypeOK, Rest
<1> QED BY <1>1, <1>2, <1>3, <1>4 DEF Distance

\* The child leaves the function it is in for a later one, or ends.
LEMMA GoingOn ==
  ASSUME TypeOK, NEW p \in Child,
         \/ memcache_conection(p) \/ ReadHeaders(p) \/ ReadBody(p)
         \/ Dispatch(p) \/ SaveDone(p) \/ DeleteDone(p) \/ ShowDay(p)
         \/ EndOfOutput(p) \/ pclose(p) \/ Collected(p)
  PROVE  Position(p)' < Position(p)
<1>f. pc \in [Child -> PC]
  BY DEF TypeOK
<1>0. ASSUME pc'[p] \in Ended, pc[p] \in PC \ Ended
      PROVE  Position(p)' < Position(p)
  <2>1. Position(p)' = 0
    BY <1>0 DEF Position, Ended, Killed
  <2>2. Position(p) \in 1..7
    BY <1>0 DEF Position, PC
  <2> QED BY <2>1, <2>2
<1>1. CASE memcache_conection(p)
  <2>1. pc[p] = "start" /\ pc'[p] \in {"headers", "answered"}
    BY <1>f, <1>1 DEF memcache_conection, Answer
  <2> QED BY <2>1 DEF Position
<1>2. CASE ReadHeaders(p)
  <2>1. pc[p] = "headers" /\ pc'[p] \in {"body", "dispatch"}
    BY <1>f, <1>2 DEF ReadHeaders, Read
  <2> QED BY <2>1 DEF Position
<1>3. CASE ReadBody(p)
  <2>1. pc[p] = "body" /\ pc'[p] \in {"dispatch", "crashed"}
    BY <1>f, <1>3 DEF ReadBody, Read
  <2>2. CASE pc'[p] = "dispatch"
    BY <2>1, <2>2 DEF Position
  <2>3. CASE pc'[p] = "crashed"
    BY <1>0, <2>1, <2>3 DEF Ended, Killed, PC
  <2> QED BY <2>1, <2>2, <2>3
<1>4. CASE Dispatch(p)
  <2>1. pc[p] = "dispatch"
    BY <1>4 DEF Dispatch, HandleFixed, HandleUnknown, handle_estado_get,
       handle_dia_get, handle_dia_delete, SaveDay
  <2>2. pc'[p] \in {"reply", "script"} \union Ended
    BY <1>f, <1>4 DEF Dispatch, HandleFixed, HandleUnknown, handle_estado_get,
       handle_dia_get, handle_dia_delete, SaveDay, Answer, Send, popen, Ended,
       Killed
  <2>3. CASE pc'[p] \in {"reply", "script"}
    BY <2>1, <2>3 DEF Position
  <2> QED BY <1>0, <2>1, <2>2, <2>3 DEF Ended, Killed, PC
<1>5. CASE SaveDone(p) \/ DeleteDone(p) \/ ShowDay(p)
  <2>1. pc[p] = "reply" /\ pc'[p] \in {"answered", "crashed"}
    BY <1>f, <1>5 DEF SaveDone, DeleteDone, ShowDay, Readable, Answer
  <2> QED BY <1>0, <2>1 DEF Ended, Killed, PC
<1>6. CASE EndOfOutput(p)
  <2>1. pc[p] = "script" /\ pc'[p] = "pclose"
    BY <1>f, <1>6 DEF EndOfOutput
  <2> QED BY <2>1 DEF Position
<1>7. CASE pclose(p)
  <2>1. pc[p] = "pclose" /\ pc'[p] = "stats"
    BY <1>f, <1>7 DEF pclose
  <2> QED BY <2>1 DEF Position
<1>8. CASE Collected(p)
  <2>1. pc[p] = "stats" /\ pc'[p] = "answered"
    BY <1>f, <1>8 DEF Collected
  <2> QED BY <2>1 DEF Position
<1> QED BY <1>1, <1>2, <1>3, <1>4, <1>5, <1>6, <1>7, <1>8

\* What happens while it stays there uses up what is owed to it, or what the
\* script has printed.
LEMMA GettingOn ==
  ASSUME TypeOK, Commands, Fit, NEW p \in Child,
         \/ TakeLine(p) /\ UNCHANGED cmd /\ UNCHANGED reply
         \/ dead_child(p) /\ UNCHANGED cmd /\ UNCHANGED reply
         \/ Script(p) /\ UNCHANGED cmd /\ UNCHANGED reply
         \/ Execute(p)
  PROVE  Nearer(p)
<1>f. /\ pc \in [Child -> PC] /\ StatsTypeOK
      /\ reply \in [Child -> [word : Words, line : Line \union {NoLine}]]
  BY DEF TypeOK
<1>0. /\ Owed(p) \in Nat
      /\ Position(p) \in 0..7
  BY DEF Owed, Position
<1>1. CASE TakeLine(p) /\ UNCHANGED cmd /\ UNCHANGED reply
  <2>0. /\ result[p].lines < Len(printed[p]) /\ StatsTypeOK
        /\ UNCHANGED <<script, chld, printed>>
    BY <1>f, <1>1 DEF TakeLine
  <2>1. CASE /\ Taken(p) + Piece(p) < max_len - 1
             /\ UNCHANGED pc
    <3> DEFINE all == Len(printed[p])
               some == result[p].lines
               part == result[p].part
    <3>1. all \in Nat /\ some \in Nat /\ part \in Nat /\ some < all
      BY <2>0 DEF StatsTypeOK
    <3>2. Position(p)' = Position(p) /\ Owed(p)' = Owed(p)
      BY <1>1, <2>0, <2>1 DEF Position, Owed
    <3>3. CASE Piece(p) = Left(p)
      <4>1. result'[p].lines = some + 1
        BY <1>1, <1>f, <2>1, <3>3 DEF TakeLine, StatsTypeOK
      <4>2. Unread(p) = all - some /\ Unread(p)' = all - (some + 1)
        BY <2>0, <4>1 DEF Unread
      <4> HIDE DEF all, some
      <4>3. Unread(p)' < Unread(p)
        BY <3>1, <4>2
      <4> QED BY <3>2, <4>3 DEF Nearer
    <3>4. CASE Piece(p) # Left(p)
      <4>1. result'[p] = [lines |-> some, part |-> part + Piece(p)]
        BY <1>1, <1>f, <2>1, <3>4 DEF TakeLine, StatsTypeOK
      <4>2. result'[p].lines = some /\ result'[p].part = part + Piece(p)
        BY <4>1
      <4>3. Unread(p)' = Unread(p)
        BY <2>0, <4>2 DEF Unread
      <4>4. /\ NextLine(p) \in Nat /\ Piece(p) \in Nat /\ Piece(p) > 0
        BY <2>0, <3>4, PieceIs
      <4>5. /\ Rest(p) = NextLine(p) - part
            /\ Rest(p)' = NextLine(p) - (part + Piece(p))
        BY <2>0, <4>2 DEF Rest, Left, NextLine
      <4> HIDE DEF part
      <4>6. Rest(p)' < Rest(p)
        BY <3>1, <4>4, <4>5
      <4> QED BY <3>2, <4>3, <4>6 DEF Nearer
    <3> QED BY <3>3, <3>4
  <2>2. CASE Goto(p, "pclose") /\ UNCHANGED result
    <3>1. Position(p) = 3 /\ Position(p)' = 2
      BY <1>f, <1>1, <2>2 DEF TakeLine, Position
    <3> QED BY <3>1 DEF Nearer
  <2> QED BY <1>1, <2>1, <2>2 DEF TakeLine
<1>2. CASE dead_child(p) /\ UNCHANGED cmd /\ UNCHANGED reply
  <2>1. chld[p] = TRUE /\ chld'[p] = FALSE
    BY <1>f, <1>2 DEF dead_child, StatsTypeOK
  <2>2. CASE script[p] = "zombie"
    <3>1. script'[p] = "reaped" /\ UNCHANGED pc
      BY <1>f, <1>2, <2>2 DEF dead_child, StatsTypeOK
    <3>2. Owed(p)' < Owed(p)
      BY <1>2, <2>1, <2>2, <3>1 DEF Owed
    <3>3. Position(p)' = Position(p)
      BY <3>1 DEF Position
    <3> QED BY <3>2, <3>3 DEF Nearer
  <2>3. CASE script[p] # "zombie"
    <3>1. pc'[p] = "panicked" /\ pc[p] \in PC \ Ended
      BY <1>f, <1>2, <2>3 DEF dead_child, Alive
    <3>2. Position(p)' = 0 /\ Position(p) > 0
      BY <3>1 DEF Position, PC
    <3> QED BY <3>2 DEF Nearer
  <2> QED BY <2>2, <2>3
<1>3. CASE Script(p) /\ UNCHANGED cmd /\ UNCHANGED reply
  <2>1. /\ UNCHANGED <<pc, cmd, reply>>
        /\ \/ /\ script[p] = "running" /\ script'[p] = "exiting"
              /\ chld'[p] = chld[p]
           \/ /\ script[p] = "exiting" /\ script'[p] = "zombie"
              /\ chld'[p] = TRUE
    BY <1>f, <1>3 DEF Script, ScriptPrints, ScriptDies, StatsTypeOK
  <2>2. Owed(p)' < Owed(p)
    BY <2>1 DEF Owed
  <2>3. Position(p)' = Position(p)
    BY <2>1 DEF Position
  <2> QED BY <2>2, <2>3 DEF Nearer
<1>4. CASE Execute(p)
  <2>1. Reply(cmd[p], store) # NoReply
    BY DEF Reply, NoReply
  <2>2. /\ UNCHANGED <<pc, cmd, script, chld>>
        /\ cmd[p] # NoCommand /\ reply[p] = NoReply /\ reply'[p] # NoReply
    BY <1>f, <1>4, <2>1 DEF Execute
  <2>3. Owed(p)' < Owed(p)
    BY <2>2 DEF Owed
  <2>4. Position(p)' = Position(p)
    BY <2>2 DEF Position
  <2> QED BY <2>3, <2>4 DEF Nearer
<1> QED BY <1>1, <1>2, <1>3, <1>4

\* Nobody but the child itself, memcached and the script change its distance.
LEMMA OthersKeepOwn ==
  ASSUME TypeOK, NEW p \in Child, NEW q \in Child \ {p},
         ChildStep(q) \/ Execute(q) \/ ScriptRuns(q) \/ Stopped(q)
  PROVE  UNCHANGED Own(p)
<1> USE DEF Own
<1>f. /\ pc \in [Child -> PC] /\ StatsTypeOK
      /\ cmd = [r \in Child |-> cmd[r]] /\ reply = [r \in Child |-> reply[r]]
  BY DEF TypeOK
<1>1. CASE memcache_conection(q)
  BY <1>f, <1>1 DEF memcache_conection, Answer
<1>2. CASE ReadHeaders(q) \/ ReadBody(q)
  BY <1>f, <1>2 DEF ReadHeaders, ReadBody, Read
<1>3. CASE HandleFixed(q) \/ HandleUnknown(q)
  BY <1>f, <1>3 DEF HandleFixed, HandleUnknown, Answer
<1>4. CASE handle_estado_get(q)
  BY <1>f, <1>4 DEF handle_estado_get, popen, Answer, StatsTypeOK
<1>5. CASE handle_dia_get(q) \/ handle_dia_delete(q) \/ SaveDay(q)
  <2>1. \/ \E c : Send(q, c)
        \/ Goto(q, "crashed") /\ UNCHANGED cmd
    BY <1>5 DEF handle_dia_get, handle_dia_delete, SaveDay
  <2>2. UNCHANGED <<reply, stats>>
    BY <1>5 DEF handle_dia_get, handle_dia_delete, SaveDay
  <2> QED BY <1>f, <2>1, <2>2 DEF Send
<1>6. CASE SaveDone(q) \/ DeleteDone(q) \/ ShowDay(q)
  <2>1. /\ \/ \E a : Answer(q, a)
           \/ Goto(q, "crashed")
        /\ UNCHANGED <<link, stats>>
    BY <1>6 DEF SaveDone, DeleteDone, ShowDay
  <2> QED BY <1>f, <2>1 DEF Answer
<1>7. CASE RunScript(q)
  <2>1. CASE TakeLine(q)
    BY <1>f, <1>7, <2>1 DEF RunScript, TakeLine, StatsTypeOK
  <2>2. CASE EndOfOutput(q) \/ pclose(q)
    BY <1>f, <1>7, <2>2 DEF RunScript, EndOfOutput, pclose, StatsTypeOK
  <2>3. CASE dead_child(q)
    BY <1>f, <1>7, <2>3 DEF RunScript, dead_child, StatsTypeOK
  <2> QED BY <1>7, <2>1, <2>2, <2>3 DEF RunScript, HandleCommand
<1>8. CASE AnswerStats(q)
  BY <1>f, <1>8 DEF AnswerStats, Collected
<1>9. CASE Execute(q)
  BY <1>f, <1>9 DEF Execute
<1>10. CASE ScriptRuns(q)
  BY <1>f, <1>10 DEF ScriptRuns, Script, ScriptPrints, ScriptDies, StatsTypeOK
<1>11. CASE Stopped(q)
  BY <1>f, <1>11 DEF Stopped
<1> QED BY <1>1, <1>2, <1>3, <1>4, <1>5, <1>6, <1>7, <1>8, <1>9, <1>10, <1>11
        DEF ChildStep, Dispatch

LEMMA ProceedsStep ==
  TypeOK /\ Commands /\ Fit /\ [Next]_vars => \A p \in Child : Proceeds(p)
<1> SUFFICES ASSUME TypeOK, Commands, Fit, [Next]_vars, NEW p \in Child
             PROVE  Proceeds(p)
  OBVIOUS
<1>1. UNCHANGED Own(p) => Proceeds(p)
  BY OwnKept DEF Proceeds
<1>2. CASE ChildStep(p)
  <2>1. Nearer(p)
    <3>1. CASE RunScript(p) /\ ~EndOfOutput(p) /\ ~pclose(p)
      BY <3>1, GettingOn DEF RunScript, HandleCommand
    <3>2. CASE EndOfOutput(p) \/ pclose(p)
      BY <3>2, GoingOn DEF Nearer
    <3>3. CASE AnswerStats(p)
      BY <3>3, GoingOn DEF Nearer, AnswerStats
    <3> QED BY <1>2, <3>1, <3>2, <3>3, GoingOn DEF ChildStep, Nearer
  <2> QED BY <1>2, <2>1 DEF Proceeds
<1>3. CASE Execute(p)
  BY <1>3, GettingOn DEF Proceeds
<1>4. CASE ScriptRuns(p)
  BY <1>4, GettingOn DEF Proceeds, ScriptRuns
<1>5. CASE Stopped(p)
  <2>1. pc[p] \in PC \ Ended /\ pc'[p] = "stopped"
    BY <1>5 DEF TypeOK, Stopped, Alive
  <2>2. Position(p) \in 1..7 /\ Position(p)' = 0
    BY <2>1 DEF Position, PC
  <2> QED BY <1>5, <2>2 DEF Proceeds, Nearer
<1>6. ASSUME NEW q \in Child \ {p},
             ChildStep(q) \/ Execute(q) \/ ScriptRuns(q) \/ Stopped(q)
      PROVE  Proceeds(p)
  BY <1>1, <1>6, OthersKeepOwn
<1>7. ASSUME NEW q \in Child, ClientSends(q) \/ ClientCloses(q)
      PROVE  Proceeds(p)
  BY <1>1, <1>7 DEF ClientSends, ClientCloses, Own
<1>8. MemcachedStops \/ MemcachedStarts \/ UNCHANGED vars => Proceeds(p)
  BY <1>1 DEF MemcachedStops, MemcachedStarts, vars, Own
<1> QED BY <1>2, <1>3, <1>4, <1>5, <1>6, <1>7, <1>8 DEF Next, Environment

\* No step of the child or of its surroundings leaves it waiting in vain.
LEMMA AttendedStep ==
  TypeOK /\ (\A p \in Child : Attended(p)) /\ [Next]_vars
    => \A p \in Child : Attended(p)'
<1> SUFFICES ASSUME TypeOK, \A p \in Child : Attended(p), [Next]_vars,
                    NEW p \in Child
             PROVE  Attended(p)'
  OBVIOUS
<1>f. /\ pc \in [Child -> PC] /\ StatsTypeOK
      /\ got \in [Child -> {"nothing", "line", "length", "head", "all"}]
      /\ conn \in [Child -> {"none", "open", "broken"}]
      /\ cmd = [r \in Child |-> cmd[r]]
  BY DEF TypeOK
<1>a. Attended(p)
  OBVIOUS
<1> USE DEF Attended, HasLength
<1>1. ASSUME pc'[p] = pc[p], request' = request, got'[p] = got[p],
             cmd'[p] = cmd[p], conn'[p] = conn[p],
             script[p] # "none" => script'[p] # "none"
      PROVE  Attended(p)'
  BY <1>a, <1>1
<1>2. ASSUME pc'[p] \notin {"body", "reply", "script", "pclose"}
      PROVE  Attended(p)'
  BY <1>2
<1>3. CASE ChildStep(p)
  <2>1. CASE memcache_conection(p)
    BY <1>2, <1>f, <2>1 DEF memcache_conection, Answer
  <2>2. CASE ReadHeaders(p) \/ ReadBody(p)
    BY <1>2, <1>f, <2>2 DEF ReadHeaders, ReadBody, Read
  <2>3. CASE HandleFixed(p) \/ HandleUnknown(p)
    BY <1>2, <1>f, <2>3 DEF HandleFixed, HandleUnknown, Answer
  <2>4. CASE handle_estado_get(p)
    <3>1. \/ pc'[p] = "script" /\ script'[p] = "running"
          \/ pc'[p] = "answered"
      BY <1>f, <2>4 DEF handle_estado_get, popen, Answer, StatsTypeOK
    <3> QED BY <3>1
  <2>5. CASE handle_dia_get(p) \/ handle_dia_delete(p) \/ SaveDay(p)
    <3>1. \/ \E c : Send(p, c) /\ c.op \in {"get", "set", "delete"}
          \/ Goto(p, "crashed")
      <4>1. CASE handle_dia_get(p)
        BY <4>1 DEF handle_dia_get, Get
      <4>2. CASE handle_dia_delete(p)
        BY <4>2 DEF handle_dia_delete, Delete
      <4>3. CASE SaveDay(p)
        <5>1. \A k, v : Set(k, v).op = "set"
          BY DEF Set
        <5> QED BY <4>3, <5>1 DEF SaveDay
      <4> QED BY <2>5, <4>1, <4>2, <4>3
    <3>2. UNCHANGED conn
      BY <2>5 DEF handle_dia_get, handle_dia_delete, SaveDay
    <3> QED BY <1>2, <1>f, <3>1, <3>2 DEF Send
  <2>6. CASE SaveDone(p) \/ DeleteDone(p) \/ ShowDay(p)
    <3>1. pc'[p] \in {"answered", "crashed"}
      BY <1>f, <2>6 DEF SaveDone, DeleteDone, ShowDay, Answer
    <3> QED BY <1>2, <3>1
  <2>7. CASE RunScript(p)
    <3>1. UNCHANGED <<client, link>>
      BY <2>7 DEF RunScript
    <3>2. CASE TakeLine(p) \/ EndOfOutput(p)
      <4>1. pc'[p] \in {"script", "pclose"} /\ pc[p] = "script"
            /\ UNCHANGED script
        BY <1>f, <3>2 DEF TakeLine, EndOfOutput
      <4> QED BY <1>a, <4>1
    <3>3. CASE pclose(p)
      BY <1>2, <1>f, <3>3 DEF pclose
    <3>4. CASE dead_child(p)
      <4>1. \/ pc'[p] = pc[p] /\ script'[p] = "reaped"
            \/ pc'[p] = "panicked"
        BY <1>f, <3>4 DEF dead_child, StatsTypeOK
      <4> QED BY <1>1, <1>2, <3>1, <4>1
    <3> QED BY <2>7, <3>2, <3>3, <3>4 DEF RunScript, HandleCommand
  <2>8. CASE AnswerStats(p)
    BY <1>2, <1>f, <2>8 DEF AnswerStats, Collected
  <2> QED BY <1>3, <2>1, <2>2, <2>3, <2>4, <2>5, <2>6, <2>7, <2>8
          DEF ChildStep, Dispatch
<1>4. CASE Stopped(p)
  BY <1>2, <1>f, <1>4 DEF Stopped
<1>5. CASE Execute(p) \/ ScriptRuns(p)
  BY <1>1, <1>f, <1>5 DEF Execute, ScriptRuns, Script, ScriptPrints,
     ScriptDies, StatsTypeOK
<1>6. ASSUME NEW q \in Child \ {p},
             ChildStep(q) \/ Execute(q) \/ ScriptRuns(q) \/ Stopped(q)
      PROVE  Attended(p)'
  <2>1. pc'[p] = pc[p] /\ cmd'[p] = cmd[p] /\ script'[p] = script[p]
    BY <1>6, OthersKeepOwn DEF Own
  <2>2. request' = request /\ got'[p] = got[p] /\ conn'[p] = conn[p]
    <3>1. CASE Execute(q) \/ ScriptRuns(q) \/ Stopped(q)
      BY <3>1 DEF Execute, ScriptRuns, Stopped
    <3>2. CASE memcache_conection(q) \/ ReadHeaders(q) \/ ReadBody(q)
      BY <1>f, <3>2 DEF memcache_conection, ReadHeaders, ReadBody, Read
    <3>3. CASE Dispatch(q)
      BY <3>3 DEF Dispatch, HandleFixed, HandleUnknown, handle_estado_get,
         handle_dia_get, handle_dia_delete, SaveDay
    <3>4. CASE SaveDone(q) \/ DeleteDone(q) \/ ShowDay(q)
               \/ RunScript(q) \/ AnswerStats(q)
      BY <3>4 DEF SaveDone, DeleteDone, ShowDay, RunScript, AnswerStats
    <3> QED BY <1>6, <3>1, <3>2, <3>3, <3>4 DEF ChildStep
  <2> QED BY <1>1, <2>1, <2>2
<1>7. ASSUME NEW q \in Child, ClientSends(q) \/ ClientCloses(q)
      PROVE  Attended(p)'
  <2>1. UNCHANGED <<request, pc, cmd, conn, script>>
    BY <1>7 DEF ClientSends, ClientCloses
  <2>2. got[p] \in {"length", "head", "all"}
          => got'[p] \in {"length", "head", "all"}
    <3>1. got'[p] = got[p] \/ got[p] \in {"nothing", "line"}
          \/ got'[p] \in {"head", "all"}
      BY <1>f, <1>7 DEF ClientSends, ClientCloses
    <3> QED BY <3>1
  <2> QED BY <1>a, <2>1, <2>2
<1>8. CASE MemcachedStops
  <2>1. UNCHANGED <<request, got, pc, cmd, script>>
    BY <1>8 DEF MemcachedStops
  <2>2. conn'[p] = IF conn[p] = "open" THEN "broken" ELSE conn[p]
    BY <1>8 DEF MemcachedStops
  <2> QED BY <1>a, <2>1, <2>2
<1>9. CASE MemcachedStarts \/ UNCHANGED vars
  BY <1>1, <1>9 DEF MemcachedStarts, vars
<1> QED BY <1>3, <1>4, <1>5, <1>6, <1>7, <1>8, <1>9 DEF Next, Environment

\* A child is on its way to its end: every step of its own, of memcached for
\* it or of its script takes it nearer, none of another child, of a client or
\* of a memcached that goes away takes it back, and what it waits for after
\* it has read its request is always under way.
THEOREM ChildrenProceed ==
  Spec => /\ [](\A p \in Child : Attended(p))
          /\ [](\A p \in Child : Distance(p) \in Nat \X Nat \X Nat \X Nat)
          /\ [][\A p \in Child : Proceeds(p)]_vars
<1>1. Init => /\ TypeOK /\ Commands /\ Reaping /\ Fit
              /\ \A p \in Child : Attended(p)
  <2>1. Init => \A p \in Child : Attended(p)
    BY DEF Init, Attended
  <2> QED BY <2>1, TypeInit, CommandsInit, ReapingInit, FitInit DEF Init
<1>2. TypeOK /\ Fit
        => \A p \in Child : Distance(p) \in Nat \X Nat \X Nat \X Nat
  BY DistanceIsNatural
<1>3. TypeOK /\ Commands /\ Fit /\ [Next]_vars
        => [\A p \in Child : Proceeds(p)]_vars
  BY ProceedsStep
<1>4. TypeOK /\ (\A p \in Child : Attended(p)) /\ [Next]_vars
        => (\A p \in Child : Attended(p))'
  BY AttendedStep
<1> QED BY <1>1, <1>2, <1>3, <1>4, TypeStep, CommandsStep, ReapingStep,
           StatisticsStep, PTL DEF Spec
=============================================================================
