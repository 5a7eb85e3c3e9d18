------------------------------ MODULE DayStore ------------------------------
(* What the server promises about days: an operation of a client takes      *)
(* effect at one moment, once at most, between the moment it is asked for   *)
(* and its answer, and an answer that claims success says what was true at  *)
(* that moment.  An answer that claims nothing may or may not have had its  *)
(* effect, and the store may lose everything at any time.  Requests shows   *)
(* that the children and memcached implement it.                            *)
CONSTANTS
  Client,
  Key,        \* the keys of days
  NoKey,      \* no key: not one that a day can be stored under
  Line,       \* what is stored for a day
  NoLine,     \* nothing is stored
  Blank       \* what is shown of a day when nothing is known of it

VARIABLES
  days,       \* Key -> the line stored or NoLine
  call        \* how far each client's operation has come

Get(k) == [op |-> "get", key |-> k, line |-> NoLine]
Delete(k) == [op |-> "delete", key |-> k, line |-> NoLine]
Set(k, v) == [op |-> "set", key |-> k, line |-> v]
Operation == {Get(k) : k \in Key} \union {Delete(k) : k \in Key}
             \union {Set(k, v) : k \in Key, v \in Line}

\* An answer: did it succeed, and which day with which line does it show?
Answered(ok, k, v) == [at |-> "answered", ok |-> ok, key |-> k, line |-> v]
Idle == [at |-> "idle"]
Asked(o) == [at |-> "asked", for |-> o]
Told(a) == [at |-> "told", answer |-> a]

\* What o finds under its key.
Found(o) == IF o.key = NoKey THEN NoLine ELSE days[o.key]

\* The answer to o when it found w: a day that is not there is shown blank,
\* and only deleting it fails; nothing is stored under no key.
Verdict(o, w) ==
  CASE o.op = "get" ->
         Answered(TRUE, o.key, IF w = NoLine THEN Blank ELSE w)
    [] o.op = "set" -> Answered(o.key # NoKey, NoKey, NoLine)
    [] o.op = "delete" -> Answered(w # NoLine, NoKey, NoLine)

\* The answer to o when nothing is known of its effect.
Unknown(o) ==
  IF o.op = "get" THEN Answered(TRUE, NoKey, Blank)
  ELSE Answered(FALSE, NoKey, NoLine)
-----------------------------------------------------------------------------
Init ==
  /\ days \in [Key -> Line \union {NoLine}]
  /\ days[NoKey] = NoLine
  /\ call = [c \in Client |-> Idle]

Ask(c) ==
  /\ call[c] = Idle
  /\ \E o \in Operation : call' = [call EXCEPT ![c] = Asked(o)]
  /\ UNCHANGED days

TakeEffect(c) ==
  /\ call[c].at = "asked"
  /\ LET o == call[c].for
     IN  /\ call' = [call EXCEPT ![c] = Told(Verdict(o, Found(o)))]
         /\ days' = IF o.op = "get" \/ o.key = NoKey THEN days
                    ELSE [days EXCEPT ![o.key] = o.line]

Answer(c) ==
  /\ call[c].at = "told"
  /\ call' = [call EXCEPT ![c] = call[c].answer]
  /\ UNCHANGED days

AnswerUnknown(c) ==
  /\ call[c].at = "asked"
  /\ call' = [call EXCEPT ![c] = Unknown(call[c].for)]
  /\ UNCHANGED days

Forget ==
  /\ days' = [k \in Key |-> NoLine]
  /\ UNCHANGED call

Next ==
  \/ \E c \in Client : Ask(c) \/ TakeEffect(c) \/ Answer(c) \/ AnswerUnknown(c)
  \/ Forget

Spec == Init /\ [][Next]_<<days, call>>
=============================================================================
