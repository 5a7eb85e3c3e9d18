----------------------------- MODULE Statistics -----------------------------
(* How a child gets memcached's statistics for /estado (handle_command in   *)
(* daemon-child-func.c): it runs a script under popen(), appends what fgets *)
(* reads, a line or a piece of a long one, to a result of max_len bytes and *)
(* calls pclose(), which waits for the script.                              *)
(* The child has inherited dead_child from the master as its handler of     *)
(* SIGCHLD, which waits for it too.  Requests is the rest of a child.       *)
EXTENDS Integers, Sequences

CONSTANTS
  Child,         \* the children
  Output,        \* what the script may print: the lengths of its lines
  max_len,       \* size of the buffer for the statistics
  buf_len        \* size of the buffer that fgets fills

ASSUME OutputAssumption == Output \subseteq Seq(Nat)
ASSUME SizeAssumption == max_len \in Nat
ASSUME BufferAssumption == buf_len \in Nat /\ buf_len > 1

VARIABLES
  pc,        \* where the child is
  script,    \* the script's process
  printed,   \* the lines it has printed
  result,    \* how many of them the child has taken over, and how many
             \* bytes of the next one
  chld,      \* is SIGCHLD pending?
  reaper     \* who has reaped the script (history)

stats == <<script, printed, result, chld, reaper>>

\* A child ends with its answer sent, or killed on the way to it.
Killed == {"crashed", "broken pipe", "panicked", "stopped"}
Ended == {"answered"} \union Killed

At(p, l) == pc[p] = l
Goto(p, l) == pc' = [pc EXCEPT ![p] = l]
Alive(p) == pc[p] \notin Ended

\* The length of the lines together.
Total(lines) ==
  LET total[n \in 0..Len(lines)] ==
        IF n = 0 THEN 0 ELSE total[n - 1] + lines[n]
  IN  total[Len(lines)]

Empty == [lines |-> 0, part |-> 0]

\* The bytes taken over.
Taken(p) == Total(SubSeq(printed[p], 1, result[p].lines)) + result[p].part

\* The line the child is at, and what fgets reads of what is left of it.
NextLine(p) == printed[p][result[p].lines + 1]
Left(p) == NextLine(p) - result[p].part
Piece(p) == IF Left(p) < buf_len THEN Left(p) ELSE buf_len - 1

StatsInit ==
  /\ script = [p \in Child |-> "none"]
  /\ printed = [p \in Child |-> <<>>]
  /\ result = [p \in Child |-> Empty]
  /\ chld = [p \in Child |-> FALSE]
  /\ reaper = [p \in Child |-> "nobody"]
-----------------------------------------------------------------------------
(* Plausible bugs (see Requests).                                           *)

TakeLine_CutsLine(p) ==
  /\ At(p, "script")
  /\ result[p].lines < Len(printed[p])
  /\ LET room == max_len - Taken(p) - 1
     IN  IF Left(p) <= room
           THEN /\ result' = [result EXCEPT
                     ![p] = [lines |-> @.lines + 1, part |-> 0]]
                /\ UNCHANGED pc
           ELSE /\ result' = [result EXCEPT ![p].part = @ + room]
                /\ Goto(p, "pclose")
  /\ UNCHANGED <<script, printed, chld, reaper>>

pclose_Fclose(p) ==
  /\ At(p, "pclose")
  /\ Goto(p, "stats")
  /\ UNCHANGED stats
-----------------------------------------------------------------------------
popen(p) ==
  /\ script' = [script EXCEPT ![p] = "running"]
  /\ Goto(p, "script")
  /\ UNCHANGED <<printed, result, chld, reaper>>

\* fgets and strncat: a piece that does not fit any more ends the loop.
TakeLine(p) ==
  /\ At(p, "script")
  /\ result[p].lines < Len(printed[p])
  /\ IF Taken(p) + Piece(p) < max_len - 1
       THEN /\ result' = [result EXCEPT ![p] =
                 IF Piece(p) = Left(p) THEN [lines |-> @.lines + 1, part |-> 0]
                 ELSE [lines |-> @.lines, part |-> @.part + Piece(p)]]
            /\ UNCHANGED pc
       ELSE /\ Goto(p, "pclose")
            /\ UNCHANGED result
  /\ UNCHANGED <<script, printed, chld, reaper>>

\* fgets finds the end: the script has closed its output.
EndOfOutput(p) ==
  /\ At(p, "script")
  /\ result[p].lines = Len(printed[p])
  /\ script[p] \in {"exiting", "zombie", "reaped"}
  /\ Goto(p, "pclose")
  /\ UNCHANGED stats

\* waitpid in pclose: it reaps the script, or fails if there is no child.
pclose(p) ==
  /\ At(p, "pclose")
  /\ script[p] \in {"zombie", "reaped"}
  /\ Goto(p, "stats")
  /\ script' = [script EXCEPT ![p] = "reaped"]
  /\ reaper' = [reaper EXCEPT
       ![p] = IF script[p] = "zombie" THEN "pclose" ELSE @]
  /\ UNCHANGED <<printed, result, chld>>

\* The answer; the kernel delivers a pending SIGCHLD before waitpid returns.
Collected(p) ==
  /\ At(p, "stats")
  /\ ~chld[p]
  /\ Goto(p, "answered")
  /\ UNCHANGED stats

\* dead_child in a child: wait3 reaps the script or there is a PANIC.  The
\* inherited child_count counts at least the child itself.
dead_child(p) ==
  /\ Alive(p)
  /\ chld[p]
  /\ chld' = [chld EXCEPT ![p] = FALSE]
  /\ IF script[p] = "zombie"
       THEN /\ script' = [script EXCEPT ![p] = "reaped"]
            /\ reaper' = [reaper EXCEPT ![p] = "handler"]
            /\ UNCHANGED pc
       ELSE /\ Goto(p, "panicked")
            /\ UNCHANGED <<script, reaper>>
  /\ UNCHANGED <<printed, result>>

\* The script prints all it has found at once and closes its output, and
\* then it dies.
ScriptPrints(p) ==
  /\ script[p] = "running"
  /\ script' = [script EXCEPT ![p] = "exiting"]
  /\ \E o \in Output : printed' = [printed EXCEPT ![p] = o]
  /\ UNCHANGED <<pc, result, chld, reaper>>

ScriptDies(p) ==
  /\ script[p] = "exiting"
  /\ script' = [script EXCEPT ![p] = "zombie"]
  /\ chld' = [chld EXCEPT ![p] = TRUE]
  /\ UNCHANGED <<pc, printed, result, reaper>>

HandleCommand(p) ==
  TakeLine(p) \/ EndOfOutput(p) \/ pclose(p) \/ dead_child(p)
Script(p) == ScriptPrints(p) \/ ScriptDies(p)
-----------------------------------------------------------------------------
StatsTypeOK ==
  /\ script \in [Child -> {"none", "running", "exiting", "zombie", "reaped"}]
  /\ printed \in [Child -> Seq(Nat)]
  /\ result \in [Child -> [lines : Nat, part : Nat]]
  /\ chld \in [Child -> BOOLEAN]
  /\ reaper \in [Child -> {"nobody", "handler", "pclose"}]

\* The statistics shown leave room for the NUL.  They are the first of what
\* the script has printed, whole line by whole line: only a line longer than
\* fgets's buffer may be shown in part.
StatisticsFit ==
  \A p \in Child :
    /\ result[p].lines <= Len(printed[p])
    /\ result[p].part > 0 =>
         /\ result[p].lines < Len(printed[p])
         /\ result[p].part < NextLine(p)
         /\ NextLine(p) >= buf_len
    /\ result[p] # Empty => Taken(p) < max_len - 1

\* Statistics are answered only when the handler was the one to reap the
\* script: the answer leaves no zombie, and a panic means that pclose came
\* first.
ReapedByHandler ==
  \A p \in Child :
    /\ At(p, "answered") /\ script[p] # "none" =>
         script[p] = "reaped" /\ reaper[p] = "handler"
    /\ At(p, "panicked") => reaper[p] = "pclose"

\* Violated: a child that runs the script does not panic.
NeverPanics == \A p \in Child : ~At(p, "panicked")
=============================================================================
