------------------------------ MODULE Options ------------------------------
(* How the options get their values (confdata.c): defaults, then the        *)
(* command line, then the configuration file, read by fgets into a buffer   *)
(* of CONFIG_FILE_LINELEN bytes.  Startup has what the options do.          *)
(*                                                                          *)
(* Values are integers, as in global_options; a file name is an integer     *)
(* that stands for its text, 0 for the empty one.                           *)
EXTENDS Integers, Sequences

CONSTANTS
  CONFIG_FILE_LINELEN,   \* size of the buffer for a line
  ABSOLUTE_MAX_CHILDREN,
  IntRange,              \* how many values an int has
  Commands,              \* command lines: sequences of arguments
  Files                  \* configuration files

True == 0                \* TRUE and FALSE of global.h
False == 1
MIN_LOGLEVEL == 1
MAX_LOGLEVEL == 9
MaxPort == 65535
Stdout == -1             \* "/dev/stdout"

Names == {"logfilename", "configfilename"}
Booleans == {"dnslookups", "foregroundonly", "dumpcore", "terminate"}
Option ==
  Names \union Booleans \union {"loglevel", "portnum", "maxchild", "checkcfg"}

\* The options an argument sets.  -h stands for every argument that ends in
\* the usage message.
SetBy ==
  [F |-> {"foregroundonly"}, d |-> {"loglevel"}, l |-> {"logfilename"},
   c |-> {"configfilename"}, m |-> {"maxchild"}, p |-> {"portnum"},
   w |-> {"dnslookups"}, k |-> {"dumpcore"}, t |-> {"terminate"},
   o |-> {"checkcfg", "foregroundonly", "loglevel"}, h |-> {}]
Letter == DOMAIN SetBy

\* A line of a file has a length without its line end, the option to the left
\* of '=' ("badoption": an unknown one; "none": a comment, or no '='), and the
\* expression to the right of it, if there is one.
Expr == [kind : {"none", "number", "TRUE", "FALSE", "name"}, n : Int]
Line == [len : Nat, opt : Option \union {"badoption", "none"}, expr : Expr]

ASSUME BufferAssumption ==
  CONFIG_FILE_LINELEN \in Nat /\ CONFIG_FILE_LINELEN >= 2
ASSUME IntAssumption ==
  /\ IntRange \in Nat /\ IntRange > 0
  /\ ABSOLUTE_MAX_CHILDREN \in Nat /\ ABSOLUTE_MAX_CHILDREN >= 3
ASSUME CommandAssumption ==
  Commands \subseteq Seq([opt : Letter, n : Int])
ASSUME FileAssumption ==
  \A f \in Files :
    /\ f \in [lines : Seq(Line), newline : BOOLEAN]
    /\ f.newline \/ (Len(f.lines) > 0 /\ f.lines[Len(f.lines)].len > 0)

VARIABLES
  pc,              \* where process_cmdline and process_configfile are
  args,            \* the command line
  arg,             \* the argument to be read next
  global_options,
  text,            \* the configuration file
  line, at,        \* the position in it: a line and what is read of it
  chunk,           \* what of the file the buffer holds
  eof,             \* feof(conffile)
  failed           \* does reading fail from now on?

position == <<line, at, chunk, eof>>
given == <<args, text>>
vars == <<pc, given, arg, global_options, position, failed>>

PC == {"cmdline", "log_start", "open", "fgets", "skip", "line", "done",
       "usage", "panic"}
Ended == {"done", "usage", "panic"}
Goto(l) == pc' = l
-----------------------------------------------------------------------------
(* The file as fgets sees it.                                               *)

Lines == 1..Len(text.lines)

\* Does line i end in a line end?  The last one may not.
Ends(i) == i < Len(text.lines) \/ text.newline
Size(i) == text.lines[i].len + (IF Ends(i) THEN 1 ELSE 0)

\* fgets(line, CONFIG_FILE_LINELEN, conffile).  At the end of the file and
\* after an error it leaves the buffer as it is and returns NULL; the end is
\* noticed only by a read that could have gone on.
NoMore == failed \/ line > Len(text.lines)
fgets ==
  IF NoMore
    THEN /\ eof' = (eof \/ ~failed)
         /\ UNCHANGED <<line, at, chunk>>
    ELSE LET room == CONFIG_FILE_LINELEN - 1
             left == Size(line) - at
             read == IF left < room THEN left ELSE room
         IN  /\ chunk' = [line |-> line, from |-> at, to |-> at + read]
             /\ line' = IF read = left THEN line + 1 ELSE line
             /\ at' = IF read = left THEN 0 ELSE at + read
             /\ eof' = (left < room /\ ~Ends(line))

\* strchr(line, '\n')
HasNewline(c) == Ends(c.line) /\ c.to = Size(c.line)
-----------------------------------------------------------------------------
(* Expressions.                                                             *)

\* atoi, whose long result is cut to an int; as an unsigned option.
atoi(n) == LET half == IntRange \div 2 IN ((n + half) % IntRange) - half
Unsigned(n) == n % IntRange

(* Plausible bugs: each stands in for the definition its name starts with,  *)
(* to show that a property can fail.  No specification uses them.           *)

parseint_NoMaximum(expr, min, max) ==
  expr.kind = "number" /\ atoi(expr.n) >= min

ArgValue_Signed(x, o) ==
  CASE o = "loglevel" -> MAX_LOGLEVEL
    [] o \in {"portnum", "maxchild"} -> atoi(x.n)
    [] o \in Names -> x.n
    [] OTHER -> True

SkipChunk_Once ==
  /\ pc = "skip"
  /\ fgets
  /\ Goto("fgets")
  /\ UNCHANGED <<given, arg, global_options, failed>>

SkipChunk_NoFeof ==
  /\ pc = "skip"
  /\ fgets
  /\ Goto(IF HasNewline(chunk') THEN "fgets" ELSE "skip")
  /\ UNCHANGED <<given, arg, global_options, failed>>

ReadLine_NeedsNewline ==
  /\ pc = "fgets"
  /\ fgets
  /\ Goto(IF NoMore THEN "done"
          ELSE IF HasNewline(chunk') THEN "line"
          ELSE IF eof' THEN "fgets" ELSE "skip")
  /\ UNCHANGED <<given, arg, global_options, failed>>

\* parseint: is expr a number that is in range once it is an int?
parseint(expr, min, max) ==
  expr.kind = "number" /\ atoi(expr.n) \in min..max

\* Does the line, whole and with an expression, set o?  checkcfg and
\* configfilename cannot be set.  With -o, loglevel is set whatever the line
\* says.
Parses(x, o) ==
  CASE o = "loglevel" -> \/ parseint(x.expr, MIN_LOGLEVEL, MAX_LOGLEVEL)
                         \/ global_options["checkcfg"] = True
    [] o = "portnum" -> parseint(x.expr, 1, MaxPort)
    [] o = "maxchild" -> parseint(x.expr, 1, ABSOLUTE_MAX_CHILDREN)
    [] o \in Booleans -> x.expr.kind \in {"TRUE", "FALSE"}
    [] o = "logfilename" -> TRUE
    [] OTHER -> FALSE
LineSets(x, o) == x.opt = o /\ x.expr.kind # "none" /\ Parses(x, o)

LineValue(x, o) ==
  CASE o = "loglevel" /\ global_options["checkcfg"] = True -> MAX_LOGLEVEL
    [] o \in Booleans -> IF x.expr.kind = "TRUE" THEN True ELSE False
    [] o = "logfilename" -> x.expr.n
    [] OTHER -> atoi(x.expr.n)
-----------------------------------------------------------------------------
(* The command line.                                                        *)

\* initialise_options and fill_default_options.
Defaults ==
  [o \in Option |-> IF o = "portnum" THEN 80 ELSE IF o = "maxchild" THEN 3
                    ELSE IF o = "configfilename" THEN 0 ELSE 1]

Init ==
  /\ pc = "cmdline"
  /\ args \in Commands
  /\ arg = 1
  /\ global_options = Defaults
  /\ text \in Files
  /\ line = 1
  /\ at = 0
  /\ chunk = [line |-> 0, from |-> 0, to |-> 0]
  /\ eof = FALSE
  /\ failed = FALSE

\* -d sets the lowest level when its number is no level; -m and -p take any.
ArgValue(x, o) ==
  CASE o = "loglevel" ->
         IF x.opt = "o" THEN MAX_LOGLEVEL
         ELSE IF Unsigned(x.n) \in MIN_LOGLEVEL..MAX_LOGLEVEL
                THEN Unsigned(x.n) ELSE MIN_LOGLEVEL
    [] o \in {"portnum", "maxchild"} -> Unsigned(x.n)
    [] o \in Names -> x.n
    [] OTHER -> True

\* One argument; -l is ignored after -F.
process_cmdline ==
  /\ pc = "cmdline"
  /\ arg <= Len(args)
  /\ LET x == args[arg]
         ignored == x.opt = "l" /\ global_options["foregroundonly"] = True
     IN  global_options' = [o \in Option |->
           IF o \in SetBy[x.opt] /\ ~ignored THEN ArgValue(x, o)
           ELSE global_options[o]]
  /\ arg' = arg + 1
  /\ UNCHANGED <<pc, given, position, failed>>

CmdlineDone ==
  /\ pc = "cmdline"
  /\ arg > Len(args)
  /\ Goto(IF \E i \in 1..Len(args) : args[i].opt = "h" THEN "usage"
          ELSE "log_start")
  /\ UNCHANGED <<given, arg, global_options, position, failed>>

\* In the foreground the log is the terminal.
log_start ==
  /\ pc = "log_start"
  /\ global_options' = IF global_options["foregroundonly"] = True
       THEN [global_options EXCEPT !["logfilename"] = Stdout]
       ELSE global_options
  /\ Goto(IF global_options["configfilename"] = 0 THEN "done" ELSE "open")
  /\ UNCHANGED <<given, arg, position, failed>>
-----------------------------------------------------------------------------
(* The configuration file.                                                  *)

OpenFile ==
  /\ pc = "open"
  /\ Goto("fgets") \/ Goto("panic")
  /\ UNCHANGED <<given, arg, global_options, position, failed>>

\* The read at the head of the loop.  A line that came whole is parsed, and
\* so is a last one that has no line end; any other is too long.
ReadLine ==
  /\ pc = "fgets"
  /\ fgets
  /\ Goto(IF NoMore THEN "done"
          ELSE IF HasNewline(chunk') \/ eof' THEN "line" ELSE "skip")
  /\ UNCHANGED <<given, arg, global_options, failed>>

\* One turn of the loop that reads on to the end of a line that is too long.
SkipChunk ==
  /\ pc = "skip"
  /\ fgets
  /\ Goto(IF HasNewline(chunk') \/ eof' THEN "fgets" ELSE "skip")
  /\ UNCHANGED <<given, arg, global_options, failed>>

\* extract_option, parse_option, extract_expr and the switch.
ParseLine ==
  /\ pc = "line"
  /\ LET x == text.lines[chunk.line]
     IN  global_options' = [o \in Option |->
           IF LineSets(x, o) THEN LineValue(x, o) ELSE global_options[o]]
  /\ Goto("fgets")
  /\ UNCHANGED <<given, arg, position, failed>>

\* The disk, or a directory that was opened as a file: no read succeeds.
ReadFails ==
  /\ pc \in {"fgets", "skip"}
  /\ ~failed
  /\ failed' = TRUE
  /\ UNCHANGED <<pc, given, arg, global_options, position>>
-----------------------------------------------------------------------------
Step ==
  \/ process_cmdline \/ CmdlineDone \/ log_start
  \/ OpenFile \/ ReadLine \/ SkipChunk \/ ParseLine
Next == Step \/ ReadFails
Spec == Init /\ [][Next]_vars
FairSpec == Spec /\ WF_vars(Step)
-----------------------------------------------------------------------------
(* Which setting an option has when each overrides the ones before it.      *)

\* The i-th argument sets o.
ArgSets(i, o) ==
  /\ o \in SetBy[args[i].opt]
  /\ args[i].opt = "l" => \A j \in 1..(i - 1) : args[j].opt \notin {"F", "o"}

Foreground(n) == \E i \in 1..n : args[i].opt \in {"F", "o"}

\* v is what the first n arguments make of o.
FromCmdline(o, n, v) ==
  \/ \E i \in 1..n : /\ ArgSets(i, o) /\ v = ArgValue(args[i], o)
                     /\ \A j \in (i + 1)..n : ~ArgSets(j, o)
  \/ (\A i \in 1..n : ~ArgSets(i, o)) /\ v = Defaults[o]

\* v is what the whole command line and the log make of o.
BeforeFile(o, v) ==
  IF o = "logfilename" /\ Foreground(Len(args)) THEN v = Stdout
  ELSE FromCmdline(o, Len(args), v)

\* The line counts: it is "less than CONFIG_FILE_LINELEN characters long
\* including the \n", there or not, and sets o.
Fits(i) == text.lines[i].len + 1 < CONFIG_FILE_LINELEN
Counts(i, o) == Fits(i) /\ LineSets(text.lines[i], o)

\* v is what the first n lines make of o.
FromFile(o, n, v) ==
  \/ \E i \in 1..n : /\ Counts(i, o) /\ v = LineValue(text.lines[i], o)
                     /\ \A j \in (i + 1)..n : ~Counts(j, o)
  \/ (\A i \in 1..n : ~Counts(i, o)) /\ BeforeFile(o, v)

(* Properties.                                                              *)

\* The types of the variables; only the names may be negative.
TypeOK ==
  /\ pc \in PC
  /\ args \in Seq([opt : Letter, n : Int])
  /\ text \in [lines : Seq(Line), newline : BOOLEAN]
  /\ arg \in 1..(Len(args) + 1)
  /\ global_options \in [Option -> Int]
  /\ \A o \in Option \ Names : global_options[o] >= 0
  /\ line \in 1..(Len(text.lines) + 1)
  /\ at \in Nat
  /\ chunk \in [line : Nat, from : Nat, to : Nat]
  /\ eof \in BOOLEAN /\ failed \in BOOLEAN

\* What is parsed is a whole line that fits, never the rest of one that was
\* too long for the buffer.
WholeLines ==
  pc = "line" => /\ chunk.from = 0 /\ chunk.to = Size(chunk.line)
                 /\ Fits(chunk.line)

\* Each option has the value of the last line of the file that counts, else of
\* the last argument, else its default.  A read that fails is taken for the
\* end of the file: the lines before it count, and nobody is told.  This is
\* the code's rule.  HOWTO says otherwise in three places: -d is ignored after
\* -o (it is not, so that "-o -d4" checks the file at level 4), the limit is
\* by default ABSOLUTE_MAX_CHILDREN (it is 3), and the level 0 (it is 1).
LastSettingWins ==
  pc = "done" => \A o \in Option :
    IF global_options["configfilename"] = 0
      THEN BeforeFile(o, global_options[o])
      ELSE FromFile(o, IF failed THEN line - 1 ELSE Len(text.lines),
                    global_options[o])

\* Only -p and -m can put a number out of its range: no line of a file can,
\* not even with a number that is no int.
FromArg(letter, v) ==
  \E i \in 1..Len(args) : args[i].opt = letter /\ v = Unsigned(args[i].n)
RangesKept ==
  /\ global_options["loglevel"] \in MIN_LOGLEVEL..MAX_LOGLEVEL
  /\ \/ global_options["portnum"] \in 1..MaxPort
     \/ FromArg("p", global_options["portnum"])
  /\ \/ global_options["maxchild"] \in 1..ABSOLUTE_MAX_CHILDREN
     \/ FromArg("m", global_options["maxchild"])

\* The options are settled, or the program has given up, in the end; except
\* that it spins for ever when a read fails in the middle of a line that is
\* too long.
OptionsSettled == <>(pc \in Ended \/ (pc = "skip" /\ failed))
=============================================================================
