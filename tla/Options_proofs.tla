--------------------------- MODULE Options_proofs ---------------------------
(* Proofs about Options: lines are parsed whole or not at all, the last     *)
(* setting that counts wins, and no line puts a number out of its range.    *)
EXTENDS Options, SequenceTheorems, TLAPS

Argument == [opt : Letter, n : Int]

\* Where the reader is.  After a line that is too long has been read to its
\* end and no line end was there, one more read is needed to notice the end.
Reader ==
  /\ at > 0 => pc = "skip" /\ line \in Lines /\ at < Size(line)
  /\ pc \in {"cmdline", "log_start", "open"} => line = 1
  /\ pc \in {"cmdline", "log_start"} => ~failed
  /\ pc = "line" => line > 1 /\ chunk.line = line - 1
  /\ pc = "skip" =>
       /\ ~eof
       /\ at > 0 => chunk.line = line /\ chunk.to = at /\ ~Fits(line)
       /\ at = 0 => line > 1 /\ chunk.line = line - 1 /\ ~Ends(line - 1)
  /\ pc = "done" => (global_options["configfilename"] = 0 \/ NoMore)

-----------------------------------------------------------------------------
(* Types.                                                                   *)

LEMMA IntFacts ==
  \A n \in Int : atoi(n) \in Int /\ Unsigned(n) \in Int /\ Unsigned(n) >= 0
<1> TAKE n \in Int
<1>1. IntRange \in Int /\ IntRange > 0
  BY IntAssumption
<1>2. IntRange \div 2 \in Int
  BY <1>1
<1>3. (n % IntRange) \in 0..(IntRange - 1)
  BY <1>1
<1>4. ((n + (IntRange \div 2)) % IntRange) \in 0..(IntRange - 1)
  BY <1>1, <1>2
<1> QED BY <1>1, <1>2, <1>3, <1>4 DEF atoi, Unsigned

LEMMA ArgType ==
  ASSUME NEW x \in Argument, NEW o \in Option
  PROVE  /\ ArgValue(x, o) \in Int
         /\ o \notin Names => ArgValue(x, o) >= 0
<1>1. x.n \in Int
  BY DEF Argument
<1>2. Unsigned(x.n) \in Int /\ Unsigned(x.n) >= 0
  BY <1>1, IntFacts
<1> QED BY <1>1, <1>2
        DEF ArgValue, Option, Names, Booleans, MIN_LOGLEVEL, MAX_LOGLEVEL, True

LEMMA LineType ==
  ASSUME NEW x \in Line, NEW o \in Option, LineSets(x, o)
  PROVE  /\ LineValue(x, o) \in Int
         /\ o \notin Names => LineValue(x, o) >= 0
         /\ o \notin {"configfilename", "checkcfg"}
<1>1. x.expr.n \in Int /\ atoi(x.expr.n) \in Int
  BY IntFacts DEF Line, Expr
<1>2. Parses(x, o)
  BY DEF LineSets
<1>3. CASE o = "loglevel"
  BY <1>1, <1>2, <1>3 DEF Parses, LineValue, parseint, Booleans, Names,
     MIN_LOGLEVEL, MAX_LOGLEVEL
<1>4. CASE o = "portnum"
  <2>1. LineValue(x, o) = atoi(x.expr.n)
    BY <1>4 DEF LineValue, Booleans
  <2>0. MaxPort \in Int
    BY DEF MaxPort
  <2>2. atoi(x.expr.n) \in 1..MaxPort
    BY <1>2, <1>4 DEF Parses, parseint, Booleans
  <2>3. atoi(x.expr.n) >= 0
    BY <1>1, <2>0, <2>2
  <2> QED BY <1>1, <1>4, <2>1, <2>3
<1>5. CASE o = "maxchild"
  BY <1>1, <1>2, <1>5 DEF Parses, LineValue, parseint, Booleans, Names
<1>6. CASE o \in Booleans
  BY <1>6 DEF LineValue, Booleans, Names, True, False
<1>7. CASE o = "logfilename"
  BY <1>1, <1>7 DEF LineValue, Booleans, Names
<1>8. CASE o \in {"configfilename", "checkcfg"}
  BY <1>2, <1>8 DEF Parses, Booleans
<1> QED BY <1>3, <1>4, <1>5, <1>6, <1>7, <1>8 DEF Option, Names

LEMMA TypeInit == Init => TypeOK /\ Reader
<1> SUFFICES ASSUME Init PROVE TypeOK /\ Reader
  OBVIOUS
<1>1. args \in Seq(Argument)
  BY CommandAssumption DEF Init, Argument
<1>2. text \in [lines : Seq(Line), newline : BOOLEAN]
  BY FileAssumption DEF Init
<1>3. Len(args) \in Nat /\ Len(text.lines) \in Nat
  BY <1>1, <1>2
<1>4. \A o \in Option : Defaults[o] \in Int /\ Defaults[o] >= 0
  BY DEF Defaults
<1>5. global_options \in [Option -> Int]
  BY <1>4 DEF Init, Defaults
<1>6. TypeOK
  <2>1. \A o \in Option : global_options[o] >= 0
    BY <1>4 DEF Init
  <2>2. [line |-> 0, from |-> 0, to |-> 0] \in [line : Nat, from : Nat, to : Nat]
    OBVIOUS
  <2>3. chunk \in [line : Nat, from : Nat, to : Nat]
    BY <2>2 DEF Init
  <2>4. arg \in 1..(Len(args) + 1) /\ line \in 1..(Len(text.lines) + 1)
    BY <1>3 DEF Init
  <2>5. pc \in PC /\ at \in Nat /\ eof \in BOOLEAN /\ failed \in BOOLEAN
    BY DEF Init, PC
  <2> QED BY <1>1, <1>2, <1>5, <2>1, <2>3, <2>4, <2>5 DEF TypeOK, Argument
<1>7. Reader
  BY DEF Init, Reader
<1> QED BY <1>6, <1>7
-----------------------------------------------------------------------------
(* fgets.                                                                   *)

LEMMA LineFacts ==
  ASSUME TypeOK, NEW i \in Lines
  PROVE  /\ text.lines[i] \in Line
         /\ text.lines[i].len \in Nat
         /\ Size(i) \in Nat
         /\ Ends(i) => Size(i) = text.lines[i].len + 1
         /\ ~Ends(i) => Size(i) = text.lines[i].len
<1>1. text.lines \in Seq(Line)
  BY DEF TypeOK
<1>2. text.lines[i] \in Line
  BY <1>1, ElementOfSeq DEF Lines
<1>3. text.lines[i].len \in Nat
  BY <1>2 DEF Line
<1> QED BY <1>2, <1>3 DEF Size

\* A read takes the rest of a line, or as much of it as there is room for.
Rest ==
  /\ line' = line + 1 /\ at' = 0
  /\ chunk' = [line |-> line, from |-> at, to |-> Size(line)]
  /\ Size(line) - at <= CONFIG_FILE_LINELEN - 1
  /\ eof' = (Size(line) - at < CONFIG_FILE_LINELEN - 1 /\ ~Ends(line))
Part ==
  /\ line' = line /\ at' = at + (CONFIG_FILE_LINELEN - 1)
  /\ chunk' = [line |-> line, from |-> at,
               to |-> at + (CONFIG_FILE_LINELEN - 1)]
  /\ at + (CONFIG_FILE_LINELEN - 1) < Size(line)
  /\ eof' = FALSE

LEMMA Position ==
  ASSUME TypeOK, Reader, ~NoMore
  PROVE  line \in Lines /\ at <= Size(line)
<1>1. line \in Int /\ Len(text.lines) \in Nat /\ line >= 1 /\ at \in Nat
  BY DEF TypeOK
<1>2. line \in Lines
  BY <1>1 DEF NoMore, Lines
<1>3. Size(line) \in Nat
  BY <1>2, LineFacts
<1> QED BY <1>1, <1>2, <1>3 DEF Reader

LEMMA FgetsReads ==
  ASSUME TypeOK, Reader, fgets, ~NoMore
  PROVE  (Rest \/ Part) /\ chunk' \in [line : Nat, from : Nat, to : Nat]
<1> DEFINE room == CONFIG_FILE_LINELEN - 1
           left == Size(line) - at
           read == IF left < room THEN left ELSE room
<1>1. line \in Lines /\ at <= Size(line) /\ at \in Nat /\ line \in Nat
  BY Position DEF TypeOK, Lines
<1>2. Size(line) \in Nat /\ room \in Nat /\ left \in Nat
  BY <1>1, LineFacts, BufferAssumption
<1>3. /\ chunk' = [line |-> line, from |-> at, to |-> at + read]
      /\ line' = IF read = left THEN line + 1 ELSE line
      /\ at' = IF read = left THEN 0 ELSE at + read
      /\ eof' = (left < room /\ ~Ends(line))
  BY DEF fgets
<1> HIDE DEF room
<1>4. CASE left <= room
  <2>1. read = left /\ at + read = Size(line)
    BY <1>1, <1>2, <1>4
  <2>2. Rest
    BY <1>1, <1>2, <1>3, <1>4, <2>1 DEF Rest, room
  <2> QED BY <1>1, <1>2, <1>3, <2>1, <2>2
<1>5. CASE ~(left <= room)
  <2>1. read = room /\ read # left /\ ~(left < room) /\ at + read < Size(line)
    BY <1>1, <1>2, <1>5
  <2>2. Part
    BY <1>1, <1>2, <1>3, <2>1 DEF Part, room
  <2>3. at + read \in Nat
    BY <1>1, <1>2, <2>1
  <2> QED BY <1>1, <1>3, <2>2, <2>3
<1> QED BY <1>4, <1>5

\* What a read leaves of the reader's state is well typed.
LEMMA FgetsType ==
  ASSUME TypeOK, Reader, fgets, UNCHANGED given
  PROVE  /\ line' \in 1..(Len(text.lines) + 1)
         /\ at' \in Nat
         /\ chunk' \in [line : Nat, from : Nat, to : Nat]
         /\ eof' \in BOOLEAN
<1>1. CASE NoMore
  BY <1>1 DEF fgets, TypeOK
<1>2. CASE ~NoMore
  <2>1. line \in Lines /\ (Rest \/ Part)
        /\ chunk' \in [line : Nat, from : Nat, to : Nat]
    BY <1>2, Position, FgetsReads
  <2>2. at \in Nat /\ CONFIG_FILE_LINELEN - 1 \in Nat /\ Len(text.lines) \in Nat
    BY BufferAssumption DEF TypeOK
  <2>3. CASE Rest
    BY <2>1, <2>2, <2>3 DEF Rest, Lines
  <2>4. CASE Part
    <3>1. line' = line /\ at' = at + (CONFIG_FILE_LINELEN - 1) /\ ~eof'
      BY <2>4 DEF Part
    <3>2. at' \in Nat
      BY <2>2, <3>1
    <3>3. line' \in 1..(Len(text.lines) + 1)
      BY <2>1, <2>2, <3>1 DEF Lines
    <3>4. eof' \in BOOLEAN
      BY <2>4 DEF Part
    <3> QED BY <2>1, <3>2, <3>3, <3>4
  <2> QED BY <2>1, <2>3, <2>4
<1> QED BY <1>1, <1>2

\* What the options may become.
LEMMA OptionsType ==
  ASSUME TypeOK, NEW g,
         g \in [Option -> Int], \A o \in Option \ Names : g[o] >= 0,
         global_options' = g, UNCHANGED <<given, position, failed>>,
         pc' \in PC, arg' \in 1..(Len(args) + 1)
  PROVE  TypeOK'
BY DEF TypeOK, given, position

LEMMA TypeStep ==
  ASSUME TypeOK, Reader, WholeLines, [Next]_vars
  PROVE  TypeOK'
<1> DEFINE Checked(g) == /\ g \in [Option -> Int]
                         /\ \A o \in Option \ Names : g[o] >= 0
<1>0. Checked(global_options) /\ arg \in 1..(Len(args) + 1)
  BY DEF TypeOK
<1>1. CASE process_cmdline
  <2> DEFINE x == args[arg]
             g == [o \in Option |->
               IF o \in SetBy[x.opt]
                  /\ ~(x.opt = "l" /\ global_options["foregroundonly"] = True)
                 THEN ArgValue(x, o) ELSE global_options[o]]
  <2>1. args \in Seq(Argument) /\ arg \in 1..Len(args)
    BY <1>1 DEF process_cmdline, TypeOK, Argument
  <2>2. x \in Argument
    BY <2>1, ElementOfSeq
  <2>3. \A o \in Option : /\ ArgValue(x, o) \in Int
                          /\ o \notin Names => ArgValue(x, o) >= 0
    BY <2>2, ArgType
  <2> HIDE DEF x
  <2>4. Checked(g)
    BY <1>0, <2>3
  <2>5. global_options' = g /\ arg' = arg + 1 /\ UNCHANGED <<pc, given, position, failed>>
    BY <1>1 DEF process_cmdline, x
  <2>6. arg + 1 \in 1..(Len(args) + 1)
    BY <2>1
  <2> HIDE DEF g
  <2>7. pc' \in PC /\ arg' \in 1..(Len(args) + 1)
    BY <2>5, <2>6 DEF TypeOK
  <2> QED BY <2>4, <2>5, <2>7, OptionsType
<1>2. CASE log_start
  <2>1. [global_options EXCEPT !["logfilename"] = Stdout] \in [Option -> Int]
    <3>1. Stdout \in Int
      BY DEF Stdout
    <3> QED BY <1>0, <3>1
  <2>2. Checked(global_options')
    <3>1. CASE global_options["foregroundonly"] = True
      BY <1>0, <1>2, <2>1, <3>1 DEF log_start, Names
    <3>2. CASE global_options["foregroundonly"] # True
      BY <1>0, <1>2, <3>2 DEF log_start
    <3> QED BY <3>1, <3>2
  <2> QED BY <1>0, <1>2, <2>2, OptionsType DEF log_start, Goto, PC
<1>3. CASE ParseLine
  <2> DEFINE x == text.lines[chunk.line]
             g == [o \in Option |-> IF LineSets(x, o) THEN LineValue(x, o)
                                    ELSE global_options[o]]
  <2>1. chunk.line \in Lines
    BY <1>3 DEF ParseLine, Reader, TypeOK, Lines
  <2>2. x \in Line
    BY <2>1, LineFacts
  <2>3. \A o \in Option : LineSets(x, o) =>
          LineValue(x, o) \in Int /\ (o \notin Names => LineValue(x, o) >= 0)
    BY <2>2, LineType
  <2> HIDE DEF x
  <2>4. Checked(g)
    BY <1>0, <2>3
  <2>5. /\ global_options' = g /\ pc' = "fgets"
        /\ UNCHANGED <<given, arg, position, failed>>
    BY <1>3 DEF ParseLine, Goto, x
  <2> HIDE DEF g
  <2>6. pc' \in PC /\ arg' \in 1..(Len(args) + 1)
    BY <1>0, <2>5 DEF PC
  <2> QED BY <2>4, <2>5, <2>6, OptionsType
<1>4. CASE CmdlineDone \/ OpenFile
  <2>1. pc' \in PC /\ UNCHANGED <<given, arg, global_options, position, failed>>
    BY <1>4 DEF CmdlineDone, OpenFile, Goto, PC
  <2> QED BY <1>0, <2>1, OptionsType
<1>5. CASE ReadLine \/ SkipChunk
  <2>1. /\ pc' \in PC /\ fgets
        /\ UNCHANGED <<given, arg, global_options, failed>>
    BY <1>5 DEF ReadLine, SkipChunk, Goto, PC
  <2>2. UNCHANGED given
    BY <2>1
  <2> QED BY <2>1, <2>2, FgetsType DEF TypeOK, given
<1>6. CASE ReadFails
  BY <1>6 DEF ReadFails, TypeOK, given, position
<1>7. CASE UNCHANGED vars
  BY <1>7 DEF vars, TypeOK, given, position
<1> QED BY <1>1, <1>2, <1>3, <1>4, <1>5, <1>6, <1>7 DEF Next, Step
-----------------------------------------------------------------------------
(* Lines are parsed whole.                                                  *)

\* The file does not change.
LEMMA FileKept ==
  ASSUME [Next]_vars
  PROVE  /\ UNCHANGED given
         /\ Lines' = Lines
         /\ \A i : /\ Ends(i)' = Ends(i)
                   /\ Size(i)' = Size(i)
                   /\ Fits(i)' = Fits(i)
<1>1. UNCHANGED given
  BY DEF Next, Step, vars, process_cmdline, CmdlineDone, log_start, OpenFile,
     ReadLine, SkipChunk, ParseLine, ReadFails
<1> QED BY <1>1 DEF given, Lines, Ends, Size, Fits

\* A whole line fits, short of a last one that fills the buffer; a part of one
\* does not.
LEMMA Fitting ==
  ASSUME TypeOK, Reader, ~NoMore
  PROVE  /\ at = 0 /\ Size(line) <= CONFIG_FILE_LINELEN - 1 /\ Ends(line)
              => Fits(line)
         /\ at = 0 /\ Size(line) < CONFIG_FILE_LINELEN - 1 => Fits(line)
         /\ at + (CONFIG_FILE_LINELEN - 1) < Size(line) => ~Fits(line)
         /\ ~Ends(line) /\ at = 0 /\ ~(Size(line) < CONFIG_FILE_LINELEN - 1)
              => ~Fits(line)
<1>1. line \in Lines /\ CONFIG_FILE_LINELEN \in Int /\ at \in Nat
  BY Position, BufferAssumption DEF TypeOK
<1>2. /\ text.lines[line].len \in Nat
      /\ Size(line) \in Nat
      /\ Ends(line) => Size(line) = text.lines[line].len + 1
      /\ ~Ends(line) => Size(line) = text.lines[line].len
  BY <1>1, LineFacts
<1> DEFINE len == text.lines[line].len
           size == Size(line)
           room == CONFIG_FILE_LINELEN - 1
<1> HIDE DEF len, size, room
<1>3. len \in Int /\ size \in Int /\ room \in Int
      /\ (Fits(line) <=> len < room)
  BY <1>1, <1>2 DEF Fits, len, size, room
<1>4. CASE Ends(line)
  <2>1. size = len + 1
    BY <1>2, <1>4 DEF size, len
  <2>2. /\ size <= room => len < room
        /\ size < room => len < room
        /\ at + room < size => ~(len < room)
    BY <1>1, <1>3, <2>1
  <2>3. /\ at = 0 /\ size <= room /\ Ends(line) => Fits(line)
        /\ at = 0 /\ size < room => Fits(line)
        /\ at + room < size => ~Fits(line)
        /\ ~Ends(line) /\ at = 0 /\ ~(size < room) => ~Fits(line)
    BY <1>3, <1>4, <2>2
  <2> QED BY <2>3 DEF size, room
<1>5. CASE ~Ends(line)
  <2>1. size = len
    BY <1>2, <1>5 DEF size, len
  <2>2. at + room < size => ~(len < room)
    BY <1>1, <1>3, <2>1
  <2>3. /\ at = 0 /\ size <= room /\ Ends(line) => Fits(line)
        /\ at = 0 /\ size < room => Fits(line)
        /\ at + room < size => ~Fits(line)
        /\ ~Ends(line) /\ at = 0 /\ ~(size < room) => ~Fits(line)
    BY <1>3, <1>5, <2>1, <2>2
  <2> QED BY <2>3 DEF size, room
<1> QED BY <1>4, <1>5

LEMMA ReaderStep ==
  ASSUME TypeOK, Reader, WholeLines, [Next]_vars
  PROVE  Reader' /\ WholeLines'
<1>0. /\ UNCHANGED given /\ Lines' = Lines
      /\ \A i : /\ Ends(i)' = Ends(i) /\ Size(i)' = Size(i)
                /\ Fits(i)' = Fits(i)
  BY FileKept
<1>types. line \in Nat /\ at \in Nat /\ line >= 1
  BY DEF TypeOK
<1>1. CASE process_cmdline \/ CmdlineDone \/ OpenFile
  BY <1>0, <1>1 DEF process_cmdline, CmdlineDone, OpenFile, Goto, Reader,
     WholeLines, position
<1>2. CASE log_start
  <2>1. global_options' ["configfilename"] = global_options["configfilename"]
    BY <1>2 DEF log_start, TypeOK
  <2> QED BY <1>0, <1>2, <2>1 DEF log_start, Goto, Reader, WholeLines, position
<1>3. CASE ReadLine \/ SkipChunk
  <2>1. fgets /\ UNCHANGED <<text, failed, global_options>>
    BY <1>0, <1>3 DEF ReadLine, SkipChunk, given
  <2>2. CASE NoMore /\ ReadLine
    <3>1. pc' = "done" /\ UNCHANGED <<line, at, chunk>>
      BY <2>1, <2>2 DEF ReadLine, Goto, fgets
    <3>2. NoMore'
      BY <1>0, <2>1, <2>2, <3>1 DEF NoMore, given
    <3> QED BY <2>2, <3>1, <3>2 DEF Reader, WholeLines, ReadLine
  <2>3. CASE NoMore /\ SkipChunk
    <3>1. ~HasNewline(chunk) /\ UNCHANGED <<line, at, chunk>> /\ pc = "skip"
      BY <1>types, <2>1, <2>3 DEF Reader, HasNewline, fgets, SkipChunk
    <3>2. ~HasNewline(chunk')
      BY <1>0, <3>1 DEF HasNewline
    <3>3. CASE failed
      <4>1. ~eof' /\ pc' = "skip"
        BY <2>1, <2>3, <3>1, <3>2, <3>3 DEF fgets, SkipChunk, Goto, Reader
      <4> QED BY <1>0, <3>1, <4>1 DEF Reader, WholeLines
    <3>4. CASE ~failed
      <4>1. eof' /\ pc' = "fgets"
        BY <2>1, <2>3, <3>4 DEF fgets, SkipChunk, Goto
      <4>2. at = 0
        BY <1>types, <2>3, <3>1, <3>4 DEF Reader, NoMore, Lines, TypeOK
      <4> QED BY <3>1, <4>1, <4>2 DEF Reader, WholeLines
    <3> QED BY <3>3, <3>4
  <2>4. CASE ~NoMore /\ Rest
    <3>1. /\ line' = line + 1 /\ at' = 0 /\ chunk'.line = line
          /\ chunk'.from = at /\ chunk'.to = Size(line)
      BY <2>4 DEF Rest
    <3>2. HasNewline(chunk') <=> Ends(line)
      BY <1>0, <3>1 DEF HasNewline
    <3>3. Ends(line) => ~eof'
      BY <2>4 DEF Rest
    <3>4. CASE ReadLine /\ (Ends(line) \/ eof')
      <4>1. pc' = "line" /\ at = 0
        BY <1>types, <2>4, <3>2, <3>4 DEF ReadLine, Goto, Reader
      <4>2. Size(line) \in Int /\ CONFIG_FILE_LINELEN \in Int
        BY <2>4, Position, LineFacts, BufferAssumption
      <4>3. Fits(line)
        <5>1. CASE Ends(line)
          BY <2>4, <4>1, <4>2, <5>1, Fitting DEF Rest
        <5>2. CASE ~Ends(line)
          <6>1. Size(line) - at < CONFIG_FILE_LINELEN - 1
            BY <2>4, <3>4, <5>2 DEF Rest
          <6>2. Size(line) < CONFIG_FILE_LINELEN - 1
            BY <4>1, <4>2, <6>1
          <6> QED BY <2>4, <4>1, <6>2, Fitting
        <5> QED BY <5>1, <5>2
      <4>4. WholeLines'
        BY <2>1, <3>1, <4>1, <4>3 DEF WholeLines, Size, Ends, Fits
      <4>5. line' > 1 /\ chunk'.line = line' - 1
        BY <1>types, <3>1
      <4> QED BY <3>1, <4>1, <4>4, <4>5 DEF Reader
    <3>5. CASE ~Ends(line) /\ ~eof'
      <4>1. pc' = "skip"
        BY <1>3, <2>4, <3>2, <3>5 DEF ReadLine, SkipChunk, Goto
      <4>2. line' - 1 = line /\ line' > 1
        BY <1>types, <3>1
      <4>3. ~Ends(line' - 1)
        BY <3>5, <4>2
      <4>4. ~Ends(line - 1)'
        BY <2>1, <4>3 DEF Ends
      <4> QED BY <3>1, <3>5, <4>1, <4>2, <4>4 DEF Reader, WholeLines
    <3>6. CASE SkipChunk /\ (Ends(line) \/ eof')
      <4>1. pc' = "fgets"
        BY <3>2, <3>6 DEF SkipChunk, Goto
      <4> QED BY <3>1, <4>1 DEF Reader, WholeLines
    <3> QED BY <1>3, <3>4, <3>5, <3>6
  <2>5. CASE ~NoMore /\ Part
    <3>1. /\ line' = line /\ at' > 0 /\ chunk'.line = line /\ chunk'.to = at'
          /\ at' < Size(line) /\ ~eof'
      BY <1>types, <2>5, BufferAssumption DEF Part
    <3>2. line \in Lines /\ Size(line) \in Nat /\ at' \in Nat
      BY <1>types, <2>5, Position, LineFacts, BufferAssumption DEF Part
    <3>3. ~HasNewline(chunk')
      BY <1>0, <3>1, <3>2 DEF HasNewline
    <3>4. pc' = "skip"
      BY <1>3, <2>5, <3>1, <3>3 DEF ReadLine, SkipChunk, Goto
    <3>5. ~Fits(line)
      BY <2>5, Fitting DEF Part
    <3> QED BY <1>0, <3>1, <3>2, <3>4, <3>5 DEF Reader, WholeLines
  <2> QED BY <1>3, <2>1, <2>2, <2>3, <2>4, <2>5, FgetsReads
<1>4. CASE ParseLine
  BY <1>0, <1>4 DEF ParseLine, Goto, Reader, WholeLines, position
<1>5. CASE ReadFails
  BY <1>0, <1>5 DEF ReadFails, Reader, WholeLines, position
<1>6. CASE UNCHANGED vars
  BY <1>0, <1>6 DEF vars, Reader, WholeLines, position, given, NoMore
<1> QED BY <1>1, <1>2, <1>3, <1>4, <1>5, <1>6 DEF Next, Step
-----------------------------------------------------------------------------
(* The last setting wins.                                                   *)

LEMMA ArgumentExtends ==
  ASSUME NEW o, NEW n \in Nat, NEW v, FromCmdline(o, n, v), ~ArgSets(n + 1, o)
  PROVE  FromCmdline(o, n + 1, v)
<1>1. \A j : j \in 1..(n + 1) <=> j \in 1..n \/ j = n + 1
  OBVIOUS
<1>2. CASE \E i \in 1..n : /\ ArgSets(i, o) /\ v = ArgValue(args[i], o)
                           /\ \A j \in (i + 1)..n : ~ArgSets(j, o)
  <2>1. PICK i \in 1..n : /\ ArgSets(i, o) /\ v = ArgValue(args[i], o)
                          /\ \A j \in (i + 1)..n : ~ArgSets(j, o)
    BY <1>2
  <2>2. \A j \in (i + 1)..(n + 1) : j \in (i + 1)..n \/ j = n + 1
    OBVIOUS
  <2>3. \A j \in (i + 1)..(n + 1) : ~ArgSets(j, o)
    BY <2>1, <2>2
  <2> QED BY <1>1, <2>1, <2>3 DEF FromCmdline
<1>3. CASE (\A i \in 1..n : ~ArgSets(i, o)) /\ v = Defaults[o]
  BY <1>1, <1>3 DEF FromCmdline
<1> QED BY <1>2, <1>3 DEF FromCmdline

LEMMA ArgumentOverrides ==
  ASSUME NEW o, NEW n \in Nat, ArgSets(n + 1, o)
  PROVE  FromCmdline(o, n + 1, ArgValue(args[n + 1], o))
<1>1. n + 1 \in 1..(n + 1)
  OBVIOUS
<1>2. \A j \in ((n + 1) + 1)..(n + 1) : ~ArgSets(j, o)
  OBVIOUS
<1> QED BY <1>1, <1>2 DEF FromCmdline

LEMMA LineExtends ==
  ASSUME NEW o, NEW n \in Nat, NEW v, FromFile(o, n, v), ~Counts(n + 1, o)
  PROVE  FromFile(o, n + 1, v)
<1>1. \A j : j \in 1..(n + 1) <=> j \in 1..n \/ j = n + 1
  OBVIOUS
<1>2. CASE \E i \in 1..n : /\ Counts(i, o) /\ v = LineValue(text.lines[i], o)
                           /\ \A j \in (i + 1)..n : ~Counts(j, o)
  <2>1. PICK i \in 1..n : /\ Counts(i, o) /\ v = LineValue(text.lines[i], o)
                          /\ \A j \in (i + 1)..n : ~Counts(j, o)
    BY <1>2
  <2>2. \A j \in (i + 1)..(n + 1) : j \in (i + 1)..n \/ j = n + 1
    OBVIOUS
  <2>3. \A j \in (i + 1)..(n + 1) : ~Counts(j, o)
    BY <2>1, <2>2
  <2> QED BY <1>1, <2>1, <2>3 DEF FromFile
<1>3. CASE (\A i \in 1..n : ~Counts(i, o)) /\ BeforeFile(o, v)
  BY <1>1, <1>3 DEF FromFile
<1> QED BY <1>2, <1>3 DEF FromFile

LEMMA LineOverrides ==
  ASSUME NEW o, NEW n \in Nat, Counts(n + 1, o)
  PROVE  FromFile(o, n + 1, LineValue(text.lines[n + 1], o))
<1>1. n + 1 \in 1..(n + 1)
  OBVIOUS
<1>2. \A j \in ((n + 1) + 1)..(n + 1) : ~Counts(j, o)
  OBVIOUS
<1> QED BY <1>1, <1>2 DEF FromFile

\* What the arguments mean does not change.
LEMMA ArgumentsKept ==
  ASSUME UNCHANGED given
  PROVE  /\ \A o, n, v : FromCmdline(o, n, v)' <=> FromCmdline(o, n, v)
         /\ \A n : Foreground(n)' <=> Foreground(n)
         /\ \A o, v : BeforeFile(o, v)' <=> BeforeFile(o, v)
<1>1. args' = args
  BY DEF given
<1>2. \A i, o : ArgSets(i, o)' <=> ArgSets(i, o)
  BY <1>1 DEF ArgSets
<1>3. \A o, n, v : FromCmdline(o, n, v)' <=> FromCmdline(o, n, v)
  BY <1>1, <1>2 DEF FromCmdline
<1>4. \A n : Foreground(n)' <=> Foreground(n)
  BY <1>1 DEF Foreground
<1> QED BY <1>1, <1>2, <1>3, <1>4 DEF BeforeFile, FromCmdline, Foreground

\* What the lines mean changes only with -o.
LEMMA MeaningKept ==
  ASSUME UNCHANGED given,
         global_options'["checkcfg"] = global_options["checkcfg"]
  PROVE  \A o, n, v : FromFile(o, n, v)' <=> FromFile(o, n, v)
<1>1. text' = text
  BY DEF given
<1>2. \A o, v : BeforeFile(o, v)' <=> BeforeFile(o, v)
  BY ArgumentsKept
<1>3. \A x, o : (LineSets(x, o)' <=> LineSets(x, o))
                /\ LineValue(x, o)' = LineValue(x, o)
  BY DEF LineSets, Parses, LineValue
<1>4. \A i, o : Counts(i, o)' <=> Counts(i, o)
  BY <1>1, <1>3 DEF Counts, Fits, LineSets, Parses
<1>5. \A i, o : LineValue(text.lines[i], o)' = LineValue(text.lines[i], o)
  BY <1>1 DEF LineValue
<1> QED BY <1>1, <1>2, <1>4, <1>5 DEF FromFile

LEMMA SetByFacts ==
  /\ \A l \in Letter : /\ "foregroundonly" \in SetBy[l] <=> l \in {"F", "o"}
                       /\ "portnum" \in SetBy[l] <=> l = "p"
                       /\ "maxchild" \in SetBy[l] <=> l = "m"
BY DEF SetBy, Letter

\* What the settings read so far make of the options.
CountedLines == IF pc = "line" THEN line - 2 ELSE line - 1
Settings ==
  /\ pc = "cmdline" =>
       /\ \A o \in Option : FromCmdline(o, arg - 1, global_options[o])
       /\ global_options["foregroundonly"] = True <=> Foreground(arg - 1)
  /\ pc = "log_start" =>
       /\ \A o \in Option : FromCmdline(o, Len(args), global_options[o])
       /\ global_options["foregroundonly"] = True <=> Foreground(Len(args))
  /\ pc \in {"open", "fgets", "skip", "line"} =>
       /\ global_options["configfilename"] # 0
       /\ \A o \in Option : FromFile(o, CountedLines, global_options[o])
  /\ pc = "done" => \A o \in Option :
       IF global_options["configfilename"] = 0
         THEN BeforeFile(o, global_options[o])
         ELSE FromFile(o, line - 1, global_options[o])

LEMMA SettingsInit == Init => Settings
<1> SUFFICES ASSUME Init PROVE Settings
  OBVIOUS
<1>1. arg - 1 = 0 /\ pc = "cmdline" /\ global_options = Defaults
  BY DEF Init
<1>2. \A o : FromCmdline(o, 0, Defaults[o])
  BY DEF FromCmdline
<1>3. ~Foreground(0)
  BY DEF Foreground
<1>4. Defaults["foregroundonly"] # True
  BY DEF Defaults, Option, Booleans, True
<1> QED BY <1>1, <1>2, <1>3, <1>4 DEF Settings

\* The command line and the log.
LEMMA CmdlineSettings ==
  ASSUME TypeOK, Reader, Settings, process_cmdline \/ CmdlineDone \/ log_start
  PROVE  Settings'
<1>0. UNCHANGED given
  BY DEF process_cmdline, CmdlineDone, log_start
<1>1. args' = args
  BY <1>0 DEF given
<1>2. /\ \A o, n, v : FromCmdline(o, n, v)' <=> FromCmdline(o, n, v)
      /\ \A n : Foreground(n)' <=> Foreground(n)
      /\ \A o, v : BeforeFile(o, v)' <=> BeforeFile(o, v)
  BY <1>0, ArgumentsKept
<1>3. CASE process_cmdline
  <2>0. PICK n \in Nat : n = arg - 1
    BY <1>3 DEF process_cmdline, TypeOK
  <2> DEFINE x == args[arg]
             ignored == x.opt = "l" /\ global_options["foregroundonly"] = True
  <2>1. n \in Nat /\ arg = n + 1 /\ arg' - 1 = n + 1 /\ pc = "cmdline" /\ pc' = "cmdline"
    BY <1>3, <2>0 DEF process_cmdline, TypeOK
  <2>2. x.opt \in Letter
    <3>1. args \in Seq(Argument) /\ arg \in 1..Len(args)
      BY <1>3 DEF process_cmdline, TypeOK, Argument
    <3>2. x \in Argument
      BY <3>1, ElementOfSeq
    <3> QED BY <3>2 DEF Argument
  <2>3. global_options' = [o \in Option |->
          IF o \in SetBy[x.opt] /\ ~ignored THEN ArgValue(x, o)
          ELSE global_options[o]]
    BY <1>3 DEF process_cmdline
  <2>4. /\ \A o \in Option : FromCmdline(o, n, global_options[o])
        /\ global_options["foregroundonly"] = True <=> Foreground(n)
    BY <2>0, <2>1 DEF Settings
  <2>5. ignored <=> x.opt = "l" /\ \E j \in 1..n : args[j].opt \in {"F", "o"}
    BY <2>4 DEF Foreground
  <2>6. \A o : ArgSets(n + 1, o) <=> o \in SetBy[x.opt] /\ ~ignored
    <3>1. (n + 1) - 1 = n /\ args[n + 1] = x
      BY <2>1
    <3> HIDE DEF x
    <3> QED BY <2>5, <3>1 DEF ArgSets
  <2> HIDE DEF ignored
  <2>7. ASSUME NEW o \in Option
        PROVE  FromCmdline(o, n + 1, global_options'[o])
    <3>1. CASE ArgSets(n + 1, o)
      <4>1. global_options'[o] = ArgValue(args[n + 1], o)
        BY <2>1, <2>3, <2>6, <3>1
      <4> QED BY <2>1, <3>1, <4>1, ArgumentOverrides
    <3>2. CASE ~ArgSets(n + 1, o)
      <4>1. global_options'[o] = global_options[o]
        BY <2>3, <2>6, <3>2
      <4> QED BY <2>1, <2>4, <3>2, <4>1, ArgumentExtends
    <3> QED BY <3>1, <3>2
  <2>8. global_options'["foregroundonly"] = True <=> Foreground(n + 1)
    <3>1. "foregroundonly" \in Option
      BY DEF Option, Booleans
    <3>2. Foreground(n + 1) <=> (Foreground(n) \/ x.opt \in {"F", "o"})
      <4>1. \A j : j \in 1..(n + 1) <=> j \in 1..n \/ j = n + 1
        BY <2>1
      <4> QED BY <2>1, <4>1 DEF Foreground
    <3>3. CASE x.opt \in {"F", "o"}
      <4>1. ~ignored /\ "foregroundonly" \in SetBy[x.opt]
        BY <2>2, <3>3, SetByFacts DEF ignored
      <4>2. global_options'["foregroundonly"] = ArgValue(x, "foregroundonly")
        BY <2>3, <3>1, <4>1
      <4>3. ArgValue(x, "foregroundonly") = True
        BY DEF ArgValue, Names
      <4> QED BY <3>2, <3>3, <4>2, <4>3
    <3>4. CASE x.opt \notin {"F", "o"}
      <4>1. "foregroundonly" \notin SetBy[x.opt]
        BY <2>2, <3>4, SetByFacts
      <4>2. global_options'["foregroundonly"] = global_options["foregroundonly"]
        BY <2>3, <3>1, <4>1
      <4> QED BY <2>4, <3>2, <3>4, <4>2
    <3> QED BY <3>3, <3>4
  <2>9. /\ \A o \in Option : FromCmdline(o, arg - 1, global_options[o])'
        /\ (global_options["foregroundonly"] = True <=> Foreground(arg - 1))'
    <3>1. \A o \in Option : FromCmdline(o, n + 1, global_options[o])'
      BY <1>1, <2>7 DEF FromCmdline, ArgSets
    <3>2. (global_options["foregroundonly"] = True <=> Foreground(n + 1))'
      BY <1>1, <2>8 DEF Foreground
    <3> QED BY <2>1, <3>1, <3>2
  <2> QED BY <2>1, <2>9 DEF Settings
<1>4. CASE CmdlineDone
  <2>1. arg - 1 = Len(args) /\ pc = "cmdline" /\ pc' \in {"usage", "log_start"}
    BY <1>4 DEF CmdlineDone, Goto, TypeOK
  <2>2. UNCHANGED <<args, global_options>>
    BY <1>1, <1>4 DEF CmdlineDone
  <2>3. /\ \A o \in Option : FromCmdline(o, Len(args), global_options[o])
        /\ global_options["foregroundonly"] = True <=> Foreground(Len(args))
    BY <2>1 DEF Settings
  <2>4. /\ \A o \in Option : FromCmdline(o, Len(args), global_options[o])'
        /\ (global_options["foregroundonly"] = True
              <=> Foreground(Len(args)))'
    BY <2>2, <2>3 DEF FromCmdline, ArgSets, Foreground
  <2> QED BY <2>1, <2>4 DEF Settings
<1>5. CASE log_start
  <2>1. pc = "log_start" /\ line = 1 /\ line' = 1
    BY <1>5 DEF log_start, Reader, position
  <2>2. /\ \A o \in Option : FromCmdline(o, Len(args), global_options[o])
        /\ global_options["foregroundonly"] = True <=> Foreground(Len(args))
    BY <2>1 DEF Settings
  <2>3. ASSUME NEW o \in Option
        PROVE  BeforeFile(o, global_options'[o])
    BY <1>5, <2>2 DEF log_start, BeforeFile, TypeOK
  <2>4. global_options'["configfilename"] = global_options["configfilename"]
    BY <1>5 DEF log_start, TypeOK
  <2>5. \A o \in Option : BeforeFile(o, global_options[o])'
    BY <1>1, <2>3 DEF BeforeFile, FromCmdline, ArgSets, Foreground
  <2>6. CASE global_options["configfilename"] = 0
    BY <1>5, <2>4, <2>5, <2>6 DEF log_start, Goto, Settings
  <2>7. CASE global_options["configfilename"] # 0
    <3>1. pc' = "open" /\ CountedLines' = 0
      BY <1>5, <2>1, <2>7 DEF log_start, Goto, CountedLines
    <3>2. \A o \in Option : FromFile(o, 0, global_options[o])'
      BY <2>5 DEF FromFile
    <3> QED BY <2>4, <2>7, <3>1, <3>2 DEF Settings
  <2> QED BY <2>6, <2>7
<1> QED BY <1>3, <1>4, <1>5

\* Reading the file: a line counts when it is parsed, one that is too long
\* when its last part is read.
LEMMA FileSettings ==
  ASSUME TypeOK, Reader, WholeLines, Settings,
         OpenFile \/ ReadLine \/ SkipChunk \/ ParseLine \/ ReadFails
  PROVE  Settings'
<1>0. UNCHANGED given
  BY DEF OpenFile, ReadLine, SkipChunk, ParseLine, ReadFails
<1>types. line \in Nat /\ line >= 1 /\ at \in Nat
  BY DEF TypeOK
<1>1. /\ global_options["configfilename"] # 0
      /\ \A o \in Option : FromFile(o, CountedLines, global_options[o])
  BY DEF Settings, OpenFile, ReadLine, SkipChunk, ParseLine, ReadFails
\* The options stay as they are: what counts is that the new lines do not.
<1>2. ASSUME NEW n, UNCHANGED global_options, n = CountedLines',
             pc' \in {"fgets", "skip", "line", "done", "open"},
             pc' = "done" => n = line' - 1,
             \A o \in Option : FromFile(o, n, global_options[o])
      PROVE  Settings'
  <2>1. \A o \in Option : FromFile(o, n, global_options[o])'
    BY <1>0, <1>2, MeaningKept
  <2>2. (global_options["configfilename"] # 0)'
    BY <1>1, <1>2
  <2> QED BY <1>2, <2>1, <2>2 DEF Settings
<1>3. CASE OpenFile
  <2>1. CASE pc' = "panic"
    BY <2>1 DEF Settings
  <2>2. CASE pc' = "fgets"
    BY <1>1, <1>2, <1>3, <2>2 DEF OpenFile, CountedLines, position
  <2> QED BY <1>3, <2>1, <2>2 DEF OpenFile, Goto
<1>4. CASE ReadLine \/ SkipChunk
  <2>1. /\ fgets /\ UNCHANGED global_options
        /\ pc \in {"fgets", "skip"} /\ pc' \in {"fgets", "skip", "line", "done"}
    BY <1>4 DEF ReadLine, SkipChunk, Goto
  <2>2. \A o \in Option : FromFile(o, line - 1, global_options[o])
    BY <1>1, <2>1 DEF CountedLines
  <2>3. CASE NoMore
    <3>1. line' = line /\ pc' # "line"
      <4>1. line' = line /\ chunk' = chunk
        BY <2>1, <2>3 DEF fgets
      <4>2. ReadLine => pc' = "done"
        BY <2>3 DEF ReadLine, Goto
      <4>3. SkipChunk => pc' # "line"
        BY DEF SkipChunk, Goto
      <4> QED BY <1>4, <4>1, <4>2, <4>3
    <3>2. line - 1 = CountedLines'
      BY <3>1 DEF CountedLines
    <3> QED BY <1>2, <2>1, <2>2, <3>1, <3>2
  <2>4. CASE ~NoMore /\ Part
    <3>1. line' = line /\ ~eof'
      BY <2>4 DEF Part
    <3>2. line \in Lines /\ Size(line) \in Nat
      BY <2>4, Position, LineFacts
    <3>3. ~HasNewline(chunk')
      <4>2. chunk'.line = line /\ chunk'.to < Size(line)
        BY <2>4 DEF Part
      <4> QED BY <3>2, <4>2 DEF HasNewline, Part
    <3>4. pc' = "skip"
      BY <1>4, <2>4, <3>1, <3>3 DEF ReadLine, SkipChunk, Goto
    <3>5. line - 1 = CountedLines'
      BY <3>1, <3>4 DEF CountedLines
    <3> QED BY <1>2, <2>1, <2>2, <3>4, <3>5
  <2>5. CASE ~NoMore /\ Rest
    <3>1. /\ line' = line + 1 /\ chunk'.line = line /\ chunk'.to = Size(line)
      BY <2>5 DEF Rest
    <3>2. CASE pc' = "line"
      <4>1. line - 1 = CountedLines'
        BY <1>types, <3>1, <3>2 DEF CountedLines
      <4> QED BY <1>2, <2>1, <2>2, <3>2, <4>1
    <3>3. CASE pc' # "line"
      <4>1. HasNewline(chunk') <=> Ends(line)
        BY <3>1 DEF HasNewline
      <4>2. ~Fits(line)
        <5>1. CASE pc = "skip" /\ at > 0
          BY <5>1 DEF Reader
        <5>2. CASE pc = "skip" /\ at = 0
          <6>1. line - 1 \in Lines /\ ~Ends(line - 1) /\ line <= Len(text.lines)
            BY <1>types, <2>5, <5>2 DEF Reader, NoMore, Lines, TypeOK
          <6> QED BY <1>types, <6>1 DEF Ends, Lines, TypeOK
        <5>3. CASE pc = "fgets"
          <6>1. at = 0
            BY <1>types, <5>3 DEF Reader
          <6>2. ~Ends(line) /\ ~eof'
            BY <1>4, <2>5, <3>3, <4>1, <5>3 DEF ReadLine, SkipChunk, Goto
          <6>3. Size(line) - at = Size(line)
            BY <2>5, <6>1, Position, LineFacts
          <6>4. ~(Size(line) < CONFIG_FILE_LINELEN - 1)
            BY <2>5, <6>2, <6>3 DEF Rest
          <6> QED BY <2>5, <6>1, <6>2, <6>4, Fitting
        <5> QED BY <1>types, <2>1, <5>1, <5>2, <5>3
      <4> DEFINE n == line - 1
      <4>3. n \in Nat /\ line = n + 1
        BY <1>types
      <4>4. \A o \in Option : FromFile(o, n, global_options[o])
        BY <2>2
      <4> HIDE DEF n
      <4>5. \A o \in Option : ~Counts(n + 1, o)
        BY <4>2, <4>3 DEF Counts
      <4>6. \A o \in Option : FromFile(o, n + 1, global_options[o])
        BY <4>3, <4>4, <4>5, LineExtends
      <4>7. n + 1 = CountedLines' /\ n + 1 = line' - 1
        BY <3>1, <3>3, <4>3 DEF CountedLines
      <4> QED BY <1>2, <2>1, <4>6, <4>7
    <3> QED BY <3>2, <3>3
  <2> QED BY <2>1, <2>3, <2>4, <2>5, FgetsReads
<1>5. CASE ParseLine
  <2>0. PICK n \in Nat : n = line - 2
    BY <1>types, <1>5 DEF ParseLine, Reader
  <2> DEFINE x == text.lines[chunk.line]
  <2>1. pc = "line" /\ pc' = "fgets" /\ line' = line
    BY <1>5 DEF ParseLine, Goto, position
  <2>2. line > 1 /\ chunk.line = line - 1
    BY <2>1 DEF Reader
  <2>3. n \in Nat /\ chunk.line = n + 1
    BY <1>types, <2>0, <2>2
  <2>4. \A o \in Option : FromFile(o, n, global_options[o])
    BY <1>1, <2>0, <2>1 DEF CountedLines
  <2>5. CountedLines' = n + 1
    BY <1>types, <2>0, <2>1 DEF CountedLines
  <2>6. Fits(n + 1)
    BY <2>1, <2>3 DEF WholeLines
  <2>7. n + 1 \in Lines
    BY <1>types, <2>2, <2>3 DEF Lines, TypeOK
  <2>8. x \in Line
    BY <2>3, <2>7, LineFacts
  <2>9. x = text.lines[n + 1]
    BY <2>3
  <2>10. \A o \in Option : global_options'[o] =
           IF LineSets(x, o) THEN LineValue(x, o) ELSE global_options[o]
    BY <1>5 DEF ParseLine
  <2> HIDE DEF x
  <2>11. ASSUME NEW o \in Option
         PROVE  FromFile(o, n + 1, global_options'[o])
    <3>1. CASE LineSets(x, o)
      BY <2>3, <2>6, <2>9, <2>10, <3>1, LineOverrides DEF Counts
    <3>2. CASE ~LineSets(x, o)
      <4>1. ~Counts(n + 1, o)
        BY <2>9, <3>2 DEF Counts
      <4>2. global_options'[o] = global_options[o]
        BY <2>10, <3>2
      <4> QED BY <2>3, <2>4, <4>1, <4>2, LineExtends
    <3> QED BY <3>1, <3>2
  <2>12. /\ global_options'["checkcfg"] = global_options["checkcfg"]
         /\ global_options'["configfilename"] = global_options["configfilename"]
    <3>1. "checkcfg" \in Option /\ "configfilename" \in Option
      BY DEF Option, Names
    <3>2. ~LineSets(x, "checkcfg") /\ ~LineSets(x, "configfilename")
      BY <2>8, <3>1, LineType
    <3> QED BY <2>10, <3>1, <3>2
  <2>13. \A o \in Option : FromFile(o, n + 1, global_options[o])'
    <3> DEFINE g == global_options'
    <3>1. \A o \in Option : FromFile(o, n + 1, g[o])
      BY <2>11
    <3>2. \A o, m, v : FromFile(o, m, v)' <=> FromFile(o, m, v)
      BY <1>0, <2>12, MeaningKept
    <3> QED BY <3>1, <3>2
  <2>14. (global_options["configfilename"] # 0)'
    BY <1>1, <2>12
  <2> QED BY <2>1, <2>5, <2>13, <2>14 DEF Settings
<1>6. CASE ReadFails
  BY <1>1, <1>2, <1>6 DEF ReadFails, CountedLines, position
<1> QED BY <1>3, <1>4, <1>5, <1>6

LEMMA SettingsStep ==
  ASSUME TypeOK, Reader, WholeLines, Settings, [Next]_vars
  PROVE  Settings'
<1>1. CASE process_cmdline \/ CmdlineDone \/ log_start
  BY <1>1, CmdlineSettings
<1>2. CASE OpenFile \/ ReadLine \/ SkipChunk \/ ParseLine \/ ReadFails
  BY <1>2, FileSettings
<1>3. CASE UNCHANGED vars
  <2>1. UNCHANGED <<pc, given, arg, global_options, line>>
    BY <1>3 DEF vars, position
  <2>2. UNCHANGED given
    BY <2>1
  <2>3. args' = args
    BY <2>2 DEF given
  <2>4. /\ \A o, n, v : FromCmdline(o, n, v)' <=> FromCmdline(o, n, v)
        /\ \A n : Foreground(n)' <=> Foreground(n)
        /\ \A o, v : BeforeFile(o, v)' <=> BeforeFile(o, v)
        /\ \A o, n, v : FromFile(o, n, v)' <=> FromFile(o, n, v)
    BY <2>1, <2>2, ArgumentsKept, MeaningKept
  <2>5. CountedLines' = CountedLines
    BY <2>1 DEF CountedLines
  <2> QED BY <2>1, <2>3, <2>4, <2>5 DEF Settings
<1> QED BY <1>1, <1>2, <1>3 DEF Next, Step
-----------------------------------------------------------------------------
(* Ranges.                                                                  *)

LEMMA RangesInit == Init => RangesKept
<1>1. 80 \in 1..MaxPort
  BY DEF MaxPort
<1>2. /\ Defaults["loglevel"] = 1 /\ Defaults["portnum"] = 80
      /\ Defaults["maxchild"] = 3
  BY DEF Defaults, Option
<1>3. 3 \in 1..ABSOLUTE_MAX_CHILDREN
  BY IntAssumption
<1> QED BY <1>1, <1>2, <1>3 DEF Init, RangesKept, MIN_LOGLEVEL, MAX_LOGLEVEL

LEMMA RangesStep ==
  ASSUME TypeOK, Reader, RangesKept, [Next]_vars
  PROVE  RangesKept'
<1>0. args' = args
  BY FileKept DEF given
<1>1. \A letter, v : FromArg(letter, v)' <=> FromArg(letter, v)
  BY <1>0 DEF FromArg
<1>2. "loglevel" \in Option /\ "portnum" \in Option /\ "maxchild" \in Option
  BY DEF Option
<1>3. ASSUME /\ global_options'["loglevel"] = global_options["loglevel"]
             /\ global_options'["portnum"] = global_options["portnum"]
             /\ global_options'["maxchild"] = global_options["maxchild"]
      PROVE  RangesKept'
  BY <1>1, <1>3 DEF RangesKept
<1>4. CASE process_cmdline
  <2> DEFINE x == args[arg]
             ignored == x.opt = "l" /\ global_options["foregroundonly"] = True
             set(o) == o \in SetBy[x.opt] /\ ~ignored
  <2>1. args \in Seq(Argument) /\ arg \in 1..Len(args)
    BY <1>4 DEF process_cmdline, TypeOK, Argument
  <2>2. x \in Argument
    BY <2>1, ElementOfSeq
  <2>3. \A o \in Option : global_options'[o] =
          IF set(o) THEN ArgValue(x, o) ELSE global_options[o]
    BY <1>4 DEF process_cmdline
  <2>4. x.opt \in Letter /\ Unsigned(x.n) \in Int
    BY <2>2, IntFacts DEF Argument
  <2>5. \A letter : x.opt = letter => FromArg(letter, Unsigned(x.n))
    BY <2>1 DEF FromArg
  <2>6. /\ ArgValue(x, "loglevel") \in MIN_LOGLEVEL..MAX_LOGLEVEL
        /\ ArgValue(x, "portnum") = Unsigned(x.n)
        /\ ArgValue(x, "maxchild") = Unsigned(x.n)
    <3> DEFINE level == Unsigned(x.n)
    <3> HIDE DEF level
    <3>1. ArgValue(x, "loglevel") =
            IF x.opt = "o" THEN MAX_LOGLEVEL
            ELSE IF level \in MIN_LOGLEVEL..MAX_LOGLEVEL THEN level
            ELSE MIN_LOGLEVEL
      BY DEF ArgValue, Names, level
    <3>2. ArgValue(x, "loglevel") \in MIN_LOGLEVEL..MAX_LOGLEVEL
      BY <3>1 DEF MIN_LOGLEVEL, MAX_LOGLEVEL
    <3>3. /\ ArgValue(x, "portnum") = Unsigned(x.n)
          /\ ArgValue(x, "maxchild") = Unsigned(x.n)
      BY DEF ArgValue, Names
    <3> QED BY <3>2, <3>3
  <2>7. (set("portnum") => x.opt = "p") /\ (set("maxchild") => x.opt = "m")
    BY <2>4, SetByFacts
  <2> HIDE DEF x, set
  <2>8. global_options'["loglevel"] \in MIN_LOGLEVEL..MAX_LOGLEVEL
    BY <1>2, <2>3, <2>6 DEF RangesKept
  <2>9. \/ global_options'["portnum"] \in 1..MaxPort
        \/ FromArg("p", global_options'["portnum"])
    BY <1>2, <2>3, <2>5, <2>6, <2>7 DEF RangesKept
  <2>10. \/ global_options'["maxchild"] \in 1..ABSOLUTE_MAX_CHILDREN
         \/ FromArg("m", global_options'["maxchild"])
    BY <1>2, <2>3, <2>5, <2>6, <2>7 DEF RangesKept
  <2> QED BY <1>0, <2>8, <2>9, <2>10 DEF RangesKept, FromArg
<1>5. CASE log_start
  BY <1>2, <1>3, <1>5 DEF log_start, TypeOK
<1>6. CASE ParseLine
  <2> DEFINE x == text.lines[chunk.line]
  <2>1. \A o \in Option : global_options'[o] =
          IF LineSets(x, o) THEN LineValue(x, o) ELSE global_options[o]
    BY <1>6 DEF ParseLine
  <2> HIDE DEF x
  <2>2. LineSets(x, "loglevel") =>
          LineValue(x, "loglevel") \in MIN_LOGLEVEL..MAX_LOGLEVEL
    BY DEF LineSets, LineValue, Parses, parseint, MIN_LOGLEVEL, MAX_LOGLEVEL,
       Booleans
  <2>3. LineSets(x, "portnum") => LineValue(x, "portnum") \in 1..MaxPort
    BY DEF LineSets, LineValue, Parses, parseint, Booleans
  <2>4. LineSets(x, "maxchild") =>
          LineValue(x, "maxchild") \in 1..ABSOLUTE_MAX_CHILDREN
    BY DEF LineSets, LineValue, Parses, parseint, Booleans
  <2>5. global_options'["loglevel"] \in MIN_LOGLEVEL..MAX_LOGLEVEL
    BY <1>2, <2>1, <2>2 DEF RangesKept
  <2>6. \/ global_options'["portnum"] \in 1..MaxPort
        \/ FromArg("p", global_options'["portnum"])
    BY <1>2, <2>1, <2>3 DEF RangesKept
  <2>7. \/ global_options'["maxchild"] \in 1..ABSOLUTE_MAX_CHILDREN
        \/ FromArg("m", global_options'["maxchild"])
    BY <1>2, <2>1, <2>4 DEF RangesKept
  <2> QED BY <1>0, <2>5, <2>6, <2>7 DEF RangesKept, FromArg
<1>7. CASE CmdlineDone \/ OpenFile \/ ReadLine \/ SkipChunk \/ ReadFails
           \/ UNCHANGED vars
  BY <1>3, <1>7 DEF CmdlineDone, OpenFile, ReadLine, SkipChunk, ReadFails, vars
<1> QED BY <1>4, <1>5, <1>6, <1>7 DEF Next, Step
-----------------------------------------------------------------------------
(* The theorems.                                                            *)

\* What holds of every state.
OInv == TypeOK /\ Reader /\ WholeLines /\ Settings /\ RangesKept

THEOREM Invariant == Spec => []OInv
<1>1. Init => OInv
  <2>1. Init => WholeLines
    BY DEF Init, WholeLines
  <2> QED BY <2>1, TypeInit, SettingsInit, RangesInit DEF OInv
<1>2. OInv /\ [Next]_vars => OInv'
  BY TypeStep, ReaderStep, SettingsStep, RangesStep DEF OInv
<1> QED BY <1>1, <1>2, PTL DEF Spec

\* The types of the variables of confdata.c hold of every command line and
\* every file.
THEOREM TypeCorrect == Spec => []TypeOK
<1>1. OInv => TypeOK
  BY DEF OInv
<1> QED BY <1>1, Invariant, PTL

\* process_configfile parses whole lines only, whatever the lengths of the
\* lines and the size of the buffer.
THEOREM LinesAreWhole == Spec => []WholeLines
<1>1. OInv => WholeLines
  BY DEF OInv
<1> QED BY <1>1, Invariant, PTL

\* The options are what the last setting that counts makes of them, for every
\* command line and every file.
THEOREM TheLastSettingWins == Spec => []LastSettingWins
<1>1. OInv => LastSettingWins
  <2> SUFFICES ASSUME OInv, pc = "done", NEW o \in Option,
                      global_options["configfilename"] # 0
               PROVE  FromFile(o, IF failed THEN line - 1 ELSE Len(text.lines),
                               global_options[o])
    BY DEF LastSettingWins, OInv, Settings
  <2>1. FromFile(o, line - 1, global_options[o])
    BY DEF OInv, Settings
  <2>2. ~failed => line - 1 = Len(text.lines)
    BY DEF OInv, Reader, NoMore, TypeOK
  <2> QED BY <2>1, <2>2
<1> QED BY <1>1, Invariant, PTL

\* No line of a configuration file puts an option out of its range, whatever
\* number it has.
THEOREM RangesAreKept == Spec => []RangesKept
<1>1. OInv => RangesKept
  BY DEF OInv
<1> QED BY <1>1, Invariant, PTL
-----------------------------------------------------------------------------
(* One value only.                                                          *)

\* No two values of an option are what the first n arguments and lines make
\* of it: LastSettingWins leaves no choice.
THEOREM OneValue ==
  ASSUME TypeOK, NEW o \in Option, NEW n \in 0..Len(text.lines), NEW v, NEW w,
         FromFile(o, n, v), FromFile(o, n, w)
  PROVE  v = w
<1>2. Len(args) \in Nat /\ Len(text.lines) \in Nat /\ n \in Nat
  BY DEF TypeOK
<1>3. ASSUME NEW x, NEW y, BeforeFile(o, x), BeforeFile(o, y)
      PROVE  x = y
  <2>1. ASSUME NEW i \in 1..Len(args), NEW k \in 1..Len(args),
               ArgSets(i, o), \A j \in (i + 1)..Len(args) : ~ArgSets(j, o),
               ArgSets(k, o), \A j \in (k + 1)..Len(args) : ~ArgSets(j, o)
        PROVE  i = k
    BY <1>2, <2>1
  <2> QED BY <1>3, <2>1 DEF BeforeFile, FromCmdline
<1>4. ASSUME NEW i \in 1..n, NEW k \in 1..n,
             Counts(i, o), \A j \in (i + 1)..n : ~Counts(j, o),
             Counts(k, o), \A j \in (k + 1)..n : ~Counts(j, o)
      PROVE  i = k
  BY <1>2, <1>4
<1> QED BY <1>3, <1>4 DEF FromFile
-----------------------------------------------------------------------------
(* Reading ends.                                                            *)

\* What is left to do, the weightiest first: a read that may yet fail, the
\* way to the end, arguments, lines, bytes of the line, and the way round the
\* loop.
Failures == IF failed THEN 0 ELSE 1
Way == CASE pc = "cmdline" -> 4 [] pc = "log_start" -> 3 [] pc = "open" -> 2
         [] pc \in {"fgets", "skip", "line"} -> 1 [] OTHER -> 0
ArgsLeft == Len(args) + 1 - arg
LinesLeft == Len(text.lines) + 1 - line
BytesLeft == IF line \in Lines THEN Size(line) - at ELSE 0
Turn == IF pc = "fgets" THEN 0 ELSE 1

LeftIsNatural ==
  /\ Failures \in Nat /\ Way \in Nat /\ ArgsLeft \in Nat
  /\ LinesLeft \in Nat /\ BytesLeft \in Nat /\ Turn \in Nat

\* The first of them that changes gets smaller.
Shrinks ==
  \/ Failures' < Failures
  \/ /\ Failures' = Failures
     /\ \/ Way' < Way
        \/ /\ Way' = Way
           /\ \/ ArgsLeft' < ArgsLeft
              \/ /\ ArgsLeft' = ArgsLeft
                 /\ \/ LinesLeft' < LinesLeft
                    \/ /\ LinesLeft' = LinesLeft
                       /\ \/ BytesLeft' < BytesLeft
                          \/ BytesLeft' = BytesLeft /\ Turn' < Turn

LEMMA NaturalsLeft == OInv => LeftIsNatural
<1> SUFFICES ASSUME TypeOK, Reader PROVE LeftIsNatural
  BY DEF OInv
<1>1. /\ Len(args) \in Nat /\ arg \in 1..(Len(args) + 1)
      /\ Len(text.lines) \in Nat /\ line \in 1..(Len(text.lines) + 1)
      /\ at \in Nat
      /\ at > 0 => at < Size(line)
  BY DEF TypeOK, Reader
<1>2. ArgsLeft \in Nat /\ LinesLeft \in Nat
  BY <1>1 DEF ArgsLeft, LinesLeft
<1>3. BytesLeft \in Nat
  <2>1. CASE line \in Lines
    <3>1. Size(line) \in Nat
      BY <2>1, LineFacts
    <3>2. BytesLeft = Size(line) - at
      BY <2>1 DEF BytesLeft
    <3> DEFINE size == Size(line)
    <3>3. size \in Nat /\ (at > 0 => at < size) /\ BytesLeft = size - at
      BY <1>1, <3>1, <3>2
    <3> HIDE DEF size
    <3> QED BY <1>1, <3>3
  <2>2. CASE line \notin Lines
    BY <2>2 DEF BytesLeft
  <2> QED BY <2>1, <2>2
<1> QED BY <1>2, <1>3 DEF LeftIsNatural, Failures, Way, Turn

LEMMA ShrinkStep == OInv /\ [Next]_vars => [Shrinks]_vars
<1> SUFFICES ASSUME TypeOK, Reader, [Next]_vars PROVE [Shrinks]_vars
  BY DEF OInv
<1>0. /\ UNCHANGED given /\ Lines' = Lines
      /\ \A i : Size(i)' = Size(i)
  BY FileKept
<1>1. /\ Len(args) \in Nat /\ arg \in Nat /\ line \in Nat /\ at \in Nat
      /\ Len(text.lines) \in Nat /\ args' = args /\ text' = text
  BY <1>0 DEF TypeOK, given
<1>2. CASE process_cmdline
  <2>1. Failures' = Failures /\ Way' = Way
    BY <1>2 DEF process_cmdline, Failures, Way
  <2>2. ArgsLeft' < ArgsLeft
    BY <1>1, <1>2 DEF process_cmdline, ArgsLeft
  <2> QED BY <2>1, <2>2 DEF Shrinks
<1>3. CASE CmdlineDone \/ log_start \/ OpenFile
  <2>1. Failures' = Failures /\ Way' < Way
    BY <1>3 DEF CmdlineDone, log_start, OpenFile, Goto, Failures, Way
  <2> QED BY <2>1 DEF Shrinks
<1>4. CASE ReadLine \/ SkipChunk
  <2>0. /\ fgets /\ UNCHANGED <<failed, arg, global_options>>
        /\ Failures' = Failures
        /\ ArgsLeft' = ArgsLeft /\ pc \in {"fgets", "skip"}
    BY <1>1, <1>4 DEF ReadLine, SkipChunk, Failures, ArgsLeft
  <2>1. CASE NoMore /\ ReadLine
    <3>1. Way' < Way
      BY <2>1 DEF ReadLine, Goto, Way
    <3> QED BY <2>0, <3>1 DEF Shrinks
  <2>2. CASE NoMore /\ SkipChunk
    <3>1. ~HasNewline(chunk) /\ UNCHANGED <<line, at, chunk>> /\ pc = "skip"
      BY <1>1, <2>0, <2>2 DEF Reader, HasNewline, fgets, SkipChunk
    <3>2. ~HasNewline(chunk')
      <4>1. HasNewline(chunk') <=> HasNewline(chunk)
        BY <3>1
      <4> QED BY <3>1, <4>1
    <3>5. /\ eof = FALSE /\ eof' = ~failed
          /\ pc' = IF eof' THEN "fgets" ELSE "skip"
      <4>1. eof = FALSE /\ eof' = ~failed
        <5>1. eof = FALSE
          BY <3>1 DEF Reader, TypeOK
        <5>2. eof' = (eof \/ ~failed)
          BY <2>0, <2>2 DEF fgets
        <5> QED BY <5>1, <5>2
      <4>2. pc' = IF HasNewline(chunk') \/ eof' THEN "fgets" ELSE "skip"
        BY <2>2 DEF SkipChunk, Goto
      <4> QED BY <3>2, <4>1, <4>2
    <3>3. CASE failed
      <4>1. eof' = eof /\ pc' = "skip"
        BY <3>5, <3>3
      <4> QED BY <1>0, <2>0, <3>1, <4>1 DEF vars, position
    <3>4. CASE ~failed
      <4>0. pc' = "fgets"
        BY <3>4, <3>5
      <4>1. Way' = Way /\ Turn' < Turn
        BY <3>1, <4>0 DEF Way, Turn
      <4>2. LinesLeft' = LinesLeft /\ BytesLeft' = BytesLeft
        BY <1>0, <1>1, <3>1 DEF LinesLeft, BytesLeft
      <4> QED BY <2>0, <4>1, <4>2 DEF Shrinks
    <3> QED BY <3>3, <3>4
  <2>3. CASE ~NoMore
    <3>1. Way' = Way
      BY <1>4, <2>3 DEF ReadLine, SkipChunk, Goto, Way
    <3>2. CASE Rest
      <4>1. LinesLeft' < LinesLeft
        <5>1. line' = line + 1 /\ Len(text.lines)' = Len(text.lines)
          BY <1>1, <3>2 DEF Rest
        <5> DEFINE n == Len(text.lines)
        <5>2. LinesLeft = n + 1 - line /\ LinesLeft' = n + 1 - (line + 1)
          BY <5>1 DEF LinesLeft
        <5>3. n \in Nat
          BY <1>1
        <5> HIDE DEF n
        <5> QED BY <1>1, <5>2, <5>3
      <4> QED BY <2>0, <3>1, <4>1 DEF Shrinks
    <3>3. CASE Part
      <4>1. /\ line \in Lines /\ Size(line) \in Nat
            /\ CONFIG_FILE_LINELEN - 1 \in Nat /\ CONFIG_FILE_LINELEN - 1 > 0
        BY <2>3, Position, LineFacts, BufferAssumption
      <4>2. line' = line /\ at' = at + (CONFIG_FILE_LINELEN - 1)
        BY <3>3 DEF Part
      <4>3. BytesLeft = Size(line) - at /\ BytesLeft' = Size(line) - at'
        BY <1>0, <4>1, <4>2 DEF BytesLeft
      <4>4. BytesLeft' < BytesLeft
        BY <1>1, <4>1, <4>2, <4>3
      <4>5. LinesLeft' = LinesLeft
        BY <1>1, <4>2 DEF LinesLeft
      <4> QED BY <2>0, <3>1, <4>4, <4>5 DEF Shrinks
    <3> QED BY <2>0, <2>3, <3>2, <3>3, FgetsReads
  <2> QED BY <1>4, <2>1, <2>2, <2>3
<1>5. CASE ParseLine
  <2>1. /\ Failures' = Failures /\ Way' = Way /\ ArgsLeft' = ArgsLeft
        /\ Turn' < Turn
    BY <1>1, <1>5 DEF ParseLine, Goto, Failures, Way, ArgsLeft, Turn
  <2>2. LinesLeft' = LinesLeft /\ BytesLeft' = BytesLeft
    BY <1>0, <1>1, <1>5 DEF ParseLine, position, LinesLeft, BytesLeft
  <2> QED BY <2>1, <2>2 DEF Shrinks
<1>6. CASE ReadFails
  BY <1>6 DEF ReadFails, Failures, Shrinks
<1> QED BY <1>2, <1>3, <1>4, <1>5, <1>6 DEF Next, Step

\* Every step that changes anything leaves less to do, in an order without
\* endless descent: process_cmdline and process_configfile cannot go round for
\* ever, whatever the file and the buffer, except by turns of the skip loop
\* that change nothing, with a read that fails in a line that is too long.
THEOREM ReadingShrinks == Spec => []LeftIsNatural /\ [][Shrinks]_vars
<1>1. OInv /\ [Next]_vars => [Shrinks]_vars
  BY ShrinkStep
<1> QED BY <1>1, NaturalsLeft, Invariant, PTL DEF Spec
=============================================================================
