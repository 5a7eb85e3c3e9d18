-------------------------- MODULE Statistics_proofs --------------------------
(* Proofs about Statistics, for any output and any size of the buffer: what *)
(* Total computes, and that the lines taken over always fit.                *)
EXTENDS Statistics, SequenceTheorems, WellFoundedInduction, TLAPS

\* Induction: a set of natural numbers has a least member.
LEMMA Least ==
  ASSUME NEW T, T \subseteq Nat, T # {}
  PROVE  \E x \in T : \A y \in T : x <= y
<1> DEFINE Less == {ss \in Nat \X Nat : ss[1] < ss[2]}
<1>1. IsWellFoundedOn(Less, Nat)
  BY NatLessThanWellFounded DEF OpToRel
<1> HIDE DEF Less
<1>2. PICK x \in T : \A y \in T : ~(<<y, x>> \in Less)
  BY <1>1, WFMin
<1>3. \A y \in T : ~(y < x)
  BY <1>2 DEF Less
<1> QED BY <1>3
-----------------------------------------------------------------------------
(* The length of the lines together.                                        *)

\* f sums up lines as far as the first m of them.
SumsUp(f, lines, m) ==
  /\ DOMAIN f = 0..m
  /\ f[0] = 0
  /\ \A n \in 1..m : f[n] = f[n - 1] + lines[n]

\* The first m lines of two outputs are the same.
SameLines(s, t, m) == \A n \in 1..m : s[n] = t[n]

\* There are partial sums up to any line.
LEMMA SumsExist ==
  ASSUME NEW lines \in Seq(Nat), NEW m \in 0..Len(lines)
  PROVE  \E f \in [0..m -> Nat] : SumsUp(f, lines, m)
<1> DEFINE Ok(n) == \E f \in [0..n -> Nat] : SumsUp(f, lines, n)
           T == {n \in 0..Len(lines) : ~Ok(n)}
<1> SUFFICES ASSUME T # {} PROVE FALSE
  OBVIOUS
<1>0. T \subseteq Nat
  OBVIOUS
<1>1. PICK x \in T : \A y \in T : x <= y
  <2> HIDE DEF T
  <2> QED BY <1>0, Least
<1>2. x \in 0..Len(lines) /\ ~Ok(x)
  OBVIOUS
<1>3. CASE x = 0
  <2>1. SumsUp([n \in 0..0 |-> 0], lines, 0)
    BY DEF SumsUp
  <2> QED BY <1>2, <1>3, <2>1
<1>4. CASE x # 0
  <2>1. x - 1 \in 0..Len(lines) /\ Ok(x - 1) /\ x \in Nat
    <3> HIDE DEF Ok
    <3> QED BY <1>1, <1>2, <1>4
  <2>2. PICK f \in [0..(x - 1) -> Nat] : SumsUp(f, lines, x - 1)
    BY <2>1
  <2> DEFINE g == [n \in 0..x |-> IF n = x THEN f[x - 1] + lines[x] ELSE f[n]]
  <2>3. lines[x] \in Nat
    BY <1>2, <1>4, ElementOfSeq
  <2>4. f[x - 1] \in Nat /\ x - 1 \in 0..(x - 1)
    BY <2>1, <2>2, <1>4 DEF SumsUp
  <2>5. g \in [0..x -> Nat]
    BY <2>1, <2>2, <2>3, <2>4 DEF SumsUp
  <2>6. \A n \in 1..x : g[n] = g[n - 1] + lines[n]
    <3> SUFFICES ASSUME NEW n \in 1..x PROVE g[n] = g[n - 1] + lines[n]
      OBVIOUS
    <3>1. CASE n = x
      BY <2>1, <3>1
    <3>2. CASE n # x
      <4>1. n \in 1..(x - 1) /\ n \in 0..x /\ n - 1 \in 0..x /\ n - 1 # x
        BY <2>1, <3>2
      <4>2. f[n] = f[n - 1] + lines[n]
        BY <2>2, <4>1 DEF SumsUp
      <4> QED BY <3>2, <4>1, <4>2
    <3> QED BY <3>1, <3>2
  <2>7. g[0] = 0
    BY <2>1, <2>2, <1>4 DEF SumsUp
  <2> HIDE DEF g
  <2>8. SumsUp(g, lines, x)
    BY <2>5, <2>6, <2>7 DEF SumsUp
  <2> QED BY <1>2, <2>5, <2>8
<1> QED BY <1>3, <1>4

\* Partial sums of sequences that agree are the same.
LEMMA SumsAgree ==
  ASSUME NEW s, NEW t, NEW m \in Nat, NEW k \in 0..m,
         NEW f, SumsUp(f, s, m), NEW g, SumsUp(g, t, k),
         SameLines(s, t, k)
  PROVE  \A n \in 0..k : f[n] = g[n]
<1> DEFINE T == {n \in 0..k : f[n] # g[n]}
<1> SUFFICES ASSUME T # {} PROVE FALSE
  OBVIOUS
<1>0. T \subseteq Nat
  OBVIOUS
<1>1. PICK x \in T : \A y \in T : x <= y
  <2> HIDE DEF T
  <2> QED BY <1>0, Least
<1>2. x \in 0..k /\ f[x] # g[x]
  OBVIOUS
<1>3. x # 0
  BY <1>2 DEF SumsUp
<1>4. x \in 1..k /\ x \in 1..m /\ x - 1 \in 0..k /\ x - 1 \notin T
  BY <1>1, <1>2, <1>3
<1>5. f[x - 1] = g[x - 1]
  BY <1>4
<1>6. f[x] = f[x - 1] + s[x] /\ g[x] = g[x - 1] + t[x] /\ s[x] = t[x]
  BY <1>4 DEF SumsUp, SameLines
<1> QED BY <1>2, <1>5, <1>6

\* Total is the last of the partial sums.
LEMMA TotalIs ==
  ASSUME NEW lines \in Seq(Nat), NEW f \in [0..Len(lines) -> Nat],
         SumsUp(f, lines, Len(lines))
  PROVE  Total(lines) = f[Len(lines)]
<1> DEFINE Is(h) == h = [n \in 0..Len(lines) |->
                          IF n = 0 THEN 0 ELSE h[n - 1] + lines[n]]
           total == CHOOSE h : Is(h)
<1>1. Len(lines) \in Nat
  OBVIOUS
<1>2. Is(f)
  BY <1>1 DEF SumsUp
<1>3. Is(total)
  BY <1>2
<1>4. Total(lines) = total[Len(lines)]
  BY DEF Total
<1> HIDE DEF total
<1>5. SumsUp(total, lines, Len(lines))
  BY <1>1, <1>3 DEF SumsUp
<1>6. \A n \in 0..Len(lines) : f[n] = total[n]
  <2> HIDE DEF Is
  <2> QED BY <1>1, <1>5, SumsAgree DEF SameLines
<1> QED BY <1>1, <1>4, <1>6

\* What Total computes: nothing for no lines, and for one line more its
\* length more.
LEMMA TotalOfNone == Total(<<>>) = 0
<1>1. <<>> \in Seq(Nat) /\ Len(<<>>) = 0 /\ Len(<<>>) \in 0..Len(<<>>)
  OBVIOUS
<1>2. PICK f \in [0..Len(<<>>) -> Nat] : SumsUp(f, <<>>, Len(<<>>))
  <2>1. \A lines \in Seq(Nat) : \A m \in 0..Len(lines) :
          \E f \in [0..m -> Nat] : SumsUp(f, lines, m)
    BY SumsExist
  <2> QED BY <1>1, <2>1
<1> QED BY <1>1, <1>2, TotalIs DEF SumsUp

LEMMA TotalOfMore ==
  ASSUME NEW lines \in Seq(Nat), NEW line \in Nat
  PROVE  /\ Total(lines) \in Nat
         /\ Total(Append(lines, line)) = Total(lines) + line
<1> DEFINE more == Append(lines, line)
<1>1. /\ Len(lines) \in Nat /\ more \in Seq(Nat)
      /\ Len(more) = Len(lines) + 1 /\ more[Len(lines) + 1] = line
      /\ \A n \in 1..Len(lines) : more[n] = lines[n]
  OBVIOUS
<1> HIDE DEF more
<1>2. \A s \in Seq(Nat) :
        \E f \in [0..Len(s) -> Nat] : SumsUp(f, s, Len(s))
  <2> SUFFICES ASSUME NEW s \in Seq(Nat)
               PROVE  \E f \in [0..Len(s) -> Nat] : SumsUp(f, s, Len(s))
    OBVIOUS
  <2>1. Len(s) \in 0..Len(s)
    OBVIOUS
  <2> QED BY <2>1, SumsExist
<1>3. PICK f \in [0..Len(lines) -> Nat] : SumsUp(f, lines, Len(lines))
  BY <1>2
<1>4. PICK g \in [0..Len(more) -> Nat] : SumsUp(g, more, Len(more))
  BY <1>1, <1>2
<1>5. Total(lines) = f[Len(lines)] /\ Total(more) = g[Len(more)]
  BY <1>1, <1>3, <1>4, TotalIs
<1>6. g[Len(lines)] = f[Len(lines)]
  <2>1. SameLines(more, lines, Len(lines))
    BY <1>1 DEF SameLines
  <2>2. Len(lines) \in 0..Len(more) /\ Len(lines) \in 0..Len(lines)
    BY <1>1
  <2>3. \A n \in 0..Len(lines) : g[n] = f[n]
    BY <1>1, <1>3, <1>4, <2>1, <2>2, SumsAgree
  <2> QED BY <2>2, <2>3
<1>7. g[Len(more)] = g[Len(lines)] + line
  <2>1. Len(more) \in 1..Len(more) /\ Len(more) - 1 = Len(lines)
    BY <1>1
  <2>2. g[Len(more)] = g[Len(more) - 1] + more[Len(more)]
    BY <1>4, <2>1 DEF SumsUp
  <2> QED BY <1>1, <2>1, <2>2
<1> QED BY <1>1, <1>3, <1>5, <1>6, <1>7 DEF more
-----------------------------------------------------------------------------
(* The lines taken over.                                                    *)

USE DEF At, Goto, stats

\* Nothing is printed before the script has run.
Fit ==
  /\ StatisticsFit
  /\ \A p \in Child : script[p] \in {"none", "running"} => printed[p] = <<>>

LEMMA FitInit == StatsInit => Fit
<1> SUFFICES ASSUME StatsInit, NEW p \in Child
             PROVE  /\ printed[p] = <<>> /\ result[p] = Empty
                    /\ result[p].lines <= Len(printed[p])
                    /\ ~(result[p].part > 0)
  BY DEF Fit, StatisticsFit
<1> QED BY DEF StatsInit, Empty

\* What p shows depends on what its script has printed and on nothing else.
LEMMA FitKept ==
  ASSUME Fit, NEW q \in Child, printed'[q] = printed[q],
         result'[q] = result[q]
  PROVE  /\ result'[q].lines <= Len(printed'[q])
         /\ result'[q].part > 0 =>
              /\ result'[q].lines < Len(printed'[q])
              /\ result'[q].part < NextLine(q)'
              /\ NextLine(q)' >= buf_len
         /\ result'[q] # Empty => Taken(q)' < max_len - 1
BY DEF Fit, StatisticsFit, NextLine, Taken

\* One line more is still a beginning of the output.
LEMMA LineAdded ==
  ASSUME NEW out \in Seq(Nat), NEW n \in Nat, n < Len(out)
  PROVE  /\ SubSeq(out, 1, n) \in Seq(Nat)
         /\ out[n + 1] \in Nat
         /\ Total(SubSeq(out, 1, n)) \in Nat
         /\ Total(SubSeq(out, 1, n + 1))
              = Total(SubSeq(out, 1, n)) + out[n + 1]
<1>1. SubSeq(out, 1, n) \in Seq(Nat) /\ out[n + 1] \in Nat
  OBVIOUS
<1>2. Append(SubSeq(out, 1, n), out[n + 1]) = SubSeq(out, 1, n + 1)
  OBVIOUS
<1> QED BY <1>1, <1>2, TotalOfMore

\* What fgets reads is a part of what is left, and all of it when it fits.
LEMMA PieceIs ==
  ASSUME StatsTypeOK, Fit, NEW p \in Child, result[p].lines < Len(printed[p])
  PROVE  /\ NextLine(p) \in Nat /\ Left(p) \in Nat /\ Piece(p) \in Nat
         /\ result[p].part \in Nat
         /\ Piece(p) # Left(p) =>
              Piece(p) > 0 /\ Piece(p) < Left(p) /\ Left(p) >= buf_len
<1>1. /\ printed[p] \in Seq(Nat)
      /\ result[p].lines \in Nat /\ result[p].part \in Nat
  BY DEF StatsTypeOK
<1>2. NextLine(p) \in Nat
  BY <1>1, LineAdded DEF NextLine
<1>3. Left(p) \in Nat
  <2>1. result[p].part <= NextLine(p)
    BY <1>1, <1>2 DEF Fit, StatisticsFit
  <2> QED BY <1>1, <1>2, <2>1 DEF Left
<1> QED BY <1>1, <1>2, <1>3, BufferAssumption DEF Piece

LEMMA FitTakesLine ==
  ASSUME StatsTypeOK, Fit, NEW p \in Child, TakeLine(p)
  PROVE  Fit'
<1>1. UNCHANGED <<script, printed>>
  BY DEF TakeLine
<1>2. CASE UNCHANGED result
  <2>1. \A q \in Child : printed'[q] = printed[q] /\ result'[q] = result[q]
    BY <1>1, <1>2
  <2> QED BY <1>1, <2>1, FitKept DEF Fit, StatisticsFit
<1>3. CASE Taken(p) + Piece(p) < max_len - 1
  <2> DEFINE n == result[p].lines
             part == result[p].part
             out == printed[p]
             before == Total(SubSeq(out, 1, n))
  <2>0. result[p] = [lines |-> n, part |-> part]
    BY DEF StatsTypeOK
  <2>1. out \in Seq(Nat) /\ n \in Nat /\ part \in Nat /\ n < Len(out)
    BY DEF StatsTypeOK, TakeLine
  <2>2. /\ NextLine(p) = out[n + 1] /\ Left(p) = out[n + 1] - part
        /\ Taken(p) = before + part
    BY DEF NextLine, Left, Taken
  <2>3. /\ before \in Nat /\ out[n + 1] \in Nat
        /\ Total(SubSeq(out, 1, n + 1)) = before + out[n + 1]
    BY <2>1, LineAdded
  <2>4. /\ result' = [result EXCEPT ![p] =
             IF Piece(p) = Left(p) THEN [lines |-> n + 1, part |-> 0]
             ELSE [lines |-> n, part |-> part + Piece(p)]]
    BY <1>3 DEF TakeLine
  <2>5. \A q \in Child \ {p} :
          result'[q] = result[q] /\ printed'[q] = printed[q]
    BY <1>1, <2>4 DEF StatsTypeOK
  <2>6. /\ result'[p].lines <= Len(printed'[p])
        /\ result'[p].part > 0 =>
             /\ result'[p].lines < Len(printed'[p])
             /\ result'[p].part < NextLine(p)'
             /\ NextLine(p)' >= buf_len
        /\ result'[p] # Empty => Taken(p)' < max_len - 1
    <3>1. CASE Piece(p) = Left(p)
      <4>1. result'[p] = [lines |-> n + 1, part |-> 0]
        BY <2>4, <3>1 DEF StatsTypeOK
      <4>2. result'[p].lines = n + 1 /\ result'[p].part = 0
        BY <4>1
      <4>3. Taken(p)' = Total(SubSeq(out, 1, n + 1)) + 0
        BY <1>1, <4>2 DEF Taken
      <4>4. Taken(p)' = Taken(p) + Piece(p)
        <5> HIDE DEF n, part, out, before
        <5> QED BY <2>1, <2>2, <2>3, <3>1, <4>3
      <4>5. n + 1 <= Len(out)
        <5> HIDE DEF n, part, before
        <5> QED BY <2>1
      <4> QED BY <1>1, <1>3, <4>2, <4>4, <4>5
    <3>2. CASE Piece(p) # Left(p)
      <4>1. result'[p] = [lines |-> n, part |-> part + Piece(p)]
        BY <2>4, <3>2 DEF StatsTypeOK
      <4>2. result'[p].lines = n /\ result'[p].part = part + Piece(p)
        BY <4>1
      <4>3. Taken(p)' = before + (part + Piece(p)) /\ NextLine(p)' = out[n + 1]
        BY <1>1, <4>2 DEF Taken, NextLine
      <4>4. /\ Piece(p) \in Nat
            /\ Piece(p) > 0 /\ Piece(p) < Left(p) /\ Left(p) >= buf_len
        BY <2>1, <3>2, PieceIs
      <4> HIDE DEF n, part, out, before
      <4>5. Taken(p)' = Taken(p) + Piece(p)
        BY <2>1, <2>2, <2>3, <4>3, <4>4
      <4>6. part + Piece(p) < out[n + 1] /\ out[n + 1] >= buf_len
        BY <2>1, <2>2, <2>3, <4>4, BufferAssumption
      <4>7. printed'[p] = out
        BY <1>1 DEF out
      <4> QED BY <1>3, <2>1, <4>2, <4>3, <4>5, <4>6, <4>7
    <3> QED BY <3>1, <3>2
  <2>7. \A q \in Child :
          /\ result'[q].lines <= Len(printed'[q])
          /\ result'[q].part > 0 =>
               /\ result'[q].lines < Len(printed'[q])
               /\ result'[q].part < NextLine(q)'
               /\ NextLine(q)' >= buf_len
          /\ result'[q] # Empty => Taken(q)' < max_len - 1
    BY <2>5, <2>6, FitKept
  <2> QED BY <1>1, <2>7 DEF Fit, StatisticsFit
<1> QED BY <1>2, <1>3 DEF TakeLine

LEMMA FitPrints ==
  ASSUME StatsTypeOK, Fit, NEW p \in Child, ScriptPrints(p)
  PROVE  Fit'
<1>1. PICK o \in Output : printed' = [printed EXCEPT ![p] = o]
  BY DEF ScriptPrints
<1>2. /\ printed'[p] = o /\ o \in Seq(Nat)
      /\ script'[p] = "exiting" /\ UNCHANGED result
      /\ \A q \in Child \ {p} :
           printed'[q] = printed[q] /\ script'[q] = script[q]
  BY <1>1, OutputAssumption DEF ScriptPrints, StatsTypeOK
<1>3. result[p] = Empty /\ result[p].lines = 0 /\ result[p].part = 0
  <2>1. printed[p] = <<>> /\ Len(<<>>) = 0
    BY DEF ScriptPrints, Fit
  <2>2. /\ result[p] = [lines |-> result[p].lines, part |-> result[p].part]
        /\ result[p].lines \in Nat /\ result[p].part \in Nat
    BY DEF StatsTypeOK
  <2>3. result[p].lines <= 0 /\ (result[p].part > 0 => result[p].lines < 0)
    BY <2>1 DEF Fit, StatisticsFit
  <2>4. result[p].lines = 0 /\ result[p].part = 0
    BY <2>2, <2>3
  <2> QED BY <2>2, <2>4 DEF Empty
<1>4. Len(o) \in Nat
  BY <1>2
<1>5. \A q \in Child \ {p} : script'[q] = script[q] /\ printed'[q] = printed[q]
                             /\ result'[q] = result[q]
  BY <1>2
<1> QED BY <1>2, <1>3, <1>4, <1>5, FitKept DEF Fit, StatisticsFit

\* Every step of a child that runs the script, and of the script itself.
LEMMA FitStep ==
  ASSUME StatsTypeOK, Fit,
         \/ UNCHANGED stats
         \/ \E p \in Child : \/ popen(p) /\ script[p] = "none"
                             \/ HandleCommand(p) \/ Script(p)
  PROVE  Fit'
<1>0. ASSUME UNCHANGED <<printed, result>>,
             \A q \in Child : script'[q] \in {"none", "running"} =>
                                script[q] \in {"none", "running"}
      PROVE  Fit'
  <2>1. \A q \in Child : printed'[q] = printed[q] /\ result'[q] = result[q]
    BY <1>0
  <2> QED BY <1>0, <2>1, FitKept DEF Fit, StatisticsFit
<1>1. CASE UNCHANGED <<script, printed, result>>
  BY <1>0, <1>1
<1>2. ASSUME NEW p \in Child, TakeLine(p) \/ ScriptPrints(p)
      PROVE  Fit'
  BY <1>2, FitTakesLine, FitPrints
<1>3. ASSUME NEW p \in Child,
             \/ popen(p) /\ script[p] = "none"
             \/ pclose(p) \/ dead_child(p) \/ ScriptDies(p)
      PROVE  Fit'
  <2>1. /\ UNCHANGED <<printed, result>>
        /\ script'[p] \in {"none", "running"} =>
             script[p] \in {"none", "running"}
        /\ \A q \in Child \ {p} : script'[q] = script[q]
    BY <1>3 DEF popen, pclose, dead_child, ScriptDies, StatsTypeOK
  <2> QED BY <1>0, <2>1
<1>4. ASSUME NEW p \in Child, HandleCommand(p) \/ Script(p)
      PROVE  Fit'
  BY <1>1, <1>2, <1>3, <1>4 DEF HandleCommand, Script, EndOfOutput
<1> QED BY <1>1, <1>3, <1>4
=============================================================================
