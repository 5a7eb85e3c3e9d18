----------------------------- MODULE MCOptions -----------------------------
(* Instances of Options for TLC.                                            *)
EXTENDS Options

Arg(letter, n) == [opt |-> letter, n |-> n]
Configured == Arg("c", 1)

\* Levels in and out of range, -d on either side of -o, -l on either side of
\* -F, and numbers nobody checks.
CommandLines ==
  {<<Arg("o", 0)>>, <<Arg("h", 0), Configured>>,
   <<Arg("l", 7), Arg("F", 0)>>, <<Configured>>,
   <<Arg("d", 12), Arg("p", 70000), Configured>>,
   <<Arg("o", 0), Arg("d", 4), Configured>>,
   <<Arg("d", 4), Arg("o", 0), Arg("l", 7), Configured>>,
   <<Arg("l", 7), Arg("l", 8), Arg("m", -1), Configured>>,
   <<Arg("k", 0), Arg("w", 0), Arg("t", 0), Configured>>}

\* Lines of every kind; a length of 2 fits, a length of 3 or more is too
\* long, and a length of 6 takes two reads to skip and a third for its end.
Written(kind, n) == [kind |-> kind, n |-> n]
ShortLines ==
  {[len |-> 2, opt |-> o, expr |-> Written("number", n)] :
     o \in {"portnum", "loglevel"}, n \in {5, IntRange + 6}}
  \union
  {[len |-> 2, opt |-> "portnum", expr |-> Written("number", 70000)],
   [len |-> 2, opt |-> "foregroundonly", expr |-> Written("FALSE", 0)],
   [len |-> 2, opt |-> "logfilename", expr |-> Written("name", 9)],
   [len |-> 2, opt |-> "checkcfg", expr |-> Written("FALSE", 0)],
   [len |-> 2, opt |-> "maxchild", expr |-> Written("none", 0)],
   [len |-> 0, opt |-> "none", expr |-> Written("none", 0)]}
LongLines ==
  {[len |-> n, opt |-> "portnum", expr |-> Written("number", 22)] :
     n \in {3, 4, 6}}
AnyLine == ShortLines \union LongLines

ConfigFiles ==
  {[lines |-> <<>>, newline |-> TRUE]}
  \union {[lines |-> <<a, b>>, newline |-> TRUE] : a, b \in AnyLine}
  \union {[lines |-> <<a, b>>, newline |-> FALSE] :
            a \in AnyLine, b \in {x \in AnyLine : x.len > 0}}
=============================================================================
