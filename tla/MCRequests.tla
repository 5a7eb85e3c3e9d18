----------------------------- MODULE MCRequests -----------------------------
(* Instances of Requests for TLC.                                           *)
EXTENDS Requests

CONSTANTS c1, c2, d1, junk, long

OneChild == {c1}
TwoChildren == {c1, c2}

\* Lines whose maximum is 0, the end of the first category, beyond the last
\* one, and so low that the category lies outside the table.
Fifty == [Zeros EXCEPT ![2] = 50]
High == [Zeros EXCEPT ![1] = 512, ![3] = -7]
Low == [i \in 1..Slots |-> -256]
Lines == {Zeros, Fifty, High, Low}

Holding(k, v) == [q \in Key |-> IF q = k THEN v ELSE NoLine]
OneDay == {Holding(d1, Fifty)}
Nothing == {Holding(NoKey, NoLine)}

Stack == {[key |-> junk, values |-> High], [key |-> NoKey, values |-> Low]}

Ask(m, e, k, b) == [method |-> m, endpoint |-> e, key |-> k, body |-> b,
                    day |-> d1, values |-> Fifty]
Get1 == Ask("GET", "/dia", d1, "none")
GetWritten == Ask("GET", "/dia", Swallowed(d1), "none")
DeleteWritten == Ask("DELETE", "/dia", Swallowed(d1), "none")
Post == Ask("POST", "/dia", NoKey, "own")
PutOther == Ask("PUT", "/dia", NoKey, "other")
PostNothing == Ask("POST", "/dia", NoKey, "none")
GetLong == Ask("GET", "/dia", long, "none")
PostLong == Ask("POST", "/dia", NoKey, "long")
PutBuried == Ask("PUT", "/dia", NoKey, "buried")
Root == Ask("GET", "/", NoKey, "none")
Estado == Ask("GET", "/estado", NoKey, "none")

\* Two children and what they share: requests about one key, and each of the
\* other requests next to one of these.  The children are alike, so one order
\* of each pair is enough.
Pair(a, b) == [p \in Child |-> IF p = c1 THEN a ELSE b]
Pairs ==
  {Pair(r, GetWritten) : r \in {DeleteWritten, Post, PutOther, Get1,
                                PostNothing, PutBuried, Root, Estado}}
  \union {Pair(r, Post) : r \in {DeleteWritten, Post, PutOther}}
  \union {Pair(PostLong, GetLong)}
JustPost == {[p \in Child |-> Post]}
JustEstado == {[p \in Child |-> Estado]}

\* No line, lines of which all but the last fit, a line longer than fgets's
\* buffer that is taken over in pieces, and one of which only the first
\* piece fits.
Outputs == {<<>>, <<2, 3, 2>>, <<4, 1>>, <<1, 7>>}
=============================================================================
