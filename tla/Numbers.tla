------------------------------ MODULE Numbers ------------------------------
(* What the child computes from a stored day (daemon-child-func.c): the ten *)
(* numbers of the line memcached sends back, their maximum and the          *)
(* category of that maximum.  A line of text is the sequence of the         *)
(* integers between its tabs.                                               *)
EXTENDS Integers, Sequences

Slots == 10                         \* table_entry.values
Zeros == [i \in 1..Slots |-> 0]     \* memset(&t_data, 0, ...)

categories == <<"Sin datos", "Buena", "Regular", "Mala", "Muy mala",
                "Extremadamente mala">>
Outside == "outside the table"      \* what a bad index reads

\* C division truncates towards zero.
Quotient(a, b) == IF a >= 0 THEN a \div b ELSE -((-a) \div b)
-----------------------------------------------------------------------------
(* Plausible bugs (see Requests).                                           *)

CategoryIndex_OffByOne(max) ==
  LET index == Quotient(max, 50) + 1
  IN  IF max = 0 THEN 0 ELSE IF index > 5 THEN 5 ELSE index
-----------------------------------------------------------------------------
\* parse_numbers: what stands between the first two line ends of memcached's
\* answer, token by token; without two line ends nothing is written.
parse_numbers(reply, numbers) ==
  IF reply.word # "VALUE" THEN numbers
  ELSE [i \in 1..Slots |->
          IF i <= Len(reply.line) THEN reply.line[i] ELSE numbers[i]]

get_max_val(values) ==
  LET max[i \in 1..Slots] ==
        IF i = 1 THEN values[1]
        ELSE IF values[i] > max[i - 1] THEN values[i] ELSE max[i - 1]
  IN  max[Slots]

CategoryIndex(max) ==
  LET index == Quotient(max - 1, 50) + 1
  IN  IF max = 0 THEN 0 ELSE IF index > 5 THEN 5 ELSE index

\* A negative index reads what lies before the table.
get_category(max) ==
  LET index == CategoryIndex(max)
  IN  IF index \in 0..5 THEN categories[index + 1] ELSE Outside
-----------------------------------------------------------------------------
(* The reference: what the two are for.                                     *)

IsMaximum(max, values) ==
  /\ \E i \in 1..Slots : values[i] = max
  /\ \A i \in 1..Slots : values[i] <= max

\* Category c ends at 50 c; the last one has no end, and zero has its own.
InCategory(max, category) ==
  IF max = 0 THEN category = categories[1]
  ELSE \E c \in 1..5 : /\ category = categories[c + 1]
                       /\ 50 * (c - 1) < max
                       /\ c < 5 => max <= 50 * c
=============================================================================
