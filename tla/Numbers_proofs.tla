--------------------------- MODULE Numbers_proofs ---------------------------
(* Proofs about Numbers.  get_max_val is a recursive function; because a    *)
(* day has ten numbers its values can be written down one after the other,  *)
(* which shows both that the recursion has a solution and what it is.       *)
EXTENDS Numbers, TLAPS

Ten == [1..Slots -> Int]
Greater(a, b) == IF b > a THEN b ELSE a

\* What the loop of get_max_val makes of max at its i-th number.
Loop(v, f) ==
  [i \in 1..Slots |-> IF i = 1 THEN v[1]
                      ELSE IF v[i] > f[i - 1] THEN v[i] ELSE f[i - 1]]

\* The recursion of get_max_val has a solution.
LEMMA LoopSolved ==
  ASSUME NEW v \in Ten
  PROVE  \E f : f = Loop(v, f)
<1> DEFINE m1 == v[1]
           m2 == Greater(m1, v[2])
           m3 == Greater(m2, v[3])
           m4 == Greater(m3, v[4])
           m5 == Greater(m4, v[5])
           m6 == Greater(m5, v[6])
           m7 == Greater(m6, v[7])
           m8 == Greater(m7, v[8])
           m9 == Greater(m8, v[9])
           m10 == Greater(m9, v[10])
           f == [i \in 1..Slots |->
                   IF i = 1 THEN m1 ELSE IF i = 2 THEN m2
                   ELSE IF i = 3 THEN m3 ELSE IF i = 4 THEN m4
                   ELSE IF i = 5 THEN m5 ELSE IF i = 6 THEN m6
                   ELSE IF i = 7 THEN m7 ELSE IF i = 8 THEN m8
                   ELSE IF i = 9 THEN m9 ELSE m10]
<1>1. /\ f[1] = m1 /\ f[2] = m2 /\ f[3] = m3 /\ f[4] = m4 /\ f[5] = m5
      /\ f[6] = m6 /\ f[7] = m7 /\ f[8] = m8 /\ f[9] = m9 /\ f[10] = m10
  <2> HIDE DEF m1, m2, m3, m4, m5, m6, m7, m8, m9, m10
  <2> QED BY DEF Slots
<1>2. /\ m2 = Greater(m1, v[2]) /\ m3 = Greater(m2, v[3])
      /\ m4 = Greater(m3, v[4]) /\ m5 = Greater(m4, v[5])
      /\ m6 = Greater(m5, v[6]) /\ m7 = Greater(m6, v[7])
      /\ m8 = Greater(m7, v[8]) /\ m9 = Greater(m8, v[9])
      /\ m10 = Greater(m9, v[10])
  OBVIOUS
<1>3. f = [i \in 1..Slots |-> f[i]]
  OBVIOUS
<1> HIDE DEF m1, m2, m3, m4, m5, m6, m7, m8, m9, m10, f
<1>4. ASSUME NEW i \in 1..Slots
      PROVE  f[i] = IF i = 1 THEN v[1]
                    ELSE IF v[i] > f[i - 1] THEN v[i] ELSE f[i - 1]
  <2>1. i \in {1, 2, 3, 4, 5, 6, 7, 8, 9, 10}
    BY DEF Slots
  <2>2. m1 = v[1]
    BY DEF m1
  <2> QED BY <1>1, <1>2, <2>1, <2>2 DEF Greater
<1>5. f = Loop(v, f)
  BY <1>3, <1>4 DEF Loop
<1> QED BY <1>5

\* Some solution of the recursion is what get_max_val takes the last value of.
LEMMA MaxIsLast ==
  ASSUME NEW v \in Ten
  PROVE  \E f : f = Loop(v, f) /\ get_max_val(v) = f[Slots]
<1> DEFINE g == CHOOSE f : f = Loop(v, f)
<1>1. g = Loop(v, g)
  BY LoopSolved
<1>2. get_max_val(v) = g[Slots]
  BY DEF get_max_val, Loop
<1> QED BY <1>1, <1>2

\* get_max_val returns the greatest of the ten numbers.
THEOREM MaxIsMaximum ==
  ASSUME NEW v \in Ten
  PROVE  get_max_val(v) \in Int /\ IsMaximum(get_max_val(v), v)
<1> USE DEF Slots
<1> PICK f : f = Loop(v, f) /\ get_max_val(v) = f[Slots]
  BY MaxIsLast
<1> DEFINE Highest(i) == /\ f[i] \in Int
                         /\ \E j \in 1..i : v[j] = f[i]
                         /\ \A j \in 1..i : v[j] <= f[i]
<1>1. Highest(1)
  BY DEF Loop, Ten
<1>2. ASSUME NEW i \in 2..Slots, Highest(i - 1)
      PROVE  Highest(i)
  <2>1. f[i] = IF v[i] > f[i - 1] THEN v[i] ELSE f[i - 1]
    BY DEF Loop
  <2>2. 1..i = (1..(i - 1)) \union {i}
    OBVIOUS
  <2> QED BY <1>2, <2>1, <2>2 DEF Ten
<1> HIDE DEF Highest
<1>3. Highest(2) BY <1>1, <1>2
<1>4. Highest(3) BY <1>3, <1>2
<1>5. Highest(4) BY <1>4, <1>2
<1>6. Highest(5) BY <1>5, <1>2
<1>7. Highest(6) BY <1>6, <1>2
<1>8. Highest(7) BY <1>7, <1>2
<1>9. Highest(8) BY <1>8, <1>2
<1>10. Highest(9) BY <1>9, <1>2
<1>11. Highest(10) BY <1>10, <1>2
<1> QED BY <1>11 DEF Highest, IsMaximum

\* A day without numbers has maximum 0.
LEMMA MaxOfZeros == get_max_val(Zeros) = 0
<1>1. Zeros \in Ten
  BY DEF Zeros, Ten
<1>2. IsMaximum(get_max_val(Zeros), Zeros)
  BY <1>1, MaxIsMaximum
<1> QED BY <1>2 DEF IsMaximum, Zeros

\* get_category answers the category a maximum is in, and leaves its table
\* only when the maximum is far below zero.
THEOREM CategoryFits ==
  ASSUME NEW max \in Int
  PROVE  /\ max >= 0 => InCategory(max, get_category(max))
         /\ get_category(max) = Outside => max < -98
         /\ get_category(max) \in {categories[i] : i \in 1..6} \union {Outside}
<1> DEFINE index == CategoryIndex(max)
<1>1. index \in Int
  BY DEF CategoryIndex, Quotient
<1>2. max >= -98 => index \in 0..5
  BY DEF CategoryIndex, Quotient
<1>3. ASSUME max > 0
      PROVE  index \in 1..5 /\ 50 * (index - 1) < max
             /\ (index < 5 => max <= 50 * index)
  BY <1>3 DEF CategoryIndex, Quotient
<1>4. max = 0 => index = 0
  BY DEF CategoryIndex
<1>5. /\ index \in 0..5 => get_category(max) = categories[index + 1]
      /\ index \notin 0..5 => get_category(max) = Outside
  BY DEF get_category
<1> HIDE DEF index
<1>6. \A i \in 1..6 : categories[i] # Outside
  <2>1. /\ categories[1] # Outside /\ categories[2] # Outside
        /\ categories[3] # Outside /\ categories[4] # Outside
        /\ categories[5] # Outside /\ categories[6] # Outside
    BY DEF categories, Outside
  <2>2. \A i \in 1..6 : i \in {1, 2, 3, 4, 5, 6}
    OBVIOUS
  <2> QED BY <2>1, <2>2
<1>7. index \in 0..5 => index + 1 \in 1..6
  BY <1>1
<1>8. max >= 0 => InCategory(max, get_category(max))
  <2>1. CASE max = 0
    BY <2>1, <1>4, <1>5 DEF InCategory
  <2>2. CASE max > 0
    <3>1. index \in 0..5
      BY <2>2, <1>3
    <3>2. get_category(max) = categories[index + 1]
      BY <3>1, <1>5
    <3> QED BY <2>2, <3>2, <1>3 DEF InCategory
  <2> QED BY <2>1, <2>2
<1>9. get_category(max) = Outside => max < -98
  BY <1>2, <1>5, <1>6, <1>7
<1> QED BY <1>5, <1>7, <1>8, <1>9
=============================================================================
