----------------------------- MODULE SharedLemmas -----------------------------
(* Facts about numbers, intervals and recursion that the proofs of several  *)
(* components need.                                                         *)
EXTENDS Integers, Sequences, FiniteSetsExt, SequenceTheorems, FiniteSetTheorems,
        WellFoundedInduction, TLAPS

-----------------------------------------------------------------------------
(* Induction, stated about sets of numbers.                                *)

\* A set of numbers that holds 0 and every successor holds them all.
LEMMA SetInduction ==
  ASSUME NEW S, 0 \in S, \A n \in Nat : n \in S => n + 1 \in S
  PROVE  Nat \subseteq S
<1> DEFINE T == Nat \ S
<1> SUFFICES ASSUME T # {} PROVE FALSE
  OBVIOUS
<1>1. IsWellFoundedOn(OpToRel(<, Nat), Nat)
  BY NatLessThanWellFounded
<1>2. PICK x \in T : \A y \in T : ~(<<y, x>> \in OpToRel(<, Nat))
  BY <1>1, WFMin
<1>3. x \in Nat /\ x # 0
  OBVIOUS
<1>4. x - 1 \in Nat /\ x - 1 < x
  BY <1>3
<1>5. <<x - 1, x>> \in OpToRel(<, Nat)
  BY <1>3, <1>4 DEF OpToRel
<1>6. x - 1 \in S
  BY <1>2, <1>4, <1>5
<1>7. x \in S
  BY <1>6, <1>4, <1>3
<1> QED
  BY <1>7

-----------------------------------------------------------------------------
(* Least and largest elements.                                             *)

\* The largest of a set of integers that has one.
LEMMA MaxIs ==
  ASSUME NEW S \in SUBSET Int, NEW m \in S, \A x \in S : x <= m
  PROVE  Max(S) = m
<1>1. \A x, y \in S : (\A z \in S : x >= z) /\ (\A z \in S : y >= z) => x = y
  OBVIOUS
<1> QED
  BY <1>1 DEF Max

\* The smallest of a set of integers that has one.
LEMMA MinIs ==
  ASSUME NEW S \in SUBSET Int, NEW m \in S, \A x \in S : m <= x
  PROVE  Min(S) = m
<1>1. \A x, y \in S : (\A z \in S : x =< z) /\ (\A z \in S : y =< z) => x = y
  OBVIOUS
<1> QED
  BY <1>1 DEF Min

\* A nonempty set of natural numbers has a least one.
LEMMA NatMinIs ==
  ASSUME NEW S \in SUBSET Nat, S # {}
  PROVE  Min(S) \in S /\ \A x \in S : Min(S) <= x
<1>1. IsWellFoundedOn(OpToRel(<, Nat), Nat)
  BY NatLessThanWellFounded
<1>2. PICK m \in S : \A y \in S : ~(<<y, m>> \in OpToRel(<, Nat))
  BY <1>1, WFMin
<1>3. ASSUME NEW y \in S PROVE m <= y
  <2>1. y < m => <<y, m>> \in OpToRel(<, Nat)
    BY DEF OpToRel
  <2>2. ~(y < m)
    BY <1>2, <2>1, Zenon
  <2> QED BY <2>2
<1>4. Min(S) = m
  BY <1>3, MinIs
<1> QED
  BY <1>3, <1>4

\* A nonempty set of the numbers up to n has a largest one.
LEMMA BoundedMax ==
  ASSUME NEW n \in Nat, NEW S \in SUBSET (1 .. n), S # {}
  PROVE  Max(S) \in S /\ \A x \in S : x <= Max(S)
<1> DEFINE T == {n - x : x \in S}
<1>1. T \in SUBSET Nat /\ T # {}
  OBVIOUS
<1>2. Min(T) \in T /\ \A y \in T : Min(T) <= y
  BY <1>1, NatMinIs
<1>3. PICK m \in S : Min(T) = n - m
  BY <1>2
<1>4. ASSUME NEW x \in S PROVE x <= m
  <2>1. n - x \in T /\ n - m <= n - x
    BY <1>2, <1>3
  <2> QED BY <2>1
<1>5. S \in SUBSET Int
  OBVIOUS
<1>6. Max(S) = m
  BY <1>4, <1>5, MaxIs
<1> QED BY <1>4, <1>6

\* The least of two numbers is one of them, and no more than either.
LEMMA MinOfTwo ==
  ASSUME NEW a \in Int, NEW b \in Int
  PROVE  Min({a, b}) \in {a, b} /\ Min({a, b}) <= a /\ Min({a, b}) <= b
<1>1. PICK x \in {a, b} : \A y \in {a, b} : x <= y
  OBVIOUS
<1> QED
  BY <1>1, MinIs

\* The same for three numbers.
LEMMA MinOfThree ==
  ASSUME NEW a \in Int, NEW b \in Int, NEW c \in Int
  PROVE  /\ Min({a, b, c}) \in {a, b, c}
         /\ Min({a, b, c}) <= a /\ Min({a, b, c}) <= b /\ Min({a, b, c}) <= c
<1>1. PICK x \in {a, b, c} : \A y \in {a, b, c} : x <= y
  OBVIOUS
<1> QED
  BY <1>1, MinIs

-----------------------------------------------------------------------------
(* Sequences of consecutive numbers.                                       *)

\* The n numbers after a.
Interval(a, n) == [i \in 1 .. n |-> a + i]

\* What an interval is: its length, its elements, and when it is empty.
LEMMA IntervalProperties ==
  ASSUME NEW a \in Int, NEW n \in Nat
  PROVE  /\ Interval(a, n) \in Seq(Int) /\ Len(Interval(a, n)) = n
         /\ DOMAIN Interval(a, n) = 1 .. n
         /\ \A i \in 1 .. n : Interval(a, n)[i] = a + i
         /\ Interval(a, n) = << >> <=> n = 0
BY DEF Interval

\* Two intervals that meet make one interval.
LEMMA IntervalConcat ==
  ASSUME NEW a \in Int, NEW n \in Nat, NEW m \in Nat
  PROVE  Interval(a, n) \o Interval(a + n, m) = Interval(a, n + m)
<1> DEFINE s == Interval(a, n)  t == Interval(a + n, m)  u == Interval(a, n + m)
<1>1. /\ s \in Seq(Int) /\ Len(s) = n /\ \A i \in 1 .. n : s[i] = a + i
      /\ t \in Seq(Int) /\ Len(t) = m /\ \A i \in 1 .. m : t[i] = a + n + i
      /\ u \in Seq(Int) /\ Len(u) = n + m /\ \A i \in 1 .. n + m : u[i] = a + i
  BY IntervalProperties
<1> HIDE DEF s, t, u
<1>2. /\ s \o t \in Seq(Int) /\ Len(s \o t) = n + m
      /\ \A i \in 1 .. n + m : (s \o t)[i] = IF i <= n THEN s[i] ELSE t[i - n]
  BY <1>1, ConcatProperties, ZenonT(30)
<1>3. ASSUME NEW i \in 1 .. n + m
      PROVE  (s \o t)[i] = u[i]
  <2>1. CASE i <= n
    BY <2>1, <1>1, <1>2
  <2>2. CASE i > n
    <3>1. i - n \in 1 .. m
      BY <2>2
    <3>2. t[i - n] = a + n + (i - n)
      BY <3>1, <1>1
    <3>3. (s \o t)[i] = t[i - n] /\ u[i] = a + i
      BY <2>2, <1>1, <1>2
    <3> QED BY <3>2, <3>3
  <2>3. i <= n \/ i > n
    OBVIOUS
  <2> QED BY <2>1, <2>2, <2>3, Zenon
<1>4. s \o t = u
  BY <1>1, <1>2, <1>3, SeqEqual
<1> QED
  BY <1>4 DEF s, t, u

\* A contiguous part of an interval is one.
LEMMA IntervalCut ==
  ASSUME NEW a \in Int, NEW n \in Nat, NEW k \in 0 .. n, NEW m \in k .. n
  PROVE  SubSeq(Interval(a, n), k + 1, m) = Interval(a + k, m - k)
<1> DEFINE s == Interval(a, n)  t == Interval(a + k, m - k)
<1>1. /\ s \in Seq(Int) /\ Len(s) = n /\ \A i \in 1 .. n : s[i] = a + i
      /\ t \in Seq(Int) /\ Len(t) = m - k /\ \A i \in 1 .. m - k : t[i] = a + k + i
  <2>1. m - k \in Nat /\ a + k \in Int
    OBVIOUS
  <2> QED BY <2>1, IntervalProperties
<1> HIDE DEF s, t
<1>2. /\ SubSeq(s, k + 1, m) \in Seq(Int) /\ Len(SubSeq(s, k + 1, m)) = m - k
      /\ \A i \in 1 .. m - k : SubSeq(s, k + 1, m)[i] = s[k + i]
  <2>1. \A i \in k + 1 .. m : s[i] \in Int
    BY <1>1
  <2>2. /\ SubSeq(s, k + 1, m) \in Seq(Int)
        /\ Len(SubSeq(s, k + 1, m)) = IF k + 1 <= m THEN m - (k + 1) + 1 ELSE 0
        /\ \A i \in 1 .. m - (k + 1) + 1 : SubSeq(s, k + 1, m)[i] = s[k + 1 + i - 1]
    BY <2>1, SubSeqProperties
  <2> QED BY <2>2
<1>3. SubSeq(s, k + 1, m) = t
  BY SMTT(30), <1>1, <1>2, SeqEqual
<1> QED
  BY <1>3 DEF s, t

\* An interval grows by the number after its last.
LEMMA IntervalAppend ==
  ASSUME NEW a \in Int, NEW n \in Nat
  PROVE  Append(Interval(a, n), a + n + 1) = Interval(a, n + 1)
<1> DEFINE s == Interval(a, n)  t == Append(s, a + n + 1)  u == Interval(a, n + 1)
<1>1. /\ s \in Seq(Int) /\ Len(s) = n /\ \A i \in 1 .. n : s[i] = a + i
      /\ u \in Seq(Int) /\ Len(u) = n + 1 /\ \A i \in 1 .. n + 1 : u[i] = a + i
  BY IntervalProperties
<1> HIDE DEF s, u
<1>2. /\ t \in Seq(Int) /\ Len(t) = n + 1
      /\ \A i \in 1 .. n : t[i] = s[i]
      /\ t[n + 1] = a + n + 1
  BY <1>1, AppendProperties
<1> HIDE DEF t
<1>3. \A i \in 1 .. n + 1 : t[i] = u[i]
  BY <1>1, <1>2
<1>4. t = u
  BY <1>1, <1>2, <1>3, SeqEqual
<1> QED
  BY <1>4 DEF s, t, u

\* Dropping the leading numbers through f leaves the rest of the interval.
LEMMA IntervalDrop ==
  ASSUME NEW a \in Int, NEW n \in Nat, NEW f \in Int
  PROVE  LET s == Interval(a, n)
             leading == {x \in 0 .. Len(s) : \A i \in 1 .. x : s[i] <= f}
             rest == SubSeq(s, Max(leading) + 1, Len(s))
         IN /\ f <= a => rest = Interval(a, n)
            /\ f \in a .. a + n => rest = Interval(f, a + n - f)
            /\ f >= a + n => rest = << >>
<1> DEFINE s == Interval(a, n)
           leading == {x \in 0 .. Len(s) : \A i \in 1 .. x : s[i] <= f}
           rest == SubSeq(s, Max(leading) + 1, Len(s))
<1>1. Len(s) = n /\ \A i \in 1 .. n : s[i] = a + i
  BY IntervalProperties
<1> SUFFICES ASSUME NEW k \in 0 .. n,
                    \/ k = 0 /\ f <= a
                    \/ k = n /\ f >= a + n
                    \/ k = f - a
             PROVE  rest = Interval(a + k, n - k)
  <2> HIDE DEF rest
  <2>1. ASSUME f <= a PROVE 0 \in 0 .. n /\ a + 0 = a /\ n - 0 = n
    OBVIOUS
  <2>2. ASSUME f \in a .. a + n
        PROVE  f - a \in 0 .. n /\ a + (f - a) = f /\ n - (f - a) = a + n - f
    BY <2>2
  <2>3. ASSUME f >= a + n PROVE n \in 0 .. n /\ n - n = 0
    OBVIOUS
  <2>4. Interval(a + n, 0) = << >>
    BY IntervalProperties
  <2>5. /\ f <= a => rest = Interval(a, n)
        /\ f \in a .. a + n => rest = Interval(f, a + n - f)
        /\ f >= a + n => rest = << >>
    BY <2>1, <2>2, <2>3, <2>4
  <2> QED BY <2>5 DEF rest
<1> HIDE DEF s
<1>2. leading = 0 .. k
  <2>1. leading = {x \in 0 .. n : \A i \in 1 .. x : s[i] <= f}
    BY <1>1
  <2>2. ASSUME NEW x \in 0 .. n
        PROVE  (\A i \in 1 .. x : s[i] <= f) <=> x <= k
    <3>1. \A i \in 1 .. x : s[i] = a + i
      BY <1>1
    <3>2. x # 0 => x \in 1 .. x
      OBVIOUS
    <3> QED BY <3>1, <3>2
  <2> QED BY <2>1, <2>2
<1>3. Max(0 .. k) = k
  <2>1. 0 .. k \in SUBSET Int /\ k \in 0 .. k /\ \A x \in 0 .. k : x <= k
    OBVIOUS
  <2> QED BY <2>1, MaxIs
<1>4. rest = SubSeq(s, k + 1, n)
  BY <1>1, <1>2, <1>3
<1>5. SubSeq(s, k + 1, n) = Interval(a + k, n - k)
  <2>1. n \in k .. n
    OBVIOUS
  <2> QED BY <2>1, IntervalCut DEF s
<1> QED
  BY <1>4, <1>5
=============================================================================
