----------------------------- MODULE WorldProofs -----------------------------
(* Proofs about the store of the simulation: whatever spawns, removals,      *)
(* ticks and restores run, with any rules, bounds and commands, the arrays,  *)
(* the lookup table, the owners' lists and the grid say the same.  The       *)
(* invariant, Sound, is followed through every operation: first what the     *)
(* helpers on sequences, the grid and the arrays do, then the edits, the     *)
(* phases of a tick and restore.  The second part shows that such a world can *)
(* be sent as long as the wire has room for its numbers: its snapshot passes  *)
(* the codec, because no operation of the world gives a prediction key twice  *)
(* or before its input.                                                      *)
EXTENDS World, SharedLemmas

Positive == Nat \ {0}

-----------------------------------------------------------------------------
(* Parts of sequences.                                                     *)

\* The recursive function of Kept exists.
LEMMA KeptEquation ==
  ASSUME NEW T, NEW s \in Seq(T), NEW S
  PROVE  \E f : /\ f[0] = <<>>
                /\ \A n \in Nat : n + 1 <= Len(s) =>
                     f[n + 1] = IF s[n + 1] \in S THEN Append(f[n], s[n + 1]) ELSE f[n]
                /\ Kept(s, S) = f[Len(s)]
<1> DEFINE base == <<>>
           Step(x, n) == IF s[n] \in S THEN Append(x, s[n]) ELSE x
           Solves(f, m) == f = [n \in 0 .. m |-> IF n = 0 THEN base ELSE Step(f[n - 1], n)]
           Solved == {m \in Nat : \E f : Solves(f, m)}
<1> HIDE DEF Step, base
<1>1. 0 \in Solved
  <2> DEFINE g == [n \in 0 .. 0 |-> base]
  <2>1. Solves(g, 0)
    OBVIOUS
  <2> QED BY <2>1
<1>2. ASSUME NEW m \in Nat, m \in Solved PROVE m + 1 \in Solved
  <2>1. PICK f : Solves(f, m)
    BY <1>2
  <2> DEFINE last == Step(f[m], m + 1)
             g == [n \in 0 .. m + 1 |-> IF n <= m THEN f[n] ELSE last]
  <2> HIDE DEF last
  <2>2. \A n \in 0 .. m : g[n] = f[n]
    OBVIOUS
  <2>3. ASSUME NEW n \in 0 .. m + 1
        PROVE  g[n] = IF n = 0 THEN base ELSE Step(g[n - 1], n)
    <3>1. CASE n <= m
      <4>1. g[n] = f[n] BY <3>1
      <4>2. n # 0 => n - 1 \in 0 .. m BY <3>1
      <4>3. n # 0 => g[n - 1] = f[n - 1] BY <4>2, <2>2
      <4>4. f[n] = IF n = 0 THEN base ELSE Step(f[n - 1], n)
        BY <2>1, <3>1
      <4> QED BY <4>1, <4>3, <4>4
    <3>2. CASE n = m + 1
      <4>1. g[n] = last BY <3>2
      <4>2. g[m] = f[m] BY <2>2
      <4> QED BY <4>1, <4>2, <3>2 DEF last
    <3> QED BY <3>1, <3>2
  <2>4. Solves(g, m + 1)
    BY <2>3
  <2> HIDE DEF Solves, g
  <2>5. m + 1 \in Nat /\ \E h : Solves(h, m + 1)
    BY <2>4
  <2> QED BY <2>5
<1>3. Len(s) \in Nat
  BY LenProperties
<1>4. Len(s) \in Solved
  BY <1>1, <1>2, <1>3, SetInduction
<1> DEFINE f == CHOOSE h : Solves(h, Len(s))
<1>5. Solves(f, Len(s))
  BY <1>4
<1>6. Kept(s, S) = f[Len(s)]
  BY DEF Kept, Step, base
<1> HIDE DEF f
<1>7. f[0] = base
  BY <1>3, <1>5
<1>8. ASSUME NEW n \in Nat, n + 1 <= Len(s) PROVE f[n + 1] = Step(f[n], n + 1)
  <2>1. n + 1 \in 0 .. Len(s) /\ n + 1 # 0 /\ (n + 1) - 1 = n
    BY <1>3, <1>8
  <2>2. f[n + 1] = IF n + 1 = 0 THEN base ELSE Step(f[(n + 1) - 1], n + 1)
    BY <1>5, <2>1
  <2> QED BY <2>1, <2>2
<1> QED
  BY <1>6, <1>7, <1>8 DEF Step, base


\* What Kept returns: some increasing choice of positions, all those whose
\* element is wanted.
Chosen(s, S, k, at) ==
  /\ at \in [1 .. Len(k) -> 1 .. Len(s)]
  /\ \A i, j \in 1 .. Len(k) : i < j => at[i] < at[j]
  /\ \A i \in 1 .. Len(k) : k[i] = s[at[i]] /\ s[at[i]] \in S
  /\ \A m \in 1 .. Len(s) : s[m] \in S => \E i \in 1 .. Len(k) : at[i] = m

KeptIs(T, s, S, k) == k \in Seq(T) /\ \E at : Chosen(s, S, k, at)

\* Kept returns such a choice.
LEMMA KeptProperties ==
  ASSUME NEW T, NEW s \in Seq(T), NEW S
  PROVE  KeptIs(T, s, S, Kept(s, S))
<1>1. PICK f : /\ f[0] = <<>>
               /\ \A n \in Nat : n + 1 <= Len(s) =>
                    f[n + 1] = IF s[n + 1] \in S THEN Append(f[n], s[n + 1]) ELSE f[n]
               /\ Kept(s, S) = f[Len(s)]
  BY KeptEquation
<1>2. Len(s) \in Nat /\ \A i \in 1 .. Len(s) : s[i] \in T
  BY LenProperties
<1> DEFINE Upto(n, k, at) ==
             /\ at \in [1 .. Len(k) -> 1 .. n]
             /\ \A i, j \in 1 .. Len(k) : i < j => at[i] < at[j]
             /\ \A i \in 1 .. Len(k) : k[i] = s[at[i]] /\ s[at[i]] \in S
             /\ \A m \in 1 .. n : s[m] \in S => \E i \in 1 .. Len(k) : at[i] = m
           Good(n) == f[n] \in Seq(T) /\ \E at : Upto(n, f[n], at)
           I == {n \in Nat : n <= Len(s) => Good(n)}
<1>3. 0 \in I
  <2> DEFINE at == [i \in 1 .. 0 |-> 0]
  <2>1. f[0] \in Seq(T) /\ Len(f[0]) = 0
    BY <1>1, EmptySeq
  <2>2. Upto(0, f[0], at)
    BY <2>1
  <2> QED BY <2>1, <2>2
<1>4. ASSUME NEW n \in Nat, n \in I PROVE n + 1 \in I
  <2> SUFFICES ASSUME n + 1 <= Len(s) PROVE Good(n + 1)
    OBVIOUS
  <2>1. Good(n) /\ n + 1 \in 1 .. Len(s)
    BY <1>2, <1>4
  <2> DEFINE k == f[n]
  <2>2. PICK at : Upto(n, k, at)
    BY <2>1
  <2>3. k \in Seq(T) /\ Len(k) \in Nat /\ s[n + 1] \in T
    BY <2>1, <1>2, LenProperties
  <2>4. CASE s[n + 1] \in S
    <3> DEFINE l == Append(k, s[n + 1])
               bt == [i \in 1 .. Len(l) |-> IF i <= Len(k) THEN at[i] ELSE n + 1]
    <3>1. f[n + 1] = l
      BY <1>1, <2>4
    <3>2. /\ l \in Seq(T) /\ Len(l) = Len(k) + 1 /\ l[Len(k) + 1] = s[n + 1]
          /\ \A i \in 1 .. Len(k) : l[i] = k[i]
      BY <2>3, AppendProperties
    <3> HIDE DEF k, l
    <3>0. at \in [1 .. Len(k) -> 1 .. n]
      BY ONLY <2>2
    <3>3. /\ \A i \in 1 .. Len(k) : bt[i] = at[i] /\ at[i] \in 1 .. n
          /\ bt[Len(k) + 1] = n + 1
      <4>1. DOMAIN bt = 1 .. Len(l) /\ Len(k) + 1 \in DOMAIN bt /\ 1 .. Len(k) \subseteq DOMAIN bt
        BY ONLY <3>2, <2>3
      <4>2. \A i \in DOMAIN bt : bt[i] = IF i <= Len(k) THEN at[i] ELSE n + 1
        OBVIOUS
      <4>3. ~ (Len(k) + 1 <= Len(k)) /\ \A i \in 1 .. Len(k) : i <= Len(k)
        BY ONLY <2>3
      <4> HIDE DEF bt
      <4>4. \A i \in 1 .. Len(k) : at[i] \in 1 .. n
        BY ONLY <3>0
      <4> QED BY ONLY <4>1, <4>2, <4>3, <4>4
    <3>4. bt \in [1 .. Len(l) -> 1 .. n + 1]
      BY ONLY <3>0, <3>2, <2>3, n \in Nat
    <3> HIDE DEF bt
    <3>5. ASSUME NEW i \in 1 .. Len(l), NEW j \in 1 .. Len(l), i < j
          PROVE  bt[i] < bt[j]
      <4>1. i \in 1 .. Len(k) /\ bt[i] = at[i] /\ at[i] \in 1 .. n
        BY <3>2, <3>3, <3>5, <2>3
      <4>2. CASE j = Len(k) + 1
        BY <4>1, <4>2, <3>3
      <4>3. CASE j \in 1 .. Len(k)
        BY <4>1, <4>3, <3>3, <2>2, <3>5
      <4> QED BY <4>2, <4>3, <3>2, <2>3
    <3>6. ASSUME NEW i \in 1 .. Len(l)
          PROVE  l[i] = s[bt[i]] /\ s[bt[i]] \in S
      <4>1. CASE i = Len(k) + 1
        BY <4>1, <3>2, <3>3, <2>4
      <4>2. CASE i \in 1 .. Len(k)
        BY <4>2, <3>2, <3>3, <2>2
      <4> QED BY <4>1, <4>2, <3>2, <2>3
    <3>7. ASSUME NEW m \in 1 .. n + 1, s[m] \in S
          PROVE  \E i \in 1 .. Len(l) : bt[i] = m
      <4>1. CASE m = n + 1
        <5>1. Len(k) + 1 \in 1 .. Len(l)
          BY <3>2, <2>3
        <5> QED BY <4>1, <5>1, <3>3
      <4>2. CASE m \in 1 .. n
        <5>1. PICK i \in 1 .. Len(k) : at[i] = m
          BY <4>2, <3>7, <2>2
        <5>2. i \in 1 .. Len(l)
          BY <3>2, <2>3
        <5> QED BY <5>1, <5>2, <3>3
      <4> QED BY <4>1, <4>2
    <3>8. Upto(n + 1, l, bt)
      BY <3>4, <3>5, <3>6, <3>7
    <3> HIDE DEF Upto
    <3> QED BY <3>1, <3>2, <3>8
  <2>5. CASE s[n + 1] \notin S
    <3>1. f[n + 1] = k
      BY <1>1, <2>5
    <3> HIDE DEF k
    <3>2. at \in [1 .. Len(k) -> 1 .. n + 1]
      BY <2>2
    <3>3. \A m \in 1 .. n + 1 : s[m] \in S => m \in 1 .. n
      BY <2>5
    <3>4. \A m \in 1 .. n + 1 : s[m] \in S => \E i \in 1 .. Len(k) : at[i] = m
      BY <3>3, <2>2
    <3>5. Upto(n + 1, k, at)
      BY <3>2, <3>4, <2>2
    <3> QED BY <3>1, <3>5, <2>3
  <2> HIDE DEF Good
  <2> QED BY <2>4, <2>5
<1>5. Len(s) \in I
  <2> HIDE DEF I
  <2> QED BY <1>2, <1>3, <1>4, SetInduction
<1> QED
  BY <1>1, <1>2, <1>5 DEF KeptIs, Chosen

\* Kept keeps what is wanted, in its order and once.
LEMMA KeptFacts ==
  ASSUME NEW T, NEW s \in Seq(T), NEW S
  PROVE  /\ Kept(s, S) \in Seq(T)
         /\ ToSet(Kept(s, S)) = ToSet(s) \cap S
         /\ IsInjective(s) => IsInjective(Kept(s, S))
<1> DEFINE k == Kept(s, S)
<1>1. k \in Seq(T) /\ \E at : Chosen(s, S, k, at)
  BY KeptProperties DEF KeptIs
<1>2. PICK at : Chosen(s, S, k, at)
  BY <1>1
<1> HIDE DEF k
<1>3. /\ Len(k) \in Nat /\ DOMAIN k = 1 .. Len(k)
      /\ Len(s) \in Nat /\ DOMAIN s = 1 .. Len(s)
  BY <1>1, LenProperties
<1>4. ToSet(k) = ToSet(s) \cap S
  <2>1. ASSUME NEW x \in ToSet(k) PROVE x \in ToSet(s) \cap S
    <3>1. PICK i \in 1 .. Len(k) : x = k[i]
      BY <1>3 DEF ToSet
    <3> QED BY <3>1, <1>2, <1>3 DEF Chosen, ToSet
  <2>2. ASSUME NEW x \in ToSet(s) \cap S PROVE x \in ToSet(k)
    <3>1. PICK m \in 1 .. Len(s) : x = s[m]
      BY <1>3 DEF ToSet
    <3>2. PICK i \in 1 .. Len(k) : at[i] = m
      BY <3>1, <1>2 DEF Chosen
    <3>3. k[i] = x
      BY <3>1, <3>2, <1>2 DEF Chosen
    <3> QED BY <3>3, <1>3 DEF ToSet
  <2> QED BY <2>1, <2>2
<1>5. ASSUME IsInjective(s), NEW a \in DOMAIN k, NEW b \in DOMAIN k, k[a] = k[b]
      PROVE  a = b
  <2>1. at[a] \in DOMAIN s /\ at[b] \in DOMAIN s /\ s[at[a]] = s[at[b]]
    BY <1>2, <1>3, <1>5 DEF Chosen
  <2>2. at[a] = at[b]
    BY <1>5, <2>1 DEF IsInjective
  <2>3. at[a] \in 1 .. Len(s) /\ at[b] \in 1 .. Len(s) /\ a \in Int /\ b \in Int
    BY <2>1, <1>3
  <2>4. ~(a < b) /\ ~(b < a)
    BY <1>2, <1>3, <2>2, <2>3 DEF Chosen
  <2> QED BY <2>3, <2>4
<1>6. IsInjective(s) => IsInjective(k)
  BY <1>5 DEF IsInjective
<1> QED BY <1>1, <1>4, <1>6 DEF k

Increasing(s) == \A i, j \in DOMAIN s : i < j => s[i] < s[j]

\* A choice from an increasing sequence increases.
LEMMA KeptIncreasing ==
  ASSUME NEW s \in Seq(Int), NEW S, Increasing(s)
  PROVE  Increasing(Kept(s, S))
<1> DEFINE k == Kept(s, S)
<1>1. k \in Seq(Int) /\ \E at : Chosen(s, S, k, at)
  BY KeptProperties DEF KeptIs
<1>2. PICK at : Chosen(s, S, k, at)
  BY <1>1
<1> HIDE DEF k
<1>3. /\ Len(k) \in Nat /\ DOMAIN k = 1 .. Len(k)
      /\ Len(s) \in Nat /\ DOMAIN s = 1 .. Len(s)
  BY <1>1, LenProperties
<1>4. ASSUME NEW i \in DOMAIN k, NEW j \in DOMAIN k, i < j
      PROVE  k[i] < k[j]
  <2>1. at[i] \in DOMAIN s /\ at[j] \in DOMAIN s /\ at[i] < at[j]
    BY <1>2, <1>3, <1>4 DEF Chosen
  <2>2. s[at[i]] < s[at[j]]
    BY <2>1 DEF Increasing
  <2> QED BY <2>2, <1>2, <1>3 DEF Chosen
<1> QED BY <1>4 DEF Increasing, k

\* Sorted neighbours make a sorted sequence, and the reverse.
LEMMA SortedIncreases ==
  ASSUME NEW s \in Seq(Int)
  PROVE  StrictlySorted(s) <=> Increasing(s)
<1>1. /\ Len(s) \in Nat /\ DOMAIN s = 1 .. Len(s)
      /\ \A i \in 1 .. Len(s) : s[i] \in Int
  BY LenProperties
<1>2. ASSUME StrictlySorted(s)
      PROVE  Increasing(s)
  <2> DEFINE Far == {d \in Nat : \A i \in 1 .. Len(s) : i + d + 1 <= Len(s) => s[i] < s[i + d + 1]}
  <2>1. 0 \in Far
    BY <1>1, <1>2 DEF StrictlySorted
  <2>2. ASSUME NEW d \in Nat, d \in Far PROVE d + 1 \in Far
    <3>1. ASSUME NEW i \in 1 .. Len(s), i + (d + 1) + 1 <= Len(s)
          PROVE  s[i] < s[i + (d + 1) + 1]
      <4>1. s[i] < s[i + d + 1] /\ i + d + 1 \in 1 .. Len(s) - 1
        BY <1>1, <2>2, <3>1
      <4>2. s[i + d + 1] < s[(i + d + 1) + 1]
        BY <4>1, <1>2 DEF StrictlySorted
      <4>3. (i + d + 1) + 1 = i + (d + 1) + 1
        OBVIOUS
      <4>4. {s[i], s[i + d + 1], s[i + (d + 1) + 1]} \subseteq Int
        BY <1>1, <3>1
      <4> QED BY <4>1, <4>2, <4>3, <4>4
    <3> QED BY <3>1
  <2> HIDE DEF Far
  <2>3. Nat \subseteq Far
    BY <2>1, <2>2, SetInduction
  <2>4. ASSUME NEW i \in 1 .. Len(s), NEW j \in 1 .. Len(s), i < j
        PROVE  s[i] < s[j]
    <3>1. j - i - 1 \in Far /\ i + (j - i - 1) + 1 = j
      BY <2>3, <2>4
    <3> QED BY <3>1 DEF Far
  <2> QED BY <1>1, <2>4 DEF Increasing
<1>3. ASSUME Increasing(s)
      PROVE  StrictlySorted(s)
  <2>1. ASSUME NEW i \in 1 .. Len(s) - 1 PROVE s[i] < s[i + 1]
    <3>1. i \in DOMAIN s /\ i + 1 \in DOMAIN s /\ i < i + 1
      BY <1>1
    <3> QED BY <3>1, <1>3 DEF Increasing
  <2> QED BY <2>1 DEF StrictlySorted
<1> QED BY <1>2, <1>3

\* The ids of a set, sorted.
LEMMA AscendingFacts ==
  ASSUME NEW S, LastEntity \in Nat
  PROVE  /\ Ascending(S) \in Seq(1 .. LastEntity)
         /\ ToSet(Ascending(S)) = S \cap (1 .. LastEntity)
         /\ Increasing(Ascending(S)) /\ IsInjective(Ascending(S))
<1> DEFINE all == [n \in 1 .. LastEntity |-> n]
<1>1. all \in Seq(1 .. LastEntity) /\ all \in Seq(Int)
  OBVIOUS
<1>2. Increasing(all) /\ IsInjective(all)
  BY DEF Increasing, IsInjective
<1>3. ToSet(all) = 1 .. LastEntity
  BY DEF ToSet
<1>4. Ascending(S) = Kept(all, S)
  BY DEF Ascending
<1> HIDE DEF all
<1>5. /\ Kept(all, S) \in Seq(1 .. LastEntity)
      /\ ToSet(Kept(all, S)) = ToSet(all) \cap S
      /\ IsInjective(Kept(all, S))
  BY <1>1, <1>2, KeptFacts
<1>6. Increasing(Kept(all, S))
  BY <1>1, <1>2, KeptIncreasing
<1> QED BY <1>3, <1>4, <1>5, <1>6

-----------------------------------------------------------------------------
(* The grid.                                                               *)

\* A grid whose cells are lists of entity ids and say the same as its entries.
GridSound(g) ==
  /\ GridCoherent(g)
  /\ \A k \in DOMAIN g.cells : g.cells[k] \in Seq(Positive)

\* What an operation on one entity leaves of the others.
GridAfter(g, h, id, range) ==
  /\ GridSound(h)
  /\ DOMAIN h.entries = DOMAIN g.entries \cup {id}
  /\ h.entries[id] = range
  /\ \A x \in DOMAIN g.entries \ {id} : h.entries[x] = g.entries[x]

\* An id at the end of a list.
LEMMA AppendedId ==
  ASSUME NEW s \in Seq(Positive), NEW id \in Positive, id \notin ToSet(s), IsInjective(s)
  PROVE  /\ s \o <<id>> \in Seq(Positive) /\ s \o <<id>> # <<>>
         /\ ToSet(s \o <<id>>) = ToSet(s) \cup {id}
         /\ IsInjective(s \o <<id>>)
<1> DEFINE one == <<id>>  t == s \o one
<1>1. one \in Seq(Positive) /\ Len(one) = 1 /\ one[1] = id
  OBVIOUS
<1>2. Len(s) \in Nat /\ DOMAIN s = 1 .. Len(s) /\ \A i \in 1 .. Len(s) : s[i] \in Positive
  BY LenProperties
<1> HIDE DEF one
<1>3. /\ t \in Seq(Positive) /\ Len(t) = Len(s) + 1
      /\ \A i \in 1 .. Len(s) + 1 : t[i] = IF i <= Len(s) THEN s[i] ELSE one[i - Len(s)]
  <2>1. /\ t \in Seq(Positive) /\ Len(t) = Len(s) + Len(one)
        /\ \A i \in 1 .. Len(s) + Len(one) :
             t[i] = IF i <= Len(s) THEN s[i] ELSE one[i - Len(s)]
    BY ONLY <1>1, s \in Seq(Positive), ConcatProperties
  <2> HIDE DEF t
  <2> QED BY ONLY <2>1, <1>1
<1> HIDE DEF t
<1>4. \A i \in 1 .. Len(s) : t[i] = s[i]
  BY <1>2, <1>3
<1>5. t[Len(s) + 1] = id
  BY <1>1, <1>2, <1>3
<1>6. DOMAIN t = 1 .. Len(s) + 1
  BY <1>3, LenProperties
<1>7. t # <<>>
  BY <1>2, <1>3
<1>8. ToSet(t) = ToSet(s) \cup {id}
  <2>1. DOMAIN t = (1 .. Len(s)) \cup {Len(s) + 1}
    BY <1>2, <1>6
  <2> QED BY <2>1, <1>2, <1>4, <1>5 DEF ToSet
<1>9. IsInjective(t)
  <2>1. ASSUME NEW a \in DOMAIN t, NEW b \in DOMAIN t, t[a] = t[b] PROVE a = b
    <3>1. \A i \in 1 .. Len(s) : s[i] # id
      BY <1>2 DEF ToSet
    <3>2. \A i, j \in 1 .. Len(s) : s[i] = s[j] => i = j
      BY <1>2 DEF IsInjective
    <3>3. DOMAIN t = (1 .. Len(s)) \cup {Len(s) + 1}
      BY <1>2, <1>6
    <3> QED BY <3>1, <3>2, <3>3, <2>1, <1>4, <1>5
  <2> QED BY <2>1 DEF IsInjective
<1> QED BY <1>3, <1>7, <1>8, <1>9 DEF t, one

\* The lists of cells after an entity entered some of them.
Entered(cells, id, fresh) ==
  [k \in DOMAIN cells \cup fresh |->
     (IF k \in DOMAIN cells THEN cells[k] ELSE <<>>) \o (IF k \in fresh THEN <<id>> ELSE <<>>)]

\* ... and after it left some.
Vacated(cells, id, gone) ==
  LET left(k) == IF k \in gone THEN Kept(cells[k], ToSet(cells[k]) \ {id}) ELSE cells[k]
  IN  [k \in {c \in DOMAIN cells : left(c) # <<>>} |-> left(k)]

\* Cells list the members of the relation `in`, each once.
Lists(cells, in) ==
  /\ \A k \in DOMAIN cells :
       /\ cells[k] # <<>> /\ IsInjective(cells[k]) /\ cells[k] \in Seq(Positive)
       /\ \A x \in ToSet(cells[k]) : <<x, k>> \in in
  /\ \A x, k : <<x, k>> \in in => k \in DOMAIN cells /\ x \in ToSet(cells[k])

\* Entering adds the entity to the cells entered, which did not have it.
LEMMA EnteredLists ==
  ASSUME NEW cells, NEW in, Lists(cells, in), NEW id \in Positive, NEW fresh,
         \A k \in fresh : <<id, k>> \notin in
  PROVE  Lists(Entered(cells, id, fresh), in \cup {<<id, k>> : k \in fresh})
<1> DEFINE new == Entered(cells, id, fresh)
           rel == in \cup {<<id, k>> : k \in fresh}
           old(k) == IF k \in DOMAIN cells THEN cells[k] ELSE <<>>
<1>1. DOMAIN new = DOMAIN cells \cup fresh
  BY DEF Entered
<1>2. ASSUME NEW k
      PROVE  /\ old(k) \in Seq(Positive) /\ IsInjective(old(k))
             /\ k \notin DOMAIN cells => ToSet(old(k)) = {}
  <2>1. CASE k \in DOMAIN cells
    BY <2>1 DEF Lists
  <2>2. CASE k \notin DOMAIN cells
    BY <2>2 DEF IsInjective, ToSet
  <2> QED BY <2>1, <2>2
<1>3. ASSUME NEW k \in fresh
      PROVE  /\ new[k] \in Seq(Positive) /\ new[k] # <<>> /\ IsInjective(new[k])
             /\ ToSet(new[k]) = ToSet(old(k)) \cup {id}
  <2>1. new[k] = old(k) \o <<id>>
    BY <1>1, <1>3 DEF Entered
  <2>2. id \notin ToSet(old(k))
    BY <1>2, <1>3 DEF Lists
  <2> HIDE DEF old, new
  <2> QED BY <1>2, <2>1, <2>2, AppendedId
<1>4. ASSUME NEW k \in DOMAIN cells \ fresh
      PROVE  new[k] = cells[k]
  <2>1. new[k] = cells[k] \o <<>>
    BY <1>4 DEF Entered
  <2>2. cells[k] \in Seq(Positive)
    BY DEF Lists
  <2> QED BY <2>1, <2>2, ConcatEmptySeq
<1> HIDE DEF new
<1>5. ASSUME NEW k \in DOMAIN new
      PROVE  /\ new[k] # <<>> /\ IsInjective(new[k]) /\ new[k] \in Seq(Positive)
             /\ \A x \in ToSet(new[k]) : <<x, k>> \in rel
  <2>1. CASE k \in fresh
    <3>1. \A x \in ToSet(old(k)) : <<x, k>> \in in
      BY <1>2 DEF Lists
    <3> HIDE DEF old
    <3> QED BY <2>1, <3>1, <1>3
  <2>2. CASE k \in DOMAIN cells \ fresh
    BY <2>2, <1>4 DEF Lists
  <2> QED BY <2>1, <2>2, <1>1
<1>6. ASSUME NEW x, NEW k, <<x, k>> \in rel
      PROVE  k \in DOMAIN new /\ x \in ToSet(new[k])
  <2>1. CASE <<x, k>> \in in
    <3>1. k \in DOMAIN cells /\ x \in ToSet(cells[k])
      BY <2>1 DEF Lists
    <3>2. CASE k \in fresh
      <4>1. x \in ToSet(old(k))
        BY <3>1
      <4> HIDE DEF old
      <4> QED BY <4>1, <3>2, <1>1, <1>3
    <3>3. CASE k \notin fresh
      BY <3>1, <3>3, <1>1, <1>4
    <3> QED BY <3>2, <3>3
  <2>2. CASE <<x, k>> \notin in
    <3>1. x = id /\ k \in fresh
      BY <2>2, <1>6
    <3> HIDE DEF old
    <3> QED BY <3>1, <1>1, <1>3
  <2> QED BY <2>1, <2>2
<1> HIDE DEF rel
<1>7. Lists(new, rel)
  BY <1>5, <1>6 DEF Lists
<1> QED BY <1>7 DEF new, rel

\* Leaving takes the entity from the cells it leaves, and cells without any.
LEMMA LeftLists ==
  ASSUME NEW cells, NEW in, Lists(cells, in), NEW id \in Positive, NEW gone
  PROVE  Lists(Vacated(cells, id, gone), in \ {<<id, k>> : k \in gone})
<1> DEFINE left(k) == IF k \in gone THEN Kept(cells[k], ToSet(cells[k]) \ {id}) ELSE cells[k]
           new == Vacated(cells, id, gone)
           rel == in \ {<<id, k>> : k \in gone}
<1>1. new = [k \in {c \in DOMAIN cells : left(c) # <<>>} |-> left(k)]
  BY DEF Vacated
<1>2. ASSUME NEW k \in DOMAIN cells
      PROVE  /\ left(k) \in Seq(Positive) /\ IsInjective(left(k))
             /\ ToSet(left(k)) = {x \in ToSet(cells[k]) : ~(k \in gone /\ x = id)}
  <2>1. cells[k] \in Seq(Positive) /\ IsInjective(cells[k])
    BY DEF Lists
  <2>2. CASE k \in gone
    BY <2>1, <2>2, KeptFacts
  <2>3. CASE k \notin gone
    BY <2>1, <2>3
  <2> QED BY <2>2, <2>3
<1> HIDE DEF left
<1>3. /\ DOMAIN new = {c \in DOMAIN cells : left(c) # <<>>}
      /\ \A k \in DOMAIN new : new[k] = left(k) /\ k \in DOMAIN cells
  BY <1>1
<1> HIDE DEF new
<1>4. ASSUME NEW k \in DOMAIN new
      PROVE  /\ new[k] # <<>> /\ IsInjective(new[k]) /\ new[k] \in Seq(Positive)
             /\ \A x \in ToSet(new[k]) : <<x, k>> \in rel
  <2>1. \A x \in ToSet(cells[k]) : <<x, k>> \in in
    BY <1>3 DEF Lists
  <2> QED BY <2>1, <1>2, <1>3
<1>5. ASSUME NEW x, NEW k, <<x, k>> \in rel
      PROVE  k \in DOMAIN new /\ x \in ToSet(new[k])
  <2>1. k \in DOMAIN cells /\ x \in ToSet(cells[k])
    BY <1>5 DEF Lists
  <2>2. ~(k \in gone /\ x = id)
    BY <1>5
  <2>3. x \in ToSet(left(k))
    BY <2>1, <2>2, <1>2
  <2>4. left(k) # <<>>
    BY <2>3 DEF ToSet
  <2> QED BY <2>1, <2>3, <2>4, <1>3
<1> HIDE DEF rel
<1>6. Lists(new, rel)
  BY <1>4, <1>5 DEF Lists
<1> QED BY <1>6 DEF new, rel


\* A sound grid lists which entities are in which cells.
Covers(entries, in) ==
  \A x, k : <<x, k>> \in in <=> x \in DOMAIN entries /\ k \in Cells(entries[x])

Covered(entries) == UNION {{<<x, k>> : k \in Cells(entries[x])} : x \in DOMAIN entries}

\* The entries of a grid cover a relation.
LEMMA CoveredCovers ==
  ASSUME NEW entries
  PROVE  Covers(entries, Covered(entries))
BY DEF Covers, Covered

\* ... which the cells of a sound grid list, and only of a sound one.
LEMMA SoundLists ==
  ASSUME NEW g, NEW in, Covers(g.entries, in)
  PROVE  GridSound(g) <=> Lists(g.cells, in)
BY DEF GridSound, GridCoherent, Lists, Covers

\* The range that stands for none has no cells.
LEMMA NoCells == Cells(NoRange) = {}
BY DEF Cells, NoRange

\* insert keeps a grid sound.
LEMMA InsertSound ==
  ASSUME NEW g, GridSound(g), NEW id \in Positive, id \notin DOMAIN g.entries, NEW c
  PROVE  GridAfter(g, Insert(g, id, c), id, CellRange(c))
<1> DEFINE range == CellRange(c)
           h == Insert(g, id, c)
           old == Covered(g.entries)
           new == old \cup {<<id, k>> : k \in Cells(range)}
<1> HIDE DEF range, old
<1>1. /\ h.entries = [x \in DOMAIN g.entries \cup {id} |-> IF x = id THEN range ELSE g.entries[x]]
      /\ h.cells = AddToCells(g.cells, id, range, NoRange)
  BY DEF Insert, range
<1> HIDE DEF h
<1>2. h.cells = Entered(g.cells, id, Cells(range))
  <2>1. Cells(range) \ {} = Cells(range)
    OBVIOUS
  <2> QED BY <1>1, <2>1, NoCells DEF AddToCells, Entered
<1>3. Covers(g.entries, old)
  BY CoveredCovers DEF old
<1>4. Lists(g.cells, old)
  BY <1>3, SoundLists
<1>5. \A k \in Cells(range) : <<id, k>> \notin old
  BY <1>3 DEF Covers
<1>6. Lists(h.cells, new)
  BY <1>2, <1>4, <1>5, EnteredLists
<1>7. Covers(h.entries, new)
  BY <1>1, <1>3 DEF Covers
<1> HIDE DEF new
<1>8. GridSound(h)
  BY <1>6, <1>7, SoundLists
<1> QED BY <1>1, <1>8 DEF GridAfter, h, range

\* remove keeps a grid sound.
LEMMA EraseSound ==
  ASSUME NEW g, GridSound(g), NEW id \in Positive, id \in DOMAIN g.entries
  PROVE  /\ GridSound(Erase(g, id))
         /\ Erase(g, id).entries = [x \in DOMAIN g.entries \ {id} |-> g.entries[x]]
<1> DEFINE range == g.entries[id]
           h == Erase(g, id)
           old == Covered(g.entries)
           new == old \ {<<id, k>> : k \in Cells(range)}
<1> HIDE DEF range, old
<1>1. /\ h.entries = [x \in DOMAIN g.entries \ {id} |-> g.entries[x]]
      /\ h.cells = RemoveFromCells(g.cells, id, range, NoRange)
  BY DEF Erase, range
<1> HIDE DEF h
<1>2. h.cells = Vacated(g.cells, id, Cells(range))
  <2>1. Cells(range) \ {} = Cells(range)
    OBVIOUS
  <2> QED BY <1>1, <2>1, NoCells DEF RemoveFromCells, Vacated
<1>3. Covers(g.entries, old)
  BY CoveredCovers DEF old
<1>4. Lists(g.cells, old)
  BY <1>3, SoundLists
<1>5. Lists(h.cells, new)
  BY <1>2, <1>4, LeftLists
<1>6. Covers(h.entries, new)
  BY <1>1, <1>3 DEF Covers, range
<1> HIDE DEF new
<1>7. GridSound(h)
  BY <1>5, <1>6, SoundLists
<1> QED BY <1>1, <1>7 DEF h

\* update keeps a grid sound.
LEMMA UpdateSound ==
  ASSUME NEW g, GridSound(g), NEW id \in Positive, id \in DOMAIN g.entries, NEW c
  PROVE  GridAfter(g, Update(g, id, c), id, CellRange(c))
<1> DEFINE now == CellRange(c)
           was == g.entries[id]
           h == Update(g, id, c)
<1> HIDE DEF now, was
<1>1. CASE was = now
  <2>1. h = g
    BY <1>1 DEF Update, now, was
  <2>2. DOMAIN g.entries = DOMAIN g.entries \cup {id}
    OBVIOUS
  <2> HIDE DEF h
  <2>3. GridAfter(g, h, id, now)
    BY <1>1, <2>1, <2>2 DEF GridAfter, was
  <2> QED BY <2>3 DEF h, now
<1>2. CASE was # now
  <2> DEFINE fresh == Cells(now) \ Cells(was)
             gone == Cells(was) \ Cells(now)
             mid == Entered(g.cells, id, fresh)
             old == Covered(g.entries)
             both == old \cup {<<id, k>> : k \in fresh}
             new == both \ {<<id, k>> : k \in gone}
  <2>1. /\ h.entries = [g.entries EXCEPT ![id] = now]
        /\ h.cells = RemoveFromCells(AddToCells(g.cells, id, now, was), id, was, now)
    BY <1>2 DEF Update, now, was
  <2>2. h.cells = Vacated(mid, id, gone)
    BY <2>1 DEF RemoveFromCells, AddToCells, Vacated, Entered
  <2> HIDE DEF h, fresh, gone, mid, old
  <2>3. Covers(g.entries, old)
    BY CoveredCovers DEF old
  <2>4. Lists(g.cells, old)
    BY <2>3, SoundLists
  <2>5. \A k \in fresh : <<id, k>> \notin old
    BY <2>3 DEF Covers, fresh, was
  <2>6. Lists(mid, both)
    BY <2>4, <2>5, EnteredLists DEF mid
  <2> HIDE DEF both
  <2>7. Lists(h.cells, new)
    BY <2>2, <2>6, LeftLists
  <2>8. Covers(h.entries, new)
    <3> SUFFICES ASSUME NEW x, NEW k
                 PROVE  <<x, k>> \in new <=> x \in DOMAIN h.entries /\ k \in Cells(h.entries[x])
      BY DEF Covers
    <3>1. /\ DOMAIN h.entries = DOMAIN g.entries /\ h.entries[id] = now
          /\ x \in DOMAIN g.entries /\ x # id => h.entries[x] = g.entries[x]
      BY <2>1
    <3>2. <<x, k>> \in old <=> x \in DOMAIN g.entries /\ k \in Cells(g.entries[x])
      BY <2>3 DEF Covers
    <3>3. <<x, k>> \in new <=> /\ <<x, k>> \in old \/ (x = id /\ k \in fresh)
                               /\ ~(x = id /\ k \in gone)
      BY DEF new, both
    <3> QED BY <3>1, <3>2, <3>3 DEF fresh, gone, was
  <2> HIDE DEF new
  <2>9. GridSound(h)
    BY <2>7, <2>8, SoundLists
  <2>10. DOMAIN g.entries = DOMAIN g.entries \cup {id}
    OBVIOUS
  <2>11. GridAfter(g, h, id, now)
    BY <2>1, <2>9, <2>10 DEF GridAfter
  <2> QED BY <2>11 DEF h, now
<1> QED BY <1>1, <1>2

\* The empty grid is sound.
LEMMA EmptyGridSound == GridSound(EmptyGrid) /\ EmptyGrid.entries = <<>>
BY DEF GridSound, GridCoherent, EmptyGrid

-----------------------------------------------------------------------------
(* The parallel arrays and the table that locates an entity in them.       *)

IdsOf(S) == {x.id : x \in S}

\* Every entity of an array is located there.
Placed(s, locations, kind) ==
  \A i \in DOMAIN s : locations[s[i].id] = [kind |-> kind, index |-> i]

\* The table of one array and of the other one.
Arrays(this, kind, that, other, locations) ==
  /\ DOMAIN locations = IdsOf(ToSet(this)) \cup IdsOf(ToSet(that))
  /\ Placed(this, locations, kind) /\ Placed(that, locations, other)

\* The ids of an array.
LEMMA IdsAre ==
  ASSUME NEW s
  PROVE  Ids(s) = IdsOf(ToSet(s))
BY DEF Ids, IdsOf, ToSet, Column

\* Ids tell the entities apart.
LEMMA ArraysApart ==
  ASSUME NEW this, NEW kind, NEW that, NEW other, NEW locations,
         Arrays(this, kind, that, other, locations), kind # other
  PROVE  /\ \A i, j \in DOMAIN this : this[i].id = this[j].id => i = j
         /\ \A i \in DOMAIN this : \A j \in DOMAIN that : this[i].id # that[j].id
         /\ \A x, y \in ToSet(this) : x.id = y.id => x = y
         /\ \A x \in ToSet(this) : \A y \in ToSet(that) : x.id # y.id
<1>1. ASSUME NEW i \in DOMAIN this, NEW j \in DOMAIN this, this[i].id = this[j].id
      PROVE  i = j
  <2>1. [kind |-> kind, index |-> i] = [kind |-> kind, index |-> j]
    BY <1>1 DEF Arrays, Placed
  <2>2. [kind |-> kind, index |-> i].index = [kind |-> kind, index |-> j].index
    BY <2>1, Zenon
  <2> QED BY <2>2
<1>2. ASSUME NEW i \in DOMAIN this, NEW j \in DOMAIN that, this[i].id = that[j].id
      PROVE  FALSE
  <2>1. [kind |-> kind, index |-> i] = [kind |-> other, index |-> j]
    BY <1>2 DEF Arrays, Placed
  <2>2. [kind |-> kind, index |-> i].kind = [kind |-> other, index |-> j].kind
    BY <2>1, Zenon
  <2> QED BY <2>2
<1>3. \A x, y \in ToSet(this) : x.id = y.id => x = y
  BY <1>1 DEF ToSet
<1>4. \A x \in ToSet(this) : \A y \in ToSet(that) : x.id # y.id
  BY <1>2 DEF ToSet
<1> QED BY <1>1, <1>2, <1>3, <1>4

\* An element at the end of a sequence.
LEMMA AppendFacts ==
  ASSUME NEW T, NEW s \in Seq(T), NEW x \in T
  PROVE  /\ Append(s, x) \in Seq(T)
         /\ Len(Append(s, x)) = Len(s) + 1 /\ Len(s) \in Nat
         /\ DOMAIN s = 1 .. Len(s)
         /\ DOMAIN Append(s, x) = DOMAIN s \cup {Len(s) + 1}
         /\ \A i \in DOMAIN s : Append(s, x)[i] = s[i]
         /\ Append(s, x)[Len(s) + 1] = x
         /\ ToSet(Append(s, x)) = ToSet(s) \cup {x}
<1> DEFINE t == Append(s, x)
<1>1. /\ t \in Seq(T) /\ Len(t) = Len(s) + 1
      /\ \A i \in 1 .. Len(s) : t[i] = s[i]
      /\ t[Len(s) + 1] = x
  BY AppendProperties
<1>2. Len(s) \in Nat /\ DOMAIN s = 1 .. Len(s)
  BY LenProperties
<1> HIDE DEF t
<1>3. DOMAIN t = 1 .. Len(s) + 1
  BY <1>1, LenProperties
<1>4. DOMAIN t = DOMAIN s \cup {Len(s) + 1}
  BY <1>2, <1>3
<1>5. ToSet(t) = ToSet(s) \cup {x}
  BY <1>1, <1>2, <1>4 DEF ToSet
<1> QED BY <1>1, <1>2, <1>4, <1>5 DEF t

\* A new entity comes last in its array.
LEMMA ArraysAppend ==
  ASSUME NEW T, NEW this \in Seq(T), NEW kind, NEW that, NEW other, NEW locations,
         Arrays(this, kind, that, other, locations),
         NEW x \in T, x.id \notin DOMAIN locations
  PROVE  Arrays(Append(this, x), kind, that, other, Locate(locations, x.id, kind, Len(this) + 1))
<1> DEFINE new == Append(this, x)
           at == Locate(locations, x.id, kind, Len(this) + 1)
<1>1. /\ DOMAIN new = DOMAIN this \cup {Len(this) + 1}
      /\ \A i \in DOMAIN this : new[i] = this[i]
      /\ new[Len(this) + 1] = x
      /\ ToSet(new) = ToSet(this) \cup {x}
  BY AppendFacts
<1>2. /\ DOMAIN at = DOMAIN locations \cup {x.id}
      /\ at[x.id] = [kind |-> kind, index |-> Len(this) + 1]
      /\ \A id \in DOMAIN locations : at[id] = locations[id]
  BY DEF Locate
<1> HIDE DEF new, at
<1>3. DOMAIN at = IdsOf(ToSet(new)) \cup IdsOf(ToSet(that))
  BY <1>1, <1>2 DEF Arrays, IdsOf
<1>4. Placed(new, at, kind)
  <2>1. \A i \in DOMAIN this : this[i].id \in DOMAIN locations
    BY DEF Arrays, IdsOf, ToSet
  <2> QED BY <2>1, <1>1, <1>2 DEF Arrays, Placed
<1>5. Placed(that, at, other)
  <2>1. \A i \in DOMAIN that : that[i].id \in DOMAIN locations
    BY DEF Arrays, IdsOf, ToSet
  <2> QED BY <2>1, <1>2 DEF Arrays, Placed
<1> QED BY <1>3, <1>4, <1>5 DEF Arrays, new, at

\* The last element takes the place of the removed one.
LEMMA SwapAndPopFacts ==
  ASSUME NEW T, NEW s \in Seq(T), NEW i \in DOMAIN s
  PROVE  /\ SwapAndPop(s, i) \in Seq(T)
         /\ Len(s) \in Nat \ {0} /\ DOMAIN s = 1 .. Len(s)
         /\ DOMAIN SwapAndPop(s, i) = 1 .. Len(s) - 1
         /\ \A j \in 1 .. Len(s) - 1 : SwapAndPop(s, i)[j] = IF j = i THEN s[Len(s)] ELSE s[j]
<1> DEFINE t == [s EXCEPT ![i] = s[Len(s)]]
           u == SubSeq(t, 1, Len(s) - 1)
<1>1. Len(s) \in Nat /\ DOMAIN s = 1 .. Len(s) /\ s \in [1 .. Len(s) -> T]
  BY LenProperties
<1>2. Len(s) \in Nat \ {0} /\ s[Len(s)] \in T
  BY <1>1
<1>3. /\ t \in Seq(T) /\ Len(t) = Len(s)
      /\ \A j \in 1 .. Len(s) : t[j] = IF j = i THEN s[Len(s)] ELSE s[j]
  BY <1>1, <1>2, ExceptSeq
<1> HIDE DEF t
<1>4. \A j \in 1 .. Len(s) - 1 : t[j] \in T
  BY <1>1, <1>2, <1>3
<1>5. /\ u \in Seq(T)
      /\ Len(u) = IF 1 <= Len(s) - 1 THEN (Len(s) - 1) - 1 + 1 ELSE 0
      /\ \A j \in 1 .. (Len(s) - 1) - 1 + 1 : u[j] = t[1 + j - 1]
  BY <1>2, <1>4, SubSeqProperties
<1> HIDE DEF u
<1>6. Len(u) = Len(s) - 1 /\ DOMAIN u = 1 .. Len(u)
  <2>1. DOMAIN u = 1 .. Len(u)
    BY <1>5, LenProperties
  <2>2. Len(s) \in Int /\ Len(s) >= 1
    BY <1>2
  <2>3. Len(u) = Len(s) - 1
    <3>1. \A n \in Int : n >= 1 => (IF 1 <= n - 1 THEN (n - 1) - 1 + 1 ELSE 0) = n - 1
      OBVIOUS
    <3> QED BY <2>2, <3>1, <1>5
  <2> QED BY <2>1, <2>3
<1>7. \A j \in 1 .. Len(s) - 1 : u[j] = t[j]
  BY <1>2, <1>5
<1>8. \A j \in 1 .. Len(s) - 1 : u[j] = IF j = i THEN s[Len(s)] ELSE s[j]
  BY <1>2, <1>3, <1>7
<1>9. SwapAndPop(s, i) = u
  BY DEF SwapAndPop, u, t
<1> QED BY <1>1, <1>2, <1>5, <1>6, <1>8, <1>9

\* An entity leaves its array.
LeavesArray(T, w, this, i, kind, that, other) ==
  /\ SwapAndPop(this, i) \in Seq(T)
  /\ ToSet(SwapAndPop(this, i)) = ToSet(this) \ {this[i]}
  /\ Arrays(SwapAndPop(this, i), kind, that, other, Relocate(w, this, i, kind))
  /\ DOMAIN Relocate(w, this, i, kind) = DOMAIN w.locations \ {this[i].id}

\* What leaves takes its entry along, and what takes its place is found there.
LEMMA ArraysRemove ==
  ASSUME NEW T, NEW this \in Seq(T), NEW kind, NEW that, NEW other, NEW w,
         Arrays(this, kind, that, other, w.locations), kind # other,
         NEW i \in DOMAIN this
  PROVE  LeavesArray(T, w, this, i, kind, that, other)
<1> DEFINE locations == w.locations
           new == SwapAndPop(this, i)
           at == Relocate(w, this, i, kind)
           id == this[i].id
           n == Len(this)
           moved == this[n].id
<1>1. /\ new \in Seq(T) /\ n \in Nat \ {0} /\ DOMAIN this = 1 .. n
      /\ DOMAIN new = 1 .. n - 1
      /\ \A j \in 1 .. n - 1 : new[j] = IF j = i THEN this[n] ELSE this[j]
  BY SwapAndPopFacts
<1>2. /\ \A j, k \in DOMAIN this : this[j].id = this[k].id => j = k
      /\ \A j \in DOMAIN this : \A k \in DOMAIN that : this[j].id # that[k].id
      /\ \A x, y \in ToSet(this) : x.id = y.id => x = y
      /\ \A x \in ToSet(this) : \A y \in ToSet(that) : x.id # y.id
  BY ArraysApart
<1>3. /\ DOMAIN at = DOMAIN locations \ {id}
      /\ \A x \in DOMAIN at : at[x] = IF x = moved THEN [kind |-> kind, index |-> i]
                                                   ELSE locations[x]
  <2>1. moved \in DOMAIN locations
    BY <1>1 DEF Arrays, IdsOf, ToSet
  <2> DEFINE lifted == IF moved = id THEN locations ELSE Locate(locations, moved, kind, i)
  <2>2. at = [x \in DOMAIN lifted \ {id} |-> lifted[x]]
    BY DEF Relocate
  <2>3. CASE moved = id
    BY <2>2, <2>3
  <2>4. CASE moved # id
    <3>1. /\ DOMAIN lifted = DOMAIN locations
          /\ \A x \in DOMAIN locations :
               lifted[x] = IF x = moved THEN [kind |-> kind, index |-> i] ELSE locations[x]
      BY <2>1, <2>4 DEF Locate
    <3> HIDE DEF lifted
    <3> QED BY <2>2, <3>1
  <2> QED BY <2>3, <2>4
<1> HIDE DEF at, new, locations
<1>4. ToSet(new) = ToSet(this) \ {this[i]}
  <2>1. ASSUME NEW j \in 1 .. n - 1 PROVE new[j] \in ToSet(this) /\ new[j] # this[i]
    <3>1. CASE j = i
      <4>1. new[j] = this[n] /\ n # i /\ n \in DOMAIN this
        BY <3>1, <1>1
      <4> QED BY <4>1, <1>2 DEF ToSet
    <3>2. CASE j # i
      <4>1. new[j] = this[j] /\ j \in DOMAIN this
        BY <3>2, <1>1
      <4> QED BY <4>1, <3>2, <1>2 DEF ToSet
    <3> QED BY <3>1, <3>2
  <2>2. ASSUME NEW j \in 1 .. n, this[j] # this[i] PROVE this[j] \in ToSet(new)
    <3>1. CASE j = n
      <4>1. i \in 1 .. n - 1 /\ new[i] = this[n]
        BY <3>1, <2>2, <1>1
      <4> QED BY <4>1, <3>1, <1>1 DEF ToSet
    <3>2. CASE j # n
      <4>1. j # i
        BY <2>2
      <4>2. j \in 1 .. n - 1
        <5> HIDE DEF n
        <5>1. n \in Int /\ j \in Int /\ 1 <= j /\ j <= n /\ j # n
          BY <3>2, <2>2, <1>1
        <5> QED BY <5>1
      <4>3. new[j] = this[j]
        BY <4>1, <4>2, <1>1
      <4> QED BY <4>2, <4>3, <1>1 DEF ToSet
    <3> QED BY <3>1, <3>2
  <2>3. ToSet(new) \subseteq ToSet(this) \ {this[i]}
    BY <2>1, <1>1 DEF ToSet
  <2>4. ToSet(this) \ {this[i]} \subseteq ToSet(new)
    BY <2>2, <1>1 DEF ToSet
  <2> QED BY <2>3, <2>4
<1>5. IdsOf(ToSet(new)) = IdsOf(ToSet(this)) \ {id}
  <2>1. \A x \in ToSet(this) : x # this[i] => x.id # id
    BY <1>2 DEF ToSet
  <2> QED BY <1>4, <2>1 DEF IdsOf
<1>6. id \notin IdsOf(ToSet(that))
  BY <1>2 DEF IdsOf, ToSet
<1>7. DOMAIN at = IdsOf(ToSet(new)) \cup IdsOf(ToSet(that))
  BY <1>3, <1>5, <1>6 DEF Arrays, locations
<1>8. Placed(new, at, kind)
  <2> SUFFICES ASSUME NEW j \in 1 .. n - 1
               PROVE  at[new[j].id] = [kind |-> kind, index |-> j]
    BY <1>1 DEF Placed
  <2>1. new[j].id \in DOMAIN at
    BY <1>1, <1>7 DEF IdsOf, ToSet
  <2>2. CASE j = i
    BY <2>1, <2>2, <1>1, <1>3
  <2>3. CASE j # i
    <3>1. new[j] = this[j] /\ j # n /\ j \in DOMAIN this /\ n \in DOMAIN this
      BY <2>3, <1>1
    <3>2. new[j].id # moved
      BY <3>1, <1>2
    <3> QED BY <2>1, <3>1, <3>2, <1>3 DEF Arrays, Placed, locations
  <2> QED BY <2>2, <2>3
<1>9. Placed(that, at, other)
  <2> SUFFICES ASSUME NEW j \in DOMAIN that
               PROVE  at[that[j].id] = [kind |-> other, index |-> j]
    BY DEF Placed
  <2>1. that[j].id \in DOMAIN at
    BY <1>7 DEF IdsOf, ToSet
  <2>2. that[j].id # moved
    BY <1>1, <1>2
  <2> QED BY <2>1, <2>2, <1>3 DEF Arrays, Placed, locations
<1> QED BY <1>1, <1>3, <1>4, <1>7, <1>8, <1>9 DEF LeavesArray, Arrays, at, new, locations

-----------------------------------------------------------------------------
(* The owners and their lists of pieces.                                   *)

\* The parts of a sequence before and after a place.
LEMMA CutFacts ==
  ASSUME NEW T, NEW s \in Seq(T), NEW k \in 1 .. Len(s) + 1
  PROVE  /\ SubSeq(s, 1, k - 1) \in Seq(T) /\ Len(SubSeq(s, 1, k - 1)) = k - 1
         /\ \A i \in 1 .. k - 1 : SubSeq(s, 1, k - 1)[i] = s[i]
         /\ SubSeq(s, k, Len(s)) \in Seq(T) /\ Len(SubSeq(s, k, Len(s))) = Len(s) + 1 - k
         /\ \A i \in 1 .. Len(s) + 1 - k : SubSeq(s, k, Len(s))[i] = s[k - 1 + i]
<1>1. Len(s) \in Nat /\ \A i \in 1 .. Len(s) : s[i] \in T
  BY LenProperties
<1>2. \A i \in 1 .. k - 1 : s[i] \in T
  BY <1>1
<1>3. /\ SubSeq(s, 1, k - 1) \in Seq(T)
      /\ Len(SubSeq(s, 1, k - 1)) = IF 1 <= k - 1 THEN (k - 1) - 1 + 1 ELSE 0
      /\ \A i \in 1 .. (k - 1) - 1 + 1 : SubSeq(s, 1, k - 1)[i] = s[1 + i - 1]
  BY <1>1, <1>2, SubSeqProperties
<1>4. \A i \in k .. Len(s) : s[i] \in T
  BY <1>1
<1>5. /\ SubSeq(s, k, Len(s)) \in Seq(T)
      /\ Len(SubSeq(s, k, Len(s))) = IF k <= Len(s) THEN Len(s) - k + 1 ELSE 0
      /\ \A i \in 1 .. Len(s) - k + 1 : SubSeq(s, k, Len(s))[i] = s[k + i - 1]
  BY <1>1, <1>4, SubSeqProperties
<1> DEFINE a == SubSeq(s, 1, k - 1)  c == SubSeq(s, k, Len(s))  n == Len(s)
<1>6. /\ a \in Seq(T)
      /\ Len(a) = IF 1 <= k - 1 THEN (k - 1) - 1 + 1 ELSE 0
      /\ \A i \in 1 .. (k - 1) - 1 + 1 : a[i] = s[1 + i - 1]
  BY ONLY <1>3
<1>7. /\ c \in Seq(T)
      /\ Len(c) = IF k <= n THEN n - k + 1 ELSE 0
      /\ \A i \in 1 .. n - k + 1 : c[i] = s[k + i - 1]
  BY ONLY <1>5
<1>8. n \in Nat /\ k \in 1 .. n + 1
  BY ONLY <1>1, k \in 1 .. Len(s) + 1
<1> HIDE DEF a, c, n
<1>9. Len(a) = k - 1 /\ \A i \in 1 .. k - 1 : a[i] = s[i]
  BY ONLY <1>6, <1>8
<1>10. Len(c) = n + 1 - k /\ \A i \in 1 .. n + 1 - k : c[i] = s[k - 1 + i]
  BY ONLY <1>7, <1>8
<1> QED BY ONLY <1>6, <1>7, <1>9, <1>10 DEF a, c, n

\* What inserting at a place gives.
InsertIs(T, s, k, x, t) ==
  /\ t \in Seq(T) /\ DOMAIN t = 1 .. Len(s) + 1
  /\ \A i \in 1 .. Len(s) + 1 : t[i] = IF i < k THEN s[i] ELSE IF i = k THEN x ELSE s[i - 1]

\* InsertAt does.
LEMMA InsertAtFacts ==
  ASSUME NEW T, NEW s \in Seq(T), NEW k \in 1 .. Len(s) + 1, NEW x \in T
  PROVE  InsertIs(T, s, k, x, InsertAt(s, k, x))
<1> DEFINE a == SubSeq(s, 1, k - 1)  b == <<x>>  c == SubSeq(s, k, Len(s))
<1>1. /\ a \in Seq(T) /\ Len(a) = k - 1 /\ \A i \in 1 .. k - 1 : a[i] = s[i]
      /\ c \in Seq(T) /\ Len(c) = Len(s) + 1 - k
      /\ \A i \in 1 .. Len(s) + 1 - k : c[i] = s[k - 1 + i]
  BY CutFacts
<1>2. b \in Seq(T) /\ Len(b) = 1 /\ b[1] = x
  OBVIOUS
<1>3. InsertAt(s, k, x) = a \o b \o c
  BY DEF InsertAt
<1>4. Len(s) \in Nat
  BY LenProperties
<1> HIDE DEF a, b, c
<1>5. /\ a \o b \in Seq(T) /\ Len(a \o b) = k
      /\ \A i \in 1 .. k : (a \o b)[i] = IF i <= k - 1 THEN a[i] ELSE b[i - (k - 1)]
  <2>1. /\ a \o b \in Seq(T) /\ Len(a \o b) = Len(a) + Len(b)
        /\ \A i \in 1 .. Len(a) + Len(b) :
             (a \o b)[i] = IF i <= Len(a) THEN a[i] ELSE b[i - Len(a)]
    BY <1>1, <1>2, ConcatProperties
  <2>2. Len(a) + Len(b) = k
    BY <1>1, <1>2
  <2> QED BY <2>1, <2>2, <1>1
<1> DEFINE ab == a \o b
<1> HIDE DEF ab
<1>6. /\ ab \o c \in Seq(T) /\ Len(ab \o c) = Len(s) + 1
      /\ \A i \in 1 .. Len(s) + 1 : (ab \o c)[i] = IF i <= k THEN ab[i] ELSE c[i - k]
  <2>1. ab \in Seq(T) /\ Len(ab) = k
    BY <1>5 DEF ab
  <2>2. /\ ab \o c \in Seq(T) /\ Len(ab \o c) = Len(ab) + Len(c)
        /\ \A i \in 1 .. Len(ab) + Len(c) :
             (ab \o c)[i] = IF i <= Len(ab) THEN ab[i] ELSE c[i - Len(ab)]
    BY <1>1, <2>1, ConcatProperties
  <2>3. Len(ab) + Len(c) = Len(s) + 1
    BY <1>1, <1>4, <2>1
  <2> QED BY <2>1, <2>2, <2>3
<1>7. ASSUME NEW i \in 1 .. Len(s) + 1
      PROVE  (ab \o c)[i] = IF i < k THEN s[i] ELSE IF i = k THEN x ELSE s[i - 1]
  <2>1. CASE i < k
    <3>1. i \in 1 .. k - 1 /\ i \in 1 .. k /\ i <= k
      BY <2>1
    <3> QED BY <3>1, <2>1, <1>1, <1>5, <1>6 DEF ab
  <2>2. CASE i = k
    <3>1. i \in 1 .. k /\ i <= k /\ ~(i <= k - 1) /\ i - (k - 1) = 1
      BY <2>2
    <3>2. ab[i] = b[i - (k - 1)]
      BY <3>1, <1>5 DEF ab
    <3> QED BY <3>1, <3>2, <2>2, <1>2, <1>6
  <2>3. CASE i > k
    <3>1. i - k \in 1 .. Len(s) + 1 - k /\ k - 1 + (i - k) = i - 1 /\ ~(i <= k)
      BY <2>3, <1>4
    <3>2. c[i - k] = s[i - 1]
      BY <3>1, <1>1
    <3>3. (ab \o c)[i] = c[i - k]
      BY <3>1, <1>6
    <3> QED BY <3>2, <3>3, <2>3
  <2>4. i < k \/ i = k \/ i > k
    BY <1>4
  <2> QED BY <2>1, <2>2, <2>3, <2>4, Zenon
<1>8. DOMAIN (ab \o c) = 1 .. Len(s) + 1
  BY <1>6, LenProperties
<1>9. InsertAt(s, k, x) = ab \o c
  BY <1>3 DEF ab
<1> QED BY <1>6, <1>7, <1>8, <1>9 DEF InsertIs

\* What removing at a place leaves.
LEMMA RemoveAtFacts ==
  ASSUME NEW T, NEW s \in Seq(T), NEW k \in 1 .. Len(s)
  PROVE  /\ RemoveAt(s, k) \in Seq(T)
         /\ DOMAIN RemoveAt(s, k) = 1 .. Len(s) - 1
         /\ \A i \in 1 .. Len(s) - 1 : RemoveAt(s, k)[i] = IF i < k THEN s[i] ELSE s[i + 1]
<1> DEFINE a == SubSeq(s, 1, k - 1)  c == SubSeq(s, k + 1, Len(s))
<1>1. Len(s) \in Nat
  BY LenProperties
<1>2. /\ a \in Seq(T) /\ Len(a) = k - 1 /\ \A i \in 1 .. k - 1 : a[i] = s[i]
  <2>1. k \in 1 .. Len(s) + 1
    BY <1>1
  <2> QED BY <2>1, CutFacts
<1>3. /\ c \in Seq(T) /\ Len(c) = Len(s) - k
      /\ \A i \in 1 .. Len(s) - k : c[i] = s[k + i]
  <2>1. k + 1 \in 1 .. Len(s) + 1
    BY <1>1
  <2>2. /\ c \in Seq(T) /\ Len(c) = Len(s) + 1 - (k + 1)
        /\ \A i \in 1 .. Len(s) + 1 - (k + 1) : c[i] = s[(k + 1) - 1 + i]
    BY <2>1, CutFacts
  <2>3. Len(s) + 1 - (k + 1) = Len(s) - k /\ (k + 1) - 1 = k
    BY <1>1
  <2> QED BY <2>2, <2>3
<1>4. RemoveAt(s, k) = a \o c
  BY DEF RemoveAt
<1> HIDE DEF a, c
<1>5. /\ a \o c \in Seq(T) /\ Len(a \o c) = Len(a) + Len(c)
      /\ \A i \in 1 .. Len(a) + Len(c) :
           (a \o c)[i] = IF i <= Len(a) THEN a[i] ELSE c[i - Len(a)]
  BY <1>2, <1>3, ConcatProperties
<1>6. Len(a) + Len(c) = Len(s) - 1
  BY <1>1, <1>2, <1>3
<1>7. ASSUME NEW i \in 1 .. Len(s) - 1
      PROVE  (a \o c)[i] = IF i < k THEN s[i] ELSE s[i + 1]
  <2>1. CASE i < k
    <3>1. i \in 1 .. k - 1 /\ i <= Len(a)
      BY <2>1, <1>2
    <3> QED BY <3>1, <2>1, <1>2, <1>5, <1>6
  <2>2. CASE i >= k
    <3>1. i - Len(a) \in 1 .. Len(s) - k /\ k + (i - Len(a)) = i + 1 /\ ~(i <= Len(a)) /\ ~(i < k)
      BY <2>2, <1>1, <1>2
    <3>2. c[i - Len(a)] = s[i + 1]
      BY <3>1, <1>3
    <3>3. (a \o c)[i] = c[i - Len(a)]
      BY <3>1, <1>5, <1>6
    <3> QED BY <3>1, <3>2, <3>3
  <2>3. i < k \/ i >= k
    BY <1>1
  <2> QED BY <2>1, <2>2, <2>3, Zenon
<1>8. DOMAIN (a \o c) = 1 .. Len(s) - 1
  BY <1>5, <1>6, LenProperties
<1> QED BY <1>4, <1>5, <1>7, <1>8

\* OwnerCheckpoint
OwnerStates ==
  [owner : Positive, pieces : Seq(Positive), move : Int, lastMove : Int,
   lastInput : Nat, cooldown : 0 .. LastTick]

OwnersSorted(owners) ==
  \A i, j \in DOMAIN owners : i < j => owners[i].owner < owners[j].owner

Listed(P, o) == {p.id : p \in {q \in P : q.owner = o}}

\* The owners, sorted, are those of the pieces and the extra ones, and each
\* lists its pieces in order.
OwnersSound(P, owners, extra) ==
  /\ OwnersSorted(owners)
  /\ {owners[i].owner : i \in DOMAIN owners} = {p.owner : p \in P} \cup extra
  /\ \A i \in DOMAIN owners :
       /\ Increasing(owners[i].pieces)
       /\ ToSet(owners[i].pieces) = Listed(P, owners[i].owner)

\* What binary search finds.
SearchFinds(w, o) ==
  /\ LowerBound(w, o) \in 1 .. Len(w.owners) + 1
  /\ \A i \in DOMAIN w.owners :
       IF i < LowerBound(w, o) THEN w.owners[i].owner < o ELSE w.owners[i].owner >= o
  /\ IF \E i \in DOMAIN w.owners : w.owners[i].owner = o
       THEN FindOwner(w, o) \in DOMAIN w.owners /\ w.owners[FindOwner(w, o)].owner = o
       ELSE FindOwner(w, o) = 0

\* Sorted owners are found.
LEMMA FindOwnerFacts ==
  ASSUME NEW w, w.owners \in Seq(OwnerStates), OwnersSorted(w.owners), NEW o \in Int
  PROVE  SearchFinds(w, o)
<1> DEFINE n == Len(w.owners)
           late == {i \in DOMAIN w.owners : w.owners[i].owner >= o}
           at == LowerBound(w, o)
<1>1. /\ n \in Nat /\ DOMAIN w.owners = 1 .. n
      /\ \A i \in 1 .. n : w.owners[i] \in OwnerStates /\ w.owners[i].owner \in Int
  <2>1. \A s \in OwnerStates : s.owner \in Int
    BY DEF OwnerStates, Positive
  <2> QED BY <2>1, LenProperties
<1>2. at = Min(late \cup {n + 1})
  BY DEF LowerBound
<1>3. late \cup {n + 1} \in SUBSET Nat /\ late \cup {n + 1} # {}
  <2>1. late \subseteq 1 .. n
    BY <1>1
  <2> HIDE DEF late, n
  <2> QED BY ONLY <1>1, <2>1
<1>4. at \in late \cup {n + 1} /\ \A x \in late \cup {n + 1} : at <= x
  <2> HIDE DEF late, n, at
  <2> QED BY ONLY <1>2, <1>3, NatMinIs
<1> HIDE DEF at
<1>5. at \in 1 .. n + 1
  BY <1>1, <1>4
<1>6. ASSUME NEW i \in DOMAIN w.owners, i < at PROVE w.owners[i].owner < o
  <2>1. i \notin late
    BY <1>1, <1>4, <1>5, <1>6
  <2> QED BY <2>1, <1>1
<1>7. ASSUME NEW i \in DOMAIN w.owners, ~(i < at) PROVE w.owners[i].owner >= o
  <2>1. at \in late
    BY <1>1, <1>4, <1>5, <1>7
  <2>2. w.owners[at].owner >= o /\ at \in DOMAIN w.owners
    BY <2>1
  <2>3. i = at \/ w.owners[at].owner < w.owners[i].owner
    BY <2>2, <1>1, <1>5, <1>7 DEF OwnersSorted
  <2> QED BY <2>2, <2>3, <1>1
<1>8. FindOwner(w, o) = IF at \in DOMAIN w.owners /\ w.owners[at].owner = o THEN at ELSE 0
  BY DEF FindOwner, at
<1>9. ASSUME NEW i \in DOMAIN w.owners, w.owners[i].owner = o
      PROVE  at \in DOMAIN w.owners /\ w.owners[at].owner = o
  <2>1. i \in late
    BY <1>1, <1>9
  <2>2. at <= i /\ at \in DOMAIN w.owners
    BY <2>1, <1>1, <1>4, <1>5
  <2>3. at = i \/ w.owners[at].owner < w.owners[i].owner
    BY <2>2, <1>1 DEF OwnersSorted
  <2>4. w.owners[at].owner >= o
    BY <2>2, <1>7, <1>1, <1>5
  <2>5. w.owners[at].owner \in Int
    BY <2>2, <1>1
  <2> QED BY <2>2, <2>3, <2>4, <2>5, <1>9
<1>10. IF \E i \in DOMAIN w.owners : w.owners[i].owner = o
         THEN FindOwner(w, o) \in DOMAIN w.owners /\ w.owners[FindOwner(w, o)].owner = o
         ELSE FindOwner(w, o) = 0
  <2>1. CASE \E i \in DOMAIN w.owners : w.owners[i].owner = o
    BY <2>1, <1>8, <1>9
  <2>2. CASE ~\E i \in DOMAIN w.owners : w.owners[i].owner = o
    BY <2>2, <1>8
  <2> QED BY <2>1, <2>2
<1> QED BY <1>5, <1>6, <1>7, <1>10 DEF SearchFinds, at

\* A new piece comes last in its owner's list.
LEMMA OwnersAppend ==
  ASSUME NEW P, NEW owners \in Seq(OwnerStates), NEW p, OwnersSound(P, owners, {p.owner}),
         NEW k \in DOMAIN owners, owners[k].owner = p.owner,
         p.id \in Positive, \A q \in P : q.id < p.id,
         NEW new, new = [owners EXCEPT ![k].pieces = Append(@, p.id)]
  PROVE  new \in Seq(OwnerStates) /\ OwnersSound(P \cup {p}, new, {})
<1> DEFINE s == owners[k]
           t == [s EXCEPT !.pieces = Append(s.pieces, p.id)]
<1>1. /\ Len(owners) \in Nat /\ DOMAIN owners = 1 .. Len(owners)
      /\ \A i \in DOMAIN owners : owners[i] \in OwnerStates
  BY LenProperties
<1>2. s \in OwnerStates /\ s.pieces \in Seq(Positive)
  BY <1>1 DEF OwnerStates
<1>3. /\ Append(s.pieces, p.id) \in Seq(Positive)
      /\ Len(s.pieces) \in Nat
      /\ DOMAIN s.pieces = 1 .. Len(s.pieces)
      /\ DOMAIN Append(s.pieces, p.id) = DOMAIN s.pieces \cup {Len(s.pieces) + 1}
      /\ \A i \in DOMAIN s.pieces : Append(s.pieces, p.id)[i] = s.pieces[i]
      /\ Append(s.pieces, p.id)[Len(s.pieces) + 1] = p.id
      /\ ToSet(Append(s.pieces, p.id)) = ToSet(s.pieces) \cup {p.id}
  BY <1>2, AppendFacts
<1>4. t \in OwnerStates /\ t.pieces = Append(s.pieces, p.id) /\ t.owner = s.owner
  BY <1>2, <1>3 DEF OwnerStates
<1> HIDE DEF t
<1>5. new = [owners EXCEPT ![k] = t]
  BY DEF t
<1>6. /\ new \in Seq(OwnerStates) /\ DOMAIN new = DOMAIN owners
      /\ \A i \in DOMAIN owners : new[i] = IF i = k THEN t ELSE owners[i]
  <2>1. k \in 1 .. Len(owners)
    BY <1>1
  <2>2. /\ new \in Seq(OwnerStates) /\ Len(new) = Len(owners)
        /\ \A i \in 1 .. Len(owners) : new[i] = IF i = k THEN t ELSE owners[i]
    <3> DEFINE u == [owners EXCEPT ![k] = t]
    <3>1. t \in OwnerStates
      BY <1>4
    <3>2. /\ u \in Seq(OwnerStates) /\ Len(u) = Len(owners)
          /\ \A i \in 1 .. Len(owners) : u[i] = IF i = k THEN t ELSE owners[i]
      BY ONLY owners \in Seq(OwnerStates), <2>1, <3>1, ExceptSeq
    <3> QED BY <3>2, <1>5
  <2> QED BY <2>2, <1>1, LenProperties
<1>7. \A i \in DOMAIN owners : new[i].owner = owners[i].owner
  BY <1>4, <1>6
<1>8. OwnersSorted(new)
  BY <1>6, <1>7 DEF OwnersSound, OwnersSorted
<1>9. {new[i].owner : i \in DOMAIN new} = {q.owner : q \in P \cup {p}}
  <2>1. {new[i].owner : i \in DOMAIN new} = {owners[i].owner : i \in DOMAIN owners}
    BY <1>6, <1>7
  <2>2. {q.owner : q \in P} \cup {p.owner} = {q.owner : q \in P \cup {p}}
    OBVIOUS
  <2> QED BY <2>1, <2>2 DEF OwnersSound
<1>10. ASSUME NEW i \in DOMAIN new
       PROVE  Increasing(new[i].pieces) /\ ToSet(new[i].pieces) = Listed(P \cup {p}, new[i].owner)
  <2>1. /\ Increasing(owners[i].pieces)
        /\ ToSet(owners[i].pieces) = Listed(P, owners[i].owner)
    BY <1>6 DEF OwnersSound
  <2>2. CASE i = k
    <3>1. new[i].pieces = Append(s.pieces, p.id) /\ new[i].owner = p.owner
      BY <2>2, <1>4, <1>6
    <3>2. \A x \in ToSet(s.pieces) : x < p.id
      BY <2>1, <2>2 DEF Listed
    <3>3. \A a \in DOMAIN s.pieces : s.pieces[a] < p.id
      BY <3>2 DEF ToSet
    <3>4. Increasing(Append(s.pieces, p.id))
      BY <2>1, <2>2, <3>3, <1>3 DEF Increasing
    <3>5. Listed(P, p.owner) \cup {p.id} = Listed(P \cup {p}, p.owner)
      BY DEF Listed
    <3> QED BY <2>1, <2>2, <3>1, <3>4, <3>5, <1>3
  <2>3. CASE i # k
    <3>1. new[i] = owners[i]
      BY <2>3, <1>6
    <3>2. owners[i].owner # p.owner
      <4>1. i < k \/ k < i
        BY <2>3, <1>1, <1>6
      <4>2. owners[i].owner \in Int /\ owners[k].owner \in Int
        <5>1. \A x \in OwnerStates : x.owner \in Int
          BY DEF OwnerStates, Positive
        <5>2. i \in DOMAIN owners
          BY <1>6
        <5> QED BY <5>1, <5>2, <1>1
      <4> QED BY <4>1, <4>2, <1>6 DEF OwnersSound, OwnersSorted
    <3>3. Listed(P, owners[i].owner) = Listed(P \cup {p}, owners[i].owner)
      BY <3>2 DEF Listed
    <3> QED BY <3>1, <3>3, <2>1
  <2> QED BY <2>2, <2>3
<1> QED BY <1>6, <1>8, <1>9, <1>10 DEF OwnersSound

-----------------------------------------------------------------------------
(* The store.                                                              *)

Radii == {RadiusForMass(mass) : mass \in Positive}

\* A piece, a food and their worlds.
Pieces ==
  [id : Positive, owner : Positive, pos : Int, mass : Positive, radius : Radii,
   launch : Int, eligible : 0 .. LastTick, key : Seq(Int)]

Foods == [id : Positive, pos : Int]

WorldFields ==
  {"players", "food", "locations", "owners", "grid", "next", "tick", "journal"}

\* The arrays, the table and the grid say the same.
Stored(w) ==
  /\ DOMAIN w = WorldFields
  /\ w.players \in Seq(Pieces) /\ w.food \in Seq(Foods)
  /\ Arrays(w.players, "player", w.food, "food", w.locations)
  /\ GridSound(w.grid) /\ DOMAIN w.grid.entries = DOMAIN w.locations
  /\ \A p \in ToSet(w.players) : /\ w.grid.entries[p.id] = CellRange(Bounds(p))
                                 /\ p.radius = RadiusForMass(p.mass)
  /\ \A f \in ToSet(w.food) : w.grid.entries[f.id] = CellRange(FoodBounds(f))

\* Counters within their limits; every id was given out.
Numbered(w) ==
  /\ w.owners \in Seq(OwnerStates)
  /\ w.next \in 1 .. LastEntity + 1 /\ w.tick \in 0 .. LastTick
  /\ \A id \in DOMAIN w.locations : id < w.next

Sound(w) == Stored(w) /\ Numbered(w) /\ OwnersSound(ToSet(w.players), w.owners, {})

\* The two arrays are alike to the table.
LEMMA ArraysSwap ==
  ASSUME NEW this, NEW kind, NEW that, NEW other, NEW locations
  PROVE  Arrays(this, kind, that, other, locations) <=> Arrays(that, other, this, kind, locations)
BY DEF Arrays

\* The elements of a sequence.
LEMMA ElementsIn ==
  ASSUME NEW T, NEW s \in Seq(T)
  PROVE  /\ Len(s) \in Nat /\ DOMAIN s = 1 .. Len(s)
         /\ \A i \in DOMAIN s : s[i] \in T /\ s[i] \in ToSet(s)
         /\ \A x \in ToSet(s) : x \in T
BY LenProperties DEF ToSet

\* What the table says of an entity is where it is.
LEMMA LocatedIs ==
  ASSUME NEW w, Stored(w), NEW id
  PROVE  /\ Located(w, id, "player") =>
              /\ FindIndex(w, id) \in DOMAIN w.players
              /\ w.players[FindIndex(w, id)].id = id
              /\ w.players[FindIndex(w, id)] \in ToSet(w.players)
         /\ Located(w, id, "food") =>
              /\ FindIndex(w, id) \in DOMAIN w.food
              /\ w.food[FindIndex(w, id)].id = id
         /\ Located(w, id, "player") <=> id \in IdsOf(ToSet(w.players))
         /\ Located(w, id, "food") <=> id \in IdsOf(ToSet(w.food))
<1> DEFINE locations == w.locations
<1>1. /\ DOMAIN locations = IdsOf(ToSet(w.players)) \cup IdsOf(ToSet(w.food))
      /\ \A i \in DOMAIN w.players :
           locations[w.players[i].id] = [kind |-> "player", index |-> i]
      /\ \A i \in DOMAIN w.food :
           locations[w.food[i].id] = [kind |-> "food", index |-> i]
  BY DEF Stored, Arrays, Placed
<1>2. /\ Located(w, id, "player") <=> id \in DOMAIN locations /\ locations[id].kind = "player"
      /\ Located(w, id, "food") <=> id \in DOMAIN locations /\ locations[id].kind = "food"
      /\ FindIndex(w, id) = locations[id].index
  BY DEF Located, FindIndex
<1> HIDE DEF locations
<1>3. ASSUME id \in IdsOf(ToSet(w.players))
      PROVE  /\ Located(w, id, "player") /\ ~Located(w, id, "food")
             /\ FindIndex(w, id) \in DOMAIN w.players
             /\ w.players[FindIndex(w, id)].id = id
             /\ w.players[FindIndex(w, id)] \in ToSet(w.players)
  <2>1. PICK i \in DOMAIN w.players : w.players[i].id = id
    BY <1>3 DEF IdsOf, ToSet
  <2>2. locations[id] = [kind |-> "player", index |-> i]
    BY <2>1, <1>1
  <2>3. locations[id].kind = "player" /\ locations[id].index = i
    BY <2>2
  <2> QED BY <1>1, <1>2, <1>3, <2>1, <2>3 DEF ToSet
<1>4. ASSUME id \in IdsOf(ToSet(w.food))
      PROVE  /\ Located(w, id, "food") /\ ~Located(w, id, "player")
             /\ FindIndex(w, id) \in DOMAIN w.food
             /\ w.food[FindIndex(w, id)].id = id
  <2>1. PICK i \in DOMAIN w.food : w.food[i].id = id
    BY <1>4 DEF IdsOf, ToSet
  <2>2. locations[id] = [kind |-> "food", index |-> i]
    BY <2>1, <1>1
  <2>3. locations[id].kind = "food" /\ locations[id].index = i
    BY <2>2
  <2> QED BY <1>1, <1>2, <1>4, <2>1, <2>3
<1> QED BY <1>1, <1>2, <1>3, <1>4

\* What an operation that enters an entity leaves alone.
EnteredAlone(w, v, id) ==
  /\ Stored(v)
  /\ DOMAIN v.locations = DOMAIN w.locations \cup {id}
  /\ v.owners = w.owners /\ v.next = w.next /\ v.tick = w.tick /\ v.journal = w.journal

\* A new piece is stored.
LEMMA WithPlayerStored ==
  ASSUME NEW w, Stored(w), NEW p \in Pieces, p.radius = RadiusForMass(p.mass),
         p.id \notin DOMAIN w.locations
  PROVE  /\ EnteredAlone(w, WithPlayer(w, p), p.id)
         /\ ToSet(WithPlayer(w, p).players) = ToSet(w.players) \cup {p}
         /\ WithPlayer(w, p).players = Append(w.players, p)
         /\ WithPlayer(w, p).food = w.food
<1> DEFINE v == WithPlayer(w, p)
           grid == Insert(w.grid, p.id, Bounds(p))
           at == Locate(w.locations, p.id, "player", Len(w.players) + 1)
           players == Append(w.players, p)
<1>1. p.id \in Positive
  BY DEF Pieces
<1>2. GridAfter(w.grid, grid, p.id, CellRange(Bounds(p)))
  BY <1>1, InsertSound DEF Stored
<1>3. Arrays(players, "player", w.food, "food", at)
  BY ArraysAppend DEF Stored
<1>4. players \in Seq(Pieces) /\ ToSet(players) = ToSet(w.players) \cup {p}
  BY AppendFacts DEF Stored
<1>5. DOMAIN at = DOMAIN w.locations \cup {p.id}
  BY DEF Locate
<1>6. v = [w EXCEPT !.players = players, !.locations = at, !.grid = grid]
  BY DEF WithPlayer
<1> HIDE DEF v, grid, at, players
<1>7. /\ DOMAIN v = WorldFields
      /\ v.players = players /\ v.locations = at /\ v.grid = grid
      /\ v.food = w.food /\ v.owners = w.owners /\ v.next = w.next /\ v.tick = w.tick
      /\ v.journal = w.journal
  BY <1>6 DEF Stored, WorldFields
<1>8. /\ GridSound(grid) /\ DOMAIN grid.entries = DOMAIN w.locations \cup {p.id}
      /\ grid.entries[p.id] = CellRange(Bounds(p))
      /\ \A x \in DOMAIN w.locations : grid.entries[x] = w.grid.entries[x]
  BY <1>2 DEF GridAfter, Stored
<1>9. /\ \A q \in ToSet(w.players) : q.id \in DOMAIN w.locations
      /\ \A f \in ToSet(w.food) : f.id \in DOMAIN w.locations
  BY DEF Stored, Arrays, IdsOf
<1>10. Stored(v)
  BY <1>3, <1>4, <1>5, <1>7, <1>8, <1>9 DEF Stored
<1> QED BY <1>4, <1>5, <1>7, <1>10 DEF EnteredAlone, v, players

\* A new food is stored.
LEMMA WithFoodStored ==
  ASSUME NEW w, Stored(w), NEW f \in Foods, f.id \notin DOMAIN w.locations
  PROVE  /\ EnteredAlone(w, WithFood(w, f), f.id)
         /\ WithFood(w, f).players = w.players
         /\ WithFood(w, f).food = Append(w.food, f)
<1> DEFINE v == WithFood(w, f)
           grid == Insert(w.grid, f.id, FoodBounds(f))
           at == Locate(w.locations, f.id, "food", Len(w.food) + 1)
           food == Append(w.food, f)
<1>1. f.id \in Positive
  BY DEF Foods
<1>2. GridAfter(w.grid, grid, f.id, CellRange(FoodBounds(f)))
  BY <1>1, InsertSound DEF Stored
<1>3. Arrays(w.players, "player", food, "food", at)
  <2>1. Arrays(w.food, "food", w.players, "player", w.locations)
    BY ArraysSwap DEF Stored
  <2>2. Arrays(food, "food", w.players, "player", at)
    BY <2>1, ArraysAppend DEF Stored
  <2> HIDE DEF food, at
  <2> QED BY <2>2, ArraysSwap
<1>4. food \in Seq(Foods) /\ ToSet(food) = ToSet(w.food) \cup {f}
  BY AppendFacts DEF Stored
<1>5. DOMAIN at = DOMAIN w.locations \cup {f.id}
  BY DEF Locate
<1>6. v = [w EXCEPT !.food = food, !.locations = at, !.grid = grid]
  BY DEF WithFood
<1> HIDE DEF v, grid, at, food
<1>7. /\ DOMAIN v = WorldFields
      /\ v.food = food /\ v.locations = at /\ v.grid = grid
      /\ v.players = w.players /\ v.owners = w.owners /\ v.next = w.next /\ v.tick = w.tick
      /\ v.journal = w.journal
  BY <1>6 DEF Stored, WorldFields
<1>8. /\ GridSound(grid) /\ DOMAIN grid.entries = DOMAIN w.locations \cup {f.id}
      /\ grid.entries[f.id] = CellRange(FoodBounds(f))
      /\ \A x \in DOMAIN w.locations : grid.entries[x] = w.grid.entries[x]
  BY <1>2 DEF GridAfter, Stored
<1>9. /\ \A q \in ToSet(w.players) : q.id \in DOMAIN w.locations
      /\ \A x \in ToSet(w.food) : x.id \in DOMAIN w.locations
  BY DEF Stored, Arrays, IdsOf
<1>10. Stored(v)
  BY <1>3, <1>4, <1>5, <1>7, <1>8, <1>9 DEF Stored
<1> QED BY <1>4, <1>5, <1>7, <1>10 DEF EnteredAlone, v, food

-----------------------------------------------------------------------------
(* Owners come, go and change.                                             *)

\* Sorted by number and told apart by it.
LEMMA OwnersApart ==
  ASSUME NEW owners \in Seq(OwnerStates), OwnersSorted(owners)
  PROVE  \A i, j \in DOMAIN owners : owners[i].owner = owners[j].owner => i = j
<1>1. /\ Len(owners) \in Nat /\ DOMAIN owners = 1 .. Len(owners)
      /\ \A i \in DOMAIN owners : owners[i] \in OwnerStates
  BY ElementsIn
<1>2. \A s \in OwnerStates : s.owner \in Int
  BY DEF OwnerStates, Positive
<1>3. \A i \in DOMAIN owners : owners[i].owner \in Int /\ i \in Int
  BY <1>1, <1>2
<1> SUFFICES ASSUME NEW i \in DOMAIN owners, NEW j \in DOMAIN owners,
                    owners[i].owner = owners[j].owner, i # j
             PROVE  FALSE
  OBVIOUS
<1>4. i < j \/ j < i
  BY <1>3
<1> QED BY <1>3, <1>4 DEF OwnersSorted

\* Only what the lists do not say of an owner changes.
LEMMA OwnersKept ==
  ASSUME NEW P, NEW extra, NEW owners, OwnersSound(P, owners, extra),
         NEW new, DOMAIN new = DOMAIN owners,
         \A i \in DOMAIN owners : /\ new[i].owner = owners[i].owner
                                  /\ new[i].pieces = owners[i].pieces
  PROVE  OwnersSound(P, new, extra)
<1>1. {new[i].owner : i \in DOMAIN new} = {owners[i].owner : i \in DOMAIN owners}
  OBVIOUS
<1> QED BY <1>1 DEF OwnersSound, OwnersSorted

\* The lists say who owns which id and no more.
Named(P) == {<<p.id, p.owner>> : p \in P}

\* Pieces of the same names have the same owners.
LEMMA OwnersNamed ==
  ASSUME NEW P, NEW Q, Named(P) = Named(Q), NEW owners, NEW extra,
         OwnersSound(P, owners, extra)
  PROVE  OwnersSound(Q, owners, extra)
<1>1. \A p \in P : \E q \in Q : q.id = p.id /\ q.owner = p.owner
  <2>1. \A p \in P : <<p.id, p.owner>> \in Named(Q)
    BY DEF Named
  <2> QED BY <2>1 DEF Named
<1>2. \A q \in Q : \E p \in P : q.id = p.id /\ q.owner = p.owner
  <2>1. \A q \in Q : <<q.id, q.owner>> \in Named(P)
    BY DEF Named
  <2> QED BY <2>1 DEF Named
<1>3. {p.owner : p \in P} = {q.owner : q \in Q}
  BY <1>1, <1>2
<1>4. \A o : Listed(P, o) = Listed(Q, o)
  BY <1>1, <1>2 DEF Listed
<1> QED BY <1>3, <1>4 DEF OwnersSound

\* An owner that is not there yet is entered at its place.
LEMMA OwnersInsert ==
  ASSUME NEW w, w.owners \in Seq(OwnerStates), NEW P, OwnersSound(P, w.owners, {}),
         NEW o \in Positive, \A i \in DOMAIN w.owners : w.owners[i].owner # o,
         0 \in 0 .. LastTick,
         NEW new, new = InsertAt(w.owners, LowerBound(w, o), NewOwner(o))
  PROVE  new \in Seq(OwnerStates) /\ OwnersSound(P, new, {o})
<1> DEFINE owners == w.owners
           k == LowerBound(w, o)
           s == NewOwner(o)
<1>1. /\ k \in 1 .. Len(owners) + 1
      /\ \A i \in DOMAIN owners :
           IF i < k THEN owners[i].owner < o ELSE owners[i].owner >= o
  <2>1. SearchFinds(w, o)
    BY FindOwnerFacts DEF OwnersSound, Positive
  <2> QED BY <2>1 DEF SearchFinds
<1>2. s \in OwnerStates /\ s.owner = o /\ s.pieces = <<>>
  BY DEF OwnerStates, NewOwner, NoInput
<1>3. /\ Len(owners) \in Nat /\ DOMAIN owners = 1 .. Len(owners)
      /\ \A i \in DOMAIN owners : owners[i] \in OwnerStates
  BY ElementsIn
<1>4. \A i \in DOMAIN owners : owners[i].owner \in Int
  <2>1. \A x \in OwnerStates : x.owner \in Int
    BY DEF OwnerStates, Positive
  <2> QED BY <1>3, <2>1
<1> HIDE DEF k, s
<1>5. /\ new \in Seq(OwnerStates) /\ DOMAIN new = 1 .. Len(owners) + 1
      /\ \A i \in 1 .. Len(owners) + 1 :
           new[i] = IF i < k THEN owners[i] ELSE IF i = k THEN s ELSE owners[i - 1]
  <2>1. new = InsertAt(owners, k, s) /\ owners \in Seq(OwnerStates)
    BY DEF k, s
  <2>2. k \in 1 .. Len(owners) + 1 /\ s \in OwnerStates
    BY <1>1, <1>2
  <2> HIDE DEF owners
  <2>3. InsertIs(OwnerStates, owners, k, s, InsertAt(owners, k, s))
    BY ONLY <2>1, <2>2, InsertAtFacts
  <2> QED BY ONLY <2>1, <2>3 DEF InsertIs
<1>6. \A i \in 1 .. Len(owners) + 1 :
        /\ i < k => i \in DOMAIN owners /\ new[i] = owners[i]
        /\ i = k => new[i] = s
        /\ k < i => i - 1 \in DOMAIN owners /\ new[i] = owners[i - 1] /\ ~(i - 1 < k)
  BY <1>1, <1>3, <1>5
<1>7. \A i \in DOMAIN owners : owners[i].owner # o
  OBVIOUS
<1>8. ASSUME NEW i \in DOMAIN new, NEW j \in DOMAIN new, i < j
      PROVE  new[i].owner < new[j].owner
  <2>1. CASE j < k
    <3>1. i < k
      BY <2>1, <1>1, <1>3, <1>5, <1>8
    <3> QED BY <2>1, <3>1, <1>5, <1>6, <1>8 DEF OwnersSound, OwnersSorted
  <2>2. CASE j = k
    <3>1. i < k
      BY <2>2, <1>8
    <3> QED BY <2>2, <3>1, <1>1, <1>2, <1>5, <1>6
  <2>3. CASE k < j
    <3>1. /\ j - 1 \in DOMAIN owners /\ new[j] = owners[j - 1] /\ owners[j - 1].owner > o
      <4>1. j \in 1 .. Len(owners) + 1
        BY <1>5
      <4>2. j - 1 \in DOMAIN owners /\ new[j] = owners[j - 1] /\ ~(j - 1 < k)
        BY <2>3, <4>1, <1>6
      <4>3. owners[j - 1].owner >= o /\ owners[j - 1].owner # o /\ owners[j - 1].owner \in Int
        BY <4>2, <1>1, <1>4, <1>7
      <4>4. o \in Int
        BY DEF Positive
      <4> QED BY <4>2, <4>3, <4>4
    <3>2. CASE i < k
      <4>1. i \in DOMAIN owners /\ new[i] = owners[i]
        BY <3>2, <1>5, <1>6
      <4>2. owners[i].owner < o
        BY <4>1, <3>2, <1>1
      <4>3. owners[i].owner \in Int /\ owners[j - 1].owner \in Int /\ o \in Int
        BY <4>1, <3>1, <1>4 DEF Positive
      <4> QED BY <3>1, <4>1, <4>2, <4>3
    <3>3. CASE i = k
      BY <3>1, <3>3, <1>2, <1>5, <1>6
    <3>4. CASE k < i
      <4>1. i - 1 \in DOMAIN owners /\ new[i] = owners[i - 1] /\ i - 1 < j - 1
        BY <3>4, <1>3, <1>5, <1>6, <1>8
      <4> QED BY <3>1, <4>1 DEF OwnersSound, OwnersSorted
    <3>5. i < k \/ i = k \/ k < i
      BY <1>1, <1>3, <1>5
    <3> QED BY <3>2, <3>3, <3>4, <3>5, Zenon
  <2>4. j < k \/ j = k \/ k < j
    BY <1>1, <1>3, <1>5
  <2> QED BY <2>1, <2>2, <2>3, <2>4, Zenon
<1>9. {new[i].owner : i \in DOMAIN new} = {owners[i].owner : i \in DOMAIN owners} \cup {o}
  <2>1. ASSUME NEW i \in DOMAIN owners
        PROVE  \E j \in DOMAIN new : new[j] = owners[i]
    <3>1. CASE i < k
      <4>1. i \in DOMAIN new
        BY <1>3, <1>5
      <4> QED BY <3>1, <4>1, <1>5, <1>6
    <3>2. CASE ~(i < k)
      <4>1. i + 1 \in DOMAIN new /\ k < i + 1 /\ (i + 1) - 1 = i
        BY <3>2, <1>1, <1>3, <1>5
      <4> QED BY <4>1, <1>5, <1>6
    <3> QED BY <3>1, <3>2
  <2>2. ASSUME NEW j \in DOMAIN new
        PROVE  new[j] = s \/ \E i \in DOMAIN owners : new[j] = owners[i]
    <3>1. j < k \/ j = k \/ k < j
      BY <1>1, <1>3, <1>5
    <3>2. j \in 1 .. Len(owners) + 1
      BY <1>5
    <3> QED BY <3>1, <3>2, <1>6, Zenon
  <2>3. k \in DOMAIN new /\ new[k] = s
    BY <1>1, <1>5, <1>6
  <2> HIDE DEF owners
  <2> QED BY <2>1, <2>2, <2>3, <1>2
<1>10. {owners[i].owner : i \in DOMAIN owners} = {p.owner : p \in P}
  BY DEF OwnersSound
<1>11. ASSUME NEW i \in DOMAIN new
       PROVE  Increasing(new[i].pieces) /\ ToSet(new[i].pieces) = Listed(P, new[i].owner)
  <2>1. CASE new[i] = s
    <3>1. Increasing(<<>>) /\ ToSet(<<>>) = {}
      BY DEF Increasing, ToSet
    <3>2. Listed(P, o) = {}
      BY <1>7, <1>10 DEF Listed
    <3> QED BY <2>1, <3>1, <3>2, <1>2
  <2>2. CASE \E j \in DOMAIN owners : new[i] = owners[j]
    BY <2>2 DEF OwnersSound
  <2>3. i < k \/ i = k \/ k < i
    BY <1>1, <1>3, <1>5
  <2>4. i \in 1 .. Len(owners) + 1
    BY <1>5
  <2>5. new[i] = s \/ \E j \in DOMAIN owners : new[i] = owners[j]
    BY <2>3, <2>4, <1>6, Zenon
  <2> QED BY <2>1, <2>2, <2>5
<1> QED BY <1>5, <1>8, <1>9, <1>10, <1>11 DEF OwnersSound, OwnersSorted

\* One id leaves a list.
LEMMA ListShrinks ==
  ASSUME NEW pieces \in Seq(Positive), Increasing(pieces), NEW id,
         NEW left, left = Kept(pieces, ToSet(pieces) \ {id})
  PROVE  /\ left \in Seq(Positive) /\ Increasing(left)
         /\ ToSet(left) = ToSet(pieces) \ {id}
         /\ left = <<>> <=> ToSet(left) = {}
<1>1. left \in Seq(Positive) /\ ToSet(left) = ToSet(pieces) \cap (ToSet(pieces) \ {id})
  BY KeptFacts
<1>2. ToSet(pieces) \cap (ToSet(pieces) \ {id}) = ToSet(pieces) \ {id}
  OBVIOUS
<1>3. Increasing(left)
  <2>1. pieces \in Seq(Int)
    <3>1. Len(pieces) \in Nat /\ pieces \in [1 .. Len(pieces) -> Positive]
      BY LenProperties
    <3>2. pieces \in [1 .. Len(pieces) -> Int]
      BY <3>1 DEF Positive
    <3> QED BY <3>1, <3>2
  <2> QED BY <2>1, KeptIncreasing
<1>4. left = <<>> <=> ToSet(left) = {}
  <2>1. left # <<>> => ToSet(left) # {}
    <3>1. Len(left) \in Nat /\ DOMAIN left = 1 .. Len(left) /\ (left # <<>> => Len(left) # 0)
      BY <1>1, LenProperties, EmptySeq
    <3>2. left # <<>> => 1 \in DOMAIN left
      BY <3>1
    <3> QED BY <3>2 DEF ToSet
  <2>2. ToSet(<<>>) = {}
    BY DEF ToSet
  <2> QED BY <2>1, <2>2
<1> QED BY <1>1, <1>2, <1>3, <1>4

\* A piece leaves its owner's list, and an owner whose last piece it was goes.
LEMMA OwnersWithout ==
  ASSUME NEW P, NEW owners \in Seq(OwnerStates), OwnersSound(P, owners, {}),
         NEW p \in P, \A q \in P : q.id = p.id => q = p,
         NEW k \in DOMAIN owners, owners[k].owner = p.owner,
         NEW left, left = Kept(owners[k].pieces, ToSet(owners[k].pieces) \ {p.id}),
         NEW new, new = IF left = <<>> THEN RemoveAt(owners, k)
                                       ELSE [owners EXCEPT ![k].pieces = left]
  PROVE  new \in Seq(OwnerStates) /\ OwnersSound(P \ {p}, new, {})
<1> DEFINE s == owners[k]
<1>1. /\ Len(owners) \in Nat /\ DOMAIN owners = 1 .. Len(owners)
      /\ \A i \in DOMAIN owners : owners[i] \in OwnerStates
  BY ElementsIn
<1>2. s \in OwnerStates /\ s.pieces \in Seq(Positive)
  BY <1>1 DEF OwnerStates
<1>3. /\ Increasing(s.pieces) /\ ToSet(s.pieces) = Listed(P, p.owner)
      /\ {owners[i].owner : i \in DOMAIN owners} = {q.owner : q \in P}
      /\ OwnersSorted(owners)
  BY DEF OwnersSound
<1>4. /\ left \in Seq(Positive) /\ Increasing(left)
      /\ ToSet(left) = ToSet(s.pieces) \ {p.id}
      /\ left = <<>> <=> ToSet(left) = {}
  <2> HIDE DEF s
  <2>1. left = Kept(s.pieces, ToSet(s.pieces) \ {p.id})
    BY DEF s
  <2> QED BY <1>2, <1>3, <2>1, ListShrinks
<1>5. ToSet(left) = Listed(P \ {p}, p.owner)
  BY <1>3, <1>4 DEF Listed
<1>6. \A o : o # p.owner => Listed(P \ {p}, o) = Listed(P, o)
  BY DEF Listed
<1>7. \A i \in DOMAIN owners : i # k => owners[i].owner # p.owner
  BY <1>3, OwnersApart
<1>8. CASE left = <<>>
  <2>1. /\ new \in Seq(OwnerStates) /\ DOMAIN new = 1 .. Len(owners) - 1
        /\ \A i \in 1 .. Len(owners) - 1 :
             new[i] = IF i < k THEN owners[i] ELSE owners[i + 1]
    BY <1>1, <1>8, RemoveAtFacts
  <2> DEFINE at == [i \in DOMAIN new |-> IF i < k THEN i ELSE i + 1]
  <2> DEFINE n == Len(owners)
  <2>14. n \in Nat /\ k \in 1 .. n /\ DOMAIN owners = 1 .. n /\ DOMAIN new = 1 .. n - 1
    BY <1>1, <2>1
  <2>2. ASSUME NEW i \in DOMAIN new
        PROVE  at[i] \in DOMAIN owners /\ at[i] # k /\ new[i] = owners[at[i]]
    <3>1. new[i] = owners[at[i]]
      BY <2>1
    <3> HIDE DEF n
    <3>2. i \in 1 .. n - 1
      BY <2>14
    <3>3. at[i] \in 1 .. n /\ at[i] # k
      BY ONLY <2>14, <3>2
    <3> QED BY <3>1, <3>3, <2>14
  <2>3. \A i, j \in DOMAIN new : i < j => at[i] < at[j]
    BY <2>14
  <2>4. ASSUME NEW j \in DOMAIN owners, j # k PROVE \E i \in DOMAIN new : new[i] = owners[j]
    <3>1. CASE j < k
      <4>1. j \in DOMAIN new
        BY <3>1, <1>1, <2>1
      <4> QED BY <3>1, <4>1, <2>1
    <3>2. CASE ~(j < k)
      <4>1. j - 1 \in 1 .. Len(owners) - 1 /\ ~(j - 1 < k) /\ (j - 1) + 1 = j
        BY <3>2, <2>4, <1>1
      <4> QED BY <4>1, <2>1
    <3> QED BY <3>1, <3>2
  <2> HIDE DEF at
  <2> HIDE DEF n, s
  <2>5. OwnersSorted(new)
    BY ONLY <1>3, <2>2, <2>3 DEF OwnersSorted
  <2>6. Listed(P \ {p}, p.owner) = {}
    BY <1>4, <1>5, <1>8
  <2>7. {q.owner : q \in P \ {p}} = {q.owner : q \in P} \ {p.owner}
    BY <2>6 DEF Listed
  <2>8. {new[i].owner : i \in DOMAIN new} = {owners[i].owner : i \in DOMAIN owners} \ {p.owner}
    <3>1. \A i \in DOMAIN new : new[i].owner \in {owners[j].owner : j \in DOMAIN owners} \ {p.owner}
      BY ONLY <2>2, <1>7
    <3>2. owners[k].owner = p.owner
      OBVIOUS
    <3>3. \A j \in DOMAIN owners : owners[j].owner # p.owner =>
            \E i \in DOMAIN new : new[i].owner = owners[j].owner
      BY ONLY <2>4, <3>2
    <3> QED BY ONLY <3>1, <3>3
  <2>9. ASSUME NEW i \in DOMAIN new
        PROVE  /\ Increasing(new[i].pieces)
               /\ ToSet(new[i].pieces) = Listed(P \ {p}, new[i].owner)
    <3>1. PICK j \in DOMAIN owners : new[i] = owners[j] /\ owners[j].owner # p.owner
      BY ONLY <2>2, <1>7, <2>9
    <3>2. /\ Increasing(owners[j].pieces)
          /\ ToSet(owners[j].pieces) = Listed(P, owners[j].owner)
      BY DEF OwnersSound
    <3>3. Listed(P, owners[j].owner) = Listed(P \ {p}, owners[j].owner)
      BY <3>1, <1>6
    <3> QED BY ONLY <3>1, <3>2, <3>3
  <2> QED BY <2>1, <2>5, <2>7, <2>8, <2>9, <1>3 DEF OwnersSound
<1>9. CASE left # <<>>
  <2> DEFINE t == [s EXCEPT !.pieces = left]
  <2>1. t \in OwnerStates /\ t.pieces = left /\ t.owner = p.owner
    BY <1>2, <1>4 DEF OwnerStates
  <2> HIDE DEF t
  <2>2. new = [owners EXCEPT ![k] = t]
    BY <1>9 DEF t
  <2>3. /\ new \in Seq(OwnerStates) /\ DOMAIN new = DOMAIN owners
        /\ \A i \in DOMAIN owners : new[i] = IF i = k THEN t ELSE owners[i]
    <3> DEFINE u == [owners EXCEPT ![k] = t]
    <3>1. k \in 1 .. Len(owners)
      BY <1>1
    <3>2. /\ u \in Seq(OwnerStates) /\ Len(u) = Len(owners)
          /\ \A i \in 1 .. Len(owners) : u[i] = IF i = k THEN t ELSE owners[i]
      BY ONLY owners \in Seq(OwnerStates), <2>1, <3>1, ExceptSeq
    <3> HIDE DEF u
    <3>3. DOMAIN u = 1 .. Len(owners)
      BY <3>2, LenProperties
    <3> QED BY <3>2, <3>3, <2>2, <1>1 DEF u
  <2>4. \A i \in DOMAIN owners : new[i].owner = owners[i].owner
    <3>1. owners[k].owner = p.owner
      OBVIOUS
    <3> QED BY ONLY <2>1, <2>3, <3>1
  <2>5. OwnersSorted(new)
    <3>1. DOMAIN new = DOMAIN owners
      BY ONLY <2>3
    <3> QED BY ONLY <1>3, <2>4, <3>1 DEF OwnersSorted
  <2>6. Listed(P \ {p}, p.owner) # {}
    BY <1>4, <1>5, <1>9
  <2>7. {q.owner : q \in P \ {p}} = {q.owner : q \in P}
    BY <2>6 DEF Listed
  <2>8. {new[i].owner : i \in DOMAIN new} = {owners[i].owner : i \in DOMAIN owners}
    BY ONLY <2>3, <2>4
  <2>9. ASSUME NEW i \in DOMAIN new
        PROVE  /\ Increasing(new[i].pieces)
               /\ ToSet(new[i].pieces) = Listed(P \ {p}, new[i].owner)
    <3>1. CASE i = k
      BY <3>1, <2>1, <2>3, <1>4, <1>5
    <3>2. CASE i # k
      BY <3>2, <2>3, <1>6, <1>7 DEF OwnersSound
    <3> QED BY <3>1, <3>2
  <2> QED BY <2>3, <2>5, <2>7, <2>8, <2>9, <1>3 DEF OwnersSound
<1> QED BY <1>8, <1>9

-----------------------------------------------------------------------------
(* Spawning and removing.                                                  *)

\* The deadline of anything is a tick.
LEMMA DeadlineType ==
  ASSUME LastTick \in Nat, NEW tick \in Nat, NEW n \in Nat
  PROVE  DeadlineAfter(tick, n) \in 0 .. LastTick
BY DEF DeadlineAfter

\* What the store needs for a piece of owner o to come.
Expecting(w, o) ==
  Stored(w) /\ Numbered(w) /\ OwnersSound(ToSet(w.players), w.owners, {o})

\* The same owners in the same order.
SameOwners(w, v) ==
  /\ DOMAIN v.owners = DOMAIN w.owners
  /\ \A k \in DOMAIN w.owners : v.owners[k].owner = w.owners[k].owner

\* Every state is one of the old states, but for the list of pieces.
StatesFrom(owners, new) ==
  \A t \in ToSet(new) : \E s \in ToSet(owners) :
    s.owner = t.owner /\ s.lastInput = t.lastInput

\* ... the whole of it.
StatesKept(owners, new) ==
  \A t \in ToSet(new) : \E s \in ToSet(owners) :
    /\ s.owner = t.owner /\ s.lastInput = t.lastInput /\ s.move = t.move
    /\ s.lastMove = t.lastMove /\ s.cooldown = t.cooldown

\* The same owners, of whom the same inputs were applied.
SameInputs(w, v) ==
  /\ SameOwners(w, v)
  /\ \A k \in DOMAIN w.owners : v.owners[k].lastInput = w.owners[k].lastInput

\* A new piece of an owner that is there.
LEMMA AppendPieceSound ==
  ASSUME NEW w, NEW p \in Pieces, Expecting(w, p.owner), p.radius = RadiusForMass(p.mass),
         p.id = w.next, HasNextEntity(w), LastEntity \in Nat
  PROVE  /\ Sound(AppendPiece(w, p))
         /\ AppendPiece(w, p).players = Append(w.players, p)
         /\ AppendPiece(w, p).food = w.food /\ AppendPiece(w, p).tick = w.tick
         /\ AppendPiece(w, p).next = w.next + 1
         /\ SameInputs(w, AppendPiece(w, p))
<1> DEFINE v == WithPlayer(w, p)
           k == FindOwner(w, p.owner)
           owners == [w.owners EXCEPT ![k].pieces = Append(@, p.id)]
           u == AppendPiece(w, p)
<1>1. /\ Stored(w) /\ Numbered(w) /\ OwnersSound(ToSet(w.players), w.owners, {p.owner})
      /\ w.next \in 1 .. LastEntity + 1 /\ w.next <= LastEntity
      /\ w.owners \in Seq(OwnerStates)
  BY DEF Expecting, Numbered, HasNextEntity
<1>2. p.id \notin DOMAIN w.locations
  <2>1. \A id \in DOMAIN w.locations : id < w.next
    BY <1>1 DEF Numbered
  <2> QED BY <2>1, <1>1
<1>3. /\ EnteredAlone(w, v, p.id)
      /\ ToSet(v.players) = ToSet(w.players) \cup {p}
      /\ v.players = Append(w.players, p) /\ v.food = w.food
  BY <1>1, <1>2, WithPlayerStored
<1>4. k \in DOMAIN w.owners /\ w.owners[k].owner = p.owner
  <2>1. p.owner \in Int
    BY DEF Pieces, Positive
  <2>2. SearchFinds(w, p.owner)
    BY <1>1, <2>1, FindOwnerFacts DEF OwnersSound
  <2>3. p.owner \in {w.owners[i].owner : i \in DOMAIN w.owners}
    BY <1>1 DEF OwnersSound
  <2> QED BY <2>2, <2>3 DEF SearchFinds
<1>5. \A q \in ToSet(w.players) : q.id < p.id
  BY <1>1 DEF Numbered, Stored, Arrays, IdsOf
<1>6. p.id \in Positive
  BY DEF Pieces
<1> HIDE DEF v, k
<1>7. owners \in Seq(OwnerStates) /\ OwnersSound(ToSet(v.players), owners, {})
  <2> HIDE DEF owners
  <2>1. owners = [w.owners EXCEPT ![k].pieces = Append(@, p.id)]
    BY DEF owners
  <2>2. owners \in Seq(OwnerStates) /\ OwnersSound(ToSet(w.players) \cup {p}, owners, {})
    BY ONLY <1>1, <1>4, <1>5, <1>6, <2>1, OwnersAppend
  <2> QED BY <2>2, <1>3
<1>8. u = [v EXCEPT !.owners = owners, !.next = w.next + 1]
  <2>1. /\ v.owners = w.owners /\ v.next = w.next
        /\ DOMAIN v = WorldFields
    BY <1>3 DEF EnteredAlone, Stored
  <2>2. u = [v EXCEPT !.owners[k].pieces = Append(@, p.id), !.next = @ + 1]
    BY DEF AppendPiece, v, k
  <2> QED BY <2>1, <2>2 DEF WorldFields
<1> HIDE DEF u, owners
<1>9. DOMAIN v = WorldFields
  BY <1>3 DEF EnteredAlone, Stored
<1>10. /\ DOMAIN u = WorldFields
       /\ u.owners = owners /\ u.next = w.next + 1
       /\ u.players = v.players /\ u.food = v.food /\ u.locations = v.locations
       /\ u.grid = v.grid /\ u.tick = v.tick
  BY <1>8, <1>9 DEF WorldFields
<1>11. Stored(u)
  BY <1>3, <1>10 DEF EnteredAlone, Stored
<1>12. Numbered(u)
  <2>1. DOMAIN u.locations = DOMAIN w.locations \cup {p.id} /\ u.tick = w.tick
    BY <1>3, <1>10 DEF EnteredAlone
  <2>2. ASSUME NEW id \in DOMAIN w.locations PROVE id < w.next + 1
    <3>1. id < w.next
      BY <1>1 DEF Numbered
    <3>2. id \in Int
      <4>1. \A x \in Pieces \cup Foods : x.id \in Int
        BY DEF Pieces, Foods, Positive
      <4>2. id \in IdsOf(ToSet(w.players)) \cup IdsOf(ToSet(w.food))
        BY <1>1 DEF Stored, Arrays
      <4>3. /\ \A x \in ToSet(w.players) : x \in Pieces
            /\ \A x \in ToSet(w.food) : x \in Foods
        BY <1>1, ElementsIn DEF Stored
      <4> QED BY <4>1, <4>2, <4>3 DEF IdsOf
    <3> QED BY <3>1, <3>2, <1>1
  <2>3. p.id < w.next + 1
    BY <1>1
  <2> QED BY <2>1, <2>2, <2>3, <1>1, <1>7, <1>10 DEF Numbered
<1>13. OwnersSound(ToSet(u.players), u.owners, {})
  BY <1>7, <1>10
<1>14. u.players = Append(w.players, p) /\ u.food = w.food /\ u.tick = w.tick
  BY <1>3, <1>10 DEF EnteredAlone
<1>15. SameInputs(w, u)
  <2>1. DOMAIN owners = DOMAIN w.owners
    BY DEF owners
  <2>2. ASSUME NEW j \in DOMAIN w.owners
        PROVE  owners[j].owner = w.owners[j].owner /\ owners[j].lastInput = w.owners[j].lastInput
    <3>1. w.owners[j] \in OwnerStates
      BY <1>1, ElementsIn
    <3>2. owners[j] = w.owners[j] \/ owners[j] = [w.owners[j] EXCEPT !.pieces = Append(@, p.id)]
      BY DEF owners
    <3> QED BY <3>1, <3>2 DEF OwnerStates
  <2> QED BY <2>1, <2>2, <1>10 DEF SameOwners, SameInputs
<1>16. u.next = w.next + 1
  BY <1>10
<1> QED BY <1>11, <1>12, <1>13, <1>14, <1>15, <1>16 DEF Sound, u

\* Every id of a stored world is a positive number.
LEMMA LocatedPositive ==
  ASSUME NEW w, Stored(w), NEW id \in DOMAIN w.locations
  PROVE  id \in Positive
<1>1. \A x \in Pieces \cup Foods : x.id \in Positive
  BY DEF Pieces, Foods
<1>2. id \in IdsOf(ToSet(w.players)) \cup IdsOf(ToSet(w.food))
  BY DEF Stored, Arrays
<1>3. /\ \A x \in ToSet(w.players) : x \in Pieces
      /\ \A x \in ToSet(w.food) : x \in Foods
  BY ElementsIn DEF Stored
<1> QED BY <1>1, <1>2, <1>3 DEF IdsOf

\* The owner of the piece to come is there, or is entered.
LEMMA WithOwnerExpecting ==
  ASSUME NEW w, Sound(w), NEW o \in Positive
  PROVE  /\ Expecting(WithOwner(w, o), o)
         /\ WithOwner(w, o).players = w.players /\ WithOwner(w, o).food = w.food
         /\ WithOwner(w, o).next = w.next /\ WithOwner(w, o).tick = w.tick
         /\ StatesFrom(WithOwner(w, o).owners, w.owners)
<1> DEFINE v == WithOwner(w, o)
           P == ToSet(w.players)
<1>1. /\ Stored(w) /\ Numbered(w) /\ OwnersSound(P, w.owners, {})
      /\ w.owners \in Seq(OwnerStates) /\ 0 \in 0 .. LastTick
  <2>1. 0 \in 0 .. LastTick
    BY WorldAssumption
  <2> QED BY <2>1 DEF Sound, Numbered
<1>2. SearchFinds(w, o)
  BY <1>1, FindOwnerFacts DEF OwnersSound, Positive
<1>3. 0 \notin DOMAIN w.owners
  BY <1>1, ElementsIn
<1>4. CASE FindOwner(w, o) # 0
  <2>1. v = w
    BY <1>4 DEF WithOwner
  <2>2. \E i \in DOMAIN w.owners : w.owners[i].owner = o
    BY <1>2, <1>4 DEF SearchFinds
  <2>3. OwnersSound(P, w.owners, {o})
    <3>1. o \in {w.owners[i].owner : i \in DOMAIN w.owners}
      BY <2>2
    <3> QED BY <3>1, <1>1 DEF OwnersSound
  <2>4. StatesFrom(w.owners, w.owners)
    BY DEF StatesFrom
  <2> HIDE DEF v
  <2> QED BY <2>1, <2>3, <2>4, <1>1 DEF Expecting, v
<1>5. CASE FindOwner(w, o) = 0
  <2> DEFINE owners == InsertAt(w.owners, LowerBound(w, o), NewOwner(o))
  <2>1. v = [w EXCEPT !.owners = owners]
    BY <1>5 DEF WithOwner
  <2>2. \A i \in DOMAIN w.owners : w.owners[i].owner # o
    BY <1>2, <1>3, <1>5 DEF SearchFinds
  <2>3. owners \in Seq(OwnerStates) /\ OwnersSound(P, owners, {o})
    BY <1>1, <2>2, OwnersInsert
  <2>6. StatesFrom(owners, w.owners)
    <3> DEFINE k == LowerBound(w, o)  s == w.owners
    <3>1. s \in Seq(OwnerStates) /\ k \in 1 .. Len(s) + 1
      BY <1>1, <1>2 DEF SearchFinds
    <3>2. NewOwner(o) \in OwnerStates
      BY <1>1 DEF NewOwner, OwnerStates, NoInput
    <3>3. /\ Len(s) \in Nat /\ DOMAIN s = 1 .. Len(s)
      BY <3>1, ElementsIn
    <3> HIDE DEF k, s
    <3>4. InsertIs(OwnerStates, s, k, NewOwner(o), InsertAt(s, k, NewOwner(o)))
      BY ONLY <3>1, <3>2, InsertAtFacts
    <3>5. /\ DOMAIN owners = 1 .. Len(s) + 1
          /\ \A i \in 1 .. Len(s) + 1 :
               owners[i] = IF i < k THEN s[i] ELSE IF i = k THEN NewOwner(o) ELSE s[i - 1]
      BY <3>4 DEF InsertIs, s, k
    <3> HIDE DEF owners
    <3>6. ASSUME NEW i \in DOMAIN s PROVE \E j \in DOMAIN owners : owners[j] = s[i]
      <4>1. CASE i < k
        <5>1. i \in 1 .. Len(s) + 1
          BY <3>3
        <5> QED BY <4>1, <5>1, <3>5
      <4>2. CASE ~(i < k)
        <5>1. /\ i + 1 \in 1 .. Len(s) + 1 /\ ~(i + 1 < k) /\ i + 1 # k /\ (i + 1) - 1 = i
          BY <4>2, <3>1, <3>3
        <5>2. owners[i + 1] = s[i]
          BY <5>1, <3>5
        <5> QED BY <5>1, <5>2, <3>5
      <4> QED BY <4>1, <4>2
    <3>7. \A t \in ToSet(s) : t \in ToSet(owners)
      BY <3>6 DEF ToSet
    <3> QED BY <3>7 DEF StatesFrom, s
  <2> HIDE DEF owners, v
  <2>4. /\ DOMAIN v = WorldFields
        /\ v.owners = owners /\ v.players = w.players /\ v.food = w.food
        /\ v.locations = w.locations /\ v.grid = w.grid /\ v.next = w.next /\ v.tick = w.tick
    BY <2>1, <1>1 DEF Stored, WorldFields
  <2>5. Stored(v) /\ Numbered(v)
    BY <2>3, <2>4, <1>1 DEF Stored, Numbered
  <2> QED BY <2>3, <2>4, <2>5, <2>6 DEF Expecting, v
<1> QED BY <1>4, <1>5
\* The constants, as the proofs use them.
LEMMA ConstantTypes ==
  /\ LastEntity \in Nat /\ LastTick \in Nat
  /\ InitialMass \in Positive /\ FoodMass \in Positive
  /\ SplitRecast \in Nat /\ MergeDelay \in Nat
BY WorldAssumption DEF Positive

\* What spawning leaves: a piece without a key came, nobody's input is lost.
PlayerCame(w, v, pos) ==
  /\ \A q \in ToSet(v.players) :
       \/ q \in ToSet(w.players)
       \/ q.key = NoKey /\ q.pos = pos /\ q.radius = RadiusForMass(InitialMass)
  /\ StatesFrom(v.owners, w.owners)
  /\ v.food = w.food

\* spawn_player keeps the world sound.
LEMMA SpawnedPlayerSound ==
  ASSUME NEW w, Sound(w), NEW o \in Positive, NEW pos \in Int, HasNextEntity(w)
  PROVE  Sound(SpawnedPlayer(w, o, pos)) /\ PlayerCame(w, SpawnedPlayer(w, o, pos), pos)
<1> DEFINE v == WithOwner(w, o)
           p == Piece(w.next, o, pos, InitialMass, 0, DeadlineAfter(w.tick, MergeDelay), NoKey)
<1>1. /\ Expecting(v, o) /\ v.next = w.next /\ v.players = w.players /\ v.food = w.food
      /\ StatesFrom(v.owners, w.owners)
  BY WithOwnerExpecting
<1>5. p.key = NoKey /\ p.pos = pos /\ p.radius = RadiusForMass(InitialMass)
  BY DEF Piece
<1>2. p \in Pieces /\ p.owner = o /\ p.id = w.next /\ p.radius = RadiusForMass(p.mass)
  <2>1. w.next \in Positive /\ w.tick \in Nat
    BY ConstantTypes DEF Sound, Numbered, Positive
  <2>2. DeadlineAfter(w.tick, MergeDelay) \in 0 .. LastTick
    BY <2>1, ConstantTypes, DeadlineType
  <2>3. InitialMass \in Positive /\ RadiusForMass(InitialMass) \in Radii
    BY ConstantTypes DEF Radii
  <2>4. NoKey \in Seq(Int)
    BY DEF NoKey
  <2> QED BY <2>1, <2>2, <2>3, <2>4 DEF Piece, Pieces
<1>3. SpawnedPlayer(w, o, pos) = AppendPiece(v, p)
  BY DEF SpawnedPlayer
<1> HIDE DEF v, p
<1>4. HasNextEntity(v)
  BY <1>1 DEF HasNextEntity
<1> DEFINE u == SpawnedPlayer(w, o, pos)
<1>6. /\ Sound(u) /\ u.players = Append(v.players, p) /\ u.food = v.food /\ SameInputs(v, u)
  BY <1>1, <1>2, <1>3, <1>4, ConstantTypes, AppendPieceSound
<1> HIDE DEF u
<1>7. ToSet(u.players) = ToSet(w.players) \cup {p}
  <2>1. v.players \in Seq(Pieces)
    BY <1>1 DEF Expecting, Stored
  <2>2. ToSet(Append(v.players, p)) = ToSet(v.players) \cup {p}
    BY ONLY <1>2, <2>1, AppendFacts
  <2> QED BY <2>2, <1>1, <1>6
<1>8. StatesFrom(u.owners, v.owners)
  BY <1>6 DEF SameInputs, SameOwners, StatesFrom, ToSet
<1>9. StatesFrom(u.owners, w.owners)
  BY <1>1, <1>8 DEF StatesFrom
<1>10. PlayerCame(w, u, pos)
  BY <1>1, <1>5, <1>6, <1>7, <1>9 DEF PlayerCame
<1> QED BY <1>6, <1>10 DEF u

\* What spawning food leaves.
FoodCame(w, v, pos) ==
  /\ v.players = w.players /\ v.owners = w.owners
  /\ \A f \in ToSet(v.food) : f \in ToSet(w.food) \/ f.pos = pos

\* spawn_food keeps the world sound.
LEMMA SpawnedFoodSound ==
  ASSUME NEW w, Sound(w), NEW pos \in Int, HasNextEntity(w)
  PROVE  Sound(SpawnedFood(w, pos)) /\ FoodCame(w, SpawnedFood(w, pos), pos)
<1> DEFINE f == [id |-> w.next, pos |-> pos]
           v == WithFood(w, f)
           u == SpawnedFood(w, pos)
<1>1. /\ Stored(w) /\ Numbered(w) /\ OwnersSound(ToSet(w.players), w.owners, {})
      /\ w.next \in 1 .. LastEntity + 1 /\ w.next <= LastEntity
  BY DEF Sound, Numbered, HasNextEntity
<1>2. f \in Foods /\ f.id = w.next
  BY <1>1, ConstantTypes DEF Foods, Positive
<1>3. f.id \notin DOMAIN w.locations
  BY <1>1, <1>2, ConstantTypes DEF Numbered
<1>4. /\ EnteredAlone(w, v, w.next) /\ v.players = w.players
      /\ ToSet(v.food) = ToSet(w.food) \cup {f}
  <2>1. /\ f \in Foods /\ Stored(w) /\ f.id \notin DOMAIN w.locations /\ f.id = w.next
        /\ v = WithFood(w, f) /\ w.food \in Seq(Foods)
    BY <1>1, <1>2, <1>3 DEF Stored
  <2> HIDE DEF f, v
  <2>2. EnteredAlone(w, v, w.next) /\ v.players = w.players /\ v.food = Append(w.food, f)
    BY <2>1, WithFoodStored
  <2>3. ToSet(Append(w.food, f)) = ToSet(w.food) \cup {f}
    BY ONLY <2>1, AppendFacts
  <2> QED BY <2>2, <2>3
<1>5. u = [v EXCEPT !.next = w.next + 1]
  BY <1>4 DEF SpawnedFood, EnteredAlone, Stored, WorldFields
<1> HIDE DEF u, v
<1>6. DOMAIN v = WorldFields
  BY <1>4 DEF EnteredAlone, Stored
<1>7. /\ DOMAIN u = WorldFields /\ u.next = w.next + 1
      /\ u.players = v.players /\ u.food = v.food /\ u.locations = v.locations
      /\ u.grid = v.grid /\ u.tick = v.tick /\ u.owners = v.owners
  BY <1>5, <1>6 DEF WorldFields
<1>8. Stored(u)
  BY <1>4, <1>7 DEF EnteredAlone, Stored
<1>9. Numbered(u)
  <2>1. /\ DOMAIN u.locations = DOMAIN w.locations \cup {w.next}
        /\ u.tick = w.tick /\ u.owners = w.owners
    BY <1>4, <1>7 DEF EnteredAlone
  <2>2. ASSUME NEW id \in DOMAIN w.locations PROVE id < w.next + 1
    <3>1. id < w.next /\ id \in Int
      BY <1>1, LocatedPositive DEF Numbered, Positive
    <3> QED BY <3>1, <1>1, ConstantTypes
  <2> QED BY <2>1, <2>2, <1>1, <1>7, ConstantTypes DEF Numbered
<1>10. OwnersSound(ToSet(u.players), u.owners, {})
  BY <1>1, <1>4, <1>7 DEF EnteredAlone
<1>11. FoodCame(w, u, pos)
  <2>1. u.owners = w.owners /\ u.players = w.players /\ ToSet(u.food) = ToSet(w.food) \cup {f}
    BY <1>4, <1>7 DEF EnteredAlone
  <2>2. f.pos = pos
    OBVIOUS
  <2> HIDE DEF f
  <2> QED BY <2>1, <2>2 DEF FoodCame
<1> QED BY <1>8, <1>9, <1>10, <1>11 DEF Sound, u

\* That is so when a piece leaves its owner's list.
LEMMA StatesShrink ==
  ASSUME NEW owners \in Seq(OwnerStates), NEW k \in DOMAIN owners, NEW left,
         NEW new, new = IF left = <<>> THEN RemoveAt(owners, k)
                                       ELSE [owners EXCEPT ![k].pieces = left]
  PROVE  StatesKept(owners, new)
<1>1. /\ Len(owners) \in Nat /\ DOMAIN owners = 1 .. Len(owners)
      /\ \A i \in DOMAIN owners : owners[i] \in OwnerStates
  BY ElementsIn
<1>2. CASE left = <<>>
  <2>1. /\ DOMAIN new = 1 .. Len(owners) - 1
        /\ \A i \in 1 .. Len(owners) - 1 : new[i] = IF i < k THEN owners[i] ELSE owners[i + 1]
    BY <1>1, <1>2, RemoveAtFacts
  <2>2. \A i \in 1 .. Len(owners) - 1 : i \in DOMAIN owners /\ i + 1 \in DOMAIN owners
    BY <1>1
  <2>3. \A i \in DOMAIN new : new[i] \in ToSet(owners)
    BY <2>1, <2>2 DEF ToSet
  <2> QED BY <2>3 DEF StatesKept, ToSet
<1>3. CASE left # <<>>
  <2>1. new = [owners EXCEPT ![k].pieces = left]
    BY <1>3
  <2>2. DOMAIN new = DOMAIN owners
    BY <2>1
  <2>3. ASSUME NEW i \in DOMAIN owners
        PROVE  /\ owners[i].owner = new[i].owner /\ owners[i].lastInput = new[i].lastInput
               /\ owners[i].move = new[i].move /\ owners[i].lastMove = new[i].lastMove
               /\ owners[i].cooldown = new[i].cooldown
    <3>1. new[i] = owners[i] \/ new[i] = [owners[i] EXCEPT !.pieces = left]
      BY <2>1
    <3> QED BY <3>1, <1>1 DEF OwnerStates
  <2>4. ASSUME NEW t \in ToSet(new)
        PROVE  \E s \in ToSet(owners) :
                 /\ s.owner = t.owner /\ s.lastInput = t.lastInput /\ s.move = t.move
                 /\ s.lastMove = t.lastMove /\ s.cooldown = t.cooldown
    <3>1. PICK i \in DOMAIN owners : t = new[i]
      BY <2>2 DEF ToSet
    <3>2. owners[i] \in ToSet(owners)
      BY <1>1 DEF ToSet
    <3> QED BY <3>1, <3>2, <2>3
  <2> QED BY <2>4 DEF StatesKept
<1> QED BY <1>2, <1>3

\* What removing a player leaves.
PlayerGone(w, v, id) ==
  /\ Sound(v)
  /\ IdsOf(ToSet(v.players)) = IdsOf(ToSet(w.players)) \ {id}
  /\ ToSet(v.players) \subseteq ToSet(w.players) /\ StatesKept(w.owners, v.owners)
  /\ v.food = w.food /\ v.tick = w.tick /\ v.next = w.next

\* remove_player keeps the world sound.
LEMMA RemovedPlayerSound ==
  ASSUME NEW w, Sound(w), NEW id \in IdsOf(ToSet(w.players))
  PROVE  PlayerGone(w, RemovedPlayer(w, id), id)
<1> DEFINE i == FindIndex(w, id)
           p == w.players[i]
           P == ToSet(w.players)
           k == FindOwner(w, p.owner)
           left == Kept(w.owners[k].pieces, ToSet(w.owners[k].pieces) \ {id})
           owners == IF left = <<>> THEN RemoveAt(w.owners, k)
                                    ELSE [w.owners EXCEPT ![k].pieces = left]
           players == SwapAndPop(w.players, i)
           at == Relocate(w, w.players, i, "player")
           grid == Erase(w.grid, id)
           v == RemovedPlayer(w, id)
<1>1. /\ Stored(w) /\ Numbered(w) /\ OwnersSound(P, w.owners, {})
      /\ w.owners \in Seq(OwnerStates) /\ w.players \in Seq(Pieces)
      /\ Arrays(w.players, "player", w.food, "food", w.locations)
  BY DEF Sound, Numbered, Stored
<1>2. i \in DOMAIN w.players /\ p.id = id /\ p \in P
  BY <1>1, LocatedIs
<1>3. v = [w EXCEPT !.players = players, !.locations = at, !.grid = grid, !.owners = owners]
  BY DEF RemovedPlayer
<1>4. /\ players \in Seq(Pieces) /\ ToSet(players) = P \ {p}
      /\ Arrays(players, "player", w.food, "food", at)
      /\ DOMAIN at = DOMAIN w.locations \ {id}
  <2>1. LeavesArray(Pieces, w, w.players, i, "player", w.food, "food")
    <3> HIDE DEF i
    <3>1. "player" # "food"
      OBVIOUS
    <3> QED BY ONLY <1>1, <1>2, <3>1, ArraysRemove
  <2> QED BY <1>2, <2>1 DEF LeavesArray
<1>5. id \in Positive /\ id \in DOMAIN w.grid.entries
  BY <1>1, LocatedPositive DEF Stored, Arrays
<1>6. GridSound(grid) /\ grid.entries = [x \in DOMAIN w.grid.entries \ {id} |-> w.grid.entries[x]]
  BY <1>1, <1>5, EraseSound DEF Stored
<1>7. \A q \in P : q.id = p.id => q = p
  BY <1>1, <1>2, ArraysApart
<1>8. k \in DOMAIN w.owners /\ w.owners[k].owner = p.owner
  <2>1. p.owner \in Int
    <3>1. p \in Pieces
      BY <1>1, <1>2, ElementsIn
    <3> QED BY <3>1 DEF Pieces, Positive
  <2>2. SearchFinds(w, p.owner)
    BY <1>1, <2>1, FindOwnerFacts DEF OwnersSound
  <2>3. p.owner \in {w.owners[j].owner : j \in DOMAIN w.owners}
    BY <1>1, <1>2 DEF OwnersSound
  <2> QED BY <2>2, <2>3 DEF SearchFinds
<1> HIDE DEF v, players, at, grid, k
<1>15. StatesKept(w.owners, owners)
  <2> HIDE DEF left
  <2>1. owners = IF left = <<>> THEN RemoveAt(w.owners, k)
                                ELSE [w.owners EXCEPT ![k].pieces = left]
    OBVIOUS
  <2> HIDE DEF owners
  <2> QED BY ONLY <1>1, <1>8, <2>1, StatesShrink
<1>9. owners \in Seq(OwnerStates) /\ OwnersSound(P \ {p}, owners, {})
  <2>1. left = Kept(w.owners[k].pieces, ToSet(w.owners[k].pieces) \ {p.id})
    BY <1>2
  <2> HIDE DEF left, P, p
  <2>2. owners = IF left = <<>> THEN RemoveAt(w.owners, k)
                                ELSE [w.owners EXCEPT ![k].pieces = left]
    OBVIOUS
  <2> HIDE DEF owners
  <2> QED BY ONLY <1>1, <1>2, <1>7, <1>8, <2>1, <2>2, OwnersWithout
<1> HIDE DEF owners, p, i
<1>10. /\ DOMAIN v = WorldFields
       /\ v.players = players /\ v.locations = at /\ v.grid = grid /\ v.owners = owners
       /\ v.food = w.food /\ v.next = w.next /\ v.tick = w.tick
  BY <1>1, <1>3 DEF Stored, WorldFields
<1>11. IdsOf(ToSet(players)) = IdsOf(P) \ {id}
  BY <1>2, <1>4, <1>7 DEF IdsOf
<1>12. Stored(v)
  <2>1. /\ \A q \in ToSet(players) : q \in P /\ q.id \in DOMAIN w.locations /\ q.id # id
        /\ \A f \in ToSet(w.food) : f.id \in DOMAIN w.locations /\ f.id # id
    <3>1. \A f \in ToSet(w.food) : f.id # p.id
      BY <1>1, <1>2, ArraysApart
    <3> QED BY <3>1, <1>1, <1>2, <1>4, <1>7 DEF Arrays, IdsOf
  <2>2. \A x \in DOMAIN w.locations : x # id => grid.entries[x] = w.grid.entries[x]
    BY <1>1, <1>6 DEF Stored
  <2>3. DOMAIN grid.entries = DOMAIN at
    BY <1>1, <1>4, <1>6 DEF Stored
  <2> QED BY <2>1, <2>2, <2>3, <1>1, <1>4, <1>6, <1>10 DEF Stored
<1>13. Numbered(v)
  BY <1>1, <1>4, <1>9, <1>10 DEF Numbered
<1>14. OwnersSound(ToSet(v.players), v.owners, {})
  BY <1>4, <1>9, <1>10
<1>16. ToSet(v.players) \subseteq P /\ StatesKept(w.owners, v.owners)
  BY <1>4, <1>10, <1>15
<1> QED BY <1>10, <1>11, <1>12, <1>13, <1>14, <1>16 DEF PlayerGone, Sound, v

\* What removing a food leaves.
FoodGone(w, v, id) ==
  /\ Sound(v)
  /\ v.players = w.players /\ v.owners = w.owners
  /\ IdsOf(ToSet(v.food)) = IdsOf(ToSet(w.food)) \ {id}
  /\ ToSet(v.food) \subseteq ToSet(w.food)
  /\ v.tick = w.tick /\ v.next = w.next

\* remove_food keeps the world sound.
LEMMA RemovedFoodSound ==
  ASSUME NEW w, Sound(w), NEW id \in IdsOf(ToSet(w.food))
  PROVE  FoodGone(w, RemovedFood(w, id), id)
<1> DEFINE i == FindIndex(w, id)
           f == w.food[i]
           F == ToSet(w.food)
           food == SwapAndPop(w.food, i)
           at == Relocate(w, w.food, i, "food")
           grid == Erase(w.grid, id)
           v == RemovedFood(w, id)
<1>1. /\ Stored(w) /\ Numbered(w) /\ OwnersSound(ToSet(w.players), w.owners, {})
      /\ w.food \in Seq(Foods)
      /\ Arrays(w.food, "food", w.players, "player", w.locations)
  BY ArraysSwap DEF Sound, Stored
<1>2. i \in DOMAIN w.food /\ f.id = id /\ f \in F
  <2>1. i \in DOMAIN w.food /\ f.id = id
    BY <1>1, LocatedIs
  <2> QED BY <2>1 DEF ToSet
<1>3. v = [w EXCEPT !.food = food, !.locations = at, !.grid = grid]
  BY DEF RemovedFood
<1>4. /\ food \in Seq(Foods) /\ ToSet(food) = F \ {f}
      /\ Arrays(food, "food", w.players, "player", at)
      /\ DOMAIN at = DOMAIN w.locations \ {id}
  <2>1. LeavesArray(Foods, w, w.food, i, "food", w.players, "player")
    <3> HIDE DEF i
    <3>1. "food" # "player"
      OBVIOUS
    <3> QED BY ONLY <1>1, <1>2, <3>1, ArraysRemove
  <2> QED BY <1>2, <2>1 DEF LeavesArray
<1>5. id \in Positive /\ id \in DOMAIN w.grid.entries
  BY <1>1, LocatedPositive DEF Stored, Arrays
<1>6. GridSound(grid) /\ grid.entries = [x \in DOMAIN w.grid.entries \ {id} |-> w.grid.entries[x]]
  BY <1>1, <1>5, EraseSound DEF Stored
<1>7. \A q \in F : q.id = f.id => q = f
  BY <1>1, <1>2, ArraysApart
<1> HIDE DEF v, food, at, grid
<1> HIDE DEF f, i
<1>8. /\ DOMAIN v = WorldFields
      /\ v.food = food /\ v.locations = at /\ v.grid = grid
      /\ v.players = w.players /\ v.owners = w.owners /\ v.next = w.next /\ v.tick = w.tick
  BY <1>1, <1>3 DEF Stored, WorldFields
<1>9. IdsOf(ToSet(food)) = IdsOf(F) \ {id}
  BY <1>2, <1>4, <1>7 DEF IdsOf
<1>10. Stored(v)
  <2>1. /\ \A q \in ToSet(food) : q \in F /\ q.id \in DOMAIN w.locations /\ q.id # id
        /\ \A q \in ToSet(w.players) : q.id \in DOMAIN w.locations /\ q.id # id
    <3>1. \A q \in ToSet(w.players) : q.id # f.id
      BY <1>1, <1>2, ArraysApart
    <3> QED BY <3>1, <1>1, <1>2, <1>4, <1>7 DEF Arrays, IdsOf
  <2>2. \A x \in DOMAIN w.locations : x # id => grid.entries[x] = w.grid.entries[x]
    BY <1>1, <1>6 DEF Stored
  <2>3. DOMAIN grid.entries = DOMAIN at
    BY <1>1, <1>4, <1>6 DEF Stored
  <2>4. Arrays(w.players, "player", food, "food", at)
    BY <1>4, ArraysSwap
  <2> QED BY <2>1, <2>2, <2>3, <2>4, <1>1, <1>4, <1>6, <1>8 DEF Stored
<1>11. Numbered(v)
  BY <1>1, <1>4, <1>8 DEF Numbered
<1>12. OwnersSound(ToSet(v.players), v.owners, {})
  BY <1>1, <1>8
<1>13. ToSet(v.food) \subseteq F
  BY <1>4, <1>8
<1> QED BY <1>8, <1>9, <1>10, <1>11, <1>12, <1>13 DEF FoodGone, Sound, v

-----------------------------------------------------------------------------
(* A tick: a piece in place, the owners' states, the splits.               *)

\* One element of a sequence is replaced.
LEMMA ReplaceFacts ==
  ASSUME NEW T, NEW s \in Seq(T), NEW i \in DOMAIN s, NEW x \in T,
         NEW t, t = [s EXCEPT ![i] = x]
  PROVE  /\ t \in Seq(T) /\ DOMAIN t = DOMAIN s
         /\ t[i] = x /\ \A j \in DOMAIN s : j # i => t[j] = s[j]
<1> DEFINE u == [s EXCEPT ![i] = x]
<1>1. Len(s) \in Nat /\ DOMAIN s = 1 .. Len(s) /\ i \in 1 .. Len(s)
  BY LenProperties
<1>2. /\ u \in Seq(T) /\ Len(u) = Len(s)
      /\ \A j \in 1 .. Len(s) : u[j] = IF j = i THEN x ELSE s[j]
  BY ONLY s \in Seq(T), x \in T, <1>1, ExceptSeq
<1> HIDE DEF u
<1>3. DOMAIN u = 1 .. Len(s)
  BY <1>2, LenProperties
<1> QED BY <1>1, <1>2, <1>3 DEF u

\* A piece q takes the place of the i-th, which has its id, owner and key.
Replaces(w, i, q) ==
  /\ i \in DOMAIN w.players /\ q \in Pieces
  /\ q.id = w.players[i].id /\ q.owner = w.players[i].owner /\ q.key = w.players[i].key
  /\ q.radius = RadiusForMass(q.mass)

ReplacedOnly(w, v, i, q) ==
  /\ v.players = [w.players EXCEPT ![i] = q]
  /\ v.food = w.food /\ v.locations = w.locations /\ v.owners = w.owners
  /\ v.next = w.next /\ v.tick = w.tick /\ v.journal = w.journal

\* ... and the world stays sound.
LEMMA InPlaceSound ==
  ASSUME NEW w, Sound(w), NEW i, NEW q, Replaces(w, i, q)
  PROVE  Sound(InPlace(w, i, q)) /\ ReplacedOnly(w, InPlace(w, i, q), i, q)
<1> DEFINE v == InPlace(w, i, q)
           p == w.players[i]
           grid == Update(w.grid, q.id, Bounds(q))
           players == [w.players EXCEPT ![i] = q]
<1>1. /\ Stored(w) /\ Numbered(w) /\ OwnersSound(ToSet(w.players), w.owners, {})
      /\ w.players \in Seq(Pieces)
      /\ Arrays(w.players, "player", w.food, "food", w.locations)
  BY DEF Sound, Stored
<1>2. i \in DOMAIN w.players /\ q \in Pieces /\ p.id = q.id /\ p.owner = q.owner
  BY DEF Replaces
<1>3. /\ players \in Seq(Pieces) /\ DOMAIN players = DOMAIN w.players
      /\ players[i] = q /\ \A j \in DOMAIN w.players : j # i => players[j] = w.players[j]
  BY <1>1, <1>2, ReplaceFacts
<1>4. p \in ToSet(w.players) /\ q.id \in DOMAIN w.locations /\ q.id \in Positive
  BY <1>1, <1>2 DEF ToSet, Arrays, IdsOf, Pieces
<1>5. GridAfter(w.grid, grid, q.id, CellRange(Bounds(q)))
  BY <1>1, <1>4, UpdateSound DEF Stored
<1>6. v = [w EXCEPT !.players = players, !.grid = grid]
  BY DEF InPlace
<1> HIDE DEF v, grid, players, p
<1>7. /\ DOMAIN v = WorldFields
      /\ v.players = players /\ v.grid = grid
      /\ v.food = w.food /\ v.locations = w.locations /\ v.owners = w.owners
      /\ v.next = w.next /\ v.tick = w.tick /\ v.journal = w.journal
  BY <1>1, <1>6 DEF Stored, WorldFields
<1>8. \A j \in DOMAIN players : /\ players[j].id = w.players[j].id
                                /\ players[j].owner = w.players[j].owner
  BY <1>2, <1>3 DEF p
<1>9. Named(ToSet(players)) = Named(ToSet(w.players))
  <2>1. Named(ToSet(players)) = {<<players[j].id, players[j].owner>> : j \in DOMAIN players}
    BY DEF Named, ToSet
  <2>2. Named(ToSet(w.players)) = {<<w.players[j].id, w.players[j].owner>> : j \in DOMAIN w.players}
    BY DEF Named, ToSet
  <2> QED BY ONLY <2>1, <2>2, <1>3, <1>8
<1>10. IdsOf(ToSet(players)) = IdsOf(ToSet(w.players))
  <2>1. IdsOf(ToSet(players)) = {players[j].id : j \in DOMAIN players}
    BY DEF IdsOf, ToSet
  <2>2. IdsOf(ToSet(w.players)) = {w.players[j].id : j \in DOMAIN w.players}
    BY DEF IdsOf, ToSet
  <2> QED BY ONLY <2>1, <2>2, <1>3, <1>8
<1>11. Arrays(players, "player", w.food, "food", w.locations)
  BY ONLY <1>1, <1>3, <1>8, <1>10 DEF Arrays, Placed
<1>12. Stored(v)
  <2>1. \A j \in DOMAIN w.players : w.players[j].id = q.id => j = i
    BY <1>1, <1>2, ArraysApart DEF p
  <2>2. ASSUME NEW j \in DOMAIN players
        PROVE  /\ grid.entries[players[j].id] = CellRange(Bounds(players[j]))
               /\ players[j].radius = RadiusForMass(players[j].mass)
    <3>1. CASE j = i
      BY <3>1, <1>3, <1>5 DEF GridAfter, Replaces
    <3>2. CASE j # i
      <4>1. players[j] = w.players[j] /\ w.players[j].id # q.id
            /\ w.players[j] \in ToSet(w.players)
        BY <3>2, <2>1, <1>3 DEF ToSet
      <4>2. w.players[j].id \in DOMAIN w.grid.entries
        BY <4>1, <1>1 DEF Stored, Arrays, IdsOf
      <4> QED BY <4>1, <4>2, <1>1, <1>5 DEF GridAfter, Stored
    <3> QED BY <3>1, <3>2
  <2>3. ASSUME NEW f \in ToSet(w.food)
        PROVE  grid.entries[f.id] = CellRange(FoodBounds(f))
    <3>1. f.id # q.id
      BY <1>1, <1>2, <1>4, ArraysApart
    <3>2. f.id \in DOMAIN w.grid.entries
      BY <1>1 DEF Stored, Arrays, IdsOf
    <3> QED BY <3>1, <3>2, <1>1, <1>5 DEF GridAfter, Stored
  <2>4. GridSound(grid) /\ DOMAIN grid.entries = DOMAIN w.locations
    BY <1>1, <1>4, <1>5 DEF GridAfter, Stored
  <2>5. w.food \in Seq(Foods)
    BY <1>1 DEF Stored
  <2> HIDE DEF Bounds, FoodBounds
  <2>6. \A x \in ToSet(players) : /\ grid.entries[x.id] = CellRange(Bounds(x))
                                  /\ x.radius = RadiusForMass(x.mass)
    BY <2>2 DEF ToSet
  <2> QED BY ONLY <2>3, <2>4, <2>5, <2>6, <1>3, <1>7, <1>11 DEF Stored
<1>13. Numbered(v)
  BY <1>1, <1>7 DEF Numbered
<1>14. OwnersSound(ToSet(v.players), v.owners, {})
  BY <1>1, <1>7, <1>9, OwnersNamed
<1> QED BY <1>7, <1>12, <1>13, <1>14 DEF Sound, ReplacedOnly, v, players

\* The owners' states change, but not whose pieces they list.
OwnersAs(w, owners) ==
  /\ owners \in Seq(OwnerStates) /\ DOMAIN owners = DOMAIN w.owners
  /\ \A k \in DOMAIN owners : /\ owners[k].owner = w.owners[k].owner
                              /\ owners[k].pieces = w.owners[k].pieces

\* ... and the world stays sound.
LEMMA OwnersChanged ==
  ASSUME NEW w, Sound(w), NEW owners, OwnersAs(w, owners)
  PROVE  Sound([w EXCEPT !.owners = owners])
<1> DEFINE v == [w EXCEPT !.owners = owners]
<1>1. /\ DOMAIN v = WorldFields /\ v.owners = owners
      /\ v.players = w.players /\ v.grid = w.grid /\ v.food = w.food
      /\ v.locations = w.locations /\ v.next = w.next /\ v.tick = w.tick
  BY DEF Sound, Stored, WorldFields
<1> HIDE DEF v
<1>2. Stored(v)
  BY <1>1 DEF Sound, Stored
<1>3. Numbered(v)
  BY <1>1 DEF Sound, Numbered, OwnersAs
<1>4. OwnersSound(ToSet(w.players), owners, {})
  BY OwnersKept DEF Sound, OwnersAs
<1> QED BY <1>1, <1>2, <1>3, <1>4 DEF Sound, v

\* The journal is not the store's.
LEMMA JournalChanged ==
  ASSUME NEW w, Sound(w), NEW journal
  PROVE  Sound([w EXCEPT !.journal = journal])
<1> DEFINE v == [w EXCEPT !.journal = journal]
<1>1. /\ DOMAIN v = WorldFields /\ v.owners = w.owners
      /\ v.players = w.players /\ v.grid = w.grid /\ v.food = w.food
      /\ v.locations = w.locations /\ v.next = w.next /\ v.tick = w.tick
  BY DEF Sound, Stored, WorldFields
<1> HIDE DEF v
<1> QED BY <1>1 DEF Sound, Stored, Numbered, v

-----------------------------------------------------------------------------
(* A tick: commands and splits.                                            *)

\* A command that may be asked for.
IsCommand(c) == c.owner \in Positive /\ c.move \in Int /\ c.input \in Nat

\* An owner takes a command.
LEMMA CommandedType ==
  ASSUME NEW s \in OwnerStates, NEW c, IsCommand(c)
  PROVE  /\ Commanded(s, c) \in OwnerStates
         /\ Commanded(s, c).owner = s.owner /\ Commanded(s, c).pieces = s.pieces
<1> DEFINE last == IF c.type # "StopMovement" /\ c.move # 0 THEN c.move ELSE s.lastMove
           input == IF c.type = "ApplyInput" THEN c.input ELSE s.lastInput
<1>1. last \in Int /\ input \in Nat /\ c.move \in Int
  BY DEF IsCommand, OwnerStates
<1>2. Commanded(s, c) = [s EXCEPT !.move = c.move, !.lastMove = last, !.lastInput = input]
  BY DEF Commanded, OwnerStates
<1> HIDE DEF last, input
<1> QED BY <1>1, <1>2 DEF OwnerStates

\* An owner without a command is as before, another one took a command of its own.
CommandsApplied(w, cmds, v) ==
  \A k \in DOMAIN w.owners :
    \/ /\ v.owners[k] = w.owners[k]
       /\ \A i \in DOMAIN cmds : cmds[i].owner # w.owners[k].owner
    \/ \E i \in DOMAIN cmds : /\ cmds[i].owner = w.owners[k].owner
                              /\ v.owners[k] = Commanded(w.owners[k], cmds[i])

\* apply_commands changes what owners want and nothing else.
LEMMA ApplyCommandsSound ==
  ASSUME NEW w, Sound(w), NEW cmds, Len(cmds) \in Nat, DOMAIN cmds = 1 .. Len(cmds),
         \A i \in DOMAIN cmds : IsCommand(cmds[i])
  PROVE  /\ Sound(ApplyCommands(w, cmds)) /\ SameOwners(w, ApplyCommands(w, cmds))
         /\ ApplyCommands(w, cmds).players = w.players
         /\ ApplyCommands(w, cmds).food = w.food
         /\ ApplyCommands(w, cmds).tick = w.tick
         /\ CommandsApplied(w, cmds, ApplyCommands(w, cmds))
<1> DEFINE of(k) == SelectInSeq(cmds, LAMBDA x : x.owner = w.owners[k].owner)
           new(k) == IF of(k) = 0 THEN w.owners[k] ELSE Commanded(w.owners[k], cmds[of(k)])
           f == [k \in DOMAIN w.owners |-> new(k)]
           v == [w EXCEPT !.owners = f]
<1>1. /\ w.owners \in Seq(OwnerStates) /\ Len(w.owners) \in Nat
      /\ DOMAIN w.owners = 1 .. Len(w.owners)
      /\ \A k \in DOMAIN w.owners : w.owners[k] \in OwnerStates
  BY ElementsIn DEF Sound, Numbered
<1>2. ASSUME NEW k \in DOMAIN w.owners
      PROVE  \/ of(k) = 0 /\ \A i \in DOMAIN cmds : cmds[i].owner # w.owners[k].owner
             \/ of(k) # 0 /\ of(k) \in DOMAIN cmds /\ cmds[of(k)].owner = w.owners[k].owner
  <2> DEFINE I == {i \in 1 .. Len(cmds) : cmds[i].owner = w.owners[k].owner}
  <2>1. of(k) = IF I # {} THEN Min(I) ELSE 0
    BY DEF SelectInSeq
  <2>2. I # {} => Min(I) \in I
    <3>1. I \in SUBSET Nat
      OBVIOUS
    <3> HIDE DEF I
    <3> QED BY <3>1, NatMinIs
  <2>3. CASE I = {}
    <3>1. \A i \in DOMAIN cmds : cmds[i].owner # w.owners[k].owner
      BY <2>3
    <3> QED BY <2>1, <2>3, <3>1
  <2>4. CASE I # {}
    <3>1. of(k) \in I
      BY <2>1, <2>2, <2>4
    <3>2. \A x \in I : x # 0 /\ x \in DOMAIN cmds /\ cmds[x].owner = w.owners[k].owner
      OBVIOUS
    <3> HIDE DEF I, of
    <3> QED BY <3>1, <3>2
  <2> QED BY <2>3, <2>4
<1>3. ASSUME NEW k \in DOMAIN w.owners
      PROVE  new(k) \in OwnerStates /\ new(k).owner = w.owners[k].owner
                                   /\ new(k).pieces = w.owners[k].pieces
  <2>1. CASE of(k) = 0
    BY <2>1, <1>1
  <2>2. CASE of(k) # 0
    <3>1. IsCommand(cmds[of(k)]) /\ w.owners[k] \in OwnerStates
      BY <2>2, <1>1, <1>2
    <3>2. new(k) = Commanded(w.owners[k], cmds[of(k)])
      BY <2>2
    <3> HIDE DEF new, of
    <3> QED BY <3>1, <3>2, CommandedType
  <2> HIDE DEF of
  <2> QED BY <2>1, <2>2
<1>12. \A k \in DOMAIN w.owners :
         \/ new(k) = w.owners[k] /\ \A i \in DOMAIN cmds : cmds[i].owner # w.owners[k].owner
         \/ \E i \in DOMAIN cmds : /\ cmds[i].owner = w.owners[k].owner
                                   /\ new(k) = Commanded(w.owners[k], cmds[i])
  <2> HIDE DEF of
  <2> QED BY <1>2
<1> HIDE DEF new
<1>13. CommandsApplied(w, cmds, [owners |-> f])
  BY <1>12 DEF CommandsApplied
<1>4. f \in Seq(OwnerStates) /\ DOMAIN f = DOMAIN w.owners
  BY <1>1, <1>3
<1>5. <<>> \o f = f
  <2> HIDE DEF f
  <2> QED BY <1>4, ConcatEmptySeq
<1>6. ApplyCommands(w, cmds) = v
  <2>1. ApplyCommands(w, cmds) = [w EXCEPT !.owners = <<>> \o f]
    BY DEF ApplyCommands, new
  <2> HIDE DEF f
  <2> QED BY <2>1, <1>5
<1>7. OwnersAs(w, f)
  BY <1>3, <1>4 DEF OwnersAs
<1>8. SameOwners(w, [owners |-> f])
  BY <1>3, <1>4 DEF SameOwners
<1> HIDE DEF f
<1>9. Sound(v)
  BY <1>7, OwnersChanged
<1>10. v.owners = f /\ v.players = w.players /\ v.food = w.food /\ v.tick = w.tick
  BY DEF Sound, Stored, WorldFields
<1> HIDE DEF v
<1>11. SameOwners(w, v)
  BY <1>8, <1>10 DEF SameOwners
<1>14. CommandsApplied(w, cmds, v)
  BY <1>10, <1>13 DEF CommandsApplied
<1> QED BY <1>6, <1>9, <1>10, <1>11, <1>14

\* The requests are commands of owners the world has.
LEMMA SplitRequestsType ==
  ASSUME NEW w, Sound(w), NEW cmds, \A i \in DOMAIN cmds : IsCommand(cmds[i]),
         NEW requests, requests = SplitRequests(w, cmds)
  PROVE  /\ Len(requests) \in Nat /\ DOMAIN requests = 1 .. Len(requests)
         /\ \A n \in DOMAIN requests :
              /\ IsCommand(requests[n])
              /\ \E k \in DOMAIN w.owners : w.owners[k].owner = requests[n].owner
              /\ requests[n] \in ToSet(cmds) /\ requests[n].split
         /\ \A m, n \in DOMAIN requests : requests[m].owner = requests[n].owner => m = n
<1> DEFINE of(i) == {c \in ToSet(cmds) : c.owner = w.owners[i].owner /\ c.split}
           all == [i \in DOMAIN w.owners |-> i]
           some == {i \in DOMAIN w.owners : of(i) # {}}
           asked == Kept(all, some)
<1>1. Len(w.owners) \in Nat /\ DOMAIN w.owners = 1 .. Len(w.owners)
  BY ElementsIn DEF Sound, Numbered
<1>2. all \in Seq(1 .. Len(w.owners))
  BY <1>1
<1>12. IsInjective(asked)
  <2>1. IsInjective(all)
    BY DEF IsInjective
  <2> HIDE DEF some, all
  <2> QED BY <1>2, <2>1, KeptFacts
<1> HIDE DEF some, all
<1>3. asked \in Seq(1 .. Len(w.owners)) /\ ToSet(asked) = ToSet(all) \cap some
  BY <1>2, KeptFacts
<1>4. requests = [n \in DOMAIN asked |-> CHOOSE c \in of(asked[n]) : TRUE]
  BY DEF SplitRequests, all, some
<1> HIDE DEF asked
<1>5. Len(asked) \in Nat /\ DOMAIN asked = 1 .. Len(asked)
  BY <1>3, LenProperties
<1>6. \A n \in DOMAIN asked : asked[n] \in some
  BY <1>3 DEF ToSet
<1>7. ASSUME NEW n \in DOMAIN asked
      PROVE  requests[n] \in of(asked[n]) /\ asked[n] \in DOMAIN w.owners
  <2>1. of(asked[n]) # {} /\ asked[n] \in DOMAIN w.owners
    BY <1>6 DEF some
  <2>2. requests[n] = CHOOSE c \in of(asked[n]) : TRUE
    BY <1>4
  <2> HIDE DEF of
  <2> QED BY <2>1, <2>2
<1>8. DOMAIN requests = DOMAIN asked
  BY <1>4
<1>9. DOMAIN requests = 1 .. Len(requests) /\ Len(requests) \in Nat
  <2>1. requests \in Seq({requests[n] : n \in DOMAIN asked})
    BY <1>4, <1>5
  <2> QED BY <2>1, LenProperties
<1>10. ASSUME NEW n \in DOMAIN asked
       PROVE  /\ IsCommand(requests[n])
              /\ \E k \in DOMAIN w.owners : w.owners[k].owner = requests[n].owner
              /\ requests[n] \in ToSet(cmds) /\ requests[n].split
  <2>1. /\ requests[n] \in ToSet(cmds) /\ requests[n].split
        /\ requests[n].owner = w.owners[asked[n]].owner
        /\ asked[n] \in DOMAIN w.owners
    BY <1>7
  <2>2. IsCommand(requests[n])
    BY <2>1 DEF ToSet
  <2> QED BY <2>1, <2>2
<1>11. ASSUME NEW m \in DOMAIN asked, NEW n \in DOMAIN asked,
              requests[m].owner = requests[n].owner
       PROVE  m = n
  <2>1. /\ requests[m].owner = w.owners[asked[m]].owner /\ asked[m] \in DOMAIN w.owners
        /\ requests[n].owner = w.owners[asked[n]].owner /\ asked[n] \in DOMAIN w.owners
    BY <1>7
  <2> HIDE DEF of
  <2>2. w.owners \in Seq(OwnerStates) /\ OwnersSorted(w.owners)
    BY DEF Sound, Numbered, OwnersSound
  <2>3. \A k \in DOMAIN w.owners : w.owners[k].owner \in Int
    <3>1. \A k \in DOMAIN w.owners : w.owners[k] \in OwnerStates
      BY <2>2, ElementsIn
    <3> QED BY <3>1 DEF OwnerStates, Positive
  <2>4. ~(asked[m] < asked[n]) /\ ~(asked[n] < asked[m])
    <3> DEFINE x == asked[m]  y == asked[n]
    <3>1. x \in DOMAIN w.owners /\ y \in DOMAIN w.owners /\ w.owners[x].owner = w.owners[y].owner
      BY ONLY <1>11, <2>1
    <3> HIDE DEF x, y
    <3>2. \A i, j \in DOMAIN w.owners : i < j => w.owners[i].owner < w.owners[j].owner
      BY ONLY <2>2 DEF OwnersSorted
    <3>3. w.owners[x].owner \in Int
      BY ONLY <2>3, <3>1
    <3>4. ~(x < y) /\ ~(y < x)
      BY ONLY <3>1, <3>2, <3>3
    <3> QED BY ONLY <3>4 DEF x, y
  <2>5. asked[m] = asked[n]
    BY <2>1, <2>4, <1>1
  <2>6. IsInjective(asked)
    BY <1>12
  <2> QED BY <2>5, <2>6 DEF IsInjective
<1> QED BY <1>8, <1>9, <1>10, <1>11

\* What a split leaves: the same owners, every id that was there, the food.
SplitStep(w, v) ==
  /\ Sound(v) /\ SameInputs(w, v)
  /\ IdsOf(ToSet(w.players)) \subseteq IdsOf(ToSet(v.players))
  /\ v.food = w.food /\ v.tick = w.tick

\* Splits follow one another.
LEMMA SplitStepTrans ==
  ASSUME NEW u, NEW v, NEW w, SplitStep(u, v), SplitStep(v, w)
  PROVE  SplitStep(u, w)
BY DEF SplitStep, SameInputs, SameOwners

\* A piece that may split has a half.
LEMMA HalfType ==
  ASSUME NEW mass \in Positive, mass >= MinSplitMass
  PROVE  mass \div 2 \in Positive
<1>1. MinSplitMass \in Nat /\ MinSplitMass >= 2
  BY WorldAssumption
<1>2. mass \in Int /\ mass >= 2
  BY <1>1 DEF Positive
<1>3. mass \div 2 \in Int /\ mass \div 2 >= 1
  BY <1>2
<1> QED BY <1>3 DEF Positive

\* The prediction key of the next child of a request.
ChildKey(w, first, request) == <<request.owner, request.input, w.next - first>>

\* q is the piece of w of its id, with the owner and the key it had.
Descends(w, q) ==
  \E p \in ToSet(w.players) : p.id = q.id /\ p.owner = q.owner /\ p.key = q.key

\* At most one child came, and all other pieces keep their keys.
ChildCame(w, v, first, request) ==
  \/ v.next = w.next /\ \A q \in ToSet(v.players) : Descends(w, q)
  \/ /\ v.next = w.next + 1
     /\ \A q \in ToSet(v.players) :
          \/ Descends(w, q)
          \/ /\ q.id = w.next /\ q.owner = request.owner
             /\ q.key = ChildKey(w, first, request)

\* One parent splits.
LEMMA SplitPieceSound ==
  ASSUME NEW w, Sound(w), NEW first \in Int, NEW request, IsCommand(request),
         \E k \in DOMAIN w.owners : w.owners[k].owner = request.owner,
         NEW parent \in IdsOf(ToSet(w.players))
  PROVE  /\ SplitStep(w, SplitPiece(w, first, request, parent))
         /\ ChildCame(w, SplitPiece(w, first, request, parent), first, request)
<1> DEFINE o == FindOwner(w, request.owner)
           i == FindIndex(w, parent)
           p == w.players[i]
           half == p.mass \div 2
           until == DeadlineAfter(w.tick + 1, MergeDelay)
           key == <<request.owner, request.input, w.next - first>>
           child == Piece(w.next, request.owner, p.pos, half,
                          LaunchDirection(w.owners[o]) * LaunchSpeed, until, key)
           shrunk == [p EXCEPT !.mass = half, !.radius = RadiusForMass(half), !.eligible = until]
           mid == InPlace(w, i, shrunk)
           grown == AppendPiece(mid, child)
           journal == Append(grown.journal,
                        [type |-> "split", owner |-> request.owner, key |-> key,
                         parent |-> parent, child |-> w.next])
           v == SplitPiece(w, first, request, parent)
<1>1. /\ Stored(w) /\ Numbered(w) /\ OwnersSound(ToSet(w.players), w.owners, {})
      /\ w.owners \in Seq(OwnerStates) /\ w.players \in Seq(Pieces)
      /\ w.next \in 1 .. LastEntity + 1 /\ w.tick \in 0 .. LastTick
  BY DEF Sound, Numbered, Stored
<1>2. SplitStep(w, w) /\ ChildCame(w, w, first, request)
  BY DEF SplitStep, SameInputs, SameOwners, ChildCame, Descends
<1>3. i \in DOMAIN w.players /\ p.id = parent /\ p \in ToSet(w.players)
  BY <1>1, LocatedIs
<1>4. p \in Pieces
  BY <1>1, <1>3, ElementsIn
<1>5. o \in DOMAIN w.owners /\ w.owners[o].owner = request.owner
  <2>1. request.owner \in Int
    BY DEF IsCommand, Positive
  <2>2. SearchFinds(w, request.owner)
    BY <1>1, <2>1, FindOwnerFacts DEF OwnersSound
  <2> QED BY <2>2 DEF SearchFinds
<1> SUFFICES ASSUME HasNextEntity(w), ~(p.mass < MinSplitMass),
                    v = [grown EXCEPT !.journal = journal]
             PROVE  SplitStep(w, v) /\ ChildCame(w, v, first, request)
  <2>1. v = IF \/ Len(w.owners[o].pieces) >= MaxPieces
               \/ ~HasNextEntity(w)
               \/ p.mass < MinSplitMass
              THEN w
              ELSE [grown EXCEPT !.journal = journal]
    <3>1. shrunk.id = parent
      BY <1>3, <1>4 DEF Pieces
    <3>2. mid = [w EXCEPT !.players[i] = shrunk, !.grid = Update(@, parent, Bounds(shrunk))]
      <4> HIDE DEF shrunk
      <4> QED BY <3>1 DEF InPlace
    <3> HIDE DEF mid
    <3>3. grown = AppendPiece([w EXCEPT !.players[i] = shrunk,
                                        !.grid = Update(@, parent, Bounds(shrunk))], child)
      BY <3>2
    <3> HIDE DEF grown
    <3>4. v = IF \/ Len(w.owners[o].pieces) >= MaxPieces
                 \/ ~HasNextEntity(w)
                 \/ p.mass < MinSplitMass
                THEN w
                ELSE [grown EXCEPT !.journal = Append(@,
                        [type |-> "split", owner |-> request.owner, key |-> key,
                         parent |-> parent, child |-> w.next])]
      BY <3>3 DEF SplitPiece
    <3>5. [grown EXCEPT !.journal = Append(@,
                        [type |-> "split", owner |-> request.owner, key |-> key,
                         parent |-> parent, child |-> w.next])] = [grown EXCEPT !.journal = journal]
      OBVIOUS
    <3> HIDE DEF v, journal
    <3> QED BY <3>4, <3>5
  <2> HIDE DEF grown, journal
  <2> QED BY <2>1, <1>2
<1> HIDE DEF v, grown, journal, mid, child
<1>6. half \in Positive
  <2>1. p.mass \in Positive /\ p.mass >= MinSplitMass
    <3>1. p.mass \in Positive /\ p.mass \in Int
      BY <1>4 DEF Pieces, Positive
    <3>2. MinSplitMass \in Int
      BY WorldAssumption
    <3> QED BY <3>1, <3>2
  <2> QED BY <2>1, HalfType
<1>7. until \in 0 .. LastTick
  <2>1. w.tick + 1 \in Nat
    BY <1>1, ConstantTypes
  <2> QED BY <2>1, ConstantTypes, DeadlineType
<1> HIDE DEF half, until
<1>8. Replaces(w, i, shrunk)
  <2>1. RadiusForMass(half) \in Radii
    BY <1>6 DEF Radii
  <2>2. /\ shrunk \in Pieces /\ shrunk.id = p.id /\ shrunk.owner = p.owner
        /\ shrunk.radius = RadiusForMass(half) /\ shrunk.mass = half
        /\ shrunk.key = p.key
    BY <1>4, <1>6, <1>7, <2>1 DEF Pieces
  <2> HIDE DEF shrunk
  <2> QED BY <1>3, <2>2 DEF Replaces
<1> HIDE DEF shrunk
<1>9. Sound(mid) /\ ReplacedOnly(w, mid, i, shrunk)
  BY <1>8, InPlaceSound DEF mid
<1>10. /\ child \in Pieces /\ child.owner = request.owner /\ child.id = w.next
       /\ child.radius = RadiusForMass(child.mass) /\ child.key = key
  <2>1. w.next \in Positive /\ RadiusForMass(half) \in Radii /\ request.owner \in Positive
    <3>1. w.next \in Positive
      BY <1>1, ConstantTypes DEF Positive
    <3>2. RadiusForMass(half) \in Radii
      BY ONLY <1>6 DEF Radii
    <3>3. request.owner \in Positive
      BY ONLY IsCommand(request) DEF IsCommand
    <3> QED BY ONLY <3>1, <3>2, <3>3
  <2>2. p.pos \in Int
    BY <1>4 DEF Pieces
  <2>3. LaunchDirection(w.owners[o]) * LaunchSpeed \in Int
    <3>1. w.owners[o] \in OwnerStates
      BY <1>1, <1>5, ElementsIn
    <3>2. LaunchDirection(w.owners[o]) \in Int
      BY <3>1 DEF OwnerStates, LaunchDirection
    <3>3. LaunchSpeed \in Int
      BY WorldAssumption
    <3>4. \A a, b \in Int : a * b \in Int
      OBVIOUS
    <3> QED BY <3>2, <3>3, <3>4
  <2>4. key \in Seq(Int)
    <3>1. request.owner \in Int /\ request.input \in Int
      BY ONLY IsCommand(request) DEF IsCommand, Positive
    <3>2. w.next \in Int
      BY <1>1, ConstantTypes
    <3>3. w.next - first \in Int
      BY ONLY <3>2, first \in Int
    <3> QED BY ONLY <3>1, <3>3
  <2> HIDE DEF key
  <2> QED BY <1>6, <1>7, <2>1, <2>2, <2>3, <2>4 DEF child, Piece, Pieces
<1>11. /\ mid.next = w.next /\ mid.owners = w.owners /\ mid.tick = w.tick
       /\ mid.players = [w.players EXCEPT ![i] = shrunk] /\ mid.food = w.food
  BY <1>9 DEF ReplacedOnly
<1>12. Expecting(mid, child.owner)
  <2>1. request.owner \in {mid.owners[k].owner : k \in DOMAIN mid.owners}
    BY <1>5, <1>11
  <2>2. OwnersSound(ToSet(mid.players), mid.owners, {request.owner})
    BY <1>9, <2>1 DEF Sound, OwnersSound
  <2> QED BY <1>9, <1>10, <2>2 DEF Expecting, Sound
<1>13. HasNextEntity(mid)
  BY <1>11 DEF HasNextEntity
<1>14. /\ Sound(grown) /\ grown.players = Append(mid.players, child)
       /\ grown.food = mid.food /\ grown.tick = mid.tick /\ SameInputs(mid, grown)
       /\ grown.next = mid.next + 1
  BY <1>10, <1>11, <1>12, <1>13, ConstantTypes, AppendPieceSound DEF grown
<1>15. Sound([grown EXCEPT !.journal = journal])
  BY <1>14, JournalChanged
<1>16. /\ v.players = grown.players /\ v.owners = grown.owners /\ v.tick = grown.tick
       /\ v.food = grown.food /\ v.next = grown.next
  BY <1>14 DEF Sound, Stored, WorldFields
<1>17. SameInputs(w, v)
  BY <1>11, <1>14, <1>16 DEF SameOwners, SameInputs
<1>18. IdsOf(ToSet(w.players)) \subseteq IdsOf(ToSet(v.players))
  <2>1. mid.players \in Seq(Pieces)
    BY <1>9 DEF Sound, Stored
  <2>2. ToSet(v.players) = ToSet(mid.players) \cup {child}
    <3>1. ToSet(Append(mid.players, child)) = ToSet(mid.players) \cup {child}
      BY ONLY <1>10, <2>1, AppendFacts
    <3> QED BY <3>1, <1>14, <1>16
  <2>3. shrunk \in Pieces /\ shrunk.id = p.id
    BY <1>8 DEF Replaces
  <2>4. /\ DOMAIN mid.players = DOMAIN w.players
        /\ \A j \in DOMAIN w.players : mid.players[j] = IF j = i THEN shrunk ELSE w.players[j]
    BY <1>11
  <2>5. \A j \in DOMAIN w.players : mid.players[j].id = w.players[j].id
    BY <2>3, <2>4
  <2>6. IdsOf(ToSet(w.players)) \subseteq IdsOf(ToSet(mid.players))
    BY <2>4, <2>5 DEF IdsOf, ToSet
  <2> QED BY <2>2, <2>6 DEF IdsOf
<1>20. ChildCame(w, v, first, request)
  <2>1. mid.players \in Seq(Pieces)
    BY <1>9 DEF Sound, Stored
  <2>2. ToSet(Append(mid.players, child)) = ToSet(mid.players) \cup {child}
    BY ONLY <1>10, <2>1, AppendFacts
  <2>3. \A q \in ToSet(mid.players) : Descends(w, q)
    <3>1. /\ DOMAIN mid.players = DOMAIN w.players
          /\ \A j \in DOMAIN w.players : mid.players[j] = IF j = i THEN shrunk ELSE w.players[j]
      BY <1>11
    <3>2. shrunk.id = p.id /\ shrunk.owner = p.owner /\ shrunk.key = p.key
      BY <1>8 DEF Replaces
    <3> HIDE DEF p
    <3>3. \A j \in DOMAIN w.players : Descends(w, mid.players[j])
      <4> TAKE j \in DOMAIN w.players
      <4>1. CASE j = i
        BY <4>1, <3>1, <3>2, <1>3 DEF Descends, p
      <4>2. CASE j # i
        BY <4>2, <3>1 DEF Descends, ToSet
      <4> QED BY <4>1, <4>2
    <3> QED BY <3>1, <3>3 DEF ToSet
  <2>4. v.next = w.next + 1
    BY <1>11, <1>14, <1>16
  <2>5. child.id = w.next /\ child.owner = request.owner /\ child.key = ChildKey(w, first, request)
    BY <1>10 DEF ChildKey
  <2>6. ToSet(v.players) = ToSet(mid.players) \cup {child}
    BY <1>14, <1>16, <2>2
  <2> QED BY <2>3, <2>4, <2>5, <2>6 DEF ChildCame
<1> QED BY <1>11, <1>14, <1>15, <1>16, <1>17, <1>18, <1>20 DEF SplitStep

\* The recursive function of SplitRequest exists.
RequestSteps(w, request, parents, f) ==
  /\ f[0] = w
  /\ \A n \in Nat : n + 1 <= Len(parents) =>
       f[n + 1] = SplitPiece(f[n], w.next, request, parents[n + 1])
  /\ SplitRequest(w, request) =
       IF \/ w.tick + 1 < w.owners[FindOwner(w, request.owner)].cooldown
          \/ Len(parents) >= MaxPieces
         THEN w
         ELSE IF f[Len(parents)].next = w.next
                THEN f[Len(parents)]
                ELSE [f[Len(parents)] EXCEPT
                        !.owners[FindOwner(w, request.owner)].cooldown =
                           DeadlineAfter(w.tick + 1, SplitRecast)]

\* ... and exists.
LEMMA SplitEquation ==
  ASSUME NEW w, NEW request, NEW parents, Len(parents) \in Nat,
         parents = w.owners[FindOwner(w, request.owner)].pieces
  PROVE  \E f : RequestSteps(w, request, parents, f)
<1> DEFINE base == w
           Step(x, n) == SplitPiece(x, w.next, request, parents[n])
           Solves(f, m) == f = [n \in 0 .. m |-> IF n = 0 THEN base ELSE Step(f[n - 1], n)]
           Solved == {m \in Nat : \E f : Solves(f, m)}
<1> HIDE DEF Step, base
<1>1. 0 \in Solved
  <2> DEFINE g == [n \in 0 .. 0 |-> base]
  <2>1. Solves(g, 0)
    OBVIOUS
  <2> QED BY <2>1
<1>2. ASSUME NEW m \in Nat, m \in Solved PROVE m + 1 \in Solved
  <2>1. PICK f : Solves(f, m)
    BY <1>2
  <2> DEFINE last == Step(f[m], m + 1)
             g == [n \in 0 .. m + 1 |-> IF n <= m THEN f[n] ELSE last]
  <2> HIDE DEF last
  <2>2. \A n \in 0 .. m : g[n] = f[n]
    OBVIOUS
  <2>3. ASSUME NEW n \in 0 .. m + 1
        PROVE  g[n] = IF n = 0 THEN base ELSE Step(g[n - 1], n)
    <3>1. CASE n <= m
      <4>1. g[n] = f[n] BY <3>1
      <4>2. n # 0 => n - 1 \in 0 .. m BY <3>1
      <4>3. n # 0 => g[n - 1] = f[n - 1] BY <4>2, <2>2
      <4>4. f[n] = IF n = 0 THEN base ELSE Step(f[n - 1], n)
        BY <2>1, <3>1
      <4> QED BY <4>1, <4>3, <4>4
    <3>2. CASE n = m + 1
      <4>1. g[n] = last BY <3>2
      <4>2. g[m] = f[m] BY <2>2
      <4> QED BY <4>1, <4>2, <3>2 DEF last
    <3> QED BY <3>1, <3>2
  <2>4. Solves(g, m + 1)
    BY <2>3
  <2> HIDE DEF Solves, g
  <2>5. m + 1 \in Nat /\ \E h : Solves(h, m + 1)
    BY <2>4
  <2> QED BY <2>5
<1>3. Len(parents) \in Nat
  OBVIOUS
<1>4. Len(parents) \in Solved
  BY <1>1, <1>2, <1>3, SetInduction
<1> DEFINE f == CHOOSE h : Solves(h, Len(parents))
<1>5. Solves(f, Len(parents))
  BY <1>4
<1>6. SplitRequest(w, request) =
                     IF \/ w.tick + 1 < w.owners[FindOwner(w, request.owner)].cooldown
                        \/ Len(parents) >= MaxPieces
                       THEN w
                       ELSE IF f[Len(parents)].next = w.next
                              THEN f[Len(parents)]
                              ELSE [f[Len(parents)] EXCEPT
                                      !.owners[FindOwner(w, request.owner)].cooldown =
                                         DeadlineAfter(w.tick + 1, SplitRecast)]
  BY DEF SplitRequest, Step, base
<1> HIDE DEF f
<1>7. f[0] = base
  BY <1>3, <1>5
<1>8. ASSUME NEW n \in Nat, n + 1 <= Len(parents) PROVE f[n + 1] = Step(f[n], n + 1)
  <2>1. n + 1 \in 0 .. Len(parents) /\ n + 1 # 0 /\ (n + 1) - 1 = n
    BY <1>3, <1>8
  <2>2. f[n + 1] = IF n + 1 = 0 THEN base ELSE Step(f[(n + 1) - 1], n + 1)
    BY <1>5, <2>1
  <2> QED BY <2>1, <2>2
<1> QED
  BY <1>6, <1>7, <1>8 DEF RequestSteps, Step, base

\* One split after another, m of them.
PassesAre(w, request, m, f) ==
  /\ f[0] = w
  /\ \A n \in Nat : n + 1 <= m => /\ SplitStep(f[n], f[n + 1])
                                  /\ ChildCame(f[n], f[n + 1], w.next, request)

\* The worlds a request passes through on its way to pieces.
RequestPasses(w, request, pieces) ==
  \E m \in Nat : \E f : PassesAre(w, request, m, f) /\ f[m].players = pieces

\* One owner's request is done.
LEMMA SplitRequestSound ==
  ASSUME NEW w, Sound(w), NEW request, IsCommand(request),
         \E k \in DOMAIN w.owners : w.owners[k].owner = request.owner
  PROVE  /\ SplitStep(w, SplitRequest(w, request))
         /\ RequestPasses(w, request, SplitRequest(w, request).players)
<1> DEFINE o == FindOwner(w, request.owner)
           parents == w.owners[o].pieces
<1>1. /\ Stored(w) /\ Numbered(w) /\ OwnersSound(ToSet(w.players), w.owners, {})
      /\ w.owners \in Seq(OwnerStates) /\ w.next \in 1 .. LastEntity + 1
      /\ w.tick \in 0 .. LastTick
  BY DEF Sound, Numbered
<1>2. o \in DOMAIN w.owners /\ w.owners[o].owner = request.owner
  <2>1. request.owner \in Int
    BY DEF IsCommand, Positive
  <2>2. SearchFinds(w, request.owner)
    BY <1>1, <2>1, FindOwnerFacts DEF OwnersSound
  <2> QED BY <2>2 DEF SearchFinds
<1>3. /\ Len(parents) \in Nat /\ DOMAIN parents = 1 .. Len(parents)
      /\ \A n \in DOMAIN parents : parents[n] \in IdsOf(ToSet(w.players))
  <2>1. parents \in Seq(Positive)
    <3>1. w.owners[o] \in OwnerStates
      BY <1>1, <1>2, ElementsIn
    <3> QED BY <3>1 DEF OwnerStates
  <2>2. ToSet(parents) = Listed(ToSet(w.players), w.owners[o].owner)
    BY <1>1, <1>2 DEF OwnersSound
  <2>3. ToSet(parents) \subseteq IdsOf(ToSet(w.players))
    BY <2>2 DEF Listed, IdsOf
  <2> HIDE DEF parents
  <2> QED BY <2>1, <2>3, LenProperties DEF ToSet
<1>4. w.next \in Int
  BY <1>1, ConstantTypes
<1> DEFINE Result(f) ==
             SplitRequest(w, request) =
               IF w.tick + 1 < w.owners[o].cooldown \/ Len(parents) >= MaxPieces
                 THEN w
                 ELSE IF f[Len(parents)].next = w.next
                        THEN f[Len(parents)]
                        ELSE [f[Len(parents)] EXCEPT
                                !.owners[o].cooldown = DeadlineAfter(w.tick + 1, SplitRecast)]
<1>17. PICK split : RequestSteps(w, request, parents, split)
  <2>1. parents = w.owners[FindOwner(w, request.owner)].pieces
    OBVIOUS
  <2> HIDE DEF parents
  <2> QED BY <1>3, <2>1, SplitEquation
<1>5. /\ split[0] = w
      /\ \A n \in Nat : n + 1 <= Len(parents) =>
           split[n + 1] = SplitPiece(split[n], w.next, request, parents[n + 1])
      /\ Result(split)
  BY <1>17 DEF RequestSteps
<1> HIDE DEF parents, o
<1> DEFINE I == {n \in Nat : n <= Len(parents) => SplitStep(w, split[n])}
<1>6. 0 \in I
  BY <1>5 DEF SplitStep, SameInputs, SameOwners
<1>13. ASSUME NEW n \in Nat, SplitStep(w, split[n]), n + 1 <= Len(parents)
       PROVE  /\ SplitStep(split[n], split[n + 1])
              /\ ChildCame(split[n], split[n + 1], w.next, request)
  <2> DEFINE u == split[n]
  <2>1. SplitStep(w, u)
    BY <1>13
  <2>2. split[n + 1] = SplitPiece(u, w.next, request, parents[n + 1])
    BY <1>5, <1>13
  <2> HIDE DEF u
  <2>3. parents[n + 1] \in IdsOf(ToSet(u.players))
    <3>1. n + 1 \in DOMAIN parents
      BY <1>3, <1>13
    <3> QED BY <3>1, <2>1, <1>3 DEF SplitStep
  <2>4. Sound(u) /\ \E k \in DOMAIN u.owners : u.owners[k].owner = request.owner
    BY <2>1, <1>2 DEF SplitStep, SameInputs, SameOwners
  <2>5. SplitStep(u, split[n + 1]) /\ ChildCame(u, split[n + 1], w.next, request)
    BY <2>2, <2>3, <2>4, <1>4, SplitPieceSound
  <2> QED BY <2>5 DEF u
<1>7. ASSUME NEW n \in Nat, n \in I PROVE n + 1 \in I
  <2> SUFFICES ASSUME n + 1 <= Len(parents) PROVE SplitStep(w, split[n + 1])
    OBVIOUS
  <2>1. SplitStep(w, split[n])
    BY <1>3, <1>7
  <2> QED BY <2>1, <1>13, SplitStepTrans
<1>14. \A n \in Nat : n \in I
  <2> HIDE DEF I
  <2> QED BY <1>6, <1>7, SetInduction
<1>8. Len(parents) \in I
  BY <1>3, <1>14
<1>15. /\ RequestPasses(w, request, w.players)
       /\ RequestPasses(w, request, split[Len(parents)].players)
  <2>1. RequestPasses(w, request, split[Len(parents)].players)
    <3>1. \A n \in Nat : n + 1 <= Len(parents) =>
            /\ SplitStep(split[n], split[n + 1])
            /\ ChildCame(split[n], split[n + 1], w.next, request)
      <4> TAKE n \in Nat
      <4> HAVE n + 1 <= Len(parents)
      <4>1. SplitStep(w, split[n])
        BY <1>3, <1>14
      <4> QED BY <4>1, <1>13
    <3> QED BY <3>1, <1>3, <1>5 DEF RequestPasses, PassesAre
  <2>2. RequestPasses(w, request, w.players)
    <3> DEFINE f == [n \in Nat |-> w]
    <3>1. f[0] = w /\ 0 \in Nat /\ \A n \in Nat : ~(n + 1 <= 0)
      OBVIOUS
    <3> HIDE DEF f
    <3> QED BY <3>1 DEF RequestPasses, PassesAre
  <2> QED BY <2>1, <2>2
<1> DEFINE done == split[Len(parents)]
           until == DeadlineAfter(w.tick + 1, SplitRecast)
<1>9. SplitStep(w, done)
  BY <1>3, <1>8
<1>10. SplitRequest(w, request) \in {w, done, [done EXCEPT !.owners[o].cooldown = until]}
  BY <1>5
<1> HIDE DEF done, Result
<1>16. RequestPasses(w, request, done.players)
  BY <1>15 DEF done
<1>11. SplitStep(w, w)
  BY DEF SplitStep, SameInputs, SameOwners
<1>12. /\ SplitStep(w, [done EXCEPT !.owners[o].cooldown = until])
       /\ [done EXCEPT !.owners[o].cooldown = until].players = done.players
  <2>1. until \in 0 .. LastTick
    <3>1. w.tick + 1 \in Nat
      BY <1>1, ConstantTypes
    <3> QED BY <3>1, ConstantTypes, DeadlineType
  <2> HIDE DEF until
  <2> DEFINE s == done.owners[o]
             t == [s EXCEPT !.cooldown = until]
             owners == [done.owners EXCEPT ![o] = t]
             v == [done EXCEPT !.owners = owners]
  <2>2. /\ Sound(done) /\ SameInputs(w, done) /\ SameOwners(w, done) /\ done.tick = w.tick
        /\ done.owners \in Seq(OwnerStates) /\ o \in DOMAIN done.owners
    BY <1>2, <1>9 DEF SplitStep, SameInputs, SameOwners, Sound, Numbered
  <2>3. s \in OwnerStates
    BY <2>2, ElementsIn
  <2>4. /\ t \in OwnerStates /\ t.owner = s.owner /\ t.pieces = s.pieces
        /\ t.lastInput = s.lastInput
    BY <2>1, <2>3 DEF OwnerStates
  <2>5. [done EXCEPT !.owners[o].cooldown = until] = v
    BY <2>2 DEF Sound, Stored, WorldFields
  <2> HIDE DEF t
  <2>6. /\ owners \in Seq(OwnerStates) /\ DOMAIN owners = DOMAIN done.owners
        /\ owners[o] = t /\ \A j \in DOMAIN done.owners : j # o => owners[j] = done.owners[j]
    BY <2>2, <2>4, ReplaceFacts
  <2> HIDE DEF owners
  <2>7. OwnersAs(done, owners)
    BY <2>4, <2>6 DEF OwnersAs
  <2>8. Sound(v)
    BY <2>2, <2>7, OwnersChanged
  <2>9. /\ v.owners = owners /\ v.players = done.players /\ v.tick = done.tick
        /\ v.food = done.food
    BY <2>2 DEF Sound, Stored, WorldFields
  <2> HIDE DEF v
  <2>10. SameInputs(w, v)
    <3>1. \A j \in DOMAIN done.owners : owners[j].lastInput = done.owners[j].lastInput
      BY <2>4, <2>6
    <3> HIDE DEF s
    <3> QED BY <2>2, <2>7, <2>9, <3>1 DEF SameOwners, SameInputs, OwnersAs
  <2>11. SplitStep(w, v)
    BY <2>2, <2>8, <2>9, <2>10, <1>9 DEF SplitStep
  <2> QED BY <2>5, <2>9, <2>11
<1> HIDE DEF until
<1> QED BY <1>9, <1>10, <1>11, <1>12, <1>15, <1>16

\* The recursive function of Splits exists.
SplitsSteps(w, requests, mechanics, f) ==
  /\ f[0] = w
  /\ \A n \in Nat : n + 1 <= Len(requests) => f[n + 1] = SplitRequest(f[n], requests[n + 1])
  /\ Splits(w, requests, mechanics) =
       IF "split_merge" \in mechanics THEN f[Len(requests)] ELSE w

\* ... and exists.
LEMMA SplitsEquation ==
  ASSUME NEW w, NEW requests, Len(requests) \in Nat, NEW mechanics
  PROVE  \E f : SplitsSteps(w, requests, mechanics, f)
<1> DEFINE base == w
           Step(x, n) == SplitRequest(x, requests[n])
           Solves(f, m) == f = [n \in 0 .. m |-> IF n = 0 THEN base ELSE Step(f[n - 1], n)]
           Solved == {m \in Nat : \E f : Solves(f, m)}
<1> HIDE DEF Step, base
<1>1. 0 \in Solved
  <2> DEFINE g == [n \in 0 .. 0 |-> base]
  <2>1. Solves(g, 0)
    OBVIOUS
  <2> QED BY <2>1
<1>2. ASSUME NEW m \in Nat, m \in Solved PROVE m + 1 \in Solved
  <2>1. PICK f : Solves(f, m)
    BY <1>2
  <2> DEFINE last == Step(f[m], m + 1)
             g == [n \in 0 .. m + 1 |-> IF n <= m THEN f[n] ELSE last]
  <2> HIDE DEF last
  <2>2. \A n \in 0 .. m : g[n] = f[n]
    OBVIOUS
  <2>3. ASSUME NEW n \in 0 .. m + 1
        PROVE  g[n] = IF n = 0 THEN base ELSE Step(g[n - 1], n)
    <3>1. CASE n <= m
      <4>1. g[n] = f[n] BY <3>1
      <4>2. n # 0 => n - 1 \in 0 .. m BY <3>1
      <4>3. n # 0 => g[n - 1] = f[n - 1] BY <4>2, <2>2
      <4>4. f[n] = IF n = 0 THEN base ELSE Step(f[n - 1], n)
        BY <2>1, <3>1
      <4> QED BY <4>1, <4>3, <4>4
    <3>2. CASE n = m + 1
      <4>1. g[n] = last BY <3>2
      <4>2. g[m] = f[m] BY <2>2
      <4> QED BY <4>1, <4>2, <3>2 DEF last
    <3> QED BY <3>1, <3>2
  <2>4. Solves(g, m + 1)
    BY <2>3
  <2> HIDE DEF Solves, g
  <2>5. m + 1 \in Nat /\ \E h : Solves(h, m + 1)
    BY <2>4
  <2> QED BY <2>5
<1>3. Len(requests) \in Nat
  OBVIOUS
<1>4. Len(requests) \in Solved
  BY <1>1, <1>2, <1>3, SetInduction
<1> DEFINE f == CHOOSE h : Solves(h, Len(requests))
<1>5. Solves(f, Len(requests))
  BY <1>4
<1>6. Splits(w, requests, mechanics) =
       IF "split_merge" \in mechanics THEN f[Len(requests)] ELSE w
  BY DEF Splits, Step, base
<1> HIDE DEF f
<1>7. f[0] = base
  BY <1>3, <1>5
<1>8. ASSUME NEW n \in Nat, n + 1 <= Len(requests) PROVE f[n + 1] = Step(f[n], n + 1)
  <2>1. n + 1 \in 0 .. Len(requests) /\ n + 1 # 0 /\ (n + 1) - 1 = n
    BY <1>3, <1>8
  <2>2. f[n + 1] = IF n + 1 = 0 THEN base ELSE Step(f[(n + 1) - 1], n + 1)
    BY <1>5, <2>1
  <2> QED BY <2>1, <2>2
<1> QED
  BY <1>6, <1>7, <1>8 DEF SplitsSteps, Step, base

\* The requests of a tick are done.
LEMMA SplitsSound ==
  ASSUME NEW w, Sound(w), NEW requests, Len(requests) \in Nat,
         DOMAIN requests = 1 .. Len(requests), NEW mechanics,
         \A n \in DOMAIN requests :
           /\ IsCommand(requests[n])
           /\ \E k \in DOMAIN w.owners : w.owners[k].owner = requests[n].owner
  PROVE  SplitStep(w, Splits(w, requests, mechanics))
<1>7. PICK after : SplitsSteps(w, requests, mechanics, after)
  BY SplitsEquation
<1>1. /\ after[0] = w
      /\ \A n \in Nat : n + 1 <= Len(requests) =>
           after[n + 1] = SplitRequest(after[n], requests[n + 1])
      /\ Splits(w, requests, mechanics) =
           IF "split_merge" \in mechanics THEN after[Len(requests)] ELSE w
  BY <1>7 DEF SplitsSteps
<1> DEFINE I == {n \in Nat : n <= Len(requests) => SplitStep(w, after[n])}
<1>2. SplitStep(w, w)
  BY DEF SplitStep, SameInputs, SameOwners
<1>3. 0 \in I
  BY <1>1, <1>2
<1>4. ASSUME NEW n \in Nat, n \in I PROVE n + 1 \in I
  <2> SUFFICES ASSUME n + 1 <= Len(requests) PROVE SplitStep(w, after[n + 1])
    OBVIOUS
  <2> DEFINE u == after[n]  request == requests[n + 1]
  <2>1. SplitStep(w, u) /\ n + 1 \in DOMAIN requests
    BY <1>4
  <2>2. after[n + 1] = SplitRequest(u, request)
    BY <1>1
  <2>3. IsCommand(request) /\ \E k \in DOMAIN w.owners : w.owners[k].owner = request.owner
    BY <2>1
  <2> HIDE DEF u, request
  <2>4. Sound(u) /\ \E k \in DOMAIN u.owners : u.owners[k].owner = request.owner
    BY <2>1, <2>3 DEF SplitStep, SameInputs, SameOwners
  <2>5. SplitStep(u, after[n + 1])
    BY <2>2, <2>3, <2>4, SplitRequestSound
  <2> QED BY <2>1, <2>5, SplitStepTrans
<1>5. Len(requests) \in I
  <2> HIDE DEF I
  <2> QED BY <1>3, <1>4, SetInduction
<1>6. SplitStep(w, after[Len(requests)])
  BY <1>5
<1> QED BY <1>1, <1>2, <1>6

-----------------------------------------------------------------------------
(* A tick: movement and the phases.                                        *)

\* What the phases work on: pieces that take the places of the world's, some
\* of them live, and what was eaten.
Phase(w, st, eaten) ==
  /\ DOMAIN st = {"players", "live", "events", "eaten"}
  /\ st.players \in Seq(Pieces) /\ DOMAIN st.players = DOMAIN w.players
  /\ \A i \in DOMAIN w.players : Replaces(w, i, st.players[i])
  /\ st.live \subseteq DOMAIN w.players
  /\ st.eaten = eaten

\* A sign is a number.
LEMMA SignumType ==
  ASSUME NEW n
  PROVE  Signum(n) \in Int
BY DEF Signum

\* A launch velocity decays to one.
LEMMA DecayedType ==
  ASSUME NEW v \in Int
  PROVE  Decayed(v) \in Int
<1>1. LaunchDecay \in Int /\ Signum(v) \in Int
  BY WorldAssumption, SignumType
<1>2. \A a, b \in Int : v - a * b \in Int
  OBVIOUS
<1> QED BY <1>1, <1>2 DEF Decayed

\* A velocity is a number.
LEMMA VelocityType ==
  ASSUME NEW move \in Int, NEW launch \in Int, NEW additional \in Int
  PROVE  Velocity(move, launch, additional) \in Int
<1>1. Speed \in Int
  BY WorldAssumption
<1>2. \A a, b \in Int : a * b + launch + additional \in Int
  OBVIOUS
<1> QED BY <1>1, <1>2 DEF Velocity

\* Movement moves pieces and changes nothing else of them but their launch.
LEMMA MovedPhase ==
  ASSUME NEW w, Sound(w), NEW mechanics, NEW events,
         NEW st, st = [players |-> Moved(w, mechanics), live |-> DOMAIN w.players,
                       events |-> events, eaten |-> <<>>]
  PROVE  Phase(w, st, <<>>)
<1> DEFINE o(i) == FindOwner(w, w.players[i].owner)
           coheres(i) == /\ "split_merge" \in mechanics
                         /\ Len(w.owners[o(i)].pieces) > 1
                         /\ w.tick + 1 >= w.players[i].eligible
           additional(i) == IF coheres(i) THEN TowardsCentroid(w, w.players[i]) * Cohesion ELSE 0
           pos(i) == w.players[i].pos
                       + Velocity(w.owners[o(i)].move, w.players[i].launch, additional(i))
           q(i) == [w.players[i] EXCEPT !.pos = pos(i), !.launch = Decayed(w.players[i].launch)]
           f == [i \in DOMAIN w.players |-> q(i)]
<1>1. /\ w.players \in Seq(Pieces) /\ w.owners \in Seq(OwnerStates)
      /\ OwnersSound(ToSet(w.players), w.owners, {})
      /\ \A p \in ToSet(w.players) : p.radius = RadiusForMass(p.mass)
  BY DEF Sound, Stored, Numbered
<1>2. /\ Len(w.players) \in Nat /\ DOMAIN w.players = 1 .. Len(w.players)
      /\ \A i \in DOMAIN w.players : w.players[i] \in Pieces /\ w.players[i] \in ToSet(w.players)
  BY <1>1, ElementsIn
<1>3. ASSUME NEW i \in DOMAIN w.players
      PROVE  pos(i) \in Int
  <2> DEFINE p == w.players[i]
  <2>1. p.owner \in Int /\ p.pos \in Int /\ p.launch \in Int
    BY <1>2 DEF Pieces, Positive
  <2>2. SearchFinds(w, p.owner)
    BY <1>1, <2>1, FindOwnerFacts DEF OwnersSound
  <2>3. \E k \in DOMAIN w.owners : w.owners[k].owner = p.owner
    <3>1. p.owner \in {x.owner : x \in ToSet(w.players)}
      BY <1>2
    <3> HIDE DEF p
    <3> QED BY <1>1, <3>1 DEF OwnersSound
  <2>4. o(i) \in DOMAIN w.owners
    BY <2>2, <2>3 DEF SearchFinds
  <2>5. w.owners[o(i)].move \in Int
    <3>1. w.owners[o(i)] \in OwnerStates
      BY <1>1, <2>4, ElementsIn
    <3> QED BY <3>1 DEF OwnerStates
  <2>6. additional(i) \in Int
    <3>1. TowardsCentroid(w, w.players[i]) \in Int /\ Cohesion \in Int
      BY WorldAssumption, SignumType DEF TowardsCentroid
    <3>2. \A a, b \in Int : a * b \in Int
      OBVIOUS
    <3>3. TowardsCentroid(w, w.players[i]) * Cohesion \in Int
      BY <3>1, <3>2
    <3> HIDE DEF coheres
    <3> QED BY <3>3
  <2> HIDE DEF additional, o
  <2>7. Velocity(w.owners[o(i)].move, p.launch, additional(i)) \in Int
    BY <2>1, <2>5, <2>6, VelocityType
  <2> QED BY <2>1, <2>7
<1>4. Moved(w, mechanics) = <<>> \o f
  BY DEF Moved, MovedPiece
<1> HIDE DEF pos
<1>5. ASSUME NEW i \in DOMAIN w.players
      PROVE  Replaces(w, i, q(i)) /\ q(i) \in Pieces
  <2>1. /\ w.players[i] \in Pieces /\ pos(i) \in Int
        /\ w.players[i].radius = RadiusForMass(w.players[i].mass)
    BY <1>1, <1>2, <1>3
  <2>2. Decayed(w.players[i].launch) \in Int
    BY <2>1, DecayedType DEF Pieces
  <2>3. /\ q(i) \in Pieces /\ q(i).id = w.players[i].id /\ q(i).owner = w.players[i].owner
        /\ q(i).radius = w.players[i].radius /\ q(i).mass = w.players[i].mass
        /\ q(i).key = w.players[i].key
    BY <2>1, <2>2 DEF Pieces
  <2> HIDE DEF q
  <2> QED BY <2>1, <2>3 DEF Replaces
<1> HIDE DEF q
<1>6. f \in Seq(Pieces)
  BY <1>2, <1>5
<1>7. <<>> \o f = f
  <2> HIDE DEF f
  <2> QED BY <1>6, ConcatEmptySeq
<1>8. Moved(w, mechanics) = f
  BY <1>4, <1>7
<1> QED BY <1>5, <1>6, <1>8 DEF Phase

\* A piece that grows.
LEMMA GrownFacts ==
  ASSUME NEW p \in Pieces, NEW mass \in Positive
  PROVE  /\ Grown(p, mass) \in Pieces
         /\ Grown(p, mass).id = p.id /\ Grown(p, mass).owner = p.owner
         /\ Grown(p, mass).mass = mass /\ Grown(p, mass).radius = RadiusForMass(mass)
         /\ Grown(p, mass).key = p.key
<1>1. RadiusForMass(mass) \in Radii
  BY DEF Radii
<1> QED BY <1>1 DEF Grown, Pieces

\* A phase replaces one piece and may end others.
LEMMA PhaseReplace ==
  ASSUME NEW w, NEW st, NEW eaten, Phase(w, st, eaten), NEW i \in DOMAIN w.players,
         NEW q, Replaces(w, i, q), NEW live, live \subseteq st.live, NEW events, NEW more
  PROVE  Phase(w, [st EXCEPT !.live = live, !.players[i] = q, !.events = events,
                             !.eaten = more], more)
<1> DEFINE players == [st.players EXCEPT ![i] = q]
           v == [st EXCEPT !.live = live, !.players = players, !.events = events, !.eaten = more]
<1>1. /\ players \in Seq(Pieces) /\ DOMAIN players = DOMAIN st.players
      /\ players[i] = q /\ \A j \in DOMAIN st.players : j # i => players[j] = st.players[j]
  BY ReplaceFacts DEF Phase, Replaces
<1>2. [st EXCEPT !.live = live, !.players[i] = q, !.events = events, !.eaten = more] = v
  BY DEF Phase
<1> HIDE DEF players
<1>3. /\ DOMAIN v = DOMAIN st /\ v.players = players /\ v.live = live /\ v.eaten = more
  BY DEF Phase
<1> HIDE DEF v
<1>4. \A j \in DOMAIN w.players : Replaces(w, j, v.players[j])
  BY <1>1, <1>3 DEF Phase
<1>5. Phase(w, v, more)
  BY <1>1, <1>3, <1>4 DEF Phase
<1> QED BY <1>2, <1>5

\* Masses add up.
LEMMA MassesAdd ==
  ASSUME NEW m \in Positive, NEW n \in Positive
  PROVE  m + n \in Positive
BY DEF Positive

\* A piece absorbs another.
LEMMA AbsorbPhase ==
  ASSUME NEW w, NEW st, NEW eaten, Phase(w, st, eaten), NEW pair
  PROVE  Phase(w, Absorb(st, pair), eaten)
<1> DEFINE a == pair[1]  v == pair[2]
           q == Grown(st.players[a], st.players[a].mass + st.players[v].mass)
           live == st.live \ {v}
           event == [type |-> "absorbed", victim |-> st.players[v].id,
                     absorber |-> st.players[a].id, mass |-> st.players[v].mass]
           events == Append(st.events, event)
<1>1. CASE a \notin st.live \/ v \notin st.live
  BY <1>1 DEF Absorb
<1>2. CASE a \in st.live /\ v \in st.live
  <2>1. Absorb(st, pair) = Absorbed(st, a, v)
    BY <1>2 DEF Absorb
  <2>2. /\ Replaces(w, a, st.players[a]) /\ Replaces(w, v, st.players[v])
        /\ a \in DOMAIN w.players /\ a \in DOMAIN st.players
    BY <1>2 DEF Phase
  <2>3. st.players[a].mass \in Positive /\ st.players[v].mass \in Positive
    BY <2>2 DEF Replaces, Pieces
  <2>4. Replaces(w, a, q)
    <3> DEFINE p == st.players[a]  mass == st.players[a].mass + st.players[v].mass
    <3>1. p \in Pieces /\ mass \in Positive
      BY <2>2, <2>3, MassesAdd DEF Replaces
    <3>2. /\ p.id = w.players[a].id /\ p.owner = w.players[a].owner /\ a \in DOMAIN w.players
          /\ p.key = w.players[a].key
      BY <2>2 DEF Replaces
    <3>3. q = Grown(p, mass)
      OBVIOUS
    <3> HIDE DEF p, mass, q
    <3> QED BY <3>1, <3>2, <3>3, GrownFacts DEF Replaces
  <2>5. Phase(w, [st EXCEPT !.live = live, !.players[a] = q, !.events = events, !.eaten = eaten],
              eaten)
    <3> HIDE DEF q, live, events
    <3>1. live \subseteq st.live
      BY DEF live
    <3> QED BY <2>2, <2>4, <3>1, PhaseReplace
  <2>6. Absorbed(st, a, v)
          = [st EXCEPT !.live = live, !.players[a] = q, !.events = events, !.eaten = eaten]
    BY <2>2 DEF Absorbed, Phase
  <2> QED BY <2>1, <2>5, <2>6
<1> QED BY <1>1, <1>2

\* The pairs that meet are pairs of pieces, and finitely many.
LEMMA CandidatesType ==
  ASSUME NEW T, NEW ps \in Seq(T)
  PROVE  Len(AbsorptionCandidates(ps)) \in Nat
<1> DEFINE pairs == AbsorptionPairs(ps)
<1>1. pairs \subseteq (DOMAIN ps) \X (DOMAIN ps)
  <2> DEFINE grid == PieceGrid(ps)
             meets(i) == LET near == ToSet(Query(grid, Bounds(ps[i])))
                         IN  {j \in DOMAIN ps : /\ j > i /\ ps[j].id \in near
                                                /\ ps[i].owner # ps[j].owner
                                                /\ CirclesOverlap(Bounds(ps[i]), Bounds(ps[j]))
                                                /\ ps[i].mass # ps[j].mass}
             pair(i, j) == IF ps[i].mass > ps[j].mass THEN <<i, j>> ELSE <<j, i>>
  <2>1. pairs = UNION {{pair(i, j) : j \in meets(i)} : i \in DOMAIN ps}
    BY DEF AbsorptionPairs
  <2>2. \A i : meets(i) \subseteq DOMAIN ps
    OBVIOUS
  <2>3. \A i, j \in DOMAIN ps : pair(i, j) \in (DOMAIN ps) \X (DOMAIN ps)
    OBVIOUS
  <2> HIDE DEF pairs, meets, pair
  <2> QED BY <2>1, <2>2, <2>3
<1>2. IsFiniteSet(DOMAIN ps)
  <2>1. Len(ps) \in Nat /\ DOMAIN ps = 1 .. Len(ps)
    BY LenProperties
  <2> QED BY <2>1, FS_Interval
<1>3. Cardinality(pairs) \in Nat
  <2>1. IsFiniteSet((DOMAIN ps) \X (DOMAIN ps))
    BY <1>2, FS_Product
  <2> HIDE DEF pairs
  <2>2. IsFiniteSet(pairs)
    BY <1>1, <2>1, FS_Subset
  <2> QED BY <2>2, FS_CardinalityType
<1>4. DOMAIN AbsorptionCandidates(ps) = 1 .. Cardinality(pairs)
  BY DEF AbsorptionCandidates
<1> DEFINE c(n) == CHOOSE x \in pairs :
                     Cardinality({y \in pairs : PairBefore(ps, y, x)}) = n - 1
<1>5. AbsorptionCandidates(ps) = [n \in 1 .. Cardinality(pairs) |-> c(n)]
  BY DEF AbsorptionCandidates
<1> HIDE DEF pairs, c
<1> DEFINE s == AbsorptionCandidates(ps)
<1>6. s \in Seq({c(n) : n \in 1 .. Cardinality(pairs)})
  BY <1>3, <1>5
<1> QED BY <1>6, LenProperties

\* The recursive function of Absorptions exists.
AbsorptionsSteps(st, mechanics, candidates, f) ==
  /\ f[0] = st
  /\ \A n \in Nat : n + 1 <= Len(candidates) => f[n + 1] = Absorb(f[n], candidates[n + 1])
  /\ Absorptions(st, mechanics) =
       IF "absorption" \in mechanics THEN f[Len(candidates)] ELSE st

\* ... and exists.
LEMMA AbsorptionsEquation ==
  ASSUME NEW st, NEW mechanics,
         NEW candidates, candidates = AbsorptionCandidates(st.players), Len(candidates) \in Nat
  PROVE  \E f : AbsorptionsSteps(st, mechanics, candidates, f)
<1> DEFINE base == st
           Step(x, n) == Absorb(x, candidates[n])
           Solves(f, m) == f = [n \in 0 .. m |-> IF n = 0 THEN base ELSE Step(f[n - 1], n)]
           Solved == {m \in Nat : \E f : Solves(f, m)}
<1> HIDE DEF Step, base
<1>1. 0 \in Solved
  <2> DEFINE g == [n \in 0 .. 0 |-> base]
  <2>1. Solves(g, 0)
    OBVIOUS
  <2> QED BY <2>1
<1>2. ASSUME NEW m \in Nat, m \in Solved PROVE m + 1 \in Solved
  <2>1. PICK f : Solves(f, m)
    BY <1>2
  <2> DEFINE last == Step(f[m], m + 1)
             g == [n \in 0 .. m + 1 |-> IF n <= m THEN f[n] ELSE last]
  <2> HIDE DEF last
  <2>2. \A n \in 0 .. m : g[n] = f[n]
    OBVIOUS
  <2>3. ASSUME NEW n \in 0 .. m + 1
        PROVE  g[n] = IF n = 0 THEN base ELSE Step(g[n - 1], n)
    <3>1. CASE n <= m
      <4>1. g[n] = f[n] BY <3>1
      <4>2. n # 0 => n - 1 \in 0 .. m BY <3>1
      <4>3. n # 0 => g[n - 1] = f[n - 1] BY <4>2, <2>2
      <4>4. f[n] = IF n = 0 THEN base ELSE Step(f[n - 1], n)
        BY <2>1, <3>1
      <4> QED BY <4>1, <4>3, <4>4
    <3>2. CASE n = m + 1
      <4>1. g[n] = last BY <3>2
      <4>2. g[m] = f[m] BY <2>2
      <4> QED BY <4>1, <4>2, <3>2 DEF last
    <3> QED BY <3>1, <3>2
  <2>4. Solves(g, m + 1)
    BY <2>3
  <2> HIDE DEF Solves, g
  <2>5. m + 1 \in Nat /\ \E h : Solves(h, m + 1)
    BY <2>4
  <2> QED BY <2>5
<1>3. Len(candidates) \in Nat
  OBVIOUS
<1>4. Len(candidates) \in Solved
  BY <1>1, <1>2, <1>3, SetInduction
<1> DEFINE f == CHOOSE h : Solves(h, Len(candidates))
<1>5. Solves(f, Len(candidates))
  BY <1>4
<1>6. Absorptions(st, mechanics) =
       IF "absorption" \in mechanics THEN f[Len(candidates)] ELSE st
  BY DEF Absorptions, AbsorbAll, Step, base
<1> HIDE DEF f
<1>7. f[0] = base
  BY <1>3, <1>5
<1>8. ASSUME NEW n \in Nat, n + 1 <= Len(candidates) PROVE f[n + 1] = Step(f[n], n + 1)
  <2>1. n + 1 \in 0 .. Len(candidates) /\ n + 1 # 0 /\ (n + 1) - 1 = n
    BY <1>3, <1>8
  <2>2. f[n + 1] = IF n + 1 = 0 THEN base ELSE Step(f[(n + 1) - 1], n + 1)
    BY <1>5, <2>1
  <2> QED BY <2>1, <2>2
<1> QED
  BY <1>6, <1>7, <1>8 DEF AbsorptionsSteps, Step, base

\* The absorptions of a tick.
LEMMA AbsorptionsPhase ==
  ASSUME NEW w, NEW st, NEW eaten, Phase(w, st, eaten), NEW mechanics
  PROVE  Phase(w, Absorptions(st, mechanics), eaten)
<1> DEFINE candidates == AbsorptionCandidates(st.players)
<1>1. Len(candidates) \in Nat
  <2>1. st.players \in Seq(Pieces)
    BY DEF Phase
  <2> QED BY <2>1, CandidatesType
<1>2. PICK after : AbsorptionsSteps(st, mechanics, candidates, after)
  <2>1. candidates = AbsorptionCandidates(st.players)
    OBVIOUS
  <2> HIDE DEF candidates
  <2> QED BY <1>1, <2>1, AbsorptionsEquation
<1> HIDE DEF candidates
<1>3. /\ after[0] = st
      /\ \A n \in Nat : n + 1 <= Len(candidates) =>
           after[n + 1] = Absorb(after[n], candidates[n + 1])
      /\ Absorptions(st, mechanics) =
           IF "absorption" \in mechanics THEN after[Len(candidates)] ELSE st
  BY <1>2 DEF AbsorptionsSteps
<1> DEFINE I == {n \in Nat : n <= Len(candidates) => Phase(w, after[n], eaten)}
<1>4. 0 \in I
  BY <1>3
<1>5. ASSUME NEW n \in Nat, n \in I PROVE n + 1 \in I
  <2> SUFFICES ASSUME n + 1 <= Len(candidates) PROVE Phase(w, after[n + 1], eaten)
    OBVIOUS
  <2>1. Phase(w, after[n], eaten)
    BY <1>1, <1>5
  <2>2. after[n + 1] = Absorb(after[n], candidates[n + 1])
    BY <1>3
  <2> QED BY <2>1, <2>2, AbsorbPhase
<1>6. Len(candidates) \in I
  <2> HIDE DEF I
  <2> QED BY <1>1, <1>4, <1>5, SetInduction
<1>7. Phase(w, after[Len(candidates)], eaten)
  BY <1>1, <1>6
<1> QED BY <1>3, <1>7

\* A pair with the smallest ids.
Least(st, pairs, x) ==
  \A y \in pairs : \/ st.players[x[1]].id < st.players[y[1]].id
                   \/ x[1] = y[1] /\ st.players[x[2]].id <= st.players[y[2]].id

\* Of pairs of pieces that ids tell apart, one has the smallest ids.
LEMMA SelectedIs ==
  ASSUME NEW st, NEW D, NEW pairs, pairs # {}, pairs \subseteq D \X D,
         \A i \in D : st.players[i].id \in Nat,
         \A i, j \in D : st.players[i].id = st.players[j].id => i = j
  PROVE  Selected(st, pairs) \in pairs /\ Least(st, pairs, Selected(st, pairs))
<1> DEFINE id(i) == st.players[i].id
           A == {id(x[1]) : x \in pairs}
           S == {x \in pairs : id(x[1]) = Min(A)}
           B == {id(x[2]) : x \in S}
           least(x) == \A y \in pairs : \/ id(x[1]) < id(y[1])
                                        \/ x[1] = y[1] /\ id(x[2]) <= id(y[2])
<1>1. \A x \in pairs : /\ x[1] \in D /\ x[2] \in D
                       /\ id(x[1]) \in Nat /\ id(x[2]) \in Nat
  OBVIOUS
<1>2. \A i, j \in D : id(i) = id(j) => i = j
  OBVIOUS
<1>3. Selected(st, pairs) = CHOOSE x \in pairs : least(x)
  BY DEF Selected
<1> HIDE DEF id
<1>4. A \in SUBSET Nat /\ A # {}
  BY <1>1
<1>5. Min(A) \in A /\ \A n \in A : Min(A) <= n
  <2> HIDE DEF A
  <2> QED BY <1>4, NatMinIs
<1>6. S # {} /\ S \subseteq pairs
  BY <1>5
<1>7. B \in SUBSET Nat /\ B # {}
  <2> HIDE DEF S
  <2> QED BY <1>1, <1>6
<1>8. Min(B) \in B /\ \A n \in B : Min(B) <= n
  <2> HIDE DEF B
  <2> QED BY <1>7, NatMinIs
<1>9. PICK x \in S : id(x[2]) = Min(B)
  BY <1>8
<1>10. ASSUME NEW y \in pairs
       PROVE  \/ id(x[1]) < id(y[1])
              \/ x[1] = y[1] /\ id(x[2]) <= id(y[2])
  <2>1. id(x[1]) = Min(A) /\ x \in pairs
    BY <1>9
  <2>2. id(x[1]) <= id(y[1])
    BY <1>5, <2>1
  <2>3. CASE id(x[1]) = id(y[1])
    <3>1. x[1] = y[1] /\ y \in S
      BY <1>1, <1>2, <2>1, <2>3
    <3>2. id(y[2]) \in B
      BY <3>1
    <3>3. id(x[2]) <= id(y[2])
      BY <1>8, <1>9, <3>2
    <3> QED BY <3>1, <3>3, Zenon
  <2> HIDE DEF S, A
  <2>4. CASE id(x[1]) # id(y[1])
    <3>1. id(x[1]) \in Int /\ id(y[1]) \in Int
      BY <1>1, <2>1
    <3>2. id(x[1]) < id(y[1])
      BY ONLY <2>2, <2>4, <3>1
    <3> QED BY <3>2, Zenon
  <2> QED BY <2>3, <2>4
<1>11. x \in pairs /\ least(x)
  BY <1>6, <1>9, <1>10
<1>12. least(Selected(st, pairs)) => Least(st, pairs, Selected(st, pairs))
  BY DEF Least, id
<1> HIDE DEF least
<1> QED BY <1>3, <1>11, <1>12

\* The mean of two values by mass is a number.
LEMMA MeanType ==
  ASSUME NEW a \in Int, NEW b \in Int, NEW m \in Positive, NEW n \in Positive
  PROVE  (a * m + b * n) \div (m + n) \in Int
<1>1. m \in Int /\ n \in Int /\ m + n \in Int /\ m + n > 0
  BY DEF Positive
<1>2. \A x, y \in Int : x * y \in Int
  OBVIOUS
<1>3. a * m + b * n \in Int
  BY <1>1, <1>2
<1>4. \A x \in Int : \A d \in Int : d > 0 => x \div d \in Int
  OBVIOUS
<1> HIDE DEF Positive
<1> QED BY <1>1, <1>3, <1>4

\* Two pieces merge.
LEMMA MergePhase ==
  ASSUME NEW w, Sound(w), NEW st, NEW eaten, Phase(w, st, eaten), NEW done
  PROVE  Phase(w, MergeOnce(st, done), eaten)
<1> DEFINE pairs == MergePairs(st, done)
           pair == Selected(st, pairs)
           a == pair[1]  b == pair[2]
           p == st.players[a]  q == st.players[b]
           mass == p.mass + q.mass
           mean(field) == (p[field] * p.mass + q[field] * q.mass) \div mass
           pos == mean("pos")
           launch == mean("launch")
           eligible == IF q.eligible > p.eligible THEN q.eligible ELSE p.eligible
           g == Grown(p, mass)
           new == [g EXCEPT !.pos = pos, !.launch = launch,
                            !.eligible = IF q.eligible > p.eligible THEN q.eligible ELSE @]
           live == st.live \ {b}
           events == Append(st.events, MergedEvent(p, q))
<1>1. CASE pairs = {}
  BY <1>1 DEF MergeOnce
<1>2. CASE pairs # {}
  <2>1. pairs \subseteq st.live \X st.live
    BY DEF MergePairs
  <2>2. /\ w.players \in Seq(Pieces) /\ st.live \subseteq DOMAIN w.players
        /\ \A i \in DOMAIN w.players : w.players[i] \in Pieces
        /\ \A i, j \in DOMAIN w.players : w.players[i].id = w.players[j].id => i = j
        /\ \A i \in DOMAIN w.players : Replaces(w, i, st.players[i])
    BY ElementsIn, ArraysApart DEF Sound, Stored, Phase
  <2>3. \A i \in st.live : /\ st.players[i].id \in Nat
                           /\ st.players[i].id = w.players[i].id
    BY <2>2 DEF Replaces, Pieces, Positive
  <2>4. \A i, j \in st.live : st.players[i].id = st.players[j].id => i = j
    BY <2>2, <2>3
  <2>5. pair \in pairs
    <3> HIDE DEF pairs
    <3> QED BY <1>2, <2>1, <2>3, <2>4, SelectedIs
  <2> HIDE DEF pairs, pair
  <2>6. a \in st.live /\ b \in st.live
    BY <2>1, <2>5
  <2>7. a \in DOMAIN w.players /\ Replaces(w, a, p) /\ Replaces(w, b, q)
    BY <2>2, <2>6
  <2>8. /\ p \in Pieces /\ q \in Pieces
        /\ p.id = w.players[a].id /\ p.owner = w.players[a].owner /\ p.key = w.players[a].key
    BY <2>7 DEF Replaces
  <2> HIDE DEF p, q, a, b
  <2>9. /\ p.mass \in Positive /\ q.mass \in Positive /\ p.pos \in Int /\ q.pos \in Int
        /\ p.launch \in Int /\ q.launch \in Int
        /\ p.eligible \in 0 .. LastTick /\ q.eligible \in 0 .. LastTick
    BY <2>8 DEF Pieces
  <2>10. /\ mass \in Positive /\ pos \in Int /\ launch \in Int /\ eligible \in 0 .. LastTick
    BY <2>9, MassesAdd, MeanType
  <2>11. /\ g \in Pieces /\ g.id = p.id /\ g.owner = p.owner /\ g.mass = mass
         /\ g.radius = RadiusForMass(mass) /\ g.eligible = p.eligible /\ g.key = p.key
    <3>1. g.eligible = p.eligible
      BY <2>8 DEF Grown, Pieces
    <3> HIDE DEF g, mass
    <3> QED BY <2>8, <2>10, <3>1, GrownFacts DEF g
  <2> HIDE DEF g, mass, pos, launch
  <2>12. new = [g EXCEPT !.pos = pos, !.launch = launch, !.eligible = eligible]
    BY <2>11 DEF Pieces
  <2> HIDE DEF new, eligible
  <2>13. /\ new \in Pieces /\ new.id = g.id /\ new.owner = g.owner /\ new.mass = g.mass
         /\ new.radius = g.radius /\ new.key = g.key
    BY <2>10, <2>11, <2>12 DEF Pieces
  <2>14. Replaces(w, a, new)
    BY <2>7, <2>8, <2>11, <2>13 DEF Replaces
  <2>15. MergeOnce(st, done)
           = [st EXCEPT !.live = live, !.players[a] = new, !.events = events, !.eaten = eaten]
    <3>1. MergeOnce(st, done)
           = [st EXCEPT !.live = live, !.players[a] = new, !.events = events]
      BY <1>2 DEF MergeOnce, pairs, pair, a, b, p, q, mass, pos, launch, g, new
    <3> HIDE DEF events, live
    <3> QED BY <3>1 DEF Phase
  <2>16. live \subseteq st.live
    OBVIOUS
  <2> HIDE DEF live, events
  <2>17. Phase(w, [st EXCEPT !.live = live, !.players[a] = new, !.events = events,
                             !.eaten = eaten], eaten)
    BY <2>7, <2>14, <2>16, PhaseReplace
  <2> QED BY <2>15, <2>17
<1> QED BY <1>1, <1>2

\* The recursive function of Merges exists.
MergesSteps(st, mechanics, done, pieces, f) ==
  /\ f[0] = st
  /\ \A n \in Nat : n + 1 <= pieces => f[n + 1] = MergeOnce(f[n], done)
  /\ Merges(st, mechanics, done) =
       IF "split_merge" \in mechanics THEN f[pieces] ELSE st

\* ... and exists.
LEMMA MergesEquation ==
  ASSUME NEW st, NEW mechanics, NEW done,
         NEW pieces, pieces = Len(st.players), pieces \in Nat
  PROVE  \E f : MergesSteps(st, mechanics, done, pieces, f)
<1> DEFINE base == st
           Step(x, n) == MergeOnce(x, done)
           Solves(f, m) == f = [n \in 0 .. m |-> IF n = 0 THEN base ELSE Step(f[n - 1], n)]
           Solved == {m \in Nat : \E f : Solves(f, m)}
<1> HIDE DEF Step, base
<1>1. 0 \in Solved
  <2> DEFINE g == [n \in 0 .. 0 |-> base]
  <2>1. Solves(g, 0)
    OBVIOUS
  <2> QED BY <2>1
<1>2. ASSUME NEW m \in Nat, m \in Solved PROVE m + 1 \in Solved
  <2>1. PICK f : Solves(f, m)
    BY <1>2
  <2> DEFINE last == Step(f[m], m + 1)
             g == [n \in 0 .. m + 1 |-> IF n <= m THEN f[n] ELSE last]
  <2> HIDE DEF last
  <2>2. \A n \in 0 .. m : g[n] = f[n]
    OBVIOUS
  <2>3. ASSUME NEW n \in 0 .. m + 1
        PROVE  g[n] = IF n = 0 THEN base ELSE Step(g[n - 1], n)
    <3>1. CASE n <= m
      <4>1. g[n] = f[n] BY <3>1
      <4>2. n # 0 => n - 1 \in 0 .. m BY <3>1
      <4>3. n # 0 => g[n - 1] = f[n - 1] BY <4>2, <2>2
      <4>4. f[n] = IF n = 0 THEN base ELSE Step(f[n - 1], n)
        BY <2>1, <3>1
      <4> QED BY <4>1, <4>3, <4>4
    <3>2. CASE n = m + 1
      <4>1. g[n] = last BY <3>2
      <4>2. g[m] = f[m] BY <2>2
      <4> QED BY <4>1, <4>2, <3>2 DEF last
    <3> QED BY <3>1, <3>2
  <2>4. Solves(g, m + 1)
    BY <2>3
  <2> HIDE DEF Solves, g
  <2>5. m + 1 \in Nat /\ \E h : Solves(h, m + 1)
    BY <2>4
  <2> QED BY <2>5
<1>3. pieces \in Nat
  OBVIOUS
<1>4. pieces \in Solved
  BY <1>1, <1>2, <1>3, SetInduction
<1> DEFINE f == CHOOSE h : Solves(h, pieces)
<1>5. Solves(f, pieces)
  BY <1>4
<1>6. Merges(st, mechanics, done) =
       IF "split_merge" \in mechanics THEN f[pieces] ELSE st
  BY DEF Merges, Step, base
<1> HIDE DEF f
<1>7. f[0] = base
  BY <1>3, <1>5
<1>8. ASSUME NEW n \in Nat, n + 1 <= pieces PROVE f[n + 1] = Step(f[n], n + 1)
  <2>1. n + 1 \in 0 .. pieces /\ n + 1 # 0 /\ (n + 1) - 1 = n
    BY <1>3, <1>8
  <2>2. f[n + 1] = IF n + 1 = 0 THEN base ELSE Step(f[(n + 1) - 1], n + 1)
    BY <1>5, <2>1
  <2> QED BY <2>1, <2>2
<1> QED
  BY <1>6, <1>7, <1>8 DEF MergesSteps, Step, base

\* The merges of a tick.
LEMMA MergesPhase ==
  ASSUME NEW w, Sound(w), NEW st, NEW eaten, Phase(w, st, eaten), NEW mechanics, NEW done
  PROVE  Phase(w, Merges(st, mechanics, done), eaten)
<1> DEFINE pieces == Len(st.players)
<1>1. pieces \in Nat
  BY LenProperties DEF Phase
<1>2. PICK after : MergesSteps(st, mechanics, done, pieces, after)
  BY <1>1, MergesEquation
<1> HIDE DEF pieces
<1>3. /\ after[0] = st
      /\ \A n \in Nat : n + 1 <= pieces => after[n + 1] = MergeOnce(after[n], done)
      /\ Merges(st, mechanics, done) = IF "split_merge" \in mechanics THEN after[pieces] ELSE st
  BY <1>2 DEF MergesSteps
<1> DEFINE I == {n \in Nat : n <= pieces => Phase(w, after[n], eaten)}
<1>4. 0 \in I
  BY <1>3
<1>5. ASSUME NEW n \in Nat, n \in I PROVE n + 1 \in I
  <2> SUFFICES ASSUME n + 1 <= pieces PROVE Phase(w, after[n + 1], eaten)
    OBVIOUS
  <2>1. Phase(w, after[n], eaten)
    BY <1>1, <1>5
  <2>2. after[n + 1] = MergeOnce(after[n], done)
    BY <1>3
  <2> QED BY <2>1, <2>2, MergePhase
<1>6. pieces \in I
  <2> HIDE DEF I
  <2> QED BY <1>1, <1>4, <1>5, SetInduction
<1>7. Phase(w, after[pieces], eaten)
  BY <1>1, <1>6
<1> QED BY <1>3, <1>7

\* What the phase of the meals works through: foods of the world, each once,
\* and who eats them.
MeetingsOK(w, st, meetings) ==
  /\ Len(meetings) \in Nat /\ DOMAIN meetings = 1 .. Len(meetings)
  /\ \A n \in DOMAIN meetings : /\ meetings[n].food \in IdsOf(ToSet(w.food))
                                /\ meetings[n].player \in st.live
  /\ \A m, n \in DOMAIN meetings : meetings[m].food = meetings[n].food => m = n

\* The meetings of a tick are such.
LEMMA MeetingsType ==
  ASSUME NEW w, Sound(w), NEW st, NEW eaten, Phase(w, st, eaten)
  PROVE  MeetingsOK(w, st, FoodMeetings(w, st))
<1> DEFINE ps == st.players
           near == [i \in st.live |-> ToSet(Query(w.grid, Bounds(ps[i])))]
           touching(id) == {i \in st.live :
                              /\ id \in near[i]
                              /\ CirclesOverlap(Bounds(ps[i]),
                                                FoodBounds(w.food[FindIndex(w, id)]))}
           S == {id \in DOMAIN w.locations : Located(w, id, "food") /\ touching(id) # {}}
           touched == Ascending(S)
           first(id) == CHOOSE i \in touching(id) : \A j \in touching(id) : ps[i].id <= ps[j].id
           meetings == FoodMeetings(w, st)
<1>1. meetings = [n \in DOMAIN touched |-> [food |-> touched[n], player |-> first(touched[n])]]
  BY DEF FoodMeetings
<1>2. \A i \in st.live : ps[i].id \in Nat
  BY DEF Phase, Replaces, Pieces, Positive
<1>3. \A id : touching(id) \subseteq st.live
  OBVIOUS
<1>4. \A id \in S : touching(id) # {} /\ id \in IdsOf(ToSet(w.food))
  BY LocatedIs DEF Sound
<1> HIDE DEF S, touching, ps, meetings
<1>5. /\ touched \in Seq(1 .. LastEntity) /\ ToSet(touched) = S \cap (1 .. LastEntity)
      /\ IsInjective(touched)
  BY ConstantTypes, AscendingFacts
<1> HIDE DEF touched
<1>6. Len(touched) \in Nat /\ DOMAIN touched = 1 .. Len(touched)
  BY <1>5, LenProperties
<1>7. \A n \in DOMAIN touched : touched[n] \in S
  BY <1>5 DEF ToSet
<1>8. ASSUME NEW n \in DOMAIN touched
      PROVE  first(touched[n]) \in st.live
  <2> DEFINE T == touching(touched[n])
             A == {ps[i].id : i \in T}
  <2>1. T # {} /\ T \subseteq st.live
    BY <1>3, <1>4, <1>7
  <2> HIDE DEF T
  <2>2. A \in SUBSET Nat /\ A # {}
    BY <1>2, <2>1
  <2>3. Min(A) \in A /\ \A x \in A : Min(A) <= x
    <3> HIDE DEF A
    <3> QED BY <2>2, NatMinIs
  <2>4. PICK i \in T : ps[i].id = Min(A)
    BY <2>3
  <2>5. \A j \in T : ps[i].id <= ps[j].id
    BY <2>3, <2>4
  <2>6. \E k \in T : \A j \in T : ps[k].id <= ps[j].id
    BY <2>5
  <2>7. first(touched[n]) = CHOOSE k \in T : \A j \in T : ps[k].id <= ps[j].id
    BY DEF T
  <2> HIDE DEF first
  <2> QED BY <2>1, <2>6, <2>7
<1> HIDE DEF first
<1>9. DOMAIN meetings = 1 .. Len(meetings) /\ Len(meetings) \in Nat
  <2>1. meetings \in Seq({meetings[n] : n \in DOMAIN touched})
    BY <1>1, <1>6
  <2> QED BY <2>1, LenProperties
<1>10. /\ DOMAIN meetings = DOMAIN touched
       /\ \A n \in DOMAIN touched : /\ meetings[n].food = touched[n]
                                    /\ meetings[n].player = first(touched[n])
  BY <1>1
<1>11. \A m, n \in DOMAIN touched : touched[m] = touched[n] => m = n
  BY <1>5 DEF IsInjective
<1> QED BY <1>4, <1>7, <1>8, <1>9, <1>10, <1>11 DEF MeetingsOK, meetings

\* A piece eats a food.
LEMMA EatPhase ==
  ASSUME NEW w, NEW st, NEW eaten, Phase(w, st, eaten), NEW meeting,
         meeting.player \in DOMAIN w.players
  PROVE  Phase(w, Eat(st, meeting), Append(eaten, meeting.food))
<1> DEFINE i == meeting.player
           p == st.players[i]
           q == Grown(p, p.mass + FoodMass)
           more == Append(eaten, meeting.food)
           events == Append(st.events, [type |-> "eaten", food |-> meeting.food,
                                        player |-> p.id, mass |-> FoodMass])
           live == st.live
<1>1. Replaces(w, i, p) /\ i \in DOMAIN w.players /\ st.eaten = eaten
  BY DEF Phase
<1>2. /\ p \in Pieces
      /\ p.id = w.players[i].id /\ p.owner = w.players[i].owner /\ p.key = w.players[i].key
  BY <1>1 DEF Replaces
<1>3. Eat(st, meeting)
        = [st EXCEPT !.live = live, !.players[i] = q, !.events = events, !.eaten = more]
  BY <1>1 DEF Eat, Phase
<1> HIDE DEF p
<1>4. p.mass + FoodMass \in Positive
  BY <1>2, ConstantTypes, MassesAdd DEF Pieces
<1>5. Replaces(w, i, q)
  BY <1>1, <1>2, <1>4, GrownFacts DEF Replaces
<1> HIDE DEF q, events, more
<1>6. Phase(w, [st EXCEPT !.live = live, !.players[i] = q, !.events = events, !.eaten = more], more)
  <2>1. live \subseteq st.live
    OBVIOUS
  <2> HIDE DEF live
  <2> QED BY <1>1, <1>5, <2>1, PhaseReplace
<1> QED BY <1>3, <1>6 DEF more

\* The recursive function of Meals exists.
MealsSteps(w, st, mechanics, meetings, f) ==
  /\ f[0] = st
  /\ \A n \in Nat : n + 1 <= Len(meetings) => f[n + 1] = Eat(f[n], meetings[n + 1])
  /\ Meals(w, st, mechanics) =
       IF "food" \in mechanics THEN f[Len(meetings)] ELSE st

\* ... and exists.
LEMMA MealsEquation ==
  ASSUME NEW w, NEW st, NEW mechanics,
         NEW meetings, meetings = FoodMeetings(w, st), Len(meetings) \in Nat
  PROVE  \E f : MealsSteps(w, st, mechanics, meetings, f)
<1> DEFINE base == st
           Step(x, n) == Eat(x, meetings[n])
           Solves(f, m) == f = [n \in 0 .. m |-> IF n = 0 THEN base ELSE Step(f[n - 1], n)]
           Solved == {m \in Nat : \E f : Solves(f, m)}
<1> HIDE DEF Step, base
<1>1. 0 \in Solved
  <2> DEFINE g == [n \in 0 .. 0 |-> base]
  <2>1. Solves(g, 0)
    OBVIOUS
  <2> QED BY <2>1
<1>2. ASSUME NEW m \in Nat, m \in Solved PROVE m + 1 \in Solved
  <2>1. PICK f : Solves(f, m)
    BY <1>2
  <2> DEFINE last == Step(f[m], m + 1)
             g == [n \in 0 .. m + 1 |-> IF n <= m THEN f[n] ELSE last]
  <2> HIDE DEF last
  <2>2. \A n \in 0 .. m : g[n] = f[n]
    OBVIOUS
  <2>3. ASSUME NEW n \in 0 .. m + 1
        PROVE  g[n] = IF n = 0 THEN base ELSE Step(g[n - 1], n)
    <3>1. CASE n <= m
      <4>1. g[n] = f[n] BY <3>1
      <4>2. n # 0 => n - 1 \in 0 .. m BY <3>1
      <4>3. n # 0 => g[n - 1] = f[n - 1] BY <4>2, <2>2
      <4>4. f[n] = IF n = 0 THEN base ELSE Step(f[n - 1], n)
        BY <2>1, <3>1
      <4> QED BY <4>1, <4>3, <4>4
    <3>2. CASE n = m + 1
      <4>1. g[n] = last BY <3>2
      <4>2. g[m] = f[m] BY <2>2
      <4> QED BY <4>1, <4>2, <3>2 DEF last
    <3> QED BY <3>1, <3>2
  <2>4. Solves(g, m + 1)
    BY <2>3
  <2> HIDE DEF Solves, g
  <2>5. m + 1 \in Nat /\ \E h : Solves(h, m + 1)
    BY <2>4
  <2> QED BY <2>5
<1>3. Len(meetings) \in Nat
  OBVIOUS
<1>4. Len(meetings) \in Solved
  BY <1>1, <1>2, <1>3, SetInduction
<1> DEFINE f == CHOOSE h : Solves(h, Len(meetings))
<1>5. Solves(f, Len(meetings))
  BY <1>4
<1>6. Meals(w, st, mechanics) =
       IF "food" \in mechanics THEN f[Len(meetings)] ELSE st
  BY DEF Meals, EatAll, Step, base
<1> HIDE DEF f
<1>7. f[0] = base
  BY <1>3, <1>5
<1>8. ASSUME NEW n \in Nat, n + 1 <= Len(meetings) PROVE f[n + 1] = Step(f[n], n + 1)
  <2>1. n + 1 \in 0 .. Len(meetings) /\ n + 1 # 0 /\ (n + 1) - 1 = n
    BY <1>3, <1>8
  <2>2. f[n + 1] = IF n + 1 = 0 THEN base ELSE Step(f[(n + 1) - 1], n + 1)
    BY <1>5, <2>1
  <2> QED BY <2>1, <2>2
<1> QED
  BY <1>6, <1>7, <1>8 DEF MealsSteps, Step, base

\* What the meals leave.
Fed(w, st) ==
  \E eaten \in Seq(IdsOf(ToSet(w.food))) : IsInjective(eaten) /\ Phase(w, st, eaten)

\* The meals of a tick.
LEMMA MealsPhase ==
  ASSUME NEW w, Sound(w), NEW st, Phase(w, st, <<>>), NEW mechanics
  PROVE  Fed(w, Meals(w, st, mechanics))
<1> DEFINE meetings == FoodMeetings(w, st)
           Foodstuff == IdsOf(ToSet(w.food))
<1>1. MeetingsOK(w, st, meetings)
  BY MeetingsType
<1>2. /\ Len(meetings) \in Nat /\ DOMAIN meetings = 1 .. Len(meetings)
      /\ \A n \in DOMAIN meetings : /\ meetings[n].food \in Foodstuff
                                    /\ meetings[n].player \in DOMAIN w.players
      /\ \A m, n \in DOMAIN meetings : meetings[m].food = meetings[n].food => m = n
  <2> HIDE DEF meetings
  <2> QED BY <1>1 DEF MeetingsOK, Phase
<1>3. PICK after : MealsSteps(w, st, mechanics, meetings, after)
  BY <1>2, MealsEquation
<1> HIDE DEF meetings, Foodstuff
<1>4. /\ after[0] = st
      /\ \A n \in Nat : n + 1 <= Len(meetings) => after[n + 1] = Eat(after[n], meetings[n + 1])
      /\ Meals(w, st, mechanics) = IF "food" \in mechanics THEN after[Len(meetings)] ELSE st
  BY <1>3 DEF MealsSteps
<1> DEFINE foods(n) == [k \in 1 .. n |-> meetings[k].food]
           I == {n \in Nat : n <= Len(meetings) => Phase(w, after[n], foods(n))}
<1>5. foods(0) = <<>>
  OBVIOUS
<1>6. ASSUME NEW n \in Nat, n <= Len(meetings)
      PROVE  /\ foods(n) \in Seq(Foodstuff) /\ Len(foods(n)) = n
             /\ IsInjective(foods(n))
  <2>1. \A k \in 1 .. n : k \in DOMAIN meetings
    BY <1>2, <1>6
  <2>2. foods(n) \in Seq(Foodstuff) /\ Len(foods(n)) = n
    BY <1>2, <2>1
  <2> QED BY <1>2, <2>1, <2>2 DEF IsInjective
<1>7. 0 \in I
  BY <1>4, <1>5
<1>8. ASSUME NEW n \in Nat, n \in I PROVE n + 1 \in I
  <2> SUFFICES ASSUME n + 1 <= Len(meetings) PROVE Phase(w, after[n + 1], foods(n + 1))
    OBVIOUS
  <2> DEFINE next == meetings[n + 1]
  <2>1. Phase(w, after[n], foods(n))
    BY <1>2, <1>8
  <2>2. after[n + 1] = Eat(after[n], next)
    BY <1>4
  <2>3. n + 1 \in DOMAIN meetings /\ n <= Len(meetings)
    BY <1>2
  <2>4. next.player \in DOMAIN w.players /\ next.food \in Foodstuff
    BY <1>2, <2>3
  <2>5. foods(n + 1) = Append(foods(n), next.food)
    <3>1. foods(n) \in Seq(Foodstuff) /\ Len(foods(n)) = n
      BY <1>6, <2>3
    <3>2. /\ foods(n + 1) \in Seq(Foodstuff) /\ Len(foods(n + 1)) = n + 1
      <4>1. n + 1 \in Nat
        OBVIOUS
      <4> HIDE DEF foods
      <4> QED BY <1>6, <4>1
    <3>3. \A k \in 1 .. n + 1 : foods(n + 1)[k] = Append(foods(n), next.food)[k]
      <4>1. \A k \in 1 .. n : Append(foods(n), next.food)[k] = foods(n)[k]
        BY ONLY <2>4, <3>1, AppendProperties
      <4>2. Append(foods(n), next.food)[n + 1] = next.food
        BY ONLY <2>4, <3>1, AppendProperties
      <4>3. \A k \in 1 .. n : foods(n + 1)[k] = foods(n)[k]
        OBVIOUS
      <4>4. foods(n + 1)[n + 1] = next.food
        OBVIOUS
      <4>5. \A k \in 1 .. n + 1 : k \in 1 .. n \/ k = n + 1
        OBVIOUS
      <4> HIDE DEF foods, next
      <4> QED BY <4>1, <4>2, <4>3, <4>4, <4>5
    <3>4. Append(foods(n), next.food) \in Seq(Foodstuff) /\ Len(Append(foods(n), next.food)) = n + 1
      <4> HIDE DEF foods, next
      <4> QED BY <2>4, <3>1, AppendProperties
    <3> HIDE DEF foods, next
    <3> QED BY <3>2, <3>3, <3>4, SeqEqual
  <2> HIDE DEF foods, next
  <2>6. Phase(w, Eat(after[n], next), Append(foods(n), next.food))
    BY <2>1, <2>4, EatPhase
  <2> QED BY <2>2, <2>5, <2>6
<1>9. Len(meetings) \in I
  <2> HIDE DEF I
  <2> QED BY <1>2, <1>7, <1>8, SetInduction
<1> HIDE DEF foods
<1>10. Phase(w, after[Len(meetings)], foods(Len(meetings)))
  BY <1>2, <1>9
<1>11. Fed(w, after[Len(meetings)])
  BY <1>2, <1>6, <1>10 DEF Fed, Foodstuff
<1>12. Fed(w, st)
  <2>1. <<>> \in Seq(IdsOf(ToSet(w.food))) /\ IsInjective(<<>>)
    BY DEF IsInjective
  <2> QED BY <2>1 DEF Fed
<1> QED BY <1>4, <1>11, <1>12

\* The phases up to the decision whether the tick can be committed.
LEMMA ResolvedFed ==
  ASSUME NEW w, Sound(w), NEW mechanics
  PROVE  Fed(w, Resolved(w, mechanics))
<1> DEFINE moved == [players |-> Moved(w, mechanics), live |-> DOMAIN w.players,
                     events |-> w.journal, eaten |-> <<>>]
           absorbed == Absorptions(moved, mechanics)
           merged == Merges(absorbed, mechanics, w.tick + 1)
<1>1. Phase(w, moved, <<>>)
  BY MovedPhase
<1>2. Resolved(w, mechanics) = Meals(w, merged, mechanics)
  BY DEF Resolved
<1> HIDE DEF moved
<1>3. Phase(w, absorbed, <<>>)
  BY <1>1, AbsorptionsPhase
<1> HIDE DEF absorbed
<1>4. Phase(w, merged, <<>>)
  BY <1>3, MergesPhase
<1> HIDE DEF merged
<1> QED BY <1>2, <1>4, MealsPhase

\* The recursive function of Updated exists.
UpdatedSteps(w, st, f) ==
  /\ f[0] = w
  /\ \A n \in Nat : n + 1 <= Len(st.players) =>
       f[n + 1] = IF n + 1 \in st.live THEN InPlace(f[n], n + 1, st.players[n + 1]) ELSE f[n]
  /\ Updated(w, st) = f[Len(st.players)]

\* ... and exists.
LEMMA UpdatedEquation ==
  ASSUME NEW w, NEW st, Len(st.players) \in Nat
  PROVE  \E f : UpdatedSteps(w, st, f)
<1> DEFINE base == w
           Step(x, n) == IF n \in st.live THEN InPlace(x, n, st.players[n]) ELSE x
           Solves(f, m) == f = [n \in 0 .. m |-> IF n = 0 THEN base ELSE Step(f[n - 1], n)]
           Solved == {m \in Nat : \E f : Solves(f, m)}
<1> HIDE DEF Step, base
<1>1. 0 \in Solved
  <2> DEFINE g == [n \in 0 .. 0 |-> base]
  <2>1. Solves(g, 0)
    OBVIOUS
  <2> QED BY <2>1
<1>2. ASSUME NEW m \in Nat, m \in Solved PROVE m + 1 \in Solved
  <2>1. PICK f : Solves(f, m)
    BY <1>2
  <2> DEFINE last == Step(f[m], m + 1)
             g == [n \in 0 .. m + 1 |-> IF n <= m THEN f[n] ELSE last]
  <2> HIDE DEF last
  <2>2. \A n \in 0 .. m : g[n] = f[n]
    OBVIOUS
  <2>3. ASSUME NEW n \in 0 .. m + 1
        PROVE  g[n] = IF n = 0 THEN base ELSE Step(g[n - 1], n)
    <3>1. CASE n <= m
      <4>1. g[n] = f[n] BY <3>1
      <4>2. n # 0 => n - 1 \in 0 .. m BY <3>1
      <4>3. n # 0 => g[n - 1] = f[n - 1] BY <4>2, <2>2
      <4>4. f[n] = IF n = 0 THEN base ELSE Step(f[n - 1], n)
        BY <2>1, <3>1
      <4> QED BY <4>1, <4>3, <4>4
    <3>2. CASE n = m + 1
      <4>1. g[n] = last BY <3>2
      <4>2. g[m] = f[m] BY <2>2
      <4> QED BY <4>1, <4>2, <3>2 DEF last
    <3> QED BY <3>1, <3>2
  <2>4. Solves(g, m + 1)
    BY <2>3
  <2> HIDE DEF Solves, g
  <2>5. m + 1 \in Nat /\ \E h : Solves(h, m + 1)
    BY <2>4
  <2> QED BY <2>5
<1>3. Len(st.players) \in Nat
  OBVIOUS
<1>4. Len(st.players) \in Solved
  BY <1>1, <1>2, <1>3, SetInduction
<1> DEFINE f == CHOOSE h : Solves(h, Len(st.players))
<1>5. Solves(f, Len(st.players))
  BY <1>4
<1>6. Updated(w, st) = f[Len(st.players)]
  BY DEF Updated, Step, base
<1> HIDE DEF f
<1>7. f[0] = base
  BY <1>3, <1>5
<1>8. ASSUME NEW n \in Nat, n + 1 <= Len(st.players) PROVE f[n + 1] = Step(f[n], n + 1)
  <2>1. n + 1 \in 0 .. Len(st.players) /\ n + 1 # 0 /\ (n + 1) - 1 = n
    BY <1>3, <1>8
  <2>2. f[n + 1] = IF n + 1 = 0 THEN base ELSE Step(f[(n + 1) - 1], n + 1)
    BY <1>5, <2>1
  <2> QED BY <2>1, <2>2
<1> QED
  BY <1>6, <1>7, <1>8 DEF UpdatedSteps, Step, base

\* What updating the first n leaves: the same pieces in the same places, of
\* these the live ones as the phases left them.
UpdatedAs(w, st, n, v) ==
  /\ Sound(v) /\ DOMAIN v.players = DOMAIN w.players
  /\ \A i \in DOMAIN w.players :
       /\ v.players[i].id = w.players[i].id
       /\ v.players[i].owner = w.players[i].owner
       /\ v.players[i].key = w.players[i].key
       /\ i \in st.live /\ i <= n => v.players[i] = st.players[i]
  /\ v.owners = w.owners /\ v.food = w.food /\ v.tick = w.tick /\ v.next = w.next

\* The live pieces are updated in place.
LEMMA UpdatedSound ==
  ASSUME NEW w, Sound(w), NEW st, NEW eaten, Phase(w, st, eaten)
  PROVE  UpdatedAs(w, st, Len(st.players), Updated(w, st))
<1> DEFINE pieces == Len(st.players)
<1>1. /\ pieces \in Nat /\ DOMAIN w.players = 1 .. pieces
      /\ \A i \in DOMAIN w.players : Replaces(w, i, st.players[i])
  BY LenProperties DEF Phase
<1>2. PICK after : UpdatedSteps(w, st, after)
  BY <1>1, UpdatedEquation
<1>3. /\ after[0] = w
      /\ \A n \in Nat : n + 1 <= pieces =>
           after[n + 1] = IF n + 1 \in st.live THEN InPlace(after[n], n + 1, st.players[n + 1])
                          ELSE after[n]
      /\ Updated(w, st) = after[pieces]
  BY <1>2 DEF UpdatedSteps
<1> HIDE DEF pieces
<1> DEFINE I == {n \in Nat : n <= pieces => UpdatedAs(w, st, n, after[n])}
<1>4. 0 \in I
  <2>1. \A i \in DOMAIN w.players : ~(i <= 0)
    BY <1>1
  <2> QED BY <1>3, <2>1 DEF UpdatedAs
<1>5. ASSUME NEW n \in Nat, n \in I PROVE n + 1 \in I
  <2> SUFFICES ASSUME n + 1 <= pieces PROVE UpdatedAs(w, st, n + 1, after[n + 1])
    OBVIOUS
  <2> DEFINE u == after[n]  i == n + 1  q == st.players[i]  v == InPlace(u, i, q)
  <2>1. UpdatedAs(w, st, n, u) /\ i \in DOMAIN w.players
    BY <1>1, <1>5
  <2>10. \A j \in DOMAIN w.players : j <= n + 1 => j <= n \/ j = i
    BY <1>1
  <2>2. after[n + 1] = IF i \in st.live THEN v ELSE u
    BY <1>3
  <2>3. Replaces(w, i, q)
    BY <1>1, <2>1
  <2>11. q = st.players[i]
    OBVIOUS
  <2> HIDE DEF u, i, q
  <2>4. Sound(u) /\ Replaces(u, i, q)
    BY <2>1, <2>3 DEF UpdatedAs, Replaces
  <2>5. Sound(v) /\ ReplacedOnly(u, v, i, q)
    BY <2>4, InPlaceSound
  <2> HIDE DEF v
  <2>6. u.players \in Seq(Pieces)
    BY <2>4 DEF Sound, Stored
  <2>7. /\ DOMAIN v.players = DOMAIN u.players /\ v.players[i] = q
        /\ \A j \in DOMAIN u.players : j # i => v.players[j] = u.players[j]
    BY <2>4, <2>5, <2>6, ReplaceFacts DEF Replaces, ReplacedOnly
  <2>8. /\ DOMAIN u.players = DOMAIN w.players /\ v.food = w.food /\ v.tick = w.tick
        /\ v.owners = w.owners /\ v.next = w.next
        /\ \A j \in DOMAIN w.players : /\ u.players[j].id = w.players[j].id
                                       /\ u.players[j].owner = w.players[j].owner
                                       /\ u.players[j].key = w.players[j].key
                                       /\ j \in st.live /\ j <= n => u.players[j] = st.players[j]
        /\ q.id = w.players[i].id /\ q.owner = w.players[i].owner /\ q.key = w.players[i].key
    BY <2>1, <2>3, <2>5 DEF UpdatedAs, Replaces, ReplacedOnly
  <2>12. u.food = w.food /\ u.tick = w.tick /\ u.owners = w.owners /\ u.next = w.next
    BY <2>1 DEF UpdatedAs
  <2>9. UpdatedAs(w, st, n + 1, v)
    BY <2>5, <2>7, <2>8, <2>10, <2>11 DEF UpdatedAs
  <2>13. CASE i \notin st.live
    <3>1. \A j \in DOMAIN w.players : j \in st.live /\ j <= n + 1 => j <= n
      BY <2>10, <2>13
    <3>2. UpdatedAs(w, st, n + 1, u)
      BY <2>4, <2>8, <2>12, <3>1 DEF UpdatedAs
    <3> QED BY <2>2, <2>13, <3>2
  <2> QED BY <2>2, <2>9, <2>13
<1>6. pieces \in I
  <2> HIDE DEF I
  <2> QED BY <1>1, <1>4, <1>5, SetInduction
<1>7. UpdatedAs(w, st, pieces, after[pieces])
  BY <1>1, <1>6
<1> QED BY <1>3, <1>7 DEF pieces

\* The recursive function of Buried exists.
BuriedSteps(w, dead, f) ==
  /\ f[0] = w
  /\ \A n \in Nat : n + 1 <= Len(dead) => f[n + 1] = RemovedPlayer(f[n], dead[n + 1])
  /\ Buried(w, dead) = f[Len(dead)]

\* ... and exists.
LEMMA BuriedEquation ==
  ASSUME NEW w, NEW dead, Len(dead) \in Nat
  PROVE  \E f : BuriedSteps(w, dead, f)
<1> DEFINE base == w
           Step(x, n) == RemovedPlayer(x, dead[n])
           Solves(f, m) == f = [n \in 0 .. m |-> IF n = 0 THEN base ELSE Step(f[n - 1], n)]
           Solved == {m \in Nat : \E f : Solves(f, m)}
<1> HIDE DEF Step, base
<1>1. 0 \in Solved
  <2> DEFINE g == [n \in 0 .. 0 |-> base]
  <2>1. Solves(g, 0)
    OBVIOUS
  <2> QED BY <2>1
<1>2. ASSUME NEW m \in Nat, m \in Solved PROVE m + 1 \in Solved
  <2>1. PICK f : Solves(f, m)
    BY <1>2
  <2> DEFINE last == Step(f[m], m + 1)
             g == [n \in 0 .. m + 1 |-> IF n <= m THEN f[n] ELSE last]
  <2> HIDE DEF last
  <2>2. \A n \in 0 .. m : g[n] = f[n]
    OBVIOUS
  <2>3. ASSUME NEW n \in 0 .. m + 1
        PROVE  g[n] = IF n = 0 THEN base ELSE Step(g[n - 1], n)
    <3>1. CASE n <= m
      <4>1. g[n] = f[n] BY <3>1
      <4>2. n # 0 => n - 1 \in 0 .. m BY <3>1
      <4>3. n # 0 => g[n - 1] = f[n - 1] BY <4>2, <2>2
      <4>4. f[n] = IF n = 0 THEN base ELSE Step(f[n - 1], n)
        BY <2>1, <3>1
      <4> QED BY <4>1, <4>3, <4>4
    <3>2. CASE n = m + 1
      <4>1. g[n] = last BY <3>2
      <4>2. g[m] = f[m] BY <2>2
      <4> QED BY <4>1, <4>2, <3>2 DEF last
    <3> QED BY <3>1, <3>2
  <2>4. Solves(g, m + 1)
    BY <2>3
  <2> HIDE DEF Solves, g
  <2>5. m + 1 \in Nat /\ \E h : Solves(h, m + 1)
    BY <2>4
  <2> QED BY <2>5
<1>3. Len(dead) \in Nat
  OBVIOUS
<1>4. Len(dead) \in Solved
  BY <1>1, <1>2, <1>3, SetInduction
<1> DEFINE f == CHOOSE h : Solves(h, Len(dead))
<1>5. Solves(f, Len(dead))
  BY <1>4
<1>6. Buried(w, dead) = f[Len(dead)]
  BY DEF Buried, Step, base
<1> HIDE DEF f
<1>7. f[0] = base
  BY <1>3, <1>5
<1>8. ASSUME NEW n \in Nat, n + 1 <= Len(dead) PROVE f[n + 1] = Step(f[n], n + 1)
  <2>1. n + 1 \in 0 .. Len(dead) /\ n + 1 # 0 /\ (n + 1) - 1 = n
    BY <1>3, <1>8
  <2>2. f[n + 1] = IF n + 1 = 0 THEN base ELSE Step(f[(n + 1) - 1], n + 1)
    BY <1>5, <2>1
  <2> QED BY <2>1, <2>2
<1> QED
  BY <1>6, <1>7, <1>8 DEF BuriedSteps, Step, base

\* The dead are removed one by one, each once.
LEMMA BuriedSound ==
  ASSUME NEW w, Sound(w), NEW dead \in Seq(IdsOf(ToSet(w.players))), IsInjective(dead)
  PROVE  /\ Sound(Buried(w, dead))
         /\ Buried(w, dead).food = w.food /\ Buried(w, dead).tick = w.tick
         /\ Buried(w, dead).next = w.next
         /\ ToSet(Buried(w, dead).players) \subseteq ToSet(w.players)
         /\ IdsOf(ToSet(Buried(w, dead).players)) = IdsOf(ToSet(w.players)) \ ToSet(dead)
         /\ StatesKept(w.owners, Buried(w, dead).owners)
<1>1. /\ Len(dead) \in Nat /\ DOMAIN dead = 1 .. Len(dead)
      /\ \A i \in DOMAIN dead : dead[i] \in IdsOf(ToSet(w.players))
  BY ElementsIn
<1>2. PICK after : BuriedSteps(w, dead, after)
  BY <1>1, BuriedEquation
<1>3. /\ after[0] = w
      /\ \A n \in Nat : n + 1 <= Len(dead) => after[n + 1] = RemovedPlayer(after[n], dead[n + 1])
      /\ Buried(w, dead) = after[Len(dead)]
  BY <1>2 DEF BuriedSteps
<1> DEFINE All == IdsOf(ToSet(w.players))
           Left(u, n) ==
             /\ Sound(u) /\ u.food = w.food /\ u.tick = w.tick /\ u.next = w.next
             /\ ToSet(u.players) \subseteq ToSet(w.players) /\ StatesKept(w.owners, u.owners)
             /\ \A x : x \in IdsOf(ToSet(u.players)) <=>
                        x \in All /\ \A i \in DOMAIN dead : i <= n => dead[i] # x
           I == {n \in Nat : n <= Len(dead) => Left(after[n], n)}
<1>4. 0 \in I
  <2>1. StatesKept(w.owners, w.owners)
    BY DEF StatesKept
  <2>2. \A i \in DOMAIN dead : ~(i <= 0)
    BY <1>1
  <2> HIDE DEF All
  <2>3. Left(w, 0)
    BY <2>1, <2>2 DEF All
  <2> QED BY <1>3, <2>3
<1>5. ASSUME NEW n \in Nat, n \in I PROVE n + 1 \in I
  <2> SUFFICES ASSUME n + 1 <= Len(dead) PROVE Left(after[n + 1], n + 1)
    OBVIOUS
  <2> DEFINE u == after[n]  id == dead[n + 1]  v == RemovedPlayer(u, id)
  <2>1. Left(u, n)
    BY <1>1, <1>5
  <2>2. after[n + 1] = v /\ n + 1 \in DOMAIN dead /\ ~(n + 1 <= n)
    BY <1>1, <1>3
  <2>4. \A i \in DOMAIN dead : i <= n => dead[i] # id
    BY <2>2 DEF IsInjective
  <2>3. id \in IdsOf(ToSet(u.players))
    BY <1>1, <2>1, <2>2, <2>4
  <2>7. \A i \in DOMAIN dead : i <= n + 1 <=> i <= n \/ i = n + 1
    BY <1>1
  <2> HIDE DEF u
  <2>5. PlayerGone(u, v, id)
    BY <2>1, <2>3, RemovedPlayerSound
  <2> HIDE DEF v, All
  <2>8. \A x : x \in IdsOf(ToSet(v.players)) <=> x \in IdsOf(ToSet(u.players)) /\ x # id
    BY <2>5 DEF PlayerGone
  <2>9. \A x : x \in IdsOf(ToSet(v.players)) <=>
               x \in All /\ \A i \in DOMAIN dead : i <= n + 1 => dead[i] # x
    BY <2>1, <2>2, <2>7, <2>8
  <2>10. StatesKept(w.owners, v.owners)
    <3>1. StatesKept(u.owners, v.owners) /\ StatesKept(w.owners, u.owners)
      BY <2>1, <2>5 DEF PlayerGone
    <3> QED BY <3>1 DEF StatesKept
  <2>6. Left(v, n + 1)
    BY <2>1, <2>5, <2>9, <2>10 DEF PlayerGone
  <2> QED BY <2>2, <2>6
<1>6. Len(dead) \in I
  <2> HIDE DEF I
  <2> QED BY <1>1, <1>4, <1>5, SetInduction
<1>7. Left(after[Len(dead)], Len(dead))
  <2> HIDE DEF Left
  <2> QED BY <1>1, <1>6
<1>8. \A i \in DOMAIN dead : i <= Len(dead)
  BY <1>1
<1> DEFINE b == Buried(w, dead)
<1>9. Left(b, Len(dead))
  BY <1>3, <1>7
<1> HIDE DEF b
<1>10. \A x : x \in IdsOf(ToSet(b.players)) <=> x \in All \ ToSet(dead)
  BY <1>8, <1>9 DEF ToSet
<1>11. IdsOf(ToSet(b.players)) = All \ ToSet(dead)
  BY <1>10
<1> QED BY <1>9, <1>11 DEF b

\* The recursive function of Digested exists.
DigestedSteps(w, eaten, f) ==
  /\ f[0] = w
  /\ \A n \in Nat : n + 1 <= Len(eaten) => f[n + 1] = RemovedFood(f[n], eaten[n + 1])
  /\ Digested(w, eaten) = f[Len(eaten)]

\* ... and exists.
LEMMA DigestedEquation ==
  ASSUME NEW w, NEW eaten, Len(eaten) \in Nat
  PROVE  \E f : DigestedSteps(w, eaten, f)
<1> DEFINE base == w
           Step(x, n) == RemovedFood(x, eaten[n])
           Solves(f, m) == f = [n \in 0 .. m |-> IF n = 0 THEN base ELSE Step(f[n - 1], n)]
           Solved == {m \in Nat : \E f : Solves(f, m)}
<1> HIDE DEF Step, base
<1>1. 0 \in Solved
  <2> DEFINE g == [n \in 0 .. 0 |-> base]
  <2>1. Solves(g, 0)
    OBVIOUS
  <2> QED BY <2>1
<1>2. ASSUME NEW m \in Nat, m \in Solved PROVE m + 1 \in Solved
  <2>1. PICK f : Solves(f, m)
    BY <1>2
  <2> DEFINE last == Step(f[m], m + 1)
             g == [n \in 0 .. m + 1 |-> IF n <= m THEN f[n] ELSE last]
  <2> HIDE DEF last
  <2>2. \A n \in 0 .. m : g[n] = f[n]
    OBVIOUS
  <2>3. ASSUME NEW n \in 0 .. m + 1
        PROVE  g[n] = IF n = 0 THEN base ELSE Step(g[n - 1], n)
    <3>1. CASE n <= m
      <4>1. g[n] = f[n] BY <3>1
      <4>2. n # 0 => n - 1 \in 0 .. m BY <3>1
      <4>3. n # 0 => g[n - 1] = f[n - 1] BY <4>2, <2>2
      <4>4. f[n] = IF n = 0 THEN base ELSE Step(f[n - 1], n)
        BY <2>1, <3>1
      <4> QED BY <4>1, <4>3, <4>4
    <3>2. CASE n = m + 1
      <4>1. g[n] = last BY <3>2
      <4>2. g[m] = f[m] BY <2>2
      <4> QED BY <4>1, <4>2, <3>2 DEF last
    <3> QED BY <3>1, <3>2
  <2>4. Solves(g, m + 1)
    BY <2>3
  <2> HIDE DEF Solves, g
  <2>5. m + 1 \in Nat /\ \E h : Solves(h, m + 1)
    BY <2>4
  <2> QED BY <2>5
<1>3. Len(eaten) \in Nat
  OBVIOUS
<1>4. Len(eaten) \in Solved
  BY <1>1, <1>2, <1>3, SetInduction
<1> DEFINE f == CHOOSE h : Solves(h, Len(eaten))
<1>5. Solves(f, Len(eaten))
  BY <1>4
<1>6. Digested(w, eaten) = f[Len(eaten)]
  BY DEF Digested, Step, base
<1> HIDE DEF f
<1>7. f[0] = base
  BY <1>3, <1>5
<1>8. ASSUME NEW n \in Nat, n + 1 <= Len(eaten) PROVE f[n + 1] = Step(f[n], n + 1)
  <2>1. n + 1 \in 0 .. Len(eaten) /\ n + 1 # 0 /\ (n + 1) - 1 = n
    BY <1>3, <1>8
  <2>2. f[n + 1] = IF n + 1 = 0 THEN base ELSE Step(f[(n + 1) - 1], n + 1)
    BY <1>5, <2>1
  <2> QED BY <2>1, <2>2
<1> QED
  BY <1>6, <1>7, <1>8 DEF DigestedSteps, Step, base

\* The eaten are removed one by one, each once.
LEMMA DigestedSound ==
  ASSUME NEW w, Sound(w), NEW eaten \in Seq(IdsOf(ToSet(w.food))), IsInjective(eaten)
  PROVE  /\ Sound(Digested(w, eaten)) /\ Digested(w, eaten).tick = w.tick
         /\ Digested(w, eaten).next = w.next
         /\ Digested(w, eaten).players = w.players /\ Digested(w, eaten).owners = w.owners
         /\ ToSet(Digested(w, eaten).food) \subseteq ToSet(w.food)
         /\ IdsOf(ToSet(Digested(w, eaten).food)) = IdsOf(ToSet(w.food)) \ ToSet(eaten)
<1>1. /\ Len(eaten) \in Nat /\ DOMAIN eaten = 1 .. Len(eaten)
      /\ \A i \in DOMAIN eaten : eaten[i] \in IdsOf(ToSet(w.food))
  BY ElementsIn
<1>2. PICK after : DigestedSteps(w, eaten, after)
  BY <1>1, DigestedEquation
<1>3. /\ after[0] = w
      /\ \A n \in Nat : n + 1 <= Len(eaten) => after[n + 1] = RemovedFood(after[n], eaten[n + 1])
      /\ Digested(w, eaten) = after[Len(eaten)]
  BY <1>2 DEF DigestedSteps
<1> DEFINE All == IdsOf(ToSet(w.food))
           Left(u, n) ==
             /\ Sound(u) /\ u.tick = w.tick /\ u.next = w.next
             /\ u.players = w.players /\ u.owners = w.owners
             /\ ToSet(u.food) \subseteq ToSet(w.food)
             /\ \A x : x \in IdsOf(ToSet(u.food)) <=>
                        x \in All /\ \A i \in DOMAIN eaten : i <= n => eaten[i] # x
           I == {n \in Nat : n <= Len(eaten) => Left(after[n], n)}
<1>4. 0 \in I
  <2>2. \A i \in DOMAIN eaten : ~(i <= 0)
    BY <1>1
  <2> HIDE DEF All
  <2>3. Left(w, 0)
    BY <2>2 DEF All
  <2> QED BY <1>3, <2>3
<1>5. ASSUME NEW n \in Nat, n \in I PROVE n + 1 \in I
  <2> SUFFICES ASSUME n + 1 <= Len(eaten) PROVE Left(after[n + 1], n + 1)
    OBVIOUS
  <2> DEFINE u == after[n]  id == eaten[n + 1]  v == RemovedFood(u, id)
  <2>1. Left(u, n)
    BY <1>1, <1>5
  <2>2. after[n + 1] = v /\ n + 1 \in DOMAIN eaten /\ ~(n + 1 <= n)
    BY <1>1, <1>3
  <2>4. \A i \in DOMAIN eaten : i <= n => eaten[i] # id
    BY <2>2 DEF IsInjective
  <2>3. id \in IdsOf(ToSet(u.food))
    BY <1>1, <2>1, <2>2, <2>4
  <2>7. \A i \in DOMAIN eaten : i <= n + 1 <=> i <= n \/ i = n + 1
    BY <1>1
  <2> HIDE DEF u
  <2>5. FoodGone(u, v, id)
    BY <2>1, <2>3, RemovedFoodSound
  <2> HIDE DEF v, All
  <2>8. \A x : x \in IdsOf(ToSet(v.food)) <=> x \in IdsOf(ToSet(u.food)) /\ x # id
    BY <2>5 DEF FoodGone
  <2>9. \A x : x \in IdsOf(ToSet(v.food)) <=>
               x \in All /\ \A i \in DOMAIN eaten : i <= n + 1 => eaten[i] # x
    BY <2>1, <2>2, <2>7, <2>8
  <2>6. Left(v, n + 1)
    BY <2>1, <2>5, <2>9 DEF FoodGone
  <2> QED BY <2>2, <2>6
<1>6. Len(eaten) \in I
  <2> HIDE DEF I
  <2> QED BY <1>1, <1>4, <1>5, SetInduction
<1>7. Left(after[Len(eaten)], Len(eaten))
  <2> HIDE DEF Left
  <2> QED BY <1>1, <1>6
<1>8. \A i \in DOMAIN eaten : i <= Len(eaten)
  BY <1>1
<1> DEFINE d == Digested(w, eaten)
<1>9. Left(d, Len(eaten))
  BY <1>3, <1>7
<1> HIDE DEF d
<1>10. \A x : x \in IdsOf(ToSet(d.food)) <=> x \in All \ ToSet(eaten)
  BY <1>8, <1>9 DEF ToSet
<1>11. IdsOf(ToSet(d.food)) = All \ ToSet(eaten)
  BY <1>10
<1> QED BY <1>9, <1>11 DEF d

\* The next tick.
LEMMA NextTick ==
  ASSUME NEW w, Sound(w), w.tick # LastTick, NEW events
  PROVE  Sound([w EXCEPT !.tick = @ + 1, !.journal = events])
<1> DEFINE v == [w EXCEPT !.tick = @ + 1, !.journal = events]
<1>1. /\ DOMAIN v = WorldFields /\ DOMAIN w = WorldFields
      /\ v.players = w.players /\ v.food = w.food /\ v.locations = w.locations
      /\ v.owners = w.owners /\ v.grid = w.grid /\ v.next = w.next /\ v.tick = w.tick + 1
  BY DEF Sound, Stored, WorldFields
<1>2. v.tick \in 0 .. LastTick
  <2>1. w.tick \in 0 .. LastTick /\ LastTick \in Nat
    BY ConstantTypes DEF Sound, Numbered
  <2> QED BY <1>1, <2>1
<1> HIDE DEF v
<1>3. Stored(v)
  BY <1>1 DEF Sound, Stored
<1>4. Numbered(v)
  BY <1>1, <1>2 DEF Sound, Numbered
<1>5. Sound(v)
  BY <1>1, <1>3, <1>4 DEF Sound
<1> QED BY <1>5 DEF v

\* The ids of pieces of a phase are those of the world's.
LEMMA DeadType ==
  ASSUME NEW w, Sound(w), NEW st, NEW eaten, Phase(w, st, eaten), NEW S,
         NEW dead, dead = Kept(Column(st.players, "id"), S)
  PROVE  dead \in Seq(IdsOf(ToSet(w.players))) /\ IsInjective(dead)
<1> DEFINE ids == Column(st.players, "id")
           All == IdsOf(ToSet(w.players))
<1>1. /\ w.players \in Seq(Pieces) /\ DOMAIN st.players = DOMAIN w.players
      /\ \A i, j \in DOMAIN w.players : w.players[i].id = w.players[j].id => i = j
      /\ \A i \in DOMAIN w.players : st.players[i].id = w.players[i].id
  BY ArraysApart DEF Sound, Stored, Phase, Replaces
<1>2. /\ Len(w.players) \in Nat /\ DOMAIN w.players = 1 .. Len(w.players)
  BY <1>1, LenProperties
<1>3. ids = [i \in 1 .. Len(w.players) |-> w.players[i].id]
  BY <1>1, <1>2 DEF Column
<1>4. \A i \in 1 .. Len(w.players) : w.players[i].id \in All
  BY <1>2 DEF IdsOf, ToSet
<1> HIDE DEF All, ids
<1>5. ids \in Seq(All) /\ IsInjective(ids)
  BY <1>1, <1>2, <1>3, <1>4 DEF IsInjective
<1> QED BY <1>5, KeptFacts DEF ids, All

\* What the commit of a tick leaves: the live pieces, owners that were there and
\* the food that was not eaten.
CommittedFrom(w, st, v) ==
  /\ \A q \in ToSet(v.players) : \E i \in st.live : i \in DOMAIN w.players /\ q = st.players[i]
  /\ \A i \in st.live : st.players[i] \in ToSet(v.players)
  /\ StatesKept(w.owners, v.owners)
  /\ ToSet(v.food) \subseteq ToSet(w.food)
  /\ IdsOf(ToSet(v.food)) = IdsOf(ToSet(w.food)) \ ToSet(st.eaten)
  /\ v.next = w.next /\ v.tick = w.tick + 1 /\ v.journal = st.events

\* The commit of a tick.
LEMMA CommittedSound ==
  ASSUME NEW w, Sound(w), w.tick # LastTick, NEW st, Fed(w, st)
  PROVE  Sound(Committed(w, st)) /\ CommittedFrom(w, st, Committed(w, st))
<1>1. PICK eaten \in Seq(IdsOf(ToSet(w.food))) : IsInjective(eaten) /\ Phase(w, st, eaten)
  BY DEF Fed
<1> DEFINE gone == {st.players[i].id : i \in DOMAIN st.players \ st.live}
           dead == Kept(Column(st.players, "id"), gone)
           u == Updated(w, st)
           b == Buried(u, dead)
           d == Digested(b, eaten)
<1>2. UpdatedAs(w, st, Len(st.players), u)
  BY <1>1, UpdatedSound
<1>3. dead \in Seq(IdsOf(ToSet(w.players))) /\ IsInjective(dead)
  <2> HIDE DEF gone
  <2> QED BY <1>1, DeadType
<1>4. Committed(w, st) = [d EXCEPT !.tick = @ + 1, !.journal = st.events]
  BY <1>1 DEF Committed, Phase
<1> HIDE DEF u
<1>10. \A i \in DOMAIN w.players : i \in st.live <=> w.players[i].id \notin ToSet(dead)
  <2> DEFINE ids == Column(st.players, "id")
  <2>1. /\ DOMAIN st.players = DOMAIN w.players
        /\ \A i \in DOMAIN w.players : st.players[i].id = w.players[i].id
        /\ st.players \in Seq(Pieces)
    BY <1>1 DEF Phase, Replaces
  <2>2. ids \in Seq(Positive) /\ \A i \in DOMAIN st.players : ids[i] = st.players[i].id
    <3>1. Len(st.players) \in Nat /\ DOMAIN st.players = 1 .. Len(st.players)
          /\ \A i \in DOMAIN st.players : st.players[i] \in Pieces
      BY <2>1, ElementsIn
    <3>2. \A i \in DOMAIN st.players : st.players[i].id \in Positive
      BY <3>1 DEF Pieces
    <3>3. ids = [i \in 1 .. Len(st.players) |-> st.players[i].id]
      BY <3>1 DEF Column
    <3> QED BY <3>1, <3>2, <3>3
  <2>3. DOMAIN ids = DOMAIN st.players
    BY DEF Column
  <2> HIDE DEF ids
  <2>4. ToSet(dead) = ToSet(ids) \cap gone
    <3> HIDE DEF gone
    <3> QED BY <2>2, KeptFacts DEF ids
  <2>5. ASSUME NEW i \in DOMAIN w.players \ st.live
        PROVE  w.players[i].id \in ToSet(dead)
    <3>1. st.players[i].id \in gone
      BY <2>1
    <3>2. st.players[i].id \in ToSet(ids)
      BY <2>1, <2>2, <2>3 DEF ToSet
    <3> HIDE DEF gone, dead
    <3> QED BY <2>1, <2>4, <3>1, <3>2
  <2>6. ASSUME NEW i \in DOMAIN w.players, i \in st.live, w.players[i].id \in gone
        PROVE  FALSE
    <3>1. PICK j \in DOMAIN st.players \ st.live : w.players[i].id = st.players[j].id
      BY <2>6
    <3>2. \A a, c \in DOMAIN w.players : w.players[a].id = w.players[c].id => a = c
      BY ArraysApart DEF Sound, Stored
    <3> QED BY <2>1, <2>6, <3>1, <3>2
  <2> HIDE DEF dead, gone
  <2> QED BY <2>4, <2>5, <2>6
<1> HIDE DEF dead
<1>5. IdsOf(ToSet(u.players)) = IdsOf(ToSet(w.players))
  BY <1>2 DEF UpdatedAs, IdsOf, ToSet
<1>6. /\ Sound(b) /\ b.food = w.food /\ b.tick = w.tick /\ b.next = w.next
      /\ ToSet(b.players) \subseteq ToSet(u.players)
      /\ IdsOf(ToSet(b.players)) = IdsOf(ToSet(w.players)) \ ToSet(dead)
      /\ StatesKept(w.owners, b.owners)
  <2>1. /\ Sound(u) /\ u.owners = w.owners /\ u.food = w.food /\ u.tick = w.tick
        /\ u.next = w.next
    BY ONLY <1>2 DEF UpdatedAs
  <2>2. dead \in Seq(IdsOf(ToSet(u.players)))
    BY ONLY <1>3, <1>5
  <2>3. /\ Sound(b) /\ b.food = u.food /\ b.tick = u.tick /\ b.next = u.next
        /\ ToSet(b.players) \subseteq ToSet(u.players)
        /\ IdsOf(ToSet(b.players)) = IdsOf(ToSet(u.players)) \ ToSet(dead)
        /\ StatesKept(u.owners, b.owners)
    BY ONLY <1>3, <2>1, <2>2, BuriedSound
  <2> HIDE DEF b
  <2> QED BY ONLY <1>5, <2>1, <2>3
<1> HIDE DEF b
<1>11. ASSUME NEW q \in ToSet(b.players)
       PROVE  \E i \in st.live : i \in DOMAIN w.players /\ q = st.players[i]
  <2>1. PICK i \in DOMAIN w.players : q = u.players[i] /\ q.id = w.players[i].id
    <3>1. q \in ToSet(u.players)
      BY ONLY <1>6
    <3>2. PICK i \in DOMAIN u.players : q = u.players[i]
      BY ONLY <3>1 DEF ToSet
    <3>3. /\ DOMAIN u.players = DOMAIN w.players
          /\ \A j \in DOMAIN w.players : u.players[j].id = w.players[j].id
      BY ONLY <1>2 DEF UpdatedAs
    <3>4. i \in DOMAIN w.players /\ q = u.players[i] /\ q.id = w.players[i].id
      BY ONLY <3>2, <3>3
    <3> QED BY ONLY <3>4
  <2>2. q.id \in IdsOf(ToSet(b.players))
    BY DEF IdsOf
  <2>3. i \in st.live
    BY <1>6, <1>10, <2>1, <2>2
  <2>4. i <= Len(st.players)
    <3>1. st.players \in Seq(Pieces) /\ DOMAIN st.players = DOMAIN w.players
      BY <1>1 DEF Phase
    <3>2. DOMAIN w.players = 1 .. Len(st.players)
      BY <3>1, ElementsIn
    <3> QED BY <3>2
  <2>5. q = st.players[i]
    BY <1>2, <2>1, <2>3, <2>4 DEF UpdatedAs
  <2> QED BY <2>3, <2>5
<1>14. ASSUME NEW i \in st.live PROVE st.players[i] \in ToSet(b.players)
  <2>1. /\ i \in DOMAIN w.players /\ st.players[i].id = w.players[i].id
        /\ \A a, c \in DOMAIN w.players : w.players[a].id = w.players[c].id => a = c
        /\ \A c \in DOMAIN w.players : st.players[c].id = w.players[c].id
    BY <1>1, ArraysApart DEF Phase, Replaces, Sound, Stored
  <2>2. w.players[i].id \in IdsOf(ToSet(w.players))
    BY <2>1 DEF IdsOf, ToSet
  <2>3. w.players[i].id \in IdsOf(ToSet(b.players))
    BY <1>6, <1>10, <2>1, <2>2
  <2>4. PICK q \in ToSet(b.players) : q.id = w.players[i].id
    BY <2>3 DEF IdsOf
  <2>5. PICK c \in st.live : c \in DOMAIN w.players /\ q = st.players[c]
    BY <1>11
  <2> QED BY <2>1, <2>4, <2>5
<1>7. /\ Sound(d) /\ d.tick = w.tick /\ d.players = b.players /\ d.owners = b.owners
      /\ d.next = w.next /\ ToSet(d.food) \subseteq ToSet(w.food)
      /\ IdsOf(ToSet(d.food)) = IdsOf(ToSet(w.food)) \ ToSet(eaten)
  <2>1. eaten \in Seq(IdsOf(ToSet(b.food)))
    BY ONLY <1>1, <1>6
  <2>2. /\ Sound(d) /\ d.tick = b.tick /\ d.players = b.players /\ d.owners = b.owners
        /\ d.next = b.next /\ ToSet(d.food) \subseteq ToSet(b.food)
        /\ IdsOf(ToSet(d.food)) = IdsOf(ToSet(b.food)) \ ToSet(eaten)
    BY ONLY <1>1, <1>6, <2>1, DigestedSound
  <2> HIDE DEF d
  <2> QED BY ONLY <1>6, <2>2
<1> HIDE DEF d
<1>8. d.tick # LastTick
  BY <1>7
<1>9. Sound([d EXCEPT !.tick = @ + 1, !.journal = st.events])
  <2> DEFINE events == st.events
  <2> HIDE DEF events
  <2>1. Sound([d EXCEPT !.tick = @ + 1, !.journal = events])
    BY ONLY <1>7, <1>8, NextTick
  <2> QED BY ONLY <2>1 DEF events
<1> DEFINE v == [d EXCEPT !.tick = @ + 1, !.journal = st.events]
<1>12. /\ v.players = d.players /\ v.owners = d.owners /\ v.food = d.food /\ v.next = d.next
       /\ v.tick = d.tick + 1 /\ v.journal = st.events
  BY ONLY <1>7 DEF Sound, Stored, WorldFields
<1> HIDE DEF v
<1>15. st.eaten = eaten
  BY <1>1 DEF Phase
<1>13. CommittedFrom(w, st, v)
  BY ONLY <1>6, <1>7, <1>11, <1>12, <1>14, <1>15 DEF CommittedFrom
<1> QED BY ONLY <1>4, <1>9, <1>13 DEF v

\* Every tick, refused or not, leaves the world sound.
LEMMA AdvancedSound ==
  ASSUME NEW w, Sound(w), NEW cmds, Len(cmds) \in Nat, DOMAIN cmds = 1 .. Len(cmds),
         \A i \in DOMAIN cmds : IsCommand(cmds[i]), NEW mechanics
  PROVE  Sound(Advanced(w, cmds, mechanics))
<1> DEFINE applied == ApplyCommands(w, cmds)
           ready == [applied EXCEPT !.journal = <<>>]
           requests == SplitRequests(w, cmds)
           split == Splits(ready, requests, mechanics)
           st == Resolved(split, mechanics)
<1>1. \/ Advanced(w, cmds, mechanics) = w
      \/ w.tick # LastTick /\ Advanced(w, cmds, mechanics) = Committed(split, st)
  BY DEF Advanced, Ended
<1>2. /\ Sound(applied) /\ SameOwners(w, applied) /\ applied.tick = w.tick
  BY ApplyCommandsSound
<1>3. /\ Len(requests) \in Nat /\ DOMAIN requests = 1 .. Len(requests)
      /\ \A n \in DOMAIN requests :
           /\ IsCommand(requests[n])
           /\ \E k \in DOMAIN w.owners : w.owners[k].owner = requests[n].owner
  BY SplitRequestsType
<1> HIDE DEF applied, requests
<1>4. Sound(ready)
  BY <1>2, JournalChanged
<1>5. ready.owners = applied.owners /\ ready.tick = applied.tick
  BY <1>2 DEF Sound, Stored, WorldFields
<1> HIDE DEF ready
<1>6. \A n \in DOMAIN requests :
        \E k \in DOMAIN ready.owners : ready.owners[k].owner = requests[n].owner
  BY <1>2, <1>3, <1>5 DEF SameInputs, SameOwners
<1>7. SplitStep(ready, split)
  BY <1>3, <1>4, <1>6, SplitsSound
<1>8. Sound(split) /\ split.tick = w.tick
  BY <1>2, <1>5, <1>7 DEF SplitStep
<1> HIDE DEF split
<1>9. Fed(split, st)
  BY <1>8, ResolvedFed
<1> HIDE DEF st
<1> QED BY <1>1, <1>8, <1>9, CommittedSound

-----------------------------------------------------------------------------
(* Checkpoint and restore.                                                 *)

\* PlayerCheckpoint
PlayerStates ==
  [id : Positive, owner : Positive, pos : Int, mass : Positive, launch : Int,
   eligible : 0 .. LastTick, key : Seq(Int)]

\* A checkpoint whose fields have their types.
CheckpointTyped(cp) ==
  /\ cp.tick \in 0 .. LastTick /\ cp.next \in 1 .. LastEntity + 1
  /\ cp.owners \in Seq(OwnerStates)
  /\ cp.players \in Seq(PlayerStates) /\ cp.food \in Seq(Foods)

\* A restored piece.
LEMMA RestoredPieceType ==
  ASSUME NEW p \in PlayerStates
  PROVE  /\ RestoredPiece(p) \in Pieces
         /\ RestoredPiece(p).id = p.id /\ RestoredPiece(p).owner = p.owner
         /\ RestoredPiece(p).radius = RadiusForMass(RestoredPiece(p).mass)
<1>1. RadiusForMass(p.mass) \in Radii
  BY DEF Radii, PlayerStates
<1> QED BY <1>1 DEF RestoredPiece, Piece, PlayerStates, Pieces

\* The recursive function of WithPlayers exists.
WithPlayersSteps(w, ps, f) ==
  /\ f[0] = w
  /\ \A n \in Nat : n + 1 <= Len(ps) => f[n + 1] = WithPlayer(f[n], RestoredPiece(ps[n + 1]))
  /\ WithPlayers(w, ps) = f[Len(ps)]

\* ... and exists.
LEMMA WithPlayersEquation ==
  ASSUME NEW w, NEW ps, Len(ps) \in Nat
  PROVE  \E f : WithPlayersSteps(w, ps, f)
<1> DEFINE base == w
           Step(x, n) == WithPlayer(x, RestoredPiece(ps[n]))
           Solves(f, m) == f = [n \in 0 .. m |-> IF n = 0 THEN base ELSE Step(f[n - 1], n)]
           Solved == {m \in Nat : \E f : Solves(f, m)}
<1> HIDE DEF Step, base
<1>1. 0 \in Solved
  <2> DEFINE g == [n \in 0 .. 0 |-> base]
  <2>1. Solves(g, 0)
    OBVIOUS
  <2> QED BY <2>1
<1>2. ASSUME NEW m \in Nat, m \in Solved PROVE m + 1 \in Solved
  <2>1. PICK f : Solves(f, m)
    BY <1>2
  <2> DEFINE last == Step(f[m], m + 1)
             g == [n \in 0 .. m + 1 |-> IF n <= m THEN f[n] ELSE last]
  <2> HIDE DEF last
  <2>2. \A n \in 0 .. m : g[n] = f[n]
    OBVIOUS
  <2>3. ASSUME NEW n \in 0 .. m + 1
        PROVE  g[n] = IF n = 0 THEN base ELSE Step(g[n - 1], n)
    <3>1. CASE n <= m
      <4>1. g[n] = f[n] BY <3>1
      <4>2. n # 0 => n - 1 \in 0 .. m BY <3>1
      <4>3. n # 0 => g[n - 1] = f[n - 1] BY <4>2, <2>2
      <4>4. f[n] = IF n = 0 THEN base ELSE Step(f[n - 1], n)
        BY <2>1, <3>1
      <4> QED BY <4>1, <4>3, <4>4
    <3>2. CASE n = m + 1
      <4>1. g[n] = last BY <3>2
      <4>2. g[m] = f[m] BY <2>2
      <4> QED BY <4>1, <4>2, <3>2 DEF last
    <3> QED BY <3>1, <3>2
  <2>4. Solves(g, m + 1)
    BY <2>3
  <2> HIDE DEF Solves, g
  <2>5. m + 1 \in Nat /\ \E h : Solves(h, m + 1)
    BY <2>4
  <2> QED BY <2>5
<1>3. Len(ps) \in Nat
  OBVIOUS
<1>4. Len(ps) \in Solved
  BY <1>1, <1>2, <1>3, SetInduction
<1> DEFINE f == CHOOSE h : Solves(h, Len(ps))
<1>5. Solves(f, Len(ps))
  BY <1>4
<1>6. WithPlayers(w, ps) = f[Len(ps)]
  BY DEF WithPlayers, Step, base
<1> HIDE DEF f
<1>7. f[0] = base
  BY <1>3, <1>5
<1>8. ASSUME NEW n \in Nat, n + 1 <= Len(ps) PROVE f[n + 1] = Step(f[n], n + 1)
  <2>1. n + 1 \in 0 .. Len(ps) /\ n + 1 # 0 /\ (n + 1) - 1 = n
    BY <1>3, <1>8
  <2>2. f[n + 1] = IF n + 1 = 0 THEN base ELSE Step(f[(n + 1) - 1], n + 1)
    BY <1>5, <2>1
  <2> QED BY <2>1, <2>2
<1> QED
  BY <1>6, <1>7, <1>8 DEF WithPlayersSteps, Step, base

\* What storing pieces and then food gives.
Filled(base, v, ps, n, fs, m) ==
  /\ Stored(v)
  /\ v.owners = base.owners /\ v.next = base.next /\ v.tick = base.tick
  /\ DOMAIN v.players = 1 .. n /\ \A i \in 1 .. n : v.players[i] = RestoredPiece(ps[i])
  /\ DOMAIN v.food = 1 .. m /\ \A i \in 1 .. m : v.food[i] = fs[i]
  /\ DOMAIN v.locations = {ps[i].id : i \in 1 .. n} \cup {fs[i].id : i \in 1 .. m}

\* The pieces of a checkpoint are stored one by one.
LEMMA WithPlayersFilled ==
  ASSUME NEW base, NEW ps \in Seq(PlayerStates), NEW fs, Filled(base, base, ps, 0, fs, 0),
         \A i, j \in DOMAIN ps : ps[i].id = ps[j].id => i = j
  PROVE  Filled(base, WithPlayers(base, ps), ps, Len(ps), fs, 0)
<1>1. /\ Len(ps) \in Nat /\ DOMAIN ps = 1 .. Len(ps)
      /\ \A i \in DOMAIN ps : ps[i] \in PlayerStates
  BY ElementsIn
<1>2. PICK after : WithPlayersSteps(base, ps, after)
  BY <1>1, WithPlayersEquation
<1>3. /\ after[0] = base
      /\ \A n \in Nat : n + 1 <= Len(ps) =>
           after[n + 1] = WithPlayer(after[n], RestoredPiece(ps[n + 1]))
      /\ WithPlayers(base, ps) = after[Len(ps)]
  BY <1>2 DEF WithPlayersSteps
<1> DEFINE I == {n \in Nat : n <= Len(ps) => Filled(base, after[n], ps, n, fs, 0)}
<1>4. 0 \in I
  BY <1>3
<1>5. ASSUME NEW n \in Nat, n \in I PROVE n + 1 \in I
  <2> SUFFICES ASSUME n + 1 <= Len(ps) PROVE Filled(base, after[n + 1], ps, n + 1, fs, 0)
    OBVIOUS
  <2> DEFINE u == after[n]  p == RestoredPiece(ps[n + 1])  v == WithPlayer(u, p)
  <2>1. Filled(base, u, ps, n, fs, 0)
    BY <1>1, <1>5
  <2>2. after[n + 1] = v /\ n + 1 \in DOMAIN ps
    BY <1>1, <1>3
  <2> HIDE DEF u
  <2>3. /\ p \in Pieces /\ p.id = ps[n + 1].id /\ p.radius = RadiusForMass(p.mass)
    BY <1>1, <2>2, RestoredPieceType
  <2>4. ps[n + 1].id \notin DOMAIN u.locations
    <3>1. \A i \in 1 .. n : i \in DOMAIN ps /\ i # n + 1
      BY <1>1, <2>2
    <3>2. {fs[i].id : i \in 1 .. 0} = {}
      OBVIOUS
    <3> QED BY <2>1, <2>2, <3>1, <3>2 DEF Filled
  <2>5. /\ EnteredAlone(u, v, p.id) /\ v.players = Append(u.players, p) /\ v.food = u.food
    <3> HIDE DEF p
    <3> QED BY <2>1, <2>3, <2>4, WithPlayerStored DEF Filled
  <2> HIDE DEF v
  <2>6. /\ DOMAIN v.players = 1 .. n + 1 /\ v.players[n + 1] = p
        /\ \A i \in 1 .. n : v.players[i] = u.players[i]
    <3>1. u.players \in Seq(Pieces) /\ DOMAIN u.players = 1 .. n
      BY <2>1 DEF Filled, Stored
    <3>2. Len(u.players) = n
      BY <3>1, LenProperties
    <3> HIDE DEF p
    <3> QED BY <2>3, <2>5, <3>1, <3>2, AppendFacts
  <2>7. \A i \in 1 .. n + 1 : i \in 1 .. n \/ i = n + 1
    OBVIOUS
  <2>8. \A i \in 1 .. n + 1 : v.players[i] = RestoredPiece(ps[i])
    BY <2>1, <2>6, <2>7 DEF Filled
  <2>9. {ps[i].id : i \in 1 .. n + 1} = {ps[i].id : i \in 1 .. n} \cup {ps[n + 1].id}
    BY <2>7
  <2>10. Filled(base, v, ps, n + 1, fs, 0)
    <3> HIDE DEF p
    <3> QED BY <2>1, <2>3, <2>5, <2>6, <2>8, <2>9 DEF Filled, EnteredAlone
  <2> QED BY <2>2, <2>10
<1>6. Len(ps) \in I
  <2> HIDE DEF I
  <2> QED BY <1>1, <1>4, <1>5, SetInduction
<1> QED BY <1>1, <1>3, <1>6

\* The recursive function of WithFoods exists.
WithFoodsSteps(w, fs, f) ==
  /\ f[0] = w
  /\ \A n \in Nat : n + 1 <= Len(fs) => f[n + 1] = WithFood(f[n], fs[n + 1])
  /\ WithFoods(w, fs) = f[Len(fs)]

\* ... and exists.
LEMMA WithFoodsEquation ==
  ASSUME NEW w, NEW fs, Len(fs) \in Nat
  PROVE  \E f : WithFoodsSteps(w, fs, f)
<1> DEFINE base == w
           Step(x, n) == WithFood(x, fs[n])
           Solves(f, m) == f = [n \in 0 .. m |-> IF n = 0 THEN base ELSE Step(f[n - 1], n)]
           Solved == {m \in Nat : \E f : Solves(f, m)}
<1> HIDE DEF Step, base
<1>1. 0 \in Solved
  <2> DEFINE g == [n \in 0 .. 0 |-> base]
  <2>1. Solves(g, 0)
    OBVIOUS
  <2> QED BY <2>1
<1>2. ASSUME NEW m \in Nat, m \in Solved PROVE m + 1 \in Solved
  <2>1. PICK f : Solves(f, m)
    BY <1>2
  <2> DEFINE last == Step(f[m], m + 1)
             g == [n \in 0 .. m + 1 |-> IF n <= m THEN f[n] ELSE last]
  <2> HIDE DEF last
  <2>2. \A n \in 0 .. m : g[n] = f[n]
    OBVIOUS
  <2>3. ASSUME NEW n \in 0 .. m + 1
        PROVE  g[n] = IF n = 0 THEN base ELSE Step(g[n - 1], n)
    <3>1. CASE n <= m
      <4>1. g[n] = f[n] BY <3>1
      <4>2. n # 0 => n - 1 \in 0 .. m BY <3>1
      <4>3. n # 0 => g[n - 1] = f[n - 1] BY <4>2, <2>2
      <4>4. f[n] = IF n = 0 THEN base ELSE Step(f[n - 1], n)
        BY <2>1, <3>1
      <4> QED BY <4>1, <4>3, <4>4
    <3>2. CASE n = m + 1
      <4>1. g[n] = last BY <3>2
      <4>2. g[m] = f[m] BY <2>2
      <4> QED BY <4>1, <4>2, <3>2 DEF last
    <3> QED BY <3>1, <3>2
  <2>4. Solves(g, m + 1)
    BY <2>3
  <2> HIDE DEF Solves, g
  <2>5. m + 1 \in Nat /\ \E h : Solves(h, m + 1)
    BY <2>4
  <2> QED BY <2>5
<1>3. Len(fs) \in Nat
  OBVIOUS
<1>4. Len(fs) \in Solved
  BY <1>1, <1>2, <1>3, SetInduction
<1> DEFINE f == CHOOSE h : Solves(h, Len(fs))
<1>5. Solves(f, Len(fs))
  BY <1>4
<1>6. WithFoods(w, fs) = f[Len(fs)]
  BY DEF WithFoods, Step, base
<1> HIDE DEF f
<1>7. f[0] = base
  BY <1>3, <1>5
<1>8. ASSUME NEW n \in Nat, n + 1 <= Len(fs) PROVE f[n + 1] = Step(f[n], n + 1)
  <2>1. n + 1 \in 0 .. Len(fs) /\ n + 1 # 0 /\ (n + 1) - 1 = n
    BY <1>3, <1>8
  <2>2. f[n + 1] = IF n + 1 = 0 THEN base ELSE Step(f[(n + 1) - 1], n + 1)
    BY <1>5, <2>1
  <2> QED BY <2>1, <2>2
<1> QED
  BY <1>6, <1>7, <1>8 DEF WithFoodsSteps, Step, base

\* The food of a checkpoint is stored one by one.
LEMMA WithFoodsFilled ==
  ASSUME NEW base, NEW w, NEW ps, NEW k \in Nat, NEW fs \in Seq(Foods),
         Filled(base, w, ps, k, fs, 0),
         \A i, j \in DOMAIN fs : fs[i].id = fs[j].id => i = j,
         \A i \in 1 .. k : \A j \in DOMAIN fs : ps[i].id # fs[j].id
  PROVE  Filled(base, WithFoods(w, fs), ps, k, fs, Len(fs))
<1>1. /\ Len(fs) \in Nat /\ DOMAIN fs = 1 .. Len(fs)
      /\ \A i \in DOMAIN fs : fs[i] \in Foods
  BY ElementsIn
<1>2. PICK after : WithFoodsSteps(w, fs, after)
  BY <1>1, WithFoodsEquation
<1>3. /\ after[0] = w
      /\ \A n \in Nat : n + 1 <= Len(fs) => after[n + 1] = WithFood(after[n], fs[n + 1])
      /\ WithFoods(w, fs) = after[Len(fs)]
  BY <1>2 DEF WithFoodsSteps
<1> DEFINE I == {n \in Nat : n <= Len(fs) => Filled(base, after[n], ps, k, fs, n)}
<1>4. 0 \in I
  BY <1>3
<1>5. ASSUME NEW n \in Nat, n \in I PROVE n + 1 \in I
  <2> SUFFICES ASSUME n + 1 <= Len(fs) PROVE Filled(base, after[n + 1], ps, k, fs, n + 1)
    OBVIOUS
  <2> DEFINE u == after[n]  f == fs[n + 1]  v == WithFood(u, f)
  <2>1. Filled(base, u, ps, k, fs, n)
    BY <1>1, <1>5
  <2>2. after[n + 1] = v /\ n + 1 \in DOMAIN fs /\ f \in Foods
    BY <1>1, <1>3
  <2> HIDE DEF u
  <2>3. f.id \notin DOMAIN u.locations
    <3>1. \A i \in 1 .. n : i \in DOMAIN fs /\ i # n + 1
      BY <1>1, <2>2
    <3> QED BY <2>1, <2>2, <3>1 DEF Filled
  <2> HIDE DEF f
  <2>4. EnteredAlone(u, v, f.id) /\ v.players = u.players /\ v.food = Append(u.food, f)
    BY <2>1, <2>2, <2>3, WithFoodStored DEF Filled
  <2> HIDE DEF v
  <2>5. DOMAIN v.food = 1 .. n + 1 /\ \A i \in 1 .. n + 1 : v.food[i] = fs[i]
    <3>1. u.food \in Seq(Foods) /\ DOMAIN u.food = 1 .. n /\ \A i \in 1 .. n : u.food[i] = fs[i]
      BY <2>1 DEF Filled, Stored
    <3>2. Len(u.food) = n
      BY <3>1, LenProperties
    <3>3. /\ DOMAIN v.food = 1 .. n + 1 /\ v.food[n + 1] = f
          /\ \A i \in 1 .. n : v.food[i] = u.food[i]
      BY <2>2, <2>4, <3>1, <3>2, AppendFacts
    <3>4. \A i \in 1 .. n + 1 : i \in 1 .. n \/ i = n + 1
      OBVIOUS
    <3> QED BY <3>1, <3>3, <3>4 DEF f
  <2>6. {fs[i].id : i \in 1 .. n + 1} = {fs[i].id : i \in 1 .. n} \cup {f.id}
    <3>1. \A i \in 1 .. n + 1 : i \in 1 .. n \/ i = n + 1
      OBVIOUS
    <3> QED BY <3>1 DEF f
  <2>7. Filled(base, v, ps, k, fs, n + 1)
    BY <2>1, <2>4, <2>5, <2>6 DEF Filled, EnteredAlone
  <2> QED BY <2>2, <2>7
<1>6. Len(fs) \in I
  <2> HIDE DEF I
  <2> QED BY <1>1, <1>4, <1>5, SetInduction
<1> QED BY <1>1, <1>3, <1>6

\* What restore has checked of a checkpoint it accepts.
Accepted(cp) ==
  LET pieces(o) == Column(Kept(cp.players, {p \in ToSet(cp.players) : p.owner = o}), "id")
  IN  /\ StrictlySorted(Column(cp.owners, "owner"))
      /\ \A s \in ToSet(cp.owners) : /\ s.pieces # <<>> /\ StrictlySorted(s.pieces)
                                     /\ pieces(s.owner) = s.pieces
      /\ EntitiesValid(cp)

\* What restore accepts passed its checks.
LEMMA RestoreAccepts ==
  ASSUME NEW cp, RestoreError(cp) = "none"
  PROVE  Accepted(cp)
<1> DEFINE pieces(o) == Column(Kept(cp.players, {p \in ToSet(cp.players) : p.owner = o}), "id")
           A == \/ ~StrictlySorted(Column(cp.owners, "owner"))
                \/ ~StrictlySorted(Column(cp.players, "id"))
                \/ ~StrictlySorted(Column(cp.food, "id"))
           B == \E s \in ToSet(cp.owners) : s.pieces = <<>> \/ ~StrictlySorted(s.pieces)
           C == ~EntitiesValid(cp)
           D == \E s \in ToSet(cp.owners) : pieces(s.owner) # s.pieces
           E == \/ \E p \in ToSet(cp.players) : ~CanIndex(Circle(p.pos, RadiusForMass(p.mass)))
                \/ \E f \in ToSet(cp.food) : ~CanIndex(FoodBounds(f))
<1>1. RestoreError(cp) =
        CASE A -> "InvalidOrdering"
          [] OTHER -> CASE B -> "InvalidOwnerState"
          [] OTHER -> CASE C -> "InvalidEntityState"
          [] OTHER -> CASE D -> "InvalidOwnerState"
          [] OTHER -> CASE E -> "InvalidGeometry"
          [] OTHER -> "none"
  BY DEF RestoreError
<1>2. ~A /\ ~B /\ ~C /\ ~D
  <2> HIDE DEF A, B, C, D, E
  <2> QED BY <1>1
<1> QED BY <1>2 DEF Accepted

\* A column of a sequence.
LEMMA ColumnFacts ==
  ASSUME NEW S, NEW T, NEW s \in Seq(S), NEW field, \A x \in S : x[field] \in T
  PROVE  /\ Column(s, field) \in Seq(T) /\ Len(Column(s, field)) = Len(s)
         /\ DOMAIN Column(s, field) = DOMAIN s
         /\ \A i \in DOMAIN s : Column(s, field)[i] = s[i][field]
         /\ \A y : y \in ToSet(Column(s, field)) <=> \E x \in ToSet(s) : x[field] = y
<1>1. Len(s) \in Nat /\ DOMAIN s = 1 .. Len(s) /\ \A i \in DOMAIN s : s[i] \in S
  BY ElementsIn
<1>2. Column(s, field) = [i \in 1 .. Len(s) |-> s[i][field]]
  BY <1>1 DEF Column
<1>3. Column(s, field) \in Seq(T) /\ Len(Column(s, field)) = Len(s)
  BY <1>1, <1>2
<1>4. /\ DOMAIN Column(s, field) = DOMAIN s
      /\ \A i \in DOMAIN s : Column(s, field)[i] = s[i][field]
  BY <1>1, <1>2
<1>5. \A y : y \in ToSet(Column(s, field)) <=> \E x \in ToSet(s) : x[field] = y
  <2> DEFINE c == Column(s, field)
  <2> HIDE DEF c
  <2>1. DOMAIN c = DOMAIN s /\ \A i \in DOMAIN s : c[i] = s[i][field]
    BY <1>4 DEF c
  <2>2. \A y : y \in ToSet(c) <=> \E x \in ToSet(s) : x[field] = y
    BY <2>1 DEF ToSet
  <2> QED BY <2>2 DEF c
<1> QED BY <1>3, <1>4, <1>5

\* Ids of an accepted checkpoint name one entity each.
LEMMA AcceptedIds ==
  ASSUME NEW cp, CheckpointTyped(cp), Accepted(cp)
  PROVE  /\ \A i, j \in DOMAIN cp.players : cp.players[i].id = cp.players[j].id => i = j
         /\ \A i, j \in DOMAIN cp.food : cp.food[i].id = cp.food[j].id => i = j
         /\ \A i \in DOMAIN cp.players : \A j \in DOMAIN cp.food :
              cp.players[i].id # cp.food[j].id
         /\ \A e \in ToSet(cp.players) \cup ToSet(cp.food) : e.id < cp.next
<1> DEFINE ps == cp.players  fs == cp.food
           a == Column(ps, "id")  b == Column(fs, "id")
           c == a \o b
<1>1. /\ \A e \in ToSet(ps) \cup ToSet(fs) : e.id < cp.next
      /\ IsInjective(c)
  BY DEF Accepted, EntitiesValid
<1>2. /\ \A x \in PlayerStates : x["id"] \in Positive
      /\ \A x \in Foods : x["id"] \in Positive
  BY DEF PlayerStates, Foods
<1>3. /\ a \in Seq(Positive) /\ Len(a) = Len(ps)
      /\ \A i \in DOMAIN ps : a[i] = ps[i].id
      /\ b \in Seq(Positive) /\ Len(b) = Len(fs)
      /\ \A i \in DOMAIN fs : b[i] = fs[i].id
  <2>1. ps \in Seq(PlayerStates) /\ fs \in Seq(Foods)
    BY DEF CheckpointTyped
  <2> HIDE DEF ps, fs
  <2> QED BY <1>2, <2>1, ColumnFacts
<1>4. /\ Len(ps) \in Nat /\ DOMAIN ps = 1 .. Len(ps)
      /\ Len(fs) \in Nat /\ DOMAIN fs = 1 .. Len(fs)
  BY LenProperties DEF CheckpointTyped
<1> HIDE DEF ps, fs, a, b
<1>5. /\ DOMAIN c = 1 .. Len(ps) + Len(fs)
      /\ \A i \in 1 .. Len(ps) : c[i] = a[i]
      /\ \A i \in 1 .. Len(fs) : c[Len(ps) + i] = b[i]
  <2>1. /\ c \in Seq(Positive) /\ Len(c) = Len(a) + Len(b)
        /\ \A i \in 1 .. Len(a) + Len(b) : c[i] = IF i <= Len(a) THEN a[i] ELSE b[i - Len(a)]
    <3>1. a \in Seq(Positive) /\ b \in Seq(Positive)
      BY <1>3
    <3> QED BY ONLY <3>1, ConcatProperties
  <2> HIDE DEF c
  <2>2. DOMAIN c = 1 .. Len(ps) + Len(fs)
    BY <2>1, <1>3, LenProperties
  <2>3. \A i \in 1 .. Len(ps) : c[i] = a[i]
    BY ONLY <2>1, <1>3, <1>4
  <2>4. \A i \in 1 .. Len(fs) : c[Len(ps) + i] = b[i]
    <3> SUFFICES ASSUME NEW i \in 1 .. Len(fs) PROVE c[Len(ps) + i] = b[i]
      OBVIOUS
    <3>1. /\ Len(ps) + i \in 1 .. Len(ps) + Len(fs)
          /\ ~ (Len(ps) + i <= Len(ps)) /\ (Len(ps) + i) - Len(ps) = i
      BY ONLY <1>4, i \in 1 .. Len(fs)
    <3> QED BY ONLY <2>1, <1>3, <3>1
  <2> QED BY <2>2, <2>3, <2>4
<1> HIDE DEF c
<1>6. \A i, j \in 1 .. Len(ps) + Len(fs) : c[i] = c[j] => i = j
  BY <1>1, <1>5 DEF IsInjective
<1>7. \A i, j \in DOMAIN ps : ps[i].id = ps[j].id => i = j
  <2>1. \A i \in 1 .. Len(ps) : i \in 1 .. Len(ps) + Len(fs) /\ c[i] = ps[i].id
    BY <1>3, <1>4, <1>5
  <2> QED BY <1>4, <1>6, <2>1
<1>8. \A i \in 1 .. Len(fs) : Len(ps) + i \in 1 .. Len(ps) + Len(fs) /\ c[Len(ps) + i] = fs[i].id
  BY <1>3, <1>4, <1>5
<1>9. \A i, j \in DOMAIN fs : fs[i].id = fs[j].id => i = j
  <2> TAKE i, j \in DOMAIN fs
  <2> HAVE fs[i].id = fs[j].id
  <2>1. Len(ps) + i = Len(ps) + j
    BY <1>4, <1>6, <1>8
  <2> QED BY <1>4, <2>1
<1>10. \A i \in DOMAIN ps : \A j \in DOMAIN fs : ps[i].id # fs[j].id
  <2> TAKE i \in DOMAIN ps
  <2> TAKE j \in DOMAIN fs
  <2>1. i # Len(ps) + j /\ i \in 1 .. Len(ps) + Len(fs)
    BY <1>4
  <2>2. c[i] = ps[i].id /\ c[Len(ps) + j] = fs[j].id /\ Len(ps) + j \in 1 .. Len(ps) + Len(fs)
    BY <1>3, <1>4, <1>5, <1>8
  <2> QED BY <1>6, <2>1, <2>2
<1> QED BY <1>1, <1>7, <1>9, <1>10 DEF ps, fs

\* The owners of an accepted checkpoint are those of its players.
LEMMA AcceptedOwners ==
  ASSUME NEW cp, CheckpointTyped(cp), Accepted(cp)
  PROVE  OwnersSound(ToSet(cp.players), cp.owners, {})
<1> DEFINE P == ToSet(cp.players)
           of(o) == {p \in P : p.owner = o}
           mine(o) == Kept(cp.players, of(o))
           pieces(o) == Column(mine(o), "id")
           owners == Column(cp.owners, "owner")
<1>1. /\ StrictlySorted(owners)
      /\ \A s \in ToSet(cp.owners) : /\ s.pieces # <<>> /\ StrictlySorted(s.pieces)
                                     /\ pieces(s.owner) = s.pieces
      /\ \A p \in P : p.owner \in ToSet(owners)
  BY DEF Accepted, EntitiesValid
<1>2. cp.players \in Seq(PlayerStates) /\ cp.owners \in Seq(OwnerStates)
  BY DEF CheckpointTyped
<1>3. /\ owners \in Seq(Int) /\ DOMAIN owners = DOMAIN cp.owners
      /\ \A i \in DOMAIN cp.owners : owners[i] = cp.owners[i].owner
      /\ ToSet(owners) = {s.owner : s \in ToSet(cp.owners)}
  <2>1. \A s \in OwnerStates : s["owner"] \in Int
    BY DEF OwnerStates, Positive
  <2>2. /\ owners \in Seq(Int) /\ DOMAIN owners = DOMAIN cp.owners
        /\ \A i \in DOMAIN cp.owners : owners[i] = cp.owners[i]["owner"]
        /\ \A y : y \in ToSet(owners) <=> \E s \in ToSet(cp.owners) : s["owner"] = y
    <3> DEFINE os == cp.owners
    <3>1. os \in Seq(OwnerStates)
      BY <1>2
    <3> HIDE DEF os
    <3>2. /\ Column(os, "owner") \in Seq(Int) /\ DOMAIN Column(os, "owner") = DOMAIN os
          /\ \A i \in DOMAIN os : Column(os, "owner")[i] = os[i]["owner"]
      BY ONLY <2>1, <3>1, ColumnFacts
    <3>3. \A y : y \in ToSet(Column(os, "owner")) <=> \E s \in ToSet(os) : s["owner"] = y
      BY ONLY <2>1, <3>1, ColumnFacts
    <3> QED BY <3>2, <3>3 DEF os
  <2> HIDE DEF owners
  <2> QED BY <2>2
<1>4. \A i \in DOMAIN cp.owners : cp.owners[i] \in OwnerStates /\ cp.owners[i] \in ToSet(cp.owners)
  BY <1>2, ElementsIn
<1> HIDE DEF owners
<1>5. OwnersSorted(cp.owners)
  BY <1>1, <1>3, SortedIncreases DEF Increasing, OwnersSorted
<1>6. ASSUME NEW i \in DOMAIN cp.owners
      PROVE  /\ Increasing(cp.owners[i].pieces)
             /\ ToSet(cp.owners[i].pieces) = Listed(P, cp.owners[i].owner)
             /\ cp.owners[i].owner \in {p.owner : p \in P}
  <2> DEFINE s == cp.owners[i]  o == s.owner
  <2>1. /\ s.pieces \in Seq(Int) /\ s.pieces # <<>> /\ StrictlySorted(s.pieces)
        /\ pieces(o) = s.pieces
    <3>1. s.pieces \in Seq(Positive)
      BY <1>4 DEF OwnerStates
    <3>2. s.pieces \in Seq(Int)
      BY <3>1 DEF Positive
    <3> HIDE DEF pieces, s
    <3> QED BY <1>1, <1>4, <3>2 DEF s
  <2>2. mine(o) \in Seq(PlayerStates) /\ ToSet(mine(o)) = of(o)
    <3>1. mine(o) \in Seq(PlayerStates) /\ ToSet(mine(o)) = P \cap of(o)
      <4> HIDE DEF of
      <4> QED BY <1>2, KeptFacts
    <3> QED BY <3>1
  <2> HIDE DEF mine, s
  <2>3. \A p \in PlayerStates : p["id"] \in Positive
    BY DEF PlayerStates
  <2>4. ToSet(pieces(o)) = {p.id : p \in of(o)}
    <3> DEFINE these == mine(o)
    <3>1. these \in Seq(PlayerStates) /\ ToSet(these) = of(o)
      BY <2>2
    <3> HIDE DEF these
    <3>2. \A y : y \in ToSet(Column(these, "id")) <=> \E p \in ToSet(these) : p["id"] = y
      BY ONLY <2>3, <3>1, ColumnFacts, SMTT(30)
    <3>3. ToSet(Column(these, "id")) = {p.id : p \in of(o)}
      <4> HIDE DEF of
      <4> QED BY <3>1, <3>2
    <3> QED BY <3>3 DEF these
  <2>5. ToSet(s.pieces) = Listed(P, o)
    <3>1. Listed(P, o) = {p.id : p \in of(o)}
      BY DEF Listed
    <3> QED BY ONLY <2>1, <2>4, <3>1
  <2>6. ToSet(s.pieces) # {}
    <3>1. Len(s.pieces) \in Nat /\ Len(s.pieces) # 0 /\ DOMAIN s.pieces = 1 .. Len(s.pieces)
      BY <2>1, EmptySeq, LenProperties
    <3>2. 1 \in DOMAIN s.pieces
      BY <3>1
    <3> QED BY <3>2 DEF ToSet
  <2>7. \E p \in P : p.owner = o
    BY <2>5, <2>6 DEF Listed
  <2>8. Increasing(s.pieces)
    BY <2>1, SortedIncreases
  <2> QED BY <2>5, <2>7, <2>8 DEF s
<1>7. {cp.owners[i].owner : i \in DOMAIN cp.owners} = {p.owner : p \in P}
  <2>1. ToSet(owners) = {cp.owners[i].owner : i \in DOMAIN cp.owners}
    BY <1>3 DEF ToSet
  <2> HIDE DEF P
  <2> QED BY <1>1, <1>6, <2>1
<1> HIDE DEF P
<1>8. OwnersSound(P, cp.owners, {})
  BY <1>5, <1>6, <1>7 DEF OwnersSound
<1> QED BY <1>8 DEF P

\* The empty world.
LEMMA EmptyWorldSound == Sound(EmptyWorld)
<1> DEFINE w == EmptyWorld
<1>1. /\ DOMAIN w = WorldFields
      /\ w.players = <<>> /\ w.food = <<>> /\ w.locations = <<>> /\ w.owners = <<>>
      /\ w.grid = EmptyGrid /\ w.next = 1 /\ w.tick = 0
  BY DEF EmptyWorld, WorldFields
<1> HIDE DEF w
<1>2. /\ ToSet(w.players) = {} /\ ToSet(w.food) = {}
      /\ DOMAIN w.players = {} /\ DOMAIN w.food = {} /\ DOMAIN w.locations = {}
      /\ DOMAIN w.owners = {}
  BY <1>1 DEF ToSet
<1>3. Arrays(w.players, "player", w.food, "food", w.locations)
  BY <1>2 DEF Arrays, Placed, IdsOf
<1>4. w.players \in Seq(Pieces) /\ w.food \in Seq(Foods) /\ w.owners \in Seq(OwnerStates)
  BY <1>1
<1>5. GridSound(w.grid) /\ DOMAIN w.grid.entries = DOMAIN w.locations
  BY <1>1, EmptyGridSound
<1>6. Stored(w)
  BY <1>1, <1>2, <1>3, <1>4, <1>5 DEF Stored
<1>7. Numbered(w)
  BY <1>1, <1>2, <1>4, ConstantTypes DEF Numbered
<1>8. OwnersSound(ToSet(w.players), w.owners, {})
  BY <1>2 DEF OwnersSound, OwnersSorted
<1>9. Sound(w)
  BY <1>6, <1>7, <1>8 DEF Sound
<1> QED BY <1>9 DEF w

\* A sound world with what a checkpoint lists.
RestoredFrom(cp, v) ==
  /\ Sound(v) /\ v.owners = cp.owners /\ v.next = cp.next /\ v.tick = cp.tick
  /\ DOMAIN v.players = DOMAIN cp.players
  /\ \A i \in DOMAIN cp.players : v.players[i] = RestoredPiece(cp.players[i])
  /\ DOMAIN v.food = DOMAIN cp.food /\ \A i \in DOMAIN cp.food : v.food[i] = cp.food[i]

\* A restored world has what the checkpoint lists.
LEMMA RestoredIs ==
  ASSUME NEW cp, CheckpointTyped(cp), RestoreError(cp) = "none"
  PROVE  RestoredFrom(cp, Restored(cp))
<1> DEFINE ps == cp.players  fs == cp.food
           base == [EmptyWorld EXCEPT !.tick = cp.tick, !.next = cp.next, !.owners = cp.owners]
           filled == WithPlayers(base, ps)
           v == WithFoods(filled, fs)
<1>1. Accepted(cp)
  BY RestoreAccepts
<1>2. Restored(cp) = v
  BY DEF Restored
<1>3. /\ cp.tick \in 0 .. LastTick /\ cp.next \in 1 .. LastEntity + 1
      /\ cp.owners \in Seq(OwnerStates) /\ ps \in Seq(PlayerStates) /\ fs \in Seq(Foods)
  BY DEF CheckpointTyped
<1>4. /\ \A i, j \in DOMAIN ps : ps[i].id = ps[j].id => i = j
      /\ \A i, j \in DOMAIN fs : fs[i].id = fs[j].id => i = j
      /\ \A i \in DOMAIN ps : \A j \in DOMAIN fs : ps[i].id # fs[j].id
      /\ \A e \in ToSet(ps) \cup ToSet(fs) : e.id < cp.next
  BY <1>1, AcceptedIds
<1>5. OwnersSound(ToSet(ps), cp.owners, {})
  BY <1>1, AcceptedOwners
<1> HIDE DEF ps, fs
<1>6. Filled(base, base, ps, 0, fs, 0)
  <2> DEFINE e == EmptyWorld
  <2>1. Stored(e) /\ e.players = <<>> /\ e.food = <<>> /\ e.locations = <<>>
    BY EmptyWorldSound DEF Sound, EmptyWorld
  <2>2. base = [e EXCEPT !.tick = cp.tick, !.next = cp.next, !.owners = cp.owners]
    OBVIOUS
  <2> HIDE DEF e, base
  <2>3. /\ DOMAIN base = DOMAIN e /\ base.players = e.players /\ base.food = e.food
        /\ base.locations = e.locations /\ base.grid = e.grid
    BY <2>2
  <2>4. Stored(base)
    BY <2>1, <2>3 DEF Stored
  <2> QED BY <2>1, <2>3, <2>4 DEF Filled
<1>7. base.owners = cp.owners /\ base.next = cp.next /\ base.tick = cp.tick
  BY DEF EmptyWorld
<1> HIDE DEF base
<1>8. /\ Len(ps) \in Nat /\ DOMAIN ps = 1 .. Len(ps) /\ \A i \in DOMAIN ps : ps[i] \in PlayerStates
      /\ Len(fs) \in Nat /\ DOMAIN fs = 1 .. Len(fs)
  BY <1>3, ElementsIn
<1>9. Filled(base, filled, ps, Len(ps), fs, 0)
  BY <1>3, <1>4, <1>6, WithPlayersFilled
<1> HIDE DEF filled
<1>10. Filled(base, v, ps, Len(ps), fs, Len(fs))
  BY <1>3, <1>4, <1>8, <1>9, WithFoodsFilled
<1> HIDE DEF v
<1>11. /\ Stored(v) /\ v.owners = cp.owners /\ v.next = cp.next /\ v.tick = cp.tick
       /\ DOMAIN v.players = DOMAIN ps
       /\ \A i \in DOMAIN ps : v.players[i] = RestoredPiece(ps[i])
       /\ DOMAIN v.food = DOMAIN fs /\ \A i \in DOMAIN fs : v.food[i] = fs[i]
       /\ DOMAIN v.locations = {ps[i].id : i \in DOMAIN ps} \cup {fs[i].id : i \in DOMAIN fs}
  BY <1>7, <1>8, <1>10 DEF Filled
<1>12. Numbered(v)
  <2>1. \A id \in DOMAIN v.locations : id < v.next
    BY <1>4, <1>11 DEF ToSet
  <2> QED BY <1>3, <1>11, <2>1 DEF Numbered
<1>13. Named(ToSet(v.players)) = Named(ToSet(ps))
  <2>1. \A i \in DOMAIN ps : v.players[i].id = ps[i].id /\ v.players[i].owner = ps[i].owner
    BY <1>8, <1>11, RestoredPieceType
  <2> QED BY <1>11, <2>1 DEF Named, ToSet
<1>14. OwnersSound(ToSet(v.players), v.owners, {})
  BY <1>5, <1>11, <1>13, OwnersNamed
<1>15. RestoredFrom(cp, v)
  BY <1>11, <1>12, <1>14 DEF Sound, RestoredFrom, ps, fs
<1> QED BY <1>2, <1>15

\* What restore accepts, of whatever origin, becomes a sound world.
THEOREM RestoreAlwaysSound ==
  ASSUME NEW cp, CheckpointTyped(cp), RestoreError(cp) = "none"
  PROVE  Sound(Restored(cp))
BY RestoredIs DEF RestoredFrom

\* A sequence of entities sorted by id.
LEMMA ByIdType ==
  ASSUME NEW T, NEW s \in Seq(T)
  PROVE  ById(s) \in Seq(T)
<1> DEFINE ids == Ascending(Ids(s))
           at(i) == CHOOSE e \in ToSet(s) : e.id = ids[i]
<1>1. ById(s) = [i \in DOMAIN ids |-> at(i)]
  BY DEF ById
<1>2. ids \in Seq(1 .. LastEntity) /\ ToSet(ids) \subseteq IdsOf(ToSet(s))
  BY ConstantTypes, AscendingFacts, IdsAre
<1> HIDE DEF ids
<1>3. Len(ids) \in Nat /\ DOMAIN ids = 1 .. Len(ids)
  BY <1>2, LenProperties
<1>4. \A e \in ToSet(s) : e \in T
  BY ElementsIn
<1>5. ASSUME NEW i \in DOMAIN ids PROVE at(i) \in T
  <2>1. ids[i] \in IdsOf(ToSet(s))
    BY <1>2 DEF ToSet
  <2>2. \E e \in ToSet(s) : e.id = ids[i]
    BY <2>1 DEF IdsOf
  <2> QED BY <1>4, <2>2
<1> HIDE DEF at
<1> QED BY <1>1, <1>3, <1>5

\* The checkpoint of a sound world has its types.
LEMMA CheckpointType ==
  ASSUME NEW w, Sound(w)
  PROVE  CheckpointTyped(Checkpoint(w))
<1> DEFINE states == [i \in DOMAIN w.players |-> PlayerState(w.players[i])]
<1>1. /\ w.players \in Seq(Pieces) /\ w.food \in Seq(Foods) /\ w.owners \in Seq(OwnerStates)
      /\ w.next \in 1 .. LastEntity + 1 /\ w.tick \in 0 .. LastTick
  BY DEF Sound, Stored, Numbered
<1>2. \A p \in Pieces : PlayerState(p) \in PlayerStates
  BY DEF PlayerState, Pieces, PlayerStates
<1>3. states \in Seq(PlayerStates)
  <2>1. /\ Len(w.players) \in Nat /\ DOMAIN w.players = 1 .. Len(w.players)
        /\ \A i \in DOMAIN w.players : w.players[i] \in Pieces
    BY <1>1, ElementsIn
  <2> QED BY <1>2, <2>1
<1>4. /\ Checkpoint(w).tick = w.tick /\ Checkpoint(w).next = w.next
      /\ Checkpoint(w).owners = w.owners /\ Checkpoint(w).food = ById(w.food)
      /\ Checkpoint(w).players = ById(states)
  BY DEF Checkpoint
<1> HIDE DEF states
<1>5. ById(states) \in Seq(PlayerStates) /\ ById(w.food) \in Seq(Foods)
  BY <1>1, <1>3, ByIdType
<1> QED BY <1>1, <1>4, <1>5 DEF CheckpointTyped

\* What the client hydrates is the checkpoint that was sent, when it accepts it.
HydratedAs(cp, h) ==
  /\ CheckpointTyped(h) /\ RestoreError(h) = "none"
  /\ h.tick = cp.tick /\ h.next = cp.next /\ h.owners = cp.owners
  /\ h.players = cp.players /\ h.food = cp.food

\* The digest vouches for the types, restore has accepted the rest.
LEMMA HydratedAccepted ==
  ASSUME NEW w, Sound(w), NEW s, s = SnapshotOf(Checkpoint(w)), HydrationError(s) = "none"
  PROVE  HydratedAs(Checkpoint(w), Hydrated(s))
<1> DEFINE cp == Checkpoint(w)  h == Hydrated(s)
           A == ~SnapshotValid(s)
           B == \E e \in ToSet(s.entities) : e.kind = "food" /\ e.mass # FoodMass
           C == RestoreError(h) # "none"
           D == Digest(h) # s.digest
<1>1. HydrationError(s) =
        CASE A -> "InvalidSnapshot"
          [] OTHER -> CASE B -> "InvalidFoodMass"
          [] OTHER -> CASE C -> "RestoreFailed"
          [] OTHER -> CASE D -> "DigestMismatch"
          [] OTHER -> "none"
  BY DEF HydrationError
<1>2. ~C /\ ~D
  <2> HIDE DEF A, B, C, D
  <2> QED BY <1>1
<1>3. s.digest = Digest(cp)
  BY DEF SnapshotOf
<1> HIDE DEF h, cp
<1>4. Digest(h) = Digest(cp) /\ RestoreError(h) = "none"
  BY <1>2, <1>3
<1>5. /\ h.tick = cp.tick /\ h.next = cp.next /\ h.owners = cp.owners
      /\ h.players = cp.players /\ h.food = cp.food
  BY <1>4 DEF Digest
<1>6. CheckpointTyped(cp)
  BY CheckpointType DEF cp
<1>7. CheckpointTyped(h)
  BY <1>5, <1>6 DEF CheckpointTyped
<1> QED BY <1>4, <1>5, <1>7 DEF HydratedAs, cp, h

\* A snapshot the client hydrates becomes a sound world.
LEMMA HydratedSound ==
  ASSUME NEW w, Sound(w), NEW s, s = SnapshotOf(Checkpoint(w)), HydrationError(s) = "none"
  PROVE  Sound(Restored(Hydrated(s)))
<1>1. HydratedAs(Checkpoint(w), Hydrated(s))
  BY HydratedAccepted
<1> QED BY <1>1, RestoreAlwaysSound DEF HydratedAs

-----------------------------------------------------------------------------
(* Every reachable world is sound.                                         *)

\* A sound world is consistent.
LEMMA SoundConsistent ==
  ASSUME NEW w, Sound(w)
  PROVE  Consistent(w)
<1>1. /\ w.players \in Seq(Pieces) /\ w.food \in Seq(Foods) /\ w.owners \in Seq(OwnerStates)
      /\ Arrays(w.players, "player", w.food, "food", w.locations)
      /\ GridSound(w.grid) /\ DOMAIN w.grid.entries = DOMAIN w.locations
      /\ \A p \in ToSet(w.players) : /\ w.grid.entries[p.id] = CellRange(Bounds(p))
                                     /\ p.radius = RadiusForMass(p.mass)
      /\ \A f \in ToSet(w.food) : w.grid.entries[f.id] = CellRange(FoodBounds(f))
      /\ OwnersSound(ToSet(w.players), w.owners, {})
  BY DEF Sound, Stored, Numbered
<1>2. /\ \A i \in DOMAIN w.players : w.players[i] \in ToSet(w.players)
      /\ \A i \in DOMAIN w.food : w.food[i] \in ToSet(w.food)
  BY DEF ToSet
<1>3. /\ DOMAIN w.locations = Ids(w.players) \cup Ids(w.food)
      /\ \A i \in DOMAIN w.players :
           w.locations[w.players[i].id] = [kind |-> "player", index |-> i]
      /\ \A i \in DOMAIN w.food :
           w.locations[w.food[i].id] = [kind |-> "food", index |-> i]
  BY <1>1, IdsAre DEF Arrays, Placed
<1>4. StrictlySorted(Column(w.owners, "owner"))
  <2> DEFINE os == w.owners  c == Column(os, "owner")
  <2>1. \A s \in OwnerStates : s["owner"] \in Int
    BY DEF OwnerStates, Positive
  <2>2. os \in Seq(OwnerStates) /\ OwnersSorted(os)
    BY <1>1 DEF OwnersSound
  <2> HIDE DEF os
  <2>3. c \in Seq(Int) /\ DOMAIN c = DOMAIN os /\ \A i \in DOMAIN os : c[i] = os[i]["owner"]
    BY ONLY <2>1, <2>2, ColumnFacts
  <2> HIDE DEF c
  <2>4. Increasing(c)
    BY <2>2, <2>3 DEF Increasing, OwnersSorted
  <2>5. StrictlySorted(c)
    BY <2>3, <2>4, SortedIncreases
  <2> QED BY <2>5 DEF c, os
<1>5. ToSet(Column(w.owners, "owner")) = ToSet(Column(w.players, "owner"))
  <2> DEFINE os == w.owners  ps == w.players
  <2>1. /\ \A s \in OwnerStates : s["owner"] \in Positive
        /\ \A p \in Pieces : p["owner"] \in Positive
    BY DEF OwnerStates, Pieces
  <2>2. /\ os \in Seq(OwnerStates) /\ ps \in Seq(Pieces)
        /\ {os[i].owner : i \in DOMAIN os} = {p.owner : p \in ToSet(ps)}
    BY <1>1 DEF OwnersSound
  <2> HIDE DEF os, ps
  <2>3. \A y : y \in ToSet(Column(os, "owner")) <=> \E s \in ToSet(os) : s["owner"] = y
    BY ONLY <2>1, <2>2, ColumnFacts
  <2>4. \A y : y \in ToSet(Column(ps, "owner")) <=> \E p \in ToSet(ps) : p["owner"] = y
    <3> DEFINE T == Pieces
    <3>1. ps \in Seq(T) /\ \A p \in T : p["owner"] \in Positive
      BY <2>1, <2>2
    <3> HIDE DEF T
    <3> QED BY ONLY <3>1, ColumnFacts
  <2>5. \A y : (\E s \in ToSet(os) : s.owner = y) <=> y \in {os[i].owner : i \in DOMAIN os}
    BY DEF ToSet
  <2>6. ToSet(Column(os, "owner")) = ToSet(Column(ps, "owner"))
    BY <2>2, <2>3, <2>4, <2>5
  <2> QED BY <2>6 DEF os, ps
<1>6. \A s \in ToSet(w.owners) :
        /\ StrictlySorted(s.pieces)
        /\ ToSet(s.pieces) = {p.id : p \in {q \in ToSet(w.players) : q.owner = s.owner}}
  <2> TAKE s \in ToSet(w.owners)
  <2>1. s \in OwnerStates
    BY <1>1, ElementsIn
  <2>2. Increasing(s.pieces) /\ ToSet(s.pieces) = Listed(ToSet(w.players), s.owner)
    <3>1. PICK i \in DOMAIN w.owners : s = w.owners[i]
      BY DEF ToSet
    <3> QED BY <1>1, <3>1 DEF OwnersSound
  <2>3. s.pieces \in Seq(Int)
    <3>1. s.pieces \in Seq(Positive)
      BY <2>1 DEF OwnerStates
    <3> QED BY <3>1 DEF Positive
  <2> QED BY <2>2, <2>3, SortedIncreases DEF Listed
<1>7. GridCoherent(w.grid)
  BY <1>1 DEF GridSound
<1> QED BY <1>1, <1>2, <1>3, <1>4, <1>5, <1>6, <1>7 DEF Consistent

\* The inductive invariant.
WorldInvariant ==
  /\ Sound(world)
  /\ replica = NoWorld \/ \E w : Sound(w) /\ replica = <<w>>

\* The invariant holds at first.
LEMMA InvariantInit ==
  ASSUME Init
  PROVE  WorldInvariant
BY EmptyWorldSound DEF Init, WorldInvariant

\* spawn_player, spawn_food, remove_player and remove_food.
LEMMA EditsSound ==
  ASSUME WorldInvariant,
         \/ \E at \in SpawnPoints : SpawnPlayer(at[1], at[2])
         \/ \E pos \in FoodPoints : SpawnFood(pos)
         \/ \E id \in DOMAIN world.locations : RemovePlayer(id) \/ RemoveFood(id)
  PROVE  WorldInvariant'
<1>1. Sound(world) /\ Stored(world)
  BY DEF WorldInvariant, Sound
<1>2. ASSUME NEW at \in SpawnPoints, SpawnPlayer(at[1], at[2])
      PROVE  Sound(world') /\ replica' = NoWorld
  <2>1. at[1] \in Positive /\ at[2] \in Int
    BY WorldAssumption DEF Positive
  <2> QED BY <1>1, <1>2, <2>1, SpawnedPlayerSound DEF SpawnPlayer, CanSpawnPlayer
<1>3. ASSUME NEW pos \in FoodPoints, SpawnFood(pos)
      PROVE  Sound(world') /\ replica' = NoWorld
  <2>1. pos \in Int
    BY WorldAssumption
  <2> QED BY <1>1, <1>3, <2>1, SpawnedFoodSound DEF SpawnFood, CanSpawnFood
<1>4. ASSUME NEW id, RemovePlayer(id)
      PROVE  Sound(world') /\ replica' = NoWorld
  <2>1. id \in IdsOf(ToSet(world.players))
    BY <1>1, <1>4, LocatedIs DEF RemovePlayer
  <2> QED BY <1>1, <1>4, <2>1, RemovedPlayerSound DEF RemovePlayer, PlayerGone
<1>5. ASSUME NEW id, RemoveFood(id)
      PROVE  Sound(world') /\ replica' = NoWorld
  <2>1. id \in IdsOf(ToSet(world.food))
    BY <1>1, <1>5, LocatedIs DEF RemoveFood
  <2> QED BY <1>1, <1>5, <2>1, RemovedFoodSound DEF RemoveFood, FoodGone
<1>6. Sound(world') /\ replica' = NoWorld
  BY <1>2, <1>3, <1>4, <1>5
<1>7. Sound(world)'
  BY <1>6
<1> QED BY <1>6, <1>7 DEF WorldInvariant

\* A client restores a snapshot.
LEMMA RestoreStepSound ==
  ASSUME WorldInvariant, Restore
  PROVE  WorldInvariant'
<1> DEFINE s == SnapshotOf(Checkpoint(world))
           w == Restored(Hydrated(s))
<1>1. Sound(world)
  BY DEF WorldInvariant
<1>2. HydrationError(s) = "none" /\ replica' = <<w>> /\ world' = world
  BY DEF Restore
<1>3. Sound(w)
  BY <1>1, <1>2, HydratedSound
<1> HIDE DEF w
<1>4. Sound(world)'
  BY <1>1, <1>2
<1> QED BY <1>2, <1>3, <1>4 DEF WorldInvariant

\* A command the environment issues.
LEMMA CommandsAre ==
  ASSUME NEW w, Sound(w), NEW c \in Commands(w)
  PROVE  IsCommand(c)
<1> DEFINE os == w.owners
<1>1. PICK f \in CommandForms, o \in ToSet(Column(os, "owner")) :
        c = [type |-> f.type, owner |-> o, move |-> f.move, split |-> f.split,
             input |-> IF f.type # "ApplyInput" THEN NoInput
                       ELSE IF f.new THEN w.tick + 1 ELSE 1]
  BY DEF Commands
<1>2. o \in Positive
  <2>1. os \in Seq(OwnerStates) /\ \A s \in OwnerStates : s["owner"] \in Positive
    BY DEF Sound, Numbered, OwnerStates
  <2> HIDE DEF os
  <2>2. Column(os, "owner") \in Seq(Positive)
    BY ONLY <2>1, ColumnFacts
  <2> QED BY <2>2, ElementsIn
<1>3. f.move \in Int
  BY WorldAssumption
<1>4. w.tick + 1 \in Nat
  BY ConstantTypes DEF Sound, Numbered
<1> QED BY <1>1, <1>2, <1>3, <1>4 DEF IsCommand, NoInput

\* A tick of both worlds.
LEMMA AdvanceStepSound ==
  ASSUME WorldInvariant, NEW cmds, Len(cmds) \in Nat, DOMAIN cmds = 1 .. Len(cmds),
         \A i \in DOMAIN cmds : IsCommand(cmds[i]),
         NEW mechanics, Advance(cmds, mechanics)
  PROVE  WorldInvariant'
<1>1. /\ Sound(world) /\ world' = Advanced(world, cmds, mechanics)
      /\ replica' = [i \in DOMAIN replica |-> Advanced(replica[i], cmds, mechanics)]
  BY DEF WorldInvariant, Advance
<1>2. Sound(world')
  BY <1>1, AdvancedSound
<1>3. replica' = NoWorld \/ \E w : Sound(w) /\ replica' = <<w>>
  <2>1. CASE replica = NoWorld
    BY <1>1, <2>1 DEF NoWorld
  <2>2. ASSUME NEW w, Sound(w), replica = <<w>>
        PROVE  \E v : Sound(v) /\ replica' = <<v>>
    <3> DEFINE v == Advanced(w, cmds, mechanics)
    <3>1. Sound(v)
      BY <2>2, AdvancedSound
    <3>2. replica' = <<v>>
      <4>1. DOMAIN replica = 1 .. 1 /\ replica[1] = w
        BY <2>2
      <4>2. replica' = [i \in 1 .. 1 |-> v]
        BY <1>1, <4>1
      <4> HIDE DEF v
      <4> QED BY <4>2
    <3> HIDE DEF v
    <3> QED BY <3>1, <3>2
  <2> QED BY <2>1, <2>2 DEF WorldInvariant
<1>4. Sound(world)'
  BY <1>2
<1> QED BY <1>3, <1>4 DEF WorldInvariant

\* Every step keeps it.
LEMMA InvariantStep ==
  ASSUME WorldInvariant, [Next]_vars
  PROVE  WorldInvariant'
<1>1. CASE UNCHANGED vars
  BY <1>1 DEF vars, WorldInvariant, Sound, Stored, Numbered
<1>2. CASE Restore
  BY <1>2, RestoreStepSound
<1>3. CASE \/ \E at \in SpawnPoints : SpawnPlayer(at[1], at[2])
           \/ \E pos \in FoodPoints : SpawnFood(pos)
           \/ \E id \in DOMAIN world.locations : RemovePlayer(id) \/ RemoveFood(id)
  BY <1>3, EditsSound
<1>4. \A c \in Commands(world) : IsCommand(c)
  BY CommandsAre DEF WorldInvariant
<1>5. ASSUME NEW mechanics \in Mechanics, Advance(<<>>, mechanics)
      PROVE  WorldInvariant'
  <2>1. Len(<<>>) \in Nat /\ DOMAIN <<>> = 1 .. Len(<<>>) /\ DOMAIN <<>> = {}
    OBVIOUS
  <2> QED BY <1>5, <2>1, AdvanceStepSound
<1>6. ASSUME NEW mechanics \in Mechanics, NEW c \in Commands(world), Advance(<<c>>, mechanics)
      PROVE  WorldInvariant'
  <2> DEFINE cmds == <<c>>
  <2>1. /\ Len(cmds) \in Nat /\ DOMAIN cmds = 1 .. Len(cmds)
        /\ \A i \in DOMAIN cmds : cmds[i] = c
    OBVIOUS
  <2> HIDE DEF cmds
  <2> QED BY <1>4, <1>6, <2>1, AdvanceStepSound DEF cmds
<1>7. ASSUME NEW mechanics \in Mechanics, NEW c \in Commands(world), NEW d \in Commands(world),
             Advance(<<c, d>>, mechanics)
      PROVE  WorldInvariant'
  <2> DEFINE cmds == <<c, d>>
  <2>1. /\ Len(cmds) \in Nat /\ DOMAIN cmds = 1 .. Len(cmds)
        /\ \A i \in DOMAIN cmds : cmds[i] = c \/ cmds[i] = d
    OBVIOUS
  <2> HIDE DEF cmds
  <2> QED BY <1>4, <1>7, <2>1, AdvanceStepSound DEF cmds
<1> QED BY <1>1, <1>2, <1>3, <1>5, <1>6, <1>7 DEF Next

\* It says what the runs check.
LEMMA InvariantSound ==
  ASSUME WorldInvariant
  PROVE  StoreSound
<1>1. Sound(world)
  BY DEF WorldInvariant
<1>2. Len(replica) <= 1 /\ \A w \in ToSet(replica) : Sound(w)
  <2>1. CASE replica = NoWorld
    BY <2>1 DEF NoWorld, ToSet
  <2>2. ASSUME NEW w, Sound(w), replica = <<w>>
        PROVE  Len(replica) <= 1 /\ \A x \in ToSet(replica) : Sound(x)
    <3>1. Len(replica) = 1 /\ DOMAIN replica = 1 .. 1 /\ replica[1] = w
      BY <2>2
    <3>2. \A x \in ToSet(replica) : x = w
      BY <3>1 DEF ToSet
    <3> QED BY <2>2, <3>1, <3>2
  <2> QED BY <2>1, <2>2 DEF WorldInvariant
<1>3. StoreConsistent
  BY <1>1, <1>2, SoundConsistent DEF StoreConsistent
<1>4. WorldTypeOK
  <2>1. \A p \in ToSet(world.players) : p \in Pieces
    BY <1>1, ElementsIn DEF Sound, Stored
  <2>2. \A p \in Pieces : p.mass > 0 /\ p.eligible \in 0 .. LastTick
    BY DEF Pieces, Positive
  <2> QED BY <1>1, <1>2, <2>1, <2>2 DEF WorldTypeOK, Sound, Numbered
<1> QED BY <1>3, <1>4 DEF StoreSound

\* Whatever sequence of spawns, removals, ticks and restores ran, every index
\* of the store (lookup table, owners' lists, radii, grid cells) agrees with its
\* arrays, in the server's world and in a restored one.
THEOREM StoreAlwaysSound == Spec => []StoreSound
<1>1. Init => WorldInvariant
  BY InvariantInit
<1>2. WorldInvariant /\ [Next]_vars => WorldInvariant'
  BY InvariantStep
<1>3. WorldInvariant => StoreSound
  BY InvariantSound
<1> QED BY <1>1, <1>2, <1>3, PTL DEF Spec

-----------------------------------------------------------------------------
(* The codec: what a checkpoint loses on the wire, the client derives.      *)

\* A set of numbers has one increasing sequence.
LEMMA IncreasingUnique ==
  ASSUME NEW s \in Seq(Int), NEW t \in Seq(Int), Increasing(s), Increasing(t),
         ToSet(s) = ToSet(t)
  PROVE  s = t
<1>1. /\ Len(s) \in Nat /\ DOMAIN s = 1 .. Len(s) /\ Len(t) \in Nat /\ DOMAIN t = 1 .. Len(t)
      /\ \A i \in 1 .. Len(s) : s[i] \in Int
      /\ \A i \in 1 .. Len(t) : t[i] \in Int
  BY LenProperties
<1>2. /\ \A i \in 1 .. Len(s) : \E j \in 1 .. Len(t) : s[i] = t[j]
      /\ \A j \in 1 .. Len(t) : \E i \in 1 .. Len(s) : s[i] = t[j]
  <2>1. /\ \A i \in DOMAIN s : s[i] \in ToSet(t)
        /\ \A j \in DOMAIN t : t[j] \in ToSet(s)
    BY DEF ToSet
  <2> QED BY <1>1, <2>1 DEF ToSet
<1>3. /\ \A i, j \in 1 .. Len(s) : i < j => s[i] < s[j]
      /\ \A i, j \in 1 .. Len(t) : i < j => t[i] < t[j]
  BY <1>1 DEF Increasing
<1> DEFINE Agree == {n \in Nat : n <= Len(s) /\ n <= Len(t) => \A i \in 1 .. n : s[i] = t[i]}
<1>4. 0 \in Agree
  OBVIOUS
<1>5. ASSUME NEW n \in Nat, n \in Agree PROVE n + 1 \in Agree
  <2> SUFFICES ASSUME n + 1 <= Len(s), n + 1 <= Len(t)
               PROVE  \A i \in 1 .. n + 1 : s[i] = t[i]
    OBVIOUS
  <2>1. \A i \in 1 .. n : s[i] = t[i] /\ i \in 1 .. Len(s) /\ i \in 1 .. Len(t)
    BY <1>1, <1>5
  <2>2. n + 1 \in 1 .. Len(s) /\ n + 1 \in 1 .. Len(t)
    BY <1>1
  <2>3. t[n + 1] <= s[n + 1]
    <3>1. PICK j \in 1 .. Len(t) : s[n + 1] = t[j]
      BY <1>2, <2>2
    <3>2. CASE j <= n
      <4>1. j \in 1 .. n /\ j < n + 1
        BY <3>2, <1>1
      <4>2. s[j] = s[n + 1] /\ s[j] < s[n + 1]
        BY <4>1, <3>1, <2>1, <2>2, <1>3
      <4> QED BY <4>2, <2>2, <1>1
    <3>3. CASE j = n + 1
      BY <3>1, <3>3, <2>2, <1>1
    <3>4. CASE n + 1 < j
      <4>1. t[n + 1] < t[j]
        BY <3>4, <2>2, <1>3
      <4> QED BY <4>1, <3>1, <2>2, <1>1
    <3> QED BY <3>2, <3>3, <3>4, <1>1
  <2>4. s[n + 1] <= t[n + 1]
    <3>1. PICK j \in 1 .. Len(s) : s[j] = t[n + 1]
      BY <1>2, <2>2
    <3>2. CASE j <= n
      <4>1. j \in 1 .. n /\ j < n + 1
        BY <3>2, <1>1
      <4>2. t[j] = t[n + 1] /\ t[j] < t[n + 1]
        BY <4>1, <3>1, <2>1, <2>2, <1>3
      <4> QED BY <4>2, <2>2, <1>1
    <3>3. CASE j = n + 1
      BY <3>1, <3>3, <2>2, <1>1
    <3>4. CASE n + 1 < j
      <4>1. s[n + 1] < s[j]
        BY <3>4, <2>2, <1>3
      <4> QED BY <4>1, <3>1, <2>2, <1>1
    <3> QED BY <3>2, <3>3, <3>4, <1>1
  <2>5. s[n + 1] = t[n + 1]
    BY <2>2, <2>3, <2>4, <1>1
  <2>6. \A i \in 1 .. n + 1 : i \in 1 .. n \/ i = n + 1
    OBVIOUS
  <2> QED BY <2>1, <2>5, <2>6
<1> HIDE DEF Agree
<1>6. \A n \in Nat : n \in Agree
  BY <1>4, <1>5, SetInduction
<1>7. \A n \in Nat : n <= Len(s) /\ n <= Len(t) => \A i \in 1 .. n : s[i] = t[i]
  BY <1>6 DEF Agree
<1>8. ~ (Len(s) < Len(t))
  <2> SUFFICES ASSUME Len(s) < Len(t) PROVE FALSE
    OBVIOUS
  <2> DEFINE m == Len(s) + 1
  <2>1. m \in 1 .. Len(t)
    BY <1>1
  <2>2. PICK i \in 1 .. Len(s) : s[i] = t[m]
    BY <1>2, <2>1
  <2>3. s[i] = t[i] /\ i \in 1 .. Len(t) /\ i < m
    BY <1>1, <1>7
  <2> HIDE DEF m
  <2>4. t[i] < t[m]
    BY <2>1, <2>3, <1>3
  <2> QED BY <2>1, <2>2, <2>3, <2>4, <1>1
<1>9. ~ (Len(t) < Len(s))
  <2> SUFFICES ASSUME Len(t) < Len(s) PROVE FALSE
    OBVIOUS
  <2> DEFINE m == Len(t) + 1
  <2>1. m \in 1 .. Len(s)
    BY <1>1
  <2>2. PICK j \in 1 .. Len(t) : s[m] = t[j]
    BY <1>2, <2>1
  <2>3. s[j] = t[j] /\ j \in 1 .. Len(s) /\ j < m
    BY <1>1, <1>7
  <2> HIDE DEF m
  <2>4. s[j] < s[m]
    BY <2>1, <2>3, <1>3
  <2> QED BY <2>1, <2>2, <2>3, <2>4, <1>1
<1>10. Len(s) = Len(t)
  <2>1. \A m, n \in Nat : ~ (m < n) /\ ~ (n < m) => m = n
    OBVIOUS
  <2>2. Len(s) \in Nat /\ Len(t) \in Nat
    BY <1>1
  <2> QED BY ONLY <2>1, <2>2, <1>8, <1>9
<1>11. \A i \in 1 .. Len(s) : s[i] = t[i]
  BY <1>1, <1>7, <1>10
<1> QED BY <1>10, <1>11, SeqEqual

\* Entities in the order of their ids.
SortedById(s) == \A i, j \in DOMAIN s : i < j => s[i].id < s[j].id

\* Their ids.
LEMMA IdColumn ==
  ASSUME NEW S, \A e \in S : e["id"] \in Int, NEW s \in Seq(S)
  PROVE  /\ Column(s, "id") \in Seq(Int) /\ Len(Column(s, "id")) = Len(s)
         /\ DOMAIN Column(s, "id") = DOMAIN s
         /\ \A i \in DOMAIN s : Column(s, "id")[i] = s[i]["id"]
         /\ \A y : y \in ToSet(Column(s, "id")) <=> \E x \in ToSet(s) : x["id"] = y
<1> DEFINE field == "id"  c == Column(s, field)
<1>1. \A e \in S : e[field] \in Int
  OBVIOUS
<1> HIDE DEF field
<1>2. /\ c \in Seq(Int) /\ Len(c) = Len(s) /\ DOMAIN c = DOMAIN s
      /\ \A i \in DOMAIN s : c[i] = s[i][field]
      /\ \A y : y \in ToSet(c) <=> \E x \in ToSet(s) : x[field] = y
  BY ONLY <1>1, s \in Seq(S), ColumnFacts
<1> HIDE DEF c
<1> QED BY <1>2 DEF c, field

\* They increase.
LEMMA IdsIncrease ==
  ASSUME NEW S, \A e \in S : e["id"] \in Int, NEW s \in Seq(S), SortedById(s)
  PROVE  /\ Column(s, "id") \in Seq(Int) /\ Increasing(Column(s, "id"))
         /\ StrictlySorted(Column(s, "id")) /\ IsInjective(Column(s, "id"))
<1> DEFINE c == Column(s, "id")
<1>1. c \in Seq(Int) /\ DOMAIN c = DOMAIN s /\ \A i \in DOMAIN s : c[i] = s[i]["id"]
  BY IdColumn
<1>2. Len(s) \in Nat /\ DOMAIN s = 1 .. Len(s) /\ \A i \in DOMAIN s : s[i]["id"] \in Int
  BY ElementsIn
<1> HIDE DEF c
<1>3. Increasing(c)
  BY <1>1 DEF Increasing, SortedById
<1>4. IsInjective(c)
  <2>1. \A i, j \in DOMAIN c : c[i] = c[j] => i = j
    BY <1>1, <1>2, <1>3 DEF Increasing
  <2> QED BY <2>1 DEF IsInjective
<1>5. StrictlySorted(c)
  BY <1>1, <1>3, SortedIncreases
<1> QED BY <1>1, <1>3, <1>4, <1>5 DEF c

\* A set of entities has one order by id.
LEMMA SortedUnique ==
  ASSUME NEW S, \A e \in S : e["id"] \in Int, NEW s \in Seq(S), NEW t \in Seq(S),
         SortedById(s), SortedById(t), ToSet(s) = ToSet(t)
  PROVE  s = t
<1> DEFINE a == Column(s, "id")  b == Column(t, "id")
<1>1. /\ a \in Seq(Int) /\ Increasing(a) /\ IsInjective(a)
      /\ b \in Seq(Int) /\ Increasing(b) /\ IsInjective(b)
  BY IdsIncrease
<1>2. /\ Len(a) = Len(s) /\ DOMAIN a = DOMAIN s /\ \A i \in DOMAIN s : a[i] = s[i]["id"]
      /\ \A y : y \in ToSet(a) <=> \E x \in ToSet(s) : x["id"] = y
  BY IdColumn
<1>3. /\ Len(b) = Len(t) /\ DOMAIN b = DOMAIN t /\ \A i \in DOMAIN t : b[i] = t[i]["id"]
      /\ \A y : y \in ToSet(b) <=> \E x \in ToSet(t) : x["id"] = y
  BY IdColumn
<1> HIDE DEF a, b
<1>4. ToSet(a) = ToSet(b)
  BY <1>2, <1>3
<1>5. a = b
  BY <1>1, <1>4, IncreasingUnique
<1>6. ASSUME NEW i \in DOMAIN s PROVE s[i] = t[i]
  <2>1. PICK j \in DOMAIN t : s[i] = t[j]
    <3>1. s[i] \in ToSet(t)
      BY DEF ToSet
    <3> QED BY <3>1 DEF ToSet
  <2>2. a[i] = b[j] /\ i \in DOMAIN b
    BY <1>2, <1>3, <1>5, <2>1
  <2>3. j = i
    BY <1>1, <1>3, <1>5, <2>2 DEF IsInjective
  <2> QED BY <2>1, <2>3
<1>7. Len(s) = Len(t) /\ DOMAIN s = 1 .. Len(s)
  BY <1>2, <1>3, <1>5, LenProperties
<1> QED BY <1>6, <1>7, SeqEqual

\* A choice from entities in order is in order.
LEMMA KeptSorted ==
  ASSUME NEW T, NEW s \in Seq(T), NEW S, SortedById(s)
  PROVE  SortedById(Kept(s, S))
<1> DEFINE k == Kept(s, S)
<1>1. k \in Seq(T) /\ \E at : Chosen(s, S, k, at)
  BY KeptProperties DEF KeptIs
<1>2. PICK at : Chosen(s, S, k, at)
  BY <1>1
<1> HIDE DEF k
<1>3. /\ Len(k) \in Nat /\ DOMAIN k = 1 .. Len(k)
      /\ Len(s) \in Nat /\ DOMAIN s = 1 .. Len(s)
  BY <1>1, LenProperties
<1>4. ASSUME NEW i \in DOMAIN k, NEW j \in DOMAIN k, i < j
      PROVE  k[i].id < k[j].id
  <2>1. at[i] \in DOMAIN s /\ at[j] \in DOMAIN s /\ at[i] < at[j]
    BY <1>2, <1>3, <1>4 DEF Chosen
  <2>2. s[at[i]].id < s[at[j]].id
    BY <2>1 DEF SortedById
  <2> QED BY <2>2, <1>2, <1>3 DEF Chosen
<1> QED BY <1>4 DEF SortedById, k

\* What sorting entities by id gives.
ByIdIs(s, t) == SortedById(t) /\ ToSet(t) = ToSet(s)

\* Entities with ids of their own keep all of them when they are sorted.
LEMMA ByIdFacts ==
  ASSUME NEW T, NEW s \in Seq(T),
         \A e \in ToSet(s) : e.id \in 1 .. LastEntity,
         \A d, e \in ToSet(s) : d.id = e.id => d = e
  PROVE  ByIdIs(s, ById(s))
<1> DEFINE ids == Ascending(Ids(s))
           at(i) == CHOOSE e \in ToSet(s) : e.id = ids[i]
           t == ById(s)
<1>1. t = [i \in DOMAIN ids |-> at(i)]
  BY DEF ById
<1>2. /\ ids \in Seq(1 .. LastEntity) /\ Increasing(ids)
      /\ ToSet(ids) = IdsOf(ToSet(s)) \cap (1 .. LastEntity)
  BY ConstantTypes, AscendingFacts, IdsAre
<1>3. IdsOf(ToSet(s)) \subseteq 1 .. LastEntity
  BY DEF IdsOf
<1> HIDE DEF ids
<1>4. ASSUME NEW i \in DOMAIN ids PROVE at(i) \in ToSet(s) /\ at(i).id = ids[i]
  <2>1. ids[i] \in IdsOf(ToSet(s))
    BY <1>2 DEF ToSet
  <2>2. \E e \in ToSet(s) : e.id = ids[i]
    BY <2>1 DEF IdsOf
  <2> QED BY <2>2
<1> HIDE DEF at, t
<1>5. DOMAIN t = DOMAIN ids /\ \A i \in DOMAIN ids : t[i] \in ToSet(s) /\ t[i].id = ids[i]
  BY <1>1, <1>4
<1>6. SortedById(t)
  BY <1>2, <1>5 DEF SortedById, Increasing
<1>7. ASSUME NEW e \in ToSet(s) PROVE e \in ToSet(t)
  <2>1. e.id \in ToSet(ids)
    BY <1>2, <1>3 DEF IdsOf
  <2>2. PICK i \in DOMAIN ids : e.id = ids[i]
    BY <2>1 DEF ToSet
  <2>3. t[i] = e
    BY <1>5, <2>2
  <2> QED BY <1>5, <2>3 DEF ToSet
<1>8. ToSet(t) \subseteq ToSet(s)
  BY <1>5 DEF ToSet
<1> QED BY <1>6, <1>7, <1>8 DEF ByIdIs, t

\* What the checkpoint of a world holds, and in which order.
CheckpointOf(w, cp) ==
  /\ cp.tick = w.tick /\ cp.next = w.next /\ cp.owners = w.owners
  /\ SortedById(cp.players) /\ SortedById(cp.food)
  /\ \A e : e \in ToSet(cp.players) <=> \E p \in ToSet(w.players) : e = PlayerState(p)
  /\ ToSet(cp.food) = ToSet(w.food)

\* The ids of a sound world.
WorldIds(w) ==
  /\ \A p \in ToSet(w.players) : p \in Pieces /\ p.id \in 1 .. LastEntity /\ p.id < w.next
  /\ \A f \in ToSet(w.food) : f \in Foods /\ f.id \in 1 .. LastEntity /\ f.id < w.next
  /\ \A p, q \in ToSet(w.players) : p.id = q.id => p = q
  /\ \A f, g \in ToSet(w.food) : f.id = g.id => f = g
  /\ \A p \in ToSet(w.players) : \A f \in ToSet(w.food) : p.id # f.id

\* ... are numbers of their own.
LEMMA SoundIds ==
  ASSUME NEW w, Sound(w)
  PROVE  WorldIds(w)
<1>1. /\ w.players \in Seq(Pieces) /\ w.food \in Seq(Foods)
      /\ Arrays(w.players, "player", w.food, "food", w.locations)
      /\ w.next \in 1 .. LastEntity + 1 /\ \A id \in DOMAIN w.locations : id < w.next
  BY DEF Sound, Stored, Numbered
<1>2. /\ \A p \in ToSet(w.players) : p \in Pieces
      /\ \A f \in ToSet(w.food) : f \in Foods
  BY <1>1, ElementsIn
<1>3. /\ \A p \in ToSet(w.players) : p.id \in DOMAIN w.locations
      /\ \A f \in ToSet(w.food) : f.id \in DOMAIN w.locations
  BY <1>1 DEF Arrays, IdsOf
<1>4. \A id \in DOMAIN w.locations : id \in 1 .. LastEntity
  <2>1. \A id \in DOMAIN w.locations : id \in Positive
    BY LocatedPositive DEF Sound
  <2>2. \A id \in Positive : id < w.next => id \in 1 .. LastEntity
    BY <1>1, ConstantTypes DEF Positive
  <2> QED BY <1>1, <2>1, <2>2
<1>5. /\ \A p, q \in ToSet(w.players) : p.id = q.id => p = q
      /\ \A p \in ToSet(w.players) : \A f \in ToSet(w.food) : p.id # f.id
  <2>1. "player" # "food"
    OBVIOUS
  <2> QED BY <1>1, <2>1, ArraysApart
<1>6. \A f, g \in ToSet(w.food) : f.id = g.id => f = g
  <2>1. Arrays(w.food, "food", w.players, "player", w.locations) /\ "food" # "player"
    BY <1>1, ArraysSwap
  <2> QED BY <2>1, ArraysApart
<1> QED BY <1>1, <1>2, <1>3, <1>4, <1>5, <1>6 DEF WorldIds

\* The checkpoint of a world holds them.
LEMMA CheckpointFacts ==
  ASSUME NEW w, Sound(w)
  PROVE  CheckpointOf(w, Checkpoint(w))
<1> DEFINE ps == w.players  fs == w.food
           states == [i \in DOMAIN ps |-> PlayerState(ps[i])]
<1>1. WorldIds(w)
  BY SoundIds
<1>2. ps \in Seq(Pieces) /\ fs \in Seq(Foods)
  BY DEF Sound, Stored
<1>3. /\ Checkpoint(w).tick = w.tick /\ Checkpoint(w).next = w.next
      /\ Checkpoint(w).owners = w.owners /\ Checkpoint(w).food = ById(fs)
      /\ Checkpoint(w).players = ById(states)
  BY DEF Checkpoint
<1>4. ByIdIs(fs, ById(fs))
  <2>1. /\ \A e \in ToSet(fs) : e.id \in 1 .. LastEntity
        /\ \A d, e \in ToSet(fs) : d.id = e.id => d = e
    BY <1>1 DEF WorldIds
  <2> HIDE DEF fs
  <2> QED BY <1>2, <2>1, ByIdFacts
<1>5. \A e : e \in ToSet(states) <=> \E p \in ToSet(ps) : e = PlayerState(p)
  BY DEF ToSet
<1>6. states \in Seq(PlayerStates)
  <2>1. \A p \in Pieces : PlayerState(p) \in PlayerStates
    BY DEF PlayerState, Pieces, PlayerStates
  <2>2. /\ Len(ps) \in Nat /\ DOMAIN ps = 1 .. Len(ps)
        /\ \A i \in DOMAIN ps : ps[i] \in Pieces
    BY <1>2, ElementsIn
  <2> HIDE DEF ps
  <2> QED BY <2>1, <2>2
<1>7. ByIdIs(states, ById(states))
  <2>1. \A p : PlayerState(p).id = p.id
    BY DEF PlayerState
  <2>2. \A e \in ToSet(states) : e.id \in 1 .. LastEntity
    <3> HIDE DEF states
    <3> QED BY <1>1, <1>5, <2>1 DEF WorldIds
  <2>3. \A d, e \in ToSet(states) : d.id = e.id => d = e
    <3> HIDE DEF states
    <3> QED BY <1>1, <1>5, <2>1 DEF WorldIds
  <2> HIDE DEF states
  <2> QED BY <1>6, <2>2, <2>3, ByIdFacts
<1> HIDE DEF states
<1>8. \A e : e \in ToSet(ById(states)) <=> \E p \in ToSet(ps) : e = PlayerState(p)
  BY <1>5, <1>7 DEF ByIdIs
<1> QED BY <1>3, <1>4, <1>7, <1>8 DEF CheckpointOf, ByIdIs

\* An owner's pieces, taken from the players in order, are its list.
PiecesOf(s, o) == Column(Kept(s, {p \in ToSet(s) : p.owner = o}), "id")

\* ... which is what restore and hydrate_checkpoint compare and rebuild.
LEMMA ListsAgree ==
  ASSUME NEW w, Sound(w), NEW cp, CheckpointOf(w, cp), CheckpointTyped(cp)
  PROVE  \A s \in ToSet(w.owners) :
           /\ PiecesOf(cp.players, s.owner) = s.pieces
           /\ s.pieces # <<>> /\ StrictlySorted(s.pieces)
           /\ \E p \in ToSet(w.players) : p.owner = s.owner
<1> DEFINE ps == cp.players
<1>1. w.owners \in Seq(OwnerStates) /\ OwnersSound(ToSet(w.players), w.owners, {})
  BY DEF Sound, Numbered
<1>2. /\ ps \in Seq(PlayerStates) /\ SortedById(ps)
      /\ \A e : e \in ToSet(ps) <=> \E p \in ToSet(w.players) : e = PlayerState(p)
  BY DEF CheckpointOf, CheckpointTyped
<1> HIDE DEF ps
<1>3. SUFFICES ASSUME NEW s \in ToSet(w.owners)
               PROVE  /\ PiecesOf(ps, s.owner) = s.pieces
                      /\ s.pieces # <<>> /\ StrictlySorted(s.pieces)
                      /\ \E p \in ToSet(w.players) : p.owner = s.owner
  BY DEF ps
<1>4. PICK i \in DOMAIN w.owners : s = w.owners[i]
  BY DEF ToSet
<1>5. Increasing(s.pieces) /\ ToSet(s.pieces) = Listed(ToSet(w.players), s.owner)
  BY <1>1, <1>4 DEF OwnersSound
<1>6. s.pieces \in Seq(Int)
  <2>1. s \in OwnerStates
    BY <1>1, ElementsIn
  <2>2. s.pieces \in Seq(Positive)
    BY <2>1 DEF OwnerStates
  <2> QED BY <2>2 DEF Positive
<1>7. \E p \in ToSet(w.players) : p.owner = s.owner
  <2>1. w.owners[i].owner \in {p.owner : p \in ToSet(w.players)} \cup {}
    BY <1>1 DEF OwnersSound
  <2> QED BY <2>1, <1>4
<1>8. s.pieces # <<>>
  <2>1. Listed(ToSet(w.players), s.owner) # {}
    BY <1>7 DEF Listed
  <2>2. ToSet(<<>>) = {}
    BY DEF ToSet
  <2> QED BY <1>5, <2>1, <2>2
<1> DEFINE of == {p \in ToSet(ps) : p.owner = s.owner}
           mine == Kept(ps, of)
           c == Column(mine, "id")
<1>9. mine \in Seq(PlayerStates) /\ ToSet(mine) = of /\ SortedById(mine)
  <2>1. mine \in Seq(PlayerStates) /\ ToSet(mine) = ToSet(ps) \cap of
    <3> HIDE DEF of
    <3> QED BY <1>2, KeptFacts
  <2>2. SortedById(mine)
    <3> HIDE DEF of
    <3> QED BY <1>2, KeptSorted
  <2> QED BY <2>1, <2>2
<1> HIDE DEF mine
<1>10. \A e \in PlayerStates : e["id"] \in Int
  BY DEF PlayerStates, Positive
<1>11. c \in Seq(Int) /\ Increasing(c)
  BY <1>9, <1>10, IdsIncrease
<1>12. \A y : y \in ToSet(c) <=> \E x \in ToSet(mine) : x["id"] = y
  BY ONLY <1>9, <1>10, IdColumn
<1> HIDE DEF c
<1>13. \A y : y \in ToSet(c) <=> y \in ToSet(s.pieces)
  <2>1. \A p : PlayerState(p).id = p.id /\ PlayerState(p).owner = p.owner
    BY DEF PlayerState
  <2>2. \A y : y \in ToSet(s.pieces) <=> \E p \in ToSet(w.players) : p.owner = s.owner /\ p.id = y
    BY <1>5 DEF Listed
  <2> QED BY <1>2, <1>9, <1>12, <2>1, <2>2
<1>14. c = s.pieces
  <2>1. ToSet(c) = ToSet(s.pieces)
    BY ONLY <1>13
  <2> DEFINE t == s.pieces
  <2> HIDE DEF t
  <2>2. c = t
    BY ONLY <1>5, <1>6, <1>11, <2>1, IncreasingUnique DEF t
  <2> QED BY ONLY <2>2 DEF t
<1>15. StrictlySorted(s.pieces)
  BY <1>5, <1>6, SortedIncreases
<1> QED BY <1>7, <1>8, <1>14, <1>15 DEF PiecesOf, c, mine

-----------------------------------------------------------------------------
(* A sound world whose keys are sound passes the codec.                    *)

\* A prediction key is its owner's, of an input that owner had applied.
KeyGiven(w, p) ==
  /\ p.key[1] = p.owner /\ p.key[2] \in Int
  /\ \E s \in ToSet(w.owners) :
       s.owner = p.owner /\ s.lastInput # NoInput /\ p.key[2] <= s.lastInput

\* What makes the prediction keys of a world pass validation: none is another's,
\* and none runs ahead of the inputs of its owner.
KeysSound(w) ==
  /\ KeysDistinct(w.players)
  /\ \A p \in ToSet(w.players) : p.key = NoKey \/ KeyGiven(w, p)

\* Everything is where the grid can index it (so that restore can).
InGrid(w) ==
  /\ \A p \in ToSet(w.players) : CanIndex(Bounds(p))
  /\ \A f \in ToSet(w.food) : CanIndex(FoodBounds(f))

\* What a world needs, besides being sound, for its snapshot to pass the codec.
Encodable(w) == InGrid(w) /\ KeysSound(w)

\* Two lists without a common element.
LEMMA ApartInjective ==
  ASSUME NEW a \in Seq(Int), NEW b \in Seq(Int), IsInjective(a), IsInjective(b),
         \A i \in DOMAIN a : \A j \in DOMAIN b : a[i] # b[j]
  PROVE  IsInjective(a \o b)
<1> DEFINE c == a \o b
<1>1. /\ Len(a) \in Nat /\ DOMAIN a = 1 .. Len(a)
      /\ Len(b) \in Nat /\ DOMAIN b = 1 .. Len(b)
  BY LenProperties
<1>2. /\ c \in Seq(Int) /\ Len(c) = Len(a) + Len(b)
      /\ \A i \in 1 .. Len(a) + Len(b) : c[i] = IF i <= Len(a) THEN a[i] ELSE b[i - Len(a)]
  BY ConcatProperties
<1> HIDE DEF c
<1>3. DOMAIN c = 1 .. Len(a) + Len(b)
  BY <1>2, LenProperties
<1>4. \A i \in DOMAIN c : \/ i \in DOMAIN a /\ c[i] = a[i]
                          \/ i - Len(a) \in DOMAIN b /\ c[i] = b[i - Len(a)] /\ i > Len(a)
  BY <1>1, <1>2, <1>3
<1>5. ASSUME NEW i \in DOMAIN c, NEW j \in DOMAIN c, c[i] = c[j] PROVE i = j
  <2>1. CASE i \in DOMAIN a /\ c[i] = a[i] /\ j \in DOMAIN a /\ c[j] = a[j]
    BY <1>5, <2>1 DEF IsInjective
  <2>2. CASE /\ i - Len(a) \in DOMAIN b /\ c[i] = b[i - Len(a)]
             /\ j - Len(a) \in DOMAIN b /\ c[j] = b[j - Len(a)]
    <3>1. i - Len(a) = j - Len(a)
      BY <1>5, <2>2 DEF IsInjective
    <3> QED BY <3>1, <1>1, <1>3
  <2> QED BY <1>4, <1>5, <2>1, <2>2
<1>6. IsInjective(c)
  BY <1>5 DEF IsInjective
<1> QED BY <1>6 DEF c

\* Entities taken one by one from pieces with keys of their own have such keys.
LEMMA KeysTaken ==
  ASSUME NEW s, NEW t, KeysDistinct(s), SortedById(t), \A i \in DOMAIN t : t[i].id \in Int,
         DOMAIN t \subseteq Int,
         \A i \in DOMAIN t : \/ t[i].key = NoKey
                             \/ \E k \in DOMAIN s : s[k].key = t[i].key /\ s[k].id = t[i].id
  PROVE  KeysDistinct(t)
<1> SUFFICES ASSUME NEW i \in DOMAIN t, NEW j \in DOMAIN t, t[i].key = t[j].key,
                    t[i].key # NoKey
             PROVE  i = j
  BY DEF KeysDistinct
<1>1. PICK k \in DOMAIN s : s[k].key = t[i].key /\ s[k].id = t[i].id
  OBVIOUS
<1>2. PICK l \in DOMAIN s : s[l].key = t[j].key /\ s[l].id = t[j].id
  OBVIOUS
<1>3. k = l
  BY <1>1, <1>2 DEF KeysDistinct
<1>4. t[i].id = t[j].id
  BY <1>1, <1>2, <1>3
<1>5. ~ (i < j) /\ ~ (j < i)
  BY <1>4 DEF SortedById
<1>6. i \in Int /\ j \in Int
  OBVIOUS
<1> QED BY <1>5, <1>6

\* The pieces and food of a checkpoint are those of its world.
LEMMA CheckpointEntities ==
  ASSUME NEW w, Sound(w), NEW cp, CheckpointOf(w, cp)
  PROVE  /\ \A p \in ToSet(cp.players) : \E q \in ToSet(w.players) :
              p = PlayerState(q) /\ q \in Pieces /\ q.radius = RadiusForMass(q.mass)
         /\ \A p \in ToSet(cp.players) \cup ToSet(cp.food) : p.id < cp.next
         /\ \A p \in ToSet(cp.players) : \A f \in ToSet(cp.food) : p.id # f.id
<1>1. WorldIds(w)
  BY SoundIds
<1>2. \A p \in ToSet(w.players) : p.radius = RadiusForMass(p.mass)
  BY DEF Sound, Stored
<1>3. \A p : PlayerState(p).id = p.id
  BY DEF PlayerState
<1> QED BY <1>1, <1>2, <1>3 DEF WorldIds, CheckpointOf

\* Its entities pass the checks of restore.
LEMMA EntitiesAdmitted ==
  ASSUME NEW w, Sound(w), KeysSound(w), NEW cp, CheckpointOf(w, cp), CheckpointTyped(cp)
  PROVE  EntitiesValid(cp)
<1> DEFINE ps == cp.players  fs == cp.food
           a == Column(ps, "id")  b == Column(fs, "id")
           owners == ToSet(Column(cp.owners, "owner"))
<1>1. /\ ps \in Seq(PlayerStates) /\ fs \in Seq(Foods)
      /\ SortedById(ps) /\ SortedById(fs)
      /\ \A e : e \in ToSet(ps) <=> \E p \in ToSet(w.players) : e = PlayerState(p)
  BY DEF CheckpointOf, CheckpointTyped
<1>2. /\ \A p \in ToSet(ps) : \E q \in ToSet(w.players) : p = PlayerState(q)
      /\ \A e \in ToSet(ps) \cup ToSet(fs) : e.id < cp.next
      /\ \A p \in ToSet(ps) : \A f \in ToSet(fs) : p.id # f.id
  BY CheckpointEntities
<1>3. /\ \A e \in PlayerStates : e["id"] \in Int
      /\ \A e \in Foods : e["id"] \in Int
  BY DEF PlayerStates, Foods, Positive
<1>4. owners = ToSet(Column(w.owners, "owner"))
  BY DEF CheckpointOf
<1> HIDE DEF ps, fs, owners
<1>5. /\ a \in Seq(Int) /\ DOMAIN a = DOMAIN ps /\ \A i \in DOMAIN ps : a[i] = ps[i]["id"]
      /\ IsInjective(a)
  BY <1>1, <1>3, IdColumn, IdsIncrease
<1>6. /\ b \in Seq(Int) /\ DOMAIN b = DOMAIN fs /\ \A i \in DOMAIN fs : b[i] = fs[i]["id"]
      /\ IsInjective(b)
  BY <1>1, <1>3, IdColumn, IdsIncrease
<1> HIDE DEF a, b
<1>7. IsInjective(a \o b)
  <2>1. /\ \A i \in DOMAIN ps : ps[i] \in ToSet(ps)
        /\ \A i \in DOMAIN fs : fs[i] \in ToSet(fs)
    BY DEF ToSet
  <2>2. \A i \in DOMAIN a : \A j \in DOMAIN b : a[i] # b[j]
    BY <1>2, <1>5, <1>6, <2>1
  <2> QED BY <1>5, <1>6, <2>2, ApartInjective
<1>8. KeysDistinct(ps)
  <2>1. Len(ps) \in Nat /\ DOMAIN ps = 1 .. Len(ps) /\ \A i \in DOMAIN ps : ps[i] \in PlayerStates
    BY <1>1, ElementsIn
  <2>2. DOMAIN ps \subseteq Int /\ \A i \in DOMAIN ps : ps[i].id \in Int
    BY <1>3, <2>1
  <2>3. ASSUME NEW i \in DOMAIN ps
        PROVE  \E k \in DOMAIN w.players : /\ w.players[k].key = ps[i].key
                                           /\ w.players[k].id = ps[i].id
    <3>1. ps[i] \in ToSet(ps)
      BY DEF ToSet
    <3>2. PICK q \in ToSet(w.players) : ps[i] = PlayerState(q)
      BY <1>2, <3>1
    <3>3. PICK k \in DOMAIN w.players : q = w.players[k]
      BY DEF ToSet
    <3>4. ps[i].key = q.key /\ ps[i].id = q.id
      BY <3>2 DEF PlayerState
    <3> QED BY <3>3, <3>4
  <2>4. KeysDistinct(w.players)
    BY DEF KeysSound
  <2> QED BY <1>1, <2>2, <2>3, <2>4, KeysTaken
<1>9. ASSUME NEW p \in ToSet(ps)
      PROVE  p.owner \in owners /\ (p.key # NoKey => p.key[1] = p.owner)
  <2>1. PICK q \in ToSet(w.players) : p = PlayerState(q)
    BY <1>2
  <2>2. p.owner = q.owner /\ p.key = q.key
    BY <2>1 DEF PlayerState
  <2>3. q.key # NoKey => q.key[1] = q.owner
    BY DEF KeysSound, KeyGiven
  <2>4. q.owner \in ToSet(Column(w.owners, "owner"))
    <3>1. q.owner \in {w.owners[i].owner : i \in DOMAIN w.owners}
      BY DEF Sound, OwnersSound
    <3>2. PICK i \in DOMAIN w.owners : q.owner = w.owners[i].owner
      BY <3>1
    <3> QED BY <3>2 DEF ToSet, Column
  <2> QED BY <2>2, <2>3, <2>4, <1>4
<1> QED BY <1>2, <1>7, <1>8, <1>9 DEF EntitiesValid, ps, fs, a, b, owners

\* restore accepts the checkpoint of such a world.
LEMMA RestoreAdmits ==
  ASSUME NEW w, Sound(w), Encodable(w), NEW cp, CheckpointOf(w, cp), CheckpointTyped(cp)
  PROVE  RestoreError(cp) = "none"
<1> DEFINE pieces(o) == Column(Kept(cp.players, {p \in ToSet(cp.players) : p.owner = o}), "id")
           A == \/ ~StrictlySorted(Column(cp.owners, "owner"))
                \/ ~StrictlySorted(Column(cp.players, "id"))
                \/ ~StrictlySorted(Column(cp.food, "id"))
           B == \E s \in ToSet(cp.owners) : s.pieces = <<>> \/ ~StrictlySorted(s.pieces)
           C == ~EntitiesValid(cp)
           D == \E s \in ToSet(cp.owners) : pieces(s.owner) # s.pieces
           E == \/ \E p \in ToSet(cp.players) : ~CanIndex(Circle(p.pos, RadiusForMass(p.mass)))
                \/ \E f \in ToSet(cp.food) : ~CanIndex(FoodBounds(f))
<1>1. RestoreError(cp) =
        CASE A -> "InvalidOrdering"
          [] OTHER -> CASE B -> "InvalidOwnerState"
          [] OTHER -> CASE C -> "InvalidEntityState"
          [] OTHER -> CASE D -> "InvalidOwnerState"
          [] OTHER -> CASE E -> "InvalidGeometry"
          [] OTHER -> "none"
  BY DEF RestoreError
<1>2. ~A
  <2>1. StrictlySorted(Column(cp.owners, "owner"))
    <3>1. cp.owners = w.owners
      BY DEF CheckpointOf
    <3> QED BY <3>1, SoundConsistent DEF Consistent
  <2>2. StrictlySorted(Column(cp.players, "id"))
    <3>1. \A e \in PlayerStates : e["id"] \in Int
      BY DEF PlayerStates, Positive
    <3> QED BY <3>1, IdsIncrease DEF CheckpointOf, CheckpointTyped
  <2>3. StrictlySorted(Column(cp.food, "id"))
    <3>1. \A e \in Foods : e["id"] \in Int
      BY DEF Foods, Positive
    <3> QED BY <3>1, IdsIncrease DEF CheckpointOf, CheckpointTyped
  <2> QED BY <2>1, <2>2, <2>3
<1>3. ~B /\ ~D
  <2>1. cp.owners = w.owners
    BY DEF CheckpointOf
  <2>2. \A s \in ToSet(w.owners) : /\ PiecesOf(cp.players, s.owner) = s.pieces
                                   /\ s.pieces # <<>> /\ StrictlySorted(s.pieces)
    BY ListsAgree
  <2> QED BY <2>1, <2>2 DEF PiecesOf
<1>4. ~C
  BY EntitiesAdmitted DEF Encodable
<1>5. ~E
  <2>1. ASSUME NEW p \in ToSet(cp.players)
        PROVE  CanIndex(Circle(p.pos, RadiusForMass(p.mass)))
    <3>1. PICK q \in ToSet(w.players) : p = PlayerState(q) /\ q.radius = RadiusForMass(q.mass)
      BY CheckpointEntities
    <3>2. p.pos = q.pos /\ p.mass = q.mass
      BY <3>1 DEF PlayerState
    <3>3. Bounds(q) = Circle(p.pos, RadiusForMass(p.mass))
      BY <3>1, <3>2 DEF Bounds
    <3> QED BY <3>3 DEF Encodable, InGrid
  <2>2. ASSUME NEW f \in ToSet(cp.food) PROVE CanIndex(FoodBounds(f))
    <3>1. f \in ToSet(w.food)
      BY DEF CheckpointOf
    <3> QED BY <3>1 DEF Encodable, InGrid
  <2> QED BY <2>1, <2>2
<1> HIDE DEF A, B, C, D, E
<1> QED BY <1>1, <1>2, <1>3, <1>4, <1>5

\* What a full snapshot says of an entity.
Entities ==
  [kind : {"player", "food"}, id : Positive, owner : Nat, pos : Int, mass : Positive,
   launch : Int, eligible : 0 .. LastTick, key : Seq(Int)]

\* Two lists, one after the other.
LEMMA ConcatHolds ==
  ASSUME NEW T, NEW a \in Seq(T), NEW b \in Seq(T)
  PROVE  a \o b \in Seq(T) /\ \A e : e \in ToSet(a \o b) <=> e \in ToSet(a) \/ e \in ToSet(b)
<1> DEFINE c == a \o b
<1>1. /\ Len(a) \in Nat /\ DOMAIN a = 1 .. Len(a)
      /\ Len(b) \in Nat /\ DOMAIN b = 1 .. Len(b)
  BY LenProperties
<1>2. /\ c \in Seq(T) /\ Len(c) = Len(a) + Len(b)
      /\ \A i \in 1 .. Len(a) + Len(b) : c[i] = IF i <= Len(a) THEN a[i] ELSE b[i - Len(a)]
  BY ConcatProperties
<1> HIDE DEF c
<1>3. DOMAIN c = 1 .. Len(a) + Len(b)
  BY <1>2, LenProperties
<1>4. ASSUME NEW e \in ToSet(c) PROVE e \in ToSet(a) \/ e \in ToSet(b)
  <2>1. PICK i \in 1 .. Len(a) + Len(b) : e = c[i]
    BY <1>3 DEF ToSet
  <2>2. CASE i <= Len(a)
    <3>1. i \in DOMAIN a /\ e = a[i]
      BY <1>1, <1>2, <2>1, <2>2
    <3> QED BY <3>1 DEF ToSet
  <2>3. CASE ~(i <= Len(a))
    <3>1. i - Len(a) \in DOMAIN b /\ e = b[i - Len(a)]
      BY <1>1, <1>2, <2>1, <2>3
    <3> QED BY <3>1 DEF ToSet
  <2> QED BY <2>2, <2>3
<1>5. ASSUME NEW e \in ToSet(a) PROVE e \in ToSet(c)
  <2>1. PICK i \in DOMAIN a : e = a[i]
    BY DEF ToSet
  <2>2. i \in DOMAIN c /\ e = c[i]
    BY <1>1, <1>2, <1>3, <2>1
  <2> QED BY <2>2 DEF ToSet
<1>6. ASSUME NEW e \in ToSet(b) PROVE e \in ToSet(c)
  <2>1. PICK i \in DOMAIN b : e = b[i]
    BY DEF ToSet
  <2>2. /\ i + Len(a) \in 1 .. Len(a) + Len(b) /\ ~(i + Len(a) <= Len(a))
        /\ (i + Len(a)) - Len(a) = i
    BY <1>1, <2>1
  <2>3. i + Len(a) \in DOMAIN c /\ e = c[i + Len(a)]
    BY <1>2, <1>3, <2>1, <2>2
  <2> QED BY <2>3 DEF ToSet
<1> QED BY <1>2, <1>4, <1>5, <1>6 DEF c

\* The snapshot of a checkpoint: who is in it, and in which order.
SnapshotIs(cp, s) ==
  /\ s.tick = cp.tick /\ s.next = cp.next /\ s.digest = Digest(cp)
  /\ s.owners = [i \in DOMAIN cp.owners |-> [cp.owners[i] EXCEPT !.pieces = <<>>]]
  /\ s.entities \in Seq(Entities) /\ SortedById(s.entities)
  /\ \A e : e \in ToSet(s.entities) <=> \/ \E p \in ToSet(cp.players) : e = PlayerEntity(p)
                                        \/ \E f \in ToSet(cp.food) : e = FoodEntity(f)

\* The ids of a checkpoint are its entities' own.
CheckpointIds(cp) ==
  /\ \A p \in ToSet(cp.players) : p \in PlayerStates /\ p.id \in 1 .. LastEntity
  /\ \A f \in ToSet(cp.food) : f \in Foods /\ f.id \in 1 .. LastEntity
  /\ \A p, q \in ToSet(cp.players) : p.id = q.id => p = q
  /\ \A f, g \in ToSet(cp.food) : f.id = g.id => f = g
  /\ \A p \in ToSet(cp.players) : \A f \in ToSet(cp.food) : p.id # f.id

\* ... as they are a sound world's.
LEMMA CheckpointIdsAre ==
  ASSUME NEW w, Sound(w), NEW cp, CheckpointOf(w, cp), CheckpointTyped(cp)
  PROVE  CheckpointIds(cp)
<1>1. WorldIds(w)
  BY SoundIds
<1>2. /\ \A e : e \in ToSet(cp.players) <=> \E p \in ToSet(w.players) : e = PlayerState(p)
      /\ ToSet(cp.food) = ToSet(w.food)
  BY DEF CheckpointOf
<1>3. \A p : PlayerState(p).id = p.id
  BY DEF PlayerState
<1>4. /\ \A p \in ToSet(cp.players) : p \in PlayerStates
      /\ \A f \in ToSet(cp.food) : f \in Foods
  BY ElementsIn DEF CheckpointTyped
<1>5. \A p \in ToSet(cp.players) : p.id \in 1 .. LastEntity
  BY <1>1, <1>2, <1>3 DEF WorldIds
<1>6. \A p, q \in ToSet(cp.players) : p.id = q.id => p = q
  BY <1>1, <1>2, <1>3 DEF WorldIds
<1>7. \A p \in ToSet(cp.players) : \A f \in ToSet(cp.food) : p.id # f.id
  BY <1>1, <1>2, <1>3 DEF WorldIds
<1>8. /\ \A f \in ToSet(cp.food) : f.id \in 1 .. LastEntity
      /\ \A f, g \in ToSet(cp.food) : f.id = g.id => f = g
  BY <1>1, <1>2 DEF WorldIds
<1> QED BY <1>4, <1>5, <1>6, <1>7, <1>8 DEF CheckpointIds

\* build_full_snapshot makes such a snapshot of a checkpoint.
LEMMA SnapshotFacts ==
  ASSUME NEW w, Sound(w), NEW cp, CheckpointOf(w, cp), CheckpointTyped(cp)
  PROVE  SnapshotIs(cp, SnapshotOf(cp))
<1> DEFINE ps == cp.players  fs == cp.food
           a == [i \in DOMAIN ps |-> PlayerEntity(ps[i])]
           b == [i \in DOMAIN fs |-> FoodEntity(fs[i])]
           c == a \o b
<1>1. CheckpointIds(cp)
  BY CheckpointIdsAre
<1>2. ps \in Seq(PlayerStates) /\ fs \in Seq(Foods)
  BY DEF CheckpointTyped
<1>3. /\ SnapshotOf(cp).tick = cp.tick /\ SnapshotOf(cp).next = cp.next
      /\ SnapshotOf(cp).digest = Digest(cp)
      /\ SnapshotOf(cp).owners = [i \in DOMAIN cp.owners |-> [cp.owners[i] EXCEPT !.pieces = <<>>]]
      /\ SnapshotOf(cp).entities = ById(c)
  BY DEF SnapshotOf
<1>4. a \in Seq(Entities) /\ \A e : e \in ToSet(a) <=> \E p \in ToSet(ps) : e = PlayerEntity(p)
  <2>1. \A p \in PlayerStates : PlayerEntity(p) \in Entities
    BY DEF PlayerEntity, PlayerStates, Entities, Positive
  <2>2. /\ Len(ps) \in Nat /\ DOMAIN ps = 1 .. Len(ps)
        /\ \A i \in DOMAIN ps : ps[i] \in PlayerStates
    BY <1>2, ElementsIn
  <2>3. \A e : e \in ToSet(a) <=> \E p \in ToSet(ps) : e = PlayerEntity(p)
    BY DEF ToSet
  <2> HIDE DEF ps
  <2>4. a \in Seq(Entities)
    BY <2>1, <2>2
  <2> QED BY <2>3, <2>4 DEF ps
<1>5. b \in Seq(Entities) /\ \A e : e \in ToSet(b) <=> \E f \in ToSet(fs) : e = FoodEntity(f)
  <2>1. \A f \in Foods : FoodEntity(f) \in Entities
    <3>1. NoKey \in Seq(Int) /\ NoOwner \in Nat /\ 0 \in 0 .. LastTick /\ FoodMass \in Positive
      BY ConstantTypes, EmptySeq DEF NoKey, NoOwner
    <3> QED BY <3>1 DEF FoodEntity, Foods, Entities
  <2>2. /\ Len(fs) \in Nat /\ DOMAIN fs = 1 .. Len(fs)
        /\ \A i \in DOMAIN fs : fs[i] \in Foods
    BY <1>2, ElementsIn
  <2>3. \A e : e \in ToSet(b) <=> \E f \in ToSet(fs) : e = FoodEntity(f)
    BY DEF ToSet
  <2> HIDE DEF fs
  <2>4. b \in Seq(Entities)
    BY <2>1, <2>2
  <2> QED BY <2>3, <2>4 DEF fs
<1> HIDE DEF a, b
<1>6. c \in Seq(Entities) /\ \A e : e \in ToSet(c) <=> e \in ToSet(a) \/ e \in ToSet(b)
  BY <1>4, <1>5, ConcatHolds
<1> HIDE DEF c
<1>7. \A e : e \in ToSet(c) <=> \/ \E p \in ToSet(ps) : e = PlayerEntity(p)
                                \/ \E f \in ToSet(fs) : e = FoodEntity(f)
  BY <1>4, <1>5, <1>6
<1>8. /\ \A p : PlayerEntity(p).id = p.id
      /\ \A f : FoodEntity(f).id = f.id
  BY DEF PlayerEntity, FoodEntity
<1>9. /\ \A e \in ToSet(c) : e.id \in 1 .. LastEntity
      /\ \A d, e \in ToSet(c) : d.id = e.id => d = e
  <2>1. ASSUME NEW e \in ToSet(c) PROVE e.id \in 1 .. LastEntity
    BY <1>1, <1>7, <1>8 DEF CheckpointIds
  <2>2. ASSUME NEW d \in ToSet(c), NEW e \in ToSet(c), d.id = e.id PROVE d = e
    <3>1. CASE /\ \E p \in ToSet(ps) : d = PlayerEntity(p)
               /\ \E p \in ToSet(ps) : e = PlayerEntity(p)
      BY <1>1, <1>8, <2>2, <3>1 DEF CheckpointIds
    <3>2. CASE /\ \E p \in ToSet(ps) : d = PlayerEntity(p)
               /\ \E f \in ToSet(fs) : e = FoodEntity(f)
      BY <1>1, <1>8, <2>2, <3>2 DEF CheckpointIds
    <3>3. CASE /\ \E f \in ToSet(fs) : d = FoodEntity(f)
               /\ \E p \in ToSet(ps) : e = PlayerEntity(p)
      BY <1>1, <1>8, <2>2, <3>3 DEF CheckpointIds
    <3>4. CASE /\ \E f \in ToSet(fs) : d = FoodEntity(f)
               /\ \E f \in ToSet(fs) : e = FoodEntity(f)
      BY <1>1, <1>8, <2>2, <3>4 DEF CheckpointIds
    <3> QED BY <1>7, <3>1, <3>2, <3>3, <3>4
  <2> QED BY <2>1, <2>2
<1>10. ById(c) \in Seq(Entities) /\ ByIdIs(c, ById(c))
  BY <1>6, <1>9, ByIdFacts, ByIdType
<1>11. \A e : e \in ToSet(ById(c)) <=> \/ \E p \in ToSet(ps) : e = PlayerEntity(p)
                                       \/ \E f \in ToSet(fs) : e = FoodEntity(f)
  BY <1>7, <1>10 DEF ByIdIs
<1> QED BY <1>3, <1>10, <1>11 DEF SnapshotIs, ByIdIs

\* The client derives the checkpoint again.
LEMMA HydratedIs ==
  ASSUME NEW w, Sound(w), NEW cp, CheckpointOf(w, cp), CheckpointTyped(cp),
         NEW s, SnapshotIs(cp, s)
  PROVE  /\ Hydrated(s).tick = cp.tick /\ Hydrated(s).next = cp.next
         /\ Hydrated(s).owners = cp.owners
         /\ Hydrated(s).players = cp.players /\ Hydrated(s).food = cp.food
<1> DEFINE es == s.entities
           of(kind) == Kept(es, {e \in ToSet(es) : e.kind = kind})
           ps == of("player")
           fs == of("food")
           players == [i \in DOMAIN ps |-> PlayerState(ps[i])]
           food == [i \in DOMAIN fs |-> [id |-> fs[i].id, pos |-> fs[i].pos]]
<1>1. /\ Hydrated(s).tick = s.tick /\ Hydrated(s).next = s.next
      /\ Hydrated(s).players = players /\ Hydrated(s).food = food
      /\ Hydrated(s).owners = [i \in DOMAIN s.owners |->
           [s.owners[i] EXCEPT !.pieces = PiecesOf(players, s.owners[i].owner)]]
  BY DEF Hydrated, PiecesOf
<1>2. es \in Seq(Entities) /\ SortedById(es)
  BY DEF SnapshotIs
<1>3. \A e : e \in ToSet(es) <=> \/ \E p \in ToSet(cp.players) : e = PlayerEntity(p)
                                 \/ \E f \in ToSet(cp.food) : e = FoodEntity(f)
  BY DEF SnapshotIs
<1> HIDE DEF es
<1>4. \A kind : /\ of(kind) \in Seq(Entities) /\ SortedById(of(kind))
                /\ ToSet(of(kind)) = ToSet(es) \cap {e \in ToSet(es) : e.kind = kind}
  <2> TAKE kind
  <2> DEFINE S == {e \in ToSet(es) : e.kind = kind}
  <2> HIDE DEF S
  <2>1. /\ Kept(es, S) \in Seq(Entities) /\ SortedById(Kept(es, S))
        /\ ToSet(Kept(es, S)) = ToSet(es) \cap S
    BY <1>2, KeptFacts, KeptSorted
  <2> QED BY <2>1 DEF S
<1>5. /\ ps \in Seq(Entities) /\ SortedById(ps)
      /\ \A e : e \in ToSet(ps) <=> e \in ToSet(es) /\ e.kind = "player"
  BY <1>4
<1>6. /\ fs \in Seq(Entities) /\ SortedById(fs)
      /\ \A e : e \in ToSet(fs) <=> e \in ToSet(es) /\ e.kind = "food"
  BY <1>4
<1> HIDE DEF of, ps, fs
<1>7. /\ \A p : PlayerEntity(p).kind = "player"
      /\ \A f : FoodEntity(f).kind = "food"
  BY DEF PlayerEntity, FoodEntity
<1>8. \A e : e \in ToSet(ps) <=> \E p \in ToSet(cp.players) : e = PlayerEntity(p)
  BY <1>3, <1>5, <1>7
<1>9. \A e : e \in ToSet(fs) <=> \E f \in ToSet(cp.food) : e = FoodEntity(f)
  BY <1>3, <1>6, <1>7
<1>10. /\ cp.players \in Seq(PlayerStates) /\ cp.food \in Seq(Foods)
       /\ SortedById(cp.players) /\ SortedById(cp.food)
       /\ \A p \in ToSet(cp.players) : p \in PlayerStates
       /\ \A f \in ToSet(cp.food) : f \in Foods
  BY ElementsIn DEF CheckpointOf, CheckpointTyped
<1>11. /\ Len(ps) \in Nat /\ DOMAIN ps = 1 .. Len(ps) /\ \A i \in DOMAIN ps : ps[i] \in Entities
       /\ Len(fs) \in Nat /\ DOMAIN fs = 1 .. Len(fs) /\ \A i \in DOMAIN fs : fs[i] \in Entities
  BY <1>5, <1>6, ElementsIn
<1>12. players = cp.players
  <2>1. /\ \A p \in PlayerStates : PlayerState(PlayerEntity(p)) = p
        /\ \A e \in Entities : PlayerState(e).id = e.id
    BY DEF PlayerState, PlayerEntity, PlayerStates
  <2>2. ASSUME NEW i \in DOMAIN ps
        PROVE  \E p \in ToSet(cp.players) : ps[i] = PlayerEntity(p) /\ PlayerState(ps[i]) = p
    <3>1. ps[i] \in ToSet(ps)
      BY DEF ToSet
    <3> QED BY <1>8, <1>10, <2>1, <3>1
  <2>3. \A e : e \in ToSet(players) <=> e \in ToSet(cp.players)
    <3>1. ASSUME NEW e \in ToSet(players) PROVE e \in ToSet(cp.players)
      <4>1. PICK i \in DOMAIN ps : e = PlayerState(ps[i])
        BY DEF ToSet
      <4> QED BY <2>2, <4>1
    <3>2. ASSUME NEW p \in ToSet(cp.players) PROVE p \in ToSet(players)
      <4>1. PlayerEntity(p) \in ToSet(ps)
        BY <1>8
      <4>2. PICK i \in DOMAIN ps : PlayerEntity(p) = ps[i]
        BY <4>1 DEF ToSet
      <4>3. i \in DOMAIN players /\ players[i] = p
        BY <1>10, <2>1, <4>2
      <4> QED BY <4>3 DEF ToSet
    <3> QED BY <3>1, <3>2
  <2>4. players \in Seq(PlayerStates)
    <3>1. \A i \in DOMAIN ps : PlayerState(ps[i]) \in PlayerStates
      BY <1>10, <2>2
    <3> QED BY <1>11, <3>1
  <2>5. SortedById(players)
    <3>1. DOMAIN players = DOMAIN ps /\ \A i \in DOMAIN ps : players[i].id = ps[i].id
      BY <1>11, <2>1
    <3> HIDE DEF players
    <3> QED BY <1>5, <3>1 DEF SortedById
  <2>6. \A e \in PlayerStates : e["id"] \in Int
    BY DEF PlayerStates, Positive
  <2> HIDE DEF players
  <2>7. ToSet(players) = ToSet(cp.players)
    BY <2>3
  <2> QED BY ONLY <1>10, <2>4, <2>5, <2>6, <2>7, SortedUnique
<1>13. food = cp.food
  <2> DEFINE Back(e) == [id |-> e.id, pos |-> e.pos]
  <2>1. /\ \A f \in Foods : Back(FoodEntity(f)) = f
        /\ \A e \in Entities : Back(e).id = e.id
    BY DEF FoodEntity, Foods
  <2>2. food = [i \in DOMAIN fs |-> Back(fs[i])]
    OBVIOUS
  <2> HIDE DEF Back, food
  <2>3. ASSUME NEW i \in DOMAIN fs
        PROVE  \E f \in ToSet(cp.food) : fs[i] = FoodEntity(f) /\ Back(fs[i]) = f
    <3>1. fs[i] \in ToSet(fs)
      BY DEF ToSet
    <3> QED BY <1>9, <1>10, <2>1, <3>1
  <2>4. \A e : e \in ToSet(food) <=> e \in ToSet(cp.food)
    <3>1. ASSUME NEW e \in ToSet(food) PROVE e \in ToSet(cp.food)
      <4>1. PICK i \in DOMAIN fs : e = Back(fs[i])
        BY <2>2 DEF ToSet
      <4> QED BY <2>3, <4>1
    <3>2. ASSUME NEW f \in ToSet(cp.food) PROVE f \in ToSet(food)
      <4>1. FoodEntity(f) \in ToSet(fs)
        BY <1>9
      <4>2. PICK i \in DOMAIN fs : FoodEntity(f) = fs[i]
        BY <4>1 DEF ToSet
      <4>3. i \in DOMAIN food /\ food[i] = f
        BY <1>10, <2>1, <2>2, <4>2
      <4> QED BY <4>3 DEF ToSet
    <3> QED BY <3>1, <3>2
  <2>5. food \in Seq(Foods)
    <3>1. \A i \in DOMAIN fs : Back(fs[i]) \in Foods
      BY <1>10, <2>3
    <3> QED BY <1>11, <2>2, <3>1
  <2>6. SortedById(food)
    <3>1. DOMAIN food = DOMAIN fs /\ \A i \in DOMAIN fs : food[i].id = fs[i].id
      BY <1>11, <2>1, <2>2
    <3> QED BY <1>6, <3>1 DEF SortedById
  <2>7. \A e \in Foods : e["id"] \in Int
    BY DEF Foods, Positive
  <2>8. ToSet(food) = ToSet(cp.food)
    BY <2>4
  <2> QED BY ONLY <1>10, <2>5, <2>6, <2>7, <2>8, SortedUnique
<1> HIDE DEF players, food
<1>14. Hydrated(s).owners = cp.owners
  <2> DEFINE os == cp.owners
  <2>1. os \in Seq(OwnerStates) /\ os = w.owners
    BY DEF CheckpointTyped, CheckpointOf
  <2>2. /\ Len(os) \in Nat /\ DOMAIN os = 1 .. Len(os)
        /\ \A i \in DOMAIN os : os[i] \in OwnerStates /\ os[i] \in ToSet(os)
    BY <2>1, ElementsIn
  <2>3. s.owners = [i \in DOMAIN os |-> [os[i] EXCEPT !.pieces = <<>>]]
    BY DEF SnapshotIs
  <2>4. \A i \in DOMAIN os : PiecesOf(cp.players, os[i].owner) = os[i].pieces
    BY <2>1, <2>2, ListsAgree
  <2> HIDE DEF os
  <2>5. ASSUME NEW i \in DOMAIN os
        PROVE  [s.owners[i] EXCEPT !.pieces = PiecesOf(players, s.owners[i].owner)] = os[i]
    <3> DEFINE x == os[i]  l == x.pieces
    <3>1. s.owners[i] = [x EXCEPT !.pieces = <<>>]
      BY <2>3
    <3>2. x \in OwnerStates
      BY <2>2
    <3>3. PiecesOf(players, x.owner) = l
      BY <1>12, <2>4
    <3> HIDE DEF x, l
    <3>4. s.owners[i].owner = x.owner
      BY <3>1, <3>2 DEF OwnerStates
    <3>5. PiecesOf(players, s.owners[i].owner) = l
      BY <3>3, <3>4
    <3>6. [s.owners[i] EXCEPT !.pieces = l] = x
      BY <3>1, <3>2 DEF OwnerStates, l
    <3> QED BY ONLY <3>5, <3>6 DEF x
  <2>6. DOMAIN s.owners = DOMAIN os
    BY <2>3
  <2>7. Hydrated(s).owners = [i \in DOMAIN os |-> os[i]]
    BY <1>1, <2>5, <2>6
  <2>8. os = [i \in DOMAIN os |-> os[i]]
    BY <2>1
  <2> QED BY <2>7, <2>8 DEF os
<1> QED BY <1>1, <1>12, <1>13, <1>14 DEF SnapshotIs

\* As many elements as images that are told apart.
LEMMA ImageSize ==
  ASSUME NEW S, IsFiniteSet(S), NEW T, NEW f \in [S -> T],
         \A x, y \in S : f[x] = f[y] => x = y,
         \A z \in T : \E x \in S : f[x] = z
  PROVE  IsFiniteSet(T) /\ Cardinality(T) = Cardinality(S)
<1>1. f \in Bijection(S, T)
  BY DEF Bijection, Injection, Surjection, IsInjective
<1>2. ExistsBijection(S, T)
  BY <1>1 DEF ExistsBijection
<1> QED BY <1>2, FS_Bijection

\* A snapshot holds every entity of the world once.
LEMMA EntityCount ==
  ASSUME NEW w, Sound(w), NEW cp, CheckpointOf(w, cp), CheckpointTyped(cp),
         NEW s, SnapshotIs(cp, s)
  PROVE  Len(s.entities) = Len(w.players) + Len(w.food)
<1> DEFINE es == s.entities  ps == w.players  fs == w.food
           N == Len(ps) + Len(fs)
           D == DOMAIN w.locations
           f == [i \in 1 .. Len(es) |-> es[i].id]
           g == [i \in 1 .. N |-> IF i <= Len(ps) THEN ps[i].id ELSE fs[i - Len(ps)].id]
<1>1. /\ es \in Seq(Entities) /\ SortedById(es)
      /\ \A e : e \in ToSet(es) <=> \/ \E p \in ToSet(cp.players) : e = PlayerEntity(p)
                                    \/ \E x \in ToSet(cp.food) : e = FoodEntity(x)
  BY DEF SnapshotIs
<1>2. /\ \A e : e \in ToSet(cp.players) <=> \E p \in ToSet(ps) : e = PlayerState(p)
      /\ ToSet(cp.food) = ToSet(fs)
  BY DEF CheckpointOf
<1>3. /\ ps \in Seq(Pieces) /\ fs \in Seq(Foods)
      /\ D = IdsOf(ToSet(ps)) \cup IdsOf(ToSet(fs))
      /\ \A i \in DOMAIN ps : w.locations[ps[i].id] = [kind |-> "player", index |-> i]
      /\ \A i \in DOMAIN fs : w.locations[fs[i].id] = [kind |-> "food", index |-> i]
  BY DEF Sound, Stored, Arrays, Placed
<1>4. /\ \A p : PlayerEntity(PlayerState(p)).id = p.id
      /\ \A x : FoodEntity(x).id = x.id
  BY DEF PlayerEntity, PlayerState, FoodEntity
<1>5. \A e \in ToSet(es) : \/ \E p \in ToSet(ps) : e.id = p.id
                           \/ \E x \in ToSet(fs) : e.id = x.id
  BY <1>1, <1>2, <1>4
<1>6. /\ \A p \in ToSet(ps) : \E e \in ToSet(es) : e.id = p.id
      /\ \A x \in ToSet(fs) : \E e \in ToSet(es) : e.id = x.id
  BY <1>1, <1>2, <1>4
<1>7. /\ Len(es) \in Nat /\ DOMAIN es = 1 .. Len(es)
      /\ Len(ps) \in Nat /\ DOMAIN ps = 1 .. Len(ps)
      /\ Len(fs) \in Nat /\ DOMAIN fs = 1 .. Len(fs)
  BY <1>1, <1>3, ElementsIn
<1> HIDE DEF es, ps, fs, D
<1>8. Cardinality(D) = Len(es)
  <2>1. \A i \in DOMAIN es : es[i].id \in D
    BY <1>3, <1>5 DEF ToSet, IdsOf
  <2>2. f \in [1 .. Len(es) -> D]
    BY <1>7, <2>1
  <2>3. \A i, j \in 1 .. Len(es) : f[i] = f[j] => i = j
    <3>1. \A i \in DOMAIN es : es[i] \in Entities
      BY <1>1, ElementsIn
    <3>2. \A e \in Entities : e.id \in Int
      BY DEF Entities, Positive
    <3> QED BY <1>1, <1>7, <3>1, <3>2 DEF SortedById
  <2>4. \A z \in D : \E i \in 1 .. Len(es) : f[i] = z
    BY <1>3, <1>6, <1>7 DEF ToSet, IdsOf
  <2>5. IsFiniteSet(1 .. Len(es)) /\ Cardinality(1 .. Len(es)) = Len(es)
    <3>1. Len(es) \in Nat /\ 1 \in Int
      BY <1>7
    <3>2. /\ IsFiniteSet(1 .. Len(es))
          /\ Cardinality(1 .. Len(es)) = IF 1 > Len(es) THEN 0 ELSE Len(es) - 1 + 1
      BY <3>1, FS_Interval
    <3> QED BY <3>1, <3>2
  <2> HIDE DEF f
  <2> QED BY <2>2, <2>3, <2>4, <2>5, ImageSize
<1>9. Cardinality(D) = N
  <2>1. \A i \in 1 .. N : \/ i \in DOMAIN ps /\ g[i] = ps[i].id /\ i <= Len(ps)
                          \/ /\ i - Len(ps) \in DOMAIN fs /\ g[i] = fs[i - Len(ps)].id
                             /\ ~(i <= Len(ps))
    BY <1>7
  <2>2. /\ \A i \in DOMAIN ps : ps[i].id \in D
        /\ \A i \in DOMAIN fs : fs[i].id \in D
    BY <1>3 DEF ToSet, IdsOf
  <2>3. g \in [1 .. N -> D]
    BY <2>1, <2>2
  <2>4. ASSUME NEW i \in 1 .. N, NEW j \in 1 .. N, g[i] = g[j] PROVE i = j
    <3> DEFINE at(n) == w.locations[g[n]]
    <3>1. \A n \in 1 .. N : \/ at(n) = [kind |-> "player", index |-> n] /\ n <= Len(ps)
                            \/ /\ at(n) = [kind |-> "food", index |-> n - Len(ps)]
                               /\ ~(n <= Len(ps))
      BY <1>3, <2>1
    <3>2. at(i) = at(j)
      BY <2>4
    <3> HIDE DEF at
    <3>3. \A n \in 1 .. N : \/ at(n).kind = "player" /\ at(n).index = n
                            \/ at(n).kind = "food" /\ at(n).index = n - Len(ps)
      BY <3>1
    <3>4. at(i).kind = at(j).kind /\ at(i).index = at(j).index /\ i \in Int /\ j \in Int
      BY <3>2
    <3> QED BY <1>7, <3>3, <3>4
  <2>5. \A z \in D : \E i \in 1 .. N : g[i] = z
    <3>1. ASSUME NEW z \in D PROVE \E i \in 1 .. N : g[i] = z
      <4>1. CASE z \in IdsOf(ToSet(ps))
        <5>1. PICK i \in DOMAIN ps : ps[i].id = z
          BY <4>1 DEF IdsOf, ToSet
        <5>2. i \in 1 .. N /\ g[i] = z
          BY <1>7, <5>1
        <5> QED BY <5>2
      <4>2. CASE z \in IdsOf(ToSet(fs))
        <5>1. PICK i \in DOMAIN fs : fs[i].id = z
          BY <4>2 DEF IdsOf, ToSet
        <5>2. /\ i + Len(ps) \in 1 .. N /\ ~(i + Len(ps) <= Len(ps))
              /\ (i + Len(ps)) - Len(ps) = i
          BY <1>7
        <5>3. g[i + Len(ps)] = z
          BY <5>1, <5>2
        <5> QED BY <5>2, <5>3
      <4> QED BY <1>3, <3>1, <4>1, <4>2
    <3> QED BY <3>1
  <2>6. N \in Nat
    BY <1>7
  <2>7. IsFiniteSet(1 .. N) /\ Cardinality(1 .. N) = N
    BY <2>6, FS_Interval
  <2> HIDE DEF g, N
  <2> QED BY <2>3, <2>4, <2>5, <2>7, ImageSize
<1> QED BY <1>8, <1>9 DEF es, ps, fs

\* validate(FullSnapshot) accepts what the server builds, up to the counts.
LEMMA SnapshotAdmitted ==
  ASSUME NEW w, Sound(w), KeysSound(w), NEW cp, CheckpointOf(w, cp), CheckpointTyped(cp),
         NEW s, SnapshotIs(cp, s)
  PROVE  SnapshotValid(s) <=> Len(s.entities) <= WireCount /\ Len(s.owners) <= WireCount
<1> DEFINE es == s.entities
           players == {e \in ToSet(es) : e.kind = "player"}
           os == w.owners
<1>1. /\ es \in Seq(Entities) /\ SortedById(es) /\ s.next = w.next
      /\ \A e : e \in ToSet(es) <=> \/ \E p \in ToSet(cp.players) : e = PlayerEntity(p)
                                    \/ \E f \in ToSet(cp.food) : e = FoodEntity(f)
  BY DEF SnapshotIs, CheckpointOf
<1>2. /\ \A e : e \in ToSet(cp.players) <=> \E p \in ToSet(w.players) : e = PlayerState(p)
      /\ ToSet(cp.food) = ToSet(w.food) /\ cp.next = w.next
  BY DEF CheckpointOf
<1>3. /\ os \in Seq(OwnerStates) /\ w.players \in Seq(Pieces)
      /\ StrictlySorted(Column(os, "owner"))
      /\ ToSet(Column(os, "owner")) = ToSet(Column(w.players, "owner"))
  BY SoundConsistent DEF Sound, Stored, Numbered, Consistent
<1>4. /\ DOMAIN s.owners = DOMAIN os
      /\ \A i \in DOMAIN os : /\ s.owners[i].owner = os[i].owner
                              /\ s.owners[i].lastInput = os[i].lastInput
  <2>1. s.owners = [i \in DOMAIN os |-> [os[i] EXCEPT !.pieces = <<>>]]
    BY DEF SnapshotIs, CheckpointOf
  <2>2. \A i \in DOMAIN os : os[i] \in OwnerStates
    BY <1>3, ElementsIn
  <2> HIDE DEF os
  <2>3. \A x \in OwnerStates : /\ [x EXCEPT !.pieces = <<>>].owner = x.owner
                               /\ [x EXCEPT !.pieces = <<>>].lastInput = x.lastInput
    BY DEF OwnerStates
  <2> QED BY <2>1, <2>2, <2>3
<1>5. Column(s.owners, "owner") = Column(os, "owner")
  BY <1>4 DEF Column
<1>6. \A e : e \in players <=> \E p \in ToSet(w.players) : e = PlayerEntity(PlayerState(p))
  <2>1. /\ \A p : PlayerEntity(p).kind = "player"
        /\ \A f : FoodEntity(f).kind = "food"
    BY DEF PlayerEntity, FoodEntity
  <2> QED BY <1>1, <1>2, <2>1
<1>7. \A p : LET e == PlayerEntity(PlayerState(p))
             IN  e.id = p.id /\ e.owner = p.owner /\ e.key = p.key /\ e.mass = p.mass
  BY DEF PlayerEntity, PlayerState
<1>8. \A f : LET e == FoodEntity(f)
             IN  e.kind = "food" /\ e.id = f.id /\ e.key = NoKey /\ e.mass = FoodMass
  BY DEF FoodEntity
<1>9. StrictlySorted(Column(es, "id"))
  <2>1. \A e \in Entities : e["id"] \in Int
    BY DEF Entities, Positive
  <2> HIDE DEF es
  <2> QED BY <1>1, <2>1, IdsIncrease
<1>10. \A e \in ToSet(es) : e.mass > 0 /\ (s.next <= LastEntity => e.id < s.next)
  <2> TAKE e \in ToSet(es)
  <2>1. e \in Entities
    BY <1>1, ElementsIn
  <2>2. e.mass > 0
    BY <2>1 DEF Entities, Positive
  <2>3. \A p \in ToSet(cp.players) \cup ToSet(cp.food) : p.id < cp.next
    BY CheckpointEntities
  <2>4. \A p : PlayerEntity(p).id = p.id
    BY DEF PlayerEntity
  <2>5. e.id < cp.next
    BY <1>1, <1>8, <2>3, <2>4
  <2> QED BY <2>2, <2>5, <1>1, <1>2
<1> HIDE DEF players
<1>11. {e.owner : e \in players} = ToSet(Column(s.owners, "owner"))
  <2>1. \A y : y \in ToSet(Column(w.players, "owner")) <=> \E p \in ToSet(w.players) : p.owner = y
    BY DEF ToSet, Column
  <2>2. \A y : y \in {e.owner : e \in players} <=> \E p \in ToSet(w.players) : p.owner = y
    BY <1>6, <1>7
  <2> QED BY <2>1, <2>2, <1>3, <1>5
<1>12. \A e \in players : KeyAdmissible(e, s)
  <2> TAKE e \in players
  <2>1. PICK p \in ToSet(w.players) : e = PlayerEntity(PlayerState(p))
    BY <1>6
  <2>2. e.key = p.key /\ e.owner = p.owner
    BY <1>7, <2>1
  <2>3. CASE p.key = NoKey
    BY <2>2, <2>3 DEF KeyAdmissible
  <2>4. CASE p.key # NoKey
    <3>1. /\ p.key[1] = p.owner
          /\ \E o \in ToSet(os) : o.owner = p.owner /\ o.lastInput # NoInput
                                  /\ p.key[2] <= o.lastInput
      BY <2>4 DEF KeysSound, KeyGiven
    <3>2. PICK o \in ToSet(os) : o.owner = p.owner /\ o.lastInput # NoInput
                                 /\ p.key[2] <= o.lastInput
      BY <3>1
    <3>3. PICK i \in DOMAIN os : o = os[i]
      BY DEF ToSet
    <3>4. /\ s.owners[i] \in ToSet(s.owners)
          /\ s.owners[i].owner = o.owner /\ s.owners[i].lastInput = o.lastInput
      BY <1>4, <3>3 DEF ToSet
    <3> QED BY <2>2, <3>1, <3>2, <3>4 DEF KeyAdmissible
  <2> QED BY <2>3, <2>4
<1>13. KeysDistinct(es)
  <2>1. Len(es) \in Nat /\ DOMAIN es = 1 .. Len(es) /\ \A i \in DOMAIN es : es[i] \in Entities
    BY <1>1, ElementsIn
  <2>2. DOMAIN es \subseteq Int /\ \A i \in DOMAIN es : es[i].id \in Int
    BY <2>1 DEF Entities, Positive
  <2>3. ASSUME NEW i \in DOMAIN es
        PROVE  \/ es[i].key = NoKey
               \/ \E k \in DOMAIN w.players : /\ w.players[k].key = es[i].key
                                              /\ w.players[k].id = es[i].id
    <3>1. es[i] \in ToSet(es)
      BY DEF ToSet
    <3>2. CASE \E f \in ToSet(cp.food) : es[i] = FoodEntity(f)
      BY <1>8, <3>2
    <3>3. CASE \E p \in ToSet(cp.players) : es[i] = PlayerEntity(p)
      <4>1. PICK p \in ToSet(w.players) : es[i] = PlayerEntity(PlayerState(p))
        BY <1>2, <3>3
      <4>2. PICK k \in DOMAIN w.players : p = w.players[k]
        BY DEF ToSet
      <4> QED BY <4>1, <4>2, <1>7
    <3> QED BY <1>1, <3>1, <3>2, <3>3
  <2>4. KeysDistinct(w.players)
    BY DEF KeysSound
  <2> HIDE DEF es
  <2> QED BY <1>1, <2>2, <2>3, <2>4, KeysTaken
<1>14. \A e \in ToSet(es) \ players : e = [FoodEntity(e) EXCEPT !.mass = e.mass]
  <2> TAKE e \in ToSet(es) \ players
  <2>1. PICK f \in ToSet(cp.food) : e = FoodEntity(f)
    <3>1. ~ \E p \in ToSet(w.players) : e = PlayerEntity(PlayerState(p))
      BY <1>6
    <3> QED BY <1>1, <1>2, <3>1
  <2> QED BY <2>1 DEF FoodEntity
<1> QED
  BY <1>3, <1>5, <1>9, <1>10, <1>11, <1>12, <1>13, <1>14 DEF SnapshotValid, players

\* The snapshot has the counts of the world.
LEMMA SnapshotCounts ==
  ASSUME NEW w, Sound(w), NEW cp, CheckpointOf(w, cp), CheckpointTyped(cp),
         NEW s, SnapshotIs(cp, s)
  PROVE  Len(s.entities) = Len(w.players) + Len(w.food) /\ Len(s.owners) = Len(w.owners)
<1> DEFINE os == w.owners
<1>1. s.owners = [i \in DOMAIN os |-> [os[i] EXCEPT !.pieces = <<>>]]
  BY DEF SnapshotIs, CheckpointOf
<1>2. os \in Seq(OwnerStates)
  BY DEF Sound, Numbered
<1> HIDE DEF os
<1>3. Len(os) \in Nat /\ DOMAIN os = 1 .. Len(os)
  BY <1>2, ElementsIn
<1>4. Len(s.owners) = Len(os)
  BY <1>1, <1>3
<1> QED BY <1>4, EntityCount DEF os

\* The server builds a snapshot of a world that can be encoded when the wire has
\* room for it, and only then.
LEMMA BuildAdmits ==
  ASSUME NEW w, Sound(w), Encodable(w)
  PROVE  SnapshotBuildError(Checkpoint(w)) = "none" <=> WithinWire(w)
<1> DEFINE cp == Checkpoint(w)  s == SnapshotOf(cp)
           A == ~TicksFit(cp)
           B == ~SnapshotValid(s)
<1>1. SnapshotBuildError(cp) =
        CASE A -> "TickOutOfRange"
          [] OTHER -> CASE B -> "InvalidWorldState"
          [] OTHER -> "none"
  BY DEF SnapshotBuildError
<1>2. CheckpointOf(w, cp) /\ CheckpointTyped(cp)
  BY CheckpointFacts, CheckpointType
<1>3. WithinWire(w) <=> ~A /\ Len(w.owners) <= WireCount /\ Len(w.players) + Len(w.food) <= WireCount
  BY DEF WithinWire
<1> HIDE DEF cp
<1>4. SnapshotIs(cp, s)
  BY <1>2, SnapshotFacts
<1> HIDE DEF s
<1>5. B <=> ~(Len(w.players) + Len(w.food) <= WireCount /\ Len(w.owners) <= WireCount)
  BY <1>2, <1>4, SnapshotAdmitted, SnapshotCounts DEF Encodable
<1> HIDE DEF A, B
<1>6. SnapshotBuildError(cp) = "none" <=> ~A /\ ~B
  BY <1>1
<1> QED BY <1>3, <1>5, <1>6 DEF cp

\* The client accepts the snapshot of a world that can be encoded.
LEMMA HydrationAdmits ==
  ASSUME NEW w, Sound(w), Encodable(w), WithinWire(w)
  PROVE  HydrationError(SnapshotOf(Checkpoint(w))) = "none"
<1> DEFINE cp == Checkpoint(w)  s == SnapshotOf(cp)  h == Hydrated(s)
           A == ~SnapshotValid(s)
           B == \E e \in ToSet(s.entities) : e.kind = "food" /\ e.mass # FoodMass
           C == RestoreError(h) # "none"
           D == Digest(h) # s.digest
<1>1. HydrationError(s) =
        CASE A -> "InvalidSnapshot"
          [] OTHER -> CASE B -> "InvalidFoodMass"
          [] OTHER -> CASE C -> "RestoreFailed"
          [] OTHER -> CASE D -> "DigestMismatch"
          [] OTHER -> "none"
  BY DEF HydrationError
<1>2. CheckpointOf(w, cp) /\ CheckpointTyped(cp)
  BY CheckpointFacts, CheckpointType
<1> HIDE DEF cp
<1>3. SnapshotIs(cp, s)
  BY <1>2, SnapshotFacts
<1> HIDE DEF s
<1>4. /\ h.tick = cp.tick /\ h.next = cp.next /\ h.owners = cp.owners
      /\ h.players = cp.players /\ h.food = cp.food
  BY <1>2, <1>3, HydratedIs
<1> HIDE DEF h
<1>5. ~A
  <2>1. Len(w.owners) <= WireCount /\ Len(w.players) + Len(w.food) <= WireCount
    BY DEF WithinWire
  <2> QED BY <1>2, <1>3, <2>1, SnapshotAdmitted, SnapshotCounts DEF Encodable
<1>6. ~B
  <2>1. /\ \A p : PlayerEntity(p).kind = "player"
        /\ \A f : FoodEntity(f).mass = FoodMass
    BY DEF PlayerEntity, FoodEntity
  <2> QED BY <1>3, <2>1 DEF SnapshotIs
<1>7. ~C
  <2>1. CheckpointOf(w, h)
    BY <1>2, <1>4 DEF CheckpointOf
  <2>2. CheckpointTyped(h)
    BY <1>2, <1>4 DEF CheckpointTyped
  <2> QED BY <2>1, <2>2, RestoreAdmits
<1>8. ~D
  BY <1>3, <1>4 DEF SnapshotIs, Digest
<1> HIDE DEF A, B, C, D
<1>9. HydrationError(s) = "none"
  BY <1>1, <1>5, <1>6, <1>7, <1>8
<1> QED BY <1>9 DEF s, cp

-----------------------------------------------------------------------------
(* What keeps the keys sound: edits and the commit of a tick.              *)

\* The owners of the pieces of v whom w knows are known to v, with no fewer
\* inputs applied.
InputsCarried(w, v) ==
  \A s \in ToSet(w.owners) :
    (\E q \in ToSet(v.players) : q.owner = s.owner) =>
      \E t \in ToSet(v.owners) : t.owner = s.owner /\ s.lastInput <= t.lastInput

\* No piece of v has a new key or loses the input it came from.
Carried(w, v) ==
  /\ \A q \in ToSet(v.players) : q.key = NoKey \/ Descends(w, q)
  /\ InputsCarried(w, v)

\* Inputs are numbers.
LEMMA InputType ==
  ASSUME NEW w, Sound(w), NEW s \in ToSet(w.owners)
  PROVE  s \in OwnerStates /\ s.lastInput \in Nat /\ s.owner \in Int
<1>1. s \in OwnerStates
  BY ElementsIn DEF Sound, Numbered
<1> QED BY <1>1 DEF OwnerStates, Positive

\* An owner has one state.
LEMMA OneState ==
  ASSUME NEW w, Sound(w), NEW s \in ToSet(w.owners), NEW t \in ToSet(w.owners),
         s.owner = t.owner
  PROVE  s = t
<1>1. w.owners \in Seq(OwnerStates) /\ OwnersSorted(w.owners)
  BY DEF Sound, Numbered, OwnersSound
<1>2. Len(w.owners) \in Nat /\ DOMAIN w.owners = 1 .. Len(w.owners)
  BY <1>1, ElementsIn
<1>3. PICK i \in DOMAIN w.owners : s = w.owners[i]
  BY DEF ToSet
<1>4. PICK j \in DOMAIN w.owners : t = w.owners[j]
  BY DEF ToSet
<1>5. s.owner \in Int
  BY InputType
<1>6. ~ (i < j) /\ ~ (j < i)
  BY <1>1, <1>3, <1>4, <1>5 DEF OwnersSorted
<1>7. i = j
  BY <1>2, <1>6
<1> QED BY <1>3, <1>4, <1>7

\* The owner of a piece has a state.
LEMMA HasState ==
  ASSUME NEW w, Sound(w), NEW p \in ToSet(w.players)
  PROVE  \E s \in ToSet(w.owners) : s.owner = p.owner
<1>1. p.owner \in {w.owners[i].owner : i \in DOMAIN w.owners}
  BY DEF Sound, OwnersSound
<1> QED BY <1>1 DEF ToSet

\* When all states of v are of owners w knows, inputs are carried.
LEMMA StatesCarried ==
  ASSUME NEW w, Sound(w), NEW v, Sound(v),
         \A t \in ToSet(v.owners) : \E s \in ToSet(w.owners) :
           s.owner = t.owner /\ s.lastInput <= t.lastInput
  PROVE  InputsCarried(w, v)
<1> SUFFICES ASSUME NEW s \in ToSet(w.owners), NEW q \in ToSet(v.players), q.owner = s.owner
             PROVE  \E t \in ToSet(v.owners) : t.owner = s.owner /\ s.lastInput <= t.lastInput
  BY DEF InputsCarried
<1>1. PICK t \in ToSet(v.owners) : t.owner = s.owner
  BY HasState
<1>2. PICK r \in ToSet(w.owners) : r.owner = t.owner /\ r.lastInput <= t.lastInput
  OBVIOUS
<1>3. r = s
  BY <1>1, <1>2, OneState
<1> QED BY <1>1, <1>2, <1>3

\* Nothing changed.
LEMMA CarriedSame ==
  ASSUME NEW w, Sound(w), NEW v, ToSet(v.players) \subseteq ToSet(w.players),
         v.owners = w.owners
  PROVE  Carried(w, v)
<1>1. \A s \in ToSet(w.owners) : s.lastInput <= s.lastInput
  <2> TAKE s \in ToSet(w.owners)
  <2>1. s.lastInput \in Nat
    BY InputType
  <2> QED BY <2>1
<1> QED BY <1>1 DEF Carried, InputsCarried, Descends

\* A piece with a key it was given keeps one that was given.
LEMMA GivenCarried ==
  ASSUME NEW w, Sound(w), NEW v, Sound(v), InputsCarried(w, v),
         NEW q \in ToSet(v.players), NEW p, p.owner = q.owner, p.key = q.key, KeyGiven(w, p)
  PROVE  KeyGiven(v, q)
<1>1. PICK s \in ToSet(w.owners) :
        s.owner = p.owner /\ s.lastInput # NoInput /\ p.key[2] <= s.lastInput
  BY DEF KeyGiven
<1>2. PICK t \in ToSet(v.owners) : t.owner = s.owner /\ s.lastInput <= t.lastInput
  BY <1>1 DEF InputsCarried
<1>3. s.lastInput \in Nat /\ t.lastInput \in Nat /\ p.key[2] \in Int
  BY InputType DEF KeyGiven
<1>4. t.lastInput # NoInput /\ q.key[2] <= t.lastInput
  BY <1>1, <1>2, <1>3 DEF NoInput
<1> QED BY <1>1, <1>2, <1>4 DEF KeyGiven

\* The index of a piece is its id's.
LEMMA OnePlace ==
  ASSUME NEW w, Sound(w), NEW i \in DOMAIN w.players, NEW j \in DOMAIN w.players,
         w.players[i].id = w.players[j].id
  PROVE  i = j
<1>1. Arrays(w.players, "player", w.food, "food", w.locations) /\ "player" # "food"
  BY DEF Sound, Stored
<1> QED BY <1>1, ArraysApart

\* Keys that were carried are sound.
LEMMA KeysCarried ==
  ASSUME NEW w, Sound(w), KeysSound(w), NEW v, Sound(v), Carried(w, v)
  PROVE  KeysSound(v)
<1>1. ASSUME NEW q \in ToSet(v.players), q.key # NoKey
      PROVE  KeyGiven(v, q)
  <2>1. PICK p \in ToSet(w.players) : p.owner = q.owner /\ p.key = q.key
    BY <1>1 DEF Carried, Descends
  <2>2. KeyGiven(w, p)
    BY <1>1, <2>1 DEF KeysSound
  <2> QED BY <2>1, <2>2, GivenCarried DEF Carried
<1>2. ASSUME NEW i \in DOMAIN v.players, NEW j \in DOMAIN v.players,
             v.players[i].key = v.players[j].key, v.players[i].key # NoKey
      PROVE  i = j
  <2>1. v.players[i] \in ToSet(v.players) /\ v.players[j] \in ToSet(v.players)
    BY DEF ToSet
  <2>2. PICK k \in DOMAIN w.players :
          w.players[k].id = v.players[i].id /\ w.players[k].key = v.players[i].key
    BY <1>2, <2>1 DEF Carried, Descends, ToSet
  <2>3. PICK l \in DOMAIN w.players :
          w.players[l].id = v.players[j].id /\ w.players[l].key = v.players[j].key
    BY <1>2, <2>1 DEF Carried, Descends, ToSet
  <2>4. k = l
    BY <1>2, <2>2, <2>3 DEF KeysSound, KeysDistinct
  <2>5. v.players[i].id = v.players[j].id
    BY <2>2, <2>3, <2>4
  <2> QED BY <2>5, OnePlace
<1> QED BY <1>1, <1>2 DEF KeysSound, KeysDistinct

\* States that stay carry inputs.
LEMMA StatesStay ==
  ASSUME NEW w, Sound(w), NEW v, StatesFrom(v.owners, w.owners)
  PROVE  InputsCarried(w, v)
<1> SUFFICES ASSUME NEW s \in ToSet(w.owners)
             PROVE  \E t \in ToSet(v.owners) : t.owner = s.owner /\ s.lastInput <= t.lastInput
  BY DEF InputsCarried
<1>1. s.lastInput \in Nat
  BY InputType
<1>2. PICK t \in ToSet(v.owners) : t.owner = s.owner /\ t.lastInput = s.lastInput
  BY DEF StatesFrom
<1> QED BY <1>1, <1>2

\* States that are left carry inputs.
LEMMA StatesLeft ==
  ASSUME NEW w, Sound(w), NEW v, Sound(v), StatesKept(w.owners, v.owners)
  PROVE  InputsCarried(w, v)
<1>1. \A t \in ToSet(v.owners) : \E s \in ToSet(w.owners) :
        s.owner = t.owner /\ s.lastInput <= t.lastInput
  <2> TAKE t \in ToSet(v.owners)
  <2>1. t.lastInput \in Nat
    BY InputType
  <2>2. PICK s \in ToSet(w.owners) : s.owner = t.owner /\ s.lastInput = t.lastInput
    BY DEF StatesKept
  <2> QED BY <2>1, <2>2
<1> QED BY <1>1, StatesCarried

\* spawn_player keeps the world encodable.
LEMMA PlayerCameEncodable ==
  ASSUME NEW w, Sound(w), Encodable(w), NEW v, Sound(v), NEW pos, PlayerCame(w, v, pos),
         CanIndex(Circle(pos, RadiusForMass(InitialMass)))
  PROVE  Encodable(v)
<1>1. Carried(w, v)
  BY StatesStay DEF PlayerCame, Carried, Descends
<1>2. KeysSound(v)
  BY <1>1, KeysCarried DEF Encodable
<1>3. InGrid(v)
  BY DEF PlayerCame, InGrid, Encodable, Bounds
<1> QED BY <1>2, <1>3 DEF Encodable

\* spawn_food keeps it encodable.
LEMMA FoodCameEncodable ==
  ASSUME NEW w, Sound(w), Encodable(w), NEW v, Sound(v), NEW pos, FoodCame(w, v, pos),
         CanIndex(FoodBounds([pos |-> pos]))
  PROVE  Encodable(v)
<1>1. Carried(w, v)
  BY CarriedSame DEF FoodCame
<1>2. KeysSound(v)
  BY <1>1, KeysCarried DEF Encodable
<1>3. InGrid(v)
  BY DEF FoodCame, InGrid, Encodable, FoodBounds
<1> QED BY <1>2, <1>3 DEF Encodable

\* remove_player keeps it encodable.
LEMMA PlayerGoneEncodable ==
  ASSUME NEW w, Sound(w), Encodable(w), NEW v, NEW id, PlayerGone(w, v, id)
  PROVE  Encodable(v)
<1>1. Sound(v) /\ ToSet(v.players) \subseteq ToSet(w.players) /\ v.food = w.food
  BY DEF PlayerGone
<1>2. Carried(w, v)
  BY <1>1, StatesLeft DEF PlayerGone, Carried, Descends
<1>3. KeysSound(v)
  BY <1>1, <1>2, KeysCarried DEF Encodable
<1>4. InGrid(v)
  BY <1>1 DEF InGrid, Encodable
<1> QED BY <1>3, <1>4 DEF Encodable

\* remove_food keeps it encodable.
LEMMA FoodGoneEncodable ==
  ASSUME NEW w, Sound(w), Encodable(w), NEW v, NEW id, FoodGone(w, v, id)
  PROVE  Encodable(v)
<1>1. /\ Sound(v) /\ v.players = w.players /\ v.owners = w.owners
      /\ ToSet(v.food) \subseteq ToSet(w.food)
  BY DEF FoodGone
<1>2. Carried(w, v)
  BY <1>1, CarriedSame
<1>3. KeysSound(v)
  BY <1>1, <1>2, KeysCarried DEF Encodable
<1>4. InGrid(v)
  BY <1>1 DEF InGrid, Encodable
<1> QED BY <1>3, <1>4 DEF Encodable

\* The empty world can be encoded.
LEMMA EmptyEncodable == Encodable(EmptyWorld)
<1>1. EmptyWorld.players = <<>> /\ EmptyWorld.food = <<>>
  BY DEF EmptyWorld
<1>2. DOMAIN <<>> = {} /\ ToSet(<<>>) = {}
  BY DEF ToSet
<1> QED BY <1>1, <1>2 DEF Encodable, InGrid, KeysSound, KeysDistinct

\* The commit of a tick leaves an encodable world: its pieces are live ones, which
\* the tick has checked against the grid, with the keys they had.
LEMMA CommittedEncodable ==
  ASSUME NEW w, Sound(w), KeysSound(w), \A f \in ToSet(w.food) : CanIndex(FoodBounds(f)),
         NEW st, Fed(w, st), \A i \in st.live : CanIndex(Bounds(st.players[i])),
         NEW v, Sound(v), CommittedFrom(w, st, v)
  PROVE  Encodable(v)
<1>1. \A i \in DOMAIN w.players :
        /\ st.players[i].id = w.players[i].id
        /\ st.players[i].owner = w.players[i].owner
        /\ st.players[i].key = w.players[i].key
  BY DEF Fed, Phase, Replaces
<1>2. \A q \in ToSet(v.players) : Descends(w, q)
  <2> TAKE q \in ToSet(v.players)
  <2>1. PICK i \in DOMAIN w.players : q = st.players[i]
    BY DEF CommittedFrom
  <2>2. w.players[i] \in ToSet(w.players)
    BY DEF ToSet
  <2> QED BY <1>1, <2>1, <2>2 DEF Descends
<1>3. Carried(w, v)
  BY <1>2, StatesLeft DEF CommittedFrom, Carried
<1>4. KeysSound(v)
  BY <1>3, KeysCarried
<1>5. InGrid(v)
  BY DEF InGrid, CommittedFrom
<1> QED BY <1>4, <1>5 DEF Encodable

-----------------------------------------------------------------------------
(* What keeps the keys sound: commands and splits.                         *)

\* The input of a request was applied.
OwnerReady(w, request) ==
  /\ request.input # NoInput
  /\ \E s \in ToSet(w.owners) : s.owner = request.owner /\ s.lastInput = request.input

\* The keys of the owner's pieces are of earlier inputs.
InputNew(w, request) ==
  \A p \in ToSet(w.players) :
    p.key # NoKey /\ p.owner = request.owner => p.key[2] < request.input

\* ... or of children of the request that came before.
ChildrenBefore(w, first, request) ==
  \A p \in ToSet(w.players) :
    p.key # NoKey /\ p.owner = request.owner =>
      \/ p.key[2] < request.input
      \/ p.key[2] = request.input /\ p.key[3] \in 0 .. w.next - first - 1

\* Pieces of other owners keep their keys.
OthersDescend(w, v, request) ==
  \A q \in ToSet(v.players) : q.owner # request.owner => Descends(w, q)

\* Where a request is when some of its parents have split.
RequestDoing(w, first, request) ==
  /\ KeysSound(w) /\ OwnerReady(w, request) /\ ChildrenBefore(w, first, request)
  /\ first <= w.next

\* States of the same inputs.
LEMMA SameStates ==
  ASSUME NEW w, NEW v, SameInputs(w, v)
  PROVE  StatesFrom(v.owners, w.owners)
BY DEF SameInputs, SameOwners, StatesFrom, ToSet

\* One parent splits: the child's key is its own.
LEMMA ChildKeys ==
  ASSUME NEW w, Sound(w), NEW first \in Int, NEW request, IsCommand(request),
         RequestDoing(w, first, request),
         NEW v, SplitStep(w, v), ChildCame(w, v, first, request)
  PROVE  RequestDoing(v, first, request) /\ OthersDescend(w, v, request)
<1> DEFINE IsChild(q) == /\ v.next = w.next + 1
                         /\ q.id = w.next /\ q.owner = request.owner
                         /\ q.key = ChildKey(w, first, request)
           n == w.next - first
<1>1. /\ Sound(v) /\ SameInputs(w, v) /\ StatesFrom(v.owners, w.owners)
      /\ InputsCarried(w, v)
  BY SameStates, StatesStay DEF SplitStep
<1>2. /\ w.next \in Int /\ v.next \in {w.next, w.next + 1} /\ n \in Nat
      /\ request.owner \in Int /\ request.input \in Int
  BY ConstantTypes DEF Sound, Numbered, ChildCame, RequestDoing, IsCommand, Positive
<1>3. /\ KeysSound(w) /\ OwnerReady(w, request) /\ ChildrenBefore(w, first, request)
      /\ first <= w.next
  BY DEF RequestDoing
<1>4. \A q \in ToSet(v.players) : Descends(w, q) \/ IsChild(q)
  BY DEF ChildCame
<1>5. /\ ChildKey(w, first, request) # NoKey
      /\ ChildKey(w, first, request)[1] = request.owner
      /\ ChildKey(w, first, request)[2] = request.input
      /\ ChildKey(w, first, request)[3] = n
  BY DEF ChildKey, NoKey
<1>6. OwnerReady(v, request)
  <2>1. PICK s \in ToSet(w.owners) : s.owner = request.owner /\ s.lastInput = request.input
    BY <1>3 DEF OwnerReady
  <2>2. PICK t \in ToSet(v.owners) : t.owner = s.owner /\ t.lastInput = s.lastInput
    BY <1>1 DEF StatesFrom
  <2> QED BY <1>3, <2>1, <2>2 DEF OwnerReady
<1> HIDE DEF n
<1>7. OthersDescend(w, v, request)
  BY <1>4 DEF OthersDescend
<1>8. ASSUME NEW q \in ToSet(v.players), q.key # NoKey PROVE KeyGiven(v, q)
  <2>1. CASE Descends(w, q)
    <3>1. PICK p \in ToSet(w.players) : p.owner = q.owner /\ p.key = q.key
      BY <2>1 DEF Descends
    <3>2. KeyGiven(w, p)
      BY <1>3, <1>8, <3>1 DEF KeysSound
    <3> QED BY <1>1, <3>1, <3>2, GivenCarried
  <2>2. CASE IsChild(q)
    <3>1. PICK t \in ToSet(v.owners) : t.owner = request.owner /\ t.lastInput = request.input
      BY <1>6 DEF OwnerReady
    <3>2. q.owner = request.owner /\ q.key[1] = request.owner /\ q.key[2] = request.input
      BY <1>5, <2>2
    <3>3. request.input # NoInput /\ request.input <= request.input
      BY <1>2, <1>6 DEF OwnerReady
    <3> QED BY <1>2, <3>1, <3>2, <3>3 DEF KeyGiven
  <2> QED BY <1>4, <2>1, <2>2
<1>9. \A p \in ToSet(w.players) : p.key # ChildKey(w, first, request)
  <2> SUFFICES ASSUME NEW p \in ToSet(w.players), p.key = ChildKey(w, first, request)
               PROVE  FALSE
    OBVIOUS
  <2>1. p.key # NoKey /\ p.key[1] = request.owner /\ p.key[2] = request.input /\ p.key[3] = n
    BY <1>5
  <2>2. p.key[1] = p.owner
    BY <1>3, <2>1 DEF KeysSound, KeyGiven
  <2>3. \/ p.key[2] < request.input
        \/ p.key[2] = request.input /\ p.key[3] \in 0 .. n - 1
    BY <1>3, <2>1, <2>2 DEF ChildrenBefore, n
  <2>4. ~(request.input < request.input) /\ ~(n \in 0 .. n - 1)
    BY <1>2
  <2> QED BY <2>1, <2>3, <2>4
<1>10. ASSUME NEW i \in DOMAIN v.players, NEW j \in DOMAIN v.players,
              v.players[i].key = v.players[j].key, v.players[i].key # NoKey
       PROVE  i = j
  <2> DEFINE p == v.players[i]  q == v.players[j]
  <2>1. p \in ToSet(v.players) /\ q \in ToSet(v.players) /\ p.key = q.key /\ p.key # NoKey
    BY <1>10 DEF ToSet
  <2> SUFFICES p.id = q.id
    BY <1>1, OnePlace
  <2> HIDE DEF p, q
  <2>2. CASE Descends(w, p) /\ Descends(w, q)
    <3>1. PICK k \in DOMAIN w.players : w.players[k].id = p.id /\ w.players[k].key = p.key
      BY <2>2 DEF Descends, ToSet
    <3>2. PICK l \in DOMAIN w.players : w.players[l].id = q.id /\ w.players[l].key = q.key
      BY <2>2 DEF Descends, ToSet
    <3>3. k = l
      BY <1>3, <2>1, <3>1, <3>2 DEF KeysSound, KeysDistinct
    <3> QED BY <3>1, <3>2, <3>3
  <2>3. CASE Descends(w, p) /\ IsChild(q)
    BY <1>9, <2>1, <2>3 DEF Descends
  <2>4. CASE IsChild(p) /\ Descends(w, q)
    BY <1>9, <2>1, <2>4 DEF Descends
  <2>5. CASE IsChild(p) /\ IsChild(q)
    BY <2>5
  <2> HIDE DEF IsChild
  <2> QED BY <1>4, <2>1, <2>2, <2>3, <2>4, <2>5
<1>11. KeysSound(v)
  BY <1>8, <1>10 DEF KeysSound, KeysDistinct
<1>12. ChildrenBefore(v, first, request)
  <2> SUFFICES ASSUME NEW q \in ToSet(v.players), q.key # NoKey, q.owner = request.owner
               PROVE  \/ q.key[2] < request.input
                      \/ q.key[2] = request.input /\ q.key[3] \in 0 .. v.next - first - 1
    BY DEF ChildrenBefore
  <2>1. CASE Descends(w, q)
    <3>1. PICK p \in ToSet(w.players) : p.owner = q.owner /\ p.key = q.key
      BY <2>1 DEF Descends
    <3>2. \/ q.key[2] < request.input
          \/ q.key[2] = request.input /\ q.key[3] \in 0 .. w.next - first - 1
      BY <1>3, <3>1 DEF ChildrenBefore
    <3>3. \A x \in 0 .. w.next - first - 1 : x \in 0 .. v.next - first - 1
      BY <1>2
    <3> QED BY <3>2, <3>3
  <2>2. CASE IsChild(q)
    <3>1. q.key[2] = request.input /\ q.key[3] = n /\ v.next = w.next + 1
      BY <1>5, <2>2
    <3>2. n \in 0 .. v.next - first - 1
      BY <1>2, <3>1 DEF n
    <3> QED BY <3>1, <3>2
  <2> QED BY <1>4, <2>1, <2>2
<1>13. first <= v.next
  BY <1>2, <1>3
<1> QED BY <1>6, <1>7, <1>11, <1>12, <1>13 DEF RequestDoing

\* Keys of other owners that descend twice descend.
LEMMA OthersDescendTrans ==
  ASSUME NEW u, NEW v, NEW w, NEW request, OthersDescend(u, v, request),
         OthersDescend(v, w, request)
  PROVE  OthersDescend(u, w, request)
BY DEF OthersDescend, Descends

\* A request begins without children.
LEMMA RequestBegins ==
  ASSUME NEW w, Sound(w), KeysSound(w), NEW request, OwnerReady(w, request),
         InputNew(w, request)
  PROVE  RequestDoing(w, w.next, request) /\ OthersDescend(w, w, request) /\ SplitStep(w, w)
<1>1. w.next <= w.next
  BY ConstantTypes DEF Sound, Numbered
<1> QED BY <1>1 DEF RequestDoing, ChildrenBefore, InputNew, OthersDescend, Descends,
                    SplitStep, SameInputs, SameOwners

\* A request leaves keys sound, and the pieces of other owners as they were.
LEMMA RequestKeys ==
  ASSUME NEW w, Sound(w), KeysSound(w), NEW request, IsCommand(request),
         OwnerReady(w, request), InputNew(w, request)
  PROVE  /\ SplitStep(w, SplitRequest(w, request))
         /\ KeysSound(SplitRequest(w, request))
         /\ OthersDescend(w, SplitRequest(w, request), request)
<1> DEFINE v == SplitRequest(w, request)
<1>1. SplitStep(w, v) /\ RequestPasses(w, request, v.players)
  <2>1. \E k \in DOMAIN w.owners : w.owners[k].owner = request.owner
    BY DEF OwnerReady, ToSet
  <2> QED BY <2>1, SplitRequestSound
<1> HIDE DEF v
<1>13. PICK m \in Nat : \E f : PassesAre(w, request, m, f) /\ f[m].players = v.players
  BY <1>1 DEF RequestPasses
<1>14. PICK f : PassesAre(w, request, m, f) /\ f[m].players = v.players
  BY <1>13
<1>2. /\ m \in Nat /\ f[0] = w /\ f[m].players = v.players
      /\ \A n \in Nat : n + 1 <= m => /\ SplitStep(f[n], f[n + 1])
                                      /\ ChildCame(f[n], f[n + 1], w.next, request)
  BY <1>14 DEF PassesAre
<1>3. w.next \in Int
  BY ConstantTypes DEF Sound, Numbered
<1> DEFINE Reached(u) == /\ Sound(u) /\ SplitStep(w, u) /\ RequestDoing(u, w.next, request)
                         /\ OthersDescend(w, u, request)
           I == {n \in Nat : n <= m => Reached(f[n])}
<1>4. 0 \in I
  BY <1>2, RequestBegins
<1>5. ASSUME NEW n \in Nat, n \in I PROVE n + 1 \in I
  <2> SUFFICES ASSUME n + 1 <= m PROVE Reached(f[n + 1])
    OBVIOUS
  <2> DEFINE u == f[n]  x == f[n + 1]
  <2>1. Reached(u)
    BY <1>2, <1>5
  <2>2. SplitStep(u, x) /\ ChildCame(u, x, w.next, request)
    BY <1>2
  <2> HIDE DEF u, x
  <2>3. RequestDoing(x, w.next, request) /\ OthersDescend(u, x, request)
    BY <1>3, <2>1, <2>2, ChildKeys
  <2>4. SplitStep(w, x) /\ OthersDescend(w, x, request)
    BY <2>1, <2>2, <2>3, SplitStepTrans, OthersDescendTrans
  <2>5. Reached(x)
    BY <2>2, <2>3, <2>4 DEF SplitStep
  <2> QED BY <2>5 DEF x
<1>6. m \in I
  <2> HIDE DEF I
  <2> QED BY <1>2, <1>4, <1>5, SetInduction
<1> DEFINE u == f[m]
<1>7. Reached(u) /\ u.players = v.players
  BY <1>2, <1>6
<1> HIDE DEF u
<1>8. \A q \in ToSet(v.players) : Descends(u, q)
  BY <1>7 DEF Descends
<1>9. Sound(v) /\ SameInputs(u, v)
  BY <1>1, <1>7 DEF SplitStep, SameInputs, SameOwners
<1>10. Carried(u, v)
  BY <1>7, <1>8, <1>9, SameStates, StatesStay DEF Carried
<1>11. KeysSound(v)
  BY <1>7, <1>9, <1>10, KeysCarried DEF RequestDoing
<1>12. OthersDescend(w, v, request)
  BY <1>7 DEF OthersDescend
<1> QED BY <1>1, <1>11, <1>12 DEF v

\* Where splits are: the requests that are left are of new inputs.
SplitsDoing(w, u, requests, n) ==
  /\ SplitStep(w, u) /\ KeysSound(u)
  /\ \A k \in DOMAIN requests : k > n => InputNew(u, requests[k])

\* Requests of distinct owners, each of an input that was applied and is new.
RequestsReady(w, requests) ==
  /\ \A n \in DOMAIN requests : /\ IsCommand(requests[n])
                                /\ OwnerReady(w, requests[n]) /\ InputNew(w, requests[n])
  /\ \A m, n \in DOMAIN requests : requests[m].owner = requests[n].owner => m = n

\* One more request is done.
LEMMA SplitsProceed ==
  ASSUME NEW w, NEW requests, RequestsReady(w, requests), NEW u, NEW n \in Nat,
         n + 1 \in DOMAIN requests, DOMAIN requests \subseteq Nat,
         SplitsDoing(w, u, requests, n)
  PROVE  SplitsDoing(w, SplitRequest(u, requests[n + 1]), requests, n + 1)
<1> DEFINE request == requests[n + 1]
           x == SplitRequest(u, request)
<1>1. Sound(u) /\ KeysSound(u) /\ IsCommand(request) /\ SameInputs(w, u)
  BY DEF SplitsDoing, SplitStep, RequestsReady
<1>2. InputNew(u, request)
  BY DEF SplitsDoing
<1>3. OwnerReady(u, request)
  <2>1. OwnerReady(w, request) /\ StatesFrom(u.owners, w.owners)
    BY <1>1, SameStates DEF RequestsReady
  <2> QED BY <2>1 DEF OwnerReady, StatesFrom
<1> HIDE DEF request
<1>4. SplitStep(u, x) /\ KeysSound(x) /\ OthersDescend(u, x, request)
  BY <1>1, <1>2, <1>3, RequestKeys
<1> HIDE DEF x
<1>5. SplitStep(w, x)
  BY <1>4, SplitStepTrans DEF SplitsDoing
<1>6. ASSUME NEW k \in DOMAIN requests, k > n + 1 PROVE InputNew(x, requests[k])
  <2>1. requests[k].owner # request.owner
    BY <1>6 DEF RequestsReady, request
  <2>2. InputNew(u, requests[k])
    BY <1>6 DEF SplitsDoing
  <2> QED BY <1>4, <2>1, <2>2 DEF InputNew, OthersDescend, Descends
<1> QED BY <1>4, <1>5, <1>6 DEF SplitsDoing, x, request

\* The splits of a tick leave the keys sound.
LEMMA SplitsKeys ==
  ASSUME NEW w, Sound(w), KeysSound(w), NEW requests, Len(requests) \in Nat,
         DOMAIN requests = 1 .. Len(requests), RequestsReady(w, requests), NEW mechanics
  PROVE  /\ SplitStep(w, Splits(w, requests, mechanics))
         /\ KeysSound(Splits(w, requests, mechanics))
<1>1. PICK f : SplitsSteps(w, requests, mechanics, f)
  BY SplitsEquation
<1>2. /\ f[0] = w
      /\ \A n \in Nat : n + 1 <= Len(requests) => f[n + 1] = SplitRequest(f[n], requests[n + 1])
      /\ Splits(w, requests, mechanics) =
           IF "split_merge" \in mechanics THEN f[Len(requests)] ELSE w
  BY <1>1 DEF SplitsSteps
<1> DEFINE I == {n \in Nat : n <= Len(requests) => SplitsDoing(w, f[n], requests, n)}
<1>3. SplitsDoing(w, w, requests, 0)
  BY DEF SplitsDoing, RequestsReady, SplitStep, SameInputs, SameOwners
<1>4. 0 \in I
  BY <1>2, <1>3
<1>5. ASSUME NEW n \in Nat, n \in I PROVE n + 1 \in I
  <2> SUFFICES ASSUME n + 1 <= Len(requests) PROVE SplitsDoing(w, f[n + 1], requests, n + 1)
    OBVIOUS
  <2>1. SplitsDoing(w, f[n], requests, n) /\ n + 1 \in DOMAIN requests
    BY <1>5
  <2>2. SplitsDoing(w, SplitRequest(f[n], requests[n + 1]), requests, n + 1)
    BY <2>1, SplitsProceed
  <2> QED BY <1>2, <2>2
<1>6. Len(requests) \in I
  <2> HIDE DEF I
  <2> QED BY <1>4, <1>5, SetInduction
<1>7. SplitStep(w, f[Len(requests)]) /\ KeysSound(f[Len(requests)])
  BY <1>6 DEF SplitsDoing
<1>8. SplitStep(w, w)
  BY <1>3 DEF SplitsDoing
<1> QED BY <1>2, <1>7, <1>8

\* A valid input is newer than what its owner had applied.
InputNewer(w, c) ==
  /\ c.type = "ApplyInput" \/ ~c.split
  /\ c.type = "ApplyInput" =>
       /\ c.input # NoInput
       /\ \A s \in ToSet(w.owners) : s.owner = c.owner => c.input > s.lastInput

\* Valid commands are newer.
LEMMA CommandsNewer ==
  ASSUME NEW w, Sound(w), NEW cmds, CommandsValid(w, cmds), NEW i \in DOMAIN cmds,
         IsCommand(cmds[i])
  PROVE  InputNewer(w, cmds[i])
<1> DEFINE c == cmds[i]  o == FindOwner(w, c.owner)
<1>1. /\ o # 0
      /\ c.type = "ApplyInput" => c.input # NoInput /\ c.input > w.owners[o].lastInput
      /\ c.type # "ApplyInput" => c.input = NoInput /\ ~c.split
  BY DEF CommandsValid
<1>2. SearchFinds(w, c.owner)
  <2>1. c.owner \in Int
    BY DEF IsCommand, Positive
  <2>2. w.owners \in Seq(OwnerStates) /\ OwnersSorted(w.owners)
    BY DEF Sound, Numbered, OwnersSound
  <2> HIDE DEF c
  <2> QED BY <2>1, <2>2, FindOwnerFacts
<1>3. o \in DOMAIN w.owners /\ w.owners[o].owner = c.owner
  BY <1>1, <1>2 DEF SearchFinds
<1> HIDE DEF o, c
<1>4. \A s \in ToSet(w.owners) : s.owner = c.owner => s = w.owners[o]
  <2>1. w.owners[o] \in ToSet(w.owners)
    BY <1>3 DEF ToSet
  <2> QED BY <1>3, <2>1, OneState
<1> QED BY <1>1, <1>4 DEF InputNewer, c

\* Valid commands carry inputs on.
LEMMA CommandsCarry ==
  ASSUME NEW w, Sound(w), NEW cmds, \A i \in DOMAIN cmds : IsCommand(cmds[i]),
         CommandsValid(w, cmds), NEW v, Sound(v), SameOwners(w, v), CommandsApplied(w, cmds, v)
  PROVE  InputsCarried(w, v)
<1>1. ASSUME NEW t \in ToSet(v.owners)
      PROVE  \E s \in ToSet(w.owners) : s.owner = t.owner /\ s.lastInput <= t.lastInput
  <2>1. PICK k \in DOMAIN w.owners : t = v.owners[k] /\ t.owner = w.owners[k].owner
    BY DEF ToSet, SameOwners
  <2> DEFINE s == w.owners[k]
  <2>2. s \in ToSet(w.owners) /\ s.owner = t.owner
    BY <2>1 DEF ToSet
  <2>3. s \in OwnerStates /\ s.lastInput \in Nat
    BY <2>2, InputType
  <2>4. \/ t = s
        \/ \E i \in DOMAIN cmds : cmds[i].owner = s.owner /\ t = Commanded(s, cmds[i])
    BY <2>1 DEF CommandsApplied
  <2> HIDE DEF s
  <2>5. ASSUME NEW i \in DOMAIN cmds, cmds[i].owner = s.owner, t = Commanded(s, cmds[i])
        PROVE  s.lastInput <= t.lastInput
    <3>1. t.lastInput = IF cmds[i].type = "ApplyInput" THEN cmds[i].input ELSE s.lastInput
      BY <2>3, <2>5 DEF Commanded, OwnerStates
    <3>2. InputNewer(w, cmds[i]) /\ cmds[i].input \in Nat
      BY CommandsNewer DEF IsCommand
    <3>3. cmds[i].type = "ApplyInput" => cmds[i].input > s.lastInput
      BY <2>2, <2>5, <3>2 DEF InputNewer
    <3> QED BY <2>3, <3>1, <3>2, <3>3
  <2>6. s.lastInput <= t.lastInput
    BY <2>3, <2>4, <2>5
  <2> QED BY <2>2, <2>6
<1> QED BY <1>1, StatesCarried

\* Commands that were applied: the requests are ready.
LEMMA AppliedKeys ==
  ASSUME NEW w, Sound(w), KeysSound(w), NEW cmds, \A i \in DOMAIN cmds : IsCommand(cmds[i]),
         CommandsValid(w, cmds), NEW v, Sound(v), v.players = w.players, SameOwners(w, v),
         CommandsApplied(w, cmds, v)
  PROVE  KeysSound(v) /\ RequestsReady(v, SplitRequests(w, cmds))
<1> DEFINE requests == SplitRequests(w, cmds)
<1>1. InputsCarried(w, v)
  BY CommandsCarry
<1>2. KeysSound(v)
  <2>1. Carried(w, v)
    BY <1>1 DEF Carried, Descends
  <2> QED BY <2>1, KeysCarried
<1>3. /\ \A n \in DOMAIN requests :
           /\ IsCommand(requests[n])
           /\ \E k \in DOMAIN w.owners : w.owners[k].owner = requests[n].owner
           /\ requests[n] \in ToSet(cmds) /\ requests[n].split
      /\ \A m, n \in DOMAIN requests : requests[m].owner = requests[n].owner => m = n
  BY SplitRequestsType
<1> HIDE DEF requests
<1>4. ASSUME NEW n \in DOMAIN requests
      PROVE  OwnerReady(v, requests[n]) /\ InputNew(v, requests[n])
  <2> DEFINE r == requests[n]
  <2>1. PICK i \in DOMAIN cmds : r = cmds[i]
    BY <1>3 DEF ToSet
  <2>2. PICK k \in DOMAIN w.owners : w.owners[k].owner = r.owner
    BY <1>3
  <2>3. IsCommand(r) /\ r.split
    BY <1>3
  <2> HIDE DEF r
  <2>4. InputNewer(w, r)
    BY <2>1, CommandsNewer
  <2>5. r.type = "ApplyInput" /\ r.input # NoInput /\ r.input \in Nat
    BY <2>3, <2>4 DEF InputNewer, IsCommand
  <2>6. PICK j \in DOMAIN cmds :
          cmds[j].owner = r.owner /\ v.owners[k] = Commanded(w.owners[k], cmds[j])
    BY <2>1, <2>2 DEF CommandsApplied
  <2>7. i = j
    <3>1. DOMAIN Column(cmds, "owner") = DOMAIN cmds
          /\ \A x \in DOMAIN cmds : Column(cmds, "owner")[x] = cmds[x].owner
      BY DEF Column
    <3>2. IsInjective(Column(cmds, "owner"))
      BY DEF CommandsValid
    <3> QED BY <2>1, <2>6, <3>1, <3>2 DEF IsInjective
  <2>8. v.owners[k].lastInput = r.input /\ v.owners[k].owner = r.owner
        /\ v.owners[k] \in ToSet(v.owners)
    <3>1. w.owners[k] \in OwnerStates
      BY ElementsIn DEF Sound, Numbered
    <3>2. v.owners[k].lastInput = r.input
      BY <2>1, <2>5, <2>6, <2>7, <3>1 DEF Commanded, OwnerStates
    <3> QED BY <2>2, <3>2 DEF SameOwners, ToSet
  <2>9. OwnerReady(v, r)
    BY <2>5, <2>8 DEF OwnerReady
  <2>10. ASSUME NEW p \in ToSet(v.players), p.key # NoKey, p.owner = r.owner
         PROVE  p.key[2] < r.input
    <3>1. KeyGiven(w, p)
      BY <2>10 DEF KeysSound
    <3>2. PICK s \in ToSet(w.owners) :
            s.owner = p.owner /\ s.lastInput # NoInput /\ p.key[2] <= s.lastInput
      BY <3>1 DEF KeyGiven
    <3>3. r.input > s.lastInput
      BY <2>4, <2>5, <2>10, <3>2 DEF InputNewer
    <3>4. p.key[2] \in Int /\ s.lastInput \in Nat
      BY <3>1, InputType DEF KeyGiven
    <3> QED BY <2>5, <3>2, <3>3, <3>4
  <2> QED BY <2>9, <2>10 DEF InputNew, r
<1>5. RequestsReady(v, requests)
  BY <1>3, <1>4 DEF RequestsReady
<1> QED BY <1>2, <1>5 DEF requests

\* A tick, refused or not, leaves the world encodable.
LEMMA AdvancedEncodable ==
  ASSUME NEW w, Sound(w), Encodable(w), NEW cmds, Len(cmds) \in Nat,
         DOMAIN cmds = 1 .. Len(cmds), \A i \in DOMAIN cmds : IsCommand(cmds[i]),
         NEW mechanics
  PROVE  Encodable(Advanced(w, cmds, mechanics))
<1> DEFINE applied == ApplyCommands(w, cmds)
           ready == [applied EXCEPT !.journal = <<>>]
           requests == SplitRequests(w, cmds)
           split == Splits(ready, requests, mechanics)
           st == Resolved(split, mechanics)
<1>1. \/ Advanced(w, cmds, mechanics) = w
      \/ /\ w.tick # LastTick /\ CommandsValid(w, cmds)
         /\ \A i \in st.live : CanIndex(Bounds(st.players[i]))
         /\ Advanced(w, cmds, mechanics) = Committed(split, st)
  BY DEF Advanced, Ended
<1>2. /\ Sound(applied) /\ SameOwners(w, applied) /\ applied.tick = w.tick
      /\ applied.players = w.players /\ applied.food = w.food
      /\ CommandsApplied(w, cmds, applied)
  BY ApplyCommandsSound
<1> HIDE DEF applied
<1>3. /\ Sound(ready) /\ ready.owners = applied.owners /\ ready.tick = applied.tick
      /\ ready.players = applied.players /\ ready.food = applied.food
  BY <1>2, JournalChanged DEF Sound, Stored, WorldFields
<1> HIDE DEF ready
<1>4. SameOwners(w, ready) /\ CommandsApplied(w, cmds, ready)
  BY <1>2, <1>3 DEF SameOwners, CommandsApplied
<1>5. Len(requests) \in Nat /\ DOMAIN requests = 1 .. Len(requests)
  BY SplitRequestsType
<1>6. CommandsValid(w, cmds) => KeysSound(ready) /\ RequestsReady(ready, requests)
  BY <1>2, <1>3, <1>4, AppliedKeys DEF Encodable
<1> HIDE DEF requests
<1>7. CommandsValid(w, cmds) => SplitStep(ready, split) /\ KeysSound(split)
  BY <1>3, <1>5, <1>6, SplitsKeys
<1> HIDE DEF split
<1>8. ASSUME CommandsValid(w, cmds), w.tick # LastTick,
             \A i \in st.live : CanIndex(Bounds(st.players[i]))
      PROVE  Encodable(Committed(split, st))
  <2>1. Sound(split) /\ KeysSound(split) /\ split.tick = w.tick /\ split.food = w.food
    BY <1>2, <1>3, <1>7, <1>8 DEF SplitStep
  <2>2. Fed(split, st)
    BY <2>1, ResolvedFed
  <2> HIDE DEF st
  <2>3. Sound(Committed(split, st)) /\ CommittedFrom(split, st, Committed(split, st))
    BY <1>8, <2>1, <2>2, CommittedSound
  <2>4. \A f \in ToSet(split.food) : CanIndex(FoodBounds(f))
    BY <2>1 DEF Encodable, InGrid
  <2> QED BY <1>8, <2>1, <2>2, <2>3, <2>4, CommittedEncodable
<1> HIDE DEF st
<1> QED BY <1>1, <1>8

-----------------------------------------------------------------------------
(* Every snapshot the server sends is restored.                            *)

CheckpointFields == {"tick", "next", "owners", "players", "food"}

\* One array of a checkpoint is another one of its type.
LEMMA CheckpointChanged ==
  ASSUME NEW cp, CheckpointTyped(cp), DOMAIN cp = CheckpointFields
  PROVE  /\ CheckpointTyped([cp EXCEPT !.next = 1])
         /\ \A x \in Seq(Foods) : CheckpointTyped([cp EXCEPT !.food = x])
         /\ \A x \in Seq(PlayerStates) : CheckpointTyped([cp EXCEPT !.players = x])
         /\ \A x \in Seq(OwnerStates) : CheckpointTyped([cp EXCEPT !.owners = x])
<1>1. 1 \in 1 .. LastEntity + 1
  BY ConstantTypes
<1>2. CheckpointTyped([cp EXCEPT !.next = 1])
  BY <1>1 DEF CheckpointTyped, CheckpointFields
<1>3. \A x \in Seq(Foods) : CheckpointTyped([cp EXCEPT !.food = x])
  BY DEF CheckpointTyped, CheckpointFields
<1>4. \A x \in Seq(PlayerStates) : CheckpointTyped([cp EXCEPT !.players = x])
  BY DEF CheckpointTyped, CheckpointFields
<1>5. \A x \in Seq(OwnerStates) : CheckpointTyped([cp EXCEPT !.owners = x])
  BY DEF CheckpointTyped, CheckpointFields
<1> QED BY <1>2, <1>3, <1>4, <1>5

\* A list in reverse.
LEMMA ReverseType ==
  ASSUME NEW T, NEW s \in Seq(T)
  PROVE  Reverse(s) \in Seq(T)
<1>1. Len(s) \in Nat /\ DOMAIN s = 1 .. Len(s) /\ \A i \in DOMAIN s : s[i] \in T
  BY ElementsIn
<1>2. \A i \in 1 .. Len(s) : Len(s) - i + 1 \in 1 .. Len(s)
  BY <1>1
<1> QED BY <1>1, <1>2 DEF Reverse

\* The list of pieces of an owner without its first.
LEMMA PiecesTail ==
  ASSUME NEW w, Sound(w), NEW i \in DOMAIN w.owners,
         NEW t, t = [w.owners[i] EXCEPT !.pieces = Tail(w.owners[i].pieces)]
  PROVE  t \in OwnerStates
<1>1. w.owners[i] \in OwnerStates
  BY ElementsIn DEF Sound, Numbered
<1>2. PICK p \in ToSet(w.players) : p.owner = w.owners[i].owner
  BY DEF Sound, OwnersSound
<1>3. ToSet(w.owners[i].pieces) = Listed(ToSet(w.players), w.owners[i].owner)
  BY DEF Sound, OwnersSound
<1>4. w.owners[i].pieces # <<>>
  <2>1. p.id \in ToSet(w.owners[i].pieces)
    BY <1>2, <1>3 DEF Listed
  <2>2. ToSet(<<>>) = {}
    BY DEF ToSet
  <2> QED BY <2>1, <2>2
<1>5. w.owners[i].pieces \in Seq(Positive)
  BY <1>1 DEF OwnerStates
<1>6. Tail(w.owners[i].pieces) \in Seq(Positive)
  BY <1>4, <1>5, HeadTailProperties
<1> QED BY <1>1, <1>6 DEF OwnerStates

\* Damaged checkpoints have their types.
LEMMA VariantsTyped ==
  ASSUME NEW w, Sound(w), NEW cp \in Variants(Checkpoint(w))
  PROVE  CheckpointTyped(cp)
<1> DEFINE c == Checkpoint(w)
<1>1. CheckpointTyped(c) /\ DOMAIN c = CheckpointFields /\ c.owners = w.owners
  BY CheckpointType DEF Checkpoint, CheckpointFields
<1>2. cp \in Variants(c)
  OBVIOUS
<1> HIDE DEF c
<1>3. /\ c.owners \in Seq(OwnerStates) /\ c.players \in Seq(PlayerStates) /\ c.food \in Seq(Foods)
      /\ \A i \in DOMAIN c.owners : c.owners[i] \in OwnerStates
      /\ \A i \in DOMAIN c.players : c.players[i] \in PlayerStates
      /\ \A i \in DOMAIN c.food : c.food[i] \in Foods
  BY <1>1, ElementsIn DEF CheckpointTyped
<1>4. cp \in {c, [c EXCEPT !.next = 1], [c EXCEPT !.food = Reverse(@)],
              [c EXCEPT !.owners = <<>>], [c EXCEPT !.players = Reverse(@)],
              [c EXCEPT !.owners = Reverse(@)]} => CheckpointTyped(cp)
  <2>1. /\ Reverse(c.food) \in Seq(Foods) /\ Reverse(c.players) \in Seq(PlayerStates)
        /\ Reverse(c.owners) \in Seq(OwnerStates) /\ <<>> \in Seq(OwnerStates)
    BY <1>3, ReverseType
  <2>2. /\ CheckpointTyped([c EXCEPT !.next = 1])
        /\ CheckpointTyped([c EXCEPT !.food = Reverse(c.food)])
        /\ CheckpointTyped([c EXCEPT !.owners = <<>>])
        /\ CheckpointTyped([c EXCEPT !.players = Reverse(c.players)])
        /\ CheckpointTyped([c EXCEPT !.owners = Reverse(c.owners)])
    BY ONLY <1>1, <2>1, CheckpointChanged
  <2> QED BY <1>1, <2>2
<1>5. ASSUME NEW i \in DOMAIN c.owners
      PROVE  CheckpointTyped([c EXCEPT !.owners[i].pieces = Tail(@)])
  <2> DEFINE t == [c.owners[i] EXCEPT !.pieces = Tail(c.owners[i].pieces)]
             owners == [c.owners EXCEPT ![i] = t]
  <2>1. t \in OwnerStates
    BY <1>1, PiecesTail
  <2>2. [c EXCEPT !.owners[i].pieces = Tail(@)] = [c EXCEPT !.owners = owners]
    OBVIOUS
  <2> HIDE DEF t
  <2>3. owners \in Seq(OwnerStates)
    BY <1>3, <2>1, ReplaceFacts
  <2> HIDE DEF owners
  <2>4. CheckpointTyped([c EXCEPT !.owners = owners])
    BY ONLY <1>1, <2>3, CheckpointChanged
  <2> QED BY <2>2, <2>4
<1>6. ASSUME NEW i \in DOMAIN c.players, NEW o \in Owners
      PROVE  CheckpointTyped([c EXCEPT !.players[i].owner = o])
  <2> DEFINE t == [c.players[i] EXCEPT !.owner = o]
             players == [c.players EXCEPT ![i] = t]
  <2>1. t \in PlayerStates
    <3>1. o \in Positive /\ c.players[i] \in PlayerStates
      BY <1>3, WorldAssumption DEF Positive
    <3> QED BY <3>1 DEF PlayerStates
  <2>2. [c EXCEPT !.players[i].owner = o] = [c EXCEPT !.players = players]
    OBVIOUS
  <2> HIDE DEF t
  <2>3. players \in Seq(PlayerStates)
    BY <1>3, <2>1, ReplaceFacts
  <2> HIDE DEF players
  <2>4. CheckpointTyped([c EXCEPT !.players = players])
    BY ONLY <1>1, <2>3, CheckpointChanged
  <2> QED BY <2>2, <2>4
<1>7. ASSUME NEW i \in DOMAIN c.players
      PROVE  CheckpointTyped([c EXCEPT !.players = SubSeq(@, 1, i)])
  <2>1. Len(c.players) \in Nat /\ DOMAIN c.players = 1 .. Len(c.players)
    BY <1>3, LenProperties
  <2>2. i \in Int /\ \A k \in 1 .. i : c.players[k] \in PlayerStates
    BY <1>3, <2>1
  <2>3. SubSeq(c.players, 1, i) \in Seq(PlayerStates)
    BY <2>2, SubSeqProperties
  <2>4. CheckpointTyped([c EXCEPT !.players = SubSeq(c.players, 1, i)])
    BY ONLY <1>1, <2>3, CheckpointChanged
  <2> QED BY <2>4
<1>8. ASSUME NEW i \in DOMAIN c.food, NEW p \in ToSet(c.players)
      PROVE  CheckpointTyped([c EXCEPT !.food[i].id = p.id])
  <2> DEFINE t == [c.food[i] EXCEPT !.id = p.id]
             food == [c.food EXCEPT ![i] = t]
  <2>1. t \in Foods
    <3>1. p \in PlayerStates /\ c.food[i] \in Foods
      BY <1>3, ElementsIn
    <3> QED BY <3>1 DEF PlayerStates, Foods
  <2>2. [c EXCEPT !.food[i].id = p.id] = [c EXCEPT !.food = food]
    OBVIOUS
  <2> HIDE DEF t
  <2>3. food \in Seq(Foods)
    BY <1>3, <2>1, ReplaceFacts
  <2> HIDE DEF food
  <2>4. CheckpointTyped([c EXCEPT !.food = food])
    BY ONLY <1>1, <2>3, CheckpointChanged
  <2> QED BY <2>2, <2>4
<1> QED BY <1>2, <1>4, <1>5, <1>6, <1>7, <1>8 DEF Variants

\* The inductive invariant: both worlds are sound, and the server's can be sent.
SentInvariant == WorldInvariant /\ Encodable(world)

\* spawn_player, spawn_food, remove_player and remove_food keep it.
LEMMA EditsEncodable ==
  ASSUME SentInvariant,
         \/ \E at \in SpawnPoints : SpawnPlayer(at[1], at[2])
         \/ \E pos \in FoodPoints : SpawnFood(pos)
         \/ \E id \in DOMAIN world.locations : RemovePlayer(id) \/ RemoveFood(id)
  PROVE  Encodable(world')
<1>1. Sound(world) /\ Stored(world) /\ Encodable(world)
  BY DEF SentInvariant, WorldInvariant, Sound
<1>2. ASSUME NEW at \in SpawnPoints, SpawnPlayer(at[1], at[2])
      PROVE  Encodable(world')
  <2>1. at[1] \in Positive /\ at[2] \in Int
    BY WorldAssumption DEF Positive
  <2>2. /\ HasNextEntity(world) /\ CanIndex(Circle(at[2], RadiusForMass(InitialMass)))
        /\ world' = SpawnedPlayer(world, at[1], at[2])
    BY <1>2 DEF SpawnPlayer, CanSpawnPlayer
  <2>3. Sound(world') /\ PlayerCame(world, world', at[2])
    BY <1>1, <2>1, <2>2, SpawnedPlayerSound
  <2> QED BY <1>1, <2>2, <2>3, PlayerCameEncodable
<1>3. ASSUME NEW pos \in FoodPoints, SpawnFood(pos)
      PROVE  Encodable(world')
  <2>1. pos \in Int
    BY WorldAssumption
  <2>2. /\ HasNextEntity(world) /\ CanIndex(FoodBounds([pos |-> pos]))
        /\ world' = SpawnedFood(world, pos)
    BY <1>3 DEF SpawnFood, CanSpawnFood
  <2>3. Sound(world') /\ FoodCame(world, world', pos)
    BY <1>1, <2>1, <2>2, SpawnedFoodSound
  <2> QED BY <1>1, <2>2, <2>3, FoodCameEncodable
<1>4. ASSUME NEW id, RemovePlayer(id)
      PROVE  Encodable(world')
  <2>1. id \in IdsOf(ToSet(world.players)) /\ world' = RemovedPlayer(world, id)
    BY <1>1, <1>4, LocatedIs DEF RemovePlayer
  <2>2. PlayerGone(world, world', id)
    BY <1>1, <2>1, RemovedPlayerSound
  <2> QED BY <1>1, <2>2, PlayerGoneEncodable
<1>5. ASSUME NEW id, RemoveFood(id)
      PROVE  Encodable(world')
  <2>1. id \in IdsOf(ToSet(world.food)) /\ world' = RemovedFood(world, id)
    BY <1>1, <1>5, LocatedIs DEF RemoveFood
  <2>2. FoodGone(world, world', id)
    BY <1>1, <2>1, RemovedFoodSound
  <2> QED BY <1>1, <2>2, FoodGoneEncodable
<1> QED BY <1>2, <1>3, <1>4, <1>5

\* A tick keeps it.
LEMMA AdvanceStepEncodable ==
  ASSUME SentInvariant, NEW cmds, Len(cmds) \in Nat, DOMAIN cmds = 1 .. Len(cmds),
         \A i \in DOMAIN cmds : IsCommand(cmds[i]),
         NEW mechanics, Advance(cmds, mechanics)
  PROVE  Encodable(world')
BY AdvancedEncodable DEF SentInvariant, WorldInvariant, Advance

\* Every step keeps it.
LEMMA SentStep ==
  ASSUME SentInvariant, [Next]_vars
  PROVE  SentInvariant'
<1>1. ASSUME UNCHANGED vars \/ Restore PROVE Encodable(world')
  <2>1. world' = world
    BY <1>1 DEF vars, Restore
  <2> QED BY <2>1 DEF SentInvariant
<1>3. ASSUME \/ \E at \in SpawnPoints : SpawnPlayer(at[1], at[2])
             \/ \E pos \in FoodPoints : SpawnFood(pos)
             \/ \E id \in DOMAIN world.locations : RemovePlayer(id) \/ RemoveFood(id)
      PROVE  Encodable(world')
  BY <1>3, EditsEncodable
<1>4. \A c \in Commands(world) : IsCommand(c)
  BY CommandsAre DEF SentInvariant, WorldInvariant
<1>5. ASSUME NEW mechanics \in Mechanics, Advance(<<>>, mechanics)
      PROVE  Encodable(world')
  <2>1. Len(<<>>) \in Nat /\ DOMAIN <<>> = 1 .. Len(<<>>) /\ DOMAIN <<>> = {}
    OBVIOUS
  <2> QED BY <1>5, <2>1, AdvanceStepEncodable
<1>6. ASSUME NEW mechanics \in Mechanics, NEW c \in Commands(world), Advance(<<c>>, mechanics)
      PROVE  Encodable(world')
  <2> DEFINE cmds == <<c>>
  <2>1. /\ Len(cmds) \in Nat /\ DOMAIN cmds = 1 .. Len(cmds)
        /\ \A i \in DOMAIN cmds : cmds[i] = c
    OBVIOUS
  <2> HIDE DEF cmds
  <2> QED BY <1>4, <1>6, <2>1, AdvanceStepEncodable DEF cmds
<1>7. ASSUME NEW mechanics \in Mechanics, NEW c \in Commands(world), NEW d \in Commands(world),
             Advance(<<c, d>>, mechanics)
      PROVE  Encodable(world')
  <2> DEFINE cmds == <<c, d>>
  <2>1. /\ Len(cmds) \in Nat /\ DOMAIN cmds = 1 .. Len(cmds)
        /\ \A i \in DOMAIN cmds : cmds[i] = c \/ cmds[i] = d
    OBVIOUS
  <2> HIDE DEF cmds
  <2> QED BY <1>4, <1>7, <2>1, AdvanceStepEncodable DEF cmds
<1>8. Encodable(world')
  BY <1>1, <1>3, <1>5, <1>6, <1>7 DEF Next
<1>9. WorldInvariant'
  BY InvariantStep DEF SentInvariant
<1>10. Encodable(world)'
  BY <1>8
<1> QED BY <1>9, <1>10 DEF SentInvariant

\* It says what the runs check.
LEMMA SentSound ==
  ASSUME SentInvariant
  PROVE  RestoreSound
<1>1. Sound(world) /\ Encodable(world)
  BY DEF SentInvariant, WorldInvariant
<1>2. /\ SnapshotBuildError(Checkpoint(world)) = "none" <=> WithinWire(world)
      /\ WithinWire(world) => HydrationError(SnapshotOf(Checkpoint(world))) = "none"
  BY <1>1, BuildAdmits, HydrationAdmits
<1>3. ASSUME NEW cp \in Variants(Checkpoint(world)), RestoreError(cp) = "none"
      PROVE  Consistent(Restored(cp))
  <2>1. Sound(Restored(cp))
    BY <1>1, <1>3, VariantsTyped, RestoreAlwaysSound
  <2> QED BY <2>1, SoundConsistent
<1> QED BY <1>2, <1>3 DEF RestoreSound

\* The server builds a snapshot of every world the program reaches whose ticks,
\* deadlines and counts the wire has room for (and of no other), and it passes the
\* validation, the restore and the digest comparison of hydrate_checkpoint, splits
\* of one tick and their prediction keys included; and what restore accepts among
\* damaged checkpoints is still a consistent world.
THEOREM SnapshotsAlwaysRestore == Spec => []RestoreSound
<1>1. Init => SentInvariant
  BY InvariantInit, EmptyEncodable DEF Init, SentInvariant
<1>2. SentInvariant /\ [Next]_vars => SentInvariant'
  BY SentStep
<1>3. SentInvariant => RestoreSound
  BY SentSound
<1> QED BY <1>1, <1>2, <1>3, PTL DEF Spec
=============================================================================
