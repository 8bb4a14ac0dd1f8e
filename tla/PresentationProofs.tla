------------------------- MODULE PresentationProofs -------------------------
(* Proofs about what the client shows: the delayed view of the remote       *)
(* entities, the requests that commands carry, and the tracks of the        *)
(* entities a frame draws.  A behaviour of Presentation follows one of its  *)
(* parts, and a theorem about a part holds in all of them.                  *)
EXTENDS Presentation, SharedLemmas

-----------------------------------------------------------------------------
(* Numbers.                                                                *)

\* Products of natural numbers are monotone.
LEMMA TimesMonotone ==
  ASSUME NEW a \in Nat, NEW b \in Nat, NEW c \in Nat, NEW d \in Nat, a <= b, c <= d
  PROVE  a * c <= b * d /\ a * c \in Nat /\ b * d \in Nat
<1>1. a * c <= b * c
  BY SMT
<1>2. b * c <= b * d
  BY SMT
<1> QED BY <1>1, <1>2

\* A server tick is a positive number of cursor units, and ticks are ordered as
\* their places on the cursor's axis.
LEMMA ScaleOrder ==
  /\ Scale \in Nat \ {0}
  /\ \A t \in Int : t * Scale \in Int
  /\ \A t, u \in Int : (t < u <=> t * Scale < u * Scale) /\ (t <= u <=> t * Scale <= u * Scale)
  /\ \A t, u \in Int : (t - u) * Scale = t * Scale - u * Scale
<1>1. Scale \in Nat \ {0}
  BY RemoteAssumption DEF Scale
<1> QED BY <1>1

\* The disciplined rate stays between its limits.
LEMMA RateBounds ==
  ASSUME NEW error \in Int
  PROVE  CursorRate(error) \in Nat /\ CursorRate(error) <= MaxRate
<1>1. error \div Gain \in Int
  BY RemoteAssumption
<1> QED BY <1>1, RemoteAssumption DEF CursorRate, Clamp

\* The part of a hold after the limit grows no faster than the hold.
LEMMA PostCapGrows ==
  ASSUME NEW d \in Int, NEW e \in Int, d <= e
  PROVE  /\ PostCap(d) \in Int /\ PostCap(e) \in Int
         /\ PostCap(e) - PostCap(d) <= e - d
         /\ PostCap(0) = 0
<1>1. LimitTicks * TickTime \in Nat
  BY RemoteAssumption
<1> QED BY <1>1 DEF PostCap, Larger

-----------------------------------------------------------------------------
(* The delayed view: lookups in the buffer.                                *)

\* The retained samples: increasing ticks within the capacity, up to the applied
\* one.
SamplesOK(s, last) ==
  /\ s \in Seq(1 .. LastTick) /\ Len(s) \in 1 .. Capacity
  /\ s[Len(s)] = last
  /\ \A i, j \in 1 .. Len(s) : i < j => s[i] < s[j]

LEMMA SampleFacts ==
  ASSUME NEW s, NEW last, SamplesOK(s, last)
  PROVE  /\ Len(s) \in Nat \ {0} /\ DOMAIN s = 1 .. Len(s) /\ s # << >> /\ Last(s) = last
         /\ last \in Nat
         /\ \A i \in 1 .. Len(s) : s[i] \in Nat /\ s[1] <= s[i] /\ s[i] <= last
<1>1. Len(s) \in Nat \ {0} /\ DOMAIN s = 1 .. Len(s) /\ s # << >>
  BY DEF SamplesOK
<1>2. \A i \in 1 .. Len(s) : s[i] \in Nat
  BY SMTT(30), <1>1, RemoteAssumption DEF SamplesOK
<1>3. \A i \in 1 .. Len(s) : s[1] <= s[i] /\ s[i] <= last
  BY <1>1, <1>2 DEF SamplesOK
<1>4. last \in Nat
  BY <1>1, <1>2 DEF SamplesOK
<1> QED BY <1>1, <1>2, <1>3, <1>4 DEF Last, SamplesOK

\* A bounded nonempty set of natural numbers has a largest one.
LEMMA BoundedMaxIs ==
  ASSUME NEW n \in Nat, NEW S \in SUBSET (0 .. n), S # {}
  PROVE  Max(S) \in S /\ \A x \in S : x <= Max(S)
<1> DEFINE T == {n - x : x \in S}
<1>1. T \in SUBSET Nat /\ T # {}
  OBVIOUS
<1>2. Min(T) \in T /\ \A y \in T : Min(T) <= y
  BY <1>1, NatMinIs
<1>3. PICK m \in S : Min(T) = n - m
  BY <1>2
<1>4. \A x \in S : n - m <= n - x
  BY <1>2, <1>3
<1>5. \A x \in S : x <= m
  BY <1>4
<1>6. Max(S) = m
  BY <1>5, MaxIs
<1> QED BY <1>5, <1>6

\* The older sample is the newest one the cursor has reached, or the first.
LEMMA OlderIs ==
  ASSUME NEW b, NEW last, SamplesOK(b.samples, last), b.cursor \in Int
  PROVE  /\ OlderIndex(b) \in 1 .. Len(b.samples)
         /\ OlderIndex(b) # 1 => b.samples[OlderIndex(b)] * Scale <= b.cursor
         /\ \A i \in 2 .. Len(b.samples) :
              b.samples[i] * Scale <= b.cursor => i <= OlderIndex(b)
<1> DEFINE n == Len(b.samples)
           reached == {i \in 2 .. n : b.samples[i] * Scale <= b.cursor}
<1>1. n \in Nat \ {0}
  BY SampleFacts
<1>2. OlderIndex(b) = IF reached = {} THEN 1 ELSE Max(reached)
  BY DEF OlderIndex
<1>3. CASE reached = {}
  BY <1>1, <1>2, <1>3
<1>4. CASE reached # {}
  <2>1. reached \in SUBSET (0 .. n)
    BY <1>1
  <2>2. Max(reached) \in reached /\ \A x \in reached : x <= Max(reached)
    BY <1>1, <1>4, <2>1, BoundedMaxIs
  <2> QED BY SMTT(30), <1>1, <1>2, <1>4, <2>2
<1> QED BY <1>3, <1>4

\* There is a newer sample exactly while the newest is ahead of the cursor, and
\* it is ahead too.
LEMMA NewerIs ==
  ASSUME NEW b, NEW last, SamplesOK(b.samples, last), b.cursor \in Int
  PROVE  /\ HasNewer(b) <=> b.cursor < last * Scale
         /\ HasNewer(b) => /\ NewerIndex(b) \in 1 .. Len(b.samples)
                           /\ b.samples[NewerIndex(b)] * Scale > b.cursor
                           /\ \A i \in 1 .. Len(b.samples) :
                                b.samples[i] * Scale > b.cursor => NewerIndex(b) <= i
<1> DEFINE n == Len(b.samples)
<1>1. /\ n \in Nat \ {0}
      /\ \A i \in 1 .. n : b.samples[i] \in Nat /\ b.samples[i] <= last
      /\ last \in Nat /\ b.samples[n] = last
  BY SampleFacts DEF SamplesOK
<1>2. AheadIndexes(b) = {i \in 1 .. n : b.samples[i] * Scale > b.cursor}
  BY DEF AheadIndexes
<1>3. ASSUME b.cursor < last * Scale PROVE HasNewer(b)
  <2>1. n \in AheadIndexes(b)
    BY <1>1, <1>2, <1>3, ScaleOrder
  <2> QED BY <2>1 DEF HasNewer
<1>4. ASSUME HasNewer(b) PROVE b.cursor < last * Scale
  <2>1. PICK i \in 1 .. n : b.samples[i] * Scale > b.cursor
    BY <1>2, <1>4 DEF HasNewer
  <2>2. b.samples[i] \in Int /\ last \in Int /\ b.samples[i] <= last
    BY <1>1
  <2>3. /\ b.samples[i] * Scale <= last * Scale
        /\ b.samples[i] * Scale \in Int /\ last * Scale \in Int
    BY <2>2, ScaleOrder
  <2> DEFINE at == b.samples[i] * Scale
             end == last * Scale
  <2>4. b.cursor < at /\ at <= end /\ at \in Int /\ end \in Int
    BY <2>1, <2>3
  <2> HIDE DEF at, end
  <2>5. b.cursor < end
    BY <2>4
  <2> QED BY <2>5 DEF end
<1>5. ASSUME HasNewer(b)
      PROVE  /\ NewerIndex(b) \in AheadIndexes(b)
             /\ \A i \in AheadIndexes(b) : NewerIndex(b) <= i
  <2>1. AheadIndexes(b) \in SUBSET Nat /\ AheadIndexes(b) # {}
    BY <1>1, <1>2, <1>5 DEF HasNewer
  <2> QED BY <2>1, NatMinIs DEF NewerIndex
<1> QED BY <1>2, <1>3, <1>4, <1>5

\* A sampled picture is the world of the older sample.
LEMMA SampledIs ==
  ASSUME NEW b, NEW last, SamplesOK(b.samples, last), b.cursor \in Int, NEW controlled
  PROVE  SampledEntities(b, controlled) =
           WorldAt(b.samples[OlderIndex(b)]) \ controlled
<1>1. CASE ~HasNewer(b)
  BY <1>1 DEF SampledEntities
<1>2. CASE HasNewer(b)
  <2>1. b.cursor < b.samples[NewerIndex(b)] * Scale
    <3>1. NewerIndex(b) \in 1 .. Len(b.samples)
          /\ b.samples[NewerIndex(b)] * Scale > b.cursor
      BY <1>2, NewerIs
    <3>2. b.samples[NewerIndex(b)] \in Int
      BY <3>1, SampleFacts
    <3>3. b.samples[NewerIndex(b)] * Scale \in Int
      BY <3>2, ScaleOrder
    <3> QED BY <3>1, <3>3
  <2> DEFINE older == WorldAt(b.samples[OlderIndex(b)])
             newer == WorldAt(b.samples[NewerIndex(b)])
  <2>2. SampledEntities(b, controlled) =
          ((older \cap newer) \cup (older \ newer)) \ controlled
    BY <1>2, <2>1 DEF SampledEntities
  <2> QED BY <2>2
<1> QED BY <1>1, <1>2

\* A sampled pose is the cursor between two samples, and the newest sample when
\* there is none ahead.
LEMMA PoseIs ==
  ASSUME NEW b, NEW last, SamplesOK(b.samples, last), b.cursor \in Int,
         b.samples[1] * Scale <= b.cursor
  PROVE  SampledPose(b) = IF HasNewer(b) THEN b.cursor ELSE last * Scale
<1> DEFINE n == Len(b.samples)
           i == OlderIndex(b)
<1>1. /\ n \in Nat \ {0} /\ b.samples[n] = last /\ last \in Nat
      /\ \A k \in 1 .. n : b.samples[k] \in Nat
  BY SampleFacts DEF SamplesOK
<1>2. /\ i \in 1 .. n /\ b.samples[i] * Scale <= b.cursor
      /\ \A k \in 2 .. n : b.samples[k] * Scale <= b.cursor => k <= i
  BY OlderIs
<1> HIDE DEF i
<1>3. CASE ~HasNewer(b)
  <2>1. last * Scale <= b.cursor
    <3>1. ~(b.cursor < last * Scale)
      BY <1>3, NewerIs
    <3>2. last * Scale \in Int
      BY <1>1, ScaleOrder
    <3> QED BY <3>1, <3>2
  <2>2. i = n
    BY <1>1, <1>2, <2>1
  <2>3. SampledPose(b) = b.samples[i] * Scale
    BY <1>3 DEF SampledPose, i
  <2> QED BY <1>1, <1>3, <2>2, <2>3
<1>4. CASE HasNewer(b)
  <2> DEFINE old == b.samples[i] * Scale
             new == b.samples[NewerIndex(b)] * Scale
  <2>1. NewerIndex(b) \in 1 .. n /\ new > b.cursor
    BY <1>4, NewerIs
  <2>2. SampledPose(b) = Clamp(b.cursor, old, Larger(old, new))
    BY <1>4 DEF SampledPose, i
  <2>3. old \in Int /\ new \in Int /\ old <= b.cursor
    BY <1>1, <1>2, <2>1, ScaleOrder
  <2> HIDE DEF old, new
  <2> QED BY <1>4, <2>1, <2>2, <2>3 DEF Clamp, Larger
<1> QED BY <1>3, <1>4

-----------------------------------------------------------------------------
(* The delayed view: a frame's advance of the cursor.                      *)

Buffers ==
  [samples : Seq(1 .. LastTick), cursor : Int, ready : BOOLEAN, advanced : Seq(Int),
   observed : Int, hold : Seq(Int), episodes : Int, recoveries : Int,
   totalHold : Int, totalPostCap : Int, presented : SUBSET Entities,
   lifecycle : BOOLEAN, created : Nat, removed : Nat]

\* A step leaves the samples and what was presented alone.
SamePicture(b, c) ==
  /\ c.samples = b.samples /\ c.presented = b.presented /\ c.lifecycle = b.lifecycle
  /\ c.created = b.created /\ c.removed = b.removed

\* A hold began in the past, and the time spent in holds is accounted.
Current(b, time) == IF b.hold = << >> THEN 0 ELSE time - Head(b.hold)
HoldOK(b, time) == b.hold = << >> \/ \E h \in Int : h <= time /\ b.hold = <<h>>
Accounted(b, time) ==
  /\ b.totalHold + Current(b, time) <= time - b.observed
  /\ b.totalPostCap + PostCap(Current(b, time)) <= b.totalHold + Current(b, time)
  /\ b.episodes = b.recoveries + Len(b.hold)

\* Where the cursor of a ready buffer stands after a frame.
Placed(b, last) ==
  /\ b.samples[1] * Scale <= b.cursor
  /\ (last - DelayTicks - MaximumCursorError) * Scale <= b.cursor
  /\ b.cursor <= last * Scale + MaxFrame * MaxRate
  /\ b.hold = << >> <=> b.cursor < last * Scale

\* A hold keeps its account while it lasts.
LEMMA HoldLasts ==
  ASSUME NEW b \in Buffers, NEW now0 \in Int, NEW time \in Int, now0 <= time,
         HoldOK(b, now0), Accounted(b, now0)
  PROVE  HoldOK(b, time) /\ Accounted(b, time)
<1>1. /\ b.totalHold \in Int /\ b.totalPostCap \in Int /\ b.observed \in Int
  BY DEF Buffers
<1>2. CASE b.hold = << >>
  BY <1>1, <1>2 DEF Accounted, HoldOK, Current
<1>3. CASE b.hold # << >>
  <2>1. PICK h \in Int : h <= now0 /\ b.hold = <<h>>
    BY <1>3 DEF HoldOK
  <2>2. Current(b, now0) = now0 - h /\ Current(b, time) = time - h
    BY <2>1 DEF Current
  <2>3. /\ PostCap(now0 - h) \in Int /\ PostCap(time - h) \in Int
        /\ PostCap(time - h) - PostCap(now0 - h) <= (time - h) - (now0 - h)
    BY PostCapGrows
  <2>4. HoldOK(b, time)
    BY <2>1 DEF HoldOK
  <2> QED BY SMTT(30), <1>1, <2>2, <2>3, <2>4 DEF Accounted
<1> QED BY <1>2, <1>3

\* The end of a hold moves its time to the totals.
LEMMA FinishHoldIs ==
  ASSUME NEW b \in Buffers, NEW time \in Int, HoldOK(b, time), Accounted(b, time),
         b.hold # << >>
  PROVE  LET c == FinishHold(b, time)
         IN /\ c \in Buffers /\ SamePicture(b, c) /\ c.ready = b.ready
            /\ c.advanced = b.advanced /\ c.cursor = b.cursor /\ c.observed = b.observed
            /\ c.hold = << >> /\ Accounted(c, time)
<1> DEFINE c == FinishHold(b, time)
<1>1. PICK h \in Int : h <= time /\ b.hold = <<h>>
  BY DEF HoldOK
<1>2. PostCap(time - h) \in Int /\ PostCap(0) = 0
  BY <1>1, PostCapGrows
<1>3. Head(b.hold) = h /\ Len(b.hold) = 1 /\ Current(b, time) = time - h
  BY <1>1 DEF Current
<1>4. c = [b EXCEPT !.hold = << >>, !.recoveries = b.recoveries + 1,
                    !.totalHold = b.totalHold + (time - h),
                    !.totalPostCap = b.totalPostCap + PostCap(time - h)]
  BY <1>3 DEF FinishHold
<1>5. PICK r \in Int, p \in Int, q \in Int :
        /\ r = b.recoveries + 1 /\ p = b.totalHold + (time - h)
        /\ q = b.totalPostCap + PostCap(time - h)
  <2>1. /\ b.recoveries + 1 \in Int /\ b.totalHold + (time - h) \in Int
        /\ b.totalPostCap + PostCap(time - h) \in Int
    BY <1>1, <1>2 DEF Buffers
  <2> QED BY <2>1, Zenon
<1>6. c = [b EXCEPT !.hold = << >>, !.recoveries = r, !.totalHold = p, !.totalPostCap = q]
  BY <1>4, <1>5
<1> HIDE DEF c
<1>7. /\ SamePicture(b, c) /\ c.ready = b.ready
      /\ c.advanced = b.advanced /\ c.cursor = b.cursor /\ c.observed = b.observed
      /\ c.hold = << >> /\ c.recoveries = r /\ c.episodes = b.episodes
      /\ c.totalHold = p /\ c.totalPostCap = q
  BY <1>6 DEF Buffers, SamePicture
<1>8. c \in Buffers
  <2>1. << >> \in Seq(Int)
    OBVIOUS
  <2> QED BY <1>6, <2>1 DEF Buffers
<1>9. Accounted(c, time)
  <2>1. /\ b.totalHold \in Int /\ b.totalPostCap \in Int /\ b.observed \in Int
        /\ b.recoveries \in Int
    BY DEF Buffers
  <2>2. Current(c, time) = 0 /\ Len(c.hold) = 0
    BY <1>7 DEF Current
  <2>3. PostCap(Current(b, time)) = PostCap(time - h)
    BY <1>3
  <2>4. /\ b.totalHold + (time - h) <= time - b.observed
        /\ b.totalPostCap + PostCap(time - h) <= b.totalHold + (time - h)
        /\ b.episodes = b.recoveries + 1
    BY <1>3, <2>3 DEF Accounted
  <2>5. p + 0 <= time - c.observed /\ q + 0 <= p + 0 /\ c.episodes = r + 0
    BY <1>5, <1>7, <2>1, <2>4
  <2> QED BY <1>2, <1>7, <2>2, <2>5 DEF Accounted
<1> QED BY <1>7, <1>8, <1>9 DEF c

\* A step of the cursor: it never moves back, and a rebase or a rate keeps it
\* near its target.
LEMMA PlacementIs ==
  ASSUME NEW b \in Buffers, NEW last, SamplesOK(b.samples, last),
         NEW before \in Int, NEW time \in Int, b.advanced = <<before>>,
         before <= time, time - before <= MaxFrame, b.cursor < last * Scale
  PROVE  LET c == IF NeedsRebase(b) THEN Rebased(b) ELSE Moved(b, time)
         IN /\ c = [b EXCEPT !.cursor = c.cursor] /\ c.cursor \in Int
            /\ b.cursor <= c.cursor
            /\ b.samples[1] * Scale <= c.cursor
            /\ (last - DelayTicks - MaximumCursorError) * Scale <= c.cursor
            /\ c.cursor <= last * Scale + MaxFrame * MaxRate
<1> DEFINE c == IF NeedsRebase(b) THEN Rebased(b) ELSE Moved(b, time)
           front == b.samples[1] * Scale
           end == last * Scale
           slack == MaximumCursorError * Scale
           delay == DelayTicks * Scale
           reach == MaxFrame * MaxRate
<1>1. /\ last \in Int /\ b.samples[1] \in Int /\ b.samples[1] <= last
      /\ Last(b.samples) = last
  BY SampleFacts
<1>2. /\ DelayTicks \in Nat /\ MaximumCursorError \in Nat /\ MaxFrame \in Nat
      /\ MaxRate \in Nat
  BY RemoteAssumption
<1>3. front \in Int /\ end \in Int /\ front <= end /\ slack \in Nat /\ delay \in Nat
  <2>1. front \in Int /\ end \in Int /\ front <= end
    BY <1>1, ScaleOrder
  <2>2. slack \in Nat /\ delay \in Nat
    <3>1. Scale \in Nat
      BY ScaleOrder
    <3> QED BY <1>2, <3>1, SMT
  <2> QED BY <2>1, <2>2
<1>4. reach \in Nat
  BY <1>2, TimesMonotone
<1>5. /\ Desired(b) = end - delay
      /\ (last - DelayTicks - MaximumCursorError) * Scale = end - delay - slack
  <2>1. (last - DelayTicks) * Scale = end - delay
    BY <1>1, <1>2, ScaleOrder
  <2>2. ((last - DelayTicks) - MaximumCursorError) * Scale =
          (last - DelayTicks) * Scale - slack
    <3>1. last - DelayTicks \in Int /\ MaximumCursorError \in Int
      BY <1>1, <1>2
    <3> QED BY <3>1, ScaleOrder
  <2> QED BY <1>1, <2>1, <2>2 DEF Desired, Newest
<1>6. NeedsRebase(b) <=> b.cursor < front \/ (end - delay) - b.cursor > slack
  BY <1>5 DEF NeedsRebase
<1>7. b.cursor \in Int
  BY DEF Buffers
<1> HIDE DEF front, end, slack, delay, reach
<1>8. ASSUME NEW x \in Int, c = [b EXCEPT !.cursor = x]
      PROVE  c.cursor = x /\ c = [b EXCEPT !.cursor = c.cursor]
  BY <1>8 DEF Buffers
<1>9. CASE b.cursor < front
  <2> DEFINE x == Larger(end - delay, front)
  <2>1. c = [b EXCEPT !.cursor = x]
    BY <1>5, <1>6, <1>9 DEF Rebased, front
  <2>2. x \in Int /\ b.cursor <= x /\ front <= x /\ end - delay - slack <= x /\ x <= end + reach
    BY <1>3, <1>4, <1>7, <1>9 DEF Larger
  <2> HIDE DEF x, c
  <2>3. c.cursor = x /\ c = [b EXCEPT !.cursor = c.cursor]
    BY <1>8, <2>1, <2>2
  <2> QED BY <1>5, <2>2, <2>3 DEF front, end, reach, c
<1>10. CASE ~(b.cursor < front) /\ (end - delay) - b.cursor > slack
  <2> DEFINE x == end - delay
  <2>1. c = [b EXCEPT !.cursor = x]
    BY <1>5, <1>6, <1>10 DEF Rebased, front
  <2>2. x \in Int /\ b.cursor <= x /\ front <= x /\ end - delay - slack <= x /\ x <= end + reach
    BY <1>3, <1>4, <1>7, <1>10
  <2> HIDE DEF x, c
  <2>3. c.cursor = x /\ c = [b EXCEPT !.cursor = c.cursor]
    BY <1>8, <2>1, <2>2
  <2> QED BY <1>5, <2>2, <2>3 DEF front, end, reach, c
<1>11. CASE ~(b.cursor < front) /\ ~((end - delay) - b.cursor > slack)
  <2> DEFINE rate == CursorRate(Desired(b) - b.cursor)
             step == (time - before) * rate
             x == b.cursor + step
  <2>1. c = [b EXCEPT !.cursor = x]
    BY <1>6, <1>11 DEF Moved
  <2>2. Desired(b) - b.cursor \in Int
    BY <1>3, <1>5, <1>7
  <2>3. rate \in Nat /\ rate <= MaxRate
    BY <2>2, RateBounds
  <2>4. step \in Nat /\ step <= reach
    BY <1>2, <2>3, TimesMonotone DEF reach
  <2> HIDE DEF step
  <2>5. x \in Int /\ b.cursor <= x /\ front <= x /\ end - delay - slack <= x /\ x <= end + reach
    BY <1>3, <1>4, <1>7, <1>11, <2>4 DEF end
  <2> HIDE DEF x, c
  <2>6. c.cursor = x /\ c = [b EXCEPT !.cursor = c.cursor]
    BY <1>8, <2>1, <2>5
  <2> QED BY <1>5, <2>5, <2>6 DEF front, end, reach, c
<1> QED BY <1>9, <1>10, <1>11

\* The buffer of a client that has applied a snapshot, between two frames.
BufferSound(b, last, time) ==
  /\ b \in Buffers /\ SamplesOK(b.samples, last)
  /\ b.ready =>
       /\ b.advanced = <<time>> /\ HoldOK(b, time) /\ Accounted(b, time)
       /\ b.cursor <= last * Scale + MaxFrame * MaxRate
       /\ b.hold = << >> => b.cursor < last * Scale
  /\ ~b.ready =>
       /\ b.cursor <= b.samples[1] * Scale /\ b.hold = << >>
       /\ b.episodes = 0 /\ b.recoveries = 0 /\ b.totalHold = 0 /\ b.totalPostCap = 0

\* What an advance of b to c keeps and reaches.
Advances(b, c, last, time) ==
  /\ BufferSound(c, last, time) /\ SamePicture(b, c) /\ b.cursor <= c.cursor
  /\ b.ready => c.ready
  /\ c.ready => Placed(c, last)

\* The disciplined part of an advance, which a hold that is not over skips.
LEMMA DisciplinedIs ==
  ASSUME NEW b, NEW last, NEW before \in Int, NEW time \in Int,
         before <= time, time - before <= MaxFrame,
         BufferSound(b, last, before), b.ready, b.hold = << >> \/ HasNewer(b)
  PROVE  /\ Disciplined(b, time) \in Buffers /\ Disciplined(b, time).ready
         /\ SamePicture(b, Disciplined(b, time))
         /\ b.cursor <= Disciplined(b, time).cursor
         /\ HoldOK(Disciplined(b, time), time) /\ Accounted(Disciplined(b, time), time)
         /\ Placed(Disciplined(b, time), last)
<1> DEFINE r == IF b.hold = << >> THEN b ELSE FinishHold(b, time)
           p == IF NeedsRebase(r) THEN Rebased(r) ELSE Moved(r, time)
           c == BeginHold(p, time)
           end == last * Scale
<1>1. /\ b \in Buffers /\ SamplesOK(b.samples, last) /\ b.advanced = <<before>>
      /\ HoldOK(b, before) /\ Accounted(b, before)
      /\ b.hold = << >> => b.cursor < end
  BY DEF BufferSound
<1>2. b.cursor \in Int /\ end \in Int
  <2>1. last \in Int
    BY <1>1, SampleFacts
  <2> QED BY <1>1, <2>1, ScaleOrder DEF Buffers
<1>3. b.cursor < end
  BY <1>1, <1>2, NewerIs
<1> HIDE DEF end
<1>4. HoldOK(b, time) /\ Accounted(b, time)
  BY <1>1, HoldLasts
<1>5. /\ r \in Buffers /\ SamePicture(b, r) /\ r.ready /\ r.advanced = <<before>>
      /\ r.cursor = b.cursor /\ r.hold = << >> /\ Accounted(r, time)
  <2>1. CASE b.hold = << >>
    <3>1. r = b
      BY <2>1
    <3> QED BY <1>1, <1>4, <2>1, <3>1 DEF SamePicture
  <2>2. CASE b.hold # << >>
    <3>1. r = FinishHold(b, time)
      BY <2>2
    <3> HIDE DEF r
    <3> QED BY <1>1, <1>4, <2>2, <3>1, FinishHoldIs
  <2> QED BY <2>1, <2>2
<1> HIDE DEF r
<1>6. SamplesOK(r.samples, last) /\ r.cursor < last * Scale
  BY <1>1, <1>3, <1>5 DEF SamePicture, end
<1>7. /\ p = [r EXCEPT !.cursor = p.cursor] /\ p.cursor \in Int
      /\ b.cursor <= p.cursor
      /\ r.samples[1] * Scale <= p.cursor
      /\ (last - DelayTicks - MaximumCursorError) * Scale <= p.cursor
      /\ p.cursor <= last * Scale + MaxFrame * MaxRate
  BY <1>5, <1>6, PlacementIs
<1> HIDE DEF p
<1>8. /\ p \in Buffers /\ SamePicture(b, p) /\ p.ready /\ p.hold = << >>
      /\ p.samples = r.samples /\ p.observed = r.observed /\ p.totalHold = r.totalHold
      /\ p.totalPostCap = r.totalPostCap /\ p.episodes = r.episodes
      /\ p.recoveries = r.recoveries
  <2>1. PICK x \in Int : x = p.cursor
    BY <1>7
  <2>2. p = [r EXCEPT !.cursor = x]
    BY <1>7, <2>1
  <2> QED BY <1>5, <2>2 DEF Buffers, SamePicture
<1>9. Accounted(p, time) /\ Current(p, time) = 0 /\ Len(p.hold) = 0
  <2>1. Current(p, time) = 0 /\ Current(r, time) = 0 /\ Len(p.hold) = 0 /\ Len(r.hold) = 0
    BY <1>5, <1>8 DEF Current
  <2> QED BY <1>5, <1>8, <2>1 DEF Accounted
<1>10. SamplesOK(p.samples, last)
  BY <1>6, <1>8
<1>11. HasNewer(p) <=> p.cursor < end
  BY <1>7, <1>10, NewerIs DEF end
<1>12. CASE HasNewer(p)
  <2>1. c = p
    BY <1>12 DEF BeginHold
  <2>2. HoldOK(p, time)
    BY <1>8 DEF HoldOK
  <2>3. Placed(p, last)
    BY <1>7, <1>8, <1>11, <1>12 DEF Placed, end
  <2>4. Disciplined(b, time) = c
    BY DEF Disciplined, r, p
  <2> QED BY <1>7, <1>8, <1>9, <2>1, <2>2, <2>3, <2>4
<1>13. CASE ~HasNewer(p)
  <2>1. PICK n \in Int : n = p.episodes + 1
    BY <1>8 DEF Buffers
  <2>2. c = [p EXCEPT !.hold = <<time>>, !.episodes = n]
    BY <1>8, <1>13, <2>1 DEF BeginHold
  <2>3. Disciplined(b, time) = c
    BY DEF Disciplined, r, p
  <2> HIDE DEF c
  <2>4. <<time>> \in Seq(Int) /\ Len(<<time>>) = 1 /\ Head(<<time>>) = time
    OBVIOUS
  <2>5. /\ c \in Buffers /\ c.hold = <<time>> /\ c.episodes = n /\ c.ready
    BY <1>8, <2>2, <2>4 DEF Buffers
  <2>6. /\ c.samples = p.samples /\ c.observed = p.observed /\ c.cursor = p.cursor
        /\ c.totalHold = p.totalHold /\ c.totalPostCap = p.totalPostCap
        /\ c.recoveries = p.recoveries
        /\ SamePicture(p, c)
    BY <1>8, <2>2 DEF Buffers, SamePicture
  <2>7. SamePicture(b, c)
    BY <1>8, <2>6 DEF SamePicture
  <2>8. HoldOK(c, time)
    BY <2>5 DEF HoldOK
  <2>9. Accounted(c, time)
    <3>1. Current(c, time) = 0
      BY <2>4, <2>5 DEF Current
    <3>2. c.episodes = c.recoveries + Len(c.hold)
      <4>1. p.episodes = p.recoveries + 0 /\ p.episodes \in Int /\ p.recoveries \in Int
        BY <1>8, <1>9 DEF Accounted, Buffers
      <4> QED BY <2>1, <2>4, <2>5, <2>6, <4>1
    <3> QED BY <1>9, <2>6, <3>1, <3>2 DEF Accounted
  <2>10. Placed(c, last)
    BY <1>7, <1>8, <1>11, <1>13, <2>5, <2>6 DEF Placed, end
  <2> QED BY <1>7, <2>3, <2>5, <2>6, <2>7, <2>8, <2>9, <2>10
<1> QED BY <1>12, <1>13

\* A frame's advance keeps the buffer sound and places the cursor.
LEMMA AdvanceIs ==
  ASSUME NEW b, NEW last, NEW before \in Int, NEW time \in Int,
         before <= time, time - before <= MaxFrame, BufferSound(b, last, before)
  PROVE  Advances(b, AdvanceBuffer(b, time), last, time)
<1> DEFINE c == AdvanceBuffer(b, time)
           end == last * Scale
           delay == DelayTicks * Scale
           front == b.samples[1] * Scale
<1>1. b \in Buffers /\ SamplesOK(b.samples, last)
  BY DEF BufferSound
<1>2. /\ b.samples # << >> /\ Last(b.samples) = last /\ last \in Nat
      /\ b.samples[1] \in Nat /\ b.samples[1] <= last
  BY <1>1, SampleFacts
<1>3. b.cursor \in Int
  BY <1>1 DEF Buffers
<1>4. /\ end \in Int /\ delay \in Nat /\ front \in Int /\ delay > 0
      /\ Desired(b) = end - delay
  <2>1. DelayTicks \in Nat \ {0} /\ Scale \in Nat \ {0}
    BY RemoteAssumption, ScaleOrder
  <2>2. delay \in Nat /\ delay > 0
    BY <2>1, SMT
  <2>3. (last - DelayTicks) * Scale = end - delay
    BY <1>2, <2>1, ScaleOrder
  <2>4. end \in Int /\ front \in Int
    <3>1. last \in Int /\ b.samples[1] \in Int
      BY <1>2
    <3> QED BY <3>1, ScaleOrder
  <2> QED BY <1>2, <2>2, <2>3, <2>4 DEF Desired, Newest
<1>5. <<time>> \in Seq(Int)
  OBVIOUS
<1>6. CASE ~b.ready /\ Newest(b) - b.samples[1] < DelayTicks
  <2>1. c = [b EXCEPT !.advanced = <<time>>]
    BY <1>2, <1>6 DEF AdvanceBuffer
  <2> HIDE DEF c
  <2>2. /\ c \in Buffers /\ SamePicture(b, c) /\ c.cursor = b.cursor /\ c.ready = b.ready
        /\ c.samples = b.samples /\ c.hold = b.hold /\ c.episodes = b.episodes
        /\ c.recoveries = b.recoveries /\ c.totalHold = b.totalHold
        /\ c.totalPostCap = b.totalPostCap
    BY <1>1, <1>5, <2>1 DEF Buffers, SamePicture
  <2>3. BufferSound(c, last, time)
    BY <1>6, <2>2 DEF BufferSound
  <2> QED BY <1>3, <1>6, <2>2, <2>3 DEF Advances, c
<1>7. CASE ~b.ready /\ ~(Newest(b) - b.samples[1] < DelayTicks)
  <2>1. c = [[b EXCEPT !.cursor = Desired(b), !.ready = TRUE, !.observed = time]
               EXCEPT !.advanced = <<time>>]
    BY <1>2, <1>7 DEF AdvanceBuffer
  <2>2. PICK x \in Int : x = end - delay
    BY <1>4
  <2>3. c = [b EXCEPT !.cursor = x, !.ready = TRUE, !.observed = time, !.advanced = <<time>>]
    BY <1>1, <1>4, <2>1, <2>2 DEF Buffers
  <2> HIDE DEF c
  <2>4. /\ c \in Buffers /\ SamePicture(b, c) /\ c.cursor = x /\ c.ready = TRUE
        /\ c.observed = time /\ c.advanced = <<time>>
        /\ c.samples = b.samples /\ c.hold = b.hold /\ c.episodes = b.episodes
        /\ c.recoveries = b.recoveries /\ c.totalHold = b.totalHold
        /\ c.totalPostCap = b.totalPostCap
    BY <1>1, <1>5, <2>3 DEF Buffers, SamePicture
  <2>5. /\ b.hold = << >> /\ b.episodes = 0 /\ b.recoveries = 0 /\ b.totalHold = 0
        /\ b.totalPostCap = 0 /\ b.cursor <= front
    BY <1>7 DEF BufferSound
  <2>6. front <= x
    <3>1. b.samples[1] <= last - DelayTicks /\ last - DelayTicks \in Int /\ b.samples[1] \in Int
      <4>1. DelayTicks \in Int /\ last \in Int /\ b.samples[1] \in Int /\ Newest(b) = last
        BY <1>2, RemoteAssumption DEF Newest
      <4>2. ~(last - b.samples[1] < DelayTicks)
        BY <1>7, <4>1
      <4> QED BY <4>1, <4>2
    <3>2. front <= (last - DelayTicks) * Scale
      BY <3>1, ScaleOrder
    <3>3. (last - DelayTicks) * Scale = end - delay
      BY SMTT(30), <1>2, RemoteAssumption, ScaleOrder
    <3> QED BY <2>2, <3>2, <3>3
  <2>7. HoldOK(c, time) /\ Accounted(c, time)
    <3>1. Current(c, time) = 0 /\ Len(c.hold) = 0
      BY <2>4, <2>5 DEF Current
    <3>2. PostCap(0) = 0
      BY PostCapGrows
    <3> QED BY <2>4, <2>5, <3>1, <3>2 DEF HoldOK, Accounted
  <2>8. Placed(c, last)
    <3> DEFINE reach == MaxFrame * MaxRate
               slack == MaximumCursorError * Scale
    <3>1. reach \in Nat /\ slack \in Nat
      <4>1. MaxFrame \in Nat /\ MaxRate \in Nat /\ MaximumCursorError \in Nat /\ Scale \in Nat
        BY RemoteAssumption, ScaleOrder
      <4> QED BY <4>1, SMT
    <3>2. (last - DelayTicks - MaximumCursorError) * Scale = end - delay - slack
      <4>1. /\ last - DelayTicks \in Int /\ MaximumCursorError \in Int /\ DelayTicks \in Int
            /\ last \in Int
        BY <1>2, RemoteAssumption
      <4>2. ((last - DelayTicks) - MaximumCursorError) * Scale
              = (last - DelayTicks) * Scale - slack
        BY <4>1, ScaleOrder
      <4>3. (last - DelayTicks) * Scale = end - delay
        BY <4>1, ScaleOrder
      <4> QED BY <4>2, <4>3
    <3> HIDE DEF reach, slack, end, delay, front
    <3>3. /\ front <= x /\ end - delay - slack <= x /\ x <= end + reach /\ x < end
      BY <1>4, <2>2, <2>6, <3>1
    <3> QED BY <2>4, <2>5, <3>2, <3>3 DEF Placed, front, end, reach
  <2>9. BufferSound(c, last, time)
    BY <1>1, <2>4, <2>5, <2>7, <2>8 DEF BufferSound, Placed
  <2>10. b.cursor <= c.cursor
    BY <1>3, <1>4, <2>2, <2>4, <2>5, <2>6
  <2> QED BY <2>4, <2>8, <2>9, <2>10 DEF Advances, c
<1>8. CASE b.ready /\ b.hold # << >> /\ ~HasNewer(b)
  <2>1. c = [b EXCEPT !.advanced = <<time>>]
    BY <1>2, <1>8 DEF AdvanceBuffer
  <2> HIDE DEF c
  <2>2. /\ c \in Buffers /\ SamePicture(b, c) /\ c.cursor = b.cursor /\ c.ready = b.ready
        /\ c.advanced = <<time>> /\ c.observed = b.observed
        /\ c.samples = b.samples /\ c.hold = b.hold /\ c.episodes = b.episodes
        /\ c.recoveries = b.recoveries /\ c.totalHold = b.totalHold
        /\ c.totalPostCap = b.totalPostCap
    BY <1>1, <1>5, <2>1 DEF Buffers, SamePicture
  <2>3. HoldOK(b, time) /\ Accounted(b, time)
    BY <1>1, <1>8, HoldLasts DEF BufferSound
  <2>4. HoldOK(c, time) /\ Accounted(c, time)
    <3>1. Current(c, time) = Current(b, time)
      BY <2>2 DEF Current
    <3> QED BY <2>2, <2>3, <3>1 DEF HoldOK, Accounted
  <2>5. end <= b.cursor /\ b.cursor <= last * Scale + MaxFrame * MaxRate
    <3>1. ~(b.cursor < end)
      BY <1>1, <1>3, <1>8, NewerIs
    <3> QED BY <1>3, <1>4, <1>8, <3>1 DEF BufferSound
  <2>6. (last - DelayTicks - MaximumCursorError) * Scale <= end /\ front <= end
    <3>1. /\ last - DelayTicks - MaximumCursorError \in Int
          /\ last - DelayTicks - MaximumCursorError <= last
          /\ last \in Int /\ b.samples[1] \in Int
      <4>1. DelayTicks \in Nat /\ MaximumCursorError \in Nat /\ last \in Nat
        BY <1>2, RemoteAssumption
      <4> QED BY <1>2, <4>1
    <3>2. (last - DelayTicks - MaximumCursorError) * Scale <= last * Scale
      BY <3>1, ScaleOrder
    <3>3. b.samples[1] * Scale <= last * Scale
      BY <1>2, <3>1, ScaleOrder
    <3> QED BY <3>2, <3>3
  <2>7. (last - DelayTicks - MaximumCursorError) * Scale \in Int
    <3>1. last - DelayTicks - MaximumCursorError \in Int
      BY <1>2, RemoteAssumption
    <3> QED BY <3>1, ScaleOrder
  <2>8. Placed(c, last)
    <3> DEFINE low == (last - DelayTicks - MaximumCursorError) * Scale
    <3>1. low \in Int /\ low <= end /\ front <= end /\ end <= b.cursor
      BY <2>5, <2>6, <2>7
    <3> HIDE DEF low, front, end
    <3>2. low <= b.cursor /\ front <= b.cursor /\ ~(b.cursor < end)
      BY <1>3, <1>4, <3>1
    <3> QED BY <1>8, <2>2, <2>5, <3>2 DEF Placed, low, front, end
  <2>9. BufferSound(c, last, time)
    BY <1>1, <1>8, <2>2, <2>4, <2>5 DEF BufferSound
  <2> QED BY <1>3, <2>2, <2>8, <2>9 DEF Advances, c
<1>9. CASE b.ready /\ (b.hold = << >> \/ HasNewer(b))
  <2> DEFINE d == Disciplined(b, time)
  <2>1. c = [d EXCEPT !.advanced = <<time>>]
    BY <1>2, <1>9 DEF AdvanceBuffer
  <2>2. /\ d \in Buffers /\ d.ready /\ SamePicture(b, d) /\ b.cursor <= d.cursor
        /\ HoldOK(d, time) /\ Accounted(d, time) /\ Placed(d, last)
    BY <1>9, DisciplinedIs
  <2> HIDE DEF c, d
  <2>3. /\ c \in Buffers /\ SamePicture(d, c) /\ c.cursor = d.cursor /\ c.ready = d.ready
        /\ c.advanced = <<time>> /\ c.observed = d.observed
        /\ c.samples = d.samples /\ c.hold = d.hold /\ c.episodes = d.episodes
        /\ c.recoveries = d.recoveries /\ c.totalHold = d.totalHold
        /\ c.totalPostCap = d.totalPostCap
    BY <1>5, <2>1, <2>2 DEF Buffers, SamePicture
  <2>4. HoldOK(c, time) /\ Accounted(c, time)
    <3>1. Current(c, time) = Current(d, time)
      BY <2>3 DEF Current
    <3> QED BY <2>2, <2>3, <3>1 DEF HoldOK, Accounted
  <2>5. Placed(c, last)
    BY <2>2, <2>3 DEF Placed
  <2>6. SamePicture(b, c)
    BY <2>2, <2>3 DEF SamePicture
  <2>7. BufferSound(c, last, time)
    BY <1>1, <2>2, <2>3, <2>4, <2>5, <2>6 DEF BufferSound, Placed, SamePicture
  <2> QED BY <2>2, <2>3, <2>5, <2>6, <2>7 DEF Advances, c
<1>10. b.ready \in BOOLEAN
  BY <1>1 DEF Buffers
<1> QED BY <1>6, <1>7, <1>8, <1>9, <1>10

-----------------------------------------------------------------------------
(* The delayed view: arrivals.                                             *)

\* The samples after a newer tick arrived.
Grown(s, tick) == IF Len(s) = Capacity THEN Append(Tail(s), tick) ELSE Append(s, tick)

\* d of the oldest samples left.
Slid(s, g, d) ==
  /\ d \in 0 .. 1 /\ Len(g) = Len(s) + 1 - d
  /\ d = 1 => Len(s) >= 2
  /\ \A i \in 1 .. Len(s) - d : g[i] = s[i + d]

LEMMA GrownIs ==
  ASSUME NEW s, NEW last, SamplesOK(s, last), NEW tick \in 1 .. LastTick, last < tick
  PROVE  SamplesOK(Grown(s, tick), tick) /\ \E d \in 0 .. 1 : Slid(s, Grown(s, tick), d)
<1> DEFINE T == 1 .. LastTick
           n == Len(s)
           g == Grown(s, tick)
<1>1. /\ n \in Nat \ {0} /\ s \in Seq(T) /\ s # << >> /\ n <= Capacity /\ Capacity \in Nat
      /\ Capacity >= 2 /\ last \in Nat
      /\ \A i \in 1 .. n : s[i] \in T /\ s[i] <= last
      /\ \A i, j \in 1 .. n : i < j => s[i] < s[j]
  <2>1. Capacity \in Nat /\ Capacity >= 2
    BY RemoteAssumption
  <2>2. /\ n \in Nat \ {0} /\ s # << >> /\ last \in Nat
        /\ \A i \in 1 .. n : s[i] <= last
    BY SampleFacts
  <2>3. /\ s \in Seq(T) /\ n <= Capacity
        /\ \A i, j \in 1 .. n : i < j => s[i] < s[j]
    BY <2>1 DEF SamplesOK
  <2>4. \A i \in 1 .. n : s[i] \in T
    <3> HIDE DEF T
    <3> QED BY <2>3, ElementOfSeq
  <2> QED BY <2>1, <2>2, <2>3, <2>4
<1>2. LastTick \in Nat /\ tick \in T
  BY RemoteAssumption
<1>3. PICK d \in 0 .. 1 : (d = 1 <=> n = Capacity)
  <2>1. CASE n = Capacity
    BY <2>1
  <2>2. CASE n # Capacity
    BY <2>2
  <2> QED BY <2>1, <2>2
<1>4. /\ g \in Seq(T) /\ Len(g) = n + 1 - d /\ g[n + 1 - d] = tick
      /\ \A i \in 1 .. n - d : g[i] = s[i + d]
  <2>1. CASE d = 1
    <3>1. g = Append(Tail(s), tick)
      BY <1>3, <2>1 DEF Grown
    <3>2. /\ Tail(s) \in Seq(T) /\ Len(Tail(s)) = n - 1
          /\ \A i \in 1 .. n - 1 : Tail(s)[i] = s[i + 1]
      BY <1>1
    <3> QED BY <1>1, <1>2, <2>1, <3>1, <3>2
  <2>2. CASE d = 0
    <3>1. g = Append(s, tick)
      BY <1>3, <2>2 DEF Grown
    <3> QED BY <1>1, <1>2, <2>2, <3>1
  <2> QED BY <2>1, <2>2
<1> HIDE DEF g
<1>5. d = 1 => n >= 2
  BY <1>1, <1>3
<1>6. Len(g) \in 1 .. Capacity
  BY <1>1, <1>3, <1>4
<1>7. ASSUME NEW i \in 1 .. Len(g), NEW j \in 1 .. Len(g), i < j PROVE g[i] < g[j]
  <2>1. /\ i \in 1 .. n - d /\ i + d \in 1 .. n /\ g[i] = s[i + d]
    BY <1>1, <1>4, <1>7
  <2>2. CASE j = n + 1 - d
    <3>1. s[i + d] \in T /\ s[i + d] <= last
      BY <1>1, <2>1
    <3>2. s[i + d] \in Int /\ tick \in Int /\ last \in Int
      BY <1>1, <1>2, <3>1
    <3>3. s[i + d] < tick
      BY <3>1, <3>2
    <3> QED BY <1>4, <2>1, <2>2, <3>3
  <2>3. CASE j # n + 1 - d
    <3>1. n \in Int /\ d \in Int /\ Len(g) = n + 1 - d /\ j \in 1 .. n + 1 - d
      BY <1>1, <1>3, <1>4
    <3>2. j \in 1 .. n - d /\ j + d \in 1 .. n /\ i + d < j + d
      BY <1>3, <1>7, <2>3, <3>1
    <3>3. g[j] = s[j + d]
      BY <1>4, <3>2
    <3>4. s[i + d] < s[j + d]
      BY <1>1, <2>1, <3>2
    <3> QED BY <2>1, <3>3, <3>4
  <2> QED BY <2>2, <2>3
<1>8. SamplesOK(g, tick)
  BY <1>4, <1>6, <1>7 DEF SamplesOK
<1>9. Slid(s, g, d)
  BY <1>4, <1>5 DEF Slid
<1> QED BY <1>8, <1>9 DEF g

\* The history of arrivals: every retained sample arrived, and what arrived since
\* the first of them is retained.
Retains(s, seen, last) ==
  /\ \A i \in 1 .. Len(s) : s[i] \in seen
  /\ \A t \in seen : /\ t \in Nat \ {0} /\ t <= last
                     /\ s[1] <= t => \E i \in 1 .. Len(s) : s[i] = t

\* A moment that the delayed view has shown lies behind it.
Passed(s, cursor, m) == m <= s[1] \/ \E i \in 1 .. Len(s) : s[i] = m /\ m * Scale <= cursor

LEMMA GrownKeeps ==
  ASSUME NEW s, NEW last, SamplesOK(s, last), NEW tick \in 1 .. LastTick, last < tick,
         NEW seen, Retains(s, seen, last)
  PROVE  /\ Retains(Grown(s, tick), seen \cup {tick}, tick)
         /\ \A cursor, m \in Int : Passed(s, cursor, m) => Passed(Grown(s, tick), cursor, m)
<1> DEFINE n == Len(s)
           g == Grown(s, tick)
<1>1. SamplesOK(g, tick) /\ \E d \in 0 .. 1 : Slid(s, g, d)
  BY GrownIs
<1>2. PICK d \in 0 .. 1 : Slid(s, g, d)
  BY <1>1
<1> HIDE DEF g
<1>3. /\ n \in Nat \ {0} /\ last \in Nat
      /\ \A i \in 1 .. n : s[i] \in Nat /\ s[1] <= s[i] /\ s[i] <= last
  BY SampleFacts
<1>4. /\ Len(g) = n + 1 - d
      /\ d = 1 => n >= 2
      /\ \A i \in 1 .. n - d : g[i] = s[i + d]
      /\ g[n + 1 - d] = tick
  <2>1. Len(g) = n + 1 - d /\ g[Len(g)] = tick
    BY <1>1, <1>2 DEF Slid, SamplesOK
  <2> QED BY <1>2, <2>1 DEF Slid
<1>5. \A i, j \in 1 .. n : i < j => s[i] < s[j]
  BY DEF SamplesOK
<1>6. g[1] = s[1 + d] /\ 1 + d \in 1 .. n /\ s[1 + d] \in Nat
  BY <1>3, <1>4
<1>7. ASSUME NEW i \in 1 .. Len(g) PROVE g[i] \in seen \cup {tick}
  <2>1. CASE i = n + 1 - d
    BY <1>4, <2>1
  <2>2. CASE i # n + 1 - d
    <3>1. i \in 1 .. n - d /\ i + d \in 1 .. n
      BY <1>3, <1>4, <2>2
    <3> QED BY <1>4, <3>1 DEF Retains
  <2> QED BY <2>1, <2>2
\* A retained sample that does not leave.
<1>8. ASSUME NEW i \in 1 .. n, g[1] <= s[i]
      PROVE  \E k \in 1 .. Len(g) : g[k] = s[i]
  <2>1. i >= 1 + d
    <3>1. ~(i < 1 + d)
      <4>1. ASSUME i < 1 + d PROVE FALSE
        <5>1. s[i] < s[1 + d] /\ s[i] \in Nat
          BY <1>3, <1>5, <1>6, <4>1
        <5> QED BY <1>6, <1>8, <5>1
      <4> QED BY <4>1
    <3> QED BY <3>1
  <2>2. i - d \in 1 .. n - d /\ i - d \in 1 .. Len(g) /\ (i - d) + d = i
    BY <1>3, <1>4, <2>1
  <2>3. g[i - d] = s[i]
    BY <1>4, <2>2
  <2> QED BY <2>2, <2>3
<1>9. ASSUME NEW t \in seen \cup {tick}
      PROVE  /\ t \in Nat \ {0} /\ t <= tick
             /\ g[1] <= t => \E i \in 1 .. Len(g) : g[i] = t
  <2>1. CASE t = tick
    <3>1. n + 1 - d \in 1 .. Len(g)
      BY <1>3, <1>4
    <3> QED BY <1>4, <2>1, <3>1
  <2>2. CASE t \in seen
    <3>1. /\ t \in Nat \ {0} /\ t <= last
          /\ s[1] <= t => \E i \in 1 .. n : s[i] = t
      BY <2>2 DEF Retains
    <3>2. ASSUME g[1] <= t PROVE \E i \in 1 .. Len(g) : g[i] = t
      <4>1. s[1] \in Nat /\ s[1] <= g[1]
        BY <1>3, <1>6
      <4>2. PICK i \in 1 .. n : s[i] = t
        BY <1>6, <3>1, <3>2, <4>1
      <4> QED BY <1>8, <3>2, <4>2
    <3>3. t <= tick
      BY <1>3, <3>1
    <3> QED BY <3>1, <3>2, <3>3
  <2> QED BY <2>1, <2>2
<1>10. Retains(g, seen \cup {tick}, tick)
  BY <1>7, <1>9 DEF Retains
<1>11. ASSUME NEW cursor \in Int, NEW m \in Int, Passed(s, cursor, m)
       PROVE  Passed(g, cursor, m)
  <2>1. CASE m <= g[1]
    BY <2>1 DEF Passed
  <2>2. CASE ~(m <= g[1])
    <3>1. s[1] \in Nat /\ s[1] <= g[1] /\ g[1] \in Nat
      BY <1>3, <1>6
    <3>2. ~(m <= s[1])
      BY <2>2, <3>1
    <3>3. PICK i \in 1 .. n : s[i] = m /\ m * Scale <= cursor
      BY <1>11, <3>2 DEF Passed
    <3>4. g[1] <= s[i]
      BY <2>2, <3>1, <3>3
    <3>5. \E k \in 1 .. Len(g) : g[k] = s[i]
      BY <1>8, <3>4
    <3> QED BY <3>3, <3>5 DEF Passed
  <2> QED BY <2>1, <2>2
<1> QED BY <1>10, <1>11 DEF g

\* An arrival that is newer than every sample.
LEMMA InsertIs ==
  ASSUME NEW b, NEW last, NEW time, BufferSound(b, last, time),
         NEW tick \in 1 .. LastTick, last < tick
  PROVE  /\ InsertSample(b, tick) = [b EXCEPT !.samples = Grown(b.samples, tick)]
         /\ BufferSound(InsertSample(b, tick), tick, time)
<1> DEFINE c == InsertSample(b, tick)
           g == Grown(b.samples, tick)
<1>1. b \in Buffers /\ SamplesOK(b.samples, last)
  BY DEF BufferSound
<1>2. b.samples # << >> /\ Newest(b) = last /\ last \in Nat
  BY <1>1, SampleFacts DEF Newest
<1>3. ~(tick <= Newest(b))
  BY <1>2
<1>4. c = [b EXCEPT !.samples = g, !.cursor = b.cursor]
  BY <1>2, <1>3 DEF InsertSample, Grown
<1>5. c = [b EXCEPT !.samples = g]
  BY <1>1, <1>4 DEF Buffers
<1>6. SamplesOK(g, tick)
  BY <1>1, GrownIs
<1> HIDE DEF c, g
<1>7. g \in Seq(1 .. LastTick)
  BY <1>6 DEF SamplesOK
<1>8. /\ c \in Buffers /\ c.samples = g /\ c.cursor = b.cursor /\ c.ready = b.ready
      /\ c.advanced = b.advanced /\ c.observed = b.observed /\ c.hold = b.hold
      /\ c.episodes = b.episodes /\ c.recoveries = b.recoveries
      /\ c.totalHold = b.totalHold /\ c.totalPostCap = b.totalPostCap
  BY <1>1, <1>5, <1>7 DEF Buffers
<1>9. Accounted(b, time) => Accounted(c, time)
  <2>1. Current(c, time) = Current(b, time)
    BY <1>8 DEF Current
  <2> QED BY <1>8, <2>1 DEF Accounted
<1>10. HoldOK(b, time) => HoldOK(c, time)
  BY <1>8 DEF HoldOK
<1>11. last * Scale <= tick * Scale /\ last * Scale \in Int /\ tick * Scale \in Int
       /\ MaxFrame * MaxRate \in Int
  <2>1. last \in Int /\ tick \in Int /\ last <= tick
    BY <1>2
  <2>2. last * Scale <= tick * Scale /\ last * Scale \in Int /\ tick * Scale \in Int
    BY <2>1, ScaleOrder
  <2>3. MaxFrame \in Nat /\ MaxRate \in Nat
    BY RemoteAssumption
  <2>4. MaxFrame * MaxRate \in Int
    BY <2>3, SMT
  <2> QED BY <2>2, <2>4
<1>12. b.cursor \in Int
  BY <1>1 DEF Buffers
<1>13. CASE b.ready
  <2> DEFINE old == last * Scale
             new == tick * Scale
             reach == MaxFrame * MaxRate
  <2>1. /\ b.cursor <= old + reach
        /\ b.hold = << >> => b.cursor < old
        /\ b.advanced = <<time>> /\ HoldOK(b, time) /\ Accounted(b, time)
    BY <1>13 DEF BufferSound
  <2>2. old <= new /\ old \in Int /\ new \in Int /\ reach \in Int
    BY <1>11
  <2> HIDE DEF old, new, reach
  <2>3. /\ b.cursor <= new + reach
        /\ b.hold = << >> => b.cursor < new
    BY <1>12, <2>1, <2>2
  <2> QED BY <1>5, <1>6, <1>8, <1>9, <1>10, <1>13, <2>1, <2>3
       DEF BufferSound, new, reach, c, g
<1>14. CASE ~b.ready
  <2>1. /\ b.cursor <= b.samples[1] * Scale /\ b.hold = << >> /\ b.episodes = 0
        /\ b.recoveries = 0 /\ b.totalHold = 0 /\ b.totalPostCap = 0
    BY <1>14 DEF BufferSound
  <2>2. b.samples[1] <= g[1] /\ b.samples[1] \in Int /\ g[1] \in Int
    <3>1. PICK d \in 0 .. 1 : Slid(b.samples, g, d)
      BY <1>1, GrownIs DEF g
    <3>2. /\ Len(b.samples) \in Nat \ {0}
          /\ \A i \in 1 .. Len(b.samples) :
               b.samples[i] \in Nat /\ b.samples[1] <= b.samples[i]
      BY <1>1, SampleFacts
    <3>3. /\ d = 0 \/ (d = 1 /\ Len(b.samples) >= 2)
          /\ \A i \in 1 .. Len(b.samples) - d : g[i] = b.samples[i + d]
      BY <3>1 DEF Slid
    <3>4. 1 \in 1 .. Len(b.samples) - d /\ 1 + d \in 1 .. Len(b.samples)
      BY <3>2, <3>3
    <3>5. g[1] = b.samples[1 + d]
      BY <3>3, <3>4
    <3> QED BY <3>2, <3>4, <3>5
  <2> DEFINE old == b.samples[1] * Scale
             new == g[1] * Scale
  <2>3. old <= new /\ old \in Int /\ new \in Int
    BY <2>2, ScaleOrder
  <2>4. b.cursor <= old
    BY <2>1
  <2> HIDE DEF old, new
  <2>5. b.cursor <= new
    BY <1>12, <2>3, <2>4
  <2> QED BY <1>5, <1>6, <1>8, <1>14, <2>1, <2>5 DEF BufferSound, new, c, g
<1> QED BY <1>1, <1>13, <1>14

-----------------------------------------------------------------------------
(* The delayed view: what a frame shows.                                   *)

\* The older sample is the newest arrival at or before the cursor.
LEMMA MomentIs ==
  ASSUME NEW b, NEW last, SamplesOK(b.samples, last), b.cursor \in Int,
         NEW seen, Retains(b.samples, seen, last), b.samples[1] * Scale <= b.cursor,
         NEW reached, reached = {t \in seen : t * Scale <= b.cursor /\ t <= last}
  PROVE  reached # {} /\ b.samples[OlderIndex(b)] = Max(reached)
<1> DEFINE s == b.samples
           i == OlderIndex(b)
<1>1. /\ Len(s) \in Nat \ {0}
      /\ \A k \in 1 .. Len(s) : s[k] \in Nat /\ s[k] <= last
  BY SampleFacts
<1>2. /\ i \in 1 .. Len(s) /\ s[i] * Scale <= b.cursor
      /\ \A k \in 2 .. Len(s) : s[k] * Scale <= b.cursor => k <= i
  BY OlderIs
<1> HIDE DEF i
<1>3. s[i] \in reached
  BY <1>1, <1>2 DEF Retains
<1>4. ASSUME NEW t \in reached PROVE t <= s[i]
  <2>1. t \in Nat /\ s[1] \in Nat /\ s[i] \in Nat /\ t * Scale <= b.cursor
    BY <1>1, <1>2 DEF Retains
  <2>2. ASSUME NEW k \in 1 .. i PROVE s[k] <= s[i]
    <3>1. CASE k = i
      BY <2>1, <3>1
    <3>2. CASE k # i
      <4>1. k \in 1 .. Len(s) /\ k < i
        BY <1>1, <1>2, <3>2
      <4>2. s[k] < s[i] /\ s[k] \in Nat
        BY <1>1, <1>2, <4>1 DEF SamplesOK
      <4> QED BY <2>1, <4>2
    <3> QED BY <3>1, <3>2
  <2>3. CASE t < s[1]
    <3>1. s[1] <= s[i]
      BY <1>2, <2>2
    <3> QED BY <2>1, <2>3, <3>1
  <2>4. CASE s[1] <= t
    <3>1. PICK k \in 1 .. Len(s) : s[k] = t
      BY <2>4 DEF Retains
    <3>2. k <= i
      <4>1. CASE k = 1
        BY <1>2, <4>1
      <4>2. CASE k # 1
        <5>1. k \in 2 .. Len(s)
          BY <1>1, <4>2
        <5> QED BY <1>2, <2>1, <3>1, <5>1
      <4> QED BY <4>1, <4>2
    <3>3. k \in 1 .. i
      BY <1>1, <1>2, <3>2
    <3> QED BY <2>2, <3>1, <3>3
  <2> QED BY <2>1, <2>3, <2>4
<1>5. reached \in SUBSET Int
  BY DEF Retains
<1>6. Max(reached) = s[i]
  BY <1>3, <1>4, <1>5, MaxIs
<1> QED BY <1>3, <1>6 DEF i

\* The player's own body, which the delayed view leaves out while it plays.
Excluded(plays) == IF plays THEN {Own} ELSE {}

\* The entities that have come into a picture of moment m, and those that left.
Born(m, plays) == {e \in Entities : \E t \in Lives[e] : t <= m} \ Excluded(plays)
Gone(m) == {e \in Entities : m \notin Lives[e] /\ \E t \in Lives[e] : t <= m}

\* The picture is that of moment m, drawn when the newest snapshot was the given
\* one, and what was counted is no more than what came and went by then.
Pictured(b, newest, plays, m) ==
  /\ m \in Nat /\ newest \in Nat /\ m <= newest
  /\ plays <=> Own \in WorldAt(newest)
  /\ b.presented = WorldAt(m) \ Excluded(plays)
  /\ b.created <= Cardinality(Born(m, plays))
  /\ b.removed <= Cardinality(Gone(m))
  /\ Passed(b.samples, b.cursor, m)

\* Everything finite here is a set of entities.
LEMMA EntitySets ==
  /\ \A S \in SUBSET Entities : IsFiniteSet(S) /\ Cardinality(S) \in Nat
  /\ \A S, T, U \in SUBSET Entities :
       S \cap T = {} /\ S \subseteq U /\ T \subseteq U =>
         Cardinality(S) + Cardinality(T) <= Cardinality(U)
  /\ \A S, T \in SUBSET Entities : S \subseteq T => Cardinality(S) <= Cardinality(T)
<1>1. ASSUME NEW S \in SUBSET Entities PROVE IsFiniteSet(S) /\ Cardinality(S) \in Nat
  BY RemoteAssumption, FS_Subset, FS_CardinalityType
<1>2. ASSUME NEW S \in SUBSET Entities, NEW T \in SUBSET Entities, S \subseteq T
      PROVE  Cardinality(S) <= Cardinality(T)
  BY <1>1, <1>2, FS_Subset
<1>3. ASSUME NEW S \in SUBSET Entities, NEW T \in SUBSET Entities,
             NEW U \in SUBSET Entities, S \cap T = {}, S \subseteq U, T \subseteq U
      PROVE  Cardinality(S) + Cardinality(T) <= Cardinality(U)
  <2>1. IsFiniteSet(S) /\ IsFiniteSet(T)
    BY <1>1
  <2>2. Cardinality(S \cup T) = Cardinality(S) + Cardinality(T) - Cardinality(S \cap T)
    BY <2>1, FS_Union
  <2>3. Cardinality(S \cap T) = 0
    BY <1>3, FS_EmptySet
  <2>4. Cardinality(S \cup T) <= Cardinality(U)
    BY <1>2, <1>3
  <2>5. Cardinality(S) \in Nat /\ Cardinality(T) \in Nat
    BY <1>1
  <2> QED BY <2>2, <2>3, <2>4, <2>5
<1> QED BY <1>1, <1>2, <1>3

\* From one picture to a later one, an entity comes at most once and leaves at
\* most once.
LEMMA NoEntityReturns ==
  ASSUME NEW m \in Nat, NEW newest \in Nat, NEW n \in Nat, NEW last \in Nat,
         m <= n, newest <= last, m <= newest, n <= last,
         NEW p \in BOOLEAN, NEW q \in BOOLEAN,
         p <=> Own \in WorldAt(newest), q <=> Own \in WorldAt(last),
         NEW old, old = WorldAt(m) \ Excluded(p),
         NEW new, new = WorldAt(n) \ Excluded(q)
  PROVE  /\ Cardinality(new \ old) + Cardinality(Born(m, p)) <= Cardinality(Born(n, q))
         /\ Cardinality(old \ new) + Cardinality(Gone(m)) <= Cardinality(Gone(n))
<1>1. \A e \in Entities : \A t \in Lives[e] : t \in Nat
  BY RemoteAssumption
\* An entity that lives at two moments lives between them.
<1>2. ASSUME NEW e \in Entities, NEW t \in Lives[e], NEW u \in Lives[e], NEW k \in Nat,
             t <= k, k <= u
      PROVE  k \in Lives[e]
  <2>1. k \in t .. u /\ t .. u \subseteq Lives[e]
    BY <1>1, <1>2, LivesAssumption
  <2> QED BY <2>1
\* Once the player's body has been alive and is not, it does not play again.
<1>3. ASSUME ~p, q, NEW t \in Lives[Own], t <= m PROVE FALSE
  <2>1. Own \in Entities /\ last \in Lives[Own] /\ newest \notin Lives[Own]
    BY <1>3, RemoteAssumption DEF WorldAt
  <2>2. t \in Nat /\ t <= newest
    BY <1>1, <1>3, <2>1
  <2> QED BY <1>2, <2>1, <2>2
<1>4. Born(m, p) \subseteq Born(n, q)
  <2>1. ASSUME NEW e \in Born(m, p) PROVE e \in Born(n, q)
    <3>1. e \in Entities /\ e \notin Excluded(p)
      BY DEF Born
    <3>2. PICK t \in Lives[e] : t <= m
      BY DEF Born
    <3>3. t <= n
      BY <1>1, <3>1, <3>2
    <3>4. e \notin Excluded(q)
      BY <1>3, <3>1, <3>2 DEF Excluded
    <3> QED BY <3>1, <3>2, <3>3, <3>4 DEF Born
  <2> QED BY <2>1
<1>5. ASSUME NEW e \in new \ old PROVE e \in Born(n, q) /\ e \notin Born(m, p)
  <2>1. e \in Entities /\ n \in Lives[e] /\ e \notin Excluded(q)
    BY DEF WorldAt
  <2>2. e \in Born(n, q)
    BY <2>1 DEF Born
  <2>3. ASSUME e \in Born(m, p) PROVE FALSE
    <3>1. PICK t \in Lives[e] : t <= m
      BY <2>3 DEF Born
    <3>2. m \in Lives[e]
      BY <1>2, <2>1, <3>1
    <3>3. e \in old
      BY <2>1, <2>3, <3>2 DEF Born, WorldAt
    <3> QED BY <3>3
  <2> QED BY <2>2, <2>3
<1>6. Gone(m) \subseteq Gone(n)
  <2>1. ASSUME NEW e \in Gone(m) PROVE e \in Gone(n)
    <3>1. e \in Entities /\ m \notin Lives[e]
      BY DEF Gone
    <3>2. PICK t \in Lives[e] : t <= m
      BY DEF Gone
    <3>3. n \notin Lives[e]
      BY <1>2, <3>1, <3>2
    <3>4. t <= n
      BY <1>1, <3>1, <3>2
    <3> QED BY <3>1, <3>2, <3>3, <3>4 DEF Gone
  <2> QED BY <2>1
<1>7. ASSUME NEW e \in old \ new PROVE e \in Gone(n) /\ e \notin Gone(m)
  <2>1. e \in Entities /\ m \in Lives[e] /\ e \notin Excluded(p)
    BY DEF WorldAt
  <2>2. e \notin Gone(m)
    BY <2>1 DEF Gone
  <2>3. n \notin Lives[e]
    <3>1. ASSUME n \in Lives[e] PROVE FALSE
      <4>1. e \in Excluded(q)
        BY <2>1, <3>1 DEF WorldAt
      <4>2. q /\ e = Own /\ ~p
        BY <2>1, <4>1 DEF Excluded
      <4>3. m <= m
        OBVIOUS
      <4> QED BY <1>3, <2>1, <4>2, <4>3
    <3> QED BY <3>1
  <2> QED BY <2>1, <2>2, <2>3 DEF Gone
<1>8. /\ old \in SUBSET Entities /\ new \in SUBSET Entities
      /\ Born(m, p) \in SUBSET Entities /\ Born(n, q) \in SUBSET Entities
      /\ Gone(m) \in SUBSET Entities /\ Gone(n) \in SUBSET Entities
  BY DEF WorldAt, Born, Gone
<1> DEFINE came == new \ old
           left == old \ new
<1>9. /\ came \in SUBSET Entities /\ came \cap Born(m, p) = {}
      /\ came \subseteq Born(n, q)
  BY <1>5, <1>8
<1>10. /\ left \in SUBSET Entities /\ left \cap Gone(m) = {}
       /\ left \subseteq Gone(n)
  BY <1>7, <1>8
<1> HIDE DEF came, left
<1>11. Cardinality(came) + Cardinality(Born(m, p)) <= Cardinality(Born(n, q))
  BY <1>4, <1>8, <1>9, EntitySets
<1>12. Cardinality(left) + Cardinality(Gone(m)) <= Cardinality(Gone(n))
  BY <1>6, <1>8, <1>10, EntitySets
<1> QED BY <1>11, <1>12 DEF came, left

\* Drawing from a buffer changes what it says was shown, and nothing else.
Draws(c, d, shown) ==
  /\ d.samples = c.samples /\ d.cursor = c.cursor /\ d.ready = c.ready /\ d.hold = c.hold
  /\ d.presented = shown /\ d.lifecycle = TRUE
  /\ d.created = c.created + (IF c.lifecycle THEN Cardinality(shown \ c.presented) ELSE 0)
  /\ d.removed = c.removed + (IF c.lifecycle THEN Cardinality(c.presented \ shown) ELSE 0)

LEMMA DrawnIs ==
  ASSUME NEW c, NEW last, NEW time, BufferSound(c, last, time), NEW controlled
  PROVE  /\ BufferSound(SampleBuffer(c, controlled), last, time)
         /\ Draws(c, SampleBuffer(c, controlled),
                  WorldAt(c.samples[OlderIndex(c)]) \ controlled)
<1> DEFINE shown == WorldAt(c.samples[OlderIndex(c)]) \ controlled
           d == SampleBuffer(c, controlled)
<1>1. c \in Buffers /\ SamplesOK(c.samples, last)
  BY DEF BufferSound
<1>2. c.samples # << >>
  BY <1>1, SampleFacts
<1>3. c.cursor \in Int
  BY <1>1 DEF Buffers
<1>4. SampledEntities(c, controlled) = shown
  BY <1>1, <1>3, SampledIs
<1>5. d = RecordLifecycle(c, shown)
  BY <1>2, <1>4 DEF SampleBuffer
<1> HIDE DEF d
<1>6. shown \in SUBSET Entities /\ c.presented \in SUBSET Entities
  BY <1>1 DEF WorldAt, Buffers
<1> HIDE DEF shown
<1> DEFINE came == IF c.lifecycle THEN Cardinality(shown \ c.presented) ELSE 0
           left == IF c.lifecycle THEN Cardinality(c.presented \ shown) ELSE 0
<1>7. came \in Nat /\ left \in Nat
  <2>1. /\ Cardinality(shown \ c.presented) \in Nat
        /\ Cardinality(c.presented \ shown) \in Nat
    <3>1. shown \ c.presented \in SUBSET Entities /\ c.presented \ shown \in SUBSET Entities
      BY <1>6
    <3> QED BY <3>1, EntitySets
  <2> QED BY <2>1
<1>8. c.created \in Nat /\ c.removed \in Nat /\ c.lifecycle \in BOOLEAN
  BY <1>1 DEF Buffers
<1>9. PICK x \in Nat, y \in Nat : x = c.created + came /\ y = c.removed + left
  <2>1. c.created + came \in Nat /\ c.removed + left \in Nat
    BY <1>7, <1>8
  <2> QED BY <2>1, Zenon
<1>10. d = [c EXCEPT !.presented = shown, !.lifecycle = TRUE, !.created = x, !.removed = y]
  <2>1. CASE ~c.lifecycle
    <3>1. x = c.created /\ y = c.removed
      BY <1>8, <1>9, <2>1
    <3>2. d = [c EXCEPT !.presented = shown, !.lifecycle = TRUE]
      BY <1>5, <2>1 DEF RecordLifecycle
    <3> QED BY <1>1, <3>1, <3>2 DEF Buffers
  <2>2. CASE c.lifecycle
    <3>1. d = [c EXCEPT !.presented = shown, !.created = x, !.removed = y]
      BY <1>5, <1>9, <2>2 DEF RecordLifecycle
    <3>2. c.lifecycle = TRUE
      BY <1>8, <2>2
    <3> QED BY <1>1, <3>1, <3>2 DEF Buffers
  <2> QED BY <2>1, <2>2
<1>11. /\ d \in Buffers /\ d.samples = c.samples /\ d.cursor = c.cursor /\ d.ready = c.ready
       /\ d.advanced = c.advanced /\ d.observed = c.observed /\ d.hold = c.hold
       /\ d.episodes = c.episodes /\ d.recoveries = c.recoveries
       /\ d.totalHold = c.totalHold /\ d.totalPostCap = c.totalPostCap
       /\ d.presented = shown /\ d.lifecycle = TRUE /\ d.created = x /\ d.removed = y
  BY <1>1, <1>6, <1>9, <1>10 DEF Buffers
<1>12. Accounted(c, time) => Accounted(d, time)
  <2>1. Current(d, time) = Current(c, time)
    BY <1>11 DEF Current
  <2> QED BY <1>11, <2>1 DEF Accounted
<1>13. HoldOK(c, time) => HoldOK(d, time)
  BY <1>11 DEF HoldOK
<1>14. BufferSound(d, last, time)
  BY <1>11, <1>12, <1>13 DEF BufferSound
<1>15. Draws(c, d, shown)
  BY <1>9, <1>11 DEF Draws
<1> QED BY <1>14, <1>15 DEF d, shown

\* A drawn picture is that of the older sample, and counts at most what came and
\* went by then.
LEMMA PictureIs ==
  ASSUME NEW b, NEW c, NEW last \in Nat, NEW time, BufferSound(c, last, time),
         SamePicture(b, c), b.cursor \in Int, b.cursor <= c.cursor,
         NEW newest \in Nat, newest <= last, NEW p \in BOOLEAN, NEW q \in BOOLEAN,
         \/ ~b.lifecycle /\ b.created = 0 /\ b.removed = 0
         \/ b.lifecycle /\ \E m \in Nat : Pictured(b, newest, p, m),
         q <=> Own \in WorldAt(last),
         NEW d, d = SampleBuffer(c, Excluded(q))
  PROVE  d.lifecycle /\ \E m \in Nat : Pictured(d, last, q, m)
<1> DEFINE s == c.samples
           i == OlderIndex(c)
           n == s[i]
           shown == WorldAt(n) \ Excluded(q)
<1>1. c \in Buffers /\ SamplesOK(s, last)
  BY DEF BufferSound
<1>2. c.cursor \in Int /\ b.samples = s /\ c.presented = b.presented
      /\ c.lifecycle = b.lifecycle /\ c.created = b.created /\ c.removed = b.removed
      /\ c.created \in Nat /\ c.removed \in Nat
  BY <1>1 DEF Buffers, SamePicture
<1>3. /\ Len(s) \in Nat \ {0}
      /\ \A k \in 1 .. Len(s) : s[k] \in Nat /\ s[1] <= s[k] /\ s[k] <= last
  BY <1>1, SampleFacts
<1>4. /\ i # 1 => s[i] * Scale <= c.cursor
      /\ \A k \in 2 .. Len(s) : s[k] * Scale <= c.cursor => k <= i
  BY <1>1, <1>2, OlderIs
<1>5. i \in 1 .. Len(s)
  BY <1>1, <1>2, OlderIs
<1>6. /\ BufferSound(d, last, time) /\ d.samples = s /\ d.cursor = c.cursor
      /\ d.presented = shown /\ d.lifecycle = TRUE
      /\ d.created = c.created + (IF c.lifecycle THEN Cardinality(shown \ c.presented) ELSE 0)
      /\ d.removed = c.removed + (IF c.lifecycle THEN Cardinality(c.presented \ shown) ELSE 0)
  <2>1. /\ BufferSound(SampleBuffer(c, Excluded(q)), last, time)
        /\ Draws(c, SampleBuffer(c, Excluded(q)),
                 WorldAt(c.samples[OlderIndex(c)]) \ Excluded(q))
    BY DrawnIs
  <2>2. BufferSound(d, last, time) /\ Draws(c, d, shown)
    BY <2>1
  <2> QED BY <2>2 DEF Draws
<1> HIDE DEF i
<1>7. n \in Nat /\ n <= last
  BY <1>3, <1>5
<1>8. Passed(s, c.cursor, n)
  <2>1. CASE i = 1
    <3>1. n <= s[1] /\ s[1] \in Nat
      BY <1>3, <1>5, <2>1
    <3> QED BY <3>1 DEF Passed
  <2>2. CASE i # 1
    BY <1>4, <1>5, <2>2 DEF Passed
  <2> QED BY <2>1, <2>2
<1> HIDE DEF shown
<1>9. ASSUME d.created <= Cardinality(Born(n, q)), d.removed <= Cardinality(Gone(n))
      PROVE  Pictured(d, last, q, n)
  BY <1>6, <1>7, <1>8, <1>9 DEF Pictured, shown
<1>10. /\ Cardinality(Born(n, q)) \in Nat /\ Cardinality(Gone(n)) \in Nat
  <2>1. Born(n, q) \in SUBSET Entities /\ Gone(n) \in SUBSET Entities
    BY DEF Born, Gone
  <2> QED BY <2>1, EntitySets
<1>11. CASE ~b.lifecycle /\ b.created = 0 /\ b.removed = 0
  <2>1. d.created = 0 /\ d.removed = 0
    BY <1>2, <1>6, <1>11
  <2> QED BY <1>6, <1>7, <1>9, <1>10, <2>1
<1>12. CASE b.lifecycle /\ \E m \in Nat : Pictured(b, newest, p, m)
  <2>1. PICK m \in Nat : Pictured(b, newest, p, m)
    BY <1>12
  <2>3. /\ m <= newest
        /\ p <=> Own \in WorldAt(newest)
        /\ c.presented = WorldAt(m) \ Excluded(p)
        /\ c.created <= Cardinality(Born(m, p))
        /\ c.removed <= Cardinality(Gone(m))
        /\ Passed(s, b.cursor, m)
    BY <1>2, <2>1 DEF Pictured
  <2>4. m <= n
    <3>1. s[1] \in Nat /\ s[1] <= n
      BY <1>3, <1>5
    <3>2. CASE m <= s[1]
      BY <1>7, <3>1, <3>2
    <3>3. CASE \E k \in 1 .. Len(s) : s[k] = m /\ m * Scale <= b.cursor
      <4>1. PICK k \in 1 .. Len(s) : s[k] = m /\ m * Scale <= b.cursor
        BY <3>3
      <4>2. m * Scale \in Int
        BY ScaleOrder
      <4>3. s[k] * Scale <= c.cursor
        <5>1. m * Scale <= c.cursor
          BY <1>2, <4>1, <4>2
        <5> QED BY <4>1, <5>1
      <4>4. k <= i
        <5>1. CASE k = 1
          BY <1>5, <5>1
        <5>2. CASE k # 1
          <6>1. k \in 2 .. Len(s)
            BY <1>3, <5>2
          <6> QED BY <1>4, <4>3, <6>1
        <5> QED BY <5>1, <5>2
      <4>5. CASE k = i
        BY <1>7, <4>1, <4>5
      <4>6. CASE k # i
        <5>1. k < i
          BY <1>3, <1>5, <4>4, <4>6
        <5>2. s[k] < s[i]
          BY <1>1, <1>5, <5>1 DEF SamplesOK
        <5> QED BY <1>7, <4>1, <5>2
      <4> QED BY <4>5, <4>6
    <3> QED BY <2>3, <3>2, <3>3 DEF Passed
  <2> DEFINE old == WorldAt(m) \ Excluded(p)
  <2>5. /\ Cardinality(shown \ old) + Cardinality(Born(m, p)) <= Cardinality(Born(n, q))
        /\ Cardinality(old \ shown) + Cardinality(Gone(m)) <= Cardinality(Gone(n))
    BY <1>7, <2>3, <2>4, NoEntityReturns DEF shown
  <2>6. /\ Cardinality(shown \ old) \in Nat /\ Cardinality(old \ shown) \in Nat
        /\ Cardinality(Born(m, p)) \in Nat /\ Cardinality(Gone(m)) \in Nat
    <3>1. /\ shown \ old \in SUBSET Entities /\ old \ shown \in SUBSET Entities
          /\ Born(m, p) \in SUBSET Entities /\ Gone(m) \in SUBSET Entities
      BY DEF shown, WorldAt, Born, Gone
    <3> QED BY <3>1, EntitySets
  <2>7. c.presented = old /\ c.lifecycle
    BY <1>2, <1>12, <2>3
  <2> HIDE DEF old
  <2>8. /\ d.created = c.created + Cardinality(shown \ old)
        /\ d.removed = c.removed + Cardinality(old \ shown)
    BY <1>6, <2>7
  <2>9. /\ d.created <= Cardinality(Born(n, q))
        /\ d.removed <= Cardinality(Gone(n))
    BY <1>2, <1>10, <2>3, <2>5, <2>6, <2>8
  <2> QED BY <1>6, <1>7, <1>9, <2>9
<1> QED BY <1>11, <1>12

-----------------------------------------------------------------------------
(* The delayed view: the invariant.                                        *)

\* What the last frame drew.
FrameSound ==
  /\ CursorNearTarget /\ FrameShowsOneMoment /\ PoseFollowsCursor
  /\ FallbackShowsSameEntities
  /\ frame.newest \in 0 .. applied /\ frame.playing \in BOOLEAN
  /\ frame.drawn => applied > 0

\* What was shown and counted.
PictureSound ==
  \/ ~frame.drawn /\ ~buffer.lifecycle /\ buffer.created = 0 /\ buffer.removed = 0
  \/ /\ frame.drawn /\ buffer.lifecycle
     /\ \E m \in Nat : Pictured(buffer, frame.newest, frame.playing, m)

\* Before the first snapshot everything is as it started; after it the buffer
\* holds the newest arrivals, and the extrapolation buffer agrees on the newest.
RemoteInv ==
  /\ now \in 0 .. MaxTime /\ serverTick \in 0 .. LastTick /\ applied \in 0 .. serverTick
  /\ ~failed
  /\ \/ latest = << >>
     \/ rules /\ applied > 0 /\ \E a \in Int : latest = <<[tick |-> applied, arrival |-> a]>>
  /\ applied = 0 => buffer = EmptyBuffer /\ received = {}
  /\ applied > 0 => /\ BufferSound(buffer, applied, now)
                    /\ Retains(buffer.samples, received, applied)
  /\ FrameSound /\ PictureSound

LEMMA EmptyBufferIs ==
  EmptyBuffer \in Buffers /\ EmptyBuffer.samples = << >>
<1> QED BY DEF EmptyBuffer, Buffers

LEMMA RemoteStart ==
  ASSUME RemoteInit PROVE RemoteInv
<1>1. /\ frame = NoFrame /\ applied = 0 /\ buffer = EmptyBuffer /\ received = {}
      /\ latest = << >> /\ now = 0 /\ serverTick = 0 /\ ~failed
  BY DEF RemoteInit
<1>2. FrameSound
  BY <1>1 DEF FrameSound, NoFrame, CursorNearTarget, FrameShowsOneMoment, PoseFollowsCursor,
              FallbackShowsSameEntities
<1>3. PictureSound
  BY <1>1 DEF PictureSound, NoFrame, EmptyBuffer
<1> QED BY <1>1, <1>2, <1>3, RemoteAssumption DEF RemoteInv

\* The invariant implies what the runs check.
LEMMA RemoteInvSound ==
  ASSUME RemoteInv PROVE RemoteSound
<1>1. applied \in Nat /\ serverTick \in Nat /\ applied <= serverTick /\ LastTick \in Nat
      /\ serverTick <= LastTick /\ now \in Int
  BY RemoteAssumption DEF RemoteInv
<1>2. RemoteTypeOK
  <2>1. Len(latest) <= 1
    <3>1. CASE latest = << >>
      BY <3>1
    <3>2. CASE \E a \in Int : latest = <<[tick |-> applied, arrival |-> a]>>
      BY <3>2
    <3> QED BY <3>1, <3>2 DEF RemoteInv
  <2>2. CASE applied = 0
    <3>1. buffer = EmptyBuffer /\ received = {}
      BY <2>2 DEF RemoteInv
    <3>2. /\ buffer.samples = << >> /\ buffer.hold = << >> /\ buffer.presented = {}
      BY <3>1 DEF EmptyBuffer
    <3>3. << >> \in BoundedSeq(1 .. LastTick, Capacity)
      <4>1. << >> \in [1 .. 0 -> 1 .. LastTick]
        OBVIOUS
      <4>2. 0 \in 0 .. Capacity
        BY RemoteAssumption
      <4> QED BY <4>1, <4>2 DEF BoundedSeq, SeqOf
    <3> QED BY <2>1, <3>1, <3>2, <3>3 DEF RemoteTypeOK, RemoteInv
  <2>3. CASE applied > 0
    <3> DEFINE s == buffer.samples
    <3>1. /\ buffer \in Buffers /\ SamplesOK(s, applied)
          /\ Retains(s, received, applied)
          /\ BufferSound(buffer, applied, now)
      BY <2>3 DEF RemoteInv, BufferSound
    <3>2. Len(s) \in Nat \ {0} /\ s \in Seq(1 .. LastTick) /\ Len(s) \in 1 .. Capacity
      BY <3>1, SampleFacts DEF SamplesOK
    <3>3. s \in BoundedSeq(1 .. LastTick, Capacity)
      <4>1. s \in [1 .. Len(s) -> 1 .. LastTick]
        BY <3>2, LenProperties
      <4>2. Len(s) \in 0 .. Capacity
        BY <3>2, RemoteAssumption
      <4> QED BY <4>1, <4>2 DEF BoundedSeq, SeqOf
    <3>4. \A i \in 1 .. Len(s) - 1 : s[i] < s[i + 1]
      BY <3>1, <3>2 DEF SamplesOK
    <3>5. Len(buffer.hold) <= 1
      <4>1. buffer.ready \in BOOLEAN
        BY <3>1 DEF Buffers
      <4>2. buffer.hold = << >> \/ \E h \in Int : buffer.hold = <<h>>
        BY <3>1, <4>1 DEF BufferSound, HoldOK
      <4>3. CASE buffer.hold = << >>
        BY <4>3
      <4>4. CASE \E h \in Int : buffer.hold = <<h>>
        BY <4>4
      <4> QED BY <4>2, <4>3, <4>4
    <3>6. buffer.presented \subseteq Entities
      BY <3>1 DEF Buffers
    <3>7. received \subseteq 1 .. serverTick
      <4>1. ASSUME NEW t \in received PROVE t \in 1 .. serverTick
        <5>1. t \in Nat \ {0} /\ t <= applied
          BY <3>1 DEF Retains
        <5> QED BY <1>1, <5>1
      <4> QED BY <4>1
    <3> QED BY <2>1, <3>3, <3>4, <3>5, <3>6, <3>7 DEF RemoteTypeOK, RemoteInv
  <2> QED BY <1>1, <2>2, <2>3
<1>3. HoldTimeAccounted
  <2>1. CASE applied = 0
    <3>1. buffer = EmptyBuffer
      BY <2>1 DEF RemoteInv
    <3> QED BY <3>1 DEF EmptyBuffer, HoldTimeAccounted
  <2>2. CASE applied > 0
    <3>1. buffer.ready => Accounted(buffer, now)
      BY <2>2 DEF RemoteInv, BufferSound
    <3> QED BY <3>1 DEF HoldTimeAccounted, Accounted, Current
  <2> QED BY <1>1, <2>1, <2>2
<1>4. NoFlicker
  <2>1. Cardinality(Entities) \in Nat
    BY EntitySets
  <2>2. CASE buffer.created = 0 /\ buffer.removed = 0
    BY <2>1, <2>2 DEF NoFlicker
  <2>3. CASE applied > 0 /\ \E m \in Nat : Pictured(buffer, frame.newest, frame.playing, m)
    <3>1. PICK m \in Nat : Pictured(buffer, frame.newest, frame.playing, m)
      BY <2>3
    <3> DEFINE born == Born(m, frame.playing)
               left == Gone(m)
    <3>2. born \in SUBSET Entities /\ left \in SUBSET Entities
      BY DEF Born, Gone
    <3>3. buffer.created <= Cardinality(born) /\ buffer.removed <= Cardinality(left)
      BY <3>1 DEF Pictured
    <3> HIDE DEF born, left
    <3>4. /\ Cardinality(born) \in Nat /\ Cardinality(left) \in Nat
          /\ Cardinality(born) <= Cardinality(Entities)
          /\ Cardinality(left) <= Cardinality(Entities)
      BY <3>2, EntitySets
    <3>5. buffer.created \in Nat /\ buffer.removed \in Nat
      BY <2>3 DEF RemoteInv, BufferSound, Buffers
    <3> QED BY <2>1, <3>3, <3>4, <3>5 DEF NoFlicker
  <2> QED BY <2>2, <2>3 DEF RemoteInv, PictureSound, FrameSound
<1>5. AppliedNeverRefused
  BY DEF RemoteInv, AppliedNeverRefused
<1> QED BY <1>2, <1>3, <1>4, <1>5 DEF RemoteInv, FrameSound, RemoteSound

LEMMA RemoteStutter ==
  ASSUME RemoteInv, UNCHANGED remoteVars PROVE RemoteInv'
<1> USE DEF remoteVars
<1>1. FrameSound'
  BY DEF RemoteInv, FrameSound, CursorNearTarget, FrameShowsOneMoment, PoseFollowsCursor,
         FallbackShowsSameEntities
<1>2. PictureSound'
  BY DEF RemoteInv, PictureSound, Pictured
<1>3. /\ applied' > 0 => applied > 0
      /\ applied > 0 => /\ BufferSound(buffer, applied, now)'
                        /\ Retains(buffer.samples, received, applied)'
  BY DEF RemoteInv
<1> QED BY <1>1, <1>2, <1>3 DEF RemoteInv

LEMMA ServerStepKeeps ==
  ASSUME RemoteInv, ServerStep PROVE RemoteInv'
<1> USE DEF ServerStep
<1>1. FrameSound'
  BY DEF RemoteInv, FrameSound, CursorNearTarget, FrameShowsOneMoment, PoseFollowsCursor,
         FallbackShowsSameEntities
<1>2. PictureSound'
  BY DEF RemoteInv, PictureSound, Pictured
<1>3. /\ applied > 0 => /\ BufferSound(buffer, applied, now)'
                        /\ Retains(buffer.samples, received, applied)'
  BY DEF RemoteInv
<1>4. serverTick' \in 0 .. LastTick /\ applied' \in 0 .. serverTick'
  BY RemoteAssumption DEF RemoteInv
<1> QED BY <1>1, <1>2, <1>3, <1>4 DEF RemoteInv

LEMMA WelcomeKeeps ==
  ASSUME RemoteInv, Welcome PROVE RemoteInv'
<1> USE DEF Welcome
<1>1. FrameSound'
  BY DEF RemoteInv, FrameSound, CursorNearTarget, FrameShowsOneMoment, PoseFollowsCursor,
         FallbackShowsSameEntities
<1>2. PictureSound'
  BY DEF RemoteInv, PictureSound, Pictured
<1>3. /\ applied > 0 => /\ BufferSound(buffer, applied, now)'
                        /\ Retains(buffer.samples, received, applied)'
  BY DEF RemoteInv
<1> QED BY <1>1, <1>2, <1>3 DEF RemoteInv

LEMMA ReceiveKeeps ==
  ASSUME RemoteInv, NEW tick \in 1 .. serverTick, Receive(tick) PROVE RemoteInv'
<1>1. /\ applied \in Nat /\ serverTick \in Nat /\ applied <= serverTick /\ LastTick \in Nat
      /\ serverTick <= LastTick /\ tick \in 1 .. LastTick /\ applied < tick
      /\ now \in Int /\ Capacity \in Nat \ {0} /\ tick \in Nat \ {0}
  BY RemoteAssumption DEF RemoteInv, Receive, Stale
<1>2. /\ applied' = tick /\ now' = now /\ serverTick' = serverTick /\ rules' = rules
      /\ frame' = frame /\ buffer' = InsertSample(buffer, tick)
  BY DEF Receive
\* The extrapolation buffer takes the snapshot.
<1>3. /\ ~failed'
      /\ \/ latest' = << >>
         \/ rules' /\ \E a \in Int : latest' = <<[tick |-> applied', arrival |-> a]>>
  <2>1. AcceptsKinematics(tick)
    <3>1. CASE latest = << >>
      BY <3>1 DEF AcceptsKinematics
    <3>2. CASE \E a \in Int : latest = <<[tick |-> applied, arrival |-> a]>>
      <4>1. Head(latest).tick = applied
        BY <3>2
      <4> QED BY <1>1, <4>1 DEF AcceptsKinematics
    <3> QED BY <3>1, <3>2 DEF RemoteInv
  <2>2. CASE rules
    <3>1. failed' = FALSE /\ latest' = <<[tick |-> tick, arrival |-> now]>>
      BY <2>1, <2>2 DEF Receive
    <3> QED BY <1>1, <1>2, <2>2, <3>1
  <2>3. CASE ~rules
    BY <2>3 DEF Receive, RemoteInv
  <2> QED BY <2>2, <2>3
\* The delayed buffer keeps it.
<1>4. /\ BufferSound(buffer', tick, now)
      /\ Retains(buffer'.samples, received \cup {tick}, tick)
      /\ buffer'.samples # buffer.samples
      /\ \A m \in Nat : Pictured(buffer, frame.newest, frame.playing, m)
           => Pictured(buffer', frame.newest, frame.playing, m)
      /\ buffer'.lifecycle = buffer.lifecycle /\ buffer'.created = buffer.created
      /\ buffer'.removed = buffer.removed
  <2>1. CASE applied = 0
    <3>1. buffer = EmptyBuffer /\ received = {} /\ EmptyBuffer.samples = << >>
      BY <2>1, EmptyBufferIs DEF RemoteInv
    <3> DEFINE at == tick * Scale
    <3>2. at \in Int
      <4>1. tick \in Int
        BY <1>1
      <4> QED BY <4>1, ScaleOrder
    <3>3. buffer' = [EmptyBuffer EXCEPT !.samples = <<tick>>, !.cursor = at]
      <4>1. Len(<< >>) # Capacity /\ Append(<< >>, tick) = <<tick>>
        BY <1>1
      <4> QED BY <1>2, <3>1, <4>1 DEF InsertSample
    <3> HIDE DEF at
    <3>4. <<tick>> \in Seq(1 .. LastTick)
      BY <1>1
    <3>5. /\ buffer' \in Buffers /\ buffer'.samples = <<tick>> /\ buffer'.cursor = at
          /\ ~buffer'.ready /\ buffer'.hold = << >>
          /\ buffer'.episodes = 0 /\ buffer'.recoveries = 0 /\ buffer'.totalHold = 0
          /\ buffer'.totalPostCap = 0
          /\ buffer'.lifecycle = buffer.lifecycle /\ buffer'.created = buffer.created
          /\ buffer'.removed = buffer.removed /\ ~buffer.lifecycle
      BY <3>1, <3>2, <3>3, <3>4, EmptyBufferIs DEF EmptyBuffer, Buffers
    <3>6. SamplesOK(<<tick>>, tick)
      <4>1. Len(<<tick>>) = 1 /\ <<tick>>[1] = tick
        OBVIOUS
      <4> QED BY <1>1, <3>4, <4>1 DEF SamplesOK
    <3>7. BufferSound(buffer', tick, now)
      <4>1. at <= buffer'.samples[1] * Scale
        BY <3>2, <3>5 DEF at
      <4> QED BY <3>5, <3>6, <4>1 DEF BufferSound
    <3>8. Retains(<<tick>>, {tick}, tick)
      <4>1. Len(<<tick>>) = 1 /\ <<tick>>[1] = tick
        OBVIOUS
      <4> QED BY <1>1, <4>1 DEF Retains
    <3>9. ~frame.drawn
      BY <2>1 DEF RemoteInv, FrameSound
    <3>10. ASSUME NEW m \in Nat, Pictured(buffer, frame.newest, frame.playing, m)
           PROVE  Pictured(buffer', frame.newest, frame.playing, m)
      <4>1. frame.newest = 0 /\ m = 0
        BY <2>1, <3>10 DEF RemoteInv, FrameSound, Pictured
      <4>2. Passed(buffer'.samples, buffer'.cursor, m)
        BY <1>1, <3>5, <4>1 DEF Passed
      <4>3. buffer'.presented = buffer.presented
        BY <3>1, <3>3 DEF EmptyBuffer
      <4> QED BY <3>5, <3>10, <4>2, <4>3 DEF Pictured
    <3>11. <<tick>> # << >>
      OBVIOUS
    <3> QED BY <3>1, <3>5, <3>7, <3>8, <3>10, <3>11
  <2>2. CASE applied > 0
    <3> DEFINE s == buffer.samples
               g == Grown(s, tick)
    <3>1. /\ BufferSound(buffer, applied, now) /\ SamplesOK(s, applied)
          /\ Retains(s, received, applied) /\ buffer \in Buffers
      BY <2>2 DEF RemoteInv, BufferSound
    <3>2. /\ buffer' = [buffer EXCEPT !.samples = g]
          /\ BufferSound(buffer', tick, now)
      BY <1>1, <1>2, <3>1, InsertIs
    <3>3. /\ Retains(g, received \cup {tick}, tick)
          /\ \A cursor, m \in Int : Passed(s, cursor, m) => Passed(g, cursor, m)
      BY <1>1, <3>1, GrownKeeps
    <3>4. SamplesOK(g, tick)
      BY <1>1, <3>1, GrownIs
    <3> HIDE DEF g
    <3>5. /\ buffer'.samples = g /\ buffer'.cursor = buffer.cursor /\ buffer.cursor \in Int
          /\ buffer'.presented = buffer.presented
          /\ buffer'.lifecycle = buffer.lifecycle /\ buffer'.created = buffer.created
          /\ buffer'.removed = buffer.removed
      BY <3>1, <3>2 DEF Buffers
    <3>6. g # s
      BY <1>1, <3>1, <3>4 DEF SamplesOK
    <3>7. ASSUME NEW m \in Nat, Pictured(buffer, frame.newest, frame.playing, m)
          PROVE  Pictured(buffer', frame.newest, frame.playing, m)
      <4>1. Passed(s, buffer.cursor, m)
        BY <3>7 DEF Pictured
      <4>2. Passed(g, buffer.cursor, m)
        BY <3>3, <3>5, <4>1
      <4> QED BY <3>5, <3>7, <4>2 DEF Pictured
    <3> QED BY <3>2, <3>3, <3>5, <3>6, <3>7
  <2> QED BY <1>1, <2>1, <2>2
<1>5. received' = received \cup {tick}
  BY <1>4 DEF Receive
<1>6. PictureSound'
  BY <1>2, <1>4 DEF RemoteInv, PictureSound
<1>7. FrameSound'
  <2>1. frame.newest \in Nat /\ frame.newest <= applied
    BY <1>1 DEF RemoteInv, FrameSound
  <2>2. {t \in received' : t * Scale <= frame.cursor /\ t <= frame.newest}
          = {t \in received : t * Scale <= frame.cursor /\ t <= frame.newest}
    <3>1. ~(tick <= frame.newest)
      BY <1>1, <2>1
    <3> QED BY <1>5, <3>1
  <2>3. FrameShowsOneMoment'
    BY <1>2, <2>2 DEF RemoteInv, FrameSound, FrameShowsOneMoment
  <2>4. (CursorNearTarget /\ PoseFollowsCursor /\ FallbackShowsSameEntities)'
    BY <1>2 DEF RemoteInv, FrameSound, CursorNearTarget, PoseFollowsCursor,
                FallbackShowsSameEntities
  <2>5. frame'.newest \in 0 .. applied' /\ frame'.playing \in BOOLEAN
        /\ (frame'.drawn => applied' > 0)
    BY <1>1, <1>2, <2>1 DEF RemoteInv, FrameSound
  <2> QED BY <2>3, <2>4, <2>5 DEF FrameSound
<1>8. /\ applied' \in 0 .. serverTick' /\ applied' > 0
      /\ now' \in 0 .. MaxTime /\ serverTick' \in 0 .. LastTick
  BY <1>1, <1>2 DEF RemoteInv
<1> QED BY <1>1, <1>2, <1>3, <1>4, <1>5, <1>6, <1>7, <1>8 DEF RemoteInv

\* The arrivals at or before the cursor.
Reached(c, seen, last) == {t \in seen : t * Scale <= c.cursor /\ t <= last}

\* What a frame draws from an advanced buffer.
LEMMA ViewIs ==
  ASSUME NEW c, NEW last \in Nat, NEW time \in Int, BufferSound(c, last, time), c.ready,
         Placed(c, last), NEW seen, Retains(c.samples, seen, last), NEW controlled
  PROVE  /\ Reached(c, seen, last) # {}
         /\ SampledEntities(c, controlled) = WorldAt(Max(Reached(c, seen, last))) \ controlled
         /\ SampledPose(c) = IF c.hold # << >> THEN last * Scale ELSE c.cursor
         /\ c.hold # << >> => Max(Reached(c, seen, last)) = last
<1> DEFINE reached == {t \in seen : t * Scale <= c.cursor /\ t <= last}
<1>1. /\ c \in Buffers /\ SamplesOK(c.samples, last)
      /\ c.samples[1] * Scale <= c.cursor
      /\ c.hold = << >> <=> c.cursor < last * Scale
  BY DEF BufferSound, Placed
<1>2. c.cursor \in Int
  BY <1>1 DEF Buffers
<1>3. reached # {} /\ c.samples[OlderIndex(c)] = Max(reached)
  BY <1>1, <1>2, MomentIs, ZenonT(30)
<1>4. SampledEntities(c, controlled) = WorldAt(Max(reached)) \ controlled
  BY <1>1, <1>2, <1>3, SampledIs
<1>5. HasNewer(c) <=> c.hold = << >>
  BY <1>1, <1>2, NewerIs
<1>6. SampledPose(c) = IF c.hold # << >> THEN last * Scale ELSE c.cursor
  BY <1>1, <1>2, <1>5, PoseIs
<1>7. ASSUME c.hold # << >> PROVE Max(reached) = last
  <2>1. last * Scale <= c.cursor
    <3>1. last \in Int
      OBVIOUS
    <3>2. last * Scale \in Int
      BY <3>1, ScaleOrder
    <3> QED BY <1>1, <1>2, <1>7, <3>2
  <2>2. /\ Len(c.samples) \in 1 .. Len(c.samples) /\ c.samples[Len(c.samples)] = last
    BY <1>1, SampleFacts DEF SamplesOK
  <2>3. last \in seen
    BY <2>2 DEF Retains
  <2>4. last \in reached
    BY <2>1, <2>3
  <2>5. reached \in SUBSET Int /\ \A t \in reached : t <= last
    BY DEF Retains
  <2> QED BY <2>4, <2>5, MaxIs
<1> QED BY <1>3, <1>4, <1>6, <1>7 DEF Reached

\* The fallback goes no further ahead than the limit.
LEMMA FallbackIs ==
  ASSUME NEW last \in Nat, NEW offset \in Int
  PROVE  ExtrapolatedPose(last, offset) \in last * Scale .. last * Scale + LimitTicks * Scale
<1> DEFINE limit == LimitTicks * TickTime
           held == Clamp(offset, 0, limit)
<1>1. LimitTicks \in Nat /\ TickTime \in Nat /\ NormalRate \in Nat
  BY RemoteAssumption
<1>2. limit \in Nat
  BY <1>1, TimesMonotone
<1> HIDE DEF limit
<1>3. held \in Nat /\ held <= limit
  BY <1>2 DEF Clamp
<1> DEFINE h == held * NormalRate
<1> HIDE DEF held
<1>4. h \in Nat /\ h <= limit * NormalRate /\ limit * NormalRate \in Nat
  BY <1>1, <1>2, <1>3, TimesMonotone
<1>5. limit * NormalRate = LimitTicks * Scale
  BY <1>1 DEF limit, Scale
<1>6. last * Scale \in Int
  <2>1. last \in Int
    OBVIOUS
  <2> QED BY <2>1, ScaleOrder
<1>7. ExtrapolatedPose(last, offset) = last * Scale + h
  BY DEF ExtrapolatedPose, h, held, limit
<1> DEFINE at == last * Scale
           top == LimitTicks * Scale
<1>8. at \in Int /\ top \in Nat /\ h \in Nat /\ h <= top
  BY <1>4, <1>5, <1>6
<1> HIDE DEF h, at, top
<1>9. at + h \in at .. at + top
  BY <1>8
<1> QED BY <1>7, <1>9 DEF at, top

LEMMA FrameKeeps ==
  ASSUME RemoteInv, NEW elapsed \in 0 .. MaxFrame, Frame(elapsed)
  PROVE  RemoteInv' /\ buffer.cursor <= buffer'.cursor
<1> DEFINE time == now + elapsed
           q == Playing
           controlled == Excluded(q)
           c == AdvanceBuffer(buffer, time)
           fallback == ~q /\ c.ready /\ c.hold # << >> /\ latest # << >>
<1>1. /\ applied \in Nat /\ applied > 0 /\ now \in Int /\ time \in Int /\ now <= time
      /\ time - now <= MaxFrame /\ time \in 0 .. MaxTime
      /\ BufferSound(buffer, applied, now) /\ Retains(buffer.samples, received, applied)
      /\ buffer \in Buffers /\ MaxFrame \in Nat
  <2>1. MaxFrame \in Nat /\ MaxTime \in Nat /\ LastTick \in Nat
    BY RemoteAssumption
  <2>2. applied \in Nat /\ applied > 0 /\ now \in 0 .. MaxTime /\ time <= MaxTime
    BY <2>1 DEF RemoteInv, Frame
  <2>3. BufferSound(buffer, applied, now) /\ Retains(buffer.samples, received, applied)
    BY <2>2 DEF RemoteInv
  <2>4. time \in Int /\ now <= time /\ time - now <= MaxFrame /\ time \in 0 .. MaxTime
    BY <2>1, <2>2
  <2> QED BY <2>1, <2>2, <2>3, <2>4 DEF BufferSound
<1>2. /\ now' = time /\ serverTick' = serverTick /\ rules' = rules /\ applied' = applied
      /\ latest' = latest /\ failed' = failed /\ received' = received
      /\ buffer' = SampleBuffer(c, controlled)
  BY DEF Frame, Excluded
<1>3. /\ frame'.drawn = TRUE /\ frame'.ready = buffer'.ready
      /\ frame'.holding = (c.hold # << >>)
      /\ frame'.cursor = buffer'.cursor /\ frame'.newest = Newest(buffer')
      /\ frame'.shown = SampledEntities(c, controlled) /\ frame'.pose = SampledPose(c)
      /\ frame'.fallback = fallback
      /\ frame'.fallbackShown = IF fallback THEN WorldAt(Head(latest).tick) ELSE {}
      /\ frame'.fallbackPose = IF fallback
           THEN ExtrapolatedPose(Head(latest).tick, time - Head(c.hold)) ELSE 0
      /\ frame'.playing = q
  BY <1>2 DEF Frame, Excluded
<1>4. q \in BOOLEAN /\ (q <=> Own \in WorldAt(applied))
  BY <1>1 DEF Playing
<1>5. Advances(buffer, c, applied, time)
  BY <1>1, AdvanceIs
<1> HIDE DEF c, time, q
<1>6. /\ BufferSound(c, applied, time) /\ SamePicture(buffer, c)
      /\ buffer.cursor <= c.cursor
      /\ c.ready => Placed(c, applied)
  BY <1>5 DEF Advances
<1>7. /\ BufferSound(buffer', applied, time)
      /\ Draws(c, buffer', WorldAt(c.samples[OlderIndex(c)]) \ controlled)
  BY <1>2, <1>6, DrawnIs
<1>8. /\ c \in Buffers /\ SamplesOK(c.samples, applied) /\ c.samples = buffer.samples
      /\ Retains(c.samples, received, applied)
  BY <1>1, <1>6 DEF BufferSound, SamePicture
<1>9. /\ buffer'.samples = c.samples /\ buffer'.cursor = c.cursor /\ buffer'.ready = c.ready
  BY <1>7 DEF Draws
<1>10. frame'.newest = applied /\ buffer.cursor \in Int /\ c.cursor \in Int
  BY <1>1, <1>3, <1>8, <1>9, SampleFacts DEF Newest, Buffers
<1>11. frame.newest \in Nat /\ frame.newest <= applied /\ frame.playing \in BOOLEAN
  BY <1>1 DEF RemoteInv, FrameSound
<1>12. buffer'.lifecycle /\ \E m \in Nat : Pictured(buffer', applied, q, m)
  <2>1. \/ ~buffer.lifecycle /\ buffer.created = 0 /\ buffer.removed = 0
        \/ buffer.lifecycle /\ \E m \in Nat : Pictured(buffer, frame.newest, frame.playing, m)
    BY DEF RemoteInv, PictureSound
  <2> QED BY <1>1, <1>2, <1>4, <1>6, <1>10, <1>11, <2>1, PictureIs
<1>13. PictureSound'
  <2>1. frame'.drawn /\ frame'.newest = applied /\ frame'.playing = q
    BY <1>3, <1>10
  <2> QED BY <1>12, <2>1 DEF PictureSound
<1> DEFINE reached == Reached(c, received, applied)
<1>14. ASSUME c.ready
       PROVE  /\ reached # {}
              /\ SampledEntities(c, controlled) = WorldAt(Max(reached)) \ controlled
              /\ SampledPose(c) = IF c.hold # << >> THEN applied * Scale ELSE c.cursor
              /\ c.hold # << >> => Max(reached) = applied
  <2>1. Placed(c, applied) /\ BufferSound(c, applied, time) /\ c.ready
    BY <1>6, <1>14
  <2>2. Retains(c.samples, received, applied) /\ applied \in Nat /\ time \in Int
    BY <1>1, <1>8
  <2>3. reached # {}
    BY <2>1, <2>2, ViewIs
  <2>4. SampledPose(c) = IF c.hold # << >> THEN applied * Scale ELSE c.cursor
    BY <2>1, <2>2, ViewIs
  <2>5. SampledEntities(c, controlled) = WorldAt(Max(reached)) \ controlled
    BY <2>1, <2>2, ViewIs
  <2>6. c.hold # << >> => Max(reached) = applied
    BY <2>1, <2>2, ViewIs
  <2> QED BY <2>3, <2>4, <2>5, <2>6
<1>15. FrameShowsOneMoment'
  <2>1. {t \in received' : t * Scale <= frame'.cursor /\ t <= frame'.newest} = reached
    BY <1>2, <1>3, <1>9, <1>10 DEF Reached
  <2> HIDE DEF reached
  <2>2. ASSUME frame'.ready
        PROVE  /\ reached # {}
               /\ frame'.shown = WorldAt(Max(reached))
                                   \ (IF frame'.playing THEN {Own} ELSE {})
    BY <1>3, <1>9, <1>14, <2>2 DEF Excluded
  <2> QED BY <2>1, <2>2 DEF FrameShowsOneMoment
<1> HIDE DEF reached
<1>16. PoseFollowsCursor'
  <2>1. ASSUME frame'.ready
        PROVE  frame'.pose = IF frame'.holding THEN frame'.newest * Scale ELSE frame'.cursor
    BY <1>3, <1>9, <1>10, <1>14, <2>1
  <2> QED BY <2>1 DEF PoseFollowsCursor
<1>17. CursorNearTarget'
  <2>1. ASSUME frame'.ready
        PROVE  /\ (frame'.newest - DelayTicks - MaximumCursorError) * Scale <= frame'.cursor
               /\ frame'.cursor <= frame'.newest * Scale + MaxFrame * MaxRate
    BY <1>3, <1>6, <1>9, <1>10, <2>1 DEF Placed
  <2> QED BY <2>1 DEF CursorNearTarget
<1>18. FallbackShowsSameEntities'
  <2>1. ASSUME fallback
        PROVE  /\ frame'.fallbackShown = frame'.shown
               /\ frame'.fallbackPose \in frame'.pose .. frame'.pose + LimitTicks * Scale
    <3>1. ~q /\ c.ready /\ c.hold # << >> /\ latest # << >>
      BY <2>1
    <3>2. Head(latest).tick = applied
      <4>1. PICK a \in Int : latest = <<[tick |-> applied, arrival |-> a]>>
        BY <3>1 DEF RemoteInv
      <4> QED BY <4>1
    <3>3. PICK h \in Int : c.hold = <<h>>
      BY <1>6, <3>1 DEF BufferSound, HoldOK
    <3>4. time - Head(c.hold) \in Int
      BY <1>1, <3>3
    <3>5. frame'.pose = applied * Scale
      BY <1>3, <1>14, <3>1
    <3>6. frame'.shown = WorldAt(applied)
      BY <1>3, <1>14, <3>1 DEF Excluded
    <3>7. frame'.fallbackShown = WorldAt(applied)
      BY <1>3, <2>1, <3>2
    <3>8. frame'.fallbackPose = ExtrapolatedPose(applied, time - Head(c.hold))
      BY <1>3, <2>1, <3>2
    <3> QED BY <1>1, <3>4, <3>5, <3>6, <3>7, <3>8, FallbackIs
  <2> QED BY <1>3, <2>1 DEF FallbackShowsSameEntities
<1>19. FrameSound'
  <2>1. frame'.newest \in 0 .. applied' /\ frame'.playing \in BOOLEAN
        /\ (frame'.drawn => applied' > 0)
    BY <1>1, <1>2, <1>3, <1>4, <1>10
  <2> QED BY <1>15, <1>16, <1>17, <1>18, <2>1 DEF FrameSound
<1>20. BufferSound(buffer', applied', now') /\ Retains(buffer'.samples, received', applied')
  BY <1>2, <1>7, <1>8, <1>9
<1>21. RemoteInv'
  <2>1. /\ now' \in 0 .. MaxTime /\ serverTick' \in 0 .. LastTick
        /\ applied' \in 0 .. serverTick' /\ ~failed' /\ applied' > 0
        /\ \/ latest' = << >>
           \/ rules' /\ \E a \in Int : latest' = <<[tick |-> applied', arrival |-> a]>>
    BY <1>1, <1>2 DEF RemoteInv
  <2> QED BY <1>1, <1>2, <1>13, <1>19, <1>20, <2>1 DEF RemoteInv
<1> QED BY <1>6, <1>9, <1>21

-----------------------------------------------------------------------------
(* The delayed view: theorems.                                             *)

\* A step of the whole is a step of the delayed view, or leaves it alone.
LEMMA RemoteSteps ==
  ASSUME [Next]_presentationVars PROVE RemoteNext \/ UNCHANGED remoteVars
<1>1. CASE Next
  BY <1>1 DEF Next
<1>2. CASE UNCHANGED presentationVars
  BY <1>2 DEF presentationVars
<1> QED BY <1>1, <1>2

LEMMA RemoteStep ==
  ASSUME RemoteInv, [Next]_presentationVars PROVE RemoteInv'
<1>1. CASE UNCHANGED remoteVars
  BY <1>1, RemoteStutter
<1>2. CASE RemoteNext
  <2>1. CASE ServerStep
    BY <2>1, ServerStepKeeps
  <2>2. CASE Welcome
    BY <2>2, WelcomeKeeps
  <2>3. ASSUME NEW tick \in 1 .. serverTick, Receive(tick) PROVE RemoteInv'
    BY <2>3, ReceiveKeeps
  <2>4. ASSUME NEW elapsed \in 0 .. MaxFrame, Frame(elapsed) PROVE RemoteInv'
    BY <2>4, FrameKeeps
  <2> QED BY <1>2, <2>1, <2>2, <2>3, <2>4 DEF RemoteNext
<1> QED BY <1>1, <1>2, RemoteSteps

\* The delayed view keeps its invariant.
THEOREM RemoteInvHolds == Spec => []RemoteInv
<1>1. Init => RemoteInv
  BY RemoteStart DEF Init
<1>2. RemoteInv /\ [Next]_presentationVars => RemoteInv'
  BY RemoteStep
<1> QED BY <1>1, <1>2, PTL DEF Spec

\* In every behaviour, for all sizes of the buffer, rates, lives of entities and
\* orders of arrival: a frame shows the world of one moment, no entity comes or
\* leaves twice, the cursor stays near its target, the hold statistics add up, and
\* the extrapolation buffer refuses nothing that was applied (RemoteSnapshotBuffer,
\* RemoteExtrapolationBuffer and their use in client_app).
THEOREM RemoteAlwaysSound == Spec => []RemoteSound
<1>1. RemoteInv => RemoteSound
  BY RemoteInvSound
<1> QED BY <1>1, RemoteInvHolds, PTL

\* The cursor of the delayed view never moves back, through holds, rebases,
\* evictions and bursts of snapshots (RemoteSnapshotBuffer::advance, insert).
THEOREM CursorAlwaysAdvances == Spec => CursorNeverRewinds
<1>1. RemoteInv /\ [Next]_presentationVars =>
        [buffer.samples # << >> => buffer'.cursor >= buffer.cursor]_remoteVars
  <2> SUFFICES ASSUME RemoteInv, [Next]_presentationVars, buffer.samples # << >>,
                      ~(UNCHANGED remoteVars)
               PROVE  buffer'.cursor >= buffer.cursor
    OBVIOUS
  <2>1. applied > 0 /\ applied \in Int
    <3>1. applied # 0
      BY EmptyBufferIs DEF RemoteInv
    <3> QED BY <3>1, RemoteAssumption DEF RemoteInv
  <2>2. /\ buffer \in Buffers /\ buffer.cursor \in Int
        /\ BufferSound(buffer, applied, now)
    BY <2>1 DEF RemoteInv, BufferSound, Buffers
  <2>3. CASE UNCHANGED buffer
    BY <2>2, <2>3
  <2>4. ASSUME NEW tick \in 1 .. serverTick, Receive(tick)
        PROVE  buffer'.cursor >= buffer.cursor
    <3>1. tick \in 1 .. LastTick /\ applied < tick
      BY <2>4, RemoteAssumption DEF RemoteInv, Receive, Stale
    <3>2. buffer' = [buffer EXCEPT !.samples = Grown(buffer.samples, tick)]
      BY <2>2, <2>4, <3>1, InsertIs DEF Receive
    <3>3. buffer'.cursor = buffer.cursor
      BY <2>2, <3>2 DEF Buffers
    <3> QED BY <2>2, <3>3
  <2>5. ASSUME NEW elapsed \in 0 .. MaxFrame, Frame(elapsed)
        PROVE  buffer'.cursor >= buffer.cursor
    <3>1. RemoteInv' /\ buffer.cursor <= buffer'.cursor
      BY <2>5, FrameKeeps
    <3>2. buffer'.cursor \in Int
      <4>1. applied' > 0
        BY <2>1, <2>5 DEF Frame
      <4> QED BY <3>1, <4>1 DEF RemoteInv, BufferSound, Buffers
    <3> QED BY <2>2, <3>1, <3>2
  <2>6. CASE ServerStep \/ Welcome
    BY <2>3, <2>6 DEF ServerStep, Welcome
  <2> QED BY <2>4, <2>5, <2>6, RemoteSteps DEF RemoteNext
<1> QED BY <1>1, RemoteInvHolds, PTL DEF Spec, CursorNeverRewinds

-----------------------------------------------------------------------------
(* The requests: the outbox.                                               *)

\* An outbox is paused only while commands wait in it.
LinkSound(k) ==
  /\ DOMAIN k = {"unsent", "paused", "up", "requested", "outages"}
  /\ k.unsent \in Nat /\ k.requested \in BOOLEAN /\ k.paused \in BOOLEAN
  /\ k.paused => k.unsent > 0

LEMMA FlushedIs ==
  ASSUME NEW k, LinkSound(k)
  PROVE  LinkSound(Flushed(k)) /\ Flushed(k).requested = k.requested
<1>1. /\ PauseDepth \in Nat /\ ResumeDepth \in Nat /\ FlushLimit \in Nat
      /\ ResumeDepth < PauseDepth
  BY PacingAssumption
<1> DEFINE sent == IF k.up THEN Least(k.unsent, FlushLimit) ELSE 0
           unsent == k.unsent - sent
           before == IF k.paused THEN k.unsent > ResumeDepth ELSE k.unsent >= PauseDepth
           paused == IF before THEN unsent > ResumeDepth ELSE unsent >= PauseDepth
<1>2. unsent \in Nat
  BY <1>1 DEF LinkSound, Least
<1>3. paused \in BOOLEAN /\ (paused => unsent > 0)
  <2> HIDE DEF unsent, before
  <2>1. CASE before
    BY <1>1, <1>2, <2>1
  <2>2. CASE ~before
    BY <1>1, <1>2, <2>2
  <2> QED BY <2>1, <2>2
<1>4. Flushed(k) = [k EXCEPT !.unsent = unsent, !.paused = paused]
  BY DEF Flushed
<1> HIDE DEF sent, unsent, paused
<1> QED BY <1>2, <1>3, <1>4 DEF LinkSound

LEMMA AcceptedIs ==
  ASSUME NEW k, LinkSound(k)
  PROVE  LinkSound(Accepted(k)) /\ Accepted(k).requested = k.requested
<1> DEFINE more == [k EXCEPT !.unsent = @ + 1]
<1>1. LinkSound(more) /\ more.requested = k.requested
  BY DEF LinkSound
<1> HIDE DEF more
<1>2. LinkSound(Flushed(more)) /\ Flushed(more).requested = more.requested
  BY <1>1, FlushedIs
<1> QED BY <1>1, <1>2 DEF Accepted, more

\* The recursive function of Prefilled exists.
LEMMA FilledEquation ==
  ASSUME NEW k
  PROVE  \E f : /\ f = [n \in 0 .. Prefill |-> IF n = 0 THEN k ELSE Accepted(f[n - 1])]
                /\ Prefilled(k) = f[Prefill]
<1> DEFINE Solves(f, m) == f = [n \in 0 .. m |-> IF n = 0 THEN k ELSE Accepted(f[n - 1])]
           S == {m \in Nat : \E h : Solves(h, m)}
<1>1. 0 \in S
  <2> DEFINE g == [n \in 0 .. 0 |-> k]
  <2>1. Solves(g, 0)
    OBVIOUS
  <2> QED BY <2>1
<1>2. ASSUME NEW m \in Nat, m \in S PROVE m + 1 \in S
  <2>1. PICK f : Solves(f, m)
    BY <1>2
  <2> DEFINE g == [n \in 0 .. m + 1 |-> IF n <= m THEN f[n] ELSE Accepted(f[m])]
  <2>2. \A n \in 0 .. m : g[n] = f[n]
    OBVIOUS
  <2>3. g = [n \in 0 .. m + 1 |-> IF n = 0 THEN k ELSE Accepted(g[n - 1])]
    <3> SUFFICES ASSUME NEW n \in 0 .. m + 1
                 PROVE  g[n] = IF n = 0 THEN k ELSE Accepted(g[n - 1])
      OBVIOUS
    <3>1. CASE n <= m
      <4>1. g[n] = f[n] BY <3>1
      <4>2. n # 0 => n - 1 \in 0 .. m BY <3>1
      <4>3. n # 0 => g[n - 1] = f[n - 1] BY <4>2, <2>2
      <4>4. f[n] = IF n = 0 THEN k ELSE Accepted(f[n - 1])
        BY <2>1, <3>1
      <4> QED BY <4>1, <4>3, <4>4
    <3>2. CASE n = m + 1
      <4>1. g[n] = Accepted(f[m]) BY <3>2
      <4>2. g[m] = f[m] BY <2>2
      <4> QED BY <4>1, <4>2, <3>2
    <3> QED BY <3>1, <3>2
  <2>4. Solves(g, m + 1)
    BY <2>3
  <2> HIDE DEF Solves, g
  <2>5. m + 1 \in Nat /\ \E h : Solves(h, m + 1)
    BY <2>4
  <2> QED BY <2>5
<1>3. Prefill \in S
  <2>1. Prefill \in Nat
    BY PacingAssumption
  <2> QED BY <1>1, <1>2, <2>1, SetInduction
<1>4. PICK f : Solves(f, Prefill)
  BY <1>3
<1> DEFINE filled == CHOOSE h : Solves(h, Prefill)
<1>5. Solves(filled, Prefill)
  BY <1>4
<1>6. Prefilled(k) = filled[Prefill]
  BY DEF Prefilled
<1> QED BY <1>5, <1>6

LEMMA PrefilledIs ==
  ASSUME NEW k, LinkSound(k)
  PROVE  LinkSound(Prefilled(k)) /\ Prefilled(k).requested = k.requested
<1>1. PICK f : /\ f = [n \in 0 .. Prefill |-> IF n = 0 THEN k ELSE Accepted(f[n - 1])]
               /\ Prefilled(k) = f[Prefill]
  BY FilledEquation
<1>2. Prefill \in Nat
  BY PacingAssumption
<1> DEFINE Good(n) == LinkSound(f[n]) /\ f[n].requested = k.requested
           S == {n \in Nat : n <= Prefill => Good(n)}
<1>3. f[0] = k /\ \A n \in Nat : n + 1 <= Prefill => f[n + 1] = Accepted(f[n])
  <2>1. ASSUME NEW n \in Nat, n + 1 <= Prefill PROVE f[n + 1] = Accepted(f[n])
    <3>1. n + 1 \in 0 .. Prefill /\ n + 1 # 0 /\ (n + 1) - 1 = n
      BY <1>2, <2>1
    <3>2. f[n + 1] = IF n + 1 = 0 THEN k ELSE Accepted(f[(n + 1) - 1])
      BY <1>1, <3>1
    <3> QED BY <3>1, <3>2
  <2>2. f[0] = k
    <3>1. 0 \in 0 .. Prefill
      BY <1>2
    <3> QED BY <1>1, <3>1
  <2> QED BY <2>1, <2>2
<1>4. 0 \in S
  BY <1>3
<1>5. ASSUME NEW n \in Nat, n \in S PROVE n + 1 \in S
  <2>1. ASSUME n + 1 <= Prefill PROVE Good(n + 1)
    <3>1. Good(n)
      BY <1>2, <1>5, <2>1
    <3> QED BY <1>3, <2>1, <3>1, AcceptedIs
  <2> QED BY <2>1
<1>6. Prefill \in S
  BY <1>2, <1>4, <1>5, SetInduction
<1> QED BY <1>1, <1>2, <1>6

-----------------------------------------------------------------------------
(* The requests: the invariant.                                            *)

\* While the player plays no respawn is under way, and the split flag says whether
\* this life asked for one; a flag left from a life that ended goes with the next
\* respawn request.
LoopSound(p, k, a) ==
  /\ DOMAIN p = {"accumulated", "todo", "playing", "began", "life", "split", "respawn"}
  /\ p.playing \in BOOLEAN /\ p.split \in BOOLEAN /\ p.respawn \in BOOLEAN
  /\ p.life \in Nat \ {0}
  /\ DOMAIN a = {"split", "respawn"}
  /\ a.split \in 0 .. p.life /\ a.respawn \in 0 .. p.life
  /\ p.playing => /\ ~k.requested /\ ~p.respawn /\ a.respawn # p.life
                  /\ p.split <=> a.split = p.life
  /\ ~p.playing => /\ p.respawn <=> a.respawn = p.life
                   /\ p.split => ~p.respawn /\ ~k.requested

PacingInv == LinkSound(link) /\ LoopSound(loop, link, asked)

LEMMA PacingStart ==
  ASSUME PacingInit PROVE PacingInv
<1>1. LinkSound(link)
  BY DEF PacingInit, LinkSound
<1>2. LoopSound(loop, link, asked)
  BY <1>1 DEF PacingInit, LoopSound, Nobody
<1> QED BY <1>1, <1>2 DEF PacingInv

LEMMA PacingInvCarries ==
  ASSUME PacingInv PROVE RequestsCarriedOnce
BY DEF PacingInv, LoopSound, RequestsCarriedOnce

\* A poll of the events while the loop holds what sent says.
LEMMA PolledIs ==
  ASSUME NEW w, LinkSound(w.link), NEW news \in {"none", "died", "respawned"},
         DOMAIN w.loop = {"accumulated", "todo", "playing", "began", "life", "split",
                          "respawn"},
         NEW v, v = Polled(w, news)
  PROVE  /\ LinkSound(v.link) /\ DOMAIN v.loop = DOMAIN w.loop
         /\ v.link.requested <=> w.link.requested /\ news # "respawned"
         /\ v.loop.playing = IF news = "none" THEN w.loop.playing ELSE news = "respawned"
         /\ v.loop.life = IF news = "respawned" THEN w.loop.life + 1 ELSE w.loop.life
         /\ v.loop.split = w.loop.split /\ v.loop.respawn = w.loop.respawn
<1> DEFINE k == Flushed(w.link)
<1>1. LinkSound(k) /\ k.requested = w.link.requested
  BY FlushedIs
<1>2. /\ v.link = [k EXCEPT !.requested = k.requested /\ news # "respawned"]
      /\ v.loop = [w.loop EXCEPT
           !.playing = IF news = "none" THEN w.loop.playing ELSE news = "respawned",
           !.life = IF news = "respawned" THEN w.loop.life + 1 ELSE w.loop.life]
  BY DEF Polled
<1> HIDE DEF k
<1>3. LinkSound(v.link) /\ (v.link.requested <=> w.link.requested /\ news # "respawned")
  BY <1>1, <1>2 DEF LinkSound
<1> QED BY <1>2, <1>3

\* The news of a poll: a death while playing, a respawn that was requested.
LEMMA NewsIs ==
  ASSUME NEW w, NEW news \in News(w)
  PROVE  /\ news \in {"none", "died", "respawned"}
         /\ news = "died" => w.loop.playing
         /\ news = "respawned" => ~w.loop.playing /\ w.link.requested /\ w.link.unsent = 0
BY DEF News

LEMMA BeginFrameKeeps ==
  ASSUME PacingInv, NEW time, NEW rate, NEW pressed \in BOOLEAN,
         BeginFrame(time, rate, pressed)
  PROVE  PacingInv'
<1> DEFINE k == link
           p == [loop EXCEPT !.began = loop.playing]
           w == [loop |-> p, link |-> k]
<1>1. LinkSound(k) /\ k.requested = link.requested
  BY DEF PacingInv
<1>2. /\ DOMAIN p = DOMAIN loop /\ p.playing = loop.playing /\ p.life = loop.life
      /\ p.split = loop.split /\ p.respawn = loop.respawn
  BY DEF PacingInv, LoopSound
<1> DEFINE a(v) == Advanced(loop.accumulated,
                     IF v.loop.playing /\ ~v.link.paused
                     THEN ScaledElapsed(Least(time, MaxFrameDelta), rate)
                     ELSE Least(time, MaxFrameDelta))
<1>3. PICK news \in News(w) :
        LET v == Polled(w, news) IN
        /\ link' = v.link
        /\ loop' = [v.loop EXCEPT
             !.accumulated = a(v).accumulated, !.todo = a(v).steps,
             !.split = IF v.loop.playing THEN v.loop.split \/ pressed
                       ELSE v.loop.split /\ ~pressed,
             !.respawn = ~v.loop.playing /\ (v.loop.respawn \/ pressed)]
        /\ asked' = IF ~pressed THEN asked
                    ELSE IF v.loop.playing THEN [asked EXCEPT !.split = v.loop.life]
                    ELSE [asked EXCEPT !.respawn = v.loop.life]
  BY DEF BeginFrame
<1> DEFINE v == Polled(w, news)
<1> HIDE DEF k, p, a
<1>4. /\ news \in {"none", "died", "respawned"}
      /\ news = "died" => loop.playing
      /\ news = "respawned" => ~loop.playing /\ link.requested
  BY <1>1, <1>2, NewsIs
<1>5. /\ LinkSound(v.link) /\ DOMAIN v.loop = DOMAIN loop
      /\ v.link.requested <=> link.requested /\ news # "respawned"
      /\ v.loop.playing = IF news = "none" THEN loop.playing ELSE news = "respawned"
      /\ v.loop.life = IF news = "respawned" THEN loop.life + 1 ELSE loop.life
      /\ v.loop.split = loop.split /\ v.loop.respawn = loop.respawn
  <2>1. LinkSound(w.link) /\ w.loop = p /\ w.link = k
    BY <1>1
  <2>2. DOMAIN w.loop = {"accumulated", "todo", "playing", "began", "life", "split",
                         "respawn"}
    BY <1>2, <2>1 DEF PacingInv, LoopSound
  <2>3. v = Polled(w, news)
    OBVIOUS
  <2> HIDE DEF w, v
  <2> QED BY <1>1, <1>2, <1>4, <2>1, <2>2, <2>3, PolledIs
<1> HIDE DEF v
<1> DEFINE split == IF v.loop.playing THEN v.loop.split \/ pressed
                    ELSE v.loop.split /\ ~pressed
           respawn == ~v.loop.playing /\ (v.loop.respawn \/ pressed)
<1>6. /\ DOMAIN loop' = DOMAIN loop /\ loop'.playing = v.loop.playing
      /\ loop'.life = v.loop.life /\ loop'.split = split /\ loop'.respawn = respawn
  <2> DEFINE y == a(v).accumulated
             z == a(v).steps
  <2>1. loop' = [v.loop EXCEPT !.accumulated = y, !.todo = z,
                               !.split = split, !.respawn = respawn]
    BY <1>3 DEF v
  <2> HIDE DEF y, z, split, respawn
  <2> QED BY <1>5, <2>1 DEF PacingInv, LoopSound
<1>7. LoopSound(loop', link', asked')
  <2>1. link'.requested <=> link.requested /\ news # "respawned"
    BY <1>3, <1>5 DEF v
  <2>2. /\ DOMAIN asked' = DOMAIN asked
        /\ asked'.split = IF pressed /\ v.loop.playing THEN v.loop.life ELSE asked.split
        /\ asked'.respawn = IF pressed /\ ~v.loop.playing THEN v.loop.life ELSE asked.respawn
    <3>1. asked' = IF ~pressed THEN asked
                   ELSE IF v.loop.playing THEN [asked EXCEPT !.split = v.loop.life]
                   ELSE [asked EXCEPT !.respawn = v.loop.life]
      BY <1>3 DEF v
    <3>2. DOMAIN asked = {"split", "respawn"}
      BY DEF PacingInv, LoopSound
    <3>3. CASE ~pressed
      BY <3>1, <3>3
    <3>4. CASE pressed /\ v.loop.playing
      BY <3>1, <3>2, <3>4
    <3>5. CASE pressed /\ ~v.loop.playing
      BY <3>1, <3>2, <3>5
    <3> QED BY <3>3, <3>4, <3>5
  <2>3. LoopSound(loop, link, asked)
    BY DEF PacingInv
  <2>4. CASE news = "none"
    BY <1>5, <1>6, <2>1, <2>2, <2>3, <2>4 DEF LoopSound
  <2>5. CASE news = "died"
    BY <1>4, <1>5, <1>6, <2>1, <2>2, <2>3, <2>5 DEF LoopSound
  <2>6. CASE news = "respawned"
    BY <1>4, <1>5, <1>6, <2>1, <2>2, <2>3, <2>6 DEF LoopSound
  <2> QED BY <1>4, <2>4, <2>5, <2>6
<1> QED BY <1>3, <1>5, <1>7 DEF PacingInv, v

\* A step: what it submits leaves the flags and the requests in agreement, and so
\* does the poll that follows.
LEMMA FixedStepKeeps ==
  ASSUME PacingInv, FixedStep
  PROVE  PacingInv'
<1> DEFINE submits == ~link.paused /\ (loop.playing \/ loop.respawn)
           splits == submits /\ loop.playing /\ loop.split
           respawns == submits /\ ~loop.playing
           p == [loop EXCEPT !.split = Uncarried(loop.split, splits),
                             !.respawn = Uncarried(loop.respawn, respawns)]
           k == IF submits
                THEN [Accepted(link) EXCEPT !.requested = Accepted(link).requested \/ respawns]
                ELSE link
           a == [split |-> IF splits THEN Nobody ELSE asked.split,
                 respawn |-> IF respawns THEN Nobody ELSE asked.respawn]
           w == [loop |-> p, link |-> k]
<1>1. LoopSound(loop, link, asked) /\ LinkSound(link)
  BY DEF PacingInv
<1>2. PICK news \in News(w) :
        LET v == Polled(w, news) IN
        /\ link' = IF news = "respawned" THEN Prefilled(v.link) ELSE v.link
        /\ loop' = [v.loop EXCEPT !.todo = v.loop.todo - 1,
                                  !.split = v.loop.split /\ v.loop.playing]
        /\ asked' = a
  BY DEF FixedStep
<1>3. /\ DOMAIN p = DOMAIN loop /\ p.playing = loop.playing /\ p.life = loop.life
      /\ p.split <=> loop.split /\ ~splits
      /\ p.respawn <=> loop.respawn /\ ~respawns
      /\ p.split \in BOOLEAN /\ p.respawn \in BOOLEAN
  BY <1>1 DEF LoopSound, Uncarried
<1>4. LinkSound(k) /\ (k.requested <=> link.requested \/ respawns)
  <2>1. LinkSound(Accepted(link)) /\ Accepted(link).requested = link.requested
    BY <1>1, AcceptedIs
  <2> HIDE DEF submits, respawns
  <2>2. respawns \in BOOLEAN
    BY DEF respawns
  <2>3. respawns => submits
    BY DEF respawns
  <2> QED BY <1>1, <2>1, <2>2, <2>3 DEF LinkSound
<1>5. LoopSound(p, k, a)
  <2> HIDE DEF p, k
  <2> QED BY <1>1, <1>3, <1>4 DEF LoopSound, Nobody
<1>6. loop.respawn /\ ~loop.playing /\ ~respawns => k.unsent > 0
  BY <1>1 DEF LinkSound
<1> HIDE DEF p, k, a
<1> DEFINE v == Polled(w, news)
<1>7. /\ news \in {"none", "died", "respawned"}
      /\ news = "died" => loop.playing
      /\ news = "respawned" => ~loop.playing /\ k.requested /\ ~p.respawn
  <2>1. /\ news \in {"none", "died", "respawned"}
        /\ news = "died" => p.playing
        /\ news = "respawned" => ~p.playing /\ k.requested /\ k.unsent = 0
    BY NewsIs
  <2>2. news = "respawned" => ~p.respawn
    BY <1>3, <1>6, <2>1
  <2> QED BY <1>3, <2>1, <2>2
<1>8. /\ LinkSound(v.link) /\ DOMAIN v.loop = DOMAIN loop
      /\ v.link.requested <=> k.requested /\ news # "respawned"
      /\ v.loop.playing = IF news = "none" THEN p.playing ELSE news = "respawned"
      /\ v.loop.life = IF news = "respawned" THEN p.life + 1 ELSE p.life
      /\ v.loop.split = p.split /\ v.loop.respawn = p.respawn
  <2>1. LinkSound(w.link) /\ w.loop = p /\ w.link = k
    BY <1>4
  <2>2. DOMAIN w.loop = {"accumulated", "todo", "playing", "began", "life", "split",
                         "respawn"}
    BY <1>1, <1>3, <2>1 DEF LoopSound
  <2>3. v = Polled(w, news)
    OBVIOUS
  <2> HIDE DEF w, v
  <2> QED BY <1>3, <1>7, <2>1, <2>2, <2>3, PolledIs
<1>9. /\ link' = IF news = "respawned" THEN Prefilled(v.link) ELSE v.link
      /\ loop' = [v.loop EXCEPT !.todo = v.loop.todo - 1,
                                !.split = v.loop.split /\ v.loop.playing]
      /\ asked' = a
  BY <1>2
<1> HIDE DEF v, w
<1>10. LinkSound(link') /\ link'.requested = v.link.requested
  BY <1>8, <1>9, PrefilledIs
<1>11. /\ DOMAIN loop' = DOMAIN loop /\ loop'.playing = v.loop.playing
       /\ loop'.life = v.loop.life /\ loop'.respawn = v.loop.respawn
       /\ loop'.split = (v.loop.split /\ v.loop.playing)
  <2> DEFINE z == v.loop.todo - 1
             split == v.loop.split /\ v.loop.playing
  <2>1. loop' = [v.loop EXCEPT !.todo = z, !.split = split]
    BY <1>9
  <2> HIDE DEF z, split
  <2>2. /\ DOMAIN loop' = DOMAIN loop /\ loop'.playing = v.loop.playing
        /\ loop'.life = v.loop.life /\ loop'.respawn = v.loop.respawn
        /\ loop'.split = split
    BY <1>1, <1>8, <2>1 DEF LoopSound
  <2> QED BY <2>2 DEF split
<1>12. LoopSound(loop', link', asked')
  <2>1. CASE news = "none"
    BY <1>1, <1>3, <1>5, <1>8, <1>9, <1>10, <1>11, <2>1 DEF LoopSound
  <2>2. CASE news = "died"
    BY <1>1, <1>3, <1>5, <1>7, <1>8, <1>9, <1>10, <1>11, <2>2 DEF LoopSound
  <2>3. CASE news = "respawned"
    <3>1. ~p.playing /\ k.requested /\ ~p.split /\ ~p.respawn
      BY <1>3, <1>5, <1>7, <2>3 DEF LoopSound
    <3>2. loop'.playing = TRUE /\ loop'.split = FALSE /\ loop'.respawn = FALSE
      BY <1>3, <1>8, <1>11, <2>3, <3>1
    <3>3. loop'.life = p.life + 1 /\ ~link'.requested
      BY <1>8, <1>10, <1>11, <2>3
    <3>4. /\ loop'.life \in Nat \ {0}
          /\ asked'.split \in 0 .. loop'.life /\ asked'.split # loop'.life
          /\ asked'.respawn \in 0 .. loop'.life /\ asked'.respawn # loop'.life
      BY <1>5, <1>9, <3>3 DEF LoopSound
    <3> QED BY <1>1, <1>5, <1>8, <1>9, <1>11, <3>2, <3>3, <3>4 DEF LoopSound
  <2> QED BY <1>7, <2>1, <2>2, <2>3
<1> QED BY <1>10, <1>12 DEF PacingInv

\* The rest of a frame: the flags of the other mode are dropped.
LEMMA EndFrameKeeps ==
  ASSUME PacingInv, NEW surface \in BOOLEAN, EndFrame(surface)
  PROVE  PacingInv'
<1> DEFINE split == loop.split /\ (loop.playing \/ ~surface)
           respawn == loop.respawn /\ (~loop.playing \/ ~surface)
<1>1. LoopSound(loop, link, asked) /\ LinkSound(link)
  BY DEF PacingInv
<1>2. /\ loop' = [loop EXCEPT !.todo = Between, !.began = FALSE,
                              !.split = split, !.respawn = respawn]
      /\ UNCHANGED <<link, asked>>
  BY DEF EndFrame
<1>3. split \in BOOLEAN /\ respawn \in BOOLEAN
  BY <1>1 DEF LoopSound
<1>4. /\ split => loop.split
      /\ loop.playing => (split <=> loop.split) /\ (respawn => loop.respawn)
      /\ ~loop.playing => (respawn <=> loop.respawn)
  OBVIOUS
<1> HIDE DEF split, respawn
<1>5. /\ DOMAIN loop' = DOMAIN loop /\ loop'.playing = loop.playing
      /\ loop'.life = loop.life /\ loop'.split = split /\ loop'.respawn = respawn
  BY <1>1, <1>2 DEF LoopSound
<1>6. LoopSound(loop', link', asked')
  BY <1>1, <1>2, <1>3, <1>4, <1>5 DEF LoopSound
<1> QED BY <1>1, <1>2, <1>6 DEF PacingInv

LEMMA LinkChangesKeeps ==
  ASSUME PacingInv, LinkChanges
  PROVE  PacingInv'
<1>1. LoopSound(loop, link, asked) /\ LinkSound(link)
  BY DEF PacingInv
<1> DEFINE up == ~link.up
           outages == IF link.up THEN link.outages + 1 ELSE link.outages
<1>2. link' = [link EXCEPT !.up = up, !.outages = outages] /\ UNCHANGED <<loop, asked>>
  BY DEF LinkChanges
<1> HIDE DEF up, outages
<1>3. LinkSound(link') /\ link'.requested = link.requested
  BY <1>1, <1>2 DEF LinkSound
<1> QED BY <1>1, <1>2, <1>3 DEF PacingInv, LoopSound

LEMMA PacingStepKeeps ==
  ASSUME PacingInv, PacingNext \/ UNCHANGED pacingVars
  PROVE  PacingInv'
<1>1. CASE UNCHANGED pacingVars
  BY <1>1 DEF pacingVars, PacingInv
<1>2. CASE PacingNext
  BY <1>2, BeginFrameKeeps, FixedStepKeeps, EndFrameKeeps, LinkChangesKeeps DEF PacingNext
<1> QED BY <1>1, <1>2

-----------------------------------------------------------------------------
(* The requests: theorems.                                                 *)

\* A step of the whole is a step of the pacing, or leaves it alone.
LEMMA PacingSteps ==
  ASSUME [Next]_presentationVars PROVE PacingNext \/ UNCHANGED pacingVars
<1>1. CASE Next
  BY <1>1 DEF Next
<1>2. CASE UNCHANGED presentationVars
  BY <1>2 DEF presentationVars
<1> QED BY <1>1, <1>2

\* The flags of the frame loop always agree with the history of what the player
\* asked and what the commands carried.
THEOREM PacingInvHolds == Spec => []PacingInv
<1>1. Init => PacingInv
  BY PacingStart DEF Init
<1>2. PacingInv /\ [Next]_presentationVars => PacingInv'
  BY PacingSteps, PacingStepKeeps
<1> QED BY <1>1, <1>2, PTL DEF Spec

\* A split or a respawn that the player asked for is carried by exactly one
\* command, and by none of another life: through pauses of the input, frames
\* without a step, deaths and respawns seen between two steps of a frame.
THEOREM RequestsAlwaysCarriedOnce == Spec => []RequestsCarriedOnce
<1>1. PacingInv => RequestsCarriedOnce
  BY PacingInvCarries
<1> QED BY <1>1, PacingInvHolds, PTL

-----------------------------------------------------------------------------
(* The tracks: the worlds a frame draws.                                   *)

Sources == {"Interpolated", "Extrapolated", "Predicted", "State"}

Circles ==
  [id : Ids, pos : Int, source : Sources, revision : Int, generation : Int, displacement : Int]

PredictionOK(p) ==
  /\ DOMAIN p = {"tick", "alive", "scope", "pending", "used", "guess", "correction", "resyncs"}
  /\ p.tick \in Int /\ p.alive \subseteq Ids /\ p.scope \subseteq {"p", "c", "r"}
  /\ p.pending \in BOOLEAN /\ p.used \in BOOLEAN /\ p.guess \in Int /\ p.resyncs \in Int
  /\ p.correction \in [generation : Int, displacement : Int]

\* A split child is known to the prediction under one identifier at a time: the
\* provisional one until the authority executed the split, and never again after.
WorldsSound ==
  /\ authority.tick \in Int
  /\ authority.alive \subseteq {"p", "c", "r"} /\ authority.before \subseteq {"p", "c", "r"}
  /\ PredictionOK(prediction)
  /\ prediction.pending => prediction.used
  /\ "c" \in authority.alive \cup authority.before \cup prediction.alive \cup prediction.scope
       => prediction.used /\ ~prediction.pending
  /\ "q" \in prediction.alive => prediction.pending

LEMMA WorldsStart ==
  ASSUME TracksInit PROVE WorldsSound
BY DEF TracksInit, WorldsSound, PredictionOK, Ids, NoCorrection

LEMMA SnapshotKeeps ==
  ASSUME WorldsSound, NEW dead, NEW split \in BOOLEAN, NEW seen \in SUBSET {"r"},
         Snapshot(dead, split, seen)
  PROVE  WorldsSound'
<1> DEFINE alive == (authority.alive \ dead) \cup (IF split THEN {"c"} ELSE {})
           held == (OwnIds \cup seen) \cap alive
           tick == IF prediction.tick > authority.tick THEN prediction.tick
                   ELSE authority.tick + 1
           pending == prediction.pending /\ ~split
           guessed == held \cup (IF prediction.pending /\ ~split THEN {"q"} ELSE {})
           correction == IF {"r"} \subseteq prediction.alive \cap seen \cap alive
                            /\ prediction.guess # 0
                         THEN [generation |-> prediction.correction.generation + 1,
                               displacement |-> prediction.guess]
                         ELSE prediction.correction
<1>1. /\ authority' = [tick |-> authority.tick + 1, alive |-> alive, before |-> authority.alive]
      /\ prediction' = [prediction EXCEPT
           !.tick = tick, !.pending = pending, !.scope = held, !.alive = guessed, !.guess = 0,
           !.correction = correction]
      /\ split => prediction.pending
  BY DEF Snapshot
<1>2. /\ tick \in Int /\ pending \in BOOLEAN
      /\ correction \in [generation : Int, displacement : Int]
  BY DEF WorldsSound, PredictionOK
<1>3. /\ alive \subseteq {"p", "c", "r"} /\ held \subseteq alive
      /\ guessed \subseteq alive \cup {"q"} /\ ("q" \in guessed => pending)
      /\ "c" \in alive => "c" \in authority.alive \/ split
  BY DEF WorldsSound
<1>4. "q" \notin alive
  BY <1>3
<1> HIDE DEF alive, held, tick, guessed, correction
<1>5. PredictionOK(prediction')
  BY <1>1, <1>2, <1>3 DEF WorldsSound, PredictionOK, Ids
<1>6. /\ prediction'.pending = pending /\ prediction'.used = prediction.used
      /\ prediction'.alive = guessed /\ prediction'.scope = held
  BY <1>1 DEF WorldsSound, PredictionOK
<1>7. /\ authority'.tick = authority.tick + 1 /\ authority'.alive = alive
      /\ authority'.before = authority.alive
  BY <1>1
<1>8. "c" \in alive \cup authority.alive \cup guessed \cup held => prediction.used /\ ~pending
  BY <1>1, <1>3 DEF WorldsSound
<1>9. "q" \in guessed => pending
  BY <1>3
<1>10. pending => prediction.used
  BY DEF WorldsSound
<1>11. authority'.tick \in Int /\ authority.alive \subseteq {"p", "c", "r"}
  BY <1>7 DEF WorldsSound
<1> HIDE DEF pending
<1> QED BY <1>3, <1>5, <1>6, <1>7, <1>8, <1>9, <1>10, <1>11 DEF WorldsSound

LEMMA PredictStepKeeps ==
  ASSUME WorldsSound, NEW split \in BOOLEAN, NEW dead, NEW guess \in {0, Error},
         PredictStep(split, dead, guess)
  PROVE  WorldsSound'
<1> DEFINE alive == (prediction.alive \ dead) \cup (IF split THEN {"q"} ELSE {})
<1>1. /\ prediction' = [prediction EXCEPT
           !.tick = prediction.tick + 1, !.pending = prediction.pending \/ split,
           !.used = prediction.used \/ split, !.alive = alive, !.guess = guess]
      /\ authority' = authority
      /\ split => ~prediction.pending /\ ~prediction.used
  BY DEF PredictStep
<1>2. guess \in Int
  BY TracksAssumption
<1>3. /\ alive \subseteq prediction.alive \cup {"q"}
      /\ "q" \in alive => "q" \in prediction.alive \/ split
  OBVIOUS
<1> HIDE DEF alive
<1>4. PredictionOK(prediction')
  BY <1>1, <1>2, <1>3 DEF WorldsSound, PredictionOK, Ids
<1>5. /\ prediction'.pending <=> prediction.pending \/ split
      /\ prediction'.used <=> prediction.used \/ split
      /\ prediction'.alive = alive /\ prediction'.scope = prediction.scope
  BY <1>1 DEF WorldsSound, PredictionOK
<1> QED BY <1>1, <1>3, <1>4, <1>5 DEF WorldsSound

LEMMA TracksHardResyncKeeps ==
  ASSUME WorldsSound, TracksHardResync
  PROVE  WorldsSound'
<1>1. /\ prediction' = [prediction EXCEPT
           !.tick = authority.tick, !.alive = prediction.scope, !.guess = 0,
           !.pending = FALSE, !.correction = NoCorrection, !.resyncs = prediction.resyncs + 1]
      /\ authority' = authority
  BY DEF TracksHardResync
<1>2. NoCorrection \in [generation : Int, displacement : Int]
  BY DEF NoCorrection
<1>3. PredictionOK(prediction')
  BY <1>1, <1>2 DEF WorldsSound, PredictionOK, Ids
<1>4. /\ prediction'.pending = FALSE /\ prediction'.used = prediction.used
      /\ prediction'.alive = prediction.scope /\ prediction'.scope = prediction.scope
  BY <1>1 DEF WorldsSound, PredictionOK
<1> QED BY <1>1, <1>3, <1>4 DEF WorldsSound, PredictionOK

LEMMA TracksDefeatKeeps ==
  ASSUME WorldsSound, TracksDefeat
  PROVE  WorldsSound'
<1>1. /\ authority'.tick = authority.tick + 1 /\ authority'.alive = authority.alive \ OwnIds
      /\ authority'.before = authority.alive
  BY DEF TracksDefeat
<1>2. PredictionOK(prediction')
  BY DEF WorldsSound, PredictionOK, TracksDefeat, NoCorrection
<1>3. /\ prediction'.pending = FALSE /\ prediction'.used = prediction.used
      /\ prediction'.alive = {} /\ prediction'.scope = {}
  BY DEF WorldsSound, PredictionOK, TracksDefeat
<1> QED BY <1>1, <1>2, <1>3 DEF WorldsSound

-----------------------------------------------------------------------------
(* The tracks: what a frame draws.                                         *)

OneEach(circles) == \A c, d \in circles : KeyFor(c.id) = KeyFor(d.id) => c = d

LEMMA PlayerPoseIs ==
  ASSUME NEW tick \in Int
  PROVE  Pose(tick) \in Int
<1>1. Speed \in Int
  BY TracksAssumption
<1> QED BY <1>1 DEF Pose

LEMMA CircleIs ==
  ASSUME NEW id \in Ids, NEW pos \in Int, NEW source \in Sources, NEW revision \in Int
  PROVE  Circle(id, pos, source, revision) \in Circles /\ Circle(id, pos, source, revision).id = id
BY DEF Circle, Circles

\* The authority names no provisional child, and has each entity once.
LEMMA RemoteCirclesAre ==
  ASSUME WorldsSound, NEW delayed \in BOOLEAN
  PROVE  /\ RemoteCircles(delayed) \subseteq Circles
         /\ \A c, d \in RemoteCircles(delayed) : c.id = d.id => c = d
         /\ \A c \in RemoteCircles(delayed) :
              /\ c.id \in {"p", "c", "r"} /\ (playing => c.id # "p")
              /\ c.id = "c" => prediction.used /\ ~prediction.pending
<1> DEFINE tick == authority.tick - (IF delayed THEN 1 ELSE 0)
           sampled == (IF delayed THEN authority.before ELSE authority.alive)
                        \ (IF playing THEN {"p"} ELSE {})
           source == IF delayed THEN "Interpolated" ELSE "Extrapolated"
<1>1. RemoteCircles(delayed) = {Circle(id, Pose(tick), source, tick) : id \in sampled}
  BY DEF RemoteCircles
<1>2. tick \in Int /\ Pose(tick) \in Int /\ source \in Sources
  <2>1. tick \in Int /\ source \in Sources
    BY DEF WorldsSound, Sources
  <2> HIDE DEF tick, source
  <2> QED BY <2>1, PlayerPoseIs
<1>3. /\ sampled \subseteq {"p", "c", "r"} /\ (playing => "p" \notin sampled)
      /\ "c" \in sampled => prediction.used /\ ~prediction.pending
  BY DEF WorldsSound
<1> HIDE DEF tick, sampled, source
<1>4. \A id \in sampled : /\ Circle(id, Pose(tick), source, tick) \in Circles
                          /\ Circle(id, Pose(tick), source, tick).id = id
  BY <1>2, <1>3, CircleIs DEF Ids
<1> QED BY <1>1, <1>3, <1>4

LEMMA PrimaryIs ==
  Primary \in OwnIds /\ (Primary \in prediction.alive \/ Primary = "p")
<1>1. CASE "p" \in prediction.alive \/ prediction.alive \cap OwnIds = {}
  BY <1>1 DEF Primary, OwnIds
<1>2. CASE ~("p" \in prediction.alive \/ prediction.alive \cap OwnIds = {})
  <2>1. Primary = CHOOSE id \in prediction.alive \cap OwnIds : TRUE
    BY <1>2 DEF Primary
  <2> QED BY <1>2, <2>1
<1> QED BY <1>1, <1>2

LEMMA PredictedCircleIs ==
  ASSUME WorldsSound, NEW id \in Ids
  PROVE  PredictedCircle(id) \in Circles /\ PredictedCircle(id).id = id
<1> DEFINE pos == Pose(prediction.tick) + (IF id = "r" THEN prediction.guess ELSE 0)
           source == IF id = Primary THEN "State" ELSE "Predicted"
           generation == IF id = "r" THEN prediction.correction.generation ELSE 0
           displacement == IF id = "r" THEN prediction.correction.displacement ELSE 0
           c == Circle(id, pos, source, prediction.tick)
<1>1. PredictedCircle(id) = [c EXCEPT !.generation = generation, !.displacement = displacement]
  BY DEF PredictedCircle
<1>2. pos \in Int /\ source \in Sources /\ generation \in Int /\ displacement \in Int
  <2>1. /\ prediction.tick \in Int /\ prediction.guess \in Int
        /\ prediction.correction \in [generation : Int, displacement : Int]
    BY DEF WorldsSound, PredictionOK
  <2>2. Pose(prediction.tick) \in Int
    BY <2>1, PlayerPoseIs
  <2> QED BY <2>1, <2>2 DEF Sources
<1>3. c \in Circles /\ c.id = id
  BY <1>2, CircleIs DEF WorldsSound, PredictionOK
<1> HIDE DEF c, generation, displacement
<1> QED BY <1>1, <1>2, <1>3 DEF Circles

LEMMA PlayingCirclesAre ==
  ASSUME WorldsSound, playing, NEW delayed \in BOOLEAN
  PROVE  PlayingCircles(delayed) \subseteq Circles /\ OneEach(PlayingCircles(delayed))
<1> DEFINE outside == OutsidePrediction(RemoteCircles(delayed))
           predicted == {PredictedCircle(id) : id \in prediction.alive}
           lost == IF Primary \in prediction.alive THEN {}
                   ELSE {Circle(Primary, Pose(prediction.tick), "State", 0)}
<1>1. PlayingCircles(delayed) = outside \cup predicted \cup lost
  BY DEF PlayingCircles
<1>2. /\ outside \subseteq Circles
      /\ \A c, d \in outside : c.id = d.id => c = d
      /\ \A c \in outside : /\ c.id \in {"c", "r"} /\ c.id \notin prediction.alive
                            /\ c.id = "c" => ~prediction.pending
  BY RemoteCirclesAre DEF OutsidePrediction
<1>3. /\ predicted \subseteq Circles
      /\ \A c, d \in predicted : c.id = d.id => c = d
      /\ \A c \in predicted : c.id \in prediction.alive
  <2>1. prediction.alive \subseteq Ids
    BY DEF WorldsSound, PredictionOK
  <2> QED BY <2>1, PredictedCircleIs
<1>4. /\ lost \subseteq Circles
      /\ \A c, d \in lost : c = d
      /\ \A c \in lost : c.id = "p" /\ "p" \notin prediction.alive
  <2>1. Pose(prediction.tick) \in Int /\ "p" \in Ids /\ "State" \in Sources /\ 0 \in Int
    BY PlayerPoseIs DEF WorldsSound, PredictionOK, Ids, Sources
  <2>2. /\ Circle("p", Pose(prediction.tick), "State", 0) \in Circles
        /\ Circle("p", Pose(prediction.tick), "State", 0).id = "p"
    BY <2>1, CircleIs
  <2> QED BY <2>2, PrimaryIs
<1>5. ~({"c", "q"} \subseteq prediction.alive) /\ prediction.alive \subseteq Ids
  BY DEF WorldsSound, PredictionOK
<1>6. "q" \in prediction.alive => prediction.pending
  BY DEF WorldsSound
<1> HIDE DEF outside, predicted, lost
<1>7. \A c, d \in outside \cup predicted \cup lost : c.id = d.id => c = d
  BY <1>2, <1>3, <1>4
<1>8. \A c, d \in outside \cup predicted \cup lost :
        KeyFor(c.id) = KeyFor(d.id) => c.id = d.id
  <2> SUFFICES ASSUME NEW c \in outside \cup predicted \cup lost,
                      NEW d \in outside \cup predicted \cup lost,
                      KeyFor(c.id) = KeyFor(d.id), c.id # d.id
               PROVE  FALSE
    OBVIOUS
  <2>1. c.id \in Ids /\ d.id \in Ids
    BY <1>2, <1>3, <1>4 DEF Circles
  <2>2. {c.id, d.id} = {"c", "q"}
    BY <2>1 DEF KeyFor, Ids
  <2>3. PICK x \in {c, d} : x.id = "q"
    BY <2>2
  <2>4. PICK y \in {c, d} : y.id = "c"
    BY <2>2
  <2>5. "q" \in prediction.alive
    BY <1>2, <1>3, <1>4, <2>3
  <2>6. "c" \in prediction.alive \/ ~prediction.pending
    BY <1>2, <1>3, <1>4, <2>4
  <2> QED BY <1>5, <1>6, <2>5, <2>6
<1> QED BY <1>1, <1>2, <1>3, <1>4, <1>7, <1>8 DEF OneEach

LEMMA SpectatedCirclesAre ==
  ASSUME WorldsSound, NEW delayed \in BOOLEAN
  PROVE  RemoteCircles(delayed) \subseteq Circles /\ OneEach(RemoteCircles(delayed))
<1>1. \A id \in {"p", "c", "r"}, other \in {"p", "c", "r"} : KeyFor(id) = KeyFor(other) => id = other
  BY DEF KeyFor
<1> QED BY <1>1, RemoteCirclesAre DEF OneEach

-----------------------------------------------------------------------------
(* The tracks: a track and the circle it shows.                            *)

Tracked ==
  [previous : Circles, current : Circles, offset : Int, age : 0 .. TrackSmoothing,
   active : BOOLEAN, fading : BOOLEAN, fadeAge : 0 .. TrackSmoothing, lastId : Ids]

LEMMA DivisionIs ==
  ASSUME NEW n \in Int, NEW d \in Nat \ {0}
  PROVE  n \div d \in Int /\ (n * d) \div d = n
<1>1. n \div d \in Int
  OBVIOUS
<1>2. n * d \in Int
  OBVIOUS
<1>3. (n * d) \div d = n
  BY <1>2
<1> QED BY <1>1, <1>3

LEMMA EvaluateIs ==
  ASSUME NEW t \in Tracked, NEW alpha \in Int
  PROVE  Evaluate(t, alpha) \in Int
<1> DEFINE distance == (t.current.pos - t.previous.pos) * alpha
           left == t.offset * (TrackSmoothing - t.age)
<1>1. /\ t.current.pos \in Int /\ t.previous.pos \in Int /\ t.offset \in Int /\ t.age \in Int
      /\ TrackSmoothing \in Nat \ {0} /\ TrackAlphaSteps \in Nat \ {0}
  BY TracksAssumption DEF Tracked, Circles
<1>2. distance \in Int /\ left \in Int
  BY <1>1
<1> HIDE DEF distance, left
<1>3. distance \div TrackAlphaSteps \in Int /\ left \div TrackSmoothing \in Int
  BY <1>1, <1>2, DivisionIs
<1> DEFINE near == t.previous.pos + distance \div TrackAlphaSteps
           rest == left \div TrackSmoothing
<1>4. near \in Int /\ rest \in Int
  BY <1>1, <1>3
<1>5. \/ Evaluate(t, alpha) = near \/ Evaluate(t, alpha) = near + rest
      \/ Evaluate(t, alpha) = t.current.pos \/ Evaluate(t, alpha) = t.current.pos + rest
      \/ Evaluate(t, alpha) = near + 0 \/ Evaluate(t, alpha) = t.current.pos + 0
  BY DEF Evaluate, distance, left
<1> HIDE DEF near, rest
<1> QED BY <1>1, <1>4, <1>5

\* A track that shows a circle at rest, and starts to decay from an offset.
LEMMA EvaluateFresh ==
  ASSUME NEW t \in Tracked, NEW alpha \in Int, t.previous = t.current, t.age = 0,
         t.active <=> t.offset # 0
  PROVE  Evaluate(t, alpha) = t.current.pos + t.offset
<1>1. /\ t.current.pos \in Int /\ t.offset \in Int
      /\ TrackSmoothing \in Nat \ {0}
  BY TracksAssumption DEF Tracked, Circles
<1>2. Evaluate(t, alpha) = t.current.pos
        + (IF t.active THEN (t.offset * (TrackSmoothing - t.age)) \div TrackSmoothing ELSE 0)
  BY DEF Evaluate
<1>3. TrackSmoothing - t.age = TrackSmoothing
  BY <1>1
<1>4. (t.offset * TrackSmoothing) \div TrackSmoothing = t.offset
  BY <1>1, DivisionIs
<1> QED BY <1>1, <1>2, <1>3, <1>4

LEMMA NewTrackIs ==
  ASSUME NEW c \in Circles
  PROVE  NewTrack(c) \in Tracked /\ ~NewTrack(c).fading
<1>1. 0 \in 0 .. TrackSmoothing
  BY TracksAssumption
<1> QED BY <1>1 DEF NewTrack, Tracked, Circles

LEMMA OlderTrackIs ==
  ASSUME NEW t \in Tracked, NEW elapsed \in Nat
  PROVE  /\ Older(t, elapsed) \in Tracked
         /\ Older(t, elapsed).fading = t.fading
         /\ Older(t, elapsed).current = t.current
         /\ Older(t, elapsed).lastId = t.lastId
         /\ elapsed = 0 /\ ~t.fading => Older(t, elapsed) = [t EXCEPT !.fadeAge = 0]
<1> DEFINE age == Saturated(t.age, elapsed, TrackSmoothing)
           fade == IF t.fading THEN Saturated(t.fadeAge, elapsed, TrackSmoothing) ELSE 0
<1>1. /\ TrackSmoothing \in Nat /\ t.age \in 0 .. TrackSmoothing
      /\ t.fadeAge \in 0 .. TrackSmoothing
  BY TracksAssumption DEF Tracked
<1>2. age \in 0 .. TrackSmoothing /\ fade \in 0 .. TrackSmoothing
  BY <1>1 DEF Saturated
<1>3. elapsed = 0 => age = t.age
  BY <1>1 DEF Saturated
<1>4. ~t.fading => fade = 0
  OBVIOUS
<1>5. Older(t, elapsed) = [t EXCEPT !.age = age, !.fadeAge = fade]
  BY DEF Older
<1> HIDE DEF age, fade
<1> QED BY <1>2, <1>3, <1>4, <1>5 DEF Tracked

LEMMA ReplacedIs ==
  ASSUME NEW t \in Tracked, NEW c \in Circles
  PROVE  /\ Replaced(t, c) \in Tracked
         /\ \E a, b \in Circles : Replaced(t, c) = [t EXCEPT !.previous = a, !.current = b]
<1>1. CASE Replaced(t, c) = [t EXCEPT !.previous = t.current, !.current = c]
  BY <1>1 DEF Tracked
<1>2. CASE Replaced(t, c) = [t EXCEPT !.previous = c, !.current = c]
  BY <1>2 DEF Tracked
<1>3. CASE Replaced(t, c) = t
  <2>1. t = [t EXCEPT !.previous = t.previous, !.current = t.current]
    BY DEF Tracked
  <2> QED BY <1>3, <2>1 DEF Tracked
<1> QED BY <1>1, <1>2, <1>3 DEF Replaced

ResidualOf(t, c, alpha) ==
  /\ Residual(t, c, alpha) \in Int
  /\ Observed(t, c, alpha) \in Tracked /\ ~Observed(t, c, alpha).fading

LEMMA ObservedIs ==
  ASSUME NEW t \in Tracked, NEW c \in Circles, NEW alpha \in Int
  PROVE  ResidualOf(t, c, alpha)
<1>1. Residual(t, c, alpha) \in Int
  <2>1. Evaluate(t, alpha) \in Int
    BY EvaluateIs
  <2>2. c.pos \in Int /\ c.displacement \in Int
    BY DEF Circles
  <2> QED BY <2>1, <2>2 DEF Residual
<1> DEFINE s == Replaced(t, c)
           r == [s EXCEPT !.lastId = c.id, !.fading = FALSE, !.fadeAge = 0]
           offset == Residual(t, c, alpha)
           active == Residual(t, c, alpha) # 0
<1>2. 0 \in 0 .. TrackSmoothing /\ c.id \in Ids /\ active \in BOOLEAN /\ s \in Tracked
  <2>1. s \in Tracked
    BY ReplacedIs
  <2>2. active \in BOOLEAN
    OBVIOUS
  <2>3. 0 \in 0 .. TrackSmoothing /\ c.id \in Ids
    BY TracksAssumption DEF Circles
  <2> QED BY <2>1, <2>2, <2>3
<1>3. r \in Tracked /\ ~r.fading
  <2> HIDE DEF s
  <2> QED BY <1>2 DEF Tracked
<1>4. \/ Observed(t, c, alpha) = r
      \/ Observed(t, c, alpha) = [r EXCEPT !.offset = offset, !.age = 0, !.active = active]
  BY DEF Observed
<1> HIDE DEF r, offset, active
<1>5. /\ [r EXCEPT !.offset = offset, !.age = 0, !.active = active] \in Tracked
      /\ ~[r EXCEPT !.offset = offset, !.age = 0, !.active = active].fading
  BY <1>1, <1>2, <1>3 DEF Tracked, offset
<1> QED BY <1>1, <1>3, <1>4, <1>5 DEF ResidualOf

\* A handover of the track: another source, a newer extrapolation, or another
\* identifier in the same prediction.
Handed(t, c) ==
  \/ t.current.source # c.source
  \/ t.current.revision # c.revision /\ c.source = "Extrapolated"
  \/ t.lastId # c.id /\ t.current.revision = c.revision

LEMMA HandoverIs ==
  ASSUME NEW t \in Tracked, NEW c \in Circles, NEW alpha \in Int, Handed(t, c)
  PROVE  Evaluate(Observed(t, c, alpha), alpha) = Evaluate(t, alpha)
<1> DEFINE s == [t EXCEPT !.previous = c, !.current = c]
           r == [s EXCEPT !.lastId = c.id, !.fading = FALSE, !.fadeAge = 0]
           offset == Evaluate(t, alpha) - c.pos
           active == offset # 0
           o == [r EXCEPT !.offset = offset, !.age = 0, !.active = active]
<1>1. Replaced(t, c) = s /\ SmoothChange(t, c) /\ Residual(t, c, alpha) = offset
  <2>1. Replaced(t, c) = s
    BY DEF Handed, Replaced
  <2>2. SmoothChange(t, c)
    BY DEF Handed, SmoothChange
  <2>3. Residual(t, c, alpha) = offset
    BY DEF Handed, Residual
  <2> QED BY <2>1, <2>2, <2>3
<1>2. Observed(t, c, alpha) = o
  BY <1>1 DEF Observed
<1>3. /\ Evaluate(t, alpha) \in Int /\ c.pos \in Int /\ c.id \in Ids
      /\ 0 \in 0 .. TrackSmoothing
  BY EvaluateIs, TracksAssumption DEF Circles
<1>4. offset \in Int /\ active \in BOOLEAN
  BY <1>3
<1>5. s \in Tracked /\ s.previous = c /\ s.current = c
  BY DEF Tracked
<1> HIDE DEF s
<1>6. r \in Tracked /\ r.previous = c /\ r.current = c
  BY <1>3, <1>5 DEF Tracked
<1>7. active <=> offset # 0
  OBVIOUS
<1> HIDE DEF r, offset, active
<1>8. /\ o \in Tracked /\ o.previous = c /\ o.current = c /\ o.age = 0
      /\ o.offset = offset /\ (o.active <=> active)
  BY <1>3, <1>4, <1>6 DEF Tracked
<1>9. Evaluate(o, alpha) = c.pos + offset
  <2> HIDE DEF o
  <2> QED BY <1>7, <1>8, EvaluateFresh
<1>10. c.pos + offset = Evaluate(t, alpha)
  BY <1>3 DEF offset
<1> QED BY <1>2, <1>9, <1>10

-----------------------------------------------------------------------------
(* The tracks: the tracks of a frame.                                      *)

TracksOK(all) ==
  /\ DOMAIN all \subseteq Keys
  /\ \A k \in DOMAIN all : all[k] \in Tracked /\ (all[k].fading => all[k].fadeAge < TrackSmoothing)

KeysOf(circles) == {KeyFor(c.id) : c \in circles}

SoughtIn(circles, k) == CHOOSE c \in circles : KeyFor(c.id) = k

LEMMA SoughtIs ==
  ASSUME NEW circles, OneEach(circles), NEW k \in KeysOf(circles)
  PROVE  /\ SoughtIn(circles, k) \in circles /\ KeyFor(SoughtIn(circles, k).id) = k
         /\ {c \in circles : KeyFor(c.id) = k} # {}
         /\ (CHOOSE c \in {d \in circles : KeyFor(d.id) = k} : TRUE) = SoughtIn(circles, k)
<1>1. \E c \in circles : KeyFor(c.id) = k
  BY DEF KeysOf
<1>2. SoughtIn(circles, k) \in circles /\ KeyFor(SoughtIn(circles, k).id) = k
  BY <1>1 DEF SoughtIn
<1> DEFINE seen == {c \in circles : KeyFor(c.id) = k}
           chosen == CHOOSE c \in seen : TRUE
<1>3. chosen \in seen
  BY <1>1
<1>4. chosen = SoughtIn(circles, k)
  BY <1>2, <1>3 DEF OneEach
<1> QED BY <1>1, <1>2, <1>4

\* An entity of the frame has its track; one that is gone fades.
LEMMA ComposedTrackIs ==
  ASSUME NEW old, TracksOK(old), NEW circles \in SUBSET Circles, OneEach(circles),
         NEW alpha \in Int, NEW elapsed \in Nat, NEW k \in DOMAIN old \cup KeysOf(circles)
  PROVE  /\ ComposedTrack(old, circles, k, alpha, elapsed) \in Tracked
         /\ ComposedTrack(old, circles, k, alpha, elapsed).fading <=> k \notin KeysOf(circles)
         /\ k \in DOMAIN old /\ k \in KeysOf(circles)
              => ComposedTrack(old, circles, k, alpha, elapsed)
                   = Observed(Older(old[k], elapsed), SoughtIn(circles, k), alpha)
<1> DEFINE new == ComposedTrack(old, circles, k, alpha, elapsed)
           aged == Older(old[k], elapsed)
           seen == {c \in circles : KeyFor(c.id) = k}
<1>1. CASE k \notin DOMAIN old
  <2>1. k \in KeysOf(circles) /\ new = NewTrack(CHOOSE c \in seen : TRUE)
    BY <1>1 DEF ComposedTrack
  <2>2. new = NewTrack(SoughtIn(circles, k)) /\ SoughtIn(circles, k) \in Circles
    BY <2>1, SoughtIs
  <2> QED BY <1>1, <2>1, <2>2, NewTrackIs
<1>2. CASE k \in DOMAIN old /\ k \in KeysOf(circles)
  <2>1. new = Observed(aged, CHOOSE c \in seen : TRUE, alpha)
    <3>1. seen # {}
      BY <1>2, SoughtIs
    <3> QED BY <1>2, <3>1 DEF ComposedTrack
  <2>2. /\ new = Observed(aged, SoughtIn(circles, k), alpha)
        /\ SoughtIn(circles, k) \in Circles
    BY <1>2, <2>1, SoughtIs
  <2>3. aged \in Tracked
    BY <1>2, OlderTrackIs DEF TracksOK
  <2>4. ResidualOf(aged, SoughtIn(circles, k), alpha)
    BY <2>2, <2>3, ObservedIs
  <2> QED BY <1>2, <2>2, <2>4 DEF ResidualOf
<1>3. CASE k \in DOMAIN old /\ k \notin KeysOf(circles)
  <2>1. aged \in Tracked
    BY <1>3, OlderTrackIs DEF TracksOK
  <2>2. new = IF aged.fading THEN aged ELSE [aged EXCEPT !.fading = TRUE, !.fadeAge = 0]
    <3>1. seen = {}
      BY <1>3 DEF KeysOf
    <3> QED BY <1>3, <3>1 DEF ComposedTrack
  <2> HIDE DEF aged, new
  <2>3. 0 \in 0 .. TrackSmoothing
    BY TracksAssumption
  <2>4. new \in Tracked /\ new.fading
    BY <2>1, <2>2, <2>3 DEF Tracked
  <2> QED BY <1>3, <2>4 DEF new
<1> QED BY <1>1, <1>2, <1>3

LEMMA ComposedTracksAre ==
  ASSUME NEW old, TracksOK(old), NEW circles \in SUBSET Circles, OneEach(circles),
         NEW alpha \in Int, NEW elapsed \in Nat, NEW new, new = ComposedTracks(old, circles, alpha, elapsed)
  PROVE  /\ TracksOK(new)
         /\ {k \in DOMAIN new : ~new[k].fading} = KeysOf(circles)
         /\ \A k \in DOMAIN old \cap KeysOf(circles) :
              new[k] = Observed(Older(old[k], elapsed), SoughtIn(circles, k), alpha)
<1> DEFINE keys == DOMAIN old \cup KeysOf(circles)
           at(k) == ComposedTrack(old, circles, k, alpha, elapsed)
           kept == {k \in keys : at(k).fading => at(k).fadeAge < TrackSmoothing}
<1>1. new = [k \in kept |-> at(k)]
  <2>1. new = Kept([k \in keys |-> at(k)])
    BY DEF ComposedTracks, KeysOf
  <2> QED BY <2>1 DEF Kept
<1>2. \A k \in keys : /\ at(k) \in Tracked /\ (at(k).fading <=> k \notin KeysOf(circles))
                      /\ k \in DOMAIN old /\ k \in KeysOf(circles)
                           => at(k) = Observed(Older(old[k], elapsed), SoughtIn(circles, k), alpha)
  BY ComposedTrackIs
<1>3. keys \subseteq Keys
  <2>1. \A c \in Circles : KeyFor(c.id) \in Keys
    BY DEF Circles, Ids, KeyFor, Keys
  <2> QED BY <2>1 DEF TracksOK, KeysOf
<1> HIDE DEF at
<1>4. /\ DOMAIN new = kept /\ \A k \in kept : new[k] = at(k)
      /\ KeysOf(circles) \subseteq kept
  BY <1>1, <1>2
<1>5. TracksOK(new)
  BY <1>2, <1>3, <1>4 DEF TracksOK
<1> QED BY <1>2, <1>4, <1>5

-----------------------------------------------------------------------------
(* The tracks: the trail.                                                  *)

TrailOK(samples) ==
  /\ samples \in Seq([pos : Int, age : 0 .. TrailRetention]) /\ Len(samples) <= TrailCapacity
  /\ \A i, j \in 1 .. Len(samples) : i <= j => samples[i].age >= samples[j].age

LEMMA SampleIs ==
  ASSUME NEW samples \in Seq([pos : Int, age : 0 .. TrailRetention])
  PROVE  /\ Len(samples) \in Nat
         /\ \A i \in 1 .. Len(samples) : samples[i].age \in Nat
<1>1. Len(samples) \in Nat
  BY LenProperties
<1>2. ASSUME NEW i \in 1 .. Len(samples) PROVE samples[i].age \in Nat
  <2>1. samples[i] \in [pos : Int, age : 0 .. TrailRetention]
    BY ElementOfSeq
  <2>2. TrailRetention \in Nat
    BY TracksAssumption
  <2> QED BY <2>1, <2>2
<1> QED BY <1>1, <1>2

LEMMA TrailAgedIs ==
  ASSUME NEW samples, TrailOK(samples), NEW elapsed \in Nat
  PROVE  TrailOK([i \in DOMAIN samples |->
                   [samples[i] EXCEPT !.age = Saturated(@, elapsed, TrailRetention)]])
<1> DEFINE new == [i \in DOMAIN samples |->
                     [samples[i] EXCEPT !.age = Saturated(@, elapsed, TrailRetention)]]
           Sample == [pos : Int, age : 0 .. TrailRetention]
<1>1. /\ samples \in Seq(Sample) /\ DOMAIN samples = 1 .. Len(samples) /\ Len(samples) \in Nat
      /\ \A i \in 1 .. Len(samples) : samples[i] \in Sample
  BY LenProperties, ElementOfSeq DEF TrailOK
<1>2. TrailRetention \in Nat
  BY TracksAssumption
<1>3. \A i \in 1 .. Len(samples) :
        /\ Saturated(samples[i].age, elapsed, TrailRetention) \in 0 .. TrailRetention
        /\ new[i] \in Sample
        /\ new[i].age = Saturated(samples[i].age, elapsed, TrailRetention)
  <2> SUFFICES ASSUME NEW i \in 1 .. Len(samples)
               PROVE  /\ Saturated(samples[i].age, elapsed, TrailRetention) \in 0 .. TrailRetention
                      /\ new[i] \in Sample
                      /\ new[i].age = Saturated(samples[i].age, elapsed, TrailRetention)
    OBVIOUS
  <2> DEFINE age == Saturated(samples[i].age, elapsed, TrailRetention)
  <2>1. age \in 0 .. TrailRetention
    BY <1>1, <1>2 DEF Saturated
  <2>2. new[i] = [samples[i] EXCEPT !.age = age]
    BY <1>1
  <2> HIDE DEF age, new
  <2>3. new[i] \in Sample /\ new[i].age = age
    BY <1>1, <2>1, <2>2
  <2> QED BY <2>1, <2>3 DEF age
<1>4. DOMAIN new = 1 .. Len(samples)
  BY <1>1
<1>5. new \in Seq(Sample) /\ Len(new) = Len(samples)
  <2> DEFINE f(i) == [samples[i] EXCEPT !.age = Saturated(@, elapsed, TrailRetention)]
  <2>1. new = [i \in 1 .. Len(samples) |-> f(i)]
    BY <1>1
  <2> HIDE DEF f, Sample
  <2>2. \A i \in 1 .. Len(samples) : f(i) \in Sample
    BY <1>3, <2>1
  <2> HIDE DEF new
  <2>3. new \in [1 .. Len(samples) -> Sample]
    BY <2>1, <2>2
  <2>4. new \in Seq(Sample)
    BY <1>1, <2>3, SeqDef
  <2> QED BY <1>1, <1>4, <2>4, LenProperties
<1> HIDE DEF new
<1>6. ASSUME NEW i \in 1 .. Len(samples), NEW j \in 1 .. Len(samples), i <= j
      PROVE  new[i].age >= new[j].age
  <2>1. samples[i].age >= samples[j].age /\ samples[i].age \in Nat /\ samples[j].age \in Nat
    BY <1>1, <1>6 DEF TrailOK
  <2> QED BY SMTT(30), <1>2, <1>3, <2>1 DEF Saturated
<1> QED BY <1>5, <1>6 DEF TrailOK, new

LEMMA TrailWithIs ==
  ASSUME NEW samples, TrailOK(samples), NEW pos \in Int
  PROVE  TrailOK(TrailWith(samples, pos))
<1> DEFINE Sample == [pos : Int, age : 0 .. TrailRetention]
           kept == IF Len(samples) = TrailCapacity THEN Tail(samples) ELSE samples
           sample == [pos |-> pos, age |-> 0]
           new == Append(kept, sample)
<1>1. TrailCapacity \in Nat \ {0} /\ sample \in Sample
  BY TracksAssumption
<1>2. samples \in Seq(Sample) /\ Len(samples) \in Nat
  BY DEF TrailOK
<1>3. \A i \in 1 .. Len(samples) : samples[i] \in Sample
  BY <1>2, ElementOfSeq
<1> HIDE DEF Sample
<1>4. /\ kept \in Seq(Sample) /\ Len(kept) \in Nat /\ Len(kept) + 1 <= TrailCapacity
      /\ \A i, j \in 1 .. Len(kept) : i <= j => kept[i].age >= kept[j].age
  <2>1. CASE Len(samples) = TrailCapacity
    <3>1. kept = Tail(samples) /\ samples # << >>
      BY <1>1, <1>2, <2>1
    <3>2. /\ kept \in Seq(Sample) /\ Len(kept) = Len(samples) - 1
          /\ \A i \in 1 .. Len(kept) : kept[i] = samples[i + 1]
      BY <1>2, <3>1
    <3> QED BY <1>1, <1>2, <2>1, <3>2 DEF TrailOK
  <2>2. CASE Len(samples) # TrailCapacity
    BY <1>1, <1>2, <2>2 DEF TrailOK
  <2> QED BY <2>1, <2>2
<1> HIDE DEF kept
<1>5. /\ new \in Seq(Sample) /\ Len(new) = Len(kept) + 1
      /\ \A i \in 1 .. Len(kept) : new[i] = kept[i]
      /\ new[Len(kept) + 1] = sample
  BY <1>1, <1>4
<1>6. \A i \in 1 .. Len(kept) : kept[i].age \in Nat
  BY <1>4, SampleIs DEF Sample
<1> HIDE DEF new
<1>7. \A i, j \in 1 .. Len(new) : i <= j => new[i].age >= new[j].age
  BY <1>4, <1>5, <1>6
<1>8. TrailOK(new)
  BY <1>4, <1>5, <1>7 DEF TrailOK, Sample
<1>9. TrailWith(samples, pos) = new \/ TrailWith(samples, pos) = samples
  BY DEF TrailWith, new, kept
<1> QED BY <1>8, <1>9

LEMMA UnexpiredIs ==
  ASSUME NEW samples, TrailOK(samples)
  PROVE  /\ TrailOK(Unexpired(samples))
         /\ \A i \in 1 .. Len(Unexpired(samples)) : Unexpired(samples)[i].age < TrailRetention
<1> DEFINE Sample == [pos : Int, age : 0 .. TrailRetention]
           old == {n \in 0 .. Len(samples) : \A i \in 1 .. n : samples[i].age >= TrailRetention}
           young == {n \in 1 .. Len(samples) : ~(samples[n].age >= TrailRetention)}
           new == Unexpired(samples)
<1>1. /\ samples \in Seq(Sample) /\ Len(samples) \in Nat /\ TrailRetention \in Nat
      /\ \A i \in 1 .. Len(samples) : samples[i].age \in Nat
  <2>1. samples \in Seq(Sample)
    BY DEF TrailOK
  <2>2. TrailRetention \in Nat
    BY TracksAssumption
  <2> QED BY <2>1, <2>2, SampleIs
<1> HIDE DEF Sample
<1>2. PICK m \in old : /\ \A n \in old : n <= m
                       /\ m < Len(samples) => samples[m + 1].age < TrailRetention
  <2>1. CASE young = {}
    <3>1. Len(samples) \in old
      BY <1>1, <2>1
    <3> QED BY <1>1, <3>1
  <2>2. CASE young # {}
    <3>1. young \subseteq Nat
      BY <1>1
    <3>2. PICK y \in young : \A x \in young : y <= x
      BY <2>2, <3>1, NatMinIs
    <3>3. y - 1 \in old
      BY <1>1, <3>2
    <3>4. \A n \in old : n <= y - 1
      BY <1>1, <3>2
    <3>5. (y - 1) + 1 = y /\ samples[y].age < TrailRetention
      BY <1>1, <3>2
    <3> QED BY <3>3, <3>4, <3>5
  <2> QED BY <2>1, <2>2
<1>3. Max(old) = m
  <2>1. old \in SUBSET Int
    BY <1>1
  <2> QED BY <1>2, <2>1, MaxIs
<1>4. new = SubSeq(samples, m + 1, Len(samples))
  BY <1>3 DEF Unexpired
<1>5. m \in 0 .. Len(samples)
  BY <1>2
<1> HIDE DEF new, old
<1>6. /\ new \in Seq(Sample) /\ Len(new) = Len(samples) - m
      /\ \A i \in 1 .. Len(new) : new[i] = samples[i + m]
  <2>1. /\ m + 1 \in Int /\ Len(samples) \in Int
        /\ \A i \in m + 1 .. Len(samples) : samples[i] \in Sample
    BY <1>1, <1>5, ElementOfSeq
  <2>2. /\ new \in Seq(Sample)
        /\ Len(new) = IF m + 1 <= Len(samples) THEN Len(samples) - (m + 1) + 1 ELSE 0
        /\ \A i \in 1 .. Len(samples) - (m + 1) + 1 : new[i] = samples[(m + 1) + i - 1]
    BY <1>4, <2>1, SubSeqProperties
  <2>3. Len(new) = Len(samples) - m /\ Len(samples) - (m + 1) + 1 = Len(samples) - m
    BY <1>1, <1>5, <2>2
  <2>4. \A i \in 1 .. Len(new) : (m + 1) + i - 1 = i + m
    BY <1>1, <1>5, <2>3
  <2> QED BY <2>2, <2>3, <2>4
<1>7. TrailOK(new)
  <2>1. new \in Seq(Sample) /\ Len(new) <= TrailCapacity
    <3>1. TrailCapacity \in Nat
      BY TracksAssumption
    <3> QED BY <1>1, <1>5, <1>6, <3>1 DEF TrailOK
  <2>2. ASSUME NEW i \in 1 .. Len(new), NEW j \in 1 .. Len(new), i <= j
        PROVE  new[i].age >= new[j].age
    <3>1. i + m \in 1 .. Len(samples) /\ j + m \in 1 .. Len(samples) /\ i + m <= j + m
      BY <1>1, <1>5, <1>6, <2>2
    <3>2. samples[i + m].age >= samples[j + m].age
      BY <3>1 DEF TrailOK
    <3> QED BY <1>6, <3>2
  <2> QED BY <2>1, <2>2 DEF TrailOK, Sample
<1>8. ASSUME NEW i \in 1 .. Len(new) PROVE new[i].age < TrailRetention
  <2>1. i + m \in 1 .. Len(samples) /\ m + 1 \in 1 .. Len(samples) /\ m + 1 <= i + m
    BY <1>1, <1>5, <1>6
  <2>2. samples[m + 1].age >= samples[i + m].age
    BY <2>1 DEF TrailOK
  <2>3. /\ samples[m + 1].age \in Nat /\ samples[i + m].age \in Nat
        /\ samples[m + 1].age < TrailRetention
    BY <1>1, <1>2, <1>5, <2>1
  <2> QED BY <1>1, <1>6, <2>2, <2>3
<1> QED BY <1>7, <1>8 DEF new

-----------------------------------------------------------------------------
(* The tracks: a frame.                                                    *)

Solid(all) == {k \in DOMAIN all : ~all[k].fading}

TrailSound == TrailOK(trail) /\ \A i \in 1 .. Len(trail) : trail[i].age < TrailRetention

DisplaySound ==
  /\ display.at = [k \in Solid(tracks) |-> Evaluate(tracks[k], display.alpha)]
  /\ Solid(tracks) = display.wanted

\* What a frame leaves, and which entities changed hands.
FrameShown(old, circles, alpha, elapsed) ==
  /\ TracksOK(tracks') /\ TrailSound' /\ DisplaySound'
  /\ display'.alpha = alpha /\ display'.elapsed = elapsed
  /\ \A k \in display'.handed :
       /\ k \in DOMAIN old /\ ~old[k].fading /\ k \in Solid(tracks')
       /\ SoughtIn(circles, k) \in Circles /\ Handed(old[k], SoughtIn(circles, k))
       /\ tracks'[k] = Observed(Older(old[k], elapsed), SoughtIn(circles, k), alpha)

LEMMA ComposeIs ==
  ASSUME NEW old, TracksOK(old), NEW samples, TrailOK(samples),
         NEW circles \in SUBSET Circles, OneEach(circles),
         NEW alpha \in Int, NEW elapsed \in Nat, NEW target,
         Compose(old, samples, circles, alpha, elapsed, target)
  PROVE  FrameShown(old, circles, alpha, elapsed)
<1> DEFINE resynced == resyncs # prediction.resyncs
           kept == IF resynced THEN << >> ELSE old
           aged == IF resynced THEN << >>
                   ELSE [i \in DOMAIN samples |->
                           [samples[i] EXCEPT !.age = Saturated(@, elapsed, TrailRetention)]]
           both == {k \in KeysOf(circles) \cap DOMAIN kept : ~kept[k].fading}
           renamed == {k \in both : kept[k].lastId # SoughtIn(circles, k).id}
           revised == {k \in both : kept[k].current.revision # SoughtIn(circles, k).revision}
           handed == {k \in both :
                        \/ kept[k].current.source # SoughtIn(circles, k).source
                        \/ k \in revised /\ SoughtIn(circles, k).source = "Extrapolated"
                        \/ k \in renamed \ revised}
<1>1. /\ tracks' = ComposedTracks(kept, circles, alpha, elapsed)
      /\ display' = [wanted |-> KeysOf(circles),
                     at |-> [k \in Solid(tracks') |-> Evaluate(tracks'[k], alpha)],
                     alpha |-> alpha, elapsed |-> elapsed, handed |-> handed]
      /\ trail' = Unexpired(IF target \in DOMAIN display'.at
                            THEN TrailWith(aged, display'.at[target]) ELSE aged)
  BY DEF Compose, KeysOf, SoughtIn, Solid
<1>2. TracksOK(kept) /\ (DOMAIN kept # {} => kept = old)
  BY DEF TracksOK
<1>3. TrailOK(aged)
  <2>1. CASE resynced
    <3>1. aged = << >>
      BY <2>1
    <3>2. TrailCapacity \in Nat
      BY TracksAssumption
    <3> QED BY <3>1, <3>2 DEF TrailOK
  <2>2. CASE ~resynced
    BY <2>2, TrailAgedIs
  <2> QED BY <2>1, <2>2
<1> HIDE DEF kept, aged
<1>4. /\ TracksOK(tracks') /\ Solid(tracks') = KeysOf(circles)
      /\ \A k \in DOMAIN kept \cap KeysOf(circles) :
           tracks'[k] = Observed(Older(kept[k], elapsed), SoughtIn(circles, k), alpha)
  BY <1>1, <1>2, ComposedTracksAre DEF Solid
<1>5. DisplaySound' /\ display'.alpha = alpha /\ display'.elapsed = elapsed
  BY <1>1, <1>4 DEF DisplaySound
<1>6. TrailSound'
  <2>1. CASE target \in DOMAIN display'.at
    <3>1. target \in Solid(tracks') /\ display'.at[target] = Evaluate(tracks'[target], alpha)
      BY <1>1, <2>1
    <3>2. display'.at[target] \in Int
      BY <1>4, <3>1, EvaluateIs DEF TracksOK, Solid
    <3>3. TrailOK(TrailWith(aged, display'.at[target]))
      BY <1>3, <3>2, TrailWithIs
    <3> QED BY <1>1, <2>1, <3>3, UnexpiredIs DEF TrailSound
  <2>2. CASE target \notin DOMAIN display'.at
    BY <1>1, <1>3, <2>2, UnexpiredIs DEF TrailSound
  <2> QED BY <2>1, <2>2
<1>7. ASSUME NEW k \in display'.handed
      PROVE  /\ k \in DOMAIN old /\ ~old[k].fading /\ k \in Solid(tracks')
             /\ SoughtIn(circles, k) \in Circles /\ Handed(old[k], SoughtIn(circles, k))
             /\ tracks'[k] = Observed(Older(old[k], elapsed), SoughtIn(circles, k), alpha)
  <2>1. k \in handed
    BY <1>1
  <2>2. k \in KeysOf(circles) /\ k \in DOMAIN kept /\ ~kept[k].fading
    BY <2>1
  <2>3. Handed(kept[k], SoughtIn(circles, k))
    BY <2>1 DEF Handed
  <2>4. SoughtIn(circles, k) \in Circles
    BY <2>2, SoughtIs
  <2>5. kept = old
    BY <1>2, <2>2
  <2> QED BY <1>4, <2>2, <2>3, <2>4, <2>5
<1> QED BY <1>4, <1>5, <1>6, <1>7 DEF FrameShown

-----------------------------------------------------------------------------
(* The tracks: the invariant.                                              *)

TracksInv == WorldsSound /\ TracksOK(tracks) /\ TrailSound /\ DisplaySound

\* The frame that a step draws, if it draws one.
Drawn ==
  \E old \in {tracks, << >>}, circles \in SUBSET Circles, alpha \in Int, elapsed \in Nat :
    FrameShown(old, circles, alpha, elapsed)

LEMMA PlayingFrameDraws ==
  ASSUME TracksInv, NEW alpha \in Alphas, NEW elapsed \in 0 .. TrackMaxElapsed,
         PlayingFrame(alpha, elapsed)
  PROVE  Drawn /\ TracksInv'
<1> DEFINE delayed == mode = "interpolated"
           circles == PlayingCircles(delayed)
<1>1. /\ Compose(tracks, trail, circles, alpha, elapsed, KeyFor(Primary)) /\ playing
      /\ UNCHANGED <<authority, prediction>>
  BY DEF PlayingFrame
<1>2. circles \in SUBSET Circles /\ OneEach(circles)
  <2>1. delayed \in BOOLEAN
    OBVIOUS
  <2> HIDE DEF delayed
  <2> QED BY <1>1, <2>1, PlayingCirclesAre DEF TracksInv
<1>3. alpha \in Int /\ elapsed \in Nat
  BY TracksAssumption
<1> HIDE DEF circles
<1>4. FrameShown(tracks, circles, alpha, elapsed)
  BY <1>1, <1>2, <1>3, ComposeIs DEF TracksInv, TrailSound
<1>5. WorldsSound'
  BY <1>1 DEF TracksInv, WorldsSound
<1> QED BY <1>2, <1>3, <1>4, <1>5 DEF Drawn, TracksInv, FrameShown

LEMMA SpectatorFrameDraws ==
  ASSUME TracksInv, NEW delayed \in BOOLEAN, NEW elapsed \in 0 .. TrackMaxElapsed,
         SpectatorFrame(delayed, elapsed)
  PROVE  Drawn /\ TracksInv'
<1> DEFINE circles == RemoteCircles(delayed)
           old == IF spectating THEN tracks ELSE << >>
           samples == IF spectating THEN trail ELSE << >>
<1>1. /\ Compose(old, samples, circles, TrackAlphaSteps, elapsed, "nothing")
      /\ UNCHANGED <<authority, prediction>>
  BY DEF SpectatorFrame
<1>2. circles \in SUBSET Circles /\ OneEach(circles)
  BY SpectatedCirclesAre DEF TracksInv
<1>3. TrackAlphaSteps \in Int /\ elapsed \in Nat
  BY TracksAssumption
<1>4. old \in {tracks, << >>} /\ TracksOK(old) /\ TrailOK(samples)
  <2>1. TracksOK(<< >>) /\ TrailOK(<< >>)
    <3>1. TrailCapacity \in Nat
      BY TracksAssumption
    <3> QED BY <3>1 DEF TracksOK, TrailOK
  <2> QED BY <2>1 DEF TracksInv, TrailSound
<1> HIDE DEF circles, old, samples
<1>5. FrameShown(old, circles, TrackAlphaSteps, elapsed)
  BY <1>1, <1>2, <1>3, <1>4, ComposeIs
<1>6. WorldsSound'
  BY <1>1 DEF TracksInv, WorldsSound
<1> QED BY <1>2, <1>3, <1>4, <1>5, <1>6 DEF Drawn, TracksInv, FrameShown

LEMMA TracksStart ==
  ASSUME TracksInit PROVE TracksInv
<1>1. tracks = << >> /\ trail = << >> /\ display = NoDisplay
  BY DEF TracksInit
<1>2. TrailCapacity \in Nat
  BY TracksAssumption
<1>3. TracksOK(tracks) /\ TrailSound
  BY <1>1, <1>2 DEF TracksOK, TrailSound, TrailOK
<1>4. DisplaySound
  BY <1>1 DEF DisplaySound, Solid, NoDisplay
<1> QED BY <1>3, <1>4, WorldsStart DEF TracksInv

\* A step of the worlds draws nothing; the others draw a frame.
LEMMA TracksStepDraws ==
  ASSUME TracksInv, TracksNext \/ UNCHANGED tracksVars
  PROVE  TracksInv' /\ (UNCHANGED display \/ Drawn)
<1>1. ASSUME WorldsSound', UNCHANGED <<tracks, trail, display>>
      PROVE  TracksInv' /\ UNCHANGED display
  BY <1>1 DEF TracksInv, TracksOK, TrailSound, TrailOK, DisplaySound, Solid
<1>2. CASE UNCHANGED tracksVars
  <2>1. WorldsSound'
    BY <1>2 DEF tracksVars, TracksInv, WorldsSound
  <2> QED BY <1>1, <1>2, <2>1 DEF tracksVars
<1>3. ASSUME NEW dead \in {{}, {"r"}, {"c"}}, NEW split \in BOOLEAN, NEW seen \in SUBSET {"r"},
             Snapshot(dead, split, seen)
      PROVE  TracksInv' /\ UNCHANGED display
  <2>1. WorldsSound'
    BY <1>3, SnapshotKeeps DEF TracksInv
  <2>2. UNCHANGED <<tracks, trail, display>>
    BY <1>3 DEF Snapshot
  <2> QED BY <1>1, <2>1, <2>2
<1>4. ASSUME NEW split \in BOOLEAN, NEW dead \in {{}} \cup {{id} : id \in Ids},
             NEW guess \in {0, Error}, PredictStep(split, dead, guess)
      PROVE  TracksInv' /\ UNCHANGED display
  BY <1>1, <1>4, PredictStepKeeps DEF TracksInv, PredictStep
<1>5. CASE TracksHardResync
  BY <1>1, <1>5, TracksHardResyncKeeps DEF TracksInv, TracksHardResync
<1>6. CASE TracksDefeat
  BY <1>1, <1>6, TracksDefeatKeeps DEF TracksInv, TracksDefeat
<1>7. ASSUME NEW alpha \in Alphas, NEW elapsed \in 0 .. TrackMaxElapsed, PlayingFrame(alpha, elapsed)
      PROVE  TracksInv' /\ Drawn
  BY <1>7, PlayingFrameDraws
<1>8. ASSUME NEW delayed \in BOOLEAN, NEW elapsed \in 0 .. TrackMaxElapsed,
             SpectatorFrame(delayed, elapsed)
      PROVE  TracksInv' /\ Drawn
  BY <1>8, SpectatorFrameDraws
<1> QED BY <1>2, <1>3, <1>4, <1>5, <1>6, <1>7, <1>8 DEF TracksNext

-----------------------------------------------------------------------------
(* The tracks: what the invariant implies.                                 *)

LEMMA TracksInvSound ==
  ASSUME TracksInv PROVE TracksSound
<1>1. TracksTypeOK
  <2>1. \A k \in DOMAIN tracks : /\ tracks[k].age \in 0 .. TrackSmoothing
                                 /\ tracks[k].fading => tracks[k].fadeAge < TrackSmoothing
    BY DEF TracksInv, TracksOK, Tracked
  <2>2. DOMAIN tracks \subseteq Keys
    BY DEF TracksInv, TracksOK
  <2>3. DOMAIN trail = 1 .. Len(trail) /\ Len(trail) <= TrailCapacity
    BY LenProperties DEF TracksInv, TrailSound, TrailOK
  <2>4. \A i \in DOMAIN trail : trail[i].age < TrailRetention
    BY <2>3 DEF TracksInv, TrailSound
  <2> QED BY <2>1, <2>2, <2>3, <2>4 DEF TracksTypeOK
<1>2. DrawnOnce
  <2>1. WorldsSound
    BY DEF TracksInv
  <2>2. ASSUME NEW delayed \in BOOLEAN
        PROVE  OneEach(IF playing THEN PlayingCircles(delayed) ELSE RemoteCircles(delayed))
    <3>1. CASE playing
      BY <2>1, <3>1, PlayingCirclesAre
    <3>2. CASE ~playing
      BY <2>1, <3>2, SpectatedCirclesAre
    <3> QED BY <3>1, <3>2
  <2>3. DOMAIN display.at = display.wanted
    BY DEF TracksInv, DisplaySound
  <2> QED BY <2>2, <2>3 DEF DrawnOnce, OneEach
<1> QED BY <1>1, <1>2 DEF TracksSound

\* An entity that changes hands between two frames of one instant stays in place.
LEMMA HandoverStays ==
  ASSUME TracksInv, TracksNext \/ UNCHANGED tracksVars, Instant,
         NEW k \in display'.handed \cap DOMAIN display.at
  PROVE  display'.at[k] = display.at[k]
<1>1. PICK old \in {tracks, << >>}, circles \in SUBSET Circles, alpha \in Int, elapsed \in Nat :
        FrameShown(old, circles, alpha, elapsed)
  BY TracksStepDraws DEF Drawn, Instant
<1> DEFINE t == tracks[k]
           c == SoughtIn(circles, k)
           aged == Older(t, elapsed)
<1>2. /\ elapsed = 0 /\ alpha = display.alpha /\ alpha = display'.alpha
  BY <1>1 DEF FrameShown, Instant
<1>3. /\ k \in DOMAIN old /\ ~old[k].fading /\ k \in Solid(tracks')
      /\ c \in Circles /\ Handed(old[k], c)
      /\ tracks'[k] = Observed(Older(old[k], elapsed), c, alpha)
  BY <1>1 DEF FrameShown
<1>4. old = tracks
  BY <1>1, <1>3
<1>5. t \in Tracked
  BY <1>3, <1>4 DEF TracksInv, TracksOK
<1> HIDE DEF t, c
<1>6. aged \in Tracked /\ aged = [t EXCEPT !.fadeAge = 0] /\ Handed(t, c) /\ ~t.fading
      /\ tracks'[k] = Observed(aged, c, alpha)
  BY <1>2, <1>3, <1>4, <1>5, OlderTrackIs DEF t
<1> HIDE DEF aged
<1>7. /\ aged.current = t.current /\ aged.previous = t.previous /\ aged.lastId = t.lastId
      /\ aged.active = t.active /\ aged.offset = t.offset /\ aged.age = t.age
  BY <1>5, <1>6 DEF Tracked
<1>8. Evaluate(aged, alpha) = Evaluate(t, alpha)
  BY <1>7 DEF Evaluate
<1>9. Handed(aged, c)
  BY <1>6, <1>7 DEF Handed
<1>10. Evaluate(tracks'[k], alpha) = Evaluate(t, alpha)
  BY <1>3, <1>6, <1>8, <1>9, HandoverIs
<1>11. display'.at[k] = Evaluate(tracks'[k], alpha)
  BY <1>1, <1>2, <1>3 DEF FrameShown, DisplaySound
<1>12. display.at[k] = Evaluate(t, alpha)
  BY <1>2 DEF TracksInv, DisplaySound, t
<1> QED BY <1>10, <1>11, <1>12

-----------------------------------------------------------------------------
(* The tracks: theorems.                                                   *)

\* A step of the whole is a step of the tracks, or leaves them alone.
LEMMA TracksSteps ==
  ASSUME [Next]_presentationVars PROVE TracksNext \/ UNCHANGED tracksVars
<1>1. CASE Next
  BY <1>1 DEF Next
<1>2. CASE UNCHANGED presentationVars
  BY <1>2 DEF presentationVars
<1> QED BY <1>1, <1>2

\* The worlds a frame is drawn from name a split child once, and the display is
\* what the solid tracks show.
THEOREM TracksInvHolds == Spec => []TracksInv
<1>1. Init => TracksInv
  BY TracksStart DEF Init
<1>2. TracksInv /\ [Next]_presentationVars => TracksInv'
  BY TracksSteps, TracksStepDraws
<1> QED BY <1>1, <1>2, PTL DEF Spec

\* Whatever the authority and the prediction hold, each entity is drawn solid
\* exactly once, and tracks, fades and trail keep their bounds (compose,
\* extract_remote_interpolated_predicted_frame).
THEOREM TracksAlwaysSound == Spec => []TracksSound
<1>1. TracksInv => TracksSound
  BY TracksInvSound
<1> QED BY <1>1, TracksInvHolds, PTL

\* An entity that is handed from one source to another, or from its provisional to
\* its own identifier, is drawn where it was (compose).
THEOREM HandoffAlwaysSeamless == Spec => HandoffSeamless
<1>1. TracksInv /\ [Next]_presentationVars =>
        [Instant => \A k \in display'.handed \cap DOMAIN display.at :
           display'.at[k] = display.at[k]]_tracksVars
  <2> SUFFICES ASSUME TracksInv, [Next]_presentationVars, Instant,
                      NEW k \in display'.handed \cap DOMAIN display.at
               PROVE  display'.at[k] = display.at[k]
    OBVIOUS
  <2> QED BY TracksSteps, HandoverStays
<1> QED BY <1>1, TracksInvHolds, PTL DEF Spec, HandoffSeamless

-----------------------------------------------------------------------------
(* The local player: what the history keeps.                               *)

\* Samples in the order of their ages, and what a limit on the age leaves of them.
OldestFirst(s) ==
  /\ \A i \in 1 .. Len(s) : s[i].age \in Nat
  /\ \A i, j \in 1 .. Len(s) : i <= j => s[i].age >= s[j].age

Young(s, limit) ==
  SubSeq(s, Max({n \in 0 .. Len(s) : \A i \in 1 .. n : s[i].age >= limit}) + 1, Len(s))

LEMMA YoungIs ==
  ASSUME NEW S, NEW s \in Seq(S), OldestFirst(s), NEW limit \in Nat
  PROVE  \E m \in 0 .. Len(s) :
           /\ Young(s, limit) \in Seq(S) /\ Len(Young(s, limit)) = Len(s) - m
           /\ \A i \in 1 .. Len(Young(s, limit)) :
                Young(s, limit)[i] = s[i + m] /\ Young(s, limit)[i].age < limit
<1> DEFINE rest == Young(s, limit)
           old == {n \in 0 .. Len(s) : \A i \in 1 .. n : s[i].age >= limit}
           young == {n \in 1 .. Len(s) : ~(s[n].age >= limit)}
<1>1. Len(s) \in Nat
  BY LenProperties
<1>2. PICK m \in old : /\ \A n \in old : n <= m
                       /\ m < Len(s) => s[m + 1].age < limit
  <2> USE DEF OldestFirst
  <2>1. CASE young = {}
    <3>1. Len(s) \in old
      BY <1>1, <2>1
    <3> QED BY <1>1, <3>1
  <2>2. CASE young # {}
    <3>1. young \subseteq Nat
      BY <1>1
    <3>2. PICK y \in young : \A x \in young : y <= x
      BY <2>2, <3>1, NatMinIs
    <3>3. y - 1 \in old
      BY <1>1, <3>2
    <3>4. \A n \in old : n <= y - 1
      BY <1>1, <3>2
    <3>5. (y - 1) + 1 = y /\ s[y].age < limit
      BY <1>1, <3>2
    <3> QED BY <3>3, <3>4, <3>5
  <2> QED BY <2>1, <2>2
<1>3. Max(old) = m
  <2>1. old \in SUBSET Int
    BY <1>1
  <2> QED BY <1>2, <2>1, MaxIs
<1>4. rest = SubSeq(s, m + 1, Len(s))
  BY <1>3 DEF Young
<1>5. m \in 0 .. Len(s)
  BY <1>2
<1> HIDE DEF old, rest
<1>6. /\ rest \in Seq(S) /\ Len(rest) = Len(s) - m
      /\ \A i \in 1 .. Len(rest) : rest[i] = s[i + m]
  <2>1. /\ m + 1 \in Int /\ Len(s) \in Int
        /\ \A i \in m + 1 .. Len(s) : s[i] \in S
    BY <1>1, <1>5, ElementOfSeq
  <2>2. /\ rest \in Seq(S)
        /\ Len(rest) = IF m + 1 <= Len(s) THEN Len(s) - (m + 1) + 1 ELSE 0
        /\ \A i \in 1 .. Len(s) - (m + 1) + 1 : rest[i] = s[(m + 1) + i - 1]
    BY <1>4, <2>1, SubSeqProperties
  <2>3. Len(rest) = Len(s) - m /\ Len(s) - (m + 1) + 1 = Len(s) - m
    BY <1>1, <1>5, <2>2
  <2>4. \A i \in 1 .. Len(rest) : (m + 1) + i - 1 = i + m
    BY <1>1, <1>5, <2>3
  <2> QED BY <2>2, <2>3, <2>4
<1>7. ASSUME NEW i \in 1 .. Len(rest) PROVE rest[i].age < limit
  <2>1. i + m \in 1 .. Len(s) /\ m + 1 \in 1 .. Len(s) /\ m + 1 <= i + m
    BY <1>1, <1>5, <1>6
  <2>2. s[m + 1].age >= s[i + m].age
    BY <2>1 DEF OldestFirst
  <2>3. s[m + 1].age \in Nat /\ s[i + m].age \in Nat /\ s[m + 1].age < limit
    BY <1>1, <1>2, <1>5, <2>1 DEF OldestFirst
  <2> QED BY <1>1, <1>6, <2>2, <2>3
<1> QED BY <1>5, <1>6, <1>7 DEF rest

-----------------------------------------------------------------------------
(* The local player: the corrections on the screen.                        *)

\* The retained corrections, oldest first.
RetainedOK(list) ==
  /\ list \in Seq([sequence : Nat, age : 0 .. Retention]) /\ Len(list) <= HistoryCapacity
  /\ \A i, j \in 1 .. Len(list) : i <= j => list[i].age >= list[j].age

Listed(list) == {list[i].sequence : i \in 1 .. Len(list)}

HistoryOK(p) ==
  /\ DOMAIN p = {"live", "retained", "last", "resyncs"}
  /\ p.live \in BOOLEAN /\ p.last \in Nat /\ p.resyncs \in Nat
  /\ RetainedOK(p.retained) /\ Listed(p.retained) \subseteq 1 .. p.last

LEMMA RetainedIs ==
  ASSUME NEW list, RetainedOK(list)
  PROVE  /\ Len(list) \in Nat /\ DOMAIN list = 1 .. Len(list)
         /\ \A i \in 1 .. Len(list) : /\ list[i] \in [sequence : Nat, age : 0 .. Retention]
                                      /\ list[i].age \in Nat /\ list[i].sequence \in Nat
<1>1. list \in Seq([sequence : Nat, age : 0 .. Retention])
  BY DEF RetainedOK
<1>2. Len(list) \in Nat /\ DOMAIN list = 1 .. Len(list)
  BY <1>1, LenProperties
<1>3. Retention \in Nat
  BY LocalAssumption
<1>4. \A i \in 1 .. Len(list) : list[i] \in [sequence : Nat, age : 0 .. Retention]
  BY <1>1, ElementOfSeq
<1> QED BY <1>2, <1>3, <1>4

LEMMA OnScreenIs ==
  ASSUME NEW p, HistoryOK(p)
  PROVE  OnScreen(p) = Listed(p.retained)
BY RetainedIs DEF HistoryOK, OnScreen, Listed

LEMMA LastingIs ==
  ASSUME NEW list, RetainedOK(list)
  PROVE  RetainedOK(Lasting(list)) /\ Listed(Lasting(list)) \subseteq Listed(list)
<1> DEFINE S == [sequence : Nat, age : 0 .. Retention]
           rest == Lasting(list)
<1>1. /\ list \in Seq(S) /\ Len(list) \in Nat /\ Retention \in Nat /\ HistoryCapacity \in Nat
      /\ \A i \in 1 .. Len(list) : list[i].age \in Nat
  BY RetainedIs, LocalAssumption DEF RetainedOK
<1> HIDE DEF S
<1>2. PICK m \in 0 .. Len(list) :
        /\ rest \in Seq(S) /\ Len(rest) = Len(list) - m
        /\ \A i \in 1 .. Len(rest) : rest[i] = list[i + m] /\ rest[i].age < Retention
  <2>1. OldestFirst(list)
    BY <1>1 DEF RetainedOK, OldestFirst
  <2>2. rest = Young(list, Retention)
    BY DEF Lasting, Young
  <2>3. \E m \in 0 .. Len(list) :
           /\ Young(list, Retention) \in Seq(S) /\ Len(Young(list, Retention)) = Len(list) - m
           /\ \A i \in 1 .. Len(Young(list, Retention)) :
                Young(list, Retention)[i] = list[i + m] /\ Young(list, Retention)[i].age < Retention
    BY <1>1, <2>1, YoungIs
  <2> QED BY <2>2, <2>3
<1> HIDE DEF rest
<1>3. \A i \in 1 .. Len(rest) : i + m \in 1 .. Len(list)
  BY <1>1, <1>2
<1>4. RetainedOK(rest)
  <2>1. rest \in Seq(S) /\ Len(rest) <= HistoryCapacity
    BY <1>1, <1>2 DEF RetainedOK
  <2>2. ASSUME NEW i \in 1 .. Len(rest), NEW j \in 1 .. Len(rest), i <= j
        PROVE  rest[i].age >= rest[j].age
    <3>1. /\ i + m \in 1 .. Len(list) /\ j + m \in 1 .. Len(list) /\ i + m <= j + m
      BY <1>1, <1>2, <1>3, <2>2
    <3>2. list[i + m].age >= list[j + m].age
      BY <3>1 DEF RetainedOK
    <3> QED BY <1>2, <3>2
  <2> QED BY <2>1, <2>2 DEF RetainedOK, S
<1>5. Listed(rest) \subseteq Listed(list)
  BY <1>2, <1>3 DEF Listed
<1> QED BY <1>4, <1>5 DEF rest

LEMMA NoticedIs ==
  ASSUME NEW p, HistoryOK(p), NEW n \in Nat \ {0}
  PROVE  /\ HistoryOK(Noticed(p, n)) /\ Noticed(p, n).live = p.live
         /\ Noticed(p, n).resyncs = p.resyncs
         /\ Noticed(p, n).last = IF n <= p.last THEN p.last ELSE n
         /\ OnScreen(Noticed(p, n)) \subseteq OnScreen(p) \cup (IF n <= p.last THEN {} ELSE {n})
<1> DEFINE S == [sequence : Nat, age : 0 .. Retention]
           list == p.retained
           kept == IF Len(list) = HistoryCapacity THEN Tail(list) ELSE list
           sample == [sequence |-> n, age |-> 0]
           new == Append(kept, sample)
           q == Noticed(p, n)
<1>1. CASE n <= p.last
  BY <1>1 DEF Noticed
<1>2. CASE ~(n <= p.last)
  <2>1. /\ HistoryCapacity \in Nat \ {0} /\ sample \in S
    BY LocalAssumption
  <2>2. /\ list \in Seq(S) /\ Len(list) \in Nat /\ Len(list) <= HistoryCapacity
        /\ \A i, j \in 1 .. Len(list) : i <= j => list[i].age >= list[j].age
        /\ \A i \in 1 .. Len(list) : list[i].age \in Nat
    BY RetainedIs DEF HistoryOK, RetainedOK
  <2> HIDE DEF S, list
  <2>3. /\ kept \in Seq(S) /\ Len(kept) \in Nat /\ Len(kept) + 1 <= HistoryCapacity
        /\ \A i, j \in 1 .. Len(kept) : i <= j => kept[i].age >= kept[j].age
        /\ \A i \in 1 .. Len(kept) : kept[i].age \in Nat
        /\ Listed(kept) \subseteq Listed(list)
    <3>1. CASE Len(list) = HistoryCapacity
      <4>1. kept = Tail(list) /\ list # << >>
        BY <2>1, <2>2, <3>1
      <4>2. /\ kept \in Seq(S) /\ Len(kept) = Len(list) - 1
            /\ \A i \in 1 .. Len(kept) : kept[i] = list[i + 1] /\ i + 1 \in 1 .. Len(list)
        BY <2>2, <4>1
      <4> QED BY <2>1, <2>2, <3>1, <4>2 DEF Listed
    <3>2. CASE Len(list) # HistoryCapacity
      BY <2>1, <2>2, <3>2
    <3> QED BY <3>1, <3>2
  <2> HIDE DEF kept
  <2>4. /\ new \in Seq(S) /\ Len(new) = Len(kept) + 1
        /\ \A i \in 1 .. Len(kept) : new[i] = kept[i]
        /\ new[Len(kept) + 1] = sample
    BY <2>1, <2>3
  <2>5. Listed(new) \subseteq Listed(kept) \cup {n}
    <3> HIDE DEF new
    <3> QED BY <2>3, <2>4 DEF Listed
  <2>6. q = [p EXCEPT !.retained = new, !.last = n]
    BY <1>2 DEF Noticed, kept, list
  <2> HIDE DEF new, q
  <2>7. \A i, j \in 1 .. Len(new) : i <= j => new[i].age >= new[j].age
    BY <2>3, <2>4
  <2>8. RetainedOK(new)
    BY <2>3, <2>4, <2>7 DEF RetainedOK, S
  <2>9. /\ DOMAIN q = DOMAIN p /\ q.retained = new /\ q.last = n /\ q.live = p.live
        /\ q.resyncs = p.resyncs
    BY <2>6 DEF HistoryOK
  <2>10. Listed(new) \subseteq Listed(list) \cup {n} /\ Listed(list) \subseteq 1 .. p.last
    BY <2>3, <2>5 DEF HistoryOK, list
  <2>11. HistoryOK(q)
    <3>1. Listed(new) \subseteq 1 .. n
      BY <1>2, <2>10 DEF HistoryOK
    <3> QED BY <2>8, <2>9, <3>1 DEF HistoryOK
  <2> QED BY <1>2, <2>9, <2>10, <2>11, OnScreenIs DEF q, list
<1> QED BY <1>1, <1>2

\* The history after the first n samples of a list.
Caught(b, list, n, q) ==
  /\ HistoryOK(q) /\ q.live = b.live /\ q.resyncs = b.resyncs
  /\ b.last <= q.last /\ (q.last = b.last \/ \E i \in 1 .. n : q.last = list[i])
  /\ \A i \in 1 .. n : list[i] <= q.last
  /\ OnScreen(q) \subseteq OnScreen(b) \cup {list[i] : i \in {j \in 1 .. n : list[j] > b.last}}

LEMMA CaughtNext ==
  ASSUME NEW b, HistoryOK(b), NEW list, NEW n \in Nat, list[n + 1] \in Nat \ {0},
         \A i \in 1 .. n : list[i] \in Nat \ {0},
         NEW q, Caught(b, list, n, q)
  PROVE  Caught(b, list, n + 1, Noticed(q, list[n + 1]))
<1> DEFINE new == list[n + 1]
           r == Noticed(q, new)
<1>1. HistoryOK(q) /\ new \in Nat \ {0} /\ b.last \in Nat /\ q.last \in Nat
  BY DEF Caught, HistoryOK
<1> HIDE DEF new
<1>2. /\ HistoryOK(r) /\ r.live = q.live /\ r.resyncs = q.resyncs
      /\ r.last = IF new <= q.last THEN q.last ELSE new
      /\ OnScreen(r) \subseteq OnScreen(q) \cup (IF new <= q.last THEN {} ELSE {new})
  BY <1>1, NoticedIs
<1> HIDE DEF r
<1>3. 1 .. n + 1 = (1 .. n) \cup {n + 1}
  OBVIOUS
<1>4. b.last <= r.last /\ (r.last = b.last \/ \E i \in 1 .. n + 1 : r.last = list[i])
  BY <1>1, <1>2, <1>3 DEF Caught, new
<1>5. \A i \in 1 .. n + 1 : list[i] <= r.last
  BY <1>1, <1>2, <1>3 DEF Caught, new
<1>6. OnScreen(r) \subseteq OnScreen(b) \cup {list[i] : i \in {j \in 1 .. n + 1 : list[j] > b.last}}
  <2> DEFINE Fresh(m) == {list[i] : i \in {j \in 1 .. m : list[j] > b.last}}
  <2>1. Fresh(n) \subseteq Fresh(n + 1)
    BY <1>3
  <2>2. ~(new <= q.last) => new \in Fresh(n + 1)
    <3>1. ~(new <= q.last) => list[n + 1] > b.last
      BY <1>1 DEF Caught, new
    <3>2. n + 1 \in 1 .. n + 1
      OBVIOUS
    <3> QED BY <3>1, <3>2 DEF new
  <2>3. OnScreen(q) \subseteq OnScreen(b) \cup Fresh(n)
    BY DEF Caught
  <2>4. OnScreen(r) \subseteq OnScreen(q) \cup (IF new <= q.last THEN {} ELSE {new})
    BY <1>2
  <2> HIDE DEF Fresh
  <2>5. OnScreen(r) \subseteq OnScreen(b) \cup Fresh(n + 1)
    BY <2>1, <2>2, <2>3, <2>4
  <2> QED BY <2>5 DEF Fresh
<1>7. r.live = b.live /\ r.resyncs = b.resyncs
  BY <1>2 DEF Caught
<1> QED BY <1>2, <1>4, <1>5, <1>6, <1>7 DEF Caught, r, new

\* The recursive function of PastUpdated, and that it exists.
Follows(b, list, n, f) ==
  f = [i \in 0 .. n |-> IF i = 0 THEN b ELSE Noticed(f[i - 1], list[i])]

LEMMA CaughtEquation ==
  ASSUME NEW b, NEW list, NEW n \in Nat
  PROVE  \E f : Follows(b, list, n, f)
<1> DEFINE S == {m \in Nat : \E h : Follows(b, list, m, h)}
<1>1. 0 \in S
  <2> DEFINE g == [i \in 0 .. 0 |-> b]
  <2>1. Follows(b, list, 0, g)
    BY DEF Follows
  <2> QED BY <2>1
<1>2. ASSUME NEW m \in Nat, m \in S PROVE m + 1 \in S
  <2>1. PICK h : Follows(b, list, m, h)
    BY <1>2
  <2> DEFINE g == [i \in 0 .. m + 1 |-> IF i <= m THEN h[i] ELSE Noticed(h[m], list[m + 1])]
  <2>2. \A i \in 0 .. m : g[i] = h[i]
    OBVIOUS
  <2>3. g = [i \in 0 .. m + 1 |-> IF i = 0 THEN b ELSE Noticed(g[i - 1], list[i])]
    <3> SUFFICES ASSUME NEW i \in 0 .. m + 1
                 PROVE  g[i] = IF i = 0 THEN b ELSE Noticed(g[i - 1], list[i])
      OBVIOUS
    <3>1. CASE i <= m
      <4>1. g[i] = h[i] BY <3>1
      <4>2. i # 0 => i - 1 \in 0 .. m BY <3>1
      <4>3. i # 0 => g[i - 1] = h[i - 1] BY <4>2, <2>2
      <4>4. h[i] = IF i = 0 THEN b ELSE Noticed(h[i - 1], list[i])
        BY <2>1, <3>1 DEF Follows
      <4> QED BY <4>1, <4>3, <4>4
    <3>2. CASE i = m + 1
      <4>1. g[i] = Noticed(h[m], list[m + 1]) BY <3>2
      <4>2. g[m] = h[m] BY <2>2
      <4> QED BY <4>1, <4>2, <3>2
    <3> QED BY <3>1, <3>2
  <2>4. Follows(b, list, m + 1, g)
    BY <2>3 DEF Follows
  <2> HIDE DEF g
  <2>5. m + 1 \in Nat /\ \E h2 : Follows(b, list, m + 1, h2)
    BY <2>4
  <2> QED BY <2>5
<1>3. n \in S
  BY <1>1, <1>2, SetInduction
<1> QED BY <1>3

\* What an update makes of the history.
PastIs(p, q) ==
  LET base == IF Restarted(p) THEN [NoHistory EXCEPT !.live = TRUE, !.resyncs = head.resyncs] ELSE p
  IN /\ HistoryOK(q) /\ q.live /\ q.resyncs = head.resyncs
     /\ base.last <= q.last /\ (q.last = base.last \/ \E i \in 1 .. Len(recent) : q.last = recent[i])
     /\ \A i \in 1 .. Len(recent) : recent[i] <= q.last
     /\ OnScreen(q) \subseteq
          OnScreen(base) \cup {recent[i] : i \in {j \in 1 .. Len(recent) : recent[j] > base.last}}

LEMMA PastUpdatedIs ==
  ASSUME NEW p, HistoryOK(p), head.resyncs \in Nat, recent \in Seq(Nat \ {0})
  PROVE  PastIs(p, PastUpdated(p))
<1> DEFINE base == IF Restarted(p) THEN [NoHistory EXCEPT !.live = TRUE, !.resyncs = head.resyncs]
                   ELSE p
           after == CHOOSE f : f = [i \in 0 .. Len(recent) |->
                                      IF i = 0 THEN base ELSE Noticed(f[i - 1], recent[i])]
           q == after[Len(recent)]
<1>1. Len(recent) \in Nat /\ \A i \in 1 .. Len(recent) : recent[i] \in Nat \ {0}
  BY LenProperties, ElementOfSeq
<1>2. HistoryOK(base) /\ base.live /\ base.resyncs = head.resyncs
  <2>1. CASE Restarted(p)
    <3>1. HistoryCapacity \in Nat
      BY LocalAssumption
    <3>2. RetainedOK(<< >>) /\ Listed(<< >>) = {}
      BY <3>1 DEF RetainedOK, Listed
    <3>3. base = [live |-> TRUE, retained |-> << >>, last |-> 0, resyncs |-> head.resyncs]
      BY <2>1 DEF NoHistory
    <3> HIDE DEF base
    <3> QED BY <3>2, <3>3 DEF HistoryOK
  <2>2. CASE ~Restarted(p)
    BY <2>2 DEF Restarted
  <2> QED BY <2>1, <2>2
<1>3. PastUpdated(p) = [q EXCEPT !.retained = Lasting(q.retained)]
  BY DEF PastUpdated
<1> HIDE DEF base
<1>4. after = [i \in 0 .. Len(recent) |-> IF i = 0 THEN base ELSE Noticed(after[i - 1], recent[i])]
  <2>1. \E f : Follows(base, recent, Len(recent), f)
    BY <1>1, CaughtEquation
  <2> QED BY <2>1, Zenon DEF Follows
<1> HIDE DEF after
<1> DEFINE S == {n \in Nat : n <= Len(recent) => Caught(base, recent, n, after[n])}
<1>5. 0 \in S
  <2>1. after[0] = base
    BY <1>1, <1>4
  <2>2. Caught(base, recent, 0, base)
    BY <1>2 DEF Caught, HistoryOK
  <2> QED BY <2>1, <2>2
<1>6. ASSUME NEW n \in Nat, n \in S PROVE n + 1 \in S
  <2>1. ASSUME n + 1 <= Len(recent) PROVE Caught(base, recent, n + 1, after[n + 1])
    <3>1. Caught(base, recent, n, after[n])
      BY <1>1, <1>6, <2>1
    <3>2. after[n + 1] = Noticed(after[n], recent[n + 1])
      <4>1. n + 1 \in 0 .. Len(recent) /\ n + 1 # 0 /\ (n + 1) - 1 = n
        BY <1>1, <2>1
      <4>2. after[n + 1] = IF n + 1 = 0 THEN base ELSE Noticed(after[(n + 1) - 1], recent[n + 1])
        BY <1>4, <4>1
      <4> QED BY <4>1, <4>2
    <3>3. recent[n + 1] \in Nat \ {0} /\ \A i \in 1 .. n : recent[i] \in Nat \ {0}
      BY <1>1, <2>1
    <3>4. Caught(base, recent, n + 1, Noticed(after[n], recent[n + 1]))
      BY <1>2, <3>1, <3>3, CaughtNext
    <3> QED BY <3>2, <3>4
  <2> QED BY <2>1
<1>7. Caught(base, recent, Len(recent), q)
  <2>1. Len(recent) \in S
    <3> HIDE DEF S
    <3> QED BY <1>1, <1>5, <1>6, SetInduction
  <2> QED BY <1>1, <2>1
<1> HIDE DEF q
<1> DEFINE r == PastUpdated(p)
           list == Lasting(q.retained)
<1>8. RetainedOK(list) /\ Listed(list) \subseteq Listed(q.retained)
  BY <1>7, LastingIs DEF Caught, HistoryOK
<1>9. /\ DOMAIN r = DOMAIN q /\ r.retained = list /\ r.last = q.last /\ r.live = q.live
      /\ r.resyncs = q.resyncs
  <2> HIDE DEF list
  <2>1. r = [q EXCEPT !.retained = list]
    BY <1>3 DEF list
  <2> HIDE DEF r
  <2> QED BY <1>7, <2>1 DEF Caught, HistoryOK
<1> HIDE DEF list, r
<1>10. HistoryOK(r) /\ OnScreen(r) \subseteq OnScreen(q)
  <2>1. HistoryOK(r)
    BY <1>7, <1>8, <1>9 DEF Caught, HistoryOK
  <2> QED BY <1>7, <1>8, <1>9, <2>1, OnScreenIs DEF Caught
<1>11. PastIs(p, r)
  BY <1>2, <1>7, <1>9, <1>10 DEF Caught, PastIs, base
<1> QED BY <1>11 DEF r

LEMMA AgePastIs ==
  ASSUME NEW p, HistoryOK(p), NEW elapsed \in Nat
  PROVE  /\ HistoryOK(AgePast(p, elapsed)) /\ OnScreen(AgePast(p, elapsed)) = OnScreen(p)
         /\ AgePast(p, elapsed).live = p.live /\ AgePast(p, elapsed).last = p.last
         /\ AgePast(p, elapsed).resyncs = p.resyncs
<1> DEFINE list == p.retained
           f(i) == [sequence |-> list[i].sequence, age |-> Aged(list[i].age, elapsed)]
           new == [i \in DOMAIN list |-> f(i)]
           S == [sequence : Nat, age : 0 .. Retention]
           q == AgePast(p, elapsed)
<1>1. /\ Len(list) \in Nat /\ DOMAIN list = 1 .. Len(list) /\ Len(list) <= HistoryCapacity
      /\ \A i \in 1 .. Len(list) : list[i].age \in Nat /\ list[i].sequence \in Nat
      /\ \A i, j \in 1 .. Len(list) : i <= j => list[i].age >= list[j].age
  BY RetainedIs DEF HistoryOK, RetainedOK
<1>2. Retention \in Nat
  BY LocalAssumption
<1>3. q = [p EXCEPT !.retained = new]
  BY DEF AgePast
<1> HIDE DEF list, q
<1>4. \A i \in 1 .. Len(list) : f(i) \in S /\ f(i).sequence = list[i].sequence
                                /\ f(i).age = Aged(list[i].age, elapsed)
  BY <1>1, <1>2 DEF Aged
<1>5. new \in Seq(S) /\ Len(new) = Len(list) /\ DOMAIN new = 1 .. Len(list)
      /\ \A i \in 1 .. Len(list) : new[i] = f(i)
  <2> HIDE DEF f, S
  <2>1. new \in [1 .. Len(list) -> S] /\ DOMAIN new = 1 .. Len(list)
        /\ \A i \in 1 .. Len(list) : new[i] = f(i)
    BY <1>1, <1>4
  <2> HIDE DEF new
  <2>2. new \in Seq(S)
    BY <1>1, <2>1, SeqDef
  <2> QED BY <1>1, <2>1, <2>2, LenProperties
<1> HIDE DEF new, f
<1>6. ASSUME NEW i \in 1 .. Len(list), NEW j \in 1 .. Len(list), i <= j
      PROVE  new[i].age >= new[j].age
  <2>1. list[i].age >= list[j].age /\ list[i].age \in Nat /\ list[j].age \in Nat
    BY <1>1, <1>6
  <2>2. new[i] = f(i) /\ f(i).age = Aged(list[i].age, elapsed)
    BY <1>4, <1>5
  <2>3. new[j] = f(j) /\ f(j).age = Aged(list[j].age, elapsed)
    BY <1>4, <1>5
  <2>4. Aged(list[i].age, elapsed) >= Aged(list[j].age, elapsed)
    BY <1>2, <2>1 DEF Aged
  <2> QED BY <2>2, <2>3, <2>4
<1>7. RetainedOK(new) /\ Listed(new) = Listed(list)
  BY <1>1, <1>4, <1>5, <1>6 DEF RetainedOK, Listed
<1>8. /\ DOMAIN q = DOMAIN p /\ q.retained = new /\ q.last = p.last /\ q.live = p.live
      /\ q.resyncs = p.resyncs
  BY <1>3 DEF HistoryOK
<1>9. HistoryOK(q)
  BY <1>7, <1>8 DEF HistoryOK, list
<1> QED BY <1>7, <1>8, <1>9, OnScreenIs DEF q, list

-----------------------------------------------------------------------------
(* The local player: the invariant.                                        *)

HeadOK ==
  /\ DOMAIN head = {"pos", "tick", "accumulated", "sequence", "resyncs", "alive", "life"}
  /\ head.pos \in Int /\ head.tick \in 1 .. MaxTick /\ head.accumulated \in Int
  /\ head.sequence \in 0 .. issued /\ head.resyncs \in Nat
  /\ head.alive \in BOOLEAN /\ head.life \in Nat \ {0}
  /\ head.sequence = 0 => head.accumulated = 0

\* The corrections the runtime lists are the latest ones.
RecentOK ==
  /\ issued \in 0 .. MaxSequence
  /\ recent \in Seq(1 .. issued) /\ Len(recent) <= RecentCapacity
  /\ recent # << >> => Last(recent) = issued

SmoothOK(s) ==
  /\ DOMAIN s = {"live", "previous", "position", "start", "age", "active", "accumulated",
                 "sequence", "resyncs", "tick", "visual", "visualAge"}
  /\ s.live \in BOOLEAN /\ s.previous \in Int /\ s.position \in Int /\ s.start \in Int
  /\ s.age \in 0 .. Retention /\ s.active \in BOOLEAN /\ s.accumulated \in Int
  /\ s.sequence \in Nat /\ s.resyncs \in Nat /\ s.tick \in Nat
  /\ s.visualAge \in 0 .. Retention

\* What the head did since a frame whose state was s: the position it would have
\* without the corrections is the one it has without those that s counts.
Followed(s) ==
  /\ uncorrected.kept =>
       /\ head.resyncs = s.resyncs /\ head.tick >= s.tick /\ head.sequence >= s.sequence
       /\ uncorrected.pos = head.pos + head.accumulated - s.accumulated
       /\ head.sequence = s.sequence => head.accumulated = s.accumulated
  /\ ~uncorrected.kept =>
       /\ head.resyncs > s.resyncs
       /\ uncorrected.pos = head.pos + head.accumulated

HeadFollowed ==
  /\ uncorrected \in [pos : Int, kept : BOOLEAN]
  /\ localDisplay.life \in Nat /\ localDisplay.life <= head.life
  /\ localSpectating \in BOOLEAN
  /\ smooth.live /\ ~localSpectating /\ localDisplay.life = head.life /\ head.alive =>
       Followed(smooth)

\* What has left the screen is not on it, and the history has passed what the
\* runtime still lists of it.
GoneStays ==
  /\ HistoryOK(past) /\ past.last <= issued
  /\ gone \subseteq 1 .. issued /\ OnScreen(past) \cap gone = {}
  /\ \A i \in 1 .. Len(recent) : recent[i] \in gone \cup OnScreen(past) =>
       past.live /\ past.resyncs = head.resyncs /\ recent[i] <= past.last

LocalInv ==
  /\ HeadOK /\ RecentOK /\ SmoothOK(smooth) /\ HeadFollowed /\ GoneStays
  /\ CorrectionsAbsorbed

-----------------------------------------------------------------------------
(* The local player: the offset of a frame.                                *)

LEMMA OffsetIs ==
  ASSUME NEW s, SmoothOK(s)
  PROVE  Offset(s) \in Int
<1> DEFINE n == s.start * (Smoothing - s.age)
<1>1. Smoothing \in Nat \ {0} /\ Retention \in Nat
  BY LocalAssumption
<1>2. s.start \in Int /\ Smoothing - s.age \in Int
  BY <1>1 DEF SmoothOK
<1>3. n \in Int
  BY <1>2
<1> HIDE DEF n
<1>4. n \div Smoothing \in Int
  BY <1>1, <1>3, DivisionIs
<1> QED BY <1>4 DEF Offset, n

LEMMA OffsetSame ==
  ASSUME NEW s, NEW t, t.active = s.active, t.age = s.age, t.start = s.start
  PROVE  Offset(t) = Offset(s)
BY DEF Offset

\* An offset that has just started is shown in full.
LEMMA OffsetFresh ==
  ASSUME NEW s, s.start \in Int, s.age = 0, s.active <=> s.start # 0
  PROVE  Offset(s) = s.start
<1>1. Smoothing \in Nat \ {0}
  BY LocalAssumption
<1>2. CASE s.active
  <2>1. Offset(s) = (s.start * (Smoothing - s.age)) \div Smoothing
    BY <1>1, <1>2 DEF Offset
  <2>2. Smoothing - s.age = Smoothing
    BY <1>1
  <2>3. (s.start * Smoothing) \div Smoothing = s.start
    BY <1>1, DivisionIs
  <2> QED BY <2>1, <2>2, <2>3
<1>3. CASE ~s.active
  BY <1>3 DEF Offset
<1> QED BY <1>2, <1>3

\* At the end of a tick the newest position is shown, with the offset.
LEMMA PositionIs ==
  ASSUME NEW s, SmoothOK(s)
  PROVE  Position(s, AlphaSteps) = s.position + Offset(s)
<1>1. AlphaSteps \in Nat \ {0} /\ s.previous \in Int /\ s.position \in Int
  BY LocalAssumption DEF SmoothOK
<1> DEFINE d == s.position - s.previous
<1>2. d \in Int /\ s.previous + d = s.position
  BY <1>1
<1> HIDE DEF d
<1>3. (d * AlphaSteps) \div AlphaSteps = d
  BY <1>1, <1>2, DivisionIs
<1> QED BY <1>2, <1>3 DEF Position, d

LEMMA BlankIs ==
  /\ SmoothOK(Blank) /\ ~Blank.live
<1>1. Retention \in Nat
  BY LocalAssumption
<1> QED BY <1>1 DEF Blank, SmoothOK

LEMMA InitializedIs ==
  ASSUME HeadOK, issued \in Nat, MaxTick \in Nat
  PROVE  /\ SmoothOK(Initialized) /\ Initialized.live /\ Initialized.position = head.pos
         /\ Initialized.accumulated = head.accumulated /\ Initialized.sequence = head.sequence
         /\ Initialized.resyncs = head.resyncs /\ Initialized.tick = head.tick
         /\ Offset(Initialized) = 0
<1> DEFINE t == Initialized
<1>1. Retention \in Nat
  BY LocalAssumption
<1>2. t = [Blank EXCEPT !.live = TRUE, !.previous = head.pos, !.position = head.pos,
                  !.accumulated = head.accumulated, !.sequence = head.sequence,
                  !.resyncs = head.resyncs, !.tick = head.tick]
  BY DEF Initialized
<1> HIDE DEF t
<1>3. /\ DOMAIN t = {"live", "previous", "position", "start", "age", "active", "accumulated",
                     "sequence", "resyncs", "tick", "visual", "visualAge"}
      /\ t.live = TRUE /\ t.previous = head.pos /\ t.position = head.pos /\ t.start = 0
      /\ t.age = 0 /\ t.active = FALSE /\ t.accumulated = head.accumulated
      /\ t.sequence = head.sequence /\ t.resyncs = head.resyncs /\ t.tick = head.tick
      /\ t.visualAge = 0
  <2>1. /\ DOMAIN Blank = {"live", "previous", "position", "start", "age", "active",
                           "accumulated", "sequence", "resyncs", "tick", "visual", "visualAge"}
        /\ Blank.start = 0 /\ Blank.age = 0 /\ Blank.active = FALSE /\ Blank.visualAge = 0
    BY DEF Blank
  <2> QED BY <1>2, <2>1
<1>4. SmoothOK(t)
  <2>1. t.live \in BOOLEAN /\ t.active \in BOOLEAN
    BY <1>3, Zenon
  <2>2. /\ head.pos \in Int /\ head.accumulated \in Int /\ head.sequence \in Nat
        /\ head.resyncs \in Nat /\ head.tick \in Nat
    BY DEF HeadOK
  <2> QED BY <1>1, <1>3, <2>1, <2>2 DEF SmoothOK
<1>5. Offset(t) = 0
  BY <1>3 DEF Offset
<1> QED BY <1>3, <1>4, <1>5 DEF t

\* A resync forgets the correction that decays.
LEMMA AfterResyncIs ==
  ASSUME NEW s, SmoothOK(s)
  PROVE  /\ SmoothOK(AfterResync(s)) /\ AfterResync(s).live = s.live
         /\ AfterResync(s).tick = s.tick /\ AfterResync(s).position = s.position
         /\ head.resyncs = s.resyncs => AfterResync(s) = s
         /\ head.resyncs # s.resyncs => /\ AfterResync(s).accumulated = 0
                                        /\ AfterResync(s).sequence = 0
                                        /\ Offset(AfterResync(s)) = 0
<1> DEFINE t == AfterResync(s)
<1>1. CASE head.resyncs = s.resyncs
  BY <1>1 DEF AfterResync
<1>2. CASE head.resyncs # s.resyncs
  <2>1. Retention \in Nat
    BY LocalAssumption
  <2>2. t = [s EXCEPT !.start = 0, !.age = 0, !.active = FALSE,
                      !.accumulated = 0, !.sequence = 0, !.visual = FALSE]
    BY <1>2 DEF AfterResync
  <2> HIDE DEF t
  <2>3. /\ DOMAIN t = DOMAIN s /\ t.live = s.live /\ t.previous = s.previous
        /\ t.position = s.position /\ t.start = 0 /\ t.age = 0 /\ t.active = FALSE
        /\ t.accumulated = 0 /\ t.sequence = 0 /\ t.resyncs = s.resyncs /\ t.tick = s.tick
        /\ t.visualAge = s.visualAge
    BY <2>2 DEF SmoothOK
  <2>4. SmoothOK(t)
    <3>1. t.active \in BOOLEAN
      BY <2>3, Zenon
    <3> QED BY <2>1, <2>3, <3>1 DEF SmoothOK
  <2>5. Offset(t) = 0
    BY <2>3 DEF Offset
  <2> QED BY <1>2, <2>3, <2>4, <2>5 DEF t
<1> QED BY <1>1, <1>2

\* A new correction adds what it moved to what is left of the older ones.
LEMMA AfterCorrectionIs ==
  ASSUME NEW s, SmoothOK(s), head.accumulated \in Int
  PROVE  /\ SmoothOK(AfterCorrection(s)) /\ AfterCorrection(s).live = s.live
         /\ AfterCorrection(s).tick = s.tick /\ AfterCorrection(s).position = s.position
         /\ head.sequence = s.sequence => Offset(AfterCorrection(s)) = Offset(s)
         /\ head.sequence # s.sequence =>
              Offset(AfterCorrection(s)) = Offset(s) + head.accumulated - s.accumulated
<1> DEFINE t == AfterCorrection(s)
           offset == Offset(s) + head.accumulated - s.accumulated
<1>1. CASE head.sequence = s.sequence
  BY <1>1 DEF AfterCorrection
<1>2. CASE head.sequence # s.sequence
  <2>1. Retention \in Nat
    BY LocalAssumption
  <2>2. t = [s EXCEPT !.start = offset, !.age = 0, !.active = offset # 0,
                      !.visual = TRUE, !.visualAge = 0]
    BY <1>2 DEF AfterCorrection
  <2>3. offset \in Int
    BY OffsetIs DEF SmoothOK
  <2> HIDE DEF t, offset
  <2>4. /\ DOMAIN t = DOMAIN s /\ t.live = s.live /\ t.previous = s.previous
        /\ t.position = s.position /\ t.start = offset /\ t.age = 0 /\ t.active = (offset # 0)
        /\ t.accumulated = s.accumulated /\ t.sequence = s.sequence /\ t.resyncs = s.resyncs
        /\ t.tick = s.tick /\ t.visualAge = 0
    BY <2>2 DEF SmoothOK
  <2>5. t.active \in BOOLEAN /\ (t.active <=> t.start # 0)
    BY <2>4
  <2>6. SmoothOK(t)
    BY <2>1, <2>3, <2>4, <2>5 DEF SmoothOK
  <2>7. Offset(t) = offset
    BY <2>3, <2>4, <2>5, OffsetFresh
  <2> QED BY <1>2, <2>4, <2>6, <2>7 DEF t, offset
<1> QED BY <1>1, <1>2

LEMMA AfterStepsIs ==
  ASSUME NEW s, SmoothOK(s), head.pos \in Int, head.tick \in Nat, NEW resynced \in BOOLEAN
  PROVE  /\ SmoothOK(AfterSteps(s, resynced)) /\ AfterSteps(s, resynced).live = s.live
         /\ Offset(AfterSteps(s, resynced)) = Offset(s)
         /\ resynced \/ head.tick >= s.tick => AfterSteps(s, resynced).position = head.pos
<1> DEFINE t == AfterSteps(s, resynced)
<1>1. CASE resynced \/ (head.tick = s.tick /\ head.pos # s.position)
  <2>1. t = [s EXCEPT !.previous = head.pos, !.position = head.pos]
    BY <1>1 DEF AfterSteps
  <2> HIDE DEF t
  <2>2. /\ DOMAIN t = DOMAIN s /\ t.live = s.live /\ t.previous = head.pos
        /\ t.position = head.pos /\ t.start = s.start /\ t.age = s.age /\ t.active = s.active
        /\ t.accumulated = s.accumulated /\ t.sequence = s.sequence /\ t.resyncs = s.resyncs
        /\ t.tick = s.tick /\ t.visualAge = s.visualAge
    BY <2>1 DEF SmoothOK
  <2>3. SmoothOK(t)
    BY <2>2 DEF SmoothOK
  <2> QED BY <2>2, <2>3, OffsetSame DEF t
<1>2. CASE ~(resynced \/ (head.tick = s.tick /\ head.pos # s.position)) /\ head.tick > s.tick
  <2>1. t = [s EXCEPT !.previous = s.position, !.position = head.pos]
    BY <1>2 DEF AfterSteps
  <2> HIDE DEF t
  <2>2. /\ DOMAIN t = DOMAIN s /\ t.live = s.live /\ t.previous = s.position
        /\ t.position = head.pos /\ t.start = s.start /\ t.age = s.age /\ t.active = s.active
        /\ t.accumulated = s.accumulated /\ t.sequence = s.sequence /\ t.resyncs = s.resyncs
        /\ t.tick = s.tick /\ t.visualAge = s.visualAge
    BY <2>1 DEF SmoothOK
  <2>3. SmoothOK(t)
    BY <2>2 DEF SmoothOK
  <2> QED BY <2>2, <2>3, OffsetSame DEF t
<1>3. CASE ~(resynced \/ (head.tick = s.tick /\ head.pos # s.position)) /\ ~(head.tick > s.tick)
  <2>1. t = s
    BY <1>3 DEF AfterSteps
  <2>2. resynced \/ head.tick >= s.tick => s.position = head.pos
    BY <1>3 DEF SmoothOK
  <2> QED BY <2>1, <2>2
<1> QED BY <1>1, <1>2, <1>3

\* A frame makes the head's counters its own.
LEMMA UpdatedIs ==
  ASSUME NEW s, SmoothOK(s), HeadOK, issued \in Nat
  PROVE  /\ SmoothOK(Updated(s)) /\ Updated(s).live /\ Updated(s).position = head.pos
         /\ Updated(s).accumulated = head.accumulated /\ Updated(s).sequence = head.sequence
         /\ Updated(s).resyncs = head.resyncs /\ Updated(s).tick = head.tick
         /\ ~s.live => Offset(Updated(s)) = 0
         /\ ~MustInitialize(s) /\ head.resyncs # s.resyncs =>
              Offset(Updated(s)) = head.accumulated
         /\ ~MustInitialize(s) /\ head.resyncs = s.resyncs =>
              Offset(Updated(s)) = IF head.sequence = s.sequence THEN Offset(s)
                                   ELSE Offset(s) + head.accumulated - s.accumulated
<1>1. /\ head.pos \in Int /\ head.accumulated \in Int /\ head.sequence \in Nat
      /\ head.resyncs \in Nat /\ head.tick \in Nat /\ MaxTick \in Nat
      /\ head.sequence = 0 => head.accumulated = 0
  BY LocalAssumption DEF HeadOK
<1>2. CASE MustInitialize(s)
  <2>1. Updated(s) = Initialized
    BY <1>2 DEF Updated
  <2> QED BY <1>1, <1>2, <2>1, InitializedIs
<1>3. CASE ~MustInitialize(s)
  <2> DEFINE resynced == head.resyncs # s.resyncs
             r == AfterResync(s)
             c == AfterCorrection(r)
             moved == AfterSteps(c, resynced)
             t == Updated(s)
  <2>1. /\ s.live /\ (~resynced => head.tick >= s.tick)
    BY <1>1, <1>3 DEF MustInitialize, SmoothOK
  <2>2. /\ SmoothOK(r) /\ r.live = s.live /\ r.tick = s.tick
        /\ ~resynced => r = s
        /\ resynced => r.accumulated = 0 /\ r.sequence = 0 /\ Offset(r) = 0
    BY AfterResyncIs
  <2>3. t = [moved EXCEPT !.accumulated = head.accumulated, !.sequence = head.sequence,
                          !.resyncs = head.resyncs, !.tick = head.tick,
                          !.visual = moved.visual /\ moved.visualAge < Retention]
    BY <1>3 DEF Updated
  <2>4. resynced \in BOOLEAN
    OBVIOUS
  <2> HIDE DEF r, resynced
  <2>5. /\ SmoothOK(c) /\ c.live = r.live /\ c.tick = r.tick
        /\ head.sequence = r.sequence => Offset(c) = Offset(r)
        /\ head.sequence # r.sequence => Offset(c) = Offset(r) + head.accumulated - r.accumulated
    BY <1>1, <2>2, AfterCorrectionIs
  <2> HIDE DEF c
  <2>6. /\ SmoothOK(moved) /\ moved.live = c.live /\ Offset(moved) = Offset(c)
        /\ resynced \/ head.tick >= c.tick => moved.position = head.pos
    BY <1>1, <2>4, <2>5, AfterStepsIs
  <2>7. moved.position = head.pos
    BY <2>1, <2>2, <2>5, <2>6
  <2> HIDE DEF moved, t
  <2>8. /\ DOMAIN t = DOMAIN moved /\ t.live = moved.live /\ t.previous = moved.previous
        /\ t.position = moved.position /\ t.start = moved.start /\ t.age = moved.age
        /\ t.active = moved.active /\ t.accumulated = head.accumulated
        /\ t.sequence = head.sequence /\ t.resyncs = head.resyncs /\ t.tick = head.tick
        /\ t.visualAge = moved.visualAge
    BY <2>3, <2>6 DEF SmoothOK
  <2>9. SmoothOK(t)
    <3>1. t.live \in BOOLEAN /\ t.active \in BOOLEAN
      BY <2>6, <2>8 DEF SmoothOK
    <3> QED BY <1>1, <2>6, <2>8, <3>1 DEF SmoothOK
  <2>10. t.live
    BY <2>1, <2>2, <2>5, <2>6, <2>8
  <2>11. Offset(t) = Offset(c)
    BY <2>6, <2>8, OffsetSame
  <2>12. resynced => Offset(t) = head.accumulated
    BY <1>1, <2>2, <2>5, <2>11
  <2>13. ~resynced => Offset(t) = IF head.sequence = s.sequence THEN Offset(s)
                                  ELSE Offset(s) + head.accumulated - s.accumulated
    BY <2>2, <2>5, <2>11
  <2> QED BY <1>3, <2>1, <2>7, <2>8, <2>9, <2>10, <2>12, <2>13 DEF t, resynced
<1> QED BY <1>2, <1>3

\* What the update shows of the corrections is what the head would have been without.
LEMMA UpdateFollows ==
  ASSUME NEW s, SmoothOK(s), s.live, HeadOK, issued \in Nat, Followed(s),
         uncorrected.kept \in BOOLEAN
  PROVE  head.pos + Offset(Updated(s)) =
           uncorrected.pos + IF uncorrected.kept THEN Offset(s) ELSE 0
<1>1. /\ head.pos \in Int /\ head.accumulated \in Int /\ head.sequence \in Nat
      /\ head.resyncs \in Nat /\ head.tick \in Nat /\ s.accumulated \in Int
      /\ s.resyncs \in Nat /\ s.sequence \in Nat /\ s.tick \in Nat /\ Offset(s) \in Int
  <2>1. Offset(s) \in Int
    BY OffsetIs
  <2> QED BY <2>1, LocalAssumption DEF HeadOK, SmoothOK
<1>2. CASE uncorrected.kept
  <2>1. /\ head.resyncs = s.resyncs /\ head.tick >= s.tick /\ head.sequence >= s.sequence
        /\ uncorrected.pos = head.pos + head.accumulated - s.accumulated
        /\ head.sequence = s.sequence => head.accumulated = s.accumulated
    BY <1>2 DEF Followed
  <2>2. ~MustInitialize(s)
    BY <1>1, <2>1 DEF MustInitialize
  <2>3. Offset(Updated(s)) = IF head.sequence = s.sequence THEN Offset(s)
                             ELSE Offset(s) + head.accumulated - s.accumulated
    BY <2>1, <2>2, UpdatedIs
  <2> QED BY <1>1, <1>2, <2>1, <2>3
<1>3. CASE ~uncorrected.kept
  <2>1. head.resyncs > s.resyncs /\ uncorrected.pos = head.pos + head.accumulated
    BY <1>3 DEF Followed
  <2>2. ~MustInitialize(s) /\ head.resyncs # s.resyncs
    BY <1>1, <2>1 DEF MustInitialize
  <2>3. Offset(Updated(s)) = head.accumulated
    BY <2>2, UpdatedIs
  <2> QED BY <1>1, <1>3, <2>1, <2>3
<1> QED BY <1>2, <1>3

LEMMA AgedIs ==
  ASSUME NEW s, SmoothOK(s), NEW elapsed \in Nat
  PROVE  LET t == [s EXCEPT !.age = Aged(@, elapsed), !.visualAge = Aged(@, elapsed)]
         IN /\ SmoothOK(t) /\ t.live = s.live /\ t.accumulated = s.accumulated
            /\ t.sequence = s.sequence /\ t.resyncs = s.resyncs /\ t.tick = s.tick
<1> DEFINE a == Aged(s.age, elapsed)
           v == Aged(s.visualAge, elapsed)
           t == [s EXCEPT !.age = a, !.visualAge = v]
<1>1. Retention \in Nat
  BY LocalAssumption
<1>2. a \in 0 .. Retention /\ v \in 0 .. Retention
  BY <1>1 DEF Aged, SmoothOK
<1> HIDE DEF a, v
<1>3. /\ DOMAIN t = DOMAIN s /\ t.live = s.live /\ t.previous = s.previous
      /\ t.position = s.position /\ t.start = s.start /\ t.age = a /\ t.active = s.active
      /\ t.accumulated = s.accumulated /\ t.sequence = s.sequence /\ t.resyncs = s.resyncs
      /\ t.tick = s.tick /\ t.visualAge = v
  BY DEF SmoothOK
<1>4. SmoothOK(t)
  <2> HIDE DEF t
  <2> QED BY <1>2, <1>3 DEF SmoothOK
<1> QED BY <1>3, <1>4 DEF a, v

\* What an update puts on the screen was there, or the runtime lists it and the
\* history had not passed it.
LEMMA UpdateKeepsGone ==
  ASSUME RecentOK, head.resyncs \in Nat, GoneStays,
         NEW p, HistoryOK(p), OnScreen(p) = OnScreen(past), p.live = past.live,
         p.last = past.last, p.resyncs = past.resyncs,
         NEW q, PastIs(p, q)
  PROVE  /\ HistoryOK(q) /\ q.last <= issued /\ OnScreen(q) \subseteq 1 .. issued
         /\ OnScreen(q) \cap (gone \cup ((1 .. q.last) \ OnScreen(q))) = {}
         /\ gone \cup ((1 .. q.last) \ OnScreen(q)) \subseteq 1 .. issued
         /\ q.live /\ q.resyncs = head.resyncs
         /\ \A i \in 1 .. Len(recent) : recent[i] <= q.last
<1> DEFINE base == IF Restarted(p) THEN [NoHistory EXCEPT !.live = TRUE, !.resyncs = head.resyncs]
                   ELSE p
           new == {recent[i] : i \in {j \in 1 .. Len(recent) : recent[j] > base.last}}
<1>1. /\ issued \in Nat /\ Len(recent) \in Nat
      /\ \A i \in 1 .. Len(recent) : recent[i] \in 1 .. issued
  BY SMTT(30), LenProperties, ElementOfSeq, LocalAssumption DEF RecentOK
<1>2. /\ past.last \in Nat /\ past.last <= issued /\ gone \subseteq 1 .. issued
      /\ OnScreen(past) \cap gone = {}
      /\ \A i \in 1 .. Len(recent) : recent[i] \in gone \cup OnScreen(past) =>
           past.live /\ past.resyncs = head.resyncs /\ recent[i] <= past.last
  BY DEF GoneStays, HistoryOK
<1>3. ~(recent # << >> /\ Last(recent) < p.last)
  BY <1>1, <1>2 DEF RecentOK
<1>4. base.last \in Nat /\ base.last <= issued /\ OnScreen(base) \cap gone = {} /\ new \cap gone = {}
  <2>1. CASE Restarted(p)
    <3>1. base.last = 0 /\ base.retained = << >>
      BY <2>1 DEF NoHistory
    <3>2. OnScreen(base) = {}
      <4> HIDE DEF base
      <4> QED BY <3>1 DEF OnScreen
    <3>3. ~past.live \/ head.resyncs # past.resyncs
      BY <1>3, <2>1 DEF Restarted
    <3>4. new \cap gone = {}
      <4> HIDE DEF base
      <4> QED BY <1>2, <3>3
    <3> QED BY <1>1, <3>1, <3>2, <3>4
  <2>2. CASE ~Restarted(p)
    <3>1. base = p
      BY <2>2
    <3> HIDE DEF base
    <3>2. \A i \in 1 .. Len(recent) : recent[i] > base.last => recent[i] \notin gone
      BY <1>1, <1>2, <3>1
    <3> QED BY <1>2, <3>1, <3>2
  <2> QED BY <2>1, <2>2
<1>5. /\ HistoryOK(q) /\ q.live /\ q.resyncs = head.resyncs /\ base.last <= q.last
      /\ q.last = base.last \/ \E i \in 1 .. Len(recent) : q.last = recent[i]
      /\ \A i \in 1 .. Len(recent) : recent[i] <= q.last
      /\ OnScreen(q) \subseteq OnScreen(base) \cup new
  BY DEF PastIs
<1> HIDE DEF base, new
<1>6. q.last \in Nat /\ q.last <= issued
  BY <1>1, <1>4, <1>5 DEF HistoryOK
<1>7. OnScreen(q) \subseteq 1 .. q.last
  BY <1>5, OnScreenIs DEF HistoryOK
<1>8. OnScreen(q) \cap gone = {}
  BY <1>4, <1>5
<1>9. 1 .. q.last \subseteq 1 .. issued
  BY <1>1, <1>6
<1> QED BY <1>2, <1>5, <1>6, <1>7, <1>8, <1>9

-----------------------------------------------------------------------------
(* The local player: the steps.                                            *)

LEMMA LocalFrameKeeps ==
  ASSUME LocalInv, NEW elapsed \in Nat, LocalPlayingFrame(elapsed)
  PROVE  LocalInv'
<1> DEFINE entered == IF localSpectating THEN Blank ELSE smooth
           aged == [entered EXCEPT !.age = Aged(@, elapsed), !.visualAge = Aged(@, elapsed)]
           s == Updated(aged)
           left == IF uncorrected.kept /\ entered.live THEN Offset(aged) ELSE 0
           seen == AgePast(past, elapsed)
           p == PastUpdated(seen)
<1>1. /\ head.alive /\ smooth' = s /\ past' = p /\ localSpectating' = FALSE
      /\ localDisplay' = [comparable |-> (~entered.live \/ localDisplay.life = head.life),
                          life |-> head.life, full |-> Position(s, AlphaSteps),
                          expected |-> (IF entered.live THEN uncorrected.pos ELSE head.pos) + left]
      /\ uncorrected' = [pos |-> head.pos, kept |-> TRUE]
      /\ gone' = gone \cup ((1 .. p.last) \ OnScreen(p))
      /\ UNCHANGED <<head, recent, issued>>
  BY DEF LocalPlayingFrame
<1>2. /\ HeadOK /\ issued \in Nat /\ uncorrected.pos \in Int /\ uncorrected.kept \in BOOLEAN
      /\ head.pos \in Int /\ head.life \in Nat
  BY LocalAssumption DEF LocalInv, HeadOK, RecentOK, HeadFollowed
<1>3. SmoothOK(entered)
  BY BlankIs DEF LocalInv
<1>4. entered.live => ~localSpectating /\ entered = smooth
  BY BlankIs
<1> HIDE DEF entered
<1>5. /\ SmoothOK(aged) /\ aged.live = entered.live /\ aged.accumulated = entered.accumulated
      /\ aged.sequence = entered.sequence /\ aged.resyncs = entered.resyncs
      /\ aged.tick = entered.tick
  BY <1>3, AgedIs
<1> HIDE DEF aged
<1>6. /\ SmoothOK(s) /\ s.live /\ s.position = head.pos /\ s.accumulated = head.accumulated
      /\ s.sequence = head.sequence /\ s.resyncs = head.resyncs /\ s.tick = head.tick
      /\ ~aged.live => Offset(s) = 0
  BY <1>2, <1>5, UpdatedIs
<1>7. ASSUME ~entered.live \/ localDisplay.life = head.life
      PROVE  head.pos + Offset(s) = (IF entered.live THEN uncorrected.pos ELSE head.pos) + left
  <2>1. CASE ~entered.live
    <3>1. Offset(s) = 0 /\ left = 0
      BY <1>5, <1>6, <2>1
    <3> HIDE DEF s, left
    <3> QED BY <1>2, <2>1, <3>1
  <2>2. CASE entered.live
    <3>1. Followed(smooth)
      BY <1>1, <1>4, <1>7, <2>2 DEF LocalInv, HeadFollowed
    <3>2. Followed(aged)
      BY <1>4, <1>5, <2>2, <3>1 DEF Followed
    <3>3. aged.live
      BY <1>5, <2>2
    <3>4. head.pos + Offset(s) =
            uncorrected.pos + IF uncorrected.kept THEN Offset(aged) ELSE 0
      BY <1>2, <1>5, <3>2, <3>3, UpdateFollows
    <3>5. left = IF uncorrected.kept THEN Offset(aged) ELSE 0
      BY <2>2
    <3> HIDE DEF s, left
    <3> QED BY <2>2, <3>4, <3>5
  <2> QED BY <2>1, <2>2
<1> HIDE DEF s, left
<1>8. HeadOK' /\ RecentOK'
  BY <1>1 DEF LocalInv, HeadOK, RecentOK
<1>9. SmoothOK(smooth)'
  BY <1>1, <1>6 DEF SmoothOK
<1>10. HeadFollowed'
  <2>1. /\ uncorrected'.pos = head.pos /\ uncorrected'.kept = TRUE
        /\ uncorrected' \in [pos : Int, kept : BOOLEAN]
    BY <1>1, <1>2
  <2>2. Followed(smooth)'
    <3>1. /\ head.accumulated \in Int /\ head.tick \in Int /\ head.sequence \in Int
      BY <1>2 DEF HeadOK
    <3> QED BY <1>1, <1>2, <1>6, <2>1, <3>1 DEF Followed
  <2>3. localDisplay'.life = head.life
    BY <1>1
  <2>4. localSpectating' \in BOOLEAN
    BY <1>1, Zenon
  <2>5. head'.life = head.life
    BY <1>1
  <2> QED BY <1>2, <2>1, <2>2, <2>3, <2>4, <2>5 DEF HeadFollowed
<1>11. CorrectionsAbsorbed'
  <2>1. Position(s, AlphaSteps) = head.pos + Offset(s)
    BY <1>6, PositionIs
  <2>2. localDisplay'.comparable => ~entered.live \/ localDisplay.life = head.life
    BY <1>1
  <2>3. /\ localDisplay'.full = Position(s, AlphaSteps)
        /\ localDisplay'.expected = (IF entered.live THEN uncorrected.pos ELSE head.pos) + left
    BY <1>1
  <2> QED BY <1>7, <2>1, <2>2, <2>3 DEF CorrectionsAbsorbed
<1>12. GoneStays'
  <2>1. /\ RecentOK /\ head.resyncs \in Nat /\ GoneStays /\ HistoryOK(past)
        /\ recent \in Seq(Nat \ {0})
    <3>1. RecentOK /\ head.resyncs \in Nat /\ GoneStays /\ HistoryOK(past)
      BY DEF LocalInv, HeadOK, GoneStays
    <3>2. recent \in Seq(1 .. issued)
      BY <3>1 DEF RecentOK
    <3>3. 1 .. issued \subseteq Nat \ {0}
      BY <1>2
    <3>4. recent \in Seq(Nat \ {0})
      <4> DEFINE S == 1 .. issued
                 T == Nat \ {0}
      <4>1. recent \in Seq(S) /\ S \subseteq T
        BY <3>2, <3>3
      <4> HIDE DEF S, T
      <4>2. /\ Len(recent) \in Nat /\ recent \in [1 .. Len(recent) -> S]
        BY <4>1, LenProperties
      <4>3. recent \in [1 .. Len(recent) -> T]
        BY <4>1, <4>2
      <4>4. recent \in Seq(T)
        BY <4>2, <4>3, SeqDef
      <4> QED BY <4>4 DEF T
    <3> QED BY <3>1, <3>4
  <2>2. /\ HistoryOK(seen) /\ OnScreen(seen) = OnScreen(past) /\ seen.live = past.live
        /\ seen.last = past.last /\ seen.resyncs = past.resyncs
    BY <2>1, AgePastIs
  <2> HIDE DEF seen
  <2>3. PastIs(seen, p)
    BY <2>1, <2>2, PastUpdatedIs
  <2> HIDE DEF p
  <2>4. /\ HistoryOK(p) /\ p.last <= issued /\ OnScreen(p) \subseteq 1 .. issued
        /\ OnScreen(p) \cap (gone \cup ((1 .. p.last) \ OnScreen(p))) = {}
        /\ gone \cup ((1 .. p.last) \ OnScreen(p)) \subseteq 1 .. issued
        /\ p.live /\ p.resyncs = head.resyncs
        /\ \A i \in 1 .. Len(recent) : recent[i] <= p.last
    BY <2>1, <2>2, <2>3, UpdateKeepsGone
  <2>5. OnScreen(past)' = OnScreen(p) /\ (HistoryOK(p) => HistoryOK(past)')
    BY <1>1 DEF OnScreen, HistoryOK, RetainedOK, Listed
  <2> QED BY <1>1, <2>4, <2>5 DEF GoneStays
<1> QED BY <1>8, <1>9, <1>10, <1>11, <1>12 DEF LocalInv

LEMMA RecordedIs ==
  ASSUME RecentOK
  PROVE  LET list == Recorded(recent)
         IN /\ list \in Seq(1 .. issued + 1) /\ Len(list) <= RecentCapacity
            /\ list # << >> /\ Last(list) = issued + 1
            /\ \A i \in 1 .. Len(list) : \/ list[i] = issued + 1
                                         \/ \E j \in 1 .. Len(recent) : list[i] = recent[j]
<1> DEFINE S == 1 .. issued + 1
           kept == IF Len(recent) = RecentCapacity THEN Tail(recent) ELSE recent
           list == Append(kept, issued + 1)
<1>1. issued \in Nat /\ RecentCapacity \in Nat \ {0} /\ Len(recent) \in Nat
      /\ Len(recent) <= RecentCapacity
  BY LenProperties, LocalAssumption DEF RecentOK
<1>2. recent \in Seq(S) /\ issued + 1 \in S
  <2> DEFINE T == 1 .. issued
  <2>1. recent \in Seq(T) /\ T \subseteq S
    BY <1>1 DEF RecentOK
  <2> HIDE DEF S, T
  <2>2. recent \in [1 .. Len(recent) -> T]
    BY <2>1, LenProperties
  <2>3. recent \in [1 .. Len(recent) -> S]
    BY <2>1, <2>2
  <2>4. recent \in Seq(S)
    BY <1>1, <2>3, SeqDef
  <2> QED BY <1>1, <2>4 DEF S
<1> HIDE DEF S
<1>3. /\ kept \in Seq(S) /\ Len(kept) \in Nat /\ Len(kept) + 1 <= RecentCapacity
      /\ \A i \in 1 .. Len(kept) : \E j \in 1 .. Len(recent) : kept[i] = recent[j]
  <2>1. CASE Len(recent) = RecentCapacity
    <3>1. kept = Tail(recent) /\ recent # << >>
      BY <1>1, <1>2, <2>1
    <3>2. /\ kept \in Seq(S) /\ Len(kept) = Len(recent) - 1
          /\ \A i \in 1 .. Len(kept) : kept[i] = recent[i + 1] /\ i + 1 \in 1 .. Len(recent)
      BY <1>2, <3>1
    <3> HIDE DEF kept
    <3> QED BY <1>1, <2>1, <3>2
  <2>2. CASE Len(recent) # RecentCapacity
    BY <1>1, <1>2, <2>2
  <2> QED BY <2>1, <2>2
<1> HIDE DEF kept
<1>4. /\ list \in Seq(S) /\ Len(list) = Len(kept) + 1 /\ list # << >>
      /\ \A i \in 1 .. Len(kept) : list[i] = kept[i]
      /\ list[Len(list)] = issued + 1
  BY <1>2, <1>3
<1> HIDE DEF list
<1>5. \A i \in 1 .. Len(list) : \/ list[i] = issued + 1
                                \/ \E j \in 1 .. Len(recent) : list[i] = recent[j]
  BY <1>3, <1>4
<1>6. Last(list) = issued + 1
  BY <1>4 DEF Last
<1>7. Recorded(recent) = list
  BY DEF Recorded, list, kept
<1> QED BY <1>3, <1>4, <1>5, <1>6, <1>7 DEF S

\* A step of the runtime lists what it listed in the same epoch, or a new correction.
Relisted ==
  \A i \in 1 .. Len(recent') :
    \/ recent'[i] = issued + 1
    \/ head'.resyncs = head.resyncs /\ \E j \in 1 .. Len(recent) : recent'[i] = recent[j]

\* A step between two frames.
LEMMA RuntimeKeeps ==
  ASSUME LocalInv, UNCHANGED <<smooth, past, localSpectating, localDisplay, gone>>,
         HeadOK', RecentOK', issued <= issued', Relisted,
         uncorrected' \in [pos : Int, kept : BOOLEAN], head'.life >= head.life,
         smooth.live /\ head'.life = head.life /\ head'.alive =>
           head.alive /\ (Followed(smooth) => Followed(smooth)')
  PROVE  LocalInv'
<1>1. SmoothOK(smooth)'
  BY DEF LocalInv, SmoothOK
<1>2. HeadFollowed'
  <2>1. head.life \in Nat /\ head'.life \in Nat
    BY DEF LocalInv, HeadOK
  <2> QED BY <2>1 DEF LocalInv, HeadFollowed
<1>3. CorrectionsAbsorbed'
  BY DEF LocalInv, CorrectionsAbsorbed
<1>4. GoneStays'
  <2>1. /\ HistoryOK(past) /\ past.last <= issued /\ past.last \in Nat
        /\ gone \subseteq 1 .. issued /\ OnScreen(past) \cap gone = {}
        /\ \A i \in 1 .. Len(recent) : recent[i] \in gone \cup OnScreen(past) =>
             past.live /\ past.resyncs = head.resyncs /\ recent[i] <= past.last
    BY DEF LocalInv, GoneStays, HistoryOK
  <2>2. issued \in Nat /\ issued' \in Nat
    BY LocalAssumption DEF LocalInv, RecentOK
  <2>3. OnScreen(past) \subseteq 1 .. past.last
    BY <2>1, OnScreenIs DEF HistoryOK
  <2>4. issued + 1 \notin gone \cup OnScreen(past)
    BY <2>1, <2>2, <2>3
  <2>5. ASSUME NEW i \in 1 .. Len(recent'), recent'[i] \in gone \cup OnScreen(past)
        PROVE  past.live /\ past.resyncs = head'.resyncs /\ recent'[i] <= past.last
    BY <2>1, <2>4, <2>5 DEF Relisted
  <2>6. OnScreen(past)' = OnScreen(past) /\ HistoryOK(past)'
    BY <2>1 DEF OnScreen, HistoryOK, RetainedOK, Listed
  <2>7. past.last <= issued' /\ gone \subseteq 1 .. issued'
    BY <2>1, <2>2
  <2> QED BY <2>1, <2>5, <2>6, <2>7 DEF GoneStays
<1> QED BY <1>1, <1>2, <1>3, <1>4 DEF LocalInv

\* What a step knows of the head and of what the runtime lists.
HeadTyped ==
  /\ DOMAIN head = {"pos", "tick", "accumulated", "sequence", "resyncs", "alive", "life"}
  /\ head.pos \in Int /\ head.tick \in Nat /\ head.tick \in 1 .. MaxTick
  /\ head.accumulated \in Int /\ head.sequence \in Nat /\ head.sequence <= issued
  /\ head.resyncs \in Nat /\ head.alive \in BOOLEAN /\ head.life \in Nat \ {0}
  /\ head.sequence = 0 => head.accumulated = 0
  /\ issued \in Nat /\ issued <= MaxSequence /\ MaxSequence \in Nat /\ MaxTick \in Nat \ {0}
  /\ uncorrected \in [pos : Int, kept : BOOLEAN]

LEMMA LocalInvTypes ==
  ASSUME LocalInv PROVE HeadTyped
BY SMTT(30), LocalAssumption DEF LocalInv, HeadOK, RecentOK, HeadFollowed, HeadTyped

LEMMA StepKeeps ==
  ASSUME LocalInv, Step PROVE LocalInv'
<1>1. HeadTyped
  BY LocalInvTypes
<1>2. /\ head.alive /\ head.tick < MaxTick
      /\ head' = [head EXCEPT !.pos = head.pos + Velocity, !.tick = head.tick + 1]
      /\ uncorrected' = [uncorrected EXCEPT !.pos = uncorrected.pos + Velocity]
      /\ UNCHANGED <<recent, issued, smooth, past, localSpectating, localDisplay, gone>>
  BY DEF Step
<1>3. Velocity \in Int
  BY LocalAssumption
<1>4. /\ DOMAIN head' = DOMAIN head /\ head'.pos = head.pos + Velocity
      /\ head'.tick = head.tick + 1 /\ head'.accumulated = head.accumulated
      /\ head'.sequence = head.sequence /\ head'.resyncs = head.resyncs
      /\ head'.alive = head.alive /\ head'.life = head.life
  BY <1>1, <1>2 DEF HeadTyped
<1>5. /\ uncorrected'.pos = uncorrected.pos + Velocity /\ uncorrected'.kept = uncorrected.kept
      /\ uncorrected' \in [pos : Int, kept : BOOLEAN]
  BY <1>1, <1>2, <1>3 DEF HeadTyped
<1>6. HeadOK'
  <2>1. head'.alive \in BOOLEAN
    BY <1>1, <1>4 DEF HeadTyped
  <2>2. /\ head'.pos \in Int /\ head'.tick \in 1 .. MaxTick /\ head'.accumulated \in Int
        /\ head'.sequence \in 0 .. issued' /\ head'.resyncs \in Nat /\ head'.life \in Nat \ {0}
        /\ head'.sequence = 0 => head'.accumulated = 0
    BY <1>1, <1>2, <1>3, <1>4 DEF HeadTyped
  <2> QED BY <1>1, <1>4, <2>1, <2>2 DEF HeadTyped, HeadOK
<1>7. RecentOK' /\ issued <= issued' /\ Relisted
  BY <1>1, <1>2, <1>4 DEF HeadTyped, LocalInv, RecentOK, Relisted
<1>8. smooth.live => (Followed(smooth) => Followed(smooth)')
  <2>1. smooth.accumulated \in Int /\ smooth.tick \in Nat /\ smooth.sequence \in Nat
        /\ uncorrected.pos \in Int
    BY <1>1 DEF LocalInv, SmoothOK, HeadTyped
  <2> QED BY <1>1, <1>2, <1>3, <1>4, <1>5, <2>1 DEF HeadTyped, Followed
<1> QED BY <1>1, <1>2, <1>4, <1>5, <1>6, <1>7, <1>8, RuntimeKeeps DEF HeadTyped

LEMMA ReconcileKeeps ==
  ASSUME LocalInv, NEW d \in Corrections, NEW ticks \in 0 .. 1, Reconcile(d, ticks)
  PROVE  LocalInv'
<1>1. HeadTyped
  BY LocalInvTypes
<1>2. /\ head.alive /\ head.tick + ticks <= MaxTick /\ issued < MaxSequence
      /\ head' = [head EXCEPT !.pos = head.pos + d, !.tick = head.tick + ticks,
                              !.accumulated = head.accumulated - d, !.sequence = head.sequence + 1]
      /\ recent' = Recorded(recent) /\ issued' = issued + 1
      /\ UNCHANGED <<smooth, past, localSpectating, uncorrected, localDisplay, gone>>
  BY DEF Reconcile
<1>3. d \in Int
  BY LocalAssumption
<1>4. /\ DOMAIN head' = DOMAIN head /\ head'.pos = head.pos + d
      /\ head'.tick = head.tick + ticks /\ head'.accumulated = head.accumulated - d
      /\ head'.sequence = head.sequence + 1 /\ head'.resyncs = head.resyncs
      /\ head'.alive = head.alive /\ head'.life = head.life
  BY <1>1, <1>2 DEF HeadTyped
<1>5. HeadOK'
  <2>1. head'.alive \in BOOLEAN
    BY <1>1, <1>4 DEF HeadTyped
  <2>2. /\ head'.pos \in Int /\ head'.tick \in 1 .. MaxTick /\ head'.accumulated \in Int
        /\ head'.sequence \in 0 .. issued' /\ head'.resyncs \in Nat /\ head'.life \in Nat \ {0}
        /\ head'.sequence = 0 => head'.accumulated = 0
    BY <1>1, <1>2, <1>3, <1>4 DEF HeadTyped
  <2> QED BY <1>1, <1>4, <2>1, <2>2 DEF HeadTyped, HeadOK
<1>6. RecentOK' /\ issued <= issued' /\ Relisted
  <2>1. RecentOK
    BY DEF LocalInv
  <2>2. /\ recent' \in Seq(1 .. issued + 1) /\ Len(recent') <= RecentCapacity
        /\ Last(recent') = issued + 1
        /\ \A i \in 1 .. Len(recent') : \/ recent'[i] = issued + 1
                                        \/ \E j \in 1 .. Len(recent) : recent'[i] = recent[j]
    BY <1>2, <2>1, RecordedIs
  <2>3. RecentOK'
    BY <1>1, <1>2, <2>2 DEF HeadTyped, RecentOK
  <2> QED BY <1>1, <1>2, <1>4, <2>2, <2>3 DEF HeadTyped, Relisted
<1>7. smooth.live => (Followed(smooth) => Followed(smooth)')
  <2>1. smooth.accumulated \in Int /\ smooth.tick \in Nat /\ smooth.sequence \in Nat
        /\ uncorrected.pos \in Int
    BY <1>1 DEF LocalInv, SmoothOK, HeadTyped
  <2> QED BY <1>1, <1>2, <1>3, <1>4, <2>1 DEF HeadTyped, Followed
<1> QED BY <1>1, <1>2, <1>4, <1>5, <1>6, <1>7, RuntimeKeeps DEF HeadTyped

LEMMA ReconcileRemoteKeeps ==
  ASSUME LocalInv, ReconcileRemote PROVE LocalInv'
<1>1. HeadTyped
  BY LocalInvTypes
<1>2. /\ head.alive /\ issued < MaxSequence
      /\ recent' = Recorded(recent) /\ issued' = issued + 1
      /\ UNCHANGED <<head, smooth, past, localSpectating, uncorrected, localDisplay, gone>>
  BY DEF ReconcileRemote
<1>3. HeadOK'
  <2>1. head'.sequence \in 0 .. issued'
    BY <1>1, <1>2 DEF HeadTyped
  <2> QED BY <1>2, <2>1 DEF LocalInv, HeadOK
<1>4. RecentOK' /\ issued <= issued' /\ Relisted
  <2>1. RecentOK
    BY DEF LocalInv
  <2>2. /\ recent' \in Seq(1 .. issued + 1) /\ Len(recent') <= RecentCapacity
        /\ Last(recent') = issued + 1
        /\ \A i \in 1 .. Len(recent') : \/ recent'[i] = issued + 1
                                        \/ \E j \in 1 .. Len(recent) : recent'[i] = recent[j]
    BY <1>2, <2>1, RecordedIs
  <2>3. RecentOK'
    BY <1>1, <1>2, <2>2 DEF HeadTyped, RecentOK
  <2> QED BY <1>1, <1>2, <2>2, <2>3 DEF HeadTyped, Relisted
<1>5. Followed(smooth) => Followed(smooth)'
  BY <1>2 DEF Followed
<1> QED BY <1>1, <1>2, <1>3, <1>4, <1>5, RuntimeKeeps DEF HeadTyped

\* The lists of a runtime that starts again.
LEMMA StartedLists ==
  ASSUME LocalInv, issued' \in {issued, issued + 1}, issued' <= MaxSequence,
         \/ recent' = << >>
         \/ recent' = <<issued + 1>> /\ issued' = issued + 1
  PROVE  RecentOK' /\ issued <= issued' /\ Relisted
<1>1. issued \in Nat /\ RecentCapacity \in Nat \ {0}
  BY LocalAssumption DEF LocalInv, RecentOK
<1>2. CASE recent' = << >>
  BY <1>1, <1>2, LocalAssumption DEF RecentOK, Relisted
<1>3. CASE recent' = <<issued + 1>> /\ issued' = issued + 1
  <2>1. recent' \in Seq(1 .. issued') /\ Len(recent') = 1 /\ recent'[1] = issued + 1
    BY <1>1, <1>3
  <2>2. Last(recent') = issued'
    BY <1>3, <2>1 DEF Last
  <2> QED BY <1>1, <1>3, <2>1, <2>2, LocalAssumption DEF RecentOK, Relisted
<1> QED BY <1>2, <1>3

LEMMA LocalHardResyncKeeps ==
  ASSUME LocalInv, NEW start \in Starts, NEW tick \in 1 .. MaxTick, LocalHardResync(start, tick)
  PROVE  LocalInv'
<1>1. HeadTyped
  BY LocalInvTypes
<1>2. /\ head.alive
      /\ head' = [head EXCEPT !.pos = start, !.tick = tick, !.accumulated = 0,
                              !.sequence = 0, !.resyncs = head.resyncs + 1]
      /\ recent' = << >> /\ uncorrected' = [pos |-> start, kept |-> FALSE]
      /\ UNCHANGED <<issued, smooth, past, localSpectating, localDisplay, gone>>
  BY DEF LocalHardResync
<1>3. start \in Int
  BY LocalAssumption
<1>4. /\ DOMAIN head' = DOMAIN head /\ head'.pos = start
      /\ head'.tick = tick /\ head'.accumulated = 0
      /\ head'.sequence = 0 /\ head'.resyncs = head.resyncs + 1
      /\ head'.alive = head.alive /\ head'.life = head.life
  BY <1>1, <1>2 DEF HeadTyped
<1>5. HeadOK'
  <2>1. head'.alive \in BOOLEAN
    BY <1>1, <1>4 DEF HeadTyped
  <2>2. /\ head'.pos \in Int /\ head'.tick \in 1 .. MaxTick /\ head'.accumulated \in Int
        /\ head'.sequence \in 0 .. issued' /\ head'.resyncs \in Nat /\ head'.life \in Nat \ {0}
        /\ head'.sequence = 0 => head'.accumulated = 0
    BY <1>1, <1>2, <1>3, <1>4 DEF HeadTyped
  <2> QED BY <1>1, <1>4, <2>1, <2>2 DEF HeadTyped, HeadOK
<1>6. RecentOK' /\ issued <= issued' /\ Relisted
  BY <1>1, <1>2, StartedLists DEF HeadTyped
<1>7. /\ uncorrected'.pos = start /\ uncorrected'.kept = FALSE
      /\ uncorrected' \in [pos : Int, kept : BOOLEAN]
  BY <1>2, <1>3
<1>8. smooth.live /\ head'.life = head.life /\ head'.alive =>
        head.alive /\ (Followed(smooth) => Followed(smooth)')
  <2>1. smooth.resyncs \in Nat
    BY DEF LocalInv, SmoothOK
  <2>2. Followed(smooth) => head.resyncs >= smooth.resyncs
    BY <1>1, <2>1 DEF Followed, HeadTyped
  <2> QED BY <1>1, <1>2, <1>3, <1>4, <1>7, <2>1, <2>2 DEF HeadTyped, Followed
<1> QED BY <1>1, <1>2, <1>4, <1>5, <1>6, <1>7, <1>8, RuntimeKeeps DEF HeadTyped

LEMMA CatchUpKeeps ==
  ASSUME LocalInv, NEW d \in Corrections, CatchUp(d) PROVE LocalInv'
<1>1. HeadTyped
  BY LocalInvTypes
<1>2. /\ head.alive /\ issued < MaxSequence
      /\ head' = [head EXCEPT !.pos = head.pos + d, !.accumulated = -d, !.sequence = 1,
                              !.resyncs = head.resyncs + 1]
      /\ recent' = <<issued + 1>> /\ issued' = issued + 1
      /\ uncorrected' = [uncorrected EXCEPT !.pos = head.pos, !.kept = FALSE]
      /\ UNCHANGED <<smooth, past, localSpectating, localDisplay, gone>>
  BY DEF CatchUp
<1>3. d \in Int
  BY LocalAssumption
<1>4. /\ DOMAIN head' = DOMAIN head /\ head'.pos = head.pos + d
      /\ head'.tick = head.tick /\ head'.accumulated = -d
      /\ head'.sequence = 1 /\ head'.resyncs = head.resyncs + 1
      /\ head'.alive = head.alive /\ head'.life = head.life
  BY <1>1, <1>2 DEF HeadTyped
<1>5. HeadOK'
  <2>1. head'.alive \in BOOLEAN
    BY <1>1, <1>4 DEF HeadTyped
  <2>2. /\ head'.pos \in Int /\ head'.tick \in 1 .. MaxTick /\ head'.accumulated \in Int
        /\ head'.sequence \in 0 .. issued' /\ head'.resyncs \in Nat /\ head'.life \in Nat \ {0}
        /\ head'.sequence = 0 => head'.accumulated = 0
    BY <1>1, <1>2, <1>3, <1>4 DEF HeadTyped
  <2> QED BY <1>1, <1>4, <2>1, <2>2 DEF HeadTyped, HeadOK
<1>6. RecentOK' /\ issued <= issued' /\ Relisted
  BY <1>1, <1>2, StartedLists DEF HeadTyped
<1>7. /\ uncorrected'.pos = head.pos /\ uncorrected'.kept = FALSE
      /\ uncorrected' \in [pos : Int, kept : BOOLEAN]
  BY <1>1, <1>2 DEF HeadTyped
<1>8. smooth.live /\ head'.life = head.life /\ head'.alive =>
        head.alive /\ (Followed(smooth) => Followed(smooth)')
  <2>1. smooth.resyncs \in Nat
    BY DEF LocalInv, SmoothOK
  <2>2. Followed(smooth) => head.resyncs >= smooth.resyncs
    BY <1>1, <2>1 DEF Followed, HeadTyped
  <2> QED BY <1>1, <1>2, <1>3, <1>4, <1>7, <2>1, <2>2 DEF HeadTyped, Followed
<1> QED BY <1>1, <1>2, <1>4, <1>5, <1>6, <1>7, <1>8, RuntimeKeeps DEF HeadTyped

LEMMA LocalDefeatKeeps ==
  ASSUME LocalInv, LocalDefeat PROVE LocalInv'
<1>1. HeadTyped
  BY LocalInvTypes
<1>2. /\ head' = [head EXCEPT !.alive = FALSE, !.accumulated = 0, !.sequence = 0]
      /\ recent' = << >>
      /\ UNCHANGED <<issued, smooth, past, localSpectating, uncorrected, localDisplay, gone>>
  BY DEF LocalDefeat
<1>3. /\ DOMAIN head' = DOMAIN head /\ head'.pos = head.pos
      /\ head'.tick = head.tick /\ head'.accumulated = 0
      /\ head'.sequence = 0 /\ head'.resyncs = head.resyncs
      /\ head'.alive = FALSE /\ head'.life = head.life
  BY <1>1, <1>2 DEF HeadTyped
<1>4. HeadOK'
  <2>1. head'.alive \in BOOLEAN
    BY <1>3, Zenon
  <2>2. /\ head'.pos \in Int /\ head'.tick \in 1 .. MaxTick /\ head'.accumulated \in Int
        /\ head'.sequence \in 0 .. issued' /\ head'.resyncs \in Nat /\ head'.life \in Nat \ {0}
        /\ head'.sequence = 0 => head'.accumulated = 0
    BY <1>1, <1>2, <1>3 DEF HeadTyped
  <2> QED BY <1>1, <1>3, <2>1, <2>2 DEF HeadTyped, HeadOK
<1>5. RecentOK' /\ issued <= issued' /\ Relisted
  BY <1>1, <1>2, StartedLists DEF HeadTyped
<1> QED BY <1>1, <1>2, <1>3, <1>4, <1>5, RuntimeKeeps DEF HeadTyped

LEMMA RespawnKeeps ==
  ASSUME LocalInv, NEW start \in Starts, Respawn(start) PROVE LocalInv'
<1>1. HeadTyped
  BY LocalInvTypes
<1>2. /\ head' = [head EXCEPT !.alive = TRUE, !.pos = start, !.life = head.life + 1]
      /\ uncorrected' = [pos |-> start, kept |-> FALSE]
      /\ UNCHANGED <<recent, issued, smooth, past, localSpectating, localDisplay, gone>>
  BY DEF Respawn
<1>3. start \in Int
  BY LocalAssumption
<1>4. /\ DOMAIN head' = DOMAIN head /\ head'.pos = start
      /\ head'.tick = head.tick /\ head'.accumulated = head.accumulated
      /\ head'.sequence = head.sequence /\ head'.resyncs = head.resyncs
      /\ head'.alive = TRUE /\ head'.life = head.life + 1
  BY <1>1, <1>2 DEF HeadTyped
<1>5. HeadOK'
  <2>1. head'.alive \in BOOLEAN
    BY <1>4, Zenon
  <2>2. /\ head'.pos \in Int /\ head'.tick \in 1 .. MaxTick /\ head'.accumulated \in Int
        /\ head'.sequence \in 0 .. issued' /\ head'.resyncs \in Nat /\ head'.life \in Nat \ {0}
        /\ head'.sequence = 0 => head'.accumulated = 0
    BY <1>1, <1>2, <1>3, <1>4 DEF HeadTyped
  <2> QED BY <1>1, <1>4, <2>1, <2>2 DEF HeadTyped, HeadOK
<1>6. RecentOK' /\ issued <= issued' /\ Relisted
  BY <1>1, <1>2, <1>4 DEF HeadTyped, LocalInv, RecentOK, Relisted
<1>7. /\ uncorrected' \in [pos : Int, kept : BOOLEAN]
      /\ head'.life # head.life /\ head'.life >= head.life
  BY <1>1, <1>2, <1>3, <1>4 DEF HeadTyped
<1> QED BY <1>2, <1>5, <1>6, <1>7, RuntimeKeeps

\* What a clear leaves of the history, when what was on the screen is gone.
LEMMA ClearedKeeps ==
  ASSUME GoneStays, issued \in Nat, past' = Cleared(past), gone' = gone \cup OnScreen(past),
         UNCHANGED <<head, recent, issued>>
  PROVE  GoneStays'
<1>1. /\ HistoryOK(past) /\ past.last <= issued /\ past.last \in Nat
      /\ gone \subseteq 1 .. issued
  BY DEF GoneStays, HistoryOK
<1>2. OnScreen(past) \subseteq 1 .. past.last
  BY <1>1, OnScreenIs DEF HistoryOK
<1>3. RetainedOK(<< >>) /\ Listed(<< >>) = {}
  <2>1. HistoryCapacity \in Nat
    BY LocalAssumption
  <2> QED BY <2>1 DEF RetainedOK, Listed
<1>4. /\ DOMAIN past' = DOMAIN past /\ past'.retained = << >> /\ past'.last = past.last
      /\ past'.live = past.live /\ past'.resyncs = past.resyncs
  BY <1>1 DEF Cleared, HistoryOK
<1>5. OnScreen(past)' = {}
  BY <1>4 DEF OnScreen
<1>6. HistoryOK(past)'
  <2>1. RetainedOK(past'.retained) /\ Listed(past'.retained) = {}
    BY <1>3, <1>4
  <2>2. HistoryOK(past')
    BY <1>1, <1>4, <2>1 DEF HistoryOK
  <2> QED BY <2>2 DEF HistoryOK, RetainedOK, Listed
<1>7. gone' \subseteq 1 .. issued'
  <2>1. OnScreen(past) \subseteq 1 .. issued
    BY <1>1, <1>2
  <2> QED BY <1>1, <2>1
<1> QED BY <1>1, <1>4, <1>5, <1>6, <1>7 DEF GoneStays

LEMMA LocalSpectatorFrameKeeps ==
  ASSUME LocalInv, LocalSpectatorFrame PROVE LocalInv'
<1>1. HeadTyped
  BY LocalInvTypes
<1>2. /\ smooth' = Blank /\ past' = Cleared(past) /\ localSpectating' = TRUE
      /\ gone' = gone \cup OnScreen(past) /\ localDisplay' = NoLocalDisplay
      /\ UNCHANGED <<head, recent, issued, uncorrected>>
  BY DEF LocalSpectatorFrame
<1>3. GoneStays'
  BY <1>1, <1>2, ClearedKeeps DEF LocalInv, HeadTyped
<1>4. HeadOK' /\ RecentOK'
  BY <1>2 DEF LocalInv, HeadOK, RecentOK
<1>5. SmoothOK(smooth)'
  BY <1>2, BlankIs DEF SmoothOK
<1>6. HeadFollowed' /\ CorrectionsAbsorbed'
  <2>1. localDisplay'.life = 0 /\ localDisplay'.comparable = FALSE
    BY <1>2 DEF NoLocalDisplay
  <2>2. localSpectating' \in BOOLEAN
    BY <1>2, Zenon
  <2> QED BY <1>1, <1>2, <2>1, <2>2 DEF HeadTyped, HeadFollowed, CorrectionsAbsorbed
<1> QED BY <1>3, <1>4, <1>5, <1>6 DEF LocalInv

LEMMA ClearVisualsKeeps ==
  ASSUME LocalInv, ClearVisuals PROVE LocalInv'
<1>1. HeadTyped
  BY LocalInvTypes
<1>2. /\ smooth' = [smooth EXCEPT !.visual = FALSE] /\ past' = Cleared(past)
      /\ gone' = gone \cup OnScreen(past)
      /\ UNCHANGED <<head, recent, issued, localSpectating, uncorrected, localDisplay>>
  BY DEF ClearVisuals
<1>3. GoneStays'
  BY <1>1, <1>2, ClearedKeeps DEF LocalInv, HeadTyped
<1>4. HeadOK' /\ RecentOK' /\ CorrectionsAbsorbed'
  BY <1>2 DEF LocalInv, HeadOK, RecentOK, CorrectionsAbsorbed
<1>5. SmoothOK(smooth)
  BY DEF LocalInv
<1>6. /\ DOMAIN smooth' = DOMAIN smooth /\ smooth'.live = smooth.live
      /\ smooth'.previous = smooth.previous /\ smooth'.position = smooth.position
      /\ smooth'.start = smooth.start /\ smooth'.age = smooth.age
      /\ smooth'.active = smooth.active /\ smooth'.accumulated = smooth.accumulated
      /\ smooth'.sequence = smooth.sequence /\ smooth'.resyncs = smooth.resyncs
      /\ smooth'.tick = smooth.tick /\ smooth'.visualAge = smooth.visualAge
  BY <1>2, <1>5 DEF SmoothOK
<1>7. SmoothOK(smooth)'
  BY <1>5, <1>6 DEF SmoothOK
<1>8. HeadFollowed'
  BY <1>2, <1>6 DEF LocalInv, HeadFollowed, Followed
<1> QED BY <1>3, <1>4, <1>7, <1>8 DEF LocalInv

LEMMA LocalStart ==
  ASSUME LocalInit PROVE LocalInv
<1>1. PICK start \in Starts :
        /\ head = [pos |-> start, tick |-> 1, accumulated |-> 0, sequence |-> 0,
                   resyncs |-> 0, alive |-> TRUE, life |-> 1]
        /\ uncorrected = [pos |-> start, kept |-> FALSE]
  BY DEF LocalInit
<1>2. /\ recent = << >> /\ issued = 0 /\ smooth = Blank /\ past = NoHistory
      /\ localSpectating = FALSE /\ localDisplay = NoLocalDisplay /\ gone = {}
  BY DEF LocalInit
<1>3. /\ start \in Int /\ MaxTick \in Nat \ {0} /\ MaxSequence \in Nat
      /\ RecentCapacity \in Nat /\ HistoryCapacity \in Nat
  BY LocalAssumption
<1>4. HeadOK
  BY <1>1, <1>2, <1>3 DEF HeadOK
<1>5. RecentOK
  BY <1>2, <1>3 DEF RecentOK
<1>6. SmoothOK(smooth) /\ ~smooth.live
  BY <1>2, BlankIs
<1>7. HeadFollowed /\ CorrectionsAbsorbed
  <2>1. localDisplay.life = 0 /\ localDisplay.comparable = FALSE
    BY <1>2 DEF NoLocalDisplay
  <2>2. localSpectating \in BOOLEAN
    BY <1>2, Zenon
  <2> QED BY <1>1, <1>3, <1>6, <2>1, <2>2 DEF HeadFollowed, CorrectionsAbsorbed
<1>8. GoneStays
  <2>1. RetainedOK(<< >>) /\ Listed(<< >>) = {}
    BY <1>3 DEF RetainedOK, Listed
  <2>2. HistoryOK(past) /\ OnScreen(past) = {} /\ past.last = 0
    BY <1>2, <2>1 DEF HistoryOK, NoHistory, OnScreen
  <2> QED BY <1>2, <2>2 DEF GoneStays
<1> QED BY <1>4, <1>5, <1>6, <1>7, <1>8 DEF LocalInv

LEMMA LocalStepKeeps ==
  ASSUME LocalInv, LocalNext \/ UNCHANGED localVars
  PROVE  LocalInv'
<1>1. CASE UNCHANGED localVars
  <2>1. UNCHANGED <<head, recent, issued, smooth, past, localSpectating, uncorrected,
                    localDisplay, gone>>
    BY <1>1 DEF localVars
  <2>2. HeadOK' /\ RecentOK' /\ CorrectionsAbsorbed'
    BY <2>1 DEF LocalInv, HeadOK, RecentOK, CorrectionsAbsorbed
  <2>3. SmoothOK(smooth)'
    BY <2>1 DEF LocalInv, SmoothOK
  <2>4. HeadFollowed'
    BY <2>1 DEF LocalInv, HeadFollowed, Followed
  <2>5. GoneStays'
    <3>1. OnScreen(past)' = OnScreen(past) /\ (HistoryOK(past) => HistoryOK(past)')
      BY <2>1 DEF OnScreen, HistoryOK, RetainedOK, Listed
    <3> QED BY <2>1, <3>1 DEF LocalInv, GoneStays
  <2> QED BY <2>2, <2>3, <2>4, <2>5 DEF LocalInv
<1>2. CASE Step
  BY <1>2, StepKeeps
<1>3. CASE \E d \in Corrections, ticks \in 0 .. 1 : Reconcile(d, ticks)
  BY <1>3, ReconcileKeeps
<1>4. CASE ReconcileRemote
  BY <1>4, ReconcileRemoteKeeps
<1>5. CASE \E start \in Starts, tick \in 1 .. MaxTick : LocalHardResync(start, tick)
  BY <1>5, LocalHardResyncKeeps
<1>6. CASE \E d \in Corrections : CatchUp(d)
  BY <1>6, CatchUpKeeps
<1>7. CASE LocalDefeat
  BY <1>7, LocalDefeatKeeps
<1>8. CASE \E start \in Starts : Respawn(start)
  BY <1>8, RespawnKeeps
<1>9. CASE \E elapsed \in 0 .. MaxElapsed : LocalPlayingFrame(elapsed)
  <2>1. \A elapsed \in 0 .. MaxElapsed : elapsed \in Nat
    BY LocalAssumption
  <2> QED BY <1>9, <2>1, LocalFrameKeeps
<1>10. CASE LocalSpectatorFrame
  BY <1>10, LocalSpectatorFrameKeeps
<1>11. CASE ClearVisuals
  BY <1>11, ClearVisualsKeeps
<1>12. CASE LocalNext
  <2>1. \/ Step \/ ReconcileRemote \/ LocalDefeat \/ LocalSpectatorFrame \/ ClearVisuals
        \/ \E d \in Corrections, ticks \in 0 .. 1 : Reconcile(d, ticks)
        \/ \E start \in Starts, tick \in 1 .. MaxTick : LocalHardResync(start, tick)
        \/ \E d \in Corrections : CatchUp(d)
        \/ \E start \in Starts : Respawn(start)
        \/ \E elapsed \in 0 .. MaxElapsed : LocalPlayingFrame(elapsed)
    BY <1>12, Zenon DEF LocalNext
  <2> QED BY <1>2, <1>3, <1>4, <1>5, <1>6, <1>7, <1>8, <1>9, <1>10, <1>11, <2>1
<1> QED BY <1>1, <1>12

LEMMA LocalInvSound ==
  ASSUME LocalInv PROVE LocalSound
<1>1. HeadTyped /\ GoneStays
  BY LocalInvTypes DEF LocalInv
<1>2. recent \in BoundedSeq(1 .. issued, RecentCapacity)
  <2>1. /\ recent \in Seq(1 .. issued) /\ Len(recent) <= RecentCapacity
        /\ RecentCapacity \in Nat
    BY LocalAssumption DEF LocalInv, RecentOK
  <2> DEFINE S == 1 .. issued
  <2>2. recent \in Seq(S)
    BY <2>1
  <2> HIDE DEF S
  <2>3. Len(recent) \in Nat /\ recent \in [1 .. Len(recent) -> S]
    BY <2>2, LenProperties
  <2>4. Len(recent) \in 0 .. RecentCapacity
    BY <2>1, <2>3
  <2> QED BY <2>3, <2>4 DEF BoundedSeq, SeqOf, S
<1>3. OnScreen(past) \subseteq 1 .. issued
  <2>1. OnScreen(past) \subseteq 1 .. past.last /\ past.last <= issued /\ past.last \in Nat
    BY <1>1, OnScreenIs DEF GoneStays, HistoryOK
  <2> QED BY <1>1, <2>1 DEF HeadTyped
<1>4. LocalTypeOK
  <2>1. Len(past.retained) <= HistoryCapacity
    BY <1>1 DEF GoneStays, HistoryOK, RetainedOK
  <2>2. head.sequence \in 0 .. MaxSequence /\ head.tick \in 1 .. MaxTick
    BY <1>1 DEF HeadTyped
  <2>3. smooth.age \in 0 .. Retention /\ smooth.visualAge \in 0 .. Retention
    BY DEF LocalInv, SmoothOK
  <2> QED BY <1>2, <1>3, <2>1, <2>2, <2>3 DEF LocalTypeOK
<1> QED BY <1>1, <1>4 DEF LocalSound, LocalInv, GoneStays, NoCorrectionReturns

-----------------------------------------------------------------------------
(* The local player: theorems.                                             *)

\* A step of the whole is a step of the local player, or leaves it alone.
LEMMA LocalSteps ==
  ASSUME [Next]_presentationVars PROVE LocalNext \/ UNCHANGED localVars
<1>1. CASE Next
  BY <1>1 DEF Next
<1>2. CASE UNCHANGED presentationVars
  BY <1>2 DEF presentationVars
<1> QED BY <1>1, <1>2

\* The head without the corrections is where the frame's state and the corrections
\* since then put it, and the history has passed what left the screen.
THEOREM LocalInvHolds == Spec => []LocalInv
<1>1. Init => LocalInv
  BY LocalStart DEF Init
<1>2. LocalInv /\ [Next]_presentationVars => LocalInv'
  BY LocalSteps, LocalStepKeeps
<1> QED BY <1>1, <1>2, PTL DEF Spec

\* Whatever happens between two frames, a correction is absorbed without a jump,
\* the list of corrections keeps its bounds, and none of them comes back
\* (LocalPredictionPresentation::update, PredictionCorrectionHistory::update).
THEOREM LocalAlwaysSound == Spec => []LocalSound
<1>1. LocalInv => LocalSound
  BY LocalInvSound
<1> QED BY <1>1, LocalInvHolds, PTL

=============================================================================
