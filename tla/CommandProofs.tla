---------------------------- MODULE CommandProofs ----------------------------
(* Proofs about commands.  Their flow from the client to the server's ticks: *)
(* for every window, capacity and threshold, and every order, loss and       *)
(* repetition of packets and snapshots.  The timeline that replays them: for *)
(* every model, capacity and stream of calls.  The router of what a replay   *)
(* takes back: for every set of keys and of handlers and every stream of     *)
(* batches, of any length and with any of the callbacks failing.             *)
EXTENDS InputFlow, Timeline, ConsequenceRouter, SharedLemmas

-----------------------------------------------------------------------------
(* The flow: the inductive invariant.                                      *)

\* The first command still in the outbox: everything before it was transmitted.
FirstUnsent == next - Len(outbox)

\* The outbox and the transmitted samples kept for redundancy are consecutive
\* and meet; the outbox stays under the pause threshold.
ClientQueues ==
  /\ next \in 0 .. InvalidInput /\ paused \in BOOLEAN /\ failed = FALSE
  /\ Len(outbox) \in 0 .. PauseThreshold /\ FirstUnsent >= 0
  /\ outbox = Interval(FirstUnsent - 1, Len(outbox))
  /\ Len(recent) \in 0 .. PacketSamples - 1 /\ Len(recent) <= FirstUnsent
  /\ recent = Interval(FirstUnsent - 1 - Len(recent), Len(recent))
  /\ paused => Len(outbox) > ResumeThreshold
  /\ ~paused => Len(outbox) < PauseThreshold

\* What the client last heard of the server is not ahead of it, and the server
\* has only applied and queued what was transmitted, within the window.
FrontiersBehind ==
  /\ ack \in -1 .. InvalidInput - 1 /\ processed \in -1 .. InvalidInput - 1
  /\ ack <= processed /\ processed < FirstUnsent
  /\ grant = ReceiveThrough(ack)
  /\ pending \subseteq processed + 1 .. ReceiveThrough(processed)
  /\ \A x \in pending : x < FirstUnsent
  /\ rejected = FALSE /\ oddTick \in BOOLEAN

\* A packet is a run of transmitted samples, none beyond the grant.
PacketsGranted ==
  \A p \in packets : \E a, b \in Inputs :
    /\ p = a .. b /\ a <= b /\ b - a <= PacketSamples - 1
    /\ b < FirstUnsent /\ b <= grant

\* Snapshots acknowledge what was applied, later ones no less, and those the
\* client may still apply no less than the one it applied.
SnapshotsOrdered ==
  /\ issued \in Nat /\ snapshotId \in 0 .. issued - 1
  /\ \A s \in snapshots :
       /\ s.id \in 0 .. issued - 1 /\ s.ack \in -1 .. processed
       /\ s.grant = ReceiveThrough(s.ack)
       /\ s.id > snapshotId => s.ack >= ack
  /\ \A s, t \in snapshots : s.id < t.id => s.ack <= t.ack

FlowInv == ClientQueues /\ FrontiersBehind /\ PacketsGranted /\ SnapshotsOrdered

-----------------------------------------------------------------------------
(* Lemmas about the operators.                                             *)

\* The window moves forward with the input it starts at, and stays short of the
\* invalid value.
LEMMA WindowMonotone ==
  ASSUME NEW a \in -1 .. InvalidInput - 1, NEW b \in -1 .. InvalidInput - 1, a <= b
  PROVE  /\ ReceiveThrough(a) \in Inputs /\ ReceiveThrough(a) <= ReceiveThrough(b)
         /\ ReceiveThrough(a) \in a .. a + Window
BY FlowAssumption DEF ReceiveThrough, Inputs

\* The hysteresis on the unsent commands keeps them under the pause threshold
\* while production goes on, and over the resume threshold while it is paused.
LEMMA PauseAfterIs ==
  ASSUME NEW wasPaused \in BOOLEAN, NEW unsent \in Int
  PROVE  /\ PauseAfter(wasPaused, unsent) \in BOOLEAN
         /\ PauseAfter(wasPaused, unsent) => unsent > ResumeThreshold
         /\ ~PauseAfter(wasPaused, unsent) => unsent < PauseThreshold
<1>1. CASE wasPaused = TRUE
  BY <1>1, FlowAssumption DEF PauseAfter
<1>2. CASE wasPaused = FALSE
  BY <1>2, FlowAssumption DEF PauseAfter
<1> QED
  BY <1>1, <1>2

\* Of a run of transmitted samples the newest ones are kept, as a run.
LEMMA NewestIsRun ==
  ASSUME NEW last \in Int, NEW n \in Nat
  PROVE  \E m \in 0 .. PacketSamples - 1 :
           m <= n /\ Newest(Interval(last - n, n)) = Interval(last - m, m)
<1> USE FlowAssumption
<1> DEFINE q == Interval(last - n, n)
           k == IF n <= PacketSamples - 1 THEN 0 ELSE n - PacketSamples + 1
<1>1. Len(q) = n
  BY IntervalProperties
<1>2. Max({1, n - PacketSamples + 2}) = k + 1
  <2>1. {1, n - PacketSamples + 2} \in SUBSET Int
    OBVIOUS
  <2>2. k + 1 \in {1, n - PacketSamples + 2}
        /\ \A x \in {1, n - PacketSamples + 2} : x <= k + 1
    OBVIOUS
  <2> HIDE DEF k
  <2> QED BY <2>1, <2>2, MaxIs
<1>3. k \in 0 .. n /\ n - k \in 0 .. PacketSamples - 1
  OBVIOUS
<1> HIDE DEF k
<1>4. SubSeq(q, k + 1, n) = Interval(last - n + k, n - k)
  <2>1. n \in k .. n /\ last - n \in Int
    BY <1>3
  <2> QED BY <1>3, <2>1, IntervalCut
<1>5. Newest(q) = Interval(last - n + k, n - k)
  BY <1>1, <1>2, <1>4 DEF Newest
<1>6. last - n + k = last - (n - k)
  BY <1>3
<1> QED
  BY <1>3, <1>5, <1>6

\* A packet is a run of samples that ends with the one it was made for.
LEMMA PacketIsRun ==
  ASSUME NEW x \in Inputs, NEW m \in 0 .. PacketSamples - 1, m <= x, NEW through \in Int
  PROVE  \E a \in Inputs :
           /\ a <= x /\ x - a <= PacketSamples - 1
           /\ Packet(x, Interval(x - 1 - m, m), through) = a .. x
<1> USE FlowAssumption DEF Inputs
<1> DEFINE before == Interval(x - 1 - m, m)
           a == IF ~Redundancy \/ through >= x THEN x
                ELSE IF through >= x - m THEN through + 1 ELSE x - m
<1>1. DOMAIN before = 1 .. m /\ \A j \in 1 .. m : before[j] = x - 1 - m + j
  BY IntervalProperties
<1>2. a \in Inputs /\ a <= x /\ x - a <= PacketSamples - 1
  OBVIOUS
<1> HIDE DEF before
<1>3. ASSUME NEW y
      PROVE  y \in Packet(x, before, through) <=> y \in a .. x
  <2>1. y \in Packet(x, before, through) <=>
          \/ y = x
          \/ Redundancy /\ \E j \in 1 .. m :
               /\ y = before[j] /\ before[j] < x /\ before[j] > through
               /\ x - before[j] <= PacketSamples - 1
    BY <1>1 DEF Packet
  <2>2. y \in Packet(x, before, through) <=>
          \/ y = x
          \/ /\ Redundancy /\ y \in Int
             /\ y >= x - m /\ y < x /\ y > through
    <3>1. ASSUME NEW j \in 1 .. m
          PROVE  /\ before[j] = x - 1 - m + j /\ before[j] \in Int
                 /\ before[j] >= x - m /\ before[j] < x
                 /\ x - before[j] <= PacketSamples - 1
      BY <1>1
    <3>2. ASSUME y \in Int, y >= x - m, y < x
          PROVE  \E j \in 1 .. m : before[j] = y
      <4>1. y - (x - 1 - m) \in 1 .. m
        BY <3>2
      <4>2. before[y - (x - 1 - m)] = x - 1 - m + (y - (x - 1 - m))
        BY <4>1, <1>1
      <4>3. x - 1 - m + (y - (x - 1 - m)) = y
        BY <3>2
      <4> QED BY <4>1, <4>2, <4>3
    <3> QED BY <2>1, <3>1, <3>2
  <2> QED BY <2>2
<1>4. Packet(x, before, through) = a .. x
  BY <1>3
<1> QED
  BY <1>2, <1>4 DEF before

\* A flush sends no more than the granted head of the outbox.
LEMMA SendableIsGranted ==
  ASSUME NEW f \in Nat, NEW n \in Nat, NEW through \in Int, NEW count \in Nat,
         count <= Sendable(Interval(f - 1, n), through)
  PROVE  count <= n /\ (count > 0 => f - 1 + count <= through)
<1> USE FlowAssumption
<1> DEFINE q == Interval(f - 1, n)
           granted == {i \in DOMAIN q : q[i] <= through}
<1>1. DOMAIN q = 1 .. n /\ \A i \in 1 .. n : q[i] = f - 1 + i
  BY IntervalProperties
<1> HIDE DEF q
<1>2. \A i \in granted : i \in 1 .. n /\ f - 1 + i <= through
  BY <1>1
<1>3. IsFiniteSet(granted) /\ Cardinality(granted) \in Nat /\ Cardinality(granted) <= n
  <2>1. IsFiniteSet(1 .. n) /\ Cardinality(1 .. n) = n
    BY FS_Interval
  <2>2. granted \in SUBSET (1 .. n)
    BY <1>2
  <2> QED BY <2>1, <2>2, FS_Subset, FS_CardinalityType
<1>4. count <= Cardinality(granted)
  <2>1. Min({PacketsPerFlush, Cardinality(granted)}) <= Cardinality(granted)
        /\ Min({PacketsPerFlush, Cardinality(granted)}) \in {PacketsPerFlush, Cardinality(granted)}
    <3>1. PacketsPerFlush \in Int /\ Cardinality(granted) \in Int
      BY <1>3
    <3> HIDE DEF granted
    <3> QED BY <3>1, MinOfTwo
  <2>2. count <= Min({PacketsPerFlush, Cardinality(granted)})
    BY DEF Sendable, q
  <2> QED BY <1>3, <2>1, <2>2
<1>5. ASSUME count > 0, f - 1 + count > through
      PROVE  FALSE
  <2>1. granted \in SUBSET (1 .. count - 1)
    BY <1>2, <1>5
  <2>2. IsFiniteSet(1 .. count - 1) /\ Cardinality(1 .. count - 1) = count - 1
    <3>1. count - 1 \in Int /\ (1 > count - 1 => count - 1 = 0)
      BY <1>5
    <3> QED BY <3>1, FS_Interval
  <2>3. Cardinality(granted) <= count - 1
    BY <2>1, <2>2, FS_Subset
  <2> QED BY <1>3, <1>4, <2>3
<1> QED
  BY <1>3, <1>4, <1>5

\* What a flush does to a client whose queue starts at f and whose transmitted
\* samples end just before it: the queue and the transmitted samples stay runs
\* that meet, and the packets are runs of what is transmitted now.
LEMMA FlushKeepsRuns ==
  ASSUME NEW f \in Nat, NEW n \in Nat, f + n <= InvalidInput,
         NEW m \in 0 .. PacketSamples - 1, m <= f,
         recent = Interval(f - 1 - m, m),
         NEW wasPaused, NEW input \in Int, NEW through \in Int,
         NEW count \in 0 .. PacketsPerFlush,
         Flush(Interval(f - 1, n), wasPaused, input, through, count)
  PROVE  /\ count <= n
         /\ outbox' = Interval(f + count - 1, n - count)
         /\ \E k \in 0 .. PacketSamples - 1 :
              k <= f + count /\ recent' = Interval(f + count - 1 - k, k)
         /\ paused' = PauseAfter(wasPaused, n - count)
         /\ \A p \in packets' \ packets : \E a, b \in Inputs :
              /\ p = a .. b /\ a <= b /\ b - a <= PacketSamples - 1
              /\ b < f + count /\ b <= through
<1> USE FlowAssumption
<1> DEFINE queue == Interval(f - 1, n)
           sent(i) == Newest(recent \o SubSeq(queue, 1, i))
<1>1. /\ count <= Sendable(queue, through)
      /\ packets' = packets \cup {Packet(queue[i], sent(i - 1), input) : i \in 1 .. count}
      /\ outbox' = Popped(queue, count) /\ recent' = sent(count)
      /\ paused' = PauseAfter(wasPaused, Len(queue) - count)
  BY DEF Flush
<1>2. count \in Nat /\ f - 1 \in Int
  OBVIOUS
<1>3. count <= n /\ (count > 0 => f - 1 + count <= through)
  BY <1>1, <1>2, SendableIsGranted
<1>4. Len(queue) = n /\ \A i \in 1 .. n : queue[i] = f - 1 + i
  BY <1>2, IntervalProperties
<1>5. outbox' = Interval(f + count - 1, n - count)
  <2>1. count \in 0 .. n /\ n \in count .. n
    BY <1>2, <1>3
  <2>2. SubSeq(queue, count + 1, n) = Interval(f - 1 + count, n - count)
    BY <1>2, <2>1, IntervalCut
  <2>3. f - 1 + count = f + count - 1
    OBVIOUS
  <2> QED BY <1>1, <1>4, <2>2, <2>3 DEF Popped
<1>6. ASSUME NEW i \in 0 .. count
      PROVE  \E k \in 0 .. PacketSamples - 1 :
               k <= f + i /\ sent(i) = Interval(f + i - 1 - k, k)
  <2>1. i \in 0 .. n /\ i \in Nat /\ m \in Nat /\ m + i \in Nat /\ f - 1 - m \in Int
    BY <1>3
  <2>2. SubSeq(queue, 0 + 1, i) = Interval(f - 1 + 0, i - 0)
    <3>1. 0 \in 0 .. n /\ i \in 0 .. n
      BY <2>1
    <3> QED BY <1>2, <3>1, IntervalCut
  <2>3. SubSeq(queue, 1, i) = Interval(f - 1 - m + m, i)
    <3>1. f - 1 + 0 = f - 1 - m + m /\ i - 0 = i /\ 0 + 1 = 1
      BY <2>1
    <3> QED BY <2>2, <3>1
  <2>4. recent \o SubSeq(queue, 1, i) = Interval(f - 1 - m, m + i)
    <3>1. Interval(f - 1 - m, m) \o Interval(f - 1 - m + m, i) = Interval(f - 1 - m, m + i)
      BY <2>1, IntervalConcat
    <3> QED BY <2>3, <3>1
  <2>5. f - 1 - m = f + i - 1 - (m + i) /\ f + i - 1 \in Int
    BY <2>1
  <2>6. PICK k \in 0 .. PacketSamples - 1 :
          /\ k <= m + i
          /\ Newest(Interval(f + i - 1 - (m + i), m + i)) = Interval(f + i - 1 - k, k)
    <3> DEFINE last == f + i - 1  len == m + i
    <3>1. last \in Int /\ len \in Nat
      BY <2>1, <2>5
    <3> HIDE DEF last, len
    <3>2. \E k \in 0 .. PacketSamples - 1 :
            k <= len /\ Newest(Interval(last - len, len)) = Interval(last - k, k)
      BY <3>1, NewestIsRun
    <3> QED BY <3>2 DEF last, len
  <2>7. k <= f + i
    BY <2>1, <2>6
  <2>8. sent(i) = Interval(f + i - 1 - k, k)
    BY <2>4, <2>5, <2>6
  <2> QED BY <2>7, <2>8
<1>7. ASSUME NEW i \in 1 .. count
      PROVE  \E a, b \in Inputs :
               /\ Packet(queue[i], sent(i - 1), input) = a .. b
               /\ a <= b /\ b - a <= PacketSamples - 1
               /\ b < f + count /\ b <= through
  <2>1. i - 1 \in 0 .. count /\ f + (i - 1) = f - 1 + i
    OBVIOUS
  <2> DEFINE x == f - 1 + i
  <2>2. PICK k \in 0 .. PacketSamples - 1 :
          k <= f + (i - 1) /\ sent(i - 1) = Interval(f + (i - 1) - 1 - k, k)
    BY <2>1, <1>6
  <2>3. queue[i] = x /\ x \in Inputs /\ x < f + count /\ x <= through
    BY <1>3, <1>4 DEF Inputs
  <2>4. k <= x /\ sent(i - 1) = Interval(x - 1 - k, k)
    BY <2>1, <2>2
  <2> HIDE DEF x
  <2>5. PICK a \in Inputs : /\ a <= x /\ x - a <= PacketSamples - 1
                            /\ Packet(x, Interval(x - 1 - k, k), input) = a .. x
    BY <2>3, <2>4, PacketIsRun
  <2> QED BY <2>3, <2>4, <2>5
<1> HIDE DEF queue
<1>8. \A p \in packets' \ packets : \E a, b \in Inputs :
        /\ p = a .. b /\ a <= b /\ b - a <= PacketSamples - 1
        /\ b < f + count /\ b <= through
  BY <1>1, <1>7
<1>9. \E k \in 0 .. PacketSamples - 1 :
        k <= f + count /\ recent' = Interval(f + count - 1 - k, k)
  BY <1>1, <1>2, <1>6
<1> QED
  BY <1>1, <1>3, <1>4, <1>5, <1>8, <1>9

-----------------------------------------------------------------------------
(* Every step preserves the invariant.                                     *)

\* The state the handshake leaves satisfies the invariant.
LEMMA FlowInitInv == FlowInit => FlowInv
<1> SUFFICES ASSUME FlowInit PROVE FlowInv
  OBVIOUS
<1> USE FlowAssumption
<1>1. /\ outbox = << >> /\ recent = << >> /\ next = 0
      /\ paused = FALSE /\ failed = FALSE /\ rejected = FALSE /\ oddTick = FALSE
      /\ ack = -1 /\ processed = -1 /\ pending = {} /\ packets = {}
      /\ grant = ReceiveThrough(-1)
      /\ snapshotId = 0 /\ issued = 1 /\ snapshots = {Snapshot(0, -1)}
  BY DEF FlowInit, NoInput
<1>2. /\ FirstUnsent = 0 /\ Len(outbox) = 0 /\ Len(recent) = 0
      /\ \A a \in Int : Interval(a, 0) = << >>
  <2>1. Len(<< >>) = 0
    OBVIOUS
  <2>2. \A a \in Int : Interval(a, 0) = << >>
    BY IntervalProperties
  <2>3. 0 \in Int /\ \A x \in Int : x - 0 = x
    OBVIOUS
  <2>4. Len(outbox) = 0 /\ Len(recent) = 0
    BY <1>1, <2>1, Zenon
  <2> QED BY <1>1, <2>2, <2>3, <2>4, Zenon DEF FirstUnsent
<1>3. ClientQueues
  <2>1. FirstUnsent - 1 \in Int /\ FirstUnsent - 1 - Len(recent) \in Int
    BY <1>2
  <2>2. /\ outbox = Interval(FirstUnsent - 1, Len(outbox))
        /\ recent = Interval(FirstUnsent - 1 - Len(recent), Len(recent))
    BY <1>1, <1>2, <2>1, Zenon
  <2>3. /\ 0 \in 0 .. InvalidInput /\ 0 \in 0 .. PauseThreshold
        /\ 0 \in 0 .. PacketSamples - 1 /\ 0 >= 0 /\ 0 <= 0 /\ 0 < PauseThreshold
        /\ FALSE \in BOOLEAN
    OBVIOUS
  <2> QED BY <1>1, <1>2, <2>2, <2>3, Zenon DEF ClientQueues
<1>4. FrontiersBehind
  <2>1. /\ -1 \in -1 .. InvalidInput - 1 /\ -1 <= -1 /\ -1 < 0
    OBVIOUS
  <2> QED BY <1>1, <1>2, <2>1, Zenon DEF FrontiersBehind
<1>5. PacketsGranted
  BY <1>1 DEF PacketsGranted
<1>6. SnapshotsOrdered
  BY <1>1 DEF SnapshotsOrdered, Snapshot
<1> QED
  BY <1>3, <1>4, <1>5, <1>6 DEF FlowInv

\* A flush of a queue that starts at the first unsent command keeps the client's
\* part of the invariant.
LEMMA FlushInv ==
  ASSUME FlowInv, NEW n \in Nat, n <= PauseThreshold, NEW wasPaused \in BOOLEAN,
         NEW input \in Int, NEW count \in 0 .. PacketsPerFlush,
         next' = FirstUnsent + n, next' <= InvalidInput, failed' = FALSE,
         NEW through \in Int, grant' = through, grant <= through,
         Flush(Interval(FirstUnsent - 1, n), wasPaused, input, through, count)
  PROVE  ClientQueues' /\ PacketsGranted' /\ FirstUnsent' = FirstUnsent + count
<1>0. /\ FirstUnsent \in Nat /\ Len(recent) \in 0 .. PacketSamples - 1
      /\ Len(recent) <= FirstUnsent
      /\ recent = Interval(FirstUnsent - 1 - Len(recent), Len(recent))
      /\ FirstUnsent + n <= InvalidInput
  BY FlowAssumption DEF FlowInv, ClientQueues, FirstUnsent
<1>a. PICK f \in Nat, m \in 0 .. PacketSamples - 1 : f = FirstUnsent /\ m = Len(recent)
  BY <1>0
<1>1. m <= f /\ recent = Interval(f - 1 - m, m) /\ f + n <= InvalidInput
  BY <1>0, <1>a
<1>2. /\ count <= n
      /\ outbox' = Interval(f + count - 1, n - count)
      /\ \E k \in 0 .. PacketSamples - 1 :
           k <= f + count /\ recent' = Interval(f + count - 1 - k, k)
      /\ paused' = PauseAfter(wasPaused, n - count)
      /\ \A p \in packets' \ packets : \E a, b \in Inputs :
           /\ p = a .. b /\ a <= b /\ b - a <= PacketSamples - 1
           /\ b < f + count /\ b <= through
  <2>1. Flush(Interval(f - 1, n), wasPaused, input, through, count)
    BY <1>a
  <2> QED BY <1>1, <2>1, FlushKeepsRuns
<1>3. PICK k \in 0 .. PacketSamples - 1 :
        k <= f + count /\ recent' = Interval(f + count - 1 - k, k)
  BY <1>2
<1>4. Len(outbox') = n - count /\ Len(recent') = k
  <2>1. /\ f + count - 1 \in Int /\ n - count \in Nat
        /\ f + count - 1 - k \in Int /\ k \in Nat
    BY <1>1, <1>2, FlowAssumption
  <2> QED BY <1>2, <1>3, <2>1, IntervalProperties
<1>5. FirstUnsent' = f + count /\ next' = f + n /\ next' \in 0 .. InvalidInput
  <2>1. next' = f + n
    BY <1>a
  <2>2. FirstUnsent' = next' - Len(outbox')
    BY DEF FirstUnsent
  <2>3. f + n - (n - count) = f + count /\ f + n \in 0 .. InvalidInput
    BY <1>1, FlowAssumption
  <2>4. next' - Len(outbox') = f + n - (n - count)
    BY <1>4, <2>1
  <2>5. FirstUnsent' = f + count
    BY <2>2, <2>3, <2>4, Zenon
  <2> QED BY <2>1, <2>3, <2>5
<1>6. /\ paused' \in BOOLEAN
      /\ paused' => n - count > ResumeThreshold
      /\ ~paused' => n - count < PauseThreshold
  <2>1. n - count \in Int
    OBVIOUS
  <2> QED BY <1>2, <2>1, PauseAfterIs, Zenon
<1>7. ClientQueues'
  <2>1. /\ n - count \in 0 .. PauseThreshold /\ f + count >= 0
        /\ f + count - 1 = FirstUnsent' - 1
        /\ f + count - 1 - k = FirstUnsent' - 1 - Len(recent')
    <3>1. n - count \in 0 .. PauseThreshold /\ f + count >= 0
      <4>1. PauseThreshold \in Nat /\ count \in Nat
        BY FlowAssumption
      <4>2. n \in Nat /\ f \in Nat /\ n <= PauseThreshold /\ count <= n
        BY <1>2
      <4> QED BY ONLY <4>1, <4>2
    <3> QED BY <1>4, <1>5, <3>1
  <2> QED BY <1>2, <1>3, <1>4, <1>5, <1>6, <2>1 DEF ClientQueues
<1>8. PacketsGranted'
  <2> SUFFICES ASSUME NEW p \in packets'
               PROVE  \E a, b \in Inputs :
                        /\ p = a .. b /\ a <= b /\ b - a <= PacketSamples - 1
                        /\ b < FirstUnsent' /\ b <= grant'
    BY DEF PacketsGranted
  <2>1. CASE p \in packets
    <3>1. PICK a, b \in Inputs :
            /\ p = a .. b /\ a <= b /\ b - a <= PacketSamples - 1
            /\ b < f /\ b <= grant
      BY <1>a, <2>1 DEF FlowInv, PacketsGranted
    <3>2. grant \in Int
      BY WindowMonotone DEF FlowInv, FrontiersBehind, Inputs
    <3>3. b < FirstUnsent' /\ b <= grant'
      BY <1>1, <1>5, <3>1, <3>2 DEF Inputs
    <3> QED BY <3>1, <3>3
  <2>2. CASE p \notin packets
    BY <1>2, <1>5, <2>2
  <2> QED BY <2>1, <2>2
<1> QED
  BY <1>5, <1>7, <1>8, <1>a

\* A command that is queued, and the flush after it, keep the invariant.
LEMMA SubmitInputInv ==
  ASSUME FlowInv, NEW count \in 0 .. PacketsPerFlush, SubmitInput(count)
  PROVE  FlowInv'
<1> DEFINE n == Len(outbox)
<1>0. ClientQueues /\ FrontiersBehind /\ PacketsGranted /\ SnapshotsOrdered
  BY DEF FlowInv
<1>1. /\ n \in Nat /\ n < PauseThreshold /\ next = FirstUnsent + n
      /\ FirstUnsent - 1 \in Int /\ FirstUnsent \in Nat
      /\ outbox = Interval(FirstUnsent - 1, n)
      /\ next \in Int /\ next < InvalidInput /\ failed = FALSE
  BY <1>0, FlowAssumption DEF ClientQueues, SubmitInput, FirstUnsent
<1>2. Queued(outbox, next) = Interval(FirstUnsent - 1, n + 1)
  <2>1. next = FirstUnsent - 1 + n + 1
    BY <1>1
  <2>2. Append(Interval(FirstUnsent - 1, n), FirstUnsent - 1 + n + 1)
          = Interval(FirstUnsent - 1, n + 1)
    BY <1>1, IntervalAppend
  <2> QED BY <1>1, <2>1, <2>2 DEF Queued
<1> DEFINE queue == Queued(outbox, next)
<1>3. /\ next' = next + 1
      /\ Flush(queue, PauseAfter(paused, Len(queue)), ack, grant, count)
      /\ UNCHANGED <<snapshotId, ack, grant, failed, serverVars, snapshots, lost>>
  BY DEF SubmitInput
<1>4. PauseAfter(paused, Len(queue)) \in BOOLEAN
  <2>1. Len(queue) \in Int /\ paused \in BOOLEAN
    <3>1. n + 1 \in Nat
      BY <1>1
    <3> QED BY <1>0, <1>1, <1>2, <3>1, IntervalProperties DEF ClientQueues
  <2> QED BY <2>1, PauseAfterIs
<1>5. ack \in Int /\ grant \in Int
  BY <1>0, WindowMonotone DEF FrontiersBehind, Inputs
<1>6. ClientQueues' /\ PacketsGranted' /\ FirstUnsent' = FirstUnsent + count
  <2>1. /\ n + 1 \in Nat /\ n + 1 <= PauseThreshold /\ next' = FirstUnsent + (n + 1)
        /\ next' <= InvalidInput /\ failed' = FALSE /\ grant' = grant /\ grant <= grant
    BY <1>1, <1>3, <1>5, FlowAssumption
  <2> HIDE DEF n
  <2>2. Flush(Interval(FirstUnsent - 1, n + 1), PauseAfter(paused, Len(queue)), ack,
              grant', count)
    BY <1>2, <1>3, <2>1
  <2> HIDE DEF queue
  <2> QED BY <1>4, <1>5, <2>1, <2>2, FlushInv
<1>7. FrontiersBehind'
  <2>1. UNCHANGED <<processed, pending, oddTick, rejected>>
    BY <1>3 DEF serverVars
  <2>2. FirstUnsent' >= FirstUnsent /\ FirstUnsent' \in Int
    BY <1>1, <1>6, FlowAssumption
  <2>3. \A x \in pending : x \in Int
    BY <1>0 DEF FrontiersBehind
  <2> QED BY <1>0, <1>1, <1>3, <2>1, <2>2, <2>3 DEF FrontiersBehind, ReceiveThrough
<1>8. SnapshotsOrdered'
  BY <1>0, <1>3 DEF SnapshotsOrdered, serverVars, ReceiveThrough
<1> QED
  BY <1>6, <1>7, <1>8 DEF FlowInv

\* A snapshot the client may still apply acknowledges an input it submitted, so
\* the client never fails on one, and its grant only grows.
LEMMA ProcessSnapshotInv ==
  ASSUME FlowInv, NEW s \in snapshots, NEW count \in 0 .. PacketsPerFlush,
         ProcessSnapshot(s, count)
  PROVE  FlowInv'
<1> DEFINE n == Len(outbox)
<1>0. ClientQueues /\ FrontiersBehind /\ PacketsGranted /\ SnapshotsOrdered
  BY DEF FlowInv
<1>1. /\ n \in Nat /\ n <= PauseThreshold /\ next = FirstUnsent + n
      /\ FirstUnsent \in Nat /\ next \in 0 .. InvalidInput
      /\ outbox = Interval(FirstUnsent - 1, n) /\ paused \in BOOLEAN
  BY <1>0, FlowAssumption DEF ClientQueues, FirstUnsent
<1>2. /\ s.id \in 0 .. issued - 1 /\ s.ack \in -1 .. processed
      /\ s.grant = ReceiveThrough(s.ack)
      /\ Newer(s) => s.ack >= ack
      /\ ack \in -1 .. InvalidInput - 1 /\ processed \in -1 .. InvalidInput - 1
      /\ processed < FirstUnsent
  BY <1>0 DEF SnapshotsOrdered, FrontiersBehind, Newer
<1>3. Newer(s) => ValidAcknowledgement(s.ack)
  BY <1>1, <1>2 DEF ValidAcknowledgement
<1>4. /\ failed' = FALSE
      /\ snapshotId' = IF Newer(s) THEN s.id ELSE snapshotId
      /\ ack' = IF Newer(s) THEN s.ack ELSE ack
      /\ grant' = IF Newer(s) THEN s.grant ELSE grant
      /\ Flush(outbox, paused, ack', grant', count)
      /\ UNCHANGED <<next, serverVars, snapshots, lost>>
  BY <1>3, Zenon DEF ProcessSnapshot
<1>5. /\ ack' \in -1 .. InvalidInput - 1 /\ ack <= ack' /\ ack' <= processed
      /\ grant' = ReceiveThrough(ack')
  <2>1. CASE Newer(s)
    <3>1. ack' = s.ack /\ grant' = ReceiveThrough(s.ack) /\ s.ack >= ack
      BY <1>2, <1>4, <2>1
    <3>2. s.ack \in -1 .. InvalidInput - 1 /\ ack <= s.ack /\ s.ack <= processed
      <4>1. PICK x \in Int, y \in Int, z \in Int : x = s.ack /\ y = ack /\ z = processed
        BY <1>2
      <4>2. x \in -1 .. z /\ z \in -1 .. InvalidInput - 1 /\ x >= y
        BY <1>2, <3>1, <4>1, Zenon
      <4> QED BY <4>1, <4>2, FlowAssumption
    <3> QED BY <3>1, <3>2, Zenon
  <2>2. CASE ~Newer(s)
    <3>1. ack' = ack /\ grant' = grant
      BY <1>4, <2>2
    <3>2. ack <= ack /\ ack <= processed /\ grant = ReceiveThrough(ack)
      BY <1>0, <1>2 DEF FrontiersBehind
    <3> QED BY <1>2, <3>1, <3>2, Zenon
  <2> QED BY <2>1, <2>2
<1>6. grant' \in Int /\ grant <= grant' /\ ack' \in Int
  <2>1. grant = ReceiveThrough(ack)
    BY <1>0 DEF FrontiersBehind
  <2>2. ReceiveThrough(ack) <= ReceiveThrough(ack') /\ ReceiveThrough(ack') \in Inputs
    <3>1. PICK a \in -1 .. InvalidInput - 1, b \in -1 .. InvalidInput - 1 :
            a = ack /\ b = ack'
      BY <1>2, <1>5
    <3>2. ReceiveThrough(a) <= ReceiveThrough(b) /\ ReceiveThrough(b) \in Inputs
      BY <1>5, <3>1, WindowMonotone
    <3>3. ReceiveThrough(ack) = ReceiveThrough(a) /\ ReceiveThrough(ack') = ReceiveThrough(b)
      BY <3>1
    <3> QED BY <3>2, <3>3
  <2> QED BY <1>5, <2>1, <2>2 DEF Inputs
<1>7. ClientQueues' /\ PacketsGranted' /\ FirstUnsent' = FirstUnsent + count
  <2>1. next' = FirstUnsent + n /\ next' <= InvalidInput
    BY <1>1, <1>4
  <2> HIDE DEF n
  <2>2. PICK through \in Int, input \in Int : through = grant' /\ input = ack'
    BY <1>6
  <2>3. Flush(Interval(FirstUnsent - 1, n), paused, input, through, count)
    BY <1>1, <1>4, <2>2
  <2>4. grant <= through /\ grant' = through /\ failed' = FALSE
    BY <1>4, <1>6, <2>2
  <2> QED BY <1>1, <2>1, <2>3, <2>4, FlushInv
<1>8. FrontiersBehind'
  <2>1. UNCHANGED <<processed, pending, oddTick, rejected>>
    BY <1>4 DEF serverVars
  <2>2. FirstUnsent' >= FirstUnsent /\ FirstUnsent' \in Int
    BY <1>1, <1>7, FlowAssumption
  <2>3. \A x \in pending : x \in Int
    BY <1>0 DEF FrontiersBehind
  <2> QED BY <1>0, <1>1, <1>5, <2>1, <2>2, <2>3 DEF FrontiersBehind, ReceiveThrough
<1>9. SnapshotsOrdered'
  <2>1. /\ UNCHANGED <<snapshots, issued, processed>>
        /\ issued \in Nat /\ snapshotId \in 0 .. issued - 1
    BY <1>0, <1>4 DEF serverVars, SnapshotsOrdered
  <2>2. snapshotId' \in 0 .. issued - 1
    BY <1>2, <1>4, <2>1
  <2>3. ASSUME NEW t \in snapshots, t.id > snapshotId'
        PROVE  t.ack >= ack'
    <3>1. CASE Newer(s)
      BY <1>0, <1>2, <1>4, <2>3, <3>1 DEF SnapshotsOrdered
    <3>2. CASE ~Newer(s)
      BY <1>0, <1>4, <2>3, <3>2 DEF SnapshotsOrdered
    <3> QED BY <3>1, <3>2
  <2> QED BY <1>0, <2>1, <2>2, <2>3 DEF SnapshotsOrdered, ReceiveThrough
<1> QED
  BY <1>7, <1>8, <1>9 DEF FlowInv

\* A packet, however late, holds only samples the server's window covers, and
\* the window bounds how many wait: the server never rejects this client.
LEMMA ReceiveInputInv ==
  ASSUME FlowInv, NEW p \in packets, ReceiveInput(p)
  PROVE  FlowInv'
<1> USE FlowAssumption
<1> DEFINE fresh == Fresh(p)
           window == processed + 1 .. ReceiveThrough(processed)
<1>0. ClientQueues /\ FrontiersBehind /\ PacketsGranted /\ SnapshotsOrdered
  BY DEF FlowInv
<1>1. PICK a, b \in Inputs : /\ p = a .. b /\ b < FirstUnsent /\ b <= grant
  BY <1>0 DEF PacketsGranted
<1>2. /\ ReceiveThrough(ack) <= ReceiveThrough(processed)
      /\ ReceiveThrough(processed) \in Inputs
      /\ ReceiveThrough(processed) <= processed + Window
      /\ processed \in -1 .. InvalidInput - 1 /\ ReceiveThrough(ack) = grant
      /\ ReceiveThrough(ack) \in Inputs
  BY <1>0, WindowMonotone DEF FrontiersBehind
<1>3. fresh \subseteq window /\ \A x \in fresh : x < FirstUnsent
  <2> SUFFICES ASSUME NEW x \in fresh PROVE x \in window /\ x < FirstUnsent
    OBVIOUS
  <2>1. x \in a .. b /\ x > processed
    BY <1>1 DEF Fresh
  <2>2. FirstUnsent \in Int
    BY <1>0, FlowAssumption DEF ClientQueues, FirstUnsent
  <2>3. x \in Int /\ x <= b /\ b \in Int /\ x <= ReceiveThrough(processed)
    BY <1>1, <1>2, <2>1 DEF Inputs
  <2> QED BY <1>1, <1>2, <2>1, <2>2, <2>3 DEF Inputs
<1>4. pending \subseteq window /\ \A x \in pending : x < FirstUnsent
  BY <1>0 DEF FrontiersBehind
<1>5. /\ \A x \in fresh : x <= ReceiveThrough(processed)
      /\ Cardinality(pending) + Cardinality(fresh) <= QueueCapacity
  <2>1. IsFiniteSet(window) /\ Cardinality(window) \in Nat /\ Cardinality(window) <= Window
    <3>1. PICK lo \in Int, hi \in Int : lo = processed + 1 /\ hi = ReceiveThrough(processed)
      BY <1>2 DEF Inputs
    <3>2. IsFiniteSet(lo .. hi)
          /\ Cardinality(lo .. hi) = IF lo > hi THEN 0 ELSE hi - lo + 1
      BY FS_Interval
    <3>3. hi - lo + 1 <= Window
      BY <1>2, <3>1
    <3>4. Cardinality(lo .. hi) \in Nat /\ Cardinality(lo .. hi) <= Window
      BY <3>2, <3>3
    <3> QED BY <3>1, <3>2, <3>4
  <2> HIDE DEF window, fresh
  <2>2. IsFiniteSet(pending) /\ IsFiniteSet(fresh)
    BY <1>3, <1>4, <2>1, FS_Subset
  <2>3. pending \cap fresh = {}
    BY DEF fresh, Fresh
  <2>4. Cardinality(pending \cup fresh)
          = Cardinality(pending) + Cardinality(fresh) - Cardinality(pending \cap fresh)
    BY <2>2, FS_Union
  <2>5. Cardinality(pending \cap fresh) = 0
    BY <2>3, FS_EmptySet
  <2>6. Cardinality(pending \cup fresh) <= Cardinality(window)
    <3>1. pending \cup fresh \in SUBSET window
      BY <1>3, <1>4
    <3> QED BY <2>1, <3>1, FS_Subset
  <2>7. Cardinality(pending) \in Nat /\ Cardinality(fresh) \in Nat
    BY <2>2, FS_CardinalityType
  <2>8. Cardinality(pending) + Cardinality(fresh) <= QueueCapacity
    BY <2>1, <2>4, <2>5, <2>6, <2>7
  <2>9. \A x \in fresh : x <= ReceiveThrough(processed)
    BY <1>3, <1>2 DEF window, Inputs
  <2> QED BY <2>8, <2>9
<1>6. /\ rejected' = FALSE /\ pending' = pending \cup fresh
      /\ UNCHANGED <<clientVars, processed, oddTick, issued, packets, snapshots, lost>>
  <2> HIDE DEF fresh
  <2> QED BY <1>5 DEF ReceiveInput, fresh
<1> HIDE DEF fresh
<1>7. UNCHANGED <<next, outbox, recent, paused, snapshotId, ack, grant, failed>>
      /\ UNCHANGED FirstUnsent
  BY <1>6 DEF clientVars, FirstUnsent
<1>8. ClientQueues'
  BY <1>0, <1>7 DEF ClientQueues
<1>9. FrontiersBehind'
  BY <1>0, <1>3, <1>4, <1>6, <1>7 DEF FrontiersBehind, ReceiveThrough
<1>10. PacketsGranted'
  BY <1>0, <1>6, <1>7 DEF PacketsGranted
<1>11. SnapshotsOrdered'
  BY <1>0, <1>6, <1>7 DEF SnapshotsOrdered, ReceiveThrough
<1> QED
  BY <1>8, <1>9, <1>10, <1>11 DEF FlowInv

\* Applying the oldest queued sample moves the window forward, and the snapshot
\* that reports it is the newest one.
LEMMA StepInv == FlowInv /\ ServerStep => FlowInv'
<1> SUFFICES ASSUME FlowInv, ServerStep PROVE FlowInv'
  OBVIOUS
<1> USE FlowAssumption
<1> DEFINE applied == IF pending = {} THEN processed ELSE Min(pending)
<1>0. ClientQueues /\ FrontiersBehind /\ PacketsGranted /\ SnapshotsOrdered
  BY DEF FlowInv
<1>1. /\ processed' = applied /\ pending' = pending \ {applied} /\ oddTick' = ~oddTick
      /\ \/ /\ snapshots' = snapshots \cup {Snapshot(issued, applied)}
            /\ issued' = issued + 1
         \/ UNCHANGED <<snapshots, issued>>
      /\ UNCHANGED <<clientVars, rejected, packets, lost>>
  BY DEF ServerStep
<1>2. UNCHANGED <<next, outbox, recent, paused, snapshotId, ack, grant, failed>>
      /\ UNCHANGED FirstUnsent
  BY <1>1 DEF clientVars, FirstUnsent
<1>3. /\ processed \in -1 .. InvalidInput - 1 /\ ack \in -1 .. InvalidInput - 1
      /\ ack <= processed /\ processed < FirstUnsent
      /\ FirstUnsent \in Int /\ FirstUnsent <= InvalidInput
      /\ ReceiveThrough(processed) \in Inputs
      /\ pending \subseteq processed + 1 .. ReceiveThrough(processed)
      /\ \A x \in pending : x < FirstUnsent
  <2>1. /\ processed \in -1 .. InvalidInput - 1 /\ ack \in -1 .. InvalidInput - 1
        /\ ack <= processed /\ processed < FirstUnsent
        /\ pending \subseteq processed + 1 .. ReceiveThrough(processed)
        /\ \A x \in pending : x < FirstUnsent
    BY <1>0 DEF FrontiersBehind
  <2>2. FirstUnsent \in Int /\ FirstUnsent <= InvalidInput
    BY <1>0 DEF ClientQueues, FirstUnsent
  <2>3. ReceiveThrough(processed) \in Inputs
    BY <2>1, WindowMonotone
  <2> QED BY <2>1, <2>2, <2>3
<1>4. /\ applied \in processed .. InvalidInput - 1 /\ applied < FirstUnsent
      /\ \A x \in pending : x >= applied
  <2>1. CASE pending = {}
    BY <1>3, <2>1
  <2>2. CASE pending # {}
    <3>1. pending \in SUBSET Nat
      BY <1>3 DEF Inputs
    <3>2. Min(pending) \in pending /\ \A x \in pending : Min(pending) <= x
      BY <2>2, <3>1, NatMinIs
    <3>3. \A x \in pending : x \in Int /\ x >= processed /\ x <= InvalidInput - 1
      BY <1>3 DEF Inputs
    <3>4. applied = Min(pending) /\ Min(pending) \in Int
      BY <2>2, <3>2, <3>3
    <3> HIDE DEF applied
    <3>5. \A x \in pending : x >= applied
      BY <3>2, <3>3, <3>4
    <3> QED BY <1>3, <3>2, <3>3, <3>4, <3>5
  <2> QED BY <2>1, <2>2
<1> HIDE DEF applied
<1>5. applied \in -1 .. InvalidInput - 1
  BY <1>3, <1>4
<1>6. ReceiveThrough(processed) <= ReceiveThrough(applied)
      /\ ReceiveThrough(applied) \in Inputs
  BY <1>3, <1>4, <1>5, WindowMonotone
<1>7. ClientQueues'
  BY <1>0, <1>2 DEF ClientQueues
<1>8. FrontiersBehind'
  <2>1. processed' \in -1 .. InvalidInput - 1 /\ ack' <= processed' /\ processed' < FirstUnsent'
    BY <1>1, <1>2, <1>3, <1>4
  <2>2. rejected' = FALSE /\ oddTick' \in BOOLEAN /\ ack' \in -1 .. InvalidInput - 1
    BY <1>0, <1>1, <1>2 DEF FrontiersBehind
  <2>3. grant' = ReceiveThrough(ack')
    BY <1>0, <1>2 DEF FrontiersBehind
  <2>4. ASSUME NEW x \in pending'
        PROVE  x \in processed' + 1 .. ReceiveThrough(processed') /\ x < FirstUnsent'
    <3>1. x \in pending /\ x # applied
      BY <1>1
    <3>2. x \in processed + 1 .. ReceiveThrough(processed) /\ x < FirstUnsent /\ x >= applied
      BY <1>3, <1>4, <3>1
    <3>3. x \in applied + 1 .. ReceiveThrough(applied)
      BY <1>3, <1>4, <1>5, <1>6, <3>1, <3>2 DEF Inputs
    <3> QED BY <1>1, <1>2, <3>2, <3>3
  <2> QED BY <2>1, <2>2, <2>3, <2>4 DEF FrontiersBehind
<1>9. PacketsGranted'
  BY <1>0, <1>1, <1>2 DEF PacketsGranted
<1>10. SnapshotsOrdered'
  <2>1. /\ issued \in Nat /\ snapshotId' \in 0 .. issued - 1
        /\ issued' \in Nat /\ issued <= issued'
    BY <1>0, <1>1, <1>2 DEF SnapshotsOrdered
  <2>2. ASSUME NEW s \in snapshots'
        PROVE  \/ /\ s \in snapshots /\ s.id \in 0 .. issued - 1 /\ s.ack \in -1 .. processed
                  /\ s.grant = ReceiveThrough(s.ack) /\ (s.id > snapshotId => s.ack >= ack)
               \/ /\ s.id = issued /\ s.ack = applied /\ s.grant = ReceiveThrough(applied)
                  /\ issued' = issued + 1
    BY <1>0, <1>1 DEF SnapshotsOrdered, Snapshot
  <2>3. ASSUME NEW s \in snapshots'
        PROVE  /\ s.id \in 0 .. issued' - 1 /\ s.ack \in -1 .. processed'
               /\ s.grant = ReceiveThrough(s.ack)
               /\ s.id > snapshotId' => s.ack >= ack'
    BY <1>1, <1>2, <1>3, <1>4, <1>5, <2>1, <2>2
  <2>4. ASSUME NEW s \in snapshots', NEW t \in snapshots', s.id < t.id
        PROVE  s.ack <= t.ack
    <3>1. CASE s \in snapshots /\ t \in snapshots
      BY <1>0, <2>4, <3>1 DEF SnapshotsOrdered
    <3>2. CASE s \notin snapshots
      BY <2>1, <2>2, <2>4, <3>2
    <3>3. CASE s \in snapshots /\ t \notin snapshots
      BY <1>3, <1>4, <2>2, <2>4, <3>3
    <3> QED BY <3>1, <3>2, <3>3
  <2>5. issued' \in Nat /\ snapshotId' \in 0 .. issued' - 1
    <3>1. PICK i \in Nat, j \in Nat, k \in Int : i = issued /\ j = issued' /\ k = snapshotId'
      BY <2>1
    <3>2. i <= j /\ k \in 0 .. i - 1
      BY <2>1, <3>1, Zenon
    <3>3. k \in 0 .. j - 1
      BY <3>2
    <3> QED BY <3>1, <3>3, Zenon
  <2> QED BY <2>3, <2>4, <2>5, Zenon DEF SnapshotsOrdered, ReceiveThrough
<1> QED
  BY <1>7, <1>8, <1>9, <1>10 DEF FlowInv

\* Every step of either side, or of the network, keeps the invariant.
LEMMA FlowNextInv == FlowInv /\ [FlowNext]_flowVars => FlowInv'
<1> SUFFICES ASSUME FlowInv, [FlowNext]_flowVars PROVE FlowInv'
  OBVIOUS
<1>1. ASSUME NEW count \in 0 .. PacketsPerFlush, SubmitInput(count) PROVE FlowInv'
  BY <1>1, SubmitInputInv
<1>2. ASSUME NEW s \in snapshots, NEW count \in 0 .. PacketsPerFlush,
             ProcessSnapshot(s, count)
      PROVE  FlowInv'
  BY <1>2, ProcessSnapshotInv
<1>3. ASSUME NEW p \in packets, ReceiveInput(p) PROVE FlowInv'
  BY <1>3, ReceiveInputInv
<1>4. CASE ServerStep
  BY <1>4, StepInv
<1>5. ASSUME NEW p \in packets, LosePacket(p) PROVE FlowInv'
  BY <1>5 DEF LosePacket, clientVars, serverVars, FlowInv, ClientQueues, FrontiersBehind,
              PacketsGranted, SnapshotsOrdered, FirstUnsent, ReceiveThrough
<1>6. CASE UNCHANGED flowVars
  BY <1>6 DEF flowVars, clientVars, serverVars, FlowInv, ClientQueues, FrontiersBehind,
              PacketsGranted, SnapshotsOrdered, FirstUnsent, ReceiveThrough
<1> QED
  BY <1>1, <1>2, <1>3, <1>4, <1>5, <1>6 DEF FlowNext

\* The inductive invariant holds in every reachable state.
THEOREM FlowInvHolds == FlowSpec => []FlowInv
BY FlowInitInv, FlowNextInv, PTL DEF FlowSpec

-----------------------------------------------------------------------------
(* What the invariant says of the two sides.                               *)

\* A run of samples of a packet's size is one the codec accepts.
LEMMA RunIsValid ==
  ASSUME NEW a \in Inputs, NEW b \in Inputs, a <= b, b - a <= PacketSamples - 1
  PROVE  ValidPacket(a .. b)
<1> USE FlowAssumption
<1>1. a \in a .. b /\ b \in a .. b /\ a .. b \in SUBSET Int
  BY DEF Inputs
<1>2. Max(a .. b) = b /\ Min(a .. b) = a
  <2>1. (\A x \in a .. b : x <= b) /\ (\A x \in a .. b : a <= x)
    BY DEF Inputs
  <2> QED BY <1>1, <2>1, MaxIs, MinIs
<1>3. Cardinality(a .. b) = b - a + 1
  <2>1. a \in Int /\ b \in Int /\ ~(a > b)
    BY DEF Inputs
  <2> QED BY <2>1, FS_Interval
<1>4. a .. b # {} /\ b - a + 1 <= PacketSamples /\ b - a = b - a + 1 - 1
  BY <1>1 DEF Inputs
<1> DEFINE p == a .. b
<1>5. /\ Max(p) = b /\ Min(p) = a /\ Cardinality(p) = b - a + 1 /\ p # {}
      /\ b - a + 1 <= PacketSamples /\ b - a = b - a + 1 - 1
  BY <1>2, <1>3, <1>4
<1> HIDE DEF p
<1>6. /\ p # {} /\ Cardinality(p) <= PacketSamples
      /\ Max(p) - Min(p) = Cardinality(p) - 1
  <2>1. \A x, y, c \in Int : x = b /\ y = a /\ c = b - a + 1 => x - y = c - 1
    OBVIOUS
  <2>2. Max(p) \in Int /\ Min(p) \in Int /\ Cardinality(p) \in Int
    BY <1>5 DEF Inputs
  <2> QED BY <1>5, <2>1, <2>2, Zenon
<1>7. ValidPacket(p)
  BY <1>6, Zenon DEF ValidPacket
<1> QED
  BY <1>7 DEF p

\* The invariant says that each side finds the other within the protocol, and
\* gives the types and the outbox.
LEMMA FlowInvSuffices == FlowInv => OutboxSound /\ FlowAgrees
<1> SUFFICES ASSUME FlowInv PROVE OutboxSound /\ FlowAgrees
  OBVIOUS
<1> USE FlowAssumption
<1>0. ClientQueues /\ FrontiersBehind /\ PacketsGranted /\ SnapshotsOrdered
  BY DEF FlowInv
<1>1. \A a \in Int, n \in Nat :
        /\ Len(Interval(a, n)) = n /\ DOMAIN Interval(a, n) = 1 .. n
        /\ \A i \in 1 .. n : Interval(a, n)[i] = a + i
        /\ (n = 0 \/ (a >= -1 /\ a + n < InvalidInput)) => Interval(a, n) \in Seq(Inputs)
  <2> SUFFICES ASSUME NEW a \in Int, NEW n \in Nat
               PROVE /\ Len(Interval(a, n)) = n /\ DOMAIN Interval(a, n) = 1 .. n
                     /\ \A i \in 1 .. n : Interval(a, n)[i] = a + i
                     /\ (n = 0 \/ (a >= -1 /\ a + n < InvalidInput))
                          => Interval(a, n) \in Seq(Inputs)
    OBVIOUS
  <2>1. /\ Interval(a, n) \in Seq(Int)
        /\ Len(Interval(a, n)) = n /\ DOMAIN Interval(a, n) = 1 .. n
        /\ \A i \in 1 .. n : Interval(a, n)[i] = a + i
    BY IntervalProperties
  <2>2. ASSUME n = 0 \/ (a >= -1 /\ a + n < InvalidInput)
        PROVE  Interval(a, n) \in Seq(Inputs)
    <3>1. ASSUME NEW i \in 1 .. n PROVE Interval(a, n)[i] \in Inputs
      <4>1. a + i \in Inputs
        BY <2>2 DEF Inputs
      <4> QED BY <2>1, <4>1
    <3> QED BY <2>1, <3>1, ElementOfSeq, SeqDef
  <2> QED BY <2>1, <2>2
<1>2. /\ FirstUnsent \in Nat /\ Len(outbox) \in Nat /\ Len(recent) \in Nat
      /\ next = FirstUnsent + Len(outbox) /\ FirstUnsent - 1 \in Int
      /\ FirstUnsent - 1 - Len(recent) \in Int
  BY <1>0 DEF ClientQueues, FirstUnsent
<1>3. OutboxHoldsSuffix
  <2>1. DOMAIN outbox = 1 .. Len(outbox)
        /\ \A i \in 1 .. Len(outbox) : outbox[i] = FirstUnsent - 1 + i
    BY <1>0, <1>1, <1>2 DEF ClientQueues
  <2>2. \A i \in 1 .. Len(outbox) : FirstUnsent - 1 + i = next - Len(outbox) + i - 1
    BY <1>2
  <2>3. /\ Len(outbox) <= PauseThreshold
        /\ paused => Len(outbox) > ResumeThreshold
        /\ ~paused => Len(outbox) < PauseThreshold
    BY <1>0 DEF ClientQueues
  <2> QED BY <2>1, <2>2, <2>3, Zenon DEF OutboxHoldsSuffix
<1>4. outbox \in Seq(Inputs) /\ recent \in Seq(Inputs)
  <2> DEFINE a == FirstUnsent - 1  n == Len(outbox)
             c == FirstUnsent - 1 - Len(recent)  m == Len(recent)
  <2>1. outbox = Interval(a, n) /\ recent = Interval(c, m)
    BY <1>0 DEF ClientQueues
  <2>2. a >= -1 /\ a + n < InvalidInput /\ c >= -1 /\ c + m < InvalidInput
    BY <1>0, <1>2 DEF ClientQueues
  <2> HIDE DEF a, c, n, m
  <2>3. a \in Int /\ n \in Nat /\ c \in Int /\ m \in Nat
    BY <1>2 DEF a, c, n, m
  <2> QED BY <1>1, <2>1, <2>2, <2>3
<1>5. FlowTypeOK
  <2>1. /\ ack \in Inputs \cup {NoInput} /\ processed \in Inputs \cup {NoInput}
        /\ grant \in Inputs
    BY <1>0, WindowMonotone DEF FrontiersBehind, Inputs, NoInput
  <2>2. pending \in SUBSET Inputs
    <3>1. ReceiveThrough(processed) \in Inputs
      BY <1>0, WindowMonotone DEF FrontiersBehind
    <3> QED BY <1>0, <3>1 DEF FrontiersBehind, Inputs
  <2>3. packets \in SUBSET (SUBSET Inputs)
    <3>1. ASSUME NEW p \in packets PROVE p \subseteq Inputs
      BY <1>0 DEF PacketsGranted, Inputs
    <3> QED BY <3>1
  <2>4. /\ next \in 0 .. InvalidInput
        /\ paused \in BOOLEAN /\ failed \in BOOLEAN /\ rejected \in BOOLEAN
        /\ snapshotId \in 0 .. issued - 1 /\ issued \in Nat /\ oddTick \in BOOLEAN
    BY <1>0 DEF ClientQueues, FrontiersBehind, SnapshotsOrdered
  <2> QED BY <1>4, <2>1, <2>2, <2>3, <2>4 DEF FlowTypeOK
<1>6. ConformingClientAccepted
  <2>1. /\ processed \in Int /\ ReceiveThrough(processed) \in Int
        /\ ReceiveThrough(processed) <= processed + Window
    BY <1>0, WindowMonotone DEF FrontiersBehind, Inputs
  <2>2. PICK lo \in Int, hi \in Int : lo = processed + 1 /\ hi = ReceiveThrough(processed)
    BY <2>1
  <2>3. /\ IsFiniteSet(lo .. hi)
        /\ Cardinality(lo .. hi) = IF lo > hi THEN 0 ELSE hi - lo + 1
    BY FS_Interval
  <2>4. Cardinality(lo .. hi) <= Window /\ Cardinality(lo .. hi) \in Int
    BY <2>1, <2>2, <2>3
  <2>5. pending \in SUBSET (lo .. hi)
    BY <1>0, <2>2 DEF FrontiersBehind
  <2>6. Cardinality(pending) <= Cardinality(lo .. hi) /\ IsFiniteSet(pending)
    BY <2>3, <2>5, FS_Subset
  <2>7. Cardinality(pending) \in Nat
    BY <2>6, FS_CardinalityType
  <2>8. Cardinality(pending) <= QueueCapacity /\ Cardinality(pending) <= Window
    BY <2>4, <2>6, <2>7
  <2> QED BY <1>0, <2>8 DEF ConformingClientAccepted, ValidQueueReport, FrontiersBehind
<1>7. PacketsEncodable
  <2> SUFFICES ASSUME NEW p \in packets PROVE ValidPacket(p)
    BY DEF PacketsEncodable
  <2>1. PICK a, b \in Inputs : p = a .. b /\ a <= b /\ b - a <= PacketSamples - 1
    BY <1>0 DEF PacketsGranted
  <2> QED BY <2>1, RunIsValid
<1>8. AcknowledgementsValid
  BY <1>0 DEF ClientQueues, AcknowledgementsValid
<1> QED
  BY <1>3, <1>5, <1>6, <1>7, <1>8 DEF OutboxSound, FlowAgrees

\* The fields of both sides always have their types, and the outbox always holds
\* the suffix of the submitted commands that is not yet transmitted, within the
\* pause threshold (submit_input, flush_pending_inputs).
THEOREM OutboxAlwaysSound == FlowSpec => []OutboxSound
BY FlowInvHolds, FlowInvSuffices, PTL

\* Neither side ever finds the other in violation: the server never rejects the
\* client, the client never meets an acknowledgement it must refuse, and every
\* packet is one the codec sends, for every window and capacity and every order,
\* loss and repetition of messages.
THEOREM FlowAlwaysAgrees == FlowSpec => []FlowAgrees
BY FlowInvHolds, FlowInvSuffices, PTL

\* The server applies each command at most once, in order, and only commands that
\* were submitted (step, enqueue_input).
THEOREM CommandsAppliedInOrder == FlowSpec => AppliedInOrder
<1>1. FlowInv /\ [FlowNext]_flowVars
        => [processed' # processed => processed' > processed /\ processed' < next]_flowVars
  <2> SUFFICES ASSUME FlowInv, FlowNext, processed' # processed
               PROVE  processed' > processed /\ processed' < next
    OBVIOUS
  <2>1. ServerStep
    BY DEF FlowNext, SubmitInput, ProcessSnapshot, ReceiveInput, LosePacket, serverVars
  <2>2. pending # {} /\ processed' = Min(pending)
    BY <2>1 DEF ServerStep
  <2>3. /\ pending \subseteq processed + 1 .. ReceiveThrough(processed)
        /\ \A x \in pending : x < FirstUnsent
        /\ processed \in -1 .. InvalidInput - 1 /\ ReceiveThrough(processed) \in Inputs
        /\ FirstUnsent <= next /\ FirstUnsent \in Int /\ next \in Int
    BY WindowMonotone, FlowAssumption
    DEF FlowInv, FrontiersBehind, ClientQueues, FirstUnsent
  <2>4. Min(pending) \in pending
    <3>1. pending \in SUBSET Nat
      BY <2>3, FlowAssumption DEF Inputs
    <3> QED BY <2>2, <3>1, NatMinIs
  <2>5. PICK m \in pending : m = Min(pending)
    BY <2>4
  <2>6. m > processed /\ m < next
    BY <2>3, <2>5 DEF Inputs
  <2> QED BY <2>2, <2>5, <2>6
<1> QED
  BY <1>1, FlowInvHolds, PTL DEF FlowSpec, AppliedInOrder

-----------------------------------------------------------------------------
(* The replay loop.                                                        *)

\* The recursive definition of the replay loop has a solution: the scratch
\* states are what the loop computes, iteration after iteration.
LEMMA ScratchEquation ==
  ASSUME NEW frames, Len(frames) \in Nat, NEW start, NEW refresh, NEW sc
  PROVE  ScratchStates(frames, start, refresh, sc) =
           [i \in 0 .. Len(frames) |->
              IF i = 0 THEN start
              ELSE NextScratch(ScratchStates(frames, start, refresh, sc)[i - 1],
                               frames[i], refresh, sc)]
<1> DEFINE Solves(f, n) == f = [i \in 0 .. n |->
             IF i = 0 THEN start
             ELSE NextScratch(f[i - 1], frames[i], refresh, sc)]
           S == {n \in Nat : \E f : Solves(f, n)}
<1>1. 0 \in S
  <2> DEFINE f == [i \in 0 .. 0 |-> start]
  <2>1. Solves(f, 0)
    OBVIOUS
  <2> QED BY <2>1
<1>2. ASSUME NEW n \in Nat, n \in S
      PROVE  n + 1 \in S
  <2>1. PICK f : Solves(f, n)
    BY <1>2
  <2> DEFINE last == NextScratch(f[n], frames[n + 1], refresh, sc)
             g == [i \in 0 .. n + 1 |-> IF i <= n THEN f[i] ELSE last]
  <2> HIDE DEF last
  <2>2. \A i \in 0 .. n : g[i] = f[i]
    OBVIOUS
  <2>3. \A i \in 0 .. n + 1 : g[i] = IF i = 0 THEN start
             ELSE NextScratch(g[i - 1], frames[i], refresh, sc)
    <3> SUFFICES ASSUME NEW i \in 0 .. n + 1
                 PROVE  g[i] = IF i = 0 THEN start
                          ELSE NextScratch(g[i - 1], frames[i], refresh, sc)
      OBVIOUS
    <3>1. CASE i <= n
      <4>1. g[i] = f[i] BY <3>1
      <4>2. i # 0 => i - 1 \in 0 .. n BY <3>1
      <4>3. i # 0 => g[i - 1] = f[i - 1] BY <4>2, <2>2
      <4>4. f[i] = IF i = 0 THEN start
                   ELSE NextScratch(f[i - 1], frames[i], refresh, sc)
        BY <2>1, <3>1
      <4> QED BY <4>1, <4>3, <4>4
    <3>2. CASE i = n + 1
      <4>1. g[i] = last BY <3>2
      <4>2. g[n] = f[n] BY <2>2
      <4> QED BY <4>1, <4>2, <3>2 DEF last
    <3> QED BY <3>1, <3>2
  <2>4. Solves(g, n + 1)
    BY <2>3
  <2> HIDE DEF Solves, g
  <2>5. n + 1 \in Nat /\ \E h : Solves(h, n + 1)
    BY <2>4
  <2> QED BY <2>5
<1>3. Len(frames) \in S
  BY <1>1, <1>2, SetInduction
<1>4. PICK f : Solves(f, Len(frames))
  BY <1>3
<1> QED
  BY <1>4 DEF ScratchStates

-----------------------------------------------------------------------------
(* Lemmas about the operators.                                             *)

\* Every scratch state is a model state or a failure, and a loop that ends
\* without a failure had none on the way.
LEMMA ScratchTypes ==
  ASSUME NEW frames \in Seq(Frames), NEW start \in States \cup {None},
         NEW refresh \in Refreshes, NEW sc \in Scopes
  PROVE  LET scratch == ScratchStates(frames, start, refresh, sc)
         IN /\ \A i \in 0 .. Len(frames) : scratch[i] \in States \cup {None}
            /\ scratch[Len(frames)] # None =>
                 \A i \in 0 .. Len(frames) : scratch[i] # None
<1> DEFINE scratch == ScratchStates(frames, start, refresh, sc)
           n == Len(frames)
<1>0. n \in Nat
  OBVIOUS
<1>1. /\ scratch[0] = start
      /\ \A i \in 1 .. n :
           scratch[i] = NextScratch(scratch[i - 1], frames[i], refresh, sc)
  BY <1>0, ScratchEquation
<1>2. \A i \in 1 .. n : frames[i] \in Frames
  OBVIOUS
<1> HIDE DEF scratch, n
<1>3. \A i \in 0 .. n : scratch[i] \in States \cup {None}
  <2> DEFINE S == {i \in Nat : i <= n => scratch[i] \in States \cup {None}}
  <2>1. 0 \in S
    BY <1>1
  <2>2. ASSUME NEW i \in Nat, i \in S, i + 1 <= n
        PROVE  scratch[i + 1] \in States \cup {None}
    <3>1. scratch[i + 1] = NextScratch(scratch[i], frames[i + 1], refresh, sc)
      BY <1>0, <1>1, <2>2
    <3>2. scratch[i] \in States \cup {None}
      BY <1>0, <2>2
    <3>3. frames[i + 1].seq \in Sequences /\ frames[i + 1].stimulus \in Stimuli
      BY <1>0, <1>2, <2>2 DEF Frames
    <3> QED
      BY <3>1, <3>2, <3>3, ModelAssumption DEF NextScratch
  <2>3. \A i \in Nat : i \in S => i + 1 \in S
    BY <2>2
  <2>4. Nat \subseteq S
    BY <2>1, <2>3, SetInduction
  <2> QED BY <1>0, <2>4
<1>4. ASSUME scratch[n] # None
      PROVE  \A i \in 0 .. n : scratch[i] # None
  <2> DEFINE S == {k \in Nat : k <= n => scratch[n - k] # None}
  <2>1. 0 \in S
    BY <1>0, <1>4
  <2>2. ASSUME NEW k \in Nat, k \in S, k + 1 <= n
        PROVE  scratch[n - (k + 1)] # None
    <3>1. n - k \in 1 .. n /\ (n - k) - 1 = n - (k + 1)
      BY <1>0, <2>2
    <3>2. scratch[n - k] =
            NextScratch(scratch[n - (k + 1)], frames[n - k], refresh, sc)
      BY <1>1, <3>1
    <3>3. scratch[n - k] # None
      BY <1>0, <2>2
    <3> QED
      BY <3>2, <3>3 DEF NextScratch
  <2>3. \A k \in Nat : k \in S => k + 1 \in S
    BY <2>2
  <2>4. Nat \subseteq S
    BY <2>1, <2>3, SetInduction
  <2>5. ASSUME NEW i \in 0 .. n PROVE scratch[i] # None
    <3>1. n - i \in Nat /\ n - i <= n /\ n - (n - i) = i
      BY <1>0
    <3> QED BY <3>1, <2>4
  <2> QED BY <2>5
<1> QED
  BY <1>3, <1>4 DEF scratch, n

\* The fields of a frame have their types.
LEMMA FrameFields ==
  ASSUME NEW f \in Frames
  PROVE  /\ f.seq \in Int /\ f.seq \in Sequences /\ f.tick \in Nat
         /\ f.stimulus \in Stimuli /\ f.checkpoint \in Checkpoints
         /\ f.events \in Seq(Events) /\ f.epoch \in Epochs
  BY BoundsAssumption DEF Frames, Sequences

\* The acknowledged frames are a prefix of the history.
LEMMA AckedPrefix ==
  ASSUME history \in Seq(Frames), FrontiersOrdered, NEW upTo \in Int
  PROVE  /\ AckedCount(upTo) \in 0 .. Len(history)
         /\ \A i \in 1 .. Len(history) :
              history[i].seq <= upTo <=> i <= AckedCount(upTo)
<1> DEFINE n == Len(history)
           P(k) == \E m \in 0 .. k : \A i \in 1 .. k :
                     history[i].seq <= upTo <=> i <= m
           S == {k \in Nat : k <= n => P(k)}
<1>0. n \in Nat /\ DOMAIN history = 1 .. n
  OBVIOUS
<1>1. \A i \in 1 .. n : history[i].seq \in Int
  <2>1. \A i \in 1 .. n : history[i] \in Frames OBVIOUS
  <2> QED BY <2>1, FrameFields
<1>2. \A i, j \in 1 .. n : i < j => history[i].seq < history[j].seq
  BY <1>0 DEF FrontiersOrdered
<1> HIDE DEF n
<1>3. 0 \in S
  BY <1>0
<1>4. ASSUME NEW k \in Nat, k \in S, k + 1 <= n
      PROVE  P(k + 1)
  <2>1. PICK m \in 0 .. k : \A i \in 1 .. k : history[i].seq <= upTo <=> i <= m
    BY <1>0, <1>4
  <2>2. CASE history[k + 1].seq <= upTo
    <3>1. \A i \in 1 .. k : history[i].seq <= upTo
      BY <2>2, <1>0, <1>1, <1>2, <1>4
    <3> WITNESS k + 1 \in 0 .. k + 1
    <3> QED BY <3>1, <2>2
  <2>3. CASE ~(history[k + 1].seq <= upTo)
    <3> WITNESS m \in 0 .. k + 1
    <3> QED BY <2>1, <2>3
  <2> QED BY <2>2, <2>3
<1> HIDE DEF P
<1>5. \A k \in Nat : k \in S => k + 1 \in S
  BY <1>0, <1>4
<1>6. Nat \subseteq S
  BY <1>3, <1>5, SetInduction
<1>7. P(n)
  BY <1>0, <1>6
<1> QED
  BY <1>0, <1>7 DEF AckedCount, n, P

\* What the replay loop keeps: unacknowledged frames, in order.
LEMMA RetainedFrames ==
  ASSUME history \in Seq(Frames), FrontiersOrdered, NEW upTo \in Int
  PROVE  /\ Retained(upTo) \in Seq(Frames)
         /\ Len(Retained(upTo)) = Len(history) - AckedCount(upTo)
         /\ AckedCount(upTo) \in 0 .. Len(history)
         /\ \A i \in 1 .. Len(Retained(upTo)) :
              /\ AckedCount(upTo) + i \in 1 .. Len(history)
              /\ Retained(upTo)[i] = history[AckedCount(upTo) + i]
              /\ Retained(upTo)[i].seq > upTo
<1> DEFINE m == AckedCount(upTo) + 1
           n == Len(history)
<1>1. /\ AckedCount(upTo) \in 0 .. n /\ n \in Nat
      /\ \A i \in 1 .. n : history[i].seq <= upTo <=> i <= AckedCount(upTo)
  <2>1. n \in Nat
    BY LenProperties
  <2> QED BY <2>1, AckedPrefix
<1>2. \A i \in m .. n : history[i] \in Frames
  BY <1>1
<1>3. m \in Int /\ n \in Int
  BY <1>1
<1>4. /\ SubSeq(history, m, n) \in Seq(Frames)
      /\ Len(SubSeq(history, m, n)) = IF m <= n THEN n - m + 1 ELSE 0
      /\ \A i \in 1 .. n - m + 1 : SubSeq(history, m, n)[i] = history[m + i - 1]
  BY <1>2, <1>3, SubSeqProperties
<1>5. \A i \in 1 .. n : history[i].seq \in Int
  <2>1. \A i \in 1 .. n : history[i] \in Frames OBVIOUS
  <2> QED BY <2>1, FrameFields
<1> DEFINE kept == SubSeq(history, m, n)
           gone == AckedCount(upTo)
<1>6. Retained(upTo) = kept
  BY DEF Retained
<1> HIDE DEF kept, gone
<1>7. gone \in 0 .. n /\ n \in Nat /\ m = gone + 1
  BY <1>1 DEF m, gone
<1> HIDE DEF m
<1>8. kept \in Seq(Frames) /\ Len(kept) = n - gone
  <2>1. IF m <= n THEN n - m + 1 = n - gone ELSE n - gone = 0
    BY ONLY <1>7
  <2> QED BY <1>4, <2>1 DEF kept
<1> HIDE DEF n
<1>9. ASSUME NEW i \in 1 .. n - gone
      PROVE  gone + i \in 1 .. n /\ kept[i] = history[gone + i] /\ kept[i].seq > upTo
  <2>1. /\ i \in 1 .. n - m + 1 /\ m + i - 1 = gone + i
        /\ gone + i \in 1 .. n /\ ~(gone + i <= gone)
    BY ONLY <1>7, <1>9
  <2>2. kept[i] = history[gone + i]
    BY <1>4, <2>1 DEF kept
  <2>3. history[gone + i].seq \in Int /\ ~(history[gone + i].seq <= upTo)
    BY <1>1, <1>5, <2>1 DEF gone
  <2> QED BY <2>1, <2>2, <2>3
<1> QED
  BY <1>6, <1>7, <1>8, <1>9 DEF n, gone

\* Journals hold events.
LEMMA JournalTypes ==
  ASSUME NEW frames \in Seq(Frames)
  PROVE  Journal(frames) \subseteq Events
<1> SUFFICES ASSUME NEW i \in DOMAIN frames, NEW j \in DOMAIN frames[i].events
             PROVE  frames[i].events[j] \in Events
  BY DEF Journal
<1>1. frames[i] \in Frames
  OBVIOUS
<1>2. frames[i].events \in Seq(Events)
  BY <1>1, FrameFields
<1> QED BY <1>2

\* Resolving two journals under authority outcomes yields a well-formed commit.
LEMMA ResolutionTypes ==
  ASSUME NEW old \in SUBSET Events, NEW new \in SUBSET Events,
         NEW outcomes \in SUBSET AuthorityEvents
  PROVE  /\ EventChanges(old, new, outcomes) \in SUBSET Changes
         /\ RetiredKeys(old, new, outcomes) \in SUBSET Keys
<1>1. \A e \in Events : EventKey(e) \in Keys
  BY ModelAssumption
<1>2. \A o \in outcomes : o.key \in Keys /\ o.event \in Events \cup {None}
  BY DEF AuthorityEvents
<1>3. \A t \in Transitions, k \in Keys, p, c \in Events \cup {None} :
        Change(t, k, p, c) \in Changes
  BY DEF Change, Changes
<1>4. EventChanges(old, new, outcomes) \in SUBSET Changes
  <2>1. SUFFICES ASSUME NEW c \in EventChanges(old, new, outcomes)
                 PROVE  c \in Changes
    OBVIOUS
  <2>2. \/ \E p \in old \X outcomes : c = Change("Confirmed", p[2].key, p[1], p[2].event)
        \/ \E p \in old \X new : c = Change("Revised", EventKey(p[1]), p[1], p[2])
        \/ \E e \in old : c = Change("Retracted", EventKey(e), e, None)
        \/ \E n \in new : c = Change("FirstPredicted", EventKey(n), None, n)
        \/ \E o \in outcomes : c = Change("AuthorityOnly", o.key, None, o.event)
    BY Zenon DEF EventChanges
  <2>3. {"FirstPredicted", "Revised", "Retracted", "Confirmed", "AuthorityOnly"}
          \subseteq Transitions
    BY DEF Transitions
  <2>4. \A p \in old \X outcomes : /\ p[1] \in Events /\ p[2].key \in Keys
                                  /\ p[2].event \in Events \cup {None}
    BY <1>2
  <2>5. \A p \in old \X new : p[1] \in Events /\ p[2] \in Events
    OBVIOUS
  <2>6. ASSUME NEW p \in old \X outcomes,
               c = Change("Confirmed", p[2].key, p[1], p[2].event)
        PROVE  c \in Changes
    BY <1>3, <2>3, <2>4, <2>6
  <2>7. ASSUME NEW p \in old \X new, c = Change("Revised", EventKey(p[1]), p[1], p[2])
        PROVE  c \in Changes
    BY <1>1, <1>3, <2>3, <2>5, <2>7
  <2>8. ASSUME NEW e \in old, c = Change("Retracted", EventKey(e), e, None)
        PROVE  c \in Changes
    BY <1>1, <1>3, <2>3, <2>8
  <2>9. ASSUME NEW e \in new, c = Change("FirstPredicted", EventKey(e), None, e)
        PROVE  c \in Changes
    BY <1>1, <1>3, <2>3, <2>9
  <2>10. ASSUME NEW o \in outcomes, c = Change("AuthorityOnly", o.key, None, o.event)
         PROVE  c \in Changes
    BY <1>2, <1>3, <2>3, <2>10
  <2> QED BY Zenon, <2>2, <2>6, <2>7, <2>8, <2>9, <2>10
<1>5. RetiredKeys(old, new, outcomes) \in SUBSET Keys
  BY <1>1, <1>2 DEF RetiredKeys, KeysOf
<1> QED BY <1>4, <1>5

-----------------------------------------------------------------------------
(* The timeline: the inductive invariant.                                  *)

Inv == TypeOK /\ TicksContiguous /\ FrontiersOrdered /\ ReplayCoherent

\* A failed call preserves everything.
LEMMA FailPreserves == Inv /\ Fail => Inv'
<1> SUFFICES ASSUME Inv, Fail PROVE Inv'
  OBVIOUS
<1> USE DEF Fail, committed
<1>1. TypeOK'
  BY DEF Inv, TypeOK, initialized
<1>2. TicksContiguous'
  BY DEF Inv, TicksContiguous
<1>3. FrontiersOrdered'
  BY DEF Inv, FrontiersOrdered
<1>4. ReplayCoherent'
  BY DEF Inv, ReplayCoherent, initialized, HeadCheckpoint
<1> QED BY <1>1, <1>2, <1>3, <1>4 DEF Inv

\* What an authority frame carries.
LEMMA FrameOfAuthority ==
  ASSUME NEW a \in AuthorityFrames, ValidIds(a)
  PROVE  /\ a.tick \in Nat /\ a.ack \in Sequences \cup {NoSequence}
         /\ a.ack \in Int /\ a.epoch \in Epochs
         /\ a.checkpoint \in Checkpoints /\ a.events \in SUBSET AuthorityEvents
  BY AuthorityAssumption, BoundsAssumption
     DEF ValidIds, Sequences, NoSequence

\* Installing a frame over a cleared history preserves the invariant.
LEMMA InstallPreserves ==
  ASSUME Inv, NEW a \in AuthorityFrames, NEW sc \in Scopes, NEW kind \in Kinds,
         ValidIds(a), Restore(a.checkpoint, sc) # None, Install(a, sc, kind)
  PROVE  Inv'
<1> USE DEF Install
<1>1. /\ a.tick \in Nat /\ a.ack \in Sequences \cup {NoSequence}
      /\ a.ack \in Int /\ a.epoch \in Epochs
      /\ a.checkpoint \in Checkpoints /\ a.events \in SUBSET AuthorityEvents
  BY FrameOfAuthority
<1>2. Restore(a.checkpoint, sc) \in States
  BY <1>1, ModelAssumption
<1>3. commit' \in Commits
  <2>1. Journal(history) \in SUBSET Events
    BY JournalTypes DEF Inv, TypeOK
  <2>2. EventChanges(Journal(history), {}, a.events) \in SUBSET Changes
        /\ RetiredKeys(Journal(history), {}, a.events) \in SUBSET Keys
    BY <1>1, <2>1, ResolutionTypes
  <2> QED BY <2>2 DEF Commits
<1>4. submitted' \in Sequences \cup {NoSequence} /\ acked' <= submitted'
  BY <1>1, BoundsAssumption DEF Inv, TypeOK, Sequences, NoSequence
<1>5. TypeOK'
  BY <1>1, <1>2, <1>3, <1>4, ModelAssumption DEF TypeOK, initialized
<1>6. TicksContiguous'
  BY <1>1 DEF TicksContiguous
<1>7. FrontiersOrdered'
  BY <1>4, BoundsAssumption DEF FrontiersOrdered
<1>8. ReplayCoherent'
  BY DEF ReplayCoherent, HeadCheckpoint
<1> QED BY <1>5, <1>6, <1>7, <1>8 DEF Inv

\* A committed replay preserves the invariant.
LEMMA ReplayPreserves ==
  ASSUME Inv, initialized, NEW a \in AuthorityFrames, NEW sc \in Scopes,
         NEW refresh \in Refreshes, NEW kind \in Kinds, NEW newer \in BOOLEAN,
         Replay(a, sc, refresh, kind, newer)
  PROVE  Inv'
<1> DEFINE kept == Retained(a.ack)
           n == Len(kept)
           scratch == ScratchStates(kept, Restore(a.checkpoint, sc), refresh, sc)
           replayed == [i \in 1 .. n |->
                          ReplayedFrame(kept[i], scratch[i - 1], refresh, sc,
                                        a.tick + i, a.epoch)]
           Done == /\ ValidAuthority(a, newer, FALSE)
                   /\ Restore(a.checkpoint, sc) # None
                   /\ scratch[n] # None
                   /\ state' = scratch[n]
                   /\ base' = a.checkpoint
                   /\ scope' = sc
                   /\ history' = replayed
                   /\ authTick' = a.tick
                   /\ predTick' = a.tick + n
                   /\ epoch' = a.epoch
                   /\ acked' = a.ack
                   /\ submitted' = submitted
                   /\ commit' = [kind |-> kind,
                        changes |-> EventChanges(Journal(history),
                                      Journal(replayed), a.events),
                        retired |-> RetiredKeys(Journal(history),
                                      Journal(replayed), a.events)]
<1>1. Fail \/ Done
  BY DEF Replay
<1>2. CASE Fail
  BY <1>2, FailPreserves
<1>3. CASE Done
  <2>1. /\ a.tick \in Nat /\ a.ack \in Sequences \cup {NoSequence}
        /\ a.ack \in Int /\ a.epoch \in Epochs
        /\ a.checkpoint \in Checkpoints /\ a.events \in SUBSET AuthorityEvents
    BY <1>3, FrameOfAuthority DEF ValidAuthority
  <2>2. /\ kept \in Seq(Frames)
        /\ n = Len(history) - AckedCount(a.ack)
        /\ AckedCount(a.ack) \in 0 .. Len(history)
        /\ \A i \in 1 .. n :
             /\ AckedCount(a.ack) + i \in 1 .. Len(history)
             /\ kept[i] = history[AckedCount(a.ack) + i]
             /\ kept[i].seq > a.ack
    BY <2>1, RetainedFrames DEF Inv, TypeOK
  <2>3. n \in Nat
    BY <2>2
  <2>4. \A i \in 1 .. n : kept[i] \in Frames
    BY <2>2
  <2>5. Restore(a.checkpoint, sc) \in States \cup {None}
    BY <2>1, ModelAssumption
  <2>6. \A i \in 0 .. n : scratch[i] \in States
    BY <1>3, <2>2, <2>5, ScratchTypes
  <2>7. /\ scratch[0] = Restore(a.checkpoint, sc)
        /\ \A i \in 1 .. n :
             scratch[i] = NextScratch(scratch[i - 1], kept[i], refresh, sc)
    BY <2>3, ScratchEquation
  <2> DEFINE stim(i) == Refresh(refresh, kept[i].seq, kept[i].stimulus,
                                scratch[i - 1], sc)
             stepped(i) == Step(scratch[i - 1], stim(i), sc)
  <2> HIDE DEF kept, n, scratch
  <2>8. ASSUME NEW i \in 1 .. n
        PROVE  /\ stim(i) \in Stimuli
               /\ scratch[i] = stepped(i).state
               /\ stepped(i).events \in Seq(Events)
               /\ Capture(scratch[i], sc) \in Checkpoints
               /\ Restore(Capture(scratch[i], sc), sc) = scratch[i]
               /\ replayed[i] = [tick |-> a.tick + i, seq |-> kept[i].seq,
                                 stimulus |-> stim(i),
                                 checkpoint |-> Capture(scratch[i], sc),
                                 events |-> stepped(i).events,
                                 epoch |-> a.epoch]
    <3>1. i \in 0 .. n /\ i - 1 \in 0 .. n
      BY <2>3
    <3>2. scratch[i] \in States /\ scratch[i - 1] \in States
      BY <2>6, <3>1
    <3>3. kept[i].seq \in Sequences /\ kept[i].stimulus \in Stimuli
      BY <2>4, FrameFields
    <3>4. stim(i) \in Stimuli \cup {None}
      BY <3>2, <3>3, ModelAssumption
    <3>5. scratch[i] = NextScratch(scratch[i - 1], kept[i], refresh, sc)
          /\ scratch[i] # None
      BY <2>7, <3>2, ModelAssumption
    <3>6. stim(i) # None /\ scratch[i] = stepped(i).state
      BY <3>5 DEF NextScratch
    <3>7. stim(i) \in Stimuli
      BY <3>4, <3>6
    <3> HIDE DEF stim
    <3>8. /\ stepped(i).events \in Seq(Events)
          /\ Capture(stepped(i).state, sc) \in Checkpoints
          /\ Restore(Capture(stepped(i).state, sc), sc) = stepped(i).state
      BY <3>2, <3>5, <3>6, <3>7, ModelAssumption
    <3> USE DEF stim
    <3>9. replayed[i] = [tick |-> a.tick + i, seq |-> kept[i].seq,
                         stimulus |-> stim(i),
                         checkpoint |-> Capture(stepped(i).state, sc),
                         events |-> stepped(i).events, epoch |-> a.epoch]
      BY DEF ReplayedFrame
    <3> QED BY <3>6, <3>7, <3>8, <3>9
  <2> HIDE DEF stim, stepped
  <2>9. /\ DOMAIN replayed = 1 .. n
        /\ Len(replayed) = n
    BY <2>3
  <2>10. \A i \in 1 .. n : replayed[i] \in Frames
    <3> TAKE i \in 1 .. n
    <3>1. kept[i].seq \in Sequences
      BY <2>4, FrameFields
    <3>2. a.tick + i \in Nat
      BY <2>1, <2>3
    <3>3. /\ stim(i) \in Stimuli
          /\ Capture(scratch[i], sc) \in Checkpoints
          /\ stepped(i).events \in Seq(Events)
          /\ replayed[i] = [tick |-> a.tick + i, seq |-> kept[i].seq,
                            stimulus |-> stim(i),
                            checkpoint |-> Capture(scratch[i], sc),
                            events |-> stepped(i).events, epoch |-> a.epoch]
      BY <2>8
    <3> HIDE DEF replayed
    <3> QED BY <2>1, <3>1, <3>2, <3>3 DEF Frames
  <2>11. replayed \in Seq(Frames)
    BY <2>3, <2>9, <2>10, SeqDef
  <2>12. commit' \in Commits
    <3>1. Journal(history) \in SUBSET Events /\ Journal(replayed) \in SUBSET Events
      BY <2>11, JournalTypes DEF Inv, TypeOK
    <3>2. /\ EventChanges(Journal(history), Journal(replayed), a.events)
               \in SUBSET Changes
          /\ RetiredKeys(Journal(history), Journal(replayed), a.events)
               \in SUBSET Keys
      BY <2>1, <3>1, ResolutionTypes
    <3> QED BY <1>3, <3>2 DEF Commits
  <2> HIDE DEF replayed
  <2>13. ASSUME NEW i \in 1 .. n
         PROVE  /\ history'[i].tick = a.tick + i
                /\ history'[i].seq = kept[i].seq
                /\ history'[i].stimulus = stim(i)
                /\ history'[i].checkpoint = Capture(scratch[i], sc)
                /\ history'[i].events = stepped(i).events
                /\ history'[i].epoch = a.epoch
    <3>1. history' = replayed
      BY <1>3
    <3>2. replayed[i] = [tick |-> a.tick + i, seq |-> kept[i].seq,
                         stimulus |-> stim(i),
                         checkpoint |-> Capture(scratch[i], sc),
                         events |-> stepped(i).events, epoch |-> a.epoch]
      BY <2>8
    <3> HIDE DEF Done
    <3> QED BY <3>1, <3>2
  <2>14. TypeOK'
    <3>1. scratch[n] \in States
      BY <2>3, <2>6
    <3>2. predTick' \in Nat
      BY <1>3, <2>1, <2>3
    <3> QED BY <1>3, <2>1, <2>11, <2>12, <3>1, <3>2, ModelAssumption
            DEF Inv, TypeOK, initialized
  <2>15. TicksContiguous'
    <3>1. \A i \in DOMAIN history' : history'[i].tick = authTick' + i
      BY <1>3, <2>8, <2>9
    <3> QED BY <1>3, <2>9, <3>1 DEF TicksContiguous
  <2>16. FrontiersOrdered'
    <3>1. acked' <= submitted'
      BY <1>3 DEF ValidAuthority
    <3>2. Len(history') <= Capacity
      BY <1>3, <2>2, <2>3, <2>9, BoundsAssumption DEF Inv, FrontiersOrdered
    <3>3. \A i \in 1 .. n : history'[i].seq = history[AckedCount(a.ack) + i].seq
      BY <2>2, <2>13
    <3>4. \A i \in 1 .. Len(history) : /\ history[i].seq <= submitted
            /\ \A j \in 1 .. Len(history) : i < j => history[i].seq < history[j].seq
      BY DEF Inv, FrontiersOrdered, TypeOK
    <3>5. \A i \in 1 .. n : acked' < history'[i].seq /\ history'[i].seq <= submitted'
      <4> TAKE i \in 1 .. n
      <4>1. kept[i].seq \in Int
        BY <2>4, FrameFields
      <4> QED BY <1>3, <2>1, <2>2, <3>3, <3>4, <4>1
    <3>6. \A i, j \in 1 .. n : i < j => history'[i].seq < history'[j].seq
      <4> TAKE i, j \in 1 .. n
      <4> DEFINE m == AckedCount(a.ack)
      <4>1. m \in Nat /\ m + i \in 1 .. Len(history) /\ m + j \in 1 .. Len(history)
        BY <2>2
      <4>2. history'[i].seq = history[m + i].seq /\ history'[j].seq = history[m + j].seq
        BY <3>3
      <4>3. i < j => m + i < m + j
        BY <2>3, <4>1
      <4> HIDE DEF m
      <4> QED BY <3>4, <4>1, <4>2, <4>3
    <3> QED BY <1>3, <2>9, <3>1, <3>2, <3>5, <3>6 DEF FrontiersOrdered
  <2>17. ReplayCoherent'
    <3>1. ASSUME NEW i \in 1 .. n
          PROVE  /\ Restore(IF i = 1 THEN base' ELSE history'[i - 1].checkpoint, sc)
                      = scratch[i - 1]
                 /\ history'[i].epoch = epoch'
                 /\ history'[i].checkpoint = Capture(stepped(i).state, sc)
                 /\ history'[i].events = stepped(i).events
                 /\ stepped(i) = Step(scratch[i - 1], history'[i].stimulus, sc)
      <4>1. i # 1 => i - 1 \in 1 .. n
        BY <2>3
      <4>2. i # 1 => Restore(history'[i - 1].checkpoint, sc) = scratch[i - 1]
        BY <2>8, <2>13, <4>1
      <4>3. i = 1 => Restore(base', sc) = scratch[i - 1]
        BY <1>3, <2>7
      <4>4. stepped(i) = Step(scratch[i - 1], stim(i), sc)
        BY DEF stepped
      <4>5. epoch' = a.epoch
        BY <1>3
      <4> HIDE DEF Done
      <4> QED BY <2>8, <2>13, <4>2, <4>3, <4>4, <4>5
    <3>2. state' = Restore(HeadCheckpoint', sc)
      <4>1. CASE n = 0
        BY <1>3, <2>7, <2>9, <2>11, <4>1 DEF HeadCheckpoint
      <4>2. CASE n # 0
        <5>1. n \in 1 .. n /\ history' # << >> /\ Len(history') = n
          BY <1>3, <2>3, <2>9, <4>2
        <5>2. HeadCheckpoint' = Capture(scratch[n], sc)
          BY <1>3, <2>8, <5>1 DEF HeadCheckpoint
        <5> QED BY <1>3, <2>8, <5>1, <5>2
      <4> QED BY <4>1, <4>2
    <3> QED BY <1>3, <2>9, <3>1, <3>2 DEF ReplayCoherent
  <2> QED BY <2>14, <2>15, <2>16, <2>17 DEF Inv
<1> QED BY <1>1, <1>2, <1>3

\* Appending a predicted frame preserves the invariant.
LEMMA AdvancePreserves ==
  ASSUME Inv, NEW seq \in Sequences \cup {InvalidSequence},
         NEW stimulus \in Stimuli, Advance(seq, stimulus)
  PROVE  Inv'
<1>1. CASE Fail
  BY <1>1, FailPreserves
<1>2. CASE AdvanceSteps(seq, stimulus) /\ ~Fail
  <2> DEFINE before == Restore(HeadCheckpoint, scope)
             stepped == Step(before, stimulus, scope)
             frame == PredictedFrame(seq, stimulus)
             n == Len(history)
  <2>1. /\ state' = stepped.state
        /\ predTick' = predTick + 1
        /\ submitted' = seq
        /\ history' = Append(history, frame)
        /\ commit' = [kind |-> "Advance",
                      changes |-> {Change("FirstPredicted", EventKey(e), None, e) :
                                     e \in Journal(<<frame>>)},
                      retired |-> {}]
        /\ UNCHANGED <<base, scope, authTick, epoch, acked>>
    BY <1>2 DEF Advance
  <2>2. /\ initialized /\ seq # InvalidSequence /\ seq > submitted /\ seq > acked
        /\ n < Capacity /\ before # None /\ stepped.state # None
    BY <1>2 DEF AdvanceSteps, MayAdvance
  <2>3. /\ history \in Seq(Frames) /\ base \in Checkpoints /\ scope \in Scopes
        /\ epoch \in Epochs /\ predTick \in Nat /\ authTick \in Nat
        /\ acked \in Sequences \cup {NoSequence}
    BY <2>2 DEF Inv, TypeOK
  <2>4. seq \in Sequences /\ seq \in Int /\ n \in Nat
    BY <2>2, <2>3, BoundsAssumption DEF Sequences
  <2>5. \A i \in 1 .. n : history[i] \in Frames /\ history[i].seq \in Int
    <3>1. \A i \in 1 .. n : history[i] \in Frames
      BY <2>3
    <3> QED BY <3>1, FrameFields
  <2>6. HeadCheckpoint \in Checkpoints
    <3>1. CASE history = << >>
      BY <2>3, <3>1 DEF HeadCheckpoint
    <3>2. CASE history # << >>
      <4>1. n \in 1 .. n
        BY <2>3, <3>2
      <4>2. history[n].checkpoint \in Checkpoints
        BY <2>5, <4>1, FrameFields
      <4> QED BY <3>2, <4>2 DEF HeadCheckpoint
    <3> QED BY <3>1, <3>2
  <2>7. before \in States
    BY <2>2, <2>3, <2>6, ModelAssumption
  <2> HIDE DEF before
  <2>8. /\ stepped.state \in States
        /\ stepped.events \in Seq(Events)
        /\ Capture(stepped.state, scope) \in Checkpoints
        /\ Restore(Capture(stepped.state, scope), scope) = stepped.state
    BY <2>2, <2>3, <2>7, ModelAssumption
  <2>9. frame = [tick |-> predTick + 1, seq |-> seq, stimulus |-> stimulus,
                 checkpoint |-> Capture(stepped.state, scope),
                 events |-> stepped.events, epoch |-> epoch]
    BY DEF PredictedFrame, before
  <2> HIDE DEF stepped, frame
  <2>10. frame \in Frames
    <3>1. predTick + 1 \in Nat
      BY <2>3
    <3> QED BY <2>3, <2>4, <2>8, <2>9, <3>1 DEF Frames
  <2>11. /\ frame.tick = predTick + 1 /\ frame.seq = seq
         /\ frame.stimulus = stimulus /\ frame.epoch = epoch
         /\ frame.checkpoint = Capture(stepped.state, scope)
         /\ frame.events = stepped.events
    BY <2>9
  <2>12. /\ history' \in Seq(Frames)
         /\ Len(history') = n + 1
         /\ \A i \in 1 .. n : history'[i] = history[i]
         /\ history'[n + 1] = frame
         /\ DOMAIN history' = 1 .. n + 1
    BY <2>1, <2>3, <2>10
  <2>13. commit' \in Commits
    <3>1. Journal(<<frame>>) \subseteq Events
      <4>1. <<frame>> \in Seq(Frames)
        BY <2>10
      <4> QED BY <4>1, JournalTypes
    <3>2. \A e \in Events :
            Change("FirstPredicted", EventKey(e), None, e) \in Changes
      BY ModelAssumption DEF Change, Changes, Transitions
    <3>3. {Change("FirstPredicted", EventKey(e), None, e) : e \in Journal(<<frame>>)}
            \in SUBSET Changes
      BY <3>1, <3>2
    <3> QED BY <2>1, <3>3 DEF Commits, Kinds
  <2>14. TypeOK'
    <3>1. predTick' \in Nat
      BY <2>1, <2>3
    <3> QED BY <2>1, <2>3, <2>4, <2>8, <2>12, <2>13, <3>1, ModelAssumption
            DEF TypeOK, initialized
  <2>15. TicksContiguous'
    <3>1. predTick = authTick + n /\ \A i \in 1 .. n : history[i].tick = authTick + i
      BY <2>3 DEF Inv, TicksContiguous
    <3>2. predTick' = authTick' + Len(history')
      BY <2>1, <2>3, <2>4, <2>12, <3>1
    <3>3. \A i \in 1 .. n + 1 : history'[i].tick = authTick' + i
      <4> TAKE i \in 1 .. n + 1
      <4>1. CASE i = n + 1
        BY <2>1, <2>3, <2>4, <2>11, <2>12, <3>1, <4>1
      <4>2. CASE i \in 1 .. n
        BY <2>1, <2>12, <3>1, <4>2
      <4> QED BY <2>4, <4>1, <4>2
    <3> QED BY <2>12, <3>2, <3>3 DEF TicksContiguous
  <2>16. FrontiersOrdered'
    <3>1. /\ \A i \in 1 .. n : acked < history[i].seq /\ history[i].seq <= submitted
          /\ \A i, j \in 1 .. n : i < j => history[i].seq < history[j].seq
      BY <2>3 DEF Inv, FrontiersOrdered
    <3>2. submitted \in Int /\ acked \in Int
      BY BoundsAssumption DEF Inv, TypeOK, Sequences, NoSequence
    <3>3. \A i \in 1 .. n + 1 : acked' < history'[i].seq /\ history'[i].seq <= submitted'
      <4> TAKE i \in 1 .. n + 1
      <4>1. CASE i = n + 1
        BY <2>1, <2>2, <2>4, <2>11, <2>12, <3>2, <4>1
      <4>2. CASE i \in 1 .. n
        BY <2>1, <2>2, <2>4, <2>5, <2>12, <3>1, <3>2, <4>2
      <4> QED BY <2>4, <4>1, <4>2
    <3>4. \A i, j \in 1 .. n + 1 : i < j => history'[i].seq < history'[j].seq
      <4> TAKE i, j \in 1 .. n + 1
      <4> HAVE i < j
      <4>1. i \in 1 .. n /\ history'[i] = history[i]
        BY <2>4, <2>12
      <4>2. CASE j = n + 1
        BY <2>2, <2>4, <2>5, <2>11, <2>12, <3>1, <3>2, <4>1, <4>2
      <4>3. CASE j \in 1 .. n
        BY <2>12, <3>1, <4>1, <4>3
      <4> QED BY <2>4, <4>2, <4>3
    <3>5. acked' <= submitted' /\ Len(history') <= Capacity
      BY <2>1, <2>2, <2>4, <2>12, <3>2, BoundsAssumption
    <3> QED BY <2>12, <3>3, <3>4, <3>5 DEF FrontiersOrdered
  <2>17. ReplayCoherent'
    <3>1. ASSUME NEW i \in 1 .. n
          PROVE  LET s == Step(Restore(IF i = 1 THEN base ELSE history[i - 1].checkpoint,
                                       scope), history[i].stimulus, scope)
                 IN /\ history[i].epoch = epoch
                    /\ history[i].checkpoint = Capture(s.state, scope)
                    /\ history[i].events = s.events
      BY <2>2, <2>3 DEF Inv, ReplayCoherent
    <3>2. HeadCheckpoint = IF n + 1 = 1 THEN base ELSE history[n].checkpoint
      BY <2>3 DEF HeadCheckpoint
    <3>3. ASSUME NEW i \in 1 .. n + 1
          PROVE  LET s == Step(Restore(IF i = 1 THEN base' ELSE history'[i - 1].checkpoint,
                                       scope'), history'[i].stimulus, scope')
                 IN /\ history'[i].epoch = epoch'
                    /\ history'[i].checkpoint = Capture(s.state, scope')
                    /\ history'[i].events = s.events
      <4>1. i # 1 => history'[i - 1] = history[i - 1]
        BY <2>4, <2>12
      <4>2. CASE i = n + 1
        <5>1. Restore(IF i = 1 THEN base' ELSE history'[i - 1].checkpoint, scope')
                = before
          BY <2>1, <2>4, <3>2, <4>1, <4>2 DEF before
        <5> QED BY <2>1, <2>11, <2>12, <4>2, <5>1 DEF stepped
      <4>3. CASE i \in 1 .. n
        BY <2>1, <2>12, <3>1, <4>1, <4>3
      <4> QED BY <2>4, <4>2, <4>3
    <3>4. HeadCheckpoint' = frame.checkpoint
      BY <2>4, <2>12 DEF HeadCheckpoint
    <3>5. state' = Restore(HeadCheckpoint', scope')
      BY <2>1, <2>8, <2>11, <3>4
    <3> QED BY <2>12, <3>3, <3>5 DEF ReplayCoherent
  <2> QED BY <2>14, <2>15, <2>16, <2>17 DEF Inv
<1> QED BY <1>1, <1>2 DEF Advance

-----------------------------------------------------------------------------
(* The timeline: theorems.                                                 *)

\* The invariant holds initially and every call preserves it.
LEMMA InitInv == Init => Inv
  BY BoundsAssumption, ModelAssumption
     DEF Init, Inv, TypeOK, TicksContiguous, FrontiersOrdered, ReplayCoherent,
         initialized, Sequences, NoSequence, Epochs, InvalidEpoch

\* Every operation of the timeline, and a step that changes nothing, preserves
\* the invariant.
LEMMA NextInv == Inv /\ [Next]_vars => Inv'
<1> SUFFICES ASSUME Inv, [Next]_vars PROVE Inv'
  OBVIOUS
<1> USE FailPreserves DEF Kinds
<1>1. ASSUME NEW a \in AuthorityFrames, NEW sc \in Scopes, Initialize(a, sc)
      PROVE  Inv'
  BY <1>1, InstallPreserves DEF Initialize, MayInitialize
<1>2. ASSUME NEW seq \in Sequences \cup {InvalidSequence}, NEW st \in Stimuli,
             Advance(seq, st)
      PROVE  Inv'
  BY <1>2, AdvancePreserves
<1>3. ASSUME NEW a \in AuthorityFrames, NEW r \in Refreshes, Reconcile(a, r)
      PROVE  Inv'
  <2>1. initialized => scope \in Scopes
    BY DEF Inv, TypeOK
  <2> QED BY <1>3, <2>1, ReplayPreserves DEF Reconcile
<1>4. ASSUME NEW a \in AuthorityFrames, NEW r \in Refreshes, RefreshAuthority(a, r)
      PROVE  Inv'
  <2>1. initialized => scope \in Scopes
    BY DEF Inv, TypeOK
  <2> QED BY <1>4, <2>1, ReplayPreserves DEF RefreshAuthority
<1>5. ASSUME NEW a \in AuthorityFrames, NEW sc \in Scopes, NEW r \in Refreshes,
             RebaseScope(a, sc, r)
      PROVE  Inv'
  BY <1>5, ReplayPreserves DEF RebaseScope
<1>6. ASSUME NEW a \in AuthorityFrames, NEW sc \in Scopes, HardResync(a, sc)
      PROVE  Inv'
  BY <1>6, InstallPreserves DEF HardResync, MayHardResync, ValidAuthority
<1>7. CASE UNCHANGED vars
  <2>1. UNCHANGED <<state, base, scope, history, authTick, predTick, epoch,
                    acked, submitted, commit>>
    BY <1>7 DEF vars, committed
  <2>2. TypeOK'
    BY <2>1 DEF Inv, TypeOK, initialized
  <2>3. TicksContiguous'
    BY <2>1 DEF Inv, TicksContiguous
  <2>4. FrontiersOrdered'
    BY <2>1 DEF Inv, FrontiersOrdered
  <2>5. ReplayCoherent'
    BY <2>1 DEF Inv, ReplayCoherent, initialized, HeadCheckpoint
  <2> QED BY <2>2, <2>3, <2>4, <2>5 DEF Inv
<1> QED BY <1>1, <1>2, <1>3, <1>4, <1>5, <1>6, <1>7 DEF Next

\* The invariant holds in every reachable state.
LEMMA InvHolds == Spec => []Inv
  BY InitInv, NextInv, PTL DEF Spec

\* Every field and every returned commit of the timeline keeps its type, for
\* every model that meets its contract and every sequence of calls.
THEOREM TypeCorrect == Spec => []TypeOK
<1>1. Inv => TypeOK
  BY DEF Inv
<1> QED BY <1>1, InvHolds, PTL

\* No call leaves an event key twice in the history: every call that commits
\* frames has compared their keys, and the others leave none.
LEMMA NextKeys == JournalKeysUnique /\ [Next]_vars => JournalKeysUnique'
<1> SUFFICES ASSUME JournalKeysUnique, [Next]_vars PROVE JournalKeysUnique'
  OBVIOUS
<1>1. ASSUME history' = history PROVE JournalKeysUnique'
  BY <1>1 DEF JournalKeysUnique, UniqueKeys
<1>2. ASSUME history' = << >> PROVE JournalKeysUnique'
  BY <1>2 DEF JournalKeysUnique, UniqueKeys
<1>3. ASSUME Fail PROVE JournalKeysUnique'
  BY <1>1, <1>3 DEF Fail, committed
<1>4. ASSUME NEW frames, UniqueKeys(frames), history' = frames
      PROVE  JournalKeysUnique'
  BY <1>4 DEF JournalKeysUnique, UniqueKeys
<1>5. ASSUME NEW a, NEW sc, NEW r, NEW kind, NEW newer, Replay(a, sc, r, kind, newer)
      PROVE  JournalKeysUnique'
  BY <1>3, <1>4, <1>5 DEF Replay
<1>6. ASSUME NEW seq, NEW st, Advance(seq, st) PROVE JournalKeysUnique'
  BY <1>3, <1>4, <1>6 DEF Advance, AdvanceSteps
<1>7. ASSUME NEW a, NEW sc, Initialize(a, sc) \/ HardResync(a, sc)
      PROVE  JournalKeysUnique'
  BY <1>2, <1>3, <1>7 DEF Initialize, HardResync, Install
<1>8. ASSUME NEW a, NEW sc, NEW r,
             Reconcile(a, r) \/ RefreshAuthority(a, r) \/ RebaseScope(a, sc, r)
      PROVE  JournalKeysUnique'
  BY <1>3, <1>5, <1>8 DEF Reconcile, RefreshAuthority, RebaseScope
<1>9. ASSUME UNCHANGED vars PROVE JournalKeysUnique'
  BY <1>1, <1>9 DEF vars, committed
<1> QED BY <1>6, <1>7, <1>8, <1>9 DEF Next

\* The retained history is always one line of prediction: consecutive ticks,
\* ordered commands, unique event keys.
THEOREM HistoryIsSound == Spec => []HistorySound
<1>1. Init => JournalKeysUnique
  BY DEF Init, JournalKeysUnique, UniqueKeys
<1>2. Spec => []JournalKeysUnique
  BY <1>1, NextKeys, PTL DEF Spec
<1>3. Inv /\ JournalKeysUnique => HistorySound
  BY DEF Inv, HistorySound
<1> QED BY <1>2, <1>3, InvHolds, PTL

\* The committed prediction is always the replay of the committed authority
\* under one scope and one epoch.
THEOREM PredictionIsReplay == Spec => []ReplayCoherent
<1>1. Inv => ReplayCoherent
  BY DEF Inv
<1> QED BY <1>1, InvHolds, PTL

\* What a call may do to the frontiers and to the pair of scope and epoch.
LEMMA StepEffects ==
  ASSUME Inv, [Next]_vars, initialized
  PROVE  /\ authTick' >= authTick /\ acked' >= acked
         /\ submitted' >= submitted /\ epoch' >= epoch
         /\ epoch' = epoch => scope' = scope
<1> DEFINE Good == /\ authTick' >= authTick /\ acked' >= acked
                   /\ submitted' >= submitted /\ epoch' >= epoch
                   /\ epoch' = epoch => scope' = scope
<1>1. /\ authTick \in Int /\ acked \in Int /\ submitted \in Int /\ epoch \in Int
  BY BoundsAssumption DEF Inv, TypeOK, Sequences, NoSequence, Epochs, InvalidEpoch
<1>2. ASSUME UNCHANGED committed PROVE Good
  BY <1>1, <1>2 DEF committed
<1>3. ASSUME NEW a \in AuthorityFrames, NEW sc, NEW r, NEW kind, NEW newer,
             Replay(a, sc, r, kind, newer), newer \in BOOLEAN,
             a.epoch >= epoch, a.epoch = epoch => sc = scope
      PROVE  Good
  <2>1. \/ UNCHANGED committed
        \/ /\ ValidAuthority(a, newer, FALSE) /\ authTick' = a.tick
           /\ acked' = a.ack /\ submitted' = submitted /\ epoch' = a.epoch
           /\ scope' = sc
    BY <1>3 DEF Replay, Fail
  <2>2. ASSUME ValidAuthority(a, newer, FALSE) PROVE a.tick >= authTick
    <3>1. a.tick \in Int
      BY <2>2, FrameOfAuthority DEF ValidAuthority
    <3> QED BY <1>1, <1>3, <2>2, <3>1 DEF ValidAuthority
  <2> QED BY <1>1, <1>2, <1>3, <2>1, <2>2 DEF ValidAuthority
<1> HIDE DEF Good
<1>4. ASSUME NEW a \in AuthorityFrames, NEW sc \in Scopes, HardResync(a, sc)
      PROVE  Good
  <2>1. \/ UNCHANGED committed
        \/ /\ MayHardResync(a, sc) /\ authTick' = a.tick /\ acked' = a.ack
           /\ submitted' = (IF a.ack > submitted THEN a.ack ELSE submitted)
           /\ epoch' = a.epoch /\ scope' = sc
    BY <1>4 DEF HardResync, Install, Fail
  <2>2. ASSUME MayHardResync(a, sc) PROVE a.ack \in Int
    BY <2>2, FrameOfAuthority DEF MayHardResync, ValidAuthority
  <2> QED BY <1>1, <1>2, <2>1, <2>2 DEF MayHardResync, ValidAuthority, Good
<1>5. ASSUME NEW seq \in Sequences \cup {InvalidSequence}, NEW st \in Stimuli,
             Advance(seq, st)
      PROVE  Good
  <2>1. seq \in Int
    BY BoundsAssumption DEF Sequences, InvalidSequence
  <2> QED BY <1>1, <1>2, <1>5, <2>1 DEF Advance, AdvanceSteps, MayAdvance, Fail, Good
<1>6. ASSUME NEW a \in AuthorityFrames, NEW sc \in Scopes, Initialize(a, sc)
      PROVE  Good
  BY <1>2, <1>6 DEF Initialize, MayInitialize, Fail
<1>7. ASSUME NEW a \in AuthorityFrames, NEW r \in Refreshes, Reconcile(a, r)
      PROVE  Good
  <2>1. a.epoch = epoch => a.epoch >= epoch
    BY <1>1
  <2>2. ASSUME a.epoch = epoch, Replay(a, scope, r, "Reconcile", TRUE) PROVE Good
    BY <1>3, <2>1, <2>2
  <2> QED BY <1>2, <1>7, <2>2 DEF Reconcile, Fail
<1>8. ASSUME NEW a \in AuthorityFrames, NEW r \in Refreshes, RefreshAuthority(a, r)
      PROVE  Good
  <2>1. a.epoch = epoch => a.epoch >= epoch
    BY <1>1
  <2>2. ASSUME a.epoch = epoch, Replay(a, scope, r, "AuthorityRefresh", FALSE)
        PROVE  Good
    BY <1>3, <2>1, <2>2
  <2> QED BY <1>2, <1>8, <2>2 DEF RefreshAuthority, Fail
<1>9. ASSUME NEW a \in AuthorityFrames, NEW sc \in Scopes, NEW r \in Refreshes,
             RebaseScope(a, sc, r)
      PROVE  Good
  <2>1. a.epoch \in Int
    BY AuthorityAssumption, BoundsAssumption DEF Epochs, InvalidEpoch
  <2>2. a.epoch > epoch => a.epoch >= epoch /\ a.epoch # epoch
    BY <1>1, <2>1
  <2>3. ASSUME a.epoch > epoch, Replay(a, sc, r, "ScopeRebase", FALSE) PROVE Good
    BY <1>3, <2>2, <2>3
  <2> QED BY <1>2, <1>9, <2>3 DEF RebaseScope, Fail
<1>10. ASSUME UNCHANGED vars PROVE Good
  <2>1. UNCHANGED committed
    BY <1>10 DEF vars, committed
  <2> QED BY <1>2, <2>1
<1>11. Good
  BY <1>4, <1>5, <1>6, <1>7, <1>8, <1>9, <1>10 DEF Next
<1> QED BY <1>11 DEF Good

\* No call moves an authoritative tick, acknowledgement, submitted command or
\* epoch of an initialized timeline back.
THEOREM FrontiersAreMonotone == Spec => FrontiersMonotone
<1>1. Inv /\ [Next]_vars => [initialized => /\ authTick' >= authTick
                                          /\ acked' >= acked
                                          /\ submitted' >= submitted
                                          /\ epoch' >= epoch]_vars
  BY StepEffects
<1> QED BY <1>1, InvHolds, PTL DEF Spec, FrontiersMonotone

\* No call replaces the scope of an initialized timeline without its epoch.
THEOREM EpochsNameScopes == Spec => EpochNamesScope
<1>1. Inv /\ [Next]_vars => [initialized /\ epoch' = epoch => scope' = scope]_vars
  BY StepEffects
<1> QED BY <1>1, InvHolds, PTL DEF Spec, EpochNamesScope

\* The submitted sequences of retained commands.
Commands(frames) == {frames[i].seq : i \in DOMAIN frames}

\* A replay keeps exactly the commands behind the acknowledgement.
LEMMA ReplayKeeps ==
  ASSUME Inv, NEW a, a.ack \in Int, NEW sc, NEW r, NEW kind, NEW newer,
         Replay(a, sc, r, kind, newer), ~Fail
  PROVE  /\ acked' = a.ack
         /\ Commands(history') \subseteq Commands(history)
         /\ \A q \in Commands(history) \ Commands(history') : q <= acked'
<1> DEFINE kept == Retained(a.ack)
           m == AckedCount(a.ack)
           n == Len(kept)
           scratch == ScratchStates(kept, Restore(a.checkpoint, sc), r, sc)
           replayed == [i \in 1 .. n |->
                          ReplayedFrame(kept[i], scratch[i - 1], r, sc, a.tick + i, a.epoch)]
<1>1. history' = replayed /\ acked' = a.ack
  BY DEF Replay
<1>2. history \in Seq(Frames) /\ FrontiersOrdered
  BY DEF Inv, TypeOK
<1>3. /\ n = Len(history) - m /\ m \in 0 .. Len(history)
      /\ \A i \in 1 .. n : m + i \in 1 .. Len(history) /\ kept[i] = history[m + i]
  BY <1>2, RetainedFrames
<1>4. \A i \in 1 .. Len(history) : history[i].seq <= a.ack <=> i <= m
  BY <1>2, AckedPrefix
<1>5. DOMAIN history' = 1 .. n
  BY <1>1
<1>6. \A i \in 1 .. n : history'[i].seq = history[m + i].seq
  <2> TAKE i \in 1 .. n
  <2>1. history'[i] = ReplayedFrame(kept[i], scratch[i - 1], r, sc, a.tick + i, a.epoch)
    BY <1>1
  <2>2. history'[i].seq = kept[i].seq
    BY <2>1 DEF ReplayedFrame
  <2> QED BY <1>3, <2>2
<1> HIDE DEF kept, m, n, scratch, replayed
<1>7. DOMAIN history = 1 .. Len(history) /\ Len(history) \in Nat
  BY <1>2
<1>8. Commands(history') \subseteq Commands(history)
  <2> SUFFICES ASSUME NEW i \in 1 .. n PROVE history'[i].seq \in Commands(history)
    BY <1>5 DEF Commands
  <2>1. m + i \in DOMAIN history
    BY <1>3, <1>7
  <2> QED BY <1>6, <2>1 DEF Commands
<1>9. ASSUME NEW i \in 1 .. Len(history), ~(history[i].seq <= a.ack)
      PROVE  history[i].seq \in Commands(history')
  <2>1. i - m \in 1 .. n /\ m + (i - m) = i
    BY <1>3, <1>4, <1>7, <1>9
  <2> QED BY <1>5, <1>6, <2>1 DEF Commands
<1> QED BY <1>1, <1>7, <1>8, <1>9 DEF Commands

\* What a call may do to the retained commands.
LEMMA StepKeepsCommands ==
  ASSUME Inv, [Next]_vars
  PROVE  /\ \A q \in Commands(history) \ Commands(history') :
              q <= acked' \/ commit'.kind = "HardResync"
         /\ Commands(history') \subseteq
              Commands(history) \cup (IF commit'.kind = "Advance" THEN {submitted'} ELSE {})
<1> DEFINE Good ==
         /\ \A q \in Commands(history) \ Commands(history') :
              q <= acked' \/ commit'.kind = "HardResync"
         /\ Commands(history') \subseteq
              Commands(history) \cup (IF commit'.kind = "Advance" THEN {submitted'} ELSE {})
<1>1. ASSUME history' = history PROVE Good
  BY <1>1 DEF Commands
<1>2. ASSUME Fail PROVE Good
  BY <1>1, <1>2 DEF Fail, committed
<1>3. ASSUME NEW a \in AuthorityFrames, NEW sc, NEW r, NEW kind, NEW newer,
             Replay(a, sc, r, kind, newer)
      PROVE  Good
  <2>1. CASE Fail
    BY <1>2, <2>1
  <2>2. CASE ~Fail
    <3>1. ValidIds(a)
      BY <1>3, <2>2 DEF Replay, ValidAuthority
    <3>2. a.ack \in Int
      BY <3>1, FrameOfAuthority
    <3>3. /\ Commands(history') \subseteq Commands(history)
          /\ \A q \in Commands(history) \ Commands(history') : q <= acked'
      BY <1>3, <2>2, <3>2, ReplayKeeps
    <3> QED BY <3>3
  <2> QED BY <2>1, <2>2
<1>4. ASSUME NEW seq, NEW st, Advance(seq, st) PROVE Good
  <2>1. CASE Fail
    BY <1>2, <2>1
  <2>2. CASE ~Fail
    <3>1. /\ history' = Append(history, PredictedFrame(seq, st))
          /\ commit'.kind = "Advance" /\ submitted' = seq
      BY <1>4, <2>2 DEF Advance
    <3>2. history \in Seq(Frames) /\ PredictedFrame(seq, st).seq = seq
      BY DEF Inv, TypeOK, PredictedFrame
    <3>3. /\ DOMAIN history = 1 .. Len(history) /\ Len(history) \in Nat
          /\ DOMAIN history' = 1 .. Len(history) + 1
          /\ \A i \in 1 .. Len(history) : history'[i] = history[i]
          /\ history'[Len(history) + 1] = PredictedFrame(seq, st)
      BY <3>1, <3>2
    <3>4. Commands(history) \subseteq Commands(history')
      BY <3>3 DEF Commands
    <3>5. Commands(history') \subseteq Commands(history) \cup {seq}
      BY <3>2, <3>3 DEF Commands
    <3> QED BY <3>1, <3>4, <3>5
  <2> QED BY <2>1, <2>2
<1>5. ASSUME NEW a, NEW sc, Initialize(a, sc) PROVE Good
  <2>1. CASE Fail
    BY <1>2, <2>1
  <2>2. CASE ~Fail
    <3>1. history' = << >> /\ ~initialized
      BY <1>5, <2>2 DEF Initialize, MayInitialize, Install
    <3>2. history = << >>
      BY <3>1 DEF Inv, TypeOK
    <3> QED BY <1>1, <3>1, <3>2
  <2> QED BY <2>1, <2>2
<1>6. ASSUME NEW a, NEW sc, HardResync(a, sc) PROVE Good
  <2>1. CASE Fail
    BY <1>2, <2>1
  <2>2. CASE ~Fail
    <3>1. history' = << >> /\ commit'.kind = "HardResync"
      BY <1>6, <2>2 DEF HardResync, Install
    <3>2. Commands(history') = {}
      BY <3>1 DEF Commands
    <3> QED BY <3>1, <3>2
  <2> QED BY <2>1, <2>2
<1>7. ASSUME UNCHANGED vars PROVE Good
  BY <1>1, <1>7 DEF vars, committed
<1> HIDE DEF Good
<1>8. ASSUME NEW a \in AuthorityFrames, NEW sc, NEW r,
             Reconcile(a, r) \/ RefreshAuthority(a, r) \/ RebaseScope(a, sc, r)
      PROVE  Good
  BY <1>2, <1>3, <1>8 DEF Reconcile, RefreshAuthority, RebaseScope
<1>9. Good
  BY <1>4, <1>5, <1>6, <1>7, <1>8 DEF Next
<1> QED BY <1>9 DEF Good

\* A submitted command leaves the history only by an acknowledgement or a hard
\* resync, and enters it only by an advance.
THEOREM CommandsAreKept == Spec => CommandsKept
<1>1. Inv /\ [Next]_vars =>
        [LET Held(h) == {h[i].seq : i \in DOMAIN h}
         IN /\ \A q \in Held(history) \ Held(history') :
                 q <= acked' \/ commit'.kind = "HardResync"
            /\ Held(history') \subseteq
                 Held(history) \cup (IF commit'.kind = "Advance"
                                    THEN {submitted'} ELSE {})]_vars
  BY StepKeepsCommands DEF Commands
<1> QED BY <1>1, InvHolds, PTL DEF Spec, CommandsKept

-----------------------------------------------------------------------------
(* The published changes.                                                  *)

\* No two events of a journal share a key.
KeyedOnce(journal) ==
  \A e, f \in journal : EventKey(e) = EventKey(f) => e = f

\* A frame sequence without repeated keys has a journal without repeated keys.
LEMMA JournalKeyedOnce ==
  ASSUME NEW frames, UniqueKeys(frames)
  PROVE  KeyedOnce(Journal(frames))
<1> SUFFICES ASSUME NEW e \in Journal(frames), NEW f \in Journal(frames),
                    EventKey(e) = EventKey(f)
             PROVE  e = f
  BY DEF KeyedOnce
<1>1. PICK i \in DOMAIN frames : \E j \in DOMAIN frames[i].events :
        e = frames[i].events[j]
  BY DEF Journal
<1>2. PICK k \in DOMAIN frames : \E l \in DOMAIN frames[k].events :
        f = frames[k].events[l]
  BY DEF Journal
<1>3. PICK j \in DOMAIN frames[i].events : e = frames[i].events[j]
  BY <1>1
<1>4. PICK l \in DOMAIN frames[k].events : f = frames[k].events[l]
  BY <1>2
<1>5. i = k /\ j = l
  BY <1>3, <1>4 DEF UniqueKeys
<1> QED BY <1>3, <1>4, <1>5

\* What a change says of the key it names: which of the old journal, the new
\* journal and the outcomes hold the key, and what the change carries.
IsConfirmed(c, old, outcomes) ==
  \E e \in old, o \in outcomes :
    /\ EventKey(e) = o.key /\ o.confirmed
    /\ c = Change("Confirmed", o.key, e, o.event)
IsRevised(c, old, new, outcomes) ==
  \E e \in old, n \in new :
    /\ EventKey(e) = EventKey(n) /\ e # n
    /\ \A o \in outcomes : o.key # EventKey(e)
    /\ c = Change("Revised", EventKey(e), e, n)
IsRetracted(c, old, new, outcomes) ==
  \E e \in old :
    /\ \/ \E o \in outcomes : o.key = EventKey(e) /\ ~o.confirmed
       \/ /\ \A o \in outcomes : o.key # EventKey(e)
          /\ EventKey(e) \notin KeysOf(new)
    /\ c = Change("Retracted", EventKey(e), e, None)
IsFirstPredicted(c, old, new) ==
  \E n \in new :
    /\ EventKey(n) \notin KeysOf(old)
    /\ c = Change("FirstPredicted", EventKey(n), None, n)
IsAuthorityOnly(c, old, outcomes) ==
  \E o \in outcomes :
    /\ o.confirmed /\ o.key \notin KeysOf(old)
    /\ c = Change("AuthorityOnly", o.key, None, o.event)

\* The changes of a resolution are exactly those five kinds.
LEMMA ChangeKinds ==
  ASSUME NEW old, NEW new, NEW outcomes
  PROVE  \A c : c \in EventChanges(old, new, outcomes) <=>
           \/ IsConfirmed(c, old, outcomes)
           \/ IsRevised(c, old, new, outcomes)
           \/ IsRetracted(c, old, new, outcomes)
           \/ IsFirstPredicted(c, old, new)
           \/ IsAuthorityOnly(c, old, outcomes)
<1> TAKE c
<1> DEFINE settled == {o.key : o \in outcomes}
           confirmed == {p \in old \X outcomes :
                           EventKey(p[1]) = p[2].key /\ p[2].confirmed}
           revised == {p \in old \X new : /\ EventKey(p[1]) = EventKey(p[2])
                                          /\ EventKey(p[1]) \notin settled
                                          /\ p[1] # p[2]}
           retracted == {e \in old :
                           \/ \E o \in outcomes : o.key = EventKey(e) /\ ~o.confirmed
                           \/ EventKey(e) \notin settled \cup KeysOf(new)}
           C == {Change("Confirmed", p[2].key, p[1], p[2].event) : p \in confirmed}
           R == {Change("Revised", EventKey(p[1]), p[1], p[2]) : p \in revised}
           X == {Change("Retracted", EventKey(e), e, None) : e \in retracted}
           F == {Change("FirstPredicted", EventKey(n), None, n) :
                   n \in {x \in new : EventKey(x) \notin KeysOf(old)}}
           A == {Change("AuthorityOnly", o.key, None, o.event) :
                   o \in {x \in outcomes : x.confirmed /\ x.key \notin KeysOf(old)}}
<1>1. EventChanges(old, new, outcomes) = C \cup R \cup X \cup F \cup A
  BY DEF EventChanges
<1>2. c \in C <=> IsConfirmed(c, old, outcomes)
  <2>1. ASSUME c \in C PROVE IsConfirmed(c, old, outcomes)
    <3>1. PICK p \in confirmed : c = Change("Confirmed", p[2].key, p[1], p[2].event)
      BY <2>1
    <3>2. p[1] \in old /\ p[2] \in outcomes /\ EventKey(p[1]) = p[2].key /\ p[2].confirmed
      BY <3>1
    <3> QED BY <3>1, <3>2 DEF IsConfirmed
  <2>2. ASSUME NEW e \in old, NEW o \in outcomes, EventKey(e) = o.key, o.confirmed
        PROVE  Change("Confirmed", o.key, e, o.event) \in C
    <3>1. <<e, o>> \in confirmed
      BY <2>2
    <3> QED BY <3>1
  <2> QED BY <2>1, <2>2 DEF IsConfirmed
<1>3. c \in R <=> IsRevised(c, old, new, outcomes)
  <2>1. ASSUME c \in R PROVE IsRevised(c, old, new, outcomes)
    <3>1. PICK p \in revised : c = Change("Revised", EventKey(p[1]), p[1], p[2])
      BY <2>1
    <3>2. /\ p[1] \in old /\ p[2] \in new /\ EventKey(p[1]) = EventKey(p[2])
          /\ p[1] # p[2] /\ \A o \in outcomes : o.key # EventKey(p[1])
      BY <3>1
    <3> QED BY <3>1, <3>2 DEF IsRevised
  <2>2. ASSUME NEW e \in old, NEW n \in new, EventKey(e) = EventKey(n), e # n,
               \A o \in outcomes : o.key # EventKey(e)
        PROVE  Change("Revised", EventKey(e), e, n) \in R
    <3>1. <<e, n>> \in revised
      BY <2>2
    <3> QED BY <3>1
  <2> QED BY <2>1, <2>2 DEF IsRevised
<1>4. c \in X <=> IsRetracted(c, old, new, outcomes)
  BY Zenon DEF IsRetracted
<1>5. c \in F <=> IsFirstPredicted(c, old, new)
  BY Zenon DEF IsFirstPredicted
<1>6. c \in A <=> IsAuthorityOnly(c, old, outcomes)
  BY Zenon DEF IsAuthorityOnly
<1> HIDE DEF C, R, X, F, A
<1> QED BY <1>1, <1>2, <1>3, <1>4, <1>5, <1>6

\* The fields of a change.
LEMMA ChangeFields ==
  ASSUME NEW t, NEW k, NEW p, NEW n
  PROVE  /\ Change(t, k, p, n).transition = t /\ Change(t, k, p, n).key = k
         /\ Change(t, k, p, n).previous = p /\ Change(t, k, p, n).current = n
  BY DEF Change

\* The changes and the retired keys account for the step from one journal to
\* another.
Explains(old, new, changes, retired) ==
  /\ new = Applied(old, changes)
  /\ \A c, d \in changes : c.key = d.key => c = d
  /\ \A c \in changes :
       c.transition \in {"Revised", "Retracted", "Confirmed"} <=> c.previous \in old
  /\ retired \cap KeysOf(new) = {}

\* The transition of a change tells its kind.
LEMMA TransitionNamesKind ==
  ASSUME NEW old, NEW new, NEW outcomes,
         NEW c \in EventChanges(old, new, outcomes)
  PROVE  /\ c.transition = "Confirmed" => IsConfirmed(c, old, outcomes)
         /\ c.transition = "Revised" => IsRevised(c, old, new, outcomes)
         /\ c.transition = "Retracted" => IsRetracted(c, old, new, outcomes)
         /\ c.transition = "FirstPredicted" => IsFirstPredicted(c, old, new)
         /\ c.transition = "AuthorityOnly" => IsAuthorityOnly(c, old, outcomes)
<1>1. IsConfirmed(c, old, outcomes) => c.transition = "Confirmed"
  BY ChangeFields DEF IsConfirmed
<1>2. IsRevised(c, old, new, outcomes) => c.transition = "Revised"
  BY ChangeFields DEF IsRevised
<1>3. IsRetracted(c, old, new, outcomes) => c.transition = "Retracted"
  BY ChangeFields DEF IsRetracted
<1>4. IsFirstPredicted(c, old, new) => c.transition = "FirstPredicted"
  BY ChangeFields DEF IsFirstPredicted
<1>5. IsAuthorityOnly(c, old, outcomes) => c.transition = "AuthorityOnly"
  BY ChangeFields DEF IsAuthorityOnly
<1> QED BY <1>1, <1>2, <1>3, <1>4, <1>5, ChangeKinds

\* Which kind of change a key gets depends on the journals and outcomes alone.
LEMMA KindOfKey ==
  ASSUME NEW old, NEW new, NEW outcomes,
         NEW c \in EventChanges(old, new, outcomes)
  PROVE  \/ /\ c.transition = "Confirmed" /\ c.key \in KeysOf(old)
            /\ \E o \in outcomes : o.key = c.key /\ o.confirmed
         \/ /\ c.transition = "Revised" /\ c.key \in KeysOf(old)
            /\ c.key \in KeysOf(new) /\ \A o \in outcomes : o.key # c.key
         \/ /\ c.transition = "Retracted" /\ c.key \in KeysOf(old)
            /\ \/ \E o \in outcomes : o.key = c.key /\ ~o.confirmed
               \/ /\ \A o \in outcomes : o.key # c.key
                  /\ c.key \notin KeysOf(new)
         \/ /\ c.transition = "FirstPredicted" /\ c.key \notin KeysOf(old)
            /\ c.key \in KeysOf(new)
         \/ /\ c.transition = "AuthorityOnly" /\ c.key \notin KeysOf(old)
            /\ \E o \in outcomes : o.key = c.key /\ o.confirmed
<1>1. CASE IsConfirmed(c, old, outcomes)
  BY <1>1, ChangeFields DEF IsConfirmed, KeysOf
<1>2. CASE IsRevised(c, old, new, outcomes)
  BY <1>2, ChangeFields DEF IsRevised, KeysOf
<1>3. CASE IsRetracted(c, old, new, outcomes)
  <2>1. PICK e \in old :
          /\ \/ \E o \in outcomes : o.key = EventKey(e) /\ ~o.confirmed
             \/ /\ \A o \in outcomes : o.key # EventKey(e)
                /\ EventKey(e) \notin KeysOf(new)
          /\ c = Change("Retracted", EventKey(e), e, None)
    BY <1>3 DEF IsRetracted
  <2>2. c.transition = "Retracted" /\ c.key = EventKey(e)
    BY <2>1, ChangeFields
  <2>3. c.key \in KeysOf(old)
    BY <2>2 DEF KeysOf
  <2> QED BY <2>1, <2>2, <2>3
<1>4. CASE IsFirstPredicted(c, old, new)
  <2>1. PICK n \in new : /\ EventKey(n) \notin KeysOf(old)
                         /\ c = Change("FirstPredicted", EventKey(n), None, n)
    BY <1>4 DEF IsFirstPredicted
  <2>2. c.transition = "FirstPredicted" /\ c.key = EventKey(n)
    BY <2>1, ChangeFields
  <2>3. c.key \in KeysOf(new)
    BY <2>2 DEF KeysOf
  <2> QED BY <2>1, <2>2, <2>3
<1>5. CASE IsAuthorityOnly(c, old, outcomes)
  BY <1>5, ChangeFields DEF IsAuthorityOnly
<1> QED BY <1>1, <1>2, <1>3, <1>4, <1>5, ChangeKinds

\* Authority settles no key of the new journal, and settles each key once.
LEMMA ChangesKeyedOnce ==
  ASSUME NEW old, NEW new, NEW outcomes, KeyedOnce(old), KeyedOnce(new),
         ValidAuthorityEvents(outcomes), ~Conflicting(new, outcomes),
         NEW c \in EventChanges(old, new, outcomes),
         NEW d \in EventChanges(old, new, outcomes), c.key = d.key
  PROVE  c = d
<1>1. \A o, p \in outcomes : o.key = p.key => o = p
  BY DEF ValidAuthorityEvents
<1>2. \A o \in outcomes : o.key \notin KeysOf(new)
  BY DEF Conflicting
<1>3. c.transition = d.transition
  BY <1>1, <1>2, KindOfKey
<1>4. \A e, f \in old : EventKey(e) = EventKey(f) => e = f
  BY DEF KeyedOnce
<1>5. \A e, f \in new : EventKey(e) = EventKey(f) => e = f
  BY DEF KeyedOnce
<1>6. CASE c.transition = "Confirmed"
  <2>1. IsConfirmed(c, old, outcomes) /\ IsConfirmed(d, old, outcomes)
    BY <1>3, <1>6, TransitionNamesKind
  <2> QED BY <1>1, <1>4, <2>1, ChangeFields DEF IsConfirmed
<1>7. CASE c.transition = "Revised"
  <2>1. IsRevised(c, old, new, outcomes) /\ IsRevised(d, old, new, outcomes)
    BY <1>3, <1>7, TransitionNamesKind
  <2> QED BY <1>4, <1>5, <2>1, ChangeFields DEF IsRevised
<1>8. CASE c.transition = "Retracted"
  <2>1. IsRetracted(c, old, new, outcomes) /\ IsRetracted(d, old, new, outcomes)
    BY <1>3, <1>8, TransitionNamesKind
  <2> QED BY <1>4, <2>1, ChangeFields DEF IsRetracted
<1>9. CASE c.transition = "FirstPredicted"
  <2>1. IsFirstPredicted(c, old, new) /\ IsFirstPredicted(d, old, new)
    BY <1>3, <1>9, TransitionNamesKind
  <2> QED BY <1>5, <2>1, ChangeFields DEF IsFirstPredicted
<1>10. CASE c.transition = "AuthorityOnly"
  <2>1. IsAuthorityOnly(c, old, outcomes) /\ IsAuthorityOnly(d, old, outcomes)
    BY <1>3, <1>10, TransitionNamesKind
  <2> QED BY <1>1, <2>1, ChangeFields DEF IsAuthorityOnly
<1> QED BY <1>6, <1>7, <1>8, <1>9, <1>10, KindOfKey

\* Applying the changes of a resolution to the old journal yields the new one.
LEMMA ChangesApply ==
  ASSUME NEW old, NEW new, NEW outcomes, KeyedOnce(old), KeyedOnce(new),
         ~Conflicting(new, outcomes)
  PROVE  new = Applied(old, EventChanges(old, new, outcomes))
<1> DEFINE ch == EventChanges(old, new, outcomes)
           touched == {c.key : c \in ch}
           brought == {c.current : c \in {x \in ch :
                         x.transition \in {"FirstPredicted", "Revised"}}}
<1>1. Applied(old, ch) = {e \in old : EventKey(e) \notin touched} \cup brought
  BY Zenon DEF Applied
<1>2. \A o \in outcomes : o.key \notin KeysOf(new)
  BY DEF Conflicting
<1>3. ASSUME NEW n \in new PROVE n \in Applied(old, ch)
  <2>1. EventKey(n) \in KeysOf(new)
    BY DEF KeysOf
  <2>2. CASE EventKey(n) \notin KeysOf(old)
    <3> DEFINE c == Change("FirstPredicted", EventKey(n), None, n)
    <3>1. c \in ch
      BY <2>2, ChangeKinds DEF IsFirstPredicted
    <3>2. c.transition = "FirstPredicted" /\ c.current = n
      BY ChangeFields
    <3> HIDE DEF c, ch
    <3> QED BY <1>1, <3>1, <3>2
  <2>3. ASSUME NEW e \in old, EventKey(e) = EventKey(n), e # n
        PROVE  n \in Applied(old, ch)
    <3> DEFINE c == Change("Revised", EventKey(e), e, n)
    <3>1. \A o \in outcomes : o.key # EventKey(e)
      BY <1>2, <2>1, <2>3
    <3>2. c \in ch
      BY <2>3, <3>1, ChangeKinds DEF IsRevised
    <3>3. c.transition = "Revised" /\ c.current = n
      BY ChangeFields
    <3> HIDE DEF c, ch
    <3> QED BY <1>1, <3>2, <3>3
  <2>4. ASSUME n \in old PROVE n \in Applied(old, ch)
    <3>1. EventKey(n) \in KeysOf(old)
      BY <2>4 DEF KeysOf
    <3>2. ASSUME NEW c \in ch, c.key = EventKey(n) PROVE FALSE
      <4>1. IsRevised(c, old, new, outcomes)
        <5>1. c.transition = "Revised"
          BY <1>2, <2>1, <3>1, <3>2, KindOfKey
        <5> QED BY <3>2, <5>1, ChangeKinds, ChangeFields
                DEF IsConfirmed, IsRetracted, IsFirstPredicted, IsAuthorityOnly
      <4>2. PICK e \in old, m \in new :
              /\ EventKey(e) = EventKey(m) /\ e # m
              /\ c = Change("Revised", EventKey(e), e, m)
        BY <4>1 DEF IsRevised
      <4>3. EventKey(e) = EventKey(n)
        BY <3>2, <4>2, ChangeFields
      <4> QED BY <2>4, <4>2, <4>3 DEF KeyedOnce
    <3> HIDE DEF ch
    <3> QED BY <1>1, <2>4, <3>2
  <2> QED BY <2>2, <2>3, <2>4 DEF KeysOf
<1>4. ASSUME NEW e \in old, EventKey(e) \notin touched PROVE e \in new
  <2>1. \A o \in outcomes : o.key # EventKey(e)
    <3> SUFFICES ASSUME NEW o \in outcomes, o.key = EventKey(e) PROVE FALSE
      OBVIOUS
    <3>1. CASE o.confirmed
      <4> DEFINE c == Change("Confirmed", o.key, e, o.event)
      <4>1. c \in ch
        BY <3>1, ChangeKinds DEF IsConfirmed
      <4>2. c.key = EventKey(e)
        BY ChangeFields
      <4> HIDE DEF c, ch
      <4> QED BY <1>4, <4>1, <4>2
    <3>2. CASE ~o.confirmed
      <4> DEFINE c == Change("Retracted", EventKey(e), e, None)
      <4>1. c \in ch
        BY <3>2, ChangeKinds DEF IsRetracted
      <4>2. c.key = EventKey(e)
        BY ChangeFields
      <4> HIDE DEF c, ch
      <4> QED BY <1>4, <4>1, <4>2
    <3> QED BY <3>1, <3>2
  <2>2. EventKey(e) \in KeysOf(new)
    <3> SUFFICES ASSUME EventKey(e) \notin KeysOf(new) PROVE FALSE
      OBVIOUS
    <3> DEFINE c == Change("Retracted", EventKey(e), e, None)
    <3>1. c \in ch
      BY <2>1, ChangeKinds DEF IsRetracted
    <3>2. c.key = EventKey(e)
      BY ChangeFields
    <3> HIDE DEF c, ch
    <3> QED BY <1>4, <3>1, <3>2
  <2>3. PICK n \in new : EventKey(n) = EventKey(e)
    BY <2>2 DEF KeysOf
  <2>4. ASSUME e # n PROVE FALSE
    <3> DEFINE c == Change("Revised", EventKey(e), e, n)
    <3>1. c \in ch
      BY <2>1, <2>3, <2>4, ChangeKinds DEF IsRevised
    <3>2. c.key = EventKey(e)
      BY ChangeFields
    <3> HIDE DEF c, ch
    <3> QED BY <1>4, <3>1, <3>2
  <2> QED BY <2>3, <2>4
<1>5. ASSUME NEW c \in ch, c.transition \in {"FirstPredicted", "Revised"}
      PROVE  c.current \in new
  <2>1. IsFirstPredicted(c, old, new) \/ IsRevised(c, old, new, outcomes)
    BY <1>5, ChangeKinds, ChangeFields DEF IsConfirmed, IsRetracted, IsAuthorityOnly
  <2> QED BY <2>1, ChangeFields DEF IsFirstPredicted, IsRevised
<1>6. Applied(old, ch) \subseteq new
  <2> HIDE DEF ch
  <2> QED BY <1>1, <1>4, <1>5
<1> HIDE DEF ch
<1>7. new = Applied(old, ch)
  BY <1>3, <1>6
<1> QED BY <1>7 DEF ch

\* A resolution accounts for the step between its journals.
LEMMA ResolutionExplains ==
  ASSUME NEW old \in SUBSET Events, NEW new \in SUBSET Events, NEW outcomes,
         KeyedOnce(old), KeyedOnce(new),
         ValidAuthorityEvents(outcomes), ~Conflicting(new, outcomes)
  PROVE  Explains(old, new, EventChanges(old, new, outcomes),
                  RetiredKeys(old, new, outcomes))
<1>1. new = Applied(old, EventChanges(old, new, outcomes))
  BY ChangesApply
<1>2. \A c, d \in EventChanges(old, new, outcomes) : c.key = d.key => c = d
  BY ChangesKeyedOnce
<1>3. ASSUME NEW c \in EventChanges(old, new, outcomes)
      PROVE  c.transition \in {"Revised", "Retracted", "Confirmed"} <=> c.previous \in old
  <2>1. None \notin old
    BY ModelAssumption
  <2>2. CASE IsConfirmed(c, old, outcomes)
    BY <2>2, ChangeFields DEF IsConfirmed
  <2>3. CASE IsRevised(c, old, new, outcomes)
    BY <2>3, ChangeFields DEF IsRevised
  <2>4. CASE IsRetracted(c, old, new, outcomes)
    BY <2>4, ChangeFields DEF IsRetracted
  <2>5. CASE IsFirstPredicted(c, old, new)
    BY <2>1, <2>5, ChangeFields DEF IsFirstPredicted
  <2>6. CASE IsAuthorityOnly(c, old, outcomes)
    BY <2>1, <2>6, ChangeFields DEF IsAuthorityOnly
  <2> QED BY <2>2, <2>3, <2>4, <2>5, <2>6, ChangeKinds
<1>4. RetiredKeys(old, new, outcomes) \cap KeysOf(new) = {}
  <2>1. \A o \in outcomes : o.key \notin KeysOf(new)
    BY DEF Conflicting
  <2> QED BY <2>1 DEF RetiredKeys
<1> QED BY <1>1, <1>2, <1>3, <1>4 DEF Explains

\* The commit of a call accounts for what the call did to the journal.
CommitExplains ==
  Explains(Journal(history), Journal(history'), commit'.changes, commit'.retired)

\* A failed call publishes nothing and keeps the journal.
LEMMA FailExplains == Fail => CommitExplains
<1> SUFFICES ASSUME Fail PROVE CommitExplains
  OBVIOUS
<1>1. history' = history /\ commit'.changes = {} /\ commit'.retired = {}
  BY DEF Fail, committed, NoCommit
<1>2. Journal(history) = Applied(Journal(history), {})
  BY DEF Applied
<1> QED BY <1>1, <1>2 DEF CommitExplains, Explains

\* Installing a frame settles or retracts every predicted event.
LEMMA InstallExplains ==
  ASSUME Inv, JournalKeysUnique, NEW a, NEW sc, NEW kind,
         ValidAuthorityEvents(a.events), Install(a, sc, kind)
  PROVE  CommitExplains
<1>1. /\ history' = << >>
      /\ commit'.changes = EventChanges(Journal(history), {}, a.events)
      /\ commit'.retired = RetiredKeys(Journal(history), {}, a.events)
  BY DEF Install
<1>2. Journal(history') = {}
  BY <1>1 DEF Journal
<1>3. Journal(history) \in SUBSET Events /\ KeyedOnce(Journal(history))
  BY JournalTypes, JournalKeyedOnce DEF Inv, TypeOK, JournalKeysUnique
<1>4. KeyedOnce({}) /\ ~Conflicting({}, a.events)
  BY DEF KeyedOnce, Conflicting, KeysOf
<1>5. Explains(Journal(history), {}, EventChanges(Journal(history), {}, a.events),
               RetiredKeys(Journal(history), {}, a.events))
  BY <1>3, <1>4, ResolutionExplains
<1> QED BY <1>1, <1>2, <1>5 DEF CommitExplains

\* A committed replay resolves the two journals under the authority outcomes.
LEMMA ReplayExplains ==
  ASSUME Inv, Inv', JournalKeysUnique, NEW a, NEW sc, NEW r, NEW kind, NEW newer,
         Replay(a, sc, r, kind, newer)
  PROVE  CommitExplains
<1>1. CASE Fail
  BY <1>1, FailExplains
<1>2. CASE ~Fail
  <2>1. PICK replayed :
          /\ ValidAuthority(a, newer, FALSE) /\ UniqueKeys(replayed)
          /\ ~Conflicting(Journal(replayed), a.events)
          /\ history' = replayed
          /\ commit' = [kind |-> kind,
                        changes |-> EventChanges(Journal(history),
                                      Journal(replayed), a.events),
                        retired |-> RetiredKeys(Journal(history),
                                      Journal(replayed), a.events)]
    BY <1>2, Zenon DEF Replay
  <2>2. /\ commit'.changes =
             EventChanges(Journal(history), Journal(replayed), a.events)
        /\ commit'.retired =
             RetiredKeys(Journal(history), Journal(replayed), a.events)
    BY <2>1
  <2>3. Journal(history) \in SUBSET Events /\ KeyedOnce(Journal(history))
    BY JournalTypes, JournalKeyedOnce DEF Inv, TypeOK, JournalKeysUnique
  <2>4. Journal(replayed) \in SUBSET Events /\ KeyedOnce(Journal(replayed))
    <3>1. replayed \in Seq(Frames)
      BY <2>1 DEF Inv, TypeOK
    <3> QED BY <2>1, <3>1, JournalTypes, JournalKeyedOnce
  <2>5. ValidAuthorityEvents(a.events)
    BY <2>1 DEF ValidAuthority
  <2>6. Explains(Journal(history), Journal(replayed),
                 EventChanges(Journal(history), Journal(replayed), a.events),
                 RetiredKeys(Journal(history), Journal(replayed), a.events))
    BY <2>1, <2>3, <2>4, <2>5, ResolutionExplains
  <2>7. Journal(history') = Journal(replayed)
    BY <2>1
  <2> QED BY <2>2, <2>6, <2>7 DEF CommitExplains
<1> QED BY <1>1, <1>2

\* Changes that only predict events with new keys extend the journal by them.
LEMMA PredictionExplains ==
  ASSUME NEW old \in SUBSET Events, NEW added, KeyedOnce(added),
         \A e \in added : EventKey(e) \notin KeysOf(old)
  PROVE  Explains(old, old \cup added,
                  {Change("FirstPredicted", EventKey(e), None, e) : e \in added}, {})
<1> DEFINE ch == {Change("FirstPredicted", EventKey(e), None, e) : e \in added}
<1>1. \A c \in ch : \E e \in added :
        /\ c.transition = "FirstPredicted" /\ c.key = EventKey(e)
        /\ c.previous = None /\ c.current = e
        /\ c = Change("FirstPredicted", EventKey(e), None, e)
  BY ChangeFields
<1>2. \A e \in added : \E c \in ch :
        c.transition = "FirstPredicted" /\ c.key = EventKey(e) /\ c.current = e
  <2> TAKE e \in added
  <2> DEFINE c == Change("FirstPredicted", EventKey(e), None, e)
  <2>1. c \in ch
    OBVIOUS
  <2>2. c.transition = "FirstPredicted" /\ c.key = EventKey(e) /\ c.current = e
    BY ChangeFields
  <2> HIDE DEF c, ch
  <2> QED BY <2>1, <2>2
<1>3. None \notin old
  BY ModelAssumption
<1> HIDE DEF ch
<1>4. \A c, d \in ch : c.key = d.key => c = d
  BY <1>1 DEF KeyedOnce
<1>5. \A c \in ch : c.previous \notin old /\ c.transition = "FirstPredicted"
  BY <1>1, <1>3
<1>6. {e \in old : EventKey(e) \notin {c.key : c \in ch}} = old
  BY <1>1 DEF KeysOf
<1>7. {c.current : c \in {x \in ch : x.transition \in {"FirstPredicted", "Revised"}}}
        = added
  BY <1>1, <1>2
<1>8. Applied(old, ch) = old \cup added
  BY <1>6, <1>7 DEF Applied
<1>9. Explains(old, old \cup added, ch, {})
  BY <1>4, <1>5, <1>8 DEF Explains
<1> QED BY <1>9 DEF ch

\* An advance predicts the events of its frame, whose keys are new.
LEMMA AdvanceExplains ==
  ASSUME Inv, NEW seq, NEW stimulus, Advance(seq, stimulus)
  PROVE  CommitExplains
<1>1. CASE Fail
  BY <1>1, FailExplains
<1>2. CASE ~Fail
  <2> DEFINE frame == PredictedFrame(seq, stimulus)
             n == Len(history)
  <2>1. /\ UniqueKeys(Append(history, frame)) /\ history' = Append(history, frame)
        /\ commit' = [kind |-> "Advance",
                      changes |-> {Change("FirstPredicted", EventKey(e), None, e) :
                                     e \in Journal(<<frame>>)},
                      retired |-> {}]
    BY <1>2 DEF Advance, AdvanceSteps
  <2>2. history \in Seq(Frames)
    BY DEF Inv, TypeOK
  <2> HIDE DEF frame
  <2>3. /\ DOMAIN history = 1 .. n /\ n \in Nat
        /\ DOMAIN history' = 1 .. n + 1
        /\ \A i \in 1 .. n : history'[i] = history[i]
        /\ history'[n + 1] = frame
    BY <2>1, <2>2
  <2>4. Journal(<<frame>>) = {frame.events[j] : j \in DOMAIN frame.events}
    <3>1. DOMAIN <<frame>> = {1} /\ <<frame>>[1] = frame
      OBVIOUS
    <3> HIDE DEF frame
    <3> QED BY <3>1 DEF Journal
  <2>5. Journal(history') = Journal(history) \cup Journal(<<frame>>)
    BY <2>3, <2>4 DEF Journal
  <2>6. UniqueKeys(history')
    BY <2>1
  <2>7. KeyedOnce(Journal(<<frame>>))
    BY <2>5, <2>6, JournalKeyedOnce DEF KeyedOnce
  <2>8. ASSUME NEW j \in DOMAIN frame.events, NEW e \in Journal(history),
               EventKey(frame.events[j]) = EventKey(e)
        PROVE  FALSE
    <3>1. PICK i \in 1 .. n : \E l \in DOMAIN history[i].events :
            e = history[i].events[l]
      BY <2>3 DEF Journal
    <3>2. PICK l \in DOMAIN history[i].events : e = history[i].events[l]
      BY <3>1
    <3>3. history'[i] = history[i] /\ i \in DOMAIN history' /\ n + 1 \in DOMAIN history'
      BY <2>3
    <3>4. n + 1 = i
      BY <2>3, <2>6, <2>8, <3>2, <3>3 DEF UniqueKeys
    <3> QED BY <2>3, <3>4
  <2>9. \A e \in Journal(<<frame>>) : EventKey(e) \notin KeysOf(Journal(history))
    BY <2>4, <2>8 DEF KeysOf
  <2>10. Journal(history) \in SUBSET Events
    BY <2>2, JournalTypes
  <2>11. Explains(Journal(history), Journal(history) \cup Journal(<<frame>>),
                  {Change("FirstPredicted", EventKey(e), None, e) :
                     e \in Journal(<<frame>>)}, {})
    BY <2>7, <2>9, <2>10, PredictionExplains
  <2>12. /\ commit'.changes = {Change("FirstPredicted", EventKey(e), None, e) :
                                 e \in Journal(<<frame>>)}
         /\ commit'.retired = {}
    BY <2>1
  <2> QED BY <2>5, <2>11, <2>12 DEF CommitExplains
<1> QED BY <1>1, <1>2

\* Every call publishes changes that account for the journal.
LEMMA StepExplains ==
  ASSUME Inv, Inv', JournalKeysUnique, Next
  PROVE  CommitExplains
<1>1. ASSUME NEW a, NEW sc, Initialize(a, sc) \/ HardResync(a, sc)
      PROVE  CommitExplains
  BY <1>1, FailExplains, InstallExplains
     DEF Initialize, MayInitialize, HardResync, MayHardResync, ValidAuthority
<1>2. ASSUME NEW a, NEW sc, NEW r,
             Reconcile(a, r) \/ RefreshAuthority(a, r) \/ RebaseScope(a, sc, r)
      PROVE  CommitExplains
  BY <1>2, FailExplains, ReplayExplains DEF Reconcile, RefreshAuthority, RebaseScope
<1> QED BY <1>1, <1>2, AdvanceExplains DEF Next

\* A consumer that follows the published changes alone always holds the journal
\* of the retained history: every commit's changes turn the old journal into the
\* new one, name each key once, and retire only keys the journal no longer holds.
THEOREM ChangesAlwaysExplain == Spec => ChangesExplainJournal
<1>1. Init => JournalKeysUnique
  BY DEF Init, JournalKeysUnique, UniqueKeys
<1>2. Spec => []JournalKeysUnique
  BY <1>1, NextKeys, PTL DEF Spec
<1>3. Inv /\ Inv' /\ JournalKeysUnique /\ [Next]_vars =>
        [/\ Journal(history') = Applied(Journal(history), commit'.changes)
         /\ \A c, d \in commit'.changes : c.key = d.key => c = d
         /\ \A c \in commit'.changes :
              c.transition \in {"Revised", "Retracted", "Confirmed"}
                <=> c.previous \in Journal(history)
         /\ commit'.retired \cap KeysOf(Journal(history')) = {}]_vars
  BY StepExplains DEF CommitExplains, Explains
<1> QED BY <1>2, <1>3, InvHolds, PTL DEF Spec, ChangesExplainJournal

-----------------------------------------------------------------------------
(* The consequence router: the invariant.                                  *)

Once == PredictOnce \cup ConfirmOnce
Bookings ==
  [entry : Entries, fired : [Once -> Nat], open : [PredictCancelable -> Nat]]

\* What holds of one key's entry and its counters after each change.  The three
\* parts need one another: the counters are only right because a handler looks
\* at the entry before it calls, and pruning resets both.
Balanced(b) ==
  /\ b \in Bookings
  /\ \A h \in PredictCancelable :
       b.open[h] = IF b.entry.token[h] = "held" THEN 1 ELSE 0
  /\ \A h \in Once : b.fired[h] = IF h \in b.entry.delivered THEN 1 ELSE 0
Settled(b) ==
  b.entry.replayRetired /\ b.entry.externallyRetired
    => \E h \in PredictCancelable : b.entry.token[h] = "held"
EntryGood(b) == Balanced(b) /\ Settled(b)

KeyBooked(k) == Booked(ledger[k], fired[k], open[k])
RouterInv ==
  /\ RouterTypeOK
  /\ \A k \in Keys : EntryGood(KeyBooked(k))

-----------------------------------------------------------------------------
(* The consequence router: one change, and the evidence.                   *)

\* The entry of an unknown key is sound.
LEMMA NewEntryGood ==
  EntryGood(Booked(NewEntry, [h \in Once |-> 0], [h \in PredictCancelable |-> 0]))
<1> DEFINE b == Booked(NewEntry, [h \in Once |-> 0], [h \in PredictCancelable |-> 0])
<1>1. /\ b.entry = NewEntry /\ b.fired = [h \in Once |-> 0]
      /\ b.open = [h \in PredictCancelable |-> 0] /\ b \in Bookings
  BY DEF Booked, Bookings, Entries, NewEntry, Tokens, Once
<1> HIDE DEF b
<1>2. \A h \in PredictCancelable : NewEntry.token[h] = "absent"
  BY DEF NewEntry
<1>3. NewEntry.delivered = {} /\ NewEntry.replayRetired = FALSE
  BY DEF NewEntry
<1>4. EntryGood(b)
  BY <1>1, <1>2, <1>3 DEF EntryGood, Balanced, Settled
<1> QED
  BY <1>4 DEF b

\* try_prune keeps the counters right and settles an entry that both sides have
\* retired.
LEMMA PruneGood ==
  ASSUME NEW b, Balanced(b)
  PROVE  EntryGood(Prune(b))
<1>1. CASE Prunable(b.entry)
  <2>1. /\ b.open \in [PredictCancelable -> Nat] /\ b.fired \in [Once -> Nat]
        /\ \A h \in PredictCancelable : b.open[h] = 0
    BY <1>1 DEF Balanced, Bookings, Prunable
  <2>2. DOMAIN b.fired = Once /\ b.open = [h \in PredictCancelable |-> 0]
    BY <2>1
  <2>3. Prune(b) = Booked(NewEntry, [h \in Once |-> 0], [h \in PredictCancelable |-> 0])
    BY <1>1, <2>2 DEF Prune
  <2> QED BY <2>3, NewEntryGood
<1>2. CASE ~Prunable(b.entry)
  BY <1>2 DEF Prune, Prunable, EntryGood, Settled
<1> QED
  BY <1>1, <1>2

\* The handlers' part of a change keeps the counters right: what it calls is
\* what the entry did not hold, and every callback that finishes a consequence
\* has one to finish.
LEMMA DispatchedBalanced ==
  ASSUME NEW b, Balanced(b), NEW c, NEW ok
  PROVE  Balanced(Dispatched(b, c, ok))
<1> DEFINE called == OnceCalled(b.entry, c)
           concerned == {h \in PredictCancelable : Concerns(h, c)}
           d == Dispatched(b, c, ok)
           tokens == [h \in PredictCancelable |->
                        IF h \in concerned
                        THEN NextToken(b.entry.token[h], c.transition, h \in ok)
                        ELSE b.entry.token[h]]
           fires == [h \in DOMAIN b.fired |-> b.fired[h] + (IF h \in called THEN 1 ELSE 0)]
           opens == [h \in PredictCancelable |->
               b.open[h]
               + (IF h \in concerned /\ Opens(b.entry.token[h], c.transition, h \in ok)
                  THEN 1 ELSE 0)
               - (IF h \in concerned /\ Finishes(b.entry.token[h], c.transition, h \in ok)
                  THEN 1 ELSE 0)]
<1>1. /\ b.entry \in Entries /\ b.fired \in [Once -> Nat]
      /\ b.open \in [PredictCancelable -> Nat]
      /\ b.entry.delivered \in SUBSET Once
      /\ b.entry.token \in [PredictCancelable -> Tokens]
      /\ b.entry.replayRetired \in BOOLEAN /\ b.entry.externallyRetired \in BOOLEAN
  BY DEF Balanced, Bookings, Entries, Once
<1>2. /\ \A h \in PredictCancelable : b.open[h] = IF b.entry.token[h] = "held" THEN 1 ELSE 0
      /\ \A h \in Once : b.fired[h] = IF h \in b.entry.delivered THEN 1 ELSE 0
  BY DEF Balanced
<1>3. /\ d = [entry |-> [b.entry EXCEPT !.delivered = @ \cup called, !.token = tokens],
              fired |-> fires, open |-> opens]
  BY DEF Dispatched, Booked
<1>4. /\ d.fired = fires /\ d.open = opens
      /\ d.entry = [b.entry EXCEPT !.delivered = @ \cup called, !.token = tokens]
  BY <1>3
<1>5. /\ d.entry.delivered = b.entry.delivered \cup called /\ d.entry.token = tokens
      /\ d.entry.replayRetired = b.entry.replayRetired
      /\ d.entry.externallyRetired = b.entry.externallyRetired
      /\ DOMAIN d.entry = DOMAIN b.entry
  BY <1>1, <1>4 DEF Entries
<1>6. called \subseteq Once /\ \A h \in called : h \notin b.entry.delivered
  BY DEF OnceCalled, Once
<1>7. ASSUME NEW h \in PredictCancelable
      PROVE  /\ tokens[h] \in Tokens /\ opens[h] \in Nat
             /\ opens[h] = IF tokens[h] = "held" THEN 1 ELSE 0
  <2>1. /\ b.entry.token[h] \in Tokens
        /\ b.open[h] = IF b.entry.token[h] = "held" THEN 1 ELSE 0
    BY <1>1, <1>2
  <2> HIDE DEF concerned
  <2>2. CASE h \in concerned
    BY <2>1, <2>2 DEF NextToken, Opens, Finishes, Tokens
  <2>3. CASE h \notin concerned
    BY <2>1, <2>3
  <2> QED BY <2>2, <2>3
<1>8. ASSUME NEW h \in Once
      PROVE  /\ fires[h] \in Nat
             /\ fires[h] = IF h \in b.entry.delivered \cup called THEN 1 ELSE 0
  <2> HIDE DEF called
  <2> QED BY <1>1, <1>2, <1>6
<1> HIDE DEF called, concerned, tokens, fires, opens, d
<1>9. tokens \in [PredictCancelable -> Tokens] /\ opens \in [PredictCancelable -> Nat]
      /\ fires \in [Once -> Nat]
  BY <1>1, <1>7, <1>8 DEF tokens, opens, fires
<1>10. d.entry \in Entries
  BY <1>1, <1>4, <1>6, <1>9 DEF Entries, Once
<1>11. d \in Bookings
  BY <1>3, <1>4, <1>9, <1>10 DEF Bookings
<1>12. Balanced(d)
  BY <1>4, <1>5, <1>7, <1>8, <1>11 DEF Balanced
<1> QED
  BY <1>12 DEF d

\* A change keeps the entry sound.
LEMMA DispatchGood ==
  ASSUME NEW b, EntryGood(b), NEW c, NEW ok
  PROVE  EntryGood(Dispatch(b, c, ok))
BY DispatchedBalanced, PruneGood DEF Dispatch, EntryGood

\* Evidence touches no counter, and prunes the entry when it is the second.
LEMMA RetireGood ==
  ASSUME NEW b, EntryGood(b), NEW replay \in BOOLEAN, NEW external \in BOOLEAN
  PROVE  EntryGood(Retire(b, replay, external))
<1>1. ASSUME NEW x, EntryGood(x)
      PROVE  /\ EntryGood(Prune([x EXCEPT !.entry.replayRetired = TRUE]))
             /\ EntryGood(Prune([x EXCEPT !.entry.externallyRetired = TRUE]))
  <2>1. x \in Bookings /\ x.entry \in Entries
    BY <1>1 DEF EntryGood, Balanced, Bookings
  <2>2. /\ Balanced([x EXCEPT !.entry.replayRetired = TRUE])
        /\ Balanced([x EXCEPT !.entry.externallyRetired = TRUE])
    BY <1>1, <2>1 DEF EntryGood, Balanced, Bookings, Entries
  <2> QED BY <2>2, PruneGood
<1> DEFINE replayed == IF replay THEN Prune([b EXCEPT !.entry.replayRetired = TRUE]) ELSE b
<1>2. EntryGood(replayed)
  BY <1>1
<1> HIDE DEF replayed
<1>3. EntryGood(IF external THEN Prune([replayed EXCEPT !.entry.externallyRetired = TRUE])
           ELSE replayed)
  BY <1>1, <1>2
<1> QED
  BY <1>3 DEF Retire, replayed

-----------------------------------------------------------------------------
(* The consequence router: a whole batch.                                  *)

\* The loop over the changes of a batch computes each entry from the last.
FollowsChanges(after, k, batch, ok) ==
  after = [i \in 0 .. Len(batch.changes) |->
             IF i = 0 THEN KeyBooked(k)
             ELSE IF batch.changes[i].key = k
                  THEN Dispatch(after[i - 1], batch.changes[i], ok[i]) ELSE after[i - 1]]

\* The recursive definition of that loop has a solution.
LEMMA AfterChangesEquation ==
  ASSUME NEW k, NEW batch, Len(batch.changes) \in Nat, NEW ok
  PROVE  FollowsChanges(AfterChanges(k, batch, ok), k, batch, ok)
<1> DEFINE Following(b, i) ==
             IF batch.changes[i].key = k THEN Dispatch(b, batch.changes[i], ok[i]) ELSE b
           Solves(f, n) == f = [i \in 0 .. n |->
             IF i = 0 THEN KeyBooked(k) ELSE Following(f[i - 1], i)]
           S == {n \in Nat : \E f : Solves(f, n)}
<1> HIDE DEF Following
<1>1. 0 \in S
  <2> DEFINE f == [i \in 0 .. 0 |-> KeyBooked(k)]
  <2>1. Solves(f, 0)
    OBVIOUS
  <2> QED BY <2>1
<1>2. ASSUME NEW n \in Nat, n \in S
      PROVE  n + 1 \in S
  <2>1. PICK f : Solves(f, n)
    BY <1>2
  <2> DEFINE last == Following(f[n], n + 1)
             g == [i \in 0 .. n + 1 |-> IF i <= n THEN f[i] ELSE last]
  <2> HIDE DEF last
  <2>2. \A i \in 0 .. n : g[i] = f[i]
    OBVIOUS
  <2>3. \A i \in 0 .. n + 1 :
          g[i] = IF i = 0 THEN KeyBooked(k) ELSE Following(g[i - 1], i)
    <3> SUFFICES ASSUME NEW i \in 0 .. n + 1
                 PROVE  g[i] = IF i = 0 THEN KeyBooked(k) ELSE Following(g[i - 1], i)
      OBVIOUS
    <3>1. CASE i <= n
      <4>1. g[i] = f[i] BY <3>1
      <4>2. i # 0 => i - 1 \in 0 .. n BY <3>1
      <4>3. i # 0 => g[i - 1] = f[i - 1] BY <4>2, <2>2
      <4>4. f[i] = IF i = 0 THEN KeyBooked(k) ELSE Following(f[i - 1], i)
        BY <2>1, <3>1
      <4> QED BY <4>1, <4>3, <4>4
    <3>2. CASE i = n + 1
      <4>1. g[i] = last BY <3>2
      <4>2. g[n] = f[n] BY <2>2
      <4> QED BY <4>1, <4>2, <3>2 DEF last
    <3> QED BY <3>1, <3>2
  <2>4. Solves(g, n + 1)
    BY <2>3
  <2> HIDE DEF Solves, g
  <2>5. n + 1 \in Nat /\ \E h : Solves(h, n + 1)
    BY <2>4
  <2> QED BY <2>5
<1>3. Len(batch.changes) \in S
  BY <1>1, <1>2, SetInduction
<1>4. PICK f : Solves(f, Len(batch.changes))
  BY <1>3
<1> QED
  BY <1>4 DEF AfterChanges, FollowsChanges, Following, KeyBooked

\* Every change of a batch, and the evidence after them, keep an entry sound.
LEMMA ConsumedGood ==
  ASSUME NEW k, NEW batch, Len(batch.changes) \in Nat, NEW ok, EntryGood(KeyBooked(k))
  PROVE  EntryGood(Consumed(k, batch, ok))
<1> DEFINE after == AfterChanges(k, batch, ok)
           n == Len(batch.changes)
           S == {i \in Nat : i <= n => EntryGood(after[i])}
<1>1. after = [i \in 0 .. n |->
        IF i = 0 THEN KeyBooked(k)
        ELSE IF batch.changes[i].key = k
             THEN Dispatch(after[i - 1], batch.changes[i], ok[i]) ELSE after[i - 1]]
  <2>1. FollowsChanges(AfterChanges(k, batch, ok), k, batch, ok)
    BY AfterChangesEquation
  <2> QED BY <2>1 DEF FollowsChanges
<1>2. n \in Nat
  OBVIOUS
<1> HIDE DEF after, n
<1>3. 0 \in S
  BY <1>1, <1>2
<1>4. ASSUME NEW i \in Nat, i \in S, i + 1 <= n
      PROVE  EntryGood(after[i + 1])
  <2>1. after[i + 1] = IF batch.changes[i + 1].key = k
                       THEN Dispatch(after[i], batch.changes[i + 1], ok[i + 1])
                       ELSE after[i]
    BY <1>1, <1>2, <1>4
  <2>2. EntryGood(after[i])
    BY <1>2, <1>4
  <2> QED BY <2>1, <2>2, DispatchGood
<1>5. Nat \subseteq S
  <2>1. \A i \in Nat : i \in S => i + 1 \in S
    BY <1>4
  <2> QED BY <1>3, <2>1, SetInduction
<1>6. EntryGood(after[n])
  BY <1>2, <1>5
<1>7. (k \in batch.retired) \in BOOLEAN /\ (k \in batch.external) \in BOOLEAN
  OBVIOUS
<1> QED
  BY <1>6, <1>7, RetireGood DEF Consumed, after, n

-----------------------------------------------------------------------------
(* The consequence router: theorems.                                       *)

\* An empty ledger satisfies the invariant.
LEMMA RouterInitInv == RouterInit => RouterInv
<1> SUFFICES ASSUME RouterInit PROVE RouterInv
  OBVIOUS
<1>1. ASSUME NEW k \in Keys
      PROVE  EntryGood(KeyBooked(k))
  <2>1. KeyBooked(k) = Booked(NewEntry, [h \in Once |-> 0], [h \in PredictCancelable |-> 0])
    BY DEF RouterInit, KeyBooked, Once
  <2> QED BY <2>1, NewEntryGood
<1>2. NewEntry \in Entries
  BY DEF NewEntry, Entries, Tokens
<1>3. RouterTypeOK
  BY <1>2 DEF RouterInit, RouterTypeOK
<1> QED
  BY <1>1, <1>3 DEF RouterInv

\* Consuming a batch preserves the invariant.
LEMMA ConsumeInv ==
  ASSUME RouterInv, NEW batch \in Batches, NEW ok, Consume(batch, ok)
  PROVE  RouterInv'
<1> DEFINE after == [k \in Keys |-> Consumed(k, batch, ok)]
<1>1. CASE UNCHANGED routerVars
  BY <1>1 DEF RouterInv, RouterTypeOK, KeyBooked, routerVars
<1>2. CASE /\ ledger' = [k \in Keys |-> after[k].entry]
           /\ fired' = [k \in Keys |-> after[k].fired]
           /\ open' = [k \in Keys |-> after[k].open]
  <2>1. Len(batch.changes) \in Nat
    BY BatchAssumption
  <2>2. \A k \in Keys : EntryGood(after[k])
    BY <2>1, ConsumedGood DEF RouterInv
  <2> HIDE DEF after
  <2>3. \A k \in Keys : /\ after[k] \in Bookings
                        /\ ledger'[k] = after[k].entry /\ fired'[k] = after[k].fired
                        /\ open'[k] = after[k].open
    BY <1>2, <2>2 DEF EntryGood, Balanced
  <2>4. ASSUME NEW k \in Keys
        PROVE  EntryGood(KeyBooked(k)')
    <3>1. KeyBooked(k)' = [entry |-> after[k].entry, fired |-> after[k].fired,
                           open |-> after[k].open]
      BY <2>3 DEF KeyBooked, Booked
    <3>2. KeyBooked(k)' = after[k]
      BY <2>3, <3>1 DEF Bookings
    <3> QED BY <2>2, <3>2
  <2>5. RouterTypeOK'
    BY <1>2, <2>3 DEF RouterTypeOK, Bookings, Once
  <2> QED BY <2>4, <2>5 DEF RouterInv
<1> QED
  BY <1>1, <1>2 DEF Consume

\* The inductive invariant holds in every reachable state.
THEOREM RouterInvHolds == RouterSpec => []RouterInv
<1>1. RouterInv /\ [RouterNext]_routerVars => RouterInv'
  <2>1. CASE RouterNext
    BY <2>1, ConsumeInv DEF RouterNext
  <2>2. CASE UNCHANGED routerVars
    BY <2>2 DEF RouterInv, RouterTypeOK, KeyBooked, routerVars
  <2> QED BY <2>1, <2>2
<1> QED
  BY <1>1, RouterInitInv, PTL DEF RouterSpec

\* No consequence leaks, is finished twice or runs again: every token the router
\* holds is an open consequence, and a once-handler was called exactly when the
\* ledger says so, however long the batches and whichever callbacks fail.
THEOREM DeliveriesAlwaysBalanced == RouterSpec => []DeliveriesBalanced
<1>1. RouterInv => DeliveriesBalanced
  BY DEF RouterInv, DeliveriesBalanced, TokensBalanced, OnceHandlersFireOnce, EntryGood,
         Balanced, KeyBooked, Booked, Once
<1> QED
  BY <1>1, RouterInvHolds, PTL

\* The ledger has its type and holds no entry that both replay and the outside
\* have retired, unless one of its tokens is still held (try_prune).
THEOREM LedgerAlwaysSound == RouterSpec => []LedgerSound
<1>1. RouterInv => LedgerSound
  BY DEF RouterInv, LedgerSound, RetiredEntriesPruned, EntryGood, Settled, KeyBooked, Booked
<1> QED
  BY <1>1, RouterInvHolds, PTL
=============================================================================
