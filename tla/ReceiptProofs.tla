---------------------------- MODULE ReceiptProofs ----------------------------
(* Proofs about authority receipts for every capacity, number of events and  *)
(* order of snapshots and acknowledgements, and about what receipts and      *)
(* predictions show of one event key for every capacity of the queue of      *)
(* batches and every duration of the cues.                                   *)
EXTENDS ReceiptStream, ConsequencePipeline, SharedLemmas

-----------------------------------------------------------------------------
(* Queues of consecutive receipts.                                         *)

\* Dropping the receipts through a frontier leaves an interval.
LEMMA PastInterval ==
  ASSUME NEW a \in Int, NEW n \in Nat, NEW f \in Int
  PROVE  /\ f <= a => Past(Interval(a, n), f) = Interval(a, n)
         /\ f \in a .. a + n => Past(Interval(a, n), f) = Interval(f, a + n - f)
         /\ f >= a + n => Past(Interval(a, n), f) = << >>
BY IntervalDrop DEF Past, Through

-----------------------------------------------------------------------------
(* The inductive invariant.                                                *)

\* The frontiers are numbers in order, the queues are the intervals between
\* them, and no peer was found at fault.
FrontierFacts ==
  /\ nextReceipt \in 0 .. InvalidReceipt
  /\ ackedR \in Int /\ accepted \in Int /\ published \in Int /\ retiredR \in Int
  /\ -1 <= retiredR /\ retiredR <= ackedR /\ ackedR <= published
  /\ published <= accepted /\ accepted < nextReceipt
  /\ nextReceipt - 1 - ackedR <= PendingCapacity
  /\ pendingR = Interval(ackedR, nextReceipt - 1 - ackedR)
  /\ retained = Interval(retiredR, accepted - retiredR)
  /\ issued \in Nat /\ snapshotId \in -1 .. issued - 1
  /\ session \in {"open", "overflowed"} /\ failed = FALSE

\* A snapshot carries receipts that were issued, from one past the frontier
\* beside them, and that frontier was acknowledged.
SnapshotsIssued ==
  \A s \in snapshots :
    /\ s.id \in 0 .. issued - 1 /\ s.retired \in -1 .. ackedR
    /\ \E n \in 0 .. PerSnapshot :
         s.receipts = Interval(s.retired, n) /\ s.retired + n < nextReceipt

\* The frontier does not move back from a snapshot to a later one, nor from the
\* one the client applied to those it may still apply.
SnapshotsOrdered ==
  /\ \A s, t \in snapshots : s.id < t.id => s.retired <= t.retired
  /\ \A s \in snapshots : s.id > snapshotId => s.retired >= retiredR

\* The client acknowledges what it published, which is what was delivered, and
\* its inbox never holds more than a snapshot brings.
ClientBehind ==
  /\ acks \subseteq -1 .. published
  /\ delivered = Interval(-1, published + 1)
  /\ accepted - retiredR <= PerSnapshot

StreamInv == FrontierFacts /\ SnapshotsIssued /\ SnapshotsOrdered /\ ClientBehind

\* An interval of receipts that were issued is a queue of receipts.
LEMMA IntervalOfReceipts ==
  ASSUME NEW a \in Int, NEW n \in Nat, a >= -1, a + n < InvalidReceipt
  PROVE  Interval(a, n) \in Seq(Receipts)
<1>1. \A i \in 1 .. n : a + i \in Receipts
  BY ReceiptAssumption DEF Receipts
<1> QED
  BY <1>1 DEF Interval

\* The inductive invariant says what the checked invariant says.
LEMMA InvSuffices == StreamInv => FrontiersAgree
<1> SUFFICES ASSUME StreamInv PROVE FrontiersAgree
  OBVIOUS
<1> USE ReceiptAssumption DEF StreamInv
<1>2. StreamTypeOK /\ RetirementOrdered /\ SnapshotsEncodable /\ PeersAgree
  <2> USE DEF FrontierFacts, ClientBehind
  <2>1. /\ nextReceipt - 1 - ackedR \in Nat /\ ackedR + (nextReceipt - 1 - ackedR) < InvalidReceipt
        /\ accepted - retiredR \in Nat /\ retiredR + (accepted - retiredR) < InvalidReceipt
        /\ ackedR >= -1 /\ retiredR >= -1
    OBVIOUS
  <2>2. pendingR \in Seq(Receipts) /\ retained \in Seq(Receipts)
    BY <2>1, IntervalOfReceipts
  <2>3. Len(pendingR) <= PendingCapacity
    BY <2>1, IntervalProperties
  <2>4. {ackedR, accepted, published, retiredR} \subseteq Receipts \cup {NoReceipt}
    BY DEF Receipts, NoReceipt
  <2>5. acks \subseteq Receipts \cup {NoReceipt}
    BY DEF Receipts, NoReceipt
  <2>6. StreamTypeOK
    BY <2>2, <2>3, <2>4, <2>5 DEF StreamTypeOK
  <2>7. RetirementOrdered
    BY DEF RetirementOrdered, Interval
  <2>8. ASSUME NEW s \in snapshots
        PROVE  ValidReceipts(s)
    <3>1. PICK n \in 0 .. PerSnapshot :
            s.receipts = Interval(s.retired, n) /\ s.retired + n < nextReceipt
      BY DEF SnapshotsIssued
    <3>2. s.retired \in Int /\ n \in Nat /\ n <= PerSnapshot
      BY DEF SnapshotsIssued
    <3>3. /\ Len(s.receipts) = n /\ (s.receipts = << >> <=> n = 0)
          /\ \A i \in 1 .. n : s.receipts[i] = s.retired + i
      <4>1. LET q == Interval(s.retired, n)
            IN /\ Len(q) = n /\ (q = << >> <=> n = 0)
               /\ \A i \in 1 .. n : q[i] = s.retired + i
        BY <3>2, IntervalProperties
      <4> QED BY <3>1, <4>1
    <3>4. s.receipts # << >> =>
            s.retired # InvalidReceipt - 1 /\ s.receipts[1] = s.retired + 1
      BY <3>1, <3>2, <3>3
    <3>5. ASSUME NEW i \in 1 .. n - 1
          PROVE  s.receipts[i + 1] = s.receipts[i] + 1
      <4>1. i \in 1 .. n /\ i + 1 \in 1 .. n
        BY <3>2
      <4>2. s.receipts[i + 1] = s.retired + (i + 1) /\ s.receipts[i] = s.retired + i
        BY <4>1, <3>3
      <4> QED BY <3>2, <4>2
    <3> QED BY <3>2, <3>3, <3>4, <3>5 DEF ValidReceipts
  <2>9. PeersAgree
    BY DEF PeersAgree
  <2> QED BY <2>6, <2>7, <2>8, <2>9 DEF SnapshotsEncodable
<1> QED
  BY <1>2 DEF FrontiersAgree

\* Initially no receipt was issued and every frontier is before the first.
LEMMA StreamInitInv == StreamInit => StreamInv
<1> SUFFICES ASSUME StreamInit PROVE StreamInv
  OBVIOUS
<1> USE ReceiptAssumption DEF StreamInit, NoReceipt
<1>1. Interval(-1, 0) = << >>
  BY IntervalProperties
<1>2. SnapshotsIssued
  BY <1>1 DEF SnapshotsIssued
<1>3. SnapshotsOrdered
  BY DEF SnapshotsOrdered
<1>4. ClientBehind
  BY <1>1 DEF ClientBehind
<1>5. FrontierFacts
  BY <1>1 DEF FrontierFacts
<1> QED
  BY <1>2, <1>3, <1>4, <1>5 DEF StreamInv

-----------------------------------------------------------------------------
(* Every step preserves it.                                                *)

\* The events of a tick that fit the queue and the sequence numbers.
LEMMA EnqueuedFits ==
  ASSUME FrontierFacts, NEW count \in 0 .. EventsPerTick
  PROVE  /\ Enqueued(count) \in 0 .. count
         /\ Enqueued(count) <= PendingCapacity - (nextReceipt - 1 - ackedR)
         /\ Enqueued(count) <= InvalidReceipt - nextReceipt
<1> DEFINE held == nextReceipt - 1 - ackedR  fit == Enqueued(count)
<1> USE ReceiptAssumption
<1>1. held \in Nat /\ Len(pendingR) = held /\ held <= PendingCapacity
  <2>1. /\ ackedR \in Int /\ held \in Nat /\ pendingR = Interval(ackedR, held)
        /\ held <= PendingCapacity
    BY DEF FrontierFacts
  <2> QED BY <2>1, IntervalProperties
<1>2. count \in Int /\ PendingCapacity - held \in Int /\ InvalidReceipt - nextReceipt \in Int
  BY <1>1 DEF FrontierFacts
<1>3. /\ fit \in {count, PendingCapacity - held, InvalidReceipt - nextReceipt}
      /\ fit <= count /\ fit <= PendingCapacity - held
      /\ fit <= InvalidReceipt - nextReceipt
  BY <1>1, <1>2, MinOfThree DEF Enqueued
<1> QED
  BY <1>1, <1>2, <1>3 DEF FrontierFacts

\* A step of the server queues receipts for its events, or ends the session, and a
\* snapshot carries the first of the queue.
LEMMA ServerStepInv ==
  ASSUME StreamInv, NEW count \in 0 .. EventsPerTick, ServerStep(count)
  PROVE  StreamInv'
<1> USE ReceiptAssumption
<1> DEFINE fit == Enqueued(count)
           held == nextReceipt - 1 - ackedR
           queued == pendingR \o [i \in 1 .. fit |-> nextReceipt + i - 1]
<1>0. FrontierFacts /\ SnapshotsIssued /\ SnapshotsOrdered /\ ClientBehind
  BY DEF StreamInv
<1>1. held \in Nat /\ Len(pendingR) = held
  <2>1. ackedR \in Int /\ held \in Nat /\ pendingR = Interval(ackedR, held)
    BY <1>0 DEF FrontierFacts
  <2> QED BY <2>1, IntervalProperties
<1>2. /\ fit \in 0 .. count /\ fit <= PendingCapacity - held
      /\ fit <= InvalidReceipt - nextReceipt
  BY <1>0, EnqueuedFits
<1>3. queued = Interval(ackedR, held + fit)
  <2>1. [i \in 1 .. fit |-> nextReceipt + i - 1] = Interval(nextReceipt - 1, fit)
    BY <1>0, <1>2 DEF Interval, FrontierFacts
  <2>2. nextReceipt - 1 = ackedR + held
    BY <1>0 DEF FrontierFacts
  <2>3. pendingR = Interval(ackedR, held) /\ ackedR \in Int /\ fit \in Nat
    BY <1>0, <1>2 DEF FrontierFacts
  <2>4. Interval(ackedR, held) \o Interval(ackedR + held, fit) = Interval(ackedR, held + fit)
    BY <1>1, <2>3, IntervalConcat
  <2> QED BY <2>1, <2>2, <2>3, <2>4
<1>4. /\ session = "open" /\ session' = IF fit < count THEN "overflowed" ELSE "open"
      /\ pendingR' = queued /\ nextReceipt' = nextReceipt + fit
      /\ \/ snapshots' = snapshots \cup {Snapshot(issued, queued)} /\ issued' = issued + 1
         \/ UNCHANGED <<snapshots, issued>>
      /\ UNCHANGED <<ackedR, clientVars, acks>>
  BY DEF ServerStep
<1> HIDE DEF fit, queued
<1>5. FrontierFacts'
  <2>1. nextReceipt' - 1 - ackedR' = held + fit
    BY <1>0, <1>2, <1>4 DEF FrontierFacts
  <2>2. pendingR' = Interval(ackedR', nextReceipt' - 1 - ackedR')
    BY <1>3, <1>4, <2>1
  <2> QED BY <1>0, <1>1, <1>2, <1>4, <2>1, <2>2 DEF FrontierFacts, clientVars
<1>6. PICK m \in 0 .. PerSnapshot :
        /\ m <= held + fit
        /\ SubSeq(queued, 1, Min({Len(queued), PerSnapshot})) = Interval(ackedR, m)
  <2>1. held + fit \in Nat /\ ackedR \in Int
    BY <1>0, <1>1, <1>2 DEF FrontierFacts
  <2>2. Len(queued) = held + fit
    BY <2>1, <1>3, IntervalProperties
  <2> DEFINE m == Min({Len(queued), PerSnapshot})
  <2>3. m \in {held + fit, PerSnapshot} /\ m <= held + fit /\ m <= PerSnapshot
    <3>1. Min({held + fit, PerSnapshot}) \in {held + fit, PerSnapshot}
          /\ Min({held + fit, PerSnapshot}) <= held + fit
          /\ Min({held + fit, PerSnapshot}) <= PerSnapshot
      BY <2>1, MinOfTwo
    <3> QED BY <2>2, <3>1
  <2> HIDE DEF m
  <2>4. m \in 0 .. PerSnapshot /\ m \in 0 .. held + fit
    BY <2>1, <2>3
  <2>5. SubSeq(Interval(ackedR, held + fit), 0 + 1, m) = Interval(ackedR + 0, m - 0)
    <3> DEFINE n == held + fit
    <3>1. n \in Nat /\ 0 \in 0 .. n /\ m \in 0 .. n
      BY <2>1, <2>4
    <3> HIDE DEF n
    <3>2. SubSeq(Interval(ackedR, n), 0 + 1, m) = Interval(ackedR + 0, m - 0)
      BY ONLY <2>1, <3>1, IntervalCut, ZenonT(20)
    <3> QED BY <3>2 DEF n
  <2>6. SubSeq(queued, 1, m) = Interval(ackedR, m)
    BY <2>1, <2>4, <2>5, <1>3
  <2> QED BY <2>3, <2>4, <2>6 DEF m
<1>7. ASSUME NEW s \in snapshots', s \notin snapshots
      PROVE  /\ s.id = issued /\ s.retired = ackedR /\ issued' = issued + 1
             /\ s.receipts = Interval(ackedR, m)
  <2>1. s = Snapshot(issued, queued) /\ issued' = issued + 1
    BY <1>4, <1>7
  <2> QED BY <1>6, <2>1 DEF Snapshot
<1>8. SnapshotsIssued'
  <2> SUFFICES ASSUME NEW s \in snapshots'
               PROVE  /\ s.id \in 0 .. issued' - 1 /\ s.retired \in -1 .. ackedR'
                      /\ \E n \in 0 .. PerSnapshot :
                           /\ s.receipts = Interval(s.retired, n)
                           /\ s.retired + n < nextReceipt'
    BY DEF SnapshotsIssued
  <2>1. CASE s \in snapshots
    <3>1. /\ s.id \in 0 .. issued - 1 /\ s.retired \in -1 .. ackedR
          /\ \E n \in 0 .. PerSnapshot :
               s.receipts = Interval(s.retired, n) /\ s.retired + n < nextReceipt
      BY <2>1, <1>0 DEF SnapshotsIssued
    <3>2. issued' >= issued /\ nextReceipt' >= nextReceipt /\ ackedR' = ackedR
      BY <1>0, <1>2, <1>4 DEF FrontierFacts
    <3>3. issued \in Nat /\ issued' \in Nat /\ ackedR \in Int /\ nextReceipt \in Int
          /\ nextReceipt' \in Int
      BY <1>0, <1>5 DEF FrontierFacts
    <3> QED BY <3>1, <3>2, <3>3
  <2>2. CASE s \notin snapshots
    <3>1. ackedR + m < nextReceipt'
      BY <1>0, <1>1, <1>2, <1>4, <1>6 DEF FrontierFacts
    <3> QED BY <2>2, <3>1, <1>7, <1>0, <1>4 DEF FrontierFacts
  <2> QED BY <2>1, <2>2
<1>9. SnapshotsOrdered'
  <2>1. /\ issued \in Nat /\ snapshotId < issued /\ snapshotId \in Int
        /\ retiredR \in Int /\ ackedR \in Int /\ retiredR <= ackedR
        /\ snapshotId' = snapshotId /\ retiredR' = retiredR
    BY <1>0, <1>4 DEF FrontierFacts, clientVars
  <2>2. \A s \in snapshots : /\ s.id \in Int /\ s.id < issued
                             /\ s.retired \in Int /\ s.retired <= ackedR
    BY <1>0, <2>1 DEF SnapshotsIssued
  <2>3. ASSUME NEW s \in snapshots', NEW t \in snapshots', s.id < t.id
        PROVE  s.retired <= t.retired
    <3>1. CASE s \in snapshots /\ t \in snapshots
      BY <3>1, <2>3, <1>0 DEF SnapshotsOrdered
    <3>2. CASE s \in snapshots /\ t \notin snapshots
      BY <3>2, <2>2, <1>7
    <3>3. CASE s \notin snapshots
      BY <3>3, <2>1, <2>2, <2>3, <1>7
    <3> QED BY <3>1, <3>2, <3>3
  <2>4. ASSUME NEW s \in snapshots', s.id > snapshotId
        PROVE  s.retired >= retiredR
    <3>1. CASE s \in snapshots
      BY <3>1, <2>4, <1>0 DEF SnapshotsOrdered
    <3>2. CASE s \notin snapshots
      BY <3>2, <2>1, <1>7
    <3> QED BY <3>1, <3>2
  <2> QED BY <2>1, <2>3, <2>4 DEF SnapshotsOrdered
<1>10. ClientBehind'
  BY <1>0, <1>4 DEF ClientBehind, clientVars
<1> QED
  BY <1>5, <1>8, <1>9, <1>10 DEF StreamInv

\* An acknowledgement takes receipts that were published from the queue.
LEMMA ReceiveAckInv ==
  ASSUME StreamInv, NEW ack \in acks, ReceiveAck(ack)
  PROVE  StreamInv' /\ UNCHANGED <<nextReceipt, published, delivered>>
<1>0. FrontierFacts /\ SnapshotsIssued /\ SnapshotsOrdered /\ ClientBehind
  BY DEF StreamInv
<1>1. ack \in Int /\ ack >= -1 /\ ack <= published /\ ack < nextReceipt
  BY <1>0 DEF ClientBehind, FrontierFacts
<1>2. /\ session = "open" /\ session' = "open"
      /\ ackedR' = IF ack > ackedR THEN ack ELSE ackedR
      /\ pendingR' = IF ack > ackedR THEN Past(pendingR, ack) ELSE pendingR
      /\ UNCHANGED <<nextReceipt, oddTick, issued, clientVars, snapshots, acks>>
  BY <1>0, <1>1 DEF ReceiveAck, FrontierFacts
<1>3. pendingR' = Interval(ackedR', nextReceipt - 1 - ackedR')
  <2> DEFINE held == nextReceipt - 1 - ackedR
  <2>1. /\ ackedR \in Int /\ held \in Nat /\ pendingR = Interval(ackedR, held)
        /\ ackedR + held = nextReceipt - 1
    BY <1>0 DEF FrontierFacts
  <2>2. CASE ack > ackedR
    <3>1. ack \in ackedR .. ackedR + held
      BY <1>0, <1>1, <2>1, <2>2 DEF FrontierFacts
    <3>2. Past(Interval(ackedR, held), ack) = Interval(ack, ackedR + held - ack)
      BY <1>1, <2>1, <3>1, PastInterval
    <3>3. ackedR' = ack /\ pendingR' = Past(pendingR, ack)
      BY <1>2, <2>2
    <3>4. ackedR + held - ack = nextReceipt - 1 - ack
      BY <2>1, <1>1
    <3> QED BY <2>1, <3>2, <3>3, <3>4
  <2>3. CASE ~(ack > ackedR)
    BY <1>2, <2>1, <2>3
  <2> QED BY <2>2, <2>3, Zenon
<1>4. ackedR' \in Int /\ ackedR <= ackedR' /\ ackedR' <= published
  BY <1>0, <1>1, <1>2 DEF FrontierFacts
<1>5. FrontierFacts'
  BY <1>0, <1>1, <1>2, <1>3, <1>4, ReceiptAssumption DEF FrontierFacts, clientVars
<1>6. SnapshotsIssued'
  <2> SUFFICES ASSUME NEW s \in snapshots
               PROVE  /\ s.id \in 0 .. issued - 1 /\ s.retired \in -1 .. ackedR'
                      /\ \E n \in 0 .. PerSnapshot :
                           /\ s.receipts = Interval(s.retired, n)
                           /\ s.retired + n < nextReceipt
    BY <1>2 DEF SnapshotsIssued
  <2>1. /\ s.id \in 0 .. issued - 1 /\ s.retired \in -1 .. ackedR
        /\ \E n \in 0 .. PerSnapshot :
             s.receipts = Interval(s.retired, n) /\ s.retired + n < nextReceipt
    BY <1>0 DEF SnapshotsIssued
  <2> QED BY <2>1, <1>0, <1>4 DEF FrontierFacts
<1>7. SnapshotsOrdered' /\ ClientBehind'
  BY <1>0, <1>2 DEF SnapshotsOrdered, ClientBehind, clientVars
<1> QED
  BY <1>2, <1>5, <1>6, <1>7 DEF StreamInv, clientVars

\* The last receipt of an interval.
LEMMA IntervalLast ==
  ASSUME NEW a \in Int, NEW n \in Nat, NEW default
  PROVE  LastOr(Interval(a, n), default) = IF n = 0 THEN default ELSE a + n
<1>1. /\ Len(Interval(a, n)) = n /\ (Interval(a, n) = << >> <=> n = 0)
      /\ \A i \in 1 .. n : Interval(a, n)[i] = a + i
  BY IntervalProperties
<1>2. n # 0 => n \in 1 .. n
  OBVIOUS
<1> QED
  BY <1>1, <1>2 DEF LastOr

\* Publishing an inbox that reaches back to the published frontier hands over
\* exactly the receipts past it.
LEMMA PublicationExtends ==
  ASSUME NEW a \in Int, NEW b \in Int, published \in Int, published >= -1,
         a <= published, published <= b,
         delivered = Interval(-1, published + 1)
  PROVE  LET publication == Pending(Interval(a, b - a))
         IN /\ LastOr(publication, published) = b
            /\ delivered \o publication = Interval(-1, b + 1)
<1>1. Pending(Interval(a, b - a)) = Interval(published, b - published)
  <2>1. b - a \in Nat /\ a + (b - a) = b /\ published \in a .. a + (b - a)
    OBVIOUS
  <2>2. Past(Interval(a, b - a), published)
          = Interval(published, a + (b - a) - published)
    BY <2>1, PastInterval
  <2> QED BY <2>1, <2>2 DEF Pending
<1>2. b - published \in Nat /\ published + 1 \in Nat
  OBVIOUS
<1>3. LastOr(Interval(published, b - published), published) = b
  <2>1. LastOr(Interval(published, b - published), published) =
          IF b - published = 0 THEN published ELSE published + (b - published)
    BY <1>2, IntervalLast
  <2> QED BY <2>1
<1>4. delivered \o Interval(published, b - published) = Interval(-1, b + 1)
  <2>1. PICK a0 \in Int : a0 = -1
    OBVIOUS
  <2>2. Interval(a0, published + 1) \o Interval(a0 + (published + 1), b - published)
          = Interval(a0, published + 1 + (b - published))
    BY <1>2, IntervalConcat
  <2>3. /\ a0 + (published + 1) = published
        /\ published + 1 + (b - published) = b + 1
    BY <2>1
  <2> QED BY <2>1, <2>2, <2>3
<1> QED
  BY <1>1, <1>3, <1>4

\* A snapshot the client has not seen past is always acceptable, and leaves the
\* inbox with the receipts from its frontier through the last one accepted.
LEMMA SnapshotAcceptable ==
  ASSUME StreamInv, NEW s \in snapshots, Newer(s)
  PROVE  /\ Acceptable(s)
         /\ s.retired \in retiredR .. ackedR
         /\ \E last \in accepted .. nextReceipt - 1 :
              /\ LastOr(NewReceipts(s), accepted) = last
              /\ Unretired(s) \o NewReceipts(s) = Interval(s.retired, last - s.retired)
              /\ last - s.retired <= PerSnapshot
<1> DEFINE r == s.retired
<1>0. FrontierFacts /\ SnapshotsIssued /\ SnapshotsOrdered /\ ClientBehind
  BY DEF StreamInv
<1>1. PICK n \in 0 .. PerSnapshot :
        s.receipts = Interval(r, n) /\ r + n < nextReceipt
  BY <1>0 DEF SnapshotsIssued
<1>2. /\ r \in Int /\ r >= -1 /\ r <= ackedR /\ r >= retiredR
      /\ n \in Nat /\ n <= PerSnapshot /\ PerSnapshot <= PendingCapacity
      /\ PerSnapshot \in Int /\ PendingCapacity \in Int
  BY <1>0, <1>1, ReceiptAssumption DEF SnapshotsIssued, SnapshotsOrdered, Newer
<1>3. /\ accepted \in Int /\ published \in Int /\ retiredR \in Int /\ ackedR \in Int
      /\ nextReceipt \in Int
      /\ retiredR <= accepted /\ ackedR <= published
      /\ published <= accepted /\ accepted < nextReceipt
      /\ accepted - retiredR <= PerSnapshot
      /\ retained = Interval(retiredR, accepted - retiredR)
  BY <1>0 DEF FrontierFacts, ClientBehind
<1> HIDE DEF r
<1>4. Unretired(s) = Interval(r, accepted - r)
  <2>1. /\ accepted - retiredR \in Nat
        /\ retiredR + (accepted - retiredR) = accepted
        /\ r \in retiredR .. retiredR + (accepted - retiredR)
    BY <1>2, <1>3
  <2>2. Past(Interval(retiredR, accepted - retiredR), r)
          = Interval(r, retiredR + (accepted - retiredR) - r)
    BY <1>2, <1>3, <2>1, PastInterval
  <2> QED BY <1>3, <2>1, <2>2 DEF Unretired, r
<1>5. accepted - r \in Nat /\ r + (accepted - r) = accepted
  BY <1>2, <1>3
<1> DEFINE more == IF r + n <= accepted THEN 0 ELSE r + n - accepted
           last == accepted + more
<1>6. more \in Nat /\ last \in accepted .. nextReceipt - 1 /\ last - r <= PerSnapshot
      /\ last - r = accepted - r + more
  BY <1>1, <1>2, <1>3
<1>7. NewReceipts(s) = Interval(accepted, more)
  <2>1. CASE r + n <= accepted
    <3>1. Past(Interval(r, n), accepted) = << >>
      BY <2>1, <1>2, <1>3, PastInterval
    <3>2. Interval(accepted, 0) = << >>
      BY <1>3, IntervalProperties
    <3> QED BY <2>1, <3>1, <3>2, <1>1 DEF NewReceipts
  <2>2. CASE r + n > accepted
    <3>1. accepted \in r .. r + n
      BY <2>2, <1>2, <1>3
    <3>2. Past(Interval(r, n), accepted) = Interval(accepted, r + n - accepted)
      BY <3>1, <1>2, <1>3, PastInterval
    <3>3. more = r + n - accepted
      BY <2>2, <1>2, <1>3
    <3> QED BY <3>2, <3>3, <1>1 DEF NewReceipts
  <2>3. r + n <= accepted \/ r + n > accepted
    BY <1>2, <1>3
  <2> QED BY <2>1, <2>2, <2>3, Zenon
<1> HIDE DEF more
<1>8. LastOr(NewReceipts(s), accepted) = last
  <2>1. LastOr(Interval(accepted, more), accepted)
          = IF more = 0 THEN accepted ELSE accepted + more
    BY <1>3, <1>6, IntervalLast
  <2> QED BY <2>1, <1>3, <1>7
<1>9. Unretired(s) \o NewReceipts(s) = Interval(r, last - r)
  <2>1. Interval(r, accepted - r) \o Interval(r + (accepted - r), more)
          = Interval(r, accepted - r + more)
    BY <1>2, <1>5, <1>6, IntervalConcat
  <2> QED BY <2>1, <1>4, <1>5, <1>6, <1>7
<1>10. Acceptable(s)
  <2>1. ValidRetirement(s)
    BY <1>2, <1>3 DEF ValidRetirement, r
  <2>2. /\ DOMAIN Interval(r, accepted - r) = 1 .. accepted - r
        /\ Len(Interval(r, accepted - r)) = accepted - r
        /\ \A j \in 1 .. accepted - r : Interval(r, accepted - r)[j] = r + j
    BY <1>2, <1>5, IntervalProperties
  <2>3. /\ DOMAIN Interval(r, n) = 1 .. n
        /\ \A i \in 1 .. n : Interval(r, n)[i] = r + i
    BY <1>2, IntervalProperties
  <2>4. /\ DOMAIN Interval(accepted, more) = 1 .. more
        /\ Len(Interval(accepted, more)) = more
        /\ \A i \in 1 .. more : Interval(accepted, more)[i] = accepted + i
    BY <1>3, <1>6, IntervalProperties
  <2>5. ASSUME NEW i \in DOMAIN s.receipts, s.receipts[i] <= accepted
        PROVE  \E j \in DOMAIN Unretired(s) : Unretired(s)[j] = s.receipts[i]
    <3>1. i \in 1 .. n /\ s.receipts[i] = r + i
      BY <1>1, <2>3
    <3>2. i \in 1 .. accepted - r
      BY <3>1, <2>5, <1>2, <1>3
    <3> QED BY <3>1, <3>2, <2>2, <1>4
  <2>6. \A i \in DOMAIN NewReceipts(s) : NewReceipts(s)[i] = accepted + i
    BY <2>4, <1>7
  <2>7. Len(Unretired(s)) + Len(NewReceipts(s)) <= PendingCapacity
    BY <2>2, <2>4, <1>2, <1>4, <1>6, <1>7
  <2> QED BY <2>1, <2>5, <2>6, <2>7 DEF Acceptable
<1>11. last - r <= PerSnapshot /\ last \in accepted .. nextReceipt - 1
       /\ s.retired \in retiredR .. ackedR
  BY <1>2, <1>3, <1>6 DEF r
<1> HIDE DEF last
<1> QED
  BY <1>8, <1>9, <1>10, <1>11 DEF r

\* What a step of the client's inbox leaves: the facts the invariant needs of it.
InboxStep(r, last, id) ==
  /\ r \in retiredR .. ackedR /\ last \in accepted .. nextReceipt - 1
  /\ last - r <= PerSnapshot
  /\ snapshotId' = id /\ id \in -1 .. issued - 1 /\ id >= snapshotId
  /\ \A t \in snapshots : t.id > id => t.retired >= r
  /\ retained' = Interval(r, last - r) /\ accepted' = last /\ retiredR' = r
  /\ published' \in published .. last /\ delivered' = Interval(-1, published' + 1)
  /\ failed' = FALSE
  /\ UNCHANGED <<serverVars, snapshots, acks>>

\* What applying a snapshot leaves in the inbox is within the frontiers again.
LEMMA InboxStepInv ==
  ASSUME StreamInv, NEW r, NEW last, NEW id, InboxStep(r, last, id)
  PROVE  StreamInv' /\ UNCHANGED nextReceipt /\ published' >= published
<1>0. FrontierFacts /\ SnapshotsIssued /\ SnapshotsOrdered /\ ClientBehind
  BY DEF StreamInv
<1>1. UNCHANGED <<nextReceipt, pendingR, ackedR, issued, session, snapshots, acks>>
  BY DEF InboxStep, serverVars
<1>2. FrontierFacts'
  BY <1>0, <1>1, ReceiptAssumption DEF FrontierFacts, InboxStep
<1>3. SnapshotsIssued'
  BY <1>0, <1>1 DEF SnapshotsIssued
<1>4. SnapshotsOrdered'
  BY <1>0, <1>1 DEF SnapshotsOrdered, InboxStep
<1>5. ClientBehind'
  BY <1>0, <1>1 DEF FrontierFacts, ClientBehind, InboxStep
<1>6. published' >= published
  BY <1>0 DEF FrontierFacts, InboxStep
<1> QED
  BY <1>1, <1>2, <1>3, <1>4, <1>5, <1>6 DEF StreamInv

\* A snapshot after the welcome is dropped or goes through the inbox.
LEMMA ProcessSnapshotInv ==
  ASSUME StreamInv, NEW s \in snapshots, ProcessSnapshot(s)
  PROVE  StreamInv' /\ UNCHANGED nextReceipt /\ published' >= published
<1>0. FrontierFacts /\ SnapshotsIssued /\ SnapshotsOrdered /\ ClientBehind
  BY DEF StreamInv
<1>1. /\ accepted \in Int /\ published \in Int /\ retiredR \in Int /\ ackedR \in Int
      /\ nextReceipt \in Int /\ snapshotId \in Int /\ issued \in Int
      /\ -1 <= retiredR /\ retiredR <= ackedR /\ ackedR <= published
      /\ published <= accepted /\ accepted < nextReceipt
      /\ delivered = Interval(-1, published + 1)
      /\ accepted - retiredR <= PerSnapshot
      /\ retained = Interval(retiredR, accepted - retiredR)
      /\ snapshotId \in -1 .. issued - 1
  BY <1>0 DEF FrontierFacts, ClientBehind
<1>2. Interval(-1, published + 1) \o << >> = Interval(-1, published + 1)
  <2>1. published + 1 \in Nat
    BY <1>1
  <2>2. Interval(-1, published + 1) \in Seq(Int)
    BY <2>1 DEF Interval
  <2> QED BY <2>2, ConcatEmptySeq
<1>3. CASE ~Newer(s)
  <2>1. /\ failed' = FALSE /\ snapshotId' = snapshotId /\ retained' = retained
        /\ accepted' = accepted /\ retiredR' = retiredR
        /\ published' = LastOr(<< >>, published) /\ delivered' = delivered \o << >>
        /\ UNCHANGED <<serverVars, snapshots, acks>>
    BY <1>3 DEF ProcessSnapshot
  <2>2. published' = published
    BY <2>1 DEF LastOr
  <2>3. \A t \in snapshots : t.id > snapshotId => t.retired >= retiredR
    BY <1>0 DEF SnapshotsOrdered
  <2>4. InboxStep(retiredR, accepted, snapshotId)
    BY <1>1, <1>2, <2>1, <2>2, <2>3 DEF InboxStep
  <2> QED BY <2>4, InboxStepInv
<1>4. CASE Newer(s)
  <2>1. PICK last \in accepted .. nextReceipt - 1 :
          /\ LastOr(NewReceipts(s), accepted) = last
          /\ Unretired(s) \o NewReceipts(s) = Interval(s.retired, last - s.retired)
          /\ last - s.retired <= PerSnapshot
    BY <1>4, SnapshotAcceptable
  <2>2. Acceptable(s) /\ s.retired \in retiredR .. ackedR
    BY <1>4, SnapshotAcceptable
  <2>3. s.id \in 0 .. issued - 1 /\ s.id >= snapshotId /\ s.id > snapshotId
    BY <1>0, <1>1, <1>4 DEF SnapshotsIssued, Newer
  <2> DEFINE inbox == Interval(s.retired, last - s.retired)
             publication == IF welcomed THEN Pending(inbox) ELSE << >>
  <2>4. /\ failed' = FALSE /\ snapshotId' = s.id /\ retained' = inbox
        /\ accepted' = last /\ retiredR' = s.retired
        /\ published' = LastOr(publication, published)
        /\ delivered' = delivered \o publication
        /\ UNCHANGED <<serverVars, snapshots, acks>>
    BY <1>4, <2>1, <2>2 DEF ProcessSnapshot
  <2>5. published' \in published .. last /\ delivered' = Interval(-1, published' + 1)
    <3>1. CASE welcomed
      <4>0. publication = Pending(inbox)
        BY <3>1
      <4>1. s.retired \in Int /\ last \in Int /\ s.retired <= published /\ published <= last
            /\ published >= -1
        BY <1>1, <2>1, <2>2
      <4>2. /\ LastOr(Pending(inbox), published) = last
            /\ delivered \o Pending(inbox) = Interval(-1, last + 1)
        BY <1>1, <4>1, PublicationExtends
      <4>3. published' = last /\ delivered' = Interval(-1, last + 1)
        BY <2>4, <4>0, <4>2
      <4> QED BY <1>1, <4>1, <4>3
    <3>2. CASE ~welcomed
      <4>0. publication = << >>
        BY <3>2
      <4>1. published' = published /\ delivered' = Interval(-1, published + 1)
        BY <1>1, <1>2, <2>4, <4>0 DEF LastOr
      <4> QED BY <1>1, <2>1, <4>1
    <3> QED BY <3>1, <3>2, Zenon
  <2>6. \A t \in snapshots : t.id > s.id => t.retired >= s.retired
    <3>1. \A t \in snapshots : t.id \in Int /\ t.retired \in Int
      BY <1>0 DEF SnapshotsIssued
    <3> QED BY <3>1, <1>0 DEF SnapshotsOrdered
  <2>7. s.id \in -1 .. issued - 1 /\ s.id >= snapshotId
    BY <1>1, <2>3
  <2>8. InboxStep(s.retired, last, s.id)
    BY <2>1, <2>2, <2>4, <2>5, <2>6, <2>7, Zenon DEF InboxStep
  <2> QED BY <2>8, InboxStepInv
<1> QED
  BY <1>3, <1>4, Zenon

\* The welcome publishes what a snapshot before it brought.
LEMMA ProcessWelcomeInv ==
  ASSUME StreamInv, ProcessWelcome
  PROVE  StreamInv' /\ UNCHANGED nextReceipt /\ published' >= published
<1>0. FrontierFacts /\ SnapshotsOrdered /\ ClientBehind
  BY DEF StreamInv
<1>1. /\ accepted \in Int /\ published \in Int /\ retiredR \in Int /\ ackedR \in Int
      /\ nextReceipt \in Int /\ snapshotId \in Int /\ issued \in Int
      /\ -1 <= retiredR /\ retiredR <= ackedR /\ ackedR <= published
      /\ published <= accepted /\ accepted < nextReceipt
      /\ delivered = Interval(-1, published + 1)
      /\ accepted - retiredR <= PerSnapshot
      /\ retained = Interval(retiredR, accepted - retiredR)
      /\ snapshotId \in -1 .. issued - 1
  BY <1>0 DEF FrontierFacts, ClientBehind
<1>2. /\ failed' = FALSE /\ UNCHANGED <<snapshotId, retained, accepted, retiredR>>
      /\ published' = LastOr(Pending(retained), published)
      /\ delivered' = delivered \o Pending(retained)
      /\ UNCHANGED <<serverVars, snapshots, acks>>
  BY <1>0 DEF ProcessWelcome, FrontierFacts
<1>3. /\ LastOr(Pending(retained), published) = accepted
      /\ delivered \o Pending(retained) = Interval(-1, accepted + 1)
  <2>1. retiredR <= published /\ published >= -1
    BY <1>1
  <2> QED BY <1>1, <2>1, PublicationExtends
<1>4. \A t \in snapshots : t.id > snapshotId => t.retired >= retiredR
  BY <1>0 DEF SnapshotsOrdered
<1>5. InboxStep(retiredR, accepted, snapshotId)
  BY SMTT(30), <1>1, <1>2, <1>3, <1>4 DEF InboxStep
<1> QED
  BY <1>5, InboxStepInv

\* The client acknowledges what it published.
LEMMA SendAckInv ==
  ASSUME StreamInv, SendAck
  PROVE  StreamInv' /\ UNCHANGED <<nextReceipt, published, delivered>>
<1>0. FrontierFacts /\ SnapshotsIssued /\ SnapshotsOrdered /\ ClientBehind
  BY DEF StreamInv
<1>1. acks' = acks \cup {published} /\ UNCHANGED <<serverVars, clientVars, snapshots>>
  BY DEF SendAck
<1>2. FrontierFacts' /\ SnapshotsIssued' /\ SnapshotsOrdered'
  BY <1>0, <1>1
     DEF FrontierFacts, SnapshotsIssued, SnapshotsOrdered, serverVars, clientVars
<1>3. ClientBehind'
  BY <1>0, <1>1 DEF ClientBehind, FrontierFacts, clientVars
<1> QED
  BY <1>1, <1>2, <1>3 DEF StreamInv, serverVars, clientVars

\* Every step preserves the invariant; none takes a receipt back, and only the
\* server's step issues receipts, which delivers none.
LEMMA StreamNextInv ==
  ASSUME StreamInv, [StreamNext]_streamVars
  PROVE  /\ StreamInv' /\ published' >= published /\ nextReceipt' >= nextReceipt
         /\ published' = published \/ nextReceipt' = nextReceipt
<1>0. nextReceipt \in Int /\ published \in Int
  BY DEF StreamInv, FrontierFacts
<1>1. ASSUME NEW count \in 0 .. EventsPerTick, ServerStep(count)
      PROVE  StreamInv' /\ published' = published /\ nextReceipt' >= nextReceipt
  <2>1. StreamInv'
    BY <1>1, ServerStepInv
  <2>2. UNCHANGED <<ackedR, published>>
    BY <1>1 DEF ServerStep, clientVars
  <2>3. nextReceipt' = nextReceipt + Enqueued(count) /\ Enqueued(count) \in Nat
    <3>1. nextReceipt' = nextReceipt + Enqueued(count)
      BY <1>1 DEF ServerStep
    <3>2. Enqueued(count) \in 0 .. count /\ count \in Nat
      BY <1>1, EnqueuedFits, ReceiptAssumption DEF StreamInv
    <3> QED BY <3>1, <3>2
  <2> QED BY <1>0, <2>1, <2>2, <2>3
<1>2. ASSUME NEW ack \in acks, ReceiveAck(ack)
      PROVE  StreamInv' /\ UNCHANGED <<nextReceipt, published, delivered>>
  BY <1>2, ReceiveAckInv
<1>3. ASSUME NEW s \in snapshots, ProcessSnapshot(s)
      PROVE  StreamInv' /\ UNCHANGED nextReceipt /\ published' >= published
  BY <1>3, ProcessSnapshotInv
<1>4. CASE ProcessWelcome
  BY <1>0, <1>4, ProcessWelcomeInv
<1>5. CASE SendAck
  BY <1>0, <1>5, SendAckInv
<1>6. CASE UNCHANGED streamVars
  <2>1. FrontierFacts' /\ SnapshotsIssued' /\ SnapshotsOrdered' /\ ClientBehind'
    BY <1>6 DEF StreamInv, FrontierFacts, SnapshotsIssued, SnapshotsOrdered, ClientBehind,
                streamVars, serverVars, clientVars
  <2> QED BY <1>0, <1>6, <2>1 DEF StreamInv, streamVars, serverVars, clientVars
<1> QED
  BY <1>0, <1>1, <1>2, <1>3, <1>4, <1>5, <1>6 DEF StreamNext

-----------------------------------------------------------------------------
(* Theorems.                                                               *)

\* The invariant holds in every reachable state.
LEMMA StreamInvHolds == StreamSpec => []StreamInv
<1>1. StreamInit => StreamInv
  BY StreamInitInv
<1>2. StreamInv /\ [StreamNext]_streamVars => StreamInv'
  BY StreamNextInv
<1> QED
  BY <1>1, <1>2, PTL DEF StreamSpec

\* The retirement frontiers of server and client stay in order, each side holds
\* exactly the receipts past its own, every snapshot is one the codec sends, and
\* no peer is ever found in violation, for every order, loss and repetition of
\* snapshots and acknowledgements (acknowledge_authority_receipts,
\* AuthorityReceiptInbox::apply).
THEOREM FrontiersAlwaysAgree == StreamSpec => []FrontiersAgree
<1>1. StreamInv => FrontiersAgree
  BY InvSuffices
<1> QED
  BY <1>1, StreamInvHolds, PTL

\* Step by step, the receipt stream is in-order exactly-once delivery of what
\* the server reports.
THEOREM StreamImplementsDelivery == StreamSpec => ImplementsDelivery
<1>1. StreamInit => Delivery!DeliveryInit
  BY DEF StreamInit, Delivery!DeliveryInit
<1>2. ASSUME StreamInv, StreamInv', [StreamNext]_streamVars
      PROVE  [Delivery!Report \/ Delivery!Deliver]_<<nextReceipt, delivered>>
  <2>1. /\ published \in Int /\ published >= -1 /\ published < nextReceipt
        /\ nextReceipt \in Nat /\ delivered = Interval(-1, published + 1)
    BY <1>2, ReceiptAssumption DEF StreamInv, FrontierFacts, ClientBehind
  <2>2. /\ published' \in Int /\ published' >= -1 /\ published' < nextReceipt'
        /\ nextReceipt' \in Nat /\ delivered' = Interval(-1, published' + 1)
    BY <1>2, ReceiptAssumption DEF StreamInv, FrontierFacts, ClientBehind
  <2>3. /\ published' >= published /\ nextReceipt' >= nextReceipt
        /\ published' = published \/ nextReceipt' = nextReceipt
    BY <1>2, StreamNextInv
  <2>4. Len(delivered) = published + 1 /\ Len(delivered') = published' + 1
    <3>1. ASSUME NEW p \in Int, p >= -1
          PROVE  Len(Interval(-1, p + 1)) = p + 1
      BY <3>1 DEF Interval
    <3> QED BY <2>1, <2>2, <3>1
  <2>5. CASE published' = published
    <3>1. delivered' = delivered
      BY <2>1, <2>2, <2>5
    <3>2. nextReceipt' > nextReceipt \/ nextReceipt' = nextReceipt
      BY <2>1, <2>2, <2>3
    <3> QED BY <2>2, <3>1, <3>2 DEF Delivery!Report
  <2>6. CASE published' # published
    <3>1. nextReceipt' = nextReceipt /\ published' > published
      BY <2>1, <2>2, <2>3, <2>6
    <3>2. Len(delivered') \in Len(delivered) + 1 .. nextReceipt
      BY <2>1, <2>2, <2>4, <3>1
    <3>3. delivered' = [i \in 1 .. Len(delivered') |-> i - 1]
      <4>1. delivered' = [i \in 1 .. Len(delivered') |-> -1 + i]
        BY <2>2, <2>4 DEF Interval
      <4>2. \A i \in 1 .. Len(delivered') : -1 + i = i - 1
        OBVIOUS
      <4> QED BY <4>1, <4>2, Zenon
    <3> QED BY <3>1, <3>2, <3>3 DEF Delivery!Deliver
  <2> QED BY <2>5, <2>6
<1>3. QED
  BY <1>1, <1>2, StreamInvHolds, PTL
     DEF StreamSpec, ImplementsDelivery, Delivery!DeliverySpec

-----------------------------------------------------------------------------
(* From prediction to pixels.                                              *)

\* A set of at most one element as a sequence.
LEMMA SetToSeqOne ==
  ASSUME NEW x
  PROVE  SetToSeq({}) = << >> /\ SetToSeq({x}) = <<x>>
<1>1. SetToSeq({}) = << >>
  <2>1. Cardinality({}) = 0
    BY FS_EmptySet
  <2>2. \A f \in [1 .. 0 -> {}] : f = << >>
    OBVIOUS
  <2>3. << >> \in [1 .. 0 -> {}] /\ IsInjective(<< >>)
    BY DEF IsInjective
  <2> QED BY <2>1, <2>2, <2>3 DEF SetToSeq
<1>2. SetToSeq({x}) = <<x>>
  <2>1. Cardinality({x}) = 1
    BY FS_Singleton
  <2>2. \A f \in [1 .. 1 -> {x}] : f = <<x>>
    OBVIOUS
  <2>3. <<x>> \in [1 .. 1 -> {x}] /\ IsInjective(<<x>>)
    BY DEF IsInjective
  <2> QED BY <2>1, <2>2, <2>3 DEF SetToSeq
<1> QED BY <1>1, <1>2

-----------------------------------------------------------------------------
\* Where the key stands, as the queue of batches tells it.
Stages == [phase : {"none", "predicted", "settled"}, owed : BOOLEAN]
Moves ==
  {<<"none", "FirstPredicted", "predicted">>, <<"predicted", "Revised", "predicted">>,
   <<"predicted", "Retracted", "none">>, <<"predicted", "Confirmed", "settled">>,
   <<"none", "AuthorityOnly", "settled">>}
Final == {"Retracted", "Confirmed", "AuthorityOnly"}

ChangeFacts(c) ==
  /\ c.transition \in Transitions /\ ValidShape(c)
  /\ Alternative(IF c.current # None THEN c.current ELSE c.previous) = kind
  /\ ChangeTick(c) \in 1 .. MaxHead
Silent(b, s, t) == b.changes = << >> /\ Key \notin b.retired /\ t.phase = s.phase
Speaks(b, s, t) ==
  /\ Len(b.changes) = 1 /\ ChangeFacts(b.changes[1])
  /\ <<s.phase, b.changes[1].transition, t.phase>> \in Moves
  /\ Key \in b.retired <=> b.changes[1].transition \in Final
Link(s, b, t) ==
  /\ DOMAIN b = {"changes", "retired", "external"}
  /\ Silent(b, s, t) \/ Speaks(b, s, t)
  /\ t.owed <=> Key \notin b.external /\ (Key \in b.retired \/ s.owed)
  /\ Key \in b.external => Key \in b.retired \/ s.owed
Path(list, s, t) ==
  \E f \in [0 .. Len(list) -> Stages] :
    /\ f[0] = s /\ f[Len(list)] = t
    /\ \A i \in 1 .. Len(list) : Link(f[i - 1], list[i], f[i])

RuntimeStage ==
  [phase |-> IF receipt # "none" THEN "settled"
             ELSE IF predicted # NoTick THEN "predicted" ELSE "none",
   owed |-> pending # NoTick]

\* What the ledger knows of the key in each phase: the cue's token is held while
\* the key is predicted, and the flash was shown by then.
Known(entry, phase) ==
  /\ entry \in Entries
  /\ \A h \in PredictCancelable : h # CueHandler => entry.token[h] = "absent"
  /\ entry.token[CueHandler] = "held" <=> phase = "predicted"
  /\ phase = "none" => entry.token[CueHandler] = "absent"
  /\ ConfirmedAbsorption \in entry.delivered => phase = "settled"
  /\ phase = "predicted" => \A h \in PredictOnce : h.event = kind => h \in entry.delivered

\* A retirement that is owed has only the replay's evidence; nothing is known of
\* a key that is neither predicted nor owed; external evidence waits for a token.
Evidence(entry, s) ==
  /\ s.owed => entry.replayRetired /\ ~entry.externallyRetired
  /\ ~s.owed /\ s.phase # "predicted" => entry = NewEntry
  /\ entry.externallyRetired => entry.replayRetired /\ s.phase = "predicted"

\* The next flash of the key is one that external evidence has made room for.
Repeatable(entry) ==
  \/ \E h \in PredictOnce : h.event = kind /\ h \notin entry.delivered
  \/ entry.externallyRetired
Counted(fl, cl, entry) ==
  fl \in Nat /\ cl \in Nat /\ fl <= cl + 1 /\ (Repeatable(entry) => fl <= cl)

\* The records: the only one that is not terminal is the one the token names.
Cues(recs, n, c, phase) ==
  /\ n \in Nat /\ c \in Nat /\ c < n
  /\ \A r \in recs :
       /\ DOMAIN r = {"token", "oneShot", "canceled", "terminal", "age", "canceledFor"}
       /\ r.token \in Nat /\ r.token < n
       /\ r.oneShot => r.terminal
       /\ ~r.terminal <=> phase = "predicted" /\ r.token = c
  /\ phase = "predicted" => \E r \in recs : r.token = c

StoreFields == {"book", "records", "next", "cue", "stingers", "flashes", "closings"}
StoreInv(st, s) ==
  /\ DOMAIN st = StoreFields /\ DOMAIN st.book = {"entry", "fired", "open"}
  /\ Known(st.book.entry, s.phase) /\ Evidence(st.book.entry, s)
  /\ Counted(st.flashes, st.closings, st.book.entry)
  /\ st.stingers = IF s.phase = "settled" /\ kind = "absorbed" THEN 1 ELSE 0
  /\ Cues(st.records, st.next, st.cue, s.phase)

Shown ==
  [book |-> Booked(ledger[Key], fired[Key], open[Key]),
   records |-> records, next |-> nextToken, cue |-> cue,
   stingers |-> stingers, flashes |-> flashes, closings |-> closings]
BatchRecords == [changes : Seq(Changes), retired : SUBSET Keys, external : SUBSET Keys]
RuntimeInv ==
  /\ kind \in Kinds /\ serverTick \in Nat /\ authTick \in 0 .. serverTick
  /\ occurred \in 0 .. serverTick /\ predTick \in authTick .. MaxHead
  /\ predicted # NoTick => predicted \in authTick + 1 .. predTick
  /\ pending \in 0 .. MaxHead /\ predicted \in 0 .. MaxHead
  /\ spectating \in BOOLEAN /\ queueFull \in BOOLEAN
  /\ receipt \in {"none", "accepted", "retired"}
  /\ receipt # "none" => Gone(authTick)
  /\ Gone(authTick) \/ spectating => predicted = NoTick
  /\ receipt = "accepted" => pending # NoTick
  /\ receipt = "retired" => pending = NoTick
  /\ batches \in Seq(BatchRecords)
PipelineInv == RuntimeInv /\ ledger = [k \in Keys |-> ledger[Key]]
   /\ \E s \in Stages : Path(batches, s, RuntimeStage) /\ StoreInv(Shown, s)

\* The handlers of an alternative.
LEMMA HandlerFacts ==
  ASSUME kind \in Kinds
  PROVE  /\ CueHandler \in PredictCancelable
         /\ \A h \in PredictCancelable : h.event = kind <=> h = CueHandler
         /\ ConfirmOnce = {ConfirmedAbsorption} /\ ConfirmedAbsorption.event = "absorbed"
         /\ ConfirmedAbsorption \notin PredictOnce
         /\ PredictCancelable \cap (PredictOnce \cup ConfirmOnce) = {}
         /\ \A h \in PredictOnce \cup ConfirmOnce \cup PredictCancelable :
              Subscription[h] = h.event
<1>1. PredictCancelable = {SplitLaunch, FoodPop, ConsumeCollapse}
  BY PipelineAssumption DEF ByPolicy, Router, Handler, SplitFlash, SplitLaunch, FoodPop,
     ConsumeFlash, ConsumeCollapse, ConfirmedAbsorption
<1>2. ConfirmOnce = {ConfirmedAbsorption} /\ PredictOnce = {SplitFlash, ConsumeFlash}
  BY PipelineAssumption DEF ByPolicy, Router, Handler, SplitFlash, SplitLaunch, FoodPop,
     ConsumeFlash, ConsumeCollapse, ConfirmedAbsorption
<1>3. /\ SplitLaunch.event = "split" /\ FoodPop.event = "consumed"
      /\ ConsumeCollapse.event = "absorbed" /\ ConfirmedAbsorption.event = "absorbed"
  BY DEF Handler, SplitLaunch, FoodPop, ConsumeCollapse, ConfirmedAbsorption
<1>4. \E h \in PredictCancelable : h.event = kind
  BY <1>1, <1>3 DEF Kinds
<1>5. CueHandler \in PredictCancelable /\ CueHandler.event = kind
  BY <1>4 DEF CueHandler
<1>6. \A h \in PredictCancelable : h.event = kind <=> h = CueHandler
  BY <1>5, <1>1, <1>3
<1>7. \A h \in Router : Subscription[h] = h.event
  BY PipelineAssumption
<1>8. PredictOnce \cup ConfirmOnce \cup PredictCancelable \subseteq Router
  BY <1>1, <1>2 DEF Router
<1>9. ConfirmedAbsorption \notin PredictOnce
      /\ PredictCancelable \cap (PredictOnce \cup ConfirmOnce) = {}
  BY <1>2, HandlerAssumption
<1> QED BY <1>2, <1>3, <1>5, <1>6, <1>7, <1>8, <1>9

-----------------------------------------------------------------------------
(* Queues of batches.                                                      *)

\* An empty queue leads nowhere.
LEMMA PathEmpty ==
  ASSUME NEW s \in Stages
  PROVE  Path(<< >>, s, s)
<1> DEFINE f == [i \in 0 .. 0 |-> s]
<1>1. f \in [0 .. Len(<< >>) -> Stages] /\ f[0] = s /\ f[Len(<< >>)] = s
  OBVIOUS
<1>2. \A i \in 1 .. Len(<< >>) : Link(f[i - 1], << >>[i], f[i])
  OBVIOUS
<1> QED BY <1>1, <1>2 DEF Path

\* A batch at the end of a queue leads one step further.
LEMMA PathAppend ==
  ASSUME NEW list, NEW S, list \in Seq(S), NEW b \in S,
         NEW s, NEW t, NEW u \in Stages, Path(list, s, t), Link(t, b, u)
  PROVE  Path(Append(list, b), s, u)
<1>1. PICK f \in [0 .. Len(list) -> Stages] :
        /\ f[0] = s /\ f[Len(list)] = t
        /\ \A i \in 1 .. Len(list) : Link(f[i - 1], list[i], f[i])
  BY DEF Path
<1> DEFINE n == Len(list)
           more == Append(list, b)
           g == [i \in 0 .. n + 1 |-> IF i <= n THEN f[i] ELSE u]
<1>2. n \in Nat
  BY LenProperties
<1>3. /\ Len(more) = n + 1 /\ more[n + 1] = b
      /\ \A i \in 1 .. n : more[i] = list[i]
  BY AppendProperties
<1> HIDE DEF more, n
<1>4. f \in [0 .. n -> Stages] /\ f[0] = s /\ f[n] = t
  BY <1>1 DEF n
<1>5. g \in [0 .. n + 1 -> Stages] /\ g[0] = s /\ g[n + 1] = u
  BY <1>2, <1>4
<1>6. ASSUME NEW i \in 1 .. n + 1
      PROVE  Link(g[i - 1], more[i], g[i])
  <2>1. CASE i <= n
    <3>1. g[i] = f[i] /\ g[i - 1] = f[i - 1]
      BY <2>1, <1>2
    <3>2. i \in 1 .. n
      BY <2>1, <1>2
    <3>3. Link(f[i - 1], list[i], f[i])
      BY <3>2, <1>1 DEF n
    <3> QED BY <3>1, <3>2, <3>3, <1>3
  <2>2. CASE i = n + 1
    <3>1. g[i] = u /\ g[i - 1] = t
      BY <2>2, <1>2, <1>4
    <3> QED BY <3>1, <2>2, <1>3
  <2> QED BY <2>1, <2>2, <1>2
<1>7. g \in [0 .. Len(more) -> Stages] /\ g[0] = s /\ g[Len(more)] = u
      /\ \A i \in 1 .. Len(more) : Link(g[i - 1], more[i], g[i])
  BY <1>3, <1>5, <1>6
<1> HIDE DEF g
<1>8. Path(more, s, u)
  BY <1>7 DEF Path
<1> QED BY <1>8 DEF more

\* Two queues, the second where the first ends.
LEMMA PathConcat ==
  ASSUME NEW S, NEW a \in Seq(S), NEW b \in Seq(S),
         NEW s, NEW t, NEW u, Path(a, s, t), Path(b, t, u)
  PROVE  Path(a \o b, s, u)
<1>1. PICK f \in [0 .. Len(a) -> Stages] :
        /\ f[0] = s /\ f[Len(a)] = t
        /\ \A i \in 1 .. Len(a) : Link(f[i - 1], a[i], f[i])
  BY DEF Path
<1>2. PICK h \in [0 .. Len(b) -> Stages] :
        /\ h[0] = t /\ h[Len(b)] = u
        /\ \A i \in 1 .. Len(b) : Link(h[i - 1], b[i], h[i])
  BY DEF Path
<1> DEFINE n == Len(a)
           m == Len(b)
           all == a \o b
           g == [i \in 0 .. n + m |-> IF i <= n THEN f[i] ELSE h[i - n]]
<1>3. n \in Nat /\ m \in Nat
  BY LenProperties
<1>4. Len(all) = n + m /\ \A i \in 1 .. n + m : all[i] = IF i <= n THEN a[i] ELSE b[i - n]
  BY ConcatProperties
<1>5. /\ f \in [0 .. n -> Stages] /\ f[0] = s /\ f[n] = t
      /\ h \in [0 .. m -> Stages] /\ h[0] = t /\ h[m] = u
  BY <1>1, <1>2
<1>6. \A i \in 1 .. n : Link(f[i - 1], a[i], f[i])
  BY <1>1
<1>7. \A i \in 1 .. m : Link(h[i - 1], b[i], h[i])
  BY <1>2
<1> HIDE DEF all, n, m
<1>8. g \in [0 .. n + m -> Stages]
  <2>1. \A i \in 0 .. n + m : ~(i <= n) => i - n \in 0 .. m
    BY <1>3
  <2>2. \A i \in 0 .. n + m : i <= n => i \in 0 .. n
    BY <1>3
  <2> QED BY <2>1, <2>2, <1>5
<1>9. g[0] = s /\ g[n + m] = u
  <2>1. g[0] = f[0]
    BY <1>3
  <2>2. CASE m = 0
    BY <2>1, <2>2, <1>3, <1>5
  <2>3. CASE m # 0
    <3>1. g[n + m] = h[n + m - n]
      BY <2>3, <1>3
    <3> QED BY <3>1, <2>1, <1>3, <1>5
  <2> QED BY <2>2, <2>3
<1>10. ASSUME NEW i \in 1 .. n + m
       PROVE  Link(g[i - 1], all[i], g[i])
  <2>1. CASE i <= n
    <3>1. g[i] = f[i] /\ g[i - 1] = f[i - 1] /\ all[i] = a[i]
      BY <2>1, <1>3, <1>4
    <3>2. i \in 1 .. n
      BY <2>1, <1>3
    <3> QED BY <3>1, <3>2, <1>6
  <2>2. CASE i = n + 1
    <3>1. g[i - 1] = t /\ g[i] = h[1] /\ all[i] = b[1] /\ 1 \in 1 .. m
      BY <2>2, <1>3, <1>4, <1>5
    <3>2. Link(h[1 - 1], b[1], h[1])
      BY <3>1, <1>7
    <3>3. h[1 - 1] = t
      BY <1>5
    <3> QED BY <3>1, <3>2, <3>3
  <2>3. CASE i > n + 1
    <3>1. g[i] = h[i - n] /\ g[i - 1] = h[i - 1 - n] /\ all[i] = b[i - n]
      BY <2>3, <1>3, <1>4
    <3>2. i - n \in 1 .. m /\ i - 1 - n = (i - n) - 1
      BY <2>3, <1>3
    <3>3. Link(h[(i - n) - 1], b[i - n], h[i - n])
      BY <3>2, <1>7
    <3> QED BY <3>1, <3>2, <3>3
  <2> QED BY <2>1, <2>2, <2>3, <1>3
<1>11. g \in [0 .. Len(all) -> Stages] /\ g[0] = s /\ g[Len(all)] = u
       /\ \A i \in 1 .. Len(all) : Link(g[i - 1], all[i], g[i])
  BY <1>4, <1>8, <1>9, <1>10
<1> HIDE DEF g
<1>12. Path(all, s, u)
  BY <1>11 DEF Path
<1> QED BY <1>12 DEF all

\* The proof goes with the last batch, or alone.
LEMMA PathAttached ==
  ASSUME NEW S, NEW list \in Seq(S),
         NEW s, NEW t \in Stages, Path(list, s, t), t.owed
  PROVE  Path(Attached(list), s, [phase |-> t.phase, owed |-> FALSE])
<1> DEFINE u == [phase |-> t.phase, owed |-> FALSE]
<1>1. u \in Stages
  BY DEF Stages
<1>2. u.phase = t.phase /\ u.owed = FALSE
  OBVIOUS
<1> HIDE DEF u
<1>3. PICK f \in [0 .. Len(list) -> Stages] :
        /\ f[0] = s /\ f[Len(list)] = t
        /\ \A i \in 1 .. Len(list) : Link(f[i - 1], list[i], f[i])
  BY DEF Path
<1>4. Len(list) \in Nat /\ DOMAIN list = 1 .. Len(list)
  BY LenProperties
<1>5. CASE list = << >>
  <2> DEFINE b == [changes |-> << >>, retired |-> {}, external |-> {Key}]
             one == <<b>>
  <2>1. s = t
    BY <1>3, <1>5
  <2>2. Silent(t, t, u) => Silent(s, t, u)
    BY <2>1
  <2>3. Link(t, b, u)
    BY <1>2 DEF Link, Silent
  <2>4. Path(<< >>, t, t)
    BY PathEmpty
  <2>5. << >> \in Seq({b})
    OBVIOUS
  <2>6. Path(Append(<< >>, b), t, u)
    BY <2>3, <2>4, <2>5, <1>1, PathAppend
  <2>7. Attached(list) = Append(<< >>, b)
    BY <1>5 DEF Attached
  <2> QED BY <2>6, <2>7, <2>1 DEF u
<1>6. CASE list # << >>
  <2> DEFINE n == Len(list)
             b == [list[n] EXCEPT !.external = {Key}]
             more == [list EXCEPT ![n].external = {Key}]
             g == [f EXCEPT ![n] = u]
  <2>1. n \in 1 .. n /\ n \in Nat
    BY <1>4, <1>6, EmptySeq
  <2>2. /\ Len(more) = n /\ more[n] = b
        /\ \A i \in 1 .. n : i # n => more[i] = list[i]
    <3>1. more = [i \in DOMAIN list |-> IF i = n THEN b ELSE list[i]]
      BY <2>1, <1>4
    <3> QED BY <3>1, <2>1, <1>4
  <2>3. Link(f[n - 1], list[n], t)
    BY <1>3, <2>1
  <2>4. Link(f[n - 1], b, u)
    <3>1. /\ DOMAIN list[n] = {"changes", "retired", "external"}
          /\ Silent(f[n - 1], list[n], t) \/ Speaks(f[n - 1], list[n], t)
          /\ Key \in list[n].retired \/ f[n - 1].owed
      BY <2>3 DEF Link
    <3>2. /\ DOMAIN b = {"changes", "retired", "external"} /\ b.external = {Key}
          /\ b.changes = list[n].changes /\ b.retired = list[n].retired
      BY <3>1
    <3> HIDE DEF b
    <3>3. Silent(f[n - 1], b, u) \/ Speaks(f[n - 1], b, u)
      BY SMTT(30), <3>1, <3>2, <1>2 DEF Silent, Speaks
    <3> QED BY <3>1, <3>2, <3>3, <1>2 DEF Link
  <2>5. g \in [0 .. n -> Stages] /\ g[0] = s /\ g[n] = u
        /\ \A i \in 0 .. n : i # n => g[i] = f[i]
    BY <1>1, <1>3, <2>1
  <2> HIDE DEF g, more, b
  <2>6. ASSUME NEW i \in 1 .. n
        PROVE  Link(g[i - 1], more[i], g[i])
    <3>1. i - 1 \in 0 .. n /\ i - 1 # n /\ i \in 0 .. n
      BY <2>1
    <3>2. g[i - 1] = f[i - 1]
      BY <3>1, <2>5
    <3>3. CASE i = n
      BY <3>2, <3>3, <2>2, <2>4, <2>5
    <3>4. CASE i # n
      BY <3>1, <3>2, <3>4, <2>2, <2>5, <1>3
    <3> QED BY <3>3, <3>4
  <2>7. g \in [0 .. Len(more) -> Stages] /\ g[0] = s /\ g[Len(more)] = u
        /\ \A i \in 1 .. Len(more) : Link(g[i - 1], more[i], g[i])
    BY <2>2, <2>5, <2>6
  <2> HIDE DEF n
  <2>8. Path(more, s, u)
    BY <2>7 DEF Path
  <2>9. Attached(list) = more
    BY <1>6 DEF Attached, more, n
  <2> QED BY <2>8, <2>9 DEF u
<1> QED BY <1>5, <1>6

-----------------------------------------------------------------------------
(* The ledger entry of the key.                                            *)

\* A key of which nothing is known.
LEMMA NewEntryKnown ==
  ASSUME kind \in Kinds, NEW phase, phase # "predicted"
  PROVE  Known(NewEntry, phase)
<1>1. NewEntry \in Entries
  BY DEF NewEntry, Entries, Tokens
<1>2. CueHandler \in PredictCancelable
  BY HandlerFacts
<1> QED BY <1>1, <1>2 DEF Known, NewEntry

\* Pruning forgets an entry with both kinds of evidence unless its cue is held.
LEMMA PrunedEntry ==
  ASSUME kind \in Kinds, NEW b, NEW phase, Known(b.entry, phase)
  PROVE  /\ Prune(b).entry = IF /\ b.entry.replayRetired /\ b.entry.externallyRetired
                                /\ phase # "predicted"
                             THEN NewEntry ELSE b.entry
         /\ Known(Prune(b).entry, phase)
         /\ DOMAIN b = {"entry", "fired", "open"}
              => DOMAIN Prune(b) = {"entry", "fired", "open"}
<1>1. Prunable(b.entry) <=> /\ b.entry.replayRetired /\ b.entry.externallyRetired
                            /\ phase # "predicted"
  <2>1. CueHandler \in PredictCancelable
    BY HandlerFacts
  <2>2. /\ \A h \in PredictCancelable : h # CueHandler => b.entry.token[h] = "absent"
        /\ b.entry.token[CueHandler] = "held" <=> phase = "predicted"
    BY DEF Known
  <2> QED BY <2>1, <2>2 DEF Prunable
<1>2. Prune(b).entry = IF /\ b.entry.replayRetired /\ b.entry.externallyRetired
                          /\ phase # "predicted"
                       THEN NewEntry ELSE b.entry
  BY <1>1 DEF Prune, Booked
<1>3. phase # "predicted" => Known(NewEntry, phase)
  BY NewEntryKnown
<1>4. Known(Prune(b).entry, phase)
  BY <1>2, <1>3
<1>5. DOMAIN b = {"entry", "fired", "open"} => DOMAIN Prune(b) = {"entry", "fired", "open"}
  BY DEF Prune, Booked
<1> QED BY <1>2, <1>4, <1>5

\* What a change makes of an entry, before pruning.
HandledBy(b, c, after) ==
  /\ DOMAIN after = {"entry", "fired", "open"} /\ after.entry \in Entries
  /\ after.entry.delivered = b.entry.delivered \cup OnceCalled(b.entry, c)
  /\ \A h \in PredictCancelable :
       after.entry.token[h] =
         IF Concerns(h, c) THEN NextToken(b.entry.token[h], c.transition, h = CueHandler)
         ELSE b.entry.token[h]
  /\ after.entry.replayRetired = b.entry.replayRetired
  /\ after.entry.externallyRetired = b.entry.externallyRetired

\* Dispatching a change updates the entry as HandledBy says.
LEMMA DispatchedEntry ==
  ASSUME NEW b, b.entry \in Entries, NEW c
  PROVE  HandledBy(b, c, Dispatched(b, c, {CueHandler}))
<1> DEFINE after == Dispatched(b, c, {CueHandler})
           entry == b.entry
           d == entry.delivered \cup OnceCalled(entry, c)
           concerned == {h \in PredictCancelable : Concerns(h, c)}
           tokens == [h \in PredictCancelable |->
                        IF h \in concerned
                        THEN NextToken(entry.token[h], c.transition, h \in {CueHandler})
                        ELSE entry.token[h]]
           new == [entry EXCEPT !.delivered = d, !.token = tokens]
<1>1. entry.delivered \subseteq PredictOnce \cup ConfirmOnce
      /\ entry.token \in [PredictCancelable -> Tokens]
  BY DEF Entries
<1>2. d \in SUBSET (PredictOnce \cup ConfirmOnce)
  BY <1>1 DEF OnceCalled
<1>3. tokens \in [PredictCancelable -> Tokens]
  BY <1>1 DEF NextToken, Tokens
<1>4. \A h \in PredictCancelable :
        tokens[h] = IF Concerns(h, c) THEN NextToken(entry.token[h], c.transition, h = CueHandler)
                    ELSE entry.token[h]
  OBVIOUS
<1>5. DOMAIN after = {"entry", "fired", "open"} /\ after.entry = new
  BY DEF Dispatched, Booked
<1> HIDE DEF d, tokens, after
<1>6. new \in Entries /\ new.delivered = d /\ new.token = tokens
  BY <1>2, <1>3 DEF Entries
<1>7. new.replayRetired = entry.replayRetired
      /\ new.externallyRetired = entry.externallyRetired
  BY DEF Entries
<1>8. HandledBy(b, c, after)
  BY <1>4, <1>5, <1>6, <1>7 DEF d, HandledBy
<1> QED BY <1>8 DEF after

\* What each move of the key is, and what the once-handlers are called for.
LEMMA MoveFacts ==
  ASSUME NEW p, NEW tr, NEW q, <<p, tr, q>> \in Moves
  PROVE  /\ tr \in Transitions /\ p # "settled" /\ p \in {"none", "predicted"}
         /\ q \in {"none", "predicted", "settled"}
         /\ tr \in {"FirstPredicted", "AuthorityOnly"} <=> p = "none"
         /\ tr \in {"FirstPredicted", "Revised"} <=> q = "predicted"
         /\ tr = "Retracted" <=> q = "none"
         /\ tr \in {"Confirmed", "AuthorityOnly"} <=> q = "settled"
         /\ tr \in Final <=> q # "predicted"
BY DEF Moves, Transitions, Final

CallFacts(entry, p, c, q) ==
  /\ \A h \in PredictOnce \cup ConfirmOnce \cup PredictCancelable :
       Concerns(h, c) <=> h.event = kind
  /\ OnceCalled(entry, c) \subseteq PredictOnce \cup ConfirmOnce
  /\ ConfirmedAbsorption \in OnceCalled(entry, c) <=> kind = "absorbed" /\ q = "settled"
  /\ OnceCalled(entry, c) \cap PredictOnce # {} =>
       /\ p = "none" /\ q # "none"
       /\ \E h \in PredictOnce : h.event = kind /\ h \notin entry.delivered
  /\ p = "none" /\ q # "none" =>
       \A h \in PredictOnce : h.event = kind => h \in entry.delivered \cup OnceCalled(entry, c)

\* The once-handlers a change calls are those of its alternative that still wait.
LEMMA Called ==
  ASSUME kind \in Kinds, NEW entry, NEW p, NEW q, Known(entry, p), NEW c, ChangeFacts(c),
         <<p, c.transition, q>> \in Moves
  PROVE  CallFacts(entry, p, c, q)
<1>1. \A h \in PredictOnce \cup ConfirmOnce \cup PredictCancelable :
        Concerns(h, c) <=> h.event = kind
  <2>1. Alternative(IF c.current # None THEN c.current ELSE c.previous) = kind
    BY DEF ChangeFacts
  <2>2. \A h \in PredictOnce \cup ConfirmOnce \cup PredictCancelable :
          Subscription[h] = h.event
    BY HandlerFacts
  <2> QED BY <2>1, <2>2 DEF Concerns
<1>2. OnceCalled(entry, c) \subseteq PredictOnce \cup ConfirmOnce
  BY DEF OnceCalled
<1>3. /\ ConfirmedAbsorption \in ConfirmOnce /\ ConfirmedAbsorption.event = "absorbed"
      /\ ConfirmedAbsorption \notin PredictOnce
  BY HandlerFacts
<1>4. /\ p \in {"none", "predicted"}
      /\ c.transition \in {"FirstPredicted", "AuthorityOnly"} <=> p = "none"
      /\ c.transition = "Retracted" <=> q = "none"
      /\ c.transition \in {"FirstPredicted", "Revised"} <=> q = "predicted"
      /\ c.transition \in {"Confirmed", "AuthorityOnly"} <=> q = "settled"
  BY MoveFacts
<1>5. ConfirmedAbsorption \in OnceCalled(entry, c) <=> kind = "absorbed" /\ q = "settled"
  <2>1. ConfirmedAbsorption \notin entry.delivered
    BY <1>4 DEF Known
  <2>2. Concerns(ConfirmedAbsorption, c) <=> kind = "absorbed"
    BY <1>1, <1>3
  <2>3. Triggers(ConfirmedAbsorption) = {"Confirmed", "AuthorityOnly"}
    BY <1>3 DEF Triggers
  <2> QED BY <1>3, <1>4, <2>1, <2>2, <2>3 DEF OnceCalled
<1>6. \A h \in PredictOnce : Triggers(h) = {"FirstPredicted", "Confirmed", "AuthorityOnly"}
  BY DEF Triggers
<1>7. ASSUME NEW h \in PredictOnce, h \in OnceCalled(entry, c)
      PROVE  /\ p = "none" /\ q # "none"
             /\ h.event = kind /\ h \notin entry.delivered
  <2>1. /\ h.event = kind /\ h \notin entry.delivered
        /\ c.transition \in {"FirstPredicted", "Confirmed", "AuthorityOnly"}
    BY <1>1, <1>6, <1>7 DEF OnceCalled
  <2>2. p # "predicted"
    BY <2>1 DEF Known
  <2> QED BY <2>1, <2>2, <1>4
<1>8. ASSUME p = "none", q # "none", NEW h \in PredictOnce, h.event = kind
      PROVE  h \in entry.delivered \cup OnceCalled(entry, c)
  BY <1>1, <1>4, <1>6, <1>8 DEF OnceCalled
<1>9. OnceCalled(entry, c) \cap PredictOnce # {} =>
              /\ p = "none" /\ q # "none"
              /\ \E h \in PredictOnce : h.event = kind /\ h \notin entry.delivered
  BY <1>7
<1> QED BY <1>1, <1>2, <1>5, <1>8, <1>9 DEF CallFacts

\* A change moves the entry along with the key.
LEMMA HandledKnown ==
  ASSUME kind \in Kinds, NEW b, NEW p, NEW q, Known(b.entry, p), NEW c, ChangeFacts(c),
         <<p, c.transition, q>> \in Moves
  PROVE  Known(Dispatched(b, c, {CueHandler}).entry, q)
<1> DEFINE after == Dispatched(b, c, {CueHandler})
<1> DEFINE entry == b.entry
<1>1. CueHandler \in PredictCancelable /\ CueHandler.event = kind
      /\ \A h \in PredictCancelable : h.event = kind <=> h = CueHandler
  BY HandlerFacts
<1>2. /\ entry \in Entries
      /\ \A h \in PredictCancelable : h # CueHandler => entry.token[h] = "absent"
      /\ entry.token[CueHandler] = "held" <=> p = "predicted"
      /\ p = "none" => entry.token[CueHandler] = "absent"
      /\ ConfirmedAbsorption \in entry.delivered => p = "settled"
      /\ p = "predicted" => \A h \in PredictOnce : h.event = kind => h \in entry.delivered
  BY DEF Known
<1> HIDE DEF after
<1>3. /\ after.entry \in Entries
      /\ after.entry.delivered = entry.delivered \cup OnceCalled(entry, c)
      /\ \A h \in PredictCancelable :
           after.entry.token[h] =
             IF Concerns(h, c) THEN NextToken(entry.token[h], c.transition, h = CueHandler)
             ELSE entry.token[h]
  <2>1. HandledBy(b, c, after)
    BY <1>2, DispatchedEntry DEF after
  <2> QED BY <2>1 DEF HandledBy
<1>4. /\ \A h \in PredictOnce \cup ConfirmOnce \cup PredictCancelable :
              Concerns(h, c) <=> h.event = kind
      /\ ConfirmedAbsorption \in OnceCalled(entry, c) <=> kind = "absorbed" /\ q = "settled"
      /\ p = "none" /\ q # "none" =>
              \A h \in PredictOnce : h.event = kind => h \in entry.delivered \cup OnceCalled(entry, c)
  <2>1. CallFacts(entry, p, c, q)
    BY Called
  <2> QED BY <2>1 DEF CallFacts
<1>5. /\ p \in {"none", "predicted"}
      /\ q \in {"none", "predicted", "settled"}
      /\ c.transition \in {"FirstPredicted", "AuthorityOnly"} <=> p = "none"
      /\ c.transition \in {"FirstPredicted", "Revised"} <=> q = "predicted"
      /\ c.transition = "Retracted" <=> q = "none"
      /\ c.transition \in {"Confirmed", "AuthorityOnly"} <=> q = "settled"
      /\ c.transition \in Transitions
  BY MoveFacts
<1> HIDE DEF entry
<1>6. \A h \in PredictCancelable : h # CueHandler => after.entry.token[h] = "absent"
  BY <1>1, <1>2, <1>3, <1>4
<1>7. after.entry.token[CueHandler] = NextToken(entry.token[CueHandler], c.transition, TRUE)
  BY <1>1, <1>3, <1>4
<1>8. after.entry.token[CueHandler] = "held" <=> q = "predicted"
  BY <1>2, <1>5, <1>7 DEF NextToken, Transitions
<1>9. q = "none" => after.entry.token[CueHandler] = "absent"
  BY <1>2, <1>5, <1>7 DEF NextToken, Transitions
<1>10. ConfirmedAbsorption \in after.entry.delivered => q = "settled"
  BY <1>2, <1>3, <1>4, <1>5
<1>11. q = "predicted" => \A h \in PredictOnce : h.event = kind => h \in after.entry.delivered
  BY <1>2, <1>3, <1>4, <1>5
<1>12. Known(after.entry, q)
  BY <1>3, <1>6, <1>8, <1>9, <1>10, <1>11 DEF Known
<1> QED BY <1>12 DEF after

\* What dispatching a change leaves in the entry, and what that says of the flash.
DispatchFacts(entry, p, c, q, mid) ==
  /\ Known(mid, q)
  /\ q # "predicted" => ~mid.externallyRetired
  /\ q = "predicted" => /\ mid.replayRetired = entry.replayRetired
                        /\ mid.externallyRetired = entry.externallyRetired
  /\ OnceCalled(entry, c) \cap PredictOnce # {} => Repeatable(entry) /\ ~Repeatable(mid)
  /\ Repeatable(mid) => Repeatable(entry)

\* Dispatching keeps what is known of the key, and a flash uses up its occasion.
LEMMA DispatchStep ==
  ASSUME kind \in Kinds, NEW b, NEW s \in Stages, Known(b.entry, s.phase), Evidence(b.entry, s),
         NEW c, ChangeFacts(c), NEW q, <<s.phase, c.transition, q>> \in Moves
  PROVE  /\ DispatchFacts(b.entry, s.phase, c, q, Dispatch(b, c, {CueHandler}).entry)
         /\ DOMAIN Dispatch(b, c, {CueHandler}) = {"entry", "fired", "open"}
<1> DEFINE after == Dispatched(b, c, {CueHandler})
           entry == b.entry
           p == s.phase
           mid == Prune(after).entry
<1>1. entry \in Entries
  BY DEF Known
<1>2. Known(after.entry, q)
  BY HandledKnown
<1>3. HandledBy(b, c, after)
  BY <1>1, DispatchedEntry
<1>4. CallFacts(entry, p, c, q)
  BY Called
<1>5. p \in {"none", "predicted"}
  BY MoveFacts
<1>6. entry.externallyRetired => entry.replayRetired /\ p = "predicted"
  BY DEF Evidence
<1>7. p = "predicted" => \A h \in PredictOnce : h.event = kind => h \in entry.delivered
  BY DEF Known
<1>8. entry.replayRetired \in BOOLEAN /\ entry.externallyRetired \in BOOLEAN
  BY <1>1 DEF Entries
<1> HIDE DEF after
<1>9. DOMAIN after = {"entry", "fired", "open"}
  BY <1>3 DEF HandledBy
<1>10. mid = IF after.entry.replayRetired /\ after.entry.externallyRetired /\ q # "predicted"
             THEN NewEntry ELSE after.entry
  BY <1>2, PrunedEntry
<1>11. Known(mid, q)
  BY <1>2, PrunedEntry
<1>12. DOMAIN Prune(after) = {"entry", "fired", "open"}
  BY <1>2, <1>9, PrunedEntry
<1> HIDE DEF mid, p, entry
<1>13. /\ after.entry.delivered = entry.delivered \cup OnceCalled(entry, c)
       /\ after.entry.replayRetired = entry.replayRetired
       /\ after.entry.externallyRetired = entry.externallyRetired
  BY <1>3 DEF HandledBy, entry
<1>14. ~NewEntry.externallyRetired
  BY DEF NewEntry
<1>15. q # "predicted" => ~mid.externallyRetired
  BY <1>6, <1>8, <1>10, <1>13, <1>14
<1>16. q = "predicted" => /\ mid.replayRetired = entry.replayRetired
                          /\ mid.externallyRetired = entry.externallyRetired
  BY <1>10, <1>13
<1>17. Repeatable(mid) => Repeatable(entry)
  <2>1. CASE mid = after.entry
    BY <2>1, <1>13 DEF Repeatable
  <2>2. CASE entry.externallyRetired
    BY <2>2 DEF Repeatable
  <2> QED BY <2>1, <2>2, <1>10, <1>13
<1>18. ASSUME OnceCalled(entry, c) \cap PredictOnce # {}
       PROVE  Repeatable(entry) /\ ~Repeatable(mid)
  <2>1. /\ p = "none" /\ q # "none"
        /\ \E h \in PredictOnce : h.event = kind /\ h \notin entry.delivered
        /\ \A h \in PredictOnce : h.event = kind => h \in entry.delivered \cup OnceCalled(entry, c)
    BY <1>4, <1>18 DEF CallFacts
  <2>2. ~entry.externallyRetired
    BY <2>1, <1>6
  <2>3. mid = after.entry
    BY <2>2, <1>10, <1>13
  <2> QED BY <2>1, <2>2, <2>3, <1>13 DEF Repeatable
<1>19. DispatchFacts(entry, p, c, q, mid)
  BY <1>11, <1>15, <1>16, <1>17, <1>18 DEF DispatchFacts
<1> QED BY <1>12, <1>19 DEF mid, after, entry, p, Dispatch

\* Evidence changes nothing that the handlers look at.
LEMMA EvidenceKept ==
  ASSUME NEW entry, NEW phase, Known(entry, phase)
  PROVE  /\ Known([entry EXCEPT !.replayRetired = TRUE], phase)
         /\ [entry EXCEPT !.replayRetired = TRUE].replayRetired
         /\ [entry EXCEPT !.replayRetired = TRUE].externallyRetired = entry.externallyRetired
         /\ [entry EXCEPT !.replayRetired = TRUE].delivered = entry.delivered
         /\ Known([entry EXCEPT !.externallyRetired = TRUE], phase)
         /\ [entry EXCEPT !.externallyRetired = TRUE].externallyRetired
         /\ [entry EXCEPT !.externallyRetired = TRUE].replayRetired = entry.replayRetired
<1> DEFINE r == [entry EXCEPT !.replayRetired = TRUE]
           x == [entry EXCEPT !.externallyRetired = TRUE]
<1>1. entry \in Entries
  BY DEF Known
<1>2. r \in Entries /\ x \in Entries
  BY <1>1 DEF Entries
<1>3. /\ r.replayRetired = TRUE /\ r.externallyRetired = entry.externallyRetired
      /\ r.delivered = entry.delivered /\ r.token = entry.token
      /\ x.externallyRetired = TRUE /\ x.replayRetired = entry.replayRetired
      /\ x.delivered = entry.delivered /\ x.token = entry.token
  BY <1>1 DEF Entries
<1> HIDE DEF r, x
<1>4. Known(r, phase) /\ Known(x, phase)
  BY <1>2, <1>3 DEF Known
<1> QED BY <1>3, <1>4 DEF r, x

\* The evidence of a batch for a key that is now in phase q.
RetireFacts(mid, rep, ext, t, end) ==
  /\ DOMAIN end = {"entry", "fired", "open"}
  /\ Known(end.entry, t.phase) /\ Evidence(end.entry, t)
  /\ Repeatable(end.entry) => ext \/ Repeatable(mid.entry)

\* Evidence moves the entry to the end of the batch: only external evidence makes
\* room for another flash.
LEMMA RetireStep ==
  ASSUME kind \in Kinds, NEW mid, DOMAIN mid = {"entry", "fired", "open"},
         NEW t \in Stages, NEW owed \in BOOLEAN, NEW rep \in BOOLEAN, NEW ext \in BOOLEAN,
         Known(mid.entry, t.phase),
         rep => t.phase # "predicted" /\ ~mid.entry.externallyRetired,
         ~rep => /\ owed => mid.entry.replayRetired /\ ~mid.entry.externallyRetired
                 /\ ~owed /\ t.phase # "predicted" => mid.entry = NewEntry
                 /\ mid.entry.externallyRetired
                      => mid.entry.replayRetired /\ t.phase = "predicted",
         ext => rep \/ owed, t.owed <=> ~ext /\ (rep \/ owed)
  PROVE  RetireFacts(mid, rep, ext, t, Retire(mid, rep, ext))
<1> DEFINE phase == t.phase
           marked == [mid EXCEPT !.entry.replayRetired = TRUE]
           replayed == IF rep THEN Prune(marked) ELSE mid
           settled == [replayed EXCEPT !.entry.externallyRetired = TRUE]
           end == IF ext THEN Prune(settled) ELSE replayed
<1>1. mid.entry \in Entries
  BY DEF Known
<1>2. mid.entry.replayRetired \in BOOLEAN /\ mid.entry.externallyRetired \in BOOLEAN
  BY <1>1 DEF Entries
<1>3. /\ marked.entry = [mid.entry EXCEPT !.replayRetired = TRUE]
      /\ DOMAIN marked = {"entry", "fired", "open"}
  OBVIOUS
<1>4. /\ Known(marked.entry, phase) /\ marked.entry.replayRetired
      /\ marked.entry.externallyRetired = mid.entry.externallyRetired
      /\ marked.entry.delivered = mid.entry.delivered
  <2>1. Known(marked.entry, phase)
    BY <1>3, EvidenceKept
  <2>2. marked.entry.replayRetired
    BY <1>3, EvidenceKept
  <2>3. marked.entry.externallyRetired = mid.entry.externallyRetired
    BY <1>3, EvidenceKept
  <2>4. marked.entry.delivered = mid.entry.delivered
    BY <1>3, EvidenceKept
  <2> QED BY <2>1, <2>2, <2>3, <2>4
<1> HIDE DEF marked
<1>5. rep => Prune(marked).entry = marked.entry
  <2>1. Prune(marked).entry = IF /\ marked.entry.replayRetired /\ marked.entry.externallyRetired
                                 /\ phase # "predicted"
                              THEN NewEntry ELSE marked.entry
    BY <1>4, PrunedEntry
  <2> QED BY <2>1, <1>4
<1>6. DOMAIN Prune(marked) = {"entry", "fired", "open"}
  BY <1>3, <1>4, PrunedEntry
<1>7. replayed.entry = (IF rep THEN marked.entry ELSE mid.entry)
      /\ DOMAIN replayed = {"entry", "fired", "open"}
  BY <1>5, <1>6
<1> HIDE DEF replayed
<1>8. /\ Known(replayed.entry, phase)
      /\ rep => replayed.entry.replayRetired /\ ~replayed.entry.externallyRetired
      /\ replayed.entry.delivered = mid.entry.delivered
      /\ replayed.entry.externallyRetired = mid.entry.externallyRetired
      /\ ~rep => replayed.entry = mid.entry
  BY <1>4, <1>7
<1>9. Repeatable(replayed.entry) => Repeatable(mid.entry)
  BY <1>8 DEF Repeatable
<1>10. CASE ~ext
  <2>1. end = replayed
    BY <1>10
  <2>2. Evidence(replayed.entry, t)
    BY <1>8, <1>10 DEF Evidence
  <2> HIDE DEF end
  <2>3. RetireFacts(mid, rep, ext, t, end)
    BY <2>1, <2>2, <1>7, <1>8, <1>9 DEF RetireFacts
  <2> QED BY <2>3 DEF end, replayed, marked, Retire
<1>11. CASE ext
  <2>1. /\ settled.entry = [replayed.entry EXCEPT !.externallyRetired = TRUE]
        /\ DOMAIN settled = {"entry", "fired", "open"}
    BY <1>7
  <2>2. Known(settled.entry, phase)
    BY <1>8, <2>1, EvidenceKept
  <2>3. settled.entry.externallyRetired
    BY <1>8, <2>1, EvidenceKept
  <2>4. settled.entry.replayRetired = replayed.entry.replayRetired
    BY <1>8, <2>1, EvidenceKept
  <2>5. replayed.entry.replayRetired
    BY <1>8, <1>11
  <2> HIDE DEF settled
  <2>6. Prune(settled).entry = IF /\ settled.entry.replayRetired /\ settled.entry.externallyRetired
                                  /\ phase # "predicted"
                               THEN NewEntry ELSE settled.entry
    BY <2>2, PrunedEntry
  <2>7. Known(Prune(settled).entry, phase)
    BY <2>2, PrunedEntry
  <2>8. DOMAIN Prune(settled) = {"entry", "fired", "open"}
    BY <2>1, <2>2, PrunedEntry
  <2>9. end = Prune(settled)
    BY <1>11
  <2> HIDE DEF end
  <2>10. ~NewEntry.externallyRetired
    BY DEF NewEntry
  <2>11. Evidence(end.entry, t)
    BY <2>3, <2>4, <2>5, <2>6, <2>9, <2>10, <1>11 DEF Evidence
  <2>12. RetireFacts(mid, rep, ext, t, end)
    BY <2>7, <2>8, <2>9, <2>11, <1>11 DEF RetireFacts
  <2> QED BY <2>12 DEF end, settled, replayed, marked, Retire
<1> QED BY <1>10, <1>11

-----------------------------------------------------------------------------
(* The records of the store.                                               *)

\* emit: a one-shot record is no cue of the router's.
LEMMA OneShotPushed ==
  ASSUME NEW recs, NEW n, NEW c, NEW phase, Cues(recs, n, c, phase)
  PROVE  Cues(recs \cup {Record(n, TRUE)}, n + 1, c, phase)
<1> DEFINE r0 == Record(n, TRUE)
<1>1. /\ DOMAIN r0 = {"token", "oneShot", "canceled", "terminal", "age", "canceledFor"}
      /\ r0.token = n /\ r0.terminal = TRUE
  BY DEF Record
<1> HIDE DEF r0
<1>2. n \in Nat /\ c \in Nat /\ c < n
  BY DEF Cues
<1>3. ASSUME NEW r \in recs \cup {r0}
      PROVE  /\ DOMAIN r = {"token", "oneShot", "canceled", "terminal", "age", "canceledFor"}
             /\ r.token \in Nat /\ r.token < n + 1
             /\ r.oneShot => r.terminal
             /\ ~r.terminal <=> phase = "predicted" /\ r.token = c
  <2>1. CASE r = r0
    BY <2>1, <1>1, <1>2
  <2>2. CASE r \in recs
    BY <2>2, <1>2 DEF Cues
  <2> QED BY <1>3, <2>1, <2>2
<1>4. phase = "predicted" => \E r \in recs \cup {r0} : r.token = c
  BY DEF Cues
<1>5. Cues(recs \cup {r0}, n + 1, c, phase)
  <2>1. n + 1 \in Nat /\ c < n + 1
    BY <1>2
  <2> QED BY <1>2, <1>3, <1>4, <2>1 DEF Cues
<1> QED BY <1>5 DEF r0

\* activate: the new record is the one that is not terminal.
LEMMA CueOpened ==
  ASSUME NEW recs, NEW n, NEW c, NEW phase, phase # "predicted", Cues(recs, n, c, phase)
  PROVE  Cues(recs \cup {Record(n, FALSE)}, n + 1, n, "predicted")
<1> DEFINE r0 == Record(n, FALSE)
<1>1. /\ DOMAIN r0 = {"token", "oneShot", "canceled", "terminal", "age", "canceledFor"}
      /\ r0.token = n /\ r0.terminal = FALSE /\ r0.oneShot = FALSE
  BY DEF Record
<1> HIDE DEF r0
<1>2. n \in Nat /\ c \in Nat /\ c < n
  BY DEF Cues
<1>3. ASSUME NEW r \in recs \cup {r0}
      PROVE  /\ DOMAIN r = {"token", "oneShot", "canceled", "terminal", "age", "canceledFor"}
             /\ r.token \in Nat /\ r.token < n + 1
             /\ r.oneShot => r.terminal
             /\ ~r.terminal <=> "predicted" = "predicted" /\ r.token = n
  <2>1. CASE r = r0
    BY <2>1, <1>1, <1>2
  <2>2. CASE r \in recs
    <3>1. r.terminal /\ r.token \in Nat /\ r.token < n
      BY <2>2 DEF Cues
    <3>2. DOMAIN r = {"token", "oneShot", "canceled", "terminal", "age", "canceledFor"}
      BY <2>2 DEF Cues
    <3> QED BY <3>1, <3>2, <1>2
  <2> QED BY <1>3, <2>1, <2>2
<1>4. \E r \in recs \cup {r0} : r.token = n
  BY <1>1
<1>5. Cues(recs \cup {r0}, n + 1, n, "predicted")
  <2>1. n + 1 \in Nat /\ n < n + 1
    BY <1>2
  <2> QED BY <1>2, <1>3, <1>4, <2>1 DEF Cues
<1> QED BY <1>5 DEF r0

\* cancel and confirm: the record the token names is terminal.
Closed(recs, c, canceled) ==
  {IF r.token # c THEN r ELSE [r EXCEPT !.terminal = TRUE, !.canceled = @ \/ canceled] : r \in recs}

\* A closed cue is terminal, so no cue is open any more.
LEMMA CueClosed ==
  ASSUME NEW recs, NEW n, NEW c, NEW q, q # "predicted", NEW canceled,
         Cues(recs, n, c, "predicted")
  PROVE  Cues(Closed(recs, c, canceled), n, c, q)
<1>1. n \in Nat /\ c \in Nat /\ c < n
  BY DEF Cues
<1>2. ASSUME NEW r \in Closed(recs, c, canceled)
      PROVE  /\ DOMAIN r = {"token", "oneShot", "canceled", "terminal", "age", "canceledFor"}
             /\ r.token \in Nat /\ r.token < n
             /\ r.terminal
  <2>1. PICK o \in recs :
          r = IF o.token # c THEN o
              ELSE [o EXCEPT !.terminal = TRUE, !.canceled = @ \/ canceled]
    BY <1>2 DEF Closed
  <2>2. /\ DOMAIN o = {"token", "oneShot", "canceled", "terminal", "age", "canceledFor"}
        /\ o.token \in Nat /\ o.token < n
        /\ ~o.terminal <=> o.token = c
    BY DEF Cues
  <2>3. CASE o.token # c
    <3>1. r = o
      BY <2>1, <2>3
    <3> QED BY <3>1, <2>2, <2>3
  <2>4. CASE o.token = c
    <3>1. r = [o EXCEPT !.terminal = TRUE, !.canceled = @ \/ canceled]
      BY <2>1, <2>4
    <3>2. r.token = o.token /\ r.terminal = TRUE /\ DOMAIN r = DOMAIN o
      BY <3>1, <2>2
    <3> QED BY <3>2, <2>2
  <2> QED BY <2>3, <2>4
<1> QED BY <1>1, <1>2 DEF Cues

\* A record one frame later is the same cue.
LEMMA CuesOlder ==
  ASSUME NEW recs, NEW n, NEW c, NEW phase, Cues(recs, n, c, phase)
  PROVE  Cues({Older(r) : r \in recs}, n, c, phase)
<1>1. n \in Nat /\ c \in Nat /\ c < n
  BY DEF Cues
<1>2. ASSUME NEW o \in recs
      PROVE  /\ Older(o).token = o.token /\ Older(o).oneShot = o.oneShot
             /\ Older(o).terminal = o.terminal /\ DOMAIN Older(o) = DOMAIN o
  <2>1. DOMAIN o = {"token", "oneShot", "canceled", "terminal", "age", "canceledFor"}
    BY DEF Cues
  <2> QED BY <2>1 DEF Older
<1>3. ASSUME NEW r \in {Older(r) : r \in recs}
      PROVE  /\ DOMAIN r = {"token", "oneShot", "canceled", "terminal", "age", "canceledFor"}
             /\ r.token \in Nat /\ r.token < n
             /\ r.oneShot => r.terminal
             /\ ~r.terminal <=> phase = "predicted" /\ r.token = c
  <2>1. PICK o \in recs : r = Older(o)
    BY <1>3
  <2>2. /\ r.token = o.token /\ r.oneShot = o.oneShot
        /\ r.terminal = o.terminal /\ DOMAIN r = DOMAIN o
    BY <1>2, <2>1
  <2>3. /\ DOMAIN o = {"token", "oneShot", "canceled", "terminal", "age", "canceledFor"}
        /\ o.token \in Nat /\ o.token < n
        /\ o.oneShot => o.terminal
        /\ ~o.terminal <=> phase = "predicted" /\ o.token = c
    BY DEF Cues
  <2> QED BY <2>2, <2>3
<1>4. phase = "predicted" => \E r \in {Older(r) : r \in recs} : r.token = c
  BY <1>2 DEF Cues
<1> QED BY <1>1, <1>3, <1>4 DEF Cues

\* What append erases is terminal, so the cue of a held token stays.
LEMMA CuesKept ==
  ASSUME NEW recs, NEW n, NEW c, NEW phase, Cues(recs, n, c, phase)
  PROVE  Cues({r \in recs : ~Erased(r)}, n, c, phase)
<1>1. \A r \in recs : Erased(r) => r.terminal
  BY DEF Erased, Cues
<1>2. phase = "predicted" => \E r \in {r \in recs : ~Erased(r)} : r.token = c
  BY <1>1 DEF Cues
<1> QED BY <1>2 DEF Cues

-----------------------------------------------------------------------------
(* One batch.                                                              *)

\* What a new phase needs of the store after a change of the key.
ChangedFacts(st, shown, entry, p, c, q) ==
  /\ DOMAIN shown = StoreFields /\ shown.book = st.book /\ shown.closings = st.closings
  /\ shown.flashes = st.flashes + (IF OnceCalled(entry, c) \cap PredictOnce # {} THEN 1 ELSE 0)
  /\ shown.stingers = st.stingers + (IF kind = "absorbed" /\ q = "settled" THEN 1 ELSE 0)
  /\ Cues(shown.records, shown.next, shown.cue, q)

\* emit and activate change four fields of the store.
LEMMA PushedFields ==
  ASSUME NEW st, DOMAIN st = StoreFields, NEW oneShot
  PROVE  /\ DOMAIN Pushed(st, oneShot) = StoreFields
         /\ Pushed(st, oneShot).records = st.records \cup {Record(st.next, oneShot)}
         /\ Pushed(st, oneShot).next = st.next + 1
         /\ Pushed(st, oneShot).cue = st.cue /\ Pushed(st, oneShot).book = st.book
         /\ Pushed(st, oneShot).flashes = st.flashes
         /\ Pushed(st, oneShot).closings = st.closings
         /\ Pushed(st, oneShot).stingers = st.stingers
BY DEF Pushed, StoreFields

\* The flash of a change.
EmittedFacts(st, called, shown, phase) ==
  /\ DOMAIN shown = StoreFields /\ shown.book = st.book /\ shown.closings = st.closings
  /\ shown.flashes = st.flashes + (IF called \cap PredictOnce # {} THEN 1 ELSE 0)
  /\ shown.stingers = st.stingers
  /\ Cues(shown.records, shown.next, shown.cue, phase)

\* The flash handler pushes a one-shot record at most.
LEMMA EmittedStep ==
  ASSUME NEW st, DOMAIN st = StoreFields, NEW called, NEW phase,
         st.flashes \in Nat, Cues(st.records, st.next, st.cue, phase)
  PROVE  EmittedFacts(st, called, Emitted(st, called), phase)
<1>1. CASE called \cap PredictOnce # {}
  <2> DEFINE pushed == Pushed(st, TRUE)
             shown == [pushed EXCEPT !.flashes = @ + 1]
  <2>1. /\ DOMAIN pushed = StoreFields
        /\ pushed.records = st.records \cup {Record(st.next, TRUE)}
        /\ pushed.next = st.next + 1
        /\ pushed.cue = st.cue /\ pushed.book = st.book
        /\ pushed.flashes = st.flashes /\ pushed.closings = st.closings
        /\ pushed.stingers = st.stingers
    BY PushedFields
  <2> HIDE DEF pushed
  <2>2. /\ DOMAIN shown = StoreFields /\ shown.records = pushed.records
        /\ shown.next = pushed.next /\ shown.cue = pushed.cue /\ shown.book = pushed.book
        /\ shown.flashes = pushed.flashes + 1 /\ shown.closings = pushed.closings
        /\ shown.stingers = pushed.stingers
    BY <2>1 DEF StoreFields
  <2>3. Cues(st.records \cup {Record(st.next, TRUE)}, st.next + 1, st.cue, phase)
    BY OneShotPushed
  <2>4. Emitted(st, called) = shown
    BY <1>1 DEF Emitted, pushed
  <2> HIDE DEF shown
  <2> QED BY <1>1, <2>1, <2>2, <2>3, <2>4 DEF EmittedFacts
<1>2. CASE ~(called \cap PredictOnce # {})
  <2>1. Emitted(st, called) = st
    BY <1>2 DEF Emitted
  <2> QED BY <1>2, <2>1 DEF EmittedFacts
<1> QED BY <1>1, <1>2

\* The notice of a change.
AnnouncedFacts(st, called, shown, phase) ==
  /\ DOMAIN shown = StoreFields /\ shown.book = st.book /\ shown.closings = st.closings
  /\ shown.flashes = st.flashes
  /\ shown.stingers = st.stingers + (IF ConfirmedAbsorption \in called THEN 1 ELSE 0)
  /\ Cues(shown.records, shown.next, shown.cue, phase)

\* confirm_absorption pushes a one-shot record at most.
LEMMA AnnouncedStep ==
  ASSUME NEW st, DOMAIN st = StoreFields, NEW called, NEW phase,
         st.stingers \in Nat, Cues(st.records, st.next, st.cue, phase)
  PROVE  AnnouncedFacts(st, called, Announced(st, called), phase)
<1>1. CASE ConfirmedAbsorption \in called
  <2> DEFINE pushed == Pushed(st, TRUE)
             shown == [pushed EXCEPT !.stingers = @ + 1]
  <2>1. /\ DOMAIN pushed = StoreFields
        /\ pushed.records = st.records \cup {Record(st.next, TRUE)}
        /\ pushed.next = st.next + 1
        /\ pushed.cue = st.cue /\ pushed.book = st.book
        /\ pushed.flashes = st.flashes /\ pushed.closings = st.closings
        /\ pushed.stingers = st.stingers
    BY PushedFields
  <2> HIDE DEF pushed
  <2>2. /\ DOMAIN shown = StoreFields /\ shown.records = pushed.records
        /\ shown.next = pushed.next /\ shown.cue = pushed.cue /\ shown.book = pushed.book
        /\ shown.flashes = pushed.flashes /\ shown.closings = pushed.closings
        /\ shown.stingers = pushed.stingers + 1
    BY <2>1 DEF StoreFields
  <2>3. Cues(st.records \cup {Record(st.next, TRUE)}, st.next + 1, st.cue, phase)
    BY OneShotPushed
  <2>4. Announced(st, called) = shown
    BY <1>1 DEF Announced, pushed
  <2> HIDE DEF shown
  <2> QED BY <1>1, <2>1, <2>2, <2>3, <2>4 DEF AnnouncedFacts
<1>2. CASE ~(ConfirmedAbsorption \in called)
  <2>1. Announced(st, called) = st
    BY <1>2 DEF Announced
  <2> QED BY <1>2, <2>1 DEF AnnouncedFacts
<1> QED BY <1>1, <1>2

\* The cue of a change: it is opened by a prediction, closed by what ends one, and
\* opened and closed at once by what was never predicted.
CuedFacts(st, shown, q) ==
  /\ DOMAIN shown = StoreFields /\ shown.book = st.book /\ shown.closings = st.closings
  /\ shown.flashes = st.flashes /\ shown.stingers = st.stingers
  /\ Cues(shown.records, shown.next, shown.cue, q)

\* The cue is open after a change exactly if the key is predicted then.
LEMMA CuedStep ==
  ASSUME NEW st, DOMAIN st = StoreFields, NEW token, NEW tr, NEW p, NEW q,
         <<p, tr, q>> \in Moves, token = "held" <=> p = "predicted",
         p = "none" => token = "absent", Cues(st.records, st.next, st.cue, p)
  PROVE  CuedFacts(st, Cued(st, token, tr), q)
<1> DEFINE opens == Opens(token, tr, TRUE)
           finishes == Finishes(token, tr, TRUE)
           pushed == Pushed(st, FALSE)
           active == [pushed EXCEPT !.cue = st.next]
           opened == IF opens THEN active ELSE st
           updated == Updated(opened, tr = "Retracted")
<1>1. /\ p \in {"none", "predicted"} /\ q \in {"none", "predicted", "settled"}
      /\ tr \in {"FirstPredicted", "AuthorityOnly"} <=> p = "none"
      /\ tr \in {"FirstPredicted", "Revised"} <=> q = "predicted"
      /\ tr \in Transitions
  BY MoveFacts
<1>2. opens <=> p = "none"
  BY <1>1 DEF Opens, Transitions
<1>3. finishes <=> q # "predicted"
  BY <1>1 DEF Finishes, Transitions
<1>4. /\ DOMAIN pushed = StoreFields
      /\ pushed.records = st.records \cup {Record(st.next, FALSE)}
      /\ pushed.next = st.next + 1 /\ pushed.book = st.book
      /\ pushed.flashes = st.flashes /\ pushed.closings = st.closings
      /\ pushed.stingers = st.stingers
  BY PushedFields
<1> HIDE DEF pushed
<1>5. /\ DOMAIN active = StoreFields /\ active.records = pushed.records
      /\ active.next = pushed.next /\ active.cue = st.next /\ active.book = pushed.book
      /\ active.flashes = pushed.flashes /\ active.closings = pushed.closings
      /\ active.stingers = pushed.stingers
  BY <1>4 DEF StoreFields
<1> HIDE DEF active
<1>6. p = "none" => CuedFacts(st, active, "predicted")
  <2> SUFFICES ASSUME p = "none" PROVE CuedFacts(st, active, "predicted")
    OBVIOUS
  <2>1. Cues(st.records \cup {Record(st.next, FALSE)}, st.next + 1, st.next, "predicted")
    BY CueOpened
  <2> QED BY <1>4, <1>5, <2>1 DEF CuedFacts
<1>7. CuedFacts(st, opened, "predicted")
  <2>1. CASE p = "none"
    BY <2>1, <1>2, <1>6
  <2>2. CASE p = "predicted"
    BY <2>2, <1>2 DEF CuedFacts
  <2> QED BY <2>1, <2>2, <1>1
<1> HIDE DEF opened
<1>8. /\ DOMAIN updated = StoreFields
      /\ updated.records = Closed(opened.records, opened.cue, tr = "Retracted")
      /\ updated.next = opened.next /\ updated.cue = opened.cue
      /\ updated.book = opened.book /\ updated.flashes = opened.flashes
      /\ updated.closings = opened.closings /\ updated.stingers = opened.stingers
  BY <1>7 DEF Updated, Closed, StoreFields, CuedFacts
<1>9. q # "predicted" => CuedFacts(st, updated, q)
  <2> SUFFICES ASSUME q # "predicted" PROVE CuedFacts(st, updated, q)
    OBVIOUS
  <2>1. Cues(opened.records, opened.next, opened.cue, "predicted")
    BY <1>7 DEF CuedFacts
  <2>2. Cues(Closed(opened.records, opened.cue, tr = "Retracted"), opened.next, opened.cue, q)
    BY <2>1, CueClosed
  <2> HIDE DEF updated
  <2> QED BY <1>7, <1>8, <2>2 DEF CuedFacts
<1>10. Cued(st, token, tr) = IF finishes THEN updated ELSE opened
  BY DEF Cued, opened, active, pushed
<1> HIDE DEF updated
<1>11. CuedFacts(st, IF finishes THEN updated ELSE opened, q)
  <2>1. CASE q # "predicted"
    BY <2>1, <1>3, <1>9
  <2>2. CASE q = "predicted"
    BY <2>2, <1>3, <1>7
  <2> QED BY <2>1, <2>2
<1> QED BY <1>10, <1>11

\* A change, before the evidence of its batch.
DeliveredFacts(st, s, c, q, mid) ==
  /\ DOMAIN mid = StoreFields /\ DOMAIN mid.book = {"entry", "fired", "open"}
  /\ Known(mid.book.entry, q)
  /\ q # "predicted" => ~mid.book.entry.externallyRetired
  /\ q = "predicted" =>
       /\ mid.book.entry.replayRetired = st.book.entry.replayRetired
       /\ mid.book.entry.externallyRetired = st.book.entry.externallyRetired
  /\ Counted(mid.flashes, mid.closings, mid.book.entry)
  /\ mid.stingers = IF q = "settled" /\ kind = "absorbed" THEN 1 ELSE 0
  /\ Cues(mid.records, mid.next, mid.cue, q)

\* One change, through all the handlers and the bookkeeping.
LEMMA DeliveredStep ==
  ASSUME kind \in Kinds, NEW st, NEW s \in Stages, StoreInv(st, s),
         NEW c, ChangeFacts(c), NEW q, <<s.phase, c.transition, q>> \in Moves
  PROVE  DeliveredFacts(st, s, c, q, Delivered(st, c))
<1> DEFINE p == s.phase
           entry == st.book.entry
           called == OnceCalled(entry, c)
           token == entry.token[CueHandler]
           emitted == Emitted(st, called)
           cued == Cued(emitted, token, c.transition)
           shown == Announced(cued, called)
           book == Dispatch(st.book, c, {CueHandler})
           mid == [shown EXCEPT !.book = book]
<1>1. /\ DOMAIN st = StoreFields /\ DOMAIN st.book = {"entry", "fired", "open"}
      /\ Known(entry, p) /\ Evidence(entry, s)
      /\ Counted(st.flashes, st.closings, entry)
      /\ st.stingers = IF p = "settled" /\ kind = "absorbed" THEN 1 ELSE 0
      /\ Cues(st.records, st.next, st.cue, p)
  BY DEF StoreInv
<1>2. /\ p # "settled" /\ q \in {"none", "predicted", "settled"}
  BY MoveFacts
<1>3. st.stingers = 0 /\ st.flashes \in Nat /\ st.closings \in Nat
  BY <1>1, <1>2 DEF Counted
<1>4. CallFacts(entry, p, c, q)
  BY <1>1, Called
<1>5. ConfirmedAbsorption \in called <=> kind = "absorbed" /\ q = "settled"
  BY <1>4 DEF CallFacts
<1>6. /\ token = "held" <=> p = "predicted"
      /\ p = "none" => token = "absent"
  BY <1>1 DEF Known
<1>7. DispatchFacts(entry, p, c, q, book.entry)
  BY <1>1, DispatchStep
<1>8. DOMAIN book = {"entry", "fired", "open"}
  BY <1>1, DispatchStep
<1> HIDE DEF token, p, book, entry
<1>9. EmittedFacts(st, called, emitted, p)
  BY <1>1, <1>3, EmittedStep DEF p
<1> HIDE DEF emitted, called
<1>10. /\ DOMAIN emitted = StoreFields /\ emitted.book = st.book
       /\ emitted.closings = st.closings
       /\ emitted.flashes = st.flashes + (IF called \cap PredictOnce # {} THEN 1 ELSE 0)
       /\ emitted.stingers = st.stingers
       /\ Cues(emitted.records, emitted.next, emitted.cue, p)
  BY <1>9 DEF EmittedFacts
<1>11. <<p, c.transition, q>> \in Moves
  BY DEF p
<1>12. CuedFacts(emitted, cued, q)
  BY <1>6, <1>10, <1>11, CuedStep
<1> HIDE DEF cued
<1>13. /\ DOMAIN cued = StoreFields /\ cued.closings = st.closings
       /\ cued.flashes = st.flashes + (IF called \cap PredictOnce # {} THEN 1 ELSE 0)
       /\ cued.stingers = 0
       /\ Cues(cued.records, cued.next, cued.cue, q)
  BY <1>3, <1>10, <1>12 DEF CuedFacts
<1>14. AnnouncedFacts(cued, called, shown, q)
  BY <1>13, AnnouncedStep
<1> HIDE DEF shown
<1>15. /\ DOMAIN shown = StoreFields /\ shown.closings = st.closings
       /\ shown.flashes = st.flashes + (IF called \cap PredictOnce # {} THEN 1 ELSE 0)
       /\ shown.stingers = IF q = "settled" /\ kind = "absorbed" THEN 1 ELSE 0
       /\ Cues(shown.records, shown.next, shown.cue, q)
  BY <1>5, <1>13, <1>14 DEF AnnouncedFacts
<1>16. /\ DOMAIN mid = StoreFields /\ mid.book = book /\ mid.closings = shown.closings
       /\ mid.flashes = shown.flashes /\ mid.stingers = shown.stingers
       /\ mid.records = shown.records /\ mid.next = shown.next /\ mid.cue = shown.cue
  BY <1>15 DEF StoreFields
<1> HIDE DEF mid
<1>17. /\ Known(book.entry, q)
       /\ q # "predicted" => ~book.entry.externallyRetired
       /\ q = "predicted" => /\ book.entry.replayRetired = entry.replayRetired
                             /\ book.entry.externallyRetired = entry.externallyRetired
       /\ called \cap PredictOnce # {} => Repeatable(entry) /\ ~Repeatable(book.entry)
       /\ Repeatable(book.entry) => Repeatable(entry)
  BY <1>7 DEF DispatchFacts, called
<1>18. Counted(shown.flashes, shown.closings, book.entry)
  <2>1. /\ st.flashes <= st.closings + 1
        /\ Repeatable(entry) => st.flashes <= st.closings
    BY <1>1 DEF Counted
  <2>2. CASE called \cap PredictOnce # {}
    BY <2>1, <2>2, <1>3, <1>15, <1>17 DEF Counted
  <2>3. CASE ~(called \cap PredictOnce # {})
    BY <2>1, <2>3, <1>3, <1>15, <1>17 DEF Counted
  <2> QED BY <2>2, <2>3
<1>19. DeliveredFacts(st, s, c, q, mid)
  BY <1>8, <1>15, <1>16, <1>17, <1>18 DEF DeliveredFacts, entry
<1>20. Delivered(st, c) = mid
  BY DEF Delivered, mid, shown, cued, emitted, called, token, entry, book
<1> QED BY <1>19, <1>20

\* A batch takes the store from where the key was to where the batch says it is.
LEMMA ConsumedStep ==
  ASSUME kind \in Kinds, NEW st, NEW s \in Stages, NEW t \in Stages, StoreInv(st, s),
         NEW b, Link(s, b, t)
  PROVE  StoreInv(ConsumedBatch(st, b), t)
<1> DEFINE rep == Key \in b.retired
           ext == Key \in b.external
           mid == IF b.changes = << >> THEN st ELSE Delivered(st, b.changes[1])
           book == Retire(mid.book, rep, ext)
           end == [mid EXCEPT !.book = book, !.closings = @ + (IF ext THEN 1 ELSE 0)]
<1>1. /\ DOMAIN st = StoreFields /\ DOMAIN st.book = {"entry", "fired", "open"}
      /\ Known(st.book.entry, s.phase) /\ Evidence(st.book.entry, s)
      /\ Counted(st.flashes, st.closings, st.book.entry)
      /\ st.stingers = IF s.phase = "settled" /\ kind = "absorbed" THEN 1 ELSE 0
      /\ Cues(st.records, st.next, st.cue, s.phase)
  BY DEF StoreInv
<1>2. /\ Silent(b, s, t) \/ Speaks(b, s, t)
      /\ t.owed <=> ~ext /\ (rep \/ s.owed)
      /\ ext => rep \/ s.owed
  BY DEF Link
<1>3. /\ DOMAIN mid = StoreFields /\ DOMAIN mid.book = {"entry", "fired", "open"}
      /\ Known(mid.book.entry, t.phase)
      /\ Counted(mid.flashes, mid.closings, mid.book.entry)
      /\ mid.stingers = IF t.phase = "settled" /\ kind = "absorbed" THEN 1 ELSE 0
      /\ Cues(mid.records, mid.next, mid.cue, t.phase)
      /\ rep => t.phase # "predicted" /\ ~mid.book.entry.externallyRetired
      /\ ~rep => /\ s.owed => mid.book.entry.replayRetired /\ ~mid.book.entry.externallyRetired
                 /\ ~s.owed /\ t.phase # "predicted" => mid.book.entry = NewEntry
                 /\ mid.book.entry.externallyRetired
                      => mid.book.entry.replayRetired /\ t.phase = "predicted"
  <2>1. CASE Silent(b, s, t)
    <3>1. mid = st /\ ~rep /\ t.phase = s.phase
      BY <2>1 DEF Silent
    <3> HIDE DEF mid, rep
    <3> QED BY <3>1, <1>1 DEF Evidence
  <2>2. CASE Speaks(b, s, t)
    <3> DEFINE c == b.changes[1]
    <3>1. /\ b.changes # << >> /\ ChangeFacts(c)
          /\ <<s.phase, c.transition, t.phase>> \in Moves
      BY <2>2 DEF Speaks
    <3>2. rep <=> c.transition \in Final
      BY <2>2 DEF Speaks
    <3>3. c.transition \in Final <=> t.phase # "predicted"
      BY <3>1, MoveFacts
    <3>4. mid = Delivered(st, c)
      BY <3>1
    <3>5. DeliveredFacts(st, s, c, t.phase, Delivered(st, c))
      BY <3>1, DeliveredStep
    <3> HIDE DEF mid, rep, c
    <3>6. DeliveredFacts(st, s, c, t.phase, mid)
      BY <3>4, <3>5
    <3>7. /\ s.owed => st.book.entry.replayRetired /\ ~st.book.entry.externallyRetired
          /\ st.book.entry.externallyRetired => st.book.entry.replayRetired
      BY <1>1 DEF Evidence
    <3> QED BY <3>2, <3>3, <3>6, <3>7 DEF DeliveredFacts
  <2> QED BY <1>2, <2>1, <2>2
<1> HIDE DEF mid
<1>4. RetireFacts(mid.book, rep, ext, t, book)
  <2>1. s.owed \in BOOLEAN /\ rep \in BOOLEAN /\ ext \in BOOLEAN
    BY DEF Stages
  <2> HIDE DEF rep, ext
  <2> QED BY <2>1, <1>2, <1>3, RetireStep
<1> HIDE DEF book
<1>5. /\ DOMAIN end = StoreFields /\ end.book = book
      /\ end.closings = mid.closings + (IF ext THEN 1 ELSE 0)
      /\ end.flashes = mid.flashes /\ end.stingers = mid.stingers
      /\ end.records = mid.records /\ end.next = mid.next /\ end.cue = mid.cue
  BY <1>3 DEF StoreFields
<1> HIDE DEF end, ext, rep
<1>6. Counted(end.flashes, end.closings, book.entry)
  <2>1. /\ mid.flashes \in Nat /\ mid.closings \in Nat /\ mid.flashes <= mid.closings + 1
        /\ Repeatable(mid.book.entry) => mid.flashes <= mid.closings
    BY <1>3 DEF Counted
  <2>2. Repeatable(book.entry) => ext \/ Repeatable(mid.book.entry)
    BY <1>4 DEF RetireFacts
  <2>3. CASE ext
    BY <2>1, <2>3, <1>5 DEF Counted
  <2>4. CASE ~ext
    BY <2>1, <2>2, <2>4, <1>5 DEF Counted
  <2> QED BY <2>3, <2>4
<1>7. StoreInv(end, t)
  BY <1>3, <1>4, <1>5, <1>6 DEF StoreInv, RetireFacts
<1>8. ConsumedBatch(st, b) = end
  BY DEF ConsumedBatch, end, mid, book, rep, ext
<1> QED BY <1>7, <1>8

-----------------------------------------------------------------------------
(* A frame.                                                                *)

\* The loop over the queue computes the store after each batch from the last.
FollowsBatches(after) ==
  after = [i \in 0 .. Len(batches) |->
             IF i = 0 THEN Aged ELSE ConsumedBatch(after[i - 1], batches[i])]

\* The recursive function has the values that its equation gives.
LEMMA DrainsEquation ==
  ASSUME Len(batches) \in Nat
  PROVE  FollowsBatches(Drains)
<1> DEFINE Following(st, i) == ConsumedBatch(st, batches[i])
           Solves(f, n) == f = [i \in 0 .. n |-> IF i = 0 THEN Aged ELSE Following(f[i - 1], i)]
           S == {n \in Nat : \E f : Solves(f, n)}
<1> HIDE DEF Following
<1>1. 0 \in S
  <2> DEFINE f == [i \in 0 .. 0 |-> Aged]
  <2>1. Solves(f, 0)
    OBVIOUS
  <2> QED BY <2>1
<1>2. ASSUME NEW n \in Nat, n \in S
      PROVE  n + 1 \in S
  <2>1. PICK f : Solves(f, n)
    BY <1>2
  <2> DEFINE last == Following(f[n], n + 1)
             g == [i \in 0 .. n + 1 |-> IF i <= n THEN f[i] ELSE last]
  <2> HIDE DEF last
  <2>2. \A i \in 0 .. n : g[i] = f[i]
    OBVIOUS
  <2>3. \A i \in 0 .. n + 1 : g[i] = IF i = 0 THEN Aged ELSE Following(g[i - 1], i)
    <3> SUFFICES ASSUME NEW i \in 0 .. n + 1
                 PROVE  g[i] = IF i = 0 THEN Aged ELSE Following(g[i - 1], i)
      OBVIOUS
    <3>1. CASE i <= n
      <4>1. g[i] = f[i] BY <3>1
      <4>2. i # 0 => i - 1 \in 0 .. n BY <3>1
      <4>3. i # 0 => g[i - 1] = f[i - 1] BY <4>2, <2>2
      <4>4. f[i] = IF i = 0 THEN Aged ELSE Following(f[i - 1], i)
        BY <2>1, <3>1
      <4> QED BY <4>1, <4>3, <4>4
    <3>2. CASE i = n + 1
      <4>1. g[i] = last BY <3>2
      <4>2. g[n] = f[n] BY <2>2
      <4> QED BY <4>1, <4>2, <3>2 DEF last
    <3> QED BY <3>1, <3>2
  <2>4. Solves(g, n + 1)
    BY <2>3
  <2> HIDE DEF Solves, g
  <2>5. n + 1 \in Nat /\ \E h : Solves(h, n + 1)
    BY <2>4
  <2> QED BY <2>5
<1>3. Len(batches) \in S
  BY <1>1, <1>2, SetInduction
<1>4. PICK f : Solves(f, Len(batches))
  BY <1>3
<1> QED
  BY <1>4 DEF Drains, FollowsBatches, Following

\* Draining the queue takes the store to where the runtime is.
LEMMA DrainedStore ==
  ASSUME kind \in Kinds, Len(batches) \in Nat, NEW s, NEW t,
         Path(batches, s, t), StoreInv(Aged, s)
  PROVE  StoreInv(Drains[Len(batches)], t)
<1> DEFINE n == Len(batches)
<1>1. PICK f \in [0 .. n -> Stages] :
        f[0] = s /\ f[n] = t /\ \A i \in 1 .. n : Link(f[i - 1], batches[i], f[i])
  BY DEF Path
<1>2. /\ Drains[0] = Aged
      /\ \A i \in 1 .. n : Drains[i] = ConsumedBatch(Drains[i - 1], batches[i])
  <2>1. Drains = [i \in 0 .. n |->
                    IF i = 0 THEN Aged ELSE ConsumedBatch(Drains[i - 1], batches[i])]
    BY DrainsEquation DEF FollowsBatches
  <2> DEFINE g == Drains
  <2> HIDE DEF g
  <2>2. g = [i \in 0 .. n |-> IF i = 0 THEN Aged ELSE ConsumedBatch(g[i - 1], batches[i])]
    BY <2>1 DEF g
  <2>3. g[0] = Aged /\ \A i \in 1 .. n : g[i] = ConsumedBatch(g[i - 1], batches[i])
    BY <2>2
  <2> QED BY <2>3 DEF g
<1> DEFINE S == {i \in Nat : i <= n => StoreInv(Drains[i], f[i])}
<1>3. 0 \in S
  BY <1>1, <1>2
<1>4. ASSUME NEW i \in Nat, i \in S
      PROVE  i + 1 \in S
  <2> SUFFICES ASSUME i + 1 <= n PROVE StoreInv(Drains[i + 1], f[i + 1])
    OBVIOUS
  <2>1. StoreInv(Drains[i], f[i]) /\ i + 1 \in 1 .. n /\ i \in 0 .. n /\ i + 1 \in 0 .. n
    BY <1>4
  <2>2. Drains[i + 1] = ConsumedBatch(Drains[i], batches[i + 1])
    BY <1>2, <2>1
  <2>3. Link(f[i], batches[i + 1], f[i + 1])
    BY <1>1, <2>1
  <2>4. f[i] \in Stages /\ f[i + 1] \in Stages
    BY <1>1, <2>1
  <2> QED BY <2>1, <2>2, <2>3, <2>4, ConsumedStep
<1>5. n \in S
  BY <1>3, <1>4, SetInduction
<1> QED BY <1>1, <1>5

\* A frame's time alone changes nothing of the key.
LEMMA AgedStore ==
  ASSUME NEW s, StoreInv(Shown, s)
  PROVE  StoreInv(Aged, s)
<1>1. /\ DOMAIN Shown = StoreFields /\ DOMAIN Shown.book = {"entry", "fired", "open"}
      /\ Known(Shown.book.entry, s.phase) /\ Evidence(Shown.book.entry, s)
      /\ Counted(Shown.flashes, Shown.closings, Shown.book.entry)
      /\ Shown.stingers = IF s.phase = "settled" /\ kind = "absorbed" THEN 1 ELSE 0
      /\ Cues(Shown.records, Shown.next, Shown.cue, s.phase)
  BY DEF StoreInv
<1>2. /\ Shown.records = records /\ DOMAIN Aged = StoreFields /\ Aged.book = Shown.book
      /\ Aged.next = Shown.next /\ Aged.cue = Shown.cue /\ Aged.stingers = Shown.stingers
      /\ Aged.flashes = Shown.flashes /\ Aged.closings = Shown.closings
      /\ Aged.records = {Older(r) : r \in records}
  BY DEF Shown, Aged, StoreFields
<1>3. Cues({Older(r) : r \in records}, Shown.next, Shown.cue, s.phase)
  BY <1>1, <1>2, CuesOlder
<1> QED BY <1>1, <1>2, <1>3 DEF StoreInv

\* The store's invariant depends on the key's kind only.
LEMMA StoreInvKept ==
  ASSUME kind' = kind, NEW st, NEW s, StoreInv(st, s)
  PROVE  StoreInv(st, s)'
<1>1. CueHandler' = CueHandler
  BY DEF CueHandler
<1>2. \A entry, phase : Known(entry, phase) <=> Known(entry, phase)'
  BY <1>1 DEF Known
<1>3. \A entry : Repeatable(entry) <=> Repeatable(entry)'
  BY DEF Repeatable
<1>4. \A fl, cl, entry : Counted(fl, cl, entry) <=> Counted(fl, cl, entry)'
  BY <1>3 DEF Counted
<1> QED BY <1>2, <1>4 DEF StoreInv

\* A path is the same after a step that keeps the alternative of the key.
LEMMA PathKept ==
  ASSUME kind' = kind, NEW list, NEW s, NEW t, Path(list, s, t)
  PROVE  Path(list, s, t)'
<1>1. \A c : ChangeFacts(c) <=> ChangeFacts(c)'
  BY DEF ChangeFacts
<1>2. \A b, p, q : Speaks(b, p, q) <=> Speaks(b, p, q)'
  BY <1>1 DEF Speaks
<1>3. \A b, p, q : Link(p, b, q) <=> Link(p, b, q)'
  BY <1>2 DEF Link
<1> QED BY <1>3 DEF Path

\* A frame drains the queue, ages and draws the cues.
LEMMA FramePreserves == PipelineInv /\ Frame => PipelineInv'
<1> SUFFICES ASSUME PipelineInv, Frame PROVE PipelineInv'
  OBVIOUS
<1>1. PICK s \in Stages : Path(batches, s, RuntimeStage) /\ StoreInv(Shown, s)
  BY DEF PipelineInv
<1> DEFINE st == Drains[Len(batches)]
<1>2. kind \in Kinds /\ Len(batches) \in Nat
  BY LenProperties DEF PipelineInv, RuntimeInv
<1>3. StoreInv(st, RuntimeStage)
  BY <1>1, <1>2, AgedStore, DrainedStore
<1> HIDE DEF st
<1>4. /\ ledger' = [k \in Keys |-> st.book.entry]
      /\ fired' = [k \in Keys |-> st.book.fired] /\ open' = [k \in Keys |-> st.book.open]
      /\ records' = {r \in st.records : ~Erased(r)}
      /\ nextToken' = st.next /\ cue' = st.cue /\ stingers' = st.stingers
      /\ flashes' = st.flashes /\ closings' = st.closings
      /\ batches' = << >>
      /\ UNCHANGED <<authTick, predTick, predicted, spectating, receipt, pending, queueFull,
                     authorityVars>>
  BY DEF Frame, st
<1>5. kind' = kind /\ RuntimeStage' = RuntimeStage
  BY <1>4 DEF authorityVars, RuntimeStage
<1>6. RuntimeInv'
  <2>1. batches' \in Seq(BatchRecords)
    BY <1>4
  <2> QED BY <1>4, <2>1 DEF PipelineInv, RuntimeInv, authorityVars, Gone
<1>7. Key \in Keys
  BY PipelineAssumption
<1>8. ledger' = [k \in Keys |-> ledger'[Key]]
  BY <1>4, <1>7
<1>9. RuntimeStage \in Stages
  BY DEF RuntimeStage, Stages
<1> PICK new : new = Shown'
  OBVIOUS
<1>10. /\ DOMAIN new = StoreFields /\ DOMAIN new.book = {"entry", "fired", "open"}
       /\ new.book.entry = st.book.entry
       /\ new.records = {r \in st.records : ~Erased(r)}
       /\ new.next = st.next /\ new.cue = st.cue /\ new.stingers = st.stingers
       /\ new.flashes = st.flashes /\ new.closings = st.closings
  BY <1>4, <1>7 DEF Shown, StoreFields, Booked
<1>11. StoreInv(new, RuntimeStage)
  <2>1. Cues(st.records, st.next, st.cue, RuntimeStage.phase)
    BY <1>3 DEF StoreInv
  <2>2. Cues({r \in st.records : ~Erased(r)}, st.next, st.cue, RuntimeStage.phase)
    BY <2>1, CuesKept
  <2> QED BY <1>3, <1>10, <2>2 DEF StoreInv
<1> PICK stage : stage = RuntimeStage
  OBVIOUS
<1>12. StoreInv(new, stage)'
  BY <1>5, <1>11, StoreInvKept
<1>13. Path(<< >>, stage, stage)
  BY <1>9, PathEmpty
<1>14. Path(<< >>, stage, stage)'
  BY <1>5, <1>13, PathKept
<1>15. Path(batches, stage, RuntimeStage)' /\ StoreInv(Shown, stage)'
  BY <1>4, <1>5, <1>12, <1>14
<1> QED BY <1>6, <1>8, <1>9, <1>15 DEF PipelineInv

-----------------------------------------------------------------------------
(* The batches of the runtime.                                             *)

\* The changes and retirements of one key's journal, by what it held, what it
\* holds and what authority confirmed.
Confirmation(event) == [key |-> Key, confirmed |-> TRUE, event |-> event]

\* Two empty journals differ in nothing.
LEMMA NothingChanges ==
  EventChanges({}, {}, {}) = {} /\ RetiredKeys({}, {}, {}) = {}
BY DEF EventChanges, RetiredKeys, KeysOf

\* An occurrence that was not there before is predicted first.
LEMMA PredictionChanges ==
  ASSUME NEW e, EventKey(e) = Key
  PROVE  /\ EventChanges({}, {e}, {}) = {Change("FirstPredicted", Key, None, e)}
         /\ RetiredKeys({}, {e}, {}) = {}
<1>1. KeysOf({}) = {} /\ KeysOf({e}) = {Key}
  BY DEF KeysOf
<1>2. EventChanges({}, {e}, {}) = {Change("FirstPredicted", Key, None, e)}
  BY <1>1 DEF EventChanges
<1>3. RetiredKeys({}, {e}, {}) = {}
  BY <1>1 DEF RetiredKeys
<1> QED BY <1>2, <1>3

\* An occurrence that is gone is retracted and its key retired.
LEMMA RetractionChanges ==
  ASSUME NEW e, EventKey(e) = Key
  PROVE  /\ EventChanges({e}, {}, {}) = {Change("Retracted", Key, e, None)}
         /\ RetiredKeys({e}, {}, {}) = {Key}
<1>1. KeysOf({}) = {} /\ KeysOf({e}) = {Key}
  BY DEF KeysOf
<1>2. EventChanges({e}, {}, {}) = {Change("Retracted", Key, e, None)}
  BY <1>1 DEF EventChanges
<1>3. RetiredKeys({e}, {}, {}) = {Key}
  BY <1>1 DEF RetiredKeys
<1> QED BY <1>2, <1>3

\* An occurrence that stays is at most revised.
LEMMA RevisionChanges ==
  ASSUME NEW e, EventKey(e) = Key, NEW f, EventKey(f) = Key
  PROVE  /\ EventChanges({e}, {f}, {})
              = IF e = f THEN {} ELSE {Change("Revised", Key, e, f)}
         /\ RetiredKeys({e}, {f}, {}) = {}
<1>1. KeysOf({f}) = {Key} /\ KeysOf({e}) = {Key}
  BY DEF KeysOf
<1>2. CASE e = f
  <2>1. EventChanges({e}, {f}, {}) = {}
    BY <1>1, <1>2 DEF EventChanges
  <2>2. RetiredKeys({e}, {f}, {}) = {}
    BY <1>1 DEF RetiredKeys
  <2> QED BY <1>2, <2>1, <2>2
<1>3. CASE e # f
  <2>1. EventChanges({e}, {f}, {}) = {Change("Revised", Key, e, f)}
    <3>1. {p \in {e} \X {f} : EventKey(p[1]) = EventKey(p[2]) /\ EventKey(p[1]) \notin {}
                               /\ p[1] # p[2]} = {<<e, f>>}
      BY <1>3
    <3>2. {Change("Revised", EventKey(p[1]), p[1], p[2]) : p \in {<<e, f>>}}
            = {Change("Revised", Key, e, f)}
      OBVIOUS
    <3>3. {x \in {f} : EventKey(x) \notin {Key}} = {} /\ {x \in {e} : EventKey(x) \notin {} \cup {Key}} = {}
      OBVIOUS
    <3> QED BY <1>1, <3>1, <3>2, <3>3 DEF EventChanges
  <2>2. RetiredKeys({e}, {f}, {}) = {}
    BY <1>1 DEF RetiredKeys
  <2> QED BY <1>3, <2>1, <2>2
<1> QED BY <1>2, <1>3

\* A confirmation of what was never predicted is authority's alone.
LEMMA AuthorityChanges ==
  ASSUME NEW g
  PROVE  /\ EventChanges({}, {}, {Confirmation(g)}) = {Change("AuthorityOnly", Key, None, g)}
         /\ RetiredKeys({}, {}, {Confirmation(g)}) = {Key}
<1>1. KeysOf({}) = {}
  BY DEF KeysOf
<1> DEFINE o == Confirmation(g)
<1>2. o.key = Key /\ o.confirmed = TRUE /\ o.event = g
  BY DEF Confirmation
<1> HIDE DEF o
<1>3. EventChanges({}, {}, {o}) = {Change("AuthorityOnly", Key, None, g)}
  BY <1>1, <1>2 DEF EventChanges
<1>4. RetiredKeys({}, {}, {o}) = {Key}
  BY <1>1, <1>2 DEF RetiredKeys
<1> QED BY <1>3, <1>4 DEF o

\* A confirmation of what was predicted confirms it and retires the key.
LEMMA ConfirmationChanges ==
  ASSUME NEW e, EventKey(e) = Key, NEW g
  PROVE  /\ EventChanges({e}, {}, {Confirmation(g)}) = {Change("Confirmed", Key, e, g)}
         /\ RetiredKeys({e}, {}, {Confirmation(g)}) = {Key}
<1>1. KeysOf({}) = {} /\ KeysOf({e}) = {Key}
  BY DEF KeysOf
<1> DEFINE o == Confirmation(g)
<1>2. o.key = Key /\ o.confirmed = TRUE /\ o.event = g
  BY DEF Confirmation
<1> HIDE DEF o
<1>3. EventChanges({e}, {}, {o}) = {Change("Confirmed", Key, e, g)}
  <2>1. {p \in {e} \X {o} : EventKey(p[1]) = p[2].key /\ p[2].confirmed} = {<<e, o>>}
    BY <1>2
  <2>2. {Change("Confirmed", p[2].key, p[1], p[2].event) : p \in {<<e, o>>}}
          = {Change("Confirmed", Key, e, g)}
    BY <1>2
  <2>3. {x.key : x \in {o}} = {Key}
    BY <1>2
  <2>4. {x \in {e} : \/ \E y \in {o} : y.key = EventKey(x) /\ ~y.confirmed
                     \/ EventKey(x) \notin {Key} \cup {}} = {}
    BY <1>2
  <2>5. {x \in {o} : x.confirmed /\ x.key \notin {Key}} = {}
    BY <1>2
  <2> QED BY <1>1, <2>1, <2>2, <2>3, <2>4, <2>5 DEF EventChanges
<1>4. RetiredKeys({e}, {}, {o}) = {Key}
  BY <1>1, <1>2 DEF RetiredKeys
<1> QED BY <1>3, <1>4 DEF o

\* A batch that says that a key in stage s is now in phase q.
Owing(s, b, q) == [phase |-> q, owed |-> s.owed \/ Key \in b.retired]
Tells(b, s, q) ==
  /\ b \in BatchRecords /\ b.external = {}
  /\ Observable(b) => Link(s, b, Owing(s, b, q))
  /\ ~Observable(b) => q = s.phase /\ Key \notin b.retired
  /\ Key \in b.retired => b.changes # << >> /\ ChangeTick(b.changes[1]) \in 1 .. MaxHead
Telling(changes, retired) == [changes |-> changes, retired |-> retired, external |-> {}]

\* A batch of one change says what the change says.
LEMMA OneChangeTells ==
  ASSUME NEW s \in Stages, NEW c \in Changes, ChangeFacts(c), NEW q,
         <<s.phase, c.transition, q>> \in Moves, NEW r \in {{}, {Key}},
         r = {Key} <=> c.transition \in Final
  PROVE  Tells(Telling(<<c>>, r), s, q)
<1> DEFINE b == Telling(<<c>>, r)
           t == Owing(s, b, q)
<1>1. /\ DOMAIN b = {"changes", "retired", "external"} /\ b.changes = <<c>>
      /\ b.retired = r /\ b.external = {} /\ b.changes # << >>
  BY DEF Telling
<1>2. b \in BatchRecords
  <2>1. <<c>> \in Seq(Changes) /\ Key \in Keys
    BY PipelineAssumption
  <2> QED BY <2>1 DEF Telling, BatchRecords
<1> HIDE DEF b
<1>3. Len(b.changes) = 1 /\ b.changes[1] = c
  BY <1>1
<1>4. t.phase = q /\ (t.owed <=> s.owed \/ Key \in b.retired)
  BY DEF Owing
<1>5. Key \in b.retired <=> c.transition \in Final
  BY <1>1
<1> HIDE DEF t
<1>6. Speaks(b, s, t)
  BY <1>3, <1>4, <1>5 DEF Speaks
<1>7. Link(s, b, t)
  BY <1>1, <1>4, <1>6 DEF Link
<1>8. ChangeTick(b.changes[1]) \in 1 .. MaxHead
  BY <1>3 DEF ChangeFacts
<1>9. Tells(b, s, q)
  BY <1>1, <1>2, <1>7, <1>8 DEF Tells, Observable, t
<1> QED BY <1>9 DEF b

\* A batch that says nothing leaves the phase.
LEMMA NoChangeTells ==
  ASSUME NEW s \in Stages
  PROVE  Tells(Telling(<< >>, {}), s, s.phase)
<1> DEFINE b == Telling(<< >>, {})
<1>1. /\ b.changes = << >> /\ b.retired = {} /\ b.external = {}
  BY DEF Telling
<1>2. b \in BatchRecords
  BY DEF Telling, BatchRecords
<1> HIDE DEF b
<1>3. Tells(b, s, s.phase)
  BY <1>1, <1>2 DEF Tells, Observable
<1> QED BY <1>3 DEF b

\* An occurrence of the key, and a change about one.
LEMMA OccurrenceFacts ==
  ASSUME kind \in Kinds, NEW tick \in 1 .. MaxHead
  PROVE  /\ Occurrence(tick) \in Events /\ EventKey(Occurrence(tick)) = Key
         /\ Alternative(Occurrence(tick)) = kind /\ Occurrence(tick).tick = tick
         /\ Occurrence(tick) # None /\ Occurrence(tick) # Valueless /\ None # Valueless
<1>1. /\ Event(kind, tick) \in Events /\ Alternative(Event(kind, tick)) = kind
      /\ EventKey(Event(kind, tick)) = Key
  BY PipelineAssumption
<1>2. Valueless \notin Events \cup {None} /\ None \notin Events
  BY PipelineAssumption, HandlerAssumption
<1>3. Event(kind, tick).tick = tick
  BY DEF Event
<1> QED BY <1>1, <1>2, <1>3 DEF Occurrence

\* A change about occurrences of the key is well formed.
LEMMA ChangeIsSound ==
  ASSUME kind \in Kinds, NEW a \in 1 .. MaxHead, NEW d \in 1 .. MaxHead, NEW c,
         \/ c = Change("FirstPredicted", Key, None, Occurrence(a))
         \/ c = Change("Retracted", Key, Occurrence(a), None)
         \/ c = Change("Revised", Key, Occurrence(a), Occurrence(d))
         \/ c = Change("Confirmed", Key, Occurrence(a), Occurrence(d))
         \/ c = Change("AuthorityOnly", Key, None, Occurrence(a))
  PROVE  c \in Changes /\ ChangeFacts(c)
<1> DEFINE x == Occurrence(a)
           y == Occurrence(d)
<1>1. /\ x \in Events /\ Alternative(x) = kind /\ x.tick = a
      /\ x # None /\ x # Valueless /\ None # Valueless
  BY OccurrenceFacts
<1>2. /\ y \in Events /\ Alternative(y) = kind /\ y.tick = d
      /\ y # None /\ y # Valueless
  BY OccurrenceFacts
<1>3. Key \in Keys
  BY PipelineAssumption
<1> HIDE DEF x, y
<1>4. CASE c = Change("FirstPredicted", Key, None, x)
  BY <1>1, <1>3, <1>4 DEF Change, Changes, ChangeFacts, ValidShape, ChangeTick, Transitions
<1>5. CASE c = Change("Retracted", Key, x, None)
  BY <1>1, <1>3, <1>5 DEF Change, Changes, ChangeFacts, ValidShape, ChangeTick, Transitions
<1>6. CASE c = Change("Revised", Key, x, y)
  BY <1>1, <1>2, <1>3, <1>6 DEF Change, Changes, ChangeFacts, ValidShape, ChangeTick, Transitions
<1>7. CASE c = Change("Confirmed", Key, x, y)
  BY <1>1, <1>2, <1>3, <1>7 DEF Change, Changes, ChangeFacts, ValidShape, ChangeTick, Transitions
<1>8. CASE c = Change("AuthorityOnly", Key, None, x)
  BY <1>1, <1>3, <1>8 DEF Change, Changes, ChangeFacts, ValidShape, ChangeTick, Transitions
<1> QED BY <1>4, <1>5, <1>6, <1>7, <1>8 DEF x, y

\* The phase of a key that history predicts at a tick, if at any.
Predicts(tick) == IF tick = NoTick THEN "none" ELSE "predicted"

\* A commit that moves the prediction from one tick to another says so.
LEMMA BatchTells ==
  ASSUME kind \in Kinds, NEW old \in 0 .. MaxHead, NEW new \in 0 .. MaxHead,
         NEW s \in Stages, old # new => s.phase = Predicts(old)
  PROVE  Tells(Batch(old, new, {}), s, IF old = new THEN s.phase ELSE Predicts(new))
<1> DEFINE b == Batch(old, new, {})
           x == Occurrence(old)
           y == Occurrence(new)
<1>1. b = Telling(SetToSeq(EventChanges(Journalled(old), Journalled(new), {})),
                  RetiredKeys(Journalled(old), Journalled(new), {}))
  BY DEF Batch, Telling
<1>2. MaxHead \in Nat /\ NoTick = 0
  BY PipelineAssumption DEF NoTick
<1>3. old # NoTick => old \in 1 .. MaxHead /\ EventKey(x) = Key /\ x.tick = old
                      /\ Journalled(old) = {x}
  BY <1>2, OccurrenceFacts DEF Journalled
<1>4. new # NoTick => new \in 1 .. MaxHead /\ EventKey(y) = Key /\ y.tick = new
                      /\ Journalled(new) = {y}
  BY <1>2, OccurrenceFacts DEF Journalled
<1>5. Journalled(NoTick) = {}
  BY DEF Journalled
<1>6. \A e : SetToSeq({}) = << >> /\ SetToSeq({e}) = <<e>>
  BY SetToSeqOne
<1> HIDE DEF b, x, y
<1>7. CASE old = new
  <2>1. EventChanges(Journalled(old), Journalled(new), {}) = {}
        /\ RetiredKeys(Journalled(old), Journalled(new), {}) = {}
    <3>1. CASE old = NoTick
      BY <3>1, <1>5, <1>7, NothingChanges
    <3>2. CASE old # NoTick
      BY <3>2, <1>3, <1>7, RevisionChanges
    <3> QED BY <3>1, <3>2
  <2>2. b = Telling(<< >>, {})
    BY <1>1, <1>6, <2>1
  <2> QED BY <1>7, <2>2, NoChangeTells DEF b
<1>8. CASE old = NoTick /\ new # NoTick
  <2> DEFINE c == Change("FirstPredicted", Key, None, y)
  <2>1. EventChanges({}, {y}, {}) = {c} /\ RetiredKeys({}, {y}, {}) = {}
    BY <1>4, <1>8, PredictionChanges
  <2>2. b = Telling(<<c>>, {})
    BY <1>1, <1>4, <1>5, <1>6, <1>8, <2>1
  <2>3. c \in Changes /\ ChangeFacts(c)
    BY <1>4, <1>8, ChangeIsSound DEF y
  <2>4. c.transition = "FirstPredicted" /\ c.transition \notin Final
        /\ <<s.phase, c.transition, "predicted">> \in Moves
    BY <1>2, <1>8 DEF Change, Final, Moves, Predicts
  <2> HIDE DEF c
  <2>5. Tells(Telling(<<c>>, {}), s, "predicted")
    BY <2>3, <2>4, OneChangeTells
  <2> QED BY <1>2, <1>8, <2>2, <2>5 DEF b, Predicts
<1>9. CASE old # NoTick /\ new = NoTick
  <2> DEFINE c == Change("Retracted", Key, x, None)
  <2>1. EventChanges({x}, {}, {}) = {c} /\ RetiredKeys({x}, {}, {}) = {Key}
    BY <1>3, <1>9, RetractionChanges
  <2>2. b = Telling(<<c>>, {Key})
    BY <1>1, <1>3, <1>5, <1>6, <1>9, <2>1
  <2>3. c \in Changes /\ ChangeFacts(c)
    BY <1>3, <1>9, ChangeIsSound DEF x
  <2>4. c.transition = "Retracted" /\ c.transition \in Final
        /\ <<s.phase, c.transition, "none">> \in Moves
    BY <1>2, <1>9 DEF Change, Final, Moves, Predicts
  <2> HIDE DEF c
  <2>5. Tells(Telling(<<c>>, {Key}), s, "none")
    BY <2>3, <2>4, OneChangeTells
  <2> QED BY <1>2, <1>9, <2>2, <2>5 DEF b, Predicts
<1>10. CASE old # NoTick /\ new # NoTick /\ old # new
  <2> DEFINE c == Change("Revised", Key, x, y)
  <2>1. x # y
    BY <1>3, <1>4, <1>10
  <2>2. EventChanges({x}, {y}, {}) = {c} /\ RetiredKeys({x}, {y}, {}) = {}
    BY <1>3, <1>4, <1>10, <2>1, RevisionChanges
  <2>3. b = Telling(<<c>>, {})
    BY <1>1, <1>3, <1>4, <1>6, <1>10, <2>2
  <2>4. c \in Changes /\ ChangeFacts(c)
    BY <1>3, <1>4, <1>10, ChangeIsSound DEF x, y
  <2>5. c.transition = "Revised" /\ c.transition \notin Final
        /\ <<s.phase, c.transition, "predicted">> \in Moves
    BY <1>2, <1>10 DEF Change, Final, Moves, Predicts
  <2> HIDE DEF c
  <2>6. Tells(Telling(<<c>>, {}), s, "predicted")
    BY <2>4, <2>5, OneChangeTells
  <2> QED BY <1>2, <1>10, <2>3, <2>6 DEF b, Predicts
<1> QED BY <1>7, <1>8, <1>9, <1>10

\* The batch of an install that confirms the key, after which nothing predicts it.
LEMMA SettledBatchTells ==
  ASSUME kind \in Kinds, NEW old \in 0 .. MaxHead, NEW tick \in 1 .. MaxHead,
         NEW s \in Stages, s.phase = Predicts(old)
  PROVE  Tells(Batch(old, NoTick, {Confirmation(Occurrence(tick))}), s, "settled")
<1> DEFINE g == Occurrence(tick)
           x == Occurrence(old)
           outcomes == {Confirmation(g)}
           b == Batch(old, NoTick, outcomes)
<1>1. b = Telling(SetToSeq(EventChanges(Journalled(old), Journalled(NoTick), outcomes)),
                  RetiredKeys(Journalled(old), Journalled(NoTick), outcomes))
  BY DEF Batch, Telling
<1>2. MaxHead \in Nat /\ NoTick = 0
  BY PipelineAssumption DEF NoTick
<1>3. old # NoTick => old \in 1 .. MaxHead /\ EventKey(x) = Key /\ Journalled(old) = {x}
  BY <1>2, OccurrenceFacts DEF Journalled
<1>4. Journalled(NoTick) = {}
  BY DEF Journalled
<1>5. \A e : SetToSeq({e}) = <<e>>
  BY SetToSeqOne
<1> HIDE DEF b, x, g
<1>6. CASE old = NoTick
  <2> DEFINE c == Change("AuthorityOnly", Key, None, g)
  <2>1. EventChanges({}, {}, outcomes) = {c} /\ RetiredKeys({}, {}, outcomes) = {Key}
    BY AuthorityChanges
  <2>2. b = Telling(<<c>>, {Key})
    BY <1>1, <1>4, <1>5, <1>6, <2>1
  <2>3. c \in Changes /\ ChangeFacts(c)
    BY ChangeIsSound DEF g
  <2>4. c.transition = "AuthorityOnly" /\ c.transition \in Final
        /\ <<s.phase, c.transition, "settled">> \in Moves
    BY <1>6 DEF Change, Final, Moves, Predicts
  <2> HIDE DEF c
  <2>5. Tells(Telling(<<c>>, {Key}), s, "settled")
    BY <2>3, <2>4, OneChangeTells
  <2> QED BY <2>2, <2>5 DEF b, g
<1>7. CASE old # NoTick
  <2> DEFINE c == Change("Confirmed", Key, x, g)
  <2>1. EventChanges({x}, {}, outcomes) = {c} /\ RetiredKeys({x}, {}, outcomes) = {Key}
    BY <1>3, <1>7, ConfirmationChanges
  <2>2. b = Telling(<<c>>, {Key})
    BY <1>1, <1>3, <1>4, <1>5, <1>7, <2>1
  <2>3. c \in Changes /\ ChangeFacts(c)
    BY <1>3, <1>7, ChangeIsSound DEF g, x
  <2>4. c.transition = "Confirmed" /\ c.transition \in Final
        /\ <<s.phase, c.transition, "settled">> \in Moves
    BY <1>7 DEF Change, Final, Moves, Predicts
  <2> HIDE DEF c
  <2>5. Tells(Telling(<<c>>, {Key}), s, "settled")
    BY <2>3, <2>4, OneChangeTells
  <2> QED BY <2>2, <2>5 DEF b, g
<1> QED BY <1>6, <1>7

\* The batch of a spectator, who predicts nothing.
LEMMA SpectatorBatchTells ==
  ASSUME kind \in Kinds, NEW tick \in 1 .. MaxHead, NEW s \in Stages
  PROVE  /\ Tells(AuthorityOnlyBatch({}), s, s.phase)
         /\ s.phase = "none"
              => Tells(AuthorityOnlyBatch({Confirmation(Occurrence(tick))}), s, "settled")
<1>1. AuthorityOnlyBatch({}) = Telling(<< >>, {})
  BY SetToSeqOne DEF AuthorityOnlyBatch, Telling
<1>2. Tells(AuthorityOnlyBatch({}), s, s.phase)
  BY <1>1, NoChangeTells
<1>3. ASSUME s.phase = "none"
      PROVE  Tells(AuthorityOnlyBatch({Confirmation(Occurrence(tick))}), s, "settled")
  <2> DEFINE g == Occurrence(tick)
             o == Confirmation(g)
             c == Change("AuthorityOnly", Key, None, g)
             b == AuthorityOnlyBatch({o})
  <2>1. o.key = Key /\ o.confirmed = TRUE /\ o.event = g
    BY DEF Confirmation
  <2> HIDE DEF g, o
  <2>2. {Change("AuthorityOnly", z.key, None, z.event) : z \in {x \in {o} : x.confirmed}} = {c}
        /\ {z.key : z \in {o}} = {Key}
    BY <2>1
  <2>3. SetToSeq({c}) = <<c>>
    BY SetToSeqOne
  <2>4. b = Telling(<<c>>, {Key})
    BY <2>2, <2>3 DEF AuthorityOnlyBatch, Telling
  <2>5. c \in Changes /\ ChangeFacts(c)
    BY ChangeIsSound DEF g
  <2>6. c.transition = "AuthorityOnly" /\ c.transition \in Final
        /\ <<s.phase, c.transition, "settled">> \in Moves
    BY <1>3 DEF Change, Final, Moves
  <2> HIDE DEF c, b
  <2>7. Tells(Telling(<<c>>, {Key}), s, "settled")
    BY <2>5, <2>6, OneChangeTells
  <2>8. Tells(b, s, "settled")
    BY <2>4, <2>7
  <2> QED BY <2>8 DEF b, o, g
<1> QED BY <1>2, <1>3

-----------------------------------------------------------------------------
(* What an install commits.                                                *)

\* The retired occurrences a list of batches tells of.
About(list) == {i \in DOMAIN list : Key \in list[i].retired /\ list[i].changes # << >>}

\* A list that leads from stage s to t, and the retirement it leaves pending.
Remembers(list, tick, owed) ==
  Remembered(tick, list) \in 0 .. MaxHead /\ (Remembered(tick, list) # NoTick <=> owed)
Commits(list, tick, s, t) ==
  /\ list \in Seq(BatchRecords) /\ t \in Stages /\ Path(list, s, t)
  /\ Remembers(list, tick, t.owed) /\ \A i \in DOMAIN list : list[i].external = {}

\* Nothing committed leaves the stage.
LEMMA CommitsNothing ==
  ASSUME NEW s \in Stages, NEW tick \in 0 .. MaxHead, tick # NoTick <=> s.owed
  PROVE  Commits(<< >>, tick, s, s)
<1>1. << >> \in Seq(BatchRecords) /\ \A i \in DOMAIN << >> : << >>[i].external = {}
  OBVIOUS
<1>2. Path(<< >>, s, s)
  BY PathEmpty
<1>3. Remembered(tick, << >>) = tick
  BY DEF Remembered
<1>4. Remembers(<< >>, tick, s.owed)
  BY <1>3 DEF Remembers
<1> QED BY <1>1, <1>2, <1>4 DEF Commits

\* A batch at the end of a list is remembered if it retires the key.
LEMMA RemembersAppend ==
  ASSUME NEW list \in Seq(BatchRecords), NEW b \in BatchRecords, NEW tick
  PROVE  Remembered(tick, Append(list, b)) =
           IF Key \in b.retired /\ b.changes # << >> THEN ChangeTick(b.changes[1])
           ELSE Remembered(tick, list)
<1> DEFINE n == Len(list)
           more == Append(list, b)
<1>1. n \in Nat /\ DOMAIN list = 1 .. n
  BY LenProperties
<1>2. /\ DOMAIN more = 1 .. n + 1 /\ more[n + 1] = b
      /\ \A i \in 1 .. n : more[i] = list[i]
  BY <1>1, AppendProperties
<1> HIDE DEF n, more
<1>3. CASE Key \in b.retired /\ b.changes # << >>
  <2>1. n + 1 \in About(more) /\ About(more) \in SUBSET Int
        /\ \A i \in About(more) : i <= n + 1
    BY <1>1, <1>2, <1>3 DEF About
  <2>2. Max(About(more)) = n + 1
    BY <2>1, MaxIs
  <2>3. About(more) # {}
    BY <2>1
  <2>4. Remembered(tick, more) = ChangeTick(more[Max(About(more))].changes[1])
    BY <2>3 DEF Remembered, About
  <2> QED BY <1>2, <1>3, <2>2, <2>4 DEF more
<1>4. CASE ~(Key \in b.retired /\ b.changes # << >>)
  <2>1. About(more) = About(list)
    BY <1>1, <1>2, <1>4 DEF About
  <2>2. CASE About(list) = {}
    <3>1. Remembered(tick, more) = tick /\ Remembered(tick, list) = tick
      BY <2>1, <2>2 DEF Remembered, About
    <3> QED BY <1>4, <3>1 DEF more
  <2>3. CASE About(list) # {}
    <3>1. About(list) \in SUBSET (1 .. n)
      BY <1>1 DEF About
    <3>2. Max(About(list)) \in 1 .. n
      BY <1>1, <2>3, <3>1, BoundedMax
    <3>3. Remembered(tick, more) = ChangeTick(more[Max(About(more))].changes[1])
      BY <2>1, <2>3 DEF Remembered, About
    <3>4. Remembered(tick, list) = ChangeTick(list[Max(About(list))].changes[1])
      BY <2>3 DEF Remembered, About
    <3>5. more[Max(About(more))] = list[Max(About(list))]
      BY <1>2, <2>1, <3>2
    <3> QED BY <1>4, <3>3, <3>4, <3>5 DEF more
  <2> QED BY <2>2, <2>3
<1> QED BY <1>3, <1>4

\* One more batch moves the stage on.
LEMMA CommitsAppended ==
  ASSUME NEW list, NEW tick, NEW s, NEW t, Commits(list, tick, s, t),
         NEW b, NEW q \in {"none", "predicted", "settled"}, Tells(b, t, q)
  PROVE  Commits(Appended(list, b), tick, s, Owing(t, b, q))
<1> DEFINE u == Owing(t, b, q)
           more == Append(list, b)
<1>1. /\ list \in Seq(BatchRecords) /\ t \in Stages /\ Path(list, s, t)
      /\ Remembers(list, tick, t.owed) /\ \A i \in DOMAIN list : list[i].external = {}
  BY DEF Commits
<1>2. /\ b \in BatchRecords /\ b.external = {}
      /\ Observable(b) => Link(t, b, u)
      /\ ~Observable(b) => q = t.phase /\ Key \notin b.retired
      /\ Key \in b.retired => b.changes # << >> /\ ChangeTick(b.changes[1]) \in 1 .. MaxHead
  BY DEF Tells
<1>3. u \in Stages /\ u.phase = q /\ u.owed = (t.owed \/ Key \in b.retired)
  <2>1. t.owed \in BOOLEAN
    BY <1>1 DEF Stages
  <2> QED BY <2>1 DEF Owing, Stages
<1>4. CASE Observable(b)
  <2>1. more \in Seq(BatchRecords) /\ Path(more, s, u)
    <3>1. more \in Seq(BatchRecords)
      BY <1>1, <1>2, AppendProperties
    <3> HIDE DEF u
    <3>2. Path(Append(list, b), s, u)
      BY <1>1, <1>2, <1>3, <1>4, PathAppend
    <3> QED BY <3>1, <3>2
  <2>2. \A i \in DOMAIN more : more[i].external = {}
    <3>1. Len(list) \in Nat /\ DOMAIN list = 1 .. Len(list)
      BY <1>1, LenProperties
    <3>2. /\ DOMAIN more = 1 .. Len(list) + 1 /\ more[Len(list) + 1] = b
          /\ \A i \in 1 .. Len(list) : more[i] = list[i]
      BY <1>1, <1>2, <3>1, AppendProperties
    <3> HIDE DEF more
    <3>3. \A i \in 1 .. Len(list) + 1 : i \in 1 .. Len(list) \/ i = Len(list) + 1
      BY <3>1
    <3> QED BY <1>1, <1>2, <3>1, <3>2, <3>3
  <2>3. Remembered(tick, more) =
           IF Key \in b.retired /\ b.changes # << >> THEN ChangeTick(b.changes[1])
           ELSE Remembered(tick, list)
    BY <1>1, <1>2, RemembersAppend
  <2> HIDE DEF more
  <2>4. MaxHead \in Nat /\ NoTick = 0
    BY PipelineAssumption DEF NoTick
  <2>5. Remembers(more, tick, u.owed)
    <3>1. Remembered(tick, list) \in 0 .. MaxHead /\ (Remembered(tick, list) # NoTick <=> t.owed)
      BY <1>1 DEF Remembers
    <3>2. CASE Key \in b.retired
      <4>1. Remembered(tick, more) \in 1 .. MaxHead
        BY <1>2, <2>3, <3>2
      <4>2. u.owed
        BY <1>3, <3>2
      <4>3. Remembered(tick, more) \in 0 .. MaxHead /\ Remembered(tick, more) # NoTick
        BY <4>1, <2>4
      <4> QED BY <4>2, <4>3 DEF Remembers
    <3>3. CASE Key \notin b.retired
      <4>1. Remembered(tick, more) = Remembered(tick, list)
        BY <2>3, <3>3
      <4>2. u.owed <=> t.owed
        BY <1>3, <3>3
      <4> QED BY <3>1, <4>1, <4>2 DEF Remembers
    <3> QED BY <3>2, <3>3
  <2>6. Commits(more, tick, s, u)
    BY <1>3, <2>1, <2>2, <2>5 DEF Commits
  <2> QED BY <1>4, <2>6 DEF Appended, more
<1>5. CASE ~Observable(b)
  <2>1. u = t
    BY <1>1, <1>2, <1>5 DEF Owing, Stages
  <2>2. Appended(list, b) = list
    BY <1>5 DEF Appended
  <2> HIDE DEF u
  <2>3. Commits(list, tick, s, u)
    BY <2>1
  <2> QED BY <2>2, <2>3 DEF u
<1> QED BY <1>4, <1>5

\* What the end of an install does to the queue and to the pending retirement.
Queued(s0, t, proven) ==
  /\ batches' \in Seq(BatchRecords) /\ pending' \in 0 .. MaxHead /\ queueFull' \in BOOLEAN
  /\ queueFull' => batches' = batches /\ pending' = pending
  /\ ~queueFull' =>
       /\ Path(batches', s0, [phase |-> t.phase, owed |-> pending' # NoTick])
       /\ pending' # NoTick <=> t.owed /\ ~proven
  /\ Len(batches') > Len(batches) /\ Key \in Last(batches').external => ~queueFull' /\ proven

\* Publication moves the queue to the stage the commits lead to, and pays what
\* is owed if there is a proof.
LEMMA PublishStep ==
  ASSUME batches \in Seq(BatchRecords), pending \in 0 .. MaxHead,
         NEW s0, NEW s, NEW t, Path(batches, s0, s),
         NEW committed, Commits(committed, pending, s, t),
         NEW inbox, NEW echo, NEW covered, Publish(committed, inbox, echo, covered),
         echo => t.owed
  PROVE  Queued(s0, t, Proven(echo, covered, inbox = "accepted", Remembered(pending, committed)))
<1> DEFINE tick == Remembered(pending, committed)
           proven == Proven(echo, covered, inbox = "accepted", tick)
           given == IF proven THEN Attached(committed) ELSE committed
           fits == Len(batches) + Len(given) <= BatchCapacity
           u == [phase |-> t.phase, owed |-> FALSE]
           v == [phase |-> t.phase, owed |-> t.owed /\ ~proven]
<1>1. /\ batches' = IF fits THEN batches \o given ELSE batches
      /\ pending' = IF ~fits THEN pending ELSE IF proven THEN NoTick ELSE tick
      /\ queueFull' = ~fits
  BY DEF Publish
<1>2. /\ committed \in Seq(BatchRecords) /\ t \in Stages /\ Path(committed, s, t)
      /\ Remembers(committed, pending, t.owed)
      /\ \A i \in DOMAIN committed : committed[i].external = {}
  BY DEF Commits
<1>3. tick \in 0 .. MaxHead /\ (tick # NoTick <=> t.owed)
  BY <1>2 DEF Remembers
<1>4. proven => t.owed
  BY <1>3 DEF Proven
<1>5. MaxHead \in Nat /\ NoTick = 0
  BY PipelineAssumption DEF NoTick
<1>6. t.owed \in BOOLEAN /\ proven \in BOOLEAN
  BY <1>2 DEF Stages, Proven
<1> HIDE DEF proven, tick
<1>7. given \in Seq(BatchRecords) /\ Path(given, s, v)
  <2>1. CASE proven
    <3>1. Path(Attached(committed), s, u)
      BY <1>2, <1>4, <2>1, PathAttached
    <3>2. v = u
      BY <2>1
    <3>3. Attached(committed) \in Seq(BatchRecords)
      <4>1. Key \in Keys
        BY PipelineAssumption
      <4>2. CASE committed = << >>
        <5>1. [changes |-> << >>, retired |-> {}, external |-> {Key}] \in BatchRecords
          BY <4>1 DEF BatchRecords
        <5> QED BY <4>2, <5>1 DEF Attached
      <4>3. CASE committed # << >>
        <5> DEFINE n == Len(committed)
                   b == [committed[n] EXCEPT !.external = {Key}]
                   more == [committed EXCEPT ![n].external = {Key}]
        <5>1. n \in Nat /\ n \in 1 .. n /\ DOMAIN committed = 1 .. n
          BY <1>2, <4>3, LenProperties, EmptySeq
        <5>2. committed[n] \in BatchRecords
          BY <1>2, <5>1, ElementOfSeq
        <5>3. b \in BatchRecords
          BY <4>1, <5>2 DEF BatchRecords
        <5>4. more = [i \in 1 .. n |-> IF i = n THEN b ELSE committed[i]]
          BY <5>1
        <5>5. \A i \in 1 .. n : committed[i] \in BatchRecords
          BY <1>2, ElementOfSeq
        <5> HIDE DEF b, n
        <5>6. [i \in 1 .. n |-> IF i = n THEN b ELSE committed[i]] \in Seq(BatchRecords)
          BY <5>1, <5>3, <5>5
        <5>7. more \in Seq(BatchRecords)
          BY <5>4, <5>6
        <5> QED BY <4>3, <5>7 DEF Attached, n
      <4> QED BY <4>2, <4>3
    <3> HIDE DEF u, v
    <3> QED BY <2>1, <3>1, <3>2, <3>3
  <2>2. CASE ~proven
    <3>1. v = t
      BY <1>2, <1>6, <2>2 DEF Stages
    <3> HIDE DEF v
    <3> QED BY <2>2, <3>1, <1>2
  <2> QED BY <2>1, <2>2
<1>8. ~proven => \A i \in DOMAIN given : given[i].external = {}
  BY <1>2
<1> HIDE DEF given, fits
<1>9. CASE fits
  <2>1. batches' = batches \o given /\ queueFull' = FALSE
        /\ pending' = IF proven THEN NoTick ELSE tick
    BY <1>1, <1>9
  <2>2. batches \o given \in Seq(BatchRecords)
    BY <1>7
  <2> HIDE DEF v
  <2>3. Path(batches \o given, s0, v)
    BY <1>7, PathConcat
  <2>4. pending' # NoTick <=> t.owed /\ ~proven
    BY <2>1, <1>3, <1>4
  <2>5. v = [phase |-> t.phase, owed |-> pending' # NoTick]
    BY <2>4 DEF v
  <2>6. pending' \in 0 .. MaxHead
    BY <2>1, <1>3, <1>5
  <2>7. ASSUME Len(batches') > Len(batches), Key \in Last(batches').external
        PROVE  proven
    <3>1. Len(batches) \in Nat /\ Len(given) \in Nat /\ DOMAIN given = 1 .. Len(given)
      BY <1>7, LenProperties
    <3>2. /\ Len(batches \o given) = Len(batches) + Len(given)
          /\ \A i \in 1 .. Len(batches) + Len(given) :
               (batches \o given)[i] = IF i <= Len(batches) THEN batches[i]
                                           ELSE given[i - Len(batches)]
      BY <1>7, ConcatProperties
    <3>3. Len(given) > 0 /\ Len(batches') = Len(batches) + Len(given)
      BY <2>1, <2>7, <3>1, <3>2
    <3>4. Last(batches') = batches'[Len(batches) + Len(given)]
      BY <3>3 DEF Last
    <3>5. batches'[Len(batches) + Len(given)] = given[Len(given)]
      <4>1. Len(batches) + Len(given) \in 1 .. Len(batches) + Len(given)
        BY <3>1, <3>3
      <4>2. ~(Len(batches) + Len(given) <= Len(batches))
        BY <3>1, <3>3
      <4>3. (Len(batches) + Len(given)) - Len(batches) = Len(given)
        BY <3>1
      <4> QED BY <2>1, <3>2, <4>1, <4>2, <4>3
    <3>6. Len(given) \in DOMAIN given
      BY <3>1, <3>3
    <3> QED BY <1>8, <2>7, <3>4, <3>5, <3>6
  <2>8. batches' \in Seq(BatchRecords) /\ queueFull' \in BOOLEAN /\ ~queueFull'
    BY <2>1, <2>2
  <2>9. Path(batches', s0, [phase |-> t.phase, owed |-> pending' # NoTick])
    BY <2>1, <2>3, <2>5
  <2>10. Queued(s0, t, proven)
    BY <2>4, <2>6, <2>7, <2>8, <2>9, Zenon DEF Queued
  <2> QED BY <2>10 DEF proven, tick
<1>10. CASE ~fits
  <2>1. batches' = batches /\ queueFull' = TRUE /\ pending' = pending
    BY <1>1, <1>10
  <2>2. ~(Len(batches') > Len(batches))
    <3>1. Len(batches) \in Nat
      BY LenProperties
    <3> QED BY <2>1, <3>1
  <2>3. Queued(s0, t, proven)
    BY <2>1, <2>2 DEF Queued
  <2> QED BY <2>3 DEF proven, tick
<1> QED BY <1>9, <1>10

\* A batch that settles the key retires it, and a settled key is not retired again.
LEMMA TellsRetirement ==
  ASSUME NEW b, NEW s, NEW q, Tells(b, s, q)
  PROVE  /\ q = "settled" /\ s.phase # "settled" => Key \in b.retired
         /\ s.phase = "settled" => Key \notin b.retired
<1>1. /\ Observable(b) => Link(s, b, Owing(s, b, q))
      /\ ~Observable(b) => q = s.phase /\ Key \notin b.retired
  BY DEF Tells
<1>2. Owing(s, b, q).phase = q
  BY DEF Owing
<1>3. CASE Observable(b)
  <2>1. Silent(b, s, Owing(s, b, q)) \/ Speaks(b, s, Owing(s, b, q))
    BY <1>1, <1>3 DEF Link
  <2>2. CASE Silent(b, s, Owing(s, b, q))
    BY <1>2, <2>2 DEF Silent
  <2>3. CASE Speaks(b, s, Owing(s, b, q))
    <3>1. <<s.phase, b.changes[1].transition, q>> \in Moves
          /\ (Key \in b.retired <=> b.changes[1].transition \in Final)
      BY <1>2, <2>3 DEF Speaks
    <3>2. s.phase # "settled" /\ (b.changes[1].transition \in Final <=> q # "predicted")
      BY <3>1, MoveFacts
    <3> QED BY <3>1, <3>2
  <2> QED BY <2>1, <2>2, <2>3
<1>4. CASE ~Observable(b)
  BY <1>1, <1>4
<1> QED BY <1>3, <1>4

\* The batches that an install makes.
Committed(outcomes, replayed, buffered) ==
  IF spectating THEN Appended(<< >>, AuthorityOnlyBatch(outcomes))
  ELSE Appended(Appended(<< >>, Batch(predicted, replayed, outcomes)),
                Batch(replayed, buffered, {}))

\* The stage they lead to, with the inbox they come with.
InstallStage(u, inbox, buffered) ==
  /\ u \in Stages
  /\ u.phase = IF inbox # "none" THEN "settled" ELSE Predicts(buffered)
  /\ receipt = "none" /\ inbox # "none" => u.owed
  /\ receipt # "none" => (u.owed <=> pending # NoTick)

\* What an install is called with.
InstallArgs(inbox, replayed, buffered) ==
  /\ replayed \in 0 .. MaxHead /\ buffered \in 0 .. MaxHead
  /\ inbox \in {"none", "accepted", "retired"}
  /\ receipt # "none" => inbox # "none"
  /\ receipt = "none" => inbox # "retired"
  /\ inbox # "none" => /\ occurred \in 1 .. MaxHead
                       /\ replayed = NoTick /\ buffered = NoTick
  /\ spectating => replayed = NoTick /\ buffered = NoTick

\* The stage of the runtime by its receipt, its prediction and its pending
\* retirement.
LEMMA StageFacts ==
  ASSUME RuntimeInv
  PROVE  /\ RuntimeStage \in Stages
         /\ receipt # "none" => RuntimeStage.phase = "settled"
         /\ receipt = "none" => RuntimeStage.phase = Predicts(predicted)
         /\ RuntimeStage.owed <=> pending # NoTick
         /\ receipt # "none" \/ spectating => predicted = NoTick
BY DEF RuntimeInv, RuntimeStage, Stages, Predicts

\* The batches of an install lead from the stage of the runtime to the one that
\* its inbox and its buffered commands determine.
LEMMA InstallCommits ==
  ASSUME RuntimeInv, NEW inbox, NEW replayed, NEW buffered,
         InstallArgs(inbox, replayed, buffered)
  PROVE  \E u : /\ Commits(Committed(ReceiptEvents(inbox), replayed, buffered), pending,
                           RuntimeStage, u)
                /\ InstallStage(u, inbox, buffered)
<1> DEFINE s == RuntimeStage
           outcomes == ReceiptEvents(inbox)
           settles == receipt = "none" /\ inbox = "accepted"
<1>1. /\ s \in Stages
      /\ receipt # "none" => s.phase = "settled"
      /\ receipt = "none" => s.phase = Predicts(predicted)
      /\ s.owed <=> pending # NoTick
      /\ receipt # "none" \/ spectating => predicted = NoTick
  BY StageFacts
<1>2. /\ kind \in Kinds /\ pending \in 0 .. MaxHead /\ predicted \in 0 .. MaxHead
      /\ receipt \in {"none", "accepted", "retired"} /\ spectating \in BOOLEAN
  BY DEF RuntimeInv
<1>3. /\ replayed \in 0 .. MaxHead /\ buffered \in 0 .. MaxHead
      /\ inbox \in {"none", "accepted", "retired"}
      /\ receipt # "none" => inbox # "none"
      /\ receipt = "none" => inbox # "retired"
      /\ inbox # "none" => /\ occurred \in 1 .. MaxHead
                           /\ replayed = NoTick /\ buffered = NoTick
      /\ spectating => replayed = NoTick /\ buffered = NoTick
  BY DEF InstallArgs
<1>4. /\ settles => outcomes = {Confirmation(Occurrence(occurred))}
      /\ ~settles => outcomes = {}
  BY DEF ReceiptEvents, Confirmation
<1>5. MaxHead \in Nat /\ NoTick = 0 /\ NoTick \in 0 .. MaxHead
  BY PipelineAssumption DEF NoTick
<1> HIDE DEF s, outcomes
<1>6. Commits(<< >>, pending, s, s)
  BY <1>1, <1>2, CommitsNothing
<1>7. CASE spectating
  <2> DEFINE b == AuthorityOnlyBatch(outcomes)
             q == IF settles THEN "settled" ELSE s.phase
             u == Owing(s, b, q)
  <2>1. Tells(b, s, q)
    <3>1. CASE settles
      <4>1. occurred \in 1 .. MaxHead /\ s.phase = "none"
        BY <1>1, <1>3, <1>7, <3>1 DEF Predicts
      <4>2. Tells(AuthorityOnlyBatch({Confirmation(Occurrence(occurred))}), s, "settled")
        BY <1>1, <1>2, <4>1, SpectatorBatchTells
      <4> QED BY <1>4, <3>1, <4>2
    <3>2. CASE ~settles
      <4>1. Tells(AuthorityOnlyBatch({}), s, s.phase)
        <5>1. CASE MaxHead = 0
          <6>1. AuthorityOnlyBatch({}) = Telling(<< >>, {})
            BY SetToSeqOne DEF AuthorityOnlyBatch, Telling
          <6> QED BY <1>1, <6>1, NoChangeTells
        <5>2. CASE MaxHead # 0
          <6>1. 1 \in 1 .. MaxHead
            BY <1>5, <5>2
          <6> QED BY <1>1, <1>2, <6>1, SpectatorBatchTells
        <5> QED BY <5>1, <5>2
      <4> QED BY <1>4, <3>2, <4>1
    <3> QED BY <3>1, <3>2
  <2>2. q \in {"none", "predicted", "settled"}
    BY <1>1 DEF Stages
  <2>3. Commits(Appended(<< >>, b), pending, s, u)
    BY <1>6, <2>1, <2>2, CommitsAppended
  <2>4. /\ q = "settled" /\ s.phase # "settled" => Key \in b.retired
        /\ s.phase = "settled" => Key \notin b.retired
    BY <2>1, TellsRetirement
  <2> HIDE DEF b
  <2>5. u.phase = q /\ (u.owed <=> s.owed \/ Key \in b.retired)
    BY DEF Owing
  <2>6. u \in Stages
    BY <2>3 DEF Commits
  <2> HIDE DEF u
  <2>7. InstallStage(u, inbox, buffered)
    <3>1. receipt = "none" => s.phase = "none"
      BY <1>1, <1>7 DEF Predicts
    <3>2. Predicts(buffered) = "none"
      BY <1>3, <1>7 DEF Predicts
    <3>3. u.phase = IF inbox # "none" THEN "settled" ELSE Predicts(buffered)
      BY <1>1, <1>2, <1>3, <2>5, <3>1, <3>2
    <3>4. receipt = "none" /\ inbox # "none" => u.owed
      BY <1>3, <2>4, <2>5, <3>1
    <3>5. receipt # "none" => (u.owed <=> pending # NoTick)
      BY <1>1, <2>4, <2>5
    <3> QED BY <2>6, <3>3, <3>4, <3>5 DEF InstallStage
  <2>8. Committed(outcomes, replayed, buffered) = Appended(<< >>, b)
    BY <1>7 DEF Committed, b
  <2> QED BY <2>3, <2>7, <2>8 DEF s, outcomes
<1>8. CASE ~spectating
  <2> DEFINE b == Batch(predicted, replayed, outcomes)
             q == IF settles THEN "settled"
                  ELSE IF predicted = replayed THEN s.phase ELSE Predicts(replayed)
             m == Owing(s, b, q)
             d == Batch(replayed, buffered, {})
             r == IF replayed = buffered THEN m.phase ELSE Predicts(buffered)
             u == Owing(m, d, r)
  <2>1. predicted # replayed => s.phase = Predicts(predicted)
    BY <1>1, <1>3
  <2>2. Tells(b, s, q)
    <3>1. CASE settles
      <4>1. /\ occurred \in 1 .. MaxHead /\ s.phase = Predicts(predicted)
            /\ replayed = NoTick
        BY <1>1, <1>3, <3>1
      <4>2. Tells(Batch(predicted, NoTick, {Confirmation(Occurrence(occurred))}), s, "settled")
        BY <1>1, <1>2, <4>1, SettledBatchTells
      <4> QED BY <1>4, <3>1, <4>1, <4>2
    <3>2. CASE ~settles
      <4>1. Tells(Batch(predicted, replayed, {}), s,
                  IF predicted = replayed THEN s.phase ELSE Predicts(replayed))
        BY <1>1, <1>2, <1>3, <2>1, BatchTells
      <4> QED BY <1>4, <3>2, <4>1
    <3> QED BY <3>1, <3>2
  <2>3. q \in {"none", "predicted", "settled"}
    BY <1>1 DEF Stages, Predicts
  <2>4. Commits(Appended(<< >>, b), pending, s, m)
    BY <1>6, <2>2, <2>3, CommitsAppended
  <2>5. /\ q = "settled" /\ s.phase # "settled" => Key \in b.retired
        /\ s.phase = "settled" => Key \notin b.retired
    BY <2>2, TellsRetirement
  <2> HIDE DEF b
  <2>6. m.phase = q /\ (m.owed <=> s.owed \/ Key \in b.retired)
    BY DEF Owing
  <2>7. m \in Stages
    BY <2>4 DEF Commits
  <2> HIDE DEF m
  <2>8. replayed # buffered => m.phase = Predicts(replayed)
    BY <1>1, <1>2, <1>3, <2>6
  <2>9. Tells(d, m, r)
    BY <1>2, <1>3, <2>7, <2>8, BatchTells
  <2>10. r \in {"none", "predicted", "settled"}
    BY <2>7 DEF Stages, Predicts
  <2>11. Commits(Appended(Appended(<< >>, b), d), pending, s, u)
    BY <2>4, <2>9, <2>10, CommitsAppended
  <2>12. m.phase = "settled" => Key \notin d.retired
    BY <2>9, TellsRetirement
  <2> HIDE DEF d
  <2>13. u.phase = r /\ (u.owed <=> m.owed \/ Key \in d.retired)
    BY DEF Owing
  <2>14. u \in Stages
    BY <2>11 DEF Commits
  <2> HIDE DEF u
  <2>15. InstallStage(u, inbox, buffered)
    <3>1. CASE inbox = "none"
      <4>1. receipt = "none" /\ ~settles
        BY <1>3, <3>1
      <4>2. m.phase = Predicts(replayed)
        BY <1>1, <2>6, <4>1
      <4>3. u.phase = Predicts(buffered)
        BY <2>13, <4>2
      <4> QED BY <2>14, <3>1, <4>1, <4>3 DEF InstallStage
    <3>2. CASE inbox # "none" /\ receipt = "none"
      <4>1. settles /\ replayed = buffered
        BY <1>3, <3>2
      <4>2. m.phase = "settled" /\ u.phase = "settled"
        BY <2>6, <2>13, <4>1
      <4>3. s.phase # "settled"
        BY <1>1, <3>2 DEF Predicts
      <4>4. u.owed
        BY <2>5, <2>6, <2>13, <4>1, <4>3
      <4> QED BY <2>14, <3>2, <4>2, <4>4 DEF InstallStage
    <3>3. CASE receipt # "none"
      <4>1. inbox # "none" /\ ~settles /\ replayed = buffered /\ predicted = replayed
        BY <1>1, <1>3, <3>3
      <4>2. s.phase = "settled" /\ m.phase = "settled" /\ u.phase = "settled"
        BY <1>1, <2>6, <2>13, <3>3, <4>1
      <4>3. u.owed <=> pending # NoTick
        BY <1>1, <2>5, <2>6, <2>12, <2>13, <4>2
      <4> QED BY <2>14, <3>3, <4>1, <4>2, <4>3 DEF InstallStage
    <3> QED BY <3>1, <3>2, <3>3
  <2>16. Committed(outcomes, replayed, buffered) = Appended(Appended(<< >>, b), d)
    BY <1>8 DEF Committed, b, d
  <2> QED BY <2>11, <2>15, <2>16 DEF s, outcomes
<1> QED BY <1>7, <1>8

-----------------------------------------------------------------------------
(* The steps of the runtime.                                               *)

InstallOk(t, inbox, echo, covered, replayed, buffered, head, terminal) ==
  /\ InstallArgs(inbox, replayed, buffered)
  /\ t \in authTick .. serverTick /\ head \in t .. MaxHead /\ covered \in Nat
  /\ terminal \in BOOLEAN /\ (terminal => buffered = NoTick)
  /\ inbox # "none" => occurred \in 1 .. t
  /\ occurred \in 1 .. t => buffered = NoTick
  /\ buffered # NoTick => buffered \in t + 1 .. head
  /\ receipt = "retired" => inbox = "retired"
  /\ echo <=> receipt = "accepted" /\ inbox = "retired"

\* Evidence that a step publishes is an echo, or a complete snapshot brought it.
Evident(echo, covered) ==
  Len(batches') > Len(batches) /\ Key \in Last(batches').external
    => ~queueFull' /\ (echo \/ covered # NoTick)

\* The rest of the invariant, when the store is left alone.
LEMMA RuntimeSteps ==
  ASSUME PipelineInv, UNCHANGED <<kind, storeVars>>, RuntimeInv',
         NEW s0 \in Stages, StoreInv(Shown, s0), Path(batches', s0, RuntimeStage')
  PROVE  PipelineInv'
<1>1. ledger' = [k \in Keys |-> ledger'[Key]]
  BY DEF PipelineInv, storeVars, routerVars
<1>2. kind' = kind /\ Shown' = Shown
  BY DEF storeVars, routerVars, Shown
<1> PICK new : new = Shown'
  OBVIOUS
<1> PICK list : list = batches'
  OBVIOUS
<1> PICK stage : stage = RuntimeStage'
  OBVIOUS
<1>3. StoreInv(new, s0)
  BY <1>2
<1>4. StoreInv(new, s0)'
  BY <1>2, <1>3, StoreInvKept
<1>5. Path(list, s0, stage)
  OBVIOUS
<1>6. Path(list, s0, stage)'
  BY <1>2, <1>5, PathKept
<1>7. Path(batches, s0, RuntimeStage)' /\ StoreInv(Shown, s0)'
  BY <1>4, <1>6
<1> QED BY <1>1, <1>7 DEF PipelineInv

\* An install keeps the invariant, whether or not the queue has room.
LEMMA InstallPreserves ==
  ASSUME PipelineInv, NEW t, NEW inbox, NEW echo, NEW covered, NEW replayed, NEW buffered,
         NEW head, NEW terminal,
         InstallOk(t, inbox, echo, covered, replayed, buffered, head, terminal),
         Install(t, inbox, echo, covered, replayed, buffered, head, terminal)
  PROVE  PipelineInv' /\ Evident(echo, covered)
<1>1. RuntimeInv
  BY DEF PipelineInv
<1>2. /\ InstallArgs(inbox, replayed, buffered)
      /\ t \in authTick .. serverTick /\ head \in t .. MaxHead /\ covered \in Nat
      /\ terminal \in BOOLEAN /\ (terminal => buffered = NoTick)
      /\ inbox # "none" => occurred \in 1 .. t
      /\ occurred \in 1 .. t => buffered = NoTick
      /\ buffered # NoTick => buffered \in t + 1 .. head
      /\ receipt = "retired" => inbox = "retired"
      /\ echo <=> receipt = "accepted" /\ inbox = "retired"
  BY DEF InstallOk
<1>3. PICK s0 \in Stages : Path(batches, s0, RuntimeStage) /\ StoreInv(Shown, s0)
  BY DEF PipelineInv
<1> DEFINE committed == Committed(ReceiptEvents(inbox), replayed, buffered)
           tick == Remembered(pending, committed)
           proven == Proven(echo, covered, inbox = "accepted", tick)
<1>4. PICK u : Commits(committed, pending, RuntimeStage, u) /\ InstallStage(u, inbox, buffered)
  BY <1>1, <1>2, InstallCommits
<1>5. /\ Publish(committed, inbox, echo, covered)
      /\ IF queueFull'
         THEN UNCHANGED <<authTick, predTick, predicted, spectating, receipt>>
         ELSE /\ authTick' = t /\ predTick' = head
              /\ predicted' = buffered
              /\ spectating' = terminal /\ receipt' = inbox
      /\ UNCHANGED <<authorityVars, storeVars>>
  BY DEF Install, Committed
<1>6. /\ u \in Stages
      /\ u.phase = IF inbox # "none" THEN "settled" ELSE Predicts(buffered)
      /\ receipt = "none" /\ inbox # "none" => u.owed
      /\ receipt # "none" => (u.owed <=> pending # NoTick)
  BY <1>4 DEF InstallStage
<1>7. /\ receipt = "accepted" => pending # NoTick
      /\ receipt = "retired" => pending = NoTick
      /\ batches \in Seq(BatchRecords) /\ pending \in 0 .. MaxHead
      /\ receipt \in {"none", "accepted", "retired"}
  BY <1>1 DEF RuntimeInv
<1>8. echo => u.owed
  BY <1>2, <1>6, <1>7
<1>9. Remembers(committed, pending, u.owed)
  BY <1>4 DEF Commits
<1> HIDE DEF committed
<1>10. Queued(s0, u, proven)
  BY <1>3, <1>4, <1>5, <1>7, <1>8, PublishStep
<1>11. tick \in 0 .. MaxHead
  BY <1>9 DEF Remembers
<1>12. MaxHead \in Nat /\ NoTick = 0
  BY PipelineAssumption DEF NoTick
<1> HIDE DEF tick
<1>13. proven => echo \/ covered # NoTick
  BY <1>2, <1>11, <1>12 DEF Proven
<1>14. /\ inbox = "accepted" => ~proven
       /\ echo => proven
  BY <1>2 DEF Proven
<1> HIDE DEF proven
<1>15. Evident(echo, covered)
  BY <1>10, <1>13 DEF Queued, Evident
<1>16. /\ batches' \in Seq(BatchRecords) /\ pending' \in 0 .. MaxHead /\ queueFull' \in BOOLEAN
       /\ queueFull' => batches' = batches /\ pending' = pending
       /\ ~queueFull' =>
            /\ Path(batches', s0, [phase |-> u.phase, owed |-> pending' # NoTick])
            /\ pending' # NoTick <=> u.owed /\ ~proven
  BY <1>10 DEF Queued
<1>17. UNCHANGED <<kind, storeVars>> /\ serverTick' = serverTick /\ occurred' = occurred
  BY <1>5 DEF authorityVars
<1>18. CASE queueFull'
  <2>1. UNCHANGED <<authTick, predTick, predicted, spectating, receipt, batches, pending>>
    BY <1>5, <1>16, <1>18
  <2>2. RuntimeInv'
    BY <1>1, <1>16, <1>17, <2>1 DEF RuntimeInv, Gone
  <2>3. RuntimeStage' = RuntimeStage
    BY <2>1 DEF RuntimeStage
  <2>4. Path(batches', s0, RuntimeStage')
    BY <1>3, <2>1, <2>3
  <2> QED BY <1>3, <1>15, <1>17, <2>2, <2>4, RuntimeSteps
<1>19. CASE ~queueFull'
  <2>1. /\ authTick' = t /\ predTick' = head /\ predicted' = buffered
        /\ spectating' = terminal /\ receipt' = inbox
    BY <1>5, <1>19
  <2>2. /\ inbox \in {"none", "accepted", "retired"}
        /\ receipt # "none" => inbox # "none"
        /\ receipt = "none" => inbox # "retired"
        /\ buffered \in 0 .. MaxHead
    BY <1>2 DEF InstallArgs
  <2>3. inbox = "accepted" => pending' # NoTick
    <3>1. inbox = "accepted" => u.owed
      BY <1>2, <1>6, <1>7, <2>2
    <3> QED BY <1>14, <1>16, <1>19, <3>1
  <2>4. inbox = "retired" => pending' = NoTick
    BY <1>2, <1>6, <1>7, <1>14, <1>16, <1>19, <2>2
  <2>5. RuntimeInv'
    <3>1. /\ kind \in Kinds /\ serverTick \in Nat /\ authTick \in Nat
          /\ occurred \in 0 .. serverTick
      BY <1>1 DEF RuntimeInv
    <3>2. authTick' \in 0 .. serverTick' /\ predTick' \in authTick' .. MaxHead
      BY <1>2, <1>17, <2>1, <3>1
    <3>3. predicted' # NoTick => predicted' \in authTick' + 1 .. predTick'
      BY <1>2, <2>1
    <3>4. receipt' # "none" => occurred' \in 1 .. authTick'
      BY <1>2, <1>17, <2>1
    <3>5. occurred' \in 1 .. authTick' \/ spectating' => predicted' = NoTick
      BY <1>2, <1>17, <2>1
    <3>6. kind' \in Kinds /\ serverTick' \in Nat /\ occurred' \in 0 .. serverTick'
      BY <1>17, <3>1
    <3>7. predicted' \in 0 .. MaxHead /\ spectating' \in BOOLEAN
          /\ receipt' \in {"none", "accepted", "retired"}
      BY <1>2, <2>1, <2>2
    <3>8. /\ receipt' = "accepted" => pending' # NoTick
          /\ receipt' = "retired" => pending' = NoTick
      BY <2>1, <2>3, <2>4
    <3> QED BY <1>16, <3>2, <3>3, <3>4, <3>5, <3>6, <3>7, <3>8 DEF RuntimeInv, Gone
  <2>6. RuntimeStage' = [phase |-> u.phase, owed |-> pending' # NoTick]
    <3>1. RuntimeStage'.phase = u.phase
      BY <1>6, <2>1 DEF RuntimeStage, Predicts
    <3> QED BY <3>1 DEF RuntimeStage
  <2>7. Path(batches', s0, RuntimeStage')
    BY <1>16, <1>19, <2>6
  <2> QED BY <1>3, <1>15, <1>17, <2>5, <2>7, RuntimeSteps
<1> QED BY <1>16, <1>18, <1>19

\* What a replay and the buffered commands may predict.
ReplayFacts(t, head, terminal, r) ==
  /\ r[1] \in 0 .. MaxHead /\ r[2] \in 0 .. MaxHead
  /\ Gone(t) \/ terminal => r[1] = NoTick /\ r[2] = NoTick
  /\ r[2] # NoTick => r[2] \in t + 1 .. head

\* No replay predicts an occurrence that its checkpoint covers.
LEMMA ReplaysAre ==
  ASSUME NEW t \in Nat, NEW head \in t .. MaxHead, NEW resync, NEW terminal \in BOOLEAN,
         NEW r \in Replays(t, head, resync, terminal)
  PROVE  ReplayFacts(t, head, terminal, r)
<1>1. /\ r \in PredictedTicks(t, head) \X PredictedTicks(t, head)
      /\ resync \/ terminal => r[1] = NoTick
      /\ terminal => r[2] = NoTick
  BY DEF Replays
<1>2. MaxHead \in Nat /\ NoTick = 0
  BY PipelineAssumption DEF NoTick
<1>3. /\ r[1] \in {NoTick} \cup (IF Gone(t) THEN {} ELSE t + 1 .. head)
      /\ r[2] \in {NoTick} \cup (IF Gone(t) THEN {} ELSE t + 1 .. head)
  BY <1>1 DEF PredictedTicks
<1>4. t + 1 .. head \subseteq 0 .. MaxHead
  BY <1>2
<1> HIDE DEF Gone
<1>5. r[1] \in 0 .. MaxHead /\ r[2] \in 0 .. MaxHead
  BY <1>2, <1>3, <1>4
<1>6. Gone(t) => r[1] = NoTick /\ r[2] = NoTick
  BY <1>3
<1>7. r[2] # NoTick => r[2] \in t + 1 .. head
  BY <1>3
<1> QED BY <1>1, <1>5, <1>6, <1>7 DEF ReplayFacts

\* External evidence comes after the receipt of an occurrence that authority covers.
EvidenceJustified ==
  Len(batches') > Len(batches) /\ Key \in Last(batches').external
    /\ occurred' \in 1 .. authTick'
  => receipt' # "none"

\* A snapshot keeps the invariant, and the proof it brings is justified.
LEMMA ReceiveSnapshotPreserves ==
  PipelineInv /\ ReceiveSnapshot => PipelineInv' /\ EvidenceJustified
<1> SUFFICES ASSUME PipelineInv, ReceiveSnapshot PROVE PipelineInv' /\ EvidenceJustified
  OBVIOUS
<1>1. RuntimeInv /\ MaxHead \in Nat /\ NoTick = 0
  BY PipelineAssumption DEF PipelineInv, NoTick
<1>2. PICK t \in authTick + 1 .. serverTick, full \in BOOLEAN, resync \in BOOLEAN,
           terminal \in BOOLEAN :
      \E head \in t .. (IF t + predTick - authTick < MaxHead THEN t + predTick - authTick
                        ELSE MaxHead) :
      \E inbox \in CASE receipt = "accepted" -> {"accepted", "retired"}
                     [] receipt = "none" /\ Gone(t) -> IF full THEN {"none", "accepted"}
                                                       ELSE {"accepted"}
                     [] OTHER -> {receipt} :
      \E r \in Replays(t, head, resync, terminal) :
        /\ ~queueFull /\ (spectating => terminal) /\ (terminal => ~resync /\ head = t)
        /\ nextToken < MaxToken
        /\ Install(t, inbox, receipt = "accepted" /\ inbox = "retired",
                   IF full THEN NoTick ELSE t, r[1], r[2], head, terminal)
  BY DEF ReceiveSnapshot
<1> PICK head \in t .. (IF t + predTick - authTick < MaxHead THEN t + predTick - authTick
                        ELSE MaxHead) :
       \E inbox \in CASE receipt = "accepted" -> {"accepted", "retired"}
                      [] receipt = "none" /\ Gone(t) -> IF full THEN {"none", "accepted"}
                                                        ELSE {"accepted"}
                      [] OTHER -> {receipt} :
       \E r \in Replays(t, head, resync, terminal) :
         /\ spectating => terminal
         /\ Install(t, inbox, receipt = "accepted" /\ inbox = "retired",
                    IF full THEN NoTick ELSE t, r[1], r[2], head, terminal)
  BY <1>2
<1> PICK inbox \in CASE receipt = "accepted" -> {"accepted", "retired"}
                     [] receipt = "none" /\ Gone(t) -> IF full THEN {"none", "accepted"}
                                                       ELSE {"accepted"}
                     [] OTHER -> {receipt} :
       \E r \in Replays(t, head, resync, terminal) :
         /\ spectating => terminal
         /\ Install(t, inbox, receipt = "accepted" /\ inbox = "retired",
                    IF full THEN NoTick ELSE t, r[1], r[2], head, terminal)
  OBVIOUS
<1>3. PICK r \in Replays(t, head, resync, terminal) :
        /\ spectating => terminal
        /\ Install(t, inbox, receipt = "accepted" /\ inbox = "retired",
                   IF full THEN NoTick ELSE t, r[1], r[2], head, terminal)
  OBVIOUS
<1> DEFINE echo == receipt = "accepted" /\ inbox = "retired"
           covered == IF full THEN NoTick ELSE t
<1>4. /\ serverTick \in Nat /\ authTick \in Nat /\ predTick \in Nat
      /\ receipt \in {"none", "accepted", "retired"}
      /\ receipt # "none" => occurred \in 1 .. authTick
      /\ spectating \in BOOLEAN
  BY <1>1 DEF RuntimeInv, Gone
<1>5. t \in Nat /\ t \in authTick .. serverTick /\ head \in t .. MaxHead /\ covered \in Nat
  BY <1>1, <1>4
<1>6. /\ receipt = "accepted" => inbox \in {"accepted", "retired"}
      /\ receipt = "retired" => inbox = "retired"
      /\ receipt = "none" => inbox \in {"none", "accepted"}
      /\ receipt = "none" /\ inbox = "accepted" => Gone(t)
      /\ receipt = "none" /\ Gone(t) /\ ~full => inbox = "accepted"
  <2>1. CASE receipt = "accepted"
    BY <2>1
  <2>2. CASE receipt = "none" /\ Gone(t)
    BY <2>2
  <2>3. CASE receipt # "accepted" /\ ~(receipt = "none" /\ Gone(t))
    <3>1. inbox = receipt
      BY <2>3
    <3> QED BY <1>4, <2>3, <3>1
  <2> QED BY <2>1, <2>2, <2>3
<1>7. ReplayFacts(t, head, terminal, r)
  BY <1>5, ReplaysAre
<1>8. /\ r[1] \in 0 .. MaxHead /\ r[2] \in 0 .. MaxHead
      /\ Gone(t) \/ terminal => r[1] = NoTick /\ r[2] = NoTick
      /\ r[2] # NoTick => r[2] \in t + 1 .. head
  BY <1>7 DEF ReplayFacts
<1>9. inbox # "none" => occurred \in 1 .. t /\ Gone(t)
  BY <1>4, <1>5, <1>6 DEF Gone
<1>10. InstallArgs(inbox, r[1], r[2])
  <2>1. inbox # "none" => occurred \in 1 .. MaxHead
    BY <1>1, <1>5, <1>9
  <2>2. inbox \in {"none", "accepted", "retired"}
    BY <1>4, <1>6
  <2> QED BY <1>3, <1>6, <1>8, <1>9, <2>1, <2>2 DEF InstallArgs
<1>11. InstallOk(t, inbox, echo, covered, r[1], r[2], head, terminal)
  <2>1. occurred \in 1 .. t => r[2] = NoTick
    BY <1>8 DEF Gone
  <2> QED BY <1>5, <1>6, <1>8, <1>9, <1>10, <2>1 DEF InstallOk
<1>12. Install(t, inbox, echo, covered, r[1], r[2], head, terminal)
  BY <1>3
<1> HIDE DEF echo, covered
<1>13. PipelineInv' /\ Evident(echo, covered)
  BY <1>11, <1>12, InstallPreserves
<1>14. ASSUME Len(batches') > Len(batches), Key \in Last(batches').external,
              occurred' \in 1 .. authTick'
       PROVE  receipt' # "none"
  <2>1. ~queueFull' /\ (echo \/ covered # NoTick)
    BY <1>13, <1>14 DEF Evident
  <2>2. authTick' = t /\ receipt' = inbox /\ occurred' = occurred
    BY <1>12, <2>1 DEF Install, authorityVars
  <2>3. CASE echo
    BY <2>2, <2>3 DEF echo
  <2>4. CASE covered # NoTick
    <3>1. ~full
      BY <2>4 DEF covered
    <3>2. Gone(t)
      BY <1>14, <2>2 DEF Gone
    <3> QED BY <1>4, <1>6, <2>2, <3>1, <3>2
  <2> QED BY <2>1, <2>3, <2>4
<1> QED BY <1>13, <1>14 DEF EvidenceJustified

\* Installing the known authority again brings no proof.
LEMMA ReinstallPreserves ==
  PipelineInv /\ Reinstall => PipelineInv' /\ EvidenceJustified
<1> SUFFICES ASSUME PipelineInv, Reinstall PROVE PipelineInv' /\ EvidenceJustified
  OBVIOUS
<1>1. RuntimeInv /\ MaxHead \in Nat /\ NoTick = 0
  BY PipelineAssumption DEF PipelineInv, NoTick
<1> PICK resync \in BOOLEAN, head \in authTick .. predTick :
      \E r \in Replays(authTick, head, resync, FALSE) :
        /\ ~spectating
        /\ Install(authTick, receipt, FALSE, NoTick, r[1], r[2], head, FALSE)
  BY DEF Reinstall
<1>2. PICK r \in Replays(authTick, head, resync, FALSE) :
        /\ ~spectating
        /\ Install(authTick, receipt, FALSE, NoTick, r[1], r[2], head, FALSE)
  OBVIOUS
<1>3. /\ serverTick \in Nat /\ authTick \in 0 .. serverTick /\ predTick \in authTick .. MaxHead
      /\ receipt \in {"none", "accepted", "retired"}
      /\ receipt # "none" => Gone(authTick)
      /\ spectating \in BOOLEAN
  BY <1>1 DEF RuntimeInv
<1>4. authTick \in Nat /\ authTick \in authTick .. serverTick /\ head \in authTick .. MaxHead
  BY <1>1, <1>3
<1>5. ReplayFacts(authTick, head, FALSE, r)
  BY <1>4, ReplaysAre
<1>6. /\ r[1] \in 0 .. MaxHead /\ r[2] \in 0 .. MaxHead
      /\ Gone(authTick) => r[1] = NoTick /\ r[2] = NoTick
      /\ r[2] # NoTick => r[2] \in authTick + 1 .. head
  BY <1>5 DEF ReplayFacts
<1>7. InstallArgs(receipt, r[1], r[2])
  <2>1. receipt # "none" => occurred \in 1 .. MaxHead
    BY <1>1, <1>3, <1>4 DEF Gone
  <2> QED BY <1>2, <1>3, <1>6, <2>1 DEF InstallArgs
<1>8. InstallOk(authTick, receipt, FALSE, NoTick, r[1], r[2], head, FALSE)
  <2>1. occurred \in 1 .. authTick => r[2] = NoTick
    BY <1>6 DEF Gone
  <2>2. receipt # "none" => occurred \in 1 .. authTick
    BY <1>3 DEF Gone
  <2> QED BY <1>1, <1>4, <1>6, <1>7, <2>1, <2>2 DEF InstallOk
<1>9. PipelineInv' /\ Evident(FALSE, NoTick)
  BY <1>2, <1>8, InstallPreserves
<1> QED BY <1>9 DEF Evident, EvidenceJustified

\* A batch that predicts the key, or leaves its phase as it is, does not retire it.
LEMMA TellsPrediction ==
  ASSUME NEW b, NEW s, NEW q, Tells(b, s, q), q = "predicted" \/ q = s.phase
  PROVE  Key \notin b.retired
<1>1. /\ Observable(b) => Link(s, b, Owing(s, b, q))
      /\ ~Observable(b) => Key \notin b.retired
  BY DEF Tells
<1>2. Owing(s, b, q).phase = q
  BY DEF Owing
<1>3. CASE Observable(b)
  <2>1. Silent(b, s, Owing(s, b, q)) \/ Speaks(b, s, Owing(s, b, q))
    BY <1>1, <1>3 DEF Link
  <2>2. CASE Silent(b, s, Owing(s, b, q))
    BY <2>2 DEF Silent
  <2>3. CASE Speaks(b, s, Owing(s, b, q))
    <3>1. <<s.phase, b.changes[1].transition, q>> \in Moves
          /\ (Key \in b.retired <=> b.changes[1].transition \in Final)
      BY <1>2, <2>3 DEF Speaks
    <3>2. s.phase = q => q = "predicted"
      BY <3>1 DEF Moves
    <3>3. q = "predicted" => b.changes[1].transition \notin Final
      BY <3>1 DEF Moves, Final
    <3> QED BY <3>1, <3>2, <3>3
  <2> QED BY <2>1, <2>2, <2>3
<1> QED BY <1>1, <1>3

\* A submitted command predicts one more tick and brings no proof.
LEMMA AdvancePreserves ==
  PipelineInv /\ Advance => PipelineInv' /\ EvidenceJustified
<1> SUFFICES ASSUME PipelineInv, Advance PROVE PipelineInv' /\ EvidenceJustified
  OBVIOUS
<1>1. RuntimeInv /\ MaxHead \in Nat /\ NoTick = 0
  BY PipelineAssumption DEF PipelineInv, NoTick
<1>2. PICK next \in {predicted} \cup
               (IF predicted = NoTick THEN PredictedTicks(authTick, predTick + 1) \cap {predTick + 1}
                ELSE {}) :
        /\ predTick < MaxHead
        /\ queueFull' = (Len(batches) >= BatchCapacity)
        /\ IF queueFull' THEN UNCHANGED <<predTick, predicted, batches>>
           ELSE /\ predTick' = predTick + 1 /\ predicted' = next
                /\ batches' = Appended(batches, Batch(predicted, next, {}))
        /\ UNCHANGED <<authTick, spectating, receipt, pending, authorityVars, storeVars>>
        /\ ~spectating
  BY DEF Advance
<1>3. PICK s0 \in Stages : Path(batches, s0, RuntimeStage) /\ StoreInv(Shown, s0)
  BY DEF PipelineInv
<1>4. /\ kind \in Kinds /\ serverTick \in Nat /\ authTick \in 0 .. serverTick
      /\ predTick \in authTick .. MaxHead /\ predicted \in 0 .. MaxHead
      /\ predicted # NoTick => predicted \in authTick + 1 .. predTick
      /\ receipt # "none" => Gone(authTick)
      /\ Gone(authTick) => predicted = NoTick
      /\ batches \in Seq(BatchRecords) /\ spectating \in BOOLEAN
  BY <1>1 DEF RuntimeInv
<1>5. /\ next \in 0 .. MaxHead /\ predTick + 1 \in authTick .. MaxHead
      /\ next # NoTick => next \in authTick + 1 .. predTick + 1
      /\ Gone(authTick) => next = predicted
      /\ next # predicted => predicted = NoTick /\ next # NoTick
  <2>1. CASE next = predicted
    BY <1>1, <1>2, <1>4, <2>1
  <2>2. CASE next # predicted
    <3>1. predicted = NoTick /\ next = predTick + 1 /\ next \in PredictedTicks(authTick, predTick + 1)
      BY <1>2, <2>2
    <3>2. next # NoTick /\ ~Gone(authTick)
      <4>1. next # NoTick
        BY <1>1, <1>4, <3>1
      <4> QED BY <3>1, <4>1 DEF PredictedTicks
    <3> QED BY <1>1, <1>2, <1>4, <2>2, <3>1, <3>2
  <2> QED BY <2>1, <2>2
<1>6. queueFull' \in BOOLEAN
  BY <1>2
<1>7. UNCHANGED <<kind, storeVars>> /\ serverTick' = serverTick /\ occurred' = occurred
      /\ authTick' = authTick /\ receipt' = receipt /\ pending' = pending
      /\ spectating' = spectating
  BY <1>2 DEF authorityVars
<1>8. CASE queueFull'
  <2>1. UNCHANGED <<predTick, predicted, batches>>
    BY <1>2, <1>8
  <2>2. RuntimeInv'
    BY <1>1, <1>6, <1>7, <2>1 DEF RuntimeInv, Gone
  <2>3. RuntimeStage' = RuntimeStage
    BY <1>7, <2>1 DEF RuntimeStage
  <2>4. Path(batches', s0, RuntimeStage')
    BY <1>3, <2>1, <2>3
  <2>5. ~(Len(batches') > Len(batches))
    <3>1. Len(batches) \in Nat
      BY <1>4, LenProperties
    <3> QED BY <2>1, <3>1
  <2>6. PipelineInv'
    BY <1>3, <1>7, <2>2, <2>4, RuntimeSteps
  <2> QED BY <2>5, <2>6 DEF EvidenceJustified
<1>9. CASE ~queueFull'
  <2> DEFINE b == Batch(predicted, next, {})
             s == RuntimeStage
             q == IF predicted = next THEN s.phase ELSE Predicts(next)
             u == Owing(s, b, q)
  <2>1. /\ s \in Stages
        /\ receipt # "none" => s.phase = "settled"
        /\ receipt = "none" => s.phase = Predicts(predicted)
        /\ s.owed <=> pending # NoTick
    BY <1>1, StageFacts
  <2>2. predicted # next => s.phase = Predicts(predicted)
    BY <1>4, <1>5, <2>1
  <2>3. predTick' = predTick + 1 /\ predicted' = next /\ batches' = Appended(batches, b)
    BY <1>2, <1>9
  <2>4. u.phase = q /\ (u.owed <=> s.owed \/ Key \in b.retired)
    BY DEF Owing
  <2> HIDE DEF s
  <2>5. Tells(b, s, q)
    BY <1>4, <1>5, <2>1, <2>2, BatchTells
  <2>6. q = "predicted" \/ q = s.phase
    BY <1>5 DEF Predicts
  <2> HIDE DEF b
  <2>7. Key \notin b.retired
    BY <2>5, <2>6, TellsPrediction
  <2>8. u \in Stages /\ u.owed = s.owed
    <3>1. s.owed \in BOOLEAN /\ q \in {"none", "predicted", "settled"}
      BY <2>1 DEF Stages, Predicts
    <3> QED BY <2>7, <3>1 DEF Owing, Stages
  <2>9. /\ b \in BatchRecords /\ b.external = {}
        /\ Observable(b) => Link(s, b, u)
        /\ ~Observable(b) => q = s.phase
    BY <2>5 DEF Tells
  <2>10. q = IF receipt # "none" THEN "settled" ELSE Predicts(next)
    BY <1>4, <1>5, <2>1
  <2> HIDE DEF q, u
  <2>11. Path(batches', s0, u) /\ batches' \in Seq(BatchRecords)
    <3>1. CASE Observable(b)
      <4>1. batches' = Append(batches, b)
        BY <2>3, <3>1 DEF Appended
      <4>2. Path(batches, s0, s)
        BY <1>3 DEF s
      <4>3. Path(Append(batches, b), s0, u)
        BY <1>4, <2>8, <2>9, <3>1, <4>2, PathAppend
      <4>4. Append(batches, b) \in Seq(BatchRecords)
        BY <1>4, <2>9, AppendProperties
      <4> QED BY <4>1, <4>3, <4>4
    <3>2. CASE ~Observable(b)
      <4>1. batches' = batches
        BY <2>3, <3>2 DEF Appended
      <4>2. u = s
        BY <2>1, <2>4, <2>8, <2>9, <3>2 DEF Stages
      <4> QED BY <1>3, <1>4, <4>1, <4>2 DEF s
    <3> QED BY <3>1, <3>2
  <2>12. ~(Len(batches') > Len(batches) /\ Key \in Last(batches').external)
    <3>1. Len(batches) \in Nat
      BY <1>4, LenProperties
    <3>2. CASE Observable(b)
      <4>1. batches' = Append(batches, b)
        BY <2>3, <3>2 DEF Appended
      <4>2. Len(batches') = Len(batches) + 1 /\ batches'[Len(batches) + 1] = b
        BY <1>4, <2>9, <4>1, AppendProperties
      <4>3. Last(batches') = b
        BY <4>2 DEF Last
      <4> QED BY <2>9, <4>3
    <3>3. CASE ~Observable(b)
      BY <2>3, <3>1, <3>3 DEF Appended
    <3> QED BY <3>2, <3>3
  <2>13. RuntimeInv'
    <3>1. /\ kind' \in Kinds /\ serverTick' \in Nat /\ authTick' \in 0 .. serverTick'
          /\ occurred' \in 0 .. serverTick' /\ predTick' \in authTick' .. MaxHead
          /\ pending' \in 0 .. MaxHead /\ predicted' \in 0 .. MaxHead
          /\ spectating' \in BOOLEAN /\ queueFull' \in BOOLEAN
          /\ receipt' \in {"none", "accepted", "retired"}
      BY <1>1, <1>5, <1>6, <1>7, <2>3 DEF RuntimeInv
    <3>2. predicted' # NoTick => predicted' \in authTick' + 1 .. predTick'
      BY <1>5, <1>7, <2>3
    <3>3. /\ receipt' # "none" => occurred' \in 1 .. authTick'
          /\ receipt' = "accepted" => pending' # NoTick
          /\ receipt' = "retired" => pending' = NoTick
      BY <1>1, <1>7 DEF RuntimeInv, Gone
    <3>4. occurred' \in 1 .. authTick' \/ spectating' => predicted' = NoTick
      BY <1>2, <1>4, <1>5, <1>7, <2>3 DEF Gone
    <3> QED BY <2>11, <3>1, <3>2, <3>3, <3>4 DEF RuntimeInv, Gone
  <2>14. RuntimeStage' = u
    <3>1. RuntimeStage' = [phase |-> IF receipt # "none" THEN "settled"
                                     ELSE IF next # NoTick THEN "predicted" ELSE "none",
                           owed |-> pending # NoTick]
      BY <1>7, <2>3 DEF RuntimeStage
    <3>2. RuntimeStage'.phase = u.phase
      BY <2>4, <2>10, <3>1 DEF Predicts
    <3>3. RuntimeStage'.owed = u.owed
      BY <2>1, <2>8, <3>1 DEF Stages
    <3>4. RuntimeStage' \in Stages
      BY <3>1 DEF Stages
    <3> QED BY <2>8, <3>2, <3>3, <3>4 DEF Stages
  <2>15. PipelineInv'
    BY <1>3, <1>7, <2>11, <2>13, <2>14, RuntimeSteps
  <2> QED BY <2>12, <2>15 DEF EvidenceJustified
<1> QED BY <1>6, <1>8, <1>9

\* The server's steps change nothing the client has seen.
LEMMA ServerTicksPreserves ==
  PipelineInv /\ ServerTicks => PipelineInv' /\ EvidenceJustified
<1> SUFFICES ASSUME PipelineInv, ServerTicks PROVE PipelineInv' /\ EvidenceJustified
  OBVIOUS
<1>1. RuntimeInv /\ NoTick = 0
  BY DEF PipelineInv, NoTick
<1>2. /\ serverTick' = serverTick + 1
      /\ occurred' \in {occurred} \cup (IF occurred = NoTick THEN {serverTick + 1} ELSE {})
      /\ UNCHANGED <<kind, runtimeVars, storeVars>>
  BY DEF ServerTicks
<1>3. PICK s0 \in Stages : Path(batches, s0, RuntimeStage) /\ StoreInv(Shown, s0)
  BY DEF PipelineInv
<1>4. /\ authTick' = authTick /\ predTick' = predTick /\ predicted' = predicted
      /\ spectating' = spectating /\ receipt' = receipt /\ pending' = pending
      /\ batches' = batches /\ queueFull' = queueFull
  BY <1>2 DEF runtimeVars
<1>5. Gone(authTick)' <=> Gone(authTick)
  BY <1>1, <1>2, <1>4 DEF RuntimeInv, Gone
<1>6. serverTick' \in Nat /\ authTick' \in 0 .. serverTick' /\ occurred' \in 0 .. serverTick'
  BY <1>1, <1>2, <1>4 DEF RuntimeInv
<1>7. RuntimeInv'
  BY <1>1, <1>2, <1>4, <1>5, <1>6 DEF RuntimeInv
<1>8. RuntimeStage' = RuntimeStage
  BY <1>4 DEF RuntimeStage
<1>9. Path(batches', s0, RuntimeStage')
  BY <1>3, <1>4, <1>8
<1>10. PipelineInv'
  BY <1>2, <1>3, <1>7, <1>9, RuntimeSteps
<1>11. ~(Len(batches') > Len(batches))
  <2>1. Len(batches) \in Nat
    BY <1>1, LenProperties DEF RuntimeInv
  <2> QED BY <1>4, <2>1
<1> QED BY <1>10, <1>11 DEF EvidenceJustified

\* The initial states satisfy the invariant.
LEMMA PipelineInitInv == PipelineInit => PipelineInv
<1> SUFFICES ASSUME PipelineInit PROVE PipelineInv
  OBVIOUS
<1>1. /\ kind \in Kinds /\ serverTick = 1 /\ occurred = NoTick
      /\ authTick = 0 /\ predTick = 0 /\ predicted = NoTick /\ spectating = FALSE
      /\ receipt = "none" /\ pending = NoTick /\ batches = << >> /\ queueFull = FALSE
      /\ records = {} /\ nextToken = 1 /\ cue = 0 /\ stingers = 0
      /\ flashes = 0 /\ closings = 0
      /\ ledger = [k \in Keys |-> NewEntry]
  BY DEF PipelineInit, RouterInit
<1>2. MaxHead \in Nat /\ NoTick = 0 /\ Key \in Keys
  BY PipelineAssumption DEF NoTick
<1>3. RuntimeInv
  <2>1. batches \in Seq(BatchRecords)
    BY <1>1
  <2>2. /\ authTick \in 0 .. serverTick /\ occurred \in 0 .. serverTick
        /\ predTick \in authTick .. MaxHead /\ {pending, predicted} \subseteq 0 .. MaxHead
    BY <1>1, <1>2
  <2>3. ~Gone(authTick)
    BY <1>1 DEF Gone, NoTick
  <2> QED BY <1>1, <1>2, <2>1, <2>2, <2>3 DEF RuntimeInv
<1>4. ledger[Key] = NewEntry
  BY <1>1, <1>2
<1> DEFINE s == [phase |-> "none", owed |-> FALSE]
<1>5. s \in Stages /\ s.phase = "none" /\ ~s.owed
  BY DEF Stages
<1>6. RuntimeStage = s
  BY <1>1 DEF RuntimeStage
<1> HIDE DEF s
<1>7. Path(batches, s, RuntimeStage)
  BY <1>1, <1>5, <1>6, PathEmpty
<1>8. StoreInv(Shown, s)
  <2>1. /\ DOMAIN Shown = StoreFields /\ DOMAIN Shown.book = {"entry", "fired", "open"}
        /\ Shown.book.entry = NewEntry /\ Shown.records = {} /\ Shown.next = 1
        /\ Shown.cue = 0 /\ Shown.stingers = 0 /\ Shown.flashes = 0 /\ Shown.closings = 0
    BY <1>1, <1>4 DEF Shown, StoreFields, Booked
  <2>2. Known(NewEntry, s.phase)
    BY <1>1, <1>5, NewEntryKnown
  <2>3. Evidence(NewEntry, s)
    BY <1>5 DEF Evidence, NewEntry
  <2>4. Counted(0, 0, NewEntry)
    BY DEF Counted
  <2>5. Cues({}, 1, 0, s.phase)
    BY <1>5 DEF Cues
  <2> QED BY <1>5, <2>1, <2>2, <2>3, <2>4, <2>5 DEF StoreInv
<1> QED BY <1>1, <1>3, <1>4, <1>5, <1>7, <1>8 DEF PipelineInv

\* Every step keeps the invariant and brings no proof too early.
LEMMA PipelineNextInv ==
  PipelineInv /\ [PipelineNext]_pipelineVars => PipelineInv' /\ EvidenceJustified
<1> SUFFICES ASSUME PipelineInv, [PipelineNext]_pipelineVars
             PROVE  PipelineInv' /\ EvidenceJustified
  OBVIOUS
<1>1. RuntimeInv
  BY DEF PipelineInv
<1>2. Len(batches) \in Nat
  BY <1>1, LenProperties DEF RuntimeInv
<1>3. CASE ServerTicks
  BY <1>3, ServerTicksPreserves
<1>4. CASE ReceiveSnapshot
  BY <1>4, ReceiveSnapshotPreserves
<1>5. CASE Reinstall
  BY <1>5, ReinstallPreserves
<1>6. CASE Advance
  BY <1>6, AdvancePreserves
<1>7. CASE Frame
  <2>1. PipelineInv'
    BY <1>7, FramePreserves
  <2>2. batches' = << >>
    BY <1>7 DEF Frame
  <2>3. ~(Len(batches') > Len(batches))
    BY <1>2, <2>2
  <2> QED BY <2>1, <2>3 DEF EvidenceJustified
<1>8. CASE UNCHANGED pipelineVars
  <2>1. UNCHANGED <<authorityVars, runtimeVars, storeVars>>
    BY <1>8 DEF pipelineVars
  <2>2. /\ kind' = kind /\ serverTick' = serverTick /\ occurred' = occurred
        /\ authTick' = authTick /\ predTick' = predTick /\ predicted' = predicted
        /\ spectating' = spectating /\ receipt' = receipt /\ pending' = pending
        /\ batches' = batches /\ queueFull' = queueFull
    BY <2>1 DEF authorityVars, runtimeVars
  <2>3. RuntimeInv'
    BY <1>1, <2>2 DEF RuntimeInv, Gone
  <2>4. RuntimeStage' = RuntimeStage
    BY <2>2 DEF RuntimeStage
  <2>5. PICK s0 \in Stages : Path(batches, s0, RuntimeStage) /\ StoreInv(Shown, s0)
    BY DEF PipelineInv
  <2>6. Path(batches', s0, RuntimeStage')
    BY <2>2, <2>4, <2>5
  <2>7. PipelineInv'
    BY <2>1, <2>2, <2>3, <2>5, <2>6, RuntimeSteps
  <2>8. ~(Len(batches') > Len(batches))
    BY <1>2, <2>2
  <2> QED BY <2>7, <2>8 DEF EvidenceJustified
<1> QED BY <1>3, <1>4, <1>5, <1>6, <1>7, <1>8 DEF PipelineNext

\* The invariant holds in every reachable state.
LEMMA PipelineInvHolds == PipelineSpec => []PipelineInv
<1> QED BY PipelineInitInv, PipelineNextInv, PTL DEF PipelineSpec

-----------------------------------------------------------------------------
(* What the invariant says.                                                *)

\* What a reader of the store may conclude: the stage it stands at, which is the
\* runtime's once the queue is drained.
StoreFacts(s) ==
  /\ Path(batches, s, RuntimeStage)
  /\ Known(ledger[Key], s.phase) /\ Evidence(ledger[Key], s)
  /\ Counted(flashes, closings, ledger[Key])
  /\ stingers = IF s.phase = "settled" /\ kind = "absorbed" THEN 1 ELSE 0
  /\ Cues(records, nextToken, cue, s.phase)
  /\ Drained => s = RuntimeStage

\* The store stands at one stage.
LEMMA StoreIsAtAStage ==
  ASSUME PipelineInv
  PROVE  \E s \in Stages : StoreFacts(s)
<1>1. PICK s \in Stages : Path(batches, s, RuntimeStage) /\ StoreInv(Shown, s)
  BY DEF PipelineInv
<1>2. /\ Shown.book.entry = ledger[Key] /\ Shown.records = records /\ Shown.next = nextToken
      /\ Shown.cue = cue /\ Shown.stingers = stingers /\ Shown.flashes = flashes
      /\ Shown.closings = closings
  BY DEF Shown, Booked
<1>3. ASSUME Drained PROVE s = RuntimeStage
  <2>1. PICK f \in [0 .. Len(batches) -> Stages] : f[0] = s /\ f[Len(batches)] = RuntimeStage
    BY <1>1 DEF Path
  <2>2. Len(batches) = 0
    BY <1>3 DEF Drained
  <2> QED BY <2>1, <2>2
<1>4. /\ Known(Shown.book.entry, s.phase) /\ Evidence(Shown.book.entry, s)
      /\ Counted(Shown.flashes, Shown.closings, Shown.book.entry)
      /\ Shown.stingers = IF s.phase = "settled" /\ kind = "absorbed" THEN 1 ELSE 0
      /\ Cues(Shown.records, Shown.next, Shown.cue, s.phase)
  BY <1>1 DEF StoreInv
<1>5. StoreFacts(s)
  BY <1>1, <1>2, <1>3, <1>4 DEF StoreFacts
<1> QED BY <1>5

\* Every queued batch is one the router accepts.
LEMMA BatchesAccepted ==
  ASSUME PipelineInv, NEW i \in DOMAIN batches
  PROVE  Accepts(batches[i])
<1>1. batches \in Seq(BatchRecords)
  BY DEF PipelineInv, RuntimeInv
<1>2. PICK s \in Stages : Path(batches, s, RuntimeStage)
  BY DEF PipelineInv
<1>3. PICK f : \A j \in 1 .. Len(batches) : Link(f[j - 1], batches[j], f[j])
  BY <1>2 DEF Path
<1> DEFINE b == batches[i]
<1>4. i \in 1 .. Len(batches) /\ b \in BatchRecords
  BY <1>1, LenProperties, ElementOfSeq
<1>5. Silent(b, f[i - 1], f[i]) \/ Speaks(b, f[i - 1], f[i])
  BY <1>3, <1>4 DEF Link
<1>6. b.changes \in Seq(Changes)
  BY <1>4 DEF BatchRecords
<1> HIDE DEF b
<1>7. CASE Silent(b, f[i - 1], f[i])
  BY <1>7 DEF Silent, Accepts, b
<1>8. CASE Speaks(b, f[i - 1], f[i])
  <2>1. Len(b.changes) = 1 /\ ValidShape(b.changes[1])
    BY <1>8 DEF Speaks, ChangeFacts
  <2>2. DOMAIN b.changes = 1 .. 1
    BY <1>6, <2>1, LenProperties
  <2> QED BY <2>1, <2>2 DEF Accepts, b
<1> QED BY <1>5, <1>7, <1>8

\* The pipeline's fields have their types and every queued batch is one the
\* router accepts; a cue that may still be cancelled is in the store exactly while
\* the router holds its token, and once the frame has drained the queue exactly
\* while the timeline predicts the event (install_authority, submit_input,
\* drain_consequence_batches, CueStore::append).
THEOREM CuesAlwaysSound == PipelineSpec => []CuesSound
<1>1. ASSUME PipelineInv PROVE CuesSound
  <2>1. RuntimeInv /\ Key \in Keys /\ MaxHead \in Nat /\ NoTick = 0
    BY <1>1, PipelineAssumption DEF PipelineInv, NoTick
  <2>2. PICK s \in Stages : StoreFacts(s)
    BY <1>1, StoreIsAtAStage
  <2>3. /\ Known(ledger[Key], s.phase) /\ Cues(records, nextToken, cue, s.phase)
        /\ Drained => s = RuntimeStage
    BY <2>2 DEF StoreFacts
  <2>4. PipelineTypeOK
    <3>1. ledger \in [Keys -> Entries]
      <4>1. ledger[Key] \in Entries
        BY <2>3 DEF Known
      <4>2. ledger = [k \in Keys |-> ledger[Key]]
        BY <1>1 DEF PipelineInv
      <4> QED BY <4>1, <4>2
    <3>2. \A i \in DOMAIN batches : Accepts(batches[i])
      BY <1>1, BatchesAccepted
    <3> QED BY <2>1, <3>1, <3>2 DEF PipelineTypeOK, RuntimeInv
  <2>5. Held <=> s.phase = "predicted"
    BY <2>3 DEF Held, Known
  <2>6. /\ \A r \in records : ~r.terminal <=> s.phase = "predicted" /\ r.token = cue
        /\ s.phase = "predicted" => \E r \in records : r.token = cue
    BY <2>3 DEF Cues
  <2>7. Drained => (Held <=> predicted # NoTick)
    BY <2>1, <2>3, <2>5 DEF RuntimeStage, RuntimeInv
  <2>8. CuesFollowPrediction
    BY <2>5, <2>6, <2>7 DEF CuesFollowPrediction
  <2> QED BY <2>4, <2>8 DEF CuesSound
<1> QED BY <1>1, PipelineInvHolds, PTL

\* The notice of an absorption is shown exactly once if the server reported it
\* and never if it was only predicted, and what the ledger remembers of the key is
\* bound to be forgotten (attach_external_retirement_evidence, consume).
THEOREM EvidenceAlwaysSettles == PipelineSpec => []EvidenceSettles
<1>1. ASSUME PipelineInv PROVE EvidenceSettles
  <2>1. PICK s \in Stages : StoreFacts(s)
    BY <1>1, StoreIsAtAStage
  <2>2. /\ stingers = IF s.phase = "settled" /\ kind = "absorbed" THEN 1 ELSE 0
        /\ Evidence(ledger[Key], s)
        /\ Drained => s = RuntimeStage
    BY <2>1 DEF StoreFacts
  <2>3. NoticeOncePerAbsorption
    <3>1. RuntimeStage.phase = "settled" <=> receipt # "none"
      BY DEF RuntimeStage
    <3> QED BY <2>2, <3>1 DEF NoticeOncePerAbsorption
  <2>4. TombstonesRetire
    <3>1. ledger[Key] # NewEntry => s.owed \/ s.phase = "predicted"
      BY <2>2 DEF Evidence
    <3>2. /\ RuntimeStage.owed => pending # NoTick
          /\ RuntimeStage.phase = "predicted" => predicted # NoTick
      BY DEF RuntimeStage
    <3> QED BY <2>2, <3>1, <3>2 DEF TombstonesRetire
  <2> QED BY <2>3, <2>4 DEF EvidenceSettles
<1> QED BY <1>1, PipelineInvHolds, PTL

\* There are no more flashes than external proofs but one.
FlashBound == flashes <= 1 + closings

\* A flash is repeated only after an external proof closed the key, and no proof is
\* given for an event that happened before its receipt has come
\* (attach_external_retirement_evidence, AuthorityReceiptInbox::apply).
THEOREM FlashesAlwaysJustified == PipelineSpec => FlashesJustified
<1>1. PipelineInv => FlashBound
  <2> SUFFICES ASSUME PipelineInv PROVE FlashBound
    OBVIOUS
  <2>1. PICK s \in Stages : StoreFacts(s)
    BY StoreIsAtAStage
  <2>2. flashes \in Nat /\ closings \in Nat /\ flashes <= closings + 1
    BY <2>1 DEF StoreFacts, Counted
  <2> QED BY <2>2 DEF FlashBound
<1>2. PipelineInv /\ PipelineInv' /\ [PipelineNext]_pipelineVars
        => [/\ flashes' <= 1 + closings'
            /\ Len(batches') > Len(batches) /\ Key \in Last(batches').external
                 /\ occurred' \in 1 .. authTick'
               => receipt' # "none"]_pipelineVars
  <2>1. PipelineInv' => FlashBound'
    BY <1>1, PTL
  <2> QED BY <2>1, PipelineNextInv DEF EvidenceJustified, FlashBound
<1> QED BY <1>2, PipelineInvHolds, PTL DEF FlashesJustified, PipelineSpec

=============================================================================
