------------------------------ MODULE MCRollback ------------------------------
(* A small rollback model for TLC: a counter modulo 3 whose "eat" stimulus    *)
(* emits an event with a stable key and a payload that depends on the state   *)
(* it is replayed from, so replays revise, retract and re-predict it.  The    *)
(* router has the six handlers the game registers; an event's payload is its  *)
(* alternative: 0 an absorption, 1 a split, 2 food.                           *)
EXTENDS Rollback

CONSTANTS MaxTick, EventTicks

MCCheckpoints == 0 .. 2
MCStates == {<<v>> : v \in 0 .. 2}
MCScopes == {"near", "far"}
MCStimuli == {"eat", "idle"}
MCKeys == {"k1", "k2"}
MCEvents == [key : MCKeys, value : 0 .. 2]
MCRefreshes == {"retain", "swap"}

\* Checkpoint 2 lies outside the "near" scope.
MCRestore(c, sc) == IF c = 2 /\ sc = "near" THEN None ELSE <<c>>
MCCapture(s, sc) == s[1]
MCEvent(k, v) == [key |-> k, value |-> v]
\* "eat" from 0 or 1 emits k1, from 1 also k2; stepping "idle" from 2 fails, and
\* so does leaving the "near" scope.
MCStep(s, st, sc) ==
  IF st = "idle"
  THEN [state |-> IF s[1] = 2 THEN None ELSE s, events |-> << >>]
  ELSE [state |-> IF sc = "near" THEN <<(s[1] + 1) % 2>> ELSE <<(s[1] + 1) % 3>>,
        events |-> IF s[1] = 0 THEN <<MCEvent("k1", 0)>>
                   ELSE IF s[1] = 1 THEN <<MCEvent("k1", 1), MCEvent("k2", 0)>>
                   ELSE << >>]
MCEventKey(e) == e.key
MCRefresh(r, q, st, s, sc) ==
  IF r = "retain" THEN st
  ELSE IF s[1] = 2 THEN None
  ELSE IF st = "eat" THEN "idle" ELSE "eat"

Confirmation(k, v) == [key |-> k, confirmed |-> TRUE, event |-> MCEvent(k, v)]
Rejection(k) == [key |-> k, confirmed |-> FALSE, event |-> None]
EventOutcomes ==
  {{Confirmation("k1", 1)},
   {Confirmation("k2", 0), Rejection("k1")},
   {Confirmation("k1", 0), Rejection("k1")}}

\* Frames without outcomes take every tick, acknowledgement and epoch, the
\* invalid ones too; those with outcomes keep to the first ticks.
MCAuthorityFrames ==
  [tick : 0 .. MaxTick, ack : Sequences \cup {NoSequence, InvalidSequence},
   epoch : Epochs, checkpoint : MCCheckpoints, events : {{}}]
  \cup
  [tick : 0 .. MaxTick, ack : {NoSequence}, epoch : {InvalidEpoch},
   checkpoint : {0}, events : {{}}]
  \cup
  [tick : EventTicks, ack : Sequences \cup {NoSequence},
   epoch : Epochs, checkpoint : 0 .. 1, events : EventOutcomes]

MCAlternative(e) == e.value
MCSubscription ==
  [h \in Handlers |->
     IF h \in {"SplitFlash", "SplitLaunch"} THEN 1 ELSE IF h = "FoodPop" THEN 2 ELSE 0]

\* Handlers and ledger treat the keys alike and apart, so the batches are about
\* one.  Consuming two valid changes in one batch is consuming them in two, so a
\* batch has one change at most, or a second one that makes it invalid.
RoutedEvents == {MCEvent("k1", v) : v \in 0 .. 2}
ValidChanges ==
  {c \in [transition : Transitions, key : {"k1"}, previous : RoutedEvents \cup {None},
          current : RoutedEvents \cup {None}] : ValidShape(c)}
InvalidChanges ==
  [transition : {"Confirmed"}, key : {"k1"}, previous : {MCEvent("k1", 1)},
   current : {MCEvent("k1", 0), None, Valueless}]
MCBatches ==
  [changes : {<< >>} \cup {<<c>> : c \in ValidChanges}
             \cup {<<c, d>> : c \in ValidChanges, d \in InvalidChanges},
   retired : SUBSET {"k1"}, external : SUBSET {"k1"}]
=============================================================================
