------------------------ MODULE ConsequencePipeline ------------------------
(***************************************************************************)
(* From prediction to pixels for one event key: the client runtime          *)
(* (client_runtime.cpp) turns timeline commits and receipts into event      *)
(* batches with retirement evidence, the app drains them once a frame into  *)
(* RollbackConsequencePresentation (rollback_consequences.cpp), whose router *)
(* dispatches them to the game's six handlers, which keep their cues in a   *)
(* CueStore.                                                               *)
(*                                                                         *)
(* The key names an absorbed victim, a consumed food or a split command and *)
(* no tick, so replays may move an occurrence, drop it and predict it again; *)
(* once the victim or food is gone from authority, or the command is        *)
(* acknowledged, nothing predicts it any more.  What a replay predicts, the *)
(* commands it retains and the snapshots that arrive are free; receipts of  *)
(* other keys are only a snapshot that is `full'.  A merge has no handler.  *)
(***************************************************************************)
EXTENDS ConsequenceRouter, SequencesExt

CONSTANTS
  Key,             \* the event key
  Duration,        \* of a cue, in frames
  Cancellation,    \* fade-out of a cancelled cue, in frames
  BatchCapacity,   \* kPredictionEventBatchCapacity
  MaxServerTick, MaxHead, MaxToken    \* bounds

\* The event alternatives that have handlers, and an occurrence of one.
Kinds == {"split", "consumed", "absorbed"}
NoTick == 0
Event(kind, tick) == [tick |-> tick, kind |-> kind]

\* A handler by the event it declares and its policy.  What the callbacks of a
\* policy do to the store is the same for all: Emitted, Cued, Announced.
Handler(event, policy) == [event |-> event, policy |-> policy]
SplitFlash          == Handler("split", "PredictOnce")
SplitLaunch         == Handler("split", "PredictCancelable")
FoodPop             == Handler("consumed", "PredictCancelable")
ConsumeFlash        == Handler("absorbed", "PredictOnce")
ConsumeCollapse     == Handler("absorbed", "PredictCancelable")
ConfirmedAbsorption == Handler("absorbed", "ConfirmOnce")

\* The router's handlers.
Router == {SplitFlash, SplitLaunch, FoodPop, ConsumeFlash, ConsumeCollapse,
           ConfirmedAbsorption}
ByPolicy(policy) == {h \in Router : h.policy = policy}

ASSUME PipelineAssumption ==
  /\ Keys = {Key}
  /\ PredictOnce = ByPolicy("PredictOnce") /\ ConfirmOnce = ByPolicy("ConfirmOnce")
  /\ PredictCancelable = ByPolicy("PredictCancelable")
  /\ Subscription = [h \in Router |-> h.event]
  /\ {Duration, Cancellation, BatchCapacity} \subseteq Nat \ {0}
  /\ {MaxServerTick, MaxHead, MaxToken} \subseteq Nat
  /\ Valueless \notin Events \cup {None}
  /\ \A k \in Kinds, tick \in 1 .. MaxHead :
       /\ Event(k, tick) \in Events /\ Alternative(Event(k, tick)) = k
       /\ EventKey(Event(k, tick)) = Key

VARIABLES
  kind,                  \* the alternative of the event that the key names
  serverTick, occurred,  \* the server's tick, and the tick the event happened
  authTick, predTick,    \* the timeline's authoritative and predicted tick
  predicted,             \* the tick at which its history predicts the key
  spectating,            \* authority ended the life of the player
  receipt,               \* "none", "accepted" by the inbox, or "retired"
  pending,               \* pending_consequence_retirements_[key]
  batches,               \* prediction_event_batches_
  queueFull,             \* PredictionEventQueueFull
  records, nextToken, cue, stingers,
                         \* CueStore: records_, next_token_, the token the
                         \* router holds, stinger_sequence_
  flashes, closings      \* ghosts: on_first calls, external retirements drained

authorityVars == <<kind, serverTick, occurred>>
runtimeVars ==
  <<authTick, predTick, predicted, spectating, receipt, pending, batches, queueFull>>
storeVars == <<records, nextToken, cue, stingers, flashes, closings, routerVars>>
pipelineVars == <<authorityVars, runtimeVars, storeVars>>

-----------------------------------------------------------------------------
(* The runtime: commits, evidence and the queue of batches.                *)

Occurrence(tick) == Event(kind, tick)
Journalled(tick) == IF tick = NoTick THEN {} ELSE {Occurrence(tick)}

\* The batch of a commit that replaces the journal old by new.
Batch(old, new, outcomes) ==
  [changes |-> SetToSeq(EventChanges(Journalled(old), Journalled(new), outcomes)),
   retired |-> RetiredKeys(Journalled(old), Journalled(new), outcomes),
   external |-> {}]

\* resolve_authority_only_events: without a timeline, what authority settled is
\* the batch.
AuthorityOnlyBatch(outcomes) ==
  [changes |-> SetToSeq({Change("AuthorityOnly", o.key, None, o.event) :
                           o \in {x \in outcomes : x.confirmed}}),
   retired |-> {o.key : o \in outcomes},
   external |-> {}]

\* append_observable_event_batch: a batch that says nothing is left out.
Observable(batch) ==
  batch.changes # << >> \/ batch.retired # {} \/ batch.external # {}
Appended(list, batch) == IF Observable(batch) THEN Append(list, batch) ELSE list

\* The occurrence a change is about, as remember_replay_retirements sees it.
ChangeTick(c) == IF c.current # None THEN c.current.tick ELSE c.previous.tick

\* remember_replay_retirements: the last retired occurrence of the key.
Remembered(tick, committed) ==
  LET about == {i \in DOMAIN committed : Key \in committed[i].retired
                                           /\ committed[i].changes # << >>}
  IN IF about = {} THEN tick ELSE ChangeTick(committed[Max(about)].changes[1])

\* Faulty variant: a full snapshot counts as complete.
Proven_Full(echo, covered, inboxed, tick) ==
  echo \/ (tick # NoTick /\ ~inboxed)

\* attach_external_retirement_evidence: the server retired the key's receipt, or
\* a complete snapshot covers the retired occurrence and holds no receipt of it.
\* covered is NoTick when no snapshot came or it was full.
Proven(echo, covered, inboxed, tick) ==
  echo \/ (tick # NoTick /\ tick <= covered /\ ~inboxed)

\* Faulty variant: the proof is attached to a batch only if there is one.
Attached_ToExisting(committed) ==
  IF committed = << >> THEN << >>
  ELSE [committed EXCEPT ![Len(committed)].external = {Key}]

\* The proof goes with the last batch, or makes one of its own.
Attached(committed) ==
  IF committed = << >>
  THEN <<[changes |-> << >>, retired |-> {}, external |-> {Key}]>>
  ELSE [committed EXCEPT ![Len(committed)].external = {Key}]

\* The end of install_authority: evidence, the queue's limit, publication.
Publish(committed, inbox, echo, covered) ==
  LET tick == Remembered(pending, committed)
      proven == Proven(echo, covered, inbox = "accepted", tick)
      published == IF proven THEN Attached(committed) ELSE committed
      fits == Len(batches) + Len(published) <= BatchCapacity
  IN /\ batches' = IF fits THEN batches \o published ELSE batches
     /\ pending' = IF ~fits THEN pending ELSE IF proven THEN NoTick ELSE tick
     /\ queueFull' = ~fits

\* The checkpoint of tick t is past the event: no victim, food or command is left.
Gone(t) == occurred \in 1 .. t

\* The ticks at which the commands after checkpoint t may predict the key.
PredictedTicks(t, head) == {NoTick} \cup (IF Gone(t) THEN {} ELSE t + 1 .. head)

\* authority_events: what the receipts that a snapshot adds to the inbox confirm.
ReceiptEvents(inbox) ==
  IF receipt = "none" /\ inbox = "accepted"
  THEN {[key |-> Key, confirmed |-> TRUE, event |-> Occurrence(occurred)]} ELSE {}

\* install_authority for a snapshot of tick t.  A reconcile, refresh or rebase
\* replays the retained commands up to head; a resync drops them; a terminal
\* snapshot resyncs for good.  Buffered commands are then stepped in commits of
\* their own.  Nothing is committed when the queue is full.
Install(t, inbox, echo, covered, replayed, buffered, head, terminal) ==
  LET outcomes == ReceiptEvents(inbox)
      committed ==
        IF spectating THEN Appended(<< >>, AuthorityOnlyBatch(outcomes))
        ELSE Appended(Appended(<< >>, Batch(predicted, replayed, outcomes)),
                      Batch(replayed, buffered, {}))
  IN /\ Publish(committed, inbox, echo, covered)
     /\ IF queueFull'
        THEN UNCHANGED <<authTick, predTick, predicted, spectating, receipt>>
        ELSE /\ authTick' = t /\ predTick' = head
             /\ predicted' = buffered
             /\ spectating' = terminal /\ receipt' = inbox
     /\ UNCHANGED <<authorityVars, storeVars>>

\* What replay and the buffered commands predict: a resync or a terminal
\* snapshot starts from an empty journal.
Replays(t, head, resync, terminal) ==
  {r \in PredictedTicks(t, head) \X PredictedTicks(t, head) :
     /\ resync \/ terminal => r[1] = NoTick
     /\ terminal => r[2] = NoTick
     /\ r[1] # NoTick => r[2] = r[1]}

\* process_snapshot with AuthorityReceiptInbox::apply.  The snapshot carries the
\* receipt of an occurrence it covers unless older ones fill it, and echoes the
\* retirement of a receipt the client published.
ReceiveSnapshot ==
  \E t \in authTick + 1 .. serverTick, full \in BOOLEAN, resync, terminal \in BOOLEAN :
  \E head \in t .. (IF t + predTick - authTick < MaxHead THEN t + predTick - authTick
                    ELSE MaxHead) :
  \E inbox \in CASE receipt = "accepted" -> {"accepted", "retired"}
                 [] receipt = "none" /\ Gone(t) -> IF full THEN {"none", "accepted"}
                                                   ELSE {"accepted"}
                 [] OTHER -> {receipt} :
  \E r \in Replays(t, head, resync, terminal) :
    /\ ~queueFull /\ (spectating => terminal) /\ (terminal => ~resync /\ head = t)
    /\ nextToken < MaxToken
    /\ Install(t, inbox, receipt = "accepted" /\ inbox = "retired",
               IF full THEN NoTick ELSE t, r[1], r[2], head, terminal)

\* ensure_prediction_scope and hard_resync install the known authority again,
\* without a snapshot's evidence.
Reinstall ==
  \E resync \in BOOLEAN, head \in authTick .. predTick :
  \E r \in Replays(authTick, head, resync, FALSE) :
    /\ ~queueFull /\ ~spectating /\ authTick > 0 /\ nextToken < MaxToken
    /\ Install(authTick, receipt, FALSE, NoTick, r[1], r[2], head, FALSE)

\* submit_input of a playing client: a full queue ends the client, otherwise one
\* more tick is predicted.
Advance ==
  \E next \in {predicted} \cup (IF predicted = NoTick THEN PredictedTicks(authTick, predTick + 1)
                                                      \cap {predTick + 1} ELSE {}) :
    /\ ~queueFull /\ ~spectating /\ authTick > 0 /\ predTick < MaxHead
    /\ nextToken < MaxToken
    /\ queueFull' = (Len(batches) >= BatchCapacity)
    /\ IF queueFull' THEN UNCHANGED <<predTick, predicted, batches>>
       ELSE /\ predTick' = predTick + 1 /\ predicted' = next
            /\ batches' = Appended(batches, Batch(predicted, next, {}))
    /\ UNCHANGED <<authTick, spectating, receipt, pending, authorityVars, storeVars>>

\* The server steps; the event may happen once.
ServerTicks ==
  /\ serverTick < MaxServerTick
  /\ serverTick' = serverTick + 1
  /\ occurred' \in {occurred} \cup (IF occurred = NoTick THEN {serverTick + 1} ELSE {})
  /\ UNCHANGED <<kind, runtimeVars, storeVars>>

-----------------------------------------------------------------------------
(* The cue store.  Its records are a set: each has its own token.          *)

\* emit and activate.
Record(token, oneShot) ==
  [token |-> token, oneShot |-> oneShot, canceled |-> FALSE, terminal |-> oneShot,
   age |-> 0, canceledFor |-> 0]
Pushed(st, oneShot) ==
  [st EXCEPT !.records = @ \cup {Record(st.next, oneShot)}, !.next = @ + 1]

\* cancel and confirm of the record the token names, if it is still there.
Updated(st, canceled) ==
  [st EXCEPT !.records =
     {IF r.token # st.cue THEN r
      ELSE [r EXCEPT !.terminal = TRUE, !.canceled = @ \/ canceled] : r \in @}]

\* on_first of a flash handler.
Emitted(st, called) ==
  IF called \cap PredictOnce # {} THEN [Pushed(st, TRUE) EXCEPT !.flashes = @ + 1] ELSE st

\* The handler of the key that keeps a token.
CueHandler == CHOOSE h \in PredictCancelable : h.event = kind

\* Its callbacks: on_predict keeps the new token, on_cancel and on_confirm end
\* the cue.  (on_revise only moves it.)
Cued(st, token, transition) ==
  LET opened == IF Opens(token, transition, TRUE)
                THEN [Pushed(st, FALSE) EXCEPT !.cue = st.next] ELSE st
  IN IF Finishes(token, transition, TRUE)
     THEN Updated(opened, transition = "Retracted") ELSE opened

\* on_confirmed: confirm_absorption.
Announced(st, called) ==
  IF ConfirmedAbsorption \in called
  THEN [Pushed(st, TRUE) EXCEPT !.stingers = @ + 1] ELSE st

\* The handlers in the order of the router's list, then its own bookkeeping.
Delivered(st, c) ==
  LET called == OnceCalled(st.book.entry, c)
      token == st.book.entry.token[CueHandler]
      shown == Announced(Cued(Emitted(st, called), token, c.transition), called)
  IN [shown EXCEPT !.book = Dispatch(st.book, c, {CueHandler})]

\* Impl::consume of one batch, which holds at most one change of the key.
ConsumedBatch(st, batch) ==
  LET after == IF batch.changes = << >> THEN st ELSE Delivered(st, batch.changes[1])
  IN [after EXCEPT !.book = Retire(@, Key \in batch.retired, Key \in batch.external),
                   !.closings = @ + (IF Key \in batch.external THEN 1 ELSE 0)]

\* Faulty variant: a cue that ran its time goes even while its token is held.
Erased_Held(record) ==
  record.age >= Duration \/ (record.canceled /\ record.canceledFor >= Cancellation)

\* CueStore::append: what the erase at its end removes.
Erased(record) ==
  LET expired == record.age >= Duration
  IN IF record.oneShot THEN expired
     ELSE record.terminal
          /\ (expired \/ (record.canceled /\ record.canceledFor >= Cancellation))

\* One frame later, up to the time at which nothing changes any more.
Older(record) ==
  LET Later(n, limit) == IF n < limit THEN n + 1 ELSE limit
  IN [record EXCEPT !.age = Later(@, Duration),
                    !.canceledFor = IF record.canceled THEN Later(@, Cancellation) ELSE @]

\* The store and the key's ledger entry one frame later.
Aged ==
  [book |-> Booked(ledger[Key], fired[Key], open[Key]),
   records |-> {Older(r) : r \in records}, next |-> nextToken, cue |-> cue,
   stingers |-> stingers, flashes |-> flashes, closings |-> closings]

\* drain_consequence_batches: the store after each of the queued batches.
Drains ==
  LET after[i \in 0 .. Len(batches)] ==
        IF i = 0 THEN Aged ELSE ConsumedBatch(after[i - 1], batches[i])
  IN after

\* A frame of the app: drain_consequence_batches, then append_cues.
Frame ==
  LET st == Drains[Len(batches)]
  IN /\ batches # << >> \/ records # {}
     /\ ledger' = [k \in Keys |-> st.book.entry]
     /\ fired' = [k \in Keys |-> st.book.fired]
     /\ open' = [k \in Keys |-> st.book.open]
     /\ records' = {r \in st.records : ~Erased(r)}
     /\ nextToken' = st.next /\ cue' = st.cue /\ stingers' = st.stingers
     /\ flashes' = st.flashes /\ closings' = st.closings
     /\ batches' = << >>
     /\ UNCHANGED <<authTick, predTick, predicted, spectating, receipt, pending, queueFull,
                    authorityVars>>

-----------------------------------------------------------------------------
PipelineInit ==
  /\ kind \in Kinds /\ serverTick = 1 /\ occurred = NoTick
  /\ authTick = 0 /\ predTick = 0 /\ predicted = NoTick /\ spectating = FALSE
  /\ receipt = "none" /\ pending = NoTick /\ batches = << >> /\ queueFull = FALSE
  /\ records = {} /\ nextToken = 1 /\ cue = 0 /\ stingers = 0
  /\ flashes = 0 /\ closings = 0
  /\ RouterInit

PipelineNext == ServerTicks \/ ReceiveSnapshot \/ Reinstall \/ Advance \/ Frame
PipelineSpec == PipelineInit /\ [][PipelineNext]_pipelineVars

-----------------------------------------------------------------------------
(* Properties.                                                             *)

Held == ledger[Key].token[CueHandler] = "held"
Drained == batches = << >>

\* Types of the runtime's and the store's fields, and every queued batch is one
\* the router accepts.
PipelineTypeOK ==
  /\ {occurred, authTick} \subseteq 0 .. serverTick /\ predTick \in authTick .. MaxHead
  /\ {predicted, pending} \subseteq 0 .. MaxHead
  /\ predicted # NoTick => predicted \in authTick + 1 .. predTick
  /\ receipt \in {"none", "accepted", "retired"}
  /\ ledger \in [Keys -> Entries]
  /\ \A i \in DOMAIN batches : Accepts(batches[i])

\* A cue that may still be cancelled or confirmed is in the store exactly while
\* the router holds its token, and after every drained frame exactly while the
\* timeline still predicts the event: none outlives its prediction and
\* none is erased under a held token.
CuesFollowPrediction ==
  /\ \A r \in records : ~r.terminal <=> Held /\ r.token = cue
  /\ Held => \E r \in records : r.token = cue
  /\ Drained /\ ~queueFull => (Held <=> predicted # NoTick)

\* The pipeline's fields have their types, every queued batch is one the router
\* accepts, and the cues on the screen are the predictions of the timeline.
CuesSound == PipelineTypeOK /\ CuesFollowPrediction

\* The defeat or kill notice is shown exactly once for an absorption the server
\* reported and never for one that was only predicted, whatever the ledger
\* pruned in between.
NoticeOncePerAbsorption ==
  /\ stingers <= 1
  /\ Drained => stingers = IF receipt = "none" \/ kind # "absorbed" THEN 0 ELSE 1

\* The flash is repeated only after an external proof made the ledger forget the
\* key, and no proof is given for an event that happened and whose receipt
\* is still to come, even when other receipts crowd it out of a snapshot.
FlashesJustified ==
  [][/\ flashes' <= 1 + closings'
     /\ Len(batches') > Len(batches) /\ Key \in Last(batches').external
          /\ occurred' \in 1 .. authTick'
        => receipt' # "none"]_pipelineVars

\* No tombstone is stranded: while the ledger knows the key, the timeline still
\* predicts it, or its receipt or its pending retirement will bring the proof.
TombstonesRetire ==
  Drained /\ ledger[Key] # NewEntry
    => predicted # NoTick \/ pending # NoTick \/ receipt = "accepted"

\* What authority decides is settled once and for all: the notice comes exactly
\* once, and what the ledger remembers of the key will be forgotten.
EvidenceSettles == NoticeOncePerAbsorption /\ TombstonesRetire

=============================================================================
