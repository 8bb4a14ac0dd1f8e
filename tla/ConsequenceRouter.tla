-------------------------- MODULE ConsequenceRouter --------------------------
(***************************************************************************)
(* StaticConsequenceRouter (consequence_router.hpp): turns the changes of   *)
(* event batches into callbacks of non-rewindable handlers, and keeps a     *)
(* ledger of what was delivered until both replay and the outside have      *)
(* retired the key.                                                         *)
(*                                                                          *)
(* Handlers and the ledger look at a key's own changes only, so the ledger  *)
(* is one entry per key and a batch is folded key by key.  A handler acts   *)
(* on one alternative of the event variant, which is all it sees here of an *)
(* event.  Statistics and failure reports are left out; a callback that     *)
(* fails is modelled.                                                       *)
(***************************************************************************)
EXTENDS Integers, Sequences, EventJournal

CONSTANTS
  PredictOnce,        \* handlers by Handler::policy
  ConfirmOnce,
  PredictCancelable,
  Subscription,       \* handler |-> the alternative it declares
  Alternative(_),     \* event |-> event.index()
  Valueless,          \* an event that is valueless_by_exception()
  Batches             \* the batches a caller may pass

Handlers == PredictOnce \cup ConfirmOnce \cup PredictCancelable
Tokens == {"absent", "empty", "held"}

ASSUME HandlerAssumption ==
  /\ Subscription \in [Handlers -> {Alternative(e) : e \in Events}]
  /\ PredictOnce \cap ConfirmOnce = {}
  /\ (PredictOnce \cup ConfirmOnce) \cap PredictCancelable = {}
  /\ None \notin Events

\* What a caller may pass: changes in any order, of any shape.
ASSUME BatchAssumption ==
  \A batch \in Batches :
    batch.changes \in
      Seq([transition : Transitions, key : Keys,
           previous : Events \cup {None, Valueless},
           current : Events \cup {None, Valueless}])

Entries ==
  [delivered : SUBSET (PredictOnce \cup ConfirmOnce),
   token : [PredictCancelable -> Tokens],
   replayRetired : BOOLEAN, externallyRetired : BOOLEAN]
NewEntry ==
  [delivered |-> {}, token |-> [h \in PredictCancelable |-> "absent"],
   replayRetired |-> FALSE, externallyRetired |-> FALSE]

VARIABLES
  ledger,   \* key |-> storage_ of every handler and the two evidence sets
  fired,    \* callbacks of the once-handlers since the key was last pruned
  open      \* successful on_predict calls without their on_cancel or on_confirm

routerVars == <<ledger, fired, open>>

-----------------------------------------------------------------------------
(* validate_change.                                                        *)

ValidShape(c) ==
  /\ Valueless \notin {c.previous, c.current}
  /\ CASE c.transition \in {"FirstPredicted", "AuthorityOnly"} ->
            c.previous = None /\ c.current # None
       [] c.transition \in {"Revised", "Confirmed"} ->
            c.previous # None /\ c.current # None
       [] c.transition = "Retracted" ->
            c.previous # None /\ c.current = None
  /\ c.previous # None /\ c.current # None
       => Alternative(c.previous) = Alternative(c.current)

-----------------------------------------------------------------------------
(* Dispatch of one change to the handlers.                                 *)

\* process_handler: the handler subscribes to the change's alternative.
Concerns(h, c) ==
  Subscription[h] = Alternative(IF c.current # None THEN c.current ELSE c.previous)

\* process_predict_once and process_confirm_once call their handler unless the
\* ledger holds the key; the key stays even when the callback fails.
Triggers(h) ==
  IF h \in PredictOnce THEN {"FirstPredicted", "Confirmed", "AuthorityOnly"}
  ELSE {"Confirmed", "AuthorityOnly"}

OnceCalled(entry, c) ==
  {h \in PredictOnce \cup ConfirmOnce :
     Concerns(h, c) /\ c.transition \in Triggers(h) /\ h \notin entry.delivered}

\* Faulty variant: a failed on_cancel keeps the token.
NextToken_KeepsUncancelled(token, transition, succeeds) ==
  CASE transition = "FirstPredicted" ->
         IF token # "absent" THEN token ELSE IF succeeds THEN "held" ELSE "empty"
    [] transition = "Retracted" ->
         IF token = "held" /\ ~succeeds THEN token ELSE "absent"
    [] transition \in {"Confirmed", "AuthorityOnly"} -> "empty"
    [] OTHER -> token

\* process_predict_cancelable and activate: the token after a change; succeeds
\* is what on_predict returns.  A confirmation activates a missing entry first
\* and leaves it without a token either way.
NextToken(token, transition, succeeds) ==
  CASE transition = "FirstPredicted" ->
         IF token # "absent" THEN token ELSE IF succeeds THEN "held" ELSE "empty"
    [] transition = "Retracted" -> "absent"
    [] transition \in {"Confirmed", "AuthorityOnly"} -> "empty"
    [] OTHER -> token

\* The callbacks of a cancelable handler that open a consequence (on_predict
\* returned a token) and that finish one (on_cancel, on_confirm).
Opens(token, transition, succeeds) ==
  token = "absent" /\ succeeds
    /\ transition \in {"FirstPredicted", "Confirmed", "AuthorityOnly"}
Finishes(token, transition, succeeds) ==
  \/ token = "held" /\ transition \in {"Retracted", "Confirmed", "AuthorityOnly"}
  \/ token = "absent" /\ succeeds /\ transition \in {"Confirmed", "AuthorityOnly"}

-----------------------------------------------------------------------------
(* Pruning.                                                                *)

\* try_prune: both kinds of evidence, and no handler holds a token.
Prunable(entry) ==
  /\ entry.replayRetired /\ entry.externallyRetired
  /\ \A h \in PredictCancelable : entry.token[h] # "held"

\* An entry with its ghost counters, and what pruning makes of it.
Booked(entry, firedCount, openCount) ==
  [entry |-> entry, fired |-> firedCount, open |-> openCount]
Prune(b) ==
  IF Prunable(b.entry)
  THEN Booked(NewEntry, [h \in DOMAIN b.fired |-> 0], b.open)
  ELSE b

\* process_change: the handlers' part of a change; ok is the set of cancelable
\* handlers whose callback succeeds.
Dispatched(b, c, ok) ==
  LET called == OnceCalled(b.entry, c)
      token(h) == b.entry.token[h]
      concerned == {h \in PredictCancelable : Concerns(h, c)}
  IN Booked([b.entry EXCEPT
               !.delivered = @ \cup called,
               !.token = [h \in PredictCancelable |->
                            IF h \in concerned
                            THEN NextToken(@[h], c.transition, h \in ok)
                            ELSE @[h]]],
            [h \in DOMAIN b.fired |-> b.fired[h] + (IF h \in called THEN 1 ELSE 0)],
            [h \in PredictCancelable |->
               b.open[h]
               + (IF h \in concerned /\ Opens(token(h), c.transition, h \in ok)
                  THEN 1 ELSE 0)
               - (IF h \in concerned /\ Finishes(token(h), c.transition, h \in ok)
                  THEN 1 ELSE 0)])

\* One change of the batch: every handler, then try_prune.
Dispatch(b, c, ok) == Prune(Dispatched(b, c, ok))

\* The evidence a batch brings for a key, replay first, each followed by
\* try_prune.
Retire(b, replay, external) ==
  LET replayed == IF replay THEN Prune([b EXCEPT !.entry.replayRetired = TRUE]) ELSE b
  IN IF external THEN Prune([replayed EXCEPT !.entry.externallyRetired = TRUE])
     ELSE replayed

-----------------------------------------------------------------------------
(* consume.                                                                *)

\* The entry of key k after each of the batch's changes; ok[i] are the
\* cancelable handlers whose callbacks succeed for change i.
AfterChanges(k, batch, ok) ==
  LET after[i \in 0 .. Len(batch.changes)] ==
        IF i = 0 THEN Booked(ledger[k], fired[k], open[k])
        ELSE IF batch.changes[i].key = k
             THEN Dispatch(after[i - 1], batch.changes[i], ok[i])
             ELSE after[i - 1]
  IN after

\* The entry of key k after the batch: its changes, then the evidence.
Consumed(k, batch, ok) ==
  Retire(AfterChanges(k, batch, ok)[Len(batch.changes)],
         k \in batch.retired, k \in batch.external)

\* A batch with an invalid change is refused before any handler runs.
Accepts(batch) == \A i \in DOMAIN batch.changes : ValidShape(batch.changes[i])

Consume(batch, ok) ==
  \/ /\ Accepts(batch)
     /\ LET after == [k \in Keys |-> Consumed(k, batch, ok)]
        IN /\ ledger' = [k \in Keys |-> after[k].entry]
           /\ fired' = [k \in Keys |-> after[k].fired]
           /\ open' = [k \in Keys |-> after[k].open]
  \/ ~Accepts(batch) /\ UNCHANGED routerVars

RouterInit ==
  /\ ledger = [k \in Keys |-> NewEntry]
  /\ fired = [k \in Keys |-> [h \in PredictOnce \cup ConfirmOnce |-> 0]]
  /\ open = [k \in Keys |-> [h \in PredictCancelable |-> 0]]

\* What a once-handler returns only reaches the report, so the outcomes that
\* matter are those of on_predict.
RouterNext ==
  \E batch \in Batches :
    \E ok \in [DOMAIN batch.changes -> SUBSET PredictCancelable] :
      Consume(batch, ok)

RouterSpec == RouterInit /\ [][RouterNext]_routerVars

-----------------------------------------------------------------------------
(* Properties.                                                             *)

\* The ledger and the ghost counters have their types.
RouterTypeOK ==
  /\ ledger \in [Keys -> Entries]
  /\ fired \in [Keys -> [PredictOnce \cup ConfirmOnce -> Nat]]
  /\ open \in [Keys -> [PredictCancelable -> Nat]]

\* Every consequence a cancelable handler opened is finished by exactly one
\* on_cancel or on_confirm, and the router holds its token until then: neither
\* failed callbacks, pruning nor repeated keys leak or finish one twice.
TokensBalanced ==
  \A k \in Keys, h \in PredictCancelable :
    open[k][h] = IF ledger[k].token[h] = "held" THEN 1 ELSE 0

\* Between two prunings of a key a once-handler is called at most once, and the
\* ledger remembers it, whatever order predictions, retractions, confirmations
\* and retirements arrive in.
OnceHandlersFireOnce ==
  \A k \in Keys, h \in PredictOnce \cup ConfirmOnce :
    fired[k][h] = IF h \in ledger[k].delivered THEN 1 ELSE 0

\* No consequence runs twice, leaks or is lost, whichever policy its handler has
\* and whichever of its callbacks fail.
DeliveriesBalanced == TokensBalanced /\ OnceHandlersFireOnce

\* An entry that both replay and the outside have retired is gone unless a
\* token is still held, so retired keys do not pile up in the ledger.
RetiredEntriesPruned ==
  \A k \in Keys :
    ledger[k].replayRetired /\ ledger[k].externallyRetired
      => \E h \in PredictCancelable : ledger[k].token[h] = "held"

\* The ledger has its type and forgets what is retired on both sides: its size
\* follows the keys that can still change, however long the session runs.
LedgerSound == RouterTypeOK /\ RetiredEntriesPruned
=============================================================================
