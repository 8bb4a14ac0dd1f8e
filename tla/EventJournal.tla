---------------------------- MODULE EventJournal ----------------------------
(***************************************************************************)
(* The event vocabulary of engine/rollback: the journal of predicted       *)
(* events, the outcomes authority reports for them, and the changes that a *)
(* timeline commit publishes to its consumers (timeline.hpp, types.hpp).   *)
(* Vectors of changes and keys are sets: a commit holds each key once.     *)
(***************************************************************************)
CONSTANTS
  Events,       \* Model::Event
  Keys,         \* Model::EventKey
  None,         \* std::nullopt, and a restore, step or refresh that failed
  EventKey(_)   \* Model::event_key(event)

Transitions ==
  {"FirstPredicted", "Revised", "Retracted", "Confirmed", "AuthorityOnly"}
Changes ==
  [transition : Transitions, key : Keys, previous : Events \cup {None},
   current : Events \cup {None}]
AuthorityEvents ==
  [key : Keys, confirmed : BOOLEAN, event : Events \cup {None}]

\* The keys of a set of events.
KeysOf(events) == {EventKey(e) : e \in events}

\* validate_authority_events: a confirmation carries its own event, a rejection
\* none, and outcomes that name the same key agree.
ValidAuthorityEvents(outcomes) ==
  /\ \A o \in outcomes :
       IF o.confirmed
       THEN o.event # None /\ EventKey(o.event) = o.key
       ELSE o.event = None
  /\ \A o, p \in outcomes : o.key = p.key => o = p

Change(transition, key, previous, current) ==
  [transition |-> transition, key |-> key, previous |-> previous,
   current |-> current]

\* resolve_event_changes fails when authority settles a key that the new
\* journal still predicts.
Conflicting(new, outcomes) ==
  \E o \in outcomes : o.key \in KeysOf(new)

\* Faulty variant: a key authority settled is also compared with the replay, so
\* a confirmed event is retracted as well.
EventChanges_SettledTwice(old, new, outcomes) ==
       {Change("Confirmed", o.key, CHOOSE e \in old : EventKey(e) = o.key, o.event) :
          o \in {x \in outcomes : x.confirmed /\ x.key \in KeysOf(old)}}
  \cup {Change("Retracted", EventKey(e), e, None) :
          e \in {x \in old : EventKey(x) \notin KeysOf(new)}}
  \cup {Change("FirstPredicted", EventKey(n), None, n) :
          n \in {x \in new : EventKey(x) \notin KeysOf(old)}}

\* resolve_event_changes: the transitions from the old journal to the new one
\* under the authority outcomes.
EventChanges(old, new, outcomes) ==
  LET settled == {o.key : o \in outcomes}
      confirmed == {p \in old \X outcomes :
                      EventKey(p[1]) = p[2].key /\ p[2].confirmed}
      revised == {p \in old \X new : /\ EventKey(p[1]) = EventKey(p[2])
                                     /\ EventKey(p[1]) \notin settled
                                     /\ p[1] # p[2]}
      retracted == {e \in old :
                      \/ \E o \in outcomes : o.key = EventKey(e) /\ ~o.confirmed
                      \/ EventKey(e) \notin settled \cup KeysOf(new)}
  IN   {Change("Confirmed", p[2].key, p[1], p[2].event) : p \in confirmed}
  \cup {Change("Revised", EventKey(p[1]), p[1], p[2]) : p \in revised}
  \cup {Change("Retracted", EventKey(e), e, None) : e \in retracted}
  \cup {Change("FirstPredicted", EventKey(n), None, n) :
          n \in {x \in new : EventKey(x) \notin KeysOf(old)}}
  \cup {Change("AuthorityOnly", o.key, None, o.event) :
          o \in {x \in outcomes : x.confirmed /\ x.key \notin KeysOf(old)}}

\* The keys resolve_event_changes reports as retired.
RetiredKeys(old, new, outcomes) ==
       {k \in KeysOf(old) : k \notin KeysOf(new) \/ \E o \in outcomes : o.key = k}
  \cup {o.key : o \in {x \in outcomes : x.confirmed}}
=============================================================================
