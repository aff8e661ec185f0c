---------------------------- MODULE LedgerReplay ----------------------------
(***************************************************************************)
(* What ledger_replay.cpp reconstructs from the verified records of an     *)
(* execution ledger.  ReplayRecord(state, event) is replay_record() for    *)
(* one record; a LedgerError leaves the state as it was with faulty set,   *)
(* and a faulty state never changes again, because replay_ledger() throws  *)
(* and hands out nothing.                                                  *)
(*                                                                         *)
(* One canonical instrument and one route are modelled, so the route       *)
(* tokens never conflict and one number is the position.  Update ids are   *)
(* unique by construction (they are derived from the intent id, or drawn   *)
(* from the paper broker's counter), so the evidence carries none.         *)
(***************************************************************************)
EXTENDS OrderLifecycle, Sequences

\* The map f in which key now stands for value.
Put(f, key, value) == [k \in DOMAIN f \cup {key} |-> IF k = key THEN value ELSE f[k]]

\* An event with no payload; NoId stands for an absent intent or order.
Event(type, intent, orderId) ==
  [type |-> type, intent |-> intent, order |-> orderId, content |-> NoId,
   side |-> "Buy", quantity |-> 0, price |-> 0, cumulative |-> Absent,
   sequence |-> 0, authoritative |-> "none"]

\* What each event type that moves an existing order says to its aggregate.
EvidenceKind ==
  [broker_acknowledged  |-> "BrokerAcknowledged",
   partially_filled     |-> "FillUpdate",
   filled               |-> "FillUpdate",
   modify_requested     |-> "ModifyRequested",
   modified             |-> "ModifyAccepted",
   modify_rejected      |-> "ModifyRejected",
   cancel_requested     |-> "CancelRequested",
   cancelled            |-> "CancelAccepted",
   cancel_rejected      |-> "CancelRejected",
   broker_rejected      |-> "BrokerRejected",
   ambiguous_submission |-> "SubmissionAmbiguous"]

\* The answers of the broker to an attempt of the session.
BrokerOutcomes ==
  {"broker_acknowledged", "modified", "modify_rejected", "cancelled",
   "cancel_rejected", "broker_rejected", "ambiguous_submission"}

\* The outcomes that leave the intent ambiguous.
AmbiguousOutcomes == {"cancel_rejected", "ambiguous_submission"}

AuthoritativeKind ==
  [working   |-> "ReconcileWorking",
   cancelled |-> "ReconcileCancelled",
   rejected  |-> "ReconcileRejected"]

EmptyReplay ==
  [intents |-> << >>, orders |-> << >>, position |-> 0, lastUpdate |-> 0,
   recon |-> FALSE, global |-> FALSE, stopped |-> FALSE, session |-> "none",
   faulty |-> FALSE]

Faulty(state) == [state EXCEPT !.faulty = TRUE]

-----------------------------------------------------------------------------
\* The evidence a record carries for its order.
EvidenceOf(event, kind) ==
  [kind |-> kind, id |-> NoId,
   brokerOrderId |-> event.order,
   cumulative |-> event.cumulative,
   quantity |-> event.quantity, price |-> event.price]

\* update_intent(): the disposition keeps the name of the event, also where the
\* code has a shorter one or, for a reconciled order, the name of its new state.
UpdateIntent(state, event, ambiguous) ==
  IF event.intent = NoId \/ state.faulty
  THEN state
  ELSE IF event.intent \notin DOMAIN state.intents
  THEN Faulty(state)
  ELSE [state EXCEPT
          !.intents[event.intent].disposition = event.type,
          !.intents[event.intent].order = IF event.order = NoId THEN @ ELSE event.order,
          !.intents[event.intent].ambiguous = ambiguous]

OnIntentReceived(state, event) ==
  IF event.intent \notin DOMAIN state.intents
  THEN [state EXCEPT !.intents =
          Put(@, event.intent, [content |-> event.content, disposition |-> "intent_received",
                                order |-> NoId, ambiguous |-> FALSE,
                                decided |-> FALSE, outcome |-> FALSE])]
  ELSE IF state.intents[event.intent].content # event.content
  THEN Faulty([state EXCEPT !.stopped = TRUE])
  ELSE state

\* A decision carries its own id and time, so that two decisions about one
\* intent never have the same serialization: the second one is a conflict.
OnRiskDecision(state, event) ==
  IF event.intent \notin DOMAIN state.intents \/ state.intents[event.intent].decided
  THEN Faulty(state)
  ELSE UpdateIntent([state EXCEPT !.intents[event.intent].decided = TRUE], event, FALSE)

OnOrderSubmitted(state, event) ==
  LET started == ApplyOrderUpdate(NewOrder(event.side, event.quantity, event.price),
                                  EvidenceOf(event, "SubmissionStarted"))
  IN  IF started.refused \/ event.order \in DOMAIN state.orders
      THEN Faulty(state)
      ELSE UpdateIntent([state EXCEPT !.orders = Put(@, event.order, started.order)],
                        event, FALSE)

\* apply(): the aggregate moves and the position follows, or replay fails.
Moved(state, event, result) ==
  IF result.refused
  THEN Faulty(state)
  ELSE [state EXCEPT !.orders[event.order] = result.order, !.position = @ + result.delta]

MoveOrder(state, event, kind) ==
  IF event.order \notin DOMAIN state.orders
  THEN Faulty(state)
  ELSE Moved(state, event, ApplyOrderUpdate(state.orders[event.order], EvidenceOf(event, kind)))

\* record_broker_outcome(): the first outcome of an intent is kept.
RecordOutcome(state, event) ==
  IF event.type \notin BrokerOutcomes \/ state.faulty
  THEN state
  ELSE [state EXCEPT !.intents[event.intent].outcome = TRUE,
                     !.recon = @ \/ event.type \in AmbiguousOutcomes]

OnOrderEvidence(state, event) ==
  RecordOutcome(UpdateIntent(MoveOrder(state, event, EvidenceKind[event.type]),
                             event, event.type \in AmbiguousOutcomes), event)

OnReconciliationRequired(state, event) ==
  UpdateIntent([state EXCEPT !.recon = TRUE,
                             !.global = @ \/ event.intent = NoId], event, TRUE)

\* The flag outlives what was settled as long as somebody still needs it.
StillReconciling(state, global) ==
  [state EXCEPT !.global = global,
                !.recon = global \/ \E i \in DOMAIN state.intents : state.intents[i].ambiguous]

OnReconciliationCompleted(state, event) ==
  StillReconciling(
    IF event.order = NoId
    THEN state
    ELSE UpdateIntent(MoveOrder(state, event, AuthoritativeKind[event.authoritative]),
                      event, FALSE),
    state.global /\ event.intent # NoId)

\* record_broker_source(): the sequence of the broker's updates only grows.
SourceFault(state, event) == event.sequence # 0 /\ event.sequence <= state.lastUpdate

RecordSource(state, event) ==
  IF event.sequence = 0 THEN state ELSE [state EXCEPT !.lastUpdate = event.sequence]

ReplayEvent(state, event) ==
  CASE event.type = "intent_received"          -> OnIntentReceived(state, event)
    [] event.type \in {"mapping_validated", "mapping_refused"} -> UpdateIntent(state, event, FALSE)
    [] event.type \in {"risk_approved", "risk_rejected"} -> OnRiskDecision(state, event)
    [] event.type = "submission_started"       -> OnOrderSubmitted(state, event)
    [] event.type \in DOMAIN EvidenceKind      -> OnOrderEvidence(state, event)
    [] event.type = "reconciliation_required"  -> OnReconciliationRequired(state, event)
    [] event.type = "reconciliation_completed" -> OnReconciliationCompleted(state, event)
    [] event.type = "safety_stop"              -> [state EXCEPT !.stopped = TRUE]
    [] event.type \in {"session_started", "session_stopping", "session_stopped"} ->
         [state EXCEPT !.session = event.type]
    [] event.type = "ledger_repair_recorded"   -> [state EXCEPT !.recon = TRUE, !.global = TRUE]
    [] OTHER                                   -> state

ReplayRecord(state, event) ==
  IF state.faulty
  THEN state
  ELSE IF SourceFault(state, event)
  THEN Faulty(state)
  ELSE ReplayEvent(RecordSource(state, event), event)

\* ReplayRecord(before, event), for a state that TLC evaluates only once.
ReplayedRecord(before, event) ==
  CHOOSE after \in {ReplayRecord(state, event) : state \in {before}} : TRUE

\* replay_ledger(), continued from what is already replayed.
Replay(state, events) ==
  LET replayed[n \in 0 .. Len(events)] ==
        IF n = 0 THEN state ELSE ReplayedRecord(replayed[n - 1], events[n])
  IN  replayed[Len(events)]
=============================================================================
