-------------------------- MODULE LiveOrderReducer --------------------------
(***************************************************************************)
(* The pure, broker-neutral reducer of live orders                         *)
(* (tx_trade/orders/live_state_machine.py) over the contracts of           *)
(* tx_trade/orders/live_contracts.py.                                      *)
(*                                                                         *)
(* Decimal quantities and prices are natural numbers and times are natural *)
(* numbers; None is 0 in every optional field.  The average fill price is  *)
(* reduced to whether it is present.  A semantic fingerprint is the record *)
(* of exactly the fields that the code hashes.                             *)
(***************************************************************************)
EXTENDS Integers, FiniteSets

CONSTANTS
    CommandIds,     \* client_command_id values
    NoId            \* the absent identifier

ASSUME AbsentIdAssumption == NoId \notin CommandIds

None == 0

States == {"created", "validated", "submitting", "accepted", "partially_filled",
           "filled", "rejected", "cancel_pending", "cancelled",
           "submission_unknown", "reconciling"}

TerminalStates == {"filled", "rejected", "cancelled"}

\* States in which the order must keep the command whose outcome is open.
BindingStates == {"submitting", "submission_unknown", "reconciling", "cancel_pending"}

CommandKinds == {"new", "cancel", "amend", "decrease"}

DispatchStates == {"succeeded", "failed", "unknown"}

WorkingChanges == {"price_amended", "quantity_decreased", "price_and_quantity_amended"}

OrderEventTypes ==
    {"new_accepted", "new_rejected", "cancel_pending", "cancelled", "cancel_rejected",
     "dynamic_cancelled", "amend_rejected", "outcome_unknown"} \cup WorkingChanges

NoCommand == [id |-> NoId, kind |-> "none", price |-> None,
              expectedTotal |-> None, newTotal |-> None, boundAt |-> None]

\* PendingCommandBinding: the exact command, of which each kind uses its own fields.
Commands ==
    {c \in [id : CommandIds, kind : CommandKinds, price : Nat,
            expectedTotal : Nat, newTotal : Nat, boundAt : Nat] :
        /\ c.kind = "amend" <=> c.price > 0
        /\ c.kind = "decrease" => c.newTotal > 0 /\ c.newTotal < c.expectedTotal
        /\ c.kind # "decrease" => c.newTotal = None /\ c.expectedTotal = None}

Intents == [quantity : Nat \ {0}, limit : Nat]     \* limit = None: a market order

Orders == [intent : Intents, state : States, total : Int, filled : Int,
           remaining : Int, hasAverage : BOOLEAN, limit : Nat, version : Nat,
           updatedAt : Nat, acceptedAt : Nat, pending : Commands \cup {NoCommand}]

-----------------------------------------------------------------------------
(* LiveOrder.__post_init__: the contract every constructed order must meet; *)
(* a violated conjunct is a ValueError out of the reducer.                  *)

QuantitiesAddUp(o) ==
    /\ o.total > 0 /\ o.filled >= 0 /\ o.remaining >= 0
    /\ o.filled + o.remaining = o.total
    /\ o.total <= o.intent.quantity
    /\ o.hasAverage <=> o.filled > 0
    /\ o.limit = None <=> o.intent.limit = None

AcceptanceRecorded(o) ==
    /\ o.state \in {"accepted", "partially_filled", "filled", "cancel_pending", "cancelled"}
          => o.acceptedAt # None
    /\ o.acceptedAt <= o.updatedAt

BindingFitsState(o) ==
    /\ o.pending.boundAt <= o.updatedAt
    /\ o.state \in BindingStates => o.pending # NoCommand
    /\ o.state \in TerminalStates \cup {"created", "validated"} => o.pending = NoCommand
    /\ o.state = "cancel_pending" => o.pending.kind = "cancel"

QuantityFitsState(o) ==
    /\ o.state = "partially_filled" => o.filled > 0 /\ o.filled < o.total
    /\ o.state = "filled" => o.remaining = 0
    /\ o.state \in {"created", "validated", "submitting", "accepted", "rejected"}
          => o.filled = 0
    /\ o.state \in {"cancel_pending", "cancelled"} => o.remaining > 0

LiveOrderContract(o) ==
    /\ o.version >= 1
    /\ QuantitiesAddUp(o)
    /\ AcceptanceRecorded(o)
    /\ BindingFitsState(o)
    /\ QuantityFitsState(o)

\* Beyond the contract: what is not terminal has something left to execute, and an
\* unknown submission is that of its NEW command.
HasRemainder(o) ==
    /\ o.state \notin TerminalStates => o.remaining > 0
    /\ o.state = "submission_unknown" => o.pending.kind = "new"

\* NormalizedBrokerOrderEvent.__post_init__: exactly a change reports its new values.
OrderEventContract(e) ==
    /\ e.type \in OrderEventTypes /\ e.quantity \in Nat /\ e.price \in Nat
    /\ e.quantity # None <=> e.type \in {"quantity_decreased", "price_and_quantity_amended"}
    /\ e.price # None <=> e.type \in {"price_amended", "price_and_quantity_amended"}

\* NormalizedBrokerFillEvent.__post_init__
FillEventContract(e) ==
    e.type = "fill" /\ e.quantity \in Nat \ {0} /\ e.price \in Nat \ {0}

\* received_at is there, and an occurred_at is not after it.
EventTimesContract(e) ==
    e.receivedAt \in Nat \ {0} /\ e.occurredAt \in Nat /\ e.occurredAt <= e.receivedAt

-----------------------------------------------------------------------------
(* Local transitions: they raise (are disabled) outside the guards. *)

CreateLiveOrder(intent, at) ==
    [intent |-> intent, state |-> "created", total |-> intent.quantity, filled |-> 0,
     remaining |-> intent.quantity, hasAverage |-> FALSE, limit |-> intent.limit,
     version |-> 1, updatedAt |-> at, acceptedAt |-> None, pending |-> NoCommand]

\* _snapshot: the next version of the order in state s at time at, with binding c.
Snapshot(o, s, at, c) ==
    [o EXCEPT !.state = s, !.updatedAt = at, !.pending = c, !.version = @ + 1]

\* _require_binding_for_order with _validate_order_and_time.
MayBind(o, c, kind, at) ==
    /\ c.kind = kind
    /\ c.boundAt <= at
    /\ at >= o.updatedAt

\* advance_local's three permitted edges.
MayAdvance(o, target, c, at) ==
    /\ at >= o.updatedAt
    /\ \/ o.state = "created" /\ target = "validated" /\ c = NoCommand
       \/ o.state = "validated" /\ target = "submitting" /\ MayBind(o, c, "new", at)
       \/ o.state = "submission_unknown" /\ target = "reconciling" /\ c = NoCommand

\* Fault: starting reconciliation forgets the command whose outcome is open.
AdvanceLocalForgets(o, target, c, at) == Snapshot(o, target, at, c)

AdvanceLocal(o, target, c, at) ==
    Snapshot(o, target, at, IF target = "reconciling" THEN o.pending ELSE c)

IsWorking(o) ==
    o.state \in {"accepted", "partially_filled"} /\ o.pending = NoCommand

MayRequestCancel(o, c, at) == MayBind(o, c, "cancel", at) /\ IsWorking(o)

RequestCancel(o, c, at) == Snapshot(o, "cancel_pending", at, c)

MayBindOperation(o, c, at) ==
    /\ \E kind \in {"amend", "decrease"} : MayBind(o, c, kind, at)
    /\ IsWorking(o)
    /\ c.kind = "decrease" => c.expectedTotal = o.total

BindOperation(o, c, at) == Snapshot(o, o.state, at, c)

-----------------------------------------------------------------------------
(* The applied-event ledger: one entry per source and event id. *)

Entry(source, id, fingerprint) ==
    [source |-> source, id |-> id, fingerprint |-> fingerprint]

Find(ledger, source, id) == {a \in ledger : a.source = source /\ a.id = id}

\* Fault: evidence is never recognised as a repetition.
DeduplicateNever(ledger, source, id, fingerprint) == "first"

\* _deduplicate: "first" stands for None, no entry with that key.
Deduplicate(ledger, source, id, fingerprint) ==
    IF Find(ledger, source, id) = {} THEN "first"
    ELSE IF \E a \in Find(ledger, source, id) : a.fingerprint = fingerprint
         THEN "exact_duplicate" ELSE "event_conflict"

Reduction(o, ledger, disposition) ==
    [order |-> o, ledger |-> ledger, disposition |-> disposition]

Reconcile(o, ledger) == Reduction(o, ledger, "reconciliation_required")

Later(x, y) == IF x >= y THEN x ELSE y

OrElse(x, y) == IF x # None THEN x ELSE y

-----------------------------------------------------------------------------
(* reduce_dispatch: transport evidence, never acceptance. *)

ReceiptFingerprint(r) == [what |-> r.state, quantity |-> r.at, price |-> None, mine |-> TRUE]

\* Fault: the dispatch state is stored as the order's state.
DispatchTargetCopies(o, r) == r.state

DispatchTarget(o, r) ==
    IF o.pending.kind = "new" /\ r.state = "unknown" THEN "submission_unknown"
    ELSE "reconciling"

ReduceDispatch(o, r, ledger) ==
    LET seen == Deduplicate(ledger, "dispatch", r.command.id, ReceiptFingerprint(r))
        next == ledger \cup {Entry("dispatch", r.command.id, ReceiptFingerprint(r))}
    IN  IF o.pending # r.command THEN Reduction(o, ledger, "event_conflict")
        ELSE IF seen # "first" THEN Reduction(o, ledger, seen)
        ELSE IF r.state = "succeeded" THEN Reduction(o, next, "no_change")
        ELSE Reduction(Snapshot(o, DispatchTarget(o, r), Later(o.updatedAt, r.at), o.pending),
                       next,
                       IF r.state = "unknown" THEN "applied" ELSE "reconciliation_required")

-----------------------------------------------------------------------------
(* reduce_broker_order_event *)

EventFingerprint(e) ==
    [what |-> e.type, quantity |-> e.quantity, price |-> e.price, mine |-> e.mine]

\* _is_confirmed_for_order: mine is the account and the instrument (for a fill, the
\* side as well), confirmed the correlation status with the client_order_id.
IsConfirmedForOrder(e) == e.confirmed /\ e.mine

OpenState(o) == IF o.filled > 0 THEN "partially_filled" ELSE "accepted"

\* PendingCommandBinding.matches_authoritative_working_change
MatchesWorkingChange(c, e, total) ==
    \/ c.kind = "amend" /\ e.type = "price_amended" /\ e.price = c.price
    \/ /\ c.kind = "decrease" /\ e.type = "quantity_decreased"
       /\ total = c.expectedTotal
       /\ total - e.quantity = c.newTotal

\* _broker_transition returns a transition, not None.
Admits(o, e) ==
    /\ o.state \notin TerminalStates
    /\ \/ e.type = "new_accepted"
       \/ e.type = "new_rejected" /\ o.filled = 0 /\ o.acceptedAt = None
       \/ e.type = "cancel_pending" /\ o.pending.kind = "cancel" /\ o.state = "cancel_pending"
       \/ e.type = "cancelled" /\ o.remaining # 0
       \/ /\ e.type = "dynamic_cancelled" /\ o.remaining # 0
          /\ o.state \in {"accepted", "partially_filled", "cancel_pending"}
       \/ e.type = "cancel_rejected" /\ o.pending.kind = "cancel"
       \/ e.type = "amend_rejected" /\ o.pending.kind \in {"amend", "decrease"}
       \/ e.type = "outcome_unknown" /\ o.pending # NoCommand
       \/ /\ e.type \in WorkingChanges /\ o.pending # NoCommand
          /\ MatchesWorkingChange(o.pending, e, o.total)
          /\ e.price # None => o.limit # None
          /\ o.total - e.quantity \in o.filled .. o.total

\* The state component of _broker_transition, for an admitted event.
ResultState(o, e) ==
    CASE e.type = "new_accepted" -> IF o.acceptedAt # None THEN o.state ELSE OpenState(o)
      [] e.type = "new_rejected" -> "rejected"
      [] e.type = "cancel_pending" -> o.state
      [] e.type \in {"cancelled", "dynamic_cancelled"} -> "cancelled"
      [] e.type = "outcome_unknown" ->
            IF o.pending.kind = "new" THEN "submission_unknown" ELSE "reconciling"
      [] e.type \in WorkingChanges ->
            IF o.total - e.quantity = o.filled THEN "filled" ELSE OpenState(o)
      [] OTHER -> OpenState(o)     \* cancel_rejected, amend_rejected

\* Fault: an unknown outcome releases its command.
KeepsBindingOnAck(o, e) ==
    e.type = "cancel_pending" \/ (e.type = "new_accepted" /\ o.acceptedAt # None)

\* The event leaves the binding in place: its command is still undecided.
KeepsBinding(o, e) ==
    \/ e.type \in {"cancel_pending", "outcome_unknown"}
    \/ e.type = "new_accepted" /\ o.acceptedAt # None

\* accepted_at or occurred_at or received_at
AcceptedAt(o, e) == OrElse(o.acceptedAt, OrElse(e.occurredAt, e.receivedAt))

ApplyOrderEvent(o, e) ==
    LET s     == ResultState(o, e)
        total == o.total - e.quantity
    IN  [Snapshot(o, s, Later(o.updatedAt, e.receivedAt),
                  IF KeepsBinding(o, e) THEN o.pending ELSE NoCommand)
            EXCEPT !.total = total,
                   !.remaining = total - o.filled,
                   !.limit = OrElse(e.price, @),
                   !.acceptedAt =
                       IF s \in {"created", "validated", "submitting", "submission_unknown",
                                 "reconciling", "rejected"}
                       THEN @ ELSE AcceptedAt(o, e)]

ReduceOrderEvent(o, e, ledger) ==
    LET seen == Deduplicate(ledger, "broker-event", e.id, EventFingerprint(e))
        next == ledger \cup {Entry("broker-event", e.id, EventFingerprint(e))}
    IN  IF seen # "first" THEN Reduction(o, ledger, seen)
        ELSE IF ~IsConfirmedForOrder(e) THEN Reconcile(o, ledger)
        ELSE IF o.state = "cancelled" /\ e.type \in {"cancelled", "dynamic_cancelled"}
             THEN Reduction(o, next, "no_change")
        ELSE IF ~Admits(o, e) THEN Reconcile(o, ledger)
        ELSE Reduction(ApplyOrderEvent(o, e), next, "applied")

-----------------------------------------------------------------------------
(* reduce_broker_fill_event *)

\* Fault: a terminal order takes fills.
AdmitsFillAlways(o, e) == IsConfirmedForOrder(e) /\ e.quantity <= o.remaining

AdmitsFill(o, e) ==
    /\ IsConfirmedForOrder(e)
    /\ o.state \notin {"rejected", "filled"}
    /\ e.quantity <= o.remaining

FillState(o, left) ==
    IF left = 0 THEN "filled"
    ELSE IF o.state \in {"cancelled", "reconciling", "cancel_pending"} THEN o.state
    ELSE "partially_filled"

\* Fault: a partial fill leaves the NEW command pending.
FillPendingKeepsNew(o, s) == IF s \in {"filled", "cancelled"} THEN NoCommand ELSE o.pending

FillPending(o, s) ==
    CASE s \in {"filled", "cancelled"} -> NoCommand
      [] s = "partially_filled" /\ o.pending.kind = "new" -> NoCommand
      [] OTHER -> o.pending

ApplyFill(o, e) ==
    LET filled == o.filled + e.quantity
        s      == FillState(o, o.total - filled)
    IN  [Snapshot(o, s, Later(o.updatedAt, e.receivedAt), FillPending(o, s))
            EXCEPT !.filled = filled,
                   !.remaining = o.total - filled,
                   !.hasAverage = TRUE,
                   !.acceptedAt = AcceptedAt(o, e)]

ReduceFillEvent(o, e, ledger) ==
    LET seen == Deduplicate(ledger, "broker-event", e.id, EventFingerprint(e))
        next == ledger \cup {Entry("broker-event", e.id, EventFingerprint(e))}
    IN  IF seen # "first" THEN Reduction(o, ledger, seen)
        ELSE IF ~AdmitsFill(o, e) THEN Reconcile(o, ledger)
        ELSE Reduction(ApplyFill(o, e), next, "applied")
=============================================================================
