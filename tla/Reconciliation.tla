---------------------------- MODULE Reconciliation ----------------------------
(***************************************************************************)
(* The pure assessment of an account's durable state against one broker    *)
(* snapshot (live_reconciliation.py) and the projection of authoritative   *)
(* orders from it (live_reconciliation_projection.py).                     *)
(*                                                                         *)
(* One account, one strategy, one instrument, buy orders.  A local snapshot *)
(* is [orders, fills, blockers, sequence]; a broker snapshot is            *)
(* [id, open, fills, positions, incomplete], with                          *)
(*   open       a set of [observation, order, confirmed, mine, total,      *)
(*              remaining, limit, fresh],                                  *)
(*   fills      a set of [observation, order, confirmed, mine, ids,        *)
(*              quantity, price],                                          *)
(*   positions  a set of net quantities, incomplete the queries that were  *)
(*              cut short.                                                 *)
(* mine: the instrument and the side are the order's; fresh: observed at   *)
(* or after the local snapshot; ids: broker_fill_id and execution_no.      *)
(***************************************************************************)
EXTENDS LiveOrderReducer, FiniteSetsExt, Functions

WorkingStates == {"accepted", "partially_filled", "cancel_pending"}

ProjectableStates == {"submission_unknown", "reconciling"}

\* LocalReconciliationSnapshot.__post_init__: every fill has its order, and the fills
\* of each order add up to its filled quantity.
LocalSnapshotContract(local) ==
    /\ \A f \in local.fills : f.order \in DOMAIN local.orders
    /\ \A o \in DOMAIN local.orders :
          local.orders[o].filled =
              MapThenSumSet(LAMBDA f : f.quantity, {f \in local.fills : f.order = o})

\* BrokerOpenOrderObservation: something of it is still working.
OpenOrderContract(x) == x.remaining \in 1 .. x.total /\ x.limit # 0

\* BrokerFillObservation: a fill names its execution, by one identifier or by two.
FillContract(x) == x.quantity > 0 /\ x.price > 0 /\ x.ids # {}

\* BrokerReconciliationSnapshot, which _canonical_broker_snapshot builds anew from its parts.
BrokerSnapshotContract(broker) ==
    /\ \A x \in broker.open : OpenOrderContract(x)
    /\ \A x \in broker.fills : FillContract(x)
    /\ broker.incomplete \subseteq {"open", "fills", "positions"}

-----------------------------------------------------------------------------
(* _dedupe_and_find_conflicts *)

\* What an observation says, apart from its own identifier.
Payload(x) == Restrict(x, DOMAIN x \ {"observation"})

OpenIdentities(x) ==
    {<<"observation", x.observation>>} \cup (IF x.confirmed THEN {<<"client", x.order>>} ELSE {})

FillIdentities(x) == {<<"observation", x.observation>>} \cup {<<"fill", i>> : i \in x.ids}

\* identities maps every observation to its identities; one of x's is used
\* again for something else.
Conflicted(x, identities) ==
    \E y \in DOMAIN identities :
        Payload(x) # Payload(y) /\ identities[x] \cap identities[y] # {}

Doubtful(identities) ==
    {x \in DOMAIN identities : ~x.confirmed \/ Conflicted(x, identities)}

DoubtfulOpen(broker) == Doubtful([x \in broker.open |-> OpenIdentities(x)])

DoubtfulFills(broker) == Doubtful([x \in broker.fills |-> FillIdentities(x)])

-----------------------------------------------------------------------------
(* assess_reconciliation *)

Discrepancy(kind, o) == [kind |-> kind, order |-> o]

PendingOrders(local) == {o \in DOMAIN local.orders : local.orders[o].pending # NoCommand}

\* The local order and the broker's open order are not the same working order.
StateMismatch(order, x) ==
    \/ ~x.mine
    \/ order.state \notin WorkingStates /\ order.pending = NoCommand
    \/ order.limit # x.limit

QuantityMismatch(order, x) ==
    /\ order.state \in WorkingStates
    /\ order.total # x.total \/ order.remaining # x.remaining

OpenDiscrepancies(local, broker) ==
    LET known == {x \in broker.open \ DoubtfulOpen(broker) : x.order \in DOMAIN local.orders}
        sure  == broker.open \ DoubtfulOpen(broker)
    IN  {Discrepancy("correlation_missing", o) : o \in PendingOrders(local)}
        \cup {Discrepancy("correlation_missing", NoId) : x \in DoubtfulOpen(broker)}
        \cup {Discrepancy("missing_local_order", x.order) : x \in sure \ known}
        \cup {Discrepancy("order_state_mismatch", x.order) :
                 x \in {y \in known : StateMismatch(local.orders[y.order], y)}}
        \cup {Discrepancy("quantity_mismatch", x.order) :
                 x \in {y \in known : QuantityMismatch(local.orders[y.order], y)}}
        \cup (IF "open" \in broker.incomplete \/ DoubtfulOpen(broker) # {} THEN {}
              ELSE {Discrepancy("missing_broker_order", o) :
                       o \in {p \in DOMAIN local.orders \ PendingOrders(local) :
                                 /\ local.orders[p].state \in WorkingStates
                                 /\ \A x \in known : x.order # p}})

\* The local executions that a broker fill may be.
Candidates(local, x) == {f \in local.fills : f.id \in x.ids}

\* Broker fills that fit no local execution, several, or one that another fill fits too.
Unmatched(local, broker) ==
    LET sure == broker.fills \ DoubtfulFills(broker)
    IN  {x \in sure : \/ Cardinality(Candidates(local, x)) # 1
                      \/ \E y \in sure : /\ Payload(y) # Payload(x)
                                         /\ Candidates(local, y) = Candidates(local, x)}

FillsAmbiguous(local, broker) ==
    \/ DoubtfulFills(broker) # {}
    \/ \E x \in Unmatched(local, broker) : Candidates(local, x) # {}

FillDiscrepancies(local, broker) ==
    LET sure    == broker.fills \ DoubtfulFills(broker)
        matched == sure \ Unmatched(local, broker)
        seen    == UNION {Candidates(local, x) : x \in matched}
    IN  {Discrepancy("correlation_missing", NoId) : x \in DoubtfulFills(broker)}
        \cup {Discrepancy("fill_mismatch", x.order) : x \in Unmatched(local, broker)}
        \cup {Discrepancy("fill_mismatch", f.order) :
                 f \in {g \in seen : \E x \in matched :
                           /\ g \in Candidates(local, x)
                           /\ \/ ~x.mine \/ g.quantity # x.quantity \/ g.price # x.price
                              \/ g.order # x.order}}
        \cup (IF "fills" \in broker.incomplete \/ FillsAmbiguous(local, broker) THEN {}
              ELSE {Discrepancy("fill_mismatch", f.order) : f \in local.fills \ seen})

\* The attributed position is the sum of the account's executions.
Position(local) == MapThenSumSet(LAMBDA f : f.quantity, local.fills)

PositionDiscrepancies(local, broker) ==
    LET actual == IF broker.positions = {} THEN 0 ELSE CHOOSE q \in broker.positions : TRUE
    IN  IF \/ Cardinality(broker.positions) > 1
           \/ broker.positions = {} /\ "positions" \in broker.incomplete
           \/ Position(local) = actual
        THEN {} ELSE {Discrepancy("position_mismatch", NoId)}

Discrepancies(local, broker) ==
    OpenDiscrepancies(local, broker) \cup FillDiscrepancies(local, broker)
        \cup PositionDiscrepancies(local, broker)

\* ReconciliationStatus.COMPLETE: neither ambiguous nor incomplete.
Authoritative(local, broker) ==
    /\ DoubtfulOpen(broker) = {} /\ ~FillsAmbiguous(local, broker)
    /\ Cardinality(broker.positions) <= 1
    /\ broker.incomplete = {}

-----------------------------------------------------------------------------
(* project_authoritative_orders *)

\* _local_reasons is empty: the order waits for its NEW command and shows no progress.
ProjectableOrder(order) ==
    /\ order.state \in ProjectableStates
    /\ order.acceptedAt = None /\ order.filled = 0 /\ order.remaining = order.total
    /\ order.pending.kind = "new"
    /\ order.total = order.intent.quantity /\ order.limit = order.intent.limit

\* _broker_reasons is empty: one fresh open order for all of it, and no fill.
BrokerConfirms(broker, o, order) ==
    LET matches == {x \in broker.open : x.order = o}
    IN  /\ Cardinality(matches) = 1
        /\ \A x \in matches : /\ x.confirmed /\ x.mine /\ x.fresh
                              /\ x.total = order.total /\ x.remaining = x.total
                              /\ x.limit = order.limit
        /\ \A x \in broker.fills : x.order # o

\* Every discrepancy is the open command of a projectable, confirmed order.
Projectable(local, broker) ==
    /\ Authoritative(local, broker)
    /\ Discrepancies(local, broker) # {}
    /\ \A d \in Discrepancies(local, broker) :
          /\ d.kind = "correlation_missing"
          /\ d.order \in DOMAIN local.orders
          /\ ProjectableOrder(local.orders[d.order])
          /\ BrokerConfirms(broker, d.order, local.orders[d.order])

\* OrderProjectionDisposition.READY: the accepted successors; all others: none.
Projections(local, broker, at) ==
    [o \in IF Projectable(local, broker) THEN PendingOrders(local) ELSE {} |->
        [Snapshot(local.orders[o], "accepted", at, NoCommand) EXCEPT !.acceptedAt = at]]
=============================================================================
