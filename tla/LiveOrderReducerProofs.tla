------------------------ MODULE LiveOrderReducerProofs ------------------------
(***************************************************************************)
(* What the reducer's operations return, for any order and any evidence    *)
(* that meets its contract, and what sums of quantities are.  LiveOrder    *)
(* and LiveJournal share these lemmas.                                     *)
(***************************************************************************)
EXTENDS LiveOrderReducer, FiniteSetsExt, FiniteSetTheorems, TLAPS

\* What every reducer operation assumes of the order it is given and guarantees of
\* the order it returns.
GoodOrder(o) == o \in Orders /\ LiveOrderContract(o) /\ HasRemainder(o)

\* A snapshot has the shape of an order (_snapshot).
LEMMA SnapshotType ==
    ASSUME NEW o \in Orders, NEW s \in States, NEW at \in Nat,
           NEW c \in Commands \cup {NoCommand}
    PROVE  Snapshot(o, s, at, c) \in Orders
  <1>1. o.version + 1 \in Nat
    BY DEF Orders
  <1>2. QED
    BY <1>1, Zenon DEF Snapshot, Orders

\* A snapshot changes the four fields that _snapshot is given and no other.
LEMMA SnapshotFields ==
    ASSUME NEW o \in Orders, NEW s, NEW at, NEW c
    PROVE  LET n == Snapshot(o, s, at, c)
           IN  /\ n.state = s /\ n.updatedAt = at /\ n.pending = c
               /\ n.version = o.version + 1 /\ n.intent = o.intent /\ n.total = o.total
               /\ n.filled = o.filled /\ n.remaining = o.remaining
               /\ n.hasAverage = o.hasAverage /\ n.limit = o.limit
               /\ n.acceptedAt = o.acceptedAt
  BY DEF Snapshot, Orders

\* No exact command is the absent one.
LEMMA CommandIsSomething ==
    ASSUME NEW c \in Commands
    PROVE  c # NoCommand /\ c.id \in CommandIds /\ c.kind \in CommandKinds /\ c.boundAt \in Nat
  BY AbsentIdAssumption DEF Commands, NoCommand

\* A decrease command asks for a positive total.
LEMMA DecreaseTarget ==
    ASSUME NEW c \in Commands \cup {NoCommand}, c.kind = "decrease"
    PROVE  c.newTotal \in Nat \ {0}
  BY DEF Commands, NoCommand

\* create_live_order builds an order that meets its contract.
LEMMA CreateGood ==
    ASSUME NEW intent \in Intents, NEW at \in Nat
    PROVE  GoodOrder(CreateLiveOrder(intent, at))
  <1> DEFINE o == CreateLiveOrder(intent, at)
  <1>1. o \in Orders
    BY DEF CreateLiveOrder, Orders, Intents, States, None
  <1>2. LiveOrderContract(o) /\ HasRemainder(o)
    BY DEF CreateLiveOrder, Orders, Intents, LiveOrderContract, QuantitiesAddUp,
         AcceptanceRecorded, BindingFitsState, QuantityFitsState, HasRemainder, NoCommand, None,
         TerminalStates, BindingStates
  <1>3. QED
    BY <1>1, <1>2 DEF GoodOrder

\* The types of an order's fields.
LEMMA OrderFields ==
    ASSUME NEW o \in Orders
    PROVE  /\ o.state \in States
           /\ o.intent \in Intents /\ o.intent.quantity \in Nat \ {0} /\ o.intent.limit \in Nat
           /\ o.total \in Int /\ o.filled \in Int /\ o.remaining \in Int
           /\ o.hasAverage \in BOOLEAN
           /\ o.limit \in Nat /\ o.version \in Nat /\ o.updatedAt \in Nat /\ o.acceptedAt \in Nat
           /\ o.pending \in Commands \cup {NoCommand}
           /\ o.pending.boundAt \in Nat
  BY DEF Orders, Intents, Commands, NoCommand, None

\* When a snapshot that changes no quantity keeps the contract.
LEMMA SnapshotGood ==
    ASSUME NEW o \in Orders, GoodOrder(o), NEW s \in States, NEW at \in Nat,
           NEW c \in Commands \cup {NoCommand}, at >= o.updatedAt,
           c.boundAt <= at,
           o.state \notin TerminalStates, s \notin TerminalStates,
           s \in BindingStates => c # NoCommand,
           s \in {"created", "validated"} => c = NoCommand,
           s = "cancel_pending" => c.kind = "cancel",
           s = "submission_unknown" => c.kind = "new",
           s \in {"accepted", "partially_filled", "cancel_pending"} => o.acceptedAt # None,
           s = "partially_filled" => o.filled > 0,
           s \in {"created", "validated", "submitting", "accepted"} => o.filled = 0
    PROVE  GoodOrder(Snapshot(o, s, at, c))
  <1> DEFINE n == Snapshot(o, s, at, c)
  <1>1. n \in Orders
    BY SnapshotType
  <1>2. /\ n.state = s /\ n.updatedAt = at /\ n.pending = c
               /\ n.version = o.version + 1 /\ n.intent = o.intent /\ n.total = o.total
               /\ n.filled = o.filled /\ n.remaining = o.remaining
               /\ n.hasAverage = o.hasAverage /\ n.limit = o.limit
               /\ n.acceptedAt = o.acceptedAt
    BY SnapshotFields
  <1> HIDE DEF n
  <1>3. LiveOrderContract(n) /\ HasRemainder(n)
    BY <1>2, OrderFields DEF GoodOrder, States, LiveOrderContract, QuantitiesAddUp,
         AcceptanceRecorded, BindingFitsState, QuantityFitsState, HasRemainder, None,
         TerminalStates, BindingStates
  <1>4. QED
    BY <1>1, <1>3 DEF GoodOrder, n

\* A local transition (advance_local) keeps the contract.
LEMMA AdvanceGood ==
    ASSUME NEW o, GoodOrder(o), NEW target, NEW at \in Nat,
           NEW c \in Commands \cup {NoCommand}, MayAdvance(o, target, c, at)
    PROVE  GoodOrder(AdvanceLocal(o, target, c, at))
  <1>0. o \in Orders /\ NoCommand.boundAt = 0
    BY DEF GoodOrder, NoCommand, None
  <1>1. CASE o.state = "created" /\ target = "validated" /\ c = NoCommand
    BY <1>0, <1>1, SnapshotGood, OrderFields
       DEF MayAdvance, AdvanceLocal, States, TerminalStates, BindingStates, GoodOrder,
           LiveOrderContract, QuantityFitsState
  <1>2. CASE o.state = "validated" /\ target = "submitting" /\ MayBind(o, c, "new", at)
    <2>1. c # NoCommand
      BY <1>2 DEF MayBind, NoCommand
    <2>2. QED
      BY <1>0, <1>2, <2>1, SnapshotGood, OrderFields
         DEF AdvanceLocal, MayBind, States, TerminalStates, BindingStates, GoodOrder,
             LiveOrderContract, QuantityFitsState
  <1>3. CASE o.state = "submission_unknown" /\ target = "reconciling" /\ c = NoCommand
    BY <1>0, <1>3, SnapshotGood, OrderFields
       DEF MayAdvance, AdvanceLocal, States, TerminalStates, BindingStates, GoodOrder,
           LiveOrderContract, BindingFitsState
  <1>4. QED
    BY <1>1, <1>2, <1>3 DEF MayAdvance

\* request_cancel keeps the contract.
LEMMA CancelGood ==
    ASSUME NEW o, GoodOrder(o), NEW at \in Nat, NEW c \in Commands, MayRequestCancel(o, c, at)
    PROVE  GoodOrder(RequestCancel(o, c, at))
  <1>1. o \in Orders /\ c # NoCommand
    BY CommandIsSomething DEF GoodOrder
  <1>2. o.acceptedAt # None
    BY DEF MayRequestCancel, IsWorking, GoodOrder, LiveOrderContract, AcceptanceRecorded
  <1>3. QED
    BY <1>1, <1>2, SnapshotGood, OrderFields
       DEF MayRequestCancel, MayBind, IsWorking, RequestCancel, States, TerminalStates,
           BindingStates

\* bind_operation keeps the contract.
LEMMA OperateGood ==
    ASSUME NEW o, GoodOrder(o), NEW at \in Nat, NEW c \in Commands, MayBindOperation(o, c, at)
    PROVE  GoodOrder(BindOperation(o, c, at))
  <1>1. o \in Orders /\ c # NoCommand
    BY CommandIsSomething DEF GoodOrder
  <1>2. /\ o.acceptedAt # None
        /\ o.state = "partially_filled" => o.filled > 0
        /\ o.state = "accepted" => o.filled = 0
    BY DEF MayBindOperation, IsWorking, GoodOrder, LiveOrderContract, AcceptanceRecorded,
           QuantityFitsState
  <1>3. QED
    BY <1>1, <1>2, SnapshotGood, OrderFields
       DEF MayBindOperation, MayBind, IsWorking, BindOperation, States, TerminalStates,
           BindingStates

\* A receipt never makes the order leave its contract (reduce_dispatch).
LEMMA DispatchGood ==
    ASSUME NEW o, GoodOrder(o), NEW c \in Commands, NEW s \in DispatchStates, NEW at \in Nat,
           NEW l
    PROVE  GoodOrder(ReduceDispatch(o, [command |-> c, state |-> s, at |-> at], l).order)
  <1> DEFINE r == [command |-> c, state |-> s, at |-> at]
             n == Snapshot(o, DispatchTarget(o, r), Later(o.updatedAt, r.at), o.pending)
  <1>1. \/ ReduceDispatch(o, r, l).order = o
        \/ o.pending = c /\ ReduceDispatch(o, r, l).order = n
    BY DEF ReduceDispatch, Reduction
  <1>2. ASSUME o.pending = c
        PROVE  GoodOrder(n)
    <2>1. o \in Orders /\ o.pending # NoCommand
      BY <1>2, CommandIsSomething DEF GoodOrder
    <2>2. o.state \notin TerminalStates
      BY <2>1 DEF GoodOrder, LiveOrderContract, BindingFitsState
    <2>3. Later(o.updatedAt, r.at) \in Nat /\ Later(o.updatedAt, r.at) >= o.updatedAt
      BY <2>1, OrderFields DEF Later
    <2>4. o.pending.boundAt <= Later(o.updatedAt, r.at)
      BY <2>1, <2>3, OrderFields DEF GoodOrder, LiveOrderContract, BindingFitsState
    <2>5. \/ DispatchTarget(o, r) = "submission_unknown" /\ o.pending.kind = "new"
          \/ DispatchTarget(o, r) = "reconciling"
      BY DEF DispatchTarget
    <2> HIDE DEF r
    <2>6. QED
      BY <2>1, <2>2, <2>3, <2>4, <2>5, SnapshotGood, OrderFields
         DEF States, TerminalStates, BindingStates
  <1>3. QED
    BY <1>1, <1>2

\* The fields of a normalized order event that the reducer reads.
LEMMA OrderEventFields ==
    ASSUME NEW e, OrderEventContract(e), EventTimesContract(e)
    PROVE  /\ e.type \in OrderEventTypes /\ e.quantity \in Nat /\ e.price \in Nat
           /\ e.receivedAt \in Nat \ {0} /\ e.occurredAt \in Nat /\ e.occurredAt <= e.receivedAt
           /\ e.quantity # None <=> e.type \in {"quantity_decreased", "price_and_quantity_amended"}
           /\ e.price # None <=> e.type \in {"price_amended", "price_and_quantity_amended"}
  BY DEF OrderEventContract, EventTimesContract

\* The fields of a normalized fill event that the reducer reads.
LEMMA FillEventFields ==
    ASSUME NEW e, FillEventContract(e), EventTimesContract(e)
    PROVE  /\ e.type = "fill" /\ e.quantity \in Nat \ {0}
           /\ e.receivedAt \in Nat \ {0} /\ e.occurredAt \in Nat /\ e.occurredAt <= e.receivedAt
  BY DEF FillEventContract, EventTimesContract

\* An applied order event builds an order of the right shape with the fields that
\* reduce_broker_order_event passes to _snapshot.
LEMMA ApplyOrderEventFields ==
    ASSUME NEW o \in Orders, NEW e, OrderEventContract(e), EventTimesContract(e)
    PROVE  LET n == ApplyOrderEvent(o, e)
           IN  /\ n \in Orders
               /\ n.intent = o.intent
               /\ n.state = ResultState(o, e)
               /\ n.total = o.total - e.quantity /\ n.filled = o.filled
               /\ n.remaining = o.total - e.quantity - o.filled
               /\ n.hasAverage = o.hasAverage
               /\ n.limit = OrElse(e.price, o.limit)
               /\ n.version = o.version + 1
               /\ n.updatedAt = Later(o.updatedAt, e.receivedAt)
               /\ n.acceptedAt = IF ResultState(o, e) \in
                                     {"created", "validated", "submitting", "submission_unknown",
                                      "reconciling", "rejected"}
                                 THEN o.acceptedAt ELSE AcceptedAt(o, e)
               /\ n.pending = IF KeepsBinding(o, e) THEN o.pending ELSE NoCommand
  <1> DEFINE s == ResultState(o, e)
             at == Later(o.updatedAt, e.receivedAt)
             c == IF KeepsBinding(o, e) THEN o.pending ELSE NoCommand
             total == o.total - e.quantity
             left == total - o.filled
             limit == OrElse(e.price, o.limit)
             acc == IF s \in {"created", "validated", "submitting", "submission_unknown",
                              "reconciling", "rejected"}
                    THEN o.acceptedAt ELSE AcceptedAt(o, e)
             p == Snapshot(o, s, at, c)
             n == [p EXCEPT !.total = total, !.remaining = left, !.limit = limit,
                            !.acceptedAt = acc]
  <1>1. s \in States
    BY OrderFields DEF ResultState, OpenState, States
  <1>2. at \in Nat /\ c \in Commands \cup {NoCommand} /\ total \in Int /\ left \in Int
    BY OrderFields, OrderEventFields DEF Later
  <1>3. limit \in Nat /\ acc \in Nat
    BY OrderFields, OrderEventFields DEF OrElse, AcceptedAt
  <1>4. p \in Orders
    BY <1>1, <1>2, SnapshotType
  <1>5. /\ p.state = s /\ p.updatedAt = at /\ p.pending = c /\ p.version = o.version + 1
        /\ p.intent = o.intent /\ p.filled = o.filled /\ p.hasAverage = o.hasAverage
        /\ p.limit = o.limit /\ p.acceptedAt = o.acceptedAt
    BY SnapshotFields
  <1>6. ApplyOrderEvent(o, e) = n
    BY <1>5, Zenon DEF ApplyOrderEvent
  <1> HIDE DEF s, at, c, total, left, limit, acc, p
  <1>7. n \in Orders
    BY <1>2, <1>3, <1>4, Zenon DEF Orders
  <1>8. /\ n.intent = p.intent /\ n.state = p.state /\ n.total = total /\ n.filled = p.filled
        /\ n.remaining = left /\ n.hasAverage = p.hasAverage /\ n.limit = limit
        /\ n.version = p.version /\ n.updatedAt = p.updatedAt /\ n.acceptedAt = acc
        /\ n.pending = p.pending
    BY <1>4 DEF Orders
  <1> HIDE DEF n
  <1>9. QED
    BY <1>5, <1>6, <1>7, <1>8 DEF s, at, c, total, left, limit, acc

\* _broker_transition's table keeps the contract, whatever admitted event arrives.
LEMMA OrderEventGood ==
    ASSUME NEW o, GoodOrder(o), NEW e, OrderEventContract(e), EventTimesContract(e), Admits(o, e)
    PROVE  GoodOrder(ApplyOrderEvent(o, e))
  <1> DEFINE n == ApplyOrderEvent(o, e)
  <1>o. o \in Orders
    BY DEF GoodOrder
  <1>f. /\ n \in Orders
        /\ n.intent = o.intent
        /\ n.state = ResultState(o, e)
        /\ n.total = o.total - e.quantity /\ n.filled = o.filled
        /\ n.remaining = o.total - e.quantity - o.filled
        /\ n.hasAverage = o.hasAverage
        /\ n.limit = OrElse(e.price, o.limit)
        /\ n.version = o.version + 1
        /\ n.updatedAt = Later(o.updatedAt, e.receivedAt)
        /\ n.acceptedAt = IF ResultState(o, e) \in
                              {"created", "validated", "submitting", "submission_unknown",
                               "reconciling", "rejected"}
                          THEN o.acceptedAt ELSE AcceptedAt(o, e)
        /\ n.pending = IF KeepsBinding(o, e) THEN o.pending ELSE NoCommand
    BY <1>o, ApplyOrderEventFields
  <1> HIDE DEF n
  <1>t. /\ n.updatedAt \in Nat /\ n.updatedAt >= o.updatedAt /\ n.updatedAt >= e.receivedAt
        /\ AcceptedAt(o, e) \in Nat \ {0} /\ AcceptedAt(o, e) <= n.updatedAt
        /\ n.acceptedAt \in {o.acceptedAt, AcceptedAt(o, e)}
        /\ o.acceptedAt # None => AcceptedAt(o, e) = o.acceptedAt
    BY <1>o, <1>f, OrderFields, OrderEventFields
       DEF Later, AcceptedAt, OrElse, None, GoodOrder, LiveOrderContract, AcceptanceRecorded
  <1>1. QuantitiesAddUp(n) /\ n.version >= 1
    <2>1. e.type \in WorkingChanges =>
             o.total - e.quantity > 0 /\ o.total - e.quantity \in o.filled .. o.total
      <3>1. CASE e.type = "price_amended"
        BY <1>o, <3>1, OrderFields, OrderEventFields
           DEF Admits, None, GoodOrder, LiveOrderContract, QuantitiesAddUp, WorkingChanges
      <3>2. CASE e.type = "quantity_decreased"
        BY <1>o, <3>2, OrderFields, DecreaseTarget
           DEF Admits, MatchesWorkingChange, WorkingChanges
      <3>3. CASE e.type = "price_and_quantity_amended"
        BY <3>3 DEF Admits, MatchesWorkingChange, WorkingChanges
      <3>4. QED
        BY <3>1, <3>2, <3>3 DEF WorkingChanges
    <2>2. e.type \notin WorkingChanges => e.quantity = 0 /\ e.price = 0
      BY OrderEventFields DEF None, WorkingChanges
    <2>3. e.price # None => o.limit # None
      BY <2>2 DEF Admits, None, WorkingChanges
    <2>4. QED
      BY <1>o, <1>f, <2>1, <2>2, <2>3, OrderFields, OrderEventFields
         DEF OrElse, None, GoodOrder, LiveOrderContract, QuantitiesAddUp
  <1>2. AcceptanceRecorded(n)
    BY <1>o, <1>f, <1>t, OrderFields
       DEF None, GoodOrder, LiveOrderContract, AcceptanceRecorded
  <1>3. BindingFitsState(n)
    <2>1. o.pending.boundAt <= n.updatedAt /\ NoCommand.boundAt <= n.updatedAt
      BY <1>o, <1>t, OrderFields
         DEF NoCommand, None, GoodOrder, LiveOrderContract, BindingFitsState
    <2>2. CASE KeepsBinding(o, e)
      <3>1. n.pending = o.pending
        BY <1>f, <2>2
      <3>2. \/ n.state = o.state
            \/ n.state \in {"submission_unknown", "reconciling"} /\ o.pending # NoCommand
        BY <1>f, <2>2 DEF ResultState, KeepsBinding, Admits, WorkingChanges
      <3>3. QED
        BY <2>1, <3>1, <3>2
           DEF GoodOrder, LiveOrderContract, BindingFitsState, BindingStates, TerminalStates
    <2>3. CASE ~KeepsBinding(o, e)
      <3>1. n.pending = NoCommand
        BY <1>f, <2>3
      <3>2. n.state \in {"accepted", "partially_filled", "rejected", "cancelled", "filled"}
        BY <1>f, <2>3, OrderEventFields
           DEF ResultState, KeepsBinding, OpenState, WorkingChanges, OrderEventTypes
      <3>3. QED
        BY <2>1, <3>1, <3>2 DEF BindingFitsState, BindingStates
    <2>4. QED
      BY <2>2, <2>3
  <1>4. QuantityFitsState(n) /\ HasRemainder(n)
    <2>1. CASE e.type \in WorkingChanges
      <3>1. n.state = IF n.total = o.filled THEN "filled" ELSE OpenState(o)
        BY <1>f, <2>1 DEF ResultState, WorkingChanges
      <3>2. n.total \in o.filled .. o.total
        BY <1>f, <2>1 DEF Admits, WorkingChanges
      <3>3. QED
        BY <1>o, <1>f, <3>1, <3>2, OrderFields, OrderEventFields
           DEF OpenState, QuantityFitsState, HasRemainder, TerminalStates, GoodOrder,
               LiveOrderContract, QuantitiesAddUp
    <2>2. CASE e.type \notin WorkingChanges
      <3>1. e.quantity = 0
        BY <2>2, OrderEventFields DEF None, WorkingChanges
      <3>2. n.total = o.total /\ n.remaining = o.remaining
        BY <1>o, <1>f, <3>1, OrderFields
           DEF GoodOrder, LiveOrderContract, QuantitiesAddUp
      <3>3. o.remaining > 0
        BY DEF Admits, GoodOrder, HasRemainder
      <3>4. \/ n.state = o.state /\ n.pending = o.pending
            \/ n.state = OpenState(o)
            \/ n.state = "rejected" /\ o.filled = 0
            \/ n.state \in {"cancelled", "reconciling"}
            \/ n.state = "submission_unknown" /\ n.pending.kind = "new"
        <4>1. CASE KeepsBinding(o, e)
          BY <1>f, <2>2, <4>1 DEF ResultState, KeepsBinding
        <4>2. CASE ~KeepsBinding(o, e)
          BY <1>f, <2>2, <4>2, OrderEventFields
             DEF ResultState, KeepsBinding, OrderEventTypes, Admits
        <4>3. QED
          BY <4>1, <4>2
      <3>5. QED
        BY <1>o, <1>f, <3>2, <3>3, <3>4, OrderFields
           DEF OpenState, QuantityFitsState, HasRemainder, TerminalStates, GoodOrder,
               LiveOrderContract, QuantitiesAddUp
    <2>3. QED
      BY <2>1, <2>2
  <1>5. QED
    BY <1>f, <1>1, <1>2, <1>3, <1>4 DEF n, GoodOrder, LiveOrderContract

\* A fill makes the next version of its order.
LEMMA ApplyFillFields ==
    ASSUME NEW o \in Orders, NEW e
    PROVE  LET n == ApplyFill(o, e)
           IN  /\ n.version = o.version + 1 /\ n.intent = o.intent
               /\ n.filled = o.filled + e.quantity
  BY DEF ApplyFill, Snapshot, Orders

\* A fill that is admitted keeps the contract (reduce_broker_fill_event).
LEMMA FillGood ==
    ASSUME NEW o, GoodOrder(o), NEW e, FillEventContract(e), EventTimesContract(e), AdmitsFill(o, e)
    PROVE  GoodOrder(ApplyFill(o, e))
  <1> DEFINE filled == o.filled + e.quantity
             left == o.total - filled
             s == FillState(o, left)
             at == Later(o.updatedAt, e.receivedAt)
             c == FillPending(o, s)
             acc == AcceptedAt(o, e)
             p == Snapshot(o, s, at, c)
             n == [p EXCEPT !.filled = filled, !.remaining = left, !.hasAverage = TRUE,
                            !.acceptedAt = acc]
  <1>o. o \in Orders
    BY DEF GoodOrder
  <1>a. ApplyFill(o, e) = n
    BY Zenon DEF ApplyFill
  <1>1. s \in States /\ c \in Commands \cup {NoCommand}
    BY <1>o, OrderFields DEF FillState, FillPending, States
  <1>2. /\ at \in Nat /\ at >= o.updatedAt /\ at >= e.receivedAt
        /\ filled \in Int /\ left \in Int /\ acc \in Nat \ {0} /\ acc <= at
    BY <1>o, OrderFields, FillEventFields
       DEF Later, AcceptedAt, OrElse, None, GoodOrder, LiveOrderContract, AcceptanceRecorded
  <1>3. left >= 0 /\ filled > 0 /\ filled + left = o.total /\ left < o.remaining
    BY <1>o, OrderFields, FillEventFields
       DEF AdmitsFill, GoodOrder, LiveOrderContract, QuantitiesAddUp
  <1>4. /\ c.boundAt <= at
        /\ c = NoCommand \/ c = o.pending
    BY <1>o, <1>2, OrderFields
       DEF FillPending, NoCommand, None, GoodOrder, LiveOrderContract, BindingFitsState
  <1>5. \/ s = "filled" /\ left = 0 /\ c = NoCommand
        \/ s = "cancelled" /\ left # 0 /\ c = NoCommand
        \/ s = o.state /\ s \in {"reconciling", "cancel_pending"} /\ left # 0 /\ c = o.pending
        \/ s = "partially_filled" /\ left # 0
    BY DEF FillState, FillPending
  <1>6. p \in Orders
    BY <1>o, <1>1, <1>2, SnapshotType
  <1>7. /\ p.state = s /\ p.updatedAt = at /\ p.pending = c /\ p.version = o.version + 1
        /\ p.intent = o.intent /\ p.total = o.total /\ p.limit = o.limit
    BY <1>o, SnapshotFields
  <1> HIDE DEF filled, left, s, at, c, acc, p
  <1>8. n \in Orders
    <2>1. acc \in Nat /\ TRUE \in BOOLEAN
      BY <1>2
    <2>2. QED
      BY <1>2, <1>6, <2>1, Zenon DEF Orders
  <1>9. /\ n.intent = p.intent /\ n.state = p.state /\ n.total = p.total /\ n.filled = filled
        /\ n.remaining = left /\ n.hasAverage = TRUE /\ n.limit = p.limit
        /\ n.version = p.version /\ n.updatedAt = p.updatedAt /\ n.acceptedAt = acc
        /\ n.pending = p.pending
    BY <1>6 DEF Orders
  <1> HIDE DEF n
  <1>10. LiveOrderContract(n) /\ HasRemainder(n)
    BY <1>o, <1>2, <1>3, <1>4, <1>5, <1>7, <1>9, OrderFields
       DEF GoodOrder, LiveOrderContract, QuantitiesAddUp, AcceptanceRecorded, BindingFitsState,
           QuantityFitsState, HasRemainder, None, TerminalStates, BindingStates
  <1>11. QED
    BY <1>a, <1>8, <1>10 DEF GoodOrder

-----------------------------------------------------------------------------

\* What each reduction returns: the order and the ledger as they were, or the ledger
\* with one new entry and the order the evidence leads to.
LEMMA ReductionFields ==
    ASSUME NEW o, NEW l, NEW d
    PROVE  Reduction(o, l, d).order = o /\ Reduction(o, l, d).ledger = l
  BY DEF Reduction

\* reduce_dispatch, for a receipt of the bound command only.
LEMMA DispatchResult ==
    ASSUME NEW o, NEW r, NEW l
    PROVE  LET d == ReduceDispatch(o, r, l)
           IN  \/ d.order = o /\ d.ledger = l
               \/ /\ o.pending = r.command
                  /\ d.ledger = l \cup {Entry("dispatch", r.command.id, ReceiptFingerprint(r))}
                  /\ \/ d.order = o
                     \/ d.order = Snapshot(o, DispatchTarget(o, r), Later(o.updatedAt, r.at),
                                           o.pending)
  <1> DEFINE d == ReduceDispatch(o, r, l)
             seen == Deduplicate(l, "dispatch", r.command.id, ReceiptFingerprint(r))
             next == l \cup {Entry("dispatch", r.command.id, ReceiptFingerprint(r))}
             n == Snapshot(o, DispatchTarget(o, r), Later(o.updatedAt, r.at), o.pending)
             how == IF r.state = "unknown" THEN "applied" ELSE "reconciliation_required"
  <1>1. \/ d = Reduction(o, l, "event_conflict") \/ d = Reduction(o, l, seen)
        \/ o.pending = r.command /\ d = Reduction(o, next, "no_change")
        \/ o.pending = r.command /\ d = Reduction(n, next, how)
    BY Zenon DEF ReduceDispatch
  <1>2. \/ d.order = o /\ d.ledger = l
        \/ o.pending = r.command /\ d.ledger = next /\ (d.order = o \/ d.order = n)
    <2> HIDE DEF d, seen, next, n, how
    <2>1. QED
      BY <1>1, ReductionFields
  <1>3. QED
    BY <1>2, Zenon

\* reduce_broker_order_event, for an event id that is not in the ledger only.
LEMMA OrderEventResult ==
    ASSUME NEW o, NEW e, NEW l
    PROVE  LET r == ReduceOrderEvent(o, e, l)
           IN  \/ r.order = o /\ r.ledger = l
               \/ /\ Find(l, "broker-event", e.id) = {}
                  /\ r.ledger = l \cup {Entry("broker-event", e.id, EventFingerprint(e))}
                  /\ r.order = o \/ (Admits(o, e) /\ r.order = ApplyOrderEvent(o, e))
  <1> DEFINE r == ReduceOrderEvent(o, e, l)
             seen == Deduplicate(l, "broker-event", e.id, EventFingerprint(e))
             next == l \cup {Entry("broker-event", e.id, EventFingerprint(e))}
  <1>1. \/ r = Reduction(o, l, seen) \/ r = Reduction(o, l, "reconciliation_required")
        \/ seen = "first" /\ r = Reduction(o, next, "no_change")
        \/ seen = "first" /\ Admits(o, e) /\ r = Reduction(ApplyOrderEvent(o, e), next, "applied")
    BY Zenon DEF ReduceOrderEvent, Reconcile
  <1>2. seen = "first" => Find(l, "broker-event", e.id) = {}
    BY Zenon DEF Deduplicate
  <1>3. \/ r.order = o /\ r.ledger = l
        \/ /\ seen = "first" /\ r.ledger = next
           /\ r.order = o \/ (Admits(o, e) /\ r.order = ApplyOrderEvent(o, e))
    <2> HIDE DEF r, seen, next
    <2>1. QED
      BY <1>1, ReductionFields
  <1>4. QED
    BY <1>2, <1>3, Zenon

\* reduce_broker_fill_event, likewise.
LEMMA FillEventResult ==
    ASSUME NEW o, NEW e, NEW l
    PROVE  LET r == ReduceFillEvent(o, e, l)
           IN  \/ r.order = o /\ r.ledger = l
               \/ /\ Find(l, "broker-event", e.id) = {}
                  /\ r.ledger = l \cup {Entry("broker-event", e.id, EventFingerprint(e))}
                  /\ AdmitsFill(o, e) /\ r.order = ApplyFill(o, e)
  <1> DEFINE r == ReduceFillEvent(o, e, l)
             seen == Deduplicate(l, "broker-event", e.id, EventFingerprint(e))
             next == l \cup {Entry("broker-event", e.id, EventFingerprint(e))}
  <1>1. \/ r = Reduction(o, l, seen) \/ r = Reduction(o, l, "reconciliation_required")
        \/ seen = "first" /\ AdmitsFill(o, e) /\ r = Reduction(ApplyFill(o, e), next, "applied")
    BY Zenon DEF ReduceFillEvent, Reconcile
  <1>2. seen = "first" => Find(l, "broker-event", e.id) = {}
    BY Zenon DEF Deduplicate
  <1>3. \/ r.order = o /\ r.ledger = l
        \/ /\ seen = "first" /\ r.ledger = next
           /\ AdmitsFill(o, e) /\ r.order = ApplyFill(o, e)
    <2> HIDE DEF r, seen, next
    <2>1. QED
      BY <1>1, ReductionFields
  <1>4. QED
    BY <1>2, <1>3, Zenon

-----------------------------------------------------------------------------
(* Sums of quantities *)

\* A set of subsets of a finite set has a least member.
LEMMA LeastSubset ==
    ASSUME NEW S, IsFiniteSet(S), NEW B, B \subseteq SUBSET S, B # {}
    PROVE  \E m \in B : \A y \in B : y \subseteq m => y = m
  <1>1. B \subseteq FiniteSubsetsOf(S)
    BY FS_Subset DEF FiniteSubsetsOf
  <1>2. \E m \in B : \A y \in B : ~(<<y, m>> \in StrictSubsetOrdering(S))
    BY <1>1, FS_StrictSubsetOrderingWellFounded, WFMin
  <1>3. PICK m \in B : \A y \in B : ~(<<y, m>> \in StrictSubsetOrdering(S))
    BY <1>2
  <1>4. ASSUME NEW y \in B, y \subseteq m, y # m PROVE FALSE
    <2>1. y \in SUBSET S /\ m \in SUBSET S
      OBVIOUS
    <2>2. <<y, m>> \in StrictSubsetOrdering(S)
      BY <2>1, <1>4, Zenon DEF StrictSubsetOrdering
    <2> QED
      BY <2>2, <1>3
  <1> QED
    BY <1>3, <1>4

One(s) == CHOOSE x \in s : TRUE

\* g sums f over every subset of S, one element after another.
Sums(g, f, S) ==
    g = [s \in SUBSET S |-> IF s = {} THEN 0 ELSE f[One(s)] + g[s \ {One(s)}]]

Total(f, S) == (CHOOSE g : Sums(g, f, S))[S]

LEMMA SumsFacts ==
    ASSUME NEW S, NEW f, NEW g, Sums(g, f, S), NEW s \in SUBSET S
    PROVE  /\ s = {} => g[s] = 0
           /\ s # {} => /\ One(s) \in s /\ s \ {One(s)} \in SUBSET S
                        /\ s \ {One(s)} # s /\ s \ {One(s)} \subseteq s
                        /\ g[s] = f[One(s)] + g[s \ {One(s)}]
  <1>1. s # {} => One(s) \in s
    BY DEF One
  <1>2. g[s] = IF s = {} THEN 0 ELSE f[One(s)] + g[s \ {One(s)}]
    <2> DEFINE h == [t \in SUBSET S |-> IF t = {} THEN 0 ELSE f[One(t)] + g[t \ {One(t)}]]
    <2>1. h[s] = IF s = {} THEN 0 ELSE f[One(s)] + g[s \ {One(s)}]
      OBVIOUS
    <2>2. g = h
      BY Zenon DEF Sums
    <2> HIDE DEF h
    <2> QED
      BY <2>1, <2>2
  <1> QED
    BY <1>1, <1>2

LEMMA SumsEmpty ==
    ASSUME NEW S, NEW f, NEW g, Sums(g, f, S)
    PROVE  g[{}] = 0
  <1>1. \A s \in SUBSET S : s = {} => g[s] = 0
    BY SumsFacts
  <1> QED
    BY <1>1

\* Two sums of the same numbers agree on the sets that both are defined on.
LEMMA SumsAgree ==
    ASSUME NEW S, NEW T, NEW f, NEW e, NEW g, NEW h, Sums(g, f, S), Sums(h, e, T),
           NEW U, IsFiniteSet(U), U \subseteq S, U \subseteq T, \A x \in U : f[x] = e[x]
    PROVE  g[U] = h[U]
  <1> DEFINE B == {s \in SUBSET U : g[s] # h[s]}
  <1> SUFFICES ASSUME B # {} PROVE FALSE
    OBVIOUS
  <1>1. PICK m \in B : \A y \in B : y \subseteq m => y = m
    <2>1. B \subseteq SUBSET U
      OBVIOUS
    <2> HIDE DEF B
    <2> QED
      BY <2>1, LeastSubset
  <1>2. m \in SUBSET S /\ m \in SUBSET T /\ m \subseteq U /\ g[m] # h[m]
    OBVIOUS
  <1>3. m # {}
    BY <1>2, SumsEmpty
  <1> DEFINE x == One(m)
             n == m \ {x}
  <1>4. /\ x \in m /\ n \subseteq m /\ n # m /\ g[m] = f[x] + g[n] /\ h[m] = e[x] + h[n]
    BY <1>2, <1>3, SumsFacts
  <1>5. n \notin B
    BY <1>1, <1>4
  <1>6. n \in SUBSET U
    BY <1>2
  <1>7. g[n] = h[n] /\ f[x] = e[x]
    BY <1>2, <1>4, <1>5, <1>6
  <1> QED
    BY <1>2, <1>4, <1>7

\* Every finite set of numbers has its sum.
LEMMA SumsExist ==
    ASSUME NEW S, IsFiniteSet(S), NEW f
    PROVE  \E g : Sums(g, f, S)
  <1> DEFINE B == {s \in SUBSET S : ~\E g : Sums(g, f, s)}
  <1> SUFFICES ASSUME B # {} PROVE FALSE
    OBVIOUS
  <1>1. PICK m \in B : \A y \in B : y \subseteq m => y = m
    <2>1. B \subseteq SUBSET S
      OBVIOUS
    <2> HIDE DEF B
    <2> QED
      BY <2>1, LeastSubset
  <1>2. m \in SUBSET S /\ ~\E g : Sums(g, f, m)
    OBVIOUS
  <1> DEFINE part(s) == CHOOSE g : Sums(g, f, s)
  <1>3. ASSUME NEW u, u \subseteq m, u # m
        PROVE  IsFiniteSet(u) /\ Sums(part(u), f, u)
    <2>1. u \in SUBSET S /\ u \notin B
      BY <1>1, <1>2, <1>3
    <2>2. \E g : Sums(g, f, u)
      BY <2>1
    <2>3. IsFiniteSet(u)
      BY <2>1, FS_Subset
    <2> QED
      BY <2>2, <2>3, Zenon
  <1> DEFINE g == [t \in SUBSET m |-> IF t = {} THEN 0 ELSE f[One(t)] + part(t \ {One(t)})[t \ {One(t)}]]
  <1>4. ASSUME NEW t \in SUBSET m, t # {}
        PROVE  part(t \ {One(t)})[t \ {One(t)}] = g[t \ {One(t)}]
    <2> DEFINE u == t \ {One(t)}
    <2> SUFFICES part(u)[u] = g[u]
      OBVIOUS
    <2>0. One(t) \in t
      BY <1>4 DEF One
    <2>1. u \subseteq m /\ u # m /\ u \in SUBSET m /\ u \in SUBSET u
      BY <2>0
    <2>2. IsFiniteSet(u) /\ Sums(part(u), f, u)
      BY <2>1, <1>3
    <2>3. g[u] = IF u = {} THEN 0 ELSE f[One(u)] + part(u \ {One(u)})[u \ {One(u)}]
      BY <2>1
    <2> HIDE DEF part, g, u
    <2>4. CASE u = {}
      BY <2>2, <2>3, <2>4, SumsEmpty
    <2>5. CASE u # {}
      <3> DEFINE w == u \ {One(u)}
      <3>1. /\ w \subseteq u /\ w # u /\ part(u)[u] = f[One(u)] + part(u)[w]
        BY <2>1, <2>2, <2>5, SumsFacts
      <3>2. w \subseteq m /\ w # m
        BY <3>1, <2>1
      <3>3. IsFiniteSet(w) /\ Sums(part(w), f, w)
        BY <3>2, <1>3
      <3> HIDE DEF w
      <3>4. part(u)[w] = part(w)[w]
        BY <3>1, <3>3, <2>2, SumsAgree
      <3>5. g[u] = f[One(u)] + part(w)[w]
        BY <2>3, <2>5 DEF w
      <3> QED
        BY <3>1, <3>4, <3>5
    <2> QED
      BY <2>4, <2>5
  <1>5. g = [t \in SUBSET m |-> IF t = {} THEN 0 ELSE f[One(t)] + g[t \ {One(t)}]]
    <2> DEFINE h(t) == IF t = {} THEN 0 ELSE f[One(t)] + g[t \ {One(t)}]
    <2>1. ASSUME NEW t \in SUBSET m PROVE g[t] = h(t)
      <3>1. g[t] = IF t = {} THEN 0 ELSE f[One(t)] + part(t \ {One(t)})[t \ {One(t)}]
        OBVIOUS
      <3> HIDE DEF g, part
      <3> QED
        BY <3>1, <1>4
    <2>2. g = [t \in SUBSET m |-> g[t]]
      OBVIOUS
    <2>3. [t \in SUBSET m |-> g[t]] = [t \in SUBSET m |-> h(t)]
      <3> HIDE DEF g, h
      <3> QED
        BY <2>1
    <2> QED
      BY <2>2, <2>3
  <1>6. Sums(g, f, m)
    BY <1>5, Zenon DEF Sums
  <1> QED
    BY <1>2, <1>6, Zenon

LEMMA TotalSums ==
    ASSUME NEW S, IsFiniteSet(S), NEW f
    PROVE  \E g : Sums(g, f, S) /\ g[S] = Total(f, S)
  BY SumsExist, Zenon DEF Total

LEMMA TotalEmpty ==
    ASSUME NEW f
    PROVE  Total(f, {}) = 0
  <1>1. PICK g : Sums(g, f, {}) /\ g[{}] = Total(f, {})
    BY TotalSums, FS_EmptySet
  <1> QED
    BY <1>1, SumsEmpty

\* The sum does not depend on the order of its elements.
LEMMA TotalPick ==
    ASSUME NEW S, IsFiniteSet(S), NEW f, NEW g, Sums(g, f, S), \A x \in S : f[x] \in Int
    PROVE  \A s \in SUBSET S : g[s] \in Int /\ \A x \in s : g[s] = f[x] + g[s \ {x}]
  <1> DEFINE Good(s) == g[s] \in Int /\ \A x \in s : g[s] = f[x] + g[s \ {x}]
             B == {s \in SUBSET S : ~Good(s)}
  <1> SUFFICES ASSUME B # {} PROVE FALSE
    OBVIOUS
  <1>1. PICK m \in B : \A y \in B : y \subseteq m => y = m
    <2>1. B \subseteq SUBSET S
      OBVIOUS
    <2> HIDE DEF B
    <2> QED
      BY <2>1, LeastSubset
  <1>2. m \in SUBSET S /\ ~Good(m)
    OBVIOUS
  <1>3. ASSUME NEW u, u \subseteq m, u # m PROVE Good(u)
    <2>1. u \in SUBSET S /\ u \notin B
      BY <1>1, <1>2, <1>3
    <2> HIDE DEF Good
    <2> QED
      BY <2>1
  <1>4. m # {}
    <2>1. m = {} => g[m] = 0
      BY SumsEmpty
    <2> QED
      BY <2>1, <1>2
  <1> DEFINE a == One(m)
             n == m \ {a}
  <1>5. a \in m /\ n \subseteq m /\ n # m /\ g[m] = f[a] + g[n]
    BY <1>2, <1>4, SumsFacts
  <1>6. Good(n)
    BY <1>3, <1>5
  <1>7. g[m] \in Int
    <2>1. f[a] \in Int /\ g[n] \in Int
      BY <1>2, <1>5, <1>6
    <2> HIDE DEF a, n
    <2> QED
      BY <2>1, <1>5
  <1>8. ASSUME NEW x \in m PROVE g[m] = f[x] + g[m \ {x}]
    <2>1. CASE x = a
      BY <2>1, <1>5
    <2>2. CASE x # a
      <3> DEFINE w == m \ {x}
                 v == m \ {a, x}
      <3>1. x \in n /\ n \ {x} = v
        BY <2>2
      <3>2. g[n] = f[x] + g[v]
        BY <3>1, <1>6
      <3>3. w \subseteq m /\ w # m /\ a \in w /\ w \ {a} = v
        BY <2>2, <1>5
      <3>4. Good(w)
        BY <3>3, <1>3
      <3>5. g[w] = f[a] + g[v]
        BY <3>3, <3>4
      <3>6. v \subseteq m /\ v # m
        BY <1>5
      <3>7. g[v] \in Int
        BY <3>6, <1>3
      <3>8. f[x] \in Int /\ f[a] \in Int
        BY <1>2, <1>5
      <3> HIDE DEF v, w, n, a, Good
      <3> QED
        BY <3>2, <3>5, <3>7, <3>8, <1>5 DEF w
    <2> QED
      BY <2>1, <2>2
  <1> QED
    BY <1>2, <1>7, <1>8

\* One number more.
LEMMA TotalAdd ==
    ASSUME NEW S, IsFiniteSet(S), NEW x, x \notin S, NEW f, \A y \in S \cup {x} : f[y] \in Int
    PROVE  Total(f, S \cup {x}) = Total(f, S) + f[x] /\ Total(f, S) \in Int
  <1> DEFINE T == S \cup {x}
  <1>1. IsFiniteSet(T)
    BY FS_AddElement
  <1>2. PICK g : Sums(g, f, T) /\ g[T] = Total(f, T)
    BY <1>1, TotalSums
  <1>3. PICK h : Sums(h, f, S) /\ h[S] = Total(f, S)
    BY TotalSums
  <1>4. T \ {x} = S /\ x \in T /\ T \in SUBSET T /\ S \in SUBSET S /\ S \subseteq T
    OBVIOUS
  <1> HIDE DEF T
  <1>5. g[T] = f[x] + g[S]
    BY <1>1, <1>2, <1>4, TotalPick DEF T
  <1>6. g[S] = h[S]
    BY <1>2, <1>3, <1>4, SumsAgree
  <1>7. h[S] \in Int
    BY <1>3, <1>4, TotalPick
  <1> QED
    BY <1>2, <1>3, <1>5, <1>6, <1>7 DEF T

\* Only the numbers of the set count.
LEMMA TotalSame ==
    ASSUME NEW S, IsFiniteSet(S), NEW f, NEW e, \A x \in S : f[x] = e[x]
    PROVE  Total(f, S) = Total(e, S)
  <1>1. PICK g : Sums(g, f, S) /\ g[S] = Total(f, S)
    BY TotalSums
  <1>2. PICK h : Sums(h, e, S) /\ h[S] = Total(e, S)
    BY TotalSums
  <1> QED
    BY <1>1, <1>2, SumsAgree

\* The sum changes with one of its numbers as that number does.
LEMMA TotalChange ==
    ASSUME NEW S, IsFiniteSet(S), NEW x \in S, NEW f, NEW e, \A y \in S : f[y] \in Int,
           e[x] \in Int, \A y \in S \ {x} : e[y] = f[y]
    PROVE  Total(e, S) = Total(f, S) + e[x] - f[x]
  <1> DEFINE R == S \ {x}
  <1>1. IsFiniteSet(R) /\ R \cup {x} = S /\ x \notin R
    BY FS_RemoveElement
  <1>2. \A y \in R : f[y] \in Int /\ e[y] \in Int /\ e[y] = f[y]
    OBVIOUS
  <1> HIDE DEF R
  <1>3. Total(f, R \cup {x}) = Total(f, R) + f[x] /\ Total(f, R) \in Int
    BY <1>1, <1>2, TotalAdd
  <1>4. Total(e, R \cup {x}) = Total(e, R) + e[x]
    BY <1>1, <1>2, TotalAdd
  <1>5. Total(e, R) = Total(f, R)
    BY <1>1, <1>2, TotalSame
  <1>6. Total(f, S) = Total(f, R) + f[x] /\ Total(e, S) = Total(f, R) + e[x]
    BY <1>1, <1>3, <1>4, <1>5
  <1>7. f[x] \in Int
    OBVIOUS
  <1> QED
    BY <1>3, <1>6, <1>7
=============================================================================
