---------------------- MODULE LiveReconciliationProofs ----------------------
(*****************************************************************************)
(* Theorems about LiveJournal, for any orders, commands, observations,       *)
(* dispatchers and broker reports, and about LiveReconciliation: what a      *)
(* reconciliation commit may do to a journal that dispatchers, broker        *)
(* evidence, restarts and other operators keep changing, for any of them and *)
(* for any broker snapshots. What is stated of the journal's own actions is  *)
(* the first half; the reconciliation's theorems rest on it.                 *)
(*****************************************************************************)
EXTENDS LiveReconciliation, LiveOrderReducerProofs, FiniteSetTheorems, TLAPS

DispatcherPlaces ==
    [phase : {"idle", "claimed", "sent"}, command : Commands \cup {NoCommand}]

Observations ==
    {[status |-> "absent"]} \cup [status : {"unresolved", "resolved", "conflict"}, event : Evidence]

\* The tables have the columns of their CREATE TABLE statements.
TypeOK ==
    /\ journal \in {"open", "closed", "unclean"}
    /\ orders \in [OrderIds -> Orders \cup {NoOrder}]
    /\ history \in [OrderIds -> SUBSET Orders]
    /\ commands \subseteq [order : OrderIds, command : Commands]
    /\ claims \subseteq [id : CommandIds, version : Nat]
    /\ receipts \subseteq [command : Commands, state : DispatchStates, at : Nat]
    /\ raws \in [RawIds -> Observations]
    /\ dispatcher \in [Dispatchers -> DispatcherPlaces]
    /\ sent \in [CommandIds -> Nat]

\* Every stored order was built by the reducer, so it meets LiveOrder.__post_init__, and
\* its decoding does not raise.
StoredOrdersMeetContract == \A o \in OrderIds : Registered(o) => GoodOrder(orders[o])

\* One row per command id, of a registered order; one claim and one receipt per row.
CommandTablesAgree ==
    /\ \A x, y \in commands : x.command.id = y.command.id => x = y
    /\ \A x \in commands : Registered(x.order)
    /\ \A x, y \in claims : x.id = y.id => x = y
    /\ \A x \in claims : CommandRow(x.id) # {}
    /\ \A x, y \in receipts : x.command.id = y.command.id => x = y
    /\ \A x \in receipts : ClaimOf(x.command.id) # {}

\* What a dispatcher holds in memory is a claim that is on disk.  No two of them hold
\* the same claim, and a command that is still to be sent was not sent before.
DispatchersHoldClaims ==
    /\ \A d \in Dispatchers :
          dispatcher[d].phase # "idle" =>
              /\ \E x \in commands : x.command = dispatcher[d].command
              /\ ClaimOf(dispatcher[d].command.id) # {}
    /\ \A d \in Dispatchers :
          dispatcher[d].phase = "claimed" => sent[dispatcher[d].command.id] = 0
    /\ \A c, d \in Dispatchers :
          /\ dispatcher[c].phase = "claimed" /\ dispatcher[d].phase = "claimed"
          /\ dispatcher[c].command.id = dispatcher[d].command.id
          => c = d

-----------------------------------------------------------------------------
(* The orders *)

\* The order of a NEW command is the third version of what its caller created.
LEMMA SubmittingGood ==
    ASSUME NEW o \in OrderIds, NEW c \in CommandSource[o], c.kind = "new"
    PROVE  /\ GoodOrder(Submitting(o, c)) /\ Submitting(o, c).version = 3
           /\ Submitting(o, c).intent = Intent[o] /\ Submitting(o, c).pending = c
           /\ Submitting(o, c).filled = 0
  <1> DEFINE created == CreateLiveOrder(Intent[o], Now)
             validated == AdvanceLocal(created, "validated", NoCommand, Now)
  <1>0. Intent[o] \in Intents /\ c \in Commands /\ c.boundAt = Now /\ Now \in Nat /\ Now = 1
    BY JournalInputsAssumption DEF Now
  <1>1. GoodOrder(created)
    BY <1>0, CreateGood
  <1>2. /\ created.state = "created" /\ created.updatedAt = Now /\ created.version = 1
        /\ created.intent = Intent[o] /\ created.filled = 0
    BY DEF CreateLiveOrder
  <1> HIDE DEF created
  <1>3. GoodOrder(validated)
    <2>1. MayAdvance(created, "validated", NoCommand, Now)
      BY <1>0, <1>2 DEF MayAdvance
    <2> QED
      BY <2>1, <1>0, <1>1, AdvanceGood
  <1>4. /\ validated.state = "validated" /\ validated.updatedAt = Now /\ validated.version = 2
        /\ validated.intent = Intent[o] /\ validated.filled = 0
    BY <1>1, <1>2, SnapshotFields DEF AdvanceLocal, GoodOrder
  <1> HIDE DEF validated
  <1>5. MayAdvance(validated, "submitting", c, Now)
    BY <1>0, <1>4 DEF MayAdvance, MayBind
  <1>6. GoodOrder(AdvanceLocal(validated, "submitting", c, Now))
    BY <1>0, <1>3, <1>5, AdvanceGood
  <1>7. LET n == AdvanceLocal(validated, "submitting", c, Now)
        IN  n.version = 3 /\ n.intent = Intent[o] /\ n.pending = c /\ n.filled = 0
    BY <1>3, <1>4, SnapshotFields DEF AdvanceLocal, GoodOrder
  <1> QED
    BY <1>6, <1>7 DEF Submitting, validated, created

\* An order that is stored is not the absent one.
LEMMA OrderIsSomething == \A n \in Orders : n # NoOrder
  BY DEF Orders, NoOrder, States

\* A parsed report, correlated with any order, meets the contract of its dataclass.
LEMMA NormalizedContract ==
    ASSUME TypeOK, NEW origin \in RawIds, raws[origin].status # "absent", NEW o, NEW confirmed
    PROVE  LET e == Normalized(origin, o, confirmed)
           IN  /\ EventTimesContract(e)
               /\ IF e.type = "fill" THEN FillEventContract(e) ELSE OrderEventContract(e)
               /\ e.id = raws[origin].event.id /\ e.order = o /\ e.origin = origin
               /\ EventFingerprint(e) = EventFingerprint(raws[origin].event)
  <1> DEFINE e == Normalized(origin, o, confirmed)
             x == raws[origin].event
  <1>1. raws[origin] \in Observations
    BY DEF TypeOK
  <1>2. x \in Evidence
    BY <1>1 DEF Observations
  <1>3. OrderEventContract(x) \/ FillEventContract(x)
    BY <1>2, JournalInputsAssumption
  <1>4. /\ e.id = x.id /\ e.type = x.type /\ e.quantity = x.quantity /\ e.price = x.price
        /\ e.mine = x.mine /\ e.order = o /\ e.origin = origin
        /\ e.receivedAt = 1 /\ e.occurredAt = 0
    BY DEF Normalized, Now, None
  <1> HIDE DEF e, x
  <1>5. EventTimesContract(e)
    BY <1>4 DEF EventTimesContract
  <1>6. IF e.type = "fill" THEN FillEventContract(e) ELSE OrderEventContract(e)
    BY <1>3, <1>4 DEF OrderEventContract, FillEventContract, OrderEventTypes, WorkingChanges
  <1>7. EventFingerprint(e) = EventFingerprint(x)
    BY <1>4 DEF EventFingerprint
  <1> QED
    BY <1>4, <1>5, <1>6, <1>7 DEF e, x

\* The next version of an order, as a reducer builds it.
NextVersion(n, o) == GoodOrder(n) /\ n.version = o.version + 1 /\ n.intent = o.intent

\* reduce_dispatch changes nothing or builds the next version.
LEMMA ReceiptReduces ==
    ASSUME NEW o, GoodOrder(o), NEW c \in Commands, NEW s \in DispatchStates, NEW l
    PROVE  LET n == ReduceDispatch(o, [command |-> c, state |-> s, at |-> Now], l).order
           IN  n = o \/ NextVersion(n, o)
  <1> DEFINE r == [command |-> c, state |-> s, at |-> Now]
             n == ReduceDispatch(o, r, l).order
             m == Snapshot(o, DispatchTarget(o, r), Later(o.updatedAt, r.at), o.pending)
  <1>1. GoodOrder(n)
    BY DispatchGood DEF Now
  <1>2. n = o \/ n = m
    BY DispatchResult
  <1>3. m.version = o.version + 1 /\ m.intent = o.intent
    BY SnapshotFields DEF GoodOrder
  <1> QED
    BY <1>1, <1>2, <1>3 DEF NextVersion

\* So does the reduction of broker evidence.
LEMMA EvidenceReduces ==
    ASSUME TypeOK, NEW origin \in RawIds, raws[origin].status # "absent", NEW o \in OrderIds,
           NEW confirmed, GoodOrder(orders[o])
    PROVE  LET n == Reduced(Normalized(origin, o, confirmed)).order
           IN  n = orders[o] \/ NextVersion(n, orders[o])
  <1> DEFINE e == Normalized(origin, o, confirmed)
             b == orders[o]
  <1>1. /\ EventTimesContract(e) /\ e.order = o
        /\ IF e.type = "fill" THEN FillEventContract(e) ELSE OrderEventContract(e)
    BY NormalizedContract
  <1> HIDE DEF e
  <1>2. CASE e.type = "fill"
    <2>1. Reduced(e) = ReduceFillEvent(b, e, AppliedLedger)
      BY <1>1, <1>2 DEF Reduced
    <2>2. Reduced(e).order = b \/ (AdmitsFill(b, e) /\ Reduced(e).order = ApplyFill(b, e))
      BY <2>1, FillEventResult
    <2>3. AdmitsFill(b, e) => GoodOrder(ApplyFill(b, e))
      BY <1>1, <1>2, FillGood
    <2>4. ApplyFill(b, e).version = b.version + 1 /\ ApplyFill(b, e).intent = b.intent
      BY ApplyFillFields DEF GoodOrder
    <2> QED
      BY <2>2, <2>3, <2>4 DEF NextVersion, e
  <1>3. CASE e.type # "fill"
    <2>1. Reduced(e) = ReduceOrderEvent(b, e, AppliedLedger)
      BY <1>1, <1>3 DEF Reduced
    <2>2. Reduced(e).order = b \/ (Admits(b, e) /\ Reduced(e).order = ApplyOrderEvent(b, e))
      BY <2>1, OrderEventResult
    <2>3. Admits(b, e) => GoodOrder(ApplyOrderEvent(b, e))
      BY <1>1, <1>3, OrderEventGood
    <2>4. ApplyOrderEvent(b, e).version = b.version + 1 /\ ApplyOrderEvent(b, e).intent = b.intent
      BY <1>1, <1>3, ApplyOrderEventFields DEF GoodOrder
    <2> QED
      BY <2>2, <2>3, <2>4 DEF NextVersion, e
  <1> QED
    BY <1>2, <1>3

\* _write_order writes one order and adds one row to its history.
LEMMA WriteOrderFacts ==
    ASSUME TypeOK, NEW x \in OrderIds, NEW n \in Orders, WriteOrder(x, n)
    PROVE  /\ orders' \in [OrderIds -> Orders \cup {NoOrder}]
           /\ history' \in [OrderIds -> SUBSET Orders]
           /\ orders'[x] = n /\ history'[x] = history[x] \cup {n}
           /\ \A o \in OrderIds \ {x} : orders'[o] = orders[o] /\ history'[o] = history[o]
  BY DEF TypeOK, WriteOrder

\* What a step may do to an order.
OrderMoves(o) ==
    \/ orders'[o] = orders[o] /\ history'[o] = history[o]
    \/ /\ ~Registered(o) /\ GoodOrder(orders'[o])
       /\ orders'[o].version = 3 /\ orders'[o].intent = Intent[o]
       /\ history'[o] = history[o] \cup {orders'[o]}
    \/ /\ Registered(o) /\ NextVersion(orders'[o], orders[o])
       /\ history'[o] = history[o] \cup {orders'[o]}

\* The order of the command that a dispatcher holds.
LEMMA HeldCommand ==
    ASSUME TypeOK, CommandTablesAgree, DispatchersHoldClaims,
           NEW d \in Dispatchers, dispatcher[d].phase # "idle"
    PROVE  LET c == dispatcher[d].command
               o == (CHOOSE row \in commands : row.command = c).order
           IN  c \in Commands /\ o \in OrderIds /\ Registered(o) /\ c.id \in CommandIds
  <1> DEFINE c == dispatcher[d].command
             x == CHOOSE row \in commands : row.command = c
  <1>1. \E row \in commands : row.command = c
    BY DEF DispatchersHoldClaims
  <1>2. x \in commands /\ x.command = c
    BY <1>1
  <1>3. x.order \in OrderIds /\ x.command \in Commands
    BY <1>2 DEF TypeOK
  <1>4. c.id \in CommandIds
    BY <1>2, <1>3, CommandIsSomething
  <1> QED
    BY <1>2, <1>3, <1>4 DEF CommandTablesAgree

\* live_order_history has every version of an order from its registration on, once.
HistoryContiguous ==
    \A o \in OrderIds :
        IF Registered(o)
        THEN /\ orders[o] \in history[o] /\ orders[o].version >= 3
             /\ {h.version : h \in history[o]} = 3 .. orders[o].version
             /\ \A g, h \in history[o] : g.version = h.version => g = h
             /\ \A h \in history[o] : h.intent = orders[o].intent
        ELSE history[o] = {}

\* The version that a caller expects is that of the current order, and of no other one.
LEMMA ExpectedIsCurrent ==
    ASSUME HistoryContiguous, NEW o \in OrderIds, NEW c, RegisterCommand(o, c)
    PROVE  /\ Registered(o)
           /\ \/ MayRequestCancel(orders[o], c, Now) /\ WriteOrder(o, RequestCancel(orders[o], c, Now))
              \/ MayBindOperation(orders[o], c, Now) /\ WriteOrder(o, BindOperation(orders[o], c, Now))
  <1>1. Registered(o)
    BY DEF RegisterCommand
  <1>2. PICK seen \in history[o] :
           /\ seen.version = orders[o].version
           /\ \/ MayRequestCancel(seen, c, Now) /\ WriteOrder(o, RequestCancel(seen, c, Now))
              \/ MayBindOperation(seen, c, Now) /\ WriteOrder(o, BindOperation(seen, c, Now))
    BY DEF RegisterCommand, VersionExpected
  <1>3. seen = orders[o]
    BY <1>1, <1>2 DEF HistoryContiguous
  <1> QED
    BY <1>1, <1>2, <1>3

LEMMA OrderStep ==
    ASSUME TypeOK, StoredOrdersMeetContract, HistoryContiguous, CommandTablesAgree,
           DispatchersHoldClaims, [Next]_vars
    PROVE  /\ orders' \in [OrderIds -> Orders \cup {NoOrder}]
           /\ history' \in [OrderIds -> SUBSET Orders]
           /\ \A o \in OrderIds : OrderMoves(o)
  <1> DEFINE Goal == /\ orders' \in [OrderIds -> Orders \cup {NoOrder}]
                     /\ history' \in [OrderIds -> SUBSET Orders]
                     /\ \A o \in OrderIds : OrderMoves(o)
  <1>0. ASSUME UNCHANGED orderTables PROVE Goal
    BY <1>0 DEF orderTables, TypeOK, OrderMoves
  <1>1. ASSUME NEW x \in OrderIds, NEW n, Registered(x), NextVersion(n, orders[x]), WriteOrder(x, n)
        PROVE  Goal
    <2>1. n \in Orders
      BY <1>1 DEF NextVersion, GoodOrder
    <2> QED
      BY <2>1, <1>1, WriteOrderFacts DEF OrderMoves
  <1>2. ASSUME NEW o \in OrderIds, NEW c \in CommandSource[o], RegisterNewOrder(o, c) PROVE Goal
    <2>1. /\ ~Registered(o) /\ WriteOrder(o, Submitting(o, c)) /\ c.kind = "new"
      BY <1>2 DEF RegisterNewOrder
    <2>2. /\ GoodOrder(Submitting(o, c)) /\ Submitting(o, c).version = 3
          /\ Submitting(o, c).intent = Intent[o]
      BY <2>1, SubmittingGood
    <2>3. Submitting(o, c) \in Orders
      BY <2>2 DEF GoodOrder
    <2> HIDE DEF Goal
    <2>4. /\ orders' \in [OrderIds -> Orders \cup {NoOrder}]
          /\ history' \in [OrderIds -> SUBSET Orders]
          /\ orders'[o] = Submitting(o, c) /\ history'[o] = history[o] \cup {Submitting(o, c)}
          /\ \A x \in OrderIds \ {o} : orders'[x] = orders[x] /\ history'[x] = history[x]
      BY <2>1, <2>3, WriteOrderFacts
    <2> QED
      BY <2>1, <2>2, <2>4 DEF OrderMoves, Goal
  <1>3. ASSUME NEW o \in OrderIds, NEW c \in CommandSource[o], RegisterCommand(o, c) PROVE Goal
    <2>1. Registered(o) /\ GoodOrder(orders[o]) /\ c \in Commands
      BY <1>3, JournalInputsAssumption, ExpectedIsCurrent DEF StoredOrdersMeetContract
    <2>2. orders[o] \in Orders /\ Now \in Nat
      BY <2>1 DEF GoodOrder, Now
    <2>3. CASE MayRequestCancel(orders[o], c, Now) /\ WriteOrder(o, RequestCancel(orders[o], c, Now))
      <3>1. NextVersion(RequestCancel(orders[o], c, Now), orders[o])
        <4>1. GoodOrder(RequestCancel(orders[o], c, Now))
          BY <2>1, <2>2, <2>3, CancelGood
        <4>2. LET n == Snapshot(orders[o], "cancel_pending", Now, c)
              IN  n.version = orders[o].version + 1 /\ n.intent = orders[o].intent
          BY <2>2, SnapshotFields
        <4> QED
          BY <4>1, <4>2 DEF RequestCancel, NextVersion
      <3> QED
        BY <3>1, <2>1, <2>3, <1>1
    <2>4. CASE MayBindOperation(orders[o], c, Now) /\ WriteOrder(o, BindOperation(orders[o], c, Now))
      <3>1. NextVersion(BindOperation(orders[o], c, Now), orders[o])
        BY <2>1, <2>2, <2>4, OperateGood, SnapshotFields DEF BindOperation, NextVersion
      <3> QED
        BY <3>1, <2>1, <2>4, <1>1
    <2> QED
      BY <2>3, <2>4, <1>3, ExpectedIsCurrent
  <1>4. ASSUME NEW d \in Dispatchers, NEW s \in DispatchStates, RecordDispatchReceipt(d, s) PROVE Goal
    <2> DEFINE c == dispatcher[d].command
               o == (CHOOSE row \in commands : row.command = c).order
               n == ReduceDispatch(orders[o], [command |-> c, state |-> s, at |-> Now],
                                   AppliedLedger).order
    <2>1. c \in Commands /\ o \in OrderIds /\ Registered(o)
      BY <1>4, HeldCommand DEF RecordDispatchReceipt
    <2>2. n = orders[o] \/ NextVersion(n, orders[o])
      BY <2>1, ReceiptReduces DEF StoredOrdersMeetContract
    <2>3. UNCHANGED orderTables \/ (n # orders[o] /\ WriteOrder(o, n))
      BY <1>4 DEF RecordDispatchReceipt, orderTables
    <2> HIDE DEF n, o, Goal
    <2> QED
      BY <2>1, <2>2, <2>3, <1>0, <1>1
  <1>5. ASSUME NEW r \in RawIds, NEW origin \in RawIds, NEW x \in Correlations,
               ApplyNormalizedEvent(r, origin, x[1], x[2])
        PROVE  Goal
    <2> DEFINE o == x[1]
               e == Normalized(origin, o, x[2])
               n == Reduced(e).order
    <2>1. raws[origin].status # "absent"
      BY <1>5 DEF ApplyNormalizedEvent
    <2>2. e.order = o
      BY DEF Normalized
    <2>3. \/ UNCHANGED orderTables
          \/ KnownOrder(e.order) # NoId /\ n # orders[e.order] /\ WriteOrder(e.order, n)
      BY <1>5 DEF ApplyNormalizedEvent, ProvenanceConflict, Redelivered, Uncorrelated, Correlated
    <2>4. KnownOrder(o) # NoId => o \in OrderIds /\ Registered(o)
      BY DEF KnownOrder
    <2>5. o \in OrderIds /\ Registered(o) => n = orders[o] \/ NextVersion(n, orders[o])
      BY <2>1, EvidenceReduces DEF StoredOrdersMeetContract
    <2> HIDE DEF n, e, o, Goal
    <2> QED
      BY <2>2, <2>3, <2>4, <2>5, <1>0, <1>1
  <1>6. ASSUME NEW d \in Dispatchers, NEW row \in commands, ClaimDispatch(d, row) PROVE Goal
    BY <1>0, <1>6 DEF ClaimDispatch
  <1>7. ASSUME NEW d \in Dispatchers, Send(d) PROVE Goal
    BY <1>0, <1>7 DEF Send, tables
  <1>8. ASSUME NEW r \in RawIds, NEW e \in Evidence, AppendRawObservation(r, e) PROVE Goal
    BY <1>0, <1>8 DEF AppendRawObservation
  <1>9. CASE Close \/ Crash \/ Resume \/ UNCHANGED vars
    BY <1>0, <1>9 DEF Close, Crash, Resume, tables, vars
  <1> QED
    BY <1>2, <1>3, <1>4, <1>5, <1>6, <1>7, <1>8, <1>9 DEF Next

-----------------------------------------------------------------------------
(* Dispatch *)

\* The part of the invariant that the dispatchers depend on.
DispatchInv ==
    /\ TypeOK /\ StoredOrdersMeetContract /\ HistoryContiguous
    /\ CommandTablesAgree /\ DispatchersHoldClaims /\ SentAtMostOnce

\* LiveJournal has no operator: reconciliation commits are LiveReconciliation's.
NoOverlay == commits = {} /\ resolutions = {}

OverlayKinds == {"claim", "observation", "requirement"}

\* What the records need of the commits and resolutions, there or not.
OverlayOK ==
    /\ IsFiniteSet(commits) /\ IsFiniteSet(resolutions)
    /\ \A x \in resolutions : x.kind \in OverlayKinds

OverlayCount == 2 * Cardinality(commits) + Cardinality(resolutions)

Dispositions == {"applied", "unresolved", "event_conflict"}

\* One row per event id, of an observation that is stored; what is not in conflict was
\* parsed from the observation that it is applied for.
EventRowsAgree ==
    /\ \A x, y \in events : x.event.id = y.event.id => x = y
    /\ \A x \in events :
          /\ x.raw \in RawIds /\ x.disposition \in Dispositions
          /\ x.event.origin = x.raw => x.event.id = raws[x.raw].event.id
    /\ \A q \in requirements :
          q.raw \in RawIds /\ q.order \in OrderIds \cup {NoId} /\ raws[q.raw].status = "conflict"

\* The first half of EvidenceAppliedOrHeld.
ResolvedIsApplied ==
    \A r \in RawIds :
        raws[r].status = "resolved" =>
            \E row \in EventRow(raws[r].event.id) :
               /\ row.disposition = "applied"
               /\ EventFingerprint(row.event) = EventFingerprint(raws[r].event)

EvidenceInv ==
    /\ EventRowsAgree /\ EvidenceVerifies /\ FillsVerify /\ ResolvedIsApplied
    /\ \A f \in fills : f.order \in OrderIds

RegisteredOrders == {o \in OrderIds : Registered(o)}

Held(statuses) == {r \in RawIds : raws[r].status \in statuses}

Stored == {"unresolved", "resolved", "conflict"}

Settled == {"resolved", "conflict"}

Migrations(version) == {<<"schema-migration", v>> : v \in 2 .. version}

\* The migrations on record are those up to the stored version, and an open journal has
\* the current one.
MigrationsRecorded ==
    /\ StoredVersion \in 1 .. SchemaVersion
    /\ {x \in records : x[1] = "schema-migration"} = Migrations(StoredVersion)
    /\ journal = "open" => StoredVersion = SchemaVersion

TablesFinite ==
    /\ IsFiniteSet(RegisteredOrders) /\ IsFiniteSet(commands) /\ IsFiniteSet(claims)
    /\ IsFiniteSet(receipts) /\ IsFiniteSet(Held(Stored)) /\ IsFiniteSet(Held(Settled))
    /\ IsFiniteSet(events) /\ IsFiniteSet(requirements) /\ IsFiniteSet(records)

RowCount ==
    Cardinality(RegisteredOrders) + Cardinality(commands) + Cardinality(claims)
        + Cardinality(receipts) + Cardinality(Held(Stored)) + Cardinality(Held(Settled))
        + Cardinality(events) + Cardinality(requirements)

\* Every row appended its own record, and every record took its own sequence number.
RowsRecorded ==
    /\ \A q \in requirements : q.id \in 1 .. Cardinality(requirements)
    /\ records = ExpectedRecords
    /\ sequence = Cardinality(records) /\ sequence = StoredVersion + RowCount + OverlayCount

\* The tables agree, whatever operators have committed ...
TablesInv ==
    /\ DispatchInv /\ OverlayOK /\ EvidenceInv
    /\ MigrationsRecorded /\ TablesFinite /\ RowsRecorded

\* ... and when there is no operator.
JournalInv == TablesInv /\ NoOverlay

\* Orders are never removed, and stay good.
LEMMA StaysRegistered ==
    ASSUME DispatchInv, [Next]_vars
    PROVE  /\ \A o \in OrderIds : Registered(o) => Registered(o)'
           /\ StoredOrdersMeetContract'
  <1>1. \A o \in OrderIds : OrderMoves(o)
    BY OrderStep DEF DispatchInv
  <1>2. ASSUME NEW o \in OrderIds
        PROVE  (Registered(o) => Registered(o)') /\ (Registered(o)' => GoodOrder(orders'[o]))
    <2>1. CASE orders'[o] = orders[o]
      BY <2>1 DEF Registered, DispatchInv, StoredOrdersMeetContract
    <2>2. CASE GoodOrder(orders'[o])
      BY <2>2, OrderIsSomething DEF Registered, GoodOrder
    <2> QED
      BY <1>1, <2>1, <2>2 DEF OrderMoves, NextVersion
  <1> QED
    BY <1>2 DEF StoredOrdersMeetContract, Registered

\* The rows that a claim id or a command id stands for, in the next state.
LEMMA RowsGrow ==
    ASSUME NEW id
    PROVE  /\ claims \subseteq claims' => ClaimOf(id) \subseteq ClaimOf(id)'
           /\ commands \subseteq commands' => CommandRow(id) \subseteq CommandRow(id)'
           /\ receipts \subseteq receipts' => ReceiptOf(id) \subseteq ReceiptOf(id)'
  BY DEF ClaimOf, CommandRow, ReceiptOf

\* Registering a command leaves the dispatchers alone.
LEMMA RegisterDispatch ==
    ASSUME DispatchInv, [Next]_vars, NEW o \in OrderIds, NEW c \in CommandSource[o],
           RegisterNewOrder(o, c) \/ RegisterCommand(o, c)
    PROVE  CommandTablesAgree' /\ DispatchersHoldClaims' /\ SentAtMostOnce'
  <1> DEFINE new == [order |-> o, command |-> c]
  <1>0. TypeOK /\ CommandTablesAgree /\ DispatchersHoldClaims /\ SentAtMostOnce
    BY DEF DispatchInv
  <1>1. /\ commands' = commands \cup {new} /\ CommandRow(c.id) = {}
        /\ UNCHANGED <<claims, receipts, dispatcher, sent>>
    BY DEF RegisterNewOrder, RegisterCommand
  <1>2. Registered(o)'
    <2>1. Registered(o) \/ (orders'[o] = Submitting(o, c) /\ c.kind = "new")
      <3>1. CASE RegisterNewOrder(o, c)
        <4>1. orders' = [orders EXCEPT ![o] = Submitting(o, c)] /\ c.kind = "new"
          BY <3>1 DEF RegisterNewOrder, WriteOrder
        <4> QED
          BY <4>1, <1>0 DEF TypeOK
      <3>2. CASE RegisterCommand(o, c)
        BY <3>2 DEF RegisterCommand
      <3> QED
        BY <3>1, <3>2
    <2>2. c.kind = "new" => Submitting(o, c) # NoOrder
      BY SubmittingGood, OrderIsSomething DEF GoodOrder
    <2> QED
      BY <2>1, <2>2, StaysRegistered DEF Registered
  <1>3. new.command = c /\ new.order = o
    OBVIOUS
  <1> HIDE DEF new
  <1>4. \A x \in commands : x.command.id # c.id
    BY <1>1 DEF CommandRow
  <1>5. \A x, y \in commands' : x.command.id = y.command.id => x = y
    BY <1>0, <1>1, <1>3, <1>4 DEF CommandTablesAgree
  <1>6. \A x \in commands' : Registered(x.order)'
    <2>1. \A x \in commands : x.order \in OrderIds /\ Registered(x.order)
      BY <1>0 DEF TypeOK, CommandTablesAgree
    <2> QED
      BY <2>1, <1>1, <1>2, <1>3, StaysRegistered
  <1>7. \A x \in claims' : (CommandRow(x.id) # {})'
    BY <1>0, <1>1 DEF CommandTablesAgree, CommandRow
  <1>8. CommandTablesAgree'
    BY <1>0, <1>1, <1>5, <1>6, <1>7 DEF CommandTablesAgree, ClaimOf
  <1>9. DispatchersHoldClaims' /\ SentAtMostOnce'
    BY <1>0, <1>1 DEF DispatchersHoldClaims, SentAtMostOnce, ClaimOf
  <1> QED
    BY <1>8, <1>9

\* A claim is taken by one dispatcher.
LEMMA ClaimDispatchKeeps ==
    ASSUME DispatchInv, [Next]_vars, NEW d \in Dispatchers, NEW row \in commands,
           ClaimDispatch(d, row)
    PROVE  CommandTablesAgree' /\ DispatchersHoldClaims' /\ SentAtMostOnce'
  <1> DEFINE id == row.command.id
             new == [id |-> id, version |-> orders[row.order].version]
  <1>0. TypeOK /\ CommandTablesAgree /\ DispatchersHoldClaims /\ SentAtMostOnce
    BY DEF DispatchInv
  <1>1. /\ claims' = claims \cup {new} /\ ClaimOf(id) = {}
        /\ UNCHANGED <<commands, receipts, sent>>
        /\ dispatcher' = [dispatcher EXCEPT ![d] = [phase |-> "claimed", command |-> row.command]]
    BY DEF ClaimDispatch, Claimable
  <1>2. /\ dispatcher'[d].phase = "claimed" /\ dispatcher'[d].command = row.command
        /\ \A x \in Dispatchers \ {d} : dispatcher'[x] = dispatcher[x]
    BY <1>0, <1>1 DEF TypeOK
  <1>3. row.order \in OrderIds /\ row.command \in Commands /\ id \in CommandIds
    BY <1>0, CommandIsSomething DEF TypeOK
  <1>4. sent[id] = 0
    <2>1. sent[id] \in Nat /\ sent[id] <= 1 /\ sent[id] # 1
      BY <1>0, <1>1, <1>3 DEF SentAtMostOnce, TypeOK
    <2> QED
      BY <2>1
  <1>5. new.id = id
    OBVIOUS
  <1> HIDE DEF new
  <1>6. \A y \in claims : y.id # id
    BY <1>1 DEF ClaimOf
  <1>7. \A z : ClaimOf(z) # {} => ClaimOf(z)' # {}
    BY <1>1, RowsGrow
  <1>9. CommandTablesAgree'
    <2>1. \A x, y \in claims' : x.id = y.id => x = y
      BY <1>0, <1>1, <1>5, <1>6 DEF CommandTablesAgree
    <2>2. \A x \in claims' : (CommandRow(x.id) # {})'
      BY <1>0, <1>1, <1>5 DEF CommandTablesAgree, CommandRow
    <2>3. \A x \in commands' : Registered(x.order)'
      BY <1>0, <1>1, StaysRegistered DEF TypeOK, CommandTablesAgree
    <2> QED
      BY <2>1, <2>2, <2>3, <1>0, <1>1, <1>7 DEF CommandTablesAgree
  <1>10. \A x \in Dispatchers \ {d} : dispatcher[x].phase # "idle" => dispatcher[x].command.id # id
    BY <1>0, <1>1 DEF DispatchersHoldClaims
  <1>11. DispatchersHoldClaims'
    <2>1. ASSUME NEW x \in Dispatchers, dispatcher'[x].phase # "idle"
          PROVE  /\ \E y \in commands' : y.command = dispatcher'[x].command
                 /\ \E y \in claims' : y.id = dispatcher'[x].command.id
      BY <2>1, <1>0, <1>1, <1>2, <1>5 DEF DispatchersHoldClaims, ClaimOf
    <2>2. \A x \in Dispatchers :
             dispatcher'[x].phase = "claimed" => sent'[dispatcher'[x].command.id] = 0
      BY <1>0, <1>1, <1>2, <1>4 DEF DispatchersHoldClaims
    <2>3. \A x, y \in Dispatchers :
             /\ dispatcher'[x].phase = "claimed" /\ dispatcher'[y].phase = "claimed"
             /\ dispatcher'[x].command.id = dispatcher'[y].command.id
             => x = y
      BY <1>0, <1>2, <1>10 DEF DispatchersHoldClaims
    <2> QED
      BY <2>1, <2>2, <2>3 DEF DispatchersHoldClaims, ClaimOf
  <1>12. SentAtMostOnce'
    BY <1>0, <1>1, <1>7 DEF SentAtMostOnce
  <1> QED
    BY <1>9, <1>11, <1>12

\* The only send of a claim.
LEMMA SendKeeps ==
    ASSUME DispatchInv, [Next]_vars, NEW d \in Dispatchers, Send(d)
    PROVE  CommandTablesAgree' /\ DispatchersHoldClaims' /\ SentAtMostOnce'
  <1> DEFINE id == dispatcher[d].command.id
  <1>0. TypeOK /\ CommandTablesAgree /\ DispatchersHoldClaims /\ SentAtMostOnce
    BY DEF DispatchInv
  <1>1. /\ dispatcher[d].phase = "claimed" /\ UNCHANGED <<commands, claims, receipts, orders>>
        /\ sent' = [sent EXCEPT ![id] = @ + 1]
        /\ dispatcher' = [dispatcher EXCEPT ![d].phase = "sent"]
    BY DEF Send, tables, commandTables, orderTables
  <1>2. id \in CommandIds
    BY <1>0, <1>1, HeldCommand
  <1>3. sent[id] = 0 /\ ClaimOf(id) # {}
    BY <1>0, <1>1 DEF DispatchersHoldClaims
  <1>4. sent'[id] = 1 /\ \A c \in CommandIds \ {id} : sent'[c] = sent[c]
    BY <1>0, <1>1, <1>2, <1>3 DEF TypeOK
  <1>5. /\ dispatcher'[d].phase = "sent" /\ dispatcher'[d].command = dispatcher[d].command
        /\ \A x \in Dispatchers \ {d} : dispatcher'[x] = dispatcher[x]
    <2>1. dispatcher[d] \in DispatcherPlaces
      BY <1>0 DEF TypeOK
    <2> QED
      BY <2>1, <1>0, <1>1 DEF TypeOK, DispatcherPlaces
  <1>6. \A x \in Dispatchers \ {d} :
           dispatcher[x].phase = "claimed" => dispatcher[x].command.id # id
    BY <1>0, <1>1 DEF DispatchersHoldClaims
  <1>7. CommandTablesAgree'
    BY <1>0, <1>1 DEF CommandTablesAgree, ClaimOf, CommandRow, Registered
  <1>8. DispatchersHoldClaims'
    <2>1. \A x \in Dispatchers :
             dispatcher'[x].phase # "idle" =>
                 /\ \E y \in commands' : y.command = dispatcher'[x].command
                 /\ \E y \in claims' : y.id = dispatcher'[x].command.id
      BY <1>0, <1>1, <1>5 DEF DispatchersHoldClaims, ClaimOf
    <2>2. ASSUME NEW x \in Dispatchers, dispatcher'[x].phase = "claimed"
          PROVE  sent'[dispatcher'[x].command.id] = 0
      <3>1. x # d /\ dispatcher'[x] = dispatcher[x]
        BY <2>2, <1>5
      <3>2. dispatcher[x].command.id \in CommandIds
        BY <3>1, <2>2, <1>0, HeldCommand
      <3> QED
        BY <3>1, <3>2, <2>2, <1>0, <1>4, <1>6 DEF DispatchersHoldClaims
    <2>3. \A x, y \in Dispatchers :
             /\ dispatcher'[x].phase = "claimed" /\ dispatcher'[y].phase = "claimed"
             /\ dispatcher'[x].command.id = dispatcher'[y].command.id
             => x = y
      BY <1>0, <1>5 DEF DispatchersHoldClaims
    <2> QED
      BY <2>1, <2>2, <2>3 DEF DispatchersHoldClaims, ClaimOf
  <1>9. SentAtMostOnce'
    BY <1>0, <1>1, <1>3, <1>4 DEF SentAtMostOnce, ClaimOf
  <1> QED
    BY <1>7, <1>8, <1>9

\* A receipt is recorded for a claim, once.
LEMMA ReceiptKeeps ==
    ASSUME DispatchInv, [Next]_vars, NEW d \in Dispatchers, NEW s \in DispatchStates,
           RecordDispatchReceipt(d, s)
    PROVE  CommandTablesAgree' /\ DispatchersHoldClaims' /\ SentAtMostOnce'
  <1> DEFINE c == dispatcher[d].command
             new == [command |-> c, state |-> s, at |-> Now]
  <1>0. TypeOK /\ CommandTablesAgree /\ DispatchersHoldClaims /\ SentAtMostOnce
    BY DEF DispatchInv
  <1>1. /\ dispatcher[d].phase = "sent" /\ UNCHANGED <<commands, claims, sent>>
        /\ dispatcher' = [dispatcher EXCEPT ![d] = Idle]
        /\ receipts' = receipts \/ (receipts' = receipts \cup {new} /\ ReceiptOf(c.id) = {})
    BY DEF RecordDispatchReceipt, ReceiptRecordable
  <1>2. new.command = c
    OBVIOUS
  <1> HIDE DEF new
  <1>3. /\ dispatcher'[d].phase = "idle"
        /\ \A x \in Dispatchers \ {d} : dispatcher'[x] = dispatcher[x]
    BY <1>0, <1>1 DEF TypeOK, Idle
  <1>4. DispatchersHoldClaims' /\ SentAtMostOnce'
    BY <1>0, <1>1, <1>3 DEF DispatchersHoldClaims, SentAtMostOnce, ClaimOf
  <1>5. ClaimOf(c.id) # {}
    BY <1>0, <1>1 DEF DispatchersHoldClaims
  <1>6. \A x, y \in receipts' : x.command.id = y.command.id => x = y
    BY <1>0, <1>1, <1>2 DEF CommandTablesAgree, ReceiptOf
  <1>7. \A x \in receipts' : (ClaimOf(x.command.id) # {})'
    BY <1>0, <1>1, <1>2, <1>5 DEF CommandTablesAgree, ClaimOf
  <1>8. \A x \in commands' : Registered(x.order)'
    BY <1>0, <1>1, StaysRegistered DEF TypeOK, CommandTablesAgree
  <1>9. CommandTablesAgree'
    BY <1>0, <1>1, <1>6, <1>7, <1>8 DEF CommandTablesAgree, CommandRow
  <1> QED
    BY <1>4, <1>9

\* The observations keep their shape: status changes, the payload stays.
LEMMA SettleRaws ==
    ASSUME TypeOK, NEW e, NEW r \in RawIds, raws[r].status # "absent", NEW disposition, NEW reason,
           NEW status \in {"none", "resolved", "conflict"},
           Settle(e, r, disposition, reason, status)
    PROVE  /\ raws' \in [RawIds -> Observations]
           /\ \A x \in RawIds : x # r => raws'[x] = raws[x]
           /\ status = "none" => raws' = raws
           /\ status # "none" => raws'[r].status = status
           /\ raws'[r].status # "absent" /\ raws'[r].event = raws[r].event
  <1>1. raws' = IF status = "none" THEN raws ELSE [raws EXCEPT ![r].status = status]
    BY DEF Settle
  <1>2. raws[r] \in [status : {"unresolved", "resolved", "conflict"}, event : Evidence]
    BY DEF TypeOK, Observations
  <1>3. CASE status = "none"
    BY <1>1, <1>3 DEF TypeOK
  <1>4. CASE status # "none"
    <2> DEFINE x == [raws[r] EXCEPT !.status = status]
    <2>1. /\ x \in [status : {"unresolved", "resolved", "conflict"}, event : Evidence]
          /\ x.status = status /\ x.event = raws[r].event
      BY <1>2, <1>4
    <2>2. x \in Observations
      BY <2>1 DEF Observations
    <2>3. raws' = [raws EXCEPT ![r] = x]
      BY <1>1, <1>4
    <2> HIDE DEF x
    <2> QED
      BY <2>1, <2>2, <2>3, <1>4 DEF TypeOK
  <1> QED
    BY <1>3, <1>4

\* Which rows one application may write.
Outcome(e, r) ==
    \/ /\ e.origin # r /\ EventRow(e.id) = {}
       /\ Settle(e, r, "event_conflict", "observation_provenance_conflict", "conflict")
       /\ UNCHANGED <<orderTables, fills>>
    \/ /\ e.origin # r /\ EventRow(e.id) # {}
       /\ Settle(e, r, "none", "observation_provenance_conflict", "conflict")
       /\ UNCHANGED <<orderTables, fills>>
    \/ /\ e.origin = r /\ \E row \in EventRow(e.id) : ExactApplied(row, e)
       /\ Settle(e, r, "none", "none", "resolved")
       /\ UNCHANGED <<orderTables, fills>>
    \/ /\ e.origin = r /\ \E row \in EventRow(e.id) : ~ExactApplied(row, e)
       /\ \E reason \in {"prior_application_not_applied", "event_conflict"} :
             Settle(e, r, "none", reason, "conflict")
       /\ UNCHANGED <<orderTables, fills>>
    \/ /\ e.origin = r /\ EventRow(e.id) = {}
       /\ Settle(e, r, "unresolved", "none", "none")
       /\ UNCHANGED <<orderTables, fills>>
    \/ /\ e.origin = r /\ EventRow(e.id) = {}
       /\ Settle(e, r, "unresolved", "reducer_reconciliation", "conflict")
       /\ UNCHANGED <<orderTables, fills>>
    \/ /\ e.origin = r /\ EventRow(e.id) = {}
       /\ Settle(e, r, "event_conflict", "fill_id_conflict", "conflict")
       /\ UNCHANGED <<orderTables, fills>>
    \/ /\ e.origin = r /\ EventRow(e.id) = {} /\ KnownOrder(e.order) # NoId
       /\ Settle(e, r, "applied", "none", "resolved")
       /\ ~FillRecorded(e)
       /\ Reduced(e).disposition \notin {"event_conflict", "reconciliation_required"}
       /\ IF Reduced(e).order # orders[e.order]
          THEN WriteOrder(e.order, Reduced(e).order) ELSE UNCHANGED orderTables
       /\ fills' = IF e.type = "fill"
                   THEN fills \cup {[id |-> e.fill, order |-> e.order, event |-> e.id,
                                     quantity |-> e.quantity, price |-> e.price]}
                   ELSE fills

LEMMA ApplySettles ==
    ASSUME NEW r \in RawIds, NEW origin \in RawIds, NEW o, NEW confirmed,
           ApplyNormalizedEvent(r, origin, o, confirmed)
    PROVE  /\ journal = "open" /\ raws[origin].status # "absent"
           /\ raws[r].status = "unresolved"
           /\ UNCHANGED <<journal, commands, claims, receipts, commits, resolutions,
                          dispatcher, sent>>
           /\ Outcome(Normalized(origin, o, confirmed), r)
  <1> DEFINE e == Normalized(origin, o, confirmed)
  <1>1. /\ journal = "open" /\ raws[origin].status # "absent" /\ raws[r].status = "unresolved"
        /\ ProvenanceConflict(e, r) \/ Redelivered(e, r) \/ Uncorrelated(e, r) \/ Correlated(e, r)
    BY DEF ApplyNormalizedEvent
  <1>2. UNCHANGED <<journal, commands, claims, receipts, commits, resolutions, dispatcher, sent>>
    BY DEF ApplyNormalizedEvent, commandTables, overlays
  <1> SUFFICES Outcome(e, r)
    BY <1>1, <1>2
  <1> HIDE DEF e
  <1>3. CASE ProvenanceConflict(e, r)
    <2>1. CASE EventRow(e.id) = {}
      BY <1>1, <1>2, <1>3, <2>1, Zenon DEF ProvenanceConflict, Outcome
    <2>2. CASE EventRow(e.id) # {}
      BY <1>1, <1>2, <1>3, <2>2, Zenon DEF ProvenanceConflict, Outcome
    <2> QED
      BY <2>1, <2>2
  <1>4. CASE Redelivered(e, r)
    <2>1. PICK row \in EventRow(e.id) :
             IF ExactApplied(row, e) THEN Settle(e, r, "none", "none", "resolved")
             ELSE Settle(e, r, "none",
                         IF SameContent(row, e) THEN "prior_application_not_applied"
                                                ELSE "event_conflict", "conflict")
      BY <1>4 DEF Redelivered
    <2>2. e.origin = r /\ UNCHANGED <<orderTables, fills>>
      BY <1>4 DEF Redelivered
    <2>3. CASE ExactApplied(row, e)
      BY <1>1, <1>2, <2>1, <2>2, <2>3, Zenon DEF Outcome
    <2>4. CASE ~ExactApplied(row, e)
      <3>1. \E reason \in {"prior_application_not_applied", "event_conflict"} :
               Settle(e, r, "none", reason, "conflict")
        <4>1. CASE SameContent(row, e)
          <5>1. Settle(e, r, "none", "prior_application_not_applied", "conflict")
            BY <2>1, <2>4, <4>1, Zenon
          <5> QED
            BY <5>1
        <4>2. CASE ~SameContent(row, e)
          <5>1. Settle(e, r, "none", "event_conflict", "conflict")
            BY <2>1, <2>4, <4>2, Zenon
          <5> QED
            BY <5>1
        <4> QED
          BY <4>1, <4>2
      <3> QED
        BY <1>1, <1>2, <2>2, <2>4, <3>1, Zenon DEF Outcome
    <2> QED
      BY <2>3, <2>4
  <1>5. CASE Uncorrelated(e, r)
    BY <1>1, <1>2, <1>5, Zenon DEF Uncorrelated, Outcome
  <1>6. CASE Correlated(e, r)
    <2>0. e.origin = r /\ EventRow(e.id) = {} /\ KnownOrder(e.order) # NoId
      BY <1>6, Zenon DEF Correlated
    <2>1. CASE Reduced(e).disposition \in {"event_conflict", "reconciliation_required"}
      <3>1. /\ Settle(e, r, "unresolved", "reducer_reconciliation", "conflict")
            /\ UNCHANGED <<orderTables, fills>>
        BY <1>6, <2>1, Zenon DEF Correlated
      <3> QED
        BY <1>1, <1>2, <2>0, <3>1, Zenon DEF Outcome
    <2>2. CASE Reduced(e).disposition \notin {"event_conflict", "reconciliation_required"}
      <3>1. CASE FillRecorded(e)
        <4>1. /\ Settle(e, r, "event_conflict", "fill_id_conflict", "conflict")
              /\ UNCHANGED <<orderTables, fills>>
          BY <1>6, <2>2, <3>1, Zenon DEF Correlated
        <4> QED
          BY <1>1, <1>2, <2>0, <4>1, Zenon DEF Outcome
      <3>2. CASE ~FillRecorded(e)
        <4>1. /\ Settle(e, r, "applied", "none", "resolved")
              /\ IF Reduced(e).order # orders[e.order] THEN WriteOrder(e.order, Reduced(e).order)
                                                       ELSE UNCHANGED orderTables
              /\ fills' = IF e.type = "fill"
                          THEN fills \cup {[id |-> e.fill, order |-> e.order, event |-> e.id,
                                            quantity |-> e.quantity, price |-> e.price]}
                          ELSE fills
          BY <1>6, <2>2, <3>2, Zenon DEF Correlated
        <4> QED
          BY <1>1, <1>2, <2>0, <2>2, <3>2, <4>1, Zenon DEF Outcome
      <3> QED
        BY <3>1, <3>2
    <2> QED
      BY <2>1, <2>2
  <1> QED
    BY <1>1, <1>3, <1>4, <1>5, <1>6

LEMMA TypeStep == DispatchInv /\ [Next]_vars => TypeOK'
  <1> SUFFICES ASSUME DispatchInv, [Next]_vars PROVE TypeOK'
    OBVIOUS
  <1>a. TypeOK /\ StoredOrdersMeetContract /\ HistoryContiguous /\ CommandTablesAgree /\ DispatchersHoldClaims
    BY DEF DispatchInv
  <1>b. /\ orders' \in [OrderIds -> Orders \cup {NoOrder}]
        /\ history' \in [OrderIds -> SUBSET Orders]
    BY <1>a, OrderStep
  <1>0. ASSUME UNCHANGED <<commands, claims, receipts, raws, dispatcher, sent>>,
               journal' \in {"open", "closed", "unclean"}
        PROVE  TypeOK'
    BY <1>0, <1>a, <1>b DEF TypeOK
  <1>1. ASSUME NEW o \in OrderIds, NEW c \in CommandSource[o],
               RegisterNewOrder(o, c) \/ RegisterCommand(o, c)
        PROVE  TypeOK'
    <2>1. /\ commands' = commands \cup {[order |-> o, command |-> c]}
          /\ UNCHANGED <<journal, claims, receipts, raws, dispatcher, sent>>
      BY <1>1 DEF RegisterNewOrder, RegisterCommand, evidenceTables
    <2>2. [order |-> o, command |-> c] \in [order : OrderIds, command : Commands]
      BY JournalInputsAssumption
    <2> QED
      BY <2>1, <2>2, <1>a, <1>b DEF TypeOK
  <1>2. ASSUME NEW d \in Dispatchers, NEW row \in commands, ClaimDispatch(d, row) PROVE TypeOK'
    <2> DEFINE new == [id |-> row.command.id, version |-> orders[row.order].version]
               held == [phase |-> "claimed", command |-> row.command]
    <2>1. /\ claims' = claims \cup {new} /\ dispatcher' = [dispatcher EXCEPT ![d] = held]
          /\ UNCHANGED <<journal, commands, receipts, raws, sent>>
      BY <1>2 DEF ClaimDispatch, evidenceTables
    <2>2. row.order \in OrderIds /\ row.command \in Commands /\ Registered(row.order)
      BY <1>a DEF TypeOK, CommandTablesAgree
    <2>3. orders[row.order].version \in Nat /\ row.command.id \in CommandIds
      BY <2>2, <1>a, OrderFields, CommandIsSomething DEF StoredOrdersMeetContract, GoodOrder
    <2>4. new \in [id : CommandIds, version : Nat] /\ held \in DispatcherPlaces
      BY <2>2, <2>3 DEF DispatcherPlaces
    <2> HIDE DEF new, held
    <2> QED
      BY <2>1, <2>4, <1>a, <1>b DEF TypeOK
  <1>3. ASSUME NEW d \in Dispatchers, Send(d) PROVE TypeOK'
    <2> DEFINE id == dispatcher[d].command.id
    <2>1. /\ UNCHANGED <<journal, commands, claims, receipts, raws>>
          /\ sent' = [sent EXCEPT ![id] = @ + 1] /\ dispatcher[d].phase = "claimed"
          /\ dispatcher' = [dispatcher EXCEPT ![d] = [dispatcher[d] EXCEPT !.phase = "sent"]]
      BY <1>3 DEF Send, tables, commandTables, evidenceTables
    <2>2. id \in CommandIds
      BY <2>1, <1>a, HeldCommand
    <2>3. sent[id] + 1 \in Nat
      BY <2>2, <1>a DEF TypeOK
    <2>4. dispatcher[d] \in DispatcherPlaces
      BY <1>a DEF TypeOK
    <2>5. [dispatcher[d] EXCEPT !.phase = "sent"] \in DispatcherPlaces
      BY <2>4 DEF DispatcherPlaces
    <2>6. sent' \in [CommandIds -> Nat] /\ dispatcher' \in [Dispatchers -> DispatcherPlaces]
      BY <2>1, <2>3, <2>5, <1>a DEF TypeOK
    <2> QED
      BY <2>1, <2>6, <1>a, <1>b DEF TypeOK
  <1>4. ASSUME NEW d \in Dispatchers, NEW s \in DispatchStates, RecordDispatchReceipt(d, s)
        PROVE  TypeOK'
    <2> DEFINE new == [command |-> dispatcher[d].command, state |-> s, at |-> Now]
    <2>1. /\ UNCHANGED <<journal, commands, claims, raws, sent>>
          /\ dispatcher' = [dispatcher EXCEPT ![d] = Idle] /\ dispatcher[d].phase = "sent"
          /\ receipts' = receipts \/ receipts' = receipts \cup {new}
      BY <1>4 DEF RecordDispatchReceipt, evidenceTables
    <2>2. dispatcher[d].command \in Commands
      BY <2>1, <1>a, HeldCommand
    <2>3. new \in [command : Commands, state : DispatchStates, at : Nat]
      BY <2>2 DEF Now
    <2>4. Idle \in DispatcherPlaces
      BY DEF Idle, DispatcherPlaces
    <2> HIDE DEF new
    <2> QED
      BY <2>1, <2>3, <2>4, <1>a, <1>b DEF TypeOK
  <1>5. ASSUME NEW r \in RawIds, NEW e \in Evidence, AppendRawObservation(r, e) PROVE TypeOK'
    <2>1. /\ UNCHANGED <<journal, commands, claims, receipts, dispatcher, sent>>
          /\ raws' = [raws EXCEPT ![r] = [status |-> "unresolved", event |-> e]]
      BY <1>5 DEF AppendRawObservation, commandTables
    <2>2. [status |-> "unresolved", event |-> e] \in Observations
      BY DEF Observations
    <2> QED
      BY <2>1, <2>2, <1>a, <1>b DEF TypeOK
  <1>6. ASSUME NEW r \in RawIds, NEW origin \in RawIds, NEW x \in Correlations,
               ApplyNormalizedEvent(r, origin, x[1], x[2])
        PROVE  TypeOK'
    <2>1. /\ UNCHANGED <<journal, commands, claims, receipts, dispatcher, sent>>
          /\ raws[r].status # "absent"
          /\ \E e, d, reason : \E status \in {"none", "resolved", "conflict"} :
                Settle(e, r, d, reason, status)
      <3>1. raws[r].status = "unresolved" /\ UNCHANGED <<journal, commands, claims, receipts, dispatcher, sent>>
        BY <1>6, ApplySettles, Zenon
      <3>2. \E e, d, reason : \E status \in {"none", "resolved", "conflict"} :
                Settle(e, r, d, reason, status)
        <4> DEFINE e == Normalized(origin, x[1], x[2])
        <4>1. Outcome(e, r)
          BY <1>6, ApplySettles, Zenon
        <4> HIDE DEF e
        <4> QED
          BY <4>1, Zenon DEF Outcome
      <3> QED
        BY <3>1, <3>2
    <2>2. raws' \in [RawIds -> Observations]
      BY <2>1, <1>a, SettleRaws
    <2> QED
      BY <2>1, <2>2, <1>a, <1>b DEF TypeOK
  <1>7. CASE Crash
    <2>1. Idle \in DispatcherPlaces
      BY DEF Idle, DispatcherPlaces
    <2>2. UNCHANGED <<commands, claims, receipts, raws, sent>>
      BY <1>7 DEF Crash, tables, commandTables, evidenceTables
    <2> QED
      BY <2>1, <2>2, <1>7, <1>a, <1>b DEF Crash, TypeOK
  <1>8. CASE Close \/ Resume \/ UNCHANGED vars
    BY <1>0, <1>8, <1>a DEF Close, Resume, vars, tables, commandTables, evidenceTables, TypeOK
  <1> QED
    BY <1>1, <1>2, <1>3, <1>4, <1>5, <1>6, <1>7, <1>8 DEF Next

\* Each version of an order is written once, after the version before it.
LEMMA HistoryStep ==
    ASSUME DispatchInv, [Next]_vars
    PROVE  HistoryContiguous'
  <1>a. \A o \in OrderIds : OrderMoves(o)
    BY OrderStep DEF DispatchInv
  <1>b. orders \in [OrderIds -> Orders \cup {NoOrder}] /\ history \in [OrderIds -> SUBSET Orders]
    BY DEF DispatchInv, TypeOK
  <1> SUFFICES ASSUME NEW o \in OrderIds
               PROVE  IF orders'[o] # NoOrder
                      THEN /\ orders'[o] \in history'[o] /\ orders'[o].version >= 3
                           /\ {h.version : h \in history'[o]} = 3 .. orders'[o].version
                           /\ \A g, h \in history'[o] : g.version = h.version => g = h
                           /\ \A h \in history'[o] : h.intent = orders'[o].intent
                      ELSE history'[o] = {}
    BY DEF DispatchInv, HistoryContiguous, Registered
  <1>0. IF orders[o] # NoOrder
        THEN /\ orders[o] \in history[o] /\ orders[o].version >= 3
             /\ {h.version : h \in history[o]} = 3 .. orders[o].version
             /\ \A g, h \in history[o] : g.version = h.version => g = h
             /\ \A h \in history[o] : h.intent = orders[o].intent
        ELSE history[o] = {}
    BY DEF DispatchInv, HistoryContiguous, Registered
  <1>1. CASE orders'[o] = orders[o] /\ history'[o] = history[o]
    BY <1>0, <1>1
  <1>2. CASE /\ ~Registered(o) /\ GoodOrder(orders'[o]) /\ orders'[o].version = 3
             /\ history'[o] = history[o] \cup {orders'[o]}
    <2>1. history'[o] = {orders'[o]} /\ orders'[o] # NoOrder
      BY <1>0, <1>2, OrderIsSomething DEF Registered, GoodOrder
    <2>2. {h.version : h \in history'[o]} = 3 .. 3
      BY <1>2, <2>1
    <2> QED
      BY <1>2, <2>1, <2>2
  <1>3. CASE /\ Registered(o) /\ NextVersion(orders'[o], orders[o])
             /\ history'[o] = history[o] \cup {orders'[o]}
    <2> DEFINE v == orders[o].version
               n == orders'[o]
    <2>1. n # NoOrder /\ n.version = v + 1 /\ n.intent = orders[o].intent /\ orders[o] # NoOrder
      BY <1>3, OrderIsSomething DEF NextVersion, GoodOrder, Registered
    <2>2. v \in Nat
      BY <2>1, <1>b, OrderFields
    <2>3. \A h \in history[o] : h.version \in 3 .. v
      BY <2>1, <1>0
    <2>4. {h.version : h \in history'[o]} = 3 .. (v + 1)
      <3>1. {h.version : h \in history'[o]} = {h.version : h \in history[o]} \cup {n.version}
        BY <1>3
      <3>2. {h.version : h \in history[o]} = 3 .. v /\ v >= 3
        BY <2>1, <1>0
      <3>3. (3 .. v) \cup {v + 1} = 3 .. (v + 1)
        BY <2>2, <3>2
      <3> HIDE DEF v, n
      <3> QED
        BY <3>1, <3>2, <3>3, <2>1
    <2>5. \A g, h \in history'[o] : g.version = h.version => g = h
      <3>1. \A h \in history[o] : h.version # n.version
        BY <2>1, <2>2, <2>3
      <3> QED
        BY <3>1, <1>3, <1>0, <2>1
    <2> QED
      BY <2>1, <2>2, <2>4, <2>5, <1>0, <1>3
  <1> QED
    BY <1>1, <1>2, <1>3, <1>a DEF OrderMoves

LEMMA DispatchStep == DispatchInv /\ [Next]_vars => DispatchInv'
  <1> SUFFICES ASSUME DispatchInv, [Next]_vars
               PROVE  CommandTablesAgree' /\ DispatchersHoldClaims' /\ SentAtMostOnce'
    BY TypeStep, StaysRegistered, HistoryStep DEF DispatchInv
  <1>a. TypeOK /\ CommandTablesAgree /\ DispatchersHoldClaims /\ SentAtMostOnce
    BY DEF DispatchInv
  <1>0. ASSUME UNCHANGED <<commands, claims, receipts, sent>>,
               \A d \in Dispatchers : dispatcher'[d].phase # "idle" => dispatcher'[d] = dispatcher[d]
        PROVE  CommandTablesAgree' /\ DispatchersHoldClaims' /\ SentAtMostOnce'
    <2>1. \A x \in commands' : Registered(x.order)'
      BY <1>0, <1>a, StaysRegistered DEF TypeOK, CommandTablesAgree
    <2>2. CommandTablesAgree'
      BY <2>1, <1>0, <1>a DEF CommandTablesAgree, ClaimOf, CommandRow
    <2>3. DispatchersHoldClaims' /\ SentAtMostOnce'
      BY <1>0, <1>a DEF DispatchersHoldClaims, SentAtMostOnce, ClaimOf
    <2> QED
      BY <2>2, <2>3
  <1>1. ASSUME NEW r \in RawIds, NEW origin \in RawIds, NEW x \in Correlations,
               ApplyNormalizedEvent(r, origin, x[1], x[2])
        PROVE  CommandTablesAgree' /\ DispatchersHoldClaims' /\ SentAtMostOnce'
    BY <1>0, <1>1 DEF ApplyNormalizedEvent, commandTables
  <1>2. ASSUME NEW r \in RawIds, NEW e \in Evidence, AppendRawObservation(r, e)
        PROVE  CommandTablesAgree' /\ DispatchersHoldClaims' /\ SentAtMostOnce'
    BY <1>0, <1>2 DEF AppendRawObservation, commandTables
  <1>3. CASE Close \/ Crash \/ Resume \/ UNCHANGED vars
    <2>1. UNCHANGED <<commands, claims, receipts, sent>>
      BY <1>3 DEF Close, Crash, Resume, vars, tables, commandTables
    <2>2. \A d \in Dispatchers : dispatcher'[d].phase # "idle" => dispatcher'[d] = dispatcher[d]
      BY <1>3 DEF Close, Crash, Resume, vars, Idle
    <2> QED
      BY <2>1, <2>2, <1>0
  <1> QED
    BY <1>1, <1>2, <1>3, RegisterDispatch, ClaimDispatchKeeps, SendKeeps, ReceiptKeeps DEF Next

LEMMA DispatchInit == Init => DispatchInv
  <1> SUFFICES ASSUME Init PROVE DispatchInv
    OBVIOUS
  <1>1. TypeOK
    <2>1. Idle \in DispatcherPlaces /\ [status |-> "absent"] \in Observations
      BY DEF Idle, DispatcherPlaces, Observations
    <2> QED
      BY <2>1 DEF Init, TypeOK
  <1>2. StoredOrdersMeetContract
    BY DEF Init, StoredOrdersMeetContract, Registered
  <1>3. CommandTablesAgree /\ DispatchersHoldClaims /\ SentAtMostOnce
    BY DEF Init, CommandTablesAgree, DispatchersHoldClaims, SentAtMostOnce, Idle
  <1>4. HistoryContiguous
    BY DEF Init, HistoryContiguous, Registered
  <1> QED
    BY <1>1, <1>2, <1>3, <1>4 DEF DispatchInv

\* Every stored order meets the contract of LiveOrder.__post_init__, and every command
\* and claim belongs to one, after any interleaving of dispatchers, evidence and crashes.
THEOREM DispatchInvariant == Spec => []DispatchInv
  BY DispatchInit, DispatchStep, PTL DEF Spec

\* A command is sent to the broker at most once, and only after its claim is durable:
\* for any number of dispatchers, crashes and restarts.
THEOREM SentOnce == Spec => []SentAtMostOnce
  <1>1. DispatchInv => SentAtMostOnce
    BY DEF DispatchInv
  <1> QED
    BY <1>1, DispatchInvariant, PTL

-----------------------------------------------------------------------------
(* The journal accepts its own file *)

\* What HistoryContiguous means for the verification of a resume.
LEMMA HistoryVerifies == DispatchInv => OrdersVerify
  <1> SUFFICES ASSUME DispatchInv, NEW o \in OrderIds, Registered(o)
               PROVE  LET versions == {h.version : h \in history[o]}
                      IN  /\ orders[o] \in history[o]
                          /\ Cardinality(versions) = Cardinality(history[o])
                          /\ orders[o].version = Max(versions)
                          /\ versions = Min(versions) .. Max(versions)
                          /\ \A h \in history[o] : h.intent = orders[o].intent
    BY DEF OrdersVerify
  <1> DEFINE H == history[o]
             versions == {h.version : h \in H}
             v == orders[o].version
  <1>1. /\ orders[o] \in H /\ v >= 3 /\ versions = 3 .. v
        /\ \A g, h \in H : g.version = h.version => g = h
        /\ \A h \in H : h.intent = orders[o].intent
    BY DEF DispatchInv, HistoryContiguous
  <1>2. v \in Nat
    BY OrderFields DEF DispatchInv, TypeOK, Registered
  <1>3. Max(3 .. v) = v /\ Min(3 .. v) = 3
    <2>1. v \in 3 .. v /\ 3 \in 3 .. v /\ \A y \in 3 .. v : y >= 3 /\ v >= y
      BY <1>1, <1>2
    <2>2. Max(3 .. v) \in 3 .. v /\ \A y \in 3 .. v : Max(3 .. v) >= y
      BY <2>1 DEF Max
    <2>3. Min(3 .. v) \in 3 .. v /\ \A y \in 3 .. v : y >= Min(3 .. v)
      BY <2>1 DEF Min
    <2> QED
      BY <2>1, <2>2, <2>3, <1>2
  <1>4. IsFiniteSet(3 .. v)
    BY <1>2, FS_Interval
  <1>5. Cardinality(H) = Cardinality(3 .. v)
    <2> DEFINE at(x) == CHOOSE h \in H : h.version = x
               f == [x \in 3 .. v |-> at(x)]
    <2>1. \A x \in 3 .. v : at(x) \in H /\ at(x).version = x
      <3>1. \A x \in 3 .. v : \E h \in H : h.version = x
        BY <1>1
      <3> QED
        BY <3>1
    <2>2. \A h \in H : h.version \in 3 .. v /\ at(h.version) = h
      BY <1>1, <2>1
    <2> HIDE DEF at
    <2>3. f \in Bijection(3 .. v, H)
      BY <2>1, <2>2, Zenon DEF Bijection, Injection, Surjection, IsInjective
    <2> QED
      BY <2>3, <1>4, FS_Bijection DEF ExistsBijection
  <1> QED
    BY <1>1, <1>3, <1>5

\* No operation of the journal itself writes a commit or a resolution.
LEMMA OverlayStep == [Next]_vars => UNCHANGED <<commits, resolutions>>
  <1> USE DEF overlays
  <1> QED
    BY DEF Next, RegisterNewOrder, RegisterCommand, ClaimDispatch, Send, RecordDispatchReceipt,
           AppendRawObservation, ApplyNormalizedEvent, Close, Crash, Resume, vars, tables

-----------------------------------------------------------------------------
(* Evidence *)

Row(e, r, disposition) == [event |-> e, raw |-> r, disposition |-> disposition]

\* What every application starts from.
Applying(e, r) ==
    /\ r \in RawIds /\ raws[r].status = "unresolved"
    /\ e.origin = r => e.id = raws[r].event.id /\ EventFingerprint(e) = EventFingerprint(raws[r].event)
    /\ e.order \in OrderIds \cup {NoId}

\* An observation that is open has no row that closes it, and no requirement.
LEMMA OpenRaw ==
    ASSUME EvidenceInv, NEW r \in RawIds, raws[r].status = "unresolved"
    PROVE  /\ \A x \in events : x.raw = r => x.disposition = "unresolved" /\ x.event.origin = r
           /\ \A q \in requirements : q.raw # r
  <1>1. \A x \in events : x.disposition \in Dispositions
    BY DEF EvidenceInv, EventRowsAgree
  <1>2. \A x \in events :
           /\ x.event.origin # x.raw => x.disposition = "event_conflict"
           /\ x.disposition = "applied" => raws[x.raw].status = "resolved"
           /\ x.disposition = "event_conflict" => raws[x.raw].status = "conflict"
    BY DEF EvidenceInv, EvidenceVerifies
  <1>3. \A q \in requirements : raws[q.raw].status = "conflict"
    BY DEF EvidenceInv, EventRowsAgree
  <1> QED
    BY <1>1, <1>2, <1>3 DEF Dispositions

\* The parts of EvidenceInv, as they stand after a step.
EvidenceNext ==
    /\ EventRowsAgree' /\ EvidenceVerifies' /\ ResolvedIsApplied'

\* An observation in conflict gets its requirement in the same transaction.
LEMMA SettleConflict ==
    ASSUME DispatchInv, EvidenceInv, NEW e, NEW r, Applying(e, r),
           NEW disposition \in {"none", "unresolved", "event_conflict"},
           NEW reason, reason # "none",
           disposition # "none" => EventRow(e.id) = {},
           e.origin # r => disposition # "unresolved",
           Settle(e, r, disposition, reason, "conflict")
    PROVE  EvidenceNext
  <1>0. r \in RawIds /\ raws[r].status = "unresolved" /\ TypeOK
    BY DEF Applying, DispatchInv
  <1> DEFINE new == Row(e, r, disposition)
             req == [id |-> Cardinality(requirements) + 1, order |-> KnownOrder(e.order),
                     raw |-> r, reason |-> reason]
  <1>1. /\ events' = events \/ (disposition # "none" /\ events' = events \cup {new})
        /\ requirements' = requirements \cup {req}
    BY DEF Settle, Row
  <1>2. /\ \A x \in RawIds : x # r => raws'[x] = raws[x]
        /\ raws'[r].status = "conflict" /\ raws'[r].event = raws[r].event
    BY <1>0, SettleRaws
  <1>3. /\ new.event = e /\ new.raw = r /\ new.disposition = disposition
        /\ req.raw = r /\ req.order \in OrderIds \cup {NoId}
    BY DEF Row, KnownOrder
  <1> HIDE DEF new, req
  <1>4. EventRowsAgree
    BY DEF EvidenceInv
  <1>5. EventRowsAgree'
    <2>1. \A x, y \in events' : x.event.id = y.event.id => x = y
      BY <1>1, <1>3, <1>4 DEF EventRowsAgree, EventRow
    <2>2. ASSUME NEW x \in events'
          PROVE  /\ x.raw \in RawIds /\ x.disposition \in Dispositions
                 /\ x.event.origin = x.raw => x.event.id = raws'[x.raw].event.id
      <3>1. CASE x \in events
        BY <3>1, <1>2, <1>4 DEF EventRowsAgree
      <3>2. CASE x = new /\ disposition # "none"
        BY <3>2, <1>0, <1>2, <1>3 DEF Applying, Dispositions
      <3> QED
        BY <3>1, <3>2, <1>1
    <2>3. \A q \in requirements' :
             /\ q.raw \in RawIds /\ q.order \in OrderIds \cup {NoId}
             /\ raws'[q.raw].status = "conflict"
      BY <1>0, <1>1, <1>2, <1>3, <1>4 DEF EventRowsAgree
    <2> QED
      BY <2>1, <2>2, <2>3 DEF EventRowsAgree
  <1>6. \A x : Required(x) \/ x = r => Required(x)'
    BY <1>1, <1>3 DEF Required
  <1>7. EvidenceVerifies'
    <2>1. \A x \in RawIds : raws'[x].status = "conflict" => Required(x)'
      BY <1>2, <1>6 DEF EvidenceInv, EvidenceVerifies
    <2>2. ASSUME NEW x \in events'
          PROVE  /\ x.event.origin # x.raw => x.disposition = "event_conflict" /\ Required(x.raw)'
                 /\ x.disposition = "applied" => raws'[x.raw].status = "resolved"
                 /\ x.disposition = "event_conflict" => raws'[x.raw].status = "conflict"
                 /\ x.disposition = "unresolved" =>
                      \/ raws'[x.raw].status = "unresolved"
                      \/ raws'[x.raw].status = "conflict" /\ Required(x.raw)'
      <3>1. CASE x \in events /\ x.raw = r
        BY <3>1, <1>0, <1>2, <1>6, OpenRaw
      <3>2. CASE x \in events /\ x.raw # r
        <4>1. x.raw \in RawIds /\ raws'[x.raw] = raws[x.raw]
          BY <3>2, <1>2, <1>4 DEF EventRowsAgree
        <4> QED
          BY <4>1, <3>2, <1>6 DEF EvidenceInv, EvidenceVerifies
      <3>3. CASE x = new /\ disposition # "none"
        BY <3>3, <1>2, <1>3, <1>6
      <3> QED
        BY <3>1, <3>2, <3>3, <1>1
    <2> QED
      BY <2>1, <2>2 DEF EvidenceVerifies
  <1>8. ResolvedIsApplied'
    BY <1>0, <1>1, <1>2 DEF EvidenceInv, ResolvedIsApplied, EventRow
  <1> QED
    BY <1>5, <1>7, <1>8 DEF EvidenceNext

\* Evidence that is applied, now or before, resolves its observation.
LEMMA SettleResolved ==
    ASSUME DispatchInv, EvidenceInv, NEW e, NEW r, Applying(e, r), e.origin = r,
           NEW disposition \in {"none", "applied"},
           disposition # "none" => EventRow(e.id) = {},
           disposition = "none" => \E row \in EventRow(e.id) : ExactApplied(row, e),
           Settle(e, r, disposition, "none", "resolved")
    PROVE  EvidenceNext
  <1>0. r \in RawIds /\ raws[r].status = "unresolved" /\ TypeOK
    BY DEF Applying, DispatchInv
  <1> DEFINE new == Row(e, r, disposition)
  <1>1. /\ IF disposition = "none" THEN events' = events ELSE events' = events \cup {new}
        /\ requirements' = requirements
    BY DEF Settle, Row
  <1>2. /\ \A x \in RawIds : x # r => raws'[x] = raws[x]
        /\ raws'[r].status = "resolved" /\ raws'[r].event = raws[r].event
    BY <1>0, SettleRaws
  <1>3. new.event = e /\ new.raw = r /\ new.disposition = disposition
    BY DEF Row
  <1> HIDE DEF new
  <1>4. EventRowsAgree
    BY DEF EvidenceInv
  <1>5. \A x \in events : x.raw # r
    <2>1. ASSUME NEW x \in events, x.raw = r PROVE FALSE
      <3>1. x.disposition = "unresolved" /\ x.event.origin = r
        BY <2>1, <1>0, OpenRaw
      <3>2. x.event.id = e.id
        BY <3>1, <2>1, <1>4 DEF EventRowsAgree, Applying
      <3>3. disposition = "none"
        BY <3>2 DEF EventRow
      <3>4. PICK y \in EventRow(e.id) : ExactApplied(y, e)
        BY <3>3
      <3>5. y = x
        BY <3>2, <1>4 DEF EventRowsAgree, EventRow
      <3> QED
        BY <3>1, <3>4, <3>5 DEF ExactApplied
    <2> QED
      BY <2>1
  <1>6. EventRowsAgree'
    <2>1. \A x, y \in events' : x.event.id = y.event.id => x = y
      BY <1>1, <1>3, <1>4 DEF EventRowsAgree, EventRow
    <2>2. ASSUME NEW x \in events'
          PROVE  /\ x.raw \in RawIds /\ x.disposition \in Dispositions
                 /\ x.event.origin = x.raw => x.event.id = raws'[x.raw].event.id
      <3>1. CASE x \in events
        BY <3>1, <1>2, <1>4 DEF EventRowsAgree
      <3>2. CASE x = new /\ disposition # "none"
        BY <3>2, <1>0, <1>2, <1>3 DEF Applying, Dispositions
      <3> QED
        BY <3>1, <3>2, <1>1
    <2>3. \A q \in requirements' :
             /\ q.raw \in RawIds /\ q.order \in OrderIds \cup {NoId}
             /\ raws'[q.raw].status = "conflict"
      BY <1>0, <1>1, <1>2, <1>4, OpenRaw DEF EventRowsAgree
    <2> QED
      BY <2>1, <2>2, <2>3 DEF EventRowsAgree
  <1>7. EvidenceVerifies'
    <2>0. \A x : Required(x)' = Required(x)
      BY <1>1 DEF Required
    <2>1. \A x \in RawIds : raws'[x].status = "conflict" => Required(x)'
      BY <2>0, <1>2 DEF EvidenceInv, EvidenceVerifies
    <2>2. ASSUME NEW x \in events'
          PROVE  /\ x.event.origin # x.raw => x.disposition = "event_conflict" /\ Required(x.raw)'
                 /\ x.disposition = "applied" => raws'[x.raw].status = "resolved"
                 /\ x.disposition = "event_conflict" => raws'[x.raw].status = "conflict"
                 /\ x.disposition = "unresolved" =>
                      \/ raws'[x.raw].status = "unresolved"
                      \/ raws'[x.raw].status = "conflict" /\ Required(x.raw)'
      <3>1. CASE x \in events
        <4>1. x.raw \in RawIds /\ raws'[x.raw] = raws[x.raw]
          BY <3>1, <1>2, <1>4, <1>5 DEF EventRowsAgree
        <4> QED
          BY <4>1, <3>1, <2>0 DEF EvidenceInv, EvidenceVerifies
      <3>2. CASE x = new /\ disposition = "applied"
        BY <3>2, <1>2, <1>3
      <3> QED
        BY <3>1, <3>2, <1>1
    <2> QED
      BY <2>1, <2>2 DEF EvidenceVerifies
  <1>8. ResolvedIsApplied'
    <2>1. ASSUME NEW x \in RawIds, raws'[x].status = "resolved"
          PROVE  \E row \in events' :
                    /\ row.event.id = raws'[x].event.id /\ row.disposition = "applied"
                    /\ EventFingerprint(row.event) = EventFingerprint(raws'[x].event)
      <3>1. CASE x # r
        BY <3>1, <2>1, <1>1, <1>2 DEF EvidenceInv, ResolvedIsApplied, EventRow
      <3>2. CASE x = r
        <4>1. \E row \in events' :
                 row.event.id = e.id /\ row.disposition = "applied"
                 /\ EventFingerprint(row.event) = EventFingerprint(e)
          BY <1>1, <1>3 DEF EventRow, ExactApplied, SameContent
        <4> QED
          BY <4>1, <3>2, <1>2 DEF Applying
      <3> QED
        BY <3>1, <3>2
    <2> QED
      BY <2>1 DEF ResolvedIsApplied, EventRow
  <1> QED
    BY <1>6, <1>7, <1>8 DEF EvidenceNext

\* Evidence of no known order leaves its observation open, with a row that says so.
LEMMA SettleUncorrelated ==
    ASSUME DispatchInv, EvidenceInv, NEW e, NEW r, Applying(e, r), e.origin = r,
           EventRow(e.id) = {}, Settle(e, r, "unresolved", "none", "none")
    PROVE  EvidenceNext
  <1>0. r \in RawIds /\ raws[r].status = "unresolved"
    BY DEF Applying
  <1> DEFINE new == Row(e, r, "unresolved")
  <1>1. events' = events \cup {new} /\ requirements' = requirements /\ raws' = raws
    BY DEF Settle, Row
  <1>2. new.event = e /\ new.raw = r /\ new.disposition = "unresolved"
    BY DEF Row
  <1> HIDE DEF new
  <1>3. EventRowsAgree'
    <2>1. \A x, y \in events' : x.event.id = y.event.id => x = y
      BY <1>1, <1>2 DEF EvidenceInv, EventRowsAgree, EventRow
    <2> QED
      BY <2>1, <1>0, <1>1, <1>2 DEF EvidenceInv, EventRowsAgree, Applying, Dispositions
  <1>4. EvidenceVerifies'
    BY <1>0, <1>1, <1>2 DEF EvidenceInv, EvidenceVerifies, Required
  <1>5. ResolvedIsApplied'
    BY <1>1 DEF EvidenceInv, ResolvedIsApplied, EventRow
  <1> QED
    BY <1>3, <1>4, <1>5 DEF EvidenceNext

\* The evidence that an application starts from was parsed from a stored observation.
LEMMA ApplicationStarts ==
    ASSUME TypeOK, NEW r \in RawIds, NEW origin \in RawIds, NEW x \in Correlations,
           ApplyNormalizedEvent(r, origin, x[1], x[2])
    PROVE  Applying(Normalized(origin, x[1], x[2]), r)
  <1> DEFINE e == Normalized(origin, x[1], x[2])
  <1>1. raws[origin].status # "absent" /\ raws[r].status = "unresolved"
    BY ApplySettles, Zenon
  <1>2. /\ e.id = raws[origin].event.id /\ e.origin = origin /\ e.order = x[1]
        /\ EventFingerprint(e) = EventFingerprint(raws[origin].event)
    BY <1>1, NormalizedContract
  <1>3. x[1] \in OrderIds \cup {NoId}
    BY DEF Correlations
  <1> HIDE DEF e
  <1> QED
    BY <1>1, <1>2, <1>3 DEF Applying, e

\* One application keeps rows, requirements and observations in agreement.
LEMMA OutcomeEvidence ==
    ASSUME DispatchInv, EvidenceInv, NEW e, NEW r, Applying(e, r), Outcome(e, r)
    PROVE  EvidenceNext
  <1>1. CASE e.origin # r /\ EventRow(e.id) = {}
             /\ Settle(e, r, "event_conflict", "observation_provenance_conflict", "conflict")
    BY <1>1, SettleConflict
  <1>2. CASE e.origin # r
             /\ Settle(e, r, "none", "observation_provenance_conflict", "conflict")
    BY <1>2, SettleConflict
  <1>3. CASE e.origin = r /\ (\E row \in EventRow(e.id) : ExactApplied(row, e))
             /\ Settle(e, r, "none", "none", "resolved")
    BY <1>3, SettleResolved
  <1>4. CASE e.origin = r
             /\ \E reason \in {"prior_application_not_applied", "event_conflict"} :
                   Settle(e, r, "none", reason, "conflict")
    BY <1>4, SettleConflict
  <1>5. CASE e.origin = r /\ EventRow(e.id) = {} /\ Settle(e, r, "unresolved", "none", "none")
    BY <1>5, SettleUncorrelated
  <1>6. CASE e.origin = r /\ EventRow(e.id) = {}
             /\ Settle(e, r, "unresolved", "reducer_reconciliation", "conflict")
    BY <1>6, SettleConflict
  <1>7. CASE e.origin = r /\ EventRow(e.id) = {}
             /\ Settle(e, r, "event_conflict", "fill_id_conflict", "conflict")
    BY <1>7, SettleConflict
  <1>8. CASE e.origin = r /\ EventRow(e.id) = {} /\ Settle(e, r, "applied", "none", "resolved")
    BY <1>8, SettleResolved
  <1> QED
    BY <1>1, <1>2, <1>3, <1>4, <1>5, <1>6, <1>7, <1>8, Zenon DEF Outcome

\* Fills and requirements name registered orders.
LEMMA OutcomeFills ==
    ASSUME DispatchInv, [Next]_vars, EvidenceInv, NEW e, NEW r, Applying(e, r), Outcome(e, r)
    PROVE  FillsVerify' /\ \A f \in fills' : f.order \in OrderIds
  <1>0. \A o \in OrderIds : Registered(o) => Registered(o)'
    BY StaysRegistered
  <1> DEFINE req(reason) == [id |-> Cardinality(requirements) + 1, order |-> KnownOrder(e.order),
                             raw |-> r, reason |-> reason]
             new == [id |-> e.fill, order |-> e.order, event |-> e.id,
                     quantity |-> e.quantity, price |-> e.price]
  <1>1. \E d, reason, status : Settle(e, r, d, reason, status)
    BY Zenon DEF Outcome
  <1>2. \E reason : requirements' = requirements \/ requirements' = requirements \cup {req(reason)}
    BY <1>1 DEF Settle
  <1>3. \A reason : req(reason).order = KnownOrder(e.order)
    OBVIOUS
  <1>4. KnownOrder(e.order) = NoId \/ (KnownOrder(e.order) \in OrderIds /\ Registered(KnownOrder(e.order)))
    BY DEF KnownOrder
  <1>5. fills' = fills \/ (fills' = fills \cup {new} /\ KnownOrder(e.order) # NoId)
    BY Zenon DEF Outcome
  <1>6. new.order = e.order
    OBVIOUS
  <1>7. \A q \in requirements : q.order \in OrderIds \cup {NoId}
    BY DEF EvidenceInv, EventRowsAgree
  <1> HIDE DEF req, new
  <1>8. \A q \in requirements' : q.order # NoId => Registered(q.order)'
    BY <1>0, <1>2, <1>3, <1>4, <1>7 DEF FillsVerify, EvidenceInv
  <1>9. \A f \in fills' : f.order \in OrderIds /\ Registered(f.order)'
    <2>1. KnownOrder(e.order) # NoId => e.order \in OrderIds /\ Registered(e.order)
      BY DEF KnownOrder
    <2> QED
      BY <2>1, <1>0, <1>5, <1>6 DEF FillsVerify, EvidenceInv
  <1> QED
    BY <1>8, <1>9 DEF FillsVerify

LEMMA AppendRawEvidence ==
    ASSUME DispatchInv, EvidenceInv, [Next]_vars, NEW r \in RawIds, NEW e \in Evidence,
           AppendRawObservation(r, e)
    PROVE  EvidenceInv'
  <1>1. /\ raws[r].status = "absent" /\ UNCHANGED <<events, fills, requirements>>
        /\ raws' = [raws EXCEPT ![r] = [status |-> "unresolved", event |-> e]]
    BY DEF AppendRawObservation
  <1>2. /\ raws'[r].status = "unresolved"
        /\ \A x \in RawIds : x # r => raws'[x] = raws[x]
    BY <1>1 DEF DispatchInv, TypeOK
  <1>3. \A x \in events : x.raw \in RawIds /\ x.raw # r
    <2>1. \A x \in events : x.raw \in RawIds /\ x.disposition \in Dispositions
      BY DEF EvidenceInv, EventRowsAgree
    <2> QED
      BY <2>1, <1>1 DEF EvidenceInv, EvidenceVerifies, Dispositions
  <1>4. \A q \in requirements : q.raw \in RawIds /\ q.raw # r
    BY <1>1 DEF EvidenceInv, EventRowsAgree
  <1>5. EventRowsAgree'
    BY <1>1, <1>2, <1>3, <1>4 DEF EvidenceInv, EventRowsAgree
  <1>6. EvidenceVerifies'
    <2>1. \A x : Required(x)' = Required(x)
      BY <1>1 DEF Required
    <2>2. \A x \in RawIds : raws'[x].status = "conflict" => Required(x)'
      BY <2>1, <1>2 DEF EvidenceInv, EvidenceVerifies
    <2>3. \A x \in events : raws'[x.raw] = raws[x.raw]
      BY <1>2, <1>3
    <2> QED
      BY <2>1, <2>2, <2>3, <1>1 DEF EvidenceInv, EvidenceVerifies
  <1>7. ResolvedIsApplied'
    BY <1>1, <1>2 DEF EvidenceInv, ResolvedIsApplied, EventRow
  <1>8. FillsVerify' /\ \A f \in fills' : f.order \in OrderIds
    BY <1>1, StaysRegistered DEF EvidenceInv, EventRowsAgree, FillsVerify
  <1> QED
    BY <1>5, <1>6, <1>7, <1>8 DEF EvidenceInv

LEMMA EvidenceStep == DispatchInv /\ EvidenceInv /\ [Next]_vars => EvidenceInv'
  <1> SUFFICES ASSUME DispatchInv, EvidenceInv, [Next]_vars PROVE EvidenceInv'
    OBVIOUS
  <1>0. ASSUME UNCHANGED evidenceTables PROVE EvidenceInv'
    <2>1. UNCHANGED <<raws, events, fills, requirements>>
      BY <1>0 DEF evidenceTables
    <2>2. EventRowsAgree' /\ ResolvedIsApplied'
      BY <2>1 DEF EvidenceInv, EventRowsAgree, ResolvedIsApplied, EventRow
    <2>3. EvidenceVerifies'
      BY <2>1 DEF EvidenceInv, EvidenceVerifies, Required
    <2>4. FillsVerify' /\ \A f \in fills' : f.order \in OrderIds
      BY <2>1, StaysRegistered DEF EvidenceInv, EventRowsAgree, FillsVerify
    <2> QED
      BY <2>2, <2>3, <2>4 DEF EvidenceInv
  <1>1. ASSUME NEW r \in RawIds, NEW origin \in RawIds, NEW x \in Correlations,
               ApplyNormalizedEvent(r, origin, x[1], x[2])
        PROVE  EvidenceInv'
    <2> DEFINE e == Normalized(origin, x[1], x[2])
    <2>1. Applying(e, r)
      BY <1>1, ApplicationStarts DEF DispatchInv
    <2>2. Outcome(e, r)
      BY <1>1, ApplySettles, Zenon
    <2> HIDE DEF e
    <2>3. EvidenceNext
      BY <2>1, <2>2, OutcomeEvidence
    <2>4. FillsVerify' /\ \A f \in fills' : f.order \in OrderIds
      BY <2>1, <2>2, OutcomeFills
    <2> QED
      BY <2>3, <2>4 DEF EvidenceNext, EvidenceInv
  <1>2. ASSUME NEW r \in RawIds, NEW e \in Evidence, AppendRawObservation(r, e)
        PROVE  EvidenceInv'
    BY <1>2, AppendRawEvidence
  <1>3. ASSUME NEW o \in OrderIds, NEW c \in CommandSource[o],
               RegisterNewOrder(o, c) \/ RegisterCommand(o, c)
        PROVE  EvidenceInv'
    BY <1>0, <1>3 DEF RegisterNewOrder, RegisterCommand
  <1>4. ASSUME NEW d \in Dispatchers,
               \/ \E row \in commands : ClaimDispatch(d, row)
               \/ Send(d)
               \/ \E s \in DispatchStates : RecordDispatchReceipt(d, s)
        PROVE  EvidenceInv'
    BY <1>0, <1>4 DEF ClaimDispatch, Send, RecordDispatchReceipt, tables
  <1>5. CASE Close \/ Crash \/ Resume \/ UNCHANGED vars
    BY <1>0, <1>5 DEF Close, Crash, Resume, vars, tables
  <1> QED
    BY <1>1, <1>2, <1>3, <1>4, <1>5 DEF Next

-----------------------------------------------------------------------------
(* Records *)

\* The records of the rows, apart from those that the database started with.
RowRecords ==
    {<<"order", o>> : o \in RegisteredOrders}
        \cup {<<"command", row.command.id>> : row \in commands}
        \cup {<<"dispatch-claim", row.id>> : row \in claims}
        \cup {<<"dispatch-receipt", row.command.id>> : row \in receipts}
        \cup {<<"raw-observation", r>> : r \in Held(Stored)}
        \cup {<<"observation-resolution", r>> : r \in Held(Settled)}
        \cup {<<"normalized-application", row.event.id>> : row \in events}
        \cup {<<"reconciliation", q.id>> : q \in requirements}

\* The records of the commits and of what they resolved.
OverlayRecords ==
    {<<"reconciliation-commit", m.id>> : m \in commits}
        \cup {<<"operator-authorization", m.authorization>> : m \in commits}
        \cup {<<x.kind, x.id>> : x \in resolutions}

LEMMA ExpectedSplit ==
    ASSUME TypeOK
    PROVE  ExpectedRecords = InitialRecords(StoredVersion) \cup RowRecords \cup OverlayRecords
  <1>1. {x \in RawIds : raws[x].status # "absent"} = Held(Stored)
    <2>1. \A x \in RawIds : raws[x] \in Observations
      BY DEF TypeOK
    <2>2. \A x \in RawIds : raws[x].status \in {"absent"} \cup Stored
      BY <2>1 DEF Observations, Stored
    <2> QED
      BY <2>2 DEF Held, Stored
  <1>2. {x \in RawIds : raws[x].status \in {"resolved", "conflict"}} = Held(Settled)
    BY DEF Held, Settled
  <1>3. {x \in OrderIds : Registered(x)} = RegisteredOrders
    BY DEF RegisteredOrders
  <1> QED
    BY <1>1, <1>2, <1>3 DEF ExpectedRecords, RowRecords, OverlayRecords

\* A record of a kind is there exactly when its row is.
LEMMA RecordKinds ==
    ASSUME NEW y
    PROVE  /\ <<"order", y>> \in RowRecords => y \in RegisteredOrders
           /\ <<"command", y>> \in RowRecords => CommandRow(y) # {}
           /\ <<"dispatch-claim", y>> \in RowRecords => ClaimOf(y) # {}
           /\ <<"dispatch-receipt", y>> \in RowRecords => ReceiptOf(y) # {}
           /\ <<"raw-observation", y>> \in RowRecords => y \in Held(Stored)
           /\ <<"observation-resolution", y>> \in RowRecords => y \in Held(Settled)
           /\ <<"normalized-application", y>> \in RowRecords => EventRow(y) # {}
           /\ <<"reconciliation", y>> \in RowRecords => \E q \in requirements : q.id = y
           /\ <<"schema-migration", y>> \notin RowRecords
  BY DEF RowRecords, CommandRow, ClaimOf, ReceiptOf, EventRow

RowKinds == {"order", "command", "dispatch-claim", "dispatch-receipt", "raw-observation",
             "observation-resolution", "normalized-application", "reconciliation"}

\* A row is not taken for a migration or for the identity of the database.
LEMMA RowsAreNotMigrations ==
    ASSUME NEW version \in 1 .. SchemaVersion
    PROVE  /\ \A x \in RowRecords : x[1] \in RowKinds
           /\ \A x \in InitialRecords(version) : x[1] \notin RowKinds
  <1>1. \A x \in RowRecords : x[1] \in RowKinds
    BY DEF RowRecords, RowKinds
  <1>2. \A x \in InitialRecords(version) : x[1] \notin RowKinds
    BY DEF InitialRecords, RowKinds
  <1> QED
    BY <1>1, <1>2

\* Nor is a commit, its authorization or a resolution taken for a row.
LEMMA OverlaysAreNotRows ==
    ASSUME OverlayOK, NEW x \in OverlayRecords
    PROVE  x[1] \notin RowKinds /\ x[1] \notin {"identity", "schema-migration"}
  BY DEF OverlayOK, OverlayRecords, OverlayKinds, RowKinds

LEMMA OverlayCountNatural ==
    ASSUME OverlayOK
    PROVE  /\ OverlayCount \in Nat
           /\ Cardinality(commits) \in Nat /\ Cardinality(resolutions) \in Nat
  <1>1. Cardinality(commits) \in Nat /\ Cardinality(resolutions) \in Nat
    BY FS_CardinalityType DEF OverlayOK
  <1> QED
    BY <1>1 DEF OverlayCount

\* The rows of one transaction take their own records and sequence numbers.
LEMMA RowsAppend ==
    ASSUME TypeOK, OverlayOK, MigrationsRecorded, RowsRecorded, IsFiniteSet(records),
           TypeOK', UNCHANGED <<commits, resolutions>>,
           journal' \in {journal, "closed", "unclean"},
           NEW new, AppendRecords(new), IsFiniteSet(new), new \cap RowRecords = {},
           \A x \in new : x[1] \in RowKinds,
           RowRecords' = RowRecords \cup new, RowCount' = RowCount + Cardinality(new),
           RowCount \in Nat,
           \A q \in requirements' : q.id \in 1 .. Cardinality(requirements')
    PROVE  MigrationsRecorded' /\ RowsRecorded' /\ IsFiniteSet(records')
  <1> DEFINE M == {x \in records : x[1] = "schema-migration"}
  <1>1. records' = records \cup new /\ sequence' = sequence + Cardinality(new)
    BY DEF AppendRecords
  <1>2. \A x \in new : x[1] # "schema-migration"
    BY DEF RowKinds
  <1>3. {x \in records' : x[1] = "schema-migration"} = M
    BY <1>1, <1>2
  <1>4. StoredVersion' = StoredVersion
    BY <1>3 DEF StoredVersion
  <1>5. MigrationsRecorded'
    BY <1>3, <1>4 DEF MigrationsRecorded
  <1>6. records = InitialRecords(StoredVersion) \cup RowRecords \cup OverlayRecords
    BY ExpectedSplit DEF RowsRecorded
  <1>7. ExpectedRecords' = InitialRecords(StoredVersion') \cup RowRecords' \cup OverlayRecords
    <2>1. (TypeOK => ExpectedRecords =
                        InitialRecords(StoredVersion) \cup RowRecords \cup OverlayRecords)'
      BY ExpectedSplit, PTL
    <2>2. (InitialRecords(StoredVersion))' = InitialRecords(StoredVersion')
      BY DEF InitialRecords
    <2>3. OverlayRecords' = OverlayRecords
      BY DEF OverlayRecords
    <2> QED
      BY <2>1, <2>2, <2>3
  <1>8. records' = ExpectedRecords'
    BY <1>1, <1>4, <1>6, <1>7
  <1>9. new \cap records = {}
    <2>1. StoredVersion \in 1 .. SchemaVersion
      BY DEF MigrationsRecorded
    <2> QED
      BY <2>1, <1>6, RowsAreNotMigrations, OverlaysAreNotRows
  <1>10. /\ IsFiniteSet(records') /\ Cardinality(records') = Cardinality(records) + Cardinality(new)
    <2>1. /\ IsFiniteSet(records \cup new)
          /\ Cardinality(records \cup new) =
               Cardinality(records) + Cardinality(new) - Cardinality(records \cap new)
      BY FS_Union
    <2>2. Cardinality(records \cap new) = 0
      BY <1>9, FS_EmptySet
    <2>3. Cardinality(records) \in Nat /\ Cardinality(new) \in Nat
      BY FS_CardinalityType
    <2> QED
      BY <2>1, <2>2, <2>3, <1>1
  <1>11. /\ sequence' = Cardinality(records')
         /\ sequence' = StoredVersion' + RowCount' + OverlayCount'
    <2>1. sequence = Cardinality(records) /\ sequence = StoredVersion + RowCount + OverlayCount
      BY DEF RowsRecorded
    <2>2. StoredVersion \in Nat /\ Cardinality(new) \in Nat /\ Cardinality(records) \in Nat
      BY FS_CardinalityType DEF MigrationsRecorded, SchemaVersion
    <2>3. OverlayCount' = OverlayCount /\ OverlayCount \in Nat
      BY OverlayCountNatural DEF OverlayCount
    <2> QED
      BY <2>1, <2>2, <2>3, <1>1, <1>4, <1>10
  <1> QED
    BY <1>5, <1>8, <1>10, <1>11 DEF RowsRecorded

LEMMA OneMore ==
    ASSUME NEW S, NEW x, IsFiniteSet(S), x \notin S
    PROVE  /\ IsFiniteSet(S \cup {x}) /\ Cardinality(S \cup {x}) = Cardinality(S) + 1
           /\ Cardinality(S) \in Nat
  BY FS_AddElement, FS_CardinalityType

LEMMA CountsAreNatural ==
    ASSUME TablesFinite
    PROVE  /\ Cardinality(RegisteredOrders) \in Nat /\ Cardinality(commands) \in Nat
           /\ Cardinality(claims) \in Nat /\ Cardinality(receipts) \in Nat
           /\ Cardinality(Held(Stored)) \in Nat /\ Cardinality(Held(Settled)) \in Nat
           /\ Cardinality(events) \in Nat /\ Cardinality(requirements) \in Nat
           /\ RowCount \in Nat
  <1>1. /\ Cardinality(RegisteredOrders) \in Nat /\ Cardinality(commands) \in Nat
        /\ Cardinality(claims) \in Nat /\ Cardinality(receipts) \in Nat
        /\ Cardinality(Held(Stored)) \in Nat /\ Cardinality(Held(Settled)) \in Nat
        /\ Cardinality(events) \in Nat /\ Cardinality(requirements) \in Nat
    BY FS_CardinalityType DEF TablesFinite
  <1> QED
    BY <1>1 DEF RowCount

\* One record more, or a pair of them.
LEMMA RecordCounts ==
    ASSUME NEW x, NEW y, x # y
    PROVE  /\ IsFiniteSet({x}) /\ Cardinality({x}) = 1
           /\ IsFiniteSet({x, y}) /\ Cardinality({x, y}) = 2
  <1>1. {x, y} = {x} \cup {y}
    OBVIOUS
  <1>2. IsFiniteSet({x}) /\ Cardinality({x}) = 1
    BY FS_Singleton
  <1>3. y \notin {x}
    OBVIOUS
  <1> DEFINE S == {x}
  <1>4. IsFiniteSet(S) /\ Cardinality(S) = 1 /\ y \notin S /\ {x, y} = S \cup {y}
    BY <1>1, <1>2, <1>3
  <1> HIDE DEF S
  <1>5. IsFiniteSet(S \cup {y}) /\ Cardinality(S \cup {y}) = Cardinality(S) + 1
    BY <1>4, FS_AddElement
  <1>6. Cardinality(S \cup {y}) = 2
    BY <1>4, <1>5
  <1> QED
    BY <1>2, <1>4, <1>5, <1>6

RecordsInv == MigrationsRecorded /\ TablesFinite /\ RowsRecorded

\* An order that is written again is not registered again.
LEMMA RegisteredKept ==
    ASSUME DispatchInv, [Next]_vars,
           UNCHANGED orderTables \/ \E x \in OrderIds : \E n : Registered(x) /\ WriteOrder(x, n)
    PROVE  RegisteredOrders' = RegisteredOrders
  <1>1. \A o \in OrderIds : Registered(o) => Registered(o)'
    BY StaysRegistered
  <1>2. CASE UNCHANGED orderTables
    BY <1>2 DEF orderTables, RegisteredOrders, Registered
  <1>3. ASSUME NEW x \in OrderIds, NEW n, Registered(x), WriteOrder(x, n)
        PROVE  RegisteredOrders' = RegisteredOrders
    <2>1. \A o \in OrderIds \ {x} : orders'[o] = orders[o]
      BY <1>3 DEF WriteOrder, DispatchInv, TypeOK
    <2> QED
      BY <2>1, <1>1, <1>3 DEF RegisteredOrders, Registered
  <1> QED
    BY <1>2, <1>3

LEMMA RecordsFrame ==
    ASSUME RecordsInv,
           UNCHANGED <<orders, commands, claims, receipts, raws, events, requirements>>,
           UNCHANGED <<commits, resolutions, records, sequence>>,
           journal' \in {journal, "closed", "unclean"}
    PROVE  RecordsInv'
  <1>1. RegisteredOrders' = RegisteredOrders /\ Held(Stored)' = Held(Stored)
        /\ Held(Settled)' = Held(Settled)
    BY DEF RegisteredOrders, Registered, Held
  <1>2. TablesFinite' /\ RowCount' = RowCount
    BY <1>1 DEF RecordsInv, TablesFinite, RowCount
  <1>3. StoredVersion' = StoredVersion
    BY DEF StoredVersion
  <1>4. MigrationsRecorded'
    BY <1>3 DEF RecordsInv, MigrationsRecorded
  <1>5. ExpectedRecords' = ExpectedRecords
    BY <1>3 DEF ExpectedRecords, Registered, InitialRecords
  <1>6. OverlayCount' = OverlayCount
    BY DEF OverlayCount
  <1> QED
    BY <1>2, <1>3, <1>4, <1>5, <1>6 DEF RecordsInv, RowsRecorded

\* The hypotheses of RowsAppend that every step meets.
RecordsStart ==
    /\ DispatchInv /\ OverlayOK /\ RecordsInv /\ [Next]_vars

LEMMA RowsAppended ==
    ASSUME RecordsStart, journal' = journal, NEW new, AppendRecords(new), IsFiniteSet(new),
           new \cap RowRecords = {}, \A x \in new : x[1] \in RowKinds,
           RowRecords' = RowRecords \cup new, RowCount' = RowCount + Cardinality(new),
           \A q \in requirements' : q.id \in 1 .. Cardinality(requirements'),
           IsFiniteSet(records') => TablesFinite'
    PROVE  RecordsInv'
  <1>1. TypeOK /\ OverlayOK /\ MigrationsRecorded /\ RowsRecorded /\ TablesFinite
    BY DEF RecordsStart, RecordsInv, DispatchInv
  <1>2. TypeOK' /\ UNCHANGED <<commits, resolutions>>
    BY TypeStep, OverlayStep DEF RecordsStart
  <1>3. RowCount \in Nat /\ IsFiniteSet(records)
    BY <1>1, CountsAreNatural DEF TablesFinite
  <1>4. MigrationsRecorded' /\ RowsRecorded' /\ IsFiniteSet(records')
    BY <1>1, <1>2, <1>3, RowsAppend
  <1> QED
    BY <1>4 DEF RecordsInv

LEMMA RegisterRecords ==
    ASSUME RecordsStart, NEW o \in OrderIds, NEW c \in CommandSource[o],
           RegisterNewOrder(o, c) \/ RegisterCommand(o, c)
    PROVE  RecordsInv'
  <1> DEFINE row == [order |-> o, command |-> c]
             a == <<"order", o>>
             b == <<"command", c.id>>
  <1>0. DispatchInv /\ [Next]_vars /\ TypeOK /\ TablesFinite
    BY DEF RecordsStart, RecordsInv, DispatchInv
  <1>1. /\ commands' = commands \cup {row} /\ CommandRow(c.id) = {}
        /\ UNCHANGED <<journal, claims, receipts, raws, events, requirements>>
    BY DEF RegisterNewOrder, RegisterCommand, evidenceTables
  <1>2. row.command.id = c.id
    OBVIOUS
  <1> HIDE DEF row
  <1>3. row \notin commands
    BY <1>1, <1>2 DEF CommandRow
  <1>4. IsFiniteSet(commands') /\ Cardinality(commands') = Cardinality(commands) + 1
    BY <1>0, <1>1, <1>3, OneMore DEF TablesFinite
  <1>5. {<<"command", x.command.id>> : x \in commands'} =
           {<<"command", x.command.id>> : x \in commands} \cup {b}
    BY <1>1, <1>2
  <1>6. Held(Stored)' = Held(Stored) /\ Held(Settled)' = Held(Settled)
    BY <1>1 DEF Held
  <1>7. \A q \in requirements' : q.id \in 1 .. Cardinality(requirements')
    BY <1>1 DEF RecordsStart, RecordsInv, RowsRecorded
  <1>8. b \notin RowRecords
    BY <1>1, RecordKinds
  <1>9. CASE RegisterNewOrder(o, c)
    <2>1. AppendRecords({a, b}) /\ ~Registered(o) /\ WriteOrder(o, Submitting(o, c)) /\ c.kind = "new"
      BY <1>9 DEF RegisterNewOrder
    <2>2. Submitting(o, c) # NoOrder
      BY <2>1, SubmittingGood, OrderIsSomething DEF GoodOrder
    <2>3. orders' = [orders EXCEPT ![o] = Submitting(o, c)]
      BY <2>1 DEF WriteOrder
    <2>4. RegisteredOrders' = RegisteredOrders \cup {o} /\ o \notin RegisteredOrders
      BY <2>1, <2>2, <2>3, <1>0 DEF RegisteredOrders, Registered, TypeOK
    <2>5. /\ IsFiniteSet(RegisteredOrders')
          /\ Cardinality(RegisteredOrders') = Cardinality(RegisteredOrders) + 1
      BY <2>4, <1>0, OneMore DEF TablesFinite
    <2>6. /\ IsFiniteSet({a, b}) /\ Cardinality({a, b}) = 2
      BY RecordCounts
    <2>7. RowRecords' = RowRecords \cup {a, b}
      <3>1. {<<"order", x>> : x \in RegisteredOrders'} =
               {<<"order", x>> : x \in RegisteredOrders} \cup {a}
        BY <2>4
      <3> HIDE DEF a, b
      <3> QED
        BY <3>1, <1>1, <1>5, <1>6 DEF RowRecords
    <2>8. {a, b} \cap RowRecords = {}
      BY <2>4, <1>8, RecordKinds
    <2>9. RowCount' = RowCount + 2
      BY <2>5, <1>0, <1>1, <1>4, <1>6, CountsAreNatural DEF RowCount
    <2>10. \A x \in {a, b} : x[1] \in RowKinds
      BY DEF RowKinds
    <2>11. IsFiniteSet(records') => TablesFinite'
      BY <2>5, <1>0, <1>1, <1>4, <1>6 DEF TablesFinite
    <2> HIDE DEF a, b
    <2> QED
      BY <2>1, <2>6, <2>7, <2>8, <2>9, <2>10, <2>11, <1>1, <1>7, RowsAppended
  <1>10. CASE RegisterCommand(o, c)
    <2>1. AppendRecords({b}) /\ Registered(o) /\ \E n : WriteOrder(o, n)
      BY <1>10 DEF RegisterCommand
    <2>2. RegisteredOrders' = RegisteredOrders
      BY <2>1, <1>0, RegisteredKept
    <2>3. /\ IsFiniteSet({b}) /\ Cardinality({b}) = 1
      BY FS_Singleton
    <2>4. RowRecords' = RowRecords \cup {b}
      <3> HIDE DEF b
      <3> QED
        BY <2>2, <1>1, <1>5, <1>6 DEF RowRecords
    <2>5. RowCount' = RowCount + 1
      BY <2>2, <1>0, <1>1, <1>4, <1>6, CountsAreNatural DEF RowCount
    <2>6. \A x \in {b} : x[1] \in RowKinds
      BY DEF RowKinds
    <2>7. IsFiniteSet(records') => TablesFinite'
      BY <2>2, <1>0, <1>1, <1>4, <1>6 DEF TablesFinite
    <2>8. {b} \cap RowRecords = {}
      BY <1>8
    <2> HIDE DEF b
    <2> QED
      BY <2>1, <2>3, <2>4, <2>5, <2>6, <2>7, <2>8, <1>1, <1>7, RowsAppended
  <1> QED
    BY <1>9, <1>10

LEMMA ClaimRecords ==
    ASSUME RecordsStart, NEW d \in Dispatchers, NEW row \in commands, ClaimDispatch(d, row)
    PROVE  RecordsInv'
  <1> DEFINE new == [id |-> row.command.id, version |-> orders[row.order].version]
             b == <<"dispatch-claim", row.command.id>>
  <1>0. DispatchInv /\ [Next]_vars /\ TypeOK /\ TablesFinite
    BY DEF RecordsStart, RecordsInv, DispatchInv
  <1>1. /\ claims' = claims \cup {new} /\ ClaimOf(row.command.id) = {} /\ AppendRecords({b})
        /\ UNCHANGED <<journal, orderTables, commands, receipts, raws, events, requirements>>
    BY DEF ClaimDispatch, Claimable, evidenceTables
  <1>2. new.id = row.command.id
    OBVIOUS
  <1> HIDE DEF new
  <1>3. new \notin claims
    BY <1>1, <1>2 DEF ClaimOf
  <1>4. IsFiniteSet(claims') /\ Cardinality(claims') = Cardinality(claims) + 1
    BY <1>0, <1>1, <1>3, OneMore DEF TablesFinite
  <1>5. {<<"dispatch-claim", x.id>> : x \in claims'} =
           {<<"dispatch-claim", x.id>> : x \in claims} \cup {b}
    BY <1>1, <1>2
  <1>6. /\ Held(Stored)' = Held(Stored) /\ Held(Settled)' = Held(Settled)
        /\ RegisteredOrders' = RegisteredOrders
    BY <1>1, <1>0, RegisteredKept DEF Held
  <1>7. \A q \in requirements' : q.id \in 1 .. Cardinality(requirements')
    BY <1>1 DEF RecordsStart, RecordsInv, RowsRecorded
  <1>8. {b} \cap RowRecords = {}
    BY <1>1, RecordKinds
  <1>9. IsFiniteSet({b}) /\ Cardinality({b}) = 1 /\ \A x \in {b} : x[1] \in RowKinds
    <2>1. b[1] \in RowKinds
      BY DEF RowKinds
    <2> HIDE DEF b
    <2> QED
      BY <2>1, FS_Singleton
  <1> HIDE DEF b
  <1>10. RowRecords' = RowRecords \cup {b}
    BY <1>1, <1>5, <1>6 DEF RowRecords
  <1>11. RowCount' = RowCount + 1
    BY <1>0, <1>1, <1>4, <1>6, CountsAreNatural DEF RowCount
  <1>12. IsFiniteSet(records') => TablesFinite'
    BY <1>0, <1>1, <1>4, <1>6 DEF TablesFinite
  <1> QED
    BY <1>1, <1>7, <1>8, <1>9, <1>10, <1>11, <1>12, RowsAppended

LEMMA ReceiptRecords ==
    ASSUME RecordsStart, NEW d \in Dispatchers, NEW s \in DispatchStates, RecordDispatchReceipt(d, s)
    PROVE  RecordsInv'
  <1> DEFINE c == dispatcher[d].command
             new == [command |-> c, state |-> s, at |-> Now]
             b == <<"dispatch-receipt", c.id>>
             o == (CHOOSE row \in commands : row.command = c).order
  <1>0. DispatchInv /\ [Next]_vars /\ TypeOK /\ TablesFinite /\ RecordsInv
    BY DEF RecordsStart, RecordsInv, DispatchInv
  <1>1. /\ dispatcher[d].phase = "sent"
        /\ UNCHANGED <<journal, commands, claims, raws, events, requirements, commits, resolutions>>
    BY DEF RecordDispatchReceipt, evidenceTables, overlays
  <1>2. \/ /\ receipts' = receipts \cup {new} /\ ReceiptOf(c.id) = {} /\ AppendRecords({b})
           /\ UNCHANGED orderTables \/ \E n : WriteOrder(o, n)
        \/ UNCHANGED <<receipts, records, sequence, orders>>
    BY DEF RecordDispatchReceipt, ReceiptRecordable, orderTables
  <1>3. o \in OrderIds /\ Registered(o)
    BY <1>0, <1>1, HeldCommand DEF DispatchInv
  <1>4. new.command.id = c.id
    OBVIOUS
  <1> HIDE DEF new, o
  <1>5. CASE UNCHANGED <<receipts, records, sequence, orders>>
    BY <1>0, <1>1, <1>5, RecordsFrame
  <1>6. CASE /\ receipts' = receipts \cup {new} /\ ReceiptOf(c.id) = {} /\ AppendRecords({b})
             /\ UNCHANGED orderTables \/ \E n : WriteOrder(o, n)
    <2>1. new \notin receipts
      BY <1>4, <1>6 DEF ReceiptOf
    <2>2. IsFiniteSet(receipts') /\ Cardinality(receipts') = Cardinality(receipts) + 1
      BY <1>0, <1>6, <2>1, OneMore DEF TablesFinite
    <2>3. {<<"dispatch-receipt", x.command.id>> : x \in receipts'} =
             {<<"dispatch-receipt", x.command.id>> : x \in receipts} \cup {b}
      BY <1>4, <1>6
    <2>4. /\ Held(Stored)' = Held(Stored) /\ Held(Settled)' = Held(Settled)
          /\ RegisteredOrders' = RegisteredOrders
      BY <1>0, <1>1, <1>3, <1>6, RegisteredKept DEF Held
    <2>5. \A q \in requirements' : q.id \in 1 .. Cardinality(requirements')
      BY <1>0, <1>1 DEF RecordsInv, RowsRecorded
    <2>6. {b} \cap RowRecords = {}
      BY <1>6, RecordKinds
    <2>7. IsFiniteSet({b}) /\ Cardinality({b}) = 1 /\ \A x \in {b} : x[1] \in RowKinds
      <3>1. b[1] \in RowKinds
        BY DEF RowKinds
      <3> HIDE DEF b
      <3> QED
        BY <3>1, FS_Singleton
    <2> HIDE DEF b
    <2>8. RowRecords' = RowRecords \cup {b}
      BY <1>1, <2>3, <2>4 DEF RowRecords
    <2>9. RowCount' = RowCount + 1
      BY <1>0, <1>1, <2>2, <2>4, CountsAreNatural DEF RowCount
    <2>10. IsFiniteSet(records') => TablesFinite'
      BY <1>0, <1>1, <2>2, <2>4 DEF TablesFinite
    <2> QED
      BY <1>1, <1>6, <2>5, <2>6, <2>7, <2>8, <2>9, <2>10, RowsAppended
  <1> QED
    BY <1>2, <1>5, <1>6

LEMMA RawRecords ==
    ASSUME RecordsStart, NEW r \in RawIds, NEW e \in Evidence, AppendRawObservation(r, e)
    PROVE  RecordsInv'
  <1> DEFINE b == <<"raw-observation", r>>
  <1>0. DispatchInv /\ [Next]_vars /\ TypeOK /\ TablesFinite /\ RecordsInv
    BY DEF RecordsStart, RecordsInv, DispatchInv
  <1>1. /\ UNCHANGED <<journal, orderTables, commands, claims, receipts, events, requirements>>
        /\ raws' = [raws EXCEPT ![r] = [status |-> "unresolved", event |-> e]]
        /\ raws[r].status = "absent" /\ AppendRecords({b})
    BY DEF AppendRawObservation, commandTables
  <1>2. raws'[r].status = "unresolved" /\ \A x \in RawIds : x # r => raws'[x] = raws[x]
    BY <1>0, <1>1 DEF TypeOK
  <1>3. /\ Held(Stored)' = Held(Stored) \cup {r} /\ r \notin Held(Stored)
        /\ Held(Settled)' = Held(Settled)
    BY <1>1, <1>2 DEF Held, Stored, Settled
  <1>4. IsFiniteSet(Held(Stored)') /\ Cardinality(Held(Stored)') = Cardinality(Held(Stored)) + 1
    BY <1>0, <1>3, OneMore DEF TablesFinite
  <1>5. RegisteredOrders' = RegisteredOrders
    BY <1>0, <1>1, RegisteredKept
  <1>6. {<<"raw-observation", x>> : x \in Held(Stored)'} =
           {<<"raw-observation", x>> : x \in Held(Stored)} \cup {b}
    BY <1>3
  <1>7. \A q \in requirements' : q.id \in 1 .. Cardinality(requirements')
    BY <1>0, <1>1 DEF RecordsInv, RowsRecorded
  <1>8. {b} \cap RowRecords = {}
    BY <1>3, RecordKinds
  <1>9. IsFiniteSet({b}) /\ Cardinality({b}) = 1 /\ \A x \in {b} : x[1] \in RowKinds
    <2>1. b[1] \in RowKinds
      BY DEF RowKinds
    <2> HIDE DEF b
    <2> QED
      BY <2>1, FS_Singleton
  <1> HIDE DEF b
  <1>10. RowRecords' = RowRecords \cup {b}
    BY <1>1, <1>3, <1>5, <1>6 DEF RowRecords
  <1>11. RowCount' = RowCount + 1
    BY <1>0, <1>1, <1>3, <1>4, <1>5, CountsAreNatural DEF RowCount
  <1>12. IsFiniteSet(records') => TablesFinite'
    BY <1>0, <1>1, <1>3, <1>4, <1>5 DEF TablesFinite
  <1> QED
    BY <1>1, <1>7, <1>8, <1>9, <1>10, <1>11, <1>12, RowsAppended

\* Up to three rows of one transaction, each with its own kind of record.
LEMMA SettleRecords ==
    ASSUME RecordsStart, NEW e, NEW r, Applying(e, r), journal' = journal,
           UNCHANGED <<commands, claims, receipts>>, RegisteredOrders' = RegisteredOrders,
           NEW disposition, NEW reason, NEW status \in {"none", "resolved", "conflict"},
           disposition # "none" => EventRow(e.id) = {},
           Settle(e, r, disposition, reason, status)
    PROVE  RecordsInv'
  <1> DEFINE id == Cardinality(requirements) + 1
             row == Row(e, r, disposition)
             req == [id |-> id, order |-> KnownOrder(e.order), raw |-> r, reason |-> reason]
             a == <<"normalized-application", e.id>>
             b == <<"reconciliation", id>>
             c == <<"observation-resolution", r>>
             A == IF disposition # "none" THEN {a} ELSE {}
             B == IF reason = "none" THEN {} ELSE {b}
             C == IF status = "none" THEN {} ELSE {c}
             new == A \cup B \cup C
  <1>0. /\ DispatchInv /\ [Next]_vars /\ TypeOK /\ TablesFinite /\ RecordsInv
        /\ r \in RawIds /\ raws[r].status = "unresolved"
    BY DEF RecordsStart, RecordsInv, DispatchInv, Applying
  <1>1. /\ events' = IF disposition # "none" THEN events \cup {row} ELSE events
        /\ requirements' = IF reason = "none" THEN requirements ELSE requirements \cup {req}
        /\ AppendRecords(new)
    BY DEF Settle, Row
  <1>2. /\ \A x \in RawIds : x # r => raws'[x] = raws[x]
        /\ status = "none" => raws' = raws
        /\ status # "none" => raws'[r].status = status
    BY <1>0, SettleRaws
  <1>3. row.event.id = e.id /\ req.id = id
    BY DEF Row
  <1> HIDE DEF row, req
  <1>4. /\ IsFiniteSet(events')
        /\ Cardinality(events') = Cardinality(events) + Cardinality(A)
        /\ {<<"normalized-application", x.event.id>> : x \in events'} =
              {<<"normalized-application", x.event.id>> : x \in events} \cup A
        /\ A \cap RowRecords = {} /\ IsFiniteSet(A) /\ Cardinality(A) \in Nat
    <2>1. CASE disposition # "none"
      <3>1. row \notin events
        BY <2>1, <1>3 DEF EventRow
      <3>2. A = {a} /\ Cardinality({a}) = 1 /\ IsFiniteSet({a}) /\ events' = events \cup {row}
        BY <2>1, <1>1, FS_Singleton
      <3>3. IsFiniteSet(events') /\ Cardinality(events') = Cardinality(events) + 1
        BY <3>1, <3>2, <1>0, OneMore DEF TablesFinite
      <3>4. a \notin RowRecords
        BY <2>1, RecordKinds
      <3>5. {<<"normalized-application", x.event.id>> : x \in events'} =
              {<<"normalized-application", x.event.id>> : x \in events} \cup {a}
        BY <3>2, <1>3
      <3> QED
        BY <3>2, <3>3, <3>4, <3>5
    <2>2. CASE disposition = "none"
      <3>1. A = {} /\ events' = events /\ Cardinality({}) = 0 /\ IsFiniteSet({})
        BY <2>2, <1>1, FS_EmptySet
      <3>2. IsFiniteSet(events) /\ Cardinality(events) \in Nat
        BY <1>0, CountsAreNatural DEF TablesFinite
      <3> HIDE DEF A
      <3> QED
        BY <3>1, <3>2
    <2> QED
      BY <2>1, <2>2
  <1>5. /\ IsFiniteSet(requirements')
        /\ Cardinality(requirements') = Cardinality(requirements) + Cardinality(B)
        /\ {<<"reconciliation", q.id>> : q \in requirements'} =
              {<<"reconciliation", q.id>> : q \in requirements} \cup B
        /\ \A q \in requirements' : q.id \in 1 .. Cardinality(requirements')
        /\ B \cap RowRecords = {} /\ IsFiniteSet(B) /\ Cardinality(B) \in Nat
    <2>0. /\ \A q \in requirements : q.id \in 1 .. Cardinality(requirements)
          /\ Cardinality(requirements) \in Nat /\ IsFiniteSet(requirements)
      BY <1>0, CountsAreNatural DEF RecordsInv, RowsRecorded, TablesFinite
    <2>1. CASE reason # "none"
      <3>1. \A q \in requirements : q.id # id
        BY <2>0
      <3>2. B = {b} /\ Cardinality({b}) = 1 /\ IsFiniteSet({b})
            /\ requirements' = requirements \cup {req}
        BY <2>1, <1>1, FS_Singleton
      <3>3. req \notin requirements
        BY <3>1, <1>3
      <3>4. IsFiniteSet(requirements') /\ Cardinality(requirements') = Cardinality(requirements) + 1
        BY <3>2, <3>3, <2>0, OneMore
      <3>5. b \notin RowRecords
        BY <3>1, RecordKinds
      <3>6. {<<"reconciliation", q.id>> : q \in requirements'} =
              {<<"reconciliation", q.id>> : q \in requirements} \cup {b}
        BY <3>2, <1>3
      <3>7. \A q \in requirements' : q.id \in 1 .. Cardinality(requirements')
        BY <3>2, <3>4, <2>0, <1>3
      <3> HIDE DEF B, b, id
      <3>8. Cardinality(B) = 1 /\ IsFiniteSet(B) /\ B \cap RowRecords = {}
        BY <3>2, <3>5
      <3>9. {<<"reconciliation", q.id>> : q \in requirements'} =
              {<<"reconciliation", q.id>> : q \in requirements} \cup B
        BY <3>2, <3>6, Zenon
      <3> QED
        BY <3>4, <3>7, <3>8, <3>9
    <2>2. CASE reason = "none"
      <3>1. B = {} /\ requirements' = requirements /\ Cardinality({}) = 0 /\ IsFiniteSet({})
        BY <2>2, <1>1, FS_EmptySet
      <3> HIDE DEF B
      <3> QED
        BY <3>1, <2>0
    <2> QED
      BY <2>1, <2>2
  <1>6. /\ Held(Stored)' = Held(Stored) /\ IsFiniteSet(Held(Settled)')
        /\ Cardinality(Held(Settled)') = Cardinality(Held(Settled)) + Cardinality(C)
        /\ {<<"observation-resolution", x>> : x \in Held(Settled)'} =
              {<<"observation-resolution", x>> : x \in Held(Settled)} \cup C
        /\ C \cap RowRecords = {} /\ IsFiniteSet(C) /\ Cardinality(C) \in Nat
    <2>1. CASE status # "none"
      <3>1. /\ Held(Settled)' = Held(Settled) \cup {r} /\ r \notin Held(Settled)
            /\ Held(Stored)' = Held(Stored)
        BY <2>1, <1>0, <1>2 DEF Held, Settled, Stored
      <3>2. C = {c} /\ Cardinality({c}) = 1 /\ IsFiniteSet({c})
        BY <2>1, FS_Singleton
      <3>3. /\ IsFiniteSet(Held(Settled)')
            /\ Cardinality(Held(Settled)') = Cardinality(Held(Settled)) + 1
        BY <3>1, <1>0, OneMore DEF TablesFinite
      <3>4. c \notin RowRecords
        BY <3>1, RecordKinds
      <3>5. {<<"observation-resolution", x>> : x \in Held(Settled)'} =
              {<<"observation-resolution", x>> : x \in Held(Settled)} \cup {c}
        BY <3>1
      <3> QED
        BY <3>1, <3>2, <3>3, <3>4, <3>5
    <2>2. CASE status = "none"
      <3>1. C = {} /\ raws' = raws /\ Cardinality({}) = 0 /\ IsFiniteSet({})
        BY <2>2, <1>2, FS_EmptySet
      <3>2. Held(Stored)' = Held(Stored) /\ Held(Settled)' = Held(Settled)
        BY <3>1 DEF Held
      <3>3. IsFiniteSet(Held(Settled)) /\ Cardinality(Held(Settled)) \in Nat
        BY <1>0, CountsAreNatural DEF TablesFinite
      <3> HIDE DEF C
      <3> QED
        BY <3>1, <3>2, <3>3
    <2> QED
      BY <2>1, <2>2
  <1>7. \A x \in new : x[1] \in RowKinds
    BY DEF RowKinds
  <1>8. A \cap B = {} /\ (A \cup B) \cap C = {}
    OBVIOUS
  <1> HIDE DEF A, B, C
  <1>9. IsFiniteSet(new) /\ Cardinality(new) = Cardinality(A) + Cardinality(B) + Cardinality(C)
    <2>1. /\ IsFiniteSet(A \cup B)
          /\ Cardinality(A \cup B) = Cardinality(A) + Cardinality(B) - Cardinality(A \cap B)
      BY <1>4, <1>5, FS_Union
    <2>2. /\ IsFiniteSet((A \cup B) \cup C)
          /\ Cardinality((A \cup B) \cup C) =
               Cardinality(A \cup B) + Cardinality(C) - Cardinality((A \cup B) \cap C)
      BY <2>1, <1>6, FS_Union
    <2>3. Cardinality(A \cap B) = 0 /\ Cardinality((A \cup B) \cap C) = 0
      BY <1>8, FS_EmptySet
    <2> QED
      BY <2>1, <2>2, <2>3, <1>4, <1>5, <1>6
  <1>10. RowRecords' = RowRecords \cup new /\ new \cap RowRecords = {}
    BY <1>4, <1>5, <1>6 DEF RowRecords
  <1>11. RowCount' = RowCount + Cardinality(new)
    BY <1>0, <1>4, <1>5, <1>6, <1>9, CountsAreNatural DEF RowCount
  <1>12. IsFiniteSet(records') => TablesFinite'
    BY <1>0, <1>4, <1>5, <1>6 DEF TablesFinite
  <1> HIDE DEF new
  <1> QED
    BY <1>1, <1>5, <1>7, <1>9, <1>10, <1>11, <1>12, RowsAppended

LEMMA ApplyRecords ==
    ASSUME RecordsStart, NEW r \in RawIds, NEW origin \in RawIds, NEW x \in Correlations,
           ApplyNormalizedEvent(r, origin, x[1], x[2])
    PROVE  RecordsInv'
  <1> DEFINE e == Normalized(origin, x[1], x[2])
  <1>0. DispatchInv /\ [Next]_vars /\ TypeOK
    BY DEF RecordsStart, DispatchInv
  <1>1. Applying(e, r)
    BY <1>0, ApplicationStarts
  <1>2. Outcome(e, r) /\ UNCHANGED <<journal, commands, claims, receipts>>
    BY ApplySettles, Zenon
  <1> HIDE DEF e
  <1>3. \E d, reason : \E status \in {"none", "resolved", "conflict"} :
           (d # "none" => EventRow(e.id) = {}) /\ Settle(e, r, d, reason, status)
    BY <1>2, Zenon DEF Outcome
  <1>4. RegisteredOrders' = RegisteredOrders
    <2>1. UNCHANGED orderTables \/ (KnownOrder(e.order) # NoId /\ \E n : WriteOrder(e.order, n))
      BY <1>2, Zenon DEF Outcome, orderTables
    <2>2. KnownOrder(e.order) # NoId => e.order \in OrderIds /\ Registered(e.order)
      BY DEF KnownOrder
    <2> QED
      BY <2>1, <2>2, <1>0, RegisteredKept
  <1> QED
    BY <1>1, <1>2, <1>3, <1>4, SettleRecords

\* The records that a database of a version starts with.
LEMMA InitialRecordsFacts ==
    ASSUME NEW version \in 1 .. SchemaVersion
    PROVE  LET I == InitialRecords(version)
           IN  /\ IsFiniteSet(I) /\ Cardinality(I) = version
               /\ {x \in I : x[1] = "schema-migration"} = Migrations(version)
               /\ IsFiniteSet(Migrations(version)) /\ Cardinality(Migrations(version)) = version - 1
  <1> DEFINE a == <<"identity", NoId>>
             m(v) == <<"schema-migration", v>>
             I == InitialRecords(version)
  <1>1. I = {a} \cup Migrations(version)
    BY DEF InitialRecords, Migrations
  <1>2. a \notin Migrations(version) /\ {x \in I : x[1] = "schema-migration"} = Migrations(version)
    BY <1>1 DEF Migrations
  <1>3. IsFiniteSet(Migrations(version)) /\ Cardinality(Migrations(version)) = version - 1
    <2>0. version \in {1, 2, 3}
      BY DEF SchemaVersion
    <2>1. CASE version = 1
      <3>1. Migrations(version) = {}
        BY <2>1 DEF Migrations
      <3> QED
        BY <3>1, <2>1, FS_EmptySet
    <2>2. CASE version = 2
      <3>1. Migrations(version) = {m(2)}
        BY <2>2 DEF Migrations
      <3>2. IsFiniteSet({m(2)}) /\ Cardinality({m(2)}) = 1
        BY FS_Singleton
      <3> QED
        BY <3>1, <3>2, <2>2
    <2>3. CASE version = 3
      <3>1. Migrations(version) = {m(2), m(3)}
        BY <2>3 DEF Migrations
      <3>2. m(2) # m(3)
        OBVIOUS
      <3>3. IsFiniteSet({m(2), m(3)}) /\ Cardinality({m(2), m(3)}) = 2
        BY <3>2, RecordCounts
      <3> QED
        BY <3>1, <3>3, <2>3
    <2> QED
      BY <2>0, <2>1, <2>2, <2>3
  <1>4. IsFiniteSet(I) /\ Cardinality(I) = version
    <2>1. I = Migrations(version) \cup {a}
      BY <1>1
    <2> HIDE DEF a, I
    <2> QED
      BY <2>1, <1>2, <1>3, FS_AddElement DEF SchemaVersion
  <1> QED
    BY <1>2, <1>3, <1>4

\* A resume adds the records of the migrations that the file lacks, and nothing else.
LEMMA ResumeRecords ==
    ASSUME RecordsStart, Resume
    PROVE  RecordsInv'
  <1> DEFINE old == InitialRecords(StoredVersion)
             all == InitialRecords(SchemaVersion)
             v == StoredVersion
  <1>0. /\ TypeOK /\ OverlayOK /\ MigrationsRecorded /\ RowsRecorded /\ TablesFinite
        /\ v \in 1 .. SchemaVersion /\ SchemaVersion = 3
    BY DEF RecordsStart, RecordsInv, DispatchInv, MigrationsRecorded, SchemaVersion
  <1>1. /\ records' = records \cup (all \ old) /\ sequence' = sequence + Cardinality(all \ old)
        /\ UNCHANGED <<orderTables, commandTables, evidenceTables, overlays>>
    BY DEF Resume, Migrate, AppendRecords
  <1>2. old \subseteq all
    BY <1>0 DEF InitialRecords
  <1>3. records = old \cup RowRecords \cup OverlayRecords
    BY <1>0, ExpectedSplit DEF RowsRecorded
  <1>4. records' = all \cup RowRecords \cup OverlayRecords
    BY <1>1, <1>2, <1>3
  <1>5. RowRecords' = RowRecords /\ RowCount' = RowCount
    BY <1>1 DEF RowRecords, RowCount, Held, RegisteredOrders, Registered, orderTables, commandTables,
                evidenceTables
  <1>6. /\ \A x \in RowRecords : x[1] \in RowKinds
        /\ \A x \in OverlayRecords : x[1] \notin {"identity", "schema-migration"}
        /\ \A x \in all : x[1] \in {"identity", "schema-migration"}
    <2>1. SchemaVersion \in 1 .. SchemaVersion
      BY <1>0
    <2>2. \A x \in all : x[1] \in {"identity", "schema-migration"}
      BY DEF InitialRecords
    <2> QED
      BY <2>1, <2>2, <1>0, RowsAreNotMigrations, OverlaysAreNotRows
  <1>7. /\ IsFiniteSet(all) /\ Cardinality(all) = 3
        /\ {x \in all : x[1] = "schema-migration"} = Migrations(3)
        /\ Cardinality(Migrations(3)) = 2
    <2>1. 3 \in 1 .. SchemaVersion
      BY <1>0
    <2> QED
      BY <2>1, <1>0, InitialRecordsFacts
  <1>8. IsFiniteSet(old) /\ Cardinality(old) = v
    BY <1>0, InitialRecordsFacts
  <1>9. {x \in records' : x[1] = "schema-migration"} = Migrations(3)
    BY <1>4, <1>6, <1>7 DEF RowKinds
  <1>10. StoredVersion' = 3
    BY <1>7, <1>9 DEF StoredVersion
  <1>11. MigrationsRecorded'
    BY <1>0, <1>9, <1>10 DEF MigrationsRecorded
  <1>12. IsFiniteSet(all \ old) /\ Cardinality(all \ old) = 3 - v
    <2>1. all \cap old = old
      BY <1>2
    <2> HIDE DEF all, old, v
    <2>2. IsFiniteSet(all \ old) /\ Cardinality(all \ old) = Cardinality(all) - Cardinality(all \cap old)
      BY <1>7, FS_Difference
    <2> QED
      BY <2>1, <2>2, <1>7, <1>8
  <1>13. /\ IsFiniteSet(records')
         /\ Cardinality(records') = Cardinality(records) + Cardinality(all \ old)
    <2>1. records \cap (all \ old) = {}
      BY <1>3, <1>6 DEF RowKinds
    <2>2. /\ IsFiniteSet(records) /\ IsFiniteSet(all \ old)
          /\ Cardinality(records) \in Nat /\ Cardinality(all \ old) \in Nat
      BY <1>0, <1>12, FS_CardinalityType DEF TablesFinite
    <2> HIDE DEF all, old
    <2>3. /\ IsFiniteSet(records \cup (all \ old))
          /\ Cardinality(records \cup (all \ old)) =
                Cardinality(records) + Cardinality(all \ old) - Cardinality(records \cap (all \ old))
      BY <2>2, FS_Union
    <2>4. Cardinality(records \cap (all \ old)) = 0
      BY <2>1, FS_EmptySet
    <2> QED
      BY <2>2, <2>3, <2>4, <1>1
  <1>14. TablesFinite'
    BY <1>0, <1>1, <1>13 DEF TablesFinite, Held, RegisteredOrders, Registered, orderTables,
                             commandTables, evidenceTables
  <1>15. /\ sequence' = Cardinality(records')
         /\ sequence' = StoredVersion' + RowCount' + OverlayCount'
    <2>1. /\ sequence = Cardinality(records) /\ sequence = v + RowCount + OverlayCount
          /\ v \in Nat /\ RowCount \in Nat /\ OverlayCount \in Nat
      BY <1>0, CountsAreNatural, OverlayCountNatural DEF RowsRecorded
    <2>2. OverlayCount' = OverlayCount
      BY <1>1 DEF overlays, OverlayCount
    <2> HIDE DEF all, old, v
    <2> QED
      BY <2>1, <2>2, <1>1, <1>5, <1>10, <1>12, <1>13
  <1>16. records' = ExpectedRecords'
    <2>1. TypeOK'
      BY TypeStep DEF RecordsStart
    <2>2. (TypeOK => ExpectedRecords =
                        InitialRecords(StoredVersion) \cup RowRecords \cup OverlayRecords)'
      BY ExpectedSplit, PTL
    <2>3. (InitialRecords(StoredVersion))' = InitialRecords(StoredVersion')
      BY DEF InitialRecords
    <2>4. OverlayRecords' = OverlayRecords
      BY <1>1 DEF overlays, OverlayRecords
    <2> QED
      BY <2>1, <2>2, <2>3, <2>4, <1>0, <1>4, <1>5, <1>10
  <1>17. \A q \in requirements' : q.id \in 1 .. Cardinality(requirements')
    BY <1>0, <1>1 DEF RowsRecorded, evidenceTables
  <1> QED
    BY <1>11, <1>14, <1>15, <1>16, <1>17 DEF RecordsInv, RowsRecorded

LEMMA RecordsStep == RecordsStart => RecordsInv'
  <1> SUFFICES ASSUME RecordsStart PROVE RecordsInv'
    OBVIOUS
  <1>0. RecordsInv /\ [Next]_vars
    BY DEF RecordsStart
  <1>1. ASSUME UNCHANGED tables, journal' \in {journal, "closed", "unclean"} PROVE RecordsInv'
    BY <1>0, <1>1, RecordsFrame DEF tables, orderTables, commandTables, evidenceTables, overlays
  <1>2. ASSUME NEW d \in Dispatchers, Send(d) PROVE RecordsInv'
    BY <1>1, <1>2 DEF Send
  <1>3. CASE Close \/ Crash \/ UNCHANGED vars
    BY <1>1, <1>3 DEF Close, Crash, vars
  <1> QED
    BY <1>0, <1>2, <1>3, RegisterRecords, ClaimRecords, ReceiptRecords, RawRecords, ApplyRecords,
       ResumeRecords DEF Next

LEMMA JournalInit == Init => JournalInv
  <1> SUFFICES ASSUME Init PROVE JournalInv
    OBVIOUS
  <1>1. DispatchInv
    BY DispatchInit
  <1>2. NoOverlay /\ OverlayOK /\ OverlayRecords = {} /\ OverlayCount = 0
    BY FS_EmptySet DEF Init, NoOverlay, Registered, OverlayOK, OverlayRecords,
                       OverlayCount
  <1>3. EvidenceInv
    BY DEF Init, EvidenceInv, EventRowsAgree, EvidenceVerifies, FillsVerify, ResolvedIsApplied
  <1>4. PICK version \in 1 .. SchemaVersion : records = InitialRecords(version)
    BY DEF Init
  <1>5. /\ RegisteredOrders = {} /\ Held(Stored) = {} /\ Held(Settled) = {}
        /\ commands = {} /\ claims = {} /\ receipts = {} /\ events = {} /\ requirements = {}
    BY DEF Init, RegisteredOrders, Registered, Held, Stored, Settled
  <1>6. /\ IsFiniteSet(records) /\ Cardinality(records) = version
        /\ {x \in records : x[1] = "schema-migration"} = Migrations(version)
        /\ Cardinality(Migrations(version)) = version - 1 /\ version \in Nat
    BY <1>4, InitialRecordsFacts DEF SchemaVersion
  <1>7. StoredVersion = version
    <2>1. Cardinality({x \in records : x[1] = "schema-migration"}) = version - 1
      BY <1>6
    <2>2. StoredVersion = Cardinality({x \in records : x[1] = "schema-migration"}) + 1
      BY DEF StoredVersion
    <2> QED
      BY <2>1, <2>2, <1>6
  <1>8. MigrationsRecorded
    <2>1. journal = "open" => version = SchemaVersion
      <3>1. SUFFICES ASSUME journal = "open" PROVE version = SchemaVersion
        OBVIOUS
      <3>2. records = InitialRecords(SchemaVersion) /\ SchemaVersion \in 1 .. SchemaVersion
        BY <3>1 DEF Init, SchemaVersion
      <3>3. Cardinality(InitialRecords(SchemaVersion)) = SchemaVersion
        BY <3>2, InitialRecordsFacts
      <3> QED
        BY <3>2, <3>3, <1>6
    <2> QED
      BY <2>1, <1>6, <1>7 DEF MigrationsRecorded
  <1>9. TablesFinite /\ RowCount = 0
    BY <1>5, <1>6, FS_EmptySet DEF TablesFinite, RowCount
  <1>10. RowsRecorded
    <2>1. RowRecords = {}
      BY <1>5 DEF RowRecords
    <2>2. ExpectedRecords = InitialRecords(version)
      BY <2>1, <1>1, <1>2, <1>7, ExpectedSplit DEF DispatchInv
    <2>3. sequence = Cardinality(records)
      BY DEF Init
    <2> QED
      BY <1>2, <2>2, <2>3, <1>4, <1>5, <1>6, <1>7, <1>9 DEF RowsRecorded
  <1> QED
    BY <1>1, <1>2, <1>3, <1>8, <1>9, <1>10 DEF JournalInv, TablesInv

\* The journal's own operations keep its tables in agreement, commits or no commits.
LEMMA TablesStep == TablesInv /\ [Next]_vars => TablesInv'
  <1> SUFFICES ASSUME TablesInv, [Next]_vars PROVE TablesInv'
    OBVIOUS
  <1>1. DispatchInv' /\ EvidenceInv'
    BY DispatchStep, EvidenceStep DEF TablesInv
  <1>2. OverlayOK'
    BY OverlayStep DEF TablesInv, OverlayOK
  <1>3. RecordsInv'
    BY RecordsStep DEF RecordsStart, RecordsInv, TablesInv
  <1> QED
    BY <1>1, <1>2, <1>3 DEF TablesInv, RecordsInv

LEMMA JournalStep == JournalInv /\ [Next]_vars => JournalInv'
  BY TablesStep, OverlayStep DEF JournalInv, NoOverlay

\* The inductive invariant of the journal: its tables agree with each other, its history
\* is contiguous and its records are those of its rows, in every reachable state.
THEOREM JournalInvariant == Spec => []JournalInv
  BY JournalInit, JournalStep, PTL DEF Spec

\* No sequence of transactions, crashes and restarts makes the journal refuse its own
\* file: the verification that every resume runs accepts it, and so does the snapshot.
THEOREM RecoveryAccepts == Spec => []RecoveryAcceptsJournal
  <1>1. JournalInv => RecoveryAcceptsJournal
    <2> SUFFICES ASSUME JournalInv PROVE RecoveryAcceptsJournal
      OBVIOUS
    <2>1. OrdersVerify
      BY HistoryVerifies DEF JournalInv, TablesInv
    <2>2. EvidenceVerifies /\ FillsVerify
      BY DEF JournalInv, TablesInv, EvidenceInv
    <2>3. CommitsVerify
      BY DEF JournalInv, NoOverlay, CommitsVerify, AuthorizationsVerify, ProjectionsVerify,
             CommitMappingVerifies, ClaimResolutionsVerify, ObservationResolutionsVerify,
             RequirementResolutionsVerify, Resolutions
    <2>4. RecordsVerify
      BY DEF JournalInv, TablesInv, RowsRecorded, RecordsVerify
    <2>5. StoredVersion = SchemaVersion => SequenceContiguous
      <3>1. Cardinality(commits) = 0 /\ Cardinality(resolutions) = 0
        BY FS_EmptySet DEF JournalInv, NoOverlay
      <3>2. sequence = StoredVersion + RowCount + OverlayCount
        BY DEF JournalInv, TablesInv, RowsRecorded
      <3>3. TablesFinite /\ StoredVersion \in Nat
        BY DEF JournalInv, TablesInv, MigrationsRecorded, SchemaVersion
      <3> QED
        BY <3>1, <3>2, <3>3, CountsAreNatural
           DEF SequenceContiguous, RowCount, OverlayCount, RegisteredOrders, Held, Stored, Settled, SchemaVersion
    <2> QED
      BY <2>1, <2>2, <2>3, <2>4, <2>5 DEF Verifies, RecoveryAcceptsJournal
  <1> QED
    BY <1>1, JournalInvariant, PTL

-----------------------------------------------------------------------------
(* What readiness and the journal's growth mean *)

\* Nothing is left to be done when recovery reports ready.
LEMMA ReadyMeansNoWork ==
    ASSUME NoOverlay, Readiness = "ready"
    PROVE  /\ \A row \in claims : ReceiptOf(row.id) # {}
           /\ Pending = {}
           /\ \A r \in RawIds : raws[r].status \notin {"unresolved", "conflict"}
  <1>1. Issues = {}
    BY DEF Readiness
  <1>2. OpenWork = {}
    <2> DEFINE a == UNION {ClaimIssues(claim) : claim \in OutstandingClaims}
               b == UNION {RequirementIssues(q) : q \in OpenRequirements}
    <2>1. Issues = PendingIssues \cup a \cup b \cup OpenWork
      BY DEF Issues
    <2> HIDE DEF a, b
    <2> QED
      BY <1>1, <2>1
  <1>3. \A kind, id : ~Resolved(kind, id)
    BY DEF NoOverlay, Resolved
  <1>4. /\ OutstandingClaims = {} /\ Pending = {} /\ Open("unresolved") = {}
        /\ Open("conflict") = {}
    BY <1>2 DEF OpenWork
  <1> QED
    BY <1>3, <1>4 DEF OutstandingClaims, Open

\* A resolved observation has its evidence applied, and every other one holds startup back.
THEOREM EvidenceHeld == Spec => []EvidenceAppliedOrHeld
  <1>1. JournalInv => EvidenceAppliedOrHeld
    <2> SUFFICES ASSUME JournalInv PROVE EvidenceAppliedOrHeld
      OBVIOUS
    <2>1. ResolvedIsApplied /\ NoOverlay
      BY DEF JournalInv, TablesInv, EvidenceInv
    <2>2. (\E r \in RawIds : raws[r].status \in {"unresolved", "conflict"}) => Readiness # "ready"
      BY <2>1, ReadyMeansNoWork
    <2> QED
      BY <2>1, <2>2 DEF EvidenceAppliedOrHeld, ResolvedIsApplied
  <1> QED
    BY <1>1, JournalInvariant, PTL

\* Startup is ready only if everything that was sent has its receipt and no order waits
\* for one of the commands.
THEOREM ReadyIsSettled == Spec => []ReadyMeansSettled
  <1>1. JournalInv => ReadyMeansSettled
    <2> SUFFICES ASSUME JournalInv, Readiness = "ready", NEW row \in commands
                 PROVE  /\ sent[row.command.id] > 0 => ReceiptOf(row.command.id) # {}
                        /\ orders[row.order].pending.id # row.command.id
      BY DEF ReadyMeansSettled
    <2>1. TypeOK /\ CommandTablesAgree /\ SentAtMostOnce /\ NoOverlay
      BY DEF JournalInv, TablesInv, DispatchInv
    <2>2. /\ \A x \in claims : ReceiptOf(x.id) # {}
          /\ Pending = {}
      BY <2>1, ReadyMeansNoWork
    <2>3. row.order \in OrderIds /\ row.command \in Commands /\ Registered(row.order)
      BY <2>1 DEF TypeOK, CommandTablesAgree
    <2>4. row.command.id \in CommandIds
      BY <2>3, CommandIsSomething
    <2>5. sent[row.command.id] > 0 => ReceiptOf(row.command.id) # {}
      <3>1. SUFFICES ASSUME sent[row.command.id] > 0 PROVE ReceiptOf(row.command.id) # {}
        OBVIOUS
      <3>2. sent[row.command.id] = 1
        BY <3>1, <2>1, <2>4 DEF TypeOK, SentAtMostOnce
      <3>3. PICK x \in claims : x.id = row.command.id
        BY <3>2, <2>1, <2>4 DEF SentAtMostOnce, ClaimOf
      <3> QED
        BY <3>3, <2>2
    <2>6. orders[row.order].pending = NoCommand
      BY <2>2, <2>3 DEF Pending
    <2>7. NoCommand.id = NoId
      BY DEF NoCommand
    <2> QED
      BY <2>4, <2>5, <2>6, <2>7, AbsentIdAssumption
  <1> QED
    BY <1>1, JournalInvariant, PTL

\* What a step does to the tables, and to an observation and an order of its own.
AppendOnly ==
    /\ commands \subseteq commands' /\ claims \subseteq claims' /\ receipts \subseteq receipts'
    /\ events \subseteq events' /\ fills \subseteq fills'
    /\ requirements \subseteq requirements' /\ records \subseteq records'
    /\ \A r \in RawIds : raws[r].status \in {"resolved", "conflict"} => raws'[r] = raws[r]
    /\ \A o \in OrderIds :
          /\ history[o] \subseteq history'[o]
          /\ Registered(o) /\ orders'[o] # orders[o] => orders'[o].version = orders[o].version + 1

LEMMA StepsAppend == DispatchInv /\ [Next]_vars => AppendOnly
  <1> SUFFICES ASSUME DispatchInv, [Next]_vars PROVE AppendOnly
    OBVIOUS
  <1>a. TypeOK
    BY DEF DispatchInv
  <1>0. \A o \in OrderIds :
           /\ history[o] \subseteq history'[o]
           /\ Registered(o) /\ orders'[o] # orders[o] => orders'[o].version = orders[o].version + 1
    <2>1. \A o \in OrderIds : OrderMoves(o)
      BY OrderStep DEF DispatchInv
    <2> QED
      BY <2>1 DEF OrderMoves, NextVersion
  <1>1. ASSUME NEW o \in OrderIds, NEW c \in CommandSource[o],
               RegisterNewOrder(o, c) \/ RegisterCommand(o, c)
        PROVE  AppendOnly
    BY <1>0, <1>1 DEF RegisterNewOrder, RegisterCommand, AppendRecords, evidenceTables, AppendOnly
  <1>2. ASSUME NEW d \in Dispatchers, NEW row \in commands, ClaimDispatch(d, row) PROVE AppendOnly
    BY <1>0, <1>2 DEF ClaimDispatch, AppendRecords, evidenceTables, AppendOnly
  <1>3. ASSUME NEW d \in Dispatchers, NEW s \in DispatchStates, RecordDispatchReceipt(d, s)
        PROVE  AppendOnly
    <2>1. /\ UNCHANGED <<commands, claims, evidenceTables>>
          /\ receipts \subseteq receipts' /\ records \subseteq records'
      BY <1>3 DEF RecordDispatchReceipt, AppendRecords
    <2> QED
      BY <2>1, <1>0 DEF evidenceTables, AppendOnly
  <1>4. ASSUME NEW r \in RawIds, NEW e \in Evidence, AppendRawObservation(r, e) PROVE AppendOnly
    <2>1. /\ UNCHANGED <<commandTables, events, fills, requirements>> /\ records \subseteq records'
          /\ raws' = [raws EXCEPT ![r] = [status |-> "unresolved", event |-> e]]
          /\ raws[r].status = "absent"
      BY <1>4 DEF AppendRawObservation, AppendRecords
    <2>2. \A x \in RawIds : raws[x].status \in {"resolved", "conflict"} => raws'[x] = raws[x]
      BY <2>1, <1>a DEF TypeOK
    <2> QED
      BY <2>1, <2>2, <1>0 DEF commandTables, AppendOnly
  <1>5. ASSUME NEW r \in RawIds, NEW origin \in RawIds, NEW x \in Correlations,
               ApplyNormalizedEvent(r, origin, x[1], x[2])
        PROVE  AppendOnly
    <2> DEFINE e == Normalized(origin, x[1], x[2])
    <2>1. /\ raws[r].status = "unresolved" /\ UNCHANGED <<commands, claims, receipts>>
          /\ Outcome(e, r)
      BY <1>5, ApplySettles, Zenon
    <2> HIDE DEF e
    <2>2. \E d, reason : \E status \in {"none", "resolved", "conflict"} :
             Settle(e, r, d, reason, status)
      BY <2>1, Zenon DEF Outcome
    <2>3. fills \subseteq fills'
      <3> DEFINE f == [id |-> e.fill, order |-> e.order, event |-> e.id,
                       quantity |-> e.quantity, price |-> e.price]
      <3>1. fills' = fills \/ fills' = fills \cup {f}
        BY <2>1, Zenon DEF Outcome
      <3> QED
        BY <3>1
    <2>4. \A y \in RawIds : y # r => raws'[y] = raws[y]
      BY <2>1, <2>2, <1>a, SettleRaws
    <2>5. events \subseteq events' /\ requirements \subseteq requirements' /\ records \subseteq records'
      BY <2>2 DEF Settle, AppendRecords
    <2> QED
      BY <2>1, <2>3, <2>4, <2>5, <1>0 DEF AppendOnly
  <1>6. ASSUME NEW d \in Dispatchers, Send(d) PROVE AppendOnly
    BY <1>0, <1>6 DEF Send, tables, commandTables, evidenceTables, AppendOnly
  <1>7. CASE Close \/ Crash \/ UNCHANGED vars
    BY <1>0, <1>7 DEF Close, Crash, vars, tables, commandTables, evidenceTables, AppendOnly
  <1>8. CASE Resume
    BY <1>0, <1>8 DEF Resume, Migrate, AppendRecords, commandTables, evidenceTables, AppendOnly
  <1> QED
    BY <1>1, <1>2, <1>3, <1>4, <1>5, <1>6, <1>7, <1>8 DEF Next

\* Facts are never rewritten, by any step from any reachable state.
THEOREM AppendsOnly == Spec => FactsAreAppendOnly
  <1>1. DispatchInv /\ [Next]_vars => [AppendOnly]_vars
    BY StepsAppend
  <1> QED
    BY <1>1, DispatchInvariant, PTL DEF Spec, FactsAreAppendOnly, AppendOnly

-----------------------------------------------------------------------------
(* Executions count once *)

\* live_fills: one row per execution.
FillRowsAgree ==
    /\ IsFiniteSet(fills)
    /\ \A f, g \in fills : f.id = g.id => f = g
    /\ \A f \in fills : f.quantity \in Nat

FillsInv == FillRowsAgree /\ FillsMatchOrder

Executions(fs) == {[id |-> f.id, quantity |-> f.quantity] : f \in fs}

LEMMA ExecutedTotal ==
    ASSUME NEW fs, IsFiniteSet(fs)
    PROVE  /\ IsFiniteSet(Executions(fs))
           /\ Executed(fs) = Total([x \in Executions(fs) |-> x.quantity], Executions(fs))
  <1> DEFINE S == Executions(fs)
             q == [x \in S |-> x.quantity]
             R(h) == h = [s \in SUBSET S |-> IF s = {} THEN 0 ELSE One(s).quantity + h[s \ {One(s)}]]
             p == [f \in fs |-> [id |-> f.id, quantity |-> f.quantity]]
  <1>0. IsFiniteSet(S)
    <2>1. p \in Surjection(fs, S)
      BY DEF Executions, Surjection
    <2> QED
      BY <2>1, FS_Surjection
  <1>1. \E g : Executed(fs) = g[S] /\ g = CHOOSE h : R(h)
    BY DEF Executed, Executions, MapThenSumSet, MapThenFoldSet, One
  <1> HIDE DEF S
  <1>2. \A s \in SUBSET S : s # {} => q[One(s)] = One(s).quantity
    BY DEF One
  <1>3. \A h : R(h) <=> Sums(h, q, S)
    BY <1>2 DEF Sums
  <1>4. PICK k : Sums(k, q, S) /\ k[S] = Total(q, S)
    BY <1>0, TotalSums
  <1>5. R(CHOOSE h : R(h))
    <2>1. R(k)
      BY <1>3, <1>4
    <2> HIDE DEF R
    <2> QED
      BY <2>1, Zenon
  <1>6. PICK g : Executed(fs) = g[S] /\ g = CHOOSE h : R(h)
    BY <1>1
  <1>7. Sums(g, q, S)
    BY <1>3, <1>5, <1>6
  <1>8. Executed(fs) = Total(q, S)
    BY <1>0, <1>4, <1>6, <1>7, SumsAgree
  <1> QED
    BY <1>0, <1>8 DEF S

LEMMA FilledTotal ==
    ASSUME NEW S, IsFiniteSet(S)
    PROVE  FilledBy(S) = Total([o \in S |-> orders[o].filled], S)
  <1> DEFINE q == [o \in S |-> orders[o].filled]
             R(h) == h = [s \in SUBSET S |->
                             IF s = {} THEN 0 ELSE orders[One(s)].filled + h[s \ {One(s)}]]
  <1>1. \E g : FilledBy(S) = g[S] /\ g = CHOOSE h : R(h)
    BY DEF FilledBy, MapThenSumSet, MapThenFoldSet, One
  <1>2. \A s \in SUBSET S : s # {} => q[One(s)] = orders[One(s)].filled
    BY DEF One
  <1>3. \A h : R(h) <=> Sums(h, q, S)
    BY <1>2 DEF Sums
  <1>4. PICK k : Sums(k, q, S) /\ k[S] = Total(q, S)
    BY TotalSums
  <1>5. R(CHOOSE h : R(h))
    <2>1. R(k)
      BY <1>3, <1>4
    <2> HIDE DEF R
    <2> QED
      BY <2>1, Zenon
  <1>6. PICK g : FilledBy(S) = g[S] /\ g = CHOOSE h : R(h)
    BY <1>1
  <1>7. Sums(g, q, S)
    BY <1>3, <1>5, <1>6
  <1> QED
    BY <1>4, <1>6, <1>7, SumsAgree

LEMMA ExecutedEmpty == Executed({}) = 0
  <1>1. IsFiniteSet({}) /\ Executions({}) = {}
    BY FS_EmptySet DEF Executions
  <1>2. Executed({}) = Total([x \in Executions({}) |-> x.quantity], Executions({}))
    BY <1>1, ExecutedTotal
  <1> QED
    BY <1>1, <1>2, TotalEmpty

\* An execution that is not there yet adds its quantity.
LEMMA ExecutedAdd ==
    ASSUME NEW fs, IsFiniteSet(fs), NEW new, \A f \in fs : f.id # new.id,
           \A f \in fs \cup {new} : f.quantity \in Nat
    PROVE  /\ Executed(fs \cup {new}) = Executed(fs) + new.quantity
           /\ Executed(fs) \in Int
  <1> DEFINE S == Executions(fs)
             T == Executions(fs \cup {new})
             y == [id |-> new.id, quantity |-> new.quantity]
             q == [x \in T |-> x.quantity]
             p == [x \in S |-> x.quantity]
  <1>1. T = S \cup {y} /\ y \notin S /\ y.quantity = new.quantity
    BY DEF Executions
  <1>2. \A x \in T : q[x] = x.quantity /\ x.quantity \in Int
    BY DEF Executions
  <1>3. IsFiniteSet(S) /\ Executed(fs) = Total(p, S)
    BY ExecutedTotal
  <1>4. Executed(fs \cup {new}) = Total(q, T)
    BY FS_AddElement, ExecutedTotal
  <1>5. \A x \in S : p[x] = q[x]
    BY <1>1
  <1> HIDE DEF S, T, q, p, y
  <1>6. Total(p, S) = Total(q, S)
    BY <1>3, <1>5, TotalSame
  <1>7. Total(q, S \cup {y}) = Total(q, S) + q[y] /\ Total(q, S) \in Int
    BY <1>1, <1>2, <1>3, TotalAdd
  <1> QED
    BY <1>1, <1>2, <1>3, <1>4, <1>6, <1>7

\* A step that fills nothing.
FillsNothing ==
    /\ fills' = fills
    /\ \A o \in OrderIds : Registered(o) => orders'[o].filled = orders[o].filled
    /\ \A o \in OrderIds : ~Registered(o) /\ Registered(o)' => orders'[o].filled = 0
    /\ \A o, p \in OrderIds :
          ~Registered(o) /\ Registered(o)' /\ ~Registered(p) /\ Registered(p)' => o = p

\* A step that takes one execution, of an order that is registered.
FillsOne(o, new) ==
    /\ Registered(o) /\ fills' = fills \cup {new}
    /\ new.order = o /\ new.quantity \in Nat /\ \A f \in fills : f.id # new.id
    /\ orders'[o].filled = orders[o].filled + new.quantity
    /\ \A p \in OrderIds \ {o} : orders'[p] = orders[p]

\* A write of a registered order that keeps what it has filled.
LEMMA WriteKeepsFilled ==
    ASSUME DispatchInv, NEW x \in OrderIds, Registered(x), NEW n \in Orders,
           n.filled = orders[x].filled, WriteOrder(x, n), fills' = fills
    PROVE  FillsNothing
  <1>1. orders'[x] = n /\ \A o \in OrderIds \ {x} : orders'[o] = orders[o]
    BY WriteOrderFacts DEF DispatchInv
  <1> QED
    BY <1>1 DEF FillsNothing, Registered

LEMMA RegisterFills ==
    ASSUME DispatchInv, NEW o \in OrderIds, NEW c \in CommandSource[o],
           RegisterNewOrder(o, c) \/ RegisterCommand(o, c)
    PROVE  FillsNothing
  <1>0. TypeOK /\ StoredOrdersMeetContract /\ c \in Commands /\ Now \in Nat
    BY JournalInputsAssumption DEF DispatchInv, Now
  <1>1. fills' = fills
    BY DEF RegisterNewOrder, RegisterCommand, evidenceTables
  <1>2. CASE RegisterNewOrder(o, c)
    <2>1. ~Registered(o) /\ WriteOrder(o, Submitting(o, c)) /\ c.kind = "new"
      BY <1>2 DEF RegisterNewOrder
    <2>2. Submitting(o, c) \in Orders /\ Submitting(o, c).filled = 0
      BY <2>1, SubmittingGood DEF GoodOrder
    <2>3. orders'[o] = Submitting(o, c) /\ \A p \in OrderIds \ {o} : orders'[p] = orders[p]
      BY <2>1, <2>2, <1>0, WriteOrderFacts
    <2> QED
      BY <2>1, <2>2, <2>3, <1>1 DEF FillsNothing, Registered
  <1>3. CASE RegisterCommand(o, c)
    <2>1. Registered(o) /\ GoodOrder(orders[o])
      BY <1>0, <1>3, ExpectedIsCurrent DEF DispatchInv, StoredOrdersMeetContract
    <2>2. orders[o] \in Orders
      BY <2>1 DEF GoodOrder
    <2>3. CASE MayRequestCancel(orders[o], c, Now) /\ WriteOrder(o, RequestCancel(orders[o], c, Now))
      <3>1. RequestCancel(orders[o], c, Now) \in Orders
        BY <2>1, <2>3, <1>0, CancelGood DEF GoodOrder
      <3>2. RequestCancel(orders[o], c, Now).filled = orders[o].filled
        BY <2>2, SnapshotFields DEF RequestCancel
      <3> QED
        BY <3>1, <3>2, <2>1, <2>3, <1>1, WriteKeepsFilled
    <2>4. CASE MayBindOperation(orders[o], c, Now) /\ WriteOrder(o, BindOperation(orders[o], c, Now))
      <3>1. BindOperation(orders[o], c, Now) \in Orders
        BY <2>1, <2>4, <1>0, OperateGood DEF GoodOrder
      <3>2. BindOperation(orders[o], c, Now).filled = orders[o].filled
        BY <2>2, SnapshotFields DEF BindOperation
      <3> QED
        BY <3>1, <3>2, <2>1, <2>4, <1>1, WriteKeepsFilled
    <2> QED
      BY <2>3, <2>4, <1>3, ExpectedIsCurrent DEF DispatchInv
  <1> QED
    BY <1>2, <1>3

LEMMA ReceiptFills ==
    ASSUME DispatchInv, NEW d \in Dispatchers, NEW s \in DispatchStates, RecordDispatchReceipt(d, s)
    PROVE  FillsNothing
  <1> DEFINE c == dispatcher[d].command
             o == (CHOOSE row \in commands : row.command = c).order
             r == [command |-> c, state |-> s, at |-> Now]
             n == ReduceDispatch(orders[o], r, AppliedLedger).order
             m == Snapshot(orders[o], DispatchTarget(orders[o], r),
                           Later(orders[o].updatedAt, r.at), orders[o].pending)
  <1>1. c \in Commands /\ o \in OrderIds /\ Registered(o)
    BY HeldCommand DEF RecordDispatchReceipt, DispatchInv
  <1>2. fills' = fills /\ (UNCHANGED orderTables \/ WriteOrder(o, n))
    BY DEF RecordDispatchReceipt, evidenceTables, orderTables
  <1>3. GoodOrder(orders[o]) /\ orders[o] \in Orders
    BY <1>1 DEF DispatchInv, StoredOrdersMeetContract, GoodOrder
  <1>4. n = orders[o] \/ n = m
    BY DispatchResult
  <1>5. m.filled = orders[o].filled
    BY <1>3, SnapshotFields
  <1>6. n = orders[o] \/ NextVersion(n, orders[o])
    BY <1>1, <1>3, ReceiptReduces
  <1>7. n \in Orders /\ n.filled = orders[o].filled
    BY <1>3, <1>4, <1>5, <1>6 DEF NextVersion, GoodOrder
  <1> HIDE DEF n, o
  <1>8. CASE UNCHANGED orderTables
    BY <1>2, <1>8 DEF FillsNothing, orderTables, Registered
  <1>9. CASE WriteOrder(o, n)
    BY <1>1, <1>2, <1>7, <1>9, WriteKeepsFilled
  <1> QED
    BY <1>2, <1>8, <1>9

\* Evidence without a row of its own is new to the ledger.
LEMMA NewToLedger ==
    ASSUME NEW id, EventRow(id) = {}
    PROVE  Find(AppliedLedger, "broker-event", id) = {}
  BY DEF EventRow, Find, AppliedLedger, Entry

\* A fill that is applied adds its quantity to its order.
LEMMA AppliedFill ==
    ASSUME DispatchInv, NEW origin \in RawIds, raws[origin].status # "absent", NEW o \in OrderIds,
           NEW confirmed, Registered(o), EventRow(Normalized(origin, o, confirmed).id) = {},
           Normalized(origin, o, confirmed).type = "fill",
           Reduced(Normalized(origin, o, confirmed)).disposition
               \notin {"event_conflict", "reconciliation_required"}
    PROVE  LET e == Normalized(origin, o, confirmed)
               n == Reduced(e).order
           IN  /\ n # orders[o] /\ n \in Orders
               /\ n.filled = orders[o].filled + e.quantity /\ e.quantity \in Nat
  <1> DEFINE e == Normalized(origin, o, confirmed)
             b == orders[o]
             n == Reduced(e).order
  <1>0. TypeOK /\ GoodOrder(b)
    BY DEF DispatchInv, StoredOrdersMeetContract
  <1>1. FillEventContract(e) /\ EventTimesContract(e) /\ e.order = o /\ e.type = "fill"
    BY <1>0, NormalizedContract
  <1>2. Find(AppliedLedger, "broker-event", e.id) = {}
    BY NewToLedger
  <1> HIDE DEF e
  <1>3. Reduced(e) = ReduceFillEvent(b, e, AppliedLedger)
    BY <1>1 DEF Reduced
  <1>4. Deduplicate(AppliedLedger, "broker-event", e.id, EventFingerprint(e)) = "first"
    BY <1>2 DEF Deduplicate
  <1>5. AdmitsFill(b, e) /\ n = ApplyFill(b, e)
    <2>1. ~AdmitsFill(b, e) => Reduced(e).disposition = "reconciliation_required"
      BY <1>3, <1>4 DEF ReduceFillEvent, Reconcile, Reduction
    <2>2. AdmitsFill(b, e)
      BY <2>1 DEF e
    <2> QED
      BY <2>2, <1>3, <1>4 DEF ReduceFillEvent, Reduction
  <1>6. b \in Orders /\ b.version \in Nat
    BY <1>0, OrderFields DEF GoodOrder
  <1>7. n.version = b.version + 1 /\ n.filled = b.filled + e.quantity
    BY <1>5, <1>6, ApplyFillFields
  <1>8. n \in Orders
    BY <1>0, <1>1, <1>5, FillGood DEF GoodOrder
  <1>9. n # b
    BY <1>6, <1>7
  <1>10. e.quantity \in Nat
    BY <1>1 DEF FillEventContract
  <1> HIDE DEF n
  <1> QED
    BY <1>7, <1>8, <1>9, <1>10 DEF n, e

\* Any other evidence leaves what is filled alone.
LEMMA AppliedOrderEvent ==
    ASSUME DispatchInv, NEW origin \in RawIds, raws[origin].status # "absent", NEW o \in OrderIds,
           NEW confirmed, Registered(o), Normalized(origin, o, confirmed).type # "fill"
    PROVE  LET n == Reduced(Normalized(origin, o, confirmed)).order
           IN  n \in Orders /\ n.filled = orders[o].filled
  <1> DEFINE e == Normalized(origin, o, confirmed)
             b == orders[o]
             n == Reduced(e).order
  <1>0. TypeOK /\ GoodOrder(b) /\ b \in Orders
    BY DEF DispatchInv, StoredOrdersMeetContract, GoodOrder
  <1>1. OrderEventContract(e) /\ EventTimesContract(e) /\ e.order = o /\ e.type # "fill"
    BY <1>0, NormalizedContract
  <1>2. n = b \/ NextVersion(n, b)
    BY <1>0, EvidenceReduces
  <1>3. n \in Orders
    BY <1>0, <1>2 DEF NextVersion, GoodOrder
  <1> HIDE DEF e
  <1>4. n = b \/ n = ApplyOrderEvent(b, e)
    BY <1>1, OrderEventResult DEF Reduced
  <1>5. ApplyOrderEvent(b, e).filled = b.filled
    BY <1>0, <1>1, ApplyOrderEventFields
  <1> QED
    BY <1>3, <1>4, <1>5 DEF e

LEMMA ApplyFills ==
    ASSUME DispatchInv, FillRowsAgree, NEW r \in RawIds, NEW origin \in RawIds,
           NEW x \in Correlations, ApplyNormalizedEvent(r, origin, x[1], x[2])
    PROVE  FillsNothing \/ \E o \in OrderIds : \E new : FillsOne(o, new)
  <1> DEFINE e == Normalized(origin, x[1], x[2])
             new == [id |-> e.fill, order |-> e.order, event |-> e.id,
                     quantity |-> e.quantity, price |-> e.price]
             n == Reduced(e).order
             o == x[1]
  <1>1. raws[origin].status # "absent" /\ Outcome(e, r)
    BY ApplySettles, Zenon
  <1>2. e.order = o
    BY DEF Normalized
  <1>3. new.id = e.fill /\ new.order = e.order /\ new.quantity = e.quantity
    OBVIOUS
  <1>a. /\ o \in OrderIds /\ Registered(o) /\ e.type = "fill" /\ EventRow(e.id) = {}
        /\ Reduced(e).disposition \notin {"event_conflict", "reconciliation_required"}
        => n # orders[o] /\ n \in Orders /\ n.filled = orders[o].filled + e.quantity
           /\ e.quantity \in Nat
    BY <1>1, AppliedFill
  <1>b. o \in OrderIds /\ Registered(o) /\ e.type # "fill"
        => n \in Orders /\ n.filled = orders[o].filled
    BY <1>1, AppliedOrderEvent
  <1> HIDE DEF e, new, o, n
  <1>4. \/ UNCHANGED <<orderTables, fills>>
        \/ /\ EventRow(e.id) = {} /\ KnownOrder(e.order) # NoId /\ ~FillRecorded(e)
           /\ Reduced(e).disposition \notin {"event_conflict", "reconciliation_required"}
           /\ IF n # orders[e.order] THEN WriteOrder(e.order, n) ELSE UNCHANGED orderTables
           /\ fills' = IF e.type = "fill" THEN fills \cup {new} ELSE fills
    BY <1>1, Zenon DEF Outcome, new, n
  <1>5. CASE UNCHANGED <<orderTables, fills>>
    BY <1>5 DEF FillsNothing, orderTables, Registered
  <1>6. CASE /\ EventRow(e.id) = {} /\ KnownOrder(e.order) # NoId /\ ~FillRecorded(e)
             /\ Reduced(e).disposition \notin {"event_conflict", "reconciliation_required"}
             /\ IF n # orders[e.order] THEN WriteOrder(e.order, n) ELSE UNCHANGED orderTables
             /\ fills' = IF e.type = "fill" THEN fills \cup {new} ELSE fills
    <2>1. o \in OrderIds /\ Registered(o)
      BY <1>2, <1>6 DEF KnownOrder
    <2>2. CASE e.type = "fill"
      <3>1. /\ n # orders[o] /\ n \in Orders /\ n.filled = orders[o].filled + e.quantity
            /\ e.quantity \in Nat
        BY <1>a, <1>6, <2>1, <2>2
      <3>2. WriteOrder(o, n) /\ fills' = fills \cup {new}
        BY <3>1, <1>2, <1>6, <2>2
      <3>3. orders'[o] = n /\ \A p \in OrderIds \ {o} : orders'[p] = orders[p]
        BY <2>1, <3>1, <3>2, WriteOrderFacts DEF DispatchInv
      <3>4. \A f \in fills : f.id # new.id
        BY <1>3, <1>6, <2>2 DEF FillRecorded
      <3>5. FillsOne(o, new)
        BY <3>1, <3>2, <3>3, <3>4, <2>1, <1>2, <1>3 DEF FillsOne
      <3> QED
        BY <3>5, <2>1
    <2>3. CASE e.type # "fill"
      <3>1. n \in Orders /\ n.filled = orders[o].filled /\ fills' = fills
        BY <1>b, <1>6, <2>1, <2>3
      <3>2. UNCHANGED orderTables \/ WriteOrder(o, n)
        BY <1>2, <1>6
      <3>3. CASE UNCHANGED orderTables
        BY <3>1, <3>3 DEF FillsNothing, orderTables, Registered
      <3> QED
        BY <3>1, <3>2, <3>3, <2>1, WriteKeepsFilled
    <2> QED
      BY <2>2, <2>3
  <1> QED
    BY <1>4, <1>5, <1>6

LEMMA FilledStep ==
    ASSUME DispatchInv, FillRowsAgree, [Next]_vars
    PROVE  FillsNothing \/ \E o \in OrderIds : \E new : FillsOne(o, new)
  <1>1. ASSUME UNCHANGED <<orderTables, fills>> PROVE FillsNothing
    BY <1>1 DEF FillsNothing, orderTables, Registered
  <1>2. ASSUME NEW r \in RawIds, NEW e \in Evidence, AppendRawObservation(r, e) PROVE FillsNothing
    BY <1>1, <1>2 DEF AppendRawObservation
  <1>3. ASSUME NEW d \in Dispatchers, (\E row \in commands : ClaimDispatch(d, row)) \/ Send(d)
        PROVE  FillsNothing
    BY <1>1, <1>3 DEF ClaimDispatch, Send, tables, evidenceTables
  <1>4. CASE Close \/ Crash \/ Resume \/ UNCHANGED vars
    BY <1>1, <1>4 DEF Close, Crash, Resume, vars, tables, evidenceTables
  <1> QED
    BY <1>2, <1>3, <1>4, RegisterFills, ReceiptFills, ApplyFills DEF Next

RegisteredTotal ==
    IsFiniteSet(RegisteredOrders)
    => FilledBy(RegisteredOrders)
           = Total([o \in RegisteredOrders |-> orders[o].filled], RegisteredOrders)

LEMMA RegisteredFilled == RegisteredTotal
  BY FilledTotal DEF RegisteredTotal

\* The executions of one order, before and after a step that fills nothing.
LEMMA FillsNothingKeeps ==
    ASSUME TablesInv, TablesInv', FillsInv, FillsNothing,
           \A o \in OrderIds : Registered(o) => Registered(o)'
    PROVE  FillsInv'
  <1> DEFINE K == RegisteredOrders
             L == RegisteredOrders'
             f == [o \in K |-> orders[o].filled]
             h == [o \in L |-> orders'[o].filled]
  <1>0. fills' = fills
    BY DEF FillsNothing
  <1>1. FillRowsAgree'
    BY <1>0 DEF FillsInv, FillRowsAgree
  <1>3. \A o \in OrderIds : Registered(o)' =>
           orders'[o].filled = Executed({x \in fills : x.order = o})
    <2> SUFFICES ASSUME NEW o \in OrderIds, Registered(o)'
                 PROVE  orders'[o].filled = Executed({x \in fills : x.order = o})
      OBVIOUS
    <2>1. CASE Registered(o)
      BY <2>1 DEF FillsNothing, FillsInv, FillsMatchOrder
    <2>2. CASE ~Registered(o)
      <3>1. {x \in fills : x.order = o} = {}
        BY <2>2 DEF TablesInv, EvidenceInv, FillsVerify
      <3>2. orders'[o].filled = 0
        BY <2>2 DEF FillsNothing
      <3> QED
        BY <3>1, <3>2, ExecutedEmpty
    <2> QED
      BY <2>1, <2>2
  <1>4. IsFiniteSet(K) /\ IsFiniteSet(L)
    BY DEF TablesInv, TablesFinite
  <1>5. FilledBy(K) = Total(f, K)
    BY <1>4, FilledTotal
  <1>6. FilledBy(RegisteredOrders)' = Total(h, L)
    <2>1. RegisteredTotal'
      BY RegisteredFilled, PTL
    <2> QED
      BY <2>1, <1>4 DEF RegisteredTotal
  <1>7. FilledBy(K) = Executed(fills)
    BY DEF FillsInv, FillsMatchOrder, RegisteredOrders
  <1>8. \A o \in K : f[o] \in Int /\ o \in L /\ h[o] = f[o]
    <2>1. \A o \in K : o \in OrderIds /\ Registered(o) /\ orders[o].filled \in Int
      BY OrderFields DEF TablesInv, DispatchInv, StoredOrdersMeetContract, GoodOrder,
                         RegisteredOrders
    <2> QED
      BY <2>1 DEF FillsNothing, RegisteredOrders
  <1> HIDE DEF f, h
  <1>9. Total(h, K) = Total(f, K)
    BY <1>4, <1>8, TotalSame
  <1>10. Total(h, L) = Total(h, K)
    <2>1. CASE L = K
      BY <2>1
    <2>2. ASSUME NEW o \in L \ K PROVE Total(h, L) = Total(h, K)
      <3>1. o \in OrderIds /\ ~Registered(o) /\ Registered(o)'
        BY <2>2 DEF RegisteredOrders
      <3>2. L = K \cup {o} /\ o \notin K
        BY <2>2, <3>1, <1>8 DEF FillsNothing, RegisteredOrders
      <3>3. h[o] = 0
        BY <2>2, <3>1 DEF FillsNothing, h
      <3>4. \A y \in K \cup {o} : h[y] \in Int
        BY <3>3, <1>8
      <3>5. Total(h, K \cup {o}) = Total(h, K) + h[o] /\ Total(h, K) \in Int
        BY <3>2, <3>4, <1>4, TotalAdd
      <3> QED
        BY <3>2, <3>3, <3>5
    <2> QED
      BY <2>1, <2>2, <1>8
  <1>11. FilledBy(RegisteredOrders)' = Executed(fills)
    BY <1>5, <1>6, <1>7, <1>9, <1>10
  <1>12. FillsMatchOrder'
    BY <1>0, <1>3, <1>11 DEF FillsMatchOrder, RegisteredOrders
  <1> QED
    BY <1>1, <1>12 DEF FillsInv

\* A step that takes one execution adds it to its order and to the whole.
LEMMA FillsOneKeeps ==
    ASSUME TablesInv, TablesInv', FillsInv, NEW o \in OrderIds, NEW new, FillsOne(o, new),
           \A p \in OrderIds : Registered(p) => Registered(p)'
    PROVE  FillsInv'
  <1> DEFINE K == RegisteredOrders
             f == [p \in K |-> orders[p].filled]
             h == [p \in K |-> orders'[p].filled]
             Of(fs, p) == {x \in fs : x.order = p}
  <1>0. /\ Registered(o) /\ fills' = fills \cup {new}
        /\ new.order = o /\ new.quantity \in Nat /\ \A x \in fills : x.id # new.id
        /\ orders'[o].filled = orders[o].filled + new.quantity
        /\ \A p \in OrderIds \ {o} : orders'[p] = orders[p]
    BY DEF FillsOne
  <1>1. IsFiniteSet(fills) /\ \A x \in fills : x.quantity \in Nat
    BY DEF FillsInv, FillRowsAgree
  <1>2. FillRowsAgree'
    <2>1. IsFiniteSet(fills \cup {new})
      BY <1>1, FS_AddElement
    <2> QED
      BY <2>1, <1>0 DEF FillsInv, FillRowsAgree
  <1>3. \A p \in OrderIds : Registered(p) => orders[p].filled = Executed(Of(fills, p))
    BY DEF FillsInv, FillsMatchOrder
  <1>4. Executed(fills') = Executed(fills) + new.quantity
    BY <1>0, <1>1, ExecutedAdd
  <1>5. ASSUME NEW p \in OrderIds, Registered(p)'
        PROVE  orders'[p].filled = Executed(Of(fills', p))
    <2>1. CASE p = o
      <3>1. Of(fills', p) = Of(fills, p) \cup {new}
        BY <1>0, <2>1
      <3>2. IsFiniteSet(Of(fills, p))
        BY <1>1, FS_Subset
      <3>3. Executed(Of(fills, p) \cup {new}) = Executed(Of(fills, p)) + new.quantity
        <4> DEFINE F == Of(fills, p)
        <4>1. IsFiniteSet(F) /\ (\A x \in F : x.id # new.id)
              /\ \A x \in F \cup {new} : x.quantity \in Nat
          BY <3>2, <1>0, <1>1
        <4> HIDE DEF F
        <4>2. Executed(F \cup {new}) = Executed(F) + new.quantity
          BY <4>1, ExecutedAdd
        <4> QED
          BY <4>2 DEF F
      <3> QED
        BY <3>1, <3>3, <2>1, <1>0, <1>3
    <2>2. CASE p # o
      <3>1. Of(fills', p) = Of(fills, p)
        BY <1>0, <2>2
      <3>2. Registered(p)
        BY <1>0, <1>5, <2>2 DEF Registered
      <3> QED
        BY <3>1, <3>2, <2>2, <1>0, <1>3
    <2> QED
      BY <2>1, <2>2
  <1>6. RegisteredOrders' = K
    BY <1>0 DEF RegisteredOrders, Registered
  <1>7. IsFiniteSet(K) /\ o \in K
    BY <1>0 DEF TablesInv, TablesFinite, RegisteredOrders
  <1>8. FilledBy(K) = Total(f, K)
    BY <1>7, FilledTotal
  <1>9. FilledBy(RegisteredOrders)' = Total(h, K)
    <2>1. RegisteredTotal'
      BY RegisteredFilled, PTL
    <2> QED
      BY <2>1, <1>6, <1>7 DEF RegisteredTotal
  <1>10. FilledBy(K) = Executed(fills)
    BY DEF FillsInv, FillsMatchOrder, RegisteredOrders
  <1>11. \A p \in K : f[p] \in Int
    BY OrderFields DEF TablesInv, DispatchInv, StoredOrdersMeetContract, GoodOrder,
                       RegisteredOrders
  <1>12. h[o] = f[o] + new.quantity /\ h[o] \in Int /\ \A p \in K \ {o} : h[p] = f[p]
    <2>1. f[o] \in Int /\ h[o] = f[o] + new.quantity
      BY <1>0, <1>7, <1>11
    <2>2. \A p \in K \ {o} : h[p] = f[p]
      BY <1>0 DEF RegisteredOrders
    <2> QED
      BY <1>0, <2>1, <2>2
  <1>a. \A p \in K : h[p] \in Int
    BY <1>11, <1>12
  <1> HIDE DEF f, h
  <1>13. Total(h, K) = Total(f, K) + h[o] - f[o]
    BY <1>7, <1>11, <1>12, TotalChange
  <1>14. Total(f, K) \in Int
    <2>1. IsFiniteSet(K \ {o}) /\ K = (K \ {o}) \cup {o} /\ o \notin K \ {o}
      BY <1>7, FS_RemoveElement
    <2>2. Total(f, (K \ {o}) \cup {o}) = Total(f, K \ {o}) + f[o] /\ Total(f, K \ {o}) \in Int
      BY <2>1, <1>7, <1>11, TotalAdd
    <2>3. f[o] \in Int
      BY <1>7, <1>11
    <2>4. Total(f, K) = Total(f, K \ {o}) + f[o]
      BY <2>1, <2>2
    <2> QED
      BY <2>2, <2>3, <2>4
  <1>15. FilledBy(RegisteredOrders)' = Executed(fills')
    <2>1. Total(h, K) = Total(f, K) + new.quantity
      BY <1>0, <1>7, <1>11, <1>12, <1>13, <1>14
    <2> QED
      BY <2>1, <1>4, <1>8, <1>9, <1>10
  <1>16. FillsMatchOrder'
    BY <1>5, <1>15 DEF FillsMatchOrder, RegisteredOrders
  <1> QED
    BY <1>2, <1>16 DEF FillsInv

LEMMA FillsInit == Init => FillsInv
  <1> SUFFICES ASSUME Init PROVE FillsInv
    OBVIOUS
  <1>1. fills = {} /\ RegisteredOrders = {}
    BY DEF Init, RegisteredOrders, Registered
  <1>2. FillRowsAgree
    BY <1>1, FS_EmptySet DEF FillRowsAgree
  <1>3. FilledBy({}) = 0
    BY FS_EmptySet, FilledTotal, TotalEmpty
  <1>4. FillsMatchOrder
    BY <1>1, <1>3, ExecutedEmpty DEF FillsMatchOrder, RegisteredOrders
  <1> QED
    BY <1>2, <1>4 DEF FillsInv

LEMMA FillsStep == TablesInv /\ TablesInv' /\ FillsInv /\ [Next]_vars => FillsInv'
  <1> SUFFICES ASSUME TablesInv, TablesInv', FillsInv, [Next]_vars PROVE FillsInv'
    OBVIOUS
  <1>1. \A o \in OrderIds : Registered(o) => Registered(o)'
    BY StaysRegistered DEF TablesInv
  <1>2. FillsNothing \/ \E o \in OrderIds : \E new : FillsOne(o, new)
    BY FilledStep DEF TablesInv, FillsInv
  <1> QED
    BY <1>1, <1>2, FillsNothingKeeps, FillsOneKeeps

\* An execution counts once, whatever is redelivered, applied late or replayed after a
\* crash: each order's filled quantity is the sum of its fill rows, and all the orders
\* together have filled what the fill rows together say.
THEOREM FillsMatch == Spec => []FillsMatchOrder
  <1>1. Init => JournalInv /\ FillsInv
    BY JournalInit, FillsInit
  <1>2. JournalInv /\ FillsInv /\ [Next]_vars => (JournalInv /\ FillsInv)'
    BY JournalStep, FillsStep DEF JournalInv
  <1>3. FillsInv => FillsMatchOrder
    BY DEF FillsInv
  <1> QED
    BY <1>1, <1>2, <1>3, PTL DEF Spec

\* live_reconciliation_requirements: an id is given once.
RequirementIdsUnique == \A q, r \in requirements : q.id = r.id => q = r

\* live_reconciliation_commits has one row per commit, authorization and broker snapshot.
CommitRowsAgree ==
    \A m, n \in commits :
        m.id = n.id \/ m.authorization = n.authorization \/ m.snapshot = n.snapshot => m = n

\* A resolution is of a commit; one that operator recovery planned resolves claims only.
ResolutionsHaveCommits ==
    \A x \in resolutions : \E m \in commits : m.id = x.commit /\ (m.planned => x.kind = "claim")

SequencesRecorded ==
    \A m \in commits : m.resulting \in Nat /\ m.local.sequence \in Nat

\* ProjectionsVerify, in which the claim's version is known for planned commits only.
ProjectionRecorded(m, o) ==
    LET prior == m.local.orders[o]
        projected == m.projections[o]
    IN  /\ o \in OrderIds
        /\ prior \in history[o] /\ projected \in history[o]
        /\ projected.version = prior.version + 1 /\ projected.intent = prior.intent
        /\ prior.pending.kind = "new"
        /\ \E x \in Resolutions("claim") : x.id = prior.pending.id /\ x.commit = m.id
        /\ m.planned => \A claim \in ClaimOf(prior.pending.id) : claim.version = prior.version

ProjectionsRecorded == \A m \in commits : \A o \in DOMAIN m.projections : ProjectionRecorded(m, o)

\* What plan_operator_recovery saw stays true of the journal: only claims block, and each
\* order that waits has its claim, at the version that was assessed.
PlanHolds(q) ==
    q.planned =>
        /\ \A b \in q.local.blockers : b.kind = "claim"
        /\ \A o \in PendingOrders(q.local) :
              \E claim \in claims : /\ claim.id = q.local.orders[o].pending.id
                                    /\ claim.version = q.local.orders[o].version

RequestsHold ==
    /\ request = [p \in Operators |-> request[p]]
    /\ \A p \in Operators : request[p] # NoRequest => PlanHolds(request[p].request)

CommitsInv ==
    /\ RequirementIdsUnique /\ CommitRowsAgree /\ ResolutionsHaveCommits /\ SequencesRecorded
    /\ AuthorizationsVerify /\ CommitMappingVerifies /\ ClaimResolutionsVerify
    /\ ProjectionsRecorded

ReconciliationInv == TablesInv /\ FillsInv /\ CommitsInv /\ RequestsHold

-----------------------------------------------------------------------------
(* What a commit reads and writes *)

\* commit_authorized_reconciliation of request q under authorization a, once it is accepted.
Committed(q, a) ==
    /\ journal = "open" /\ Unused(q, a) /\ SnapshotCurrent(q) /\ Supported(q)
    /\ orders' = [o \in OrderIds |->
                     IF o \in DOMAIN Projected(q) THEN Projected(q)[o] ELSE orders[o]]
    /\ history' = [o \in OrderIds |->
                      history[o] \cup {Projected(q)[x] : x \in DOMAIN Projected(q) \cap {o}}]
    /\ commits' = commits \cup {CommitRow(q, a)}
    /\ resolutions' = resolutions \cup
          {[kind |-> x.kind, id |-> x.id, was |-> x.was, commit |-> q.id] : x \in q.local.blockers}
    /\ AppendRecords({<<"operator-authorization", a.id>>, <<"reconciliation-commit", q.id>>}
                     \cup {<<x.kind, x.id>> : x \in q.local.blockers})
    /\ UNCHANGED <<journal, commandTables, evidenceTables, dispatcher, sent>>

LEMMA CommitIsCommitted ==
    ASSUME NEW p \in Operators, CommitAuthorizedReconciliation(p)
    PROVE  /\ request[p] # NoRequest /\ request' = request
           /\ Committed(request[p].request, request[p].authorization)
  BY DEF CommitAuthorizedReconciliation, Committed

\* An order that project_authoritative_orders accepts meets its contract.
LEMMA ProjectionGood ==
    ASSUME NEW order, GoodOrder(order), ProjectableOrder(order)
    PROVE  LET n == [Snapshot(order, "accepted", Now, NoCommand) EXCEPT !.acceptedAt = Now]
           IN  /\ GoodOrder(n) /\ n.version = order.version + 1 /\ n.intent = order.intent
               /\ n.pending = NoCommand /\ n.filled = order.filled
  <1> DEFINE s == Snapshot(order, "accepted", Now, NoCommand)
             n == [s EXCEPT !.acceptedAt = Now]
  <1>1. order \in Orders /\ Now \in Nat /\ Now = 1
    BY DEF GoodOrder, Now
  <1>2. s \in Orders
    BY <1>1, SnapshotType DEF States
  <1>3. n \in Orders
    BY <1>1, <1>2 DEF Orders
  <1>4. /\ s.state = "accepted" /\ s.updatedAt = Now /\ s.pending = NoCommand
        /\ s.version = order.version + 1 /\ s.intent = order.intent /\ s.total = order.total
        /\ s.filled = order.filled /\ s.remaining = order.remaining
        /\ s.hasAverage = order.hasAverage /\ s.limit = order.limit
    BY <1>1, SnapshotFields
  <1> HIDE DEF s
  <1>5. /\ n.state = "accepted" /\ n.updatedAt = Now /\ n.pending = NoCommand
        /\ n.version = order.version + 1 /\ n.intent = order.intent /\ n.total = order.total
        /\ n.filled = order.filled /\ n.remaining = order.remaining
        /\ n.hasAverage = order.hasAverage /\ n.limit = order.limit /\ n.acceptedAt = Now
    BY <1>2, <1>4 DEF Orders
  <1> HIDE DEF n
  <1>6. order.filled = 0 /\ order.state \notin TerminalStates
    BY DEF ProjectableOrder, ProjectableStates, TerminalStates
  <1>7. order.version \in Nat /\ order.filled \in Int /\ order.remaining \in Int
    BY <1>1, OrderFields
  <1>8. QuantitiesAddUp(n)
    <2>1. QuantitiesAddUp(order)
      BY DEF GoodOrder, LiveOrderContract
    <2> QED
      BY <2>1, <1>5 DEF QuantitiesAddUp
  <1>9. AcceptanceRecorded(n) /\ BindingFitsState(n) /\ n.version >= 1
    BY <1>1, <1>5, <1>7 DEF AcceptanceRecorded, BindingFitsState, BindingStates, TerminalStates,
                            NoCommand, None
  <1>10. QuantityFitsState(n)
    BY <1>5, <1>6 DEF QuantityFitsState
  <1>11. HasRemainder(n)
    BY <1>5, <1>6 DEF GoodOrder, HasRemainder
  <1>12. GoodOrder(n)
    BY <1>3, <1>8, <1>9, <1>10, <1>11 DEF GoodOrder, LiveOrderContract
  <1> QED
    BY <1>5, <1>12 DEF n, s

\* A commit of a current snapshot projects orders that wait, or none.
LEMMA ProjectedOrders ==
    ASSUME NEW q, SnapshotCurrent(q), NEW o \in DOMAIN Projected(q)
    PROVE  /\ o \in Pending /\ ProjectableOrder(orders[o]) /\ q.local.orders[o] = orders[o]
           /\ Projected(q)[o] =
                 [Snapshot(orders[o], "accepted", Now, NoCommand) EXCEPT !.acceptedAt = Now]
  <1> DEFINE S == IF Projectable(q.local, q.broker) THEN PendingOrders(q.local) ELSE {}
  <1>1. DOMAIN Projected(q) = S
    BY DEF Projected, Projections
  <1>2. o \in PendingOrders(q.local) /\ Projectable(q.local, q.broker)
    BY <1>1
  <1>3. q.local.orders = [x \in {y \in OrderIds : Registered(y)} |-> orders[x]]
    BY DEF SnapshotCurrent, LocalSnapshot
  <1>4. o \in OrderIds /\ Registered(o) /\ q.local.orders[o] = orders[o] /\ orders[o].pending # NoCommand
    BY <1>2, <1>3 DEF PendingOrders
  <1>5. Discrepancy("correlation_missing", o) \in Discrepancies(q.local, q.broker)
    BY <1>2 DEF Discrepancies, OpenDiscrepancies
  <1>6. Discrepancy("correlation_missing", o).order = o
    BY DEF Discrepancy
  <1>7. ProjectableOrder(q.local.orders[o])
    BY <1>2, <1>5, <1>6 DEF Projectable
  <1>8. Projected(q)[o] =
           [Snapshot(q.local.orders[o], "accepted", Now, NoCommand) EXCEPT !.acceptedAt = Now]
    BY <1>1 DEF Projected, Projections
  <1> QED
    BY <1>4, <1>7, <1>8 DEF Pending

\* What a commit does to an order.
LEMMA CommittedOrder ==
    ASSUME TypeOK, StoredOrdersMeetContract, NEW q, NEW a, Committed(q, a), NEW o \in OrderIds
    PROVE  \/ /\ o \notin DOMAIN Projected(q)
              /\ orders'[o] = orders[o] /\ history'[o] = history[o]
           \/ /\ o \in DOMAIN Projected(q) /\ Registered(o) /\ Projected(q)[o] = orders'[o]
              /\ GoodOrder(orders'[o]) /\ orders'[o].version = orders[o].version + 1
              /\ orders'[o].intent = orders[o].intent /\ orders'[o].pending = NoCommand
              /\ orders'[o].filled = orders[o].filled
              /\ history'[o] = history[o] \cup {orders'[o]}
  <1> DEFINE P == Projected(q)
  <1>1. /\ orders' = [x \in OrderIds |-> IF x \in DOMAIN P THEN P[x] ELSE orders[x]]
        /\ history' = [x \in OrderIds |-> history[x] \cup {P[y] : y \in DOMAIN P \cap {x}}]
    BY DEF Committed
  <1>2. CASE o \notin DOMAIN P
    <2> HIDE DEF P
    <2>1. DOMAIN P \cap {o} = {}
      BY <1>2
    <2>2. {P[y] : y \in DOMAIN P \cap {o}} = {}
      BY <2>1
    <2>3. orders'[o] = orders[o] /\ history'[o] = history[o]
      BY <2>2, <1>1, <1>2
    <2> QED
      BY <2>3, <1>2 DEF P
  <1>3. CASE o \in DOMAIN P
    <2>1. /\ o \in Pending /\ ProjectableOrder(orders[o])
          /\ P[o] = [Snapshot(orders[o], "accepted", Now, NoCommand) EXCEPT !.acceptedAt = Now]
      BY <1>3, ProjectedOrders DEF Committed
    <2>2. Registered(o) /\ GoodOrder(orders[o])
      BY <2>1 DEF Pending, StoredOrdersMeetContract
    <2>3. /\ GoodOrder(P[o]) /\ P[o].version = orders[o].version + 1
          /\ P[o].intent = orders[o].intent /\ P[o].pending = NoCommand
          /\ P[o].filled = orders[o].filled
      BY <2>1, <2>2, ProjectionGood
    <2> HIDE DEF P
    <2>4. DOMAIN P \cap {o} = {o}
      BY <1>3
    <2>5. {P[y] : y \in DOMAIN P \cap {o}} = {P[o]}
      BY <2>4
    <2>6. orders'[o] = P[o] /\ history'[o] = history[o] \cup {P[o]}
      BY <2>5, <1>1, <1>3
    <2>7. P = Projected(q)
      BY DEF P
    <2> QED
      BY <2>2, <2>3, <2>6, <2>7, <1>3
  <1> QED
    BY <1>2, <1>3

\* The values of a function with a finite domain.
LEMMA FiniteValues ==
    ASSUME NEW S, IsFiniteSet(S), NEW f, f = [x \in S |-> f[x]]
    PROVE  IsFiniteSet({f[x] : x \in S})
  <1>1. f \in Surjection(S, {f[x] : x \in S})
    BY DEF Surjection
  <1> QED
    BY <1>1, FS_Surjection

\* A blocker is of one kind, is not resolved, and its kind and id determine it.
LEMMA BlockerFacts ==
    ASSUME TablesInv, RequirementIdsUnique
    PROVE  /\ IsFiniteSet(Blockers)
           /\ \A x \in Blockers :
                 /\ x.kind \in OverlayKinds /\ ~Resolved(x.kind, x.id)
                 /\ x = [kind |-> x.kind, id |-> x.id, was |-> x.was]
                 /\ x.kind = "claim" => \E c \in OutstandingClaims : c.id = x.id
           /\ \A x, y \in Blockers : x.kind = y.kind /\ x.id = y.id => x = y
  <1> DEFINE A == {[kind |-> "claim", id |-> c.id, was |-> "outstanding"] : c \in OutstandingClaims}
             R == Open("unresolved") \cup Open("conflict")
             B == {[kind |-> "observation", id |-> r, was |-> raws[r].status] : r \in R}
             C == {[kind |-> "requirement", id |-> q.id, was |-> q.reason] : q \in OpenRequirements}
  <1>1. Blockers = A \cup B \cup C
    BY DEF Blockers
  <1>2. IsFiniteSet(A)
    <2>1. IsFiniteSet(OutstandingClaims)
      BY FS_Subset DEF TablesInv, TablesFinite, OutstandingClaims
    <2> DEFINE f == [c \in OutstandingClaims |-> [kind |-> "claim", id |-> c.id, was |-> "outstanding"]]
    <2>2. A = {f[x] : x \in OutstandingClaims} /\ f = [x \in OutstandingClaims |-> f[x]]
      OBVIOUS
    <2> HIDE DEF f
    <2> QED
      BY <2>1, <2>2, FiniteValues
  <1>3. IsFiniteSet(B)
    <2>1. R \subseteq Held(Stored)
      BY DEF Open, Held, Stored
    <2>2. IsFiniteSet(R)
      BY <2>1, FS_Subset DEF TablesInv, TablesFinite
    <2> DEFINE f == [r \in R |-> [kind |-> "observation", id |-> r, was |-> raws[r].status]]
    <2>3. B = {f[x] : x \in R} /\ f = [x \in R |-> f[x]]
      OBVIOUS
    <2> HIDE DEF f, R, B
    <2> QED
      BY <2>2, <2>3, FiniteValues
  <1>4. IsFiniteSet(C)
    <2>1. IsFiniteSet(OpenRequirements)
      BY FS_Subset DEF TablesInv, TablesFinite, OpenRequirements
    <2> DEFINE f == [q \in OpenRequirements |-> [kind |-> "requirement", id |-> q.id, was |-> q.reason]]
    <2>2. C = {f[x] : x \in OpenRequirements} /\ f = [x \in OpenRequirements |-> f[x]]
      OBVIOUS
    <2> HIDE DEF f
    <2> QED
      BY <2>1, <2>2, FiniteValues
  <1>5. IsFiniteSet(Blockers)
    <2> HIDE DEF A, B, C
    <2> QED
      BY <1>1, <1>2, <1>3, <1>4, FS_Union
  <1>6. ASSUME NEW x \in A
        PROVE  /\ x.kind = "claim" /\ ~Resolved(x.kind, x.id) /\ x.was = "outstanding"
               /\ x = [kind |-> x.kind, id |-> x.id, was |-> x.was]
               /\ \E c \in OutstandingClaims : c.id = x.id
    BY <1>6 DEF OutstandingClaims
  <1>7. ASSUME NEW x \in B
        PROVE  /\ x.kind = "observation" /\ ~Resolved(x.kind, x.id) /\ x.was = raws[x.id].status
               /\ x = [kind |-> x.kind, id |-> x.id, was |-> x.was]
    BY <1>7 DEF Open
  <1>8. ASSUME NEW x \in C
        PROVE  /\ x.kind = "requirement" /\ ~Resolved(x.kind, x.id)
               /\ x = [kind |-> x.kind, id |-> x.id, was |-> x.was]
               /\ \E q \in requirements : x.id = q.id /\ x.was = q.reason
    BY <1>8 DEF OpenRequirements
  <1> HIDE DEF A, B, C
  <1>9. \A x, y \in Blockers : x.kind = y.kind /\ x.id = y.id => x = y
    <2> SUFFICES ASSUME NEW x \in Blockers, NEW y \in Blockers, x.kind = y.kind, x.id = y.id
                 PROVE  x = y
      OBVIOUS
    <2>1. CASE x \in A
      <3>1. y \in A
        BY <2>1, <1>1, <1>6, <1>7, <1>8
      <3> QED
        BY <2>1, <3>1, <1>6
    <2>2. CASE x \in B
      <3>1. y \in B
        BY <2>2, <1>1, <1>6, <1>7, <1>8
      <3> QED
        BY <2>2, <3>1, <1>7
    <2>3. CASE x \in C
      <3>1. y \in C
        BY <2>3, <1>1, <1>6, <1>7, <1>8
      <3>2. x.was = y.was
        BY <2>3, <3>1, <1>8 DEF RequirementIdsUnique
      <3> QED
        BY <2>3, <3>1, <3>2, <1>8
    <2> QED
      BY <2>1, <2>2, <2>3, <1>1
  <1>10. \A x \in Blockers :
            /\ x.kind \in OverlayKinds /\ ~Resolved(x.kind, x.id)
            /\ x = [kind |-> x.kind, id |-> x.id, was |-> x.was]
            /\ x.kind = "claim" => \E c \in OutstandingClaims : c.id = x.id
    BY <1>1, <1>6, <1>7, <1>8 DEF OverlayKinds
  <1> QED
    BY <1>5, <1>9, <1>10

\* Each blocker becomes one record and one resolution.
BlockerRecords == {<<x.kind, x.id>> : x \in Blockers}

BlockerResolutions(m) ==
    {[kind |-> x.kind, id |-> x.id, was |-> x.was, commit |-> m] : x \in Blockers}

LEMMA BlockerCounts ==
    ASSUME TablesInv, RequirementIdsUnique, NEW m
    PROVE  /\ IsFiniteSet(BlockerRecords) /\ Cardinality(BlockerRecords) = Cardinality(Blockers)
           /\ IsFiniteSet(BlockerResolutions(m))
           /\ Cardinality(BlockerResolutions(m)) = Cardinality(Blockers)
           /\ Cardinality(Blockers) \in Nat
  <1> DEFINE f == [x \in Blockers |-> <<x.kind, x.id>>]
             g == [x \in Blockers |-> [kind |-> x.kind, id |-> x.id, was |-> x.was, commit |-> m]]
  <1>1. /\ IsFiniteSet(Blockers)
        /\ \A x, y \in Blockers : x.kind = y.kind /\ x.id = y.id => x = y
    BY BlockerFacts
  <1>2. f \in Bijection(Blockers, BlockerRecords)
    <2>1. \A x, y \in Blockers : f[x] = f[y] => x = y
      BY <1>1
    <2>2. BlockerRecords = {f[x] : x \in Blockers}
      BY DEF BlockerRecords
    <2>3. f = [x \in Blockers |-> f[x]]
      OBVIOUS
    <2> HIDE DEF f
    <2> QED
      BY <2>1, <2>2, <2>3 DEF Bijection, Injection, Surjection, IsInjective
  <1>3. g \in Bijection(Blockers, BlockerResolutions(m))
    <2>1. \A x, y \in Blockers : g[x] = g[y] => x = y
      BY <1>1
    <2>2. BlockerResolutions(m) = {g[x] : x \in Blockers}
      BY DEF BlockerResolutions
    <2>3. g = [x \in Blockers |-> g[x]]
      OBVIOUS
    <2> HIDE DEF g
    <2> QED
      BY <2>1, <2>2, <2>3 DEF Bijection, Injection, Surjection, IsInjective
  <1>4. /\ ExistsBijection(Blockers, BlockerRecords)
        /\ ExistsBijection(Blockers, BlockerResolutions(m))
    BY <1>2, <1>3 DEF ExistsBijection
  <1> QED
    BY <1>1, <1>4, FS_Bijection, FS_CardinalityType

-----------------------------------------------------------------------------
(* A commit keeps the tables in agreement *)

LEMMA CommitOrders ==
    ASSUME TablesInv, NEW q, NEW a, Committed(q, a)
    PROVE  /\ \A o \in OrderIds : Registered(o)' <=> Registered(o)
           /\ orders' \in [OrderIds -> Orders \cup {NoOrder}]
           /\ history' \in [OrderIds -> SUBSET Orders]
           /\ StoredOrdersMeetContract'
  <1>0. TypeOK /\ StoredOrdersMeetContract
    BY DEF TablesInv, DispatchInv
  <1>1. ASSUME NEW o \in OrderIds
        PROVE  /\ Registered(o)' <=> Registered(o)
               /\ Registered(o)' => GoodOrder(orders'[o])
               /\ orders'[o] \in Orders \cup {NoOrder} /\ history'[o] \subseteq Orders
    <2>1. orders[o] \in Orders \cup {NoOrder} /\ history[o] \subseteq Orders
      BY <1>0 DEF TypeOK
    <2>2. CASE orders'[o] = orders[o] /\ history'[o] = history[o]
      BY <2>1, <2>2, <1>0 DEF Registered, StoredOrdersMeetContract
    <2>3. CASE /\ Registered(o) /\ GoodOrder(orders'[o])
               /\ history'[o] = history[o] \cup {orders'[o]}
      BY <2>1, <2>3, OrderIsSomething DEF Registered, GoodOrder
    <2> QED
      BY <2>2, <2>3, <1>0, CommittedOrder
  <1>2. /\ orders' = [o \in OrderIds |-> orders'[o]] /\ history' = [o \in OrderIds |-> history'[o]]
    BY DEF Committed
  <1>3. /\ orders' \in [OrderIds -> Orders \cup {NoOrder}]
        /\ history' \in [OrderIds -> SUBSET Orders]
    BY <1>1, <1>2, Zenon
  <1> QED
    BY <1>1, <1>3 DEF StoredOrdersMeetContract, Registered

LEMMA CommitHistory ==
    ASSUME TablesInv, NEW q, NEW a, Committed(q, a)
    PROVE  HistoryContiguous'
  <1>0. TypeOK /\ StoredOrdersMeetContract /\ HistoryContiguous
    BY DEF TablesInv, DispatchInv
  <1> SUFFICES ASSUME NEW o \in OrderIds
               PROVE  IF Registered(o)'
                      THEN /\ orders'[o] \in history'[o] /\ orders'[o].version >= 3
                           /\ {h.version : h \in history'[o]} = 3 .. orders'[o].version
                           /\ \A g, h \in history'[o] : g.version = h.version => g = h
                           /\ \A h \in history'[o] : h.intent = orders'[o].intent
                      ELSE history'[o] = {}
    BY DEF HistoryContiguous, Registered
  <1>1. Registered(o)' <=> Registered(o)
    BY CommitOrders
  <1>2. CASE orders'[o] = orders[o] /\ history'[o] = history[o]
    BY <1>0, <1>1, <1>2 DEF HistoryContiguous
  <1>3. CASE /\ Registered(o) /\ orders'[o].version = orders[o].version + 1
             /\ orders'[o].intent = orders[o].intent
             /\ history'[o] = history[o] \cup {orders'[o]}
    <2> DEFINE H == history[o]
               n == orders'[o]
               v == orders[o].version
    <2>1. /\ orders[o] \in H /\ v >= 3 /\ {h.version : h \in H} = 3 .. v
          /\ \A g, h \in H : g.version = h.version => g = h
          /\ \A h \in H : h.intent = orders[o].intent
      BY <1>0, <1>3 DEF HistoryContiguous
    <2>2. v \in Nat
      BY <1>0, <1>3, OrderFields DEF StoredOrdersMeetContract, GoodOrder
    <2>3. history'[o] = H \cup {n} /\ n.version = v + 1 /\ n.intent = orders[o].intent
      BY <1>3
    <2> HIDE DEF H, n, v
    <2>4. \A h \in H : h.version \in 3 .. v
      BY <2>1
    <2>5. {h.version : h \in H \cup {n}} = {h.version : h \in H} \cup {v + 1}
      BY <2>3
    <2>6. (3 .. v) \cup {v + 1} = 3 .. (v + 1)
      BY <2>1, <2>2
    <2>7. \A g, h \in H \cup {n} : g.version = h.version => g = h
      BY <2>1, <2>2, <2>3, <2>4
    <2>8. \A h \in H \cup {n} : h.intent = n.intent
      BY <2>1, <2>3
    <2>9. /\ {h.version : h \in H \cup {n}} = 3 .. n.version /\ n.version >= 3 /\ n \in H \cup {n}
      BY <2>1, <2>2, <2>3, <2>5, <2>6
    <2>10. /\ n \in history'[o] /\ n.version >= 3
           /\ {h.version : h \in history'[o]} = 3 .. n.version
           /\ \A g, h \in history'[o] : g.version = h.version => g = h
           /\ \A h \in history'[o] : h.intent = n.intent
      BY <2>3, <2>7, <2>8, <2>9
    <2> QED
      BY <2>10, <1>1, <1>3 DEF n
  <1> QED
    BY <1>0, <1>2, <1>3, CommittedOrder

LEMMA CommitDispatch ==
    ASSUME TablesInv, NEW q, NEW a, Committed(q, a)
    PROVE  DispatchInv'
  <1>1. /\ UNCHANGED <<commands, claims, receipts, raws, dispatcher, sent>> /\ UNCHANGED journal
    BY DEF Committed, commandTables, evidenceTables
  <1>2. /\ \A o \in OrderIds : Registered(o)' <=> Registered(o)
        /\ orders' \in [OrderIds -> Orders \cup {NoOrder}]
        /\ history' \in [OrderIds -> SUBSET Orders]
        /\ StoredOrdersMeetContract'
    BY CommitOrders
  <1>3. TypeOK /\ CommandTablesAgree /\ DispatchersHoldClaims /\ SentAtMostOnce
    BY DEF TablesInv, DispatchInv
  <1>4. TypeOK'
    BY <1>1, <1>2, <1>3 DEF TypeOK
  <1>5. /\ \A id : ClaimOf(id)' = ClaimOf(id) /\ CommandRow(id)' = CommandRow(id)
    BY <1>1 DEF ClaimOf, CommandRow
  <1>6. CommandTablesAgree'
    <2>1. \A x \in commands : x.order \in OrderIds
      BY <1>3 DEF TypeOK
    <2>2. \A x \in commands' : Registered(x.order)'
      BY <2>1, <1>1, <1>2, <1>3 DEF CommandTablesAgree
    <2> QED
      BY <2>2, <1>1, <1>3, <1>5 DEF CommandTablesAgree
  <1>7. DispatchersHoldClaims'
    BY <1>1, <1>3, <1>5 DEF DispatchersHoldClaims
  <1>8. SentAtMostOnce'
    BY <1>1, <1>3, <1>5 DEF SentAtMostOnce
  <1> QED
    BY <1>2, <1>4, <1>6, <1>7, <1>8, CommitHistory DEF DispatchInv

LEMMA CommitEvidence ==
    ASSUME TablesInv, NEW q, NEW a, Committed(q, a)
    PROVE  EvidenceInv'
  <1>1. UNCHANGED <<raws, events, fills, requirements>>
    BY DEF Committed, evidenceTables
  <1>2. EvidenceInv
    BY DEF TablesInv
  <1>3. EventRowsAgree' /\ ResolvedIsApplied'
    BY <1>1, <1>2 DEF EvidenceInv, EventRowsAgree, ResolvedIsApplied, EventRow
  <1>4. EvidenceVerifies'
    BY <1>1, <1>2 DEF EvidenceInv, EvidenceVerifies, Required
  <1>5. FillsVerify' /\ \A f \in fills' : f.order \in OrderIds
    BY <1>1, <1>2, CommitOrders DEF EvidenceInv, EventRowsAgree, FillsVerify
  <1> QED
    BY <1>3, <1>4, <1>5 DEF EvidenceInv

\* The records of a commit: its own, its authorization's, and one for each blocker.
CommitRecords(q, a) ==
    {<<"operator-authorization", a.id>>, <<"reconciliation-commit", q.id>>} \cup BlockerRecords

LEMMA CommitWrites ==
    ASSUME NEW q, NEW a, Committed(q, a)
    PROVE  /\ q.local = LocalSnapshot /\ q.local.blockers = Blockers /\ q.local.sequence = sequence
           /\ resolutions' = resolutions \cup BlockerResolutions(q.id)
           /\ AppendRecords(CommitRecords(q, a))
           /\ commits' = commits \cup {CommitRow(q, a)}
  <1>1. q.local = LocalSnapshot /\ q.local.blockers = Blockers /\ q.local.sequence = sequence
    BY DEF Committed, SnapshotCurrent, LocalSnapshot
  <1> QED
    BY <1>1 DEF Committed, BlockerResolutions, BlockerRecords, CommitRecords

\* Every record of a commit is new, and they are as many as it counts.
LEMMA CommitRecordsNew ==
    ASSUME TablesInv, RequirementIdsUnique, NEW q, NEW a, Committed(q, a)
    PROVE  /\ CommitRecords(q, a) \cap records = {}
           /\ IsFiniteSet(CommitRecords(q, a))
           /\ Cardinality(CommitRecords(q, a)) = Cardinality(Blockers) + 2
           /\ \A x \in CommitRecords(q, a) : x[1] # "schema-migration"
  <1> DEFINE u == <<"operator-authorization", a.id>>
             w == <<"reconciliation-commit", q.id>>
  <1>0. /\ OverlayOK /\ RowsRecorded /\ MigrationsRecorded /\ TypeOK
    BY DEF TablesInv, DispatchInv
  <1>1. \A x \in Blockers : x.kind \in OverlayKinds /\ ~Resolved(x.kind, x.id)
    BY BlockerFacts
  <1>2. \A x \in BlockerRecords : x[1] \in OverlayKinds /\ ~Resolved(x[1], x[2])
    BY <1>1 DEF BlockerRecords
  <1>3. records = InitialRecords(StoredVersion) \cup RowRecords \cup OverlayRecords
    BY <1>0, ExpectedSplit DEF RowsRecorded
  <1>4. /\ \A x \in RowRecords : x[1] \in RowKinds
        /\ \A x \in InitialRecords(StoredVersion) : x[1] \in {"identity", "schema-migration"}
    BY <1>0, RowsAreNotMigrations DEF InitialRecords, MigrationsRecorded
  <1>5. \A m \in commits : m.id # q.id /\ m.authorization # a.id
    BY DEF Committed, Unused
  <1>6. u \notin OverlayRecords /\ w \notin OverlayRecords
    BY <1>0, <1>5 DEF OverlayRecords, OverlayOK, OverlayKinds
  <1>7. BlockerRecords \cap OverlayRecords = {}
    <2>1. \A x \in OverlayRecords : x[1] \in OverlayKinds => Resolved(x[1], x[2])
      BY DEF OverlayRecords, OverlayKinds, Resolved
    <2> QED
      BY <2>1, <1>2
  <1>8. u \notin BlockerRecords /\ w \notin BlockerRecords /\ u # w
    BY <1>2 DEF OverlayKinds
  <1>9. \A x \in CommitRecords(q, a) :
           x[1] \in OverlayKinds \cup {"operator-authorization", "reconciliation-commit"}
    BY <1>2 DEF CommitRecords
  <1>10. CommitRecords(q, a) \cap records = {}
    <2>1. CommitRecords(q, a) \cap OverlayRecords = {}
      BY <1>6, <1>7 DEF CommitRecords
    <2> QED
      BY <2>1, <1>3, <1>4, <1>9 DEF OverlayKinds, RowKinds
  <1>11. /\ IsFiniteSet(CommitRecords(q, a))
         /\ Cardinality(CommitRecords(q, a)) = Cardinality(Blockers) + 2
    <2>1. /\ IsFiniteSet(BlockerRecords) /\ Cardinality(BlockerRecords) = Cardinality(Blockers)
          /\ Cardinality(Blockers) \in Nat
      BY BlockerCounts
    <2>2. CommitRecords(q, a) = (BlockerRecords \cup {u}) \cup {w}
      BY DEF CommitRecords
    <2> HIDE DEF u, w
    <2>3. /\ IsFiniteSet(BlockerRecords \cup {u})
          /\ Cardinality(BlockerRecords \cup {u}) = Cardinality(BlockerRecords) + 1
      BY <2>1, <1>8, OneMore
    <2>4. w \notin BlockerRecords \cup {u}
      BY <1>8
    <2>5. /\ IsFiniteSet((BlockerRecords \cup {u}) \cup {w})
          /\ Cardinality((BlockerRecords \cup {u}) \cup {w}) = Cardinality(BlockerRecords \cup {u}) + 1
      BY <2>3, <2>4, OneMore
    <2> QED
      BY <2>1, <2>2, <2>3, <2>5
  <1> QED
    BY <1>9, <1>10, <1>11 DEF OverlayKinds

\* The overlays grow by one commit and by one resolution per blocker.
LEMMA CommitOverlays ==
    ASSUME TablesInv, RequirementIdsUnique, NEW q, NEW a, Committed(q, a)
    PROVE  /\ OverlayOK' /\ OverlayCount' = OverlayCount + Cardinality(Blockers) + 2
           /\ OverlayRecords' = OverlayRecords \cup CommitRecords(q, a)
  <1> DEFINE m == CommitRow(q, a)
             X == BlockerResolutions(q.id)
  <1>0. OverlayOK
    BY DEF TablesInv
  <1>1. commits' = commits \cup {m} /\ resolutions' = resolutions \cup X
    BY CommitWrites
  <1>2. m.id = q.id /\ m.authorization = a.id
    BY DEF CommitRow
  <1>3. m \notin commits
    BY <1>2 DEF Committed, Unused
  <1>4. /\ \A x \in Blockers : x.kind \in OverlayKinds /\ ~Resolved(x.kind, x.id)
    BY BlockerFacts
  <1>5. \A x \in X : x.kind \in OverlayKinds /\ ~Resolved(x.kind, x.id)
    BY <1>4 DEF BlockerResolutions
  <1>6. resolutions \cap X = {}
    BY <1>5 DEF Resolved
  <1>7. /\ IsFiniteSet(X) /\ Cardinality(X) = Cardinality(Blockers) /\ Cardinality(Blockers) \in Nat
    BY BlockerCounts
  <1>8. {<<x.kind, x.id>> : x \in X} = BlockerRecords
    <2> DEFINE g(b) == [kind |-> b.kind, id |-> b.id, was |-> b.was, commit |-> q.id]
    <2>1. X = {g(b) : b \in Blockers}
      BY DEF BlockerResolutions
    <2>2. \A b : g(b).kind = b.kind /\ g(b).id = b.id
      OBVIOUS
    <2> HIDE DEF g, X
    <2> QED
      BY <2>1, <2>2 DEF BlockerRecords
  <1> HIDE DEF m, X
  <1>9. /\ IsFiniteSet(commits') /\ Cardinality(commits') = Cardinality(commits) + 1
        /\ Cardinality(commits) \in Nat
    BY <1>0, <1>1, <1>3, OneMore DEF OverlayOK
  <1>10. /\ IsFiniteSet(resolutions')
         /\ Cardinality(resolutions') = Cardinality(resolutions) + Cardinality(X)
         /\ Cardinality(resolutions) \in Nat
    <2>1. /\ IsFiniteSet(resolutions) /\ Cardinality(resolutions) \in Nat /\ Cardinality(X) \in Nat
      BY <1>0, <1>7, FS_CardinalityType DEF OverlayOK
    <2>2. /\ IsFiniteSet(resolutions \cup X)
          /\ Cardinality(resolutions \cup X) =
               Cardinality(resolutions) + Cardinality(X) - Cardinality(resolutions \cap X)
      BY <2>1, <1>7, FS_Union
    <2>3. Cardinality(resolutions \cap X) = 0
      BY <1>6, FS_EmptySet
    <2> QED
      BY <2>1, <2>2, <2>3, <1>1
  <1>11. OverlayOK'
    BY <1>0, <1>1, <1>5, <1>9, <1>10 DEF OverlayOK
  <1>12. OverlayCount' = OverlayCount + Cardinality(Blockers) + 2
    BY <1>7, <1>9, <1>10 DEF OverlayCount
  <1>13. OverlayRecords' = OverlayRecords \cup CommitRecords(q, a)
    <2>1. {<<"reconciliation-commit", x.id>> : x \in commits'} =
             {<<"reconciliation-commit", x.id>> : x \in commits} \cup {<<"reconciliation-commit", q.id>>}
      BY <1>1, <1>2
    <2>2. {<<"operator-authorization", x.authorization>> : x \in commits'} =
             {<<"operator-authorization", x.authorization>> : x \in commits}
                \cup {<<"operator-authorization", a.id>>}
      BY <1>1, <1>2
    <2>3. {<<x.kind, x.id>> : x \in resolutions'} =
             {<<x.kind, x.id>> : x \in resolutions} \cup BlockerRecords
      BY <1>1, <1>8
    <2> QED
      BY <2>1, <2>2, <2>3 DEF OverlayRecords, CommitRecords
  <1> QED
    BY <1>11, <1>12, <1>13

LEMMA CommitTables ==
    ASSUME TablesInv, RequirementIdsUnique, NEW q, NEW a, Committed(q, a)
    PROVE  TablesInv'
  <1> DEFINE new == CommitRecords(q, a)
  <1>0. /\ TypeOK /\ OverlayOK /\ RowsRecorded /\ MigrationsRecorded /\ TablesFinite
    BY DEF TablesInv, DispatchInv
  <1>1. DispatchInv' /\ EvidenceInv'
    BY CommitDispatch, CommitEvidence
  <1>2. /\ OverlayOK' /\ OverlayCount' = OverlayCount + Cardinality(Blockers) + 2
        /\ OverlayRecords' = OverlayRecords \cup new
    BY CommitOverlays
  <1>3. records' = records \cup new /\ sequence' = sequence + Cardinality(new)
    BY CommitWrites DEF AppendRecords
  <1>4. /\ new \cap records = {} /\ IsFiniteSet(new)
        /\ Cardinality(new) = Cardinality(Blockers) + 2
        /\ \A x \in new : x[1] # "schema-migration"
    BY CommitRecordsNew
  <1> HIDE DEF new
  <1>5. UNCHANGED <<journal, commands, claims, receipts, raws, events, fills, requirements>>
    BY DEF Committed, commandTables, evidenceTables
  <1>6. RegisteredOrders' = RegisteredOrders /\ Held(Stored)' = Held(Stored)
        /\ Held(Settled)' = Held(Settled)
    BY <1>5, CommitOrders DEF RegisteredOrders, Held
  <1>7. RowRecords' = RowRecords /\ RowCount' = RowCount
    BY <1>5, <1>6 DEF RowRecords, RowCount
  <1>8. {x \in records' : x[1] = "schema-migration"} = {x \in records : x[1] = "schema-migration"}
    BY <1>3, <1>4
  <1>9. StoredVersion' = StoredVersion
    BY <1>8 DEF StoredVersion
  <1>10. MigrationsRecorded'
    BY <1>0, <1>5, <1>8, <1>9 DEF MigrationsRecorded
  <1>11. /\ IsFiniteSet(records') /\ Cardinality(records') = Cardinality(records) + Cardinality(new)
    <2>1. IsFiniteSet(records) /\ Cardinality(records) \in Nat /\ Cardinality(new) \in Nat
      BY <1>0, <1>4, FS_CardinalityType DEF TablesFinite
    <2>2. /\ IsFiniteSet(records \cup new)
          /\ Cardinality(records \cup new) =
               Cardinality(records) + Cardinality(new) - Cardinality(records \cap new)
      BY <2>1, <1>4, FS_Union
    <2>3. Cardinality(records \cap new) = 0
      BY <1>4, FS_EmptySet
    <2> QED
      BY <2>1, <2>2, <2>3, <1>3
  <1>12. TablesFinite'
    BY <1>0, <1>5, <1>6, <1>11 DEF TablesFinite
  <1>13. records' = ExpectedRecords'
    <2>1. TypeOK'
      BY <1>1 DEF DispatchInv
    <2>2. (TypeOK => ExpectedRecords =
                        InitialRecords(StoredVersion) \cup RowRecords \cup OverlayRecords)'
      BY ExpectedSplit, PTL
    <2>3. (InitialRecords(StoredVersion))' = InitialRecords(StoredVersion')
      BY DEF InitialRecords
    <2>4. records = InitialRecords(StoredVersion) \cup RowRecords \cup OverlayRecords
      BY <1>0, ExpectedSplit DEF RowsRecorded
    <2> QED
      BY <2>1, <2>2, <2>3, <2>4, <1>2, <1>3, <1>7, <1>9
  <1>14. /\ sequence' = Cardinality(records')
         /\ sequence' = StoredVersion' + RowCount' + OverlayCount'
    <2>1. /\ sequence = Cardinality(records) /\ sequence = StoredVersion + RowCount + OverlayCount
          /\ StoredVersion \in Nat
      BY <1>0 DEF RowsRecorded, MigrationsRecorded, SchemaVersion
    <2>2. RowCount \in Nat /\ OverlayCount \in Nat /\ Cardinality(Blockers) \in Nat
      BY <1>0, CountsAreNatural, OverlayCountNatural, BlockerCounts
    <2> QED
      BY <2>1, <2>2, <1>2, <1>3, <1>4, <1>7, <1>9, <1>11
  <1>15. RowsRecorded'
    BY <1>0, <1>5, <1>13, <1>14 DEF RowsRecorded
  <1> QED
    BY <1>1, <1>2, <1>10, <1>12, <1>15 DEF TablesInv

-----------------------------------------------------------------------------
(* The journal's own steps keep what commits left behind *)

\* A requirement takes the next id.
LEMMA RequirementIdsStep ==
    ASSUME TablesInv, RequirementIdsUnique, [Next]_vars
    PROVE  RequirementIdsUnique'
  <1>1. ASSUME requirements' = requirements PROVE RequirementIdsUnique'
    BY <1>1 DEF RequirementIdsUnique
  <1>2. ASSUME NEW e, NEW r, NEW d, NEW reason, NEW status, Settle(e, r, d, reason, status)
        PROVE  RequirementIdsUnique'
    <2> DEFINE n == Cardinality(requirements) + 1
               x == [id |-> n, order |-> KnownOrder(e.order), raw |-> r, reason |-> reason]
    <2>1. requirements' = requirements \/ requirements' = requirements \cup {x}
      BY <1>2 DEF Settle
    <2>2. \A y \in requirements : y.id \in 1 .. Cardinality(requirements)
      BY DEF TablesInv, RowsRecorded
    <2>3. Cardinality(requirements) \in Nat
      BY CountsAreNatural DEF TablesInv
    <2>4. \A y \in requirements : y.id # n
      BY <2>2, <2>3
    <2>5. x.id = n
      OBVIOUS
    <2> HIDE DEF n, x
    <2> QED
      BY <2>1, <2>4, <2>5 DEF RequirementIdsUnique
  <1>3. ASSUME NEW r \in RawIds, NEW origin \in RawIds, NEW x \in Correlations,
               ApplyNormalizedEvent(r, origin, x[1], x[2])
        PROVE  RequirementIdsUnique'
    <2> DEFINE e == Normalized(origin, x[1], x[2])
    <2>1. Outcome(e, r)
      BY <1>3, ApplySettles, Zenon
    <2> HIDE DEF e
    <2>2. \E d, reason, status : Settle(e, r, d, reason, status)
      BY <2>1, Zenon DEF Outcome
    <2> QED
      BY <2>2, <1>2
  <1>4. ASSUME NEW o \in OrderIds, NEW c \in CommandSource[o],
               RegisterNewOrder(o, c) \/ RegisterCommand(o, c)
        PROVE  RequirementIdsUnique'
    BY <1>1, <1>4 DEF RegisterNewOrder, RegisterCommand, evidenceTables
  <1>5. ASSUME NEW d \in Dispatchers,
               \/ \E row \in commands : ClaimDispatch(d, row)
               \/ Send(d)
               \/ \E s \in DispatchStates : RecordDispatchReceipt(d, s)
        PROVE  RequirementIdsUnique'
    BY <1>1, <1>5 DEF ClaimDispatch, Send, RecordDispatchReceipt, tables, evidenceTables
  <1>6. ASSUME NEW r \in RawIds, NEW e \in Evidence, AppendRawObservation(r, e)
        PROVE  RequirementIdsUnique'
    BY <1>1, <1>6 DEF AppendRawObservation
  <1>7. CASE Close \/ Crash \/ Resume \/ UNCHANGED vars
    BY <1>1, <1>7 DEF Close, Crash, Resume, vars, tables, evidenceTables
  <1> QED
    BY <1>3, <1>4, <1>5, <1>6, <1>7 DEF Next

\* A dispatcher that still waits for the outcome of a resolved claim records nothing.
LEMMA NoLateReceipt ==
    ASSUME [Next]_vars, NEW id, Resolved("claim", id), ReceiptOf(id) = {}
    PROVE  ReceiptOf(id)' = {}
  <1>1. ASSUME receipts' = receipts PROVE ReceiptOf(id)' = {}
    BY <1>1 DEF ReceiptOf
  <1>2. ASSUME NEW d \in Dispatchers, NEW s \in DispatchStates, RecordDispatchReceipt(d, s)
        PROVE  ReceiptOf(id)' = {}
    <2> DEFINE c == dispatcher[d].command
               x == [command |-> c, state |-> s, at |-> Now]
    <2>1. receipts' = receipts \/ (receipts' = receipts \cup {x} /\ ~Resolved("claim", c.id))
      BY <1>2 DEF RecordDispatchReceipt, ReceiptRecordable
    <2>2. x.command.id = c.id
      OBVIOUS
    <2> HIDE DEF x, c
    <2> QED
      BY <2>1, <2>2 DEF ReceiptOf
  <1>3. ASSUME NEW o \in OrderIds, NEW c \in CommandSource[o],
               RegisterNewOrder(o, c) \/ RegisterCommand(o, c)
        PROVE  ReceiptOf(id)' = {}
    BY <1>1, <1>3 DEF RegisterNewOrder, RegisterCommand
  <1>4. ASSUME NEW d \in Dispatchers, (\E row \in commands : ClaimDispatch(d, row)) \/ Send(d)
        PROVE  ReceiptOf(id)' = {}
    BY <1>1, <1>4 DEF ClaimDispatch, Send, tables, commandTables
  <1>5. ASSUME NEW r \in RawIds, NEW e \in Evidence, AppendRawObservation(r, e)
        PROVE  ReceiptOf(id)' = {}
    BY <1>1, <1>5 DEF AppendRawObservation, commandTables
  <1>6. ASSUME NEW r \in RawIds, NEW origin \in RawIds, NEW x \in Correlations,
               ApplyNormalizedEvent(r, origin, x[1], x[2])
        PROVE  ReceiptOf(id)' = {}
    BY <1>1, <1>6 DEF ApplyNormalizedEvent, commandTables
  <1>7. CASE Close \/ Crash \/ Resume \/ UNCHANGED vars
    BY <1>1, <1>7 DEF Close, Crash, Resume, vars, tables, commandTables
  <1> QED
    BY <1>2, <1>3, <1>4, <1>5, <1>6, <1>7 DEF Next

\* The sequence never goes back.
LEMMA SequenceGrows ==
    ASSUME TablesInv, TablesInv', records \subseteq records'
    PROVE  sequence \in Nat /\ sequence' \in Nat /\ sequence <= sequence'
  <1>1. /\ IsFiniteSet(records) /\ sequence = Cardinality(records)
        /\ IsFiniteSet(records') /\ sequence' = Cardinality(records')
    BY DEF TablesInv, TablesFinite, RowsRecorded
  <1> QED
    BY <1>1, FS_Subset, FS_CardinalityType

\* A projection stays on record while the tables grow.
LEMMA ProjectionStays ==
    ASSUME CommandTablesAgree', claims \subseteq claims', resolutions \subseteq resolutions',
           \A o \in OrderIds : history[o] \subseteq history'[o],
           ClaimResolutionsVerify, ProjectionsRecorded,
           NEW m \in commits, NEW o \in DOMAIN m.projections
    PROVE  ProjectionRecorded(m, o)'
  <1> DEFINE id == m.local.orders[o].pending.id
             prior == m.local.orders[o]
  <1>1. ProjectionRecorded(m, o)
    BY DEF ProjectionsRecorded
  <1>2. PICK x \in resolutions : x.kind = "claim" /\ x.id = id /\ x.commit = m.id
    BY <1>1 DEF ProjectionRecorded, Resolutions
  <1>3. ClaimOf(id) # {}
    BY <1>2 DEF ClaimResolutionsVerify, Resolutions
  <1>4. ClaimOf(id)' = ClaimOf(id)
    BY <1>3 DEF ClaimOf, CommandTablesAgree
  <1>5. \E y \in Resolutions("claim")' : y.id = id /\ y.commit = m.id
    BY <1>2 DEF Resolutions
  <1>6. m.planned => \A claim \in ClaimOf(id) : claim.version = prior.version
    BY <1>1 DEF ProjectionRecorded
  <1> HIDE DEF id
  <1>7. m.planned => \A claim \in ClaimOf(id)' : claim.version = prior.version
    BY <1>4, <1>6
  <1> QED
    BY <1>1, <1>5, <1>7 DEF ProjectionRecorded, id

LEMMA JournalKeepsCommits ==
    ASSUME TablesInv, CommitsInv, [Next]_vars
    PROVE  CommitsInv'
  <1>1. commits' = commits /\ resolutions' = resolutions
    BY OverlayStep
  <1>2. TablesInv' /\ AppendOnly /\ CommandTablesAgree'
    BY TablesStep, StepsAppend DEF TablesInv, DispatchInv
  <1>3. RequirementIdsUnique'
    BY RequirementIdsStep DEF CommitsInv
  <1>4. CommitRowsAgree' /\ ResolutionsHaveCommits' /\ SequencesRecorded'
    BY <1>1 DEF CommitsInv, CommitRowsAgree, ResolutionsHaveCommits, SequencesRecorded
  <1>5. CommitMappingVerifies'
    BY <1>1 DEF CommitsInv, CommitMappingVerifies
  <1>6. AuthorizationsVerify'
    <2>1. records \subseteq records' /\ sequence \in Nat /\ sequence' \in Nat /\ sequence <= sequence'
      BY <1>2, SequenceGrows DEF AppendOnly
    <2>2. \A m \in commits :
             /\ {<<"reconciliation-commit", m.id>>, <<"operator-authorization", m.authorization>>}
                   \subseteq records
             /\ m.local.sequence < m.resulting /\ m.resulting <= sequence
             /\ m.resulting \in Nat
      BY DEF CommitsInv, AuthorizationsVerify, SequencesRecorded
    <2>3. \A m \in commits :
             {<<"reconciliation-commit", m.id>>, <<"operator-authorization", m.authorization>>}
                \subseteq records'
      BY <2>1, <2>2
    <2>4. \A m \in commits : m.local.sequence < m.resulting /\ m.resulting <= sequence'
      <3> SUFFICES ASSUME NEW m \in commits
                   PROVE  m.local.sequence < m.resulting /\ m.resulting <= sequence'
        OBVIOUS
      <3>1. m.local.sequence < m.resulting /\ m.resulting <= sequence /\ m.resulting \in Nat
        BY <2>2
      <3>2. sequence \in Nat /\ sequence' \in Nat /\ sequence <= sequence'
        BY <2>1
      <3> QED
        BY <3>1, <3>2
    <2> QED
      BY <2>3, <2>4, <1>1 DEF AuthorizationsVerify
  <1>7. ClaimResolutionsVerify'
    <2> SUFFICES ASSUME NEW x \in resolutions, x.kind = "claim"
                 PROVE  ClaimOf(x.id)' # {} /\ ReceiptOf(x.id)' = {}
      BY <1>1 DEF ClaimResolutionsVerify, Resolutions
    <2>1. ClaimOf(x.id) # {} /\ ReceiptOf(x.id) = {} /\ Resolved("claim", x.id)
      BY DEF CommitsInv, ClaimResolutionsVerify, Resolutions, Resolved
    <2> QED
      BY <2>1, <1>2, NoLateReceipt, RowsGrow DEF AppendOnly
  <1>8. ProjectionsRecorded'
    <2>1. \A m \in commits : \A o \in DOMAIN m.projections : ProjectionRecorded(m, o)'
      BY <1>1, <1>2, ProjectionStays DEF AppendOnly, CommitsInv
    <2> QED
      BY <2>1, <1>1 DEF ProjectionsRecorded
  <1> QED
    BY <1>3, <1>4, <1>5, <1>6, <1>7, <1>8 DEF CommitsInv

-----------------------------------------------------------------------------
(* What a commit leaves behind *)

\* A projection of the commit itself: its order is at the next version, its claim is
\* resolved and, if the commit was planned, of the version that was assessed.
LEMMA NewProjection ==
    ASSUME ReconciliationInv, NEW q, NEW a, Committed(q, a), PlanHolds(q), CommandTablesAgree',
           NEW o \in DOMAIN Projected(q), NEW m, m = CommitRow(q, a)
    PROVE  ProjectionRecorded(m, o)'
  <1> DEFINE P == Projected(q)
  <1>p. PICK id : id = orders[o].pending.id
    OBVIOUS
  <1>0. TablesInv /\ TypeOK /\ StoredOrdersMeetContract /\ HistoryContiguous
    BY DEF ReconciliationInv, TablesInv, DispatchInv
  <1>1. /\ m.id = q.id /\ m.local = q.local /\ m.projections = P /\ m.planned = q.planned
    BY DEF CommitRow
  <1>2. o \in Pending /\ ProjectableOrder(orders[o]) /\ q.local.orders[o] = orders[o]
    BY ProjectedOrders DEF Committed
  <1>3. o \in OrderIds /\ Registered(o)
    BY <1>2 DEF Pending
  <1>4. /\ P[o] = orders'[o] /\ orders'[o].version = orders[o].version + 1
        /\ orders'[o].intent = orders[o].intent /\ history'[o] = history[o] \cup {orders'[o]}
    BY <1>0, <1>3, CommittedOrder
  <1>5. orders[o] \in history[o]
    BY <1>0, <1>3 DEF HistoryContiguous
  <1>6. orders[o].pending.kind = "new"
    BY <1>2 DEF ProjectableOrder
  <1>7. \E x \in Resolutions("claim")' : x.id = id /\ x.commit = q.id
    <2>1. PICK claim \in OutstandingClaims : claim.id = id
      BY <1>p DEF Committed, Supported
    <2> DEFINE b == [kind |-> "claim", id |-> claim.id, was |-> "outstanding"]
               x == [kind |-> b.kind, id |-> b.id, was |-> b.was, commit |-> q.id]
    <2>2. b \in Blockers
      BY DEF Blockers
    <2>3. x \in BlockerResolutions(q.id)
      BY <2>2 DEF BlockerResolutions
    <2>4. x \in resolutions'
      BY <2>3, CommitWrites
    <2>5. x.kind = "claim" /\ x.id = id /\ x.commit = q.id
      BY <2>1
    <2> HIDE DEF x
    <2> QED
      BY <2>4, <2>5 DEF Resolutions
  <1>8. q.planned => \A claim \in ClaimOf(id)' : claim.version = orders[o].version
    <2> SUFFICES ASSUME q.planned, NEW claim \in ClaimOf(id)' PROVE claim.version = orders[o].version
      OBVIOUS
    <2>1. o \in PendingOrders(q.local)
      <3>1. q.local.orders = [x \in {y \in OrderIds : Registered(y)} |-> orders[x]]
        BY DEF Committed, SnapshotCurrent, LocalSnapshot
      <3> QED
        BY <3>1, <1>2 DEF PendingOrders, Pending
    <2>2. PICK c \in claims : c.id = id /\ c.version = orders[o].version
      BY <2>1, <1>2, <1>p DEF PlanHolds
    <2>3. c \in claims' /\ claim \in claims' /\ claim.id = id
      BY DEF Committed, commandTables, ClaimOf
    <2> QED
      BY <2>2, <2>3 DEF CommandTablesAgree
  <1> HIDE DEF P
  <1>9. m.local.orders[o] = orders[o] /\ m.projections[o] = orders'[o] /\ m.id = q.id
    BY <1>1, <1>2, <1>4
  <1> QED
    BY <1>p, <1>1, <1>3, <1>4, <1>5, <1>6, <1>7, <1>8, <1>9 DEF ProjectionRecorded

\* A commit resolves exactly the blockers that it was asked to.
LEMMA NewMapping ==
    ASSUME TablesInv, CommitsInv, NEW q, NEW a, Committed(q, a)
    PROVE  CommitMappingVerifies'
  <1> DEFINE X == BlockerResolutions(q.id)
             Of(rs, m) == {[kind |-> x.kind, id |-> x.id, was |-> x.was] :
                              x \in {y \in rs : y.commit = m.id}}
  <1>p. PICK n : n = CommitRow(q, a)
    OBVIOUS
  <1>1. /\ n.id = q.id /\ n.targets = Blockers /\ n.projections = Projected(q)
        /\ n.local.sequence = sequence /\ n.resulting = sequence + Cardinality(Blockers) + 2
    BY <1>p, CommitWrites DEF CommitRow
  <1>2. commits' = commits \cup {n} /\ resolutions' = resolutions \cup X
    BY <1>p, CommitWrites
  <1>3. /\ \A m \in commits : m.id # q.id
        /\ \A x \in resolutions : x.commit # q.id
    BY DEF Committed, Unused, CommitsInv, ResolutionsHaveCommits
  <1>4. \A x \in X : x.commit = q.id
    BY DEF BlockerResolutions
  <1>5. \A m \in commits : Of(resolutions', m) = Of(resolutions, m)
    <2> HIDE DEF X
    <2>1. \A m \in commits :
             {y \in resolutions' : y.commit = m.id} = {y \in resolutions : y.commit = m.id}
      BY <1>2, <1>3, <1>4
    <2> QED
      BY <2>1
  <1>6. Of(resolutions', n) = Blockers
    <2>1. {y \in resolutions' : y.commit = n.id} = X
      <3> HIDE DEF X
      <3> QED
        BY <1>1, <1>2, <1>3, <1>4
    <2> DEFINE g(b) == [kind |-> b.kind, id |-> b.id, was |-> b.was, commit |-> q.id]
               h(x) == [kind |-> x.kind, id |-> x.id, was |-> x.was]
    <2>2. X = {g(b) : b \in Blockers}
      BY DEF BlockerResolutions
    <2>3. \A b \in Blockers : h(g(b)) = b
      <3>1. \A b \in Blockers : b = [kind |-> b.kind, id |-> b.id, was |-> b.was]
        BY BlockerFacts DEF CommitsInv
      <3> QED
        BY <3>1
    <2>4. Of(resolutions', n) = {h(x) : x \in X}
      BY <2>1
    <2> HIDE DEF g, h, X, Of
    <2> QED
      BY <2>2, <2>3, <2>4
  <1>7. Blockers # {} \/ DOMAIN Projected(q) # {}
    <2>1. Projectable(q.local, q.broker) \/ q.local.blockers # {}
      BY DEF Committed, Supported, Conclusive
    <2>2. CASE Projectable(q.local, q.broker)
      <3>1. PICK d \in Discrepancies(q.local, q.broker) :
               d.order \in DOMAIN q.local.orders /\ ProjectableOrder(q.local.orders[d.order])
        BY <2>2 DEF Projectable
      <3>2. d.order \in PendingOrders(q.local)
        BY <3>1 DEF ProjectableOrder, PendingOrders, NoCommand
      <3>3. DOMAIN Projected(q) = PendingOrders(q.local)
        BY <2>2 DEF Projected, Projections
      <3> QED
        BY <3>2, <3>3
    <2> QED
      BY <2>1, <2>2, CommitWrites
  <1> HIDE DEF Of, X
  <1>8. ASSUME NEW m \in commits
        PROVE  /\ m.targets = Of(resolutions, m)
               /\ m.targets # {} \/ DOMAIN m.projections # {}
               /\ m.resulting = m.local.sequence + Cardinality(m.targets) + 2
    BY DEF CommitsInv, CommitMappingVerifies, Of
  <1>9. ASSUME NEW m \in commits'
        PROVE  /\ m.targets = Of(resolutions', m)
               /\ m.targets # {} \/ DOMAIN m.projections # {}
               /\ m.resulting = m.local.sequence + Cardinality(m.targets) + 2
    BY <1>1, <1>2, <1>5, <1>6, <1>7, <1>8
  <1> QED
    BY <1>9 DEF CommitMappingVerifies, Of

LEMMA CommitKeepsCommits ==
    ASSUME ReconciliationInv, NEW q, NEW a, Committed(q, a), PlanHolds(q)
    PROVE  CommitsInv'
  <1> DEFINE X == BlockerResolutions(q.id)
  <1>p. PICK n : n = CommitRow(q, a)
    OBVIOUS
  <1>0. TablesInv /\ CommitsInv /\ RequirementIdsUnique
    BY DEF ReconciliationInv, CommitsInv
  <1>1. /\ n.id = q.id /\ n.authorization = a.id /\ n.snapshot = q.broker.id
        /\ n.local.sequence = sequence /\ n.resulting = sequence + Cardinality(Blockers) + 2
        /\ n.planned = q.planned /\ n.projections = Projected(q)
    BY <1>p, CommitWrites DEF CommitRow
  <1>2. /\ commits' = commits \cup {n} /\ resolutions' = resolutions \cup X
        /\ AppendRecords(CommitRecords(q, a)) /\ q.local.blockers = Blockers
    BY <1>p, CommitWrites
  <1>3. UNCHANGED <<commands, claims, receipts, requirements>>
    BY DEF Committed, commandTables, evidenceTables
  <1>4. \A m \in commits : m.id # q.id /\ m.authorization # a.id /\ m.snapshot # q.broker.id
    BY DEF Committed, Unused
  <1>5. \A x \in X : /\ x.commit = q.id
                     /\ \E b \in Blockers : x.kind = b.kind /\ x.id = b.id
    BY DEF BlockerResolutions
  <1> HIDE DEF X
  <1>6. TablesInv' /\ CommandTablesAgree'
    <2>1. TablesInv'
      BY <1>0, CommitTables
    <2> QED
      BY <2>1 DEF TablesInv, DispatchInv
  <1>7. RequirementIdsUnique'
    BY <1>0, <1>3 DEF RequirementIdsUnique
  <1>8. CommitRowsAgree'
    BY <1>0, <1>1, <1>2, <1>4 DEF CommitsInv, CommitRowsAgree
  <1>9. ResolutionsHaveCommits'
    <2>1. ASSUME NEW x \in resolutions
          PROVE  \E m \in commits' : m.id = x.commit /\ (m.planned => x.kind = "claim")
      BY <1>0, <1>2 DEF CommitsInv, ResolutionsHaveCommits
    <2>2. ASSUME NEW x \in X
          PROVE  \E m \in commits' : m.id = x.commit /\ (m.planned => x.kind = "claim")
      <3>1. q.planned => x.kind = "claim"
        BY <2>2, <1>2, <1>5 DEF PlanHolds
      <3>2. n.id = x.commit /\ (n.planned => x.kind = "claim") /\ n \in commits'
        BY <2>2, <3>1, <1>1, <1>2, <1>5
      <3> QED
        BY <3>2
    <2> QED
      BY <2>1, <2>2, <1>2 DEF ResolutionsHaveCommits
  <1>10. sequence \in Nat /\ Cardinality(Blockers) \in Nat
         /\ sequence' = sequence + Cardinality(Blockers) + 2
    <2>1. sequence \in Nat
      BY <1>0, FS_CardinalityType DEF TablesInv, TablesFinite, RowsRecorded
    <2>2. Cardinality(Blockers) \in Nat
      BY <1>0, BlockerCounts
    <2>3. sequence' = sequence + Cardinality(CommitRecords(q, a))
      BY <1>2 DEF AppendRecords
    <2>4. Cardinality(CommitRecords(q, a)) = Cardinality(Blockers) + 2
      BY <1>0, CommitRecordsNew
    <2> QED
      BY <2>1, <2>2, <2>3, <2>4
  <1>11. SequencesRecorded'
    <2>1. n.resulting \in Nat /\ n.local.sequence \in Nat
      BY <1>1, <1>10
    <2> QED
      BY <2>1, <1>0, <1>2 DEF CommitsInv, SequencesRecorded
  <1>12. AuthorizationsVerify'
    <2>1. ASSUME NEW m \in commits'
          PROVE  {<<"reconciliation-commit", m.id>>, <<"operator-authorization", m.authorization>>}
                    \subseteq records'
      <3>1. records' = records \cup CommitRecords(q, a)
        BY <1>2 DEF AppendRecords
      <3>2. CASE m \in commits
        BY <3>1, <3>2, <1>0 DEF CommitsInv, AuthorizationsVerify
      <3>3. CASE m = n
        BY <3>1, <3>3, <1>1 DEF CommitRecords
      <3> QED
        BY <3>2, <3>3, <1>2
    <2>2. ASSUME NEW m \in commits'
          PROVE  m.local.sequence < m.resulting /\ m.resulting <= sequence'
      <3>1. CASE m \in commits
        <4>1. m.local.sequence < m.resulting /\ m.resulting <= sequence /\ m.resulting \in Nat
          BY <3>1, <1>0 DEF CommitsInv, AuthorizationsVerify, SequencesRecorded
        <4> QED
          BY <4>1, <1>10
      <3>2. CASE m = n
        BY <3>2, <1>1, <1>10
      <3> QED
        BY <3>1, <3>2, <1>2
    <2> QED
      BY <2>1, <2>2 DEF AuthorizationsVerify
  <1>13. CommitMappingVerifies'
    BY <1>0, NewMapping
  <1>14. ClaimResolutionsVerify'
    <2> SUFFICES ASSUME NEW x \in resolutions', x.kind = "claim"
                 PROVE  ClaimOf(x.id)' # {} /\ ReceiptOf(x.id)' = {}
      BY DEF ClaimResolutionsVerify, Resolutions
    <2>1. ClaimOf(x.id)' = ClaimOf(x.id) /\ ReceiptOf(x.id)' = ReceiptOf(x.id)
      BY <1>3 DEF ClaimOf, ReceiptOf
    <2>2. CASE x \in resolutions
      BY <2>1, <2>2, <1>0 DEF CommitsInv, ClaimResolutionsVerify, Resolutions
    <2>3. CASE x \in X
      <3>1. PICK c \in OutstandingClaims : c.id = x.id
        BY <2>3, <1>0, <1>5, BlockerFacts
      <3> QED
        BY <3>1, <2>1 DEF OutstandingClaims, ClaimOf
    <2> QED
      BY <2>2, <2>3, <1>2
  <1>15. ProjectionsRecorded'
    <2>1. \A o \in OrderIds : history[o] \subseteq history'[o]
      BY <1>0, CommittedOrder DEF TablesInv, DispatchInv
    <2>2. ASSUME NEW m \in commits, NEW o \in DOMAIN m.projections PROVE ProjectionRecorded(m, o)'
      BY <2>1, <1>0, <1>2, <1>3, <1>6, ProjectionStays DEF CommitsInv
    <2>3. ASSUME NEW o \in DOMAIN n.projections PROVE ProjectionRecorded(n, o)'
      BY <2>3, <1>p, <1>1, <1>6, NewProjection
    <2> QED
      BY <2>2, <2>3, <1>2 DEF ProjectionsRecorded
  <1> QED
    BY <1>7, <1>8, <1>9, <1>11, <1>12, <1>13, <1>14, <1>15 DEF CommitsInv

-----------------------------------------------------------------------------
(* Requests *)

\* What operator recovery plans for: each order that waits has its claim, at its version.
LEMMA PlanIsSound ==
    ASSUME NEW m, NEW broker, NEW q, q = CommitRequest(m, broker)
    PROVE  PlanHolds(q)
  <1> SUFFICES ASSUME q.planned
               PROVE  /\ \A b \in q.local.blockers : b.kind = "claim"
                      /\ \A o \in PendingOrders(q.local) :
                            \E claim \in claims : /\ claim.id = q.local.orders[o].pending.id
                                                  /\ claim.version = q.local.orders[o].version
    BY DEF PlanHolds
  <1>1. PlanReady(broker) /\ q.local = LocalSnapshot
    BY DEF CommitRequest
  <1>2. /\ q.local.blockers = Blockers
        /\ q.local.orders = [x \in {y \in OrderIds : Registered(y)} |-> orders[x]]
    BY <1>1 DEF LocalSnapshot
  <1>3. \A b \in Blockers : b.kind = "claim"
    BY <1>1 DEF PlanReady, Blockers
  <1>4. Issues \cap BlockingCodes = {}
    BY <1>1 DEF PlanReady, Readiness
  <1>5. ASSUME NEW o \in PendingOrders(q.local)
        PROVE  \E claim \in claims : /\ claim.id = q.local.orders[o].pending.id
                                     /\ claim.version = q.local.orders[o].version
    <2>1. PICK claim \in OutstandingClaims : CommandOf(claim).order = o
      BY <1>1, <1>5 DEF PlanReady
    <2>2. CommandOrder(claim.id) = o
      BY <2>1 DEF CommandOrder, CommandOf
    <2>3. ClaimIssues(claim) \subseteq Issues
      <3> DEFINE U == UNION {ClaimIssues(c) : c \in OutstandingClaims}
                 V == UNION {RequirementIssues(r) : r \in OpenRequirements}
      <3>1. ClaimIssues(claim) \subseteq U
        OBVIOUS
      <3>2. Issues = PendingIssues \cup U \cup V \cup OpenWork
        BY DEF Issues
      <3> HIDE DEF U, V
      <3> QED
        BY <3>1, <3>2
    <2>4. orders[o].pending.id = claim.id /\ orders[o].version = claim.version
      <3>1. "claim_command_mismatch" \in BlockingCodes /\ "claim_version_mismatch" \in BlockingCodes
        BY DEF BlockingCodes
      <3>2. orders[o].pending.id # claim.id => "claim_command_mismatch" \in ClaimIssues(claim)
        BY <2>2 DEF ClaimIssues
      <3>3. orders[o].version # claim.version => "claim_version_mismatch" \in ClaimIssues(claim)
        BY <2>2 DEF ClaimIssues
      <3> QED
        BY <3>1, <3>2, <3>3, <2>3, <1>4
    <2>5. q.local.orders[o] = orders[o]
      BY <1>2, <1>5 DEF PendingOrders
    <2>6. claim \in claims
      BY DEF OutstandingClaims
    <2> QED
      BY <2>4, <2>5, <2>6
  <1> QED
    BY <1>2, <1>3, <1>5

LEMMA PlanStays ==
    ASSUME NEW q, PlanHolds(q), claims \subseteq claims'
    PROVE  PlanHolds(q)'
  BY DEF PlanHolds

LEMMA RequestsStay ==
    ASSUME RequestsHold, claims \subseteq claims', request' = request
    PROVE  RequestsHold'
  <1>1. ASSUME NEW p \in Operators, request[p] # NoRequest PROVE PlanHolds(request[p].request)'
    <2>1. PICK q : q = request[p].request
      OBVIOUS
    <2>2. PlanHolds(q)'
      BY <2>1, <1>1, PlanStays DEF RequestsHold
    <2> QED
      BY <2>1, <2>2
  <1> QED
    BY <1>1 DEF RequestsHold

LEMMA PrepareHolds ==
    ASSUME RequestsHold, NEW p \in Operators, NEW broker, NEW m, NEW a, Prepare(p, broker, m, a)
    PROVE  RequestsHold'
  <1>1. PICK q : q = CommitRequest(m, broker)
    OBVIOUS
  <1>2. PlanHolds(q)
    BY <1>1, PlanIsSound
  <1>3. PICK r : r = Authorize(q, a)
    OBVIOUS
  <1>4. r.request = q
    BY <1>3 DEF Authorize
  <1>5. request' = [request EXCEPT ![p] = r] /\ claims' = claims
    BY <1>1, <1>3 DEF Prepare, vars, tables, commandTables
  <1>6. PlanHolds(q)'
    BY <1>2, <1>5, PlanStays
  <1>7. request' = [x \in Operators |-> request'[x]] /\ request'[p] = r
        /\ \A x \in Operators \ {p} : request'[x] = request[x]
    BY <1>5 DEF RequestsHold
  <1>8. ASSUME NEW x \in Operators, request'[x] # NoRequest PROVE PlanHolds(request[x].request)'
    <2>1. CASE x = p
      BY <2>1, <1>4, <1>6, <1>7
    <2>2. CASE x # p
      <3>1. PICK y : y = request[x].request
        OBVIOUS
      <3>2. PlanHolds(y)'
        BY <3>1, <2>2, <1>5, <1>7, <1>8, PlanStays DEF RequestsHold
      <3>3. request'[x].request = y
        BY <3>1, <2>2, <1>7
      <3> QED
        BY <3>2, <3>3
    <2> QED
      BY <2>1, <2>2
  <1> QED
    BY <1>7, <1>8 DEF RequestsHold, NoRequest

LEMMA DiscardHolds ==
    ASSUME RequestsHold, NEW p \in Operators, Discard(p)
    PROVE  RequestsHold'
  <1>1. request' = [request EXCEPT ![p] = NoRequest] /\ claims' = claims
    BY DEF Discard, vars, tables, commandTables
  <1>2. request' = [x \in Operators |-> request'[x]] /\ request'[p] = NoRequest
        /\ \A x \in Operators \ {p} : request'[x] = request[x]
    BY <1>1 DEF RequestsHold
  <1>3. ASSUME NEW x \in Operators, request'[x] # NoRequest PROVE PlanHolds(request[x].request)'
    <2>1. PICK y : y = request[x].request
      OBVIOUS
    <2>2. x # p /\ request'[x] = request[x]
      BY <1>2, <1>3
    <2>3. PlanHolds(y)'
      BY <2>1, <2>2, <1>1, <1>3, PlanStays DEF RequestsHold
    <2> QED
      BY <2>1, <2>2, <2>3
  <1> QED
    BY <1>2, <1>3 DEF RequestsHold, NoRequest

-----------------------------------------------------------------------------
(* The theorems *)

LEMMA ReconciliationStarts == ReconciliationInit => ReconciliationInv
  <1> SUFFICES ASSUME ReconciliationInit PROVE ReconciliationInv
    OBVIOUS
  <1>1. TablesInv
    BY JournalInit DEF ReconciliationInit, JournalInv
  <1>2. commits = {} /\ resolutions = {} /\ requirements = {}
    BY DEF ReconciliationInit, Init
  <1>3. CommitsInv
    BY <1>2 DEF CommitsInv, RequirementIdsUnique, CommitRowsAgree, ResolutionsHaveCommits,
               SequencesRecorded, AuthorizationsVerify, CommitMappingVerifies,
               ClaimResolutionsVerify, Resolutions, ProjectionsRecorded
  <1>4. RequestsHold
    BY DEF ReconciliationInit, RequestsHold
  <1>5. FillsInv
    BY FillsInit DEF ReconciliationInit
  <1> QED
    BY <1>1, <1>3, <1>4, <1>5 DEF ReconciliationInv

\* An operator that reads or forgets changes no table.
LEMMA TablesStay ==
    TablesInv /\ FillsInv /\ CommitsInv /\ UNCHANGED vars => TablesInv' /\ FillsInv' /\ CommitsInv'
  BY TablesStep, FillsStep, JournalKeepsCommits

\* A commit fills nothing: the orders that it projects have no execution.
LEMMA CommitKeepsFills ==
    ASSUME TablesInv, TablesInv', FillsInv, NEW q, NEW a, Committed(q, a)
    PROVE  FillsInv'
  <1>0. TypeOK /\ StoredOrdersMeetContract
    BY DEF TablesInv, DispatchInv
  <1>1. fills' = fills
    BY DEF Committed, evidenceTables
  <1>2. \A o \in OrderIds : Registered(o)' <=> Registered(o)
    BY CommitOrders
  <1>3. \A o \in OrderIds : orders'[o].filled = orders[o].filled
    BY <1>0, CommittedOrder
  <1>4. FillsNothing
    BY <1>1, <1>2, <1>3 DEF FillsNothing
  <1> QED
    BY <1>2, <1>4, FillsNothingKeeps

LEMMA ReconciliationStep ==
    ReconciliationInv /\ [ReconciliationNext]_reconciliationVars => ReconciliationInv'
  <1> SUFFICES ASSUME ReconciliationInv, [ReconciliationNext]_reconciliationVars
               PROVE  ReconciliationInv'
    OBVIOUS
  <1>0. TablesInv /\ FillsInv /\ CommitsInv /\ RequestsHold
    BY DEF ReconciliationInv
  <1>1. ASSUME [Next]_vars, request' = request PROVE ReconciliationInv'
    <2>1. TablesInv' /\ FillsInv' /\ CommitsInv' /\ AppendOnly
      BY <1>0, <1>1, TablesStep, FillsStep, JournalKeepsCommits, StepsAppend DEF TablesInv
    <2>2. RequestsHold'
      BY <2>1, <1>0, <1>1, RequestsStay DEF AppendOnly
    <2> QED
      BY <2>1, <2>2 DEF ReconciliationInv
  <1>2. ASSUME NEW p \in Operators, NEW b \in BrokerSnapshots, NEW m \in CommitIds,
               NEW a \in AuthorizationIds, Prepare(p, b, m, a)
        PROVE  ReconciliationInv'
    BY <1>0, <1>2, PrepareHolds, TablesStay DEF Prepare, ReconciliationInv
  <1>3. ASSUME NEW p \in Operators, Discard(p) PROVE ReconciliationInv'
    BY <1>0, <1>3, DiscardHolds, TablesStay DEF Discard, ReconciliationInv
  <1>4. ASSUME NEW p \in Operators, CommitAuthorizedReconciliation(p) PROVE ReconciliationInv'
    <2>1. PICK q, a : q = request[p].request /\ a = request[p].authorization
      OBVIOUS
    <2>2. Committed(q, a) /\ request[p] # NoRequest /\ request' = request
      BY <2>1, <1>4, CommitIsCommitted
    <2>3. PlanHolds(q)
      BY <2>1, <2>2, <1>0 DEF RequestsHold
    <2>4. TablesInv' /\ CommitsInv'
      BY <2>2, <2>3, <1>0, CommitTables, CommitKeepsCommits DEF CommitsInv
    <2>5. RequestsHold'
      BY <2>2, <1>0, RequestsStay DEF Committed, commandTables
    <2>6. FillsInv'
      BY <2>2, <2>4, <1>0, CommitKeepsFills
    <2> QED
      BY <2>4, <2>5, <2>6 DEF ReconciliationInv
  <1>5. CASE UNCHANGED reconciliationVars
    BY <1>1, <1>5 DEF reconciliationVars
  <1> QED
    BY <1>1, <1>2, <1>3, <1>4, <1>5 DEF ReconciliationNext

\* The inductive invariant: the tables agree with the commits in them, and every plan that
\* an operator holds is still true of the claims.
THEOREM ReconciliationInvariant == ReconciliationSpec => []ReconciliationInv
  BY ReconciliationStarts, ReconciliationStep, PTL DEF ReconciliationSpec

\* What the verification of a resume asks of a journal, if each commit was planned.
LEMMA PlannedVerify == ReconciliationInv => PlannedCommitsVerify
  <1> SUFFICES ASSUME ReconciliationInv, \A m \in commits : m.planned PROVE Verifies
    BY DEF PlannedCommitsVerify
  <1>0. TablesInv /\ CommitsInv
    BY DEF ReconciliationInv
  <1>1. OrdersVerify
    BY <1>0, HistoryVerifies DEF TablesInv
  <1>2. EvidenceVerifies /\ FillsVerify /\ RecordsVerify
    BY <1>0 DEF TablesInv, EvidenceInv, RowsRecorded, RecordsVerify
  <1>3. ProjectionsVerify
    BY <1>0 DEF CommitsInv, ProjectionsRecorded, ProjectionRecorded, ProjectionsVerify
  <1>4. \A x \in resolutions : x.kind = "claim"
    BY <1>0 DEF CommitsInv, ResolutionsHaveCommits
  <1>5. ObservationResolutionsVerify /\ RequirementResolutionsVerify
    BY <1>4 DEF ObservationResolutionsVerify, RequirementResolutionsVerify, Resolutions
  <1> QED
    BY <1>0, <1>1, <1>2, <1>3, <1>5 DEF CommitsInv, CommitsVerify, Verifies

\* As long as operator recovery planned every commit, the full verification of each later
\* resume accepts the file, whatever receipts, evidence, restarts and commits follow.
THEOREM PlannedCommitsAreAccepted == ReconciliationSpec => []PlannedCommitsVerify
  BY PlannedVerify, ReconciliationInvariant, PTL

\* An authorization and a broker snapshot are good for one commit.
THEOREM EvidenceIsUsedOnce == ReconciliationSpec => []EvidenceUsedOnce
  <1>1. ReconciliationInv => EvidenceUsedOnce
    BY DEF ReconciliationInv, CommitsInv, CommitRowsAgree, EvidenceUsedOnce
  <1> QED
    BY <1>1, ReconciliationInvariant, PTL

\* A step that adds a commit is a commit of one of the operators.
LEMMA OnlyOperatorsCommit ==
    ASSUME [ReconciliationNext]_reconciliationVars, commits' # commits
    PROVE  \E q, a : Committed(q, a)
  <1>1. ASSUME [Next]_vars PROVE FALSE
    BY <1>1, OverlayStep
  <1>2. ASSUME NEW p \in Operators, CommitAuthorizedReconciliation(p)
        PROVE  \E q, a : Committed(q, a)
    BY <1>2, CommitIsCommitted
  <1>3. CASE UNCHANGED vars
    BY <1>1, <1>3
  <1>4. CASE UNCHANGED reconciliationVars
    BY <1>1, <1>4 DEF reconciliationVars
  <1>5. ASSUME NEW p \in Operators, Discard(p) PROVE UNCHANGED vars
    BY <1>5 DEF Discard
  <1>6. ASSUME NEW p \in Operators, NEW b, NEW m, NEW a, Prepare(p, b, m, a) PROVE UNCHANGED vars
    BY <1>6 DEF Prepare
  <1> QED
    BY <1>1, <1>2, <1>3, <1>4, <1>5, <1>6 DEF ReconciliationNext

\* Nothing that comes between an assessment and its commit is lost to it: a claim has one
\* outcome, a version of an order is written once, and the executions stay accounted for.
THEOREM EvidenceIsKept == ReconciliationSpec => []CommitsKeepEvidence
  <1>1. ReconciliationInv => CommitsKeepEvidence
    <2> SUFFICES ASSUME ReconciliationInv PROVE CommitsKeepEvidence
      OBVIOUS
    <2>1. \A x \in Resolutions("claim") : ReceiptOf(x.id) = {}
      BY DEF ReconciliationInv, CommitsInv, ClaimResolutionsVerify
    <2>2. \A o \in OrderIds : \A x, y \in history[o] : x.version = y.version => x = y
      BY DEF ReconciliationInv, TablesInv, DispatchInv, HistoryContiguous
    <2>3. FillsMatchOrder
      BY DEF ReconciliationInv, FillsInv
    <2> QED
      BY <2>1, <2>2, <2>3 DEF CommitsKeepEvidence
  <1> QED
    BY <1>1, ReconciliationInvariant, PTL

\* After a commit nothing is open.
LEMMA NothingOpen ==
    ASSUME TablesInv, NEW q, NEW a, Committed(q, a)
    PROVE  /\ OutstandingClaims' = {} /\ Pending' = {}
           /\ Open("unresolved")' = {} /\ Open("conflict")' = {} /\ OpenRequirements' = {}
  <1>1. UNCHANGED <<claims, receipts, raws, requirements>>
    BY DEF Committed, commandTables, evidenceTables
  <1>2. resolutions' = resolutions \cup BlockerResolutions(q.id)
    BY CommitWrites
  <1>3. \A kind, id : Resolved(kind, id) => Resolved(kind, id)'
    BY <1>2 DEF Resolved
  <1>4. ASSUME NEW b \in Blockers PROVE Resolved(b.kind, b.id)'
    <2> DEFINE x == [kind |-> b.kind, id |-> b.id, was |-> b.was, commit |-> q.id]
    <2>1. x \in BlockerResolutions(q.id) /\ x.kind = b.kind /\ x.id = b.id
      BY DEF BlockerResolutions
    <2> HIDE DEF x
    <2>2. b.kind = x.kind /\ b.id = x.id /\ x \in resolutions'
      BY <2>1, <1>2
    <2> QED
      BY <2>2 DEF Resolved
  <1>5. ASSUME NEW kind, NEW id, NEW was, [kind |-> kind, id |-> id, was |-> was] \in Blockers
        PROVE  Resolved(kind, id)'
    <2> DEFINE b == [kind |-> kind, id |-> id, was |-> was]
    <2>1. b \in Blockers /\ b.kind = kind /\ b.id = id
      BY <1>5
    <2> HIDE DEF b
    <2>2. Resolved(b.kind, b.id)'
      BY <2>1, <1>4
    <2> QED
      BY <2>1, <2>2
  <1>6. OutstandingClaims' = {}
    <2>1. \A c \in OutstandingClaims : Resolved("claim", c.id)'
      BY <1>5 DEF Blockers
    <2>2. \A id : ReceiptOf(id)' = ReceiptOf(id)
      BY <1>1 DEF ReceiptOf
    <2> QED
      BY <2>1, <2>2, <1>1, <1>3 DEF OutstandingClaims
  <1>7. Open("unresolved")' = {} /\ Open("conflict")' = {}
    <2>1. \A r \in Open("unresolved") \cup Open("conflict") : Resolved("observation", r)'
      BY <1>5 DEF Blockers
    <2> QED
      BY <2>1, <1>1, <1>3 DEF Open
  <1>8. OpenRequirements' = {}
    <2>1. \A r \in OpenRequirements : Resolved("requirement", r.id)'
      BY <1>5 DEF Blockers
    <2> QED
      BY <2>1, <1>1, <1>3 DEF OpenRequirements
  <1>9. Pending' = {}
    <2>1. Pending \subseteq DOMAIN Projected(q)
      BY DEF Committed, Supported, NothingLeftPending
    <2>2. ASSUME NEW o \in OrderIds PROVE orders'[o].pending = NoCommand \/ ~Registered(o)'
      <3>1. CASE o \in DOMAIN Projected(q)
        BY <3>1, CommittedOrder DEF TablesInv, DispatchInv
      <3>2. CASE o \notin DOMAIN Projected(q)
        <4>1. orders'[o] = orders[o] /\ o \notin Pending
          BY <3>2, <2>1, CommittedOrder DEF TablesInv, DispatchInv
        <4> QED
          BY <4>1 DEF Pending, Registered
      <3> QED
        BY <3>1, <3>2
    <2> QED
      BY <2>2 DEF Pending
  <1> QED
    BY <1>6, <1>7, <1>8, <1>9

\* A commit settles the account: recovery classifies what it leaves as ready and, if
\* operator recovery planned it and the commits before it, accepts the file.
THEOREM CommitsMakeReady == ReconciliationSpec => CommitMakesReady
  <1>1. ASSUME ReconciliationInv, [ReconciliationNext]_reconciliationVars, commits' # commits
        PROVE  Readiness' = "ready"
    <2>1. PICK q, a : Committed(q, a)
      BY <1>1, OnlyOperatorsCommit
    <2>2. /\ OutstandingClaims' = {} /\ Pending' = {}
          /\ Open("unresolved")' = {} /\ Open("conflict")' = {} /\ OpenRequirements' = {}
      BY <2>1, <1>1, NothingOpen DEF ReconciliationInv
    <2>3. PendingIssues' = {}
      BY <2>2 DEF PendingIssues
    <2>4. OpenWork' = {}
      BY <2>2 DEF OpenWork
    <2>5. Issues' = {}
      BY <2>2, <2>3, <2>4 DEF Issues
    <2> QED
      BY <2>5 DEF Readiness
  <1>2. PlannedCommitsVerify' => ((\A m \in commits' : m.planned) => Verifies')
    BY DEF PlannedCommitsVerify
  <1> QED
    BY <1>1, <1>2, PlannedVerify, ReconciliationInvariant, PTL
       DEF ReconciliationSpec, CommitMakesReady

=============================================================================
