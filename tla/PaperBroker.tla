----------------------------- MODULE PaperBroker -----------------------------
(***************************************************************************)
(* The run-local paper broker (orders/paper_broker.py) as operators over   *)
(* its immutable state record: direct commands (submit, cancel), the       *)
(* atomic batch of one market-data envelope and one strategy decision, and *)
(* the checkpoint validator. Each operation returns the staged state and   *)
(* the outcome; the broker's lock makes one call one step. Where the code  *)
(* raises, nothing is committed: the operation's Accepts operator is FALSE.*)
(*                                                                         *)
(* uuid5 and sha256 are injective here: a command is its own digest, an    *)
(* envelope and a decision their own fingerprints, an order id is the pair *)
(* (strategy, client order id), a fill id the tuple that is hashed.        *)
(***************************************************************************)
EXTENDS PaperMatching, SequencesExt

CONSTANT Limits   \* PaperBrokerLimits

PaperBrokerLimitsContract ==
    /\ DOMAIN Limits = {"orders", "open", "fills", "events", "records", "versions", "positions"}
    /\ \A name \in DOMAIN Limits : Limits[name] \in Nat \ {0}
    /\ Limits.open <= Limits.orders

ASSUME LimitsPositive == PaperBrokerLimitsContract

Empty == << >>

InitialState(expectedSession) ==
    [effective |-> expectedSession, bound |-> None, source |-> None, last |-> None,
     version |-> 0, orders |-> Empty, positions |-> Empty, submits |-> Empty,
     cancels |-> Empty, ordinals |-> Empty, eligible |-> Empty, nextOrdinal |-> 1,
     fills |-> << >>, events |-> << >>, instruments |-> Empty, envelopes |-> Empty,
     decisions |-> Empty, dedupe |-> Empty]

Get(map, key) == IF key \in DOMAIN map THEN map[key] ELSE None

\* dict assignment: the mapping with one key bound anew.
Bind(map, key, value) ==
    [k \in DOMAIN map \cup {key} |-> IF k = key THEN value ELSE map[k]]

OpenOrders(s) == {id \in DOMAIN s.orders : s.orders[id].status \notin TerminalStatuses}

JournalFull(s) == Len(s.events) >= Limits.events

\* _make_event: the paper sequence is the position in the journal.
Event(type, payload, time, session, sequence) ==
    [type |-> type, payload |-> payload, time |-> time, session |-> session, sequence |-> sequence]

Journal(s, event) == [s EXCEPT !.events = Append(@, event)]

----------------------------------------------------------------------------
(* Inputs *)

\* Quantities, times and sequences are numbers, and what must be there is not None.
IntentTyped(intent) ==
    /\ intent.side \in {"buy", "sell"} /\ intent.quantity \in Nat \ {0} /\ intent.created \in Int
    /\ intent.sequence # None => intent.sequence \in Nat

CommandTyped(command) ==
    IF command.kind = "order" THEN IntentTyped(command) ELSE command.requested \in Int

PayloadTyped(env) ==
    /\ env.kind = "quote" =>
           /\ env.payload.bid \in Int \cup {None} /\ env.payload.ask \in Int \cup {None}
           /\ env.payload.bid_qty \in Int \cup {None} /\ env.payload.ask_qty \in Int \cup {None}
    /\ env.kind = "instrument" => env.payload.quantity_scale \in Int \cup {None}

DecisionTyped(env, commands) ==
    /\ env.session # None /\ env.source # None
    /\ env.sequence \in Nat /\ env.time \in Int /\ PayloadTyped(env)
    /\ Len(commands) \in Nat /\ DOMAIN commands = 1 .. Len(commands)
    /\ \A n \in 1 .. Len(commands) : CommandTyped(commands[n])

----------------------------------------------------------------------------
(* Outcome records: the first digest of a key and one alternate *)

OutcomeRecord(digest, outcome) == [primary |-> <<digest, outcome>>, alternate |-> None]

WithAlternate(record, digest, outcome) == [record EXCEPT !.alternate = <<digest, outcome>>]

Find(record, digest) ==
    IF record.primary[1] = digest THEN record.primary[2] ELSE record.alternate[2]

\* The record of a key answers a digest; find returns None otherwise.
Answers(records, key, digest) ==
    /\ key \in DOMAIN records
    /\ \/ records[key].primary[1] = digest
       \/ records[key].alternate # None /\ records[key].alternate[1] = digest

IsRejection(outcome) == "code" \in DOMAIN outcome

\* _resolve_cached_outcome: an order is answered with its present state.
Resolve(s, outcome) ==
    IF IsRejection(outcome) \/ outcome.id \notin DOMAIN s.orders THEN outcome
    ELSE s.orders[outcome.id]

\* PaperRejection
Rejection(strategy, client, code, time, order) ==
    [strategy |-> strategy, client |-> client, code |-> code, rejected |-> time, order |-> order]

OrderId(intent) == <<intent.strategy, intent.client>>

Rejected(intent, code) ==
    Rejection(intent.strategy, intent.client, code, intent.created, OrderId(intent))

\* A rejection is journalled unless the journal is full.
AppendRejection(s, rejection, session, sequence) ==
    IF JournalFull(s) THEN s
    ELSE Journal(s, Event("order_rejected", rejection, rejection.rejected, session, sequence))

----------------------------------------------------------------------------
(* Submit *)

NewOrder(intent) ==
    [id |-> OrderId(intent), intent |-> intent, status |-> "accepted", filled |-> 0,
     remaining |-> intent.quantity, notional |-> 0,
     accepted |-> intent.created, updated |-> intent.created]

NoRoomForOrder(s) ==
    \/ Cardinality(DOMAIN s.orders) >= Limits.orders
    \/ Cardinality(OpenOrders(s)) >= Limits.open
    \/ JournalFull(s)

\* The order, its outcome, its place in the queue and the sequence it becomes eligible after.
AcceptOrder(s, intent, eligibleAfter, session, sequence) ==
    LET order == NewOrder(intent)
    IN  Journal([s EXCEPT !.orders = Bind(@, order.id, order),
                          !.submits = Bind(@, order.id, OutcomeRecord(intent, order)),
                          !.ordinals = Bind(@, order.id, s.nextOrdinal),
                          !.eligible = Bind(@, order.id, eligibleAfter),
                          !.nextOrdinal = @ + 1],
                Event("order_accepted", order, intent.created, session, sequence))

CacheSubmit(s, intent, record) == [s EXCEPT !.submits = Bind(@, OrderId(intent), record)]

\* The snapshot version moves with every direct command that changes anything.
Versioned(s, step) == [s EXCEPT !.version = @ + step]

Result(s, outcome) == [state |-> s, outcome |-> outcome]

\* A second body for a known client order id: the first such conflict is
\* cached and journalled. step is what the version moves by: 1 for a direct
\* command, 0 inside a batch, which counts once.
SubmitConflict(s, intent, session, sequence, step) ==
    LET record == s.submits[OrderId(intent)]
        conflict == Rejected(intent, "idempotency_conflict")
    IN  IF record.alternate # None THEN Result(s, conflict)
        ELSE Result(Versioned(AppendRejection(
                        CacheSubmit(s, intent, WithAlternate(record, intent, conflict)),
                        conflict, session, sequence), step), conflict)

\* A rejection of a new client order id is cached as its primary outcome.
RejectSubmit(s, intent, code, session, sequence, step) ==
    LET rejection == Rejected(intent, code)
    IN  IF Cardinality(DOMAIN s.submits) >= Limits.orders THEN Result(s, rejection)
        ELSE Result(Versioned(AppendRejection(
                        CacheSubmit(s, intent, OutcomeRecord(intent, rejection)),
                        rejection, session, sequence), step), rejection)

Submit(s, intent) ==
    LET key == OrderId(intent)
        known == key \in DOMAIN s.submits
        cached == Answers(s.submits, key, intent)
        session == IF s.effective = None THEN intent.session ELSE s.effective
        base == [s EXCEPT !.effective = session]
        eligibleAfter == IF intent.sequence # None THEN intent.sequence
                         ELSE IF s.last = None THEN -1 ELSE s.last
    IN  CASE cached -> Result(s, Resolve(s, Find(s.submits[key], intent)))
          [] known /\ ~cached -> SubmitConflict(s, intent, None, None, 1)
          [] ~known /\ intent.session \notin {None, session} ->
                 RejectSubmit(s, intent, "invalid_intent", None, None, 1)
          [] OTHER ->
                 IF Cardinality(DOMAIN s.submits) >= Limits.orders
                 THEN Result(s, Rejected(intent, "capacity_exceeded"))
                 ELSE IF NoRoomForOrder(s)
                 THEN RejectSubmit(base, intent, "capacity_exceeded", None, None, 1)
                 ELSE Result(Versioned(AcceptOrder(base, intent, eligibleAfter,
                                                   intent.session, intent.sequence), 1),
                             NewOrder(intent))

\* _stage_batch_submit: the envelope is the cause, and the order waits for the next one.
StageSubmit(s, intent, env) ==
    LET key == OrderId(intent)
        known == key \in DOMAIN s.submits
        cached == Answers(s.submits, key, intent)
    IN  CASE cached -> Result(s, Resolve(s, Find(s.submits[key], intent)))
          [] known /\ ~cached ->
                 SubmitConflict(s, intent, env.session, env.sequence, 0)
          [] OTHER ->
                 IF Cardinality(DOMAIN s.submits) >= Limits.orders \/ NoRoomForOrder(s)
                 THEN RejectSubmit(s, intent, "capacity_exceeded", env.session, env.sequence, 0)
                 ELSE Result(AcceptOrder(s, intent, env.sequence, env.session, env.sequence),
                             NewOrder(intent))

----------------------------------------------------------------------------
(* Cancel *)

CancelKey(request) == <<request.order, request.strategy, request.client>>

\* Fault: a filled order can be cancelled.
CancelAnyOrder(s, request) ==
    LET order == Get(s.orders, request.order)
    IN  IF order = None \/ request.requested < order.updated \/ JournalFull(s)
        THEN Rejection(request.strategy, request.client, "unknown_order",
                       request.requested, request.order)
        ELSE [order EXCEPT !.status = "cancelled", !.updated = request.requested]

\* _evaluate_cancel: a rejection, or the order as it becomes.
EvaluateCancel(s, request) ==
    LET order == Get(s.orders, request.order)
        Reject(code) == Rejection(request.strategy, request.client, code,
                                  request.requested, request.order)
    IN  IF order = None \/ OrderId(order.intent) # OrderId(request) THEN Reject("unknown_order")
        ELSE IF request.requested < order.updated THEN Reject("invalid_intent")
        ELSE IF order.status = "cancelled" THEN order
        ELSE IF order.status \in TerminalStatuses THEN Reject("order_terminal")
        ELSE IF JournalFull(s) THEN Reject("capacity_exceeded")
        ELSE [order EXCEPT !.status = "cancelled", !.updated = request.requested]

\* The cache takes one alternate per key and no key beyond the limit; a
\* rejection that is not cached is not journalled either.
StageCancel(s, request, session, sequence) ==
    LET key == CancelKey(request)
        known == key \in DOMAIN s.cancels
        cached == Answers(s.cancels, key, request)
        outcome == EvaluateCancel(s, request)
        already == ~IsRejection(outcome) /\ s.orders[outcome.id] = outcome
        cacheable == IF known THEN s.cancels[key].alternate = None
                     ELSE Cardinality(DOMAIN s.cancels) < Limits.orders
        staged == IF ~cacheable THEN s
                  ELSE [s EXCEPT !.cancels = Bind(@, key,
                          IF known THEN WithAlternate(s.cancels[key], request, outcome)
                          ELSE OutcomeRecord(request, outcome))]
    IN  CASE cached -> Result(s, Resolve(s, Find(s.cancels[key], request)))
          [] ~cached /\ already -> Result(s, outcome)
          [] ~cached /\ ~already /\ ~IsRejection(outcome) ->
                 Result(Journal([staged EXCEPT !.orders[outcome.id] = outcome],
                                Event("order_cancelled", outcome, request.requested,
                                      session, sequence)), outcome)
          [] OTHER ->
                 Result(IF cacheable THEN AppendRejection(staged, outcome, session, sequence) ELSE s,
                        outcome)

\* A cancel from another session raises.
CancelAccepted(s, request) ==
    request.session # None =>
        /\ s.effective \in {None, request.session}
        /\ s.bound \in {None, request.session}

\* A rejection's event carries no source; a cancel's carries the request's.
Cancel(s, request) ==
    LET base == IF s.effective = None THEN [s EXCEPT !.effective = request.session] ELSE s
        rejected == IsRejection(EvaluateCancel(base, request))
        result == StageCancel(base, request,
                              IF rejected THEN None ELSE request.session,
                              IF rejected THEN None ELSE request.sequence)
    IN  IF result.state = base THEN Result(s, result.outcome)
        ELSE Result(Versioned(result.state, 1), result.outcome)

----------------------------------------------------------------------------
(* Matching *)

\* Fault: the newest order is served first.
NewestFirst(s) ==
    CHOOSE queue \in [1 .. Cardinality(DOMAIN s.ordinals) -> DOMAIN s.ordinals] :
        \A n, k \in DOMAIN queue : n < k => s.ordinals[queue[n]] > s.ordinals[queue[k]]

\* The orders, terminal ones included, by acceptance ordinal.
OrderedIds(s) ==
    CHOOSE queue \in [1 .. Cardinality(DOMAIN s.ordinals) -> DOMAIN s.ordinals] :
        \A n, k \in DOMAIN queue : n < k => s.ordinals[queue[n]] < s.ordinals[queue[k]]

\* Fault: an order may take the quote that caused it.
EligibleAtOnce(s, order, env) ==
    /\ env.sequence >= s.eligible[order.id]
    /\ order.intent.session \in {None, env.session}
    /\ env.time >= order.updated

Eligible(s, order, env) ==
    /\ env.sequence > s.eligible[order.id]
    /\ order.intent.session \in {None, env.session}
    /\ env.time >= order.updated

\* Liquidity and price: the limit is tested before and after slippage.
Executable(order, top, available) ==
    LET side == order.intent.side
        price == top.price[side]
    IN  /\ WithinLimit(price, order.intent)
        /\ available # None
        /\ available > 0
        /\ SlippageRepresentable(price, side)
        /\ WithinLimit(SlippedPrice(price, side), order.intent)
        /\ FeeAssessable(order.intent.instrument, top.currency)

\* The fill ordinal counts the fills of the whole envelope.
MakeFill(order, env, top, available, ordinal) ==
    LET i == order.intent
        quantity == IF order.remaining < available THEN order.remaining ELSE available
        fee == Fee(i.instrument, order.filled, order.filled + quantity)
    IN  [id |-> <<order.id, env.session, env.sequence, ordinal>>,
         order |-> order.id, strategy |-> i.strategy, account |-> i.account,
         instrument |-> i.instrument, side |-> i.side, quantity |-> quantity,
         price |-> SlippedPrice(top.price[i.side], i.side), reference |-> top.price[i.side],
         fee |-> fee, currency |-> FeeCurrency(i.instrument, fee),
         session |-> env.session, sequence |-> env.sequence, time |-> env.time]

FillOrder(order, fill) ==
    [order EXCEPT !.filled = @ + fill.quantity, !.remaining = @ - fill.quantity,
                  !.notional = @ + fill.quantity * fill.price, !.updated = fill.time,
                  !.status = IF order.remaining = fill.quantity THEN "filled"
                             ELSE "partially_filled"]

PositionKey(fill) == <<fill.strategy, fill.account, fill.instrument>>

Position(s, key) == IF key \in DOMAIN s.positions THEN s.positions[key] ELSE EmptyPosition

\* Fill, order and position are journalled in this order.
RecordFill(s, order, fill) ==
    LET updated == FillOrder(order, fill)
        position == ApplyFillToPosition(Position(s, PositionKey(fill)), fill)
        Caused(type, payload) == Event(type, payload, fill.time, fill.session, fill.sequence)
    IN  [s EXCEPT !.orders[order.id] = updated,
                  !.positions = Bind(@, PositionKey(fill), position),
                  !.fills = Append(@, fill),
                  !.events = @ \o << Caused("fill_recorded", fill),
                                     Caused(IF updated.status = "filled" THEN "order_filled"
                                            ELSE "order_partially_filled", updated),
                                     Caused("position_changed", position) >>]

\* One order of the queue against what the quote has left.
StageMatch(m, id, env, top) ==
    LET order == m.s.orders[id]
        side == order.intent.side
        available == m.capacity[side]
        fill == MakeFill(order, env, top, available, m.ordinal + 1)
    IN  IF /\ order.status \notin TerminalStatuses
           /\ order.intent.instrument = env.payload.instrument
           /\ Eligible(m.s, order, env)
           /\ Executable(order, top, available)
           /\ LedgerAccepts(m.s.positions, PositionKey(order.intent), env.time)
        THEN [s |-> RecordFill(m.s, order, fill),
              capacity |-> [m.capacity EXCEPT ![side] = @ - fill.quantity],
              ordinal |-> m.ordinal + 1]
        ELSE m

\* The queue, one order after the other.
StageMatches(s, env, top) ==
    LET queue == OrderedIds(s)
        matched[n \in 0 .. Len(queue)] ==
            IF n = 0 THEN [s |-> s, capacity |-> top.capacity, ordinal |-> 0]
            ELSE StageMatch(matched[n - 1], queue[n], env, top)
    IN  matched[Len(queue)].s

----------------------------------------------------------------------------
(* One envelope and one decision *)

\* _validate_envelope_fence: raises, or tells a duplicate from a new envelope.
FenceAccepts(s, env) ==
    /\ s.effective \in {None, env.session}
    /\ s.source \in {None, env.source}
    /\ IF env.sequence \in DOMAIN s.envelopes THEN s.envelopes[env.sequence] = env
       ELSE /\ s.last # None => env.sequence >= s.last
            /\ env.dedupe \notin DOMAIN s.dedupe

IsDuplicate(s, env) == env.sequence \in DOMAIN s.envelopes

\* InstrumentMetadataSnapshot
Metadata(payload) ==
    [instrument |-> payload.instrument, price_scale |-> payload.price_scale,
     quantity_scale |-> payload.quantity_scale, currency |-> payload.currency]

\* PaperDecision: its commands name the envelope as their cause.
DecisionContract(env, commands) ==
    \A n \in DOMAIN commands :
        commands[n].session = env.session /\ commands[n].sequence = env.sequence

MetadataAccepted(s, env) ==
    env.kind = "instrument" =>
        LET existing == Get(s.instruments, <<env.payload.instrument, env.payload.version>>)
        IN  IF existing = None THEN Cardinality(DOMAIN s.instruments) < Limits.versions
            ELSE existing = Metadata(env.payload)

StageEnvelope(s, env) ==
    LET metadata == IF env.kind = "quote" /\ env.version # None
                    THEN Get(s.instruments, <<env.payload.instrument, env.version>>) ELSE None
        staged ==
            CASE env.kind = "instrument" ->
                     [s EXCEPT !.instruments =
                         Bind(@, <<env.payload.instrument, env.payload.version>>,
                              Metadata(env.payload))]
              [] env.kind = "quote" ->
                     IF Usable(env.payload, metadata)
                     THEN StageMatches(s, env, QuoteTop(env.payload, metadata)) ELSE s
              [] OTHER -> s
    IN  [staged EXCEPT !.effective = env.session, !.bound = env.session,
                       !.source = env.source, !.last = env.sequence]

\* _stage_batch_command
StageCommand(s, env, command) ==
    IF command.kind = "order" THEN StageSubmit(s, command, env).state
    ELSE StageCancel(s, command, env.session, env.sequence).state

\* The commands of the decision in order.
StageCommands(s, env, commands) ==
    LET staged[n \in 0 .. Len(commands)] ==
            IF n = 0 THEN s ELSE StageCommand(staged[n - 1], env, commands[n])
    IN  staged[Len(commands)]

WithinCapacity(s) ==
    /\ Len(s.fills) <= Limits.fills
    /\ Len(s.events) <= Limits.events
    /\ Cardinality(DOMAIN s.positions) <= Limits.positions

\* Fault: the fence of the decision is not written.
CommitEnvelope(s, staged, env, commands) ==
    [staged EXCEPT !.version = s.version + 1,
                   !.envelopes = Bind(@, env.sequence, env),
                   !.dedupe = Bind(@, env.dedupe, env.sequence)]

\* The fences are written with the batch, and the whole batch is one version.
CommitBatch(s, staged, env, commands) ==
    [staged EXCEPT !.version = s.version + 1,
                   !.envelopes = Bind(@, env.sequence, env),
                   !.decisions = Bind(@, env.sequence, commands),
                   !.dedupe = Bind(@, env.dedupe, env.sequence)]

ProcessDecisionBatch(s, env, commands) ==
    IF IsDuplicate(s, env) THEN s
    ELSE CommitBatch(s, StageCommands(StageEnvelope(s, env), env, commands), env, commands)

Since(old, new) == SubSeq(new, Len(old) + 1, Len(new))

\* PaperDecisionBatchResult with its MatchResult: what the matching and the commands added.
BatchResult(s, env, commands) ==
    LET matched == StageEnvelope(s, env)
        staged  == StageCommands(matched, env, commands)
        none    == [fills |-> << >>, events |-> << >>]
    IN  IF IsDuplicate(s, env) THEN [match |-> none, events |-> << >>]
        ELSE [match  |-> [fills |-> Since(s.fills, matched.fills),
                          events |-> Since(s.events, matched.events)],
              events |-> Since(s.events, staged.events)]

CausedBy(env, x) == x.session = env.session /\ x.sequence = env.sequence

\* MatchResult.__post_init__
MatchResultContract(env, result) ==
    /\ \A f \in ToSet(result.fills) : CausedBy(env, f)
    /\ \A e \in ToSet(result.events) : e.session # None => CausedBy(env, e)

\* PaperDecisionBatchResult.__post_init__
BatchResultContract(env, result) ==
    /\ MatchResultContract(env, result.match)
    /\ IsPrefix(result.match.events, result.events)
    /\ \A e \in ToSet(result.events) : CausedBy(env, e)

\* PaperBrokerSnapshot.__post_init__: session and cursor are bound together, and what is
\* listed under a key is of that key.
SnapshotContract(s) ==
    /\ (s.bound = None) <=> (s.last = None)
    /\ \A key \in DOMAIN s.positions : s.positions[key].key = key

\* The batches process_decision_batch does not raise on; the capacity of the
\* matching is tested before the commands are staged and again after them.
BatchAccepted(s, env, commands) ==
    /\ DecisionContract(env, commands)
    /\ FenceAccepts(s, env)
    /\ IF IsDuplicate(s, env) THEN s.decisions[env.sequence] = commands
       ELSE /\ Cardinality(DOMAIN s.envelopes) < Limits.records
            /\ MetadataAccepted(s, env)
            /\ WithinCapacity(StageEnvelope(s, env))
            /\ WithinCapacity(ProcessDecisionBatch(s, env, commands))

----------------------------------------------------------------------------
(* Checkpoint validation: _validate_checkpoint_state *)

\* Where in the journal events of these types stand.
Journalled(s, types) == {n \in DOMAIN s.events : s.events[n].type \in types}

OrderEventTypes == {"order_accepted", "order_partially_filled", "order_filled", "order_cancelled"}

OrderHistory(s, id) ==
    {n \in Journalled(s, OrderEventTypes) : s.events[n].payload.id = id}

PositionHistory(s, key) ==
    {n \in Journalled(s, {"position_changed"}) : s.events[n].payload.key = key}

SumOf(values) ==
    LET sum[n \in 0 .. Len(values)] == IF n = 0 THEN 0 ELSE sum[n - 1] + values[n]
    IN  sum[Len(values)]

FilledQuantity(s, id) ==
    SumOf([n \in DOMAIN s.fills |-> IF s.fills[n].order = id THEN s.fills[n].quantity ELSE 0])

SessionsAgree(s) ==
    /\ s.effective # None => s.bound \in {None, s.effective}
    /\ (s.bound = None) <=> (s.source = None)
    /\ (s.bound = None) <=> (s.last = None)

QueueComplete(s) ==
    /\ DOMAIN s.ordinals = DOMAIN s.orders
    /\ {s.ordinals[id] : id \in DOMAIN s.ordinals} = 1 .. (s.nextOrdinal - 1)
    /\ Cardinality(DOMAIN s.ordinals) = s.nextOrdinal - 1
    /\ DOMAIN s.eligible = DOMAIN s.orders
    /\ \A id \in DOMAIN s.eligible : s.eligible[id] >= -1

OrdersHaveSubmits(s) ==
    \A id \in DOMAIN s.orders :
        LET record == s.submits[id]
        IN  /\ id = OrderId(s.orders[id].intent)
            /\ id \in DOMAIN s.submits
            /\ ~IsRejection(record.primary[2])
            /\ record.primary[2].id = id
            /\ record.primary[2].status = "accepted"
            /\ record.primary[1] = record.primary[2].intent

\* The ordinal in a fill's id is counted per order and envelope here.
FillIdsRecomputed(s) ==
    \A n \in DOMAIN s.fills :
        LET f == s.fills[n]
            same == {k \in 1 .. n : /\ s.fills[k].order = f.order
                                    /\ s.fills[k].session = f.session
                                    /\ s.fills[k].sequence = f.sequence}
        IN  f.id = <<f.order, f.session, f.sequence, Cardinality(same)>>

FillsJournalled(s) ==
    LET recorded == Journalled(s, {"fill_recorded"})
    IN  /\ \A n \in DOMAIN s.fills : s.fills[n].order \in DOMAIN s.orders
        /\ Cardinality(recorded) = Len(s.fills)
        /\ {s.events[n].payload : n \in recorded} = ToSet(s.fills)

OrdersJournalled(s) ==
    \A id \in DOMAIN s.orders :
        /\ \E first, last \in OrderHistory(s, id) :
               /\ \A n \in OrderHistory(s, id) : first <= n /\ n <= last
               /\ s.events[first].payload.status = "accepted"
               /\ s.events[last].payload = s.orders[id]
        /\ FilledQuantity(s, id) = s.orders[id].filled

PositionsJournalled(s) ==
    \A key \in DOMAIN s.positions :
        /\ s.positions[key].key = key
        /\ \E last \in PositionHistory(s, key) :
               /\ \A n \in PositionHistory(s, key) : n <= last
               /\ s.events[last].payload = s.positions[key]

WithinLimits(s) ==
    /\ WithinCapacity(s)
    /\ Cardinality(DOMAIN s.orders) <= Limits.orders
    /\ Cardinality(OpenOrders(s)) <= Limits.open
    /\ Cardinality(DOMAIN s.instruments) <= Limits.versions
    /\ Cardinality(DOMAIN s.submits) <= Limits.orders
    /\ Cardinality(DOMAIN s.cancels) <= Limits.orders

FencesComplete(s) ==
    /\ Cardinality(DOMAIN s.envelopes) <= Limits.records
    /\ DOMAIN s.envelopes = DOMAIN s.decisions
    /\ \A d \in DOMAIN s.dedupe : s.dedupe[d] \in DOMAIN s.envelopes
    /\ s.last # None => /\ s.last \in DOMAIN s.envelopes
                        /\ \A q \in DOMAIN s.envelopes : q <= s.last

\* _outcome_strategy_client
OutcomeClient(outcome) ==
    IF IsRejection(outcome) THEN <<outcome.strategy, outcome.client>> ELSE OrderId(outcome.intent)

OutcomeOrder(outcome) == IF IsRejection(outcome) THEN outcome.order ELSE outcome.id

Outcomes(record) ==
    {record.primary[2]} \cup (IF record.alternate = None THEN {} ELSE {record.alternate[2]})

OutcomesKeyed(s) ==
    /\ \A key \in DOMAIN s.submits :
           /\ \A o \in Outcomes(s.submits[key]) : OutcomeClient(o) = key
           /\ s.submits[key].alternate # None =>
                  s.submits[key].alternate[1] # s.submits[key].primary[1]
    /\ \A key \in DOMAIN s.cancels :
           /\ \A o \in Outcomes(s.cancels[key]) :
                  <<OutcomeOrder(o)>> \o OutcomeClient(o) = key
           /\ \/ key[1] \in DOMAIN s.orders
              \/ LET o == s.cancels[key].primary[2] IN IsRejection(o) /\ o.code = "unknown_order"
           /\ s.cancels[key].alternate # None =>
                  s.cancels[key].alternate[1] # s.cancels[key].primary[1]

CheckpointValid(s) ==
    /\ SessionsAgree(s) /\ QueueComplete(s) /\ OrdersHaveSubmits(s)
    /\ FillIdsRecomputed(s) /\ FillsJournalled(s) /\ OrdersJournalled(s)
    /\ PositionsJournalled(s) /\ WithinLimits(s) /\ FencesComplete(s) /\ OutcomesKeyed(s)

=============================================================================
