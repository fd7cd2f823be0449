--------------------------- MODULE PaperInvariants --------------------------
(*****************************************************************************)
(* The inductive invariants of PaperTrading and ResearchRun and what they are *)
(* made of: TradingInv of a broker under any calls, IInv and SoundInv of a   *)
(* research run, and between them the invariants of the fold that matches a  *)
(* quote with the queue (Served, Shared) and what single steps come to. The  *)
(* theorems about them are in PaperBrokerProofs.                             *)
(*****************************************************************************)
EXTENDS PaperTrading, ResearchRun

-----------------------------------------------------------------------------
(* Lists and numbers *)

IsList(q) == \E S : q \in Seq(S)

-----------------------------------------------------------------------------
(* A step that an envelope causes *)

BrokerFields ==
    {"effective", "bound", "source", "last", "version", "orders", "positions", "submits",
     "cancels", "ordinals", "eligible", "nextOrdinal", "fills", "events", "instruments",
     "envelopes", "decisions", "dedupe"}

IsState(s) == DOMAIN s = BrokerFields /\ IsList(s.events) /\ IsList(s.fills)

SameFences(s, t) ==
    /\ t.effective = s.effective /\ t.bound = s.bound /\ t.source = s.source
    /\ t.last = s.last /\ t.version = s.version
    /\ t.envelopes = s.envelopes /\ t.decisions = s.decisions /\ t.dedupe = s.dedupe

\* t's journal is that of s with events appended that all carry one source.
EventsCaused(s, t, session, sequence) ==
    /\ Len(s.events) <= Len(t.events)
    /\ \A n \in 1 .. Len(s.events) : t.events[n] = s.events[n]
    /\ \A n \in (Len(s.events) + 1) .. Len(t.events) :
           t.events[n].session = session /\ t.events[n].sequence = sequence

Causes(s, t, session, sequence) ==
    IsState(t) /\ SameFences(s, t) /\ EventsCaused(s, t, session, sequence)

-----------------------------------------------------------------------------
(* The commands in order *)

Staging(g, s, env, commands, N) ==
    /\ DOMAIN g = 0 .. N
    /\ g[0] = s
    /\ \A n \in 1 .. N : g[n] = StageCommand(g[n - 1], env, commands[n])

-----------------------------------------------------------------------------
(* Matching *)

\* The fill an order of the queue may take, and when it takes it.
NextFill(m, id, env, top) ==
    MakeFill(m.s.orders[id], env, top, m.capacity[m.s.orders[id].intent.side], m.ordinal + 1)

TakesFill(m, id, env, top) ==
    /\ m.s.orders[id].status \notin TerminalStatuses
    /\ m.s.orders[id].intent.instrument = env.payload.instrument
    /\ Eligible(m.s, m.s.orders[id], env)
    /\ Executable(m.s.orders[id], top, m.capacity[m.s.orders[id].intent.side])
    /\ LedgerAccepts(m.s.positions, PositionKey(m.s.orders[id].intent), env.time)

Matching(g, s, env, top, N) ==
    /\ DOMAIN g = 0 .. N
    /\ g[0] = [s |-> s, capacity |-> top.capacity, ordinal |-> 0]
    /\ \A n \in 1 .. N : g[n] = StageMatch(g[n - 1], OrderedIds(s)[n], env, top)

-----------------------------------------------------------------------------
(* The queue of the orders *)

\* Every order has one ordinal of 1, 2, ..., and was submitted.
QueueKept(s) ==
    /\ s.nextOrdinal \in Nat \ {0}
    /\ DOMAIN s.ordinals = DOMAIN s.orders
    /\ DOMAIN s.eligible = DOMAIN s.orders
    /\ \A id \in DOMAIN s.orders : s.ordinals[id] \in 1 .. (s.nextOrdinal - 1)
    /\ \A n \in 1 .. (s.nextOrdinal - 1) : \E id \in DOMAIN s.orders : s.ordinals[id] = n
    /\ \A a, b \in DOMAIN s.orders : s.ordinals[a] = s.ordinals[b] => a = b
    /\ DOMAIN s.orders \subseteq DOMAIN s.submits

-----------------------------------------------------------------------------
(* What an operation changes *)

\* t differs from s in the fields F at most.
Frame(s, t, F) == DOMAIN t = BrokerFields /\ \A f \in BrokerFields \ F : t[f] = s[f]

\* The event a rejection is journalled with, unless the journal is full.
RejectionEvent(rejection, session, sequence) ==
    Event("order_rejected", rejection, rejection.rejected, session, sequence)

MayAppend(old, new, e) == new = old \/ (Len(old) < Limits.events /\ new = Append(old, e))

\* The record a cancel's outcome is cached in, and whether there is room for it.
CancelRecord(s, request) ==
    IF CancelKey(request) \in DOMAIN s.cancels
    THEN WithAlternate(s.cancels[CancelKey(request)], request, EvaluateCancel(s, request))
    ELSE OutcomeRecord(request, EvaluateCancel(s, request))

CancelCacheable(s, request) ==
    IF CancelKey(request) \in DOMAIN s.cancels THEN s.cancels[CancelKey(request)].alternate = None
    ELSE Cardinality(DOMAIN s.cancels) < Limits.orders

CancelsAfter(s, request) == Bind(s.cancels, CancelKey(request), CancelRecord(s, request))

FillEvents(s, order, fill) ==
    LET updated == FillOrder(order, fill)
    IN  << Event("fill_recorded", fill, fill.time, fill.session, fill.sequence),
           Event(IF updated.status = "filled" THEN "order_filled" ELSE "order_partially_filled",
                 updated, fill.time, fill.session, fill.sequence),
           Event("position_changed", ApplyFillToPosition(Position(s, PositionKey(fill)), fill),
                 fill.time, fill.session, fill.sequence) >>

-----------------------------------------------------------------------------
(* The batch of an envelope *)

\* What a batch hands from step to step.
BatchState(s) == IsState(s) /\ QueueKept(s) /\ s.version \in Int

\* The part of Causes that remains when the fences move.
Carries(s, t, env) ==
    BatchState(t) /\ EventsCaused(s, t, env.session, env.sequence)

-----------------------------------------------------------------------------
(* Sums *)

Summing(g, values, N) ==
    /\ DOMAIN g = 0 .. N
    /\ g[0] = 0
    /\ \A n \in 1 .. N : g[n] = g[n - 1] + values[n]

-----------------------------------------------------------------------------
(* A journal that grows *)

\* t's journal is that of s with the events of a list appended.
Grows(s, t, new) ==
    /\ IsList(s.events) /\ IsList(t.events) /\ Len(new) \in Nat
    /\ Len(t.events) = Len(s.events) + Len(new)
    /\ \A n \in 1 .. Len(s.events) : t.events[n] = s.events[n]
    /\ \A n \in 1 .. Len(new) : t.events[Len(s.events) + n] = new[n]

\* No event of these types among the new ones.
Without(new, types) == \A k \in 1 .. Len(new) : new[k].type \notin types

-----------------------------------------------------------------------------
(* What the journal tells of an order and of a position *)

\* One order of OrdersJournalled.
OrderTold(s, id) ==
    \E first, last \in OrderHistory(s, id) :
        /\ \A n \in OrderHistory(s, id) : first <= n /\ n <= last
        /\ s.events[first].payload.status = "accepted"
        /\ s.events[last].payload = s.orders[id]

\* One position of PositionsJournalled.
PositionTold(s, key) ==
    /\ s.positions[key].key = key
    /\ \E last \in PositionHistory(s, key) :
           /\ \A n \in PositionHistory(s, key) : n <= last
           /\ s.events[last].payload = s.positions[key]

\* Every order event is of a known order.
OrdersNamed(s) ==
    \A n \in Journalled(s, OrderEventTypes) : s.events[n].payload.id \in DOMAIN s.orders

-----------------------------------------------------------------------------
(* Prices, fees and averages *)

AverageSound(a) == \E n \in Int, d \in Nat \ {0} : a = <<n, d>>

\* The average lies between two of the prices.
Between(a, prices) ==
    /\ \E q \in prices : q * a[2] <= a[1]
    /\ \E q \in prices : q * a[2] >= a[1]

\* The side a position was opened on.
SideOf(net) == IF net > 0 THEN "buy" ELSE "sell"

-----------------------------------------------------------------------------
(* Sound fills, orders and positions *)

OrderFields == {"id", "intent", "status", "filled", "remaining", "notional", "accepted", "updated"}

FillSound(f) ==
    /\ f.quantity \in Nat \ {0} /\ f.price \in Nat \ {0} /\ f.fee \in Nat
    /\ f.side \in {"buy", "sell"} /\ PaperFillContract(f)

OrderSound(o) ==
    /\ o.filled \in Nat /\ o.remaining \in Nat /\ o.notional \in Nat
    /\ o.accepted \in Int /\ o.updated \in Int /\ o.intent.quantity \in Nat \ {0}
    /\ o.intent.created \in Int /\ PaperOrderContract(o)

PositionSound(p) ==
    /\ p.net \in Int /\ p.fees \in Nat /\ p.version \in Nat \ {0}
    /\ p.net # 0 => AverageSound(p.average)
    /\ PaperPositionContract(p)

-----------------------------------------------------------------------------
(* What the events of an order and of a position explain *)

\* One order of JournalExplainsState.
OrderExplained(s, id) ==
    /\ \A n \in OrderHistory(s, id) : PaperOrderContract(s.events[n].payload)
    /\ \A n \in OrderHistory(s, id) :
           (\A k \in OrderHistory(s, id) : n <= k)
               => s.events[n].payload = NewOrder(s.orders[id].intent)
    /\ \A n, k \in OrderHistory(s, id) :
           n < k /\ (\A j \in OrderHistory(s, id) : j <= n \/ k <= j)
               => LegalTransition(s.events[n].payload, s.events[k].payload)

\* One position of it.
PositionExplained(s, key) ==
    \A n \in PositionHistory(s, key) :
        /\ PaperPositionContract(s.events[n].payload)
        /\ s.events[n].payload.version = Cardinality({k \in PositionHistory(s, key) : k <= n})

\* Every position event is of a known position.
PlacesNamed(s) ==
    \A n \in Journalled(s, {"position_changed"}) : s.events[n].payload.key \in DOMAIN s.positions

-----------------------------------------------------------------------------
(* What the fills explain *)

Own(s, key, n) == PositionKey(s.fills[n]) = key

NetOf(s, key) == SumOf([n \in DOMAIN s.fills |-> IF Own(s, key, n) THEN Signed(s.fills[n]) ELSE 0])

FeesOf(s, key) == SumOf([n \in DOMAIN s.fills |-> IF Own(s, key, n) THEN s.fills[n].fee ELSE 0])

OwnPrices(s, key, side) ==
    {s.fills[n].price : n \in {k \in DOMAIN s.fills : Own(s, key, k) /\ s.fills[k].side = side}}

OrderFees(s, id) ==
    SumOf([n \in DOMAIN s.fills |-> IF s.fills[n].order = id THEN s.fills[n].fee ELSE 0])

FillsSound(s) == \A n \in 1 .. Len(s.fills) : FillSound(s.fills[n])

-----------------------------------------------------------------------------
(* Everything the journal and the fills explain *)

FeesExplained(s, id) ==
    LET o == s.orders[id]
    IN  OrderFees(s, id) = IF o.filled = 0 THEN 0 ELSE Fee(o.intent.instrument, 0, o.filled)

NetExplained(s, key) ==
    LET p == s.positions[key]
    IN  /\ p.net = NetOf(s, key) /\ p.fees = FeesOf(s, key)
        /\ p.net # 0 => Between(p.average, OwnPrices(s, key, SideOf(p.net)))

OrdersExplained(s) ==
    \A id \in DOMAIN s.orders :
        OrderSound(s.orders[id]) /\ OrderExplained(s, id) /\ FeesExplained(s, id)

PositionsExplained(s) ==
    \A key \in DOMAIN s.positions :
        PositionSound(s.positions[key]) /\ PositionExplained(s, key) /\ NetExplained(s, key)

FillsPlaced(s) == \A n \in 1 .. Len(s.fills) : PositionKey(s.fills[n]) \in DOMAIN s.positions

Explained(s) ==
    /\ OrdersExplained(s) /\ PositionsExplained(s) /\ PlacesNamed(s)
    /\ FillsSound(s) /\ FillsPlaced(s)

OrderCancels(s, t, e, id, time) ==
    /\ id \in DOMAIN s.orders /\ DOMAIN s.orders[id] = OrderFields
    /\ s.orders[id].status \notin TerminalStatuses
    /\ time \in Int /\ time >= s.orders[id].updated
    /\ t.orders[id] = [s.orders[id] EXCEPT !.status = "cancelled", !.updated = time]
    /\ t.orders[id].id = id /\ DOMAIN t.orders = DOMAIN s.orders
    /\ \A k \in DOMAIN s.orders : k # id => t.orders[k] = s.orders[k]
    /\ e.type = "order_cancelled" /\ e.payload = t.orders[id]
    /\ t.positions = s.positions /\ t.fills = s.fills

\* A fill charges what the fee of the order grows by.
FeeDue(o, fill) ==
    \E currency :
        /\ FeeAssessable(o.intent.instrument, currency)
        /\ fill.fee = Fee(o.intent.instrument, o.filled, o.filled + fill.quantity)

FilledPosition(s, t, key) ==
    /\ PositionSound(t.positions[key]) /\ NetExplained(t, key)
    /\ t.positions[key].key = key
    /\ key \notin DOMAIN s.positions => t.positions[key].version = 1
    /\ key \in DOMAIN s.positions => t.positions[key].version = s.positions[key].version + 1

SumsFollow(s, t, f, id, key) ==
    /\ OrderFees(s, id) \in Int /\ OrderFees(t, id) = OrderFees(s, id) + f.fee
    /\ \A k : k # id => OrderFees(t, k) = OrderFees(s, k)
    /\ \A k : k # key => NetOf(t, k) = NetOf(s, k) /\ FeesOf(t, k) = FeesOf(s, k)
    /\ \A k, side : k # key => OwnPrices(t, k, side) = OwnPrices(s, k, side)
    /\ FillsSound(t)

FillFits(s, id, fill) ==
    /\ id \in DOMAIN s.orders /\ DOMAIN s.orders[id] = OrderFields
    /\ s.orders[id].status \notin TerminalStatuses
    /\ FillSound(fill) /\ fill.order = id /\ fill.quantity <= s.orders[id].remaining
    /\ fill.time \in Int /\ fill.time >= s.orders[id].updated /\ FeeDue(s.orders[id], fill)

OrderFills(s, t, id, fill, key) ==
    /\ t.orders[id] = FillOrder(s.orders[id], fill) /\ t.orders[id].id = id
    /\ DOMAIN t.orders = DOMAIN s.orders
    /\ \A k \in DOMAIN s.orders : k # id => t.orders[k] = s.orders[k]
    /\ key = PositionKey(fill) /\ DOMAIN t.positions = DOMAIN s.positions \cup {key}
    /\ t.positions[key] = ApplyFillToPosition(Position(s, key), fill)
    /\ \A k \in DOMAIN s.positions : k # key => t.positions[k] = s.positions[k]
    /\ t.fills = Append(s.fills, fill)

FillTold(new, order, position) ==
    /\ Len(new) = 3
    /\ \A j \in 1 .. 3 : new[j].type \in OrderEventTypes <=> j = 2
    /\ \A j \in 1 .. 3 : new[j].type = "position_changed" <=> j = 3
    /\ new[2].payload = order /\ new[3].payload = position

-----------------------------------------------------------------------------
(* What holds of a broker between any two elementary steps *)

WaitsFor(intent, after) ==
    /\ after \in Int /\ after >= -1
    /\ intent.sequence # None => after >= intent.sequence

\* An order is the one its client order id was submitted with, and waits for a
\* sequence after the one that caused it.
OrderKept(s, id) ==
    LET o == s.orders[id]
    IN  /\ DOMAIN o = OrderFields /\ o.id = id /\ OrderId(o.intent) = id
        /\ o.filled \in Int /\ o.remaining \in Int /\ o.updated \in Int
        /\ s.submits[id].primary = <<o.intent, NewOrder(o.intent)>>
        /\ IntentTyped(o.intent) /\ WaitsFor(o.intent, s.eligible[id])

OrdersKept(s) == \A id \in DOMAIN s.orders : OrderKept(s, id)

\* A fill's number within its envelope is 1 unless another fill came before it,
\* and an order has one fill of an envelope at most.
FillsNumbered(s) ==
    /\ \A n \in 1 .. Len(s.fills) :
           LET f == s.fills[n]
           IN  /\ f.quantity \in Int
               /\ \E j \in Nat :
                      /\ f.id = <<f.order, f.session, f.sequence, j>>
                      /\ j = 1 \/ \E k \in 1 .. (n - 1) : s.fills[k].sequence = f.sequence
    /\ \A n, k \in 1 .. Len(s.fills) :
           /\ s.fills[n].sequence = s.fills[k].sequence
           /\ s.fills[n].order = s.fills[k].order
           => n = k

JournalKept(s) ==
    /\ \A id \in DOMAIN s.orders : OrderTold(s, id) /\ FilledQuantity(s, id) = s.orders[id].filled
    /\ OrdersNamed(s) /\ FillsJournalled(s) /\ FillsNumbered(s)
    /\ \A key \in DOMAIN s.positions : PositionTold(s, key)

AnswersDiffer(record) ==
    record.alternate # None => record.alternate[1] # record.primary[1]

SubmitKeyed(key, record) ==
    /\ DOMAIN record = {"primary", "alternate"}
    /\ \A o \in Outcomes(record) : OutcomeClient(o) = key
    /\ AnswersDiffer(record)

CancelOutcome(key, o) == <<OutcomeOrder(o)>> \o OutcomeClient(o) = key

CancelKeyed(s, key, record) ==
    /\ DOMAIN record = {"primary", "alternate"}
    /\ \A o \in Outcomes(record) : CancelOutcome(key, o)
    /\ \/ key[1] \in DOMAIN s.orders
       \/ IsRejection(record.primary[2]) /\ record.primary[2].code = "unknown_order"
    /\ AnswersDiffer(record)

CachesKept(s) ==
    /\ \A key \in DOMAIN s.submits : SubmitKeyed(key, s.submits[key])
    /\ \A key \in DOMAIN s.cancels : CancelKeyed(s, key, s.cancels[key])

Holds(map, limit) == IsFiniteSet(DOMAIN map) /\ Cardinality(DOMAIN map) <= limit

LimitsKept(s) ==
    /\ Holds(s.orders, Limits.orders) /\ Holds(s.submits, Limits.orders)
    /\ Holds(s.cancels, Limits.orders) /\ Holds(s.instruments, Limits.versions)
    /\ Cardinality(OpenOrders(s)) <= Limits.open

LedgerKept(s) ==
    /\ BatchState(s) /\ OrdersKept(s) /\ JournalKept(s) /\ CachesKept(s) /\ LimitsKept(s)
    /\ Explained(s)

-----------------------------------------------------------------------------
(* What holds of a broker between two calls *)

ScalesTyped(s) == \A key \in DOMAIN s.instruments : s.instruments[key].quantity_scale \in Int \cup {None}

\* Fills are by committed envelopes, and the last of these is the cursor.
FencesKept(s) ==
    /\ SessionsAgree(s) /\ FencesComplete(s)
    /\ s.effective = None => s.bound = None
    /\ s.last = None => DOMAIN s.envelopes = {}
    /\ IsFiniteSet(DOMAIN s.envelopes) /\ DOMAIN s.envelopes \subseteq Nat
    /\ \A n \in 1 .. Len(s.fills) : s.fills[n].sequence \in DOMAIN s.envelopes
    /\ ScalesTyped(s)

BrokerKept(s) == LedgerKept(s) /\ FencesKept(s) /\ WithinCapacity(s)

TradingInv == BrokerKept(broker)

-----------------------------------------------------------------------------
(* The elementary steps *)

\* The two ways an evaluated cancel comes out when it changes anything.
CancelRefused(s, request, outcome) ==
    /\ IsRejection(outcome)
    /\ OutcomeOrder(outcome) = request.order
    /\ OutcomeClient(outcome) = <<request.strategy, request.client>>
    /\ request.order \in DOMAIN s.orders \/ outcome.code = "unknown_order"

CancelTaken(s, request, outcome) ==
    /\ request.order \in DOMAIN s.orders
    /\ OrderId(s.orders[request.order].intent) = OrderId(request)
    /\ s.orders[request.order].status \notin TerminalStatuses
    /\ ~(request.requested < s.orders[request.order].updated)
    /\ ~JournalFull(s)
    /\ outcome = [s.orders[request.order] EXCEPT !.status = "cancelled",
                                                 !.updated = request.requested]

\* A command leaves fills and positions alone and does not overrun the journal.
Roomy(s, t) ==
    /\ t.fills = s.fills /\ t.positions = s.positions /\ t.instruments = s.instruments
    /\ Len(s.events) <= Limits.events => Len(t.events) <= Limits.events

\* An order takes a new value that leaves its identity alone.
SameOrder(old, new) ==
    DOMAIN new = OrderFields /\ new.id = old.id /\ new.intent = old.intent

\* A fill of an open order that no earlier fill of the same envelope served.
FitsOrder(s, id, fill) ==
    /\ id \in DOMAIN s.orders /\ s.orders[id].status \notin TerminalStatuses
    /\ fill.order = id /\ fill.quantity \in Int /\ fill.time \in Int
    /\ FillSound(fill) /\ FeeDue(s.orders[id], fill)
    /\ fill.quantity <= s.orders[id].remaining /\ fill.time >= s.orders[id].updated
    /\ \E j \in Nat : /\ fill.id = <<fill.order, fill.session, fill.sequence, j>>
                      /\ j = 1 \/ \E k \in 1 .. Len(s.fills) : s.fills[k].sequence = fill.sequence
    /\ \A k \in 1 .. Len(s.fills) :
           ~(s.fills[k].sequence = fill.sequence /\ s.fills[k].order = id)

-----------------------------------------------------------------------------
(* The matching of one quote *)

\* The sizes and the prices a quote top offers are numbers.
TopTyped(top) ==
    /\ top.price["buy"] \in Nat \ {0} /\ top.price["sell"] \in Nat \ {0}
    /\ DOMAIN top.capacity = {"buy", "sell"}
    /\ \A side \in {"buy", "sell"} : top.capacity[side] \in Int \cup {None}

\* A fill of an order that was open, and free to take the quote, before the batch.
OwnFill(s, env, f) ==
    /\ f.session = env.session /\ f.sequence = env.sequence /\ f.order \in OpenOrders(s)
    /\ f.time >= s.orders[f.order].updated
    /\ env.sequence > s.eligible[f.order]

\* The first n orders of the queue are served: their fills are new, the others
\* are as they were.
Served(s, m, n, env) ==
    /\ LedgerKept(m.s) /\ m.ordinal \in Nat
    /\ DOMAIN m.capacity = {"buy", "sell"}
    /\ \A side \in {"buy", "sell"} : m.capacity[side] \in Int \cup {None}
    /\ DOMAIN m.s.orders = DOMAIN s.orders /\ m.s.eligible = s.eligible
    /\ m.s.instruments = s.instruments
    /\ Len(s.fills) <= Len(m.s.fills)
    /\ \A k \in 1 .. Len(s.fills) : m.s.fills[k] = s.fills[k]
    /\ \A k \in (Len(s.fills) + 1) .. Len(m.s.fills) :
           /\ OwnFill(s, env, m.s.fills[k])
           /\ \E i \in 1 .. n : OrderedIds(s)[i] = m.s.fills[k].order
    /\ \A i \in (n + 1) .. Len(OrderedIds(s)) :
           m.s.orders[OrderedIds(s)[i]] = s.orders[OrderedIds(s)[i]]
    /\ m.ordinal > 0 => \E k \in 1 .. Len(m.s.fills) : m.s.fills[k].sequence = env.sequence

\* An envelope that has not filled anything yet.
FreshEnvelope(s, env) ==
    /\ env.sequence \in Int /\ env.time \in Int
    /\ \A k \in 1 .. Len(s.fills) : s.fills[k].sequence # env.sequence

AfterFill(m, id, env, top) ==
    [s |-> RecordFill(m.s, m.s.orders[id], NextFill(m, id, env, top)),
     capacity |-> [m.capacity EXCEPT ![m.s.orders[id].intent.side]
                      = @ - NextFill(m, id, env, top).quantity],
     ordinal |-> m.ordinal + 1]

\* The fills of t are those of s and then fills of the envelope's own.
OwnFills(s, t, env) ==
    /\ Len(s.fills) <= Len(t.fills)
    /\ \A k \in 1 .. Len(s.fills) : t.fills[k] = s.fills[k]
    /\ \A k \in (Len(s.fills) + 1) .. Len(t.fills) : OwnFill(s, env, t.fills[k])

-----------------------------------------------------------------------------
(* The calls *)

\* A direct command moves no fence but the effective session, and that only from None.
CallFences(s, t) ==
    /\ t.bound = s.bound /\ t.source = s.source /\ t.last = s.last
    /\ t.envelopes = s.envelopes /\ t.decisions = s.decisions /\ t.dedupe = s.dedupe
    /\ t.effective = s.effective \/ s.effective = None

-----------------------------------------------------------------------------
(* The checkpoint *)

\* No envelope filled two orders.
FilledApart(s) ==
    \A f, g \in ToSet(s.fills) : f.sequence = g.sequence => f.order = g.order

-----------------------------------------------------------------------------
(* How one quote is shared *)

\* What fills after those of s took of a side.
Sold(s, t, side) ==
    SumOf([n \in DOMAIN Since(s.fills, t.fills) |->
              IF Since(s.fills, t.fills)[n].side = side
              THEN Since(s.fills, t.fills)[n].quantity ELSE 0])

\* A fill more takes its quantity of its side.
SoldMore(s, t, u, f, side) ==
    /\ Sold(s, t, side) \in Int
    /\ Sold(s, u, side) = Sold(s, t, side) + (IF f.side = side THEN f.quantity ELSE 0)

\* An order that could take the quote were it there for this order alone.
Contends(s, id, env, top) ==
    LET o == s.orders[id]
    IN  /\ id \in OpenOrders(s)
        /\ o.intent.instrument = env.payload.instrument
        /\ Eligible(s, o, env)
        /\ Executable(o, top, top.capacity[o.intent.side])
        /\ LedgerAccepts(s.positions, PositionKey(o.intent), env.time)

\* The first n orders of the queue have shared the quote: what is left of a side
\* is what was there less what was sold, a contender that is not filled found
\* nothing left, and every contender before one that got something is filled.
Shared(s, m, n, env, top) ==
    /\ \A side \in {"buy", "sell"} :
           IF top.capacity[side] = None THEN m.capacity[side] = None /\ Sold(s, m.s, side) = 0
           ELSE /\ m.capacity[side] \in Int /\ Sold(s, m.s, side) \in Int
                /\ m.capacity[side] = top.capacity[side] - Sold(s, m.s, side)
                /\ Sold(s, m.s, side) = 0 \/ m.capacity[side] >= 0
    /\ \A key : LedgerAccepts(s.positions, key, env.time)
                    => LedgerAccepts(m.s.positions, key, env.time)
    /\ \A i \in 1 .. n :
           Contends(s, OrderedIds(s)[i], env, top)
               => \/ m.s.orders[OrderedIds(s)[i]].status = "filled"
                  \/ ~(m.capacity[s.orders[OrderedIds(s)[i]].intent.side] > 0)
    /\ \A k \in (Len(s.fills) + 1) .. Len(m.s.fills) : \A i, j \in 1 .. n :
           /\ m.s.fills[k].order = OrderedIds(s)[j] /\ i < j
           /\ Contends(s, OrderedIds(s)[i], env, top)
           /\ s.orders[OrderedIds(s)[i]].intent.side = s.orders[OrderedIds(s)[j]].intent.side
           => m.s.orders[OrderedIds(s)[i]].status = "filled"

\* What a fill does to the order, the side and the position it concerns.
FillMade(s, m, n, env, top, r) ==
    LET id == OrderedIds(s)[n + 1]
        o == s.orders[id]
        own == o.intent.side
        f == NextFill(m, id, env, top)
    IN  /\ id \in DOMAIN s.orders /\ own \in {"buy", "sell"}
        /\ f.order = id /\ f.side = own /\ f.quantity \in Int
        /\ m.capacity[own] \in Int /\ m.capacity[own] > 0
        /\ f.quantity <= m.capacity[own]
        /\ \/ r.s.orders[id].status = "filled"
           \/ f.quantity = m.capacity[own]
        /\ r.capacity[own] = m.capacity[own] - f.quantity
        /\ \A side \in {"buy", "sell"} : side # own => r.capacity[side] = m.capacity[side]
        /\ \A k \in DOMAIN s.orders : k # id => r.s.orders[k] = m.s.orders[k]
        /\ r.s.fills = Append(m.s.fills, f)
        /\ \A key : LedgerAccepts(m.s.positions, key, env.time)
                        => LedgerAccepts(r.s.positions, key, env.time)

\* What the whole queue makes of a quote.
SharedOut(s, t, env, top) ==
    /\ DOMAIN s.orders \subseteq DOMAIN t.orders
    /\ \A side \in {"buy", "sell"} :
           Sold(s, t, side) > 0 => Sold(s, t, side) <= top.capacity[side]
    /\ \A a, b \in DOMAIN s.orders :
           /\ Contends(s, a, env, top) /\ s.orders[a].intent.side = s.orders[b].intent.side
           /\ s.ordinals[a] < s.ordinals[b]
           /\ \E k \in (Len(s.fills) + 1) .. Len(t.fills) : t.fills[k].order = b
           => t.orders[a].status = "filled"

-----------------------------------------------------------------------------
(* The commands after it *)

\* A filled order stays filled.
FilledStay(s, t) ==
    \A id \in DOMAIN s.orders :
        id \in DOMAIN t.orders /\ (s.orders[id].status = "filled" => t.orders[id].status = "filled")

-----------------------------------------------------------------------------
(* A batch and the theorem *)

\* The top of the quote an envelope carries, in the units of its instrument.
QuoteOf(s, env) ==
    QuoteTop(env.payload, Get(s.instruments, <<env.payload.instrument, env.version>>))

-----------------------------------------------------------------------------
(* The commands of a decision *)

\* The commands q and those of the n-th strategy.
Decided(q, c, registrations, env, n) ==
    q \o OwnDecision(c, registrations[n], env)

Deciding(g, c, registrations, env, N) ==
    /\ DOMAIN g = 0 .. N
    /\ g[0] = << >>
    /\ \A n \in 1 .. N : g[n] = Decided(g[n - 1], c, registrations, env, n)

-----------------------------------------------------------------------------
(* Decisions are typed, and an accepted one leaves a sound coordinator *)

TypedCommands(q) == IsList(q) /\ \A n \in 1 .. Len(q) : CommandTyped(q[n])

-----------------------------------------------------------------------------
(* The coordinator after the first k envelopes *)

CoordinatorKept(c, k) ==
    /\ DOMAIN c = {"broker", "records"}
    /\ BatchState(c.broker)
    /\ k = 0 => c.broker.last = None
    /\ k # 0 => c.broker.last = Source[k].sequence /\ c.broker.bound = Session
    /\ \A q : q \in DOMAIN c.broker.envelopes <=> \E n \in 1 .. k : q = Source[n].sequence
    /\ \A q : q \in DOMAIN c.records <=> \E n \in 1 .. k : q = Source[n].sequence
    /\ \A n \in 1 .. k : c.records[Source[n].sequence].envelope = Source[n]
    /\ \A n \in 1 .. Len(c.broker.events) :
           /\ c.broker.events[n].sequence \in DOMAIN c.records
           /\ c.broker.events[n].session = Session

\* d extends c by one envelope.
Extends(c, d, env) ==
    /\ EventsCaused(c.broker, d.broker, env.session, env.sequence)
    /\ \A q \in DOMAIN c.records : q \in DOMAIN d.records /\ d.records[q] = c.records[q]

-----------------------------------------------------------------------------
(* The uninterrupted run *)

RunningTo(g, settings, N) ==
    /\ DOMAIN g = 0 .. N
    /\ g[0] = InitialCoordinator(Session)
    /\ \A n \in 1 .. N : g[n] = Publish(g[n - 1], settings, Source[n])

-----------------------------------------------------------------------------
(* Output records *)

Events(settings, k) == Uninterrupted(settings, k).broker.events

-----------------------------------------------------------------------------
(* The invariant *)

ProcFields == {"pc", "settings", "c", "version", "cursor", "batch"}

\* No run is created yet; only the runner that reserved the file goes on.
Opening ==
    /\ run = None /\ DOMAIN batches = {} /\ DOMAIN outbox = {} /\ outputs = {}
    /\ \A r \in Runners : proc[r].pc \in {"idle", "reserved", "schema"}
    /\ \A r \in Runners : proc[r].pc # "idle" => file # "absent" /\ proc[r].settings \in Settings
    /\ \A r, q \in Runners : proc[r].pc # "idle" /\ proc[q].pc # "idle" => r = q

\* A runner's coordinator is that of the uninterrupted run at some earlier moment.
ProcKept(p, identity, count) ==
    /\ p.pc \in {"idle", "created", "ready", "publishing", "reload", "ledger", "completed"}
    /\ p.pc # "idle" => p.settings = identity
    /\ p.pc = "created" => p.c = Uninterrupted(identity, 0)
    /\ p.pc = "ready" => \E k \in 0 .. count : p.c = Uninterrupted(identity, k)
    /\ p.pc \in {"publishing", "reload", "ledger"} =>
           \E k \in 0 .. (EventCount - 1) :
               /\ IF p.pc = "publishing" THEN k <= count ELSE k < count
               /\ p.batch.envelope = Source[k + 1]
               /\ p.batch.c = Uninterrupted(identity, k + 1)
               /\ p.batch.outbox = BatchOutbox(Uninterrupted(identity, k),
                                               Uninterrupted(identity, k + 1), Source[k + 1])
    /\ p.pc = "completed" => p.c = Uninterrupted(identity, EventCount)

\* The row and its batches are those of the first count envelopes.
RowKept ==
    /\ DOMAIN run = {"identity", "status", "version", "cursor", "count", "c"}
    /\ run.identity \in Settings /\ run.status \in {"active", "complete"}
    /\ run.count \in 0 .. EventCount
    /\ run.c = Uninterrupted(run.identity, run.count)
    /\ run.count = 0 => run.cursor = None
    /\ run.count # 0 => run.cursor = Source[run.count].sequence
    /\ run.status = "complete" => run.count = EventCount
    /\ run.version = run.count + (IF run.status = "complete" THEN 1 ELSE 0)
    /\ \A q : q \in DOMAIN batches <=> \E n \in 1 .. run.count : q = Source[n].sequence
    /\ \A n \in 1 .. run.count : batches[Source[n].sequence].version = n

OutboxKept ==
    LET size == Len(run.c.broker.events)
    IN  /\ \A n : n \in DOMAIN outbox <=>
                     \/ n \in 0 .. (run.count - 1)
                     \/ n \in EventCount .. (EventCount + size - 1)
                     \/ run.status = "complete" /\ n = EventCount + size
        /\ \A n \in 1 .. run.count : outbox[n - 1] = MarketRecord(Source[n])
        /\ \A n \in 1 .. size : outbox[EventCount + n - 1] = PaperRecord(run.c, n)
        /\ run.status = "complete" => outbox[EventCount + size] = SummaryRecord(run.c)

Created ==
    /\ file # "absent"
    /\ RowKept
    /\ OutboxKept
    /\ \A r \in Runners : ProcKept(proc[r], run.identity, run.count)
    /\ \A output \in outputs : output = Materialize(Uninterrupted(run.identity, EventCount))

IInv ==
    /\ DOMAIN proc = Runners /\ \A r \in Runners : DOMAIN proc[r] = ProcFields
    /\ Opening \/ Created

-----------------------------------------------------------------------------
(* The steps *)

IsProc(p) == DOMAIN p = ProcFields

-----------------------------------------------------------------------------
(* What a resume demands *)

\* The coordinator's decisions were accepted, and its broker came out of accepted calls.
Sound(c, settings) ==
    /\ BrokerKept(c.broker)
    /\ IsFiniteSet(DOMAIN c.records) /\ CoordinatorValid(c, settings)

RunnerSound(p) ==
    /\ p.pc \in {"created", "ready"} => Sound(p.c, p.settings)
    /\ p.pc \in {"publishing", "reload", "ledger"} => Sound(p.batch.c, p.settings)

SoundInv ==
    /\ Opening \/ Sound(run.c, run.identity)
    /\ \A r \in Runners : RunnerSound(proc[r])

=============================================================================
