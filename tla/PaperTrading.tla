---------------------------- MODULE PaperTrading ----------------------------
(***************************************************************************)
(* A paper broker driven by direct commands and by market-data batches in  *)
(* any order, redeliveries, conflicting redeliveries and inputs the broker *)
(* refuses included.                                                       *)
(***************************************************************************)
EXTENDS PaperBroker

CONSTANTS
    Intents,    \* the OrderIntents submitted directly
    Requests,   \* the CancelIntents sent directly
    Batches     \* the envelopes, each with the decision it is delivered with

ASSUME InputsAreContracts ==
    /\ \A i \in Intents : OrderIntentContract(i)
    /\ \A r \in Requests : CancelIntentContract(r)
    /\ \A b \in Batches : \A n \in 1 .. Len(b.commands) :
           LET command == b.commands[n]
           IN  IF command.kind = "order" THEN OrderIntentContract(command)
               ELSE CancelIntentContract(command)

ASSUME InputsAreTyped ==
    /\ \A i \in Intents : IntentTyped(i)
    /\ \A r \in Requests : r.requested \in Int
    /\ \A b \in Batches : DecisionTyped(b.envelope, b.commands)

VARIABLE broker

tradingVars == broker

TradingInit == broker = InitialState(None)

SubmitIntent == \E i \in Intents : broker' = Submit(broker, i).state

CancelRequest ==
    \E r \in Requests : CancelAccepted(broker, r) /\ broker' = Cancel(broker, r).state

ProcessBatch ==
    \E b \in Batches :
        /\ BatchAccepted(broker, b.envelope, b.commands)
        /\ broker' = ProcessDecisionBatch(broker, b.envelope, b.commands)

TradingNext == SubmitIntent \/ CancelRequest \/ ProcessBatch

TradingSpec == TradingInit /\ [][TradingNext]_tradingVars

----------------------------------------------------------------------------
(* Properties *)

\* The journal is authoritative (PaperBroker's docstring): an order is accepted
\* once however often its command is retried, each later event of it is a legal
\* transition of state_machine.py from the one before, the versions of a
\* position follow each other, and every journalled value meets its contract, as does
\* what the broker would report next: its snapshot and the result of any batch that it
\* accepts, which raises before the commit if an event has another cause than the batch.
JournalExplainsState ==
    LET Payload(n) == broker.events[n].payload
    IN  /\ \A id \in DOMAIN broker.orders :
               LET history == OrderHistory(broker, id)
               IN  /\ \A n \in history : PaperOrderContract(Payload(n))
                   /\ \A n \in history :
                          (\A k \in history : n <= k)
                              => Payload(n) = NewOrder(broker.orders[id].intent)
                   /\ \A n, k \in history :
                          n < k /\ (\A j \in history : j <= n \/ k <= j)
                              => LegalTransition(Payload(n), Payload(k))
        /\ \A key \in DOMAIN broker.positions :
               LET history == PositionHistory(broker, key)
               IN  \A n \in history :
                       /\ PaperPositionContract(Payload(n))
                       /\ Payload(n).version = Cardinality({k \in history : k <= n})
        /\ \A f \in ToSet(broker.fills) : PaperFillContract(f)
        /\ SnapshotContract(broker)
        /\ \A b \in Batches :
               BatchAccepted(broker, b.envelope, b.commands) =>
                   BatchResultContract(b.envelope, BatchResult(broker, b.envelope, b.commands))

\* A position is the signed sum of its fills with an average between the prices
\* paid on its own side, and the fees of an order are those of its filled
\* quantity rounded once, however many quotes it took (assess_fee).
PositionExplainedByFills ==
    LET Fills == DOMAIN broker.fills
        Fill(n) == broker.fills[n]
    IN  /\ \A key \in DOMAIN broker.positions :
               LET p == broker.positions[key]
                   Own(n) == PositionKey(Fill(n)) = key
                   side == IF p.net > 0 THEN "buy" ELSE "sell"
                   prices == {Fill(n).price : n \in {k \in Fills : Own(k) /\ Fill(k).side = side}}
               IN  /\ p.net = SumOf([n \in Fills |-> IF Own(n) THEN Signed(Fill(n)) ELSE 0])
                   /\ p.fees = SumOf([n \in Fills |-> IF Own(n) THEN Fill(n).fee ELSE 0])
                   /\ p.net # 0 => /\ \E q \in prices : q * p.average[2] <= p.average[1]
                                   /\ \E q \in prices : q * p.average[2] >= p.average[1]
        /\ \A id \in DOMAIN broker.orders :
               LET order == broker.orders[id]
               IN  SumOf([n \in Fills |-> IF Fill(n).order = id THEN Fill(n).fee ELSE 0])
                       = IF order.filled = 0 THEN 0
                         ELSE Fee(order.intent.instrument, 0, order.filled)

NewFills == SubSeq(broker'.fills, Len(broker.fills) + 1, Len(broker'.fills))

\* The orders a quote could fill were it theirs alone.
Contenders(env, top) ==
    {o \in {broker.orders[id] : id \in OpenOrders(broker)} :
        /\ o.intent.instrument = env.payload.instrument
        /\ Eligible(broker, o, env)
        /\ Executable(o, top, top.capacity[o.intent.side])
        /\ LedgerAccepts(broker.positions, PositionKey(o.intent), env.time)}

\* One quote's size is never sold twice, and of two contenders on a side the one
\* accepted first is served in full before the other gets anything (_stage_matches).
QuoteSharedInOrder ==
    [][\A q \in DOMAIN broker'.envelopes \ DOMAIN broker.envelopes :
           LET env == broker'.envelopes[q]
               metadata == Get(broker.instruments, <<env.payload.instrument, env.version>>)
               top == QuoteTop(env.payload, metadata)
               Served(id) == \E f \in ToSet(NewFills) : f.order = id
           IN  NewFills # << >> =>
                 /\ \A side \in {"buy", "sell"} :
                        LET total == SumOf([n \in DOMAIN NewFills |->
                                IF NewFills[n].side = side THEN NewFills[n].quantity ELSE 0])
                        IN  total > 0 => total <= top.capacity[side]
                 /\ \A a, b \in Contenders(env, top) :
                        /\ a.intent.side = b.intent.side
                        /\ broker.ordinals[a.id] < broker.ordinals[b.id]
                        /\ Served(b.id)
                        => broker'.orders[a.id].status = "filled"]_tradingVars

\* No look-ahead: an order is filled only by an envelope committed after it was
\* accepted, with a later ingest sequence than the one that caused it and no
\* earlier than its last change (the N+1 rule of eligibility_sequence).
NoLookAhead ==
    [][\A n \in DOMAIN NewFills :
           LET f == NewFills[n]
           IN  /\ f.order \in OpenOrders(broker)
               /\ f.sequence \notin DOMAIN broker.envelopes
               /\ f.time >= broker.orders[f.order].updated
               /\ broker.orders[f.order].intent.sequence # None =>
                      f.sequence > broker.orders[f.order].intent.sequence]_tradingVars

\* Some envelope filled two orders.
QuoteShared ==
    \E f, g \in ToSet(broker.fills) : f.sequence = g.sequence /\ f.order # g.order

\* Whatever was submitted, cancelled, refused or redelivered, restore_checkpoint
\* accepts what export_checkpoint wrote, as long as no quote filled two orders.
RestorableUnlessQuoteShared ==
    /\ ~QuoteShared => FillIdsRecomputed(broker)
    /\ SessionsAgree(broker) /\ QueueComplete(broker) /\ OrdersHaveSubmits(broker)
    /\ FillsJournalled(broker) /\ OrdersJournalled(broker) /\ PositionsJournalled(broker)
    /\ WithinLimits(broker) /\ FencesComplete(broker) /\ OutcomesKeyed(broker)

=============================================================================
