---------------------------- MODULE BoundedIngress ----------------------------
(***************************************************************************)
(* The four bounded lanes of tx_trade/market_data/ingress.py between the   *)
(* broker's callbacks and the pipeline, as operators on the record of the  *)
(* fields of BoundedIngress.  Every operator is one block under its lock.  *)
(***************************************************************************)
EXTENDS Integers, Sequences, SequencesExt

CONSTANTS
    Capacity,           \* Capacity[lane]
    DedupeCapacity,     \* of the cache of recent keys
    BurstLimit,         \* priority_burst_limit
    NoKey               \* the dedupe key of an event that has none

CriticalLanes == {"diagnostic", "control"}
MarketLanes == {"quote", "tick"}
Lanes == CriticalLanes \cup MarketLanes

ASSUME IngressAssumption ==
    /\ Capacity \in [Lanes -> Nat \ {0}]
    /\ DedupeCapacity \in Nat \ {0} /\ BurstLimit \in Nat \ {0}

\* A captured event: its lane, instrument (of a quote), sequence and dedupe key.
EmptyIngress ==
    [queue |-> [lane \in Lanes |-> <<>>],   \* the quotes hold one event per instrument
     recent |-> <<>>,                       \* dedupe keys, least recent first
     turn |-> [critical |-> "diagnostic", market |-> "quote"],
     burst |-> 0]

IsFull(g, lane) == Len(g.queue[lane]) >= Capacity[lane]

PendingQuote(g, e) ==
    {i \in DOMAIN g.queue["quote"] : g.queue["quote"][i].instrument = e.instrument}

QuoteDecision(g, e) ==
    IF PendingQuote(g, e) # {}
    THEN IF \E i \in PendingQuote(g, e) : e.sequence <= g.queue["quote"][i].sequence
         THEN "duplicate" ELSE "coalesced"
    ELSE IF IsFull(g, "quote") THEN "dropped" ELSE "accepted"

\* try_publish
Decision(g, e) ==
    IF e.key # NoKey /\ Contains(g.recent, e.key) THEN "duplicate"
    ELSE IF e.lane = "quote" THEN QuoteDecision(g, e)
    ELSE IF IsFull(g, e.lane) THEN "dropped" ELSE "accepted"

\* A replacement is kept at the original queue position.
Enqueue(g, e, decision) ==
    CASE decision = "accepted" -> Append(g.queue[e.lane], e)
      [] decision = "coalesced" ->
            [i \in DOMAIN g.queue["quote"] |->
                IF i \in PendingQuote(g, e) THEN e ELSE g.queue["quote"][i]]
      [] OTHER -> g.queue[e.lane]

Without(s, key) == SelectSeq(s, LAMBDA k : k # key)

\* _remember and move_to_end: the key becomes the most recent; the oldest is forgotten.
\* A quote that is a duplicate by its sequence leaves the cache alone.
Touch(g, e, decision) ==
    IF \/ e.key = NoKey \/ decision = "dropped"
       \/ decision = "duplicate" /\ ~Contains(g.recent, e.key)
    THEN g.recent
    ELSE LET touched == Append(Without(g.recent, e.key), e.key)
         IN  IF Len(touched) > DedupeCapacity THEN Tail(touched) ELSE touched

TryPublish(g, e) ==
    [g EXCEPT !.queue[e.lane] = Enqueue(g, e, Decision(g, e)),
              !.recent = Touch(g, e, Decision(g, e))]

-----------------------------------------------------------------------------

Waiting(g, lanes) == {lane \in lanes : g.queue[lane] # <<>>}

IsEmpty(g) == Waiting(g, Lanes) = {}

PrefersCritical(g) ==
    /\ Waiting(g, CriticalLanes) # {}
    /\ Waiting(g, MarketLanes) = {} \/ g.burst < BurstLimit

\* _pop_critical, _pop_market: two waiting lanes take turns.
PickLane(g, class, lanes) ==
    IF Waiting(g, lanes) = lanes THEN g.turn[class] ELSE CHOOSE l \in Waiting(g, lanes) : TRUE

NextLane(g) ==
    IF PrefersCritical(g) THEN PickLane(g, "critical", CriticalLanes)
    ELSE PickLane(g, "market", MarketLanes)

NextEvent(g) == Head(g.queue[NextLane(g)])

\* The other lane's turn comes, if both were waiting.
NextTurn(g, class, lanes) ==
    IF Waiting(g, lanes) = lanes THEN CHOOSE l \in lanes : l # g.turn[class]
    ELSE g.turn[class]

\* try_pop of a lane that is not empty
TryPop(g) ==
    [queue  |-> [g.queue EXCEPT ![NextLane(g)] = Tail(@)],
     recent |-> g.recent,
     turn   |-> IF PrefersCritical(g)
                THEN [g.turn EXCEPT !.critical = NextTurn(g, "critical", CriticalLanes)]
                ELSE [g.turn EXCEPT !.market = NextTurn(g, "market", MarketLanes)],
     burst  |-> IF ~PrefersCritical(g) THEN 0
                ELSE IF g.burst < BurstLimit THEN g.burst + 1 ELSE BurstLimit]
=============================================================================
