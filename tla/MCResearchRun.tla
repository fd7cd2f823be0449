---------------------------- MODULE MCResearchRun ----------------------------
(* Two runners, one strategy, five envelopes: the order is placed at the    *)
(* instrument's description and filled by two quotes in two parts.          *)
EXTENDS ResearchRun

CONSTANTS A, S1, TX, TWD, Feed

MCSlippage == [mode |-> "none", value |-> 0]

MCFeeRules == TX :> [amount |-> 3, quantum |-> 4, currency |-> TWD]

MCLimits == [orders |-> 1, open |-> 1, fills |-> 3, events |-> 8,
             records |-> 6, versions |-> 1, positions |-> 1]

Template(quantity) ==
    [strategy |-> "s", client |-> "c1", account |-> A, instrument |-> TX,
     side |-> "buy", quantity |-> quantity, limit |-> 12]

MCSettings == {<<[strategy |-> "s", template |-> Template(q)]>> : q \in {2, 3}}

Envelope(kind, sequence, payload) ==
    [kind |-> kind, session |-> S1, source |-> Feed, sequence |-> sequence, dedupe |-> sequence,
     time |-> sequence, version |-> 1, payload |-> payload]

Quoted(ask, quantity) ==
    [instrument |-> TX, price_scale |-> 1, simulated |-> FALSE,
     bid |-> 9, ask |-> ask, bid_qty |-> 1, ask_qty |-> quantity]

Described == [instrument |-> TX, version |-> 1, price_scale |-> 1, quantity_scale |-> 1,
              currency |-> TWD]

MCSource ==
    <<Envelope("quote", 1, Quoted(11, 1)), Envelope("instrument", 2, Described),
      Envelope("quote", 4, Quoted(11, 2)), Envelope("instrument", 5, Described),
      Envelope("quote", 6, Quoted(12, 3))>>

=============================================================================
