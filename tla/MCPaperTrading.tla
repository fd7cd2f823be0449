--------------------------- MODULE MCPaperTrading ---------------------------
(* Two strategies' orders on one instrument, four envelopes, two of them quotes. *)
EXTENDS PaperTrading

CONSTANTS A, S1, S2, TX, TWD, Feed

MCSlippage == [mode |-> "absolute", value |-> 1]

\* A fee of 3 per unit rounded half up to 4.
MCFeeRules == TX :> [amount |-> 3, quantum |-> 4, currency |-> TWD]

MCLimits == [orders |-> 3, open |-> 2, fills |-> 3, events |-> 9,
             records |-> 3, versions |-> 1, positions |-> 1]

Intent(client, side, quantity, limit, created, session, sequence) ==
    [kind |-> "order", strategy |-> "s", client |-> client, account |-> A, instrument |-> TX,
     side |-> side, quantity |-> quantity, limit |-> limit, created |-> created,
     session |-> session, sequence |-> sequence]

CancelOf(client, requested, session, sequence) ==
    [kind |-> "cancel", strategy |-> "s", client |-> client, order |-> <<"s", client>>,
     requested |-> requested, session |-> session, sequence |-> sequence]

MCIntents ==
    {Intent("c1", "buy", 3, None, 1, None, None), Intent("c1", "buy", 1, 11, 1, None, None),
     Intent("c2", "buy", 2, 12, 1, S1, 1), Intent("c3", "sell", 4, None, 1, S2, 0)}

MCRequests == {CancelOf("c1", 2, None, None), CancelOf("c1", 3, S1, 2)}

Envelope(kind, sequence, time, payload) ==
    [kind |-> kind, session |-> S1, source |-> Feed, sequence |-> sequence, dedupe |-> sequence,
     time |-> time, version |-> 1, payload |-> payload]

Quoted(bid, ask, bidQty, askQty) ==
    [instrument |-> TX, price_scale |-> 1, simulated |-> FALSE,
     bid |-> bid, ask |-> ask, bid_qty |-> bidQty, ask_qty |-> askQty]

Described == [instrument |-> TX, version |-> 1, price_scale |-> 1, quantity_scale |-> 1,
              currency |-> TWD]

MCBatches ==
    {[envelope |-> Envelope("instrument", 0, 1, Described), commands |-> << >>],
     [envelope |-> Envelope("quote", 1, 2, Quoted(9, 11, None, 1)),
      commands |-> <<Intent("c4", "sell", 2, 8, 2, S1, 1)>>],
     [envelope |-> Envelope("quote", 2, 3, Quoted(8, 10, 1, 3)),
      commands |-> <<CancelOf("c4", 3, S1, 2), Intent("c2", "buy", 2, 13, 3, S1, 2)>>],
     [envelope |-> Envelope("quote", 3, 1, Quoted(9, 10, 3, 3)), commands |-> << >>],
     [envelope |-> Envelope("other", 3, 4, Described), commands |-> << >>]}

=============================================================================
