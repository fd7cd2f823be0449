----------------------------- MODULE CapitalReply -----------------------------
(***************************************************************************)
(* parse_domestic_futures_reply (broker/capital/reply_parser.py): the      *)
(* broker evidence that one OnNewData reply of Capital becomes.            *)
(*                                                                         *)
(* One broker account and MarketType "TF".  A reply is the record of the   *)
(* CSV fields that the parser reads, under their names: numbers are None   *)
(* and identifiers NoId where the field is empty, BuySell is its first     *)
(* character, ComId2 whether any field of a second leg is set, Time None   *)
(* or the instant of Date and Time.  The digest of the event id is the     *)
(* tuple of what it hashes.                                                *)
(***************************************************************************)
EXTENDS LiveOrderReducer, Sequences

\* CapitalOnNewDataRecord
ReplyFields ==
    {"Type", "OrderErr", "BuySell", "ComId", "KeyNo", "SeqNo", "OrderNo", "MsgNo", "Price",
     "Price1", "Qty", "ExecutionNo", "OkSeq", "ComId2", "Time"}

FirstOf(x, y) == IF x # NoId THEN x ELSE y

\* _order_sequence, _fill_id
OrderSequence(r) == FirstOf(r.SeqNo, r.KeyNo)

FillId(r) == FirstOf(r.ExecutionNo, r.OkSeq)

\* The reply is one of an execution; one that timed out is no fill.
IsFill(r) == r.Type = "D" /\ r.OrderErr = "N"

\* _packed_side is a side; a failed cancel may come without one.
SideAccepted(r) ==
    r.BuySell \in {"B", "S"} \/ (r.BuySell = "0" /\ r.Type = "C" /\ r.OrderErr \in {"Y", "T"})

\* _occurred_at: the broker's clock is not ahead.
TimeAccepted(r, receivedAt) == r.Time <= receivedAt

\* _correlation: a clue is there.  The parser never confirms it, nor names an order.
Correlation(r) ==
    [status   |-> IF {r.KeyNo, r.SeqNo} \ {NoId} = {OrderSequence(r)} \ {NoId}
                  THEN "candidate" ELSE "ambiguous",
     sequence |-> OrderSequence(r), book |-> r.OrderNo,
     fill     |-> IF r.Type = "D" THEN FillId(r) ELSE NoId]

CorrelationAccepted(r) ==
    \E clue \in {"sequence", "book", "fill"} : Correlation(r)[clue] # NoId

\* _event_id: broker evidence only; quantities before and after, and times, are not in it.
EventId(r) ==
    IF r.Type = "D"
    THEN <<"fill", r.ComId, OrderSequence(r), r.OrderNo, FillId(r), r.Price1, r.Qty>>
    ELSE <<"order", r.Type, r.OrderErr, r.ComId, OrderSequence(r), r.OrderNo, r.MsgNo,
           r.Price, r.Qty>>

OrderEventType(r) ==
    CASE r.OrderErr = "T" -> "outcome_unknown"
      [] r.Type = "S"     -> "dynamic_cancelled"
      [] r.OrderErr = "N" -> [N |-> "new_accepted", C |-> "cancelled",
                              U |-> "quantity_decreased", P |-> "price_amended",
                              B |-> "price_and_quantity_amended"][r.Type]
      [] OTHER            -> [N |-> "new_rejected", C |-> "cancel_rejected",
                              U |-> "amend_rejected", P |-> "amend_rejected",
                              B |-> "amend_rejected"][r.Type]

EventType(r) == IF IsFill(r) THEN "fill" ELSE OrderEventType(r)

\* decreased_quantity, or the quantity of a fill.
EventQuantity(r) ==
    IF EventType(r) \in {"fill", "quantity_decreased", "price_and_quantity_amended"}
    THEN r.Qty ELSE None

\* new_limit_price, or execution_price
EventPrice(r) ==
    IF IsFill(r) THEN r.Price1
    ELSE IF EventType(r) \in {"price_amended", "price_and_quantity_amended"} THEN r.Price
    ELSE None

\* _positive_decimal wherever the number is required.
NumbersAccepted(r) ==
    /\ EventType(r) \in {"fill", "quantity_decreased", "price_and_quantity_amended"} => r.Qty > 0
    /\ EventType(r) \in {"price_amended", "price_and_quantity_amended"} => r.Price > 0
    /\ IsFill(r) => r.Price1 > 0

\* What only an execution is asked for: one leg, no failure, its identifier.
FillAccepted(r) ==
    /\ r.Type = "D" => ~r.ComId2 /\ r.OrderErr # "Y"
    /\ IsFill(r) => FillId(r) # NoId

\* No CapitalReplyParseError.
Parses(r, receivedAt) ==
    /\ DOMAIN r = ReplyFields
    /\ r.Type \in {"N", "C", "U", "P", "D", "B", "S"} /\ r.OrderErr \in {"N", "Y", "T"}
    /\ SideAccepted(r) /\ TimeAccepted(r, receivedAt)
    /\ CorrelationAccepted(r)
    /\ FillAccepted(r) /\ NumbersAccepted(r)

\* The evidence of a reply, for buy orders of one instrument.
Parse(r, instrument) ==
    [id |-> EventId(r), type |-> EventType(r), quantity |-> EventQuantity(r),
     price |-> EventPrice(r), fill |-> IF IsFill(r) THEN FillId(r) ELSE NoId,
     mine |-> r.ComId = instrument /\ (IsFill(r) => r.BuySell = "B")]
=============================================================================
