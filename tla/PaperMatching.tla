---------------------------- MODULE PaperMatching ----------------------------
(***************************************************************************)
(* The pure part of paper execution: the contracts of orders, fills and    *)
(* positions (orders/contracts.py), the order status graph                 *)
(* (orders/state_machine.py), the reading of a quote's top of book         *)
(* (orders/matching.py), slippage, limit and fee policies                  *)
(* (orders/execution_policies.py) and the signed net position ledger       *)
(* (orders/position_ledger.py).                                            *)
(*                                                                         *)
(* Decimals are integers in a unit fine enough for the instance. The       *)
(* average price of an order is kept as its notional (quantity times       *)
(* average) and that of a position as a fraction, so that the model does   *)
(* not round where the code rounds at 34 digits.                           *)
(***************************************************************************)
EXTENDS Integers, Sequences, FiniteSets

CONSTANTS
    None,       \* Python's None
    Slippage,   \* SlippageConfig: [mode, value]
    FeeRules    \* PaperFeeSchedule: a function from instruments to rules; ZERO when its domain is empty

SlippageConfigContract ==
    /\ Slippage.mode \in {"none", "basis_points", "absolute"}
    /\ CASE Slippage.mode = "none" -> Slippage.value = 0
         [] Slippage.mode = "basis_points" -> Slippage.value \in 1 .. 9999
         [] OTHER -> Slippage.value \in Nat \ {0}

PaperFeeScheduleContract ==
    \A i \in DOMAIN FeeRules :
        /\ FeeRules[i].amount \in Nat \ {0} /\ FeeRules[i].quantum \in Nat \ {0}
        /\ FeeRules[i].currency # None

ASSUME NoneIsNoNumber == None \notin Int /\ None \notin Int \X Int

ASSUME ExecutionConfigured == SlippageConfigContract /\ PaperFeeScheduleContract

----------------------------------------------------------------------------
(* Contracts *)

TerminalStatuses == {"filled", "cancelled", "rejected"}

\* OrderIntent: a market order has no limit, source session and sequence come together.
OrderIntentContract(i) ==
    /\ i.side \in {"buy", "sell"}
    /\ i.quantity > 0
    /\ i.limit = None \/ i.limit > 0
    /\ (i.session = None) <=> (i.sequence = None)

CancelIntentContract(c) == (c.session = None) <=> (c.sequence = None)

\* PaperOrder; the quantities and times a status admits.
PaperOrderContract(o) ==
    /\ o.filled >= 0 /\ o.remaining >= 0
    /\ o.filled + o.remaining = o.intent.quantity
    /\ (o.filled = 0) <=> (o.notional = 0)
    /\ CASE o.status = "accepted" -> o.filled = 0
         [] o.status = "partially_filled" -> o.filled \in 1 .. (o.intent.quantity - 1)
         [] o.status = "filled" -> o.filled = o.intent.quantity
         [] o.status = "cancelled" -> o.remaining > 0
         [] OTHER -> FALSE
    /\ o.accepted >= o.intent.created
    /\ o.updated >= o.accepted

\* PaperFill: adverse slippage only, a currency exactly when there is a fee.
PaperFillContract(f) ==
    /\ f.quantity > 0 /\ f.price > 0 /\ f.fee >= 0
    /\ f.side = "buy" => f.price >= f.reference
    /\ f.side = "sell" => f.price <= f.reference
    /\ (f.fee = 0) <=> (f.currency = None)

\* PaperPosition: an average exactly when the position is open.
PaperPositionContract(p) ==
    /\ (p.net = 0) <=> (p.average = None)
    /\ p.fees >= 0
    /\ (p.fees = 0) <=> (p.currency = None)
    /\ p.version > 0

AllowedTransitions ==
    [accepted |-> {"partially_filled", "filled", "cancelled"},
     partially_filled |-> {"partially_filled", "filled", "cancelled"},
     filled |-> {}, cancelled |-> {}, rejected |-> {}]

\* validate_order_transition
LegalTransition(old, new) ==
    /\ new.id = old.id /\ new.intent = old.intent /\ new.accepted = old.accepted
    /\ new.status \in AllowedTransitions[old.status]
    /\ new.updated >= old.updated
    /\ new.filled >= old.filled
    /\ new.remaining <= old.remaining
    /\ new.filled = old.filled => new.notional = old.notional
    /\ new.status = "partially_filled" => new.filled > old.filled
    /\ new.status = "cancelled" => new.filled = old.filled

----------------------------------------------------------------------------
(* Quote top *)

\* The quotes inspect_quote_top turns into a QuoteTop; it skips every other one.
Usable(quote, metadata) ==
    /\ metadata # None
    /\ quote.instrument = metadata.instrument
    /\ metadata.price_scale # None /\ quote.price_scale = metadata.price_scale
    /\ metadata.quantity_scale # None
    /\ quote.simulated = FALSE
    /\ quote.bid # None /\ quote.ask # None
    /\ quote.bid > 0 /\ quote.ask > 0 /\ quote.bid <= quote.ask

Capacity(raw, scale) == IF raw = None THEN None ELSE raw * scale

\* The capacities are the two sides' own: a buy takes from the ask.
QuoteTop(quote, metadata) ==
    [price |-> [buy |-> quote.ask, sell |-> quote.bid],
     capacity |-> [buy |-> Capacity(quote.ask_qty, metadata.quantity_scale),
                   sell |-> Capacity(quote.bid_qty, metadata.quantity_scale)],
     currency |-> metadata.currency]

\* No worse than the limit: assess_limit, and execution_price before slippage.
WithinLimit(price, intent) ==
    \/ intent.limit = None
    \/ intent.side = "buy" /\ price <= intent.limit
    \/ intent.side = "sell" /\ price >= intent.limit

----------------------------------------------------------------------------
(* Slippage and fees *)

SlippageDelta(price) ==
    CASE Slippage.mode = "none" -> 0
      [] Slippage.mode = "basis_points" -> (price * Slippage.value) \div 10000
      [] OTHER -> Slippage.value

SlippedPrice(price, side) ==
    IF side = "buy" THEN price + SlippageDelta(price) ELSE price - SlippageDelta(price)

\* assess_slippage raises SLIPPAGE_UNREPRESENTABLE otherwise, and the order is skipped.
SlippageRepresentable(price, side) ==
    /\ Slippage.mode = "none" \/ SlippageDelta(price) > 0
    /\ SlippedPrice(price, side) > 0

\* assess_fee raises FEE_RULE_MISSING, FEE_CURRENCY_MISSING or FEE_CURRENCY_MISMATCH otherwise.
FeeAssessable(instrument, currency) ==
    \/ DOMAIN FeeRules = {}
    \/ instrument \in DOMAIN FeeRules /\ FeeRules[instrument].currency = currency

\* The fee of the first q units of an order, rounded half up to the quantum.
CumulativeFee(rule, q) ==
    ((2 * rule.amount * q + rule.quantum) \div (2 * rule.quantum)) * rule.quantum

\* Fault: every fill is rounded on its own.
FeeOfFill(instrument, before, after) ==
    IF DOMAIN FeeRules = {} THEN 0 ELSE CumulativeFee(FeeRules[instrument], after - before)

\* The fee of one fill is the difference of two cumulative fees.
Fee(instrument, before, after) ==
    IF DOMAIN FeeRules = {} THEN 0
    ELSE CumulativeFee(FeeRules[instrument], after) - CumulativeFee(FeeRules[instrument], before)

FeeCurrency(instrument, fee) == IF fee = 0 THEN None ELSE FeeRules[instrument].currency

----------------------------------------------------------------------------
(* Position ledger *)

Signed(fill) == IF fill.side = "buy" THEN fill.quantity ELSE -fill.quantity

Abs(n) == IF n < 0 THEN -n ELSE n

SameSign(a, b) == (a > 0) <=> (b > 0)

\* Fractions in lowest terms, so that equal averages are equal values.
Fraction(num, den) ==
    LET Common == {d \in 1 .. den : num % d = 0 /\ den % d = 0}
        gcd == CHOOSE d \in Common : \A e \in Common : e <= d
    IN  <<num \div gcd, den \div gcd>>

\* The average open price after a fill: extended, kept on a reduction, dropped
\* when the position is closed, and the fill's price when it is turned over.
NextAverage(net, average, fill) ==
    LET delta == Signed(fill)
        new == net + delta
    IN  IF net = 0 THEN <<fill.price, 1>>
        ELSE IF SameSign(net, delta)
             THEN Fraction(Abs(net) * average[1] + Abs(delta) * fill.price * average[2],
                           Abs(new) * average[2])
        ELSE IF new = 0 THEN None
        ELSE IF SameSign(new, net) THEN average
        ELSE <<fill.price, 1>>

EmptyPosition == [net |-> 0, average |-> None, fees |-> 0, currency |-> None, version |-> 0]

\* The ledger refuses a fill older than the position.
LedgerAccepts(positions, key, time) == key \in DOMAIN positions => time >= positions[key].updated

\* The currency of a position is that of its instrument's fee rule.
ApplyFillToPosition(old, fill) ==
    [key |-> <<fill.strategy, fill.account, fill.instrument>>,
     net |-> old.net + Signed(fill),
     average |-> NextAverage(old.net, old.average, fill),
     fees |-> old.fees + fill.fee,
     currency |-> IF fill.fee # 0 /\ old.currency = None THEN fill.currency ELSE old.currency,
     version |-> old.version + 1,
     updated |-> fill.time]

=============================================================================
