------------------------------ MODULE LiveOrder ------------------------------
(***************************************************************************)
(* One live order under its callers (create, validate, submit, cancel,     *)
(* amend, decrease) and under broker and transport evidence that may be    *)
(* late, repeated, reordered, contradictory or about another order.  Every *)
(* step goes through the reducer of LiveOrderReducer, and the applied-event*)
(* ledger travels with the order as it does in ReductionResult.            *)
(***************************************************************************)
EXTENDS LiveOrderReducer, FiniteSetsExt

CONSTANTS
    EventIds,       \* broker event_id values
    Times,          \* the UTC instants that inputs may carry
    Prices,         \* limit and execution prices
    Quantities,     \* quantities of fills, decreases and commands
    IntentChoices   \* the intents an order may be created from

ASSUME InputsAssumption ==
    /\ Times \subseteq Nat \ {0}
    /\ Prices \subseteq Nat \ {0}
    /\ Quantities \subseteq Nat \ {0}
    /\ IntentChoices \subseteq Intents

VARIABLES
    order,      \* the LiveOrder
    ledger,     \* AppliedEventLedger, as a set of entries
    issued      \* commands that were ever bound to the order

vars == <<order, ledger, issued>>

\* Exact commands; a client_command_id is used for one command only.
CommandInputs ==
    {c \in [id : CommandIds, kind : CommandKinds, price : Prices \cup {None},
            expectedTotal : Quantities \cup {None}, newTotal : Quantities \cup {None},
            boundAt : Times] :
        /\ c.kind = "amend" <=> c.price > 0
        /\ c.kind = "decrease" => c.newTotal > 0 /\ c.newTotal < c.expectedTotal
        /\ c.kind # "decrease" => c.newTotal = None /\ c.expectedTotal = None}

OrderEvents ==
    {e \in [id : EventIds, type : OrderEventTypes, quantity : Quantities \cup {None},
            price : Prices \cup {None}, mine : BOOLEAN, confirmed : BOOLEAN,
            receivedAt : Times, occurredAt : Times \cup {None}] :
        OrderEventContract(e) /\ EventTimesContract(e)}

FillEvents ==
    {e \in [id : EventIds, type : {"fill"}, quantity : Quantities, price : Prices,
            mine : BOOLEAN, confirmed : BOOLEAN,
            receivedAt : Times, occurredAt : Times \cup {None}] :
        FillEventContract(e) /\ EventTimesContract(e)}

Unissued(c) == \A d \in issued : d.id # c.id

Init ==
    /\ \E intent \in IntentChoices, at \in Times : order = CreateLiveOrder(intent, at)
    /\ ledger = {}
    /\ issued = {}

-----------------------------------------------------------------------------

Validate(at) ==
    /\ MayAdvance(order, "validated", NoCommand, at)
    /\ order' = AdvanceLocal(order, "validated", NoCommand, at)
    /\ UNCHANGED <<ledger, issued>>

Submit(c, at) ==
    /\ Unissued(c)
    /\ MayAdvance(order, "submitting", c, at)
    /\ order' = AdvanceLocal(order, "submitting", c, at)
    /\ issued' = issued \cup {c}
    /\ UNCHANGED ledger

StartReconciling(at) ==
    /\ MayAdvance(order, "reconciling", NoCommand, at)
    /\ order' = AdvanceLocal(order, "reconciling", NoCommand, at)
    /\ UNCHANGED <<ledger, issued>>

Cancel(c, at) ==
    /\ Unissued(c)
    /\ MayRequestCancel(order, c, at)
    /\ order' = RequestCancel(order, c, at)
    /\ issued' = issued \cup {c}
    /\ UNCHANGED ledger

Operate(c, at) ==
    /\ Unissued(c)
    /\ MayBindOperation(order, c, at)
    /\ order' = BindOperation(order, c, at)
    /\ issued' = issued \cup {c}
    /\ UNCHANGED ledger

\* A receipt for any command that was ever bound, however late.
Receipt(c, s, at) ==
    /\ LET r == ReduceDispatch(order, [command |-> c, state |-> s, at |-> at], ledger)
       IN  order' = r.order /\ ledger' = r.ledger
    /\ UNCHANGED issued

BrokerOrderEvent(e) ==
    /\ LET r == ReduceOrderEvent(order, e, ledger)
       IN  order' = r.order /\ ledger' = r.ledger
    /\ UNCHANGED issued

BrokerFillEvent(e) ==
    /\ LET r == ReduceFillEvent(order, e, ledger)
       IN  order' = r.order /\ ledger' = r.ledger
    /\ UNCHANGED issued

Next ==
    \/ \E at \in Times : Validate(at)
    \/ \E at \in Times : StartReconciling(at)
    \/ \E at \in Times, c \in CommandInputs : Submit(c, at)
    \/ \E at \in Times, c \in CommandInputs : Cancel(c, at)
    \/ \E at \in Times, c \in CommandInputs : Operate(c, at)
    \/ \E c \in issued, s \in DispatchStates, at \in Times : Receipt(c, s, at)
    \/ \E e \in OrderEvents : BrokerOrderEvent(e)
    \/ \E e \in FillEvents : BrokerFillEvent(e)

Spec == Init /\ [][Next]_vars

-----------------------------------------------------------------------------
(* Properties *)

\* The order, the bound commands and the ledger entries have the shapes of their
\* dataclasses; a ledger entry is keyed by a command or by a broker event.
TypeOK ==
    /\ order \in Orders
    /\ issued \subseteq Commands
    /\ \A a \in ledger : \/ a.source = "dispatch" /\ a.id \in CommandIds
                         \/ a.source = "broker-event" /\ a.id \in EventIds

\* No reducer step ever builds an order that LiveOrder.__post_init__ refuses: the
\* transition table of live_state_machine.py and the contract of live_contracts.py
\* agree in every reachable state, so evidence never makes the reducer raise.
ReducerMeetsContract == LiveOrderContract(order)

\* Why the contract is preserved: an order that is not terminal still has something
\* to execute, so that returning it to its open state never yields a full fill.
OpenOrderHasRemainder == HasRemainder(order)

Applied(what) == {a \in ledger : a.source = "broker-event" /\ a.fingerprint.what = what}

QuantityOf(entries) == MapThenSumSet(LAMBDA a : a.fingerprint.quantity, entries)

\* The order's quantities are exactly what the ledger's distinct events explain:
\* redelivered, reordered or contradictory evidence never counts a fill or a
\* decrease twice, and none is dropped once recorded.
QuantitiesExplainedByLedger ==
    /\ order.filled = QuantityOf(Applied("fill"))
    /\ order.total = order.intent.quantity - QuantityOf(Applied("quantity_decreased"))

\* Rejected and filled are final; a cancelled order may only collect late fills.
TerminalOrdersStayTerminal ==
    [][/\ order.state \in {"filled", "rejected"} => order' = order
       /\ order.state = "cancelled" =>
             /\ order'.state \in {"cancelled", "filled"}
             /\ order'.total = order.total /\ order'.filled >= order.filled]_vars

\* A command with an open outcome is released by newly applied broker evidence and
\* by nothing else: neither a receipt nor a local step forgets it.
BindingReleasedByBrokerOnly ==
    [][order.pending # NoCommand /\ order'.pending # order.pending =>
          /\ order'.pending = NoCommand
          /\ \E a \in ledger' \ ledger : a.source = "broker-event"]_vars

Takes(o, e) ==
    IF e.type = "fill"
    THEN IF AdmitsFill(o, e) THEN ApplyFill(o, e) ELSE o
    ELSE IF Admits(o, e) THEN ApplyOrderEvent(o, e) ELSE o

Outcome(o) == <<o.state, o.total, o.filled, o.remaining, o.hasAverage, o.pending>>

RacingEvents ==
    {e \in OrderEvents \cup FillEvents :
        /\ e.type \in {"new_accepted", "cancelled", "fill"}
        /\ e.id = CHOOSE id \in EventIds : TRUE
        /\ e.mine /\ e.confirmed /\ e.occurredAt = None}

\* Acceptance, cancellation and fills reach the same order in whichever order the
\* broker's reports arrive.  One state is excepted for acceptance against a fill:
\* a reconciling order keeps its binding through a partial fill.
EvidenceOrderIrrelevant ==
    \A e, f \in RacingEvents :
        \/ e.type = f.type
        \/ order.state = "reconciling" /\ {e.type, f.type} = {"new_accepted", "fill"}
        \/ Outcome(Takes(Takes(order, e), f)) = Outcome(Takes(Takes(order, f), e))
=============================================================================
