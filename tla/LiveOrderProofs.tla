--------------------------- MODULE LiveOrderProofs ---------------------------
(***************************************************************************)
(* Theorems about LiveOrder, for any identifiers, times, prices and        *)
(* quantities.  The inductive invariant adds to the contract of            *)
(* LiveOrder.__post_init__ that an order which is not terminal still has a *)
(* remainder and that an unknown submission still holds its NEW command:   *)
(* without them the contract is not preserved by _broker_transition.       *)
(***************************************************************************)
EXTENDS LiveOrder, LiveOrderReducerProofs, TLAPS

IInv == TypeOK /\ ReducerMeetsContract /\ OpenOrderHasRemainder

\* Inputs are natural numbers, with 0 for the absent ones.
LEMMA InputsAreNatural ==
    /\ \A t \in Times : t \in Nat \ {0}
    /\ \A t \in Times \cup {None} : t \in Nat
    /\ \A p \in Prices \cup {None} : p \in Nat
    /\ \A q \in Quantities : q \in Nat \ {0}
    /\ \A q \in Quantities \cup {None} : q \in Nat
  BY InputsAssumption DEF None

\* The evidence that the model enumerates meets the contracts of its dataclasses.
LEMMA EventInputs ==
    /\ \A e \in OrderEvents : OrderEventContract(e) /\ EventTimesContract(e) /\ e.id \in EventIds
    /\ \A e \in FillEvents : FillEventContract(e) /\ EventTimesContract(e) /\ e.id \in EventIds
  <1>1. ASSUME NEW e \in OrderEvents PROVE e.id \in EventIds
    <2>1. e \in [id : EventIds, type : OrderEventTypes, quantity : Quantities \cup {None},
                 price : Prices \cup {None}, mine : BOOLEAN, confirmed : BOOLEAN,
                 receivedAt : Times, occurredAt : Times \cup {None}]
      BY Zenon DEF OrderEvents
    <2> QED
      BY <2>1
  <1>2. ASSUME NEW e \in FillEvents PROVE e.id \in EventIds
    <2>1. e \in [id : EventIds, type : {"fill"}, quantity : Quantities, price : Prices,
                 mine : BOOLEAN, confirmed : BOOLEAN,
                 receivedAt : Times, occurredAt : Times \cup {None}]
      BY Zenon DEF FillEvents
    <2> QED
      BY <2>1
  <1> QED
    BY <1>1, <1>2, Zenon DEF OrderEvents, FillEvents

\* The commands that callers pass are exact commands.
LEMMA CommandInputsAreCommands == CommandInputs \subseteq Commands
  BY InputsAreNatural DEF CommandInputs, Commands

-----------------------------------------------------------------------------

\* The invariant holds of a freshly created order.
LEMMA InitIInv == Init => IInv
  <1> SUFFICES ASSUME Init PROVE IInv
    OBVIOUS
  <1>1. PICK intent \in IntentChoices, at \in Times : order = CreateLiveOrder(intent, at)
    BY DEF Init
  <1>2. intent \in Intents /\ at \in Nat
    BY InputsAssumption
  <1>3. GoodOrder(order)
    BY <1>1, <1>2, CreateGood
  <1>4. QED
    BY <1>3 DEF Init, IInv, GoodOrder, TypeOK, ReducerMeetsContract, OpenOrderHasRemainder

\* Each step of a caller, of the transport or of the broker preserves the invariant.
LEMMA NextIInv == IInv /\ [Next]_vars => IInv'
  <1> SUFFICES ASSUME IInv, [Next]_vars PROVE IInv'
    OBVIOUS
  <1> DEFINE LedgerOK == \A a \in ledger : \/ a.source = "dispatch" /\ a.id \in CommandIds
                                           \/ a.source = "broker-event" /\ a.id \in EventIds
  <1>g. GoodOrder(order) /\ issued \subseteq Commands /\ LedgerOK
    BY DEF IInv, TypeOK, ReducerMeetsContract, OpenOrderHasRemainder, GoodOrder
  <1>n. NoCommand \in Commands \cup {NoCommand} /\ Times \subseteq Nat
    BY InputsAssumption
  <1>r. ASSUME GoodOrder(order)', (issued \subseteq Commands)', LedgerOK'
        PROVE  IInv'
    BY <1>r DEF IInv, TypeOK, ReducerMeetsContract, OpenOrderHasRemainder, GoodOrder
  <1>c. ASSUME NEW c \in CommandInputs, issued' = issued \cup {c}
        PROVE  (issued \subseteq Commands)'
    BY <1>c, <1>g, CommandInputsAreCommands
  <1>1. ASSUME NEW at \in Times, Validate(at)
        PROVE  IInv'
    BY <1>1, <1>g, <1>n, <1>r, AdvanceGood DEF Validate
  <1>2. ASSUME NEW at \in Times, StartReconciling(at)
        PROVE  IInv'
    BY <1>2, <1>g, <1>n, <1>r, AdvanceGood DEF StartReconciling
  <1>3. ASSUME NEW at \in Times, NEW c \in CommandInputs, Submit(c, at)
        PROVE  IInv'
    BY <1>3, <1>g, <1>n, <1>r, <1>c, AdvanceGood, CommandInputsAreCommands DEF Submit
  <1>4. ASSUME NEW at \in Times, NEW c \in CommandInputs, Cancel(c, at)
        PROVE  IInv'
    BY <1>4, <1>g, <1>n, <1>r, <1>c, CancelGood, CommandInputsAreCommands DEF Cancel
  <1>5. ASSUME NEW at \in Times, NEW c \in CommandInputs, Operate(c, at)
        PROVE  IInv'
    BY <1>5, <1>g, <1>n, <1>r, <1>c, OperateGood, CommandInputsAreCommands DEF Operate
  <1>6. ASSUME NEW c \in issued, NEW s \in DispatchStates, NEW at \in Times, Receipt(c, s, at)
        PROVE  IInv'
    <2> DEFINE r == ReduceDispatch(order, [command |-> c, state |-> s, at |-> at], ledger)
    <2>1. GoodOrder(r.order) /\ c.id \in CommandIds
      BY <1>g, <1>n, DispatchGood, CommandIsSomething
    <2>2. \A a \in r.ledger : a \in ledger \/ (a.source = "dispatch" /\ a.id = c.id)
      <3> DEFINE m == [command |-> c, state |-> s, at |-> at]
      <3>1. m.command = c /\ r = ReduceDispatch(order, m, ledger)
        OBVIOUS
      <3> HIDE DEF r, m
      <3>2. r.ledger = ledger \/ r.ledger = ledger \cup
                                   {Entry("dispatch", m.command.id, ReceiptFingerprint(m))}
        BY <3>1, DispatchResult, Zenon
      <3>3. QED
        BY <3>1, <3>2 DEF Entry
    <2>3. order' = r.order /\ ledger' = r.ledger /\ issued' = issued
      BY <1>6 DEF Receipt
    <2> HIDE DEF r
    <2>4. QED
      BY <1>g, <1>r, <2>1, <2>2, <2>3
  <1>7. ASSUME NEW e \in OrderEvents, BrokerOrderEvent(e)
        PROVE  IInv'
    <2> DEFINE r == ReduceOrderEvent(order, e, ledger)
    <2>1. r.order = order \/ (Admits(order, e) /\ r.order = ApplyOrderEvent(order, e))
      BY OrderEventResult, Zenon
    <2>2. GoodOrder(r.order) /\ e.id \in EventIds
      BY <1>g, <2>1, OrderEventGood, EventInputs
    <2>3. \A a \in r.ledger : a \in ledger \/ (a.source = "broker-event" /\ a.id = e.id)
      <3>1. r.ledger = ledger \/ r.ledger = ledger \cup
                                   {Entry("broker-event", e.id, EventFingerprint(e))}
        BY OrderEventResult, Zenon
      <3> HIDE DEF r
      <3>2. QED
        BY <3>1 DEF Entry
    <2>4. order' = r.order /\ ledger' = r.ledger /\ issued' = issued
      BY <1>7 DEF BrokerOrderEvent
    <2> HIDE DEF r
    <2>5. QED
      BY <1>g, <1>r, <2>2, <2>3, <2>4
  <1>8. ASSUME NEW e \in FillEvents, BrokerFillEvent(e)
        PROVE  IInv'
    <2> DEFINE r == ReduceFillEvent(order, e, ledger)
    <2>0. \/ r.order = order /\ r.ledger = ledger
          \/ /\ Find(ledger, "broker-event", e.id) = {}
             /\ r.ledger = ledger \cup {Entry("broker-event", e.id, EventFingerprint(e))}
             /\ AdmitsFill(order, e) /\ r.order = ApplyFill(order, e)
      BY FillEventResult
    <2>1. r.order = order \/ (AdmitsFill(order, e) /\ r.order = ApplyFill(order, e))
      BY <2>0
    <2>2. GoodOrder(r.order) /\ e.id \in EventIds
      BY <1>g, <2>1, FillGood, EventInputs
    <2>3. \A a \in r.ledger : a \in ledger \/ (a.source = "broker-event" /\ a.id = e.id)
      <3>1. r.ledger = ledger \/ r.ledger = ledger \cup
                                   {Entry("broker-event", e.id, EventFingerprint(e))}
        BY <2>0
      <3> HIDE DEF r
      <3>2. QED
        BY <3>1 DEF Entry
    <2>4. order' = r.order /\ ledger' = r.ledger /\ issued' = issued
      BY <1>8 DEF BrokerFillEvent
    <2> HIDE DEF r
    <2>5. QED
      BY <1>g, <1>r, <2>2, <2>3, <2>4
  <1>9. CASE UNCHANGED vars
    BY <1>9 DEF vars, IInv, TypeOK, ReducerMeetsContract, OpenOrderHasRemainder
  <1>10. QED
    BY <1>1, <1>2, <1>3, <1>4, <1>5, <1>6, <1>7, <1>8, <1>9 DEF Next

\* Every reachable order, binding and ledger has its type.
THEOREM TypeCorrect == Spec => []TypeOK
  <1>1. IInv => TypeOK
    BY DEF IInv
  <1>2. QED
    BY <1>1, InitIInv, NextIInv, PTL DEF Spec

\* For any identifiers, times, prices and quantities, no reducer step builds an order
\* that LiveOrder.__post_init__ would refuse.
THEOREM ContractHolds == Spec => []ReducerMeetsContract
  <1>1. IInv => ReducerMeetsContract
    BY DEF IInv
  <1>2. QED
    BY <1>1, InitIInv, NextIInv, PTL DEF Spec

\* Filled and rejected orders never change and a cancelled one only collects fills,
\* whatever evidence is still delivered.
THEOREM TerminalIsFinal == Spec => TerminalOrdersStayTerminal
  <1> DEFINE Final == /\ order.state \in {"filled", "rejected"} => order' = order
                      /\ order.state = "cancelled" =>
                            /\ order'.state \in {"cancelled", "filled"}
                            /\ order'.total = order.total /\ order'.filled >= order.filled
  <1>1. IInv /\ [Next]_vars => [Final]_vars
    <2> SUFFICES ASSUME IInv, Next, order.state \in TerminalStates
                 PROVE  Final
      BY DEF TerminalStates
    <2>g. GoodOrder(order) /\ order \in Orders /\ order.pending = NoCommand
      BY DEF IInv, TypeOK, ReducerMeetsContract, OpenOrderHasRemainder, GoodOrder,
             LiveOrderContract, BindingFitsState
    <2>s. order' = order => Final
      BY <2>g, OrderFields
    <2>1. ASSUME NEW at \in Times, Validate(at) \/ StartReconciling(at)
          PROVE  Final
      BY <2>1 DEF Validate, StartReconciling, MayAdvance, TerminalStates
    <2>2. ASSUME NEW at \in Times, NEW c \in CommandInputs,
                 Submit(c, at) \/ Cancel(c, at) \/ Operate(c, at)
          PROVE  Final
      BY <2>2 DEF Submit, Cancel, Operate, MayAdvance, MayRequestCancel, MayBindOperation,
                  IsWorking, TerminalStates
    <2>3. ASSUME NEW c \in issued, NEW s \in DispatchStates, NEW at \in Times, Receipt(c, s, at)
          PROVE  Final
      <3> DEFINE m == [command |-> c, state |-> s, at |-> at]
      <3>1. m.command = c /\ c # NoCommand
        BY CommandIsSomething DEF IInv, TypeOK
      <3>2. order' = ReduceDispatch(order, m, ledger).order
        BY <2>3 DEF Receipt
      <3> HIDE DEF m
      <3>3. order' = order
        <4>1. \/ ReduceDispatch(order, m, ledger).order = order
              \/ order.pending = m.command
          BY DispatchResult
        <4> QED
          BY <2>g, <3>1, <3>2, <4>1
      <3>4. QED
        BY <2>s, <3>3
    <2>4. ASSUME NEW e \in OrderEvents, BrokerOrderEvent(e)
          PROVE  Final
      <3>1. order' = ReduceOrderEvent(order, e, ledger).order
        BY <2>4 DEF BrokerOrderEvent
      <3>2. ~Admits(order, e)
        BY DEF Admits
      <3>3. order' = order
        BY <3>1, <3>2, OrderEventResult, Zenon
      <3>4. QED
        BY <2>s, <3>3
    <2>5. ASSUME NEW e \in FillEvents, BrokerFillEvent(e)
          PROVE  Final
      <3>1. order' = ReduceFillEvent(order, e, ledger).order
        BY <2>5 DEF BrokerFillEvent
      <3>2. order' = order \/ (AdmitsFill(order, e) /\ order' = ApplyFill(order, e))
        BY <3>1, FillEventResult, Zenon
      <3>3. CASE AdmitsFill(order, e) /\ order' = ApplyFill(order, e)
        <4>1. order.state = "cancelled"
          BY <3>3 DEF AdmitsFill, TerminalStates
        <4>2. /\ order'.state = FillState(order, order.total - (order.filled + e.quantity))
              /\ order'.total = order.total /\ order'.filled = order.filled + e.quantity
          BY <2>g, <3>3 DEF ApplyFill, Snapshot, Orders
        <4>3. QED
          BY <2>g, <4>1, <4>2, OrderFields, EventInputs DEF FillState, FillEventContract
      <3>4. QED
        BY <2>s, <3>2, <3>3
    <2>6. QED
      BY <2>1, <2>2, <2>3, <2>4, <2>5 DEF Next
  <1>2. QED
    BY <1>1, InitIInv, NextIInv, PTL DEF Spec, TerminalOrdersStayTerminal

\* A bound command is released by newly recorded broker evidence only: no receipt and
\* no local transition forgets a command whose outcome is open.
THEOREM BindingNeedsBroker == Spec => BindingReleasedByBrokerOnly
  <1> DEFINE Release == order.pending # NoCommand /\ order'.pending # order.pending =>
                           /\ order'.pending = NoCommand
                           /\ \E a \in ledger' \ ledger : a.source = "broker-event"
  <1>1. IInv /\ [Next]_vars => [Release]_vars
    <2> SUFFICES ASSUME IInv, Next, order.pending # NoCommand, order'.pending # order.pending
                 PROVE  /\ order'.pending = NoCommand
                        /\ \E a \in ledger' \ ledger : a.source = "broker-event"
      OBVIOUS
    <2>g. GoodOrder(order) /\ order \in Orders
      BY DEF IInv, TypeOK, ReducerMeetsContract, OpenOrderHasRemainder, GoodOrder
    <2>n. order' # order
      OBVIOUS
    <2>p. order.state \notin {"created", "validated"}
      BY DEF IInv, ReducerMeetsContract, LiveOrderContract, BindingFitsState
    <2>f. ASSUME NEW e, Find(ledger, "broker-event", e.id) = {},
                 ledger' = ledger \cup {Entry("broker-event", e.id, EventFingerprint(e))}
          PROVE  \E a \in ledger' \ ledger : a.source = "broker-event"
      <3> DEFINE a == Entry("broker-event", e.id, EventFingerprint(e))
      <3>1. a.source = "broker-event" /\ a.id = e.id
        BY DEF Entry
      <3>2. a \notin ledger
        BY <2>f, <3>1 DEF Find
      <3> HIDE DEF a
      <3>3. a \in ledger'
        BY <2>f DEF a
      <3>4. QED
        BY <3>1, <3>2, <3>3
    <2>1. ASSUME NEW at \in Times, Validate(at) \/ StartReconciling(at)
          PROVE  FALSE
      BY <2>1, <2>g, <2>p, SnapshotFields
         DEF Validate, StartReconciling, MayAdvance, AdvanceLocal
    <2>2. ASSUME NEW at \in Times, NEW c \in CommandInputs,
                 Submit(c, at) \/ Cancel(c, at) \/ Operate(c, at)
          PROVE  FALSE
      BY <2>2, <2>p DEF Submit, Cancel, Operate, MayAdvance, MayRequestCancel, MayBindOperation,
                        IsWorking
    <2>3. ASSUME NEW c \in issued, NEW s \in DispatchStates, NEW at \in Times, Receipt(c, s, at)
          PROVE  FALSE
      <3> DEFINE m == [command |-> c, state |-> s, at |-> at]
      <3>1. order' = ReduceDispatch(order, m, ledger).order
        BY <2>3 DEF Receipt
      <3> HIDE DEF m
      <3>2. \/ order' = order
            \/ order' = Snapshot(order, DispatchTarget(order, m), Later(order.updatedAt, m.at),
                                 order.pending)
        BY <3>1, DispatchResult, Zenon
      <3>3. order'.pending = order.pending
        BY <2>g, <3>2, SnapshotFields
      <3>4. QED
        BY <3>3
    <2>4. ASSUME NEW e \in OrderEvents, BrokerOrderEvent(e)
          PROVE  /\ order'.pending = NoCommand
                 /\ \E a \in ledger' \ ledger : a.source = "broker-event"
      <3> DEFINE r == ReduceOrderEvent(order, e, ledger)
      <3>1. order' = r.order /\ ledger' = r.ledger
        BY <2>4 DEF BrokerOrderEvent
      <3>d. \/ r.order = order /\ r.ledger = ledger
            \/ /\ Find(ledger, "broker-event", e.id) = {}
               /\ r.ledger = ledger \cup {Entry("broker-event", e.id, EventFingerprint(e))}
               /\ r.order = order \/ (Admits(order, e) /\ r.order = ApplyOrderEvent(order, e))
        BY OrderEventResult, Zenon
      <3> HIDE DEF r
      <3>2. /\ Find(ledger, "broker-event", e.id) = {}
            /\ ledger' = ledger \cup {Entry("broker-event", e.id, EventFingerprint(e))}
            /\ order' = ApplyOrderEvent(order, e)
        BY <2>n, <3>1, <3>d
      <3>3. order'.pending = IF KeepsBinding(order, e) THEN order.pending ELSE NoCommand
        BY <2>g, <3>2, ApplyOrderEventFields, EventInputs
      <3>4. QED
        BY <2>f, <3>2, <3>3
    <2>5. ASSUME NEW e \in FillEvents, BrokerFillEvent(e)
          PROVE  /\ order'.pending = NoCommand
                 /\ \E a \in ledger' \ ledger : a.source = "broker-event"
      <3> DEFINE r == ReduceFillEvent(order, e, ledger)
      <3>1. order' = r.order /\ ledger' = r.ledger
        BY <2>5 DEF BrokerFillEvent
      <3>d. \/ r.order = order /\ r.ledger = ledger
            \/ /\ Find(ledger, "broker-event", e.id) = {}
               /\ r.ledger = ledger \cup {Entry("broker-event", e.id, EventFingerprint(e))}
               /\ AdmitsFill(order, e) /\ r.order = ApplyFill(order, e)
        BY FillEventResult, Zenon
      <3> HIDE DEF r
      <3>2. /\ Find(ledger, "broker-event", e.id) = {}
            /\ ledger' = ledger \cup {Entry("broker-event", e.id, EventFingerprint(e))}
            /\ order' = ApplyFill(order, e)
        BY <2>n, <3>1, <3>d
      <3>3. order'.pending \in {NoCommand, order.pending}
        BY <2>g, <3>2 DEF ApplyFill, FillPending, Snapshot, Orders
      <3>4. QED
        BY <2>f, <3>2, <3>3
    <2>6. QED
      BY <2>1, <2>2, <2>3, <2>4, <2>5 DEF Next
  <1>2. QED
    BY <1>1, InitIInv, NextIInv, PTL DEF Spec, BindingReleasedByBrokerOnly

-----------------------------------------------------------------------------
(* Quantities *)

LEMMA QuantityTotal ==
    ASSUME NEW S, IsFiniteSet(S)
    PROVE  QuantityOf(S) = Total([a \in S |-> a.fingerprint.quantity], S)
  <1> DEFINE q == [a \in S |-> a.fingerprint.quantity]
             R(h) == h = [s \in SUBSET S |->
                             IF s = {} THEN 0 ELSE One(s).fingerprint.quantity + h[s \ {One(s)}]]
  <1>1. \E g : QuantityOf(S) = g[S] /\ g = CHOOSE h : R(h)
    BY DEF QuantityOf, MapThenSumSet, MapThenFoldSet, One
  <1>2. \A s \in SUBSET S : s # {} => q[One(s)] = One(s).fingerprint.quantity
    BY DEF One
  <1>3. \A h : R(h) <=> Sums(h, q, S)
    BY <1>2 DEF Sums
  <1>4. PICK k : Sums(k, q, S) /\ k[S] = Total(q, S)
    BY TotalSums
  <1>5. R(CHOOSE h : R(h))
    <2>1. R(k)
      BY <1>3, <1>4
    <2> HIDE DEF R
    <2> QED
      BY <2>1, Zenon
  <1>6. PICK g : QuantityOf(S) = g[S] /\ g = CHOOSE h : R(h)
    BY <1>1
  <1>7. Sums(g, q, S)
    BY <1>3, <1>5, <1>6
  <1> QED
    BY <1>4, <1>6, <1>7, SumsAgree

LEMMA QuantityEmpty == QuantityOf({}) = 0
  BY FS_EmptySet, QuantityTotal, TotalEmpty

\* A new entry adds its quantity.
LEMMA QuantityAdd ==
    ASSUME NEW S, IsFiniteSet(S), NEW x, x \notin S,
           \A a \in S \cup {x} : a.fingerprint.quantity \in Nat
    PROVE  /\ QuantityOf(S \cup {x}) = QuantityOf(S) + x.fingerprint.quantity
           /\ QuantityOf(S) \in Int
  <1> DEFINE T == S \cup {x}
             p == [a \in S |-> a.fingerprint.quantity]
             q == [a \in T |-> a.fingerprint.quantity]
  <1>1. IsFiniteSet(T)
    BY FS_AddElement
  <1>2. QuantityOf(S) = Total(p, S) /\ QuantityOf(T) = Total(q, T)
    BY <1>1, QuantityTotal
  <1>3. /\ \A a \in S : p[a] = q[a]
        /\ \A a \in T : q[a] \in Int
        /\ q[x] = x.fingerprint.quantity
    OBVIOUS
  <1> HIDE DEF p, q
  <1>4. Total(p, S) = Total(q, S)
    BY <1>3, TotalSame
  <1>5. Total(q, S \cup {x}) = Total(q, S) + q[x] /\ Total(q, S) \in Int
    BY <1>3, TotalAdd
  <1> QED
    BY <1>2, <1>3, <1>4, <1>5

\* The ledger is finite and what it records of the broker has a quantity.
LedgerCounts ==
    /\ IsFiniteSet(ledger)
    /\ \A a \in ledger : a.source = "broker-event" => a.fingerprint.quantity \in Nat

\* A step that records no fill and no decrease and changes no quantity.
CountsNothing ==
    /\ Applied("fill")' = Applied("fill")
    /\ Applied("quantity_decreased")' = Applied("quantity_decreased")
    /\ order'.filled = order.filled /\ order'.total = order.total
    /\ order'.intent = order.intent

QuantityInv == IInv /\ LedgerCounts /\ QuantitiesExplainedByLedger

\* What is recorded of an event is new, and is applied under the event's type only.
LEMMA Recorded ==
    ASSUME LedgerCounts, NEW e, e.quantity \in Nat, Find(ledger, "broker-event", e.id) = {},
           ledger' = ledger \cup {Entry("broker-event", e.id, EventFingerprint(e))}
    PROVE  LET a == Entry("broker-event", e.id, EventFingerprint(e))
           IN  /\ LedgerCounts' /\ a.fingerprint.quantity = e.quantity
               /\ \A what : a \notin Applied(what)
               /\ \A what : IF e.type = what THEN Applied(what)' = Applied(what) \cup {a}
                                             ELSE Applied(what)' = Applied(what)
  <1> DEFINE a == Entry("broker-event", e.id, EventFingerprint(e))
  <1>1. /\ a.source = "broker-event" /\ a.id = e.id /\ a.fingerprint.quantity = e.quantity
        /\ a.fingerprint.what = e.type
    BY DEF Entry, EventFingerprint
  <1> HIDE DEF a
  <1>2. a \notin ledger /\ ledger' = ledger \cup {a}
    BY <1>1 DEF Find, a
  <1>3. LedgerCounts'
    BY <1>1, <1>2, FS_AddElement DEF LedgerCounts
  <1> QED
    BY <1>1, <1>2, <1>3 DEF Applied, a

\* A receipt is recorded under a source of its own.
LEMMA ReceiptRecorded ==
    ASSUME LedgerCounts, NEW id, NEW fingerprint,
           ledger' = ledger \cup {Entry("dispatch", id, fingerprint)}
    PROVE  LedgerCounts' /\ \A what : Applied(what)' = Applied(what)
  <1> DEFINE a == Entry("dispatch", id, fingerprint)
  <1>1. a.source = "dispatch"
    BY DEF Entry
  <1> HIDE DEF a
  <1>2. ledger' = ledger \cup {a}
    BY DEF a
  <1> QED
    BY <1>1, <1>2, FS_AddElement DEF LedgerCounts, Applied

\* An event that is recorded without being admitted is a cancellation of a cancelled order.
LEMMA RecordedOrderEvent ==
    ASSUME NEW o, NEW e, NEW l
    PROVE  LET r == ReduceOrderEvent(o, e, l)
           IN  \/ r.ledger = l
               \/ r.order = o /\ e.type \in {"cancelled", "dynamic_cancelled"}
               \/ Admits(o, e) /\ r.order = ApplyOrderEvent(o, e)
  <1> DEFINE r == ReduceOrderEvent(o, e, l)
             seen == Deduplicate(l, "broker-event", e.id, EventFingerprint(e))
             next == l \cup {Entry("broker-event", e.id, EventFingerprint(e))}
             again == o.state = "cancelled" /\ e.type \in {"cancelled", "dynamic_cancelled"}
  <1>1. \/ r = Reduction(o, l, seen) \/ r = Reduction(o, l, "reconciliation_required")
        \/ again /\ r = Reduction(o, next, "no_change")
        \/ Admits(o, e) /\ r = Reduction(ApplyOrderEvent(o, e), next, "applied")
    BY Zenon DEF ReduceOrderEvent, Reconcile
  <1> SUFFICES \/ r.ledger = l
               \/ r.order = o /\ e.type \in {"cancelled", "dynamic_cancelled"}
               \/ Admits(o, e) /\ r.order = ApplyOrderEvent(o, e)
    OBVIOUS
  <1> HIDE DEF r, seen, next
  <1> QED
    BY <1>1, ReductionFields

\* An admitted event takes something off the total when it is a decrease, and nothing
\* otherwise: no command matches a change of price and quantity together.
LEMMA AdmittedQuantity ==
    ASSUME NEW o, NEW e, OrderEventContract(e), Admits(o, e)
    PROVE  e.type = "quantity_decreased" \/ e.quantity = 0
  BY DEF OrderEventContract, Admits, MatchesWorkingChange, WorkingChanges, OrderEventTypes, None

LEMMA CountsNothingKeeps ==
    ASSUME QuantityInv, CountsNothing
    PROVE  QuantitiesExplainedByLedger'
  BY DEF QuantityInv, CountsNothing, QuantitiesExplainedByLedger

LEMMA OrderEventCounts ==
    ASSUME QuantityInv, NEW e \in OrderEvents, BrokerOrderEvent(e)
    PROVE  LedgerCounts' /\ QuantitiesExplainedByLedger'
  <1> DEFINE r == ReduceOrderEvent(order, e, ledger)
             a == Entry("broker-event", e.id, EventFingerprint(e))
  <1>0. LedgerCounts /\ QuantitiesExplainedByLedger /\ order \in Orders
    BY DEF QuantityInv, IInv, TypeOK
  <1>1. order' = r.order /\ ledger' = r.ledger
    BY DEF BrokerOrderEvent
  <1>2. OrderEventContract(e) /\ EventTimesContract(e) /\ e.quantity \in Nat /\ e.type # "fill"
    BY EventInputs DEF OrderEventContract, OrderEventTypes, WorkingChanges
  <1>3. \/ r.order = order /\ r.ledger = ledger
        \/ /\ Find(ledger, "broker-event", e.id) = {} /\ r.ledger = ledger \cup {a}
           /\ r.order = order \/ (Admits(order, e) /\ r.order = ApplyOrderEvent(order, e))
    BY OrderEventResult, Zenon
  <1>4. \/ r.ledger = ledger
        \/ r.order = order /\ e.type \in {"cancelled", "dynamic_cancelled"}
        \/ Admits(order, e) /\ r.order = ApplyOrderEvent(order, e)
    BY RecordedOrderEvent, Zenon
  <1>5. LET n == ApplyOrderEvent(order, e)
        IN  n.total = order.total - e.quantity /\ n.filled = order.filled /\ n.intent = order.intent
    BY <1>0, <1>2, ApplyOrderEventFields
  <1>a. Find(ledger, "broker-event", e.id) = {} => a \notin ledger
    BY DEF Find, Entry
  <1> HIDE DEF r
  <1>6. CASE r.order = order /\ r.ledger = ledger
    <2>1. order' = order /\ ledger' = ledger
      BY <1>1, <1>6
    <2>2. LedgerCounts' /\ CountsNothing
      BY <2>1, <1>0 DEF LedgerCounts, CountsNothing, Applied
    <2> QED
      BY <2>2, CountsNothingKeeps
  <1>7. CASE /\ Find(ledger, "broker-event", e.id) = {} /\ r.ledger = ledger \cup {a}
             /\ r.order = order \/ (Admits(order, e) /\ r.order = ApplyOrderEvent(order, e))
             /\ r.ledger # ledger
    <2>1. /\ LedgerCounts' /\ a.fingerprint.quantity = e.quantity
          /\ \A what : a \notin Applied(what)
          /\ \A what : IF e.type = what THEN Applied(what)' = Applied(what) \cup {a}
                                        ELSE Applied(what)' = Applied(what)
      BY <1>0, <1>1, <1>2, <1>7, Recorded
    <2>2. Applied("fill")' = Applied("fill")
      BY <2>1, <1>2
    <2> HIDE DEF a
    <2>3. CASE e.type # "quantity_decreased"
      <3>1. Applied("quantity_decreased")' = Applied("quantity_decreased")
        BY <2>1, <2>3
      <3>2. order' = order \/ (e.quantity = 0 /\ order' = ApplyOrderEvent(order, e))
        BY <1>1, <1>2, <1>4, <1>7, <2>3, AdmittedQuantity
      <3>3. order'.filled = order.filled /\ order'.total = order.total /\ order'.intent = order.intent
        BY <3>2, <1>0, <1>5, OrderFields
      <3>4. CountsNothing
        BY <2>2, <3>1, <3>3 DEF CountsNothing
      <3> QED
        BY <2>1, <3>4, CountsNothingKeeps
    <2>4. CASE e.type = "quantity_decreased"
      <3> DEFINE S == Applied("quantity_decreased")
      <3>1. order' = ApplyOrderEvent(order, e)
        BY <1>1, <1>4, <1>7, <2>4
      <3>2. Applied("quantity_decreased")' = S \cup {a} /\ a \notin S
        BY <2>1, <2>4
      <3>3. IsFiniteSet(S) /\ \A x \in S \cup {a} : x.fingerprint.quantity \in Nat
        BY <1>0, <1>2, <2>1, FS_Subset DEF LedgerCounts, Applied
      <3>4. order.total = order.intent.quantity - QuantityOf(S) /\ order.filled = QuantityOf(Applied("fill"))
        BY <1>0 DEF QuantitiesExplainedByLedger
      <3> HIDE DEF S
      <3>5. QuantityOf(S \cup {a}) = QuantityOf(S) + e.quantity /\ QuantityOf(S) \in Int
        BY <2>1, <3>2, <3>3, QuantityAdd
      <3>6. order.intent.quantity \in Int /\ e.quantity \in Int
        BY <1>0, <1>2, OrderFields
      <3>7. order'.total = order'.intent.quantity - QuantityOf(S \cup {a})
        BY <3>1, <3>4, <3>5, <3>6, <1>5
      <3>8. order'.filled = order.filled
        BY <3>1, <1>5
      <3> QED
        BY <2>1, <2>2, <3>2, <3>4, <3>7, <3>8 DEF QuantitiesExplainedByLedger
    <2> QED
      BY <2>3, <2>4
  <1> HIDE DEF a
  <1> QED
    BY <1>3, <1>6, <1>7, <1>a

LEMMA FillEventCounts ==
    ASSUME QuantityInv, NEW e \in FillEvents, BrokerFillEvent(e)
    PROVE  LedgerCounts' /\ QuantitiesExplainedByLedger'
  <1> DEFINE r == ReduceFillEvent(order, e, ledger)
             a == Entry("broker-event", e.id, EventFingerprint(e))
  <1>0. LedgerCounts /\ QuantitiesExplainedByLedger /\ order \in Orders
    BY DEF QuantityInv, IInv, TypeOK
  <1>1. order' = r.order /\ ledger' = r.ledger
    BY DEF BrokerFillEvent
  <1>2. e.quantity \in Nat /\ e.type = "fill"
    BY EventInputs DEF FillEventContract
  <1>3. \/ r.order = order /\ r.ledger = ledger
        \/ /\ Find(ledger, "broker-event", e.id) = {} /\ r.ledger = ledger \cup {a}
           /\ AdmitsFill(order, e) /\ r.order = ApplyFill(order, e)
    <2>1. \/ r.order = order /\ r.ledger = ledger
          \/ /\ Find(ledger, "broker-event", e.id) = {}
             /\ r.ledger = ledger \cup {Entry("broker-event", e.id, EventFingerprint(e))}
             /\ AdmitsFill(order, e) /\ r.order = ApplyFill(order, e)
      BY FillEventResult
    <2> HIDE DEF r
    <2> QED
      BY <2>1
  <1>4. LET n == ApplyFill(order, e)
        IN  n.total = order.total /\ n.filled = order.filled + e.quantity /\ n.intent = order.intent
    BY <1>0 DEF ApplyFill, Snapshot, Orders
  <1> HIDE DEF r
  <1>5. CASE r.order = order /\ r.ledger = ledger
    <2>1. order' = order /\ ledger' = ledger
      BY <1>1, <1>5
    <2>2. LedgerCounts' /\ CountsNothing
      BY <2>1, <1>0 DEF LedgerCounts, CountsNothing, Applied
    <2> QED
      BY <2>2, CountsNothingKeeps
  <1>6. CASE /\ Find(ledger, "broker-event", e.id) = {} /\ r.ledger = ledger \cup {a}
             /\ AdmitsFill(order, e) /\ r.order = ApplyFill(order, e)
    <2> DEFINE S == Applied("fill")
    <2>1. /\ LedgerCounts' /\ a.fingerprint.quantity = e.quantity
          /\ \A what : a \notin Applied(what)
          /\ \A what : IF e.type = what THEN Applied(what)' = Applied(what) \cup {a}
                                        ELSE Applied(what)' = Applied(what)
      BY <1>0, <1>1, <1>2, <1>6, Recorded
    <2> HIDE DEF a
    <2>2. /\ Applied("fill")' = S \cup {a} /\ a \notin S
          /\ Applied("quantity_decreased")' = Applied("quantity_decreased")
      BY <1>2, <2>1
    <2>3. IsFiniteSet(S) /\ \A x \in S \cup {a} : x.fingerprint.quantity \in Nat
      BY <1>0, <1>2, <2>1, FS_Subset DEF LedgerCounts, Applied
    <2>4. /\ order.filled = QuantityOf(S)
          /\ order.total = order.intent.quantity - QuantityOf(Applied("quantity_decreased"))
      BY <1>0 DEF QuantitiesExplainedByLedger
    <2> HIDE DEF S
    <2>5. QuantityOf(S \cup {a}) = QuantityOf(S) + e.quantity
      BY <2>1, <2>2, <2>3, QuantityAdd
    <2>6. /\ order'.filled = QuantityOf(S \cup {a}) /\ order'.total = order.total
          /\ order'.intent = order.intent
      BY <1>1, <1>4, <1>6, <2>4, <2>5
    <2> QED
      BY <2>1, <2>2, <2>4, <2>6 DEF QuantitiesExplainedByLedger
  <1> QED
    BY <1>3, <1>5, <1>6

\* A local transition keeps every quantity.
LEMMA SnapshotCounts ==
    ASSUME QuantityInv, NEW s, NEW at, NEW c, order' = Snapshot(order, s, at, c), ledger' = ledger
    PROVE  LedgerCounts' /\ QuantitiesExplainedByLedger'
  <1>1. order \in Orders /\ LedgerCounts
    BY DEF QuantityInv, IInv, TypeOK
  <1>2. order'.filled = order.filled /\ order'.total = order.total /\ order'.intent = order.intent
    BY <1>1, SnapshotFields
  <1>3. CountsNothing /\ LedgerCounts'
    BY <1>1, <1>2 DEF CountsNothing, LedgerCounts, Applied
  <1> QED
    BY <1>3, CountsNothingKeeps

LEMMA ReceiptCounts ==
    ASSUME QuantityInv, NEW c, NEW s, NEW at, Receipt(c, s, at)
    PROVE  LedgerCounts' /\ QuantitiesExplainedByLedger'
  <1> DEFINE m == [command |-> c, state |-> s, at |-> at]
             r == ReduceDispatch(order, m, ledger)
             n == Snapshot(order, DispatchTarget(order, m), Later(order.updatedAt, m.at), order.pending)
  <1>0. LedgerCounts /\ order \in Orders
    BY DEF QuantityInv, IInv, TypeOK
  <1>1. order' = r.order /\ ledger' = r.ledger
    BY DEF Receipt
  <1> HIDE DEF m
  <1>2. /\ r.order = order \/ r.order = n
        /\ \/ r.ledger = ledger
           \/ r.ledger = ledger \cup {Entry("dispatch", m.command.id, ReceiptFingerprint(m))}
    <2>1. \/ r.order = order /\ r.ledger = ledger
          \/ /\ order.pending = m.command
             /\ r.ledger = ledger \cup {Entry("dispatch", m.command.id, ReceiptFingerprint(m))}
             /\ r.order = order \/ r.order = n
      BY DispatchResult
    <2> HIDE DEF r, n
    <2> QED
      BY <2>1
  <1>3. n.filled = order.filled /\ n.total = order.total /\ n.intent = order.intent
    BY <1>0, SnapshotFields
  <1> HIDE DEF r, n
  <1>4. LedgerCounts' /\ \A what : Applied(what)' = Applied(what)
    <2>1. CASE ledger' = ledger
      BY <2>1, <1>0 DEF LedgerCounts, Applied
    <2> QED
      BY <2>1, <1>0, <1>1, <1>2, ReceiptRecorded
  <1>5. order'.filled = order.filled /\ order'.total = order.total /\ order'.intent = order.intent
    BY <1>1, <1>2, <1>3
  <1>6. CountsNothing
    BY <1>4, <1>5 DEF CountsNothing
  <1> QED
    BY <1>4, <1>6, CountsNothingKeeps

\* The order's quantities are those of the distinct events in its ledger: nothing that
\* is redelivered, reordered or contradicted counts twice or gets lost.
THEOREM LedgerExplainsQuantities == Spec => []QuantitiesExplainedByLedger
  <1>1. Init => QuantityInv
    <2> SUFFICES ASSUME Init PROVE LedgerCounts /\ QuantitiesExplainedByLedger
      BY InitIInv DEF QuantityInv
    <2>1. PICK intent \in IntentChoices, at \in Times : order = CreateLiveOrder(intent, at)
      BY DEF Init
    <2>2. /\ order.filled = 0 /\ order.total = order.intent.quantity
          /\ order.intent.quantity \in Nat
      BY <2>1, InputsAssumption DEF CreateLiveOrder, Intents
    <2>3. ledger = {} /\ Applied("fill") = {} /\ Applied("quantity_decreased") = {}
      BY DEF Init, Applied
    <2>4. LedgerCounts
      BY <2>3, FS_EmptySet DEF LedgerCounts
    <2>5. QuantityOf(Applied("fill")) = 0 /\ QuantityOf(Applied("quantity_decreased")) = 0
      BY <2>3, QuantityEmpty
    <2>6. QuantitiesExplainedByLedger
      BY <2>2, <2>5 DEF QuantitiesExplainedByLedger
    <2> QED
      BY <2>4, <2>6
  <1>2. QuantityInv /\ [Next]_vars => QuantityInv'
    <2> SUFFICES ASSUME QuantityInv, [Next]_vars PROVE LedgerCounts' /\ QuantitiesExplainedByLedger'
      BY NextIInv DEF QuantityInv
    <2>1. ASSUME NEW at \in Times, Validate(at) \/ StartReconciling(at)
          PROVE  LedgerCounts' /\ QuantitiesExplainedByLedger'
      BY <2>1, SnapshotCounts DEF Validate, StartReconciling, AdvanceLocal
    <2>2. ASSUME NEW at \in Times, NEW c \in CommandInputs,
                 Submit(c, at) \/ Cancel(c, at) \/ Operate(c, at)
          PROVE  LedgerCounts' /\ QuantitiesExplainedByLedger'
      BY <2>2, SnapshotCounts DEF Submit, Cancel, Operate, AdvanceLocal, RequestCancel, BindOperation
    <2>3. CASE UNCHANGED vars
      BY <2>3 DEF vars, QuantityInv, LedgerCounts, QuantitiesExplainedByLedger, Applied
    <2> QED
      BY <2>1, <2>2, <2>3, ReceiptCounts, OrderEventCounts, FillEventCounts DEF Next
  <1>3. QuantityInv => QuantitiesExplainedByLedger
    BY DEF QuantityInv
  <1> QED
    BY <1>1, <1>2, <1>3, PTL DEF Spec

-----------------------------------------------------------------------------
(* Racing evidence *)

\* What taking an acceptance, a cancellation or a fill does to a good order.
AcceptanceTaken(o, n) ==
    /\ <<n.total, n.filled, n.remaining, n.hasAverage>> = <<o.total, o.filled, o.remaining, o.hasAverage>>
    /\ o.state \in TerminalStates => n = o
    /\ o.state \notin TerminalStates =>
          IF o.acceptedAt # None THEN n.state = o.state /\ n.pending = o.pending
                                 ELSE n.state = OpenState(o) /\ n.pending = NoCommand

CancellationTaken(o, n) ==
    /\ <<n.total, n.filled, n.remaining, n.hasAverage>> = <<o.total, o.filled, o.remaining, o.hasAverage>>
    /\ o.state \in TerminalStates => n = o
    /\ o.state \notin TerminalStates => n.state = "cancelled" /\ n.pending = NoCommand

FillTaken(o, n, q) ==
    IF o.state \notin {"rejected", "filled"} /\ q <= o.remaining
    THEN LET s == FillState(o, o.remaining - q)
         IN  /\ n.total = o.total /\ n.filled = o.filled + q /\ n.remaining = o.remaining - q
             /\ n.hasAverage = TRUE /\ n.acceptedAt # None
             /\ n.state = s /\ n.pending = FillPending(o, s)
    ELSE n = o

LEMMA GoodFacts ==
    ASSUME NEW o, GoodOrder(o)
    PROVE  /\ o \in Orders /\ o.filled + o.remaining = o.total /\ o.filled >= 0
           /\ o.state \notin TerminalStates => o.remaining > 0
           /\ o.state \in TerminalStates => o.pending = NoCommand
           /\ o.state \in {"accepted", "partially_filled", "cancel_pending"} => o.acceptedAt # None
           /\ o.state \in {"created", "validated"} => o.pending = NoCommand
           /\ o.state = "submission_unknown" => o.pending.kind = "new"
  BY DEF GoodOrder, LiveOrderContract, QuantitiesAddUp, HasRemainder, AcceptanceRecorded,
         BindingFitsState

LEMMA TakesAcceptance ==
    ASSUME NEW o, GoodOrder(o), NEW e, OrderEventContract(e), EventTimesContract(e),
           e.type = "new_accepted"
    PROVE  GoodOrder(Takes(o, e)) /\ AcceptanceTaken(o, Takes(o, e))
  <1> DEFINE n == ApplyOrderEvent(o, e)
  <1>1. o \in Orders /\ o.filled + o.remaining = o.total
    BY GoodFacts
  <1>2. Admits(o, e) <=> o.state \notin TerminalStates
    BY DEF Admits
  <1>3. Takes(o, e) = IF o.state \notin TerminalStates THEN n ELSE o
    BY <1>2 DEF Takes
  <1>4. e.quantity = 0
    BY DEF OrderEventContract, None
  <1>5. /\ n.state = ResultState(o, e) /\ n.total = o.total - e.quantity /\ n.filled = o.filled
        /\ n.remaining = o.total - e.quantity - o.filled /\ n.hasAverage = o.hasAverage
        /\ n.pending = IF KeepsBinding(o, e) THEN o.pending ELSE NoCommand
    BY <1>1, ApplyOrderEventFields
  <1>6. ResultState(o, e) = IF o.acceptedAt # None THEN o.state ELSE OpenState(o)
    BY DEF ResultState, WorkingChanges
  <1>7. KeepsBinding(o, e) <=> o.acceptedAt # None
    BY DEF KeepsBinding
  <1>8. GoodOrder(Takes(o, e))
    BY <1>2, <1>3, OrderEventGood
  <1> HIDE DEF n
  <1>9. n.total = o.total /\ n.remaining = o.remaining
    BY <1>1, <1>4, <1>5, OrderFields
  <1> QED
    BY <1>3, <1>5, <1>6, <1>7, <1>8, <1>9 DEF AcceptanceTaken

LEMMA TakesCancellation ==
    ASSUME NEW o, GoodOrder(o), NEW e, OrderEventContract(e), EventTimesContract(e),
           e.type = "cancelled"
    PROVE  GoodOrder(Takes(o, e)) /\ CancellationTaken(o, Takes(o, e))
  <1> DEFINE n == ApplyOrderEvent(o, e)
  <1>1. /\ o \in Orders /\ o.filled + o.remaining = o.total
        /\ o.state \notin TerminalStates => o.remaining # 0
    BY GoodFacts
  <1>2. Admits(o, e) <=> o.state \notin TerminalStates
    BY <1>1 DEF Admits
  <1>3. Takes(o, e) = IF o.state \notin TerminalStates THEN n ELSE o
    BY <1>2 DEF Takes
  <1>4. e.quantity = 0
    BY DEF OrderEventContract, None
  <1>5. /\ n.state = ResultState(o, e) /\ n.total = o.total - e.quantity /\ n.filled = o.filled
        /\ n.remaining = o.total - e.quantity - o.filled /\ n.hasAverage = o.hasAverage
        /\ n.pending = IF KeepsBinding(o, e) THEN o.pending ELSE NoCommand
    BY <1>1, ApplyOrderEventFields
  <1>6. ResultState(o, e) = "cancelled"
    BY DEF ResultState, WorkingChanges
  <1>7. ~KeepsBinding(o, e)
    BY DEF KeepsBinding
  <1>8. GoodOrder(Takes(o, e))
    BY <1>2, <1>3, OrderEventGood
  <1> HIDE DEF n
  <1>9. n.total = o.total /\ n.remaining = o.remaining
    BY <1>1, <1>4, <1>5, OrderFields
  <1> QED
    BY <1>3, <1>5, <1>6, <1>7, <1>8, <1>9 DEF CancellationTaken

LEMMA TakesFill ==
    ASSUME NEW o, GoodOrder(o), NEW e, FillEventContract(e), EventTimesContract(e),
           e.mine, e.confirmed
    PROVE  GoodOrder(Takes(o, e)) /\ FillTaken(o, Takes(o, e), e.quantity)
  <1> DEFINE n == ApplyFill(o, e)
             s == FillState(o, o.total - (o.filled + e.quantity))
  <1>1. o \in Orders /\ o.filled + o.remaining = o.total
    BY GoodFacts
  <1>2. AdmitsFill(o, e) <=> o.state \notin {"rejected", "filled"} /\ e.quantity <= o.remaining
    BY DEF AdmitsFill, IsConfirmedForOrder
  <1>3. Takes(o, e) = IF AdmitsFill(o, e) THEN n ELSE o
    BY DEF Takes, FillEventContract
  <1>4. /\ n.total = o.total /\ n.filled = o.filled + e.quantity
        /\ n.remaining = o.total - (o.filled + e.quantity) /\ n.hasAverage = TRUE
        /\ n.state = s /\ n.pending = FillPending(o, s) /\ n.acceptedAt = AcceptedAt(o, e)
    BY <1>1 DEF ApplyFill, Snapshot, Orders
  <1>5. GoodOrder(Takes(o, e))
    BY <1>3, FillGood
  <1>6. o.total - (o.filled + e.quantity) = o.remaining - e.quantity
    BY <1>1, OrderFields DEF FillEventContract
  <1>7. AcceptedAt(o, e) # None
    BY DEF AcceptedAt, OrElse, EventTimesContract, None
  <1> HIDE DEF n
  <1> QED
    BY <1>2, <1>3, <1>4, <1>5, <1>6, <1>7 DEF FillTaken

LEMMA SameOutcome ==
    ASSUME NEW x, NEW y, x.state = y.state, x.total = y.total, x.filled = y.filled,
           x.remaining = y.remaining, x.hasAverage = y.hasAverage, x.pending = y.pending
    PROVE  Outcome(x) = Outcome(y)
  BY DEF Outcome

\* An order is submitted by its NEW command.
SubmittedAsNew(o) == o.state = "submitting" => o.pending.kind = "new"

LEMMA AcceptanceAndCancellation ==
    ASSUME NEW o, GoodOrder(o), NEW a, GoodOrder(a), NEW b, GoodOrder(b), NEW ab, NEW ba,
           AcceptanceTaken(o, a), CancellationTaken(a, ab),
           CancellationTaken(o, b), AcceptanceTaken(b, ba)
    PROVE  Outcome(ab) = Outcome(ba)
  <1>1. CASE o.state \in TerminalStates
    BY <1>1 DEF AcceptanceTaken, CancellationTaken
  <1>2. CASE o.state \notin TerminalStates
    <2>1. a.state \notin TerminalStates
      BY <1>2 DEF AcceptanceTaken, OpenState, TerminalStates
    <2>2. ba = b /\ b.state = "cancelled" /\ b.pending = NoCommand
      BY <1>2 DEF AcceptanceTaken, CancellationTaken, TerminalStates
    <2>3. ab.state = "cancelled" /\ ab.pending = NoCommand
      BY <2>1 DEF CancellationTaken
    <2>4. /\ ab.total = b.total /\ ab.filled = b.filled /\ ab.remaining = b.remaining
          /\ ab.hasAverage = b.hasAverage
      BY DEF AcceptanceTaken, CancellationTaken
    <2> QED
      BY <2>2, <2>3, <2>4, SameOutcome
  <1> QED
    BY <1>1, <1>2

LEMMA CancellationAndFill ==
    ASSUME NEW o, GoodOrder(o), NEW a, GoodOrder(a), NEW b, GoodOrder(b), NEW ab, NEW ba,
           NEW q \in Nat \ {0}, CancellationTaken(o, a), FillTaken(a, ab, q),
           FillTaken(o, b, q), CancellationTaken(b, ba)
    PROVE  Outcome(ab) = Outcome(ba)
  <1>0. /\ o \in Orders /\ o.remaining \in Int /\ o.filled \in Int
        /\ o.state \in TerminalStates => o.pending = NoCommand
    BY GoodFacts, OrderFields
  <1>1. CASE o.state \in TerminalStates
    <2>1. a = o
      BY <1>1 DEF CancellationTaken
    <2>2. b.state \in TerminalStates
      BY <1>1 DEF FillTaken, FillState, TerminalStates
    <2>3. ba = b
      BY <2>2 DEF CancellationTaken
    <2>4. /\ ab.state = b.state /\ ab.total = b.total /\ ab.filled = b.filled
          /\ ab.remaining = b.remaining /\ ab.hasAverage = b.hasAverage /\ ab.pending = b.pending
      BY <2>1 DEF FillTaken
    <2> QED
      BY <2>3, <2>4, SameOutcome
  <1>2. CASE o.state \notin TerminalStates /\ ~(q <= o.remaining)
    <2>1. b = o
      BY <1>2 DEF FillTaken
    <2>2. ab = a
      BY <1>2 DEF FillTaken, CancellationTaken
    <2>3. /\ ba.state = a.state /\ ba.total = a.total /\ ba.filled = a.filled
          /\ ba.remaining = a.remaining /\ ba.hasAverage = a.hasAverage /\ ba.pending = a.pending
      BY <1>2, <2>1 DEF CancellationTaken
    <2> QED
      BY <2>2, <2>3, SameOutcome
  <1>3. CASE o.state \notin TerminalStates /\ q <= o.remaining
    <2>1. /\ a.state = "cancelled" /\ a.pending = NoCommand /\ a.total = o.total
          /\ a.filled = o.filled /\ a.remaining = o.remaining
      BY <1>3 DEF CancellationTaken
    <2>2. /\ ab.total = o.total /\ ab.filled = o.filled + q /\ ab.remaining = o.remaining - q
          /\ ab.hasAverage = TRUE /\ ab.pending = NoCommand
          /\ ab.state = IF o.remaining - q = 0 THEN "filled" ELSE "cancelled"
      BY <1>3, <2>1 DEF FillTaken, FillState, FillPending
    <2>3. /\ b.total = o.total /\ b.filled = o.filled + q /\ b.remaining = o.remaining - q
          /\ b.hasAverage = TRUE
          /\ b.state = FillState(o, o.remaining - q)
          /\ b.pending = FillPending(o, FillState(o, o.remaining - q))
      BY <1>3 DEF FillTaken, TerminalStates
    <2>4. CASE o.remaining - q = 0
      <3>1. b.state = "filled" /\ b.pending = NoCommand
        BY <2>3, <2>4 DEF FillState, FillPending
      <3>2. ba = b
        BY <3>1 DEF CancellationTaken, TerminalStates
      <3> QED
        BY <2>2, <2>3, <2>4, <3>1, <3>2, SameOutcome
    <2>5. CASE o.remaining - q # 0
      <3>1. b.state \notin TerminalStates
        BY <1>3, <2>3, <2>5 DEF FillState, TerminalStates
      <3>2. /\ ba.state = "cancelled" /\ ba.pending = NoCommand /\ ba.total = b.total
            /\ ba.filled = b.filled /\ ba.remaining = b.remaining /\ ba.hasAverage = b.hasAverage
        BY <3>1 DEF CancellationTaken
      <3> QED
        BY <2>2, <2>3, <2>5, <3>2, SameOutcome
    <2> QED
      BY <2>4, <2>5
  <1> QED
    BY <1>1, <1>2, <1>3

LEMMA AcceptanceAndFill ==
    ASSUME NEW o, GoodOrder(o), SubmittedAsNew(o), o.state # "reconciling",
           NEW a, GoodOrder(a), NEW b, GoodOrder(b), NEW ab, NEW ba,
           NEW q \in Nat \ {0}, AcceptanceTaken(o, a), FillTaken(a, ab, q),
           FillTaken(o, b, q), AcceptanceTaken(b, ba)
    PROVE  Outcome(ab) = Outcome(ba)
  <1>0. /\ o \in Orders /\ o.remaining \in Int /\ o.filled \in Int /\ o.state \in States
        /\ o.state \in {"created", "validated"} => o.pending = NoCommand
        /\ o.state = "submission_unknown" => o.pending.kind = "new"
        /\ o.state \in {"accepted", "partially_filled", "cancel_pending"} => o.acceptedAt # None
    BY GoodFacts, OrderFields
  <1>1. CASE o.state \in TerminalStates
    <2>1. a = o
      BY <1>1 DEF AcceptanceTaken
    <2>2. b.state \in TerminalStates
      BY <1>1 DEF FillTaken, FillState, TerminalStates
    <2>3. ba = b
      BY <2>2 DEF AcceptanceTaken
    <2>4. /\ ab.state = b.state /\ ab.total = b.total /\ ab.filled = b.filled
          /\ ab.remaining = b.remaining /\ ab.hasAverage = b.hasAverage /\ ab.pending = b.pending
      BY <2>1 DEF FillTaken
    <2> QED
      BY <2>3, <2>4, SameOutcome
  <1>2. CASE o.state \notin TerminalStates /\ ~(q <= o.remaining)
    <2>1. b = o
      BY <1>2 DEF FillTaken
    <2>2. ab = a
      BY <1>2 DEF FillTaken, AcceptanceTaken
    <2>3. /\ ba.state = a.state /\ ba.total = a.total /\ ba.filled = a.filled
          /\ ba.remaining = a.remaining /\ ba.hasAverage = a.hasAverage /\ ba.pending = a.pending
      BY <1>2, <2>1 DEF AcceptanceTaken
    <2> QED
      BY <2>2, <2>3, SameOutcome
  <1>3. CASE o.state \notin TerminalStates /\ q <= o.remaining
    <2> DEFINE left == o.remaining - q
    <2>1. /\ a.state = IF o.acceptedAt # None THEN o.state ELSE OpenState(o)
          /\ a.pending = IF o.acceptedAt # None THEN o.pending ELSE NoCommand
          /\ a.total = o.total /\ a.filled = o.filled /\ a.remaining = o.remaining
          /\ a.state \notin {"rejected", "filled"}
      BY <1>3 DEF AcceptanceTaken, TerminalStates, OpenState
    <2>2. /\ ab.total = o.total /\ ab.filled = o.filled + q /\ ab.remaining = left
          /\ ab.hasAverage = TRUE
          /\ ab.state = FillState(a, left) /\ ab.pending = FillPending(a, FillState(a, left))
      BY <1>3, <2>1 DEF FillTaken
    <2>3. /\ b.total = o.total /\ b.filled = o.filled + q /\ b.remaining = left
          /\ b.hasAverage = TRUE /\ b.acceptedAt # None
          /\ b.state = FillState(o, left)
          /\ b.pending = FillPending(o, FillState(o, left))
      BY <1>3 DEF FillTaken, TerminalStates
    <2>4. /\ ba.state = b.state /\ ba.total = b.total /\ ba.filled = b.filled
          /\ ba.remaining = b.remaining /\ ba.hasAverage = b.hasAverage /\ ba.pending = b.pending
      BY <2>3 DEF AcceptanceTaken
    <2>5. FillState(a, left) = FillState(o, left)
      BY <1>0, <1>3, <2>1 DEF FillState, OpenState, TerminalStates, States
    <2>6. FillPending(a, FillState(a, left)) = FillPending(o, FillState(o, left))
      <3>1. CASE o.acceptedAt # None
        BY <2>1, <2>5, <3>1 DEF FillPending
      <3>2. CASE o.acceptedAt = None
        <4>1. o.state \in {"created", "validated", "submitting", "submission_unknown"}
          BY <1>0, <1>3, <3>2 DEF States, TerminalStates
        <4>2. o.pending = NoCommand \/ o.pending.kind = "new"
          BY <1>0, <4>1 DEF SubmittedAsNew
        <4>3. FillState(o, left) \in {"filled", "partially_filled"}
          BY <4>1 DEF FillState
        <4>4. a.pending = NoCommand
          BY <2>1, <3>2
        <4> QED
          BY <2>5, <4>2, <4>3, <4>4 DEF FillPending
      <3> QED
        BY <3>1, <3>2
    <2> HIDE DEF left
    <2> QED
      BY <2>2, <2>3, <2>4, <2>5, <2>6, SameOutcome
  <1> QED
    BY <1>1, <1>2, <1>3

\* The evidence of a race meets the contracts and is confirmed for the order.
LEMMA RacingInputs ==
    ASSUME NEW e \in RacingEvents
    PROVE  /\ e.mine /\ e.confirmed /\ EventTimesContract(e)
           /\ \/ e.type \in {"new_accepted", "cancelled"} /\ OrderEventContract(e)
              \/ e.type = "fill" /\ FillEventContract(e)
  <1>1. /\ e \in OrderEvents \cup FillEvents /\ e.type \in {"new_accepted", "cancelled", "fill"}
        /\ e.mine /\ e.confirmed
    BY Zenon DEF RacingEvents
  <1>2. CASE e \in OrderEvents
    BY <1>1, <1>2, EventInputs DEF OrderEventContract, OrderEventTypes, WorkingChanges
  <1>3. CASE e \in FillEvents
    BY <1>1, <1>3, EventInputs DEF FillEventContract
  <1> QED
    BY <1>1, <1>2, <1>3

\* Any two of an acceptance, a cancellation and a fill.
LEMMA RacesCommute ==
    ASSUME NEW o, GoodOrder(o), SubmittedAsNew(o), NEW e \in RacingEvents, NEW f \in RacingEvents,
           \/ e.type = "new_accepted" /\ f.type = "cancelled"
           \/ e.type = "cancelled" /\ f.type = "fill"
           \/ e.type = "new_accepted" /\ f.type = "fill" /\ o.state # "reconciling"
    PROVE  Outcome(Takes(Takes(o, e), f)) = Outcome(Takes(Takes(o, f), e))
  <1> DEFINE a == Takes(o, e)
             b == Takes(o, f)
  <1>1. CASE e.type = "new_accepted" /\ f.type = "cancelled"
    <2>1. OrderEventContract(e) /\ EventTimesContract(e) /\ OrderEventContract(f) /\ EventTimesContract(f)
      BY <1>1, RacingInputs
    <2>2. GoodOrder(a) /\ AcceptanceTaken(o, a) /\ GoodOrder(b) /\ CancellationTaken(o, b)
      BY <1>1, <2>1, TakesAcceptance, TakesCancellation
    <2> HIDE DEF a, b
    <2>3. CancellationTaken(a, Takes(a, f)) /\ AcceptanceTaken(b, Takes(b, e))
      BY <1>1, <2>1, <2>2, TakesAcceptance, TakesCancellation
    <2>4. Outcome(Takes(a, f)) = Outcome(Takes(b, e))
      BY <2>2, <2>3, AcceptanceAndCancellation
    <2> QED
      BY <2>4 DEF a, b
  <1>2. CASE e.type = "cancelled" /\ f.type = "fill"
    <2>1. /\ OrderEventContract(e) /\ EventTimesContract(e) /\ FillEventContract(f)
          /\ EventTimesContract(f) /\ f.mine /\ f.confirmed /\ f.quantity \in Nat \ {0}
      BY <1>2, RacingInputs DEF FillEventContract
    <2>2. GoodOrder(a) /\ CancellationTaken(o, a) /\ GoodOrder(b) /\ FillTaken(o, b, f.quantity)
      BY <1>2, <2>1, TakesFill, TakesCancellation
    <2> HIDE DEF a, b
    <2>3. FillTaken(a, Takes(a, f), f.quantity) /\ CancellationTaken(b, Takes(b, e))
      BY <1>2, <2>1, <2>2, TakesFill, TakesCancellation
    <2>4. Outcome(Takes(a, f)) = Outcome(Takes(b, e))
      BY <2>1, <2>2, <2>3, CancellationAndFill
    <2> QED
      BY <2>4 DEF a, b
  <1>3. CASE e.type = "new_accepted" /\ f.type = "fill" /\ o.state # "reconciling"
    <2>1. /\ OrderEventContract(e) /\ EventTimesContract(e) /\ FillEventContract(f)
          /\ EventTimesContract(f) /\ f.mine /\ f.confirmed /\ f.quantity \in Nat \ {0}
      BY <1>3, RacingInputs DEF FillEventContract
    <2>2. GoodOrder(a) /\ AcceptanceTaken(o, a) /\ GoodOrder(b) /\ FillTaken(o, b, f.quantity)
      BY <1>3, <2>1, TakesFill, TakesAcceptance
    <2> HIDE DEF a, b
    <2>3. FillTaken(a, Takes(a, f), f.quantity) /\ AcceptanceTaken(b, Takes(b, e))
      BY <1>3, <2>1, <2>2, TakesFill, TakesAcceptance
    <2>4. Outcome(Takes(a, f)) = Outcome(Takes(b, e))
      BY <1>3, <2>1, <2>2, <2>3, AcceptanceAndFill
    <2> QED
      BY <2>4 DEF a, b
  <1> QED
    BY <1>1, <1>2, <1>3

RaceInv == IInv /\ SubmittedAsNew(order)

\* Nothing but the submission itself leads to a submitting order.
LEMMA SubmissionKept ==
    ASSUME IInv, SubmittedAsNew(order), [Next]_vars
    PROVE  SubmittedAsNew(order)'
  <1>g. GoodOrder(order) /\ order \in Orders
    BY DEF IInv, TypeOK, ReducerMeetsContract, OpenOrderHasRemainder, GoodOrder
  <1>r. ASSUME order'.state # "submitting" \/ order' = order PROVE SubmittedAsNew(order)'
    BY <1>r DEF SubmittedAsNew
  <1>1. ASSUME NEW at \in Times, Validate(at) \/ StartReconciling(at)
        PROVE  order'.state # "submitting"
    BY <1>1, <1>g, SnapshotFields DEF Validate, StartReconciling, AdvanceLocal
  <1>2. ASSUME NEW at \in Times, NEW c \in CommandInputs, Submit(c, at)
        PROVE  order'.pending.kind = "new"
    BY <1>2, <1>g, SnapshotFields DEF Submit, MayAdvance, MayBind, AdvanceLocal
  <1>3. ASSUME NEW at \in Times, NEW c \in CommandInputs, Cancel(c, at) \/ Operate(c, at)
        PROVE  order'.state # "submitting"
    BY <1>3, <1>g, SnapshotFields
       DEF Cancel, Operate, RequestCancel, BindOperation, MayBindOperation, IsWorking
  <1>4. ASSUME NEW c \in issued, NEW s \in DispatchStates, NEW at \in Times, Receipt(c, s, at)
        PROVE  order'.state # "submitting" \/ order' = order
    <2> DEFINE m == [command |-> c, state |-> s, at |-> at]
    <2>1. order' = ReduceDispatch(order, m, ledger).order
      BY <1>4 DEF Receipt
    <2> HIDE DEF m
    <2>2. \/ order' = order
          \/ order' = Snapshot(order, DispatchTarget(order, m), Later(order.updatedAt, m.at),
                               order.pending)
      BY <2>1, DispatchResult, Zenon
    <2> QED
      BY <1>g, <2>2, SnapshotFields DEF DispatchTarget
  <1>5. ASSUME NEW e \in OrderEvents, BrokerOrderEvent(e)
        PROVE  SubmittedAsNew(order)'
    <2>1. order' = order \/ (Admits(order, e) /\ order' = ApplyOrderEvent(order, e))
      BY <1>5, OrderEventResult, Zenon DEF BrokerOrderEvent
    <2>2. CASE order' = ApplyOrderEvent(order, e) /\ Admits(order, e)
      <3>1. /\ order'.state = ResultState(order, e)
            /\ order'.pending = IF KeepsBinding(order, e) THEN order.pending ELSE NoCommand
        BY <1>g, <2>2, ApplyOrderEventFields, EventInputs
      <3>2. ResultState(order, e) = "submitting" =>
               order.state = "submitting" /\ e.type \in {"new_accepted", "cancel_pending"}
                   /\ (e.type = "new_accepted" => order.acceptedAt # None)
        BY DEF ResultState, OpenState
      <3> QED
        BY <3>1, <3>2 DEF SubmittedAsNew, KeepsBinding
    <2> QED
      BY <1>r, <2>1, <2>2
  <1>6. ASSUME NEW e \in FillEvents, BrokerFillEvent(e)
        PROVE  order'.state # "submitting" \/ order' = order
    <2>1. order' = order \/ (AdmitsFill(order, e) /\ order' = ApplyFill(order, e))
      BY <1>6, FillEventResult, Zenon DEF BrokerFillEvent
    <2>2. ApplyFill(order, e).state = FillState(order, order.total - (order.filled + e.quantity))
      BY <1>g DEF ApplyFill, Snapshot, Orders
    <2> QED
      BY <2>1, <2>2 DEF FillState
  <1>7. CASE UNCHANGED vars
    BY <1>7, <1>r DEF vars
  <1> QED
    BY <1>r, <1>1, <1>2, <1>3, <1>4, <1>5, <1>6, <1>7 DEF Next, SubmittedAsNew

\* In every reachable order, acceptance, cancellation and fills lead to the same outcome
\* in whichever order the broker's reports arrive.
THEOREM RacesAreConfluent == Spec => []EvidenceOrderIrrelevant
  <1>1. Init => RaceInv
    <2>1. Init => SubmittedAsNew(order)
      BY DEF Init, CreateLiveOrder, SubmittedAsNew
    <2> QED
      BY <2>1, InitIInv DEF RaceInv
  <1>2. RaceInv /\ [Next]_vars => RaceInv'
    BY NextIInv, SubmissionKept DEF RaceInv
  <1>3. RaceInv => EvidenceOrderIrrelevant
    <2> SUFFICES ASSUME RaceInv, NEW e \in RacingEvents, NEW f \in RacingEvents, e.type # f.type,
                        ~(order.state = "reconciling" /\ {e.type, f.type} = {"new_accepted", "fill"})
                 PROVE  Outcome(Takes(Takes(order, e), f)) = Outcome(Takes(Takes(order, f), e))
      BY Zenon DEF EvidenceOrderIrrelevant
    <2>1. GoodOrder(order) /\ SubmittedAsNew(order)
      BY DEF RaceInv, IInv, TypeOK, ReducerMeetsContract, OpenOrderHasRemainder, GoodOrder
    <2>2. e.type \in {"new_accepted", "cancelled", "fill"} /\ f.type \in {"new_accepted", "cancelled", "fill"}
      BY RacingInputs
    <2>3. CASE \/ e.type = "new_accepted" /\ f.type = "cancelled"
               \/ e.type = "cancelled" /\ f.type = "fill"
               \/ e.type = "new_accepted" /\ f.type = "fill"
      BY <2>1, <2>3, RacesCommute
    <2>4. CASE \/ f.type = "new_accepted" /\ e.type = "cancelled"
               \/ f.type = "cancelled" /\ e.type = "fill"
               \/ f.type = "new_accepted" /\ e.type = "fill"
      <3>1. f.type = "new_accepted" /\ e.type = "fill" => order.state # "reconciling"
        OBVIOUS
      <3> QED
        BY <2>1, <2>4, <3>1, RacesCommute
    <2> QED
      BY <2>2, <2>3, <2>4
  <1> QED
    BY <1>1, <1>2, <1>3, PTL DEF Spec
=============================================================================
