SPECIFICATION Spec
CONSTANTS
    NoId = NoId
    CommandIds = {c1, c2}
    EventIds = {e1, e2, e3}
    Times <- MCTimes
    Prices <- MCPrices
    Quantities <- MCQuantities
    IntentChoices <- MCIntentChoices
SYMMETRY Symmetry
INVARIANTS
    TypeOK
    ReducerMeetsContract
    QuantitiesExplainedByLedger
    EvidenceOrderIrrelevant
PROPERTIES
    TerminalOrdersStayTerminal
    BindingReleasedByBrokerOnly
