SPECIFICATION TradingSpec
CONSTANTS
    None = None
    A = A
    S1 = S1
    S2 = S2
    TX = TX
    TWD = TWD
    Feed = Feed
    Slippage <- MCSlippage
    FeeRules <- MCFeeRules
    Limits <- MCLimits
    Intents <- MCIntents
    Requests <- MCRequests
    Batches <- MCBatches
INVARIANTS
    JournalExplainsState
    PositionExplainedByFills
    RestorableUnlessQuoteShared
PROPERTIES
    QuoteSharedInOrder
    NoLookAhead
CHECK_DEADLOCK FALSE
