SPECIFICATION Spec
CONSTANTS
    None = None
    A = A
    S1 = S1
    TX = TX
    TWD = TWD
    Feed = Feed
    Slippage <- MCSlippage
    FeeRules <- MCFeeRules
    Limits <- MCLimits
    MaxDecisions = 5
    Runners = {r1, r2}
    Settings <- MCSettings
    Source <- MCSource
    MaxCrashes = 3
INVARIANTS
    DurablePrefix
    ResumeAccepts
PROPERTY
    RunCompletes
CHECK_DEADLOCK FALSE
