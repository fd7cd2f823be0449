----------------------------- MODULE MCLiveOrder -----------------------------
\* A small instance of LiveOrder: one limit and one market intent for two lots.
EXTENDS LiveOrder, TLC

MCTimes == {1}
MCPrices == {1}
MCQuantities == {1, 2}
MCIntentChoices == [quantity : {2}, limit : {0, 1}]

\* Identifiers are compared for equality only.
Symmetry == Permutations(EventIds) \cup Permutations(CommandIds)
=============================================================================
