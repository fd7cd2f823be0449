---------------------------- MODULE MCLiveJournal ----------------------------
\* Two limit orders for two lots: one with its NEW command and the cancels of two callers,
\* another whose NEW reuses the id of a cancel, so that either is refused where the other
\* came first.
\* The broker reports a fill under two event ids, either of them repeatedly, and it may be
\* taken for either order.
EXTENDS LiveJournal, TLC

CONSTANTS o1, o2, c1, c2, c3, e1, e2, f1

Command(id, kind) ==
    [id |-> id, kind |-> kind, price |-> None, expectedTotal |-> None, newTotal |-> None,
     boundAt |-> Now]

Report(id, fill) ==
    [id |-> id, type |-> "fill", quantity |-> 1, price |-> 1, fill |-> fill, mine |-> TRUE]

MCIntent == [o \in OrderIds |-> [quantity |-> 2, limit |-> 1]]

MCCommandSource ==
    [o \in OrderIds |->
        IF o = o1 THEN {Command(c1, "new"), Command(c2, "cancel"), Command(c3, "cancel")}
                  ELSE {Command(c2, "new")}]

MCEvidence == {Report(e1, f1), Report(e2, f1)}

\* Identifiers of observations and dispatchers are compared for equality only.
Symmetry == Permutations(Dispatchers) \cup Permutations(RawIds)
=============================================================================
