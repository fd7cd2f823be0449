--------------------------- MODULE MCPhase1Recorder ---------------------------
\* Lanes of one place, a critical and two market ones in use, so that each overflows.
EXTENDS Phase1Recorder

CONSTANT q1

MCCapacity == [lane \in Lanes |-> 1]
MCKinds == {<<"control", NoKey>>, <<"tick", NoKey>>, <<"quote", q1>>}
=============================================================================
