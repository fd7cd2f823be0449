-------------------------- MODULE MCRecordedSession --------------------------
\* Two client threads and three events: a tick, a diagnostic, which needs no projection,
\* and the tick once more.
EXTENDS RecordedSession

ATick == [kind |-> "tick_notification", generation |-> 1, sequence |-> 1, timed |-> TRUE,
          payload |-> [instrument |-> "TX00", pointer |-> 7]]

AStockList == [kind |-> "stock_list_notification", generation |-> 1, sequence |-> 2,
               timed |-> FALSE, payload |-> [x \in {} |-> 0]]

MCCaptured == <<ATick, AStockList, ATick>>
=============================================================================
