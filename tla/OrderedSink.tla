----------------------------- MODULE OrderedSink -----------------------------
(***************************************************************************)
(* What a storage sink promises to its publishers: events become durable   *)
(* in the order in which they were accepted, an orderly close leaves none  *)
(* of them behind, and an open sink makes progress or reports a failure.   *)
(***************************************************************************)
EXTENDS Naturals

VARIABLES
    accepted,   \* number of events accepted so far
    durable,    \* number of accepted events that are durable, oldest first
    status      \* "open", "closed" or "failed"

vars == <<accepted, durable, status>>

Init == accepted = 0 /\ durable = 0 /\ status = "open"

Accept ==
    /\ status = "open"
    /\ accepted' = accepted + 1
    /\ UNCHANGED <<durable, status>>

\* A prefix of what was accepted becomes durable.
Persist ==
    /\ status = "open"
    /\ durable' \in durable + 1 .. accepted
    /\ UNCHANGED <<accepted, status>>

Close ==
    /\ status = "open" /\ durable = accepted
    /\ status' = "closed"
    /\ UNCHANGED <<accepted, durable>>

Fail ==
    /\ status = "open"
    /\ status' = "failed"
    /\ UNCHANGED <<accepted, durable>>

Next == Accept \/ Persist \/ Close \/ Fail

\* While accepted events wait, some become durable or the sink fails.
Progress == durable < accepted /\ (Persist \/ Fail)

Spec == Init /\ [][Next]_vars /\ WF_vars(Progress)
=============================================================================
