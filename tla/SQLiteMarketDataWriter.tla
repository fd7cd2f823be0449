------------------------ MODULE SQLiteMarketDataWriter ------------------------
(***************************************************************************)
(* The bounded batch writer of tx_trade/storage/sqlite_writer.py: client   *)
(* threads publish, flush and stop; one worker thread drains the queue     *)
(* into repository transactions.  A step is a block under the writer's     *)
(* lock, one queue operation, one repository transaction, or the end of a  *)
(* wait.  Every wait may time out.                                         *)
(*                                                                         *)
(* Events are numbered in the order of their acceptance.  An event that    *)
(* the repository finds to be a duplicate counts as persisted.             *)
(***************************************************************************)
EXTENDS Integers, Sequences, FiniteSets, SequencesExt

CONSTANTS
    Clients,        \* threads that call publish, flush and stop
    Capacity,       \* of the queue
    BatchSize,
    MaxEvents,      \* bound on accepted events
    MaxBarriers     \* bound on flush calls

ASSUME WriterAssumption ==
    /\ Capacity \in Nat \ {0} /\ BatchSize \in Nat \ {0}
    /\ MaxEvents \in Nat /\ MaxBarriers \in Nat

VARIABLES
    state,      \* WriterState
    queue,      \* the items waiting, events, barriers and the stop token
    accepted,   \* the counter of accepted events
    barriers,   \* one record per flush call: events it covers, and its outcome
    clients,    \* where each client thread is, and the result of its last call
    worker,     \* where the worker thread is, and the item it holds
    batch,      \* events taken from the queue and not yet written
    durable,    \* events committed by the repository, in order
    persisted,  \* the counter of persisted events
    notified    \* notify_storage_failure was called

vars == <<state, queue, accepted, barriers, clients, worker, batch, durable, persisted, notified>>

Event(n) == [kind |-> "event", n |-> n]
Barrier(b) == [kind |-> "barrier", n |-> b]
StopToken == [kind |-> "stop", n |-> 0]
Tick == [kind |-> "tick", n |-> 0]      \* the flush interval ran out
Nothing == [kind |-> "none", n |-> 0]

Ready(result) == [at |-> "ready", barrier |-> 0, result |-> result]

At(pc, item) == [at |-> pc, item |-> item]

Init ==
    /\ state = "new"
    /\ queue = <<>> /\ batch = <<>> /\ durable = <<>> /\ barriers = <<>>
    /\ accepted = 0 /\ persisted = 0
    /\ clients = [c \in Clients |-> Ready("none")]
    /\ worker = At("unstarted", Nothing)
    /\ notified = FALSE

HasRoom == Len(queue) < Capacity

\* Fault: calls are taken while a stop is under way.
RequireRunningOrStopping == state \in {"running", "stopping"}

RequireRunning == state = "running"

Return(c, result) == clients' = [clients EXCEPT ![c] = Ready(result)]

-----------------------------------------------------------------------------
(* Clients *)

\* start; in any other state it returns or raises without a change.
Start(c) ==
    /\ clients[c].at = "ready" /\ state = "new"
    /\ state' = "running"
    /\ worker' = At("get", Nothing)
    /\ Return(c, "ok")
    /\ UNCHANGED <<queue, accepted, barriers, batch, durable, persisted, notified>>

\* publish: it raises unless the writer runs and the queue has room.
Publish(c) ==
    /\ clients[c].at = "ready" /\ RequireRunning /\ HasRoom
    /\ accepted < MaxEvents
    /\ queue' = Append(queue, Event(accepted + 1))
    /\ accepted' = accepted + 1
    /\ Return(c, "ok")
    /\ UNCHANGED <<state, barriers, worker, batch, durable, persisted, notified>>

\* flush, up to the wait for its barrier.
Flush(c) ==
    /\ clients[c].at = "ready" /\ RequireRunning /\ HasRoom
    /\ Len(barriers) < MaxBarriers
    /\ barriers' = Append(barriers, [covers |-> accepted, outcome |-> "waiting"])
    /\ queue' = Append(queue, Barrier(Len(barriers) + 1))
    /\ clients' = [clients EXCEPT ![c] =
                      [at |-> "flushing", barrier |-> Len(barriers) + 1, result |-> "none"]]
    /\ UNCHANGED <<state, accepted, worker, batch, durable, persisted, notified>>

FlushReturns(c) ==
    /\ clients[c].at = "flushing"
    /\ barriers[clients[c].barrier].outcome # "waiting"
    /\ Return(c, barriers[clients[c].barrier].outcome)
    /\ UNCHANGED <<state, queue, accepted, barriers, worker, batch, durable, persisted, notified>>

FlushTimesOut(c) ==
    /\ clients[c].at = "flushing"
    /\ Return(c, "timeout")
    /\ UNCHANGED <<state, queue, accepted, barriers, worker, batch, durable, persisted, notified>>

\* stop, its first block under the lock; a failed or stopped writer raises or returns.
RequestStop(c) ==
    /\ clients[c].at = "ready"
    /\ \/ state = "new" /\ state' = "stopped" /\ Return(c, "stopped")
       \/ /\ state = "running" /\ state' = "stopping"
          /\ clients' = [clients EXCEPT ![c] = [@ EXCEPT !.at = "putting", !.result = "none"]]
       \/ /\ state = "stopping" /\ UNCHANGED state
          /\ clients' = [clients EXCEPT ![c] = [@ EXCEPT !.at = "joining", !.result = "none"]]
    /\ UNCHANGED <<queue, accepted, barriers, worker, batch, durable, persisted, notified>>

\* The stop token is put outside the lock.
PutStopToken(c) ==
    /\ clients[c].at = "putting" /\ HasRoom
    /\ queue' = Append(queue, StopToken)
    /\ clients' = [clients EXCEPT ![c].at = "joining"]
    /\ UNCHANGED <<state, accepted, barriers, worker, batch, durable, persisted, notified>>

\* Fault: the state is not restored.
PutTimesOutStopping(c) ==
    /\ clients[c].at = "putting" /\ ~HasRoom
    /\ UNCHANGED state /\ Return(c, "backpressure")
    /\ UNCHANGED <<queue, accepted, barriers, worker, batch, durable, persisted, notified>>

\* queue.Full: the writer runs again, unless it failed meanwhile.
PutTimesOut(c) ==
    /\ clients[c].at = "putting" /\ ~HasRoom
    /\ \/ state = "failed" /\ UNCHANGED state /\ Return(c, "fatal")
       \/ state # "failed" /\ state' = "running" /\ Return(c, "backpressure")
    /\ UNCHANGED <<queue, accepted, barriers, worker, batch, durable, persisted, notified>>

\* join, and the last block under the lock.
JoinReturns(c) ==
    /\ clients[c].at = "joining" /\ worker.at = "ended"
    /\ Return(c, CASE state = "failed" -> "fatal"
                   [] state = "stopped" -> "stopped"
                   [] OTHER -> "invalid state")
    /\ UNCHANGED <<state, queue, accepted, barriers, worker, batch, durable, persisted, notified>>

JoinTimesOut(c) ==
    /\ clients[c].at = "joining" /\ worker.at # "ended"
    /\ Return(c, "timeout")
    /\ UNCHANGED <<state, queue, accepted, barriers, worker, batch, durable, persisted, notified>>

-----------------------------------------------------------------------------
(* The worker thread *)

Get ==
    /\ worker.at = "get"
    /\ IF queue # <<>>
       THEN /\ queue' = Tail(queue)
            /\ worker' = At("item", Head(queue))
       ELSE /\ worker' = At("item", Tick)
            /\ UNCHANGED queue
    /\ UNCHANGED <<state, accepted, barriers, clients, batch, durable, persisted, notified>>

\* Fault: a barrier does not flush the batch.
TakeBarrierUnflushed ==
    /\ worker.at = "item"
    /\ batch' = IF worker.item.kind = "event" THEN Append(batch, worker.item.n) ELSE batch
    /\ worker' = CASE worker.item.kind = "event" /\ Len(batch') < BatchSize -> At("get", Nothing)
                   [] worker.item.kind = "barrier" -> At("finish", worker.item)
                   [] OTHER -> At("write", worker.item)
    /\ UNCHANGED <<state, queue, accepted, barriers, clients, durable, persisted, notified>>

\* An event joins the batch; every other item flushes it, and so does a full batch.
Take ==
    /\ worker.at = "item"
    /\ batch' = IF worker.item.kind = "event" THEN Append(batch, worker.item.n) ELSE batch
    /\ worker' = IF worker.item.kind = "event" /\ Len(batch') < BatchSize
                 THEN At("get", Nothing) ELSE At("write", worker.item)
    /\ UNCHANGED <<state, queue, accepted, barriers, clients, durable, persisted, notified>>

\* append_batch commits the whole batch.
Write ==
    /\ worker.at = "write"
    /\ durable' = durable \o batch
    /\ worker' = At("count", worker.item)
    /\ UNCHANGED <<state, queue, accepted, barriers, clients, batch, persisted, notified>>

\* append_batch raises: nothing is committed.  A barrier in hand learns of it first.
WriteFails ==
    /\ worker.at = "write" /\ batch # <<>>
    /\ barriers' = IF worker.item.kind = "barrier"
                   THEN [barriers EXCEPT ![worker.item.n].outcome = "fatal"] ELSE barriers
    /\ worker' = At("fail", Nothing)
    /\ UNCHANGED <<state, queue, accepted, clients, batch, durable, persisted, notified>>

\* The counters of _flush_batch under the lock, and its batch.clear.
Count ==
    /\ worker.at = "count"
    /\ persisted' = persisted + Len(batch)
    /\ batch' = <<>>
    /\ worker' = At("finish", worker.item)
    /\ UNCHANGED <<state, queue, accepted, barriers, clients, durable, notified>>

\* What follows the flush: set the barrier, stop, or go on.
Finish ==
    /\ worker.at = "finish"
    /\ barriers' = IF worker.item.kind = "barrier"
                   THEN [barriers EXCEPT ![worker.item.n].outcome = "ok"] ELSE barriers
    /\ state' = IF worker.item.kind = "stop" THEN "stopped" ELSE state
    /\ worker' = At(IF worker.item.kind = "stop" THEN "ended" ELSE "get", Nothing)
    /\ UNCHANGED <<queue, accepted, clients, batch, durable, persisted, notified>>

Fail ==
    /\ worker.at = "fail"
    /\ state' = "failed"
    /\ worker' = At("notify", Nothing)
    /\ UNCHANGED <<queue, accepted, barriers, clients, batch, durable, persisted, notified>>

Notify ==
    /\ worker.at = "notify"
    /\ notified' = TRUE
    /\ worker' = At("drain", Nothing)
    /\ UNCHANGED <<state, queue, accepted, barriers, clients, batch, durable, persisted>>

\* Fault: the failed worker leaves what is queued.
DrainNothing ==
    /\ worker.at = "drain"
    /\ worker' = At("ended", Nothing)
    /\ UNCHANGED <<state, queue, accepted, barriers, clients, batch, durable, persisted, notified>>

Drain ==
    /\ worker.at = "drain"
    /\ IF queue = <<>>
       THEN worker' = At("ended", Nothing) /\ UNCHANGED <<queue, barriers>>
       ELSE /\ queue' = Tail(queue)
            /\ barriers' = IF Head(queue).kind = "barrier"
                           THEN [barriers EXCEPT ![Head(queue).n].outcome = "fatal"]
                           ELSE barriers
            /\ UNCHANGED worker
    /\ UNCHANGED <<state, accepted, clients, batch, durable, persisted, notified>>

-----------------------------------------------------------------------------

ClientCall(c) == Start(c) \/ Publish(c) \/ Flush(c) \/ RequestStop(c)

ClientWait(c) ==
    FlushReturns(c) \/ PutStopToken(c) \/ JoinReturns(c)

ClientTimeout(c) == FlushTimesOut(c) \/ PutTimesOut(c) \/ JoinTimesOut(c)

\* The steps of the worker that do not touch the repository.
QueueStep == Get \/ Take \/ Count \/ Finish \/ Fail \/ Notify \/ Drain

WorkerStep == QueueStep \/ Write \/ WriteFails

ClientStep == \E c \in Clients : ClientCall(c) \/ ClientWait(c) \/ ClientTimeout(c)

Next == ClientStep \/ WorkerStep

\* The worker thread is scheduled, and a wait whose condition holds returns; no call is
\* ever forced, and no wait has to time out.
Spec == Init /\ [][Next]_vars /\ WF_vars(WorkerStep) /\ \A c \in Clients : WF_vars(ClientWait(c))

-----------------------------------------------------------------------------
(* Properties *)

\* A flush that returns without an error covers everything accepted before its call:
\* it is durable and counted, even if stop, timeouts and other flushes race with it.
FlushCoversEarlierEvents ==
    \A b \in DOMAIN barriers :
        barriers[b].outcome = "ok" =>
            barriers[b].covers <= Len(durable) /\ barriers[b].covers <= persisted

SinkStatus ==
    CASE state = "stopped" -> "closed"
      [] state = "failed" -> "failed"
      [] OTHER -> "open"

InOrder(s) == \A i \in DOMAIN s : s[i] = i

Sink == INSTANCE OrderedSink WITH
    accepted <- accepted,
    durable <- IF InOrder(durable) THEN Len(durable) ELSE -1,
    status <- SinkStatus

\* The writer is an ordered sink: events become durable in the order of acceptance,
\* none twice, STOPPED is reached only with all of them durable, nothing is accepted
\* after it, and accepted events become durable or the writer fails.
ImplementsOrderedSink == Sink!Spec

\* No flush call waits for ever: its barrier is set, whichever of the worker, a stop
\* and a storage failure comes first.
FlushesSettle ==
    \A b \in 1 .. MaxBarriers :
        (b \in DOMAIN barriers) ~> (b \in DOMAIN barriers /\ barriers[b].outcome # "waiting")

\* A requested stop ends: the writer stops, fails, or is running again after the
\* token could not be put in time.
StopSettles == (state = "stopping") ~> (state # "stopping")

=============================================================================
