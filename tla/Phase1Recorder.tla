---------------------------- MODULE Phase1Recorder ----------------------------
(***************************************************************************)
(* run_live of tx_trade/app/phase1.py: the adapter's callbacks fill a      *)
(* BoundedIngress, the main thread moves its events through the pipeline   *)
(* into the storage writer, and every damage travels through the health,   *)
(* the session impact and the controlled shutdown to the session's final   *)
(* status.  The writer is what SQLiteMarketDataWriter is shown to          *)
(* implement: an OrderedSink.  The session has begun and the adapter runs. *)
(***************************************************************************)
EXTENDS BoundedIngress

CONSTANTS
    Kinds,          \* <<lane, instrument>> of the events the broker may deliver
    MaxCaptured     \* bound on the callbacks of a session

ASSUME RecorderAssumption ==
    /\ MaxCaptured \in Nat
    /\ \A k \in Kinds : k[1] \in Lanes

VARIABLES
    ingress,                    \* the BoundedIngress
    accepted, durable, status,  \* the writer, an OrderedSink
    adapter,                    \* "running", "stopping" or "stopped": its thread
    reporting,                  \* what each thread still has to report, in order
    health,                     \* PipelineHealth
    incomplete,                 \* SessionImpactTracker knows the session
    shutdown,                   \* ControlledShutdown is requested
    pc,                         \* where the main thread is in run_live
    inflight,                   \* the events process_one has popped and not published
    halted,                     \* of the processor
    sequence,                   \* of the IngestSequencer
    damaged,                    \* lifecycle_damaged
    outcome,                    \* status of the recording session
    captured,                   \* history: number of callbacks
    lost,                       \* history: the lanes that dropped an event
    popped                      \* history: number of events taken from the ingress

sink == <<accepted, durable, status>>
flags == <<health, incomplete, shutdown>>
main == <<pc, inflight, halted, sequence, damaged, outcome, popped>>
vars == <<ingress, sink, adapter, reporting, flags, main, captured, lost>>

Writer == INSTANCE OrderedSink

Threads == {"adapter", "writer", "main"}
Phases == <<"loop", "adapter", "drain", "flush", "stop", "verify", "finalize", "done">>

Failure == <<"fail", "impact", "shutdown">>
Degradation == <<"degrade", "impact">>

Init ==
    /\ ingress = EmptyIngress
    /\ Writer!Init
    /\ adapter = "running"
    /\ reporting = [t \in Threads |-> <<>>]
    /\ health = "healthy" /\ incomplete = FALSE /\ shutdown = FALSE
    /\ pc = "loop" /\ inflight = <<>> /\ halted = FALSE /\ sequence = 0
    /\ damaged = FALSE /\ outcome = "recording"
    /\ captured = 0 /\ lost = {} /\ popped = 0

-----------------------------------------------------------------------------
(* The reports of a thread, one call each *)

Reports(t, steps) == reporting' = [reporting EXCEPT ![t] = @ \o steps]

\* PipelineHealth._change: failed stays failed.
Change(step) ==
    CASE step = "fail" -> "failed"
      [] step = "degrade" /\ health = "healthy" -> "degraded"
      [] OTHER -> health

Report(t) ==
    /\ reporting[t] # <<>>
    /\ reporting' = [reporting EXCEPT ![t] = Tail(@)]
    /\ health' = Change(Head(reporting[t]))
    /\ incomplete' = (incomplete \/ Head(reporting[t]) = "impact")
    /\ shutdown' = (shutdown \/ Head(reporting[t]) = "shutdown")
    /\ UNCHANGED <<ingress, sink, adapter, main, captured, lost>>

-----------------------------------------------------------------------------
(* The adapter's thread *)

\* Fault: an overflow of any lane only degrades the session.
OverflowDegrades(lane) == Degradation

\* _handle_overflow
Overflow(lane) == IF lane \in CriticalLanes THEN Failure ELSE Degradation

Captured(kind) ==
    [lane |-> kind[1], instrument |-> kind[2], sequence |-> captured + 1, key |-> NoKey]

\* _publish; what it drops it reports after the lock is released.
PublishCaptured(event) ==
    /\ ingress' = TryPublish(ingress, event)
    /\ IF Decision(ingress, event) = "dropped"
       THEN lost' = lost \cup {event.lane} /\ Reports("adapter", Overflow(event.lane))
       ELSE UNCHANGED <<lost, reporting>>

\* A handler of the adapter captures what its callback was given.
Callback(kind) ==
    /\ adapter # "stopped" /\ reporting["adapter"] = <<>> /\ captured < MaxCaptured
    /\ captured' = captured + 1
    /\ PublishCaptured(Captured(kind))
    /\ UNCHANGED <<sink, adapter, flags, main>>

\* _fatal, which sets the stop event, or a cleanup that failed.
AdapterFails ==
    /\ adapter # "stopped" /\ reporting["adapter"] = <<>>
    /\ adapter' = "stopping" /\ Reports("adapter", Failure)
    /\ UNCHANGED <<ingress, sink, flags, main, captured, lost>>

AdapterEnds ==
    /\ adapter = "stopping" /\ reporting["adapter"] = <<>>
    /\ adapter' = "stopped"
    /\ UNCHANGED <<ingress, sink, reporting, flags, main, captured, lost>>

-----------------------------------------------------------------------------
(* The writer's thread *)

WriterPersists ==
    /\ Writer!Persist
    /\ UNCHANGED <<ingress, adapter, reporting, flags, main, captured, lost>>

WriterCloses ==
    /\ pc \notin {"loop", "adapter", "drain", "flush"} /\ Writer!Close
    /\ UNCHANGED <<ingress, adapter, reporting, flags, main, captured, lost>>

\* The batch cannot be stored: PipelineStorageFailureNotifier reports it.
WriterFails ==
    /\ Writer!Fail /\ Reports("writer", Failure)
    /\ UNCHANGED <<ingress, adapter, flags, main, captured, lost>>

-----------------------------------------------------------------------------
(* The main thread *)

Main(phase) == pc = phase /\ reporting["main"] = <<>>

\* process_one takes an event ...
Pop ==
    /\ (Main("loop") /\ ~shutdown) \/ (Main("drain") /\ ~halted)
    /\ inflight = <<>> /\ ~IsEmpty(ingress)
    /\ ingress' = TryPop(ingress)
    /\ inflight' = <<NextEvent(ingress)>> /\ popped' = popped + 1
    /\ UNCHANGED <<sink, adapter, reporting, flags, pc, halted, sequence, damaged, outcome,
                   captured, lost>>

\* ... and the pipeline maps and publishes it.
Accept ==
    /\ Main("loop") \/ Main("drain")
    /\ inflight # <<>> /\ inflight' = <<>>
    /\ sequence' = sequence + 1
    /\ Writer!Accept
    /\ UNCHANGED <<ingress, adapter, reporting, flags, pc, halted, damaged, outcome, popped,
                   captured, lost>>

NextPhase == IF pc = "loop" THEN "adapter" ELSE "flush"

\* The mapper refuses it, or the writer is full or failed: the processor halts, and the
\* exception leaves the loop (where run_live reports it again) or the drain.
AcceptFails ==
    /\ Main("loop") \/ Main("drain")
    /\ inflight # <<>> /\ inflight' = <<>>
    /\ sequence' \in {sequence, sequence + 1}
    /\ halted' = TRUE /\ damaged' = TRUE /\ pc' = NextPhase
    /\ Reports("main", Failure)
    /\ UNCHANGED <<ingress, sink, adapter, flags, outcome, popped, captured, lost>>

\* The event is published and the observer raises: as above, but the drain only degrades.
ObserverFails ==
    /\ Main("loop") \/ Main("drain")
    /\ inflight # <<>> /\ inflight' = <<>>
    /\ sequence' = sequence + 1
    /\ Writer!Accept
    /\ halted' = TRUE /\ damaged' = TRUE /\ pc' = NextPhase
    /\ Reports("main", <<"degrade", "impact", "shutdown">>
                          \o IF pc = "loop" THEN Failure ELSE <<>>)
    /\ UNCHANGED <<ingress, adapter, flags, outcome, popped, captured, lost>>

\* Ctrl-C, or an exception of the adapter's commands: the event in flight, numbered or
\* not, is lost without halting the processor.
Interrupted ==
    /\ Main("loop") \/ Main("drain")
    /\ inflight' = <<>>
    /\ sequence' \in {sequence} \cup {sequence + 1 : e \in Range(inflight)}
    /\ damaged' = TRUE /\ pc' = NextPhase
    /\ IF pc = "loop" THEN Reports("main", Failure) ELSE UNCHANGED reporting
    /\ UNCHANGED <<ingress, sink, adapter, flags, halted, outcome, popped, captured, lost>>

\* The loop sees the shutdown request.
LeaveLoop ==
    /\ Main("loop") /\ inflight = <<>> /\ shutdown
    /\ pc' = "adapter"
    /\ UNCHANGED <<ingress, sink, adapter, reporting, flags, inflight, halted, sequence, damaged,
                   outcome, popped, captured, lost>>

\* max_live_iterations is reached.
IterationsEnd ==
    /\ Main("loop") /\ inflight = <<>>
    /\ pc' = "adapter"
    /\ UNCHANGED <<ingress, sink, adapter, reporting, flags, inflight, halted, sequence, damaged,
                   outcome, popped, captured, lost>>

StepTo(phase, ok) ==
    /\ pc' = phase
    /\ IF ok THEN UNCHANGED <<damaged, reporting>>
             ELSE damaged' = TRUE /\ Reports("main", <<"impact">>)
    /\ UNCHANGED <<ingress, sink, flags, inflight, halted, sequence, outcome, popped, captured,
                   lost>>

\* adapter.stop sets the stop event, and joins the thread or times out.
StopAdapter ==
    /\ Main("adapter") /\ adapter = "running"
    /\ adapter' = "stopping"
    /\ UNCHANGED <<ingress, sink, reporting, flags, main, captured, lost>>

\* Fault: a stop that times out is taken for one that succeeded.
AdapterJoinedAnyway(ok) == adapter # "running" /\ ok

\* The join succeeds, or stop times out or is interrupted.
AdapterJoined(ok) == ok => adapter = "stopped"

JoinAdapter ==
    /\ Main("adapter")
    /\ \E ok \in BOOLEAN : AdapterJoined(ok) /\ StepTo("drain", ok)
    /\ UNCHANGED adapter

\* process_one returns False, or the processor is halted.
DrainEnds ==
    /\ Main("drain") /\ inflight = <<>>
    /\ IsEmpty(ingress) \/ halted
    /\ StepTo("flush", TRUE)
    /\ UNCHANGED adapter

\* The barrier is answered, or the flush is refused, fails or times out.
Flush ==
    /\ Main("flush")
    /\ \/ status = "open" /\ durable = accepted /\ StepTo("stop", TRUE)
       \/ StepTo("stop", FALSE)
    /\ UNCHANGED adapter

StopWriter ==
    /\ Main("stop")
    /\ \/ status = "closed" /\ StepTo("verify", TRUE)
       \/ StepTo("verify", FALSE)
    /\ UNCHANGED adapter

\* Readback: it may fail, finds a gap, an empty recording or a requested shutdown.
Verify ==
    /\ Main("verify")
    /\ \E readable \in BOOLEAN :
          StepTo("finalize", readable /\ ~shutdown /\ durable > 0)
    /\ UNCHANGED adapter

\* effective_terminal_status
EffectiveTerminalStatus == IF damaged \/ incomplete THEN "incomplete" ELSE "complete"

\* end_session succeeds, or fails and is tried once more as incomplete.
Finalize ==
    /\ Main("finalize")
    /\ pc' = "done"
    /\ outcome' \in {EffectiveTerminalStatus, "incomplete", "recording"}
    /\ UNCHANGED <<ingress, sink, adapter, reporting, flags, inflight, halted, sequence, damaged,
                   popped, captured, lost>>

-----------------------------------------------------------------------------

MainStep ==
    \/ Pop \/ Accept \/ AcceptFails \/ ObserverFails \/ LeaveLoop
    \/ StopAdapter \/ JoinAdapter \/ DrainEnds \/ Flush \/ StopWriter \/ Verify \/ Finalize

Next ==
    \/ \E t \in Threads : Report(t)
    \/ \E kind \in Kinds : Callback(kind)
    \/ AdapterFails \/ AdapterEnds
    \/ WriterPersists \/ WriterCloses \/ WriterFails
    \/ MainStep \/ Interrupted \/ IterationsEnd

\* Every thread is scheduled; nobody has to interrupt, fail or limit the session, and the
\* broker need not call back.
Spec ==
    /\ Init /\ [][Next]_vars
    /\ WF_vars(MainStep)
    /\ \A t \in Threads : WF_vars(Report(t))

-----------------------------------------------------------------------------
(* Properties *)

\* A session is complete only if no callback's event was dropped and every event that was
\* captured is durable: the damage of every thread was reported before the main thread
\* read it, in whatever order they ran.
CompleteMeansRecorded ==
    outcome = "complete" =>
        /\ lost = {} /\ IsEmpty(ingress) /\ inflight = <<>>
        /\ adapter = "stopped" /\ \A t \in Threads : reporting[t] = <<>>
        /\ status = "closed" /\ popped = sequence /\ accepted = sequence /\ durable = sequence
        /\ health = "healthy"

\* A dropped critical event and a storage failure end the session.
CriticalFailureEndsSession ==
    (lost \cap CriticalLanes # {} \/ status = "failed") ~> (pc = "done")
=============================================================================
