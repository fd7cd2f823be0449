---------------------------- MODULE ReplayRuntime ----------------------------
(***************************************************************************)
(* The single-use replay runtime of tx_trade/replay/runtime.py: a worker   *)
(* thread that publishes a recorded session, and client threads that       *)
(* start, pause, resume, stop and wait.  A step is a block under the       *)
(* runtime's condition, a call out of it (source, sink, timer) or the end  *)
(* of a wait.  A thread in Condition.wait_for goes on when it holds the    *)
(* lock and finds its predicate true, which other threads may have made    *)
(* false again since they notified it.                                     *)
(***************************************************************************)
EXTENDS Integers, Sequences, SequencesExt

CONSTANTS
    Clients,    \* control threads
    Session,    \* the recorded ingest_sequence values, ascending
    After       \* after_ingest_sequence; 0 for None

ASSUME ReplayAssumption ==
    /\ Session \in Seq(Nat \ {0}) /\ Session # <<>>
    /\ \A i, j \in DOMAIN Session : i < j => Session[i] < Session[j]
    /\ After \in 0 .. Last(Session)

VARIABLES
    state,      \* ReplayState
    cursor,     \* ingest_sequence of the last recorded publication
    emitted,    \* emitted_count
    pause,      \* pause_requested
    stop,       \* stop_requested
    wake,       \* the event that interrupts the pacing timer
    worker,     \* where the worker thread is
    envelope,   \* ingest_sequence of the envelope in hand
    published,  \* what the sink received
    clients     \* where each client is, and the result of its last call

control == <<pause, stop, wake>>
progress == <<cursor, emitted, envelope, published>>
vars == <<state, control, worker, progress, clients>>

Terminal == state \in {"stopped", "completed", "failed"}

\* Where the first event after the cursor is, if there is one: the session ascends.
FirstPlanned ==
    CHOOSE i \in 1 .. Len(Session) + 1 : \A j \in DOMAIN Session : j < i <=> Session[j] <= After

\* The plan of _prepare_expected_count: the events after the cursor.
Planned == SubSeq(Session, FirstPlanned, Len(Session))

ClientPlaces == {"ready", "pausing", "joining", "waiting"}

Ready(result) == [at |-> "ready", result |-> result]

Enter(c, place) == clients' = [clients EXCEPT ![c] = [at |-> place, result |-> "none"]]

Return(c, result) == clients' = [clients EXCEPT ![c] = Ready(result)]

Init ==
    /\ state = "ready"
    /\ cursor = After /\ emitted = 0 /\ envelope = 0 /\ published = <<>>
    /\ pause = FALSE /\ stop = FALSE /\ wake = FALSE
    /\ worker = "unstarted"
    /\ clients = [c \in Clients |-> Ready("none")]

-----------------------------------------------------------------------------
(* Client threads; a call outside its states raises and changes nothing. *)

Start(c) ==
    /\ clients[c].at = "ready" /\ state = "ready"
    /\ state' = "running" /\ worker' = "open"
    /\ Return(c, "ok")
    /\ UNCHANGED <<control, progress>>

\* Fault: a pause does not wake the timer.
PauseQuietly(c) ==
    /\ clients[c].at = "ready" /\ state = "running"
    /\ pause' = TRUE
    /\ Enter(c, "pausing")
    /\ UNCHANGED <<state, stop, wake, worker, progress>>

\* pause, up to the wait for its acknowledgement.
Pause(c) ==
    /\ clients[c].at = "ready" /\ state = "running"
    /\ pause' = TRUE /\ wake' = TRUE
    /\ Enter(c, "pausing")
    /\ UNCHANGED <<state, stop, worker, progress>>

PauseReturns(c) ==
    /\ clients[c].at = "pausing" /\ state # "running"
    /\ Return(c, "ok")
    /\ UNCHANGED <<state, control, worker, progress>>

Resume(c) ==
    /\ clients[c].at = "ready" /\ state = "paused"
    /\ pause' = FALSE /\ wake' = TRUE
    /\ state' = "running"
    /\ Return(c, "ok")
    /\ UNCHANGED <<stop, worker, progress>>

\* stop, up to the join.  A runtime that never started has no thread to join.
Stop(c) ==
    /\ clients[c].at = "ready"
    /\ \/ /\ state = "ready"
          /\ state' = "stopped" /\ stop' = TRUE
          /\ Return(c, "stopped")
          /\ UNCHANGED <<pause, wake>>
       \/ /\ Terminal /\ worker # "unstarted"
          /\ Enter(c, "joining")
          /\ UNCHANGED <<state, control>>
       \/ /\ state \in {"running", "paused"}
          /\ stop' = TRUE /\ pause' = FALSE /\ wake' = TRUE
          /\ Enter(c, "joining")
          /\ UNCHANGED state
    /\ UNCHANGED <<worker, progress>>

JoinReturns(c) ==
    /\ clients[c].at = "joining" /\ worker = "ended"
    /\ Return(c, "stopped")
    /\ UNCHANGED <<state, control, worker, progress>>

\* wait returns a snapshot once the state is terminal and the thread has ended.
Wait(c) ==
    /\ clients[c].at = "ready" /\ state # "ready" /\ worker # "unstarted"
    /\ Enter(c, "waiting")
    /\ UNCHANGED <<state, control, worker, progress>>

WaitReturns(c) ==
    /\ clients[c].at = "waiting" /\ Terminal /\ worker = "ended"
    /\ Return(c, "ok")
    /\ UNCHANGED <<state, control, worker, progress>>

\* The timeouts of stop and wait.
TimesOut(c) ==
    /\ \/ clients[c].at = "joining" /\ worker # "ended"
       \/ clients[c].at = "waiting" /\ ~Terminal
    /\ Return(c, "timeout")
    /\ UNCHANGED <<state, control, worker, progress>>

-----------------------------------------------------------------------------
(* The worker thread *)

Goto(place) == worker' = place /\ UNCHANGED <<state, control, progress, clients>>

\* _fail; only the worker of a started runtime makes the state terminal.
Failing ==
    /\ state' = IF Terminal THEN state ELSE "failed"
    /\ worker' = "ended"
    /\ UNCHANGED <<control, progress, clients>>

\* _open_source: open, verify_integrity, and a first pass over the whole session.
OpenSource == worker = "open" /\ (Goto("ack next") \/ Failing)

\* _acknowledge_controls ahead of the step named by then; a pause waits in paused.
Acknowledge(at, paused, then) ==
    /\ worker = at
    /\ state' = CASE stop -> "stopped" [] ~stop /\ pause -> "paused" [] OTHER -> state
    /\ worker' = CASE stop -> "ended" [] ~stop /\ pause -> paused [] OTHER -> then
    /\ UNCHANGED <<control, progress, clients>>

\* Fault: a paused worker waits for resume only.
EndPauseOnResume(paused, then) ==
    /\ worker = paused
    /\ ~pause
    /\ state' = IF stop THEN "stopped" ELSE "running"
    /\ worker' = IF stop THEN "ended" ELSE then
    /\ UNCHANGED <<control, progress, clients>>

\* Its wait_for, once the predicate is seen to hold.
EndPause(paused, then) ==
    /\ worker = paused
    /\ ~pause \/ stop
    /\ state' = IF stop THEN "stopped" ELSE "running"
    /\ worker' = IF stop THEN "ended" ELSE then
    /\ UNCHANGED <<control, progress, clients>>

AcknowledgeControls ==
    \/ Acknowledge("ack next", "paused next", "next")
    \/ Acknowledge("ack wait", "paused wait", "arm")
    \/ Acknowledge("ack publish", "paused publish", "publish")

LeavePause ==
    \/ EndPause("paused next", "next")
    \/ EndPause("paused wait", "arm")
    \/ EndPause("paused publish", "publish")

\* next(iterator): an envelope of the session's range that follows the last one, waited for
\* if it is far enough from its predecessor; the end; or an exception or an envelope that
\* is refused.  It is the source's second pass: that it yields what the first one did is
\* only counted at the end.
TakeNext ==
    /\ worker = "next"
    /\ \/ /\ envelope' \in {e \in Head(Session) .. Last(Session) : e > cursor}
          /\ worker' \in {"ack publish", "ack wait"}
          /\ UNCHANGED <<state, control, cursor, emitted, published, clients>>
       \/ Goto("finish")
       \/ Failing

\* _wait: the wake event is cleared under the lock before the timer starts.
ArmTimer ==
    /\ worker = "arm"
    /\ wake' = FALSE
    /\ worker' = IF stop \/ pause THEN "ack wait" ELSE "timer"
    /\ UNCHANGED <<state, pause, stop, progress, clients>>

\* Fault: the timer ends when it is woken, not when the delay is over.
TimerEndsWhenWoken ==
    worker = "timer" /\ wake /\ Goto("ack wait")

\* The delay elapses, is interrupted with some or nothing of it left, or the timer fails.
TimerEnds ==
    /\ worker = "timer"
    /\ \/ Goto("ack publish")
       \/ wake /\ Goto("ack wait")
       \/ Failing

\* sink.publish; called back on the worker's thread, pause and stop only leave a request.
Publish ==
    /\ worker = "publish"
    /\ \/ /\ published' = Append(published, envelope)
          /\ worker' = "record"
          /\ \/ UNCHANGED control
             \/ state = "running" /\ pause' = TRUE /\ wake' = TRUE /\ UNCHANGED stop
             \/ stop' = TRUE /\ pause' = FALSE /\ wake' = TRUE
          /\ UNCHANGED <<state, cursor, emitted, envelope, clients>>
       \/ Failing

Record ==
    /\ worker = "record"
    /\ cursor' = envelope /\ emitted' = emitted + 1
    /\ worker' = "ack next"
    /\ UNCHANGED <<state, control, envelope, published, clients>>

\* Fault: the last event of the session is taken for all of it.
FinishUncounted ==
    /\ worker = "finish"
    /\ state' = CASE stop -> "stopped"
                  [] ~stop /\ cursor # Last(Session) -> "failed"
                  [] OTHER -> "completed"
    /\ worker' = "ended"
    /\ UNCHANGED <<control, progress, clients>>

\* _finish_or_fail
Finish ==
    /\ worker = "finish"
    /\ state' = CASE stop -> "stopped"
                  [] ~stop /\ (cursor # Last(Session) \/ emitted # Len(Planned)) -> "failed"
                  [] OTHER -> "completed"
    /\ worker' = "ended"
    /\ UNCHANGED <<control, progress, clients>>

-----------------------------------------------------------------------------

ClientCall(c) == Start(c) \/ Pause(c) \/ Resume(c) \/ Stop(c) \/ Wait(c)

ClientReturn(c) == PauseReturns(c) \/ JoinReturns(c) \/ WaitReturns(c)

WorkerStep ==
    \/ OpenSource \/ AcknowledgeControls \/ LeavePause \/ TakeNext
    \/ ArmTimer \/ TimerEnds \/ Publish \/ Record \/ Finish

Next ==
    \/ \E c \in Clients : ClientCall(c) \/ ClientReturn(c) \/ TimesOut(c)
    \/ WorkerStep

\* The worker is scheduled, and a wait whose predicate stays true returns; no client
\* has to make a call, and no wait has to time out.
Spec == Init /\ [][Next]_vars /\ WF_vars(WorkerStep) /\ \A c \in Clients : WF_vars(ClientReturn(c))

-----------------------------------------------------------------------------
(* Properties *)

\* Through any pauses, and whatever the source yields in its second pass, the sink receives
\* events after the cursor in ascending order, none twice.  The cursor is the last one
\* recorded, so that resuming a new runtime after the cursor of a snapshot repeats at most
\* the one event that was not recorded and leaves out nothing the source yielded.  A source
\* that omits an event is published past the gap, but never reported as completed: what
\* completed is as long as the plan, and if it holds nothing foreign to the session it is
\* the plan (_publish_all, _finish_or_fail).
PublishesInOrder ==
    /\ \A i, j \in DOMAIN published : i < j => published[i] < published[j]
    /\ \A i \in DOMAIN published : published[i] > After
    /\ emitted \in {Len(published), Len(published) - 1}
    /\ cursor = IF emitted = 0 THEN After ELSE published[emitted]
    /\ state = "completed" =>
          /\ emitted = Len(published) /\ Len(published) = Len(Planned)
          /\ Range(published) \subseteq Range(Session) => published = Planned

\* A request never leaves the sleeping worker asleep: the wake event is cleared only
\* when no request is pending, and every request sets it again.
SleepingWorkerIsWoken == worker = "timer" /\ (stop \/ pause) => wake

\* A requested stop ends the runtime, whatever the worker is doing and whatever other
\* controls race with it.
StopTerminates == stop ~> (Terminal /\ worker \in {"ended", "unstarted"})

\* Playback that nobody pauses ends.
PlaybackEnds == (state = "running") ~> (Terminal \/ pause)

\* runtime.py: "Request a pause and, off-worker, wait until it is acknowledged."
PauseIsAcknowledged == \A c \in Clients : (clients[c].at = "pausing") ~> (clients[c].at # "pausing")
=============================================================================
