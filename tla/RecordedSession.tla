--------------------------- MODULE RecordedSession ---------------------------
(***************************************************************************)
(* The repository of tx_trade/storage/sqlite_repository.py under the batch *)
(* writer: a recording session, its authoritative event log and the        *)
(* projections of its events.  The application begins and ends the session *)
(* in its own thread, whether the writer's worker has ended or not, and    *)
(* another process may open the file with the recovery of sessions.  A     *)
(* step of the repository is one transaction.                              *)
(***************************************************************************)
EXTENDS SQLiteMarketDataWriter, CapturedEventMapper

CONSTANT Captured       \* Captured[n]: the n-th event, whose ingest_sequence is n

ASSUME CapturedAssumption ==
    /\ DOMAIN Captured = 1 .. MaxEvents
    /\ \A n \in 1 .. MaxEvents : CapturedEventContract(Captured[n]) /\ Validated(Captured[n])

Envelopes == [n \in 1 .. MaxEvents |-> BuildEnvelope(Captured[n], n)]

DedupeKey == [n \in 1 .. MaxEvents |-> Envelopes[n].dedupeKey]

VARIABLES
    session,        \* "none" or the status of its row in recording_sessions
    checkpoint,     \* its last_ingest_sequence, 0 for none
    log,            \* event_log, by ingest_sequence
    projected,      \* the events whose projection is stored
    rawOnly         \* the session is in _raw_only_sessions

repository == <<session, checkpoint, log, projected, rawOnly>>
recording == <<vars, repository>>

Terminal == {"complete", "degraded", "failed", "incomplete"}

\* The members of a finite set of numbers, the least first.
Ascending(numbers) ==
    CHOOSE s \in [1 .. Cardinality(numbers) -> numbers] :
        Range(s) = numbers /\ \A i, j \in DOMAIN s : i < j => s[i] < s[j]

Keys(events) == {DedupeKey[n] : n \in events}

RepositoryInit ==
    /\ session = "none" /\ checkpoint = 0
    /\ log = <<>> /\ projected = {} /\ rawOnly = FALSE

\* begin_session
BeginSession ==
    /\ session = "none" /\ session' = "recording"
    /\ UNCHANGED <<checkpoint, log, projected, rawOnly>>

\* _prepare refuses an inactive session, ...
Active == session = "recording" \/ (session # "none" /\ rawOnly)

\* ... a sequence at or before the checkpoint ...
InSequence == \A i \in DOMAIN batch : batch[i] > checkpoint \/ DedupeKey[batch[i]] \in Keys(Range(log))

\* ... and skips an event whose key is stored, or comes earlier in the batch.
NewEvents ==
    LET first(i) == /\ DedupeKey[batch[i]] \notin Keys(Range(log))
                    /\ \A j \in 1 .. i - 1 : DedupeKey[batch[j]] # DedupeKey[batch[i]]
        kept == Ascending({i \in DOMAIN batch : first(i)})
    IN  [k \in DOMAIN kept |-> batch[kept[k]]]

\* Fault: the checkpoint is that of the batch, duplicates included.
StoreToEndOfBatch(events) == log' = log \o events /\ checkpoint' = Last(batch)

\* _insert_event for each, and _update_checkpoint.
Store(events) == log' = log \o events /\ checkpoint' = Last(events)

\* _insert_projection: quotes, ticks and connection events have a table, others need none.
Projected(events) ==
    {n \in Range(events) : Envelopes[n].type \in {"quote", "tick", "connection_status"}}

\* Fault: the recovery leaves the session active.
RecoverProjectionBatchQuietly(events) ==
    \E kept \in SUBSET Projected(events) :
        /\ Store(events) /\ projected' = projected \cup kept
        /\ UNCHANGED <<session, rawOnly>>

\* _recover_projection_batch: after the rollback the events are stored once more, with
\* those projections that succeed this time; the session is incomplete for good.
RecoverProjectionBatch(events) ==
    \E kept \in SUBSET Projected(events) :
        /\ Projected(events) # {}
        /\ Store(events) /\ projected' = projected \cup kept
        /\ session' = "incomplete" /\ rawOnly' = TRUE

\* append_batch that returns: nothing is new, the session is raw-only, every projection
\* is stored, or one of them fails.
AppendBatch ==
    \/ batch = <<>> /\ UNCHANGED repository
    \/ /\ batch # <<>> /\ Active /\ InSequence
       /\ \/ NewEvents = <<>> /\ UNCHANGED repository
          \/ /\ NewEvents # <<>> /\ rawOnly
             /\ Store(NewEvents) /\ UNCHANGED <<session, projected, rawOnly>>
          \/ /\ NewEvents # <<>> /\ ~rawOnly
             /\ Store(NewEvents) /\ projected' = projected \cup Projected(NewEvents)
             /\ UNCHANGED <<session, rawOnly>>
          \/ NewEvents # <<>> /\ ~rawOnly /\ RecoverProjectionBatch(NewEvents)

\* end_session: a raw-only session ends incomplete whatever is asked for.
EndSession(status) ==
    /\ \/ ~rawOnly /\ session = "recording" /\ session' = status
       \/ rawOnly /\ session = "incomplete" /\ session' = "incomplete"
    /\ rawOnly' = FALSE
    /\ UNCHANGED <<checkpoint, log, projected>>

\* Another process opens the file with recover_incomplete_sessions.
RecoverSessions ==
    /\ session = "recording" /\ session' = "incomplete"
    /\ UNCHANGED <<checkpoint, log, projected, rawOnly>>

RecordingInit == Init /\ RepositoryInit

\* append_batch raises, refused or rolled back, without a trace.
Worker ==
    \/ QueueStep /\ UNCHANGED repository
    \/ Write /\ AppendBatch
    \/ WriteFails /\ UNCHANGED repository

RecordingNext ==
    \/ ClientStep /\ UNCHANGED repository
    \/ Worker
    \/ (BeginSession \/ RecoverSessions \/ \E s \in {"complete", "incomplete"} : EndSession(s))
          /\ UNCHANGED vars

\* As in Spec of the writer: its worker is scheduled, and waits return.
RecordingSpec ==
    /\ RecordingInit /\ [][RecordingNext]_recording
    /\ WF_recording(Worker)
    /\ \A c \in Clients : WF_recording(ClientWait(c) /\ UNCHANGED repository)

-----------------------------------------------------------------------------
(* Properties *)

\* iter_event_rows: page after page in the order of the ingest sequence.
EventRows == Ascending(Range(log))

\* verify_integrity of the readback: the rows are strictly increasing up to the checkpoint.
VerifyIntegrity ==
    /\ \A i, j \in DOMAIN EventRows : i < j => EventRows[i] < EventRows[j]
    /\ checkpoint = IF EventRows = <<>> THEN 0 ELSE Last(EventRows)

\* The readback verifies at any time and returns the events in the order in which they
\* were written, and what the writer reports as persisted is there once: each event is in
\* the log or another event with its key is, however flushes, projection failures, the
\* end and the recovery of the session interleave.
PersistedIsReadBack ==
    /\ VerifyIntegrity /\ EventRows = log
    /\ \A i \in DOMAIN durable : DedupeKey[durable[i]] \in Keys(Range(log))
    /\ \A i, j \in DOMAIN log : DedupeKey[log[i]] = DedupeKey[log[j]] => i = j

\* A session is complete only if each event of its log has the projection it needs, and stays
\* so: what the writer still holds when the session ends is refused.
CompleteMeansProjected == session = "complete" => Projected(log) \subseteq projected
=============================================================================
