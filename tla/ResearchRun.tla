----------------------------- MODULE ResearchRun -----------------------------
(***************************************************************************)
(* The durable research run (app/research_paper.py over                    *)
(* research/sqlite_repository.py): a runner reserves the state file,       *)
(* creates the run, commits one durable batch per envelope (checkpoints,   *)
(* cursor and outbox records in one transaction), completes the run with a *)
(* summary and returns the outbox as its output. A runner can die anywhere *)
(* and another one, started with the restart mode "resume", hydrates the   *)
(* checkpoints and goes on; nothing keeps two of them from running at once.*)
(*                                                                         *)
(* A failed COMMIT poisons the repository and ends the runner with the     *)
(* transaction durable or not: that is Crash after or before the commit.   *)
(* Sizes in bytes (output, checkpoints, database pages) are left out.      *)
(***************************************************************************)
EXTENDS StrategyCoordinator

CONSTANTS
    Runners,     \* the processes
    Settings,    \* the strategy registrations a process may be configured with
    Source,      \* the recorded session, a sequence of envelopes
    MaxCrashes   \* bound on crashes

\* _scan_source
ScannedSource ==
    /\ Source # << >>
    /\ \A n \in DOMAIN Source : Source[n].session = Source[1].session
    /\ \A n \in 2 .. Len(Source) : Source[n].sequence > Source[n - 1].sequence

ASSUME SourceScanned == ScannedSource

\* OrderTemplate.__post_init__
TemplateTyped(template) ==
    template # None => template.side \in {"buy", "sell"} /\ template.quantity \in Nat \ {0}

\* The envelopes are typed, the strategies of a coordinator are a tuple.
ASSUME InputTypes ==
    /\ Source \in Seq(Range(Source))
    /\ \A n \in DOMAIN Source : DecisionTyped(Source[n], << >>)
    /\ \A settings \in Settings :
           /\ settings \in Seq(Range(settings))
           /\ \A n \in DOMAIN settings : TemplateTyped(settings[n].template)

VARIABLES
    file,      \* "absent", "reserved" (created, empty) or "schema"
    run,       \* the row of research_runs, or None
    batches,   \* research_batches: sequence -> [fingerprint, version]
    outbox,    \* research_outbox: output sequence -> record
    proc,      \* each runner
    outputs,   \* what runners returned
    crashes

vars == <<file, run, batches, outbox, proc, outputs, crashes>>

durable == <<file, run, batches, outbox>>

Idle == [pc |-> "idle", settings |-> None, c |-> None, version |-> None, cursor |-> None,
         batch |-> None]

EventCount == Len(Source)

FirstSequence == Source[1].sequence

LastSequence == Source[EventCount].sequence

Session == Source[1].session

\* The ordinal of an envelope in the source, counted from 0.
Ordinal(env) == (CHOOSE n \in DOMAIN Source : Source[n] = env) - 1

----------------------------------------------------------------------------
(* Output records *)

\* ResearchOutboxRecord.__post_init__
OutboxRecordContract(record) ==
    CASE record.type = "market"  -> record.source # None /\ record.paper = None
      [] record.type = "paper"   -> record.source # None /\ record.paper # None
      [] record.type = "summary" -> record.source = None /\ record.paper = None

MarketRecord(env) ==
    [type |-> "market", source |-> env.sequence, paper |-> None, payload |-> env]

\* encode_paper_record: the k-th event with its decision and envelope digests.
PaperRecord(c, k) ==
    LET event == c.broker.events[k]
        record == IF event.sequence \in DOMAIN c.records THEN c.records[event.sequence] ELSE None
    IN  [type |-> "paper", source |-> event.sequence, paper |-> k,
         payload |-> IF record = None THEN <<event>>
                     ELSE <<event, record.commands, record.envelope>>]

SummaryRecord(c) ==
    [type |-> "summary", source |-> None, paper |-> None,
     payload |-> [version |-> c.broker.version, decisions |-> Cardinality(DOMAIN c.records),
                  market |-> EventCount, fills |-> Len(c.broker.fills),
                  orders |-> Cardinality(DOMAIN c.broker.orders),
                  events |-> Len(c.broker.events),
                  positions |-> Cardinality(DOMAIN c.broker.positions),
                  cursor |-> LastSequence]]

\* _validate_correlation
Correlated(c) ==
    /\ c.broker.bound = Session
    /\ c.broker.last = LastSequence
    /\ DOMAIN c.records = {Source[n].sequence : n \in DOMAIN Source}
    /\ \A n \in DOMAIN Source : c.records[Source[n].sequence].envelope = Source[n]
    /\ \A e \in ToSet(c.broker.events) : e.session = Session /\ e.sequence \in DOMAIN c.records

\* materialize_research_jsonl: market records, paper records, summary.
Materialize(c) ==
    [n \in DOMAIN Source |-> MarketRecord(Source[n])]
        \o [k \in DOMAIN c.broker.events |-> PaperRecord(c, k)]
        \o <<SummaryRecord(c)>>

\* Fault: the paper records are numbered from the capacity upwards.
OffsetByCapacity(before, c, env) ==
    [n \in {Ordinal(env)} \cup
           {Limits.records + k - 1 : k \in (Len(before.broker.events) + 1) .. Len(c.broker.events)} |->
        IF n = Ordinal(env) THEN MarketRecord(env)
        ELSE PaperRecord(c, n - Limits.records + 1)]

\* The records one batch adds: market records come first in the output, so the
\* paper records are numbered from the number of source events upwards.
BatchOutbox(before, c, env) ==
    [n \in {Ordinal(env)} \cup
           {EventCount + k - 1 : k \in (Len(before.broker.events) + 1) .. Len(c.broker.events)} |->
        IF n = Ordinal(env) THEN MarketRecord(env)
        ELSE PaperRecord(c, n - EventCount + 1)]

----------------------------------------------------------------------------
(* Opening the state file *)

Init ==
    /\ file = "absent" /\ run = None /\ batches = Empty /\ outbox = Empty
    /\ proc = [r \in Runners |-> Idle] /\ outputs = {} /\ crashes = 0

\* _validate_state_path: a new run needs a new file, a resumed one its file.
StatePathValid(mode) == mode = "create" <=> file = "absent"

\* Restart mode "create": O_CREAT | O_EXCL; the mode fails on an existing file.
Reserve(r, settings) ==
    /\ proc[r].pc = "idle"
    /\ StatePathValid("create")
    /\ file' = "reserved"
    /\ proc' = [proc EXCEPT ![r] = [Idle EXCEPT !.pc = "reserved", !.settings = settings]]
    /\ UNCHANGED <<run, batches, outbox, outputs, crashes>>

InitializeSchema(r) ==
    /\ proc[r].pc = "reserved"
    /\ file' = "schema"
    /\ proc' = [proc EXCEPT ![r].pc = "schema"]
    /\ UNCHANGED <<run, batches, outbox, outputs, crashes>>

CreateRun(r) ==
    /\ proc[r].pc = "schema"
    /\ run' = [identity |-> proc[r].settings, status |-> "active", version |-> 0,
               cursor |-> None, count |-> 0, c |-> InitialCoordinator(Session)]
    /\ proc' = [proc EXCEPT ![r].pc = "created", ![r].c = InitialCoordinator(Session)]
    /\ UNCHANGED <<file, batches, outbox, outputs, crashes>>

----------------------------------------------------------------------------
(* Hydration *)

\* ResearchRunState and the ledger check of load_run.
LoadAccepted ==
    LET versions == {batches[q].version : q \in DOMAIN batches}
    IN  /\ (run.cursor = None) <=> (run.count = 0)
        /\ run.cursor # None => run.cursor \in FirstSequence .. LastSequence
        /\ run.status = "complete" => run.cursor = LastSequence /\ run.count = EventCount
        /\ Cardinality(DOMAIN batches) = run.count
        /\ run.count > 0 =>
               /\ run.cursor \in DOMAIN batches
               /\ \A q \in DOMAIN batches : FirstSequence <= q /\ q <= run.cursor
               /\ run.count \in versions /\ \A v \in versions : v <= run.count
        /\ run.version = run.count + (IF run.status = "complete" THEN 1 ELSE 0)

\* _validate_committed_prefix: one completed decision for every committed
\* envelope of the source and no other, and no event of another source.
PrefixCommitted(c, cursor) ==
    LET prefix == {n \in DOMAIN Source : cursor # None /\ Source[n].sequence <= cursor}
    IN  /\ DOMAIN c.records = {Source[n].sequence : n \in prefix}
        /\ \A n \in prefix : c.records[Source[n].sequence].envelope = Source[n]
        /\ \A e \in ToSet(c.broker.events) :
               e.session = Session /\ e.sequence \in DOMAIN c.records

\* What a process demands of the row it loaded and of the coordinator it holds.
Hydratable(settings, c) ==
    /\ LoadAccepted
    /\ run.identity = settings
    /\ c.broker.last = run.cursor
    /\ Cardinality(DOMAIN c.records) = run.count
    /\ run.cursor # None => c.broker.bound = Session
    /\ PrefixCommitted(c, run.cursor)

Hydrated(r, settings, c) ==
    proc' = [proc EXCEPT ![r] =
        [pc |-> IF run.status = "complete" THEN "completed" ELSE "ready",
         settings |-> settings, c |-> c, version |-> run.version, cursor |-> run.cursor,
         batch |-> None]]

\* create_run ends with load_run; the runner keeps the broker it made itself.
HydrateCreated(r) ==
    /\ proc[r].pc = "created"
    /\ IF Hydratable(proc[r].settings, proc[r].c)
       THEN Hydrated(r, proc[r].settings, proc[r].c)
       ELSE proc' = [proc EXCEPT ![r] = Idle]
    /\ UNCHANGED <<durable, outputs, crashes>>

Restorable(settings, c) == CheckpointValid(c.broker) /\ CoordinatorValid(c, settings)

\* Restart mode "resume": it fails, changing nothing, on a file without a run.
Resume(r, settings) ==
    /\ proc[r].pc = "idle"
    /\ StatePathValid("resume")
    /\ file = "schema" /\ run # None
    /\ Hydratable(settings, run.c)
    /\ Restorable(settings, run.c)
    /\ Hydrated(r, settings, run.c)
    /\ UNCHANGED <<durable, outputs, crashes>>

----------------------------------------------------------------------------
(* One durable batch per envelope *)

\* Fault: the replay starts again at the cursor.
SuffixFromCursor(c) ==
    {n \in DOMAIN Source : c.broker.last # None => Source[n].sequence >= c.broker.last}

\* The envelopes the replay has left: from the committed cursor to the end of the source.
Suffix(c) ==
    {n \in DOMAIN Source : c.broker.last # None => Source[n].sequence > c.broker.last}

\* ResearchDurableBatch: its fingerprint covers what the runner expects too.
DurableBatch(p, env) ==
    LET c == Publish(p.c, p.settings, env)
    IN  [version |-> p.version, cursor |-> p.cursor, envelope |-> env, c |-> c,
         outbox |-> BatchOutbox(p.c, c, env)]

\* _DurableCoordinatorSink.publish up to the transaction; a raise of the
\* coordinator or the broker ends the runner.
PublishNext(r) ==
    /\ proc[r].pc = "ready"
    /\ \E n \in Suffix(proc[r].c) :
           /\ \A k \in Suffix(proc[r].c) : n <= k
           /\ proc' = [proc EXCEPT ![r] =
                  IF /\ PublishAccepted(proc[r].c, proc[r].settings, Source[n])
                     /\ \A record \in Range(DurableBatch(proc[r], Source[n]).outbox) :
                            OutboxRecordContract(record)
                  THEN [@ EXCEPT !.pc = "publishing", !.batch = DurableBatch(proc[r], Source[n])]
                  ELSE Idle]
    /\ UNCHANGED <<durable, outputs, crashes>>

CommitAccepted(b) ==
    /\ run.status = "active"
    /\ run.version = b.version
    /\ run.cursor = b.cursor
    /\ b.envelope.sequence > (IF run.cursor # None THEN run.cursor ELSE FirstSequence - 1)
    /\ b.envelope.sequence <= LastSequence
    /\ DOMAIN outbox \cap DOMAIN b.outbox = {}

\* Fault: the row keeps the coordinator checkpoint of the batch before.
CommitBrokerOnly(b) ==
    [run EXCEPT !.version = @ + 1, !.cursor = b.envelope.sequence, !.count = @ + 1,
                !.c.broker = b.c.broker]

CommittedRun(b) ==
    [run EXCEPT !.version = @ + 1, !.cursor = b.envelope.sequence, !.count = @ + 1, !.c = b.c]

\* commit_batch, disposition APPLIED.
CommitApplied(r) ==
    LET b == proc[r].batch
    IN  /\ proc[r].pc = "publishing"
        /\ b.envelope.sequence \notin DOMAIN batches
        /\ CommitAccepted(b)
        /\ run' = CommittedRun(b)
        /\ batches' = Bind(batches, b.envelope.sequence,
                           [fingerprint |-> b, version |-> run.version + 1])
        /\ outbox' = [n \in DOMAIN outbox \cup DOMAIN b.outbox |->
                          IF n \in DOMAIN outbox THEN outbox[n] ELSE b.outbox[n]]
        /\ proc' = [proc EXCEPT ![r].pc = "reload"]
        /\ UNCHANGED <<file, outputs, crashes>>

\* The same batch is already there: disposition DUPLICATE.
CommitDuplicate(r) ==
    LET b == proc[r].batch
    IN  /\ proc[r].pc = "publishing"
        /\ b.envelope.sequence \in DOMAIN batches
        /\ batches[b.envelope.sequence].fingerprint = b
        /\ proc' = [proc EXCEPT ![r].pc = "reload"]
        /\ UNCHANGED <<durable, outputs, crashes>>

\* Another batch is there, or the run has moved: the runner ends.
CommitConflict(r) ==
    LET b == proc[r].batch
    IN  /\ proc[r].pc = "publishing"
        /\ IF b.envelope.sequence \in DOMAIN batches
           THEN batches[b.envelope.sequence].fingerprint # b
           ELSE ~CommitAccepted(b)
        /\ proc' = [proc EXCEPT ![r] = Idle]
        /\ UNCHANGED <<durable, outputs, crashes>>

\* load_run reads the row and counts the ledger outside the transaction: the run state
\* may be newer than it, and a batch committed in between (CORRUPT) ends the runner.
\* (In a hydration it does what one committed before it does.)
ReadRow(r) ==
    /\ proc[r].pc = "reload"
    /\ proc' = [proc EXCEPT ![r].pc = "ledger", ![r].version = run.version, ![r].cursor = run.cursor]
    /\ UNCHANGED <<durable, outputs, crashes>>

LedgerAgrees(p) == p.cursor \in DOMAIN batches /\ \A q \in DOMAIN batches : q <= p.cursor

Reload(r) ==
    /\ proc[r].pc = "ledger"
    /\ proc' = [proc EXCEPT ![r] =
           IF LedgerAgrees(proc[r])
           THEN [@ EXCEPT !.pc = "ready", !.c = proc[r].batch.c, !.batch = None]
           ELSE Idle]
    /\ UNCHANGED <<durable, outputs, crashes>>

----------------------------------------------------------------------------
(* Completion and output *)

\* complete_run: every batch is there and the outbox has no gap.
CompleteAccepted(p) ==
    LET size == Cardinality(DOMAIN outbox)
    IN  /\ run.status = "active"
        /\ run.version = p.version
        /\ run.cursor = LastSequence
        /\ run.count = EventCount
        /\ DOMAIN outbox = 0 .. (size - 1)
        /\ EventCount + Len(p.c.broker.events) = size
        /\ \A n \in DOMAIN outbox : outbox[n].type # "summary"
        /\ \A n \in 1 .. (size - 1) :
               ~(outbox[n - 1].type = "paper" /\ outbox[n].type = "market")

Complete(r) ==
    /\ proc[r].pc = "ready"
    /\ Suffix(proc[r].c) = {}
    /\ IF PrefixCommitted(proc[r].c, LastSequence) /\ CompleteAccepted(proc[r])
       THEN /\ run' = [run EXCEPT !.status = "complete", !.version = @ + 1]
            /\ outbox' = Bind(outbox, EventCount + Len(proc[r].c.broker.events),
                              SummaryRecord(proc[r].c))
            /\ proc' = [proc EXCEPT ![r].pc = "completed"]
       ELSE proc' = [proc EXCEPT ![r] = Idle] /\ UNCHANGED <<run, outbox>>
    /\ UNCHANGED <<file, batches, outputs, crashes>>

\* read_outbox: the payloads in output order, the only summary last.
OutboxPayloads == [n \in 1 .. Cardinality(DOMAIN outbox) |-> outbox[n - 1]]

\* A runner returns its output only when the outbox is what its own
\* coordinator would materialize.
ReadOutbox(r) ==
    /\ proc[r].pc = "completed"
    /\ outputs' = IF /\ LoadAccepted /\ Correlated(proc[r].c)
                     /\ OutboxPayloads = Materialize(proc[r].c)
                  THEN outputs \cup {OutboxPayloads} ELSE outputs
    /\ proc' = [proc EXCEPT ![r] = Idle]
    /\ UNCHANGED <<durable, crashes>>

Crash(r) ==
    /\ crashes < MaxCrashes
    /\ proc[r].pc # "idle"
    /\ proc' = [proc EXCEPT ![r] = Idle]
    /\ crashes' = crashes + 1
    /\ UNCHANGED <<durable, outputs>>

----------------------------------------------------------------------------

Step(r) ==
    \/ InitializeSchema(r) \/ CreateRun(r) \/ HydrateCreated(r)
    \/ PublishNext(r) \/ CommitApplied(r) \/ CommitDuplicate(r) \/ CommitConflict(r)
    \/ ReadRow(r) \/ Reload(r) \/ Complete(r) \/ ReadOutbox(r)

Next ==
    \E r \in Runners :
        \/ \E settings \in Settings : Reserve(r, settings) \/ Resume(r, settings)
        \/ Step(r)
        \/ Crash(r)

\* A started runner goes on: every program counter but "idle" has a step, so
\* this is weak fairness of Step(r), written without ENABLED. While no output
\* was returned the operator starts runners again with the settings of the run.
Fairness ==
    \A r \in Runners :
        /\ []<>(proc[r].pc = "idle") \/ []<><<proc[r]' # proc[r]>>_vars
        /\ WF_vars(outputs = {} /\ \E settings \in Settings : Resume(r, settings))

Spec == Init /\ [][Next]_vars /\ Fairness

----------------------------------------------------------------------------
(* Properties *)

\* One uninterrupted, non-durable run over the first n envelopes.
Uninterrupted(settings, n) ==
    LET after[k \in 0 .. EventCount] ==
            IF k = 0 THEN InitialCoordinator(Session)
            ELSE Publish(after[k - 1], settings, Source[k])
    IN  after[n]

\* Whatever crashed, was resumed or ran twice, the durable checkpoints and the
\* outbox are those of one uninterrupted run over the committed prefix, and an
\* output returned is that run's JSONL.
DurablePrefix ==
    /\ run # None =>
           LET c == Uninterrupted(run.identity, run.count)
               records == [n \in 1 .. run.count |-> MarketRecord(Source[n])]
               events == c.broker.events
           IN  /\ run.c = c
               /\ run.count > 0 => run.cursor = Source[run.count].sequence
               /\ DOMAIN outbox = (0 .. (run.count - 1))
                      \cup (EventCount .. (EventCount + Len(events) - 1))
                      \cup (IF run.status = "complete" THEN {EventCount + Len(events)} ELSE {})
               /\ \A n \in 1 .. run.count : outbox[n - 1] = records[n]
               /\ \A n \in DOMAIN events :
                      outbox[EventCount + n - 1] = PaperRecord(c, n)
               /\ \A n \in DOMAIN outbox : OutboxRecordContract(outbox[n])
    /\ \A output \in outputs : output = Materialize(Uninterrupted(run.identity, EventCount))

\* At every moment a runner could die, the row it leaves behind passes every
\* check of a resume with the same settings, checkpoint validation included (as
\* long as no quote fills two orders: see PaperTrading!RestorableUnlessQuoteShared).
ResumeAccepts ==
    run # None => Hydratable(run.identity, run.c) /\ Restorable(run.identity, run.c)

\* Once created, a run is brought to its end and its output returned, with
\* finitely many crashes and with runners that get in each other's way.
RunCompletes == (run # None) ~> (outputs # {})

=============================================================================
