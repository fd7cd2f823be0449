----------------------------- MODULE LiveJournal -----------------------------
(***************************************************************************)
(* The durable live-order journal (sqlite_live_order_journal.py) with its  *)
(* recovery classification (live_journal_recovery.py), used by dispatchers *)
(* that claim, send and acknowledge commands and by a feed of broker       *)
(* evidence.  Every journal operation is one BEGIN IMMEDIATE transaction   *)
(* under the instance lock, so it is one step here; the process may crash  *)
(* and the journal instance may be closed between any two of them.         *)
(*                                                                         *)
(* A variable is a table.  Payload digests are left out: a stored value is *)
(* the value itself.  All inputs carry the instant Now, because LiveOrder  *)
(* already ranges over times.                                              *)
(***************************************************************************)
EXTENDS LiveOrderReducer, Sequences, FiniteSetsExt

CONSTANTS
    OrderIds,       \* client_order_id values
    RawIds,         \* observation_id values, each with its own provenance
    Dispatchers,    \* claimant_id values
    CommandSource,  \* CommandSource[o]: the commands that callers issue for order o
    Intent,         \* Intent[o]: the immutable intent of order o
    Evidence        \* the broker reports that raw observations parse to

Now == 1

SchemaVersion == 3

NoOrder == [state |-> "absent", version |-> 0]

ASSUME JournalInputsAssumption ==
    /\ \A o \in OrderIds : /\ Intent[o] \in Intents
                           /\ CommandSource[o] \subseteq Commands
                           /\ \A c \in CommandSource[o] : c.boundAt = Now
    /\ \A e \in Evidence : OrderEventContract(e) \/ FillEventContract(e)
    /\ NoId \notin OrderIds

VARIABLES
    journal,        \* "open", "closed", or "unclean": its process died and left a WAL file
    orders,         \* live_orders: the current projection
    history,        \* live_order_history: every version of each order
    commands,       \* live_commands
    claims,         \* live_dispatch_claims: permanent
    receipts,       \* live_dispatch_receipts
    raws,           \* live_raw_observations: resolution_status and payload
    events,         \* live_normalized_events joined with live_event_applications
    fills,          \* live_fills
    requirements,   \* live_reconciliation_requirements
    commits,        \* live_reconciliation_commits with their consumed authorizations
    resolutions,    \* the resolution overlays of claims, observations and requirements
    records,        \* live_journal_records: <<record_kind, record_id>>
    sequence,       \* the last journal_sequence
    dispatcher,     \* what each dispatcher holds in memory
    sent            \* how often each command went out to the broker

orderTables == <<orders, history>>
commandTables == <<commands, claims, receipts>>
evidenceTables == <<raws, events, fills, requirements>>
overlays == <<commits, resolutions>>
tables == <<orderTables, commandTables, evidenceTables, overlays, records, sequence>>
vars == <<journal, tables, dispatcher, sent>>

Idle == [phase |-> "idle", command |-> NoCommand]

\* The records that a database of a schema version starts with: its identity, and the
\* migrations from version 1, a database created in version 3 included.
InitialRecords(version) ==
    {<<"identity", NoId>>} \cup {<<"schema-migration", v>> : v \in 2 .. version}

\* A new journal, or an empty database that an earlier version left behind.
Init ==
    /\ journal \in {"open", "closed"}
    /\ records \in {InitialRecords(v) : v \in 1 .. SchemaVersion}
    /\ journal = "open" => records = InitialRecords(SchemaVersion)
    /\ sequence = Cardinality(records)
    /\ orders = [o \in OrderIds |-> NoOrder]
    /\ history = [o \in OrderIds |-> {}]
    /\ commands = {} /\ claims = {} /\ receipts = {}
    /\ raws = [r \in RawIds |-> [status |-> "absent"]]
    /\ events = {} /\ fills = {} /\ requirements = {}
    /\ commits = {} /\ resolutions = {}
    /\ dispatcher = [d \in Dispatchers |-> Idle]
    /\ sent = [c \in CommandIds |-> 0]

-----------------------------------------------------------------------------
(* What the tables say *)

Registered(o) == orders[o] # NoOrder

CommandRow(id) == {row \in commands : row.command.id = id}

ClaimOf(id) == {row \in claims : row.id = id}

ReceiptOf(id) == {row \in receipts : row.command.id = id}

EventRow(id) == {row \in events : row.event.id = id}

\* A reconciliation commit resolved the claim, observation or requirement.
Resolved(kind, id) == \E x \in resolutions : x.kind = kind /\ x.id = id

\* _load_applied_event_ledger: receipts and applied events of every order.
AppliedLedger ==
    {Entry("dispatch", r.command.id, ReceiptFingerprint(r)) : r \in receipts}
        \cup {Entry("broker-event", row.event.id, EventFingerprint(row.event)) :
                 row \in {x \in events : x.disposition = "applied"}}

\* _append_record, once per record of the transaction.
AppendRecords(new) ==
    /\ records' = records \cup new
    /\ sequence' = sequence + Cardinality(new)

\* Fault: the history is not written.
WriteOrderOnly(o, order) == orders' = [orders EXCEPT ![o] = order] /\ UNCHANGED history

\* _write_order, whose swap has found its version: the projection, and one more history row.
WriteOrder(o, order) ==
    /\ orders' = [orders EXCEPT ![o] = order]
    /\ history' = [history EXCEPT ![o] = @ \cup {order}]

-----------------------------------------------------------------------------
(* Registration: an exact retry and an id conflict change nothing. *)

\* The order of a NEW command, created, validated and bound by its caller.
Submitting(o, c) ==
    AdvanceLocal(AdvanceLocal(CreateLiveOrder(Intent[o], Now), "validated", NoCommand, Now),
                 "submitting", c, Now)

RegisterNewOrder(o, c) ==
    /\ journal = "open"
    /\ ~Registered(o) /\ CommandRow(c.id) = {}
    /\ c.kind = "new"
    /\ WriteOrder(o, Submitting(o, c))
    /\ commands' = commands \cup {[order |-> o, command |-> c]}
    /\ AppendRecords({<<"order", o>>, <<"command", c.id>>})
    /\ UNCHANGED <<journal, claims, receipts, evidenceTables, overlays, dispatcher, sent>>

\* Fault: the swap does not ask for the version that the caller expects.
AnyVersion(o, seen) == TRUE

\* The order is still at the version of the one that the caller has seen.
VersionExpected(o, seen) == seen.version = orders[o].version

\* The caller computes the successor from whichever version it last read, and the swap
\* succeeds only if that version is still current.
RegisterCommand(o, c) ==
    /\ journal = "open"
    /\ Registered(o) /\ CommandRow(c.id) = {}
    /\ \E seen \in history[o] :
          /\ VersionExpected(o, seen)
          /\ \/ MayRequestCancel(seen, c, Now) /\ WriteOrder(o, RequestCancel(seen, c, Now))
             \/ MayBindOperation(seen, c, Now) /\ WriteOrder(o, BindOperation(seen, c, Now))
    /\ commands' = commands \cup {[order |-> o, command |-> c]}
    /\ AppendRecords({<<"command", c.id>>})
    /\ UNCHANGED <<journal, claims, receipts, evidenceTables, overlays, dispatcher, sent>>

-----------------------------------------------------------------------------
(* Dispatch: a permanent claim precedes the only send. *)

\* Fault: the claim is looked up in memory instead of its table.
ClaimableInMemory(row) == \A d \in Dispatchers : dispatcher[d].command # row.command

Claimable(row) == ClaimOf(row.command.id) = {}

\* claim_dispatch acquires; every other disposition changes nothing.  The expected
\* version is the current one, whatever the order's pending command is by now.
ClaimDispatch(d, row) ==
    /\ journal = "open"
    /\ dispatcher[d].phase = "idle"
    /\ Claimable(row)
    /\ claims' = claims \cup {[id |-> row.command.id, version |-> orders[row.order].version]}
    /\ dispatcher' = [dispatcher EXCEPT ![d] = [phase |-> "claimed", command |-> row.command]]
    /\ AppendRecords({<<"dispatch-claim", row.command.id>>})
    /\ UNCHANGED <<journal, orderTables, commands, receipts, evidenceTables, overlays, sent>>

\* The broker call of the dispatcher that holds the claim.
Send(d) ==
    /\ dispatcher[d].phase = "claimed"
    /\ sent' = [sent EXCEPT ![dispatcher[d].command.id] = @ + 1]
    /\ dispatcher' = [dispatcher EXCEPT ![d].phase = "sent"]
    /\ UNCHANGED <<journal, tables>>

\* The receipt needs an unresolved claim whose version is the current one still.
ReceiptRecordable(id, o) ==
    /\ ReceiptOf(id) = {} /\ ~Resolved("claim", id)
    /\ \A claim \in ClaimOf(id) : claim.version = orders[o].version

RecordDispatchReceipt(d, s) ==
    LET c       == dispatcher[d].command
        receipt == [command |-> c, state |-> s, at |-> Now]
        o       == (CHOOSE row \in commands : row.command = c).order
        reduced == ReduceDispatch(orders[o], receipt, AppliedLedger)
    IN  /\ journal = "open"
        /\ dispatcher[d].phase = "sent"
        /\ dispatcher' = [dispatcher EXCEPT ![d] = Idle]
        /\ IF ReceiptRecordable(c.id, o) /\ reduced.disposition # "event_conflict"
           THEN /\ receipts' = receipts \cup {receipt}
                /\ AppendRecords({<<"dispatch-receipt", c.id>>})
                /\ IF reduced.order # orders[o] THEN WriteOrder(o, reduced.order)
                                                ELSE UNCHANGED orderTables
           ELSE UNCHANGED <<receipts, records, sequence, orderTables>>
        /\ UNCHANGED <<journal, commands, claims, evidenceTables, overlays, sent>>

-----------------------------------------------------------------------------
(* Broker evidence: the raw observation is durable before it is applied. *)

AppendRawObservation(r, e) ==
    /\ journal = "open"
    /\ raws[r].status = "absent"
    /\ raws' = [raws EXCEPT ![r] = [status |-> "unresolved", event |-> e]]
    /\ AppendRecords({<<"raw-observation", r>>})
    /\ UNCHANGED <<journal, orderTables, commandTables, events, fills, requirements, overlays,
                   dispatcher, sent>>

\* The normalized form of raw observation origin, correlated with order o.
Normalized(origin, o, confirmed) ==
    [id |-> raws[origin].event.id, type |-> raws[origin].event.type,
     quantity |-> raws[origin].event.quantity, price |-> raws[origin].event.price,
     fill |-> raws[origin].event.fill, mine |-> raws[origin].event.mine,
     order |-> o, confirmed |-> confirmed, origin |-> origin,
     receivedAt |-> Now, occurredAt |-> None]

KnownOrder(o) == IF o \in OrderIds /\ Registered(o) THEN o ELSE NoId

\* _insert_normalized_application, _record_reconciliation and _resolve_observation of
\* one transaction; a reason or status of "none" means that the code does not call it.
Settle(e, r, disposition, reason, status) ==
    LET fresh == disposition # "none"
        id    == Cardinality(requirements) + 1
    IN  /\ events' = IF fresh THEN events \cup {[event |-> e, raw |-> r,
                                                 disposition |-> disposition]}
                              ELSE events
        /\ requirements' =
              IF reason = "none" THEN requirements
              ELSE requirements \cup {[id |-> id, order |-> KnownOrder(e.order), raw |-> r,
                                       reason |-> reason]}
        /\ raws' = IF status = "none" THEN raws ELSE [raws EXCEPT ![r].status = status]
        /\ AppendRecords((IF fresh THEN {<<"normalized-application", e.id>>} ELSE {})
                         \cup (IF reason = "none" THEN {} ELSE {<<"reconciliation", id>>})
                         \cup (IF status = "none" THEN {} ELSE {<<"observation-resolution", r>>}))

\* The event was parsed from another observation than the one it is applied for.
ProvenanceConflict(e, r) ==
    /\ e.origin # r
    /\ Settle(e, r, IF EventRow(e.id) = {} THEN "event_conflict" ELSE "none",
              "observation_provenance_conflict", "conflict")
    /\ UNCHANGED <<orderTables, fills>>

SameContent(row, e) == EventFingerprint(row.event) = EventFingerprint(e)

\* Fault: a repetition of evidence that was never applied counts as applied.
ExactAppliedIgnoresState(row, e) == SameContent(row, e)

ExactApplied(row, e) == SameContent(row, e) /\ row.disposition = "applied"

\* A later delivery of an event id that already has its application.
Redelivered(e, r) ==
    /\ e.origin = r
    /\ \E row \in EventRow(e.id) :
          IF ExactApplied(row, e) THEN Settle(e, r, "none", "none", "resolved")
          ELSE Settle(e, r, "none",
                      IF SameContent(row, e) THEN "prior_application_not_applied"
                                             ELSE "event_conflict",
                      "conflict")
    /\ UNCHANGED <<orderTables, fills>>

\* No order can be loaded for it: the application is final, the observation stays open.
Uncorrelated(e, r) ==
    /\ e.origin = r /\ EventRow(e.id) = {}
    /\ KnownOrder(e.order) = NoId
    /\ Settle(e, r, "unresolved", "none", "none")
    /\ UNCHANGED <<orderTables, fills>>

Reduced(e) ==
    IF e.type = "fill" THEN ReduceFillEvent(orders[e.order], e, AppliedLedger)
                       ELSE ReduceOrderEvent(orders[e.order], e, AppliedLedger)

\* Fault: executions are told apart per order.
FillRecordedPerOrder(e) ==
    e.type = "fill" /\ \E f \in fills : f.id = e.fill /\ f.order = e.order

FillRecorded(e) == e.type = "fill" /\ \E f \in fills : f.id = e.fill

\* The order is known, and the reducer or the table of fills has the last word.
Correlated(e, r) ==
    LET result == Reduced(e)
    IN  /\ e.origin = r /\ EventRow(e.id) = {}
        /\ KnownOrder(e.order) # NoId
        /\ IF result.disposition \in {"event_conflict", "reconciliation_required"}
           THEN /\ Settle(e, r, "unresolved", "reducer_reconciliation", "conflict")
                /\ UNCHANGED <<orderTables, fills>>
           ELSE IF FillRecorded(e)
           THEN /\ Settle(e, r, "event_conflict", "fill_id_conflict", "conflict")
                /\ UNCHANGED <<orderTables, fills>>
           ELSE /\ Settle(e, r, "applied", "none", "resolved")
                /\ IF result.order # orders[e.order] THEN WriteOrder(e.order, result.order)
                                                     ELSE UNCHANGED orderTables
                /\ fills' = IF e.type = "fill"
                            THEN fills \cup {[id |-> e.fill, order |-> e.order, event |-> e.id,
                                              quantity |-> e.quantity, price |-> e.price]}
                            ELSE fills

\* apply_normalized_event with expected_order_version None or current: a stale
\* expected version, or an observation that is settled already, changes nothing.
ApplyNormalizedEvent(r, origin, o, confirmed) ==
    LET e == Normalized(origin, o, confirmed)
    IN  /\ journal = "open"
        /\ raws[origin].status # "absent" /\ raws[r].status = "unresolved"
        /\ \/ ProvenanceConflict(e, r)
           \/ Redelivered(e, r)
           \/ Uncorrelated(e, r)
           \/ Correlated(e, r)
        /\ UNCHANGED <<journal, commandTables, overlays, dispatcher, sent>>

-----------------------------------------------------------------------------
(* Recovery *)

\* _verify_durable_payloads: one contiguous history per order, ending in its projection.
OrdersVerify ==
    \A o \in OrderIds :
        LET versions == {h.version : h \in history[o]}
        IN  Registered(o) =>
                /\ orders[o] \in history[o]
                /\ Cardinality(versions) = Cardinality(history[o])
                /\ orders[o].version = Max(versions)
                /\ versions = Min(versions) .. Max(versions)
                /\ \A h \in history[o] : h.intent = orders[o].intent

Required(r) == \E q \in requirements : q.raw = r

\* _verify_durable_payloads: a conflict observation has an open requirement, and an
\* application agrees with the status of its observation.
EvidenceVerifies ==
    /\ \A r \in RawIds : raws[r].status = "conflict" => Required(r)
    /\ \A row \in events :
          /\ row.event.origin # row.raw => row.disposition = "event_conflict" /\ Required(row.raw)
          /\ row.disposition = "applied" => raws[row.raw].status = "resolved"
          /\ row.disposition = "event_conflict" => raws[row.raw].status = "conflict"
          /\ row.disposition = "unresolved" =>
                \/ raws[row.raw].status = "unresolved"
                \/ raws[row.raw].status = "conflict" /\ Required(row.raw)

\* _verify_durable_payloads: a fill is of a stored order, and so is the order that a
\* requirement names (its foreign key).
FillsVerify ==
    /\ \A f \in fills : Registered(f.order)
    /\ \A q \in requirements : q.order # NoId => Registered(q.order)

\* The user_version of the database, which _validate_schema compares with its migrations.
StoredVersion == Cardinality({r \in records : r[1] = "schema-migration"}) + 1

\* _verify_durable_payloads: the global records are exactly those of the tables.
ExpectedRecords ==
    InitialRecords(StoredVersion)
        \cup {<<"order", o>> : o \in {x \in OrderIds : Registered(x)}}
        \cup {<<"command", row.command.id>> : row \in commands}
        \cup {<<"dispatch-claim", row.id>> : row \in claims}
        \cup {<<"dispatch-receipt", row.command.id>> : row \in receipts}
        \cup {<<"raw-observation", r>> : r \in {x \in RawIds : raws[x].status # "absent"}}
        \cup {<<"observation-resolution", r>> :
                 r \in {x \in RawIds : raws[x].status \in {"resolved", "conflict"}}}
        \cup {<<"normalized-application", row.event.id>> : row \in events}
        \cup {<<"reconciliation", q.id>> : q \in requirements}
        \cup {<<"reconciliation-commit", m.id>> : m \in commits}
        \cup {<<"operator-authorization", m.authorization>> : m \in commits}
        \cup {<<x.kind, x.id>> : x \in resolutions}

RecordsVerify == records = ExpectedRecords /\ sequence = Cardinality(records)

Resolutions(kind) == {x \in resolutions : x.kind = kind}

\* _verify_durable_payloads: a commit and the authorization it consumed are on record,
\* in the order in which they were committed.
AuthorizationsVerify ==
    \A m \in commits :
        /\ {<<"reconciliation-commit", m.id>>, <<"operator-authorization", m.authorization>>}
              \subseteq records
        /\ m.local.sequence < m.resulting /\ m.resulting <= sequence

\* _verify_durable_payloads: a projected order is the successor of the version that
\* was assessed, which its claim and the resolution of that claim name.
ProjectionsVerify ==
    \A m \in commits : \A o \in DOMAIN m.projections :
        LET prior == m.local.orders[o]
            projected == m.projections[o]
        IN  /\ prior \in history[o] /\ projected \in history[o]
            /\ projected.version = prior.version + 1 /\ projected.intent = prior.intent
            /\ prior.pending.kind = "new"
            /\ \E x \in Resolutions("claim") : x.id = prior.pending.id /\ x.commit = m.id
            /\ \A claim \in ClaimOf(prior.pending.id) : claim.version = prior.version

\* _verify_durable_payloads: a commit resolved exactly what it asked for, and its
\* records are those after its base sequence.
CommitMappingVerifies ==
    \A m \in commits :
        /\ m.targets = {[kind |-> x.kind, id |-> x.id, was |-> x.was] :
                           x \in {y \in resolutions : y.commit = m.id}}
        /\ m.targets # {} \/ DOMAIN m.projections # {}
        /\ m.resulting = m.local.sequence + Cardinality(m.targets) + 2

\* _verify_durable_payloads: a claim that a commit resolved has no receipt.
ClaimResolutionsVerify ==
    \A x \in Resolutions("claim") : ClaimOf(x.id) # {} /\ ReceiptOf(x.id) = {}

\* _verify_durable_payloads: a resolved observation keeps the status in which it was
\* resolved, and has the normalized event that was resolved.
ObservationResolutionsVerify ==
    \A x \in Resolutions("observation") :
        raws[x.id].status = x.was /\ \E row \in events : row.raw = x.id

\* _verify_durable_payloads: a resolved requirement is still the one that was resolved.
RequirementResolutionsVerify ==
    \A x \in Resolutions("requirement") :
        \E q \in requirements : q.id = x.id /\ q.reason = x.was

CommitsVerify ==
    /\ AuthorizationsVerify /\ ProjectionsVerify /\ CommitMappingVerifies
    /\ ClaimResolutionsVerify /\ ObservationResolutionsVerify /\ RequirementResolutionsVerify

Verifies == OrdersVerify /\ EvidenceVerifies /\ FillsVerify /\ CommitsVerify /\ RecordsVerify

Pending == {o \in OrderIds : Registered(o) /\ orders[o].pending # NoCommand}

\* Fault: a claim is outstanding only while its order waits for it.
OutstandingClaimsPending ==
    {row \in claims : ReceiptOf(row.id) = {} /\ \E o \in Pending : orders[o].pending.id = row.id}

\* Fault: recovery forgets what reconciliation commits resolved.
OutstandingClaimsOverall == {row \in claims : ReceiptOf(row.id) = {}}

OutstandingClaims == {row \in claims : ReceiptOf(row.id) = {} /\ ~Resolved("claim", row.id)}

Open(status) == {r \in RawIds : raws[r].status = status /\ ~Resolved("observation", r)}

OpenRequirements == {q \in requirements : ~Resolved("requirement", q.id)}

\* RecoveryIssueCode: those of _BLOCKING_ISSUES that a journal which verifies can have.
BlockingCodes ==
    {"command_order_mismatch", "duplicate_command_id", "claim_command_mismatch",
     "claim_version_mismatch", "requirement_order_mismatch", "requirement_observation_mismatch"}

CommandOrder(id) == (CHOOSE row \in commands : row.command.id = id).order

\* verify_recovery_snapshot: the order waits for the claimed command at the claimed version.
ClaimIssues(claim) ==
    LET order == orders[CommandOrder(claim.id)]
    IN  (IF order.pending.id # claim.id THEN {"claim_command_mismatch"} ELSE {})
        \cup (IF order.version # claim.version THEN {"claim_version_mismatch"} ELSE {})

\* verify_recovery_snapshot: each pending command is of its order, and of no other.
PendingIssues ==
    LET pending == Pending
    IN  (IF \E o \in pending : CommandOrder(orders[o].pending.id) # o
         THEN {"command_order_mismatch"} ELSE {})
        \cup (IF \E o, p \in pending : o # p /\ orders[o].pending.id = orders[p].pending.id
              THEN {"duplicate_command_id"} ELSE {})

\* verify_recovery_snapshot: the order and the observation of a requirement are there.
RequirementIssues(q) ==
    (IF q.order # NoId /\ ~Registered(q.order) THEN {"requirement_order_mismatch"} ELSE {})
    \cup (IF q.raw \in Open("unresolved") \cup Open("conflict")
          THEN {} ELSE {"requirement_observation_mismatch"})

\* verify_recovery_snapshot: what is left to be done, whatever it is.
OpenWork ==
    (IF OutstandingClaims # {} THEN {"outstanding_dispatch"} ELSE {})
    \cup (IF Pending # {} THEN {"pending_broker_evidence"} ELSE {})
    \cup (IF Open("unresolved") # {} THEN {"unresolved_observation"} ELSE {})
    \cup (IF Open("conflict") # {} THEN {"conflict_observation"} ELSE {})
    \cup (IF OpenRequirements # {} THEN {"durable_reconciliation_requirement"} ELSE {})

Issues ==
    PendingIssues \cup (UNION {ClaimIssues(claim) : claim \in OutstandingClaims})
        \cup (UNION {RequirementIssues(q) : q \in OpenRequirements}) \cup OpenWork

\* verify_recovery_snapshot
Readiness ==
    LET found == Issues
    IN  IF found = {} THEN "ready"
        ELSE IF found \cap BlockingCodes # {} THEN "blocked"
        ELSE "reconciliation_required"

\* load_recovery_snapshot: the last sequence is the number of the rows that append records.
SequenceContiguous ==
    LET held(statuses) == Cardinality({r \in RawIds : raws[r].status \in statuses})
    IN  sequence = SchemaVersion
            + Cardinality({o \in OrderIds : Registered(o)}) + Cardinality(commands)
            + Cardinality(claims) + Cardinality(receipts)
            + held({"unresolved", "resolved", "conflict"}) + held({"resolved", "conflict"})
            + Cardinality(events) + Cardinality(requirements)
            + 2 * Cardinality(commits) + Cardinality(resolutions)

\* close, or _poison after a failed COMMIT or ROLLBACK: the process lives on.
Close ==
    /\ journal = "open"
    /\ journal' = "closed"
    /\ UNCHANGED <<tables, dispatcher, sent>>

\* The process dies: what was not committed is gone, the claim tokens included.
Crash ==
    /\ journal' = IF journal = "open" THEN "unclean" ELSE journal
    /\ dispatcher' = [d \in Dispatchers |-> Idle]
    /\ UNCHANGED <<tables, sent>>

\* _resume_or_migrate: an earlier version is brought to the current one, each migration
\* with its record, in one transaction.
Migrate == AppendRecords(InitialRecords(SchemaVersion) \ InitialRecords(StoredVersion))

\* A resume opens the database only if every table verifies, in a read-only validation
\* before anything is configured or migrated.
Resume ==
    /\ journal \in {"closed", "unclean"}
    /\ Verifies
    /\ Migrate
    /\ journal' = "open"
    /\ UNCHANGED <<orderTables, commandTables, evidenceTables, overlays, dispatcher, sent>>

-----------------------------------------------------------------------------

\* BrokerCorrelation: a confirmed correlation names its order.
Correlations == ((OrderIds \cup {NoId}) \X {FALSE}) \cup (OrderIds \X {TRUE})

Next ==
    \/ \E o \in OrderIds : \E c \in CommandSource[o] :
          RegisterNewOrder(o, c) \/ RegisterCommand(o, c)
    \/ \E d \in Dispatchers, row \in commands : ClaimDispatch(d, row)
    \/ \E d \in Dispatchers : Send(d)
    \/ \E d \in Dispatchers, s \in DispatchStates : RecordDispatchReceipt(d, s)
    \/ \E r \in RawIds, e \in Evidence : AppendRawObservation(r, e)
    \/ \E r, origin \in RawIds, c \in Correlations : ApplyNormalizedEvent(r, origin, c[1], c[2])
    \/ Close
    \/ Crash
    \/ Resume

Spec == Init /\ [][Next]_vars

-----------------------------------------------------------------------------
(* Properties *)

\* Whatever transactions committed before a crash, the full verification that every
\* resume runs accepts the database, and so does the recovery snapshot read from it: no
\* operation of the journal can make it refuse its own file (_verify_durable_payloads and
\* load_recovery_snapshot against the eight writing operations).
RecoveryAcceptsJournal ==
    Verifies /\ (StoredVersion = SchemaVersion => SequenceContiguous)

\* A command reaches the broker at most once and only under its durable claim, with
\* racing dispatchers, poisoned instances, crashes and restarts ("a claim without a
\* receipt remains outcome-unknown and never permits automatic resend").
SentAtMostOnce ==
    \A c \in CommandIds : sent[c] <= 1 /\ (sent[c] = 1 => ClaimOf(c) # {})

Executed(fs) ==
    MapThenSumSet(LAMBDA f : f.quantity, {[id |-> f.id, quantity |-> f.quantity] : f \in fs})

FilledBy(os) == MapThenSumSet(LAMBDA o : orders[o].filled, os)

\* An order's filled quantity is the sum of its distinct executions, and no execution
\* counts for two orders: reported under two event ids, redelivered, or taken for
\* another order after a restart, it counts once.
FillsMatchOrder ==
    LET known == {o \in OrderIds : Registered(o)}
    IN  /\ \A o \in known : orders[o].filled = Executed({f \in fills : f.order = o})
        /\ FilledBy(known) = Executed(fills)

\* A resolved observation has its evidence applied, under whichever delivery was first;
\* every other stored observation still holds startup back.
EvidenceAppliedOrHeld ==
    /\ \A r \in RawIds :
          raws[r].status = "resolved" =>
              \E row \in EventRow(raws[r].event.id) :
                 /\ row.disposition = "applied"
                 /\ EventFingerprint(row.event) = EventFingerprint(raws[r].event)
    /\ (\E r \in RawIds : raws[r].status \in {"unresolved", "conflict"}) => Readiness # "ready"

\* Startup is ready only if the outcome of everything that was sent is settled: each
\* sent command has its receipt, and broker evidence released it.
ReadyMeansSettled ==
    Readiness = "ready" =>
        \A row \in commands :
            /\ sent[row.command.id] > 0 => ReceiptOf(row.command.id) # {}
            /\ orders[row.order].pending.id # row.command.id

\* Facts are never rewritten: rows are only added, the status of an observation is
\* settled once, and an order moves one version at a time with its history kept.
FactsAreAppendOnly ==
    [][/\ commands \subseteq commands' /\ claims \subseteq claims' /\ receipts \subseteq receipts'
       /\ events \subseteq events' /\ fills \subseteq fills'
       /\ requirements \subseteq requirements' /\ records \subseteq records'
       /\ \A r \in RawIds : raws[r].status \in {"resolved", "conflict"} => raws'[r] = raws[r]
       /\ \A o \in OrderIds :
             /\ history[o] \subseteq history'[o]
             /\ Registered(o) /\ orders'[o] # orders[o] =>
                   orders'[o].version = orders[o].version + 1]_vars

\* docs/WORK_LOG.md: "Pending commands, outstanding claims, conflict observations and
\* reconciliation requirements keep startup in reconciliation-required state."
\* Here for a journal whose claimed commands have all been sent.
ClaimsOnlyRequireReconciliation ==
    (\A claim \in claims : sent[claim.id] > 0) => Readiness # "blocked"
=============================================================================
