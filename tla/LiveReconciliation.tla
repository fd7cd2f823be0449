-------------------------- MODULE LiveReconciliation --------------------------
(***************************************************************************)
(* Operators reconcile a live-order journal with the broker while it keeps *)
(* being used: an account snapshot and a broker snapshot are assessed, the *)
(* request is planned and authorized in memory, and the journal applies it *)
(* later in one transaction (commit_authorized_reconciliation) or refuses. *)
(*                                                                         *)
(* One account.  A blocker that no normalized event ties to the account is *)
(* global.  A request asks for every blocker of its snapshot, with the     *)
(* directives that its broker snapshot supports: every other request is    *)
(* refused and changes nothing.                                            *)
(***************************************************************************)
EXTENDS LiveJournal, Reconciliation

CONSTANTS
    Operators,          \* callers of the reconciliation ports
    CommitIds,          \* commit_id values
    AuthorizationIds,   \* authorization_id values
    BrokerSnapshots     \* what query_reconciliation_snapshot may answer

ASSUME BrokerSnapshotsAssumption == \A b \in BrokerSnapshots : BrokerSnapshotContract(b)

VARIABLE request        \* the authorized request that each operator holds

reconciliationVars == <<vars, request>>

NoRequest == [request |-> NoId]

ReconciliationInit == Init /\ request = [p \in Operators |-> NoRequest]

-----------------------------------------------------------------------------
(* Reading the journal *)

\* _load_recovery_blocker_attributions with the precondition that a resolution records.
Blockers ==
    {[kind |-> "claim", id |-> c.id, was |-> "outstanding"] : c \in OutstandingClaims}
        \cup {[kind |-> "observation", id |-> r, was |-> raws[r].status] :
                 r \in Open("unresolved") \cup Open("conflict")}
        \cup {[kind |-> "requirement", id |-> q.id, was |-> q.reason] : q \in OpenRequirements}

\* LiveFill: the executions without the event that reported them.
LocalFills ==
    {[id |-> f.id, order |-> f.order, quantity |-> f.quantity, price |-> f.price] : f \in fills}

\* load_account_snapshot, _hydrate_account_snapshot
LocalSnapshot ==
    [orders   |-> [o \in {x \in OrderIds : Registered(x)} |-> orders[o]],
     fills    |-> LocalFills,
     blockers |-> Blockers,
     sequence |-> sequence]

\* _inspect_sqlite_live_order_journal_engine refuses a file that a process has open or
\* left unclean, and reads the bytes of any other without writing them.
Sealed == journal = "closed" /\ Verifies

\* build_live_journal_inspection_report, or the schema upgrade report of an earlier version
Inspection ==
    IF StoredVersion < SchemaVersion THEN "schema_upgrade_required"
    ELSE IF Readiness = "blocked" THEN "blocked_integrity_failure"
    ELSE IF (\A o \in OrderIds : ~Registered(o)) /\ {x \in Blockers : x.kind # "claim"} = {}
         THEN "account_not_found"
    ELSE IF Pending # {} \/ Blockers # {} THEN "recovery_required"
    ELSE "ready_no_action"

\* FakeOnlyReconciliationService.assess reads an open journal,
\* assess_sqlite_live_order_journal a closed one that inspection does not refuse.
Assessable ==
    /\ LocalSnapshotContract(LocalSnapshot)
    /\ \/ journal = "open" /\ Verifies
       \/ Sealed /\ Inspection \in {"ready_no_action", "recovery_required"}

\* The order that a claimed command belongs to, and the command.
CommandOf(claim) == CHOOSE row \in commands : row.command.id = claim.id

\* Fault: a blocked journal, whose claim is of an earlier version, may be planned for.
PlanAnyReadiness(broker) ==
    /\ OutstandingClaims # {}
    /\ Projectable(LocalSnapshot, broker)
    /\ {CommandOf(claim).order : claim \in OutstandingClaims} = PendingOrders(LocalSnapshot)

\* plan_operator_recovery: READY_FOR_EXPLICIT_COMMIT.
PlanReady(broker) ==
    /\ Readiness = "reconciliation_required"
    /\ Open("unresolved") = {} /\ Open("conflict") = {} /\ OpenRequirements = {}
    /\ OutstandingClaims # {}
    /\ \A claim \in OutstandingClaims : CommandOf(claim).command.kind = "new"
    /\ Projectable(LocalSnapshot, broker)
    /\ {CommandOf(claim).order : claim \in OutstandingClaims} = PendingOrders(LocalSnapshot)

\* What the commit asks of an assessment: authoritative and, unless it projects orders,
\* free of discrepancies.
Conclusive(local, broker) ==
    /\ Authoritative(local, broker)
    /\ Projectable(local, broker) \/ Discrepancies(local, broker) = {}
    /\ Projectable(local, broker) \/ local.blockers # {}

\* authorize_reconciliation_commit: the authorization names what it is good for.
Authorize(q, a) ==
    [authorization |-> [id |-> a, commit |-> q.id, request |-> q, snapshot |-> q.broker.id,
                        sequence |-> q.local.sequence],
     request |-> q]

\* DurableReconciliationCommitRequest of an assessment; its expected sequence, versions,
\* directives and projections are those of the two snapshots.
CommitRequest(m, broker) ==
    [id |-> m, broker |-> broker, local |-> LocalSnapshot, planned |-> PlanReady(broker)]

\* The assessment, the request built from it (planned by operator recovery, or by the
\* caller itself) and authorize_reconciliation_commit; all of it stays in memory.  A
\* request that no journal accepts, because its assessment is not conclusive, is left out.
Prepare(p, broker, m, a) ==
    /\ request[p] = NoRequest
    /\ Assessable
    /\ Conclusive(LocalSnapshot, broker)
    /\ request' = [request EXCEPT ![p] = Authorize(CommitRequest(m, broker), a)]
    /\ UNCHANGED vars

\* The operator drops the request: it succeeded, or was refused, or expires_at passed.
Discard(p) ==
    /\ request[p] # NoRequest
    /\ request' = [request EXCEPT ![p] = NoRequest]
    /\ UNCHANGED vars

-----------------------------------------------------------------------------
(* commit_authorized_reconciliation *)

\* _validate_authorized_request
AuthorizationMatches(q, a) ==
    /\ a.commit = q.id /\ a.request = q
    /\ a.snapshot = q.broker.id /\ a.sequence = q.local.sequence

\* Fault: an authorization and a broker snapshot may be used for a second commit.
UnusedCommitId(q, a) == \A m \in commits : m.id # q.id

\* Each commit id, authorization and broker snapshot is used once.
Unused(q, a) ==
    \A m \in commits :
        m.id # q.id /\ m.authorization # a.id /\ m.snapshot # q.broker.id

\* Fault: only what is left open is compared, not what became of the orders.
BlockersUnchanged(q) == q.local.blockers = LocalSnapshot.blockers

\* Not STALE_SNAPSHOT: orders, fills, blockers and the sequence are the assessed ones.
SnapshotCurrent(q) == q.local = LocalSnapshot

Projected(q) == Projections(q.local, q.broker, Now)

\* matching_broker_evidence
OrderEvidence(q, o) == \E x \in q.broker.open : x.confirmed /\ x.mine /\ x.order = o

FillEvidence(q, o) == \E x \in q.broker.fills : x.confirmed /\ x.mine /\ x.order = o

\* The claim is of a NEW command that broker evidence shows, and its order is settled
\* already or by this commit.  expected_order_versions are those of the projections.
ClaimSupported(q, claim) ==
    LET row == CommandOf(claim)
    IN  /\ row.command.kind = "new"
        /\ DOMAIN Projected(q) # {} => row.order \in DOMAIN Projected(q)
        /\ orders[row.order].pending =
              IF row.order \in DOMAIN Projected(q) THEN row.command ELSE NoCommand
        /\ OrderEvidence(q, row.order) \/ FillEvidence(q, row.order)

\* A normalized event of the observation is confirmed for an order that broker evidence
\* of its kind shows; an observation without any event is a global blocker.
ObservationSupported(q, r) ==
    \E row \in events :
        /\ row.raw = r
        /\ row.event.confirmed
        /\ KnownOrder(row.event.order) # NoId
        /\ IF row.event.type = "fill" THEN row.event.mine /\ FillEvidence(q, row.event.order)
                                      ELSE OrderEvidence(q, row.event.order)

\* The cause of the requirement is resolved with it; one that names neither an order
\* nor an observation with an event is a global blocker.
RequirementSupported(req) ==
    /\ req.order # NoId \/ \E row \in events : row.raw = req.raw
    /\ req.raw \in Open("unresolved") \cup Open("conflict")

\* No order of the account waits for a command after the commit.
NothingLeftPending(q) == Pending \subseteq DOMAIN Projected(q)

Supported(q) ==
    /\ Conclusive(q.local, q.broker)
    /\ \A o \in DOMAIN Projected(q) :
          \E claim \in OutstandingClaims : claim.id = orders[o].pending.id
    /\ \A claim \in OutstandingClaims : ClaimSupported(q, claim)
    /\ \A r \in Open("unresolved") \cup Open("conflict") : ObservationSupported(q, r)
    /\ \A req \in OpenRequirements : RequirementSupported(req)
    /\ NothingLeftPending(q)

\* The rows of live_reconciliation_commits and of its authorization.
CommitRow(q, a) ==
    [id |-> q.id, authorization |-> a.id, snapshot |-> q.broker.id,
     local |-> q.local, projections |-> Projected(q), targets |-> q.local.blockers,
     resulting |-> sequence + Cardinality(q.local.blockers) + 2, planned |-> q.planned]

\* Every refusal, and the retry of a request that is committed, changes nothing.
CommitAuthorizedReconciliation(p) ==
    LET q == request[p].request
        a == request[p].authorization
    IN  /\ journal = "open" /\ request[p] # NoRequest
        /\ AuthorizationMatches(q, a)
        /\ Verifies
        /\ Unused(q, a)
        /\ SnapshotCurrent(q)
        /\ Supported(q)
        /\ orders' = [o \in OrderIds |->
                         IF o \in DOMAIN Projected(q) THEN Projected(q)[o] ELSE orders[o]]
        /\ history' = [o \in OrderIds |->
                          history[o] \cup {Projected(q)[x] : x \in DOMAIN Projected(q) \cap {o}}]
        /\ commits' = commits \cup {CommitRow(q, a)}
        /\ resolutions' = resolutions \cup
              {[kind |-> x.kind, id |-> x.id, was |-> x.was, commit |-> q.id] :
                  x \in q.local.blockers}
        /\ AppendRecords({<<"operator-authorization", a.id>>,
                          <<"reconciliation-commit", q.id>>}
                         \cup {<<x.kind, x.id>> : x \in q.local.blockers})
        /\ UNCHANGED <<journal, commandTables, evidenceTables, dispatcher, sent, request>>

ReconciliationNext ==
    \/ Next /\ UNCHANGED request
    \/ \E p \in Operators, b \in BrokerSnapshots, m \in CommitIds, a \in AuthorizationIds :
          Prepare(p, b, m, a)
    \/ \E p \in Operators : Discard(p)
    \/ \E p \in Operators : CommitAuthorizedReconciliation(p)

ReconciliationSpec == ReconciliationInit /\ [][ReconciliationNext]_reconciliationVars

-----------------------------------------------------------------------------
(* Properties *)

\* As long as each commit was planned by operator recovery, the journal verifies after
\* it and after all that follows: late receipts and evidence, restarts, more commits.
PlannedCommitsVerify == (\A m \in commits : m.planned) => Verifies

\* Nothing that reaches the journal between an assessment and its commit is lost to it,
\* whoever comes first: the outcome of a claim is its receipt or a commit, never both; no
\* version of an order is written twice, so none takes the place of one that broker
\* evidence led to; and every execution on record counts in its order.
CommitsKeepEvidence ==
    /\ \A x \in Resolutions("claim") : ReceiptOf(x.id) = {}
    /\ \A o \in OrderIds : \A x, y \in history[o] : x.version = y.version => x = y
    /\ FillsMatchOrder

\* A commit settles the account: recovery classifies the journal it leaves as ready and,
\* if operator recovery planned it and every commit before it, accepts the file.  (It may
\* raise on one with a commit that a caller built by hand: see PlannedCommitsVerify.)
CommitMakesReady ==
    [][commits' # commits =>
          /\ Readiness' = "ready"
          /\ (\A m \in commits' : m.planned) => Verifies']_reconciliationVars

\* An authorization and a broker snapshot are good for one commit, under retries,
\* racing operators and restarts.
EvidenceUsedOnce ==
    \A m, n \in commits :
        m.authorization = n.authorization \/ m.snapshot = n.snapshot => m = n
=============================================================================
