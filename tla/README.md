# Verification of tx_trade

`tx_trade` records Taiwan futures market data from the Capital broker, replays it, trades on
paper against it, and prepares live trading with a durable order journal. This directory
holds TLA+ models of its stateful parts, the TLC configurations that check them and proofs
that TLAPS checks. Paths below are relative to the repository (`tx_trade/...`).

## 1. Inventory

| Component | State | Operations | What is hard | What makes it correct |
|---|---|---|---|---|
| Live order reducer (`orders/live_state_machine.py`, `live_contracts.py`) | immutable `LiveOrder`, applied-event ledger | create, advance, cancel, amend/decrease, receipt, broker event, fill | evidence late, repeated, reordered, contradictory; two statements (table, contract) of one protocol | no reducer step violates the contract; each event counts once; an open command is never forgotten |
| Live order journal (`orders/sqlite_live_order_journal.py`) | 20 SQLite tables, one instance lock, global record sequence | register, claim, receipt, raw observation, apply event, reconcile, resume | crash or poison between transactions, racing dispatchers, events between claim and receipt | at most one send; recovery accepts every reachable file; facts are append-only |
| Recovery (`live_journal_recovery.py`) | none (pure) | classify a recovery snapshot | agreement with what the journal can store | ready means nothing is open |
| Reconciliation (`live_reconciliation*.py`, `live_operator_recovery.py`) | plans, authorizations, commits in the journal | assess, authorize, project, commit | stale snapshots, incomplete queries, reuse of an authorization | nothing that arrives between assessment and commit is lost; an authorization is used once |
| Journal inspection (`*_inspection*.py`) | none (read-only) | inspect | consistent read of a database in use | reads never write |
| Ingress (`market_data/ingress.py`) | four bounded lanes, dedupe cache, turn and burst counters | try_publish, try_pop, process_one, notify | concurrent callbacks, overflow reported outside the lock, fairness between lanes | an overflow damages the session visibly, whoever reports it when |
| Pipeline and monitoring (`market_data/pipeline.py`, `sequencer.py`, `monitoring/`) | ingest sequence, health, session impact, shutdown | accept, mark, request | damage reported by several threads | damage is visible before finalization |
| Storage writer (`storage/sqlite_writer.py`) | bounded queue, batch, state, counters | start, publish, flush, stop, worker | token put outside the lock, timeouts, failure of the worker | an ordered sink; nobody waits for ever |
| Repository and readback (`storage/`) | sessions, events, projections | begin, append_batch, end, verify | raw-only recovery mode | all or nothing per batch; degraded sessions stay incomplete |
| Recorder (`app/phase1.py`) | local lifecycle flags | run_live, run_offline | every step of the shutdown may fail or be interrupted | complete only if nothing was lost |
| Quote adapter (`broker/capital/quote_adapter.py`) | STA thread, command queue, subscriptions, reconnection | start, login, subscribe, callbacks, stop | callers time out on commands that run later; reconnection deadlines | SUBSCRIBED is true, nothing is lost silently, a reconnection ends |
| Replay runtime (`replay/runtime.py`) | state, requests, cursor | start, pause, resume, stop, wait, worker | condition variables, interrupted timers, a source that is read twice | what the source yields is published once and in order, and nothing short of the plan completes; requests are honoured |
| Paper broker, matching, ledger (`orders/paper_broker.py` ...) | orders, fills, positions, checkpoints | submit, cancel, process_market_data, restore | order of events, restore of a checkpoint | positions follow from fills |
| Strategy coordinator, research (`strategy/`, `research/`, `app/research_paper.py`, `app/phase2.py`) | cursor, checkpoints, runs | coordinate, checkpoint, resume | crash between checkpoints | a resumed run equals an uninterrupted one |
| Event mapper and reply parser (`market_data/event_mapper.py`, `broker/capital/reply_parser.py`) | none (pure) | map, parse | identities decide what counts as a repetition | a repetition keeps its identity, another event gets another |
| Codecs, settings, command lines | none | encode, decode, validate | | not stateful; not modelled |
| `quote_client.py`, `PythonExampleV2/`, `ref/` | | | | legacy client and vendor examples; not modelled |

Interaction: the adapter's callbacks call `BoundedIngress.try_publish`; the recorder's main
thread pops, maps, sequences and publishes into the writer's queue; the writer's thread commits
to the repository; all of them report to the health, the session impact and the controlled
shutdown. The replay runtime reads a recorded session and publishes to a sink on its own
thread; in a research run that sink is the durable coordinator, which asks the strategies for
commands, hands envelope and decision to the paper broker as one batch and commits both
checkpoints and the output records in one transaction. The live journal calls the reducer
inside its transactions; operators assess it against broker snapshots and commit authorized
reconciliations into it; dispatchers and the reply feed are ports (`orders/live_ports.py`)
that have no implementation in the repository yet.

The hazards, each at its line, are listed in `PROJECT.json`.

## 2. Modules

| Module | Models | Composition |
|---|---|---|
| `LiveOrderReducer` | reducer and contract as operators | |
| `LiveOrder` | one order with its ledger; one action per reducer function | extends `LiveOrderReducer` |
| `LiveJournal` | journal tables, dispatchers, verification, recovery | extends `LiveOrderReducer` |
| `CapitalReply` | the reply parser as operators | extends `LiveOrderReducer` |
| `Reconciliation` | assessment and projection as operators | extends `LiveOrderReducer` |
| `LiveReconciliation` | operators, authorization, commit, inspection | extends `LiveJournal`, `Reconciliation`; its instance takes its evidence from `CapitalReply` |
| `OrderedSink` | abstract specification of a storage sink | |
| `SQLiteMarketDataWriter` | writer threads | `OrderedSink` is its abstraction |
| `CapturedEventMapper` | the mapping of captured events as operators | |
| `RecordedSession` | sessions, event log, projections, readback | extends `SQLiteMarketDataWriter`, `CapturedEventMapper` |
| `BoundedIngress` | the ingress as operators on the record of its fields | |
| `Phase1Recorder` | `run_live`: callbacks, main thread, writer | extends `BoundedIngress`, uses `OrderedSink` as the writer |
| `QuoteAdapter` | the adapter's STA thread, its callers and the broker | |
| `ReplayRuntime` | replay worker and control threads | |
| `PaperMatching` | contracts, matching, policies and ledger of paper execution as operators | |
| `PaperBroker` | the paper broker as operators on its state record | extends `PaperMatching` |
| `PaperTrading` | a broker driven by direct commands and batches | extends `PaperBroker` |
| `StrategyCoordinator` | coordinator and built-in strategies as operators | extends `PaperBroker` |
| `ResearchRun` | the durable research run with its runners | extends `StrategyCoordinator` |
| `PaperInvariants` | inductive invariants of the two | extends `PaperTrading`, `ResearchRun` |

`MC*` modules give constants their values, and the modules of section 5 hold the theorems. Operators commented `Fault:` are plausible bugs of
the definition that follows them; `PROJECT.json` says which property each one breaks. They
are not used by the specifications.

### LiveOrderReducer and LiveOrder

An order is the record of the fields of `LiveOrder`; quantities, prices and instants are
naturals and `None` is 0. `MayAdvance`, `MayRequestCancel`, `MayBindOperation` are the guards
after which a local function raises. `Admits`, `ResultState` and `KeepsBinding` are the three
questions that `_broker_transition` answers at once. `LiveOrderContract` is
`LiveOrder.__post_init__`. A semantic fingerprint is the record of the fields it hashes. The
account, the instrument and the side of an event are one Boolean, `mine`; correlation is
another, `confirmed`. The average price is its presence. `issued` remembers the commands that
were ever bound, so that receipts of old commands may arrive at any later time.

### LiveJournal

One variable per table; every operation is one `BEGIN IMMEDIATE` transaction under the
instance lock and therefore one step. Exact retries, id conflicts, version and token
mismatches return without a change and are left out as stutters. `Close` is the end of an
instance by `close` or by a failed COMMIT or ROLLBACK that poisons it, `Crash` also loses what
dispatchers hold, and `Resume` is possible only if `Verifies` (the checks of
`_verify_durable_payloads`, one conjunct per table) holds; a file of an earlier schema version
is migrated in the same step. `Send` is the external dispatch port between `claim_dispatch`
and `record_dispatch_receipt`. `RegisterCommand` takes any version that its caller may have
read, and `VersionExpected` decides the swap. All inputs carry one instant. Ambiguity candidates are left out: no operation of the repository writes any.

### Reconciliation, LiveReconciliation and CapitalReply

`Reconciliation` is the pure assessment of a local snapshot against one broker snapshot, for
one account and one instrument, with observations that conflict, are not confirmed, or come
from a query that was cut short, and the projection of accepted orders from it. In
`LiveReconciliation` an operator reads the journal (through a running instance, or by
inspection of a sealed file), keeps a request with its authorization in memory, and commits
it later; the commit's checks are definitions of their own in the order of the code
(`Unused`, `SnapshotCurrent`, `ClaimSupported`, `ObservationSupported`, ...). A request asks
for every blocker of its snapshot, since the code refuses any other; `planned` remembers
whether `plan_operator_recovery` would have produced it. Expiry is the choice to drop a
request. `CapitalReply` parses the replies of the instance: fields are model values, empty
ones `None` or `NoId`, and the digest of an event id is the tuple it hashes.

### SQLiteMarketDataWriter, CapturedEventMapper and RecordedSession

A step of the writer is a block under the lock, one queue operation, one repository
transaction or the end of a wait. Events are numbered in acceptance order, so `durable` is the
sequence of committed numbers. Each timeout (`flush`, the put of the stop token, `join`) is an
action of its own. `RecordedSession` replaces the writer's abstract commit by `append_batch`
with deduplication, checkpoint and projections; a failing projection switches the session to
its raw-only mode. The application ends the session in its own thread, and another process may
recover it. The keys that deduplication compares come from `CapturedEventMapper`.

### BoundedIngress and Phase1Recorder

`try_publish` and `try_pop` are each one critical section. The overflow of a lane is reported
after the lock is released; in `Phase1Recorder` a thread's reports are a sequence of calls
(`reporting`) taken one at a time, so that every other thread may run in between. The main
thread's program counter follows the phases of `run_live` from a started adapter on. The
tracker's capacity (2 sessions) cannot be exhausted by the one session of the recorder, so
that path is left out; so are metrics and lists of reasons.

### QuoteAdapter

A step is what the STA thread does between two moments at which another thread can make a
difference: one command, one callback, one phase of a turn of `_run`, one phase of `_cleanup`.
Callers submit the commands of a script, time out, give up (`wait_until_ready` decides under
the lock and calls `_fatal` after it) and stop at any moment. A deadline is off, pending or
due. A broker callback belongs to the sink of a generation, the present one or the one before;
`live` and `announced` are what the broker really streams and said. A login is two locked sections
with the broker's call between them (`LoginBegins`, `LoginReturns`). The state DISCONNECTED is
left again under the same lock, and so is STOPPING when the thread has ended (`Passing`). Callbacks of ticks, instruments and
server time only publish into the ingress and are left out.

### ReplayRuntime

`worker` names the place in `_publish_all`, `_wait` or `_acknowledge_controls`. A thread in
`Condition.wait_for` proceeds when it gets the lock and finds its predicate true, which is
why a predicate that was true at the notification may be false again. Pacing arithmetic is
abstracted: a wait may be needed before any event, and a timer ends by itself, by the wake
event or by a failure. The source is read twice; the second pass (`TakeNext`) yields whatever
`_publish_all` accepts, which is any later event of the session's range, one that the first
pass did not have included. The synchronous `run()` shares the worker's code and is left out.

### PaperMatching, PaperBroker, PaperTrading

The broker is one immutable state record that each call replaces under the broker's lock, so
that one call is one step; where the code raises nothing is committed, and the operation's
`...Accepted` operator is false. Digests and UUIDs are injective: a command is its own digest
and an order id is the pair it hashes. Decimals are integers in a unit fine enough for the
instance, and averages are kept as fractions. `CheckpointValid` is what `restore_checkpoint`
demands, one conjunct per check.

### StrategyCoordinator and ResearchRun

`Publish` shows an envelope to every strategy and hands the decision to the broker. A runner of
`ResearchRun` goes through reservation of the file, schema, creation, hydration, one batch per
envelope, completion and output; each repository transaction is a step, and the run state that
`commit_batch` returns is read in two later ones (`ReadRow`, `Reload`: the row and the ledger). Nothing keeps two runners from working on one
file; the repository's checks (`CommitAccepted`, fingerprints of batches) must. `Crash` loses a
runner; a failed COMMIT is a crash before or after it.

## 3. Runs

| Run | Bounds | Distinct states | Shows |
|---|---|---|---|
| `live_order` | 2 commands, 3 event ids, quantities 1-2, a limit and a market order | 21,500 | contract, ledger, order of evidence, finality |
| `live_journal` | 2 orders of 2 lots sharing a command id, 2 cancels of one of them, 2 observations, 2 dispatchers, 2 reports of one execution | 1,193,151 | crash safety, single send, evidence counted once over all orders |
| `live_journal_blocked` | the same | violation | finding 1 |
| `reconciliation` | 1 order, 3 parsed replies, 6 broker snapshots, 1 operator, 1 dispatcher, 2 commits | 305,571 | a commit loses no evidence and no version, uses its authorization once, leaves the journal ready and, if planned, verifiable |
| `market_data_writer` | 2 clients, queue of 2, batch of 2, 3 events of which one repeats | 492,660 | ordered sink, flush, stop, failure; what is persisted is read back; complete means projected |
| `phase1_recorder` | lanes of 1, 3 callbacks | 991,103 | complete is never claimed for a damaged recording; critical failures end the session |
| `quote_adapter` | 4 commands, quotes and ticks of 1 symbol, 5 callbacks, 2 attempts | 1,086,227 | SUBSCRIBED is true, nothing is lost silently, transitions are refused only on the way to the end, reconnections end |
| `quote_reconnect` | the same | violation | finding 3 |
| `replay_runtime` | 2 clients, 4 events, 1 before the cursor, and one number in their range that is not in the session | 31,622 | order, completion, stop and playback end |
| `replay_pause` | 1 client | violation | finding 2 |
| `paper_broker` | 4 direct intents, 2 cancels, 5 batches, every capacity at 1-3 (events 9) | 171,181 | journal, fills, positions, checkpoint, sharing of quotes, no look-ahead |
| `research_run` | 2 runners, 2 settings, 5 envelopes, 3 crashes | 13,875 | a durable prefix of the uninterrupted run, resumable at any moment, and completed |

Why the bounds are enough: two commands let a stale receipt meet a newer binding; three event
ids let a redelivery race two other events; two lots give partial and full fills. The
instance has one instant (a second one takes it past a few minutes); events out of time order
are covered by `ContractHolds` alone, which is proved for every set of instants. Two callers
that cancel one order compute its successor from the same version. Two
dispatchers race for a claim, and two observations give redelivery, one execution under two
event ids and a wrong provenance; contradictory content under one event id takes the instance
past a few minutes and is covered by the theorems about the journal, which hold for any reports.
The operator's request waits while dispatch, evidence and restarts go on, and may be presented
again after its commit; the broker snapshots confirm, contradict and leave open. Operators that
race for a commit take that instance past a few minutes too: `EvidenceIsUsedOnce` and the other
theorems hold for any number of them. The writer's queue of two holds an event and a token or barrier and is full with
any two; a batch of two is left partial by the third event. One-place lanes overflow with the
second event and three callbacks can fill, drop and still deliver. Five callbacks take the
adapter to readiness, break the connection and bring it back, with one quote on the way. Two
control threads give every race of the replay's controls, and a plan of three events can lose
its middle one or get a fourth. The paper instance makes a quote too
small for two orders, fills an order in two parts, reaches every capacity and redelivers with
other content. Symmetry is used for identifiers that are only compared.

Deadlock checking is off where the system ends: writer, recorder, adapter, replay runtime,
and where every input has been used: broker, research run.

**Fairness.** The writer, the replay worker, the adapter's STA thread and the recorder's
threads are weakly fair: they are operating-system threads that are not stopped by others. A
wait whose condition holds returns, and a deadline elapses. A started research runner goes on,
and while no output was returned the operator resumes the run (`RunCompletes` would be false
of an operator who gives up). No call, failure, timeout, interrupt or callback is ever forced.
The reducer, the journal, reconciliation and the broker have no liveness properties: nothing in
the repository schedules their callers. `CriticalFailureEndsSession` rests on the bound on
callbacks: the drain of `run_live` has no exit while callbacks of a timed-out adapter keep
refilling the lanes. So does `ReconnectEnds`: a connection that comes up and breaks for ever
never ends (finding 3).

## 4. Findings

1. `live_journal_blocked`. `docs/WORK_LOG.md:584-586` says that outstanding claims "keep
   startup in reconciliation-required state". A broker report applied between the send and the
   receipt gives the order a new version; the receipt then fails with a version mismatch, the
   claim stays outstanding, and `verify_recovery_snapshot` classifies the journal as BLOCKED.
2. `replay_pause`. `runtime.py:107` and `README.md:173` promise an acknowledged pause.
   `resume()` sets RUNNING itself; a `pause()` that follows before the paused worker gets the
   lock again is never acknowledged: the worker waits for a resume, the caller for the worker,
   and only a stop ends it.
3. `quote_reconnect`. `docs/PHASE1_MARKET_DATA_ARCHITECTURE.md:635` sends the adapter to ERROR
   past the retry policy. A connection that reaches CONNECTED and breaks before STOCKS_READY
   re-arms the reconnection without the comparison with `max_attempts`, for ever.

Met while modelling and delimited by a property that holds:

- `orders/paper_broker.py:1268` numbers the fills of an envelope; the check of a restored
  checkpoint (629-645) numbers those of an order. A quote that fills two orders makes the
  exported checkpoint unrestorable. `RestorableUnlessQuoteShared` shows that nothing else does.
- `orders/sqlite_live_order_journal.py:2490-2499` accepts a directive for a claim of an earlier
  version than the order's, which `_verify_durable_payloads` refuses: `load_recovery_snapshot`
  (3915-3928) then raises instead of classifying, and the journal rejects its own file, against
  `docs/WORK_LOG.md:679-682`. It takes a request that a caller built by hand.
  `PlannedCommitsVerify` shows that requests from operator recovery never lead there, and
  `CommitMakesReady` therefore promises a file that verifies after planned commits only; that
  the tables are ready it says of all.
- `replay/runtime.py:304-312` compares an event of the second pass with the range and with its
  predecessor, not with the plan: a source that omits an event in the middle is published past
  the gap, and reported as FAILED only at the end (376-388;
  `tests/unit/test_replay_runtime.py:462-489` expects as much). One that omits an event and
  yields a foreign one in its range instead would be reported as completed. `PublishesInOrder`
  says what holds of any source.
- `broker/capital/quote_adapter.py:538`: a time-out of `start()` (404) leaves ERROR, from which
  the thread's COM_READY is refused; the RuntimeError ends in the handler of `_run`, which fails
  an adapter that has failed. At line 618 a login whose adapter a caller's `_fatal` (438) put
  into ERROR between the two locked sections raises "invalid adapter state transition" to the
  caller of `login`. `RefusedInErrorOnly` shows that the two are refused in
  ERROR only, with the adapter stopping and its session incomplete.
- `research/sqlite_repository.py:549-563`: `load_run` reads row and ledger outside a
  transaction. A commit of another runner in between is reported as CORRUPT and ends the runner
  (`Reload`); `RunCompletes` shows that the run survives it.
- `broker/capital/quote_adapter.py:1351`: a caller that cancels its command between the
  `done()` and the `set_exception` of `_fail_pending` makes the clean-up raise; the thread ends
  with COM and the monitor unreleased (`pc = "crashed"`, which `EndsAccounted` excepts).
- A stop inside a re-entered monitor is reported as a failure of the thread (`ReenterReturns`),
  and a callback of an old generation that raises is fatal (`CallbackFails`).
- `EvidenceOrderIrrelevant` excepts one case, which the code has: a reconciling order with a
  pending NEW keeps its binding through a partial fill, while an acceptance that comes first
  releases it.

## 5. Proofs

Every theorem is proved for all values of the constants; the bounds of the runs (`MaxEvents`,
`MaxCallbacks`, ...) are ordinary constants of the proofs, so that no theorem rests on their
being small.

| Module | Theorems (the property of the run in brackets, where the names differ) | Assumptions used |
|---|---|---|
| `LiveOrderReducerProofs` | lemmas: what each reducer operation returns and preserves, sums over finite sets | `AbsentIdAssumption` |
| `LiveOrderProofs` | `TypeCorrect` (`TypeOK`), `ContractHolds` (`ReducerMeetsContract`), `TerminalIsFinal` (`TerminalOrdersStayTerminal`), `BindingNeedsBroker` (`BindingReleasedByBrokerOnly`), `LedgerExplainsQuantities` (`QuantitiesExplainedByLedger`), `RacesAreConfluent` (`EvidenceOrderIrrelevant`) | `InputsAssumption` |
| `LiveReconciliationProofs` | journal: `DispatchInvariant`, `SentOnce` (`SentAtMostOnce`), `JournalInvariant`, `RecoveryAccepts` (`RecoveryAcceptsJournal`), `EvidenceHeld` (`EvidenceAppliedOrHeld`), `ReadyIsSettled` (`ReadyMeansSettled`), `AppendsOnly` (`FactsAreAppendOnly`), `FillsMatch` (`FillsMatchOrder`); reconciliation: `ReconciliationInvariant`, `PlannedCommitsAreAccepted` (`PlannedCommitsVerify`), `EvidenceIsUsedOnce` (`EvidenceUsedOnce`), `EvidenceIsKept` (`CommitsKeepEvidence`), `CommitsMakeReady` (`CommitMakesReady`) | `JournalInputsAssumption`, `AbsentIdAssumption` |
| `RecordedSessionProofs` | `WriterInvariant`, `FlushCovers` (`FlushCoversEarlierEvents`), `RefinesOrderedSink` (safety half of `ImplementsOrderedSink`) for the writer; `RecordingInvariant`, `PersistedReadsBack` (`PersistedIsReadBack`), `CompleteIsProjected` (`CompleteMeansProjected`), `RecordedFlushCovers`, `RecordingRefinesSink` for writer and repository | none |
| `ReplayRuntimeProofs` | `ReplayInvariant`, `PublishesPlan` (`PublishesInOrder`), `SleeperIsWoken` (`SleepingWorkerIsWoken`) | `ReplayAssumption` |
| `QuoteAdapterProofs` | `AdapterInvariant`, `SubscribedMeansLive` (`SubscribedIsLive`), `EndIsAccounted` (`EndsAccounted`), `RefusalsAreOfErrors` (`RefusedInErrorOnly`) | none |
| `Phase1RecorderProofs` | `RecorderInvariant`, `CompleteIsRecorded` (`CompleteMeansRecorded`) | none |
| `PaperBrokerProofs` | paper broker: `TradingInvHolds`, `RestorableHolds` (`RestorableUnlessQuoteShared`), `NoLookAheadHolds` (`NoLookAhead`), `QuoteSharedHolds` (`QuoteSharedInOrder`), `JournalExplainsHolds` (`JournalExplainsState`), `PositionExplainedHolds` (`PositionExplainedByFills`); research run: `DurablePrefixHolds` (`DurablePrefix`), `ResumeAcceptsHolds` (`ResumeAccepts`, while no quote of the run has filled two orders) | `NoneIsNoNumber`, `ExecutionConfigured`, `LimitsPositive`; for a broker alone `InputsAreTyped`; for a run `SourceScanned`, `InputTypes`, `MaxDecisionsPositive` |

TLC evaluates each assumption on the instance of its run, and each inductive invariant below
was checked by TLC over all states of that run (quantifiers over all numbers being bounded for
it: `IsList` and `AverageSound` of `PaperInvariants`, the number at the end of a fill id, and the
keys of batches and outbox).

**LiveOrder.** The contract is not inductive alone: a reconciling order with nothing left would
return to `partially_filled` with a full fill when its cancel is rejected, and a
`submission_unknown` order could hold a cancel command. `OpenOrderHasRemainder` excludes both,
and the inductive invariant is `TypeOK /\ ReducerMeetsContract /\ OpenOrderHasRemainder`.
`QuantityInv` adds that the ledger has one entry per identity and no event is in it under two
types; then a recorded event adds one term to one of the two sums. `RaceInv` adds that a
submitting order holds a NEW command, without which acceptance and cancellation would not
commute.

**LiveJournal.** `DispatchInv` ties each dispatcher's token to a durable claim, a claim to its
command and a command to one order: what is sent has a claim, and a claim is made once.
`TablesInv` adds the contiguous history of every order, the agreement of events, fills and
observations, and that the record sequence counts every row once (`RowsRecorded`), which is
what a resume verifies; `JournalInv` is `TablesInv` without an operator's rows. `FillsInv` says
that a fill id is one row over all orders, so that the sum over the orders is that over the
journal.

**LiveReconciliation.** `TablesInv` holds with operators too. `CommitsInv` is the agreement of
commits, authorizations, resolutions and projected orders. `RequestsHold` is the part that is
easy to miss: a request waits in memory while the journal moves on, and what its plan saw
(`PlanHolds`: only claims block, each at the version assessed) must remain usable. It does,
since claims are never removed and the commit refuses every other sequence. `EvidenceIsKept`
follows from three invariants that a stale commit would break: a resolved claim has no receipt
(`ClaimResolutionsVerify`), the history is contiguous, and `FillsInv`, which is part of
`ReconciliationInv`. `CommitsMakeReady` joins `NothingOpen` (a commit resolves all that is open
when it is applied, not only when it was planned) with `PlannedVerify`.

**Writer and repository.** The events from the oldest durable to the newest accepted one are
numbered without a gap, through the batch, the item in hand and the queue
(`EventsConsecutive`); a barrier in the queue is ahead of every event it does not cover
(`BarriersInPlace`) and the stop token is last (`TokenIsLast`). Hence an answered barrier covers
durable events only, and a stop leaves nothing behind, which are the two steps of the
refinement that are not immediate. `RecordingInv` says of the repository that its log ascends
among the durable events, has each key once and covers them all, and that only a session that
lost a projection is raw-only. Each batch follows all that is durable, so that the new events
continue the log. That reading in the order of the ingest sequence gives the log back is the
uniqueness of an ascending list (`ListUnique`).

**ReplayRuntime.** `ProgressAgrees` relates the envelope in hand, the cursor, the count and the
sink at every place of the worker; `WorkerAgrees` relates places and states. That a completed
replay without foreign events is its plan is the lemma that two ascending sequences of one
length, one within the range of the other, are equal (`AscendingPlan`).

**QuoteAdapter.** `PhaseFits` relates the place of the STA thread and the reported state (a
thread that is about to ask for COM_READY or LOGGED_IN is in the state before it or in ERROR),
`SubscriptionFits` what the adapter believes to be subscribed and what the broker streams (it
believes nothing without a ready connection, which is why a late callback of an old generation
cannot make it lie), and `AccountFits` says that up to the first mark of incompleteness what is
owed is what waits in the queue.

**Phase1Recorder.** A dropped event is reported in several calls that other threads interrupt.
`ReportsFit` and `DamageReported` say that damage is known to the session or its report is on
the way, by a thread that the shutdown waits for; `PhasesFit` says what each phase of an
undamaged shutdown leaves for the next one.

**Paper broker** (invariants in `PaperInvariants`). `TradingInv` says that the broker's state is `BrokerKept`, and is proved once
for the operators that a direct call, a batch and a coordinator are built from. It joins the
orders and the queue (`OrdersKept`), the caches of outcomes (`CachesKept`), the fills and
positions as the journal tells them (`JournalKept`), the capacities (`LimitsKept`) and the fences
of committed envelopes (`FencesKept`). `Explained` is about money: a fill's slippage and fee are
those of the policy, the fees of an order telescope (after each partial fill the sum is the fee
of the quantity filled so far), a position nets its fills, and its average, a fraction of
integers, lies between the lowest and the highest price filled on its own side.
A quote is matched by a fold over the queue, so the matching has invariants of its own over the
first n orders of the queue: `Served` (new fills belong to those orders, the others are
untouched) and `Shared` (what is left of a side is what was there less what was sold, and a
contender is not filled only when nothing was left for it). A fill id is recomputed on a restore
with the number 1; `Served` says that every fill has that number unless an earlier fill came of
the same envelope, which is exactly the exception of `RestorableUnlessQuoteShared`.

**ResearchRun.** `IInv` compares every place of every runner with the run that nobody
interrupts: a runner's coordinator is the one that run had after some number of decisions not
beyond the row, and the durable rows are its rows up to the row's count. A runner that another
one overtook may therefore be behind; the version and the cursor of the row refuse its commit. `SoundInv` says that every
coordinator in memory or in a row came out of accepted publications, each of which keeps its
broker `BrokerKept`; `ResumeAcceptsHolds` joins the two. Its hypothesis (`FilledApart`: the fills
of one envelope belong to one order) is the exception just named and cannot be dropped: a quote
that fills two orders leaves a checkpoint the restore refuses (section 4). The instance of
`research_run` has no such quote, so that its run checks `ResumeAccepts` as it stands.

Sums over finite sets and ascending lists need induction over data. Where it is needed the
proofs take a least counterexample (`LeastNumber`, from the well-foundedness of `<` on the
naturals, or a smallest finite set), since an induction theorem with an operator as a parameter
cannot be applied.

Only model-checked:

- liveness, which needs fairness: the liveness half of `ImplementsOrderedSink`, `FlushesSettle`,
  `StopSettles`, `StopTerminates`, `PlaybackEnds`, `ReconnectEnds`, `CriticalFailureEndsSession`,
  `RunCompletes`;
- the three properties that the code violates.

## 6. Plan

Every safety property that a passing run checks is proved (`ResumeAccepts` under the hypothesis
named above); the properties that remain are the liveness properties.

Models that could follow: the composition of `QuoteAdapter` with `Phase1Recorder`, the
synchronous replay and `run_offline`.

## 7. Not modelled

Canonical encodings, digests and JSON of journals, checkpoints and rows; the DDL of schemas and
migrations and the checks of a schema's text; file-system checks (links, sidecars, remote
drives) and byte budgets, among them `_validate_json_complexity`
(`orders/paper_broker.py:1762`), which makes `restore_checkpoint` refuse a very large checkpoint
that `RestorableUnlessQuoteShared` and `ResumeAccepts` call restorable; the private copy that an inspection reads; settings, command lines
and fixtures; metrics and lists of reasons; the COM backend; the fairness between ingress
lanes and the coalescing of quotes, which are modelled in `BoundedIngress` but no run asks
about; paged reads of a recording that is still being written (`storage/readback.py:38` reads
the checkpoint before the rows, without a snapshot of both); the legacy `quote_client.py` and
the vendor examples in `PythonExampleV2/` and `ref/`.
