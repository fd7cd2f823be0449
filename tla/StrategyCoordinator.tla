------------------------- MODULE StrategyCoordinator -------------------------
(***************************************************************************)
(* The replay coordinator (strategy/coordinator.py) and its built-in       *)
(* strategies (strategy/builtins.py) in paper mode: each envelope is shown *)
(* once to every registered strategy with the strategy's own orders, the   *)
(* commands become one decision, and envelope and decision go to the       *)
(* broker as one batch. A coordinator is [broker, records]; records maps a *)
(* source sequence to its envelope (for the digest), the decision's        *)
(* commands and the batch result, here the events the batch journalled.    *)
(***************************************************************************)
EXTENDS PaperBroker

CONSTANT MaxDecisions   \* max_decision_records

ASSUME MaxDecisionsPositive == MaxDecisions \in Nat \ {0}

InitialCoordinator(session) == [broker |-> InitialState(session), records |-> Empty]

\* InstrumentTriggeredOrderStrategy.decide: one order, at the first
\* description of its instrument. NoOpStrategy is the template None.
Decide(template, orders, env) ==
    IF \/ template = None
       \/ env.kind # "instrument"
       \/ env.payload.instrument # template.instrument
       \/ \E o \in orders : o.intent.client = template.client
    THEN << >>
    ELSE <<[kind |-> "order", strategy |-> template.strategy, client |-> template.client,
            account |-> template.account, instrument |-> template.instrument,
            side |-> template.side, quantity |-> template.quantity, limit |-> template.limit,
            created |-> env.time, session |-> env.session, sequence |-> env.sequence]>>

\* StrategyContext: a strategy sees the orders of its own id.
OwnOrders(s, strategy) ==
    {s.orders[id] : id \in {i \in DOMAIN s.orders : s.orders[i].intent.strategy = strategy}}

OwnDecision(c, registration, env) ==
    Decide(registration.template, OwnOrders(c.broker, registration.strategy), env)

\* The registrations are sorted by strategy id and decide in that order.
Decision(c, registrations, env) ==
    LET commands[n \in 0 .. Len(registrations)] ==
            IF n = 0 THEN << >>
            ELSE commands[n - 1] \o OwnDecision(c, registrations[n], env)
    IN  commands[Len(registrations)]

\* _validate_strategy_decision: a strategy commands in its own name only.
DecisionsOwn(c, registrations, env) ==
    \A n \in DOMAIN registrations :
        LET commands == OwnDecision(c, registrations[n], env)
        IN  \A k \in DOMAIN commands : commands[k].strategy = registrations[n].strategy

\* What a decision and a record of one must meet: the commands are of the envelope and
\* of registered strategies, and no client id is used twice.
DecisionAccepted(commands, registrations, env) ==
    /\ DecisionContract(env, commands)
    /\ \A n \in DOMAIN commands :
           \E k \in DOMAIN registrations : commands[n].strategy = registrations[k].strategy
    /\ \A n, k \in DOMAIN commands : OrderId(commands[n]) = OrderId(commands[k]) => n = k

\* A retried envelope is answered with the decision recorded for it.
CommandsFor(c, registrations, env) ==
    IF env.sequence \in DOMAIN c.records THEN c.records[env.sequence].commands
    ELSE Decision(c, registrations, env)

PublishAccepted(c, registrations, env) ==
    /\ IF env.sequence \in DOMAIN c.records THEN c.records[env.sequence].envelope = env
       ELSE /\ Cardinality(DOMAIN c.records) < MaxDecisions
            /\ DecisionsOwn(c, registrations, env)
            /\ DecisionAccepted(Decision(c, registrations, env), registrations, env)
    /\ BatchAccepted(c.broker, env, CommandsFor(c, registrations, env))

NewEvents(before, after) == SubSeq(after.events, Len(before.events) + 1, Len(after.events))

Publish(c, registrations, env) ==
    LET commands == CommandsFor(c, registrations, env)
        broker == ProcessDecisionBatch(c.broker, env, commands)
        record == [envelope |-> env, commands |-> commands,
                   result |-> NewEvents(c.broker, broker)]
    IN  IF env.sequence \in DOMAIN c.records THEN [c EXCEPT !.broker = broker]
        ELSE [broker |-> broker, records |-> Bind(c.records, env.sequence, record)]

\* restore_checkpoint: the registrations are those of the checkpoint, every
\* record fits and only registered strategies have commands in them.
CoordinatorValid(c, registrations) ==
    /\ Cardinality(DOMAIN c.records) <= MaxDecisions
    /\ \A q \in DOMAIN c.records :
           LET record == c.records[q]
           IN  /\ record.envelope.sequence = q
               /\ DecisionAccepted(record.commands, registrations, record.envelope)

=============================================================================
