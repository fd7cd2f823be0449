----------------------------- MODULE QuoteAdapter -----------------------------
(***************************************************************************)
(* CapitalQuoteStaAdapter of tx_trade/broker/capital/quote_adapter.py: one *)
(* STA thread owns the COM objects, executes the commands of the callers   *)
(* in turn, dispatches the broker's callbacks while it pumps messages (and *)
(* inside enter_monitor), subscribes again and reconnects at deadlines;    *)
(* stop, time-outs and _fatal of the callers' threads come at any moment.  *)
(* A step is what the STA thread does between two moments at which another *)
(* thread can make a difference.  A deadline is "off", "pending" or "due". *)
(***************************************************************************)
EXTENDS Integers, Sequences, FiniteSets

CONSTANTS
    Symbols,
    MaxAttempts,        \* max_attempts of the ReconnectPolicy
    CommandCapacity,    \* of the queue of commands
    CommandBatch,       \* command_batch_size
    QuoteCapacity,      \* of the main part of the BoundedStaQuoteQueue
    Script,             \* the commands the callers may submit: a set for each turn
    MaxCallbacks        \* bound on the broker's callbacks

Bounds == {MaxAttempts, CommandCapacity, CommandBatch, QuoteCapacity}

ASSUME AdapterAssumption ==
    /\ Bounds \subseteq Nat \ {0}
    /\ MaxCallbacks \in Nat

VARIABLES
    pc,             \* where the STA thread is
    state,          \* the ConnectionState
    accepting,      \* _accepting_commands
    stopping,       \* _stop_event
    generation,     \* of the connection
    desired,        \* _desired_quotes and _desired_ticks, as <<kind, symbol>>
    actual,         \* _actual_quotes and _actual_ticks
    attempts,       \* _reconnect_attempts
    attempt,        \* its value when the reconnection under way began, else 0
    timer,          \* the deadlines
    resubscribe,    \* _resubscribe_generation (0 for None) and _resubscribe_attempts
    held,           \* what is initialized: COM, objects, events, monitor
    commands,       \* the queue of commands, with what became of their futures
    processed,      \* commands executed in this turn
    failing,        \* the command whose future _fail_pending found open
    quotes,         \* the BoundedStaQuoteQueue: generation of each notification
    overflow,       \* and its overflow slot, as a sequence
    incomplete,     \* the session is marked incomplete (or the pipeline failed)
    timedOut,       \* a caller has seen its time-out and is about to call _fatal
    live,           \* broker: what it streams
    announced,      \* broker: it said of this connection that the stocks are ready
    submitted, callbacks,   \* history: number of commands and of callbacks
    owed            \* history: quote notifications that are not published

control == <<pc, state, accepting, stopping, timedOut>>
connection == <<generation, attempts, attempt, timer>>
subscription == <<desired, actual, resubscribe>>
calls == <<commands, processed, failing, submitted>>
handoff == <<quotes, overflow, owed>>
broker == <<live, announced, callbacks>>
vars == <<control, connection, subscription, held, calls, handoff, incomplete, broker>>

Ready == {"stocks_ready", "subscribed"}
Failed == {"error", "stopping", "stopped"}
Timers == {"reconnect", "connected", "stocks_ready", "resubscribe"}
Kinds == {"quotes", "ticks"}
Booting == {"com", "objects", "events", "com_ready"}

\* _TRANSITIONS: _transition_locked raises on any other pair.
Transitions ==
    LET ends == {"error", "stopping"}
        lost == {"disconnected"} \cup ends
    IN  [new |-> {"starting"} \cup ends, starting |-> {"com_ready"} \cup ends,
         com_ready |-> {"logging_in"} \cup ends, logging_in |-> {"logged_in"} \cup ends,
         logged_in |-> {"entering_monitor"} \cup ends,
         entering_monitor |-> {"connected"} \cup ends,
         connected |-> {"stocks_ready"} \cup lost, stocks_ready |-> {"subscribed"} \cup lost,
         subscribed |-> {"stocks_ready"} \cup lost,
         disconnected |-> {"reconnecting", "stopping"},
         reconnecting |-> {"connected"} \cup ends,
         error |-> {"stopping"}, stopping |-> {"stopped"}, stopped |-> {}]

\* States that are left again before the lock is.
Passing == {"disconnected", "stopping"}

\* The points at which the callbacks of the broker are dispatched.
Dispatching == {"pump", "enter", "reenter", "final_pump"}

\* A command and whether its future is cancelled.
Command(op, items) == [op |-> op, items |-> items, cancelled |-> FALSE]

Init ==
    /\ pc = "none" /\ state = "new" /\ accepting = FALSE /\ stopping = FALSE
    /\ timedOut = FALSE
    /\ generation = 0 /\ attempts = 0 /\ attempt = 0 /\ timer = [t \in Timers |-> "off"]
    /\ desired = {} /\ actual = {} /\ resubscribe = [generation |-> 0, attempts |-> 0]
    /\ held = {}
    /\ commands = <<>> /\ processed = 0 /\ failing = <<>> /\ submitted = 0
    /\ quotes = <<>> /\ overflow = <<>> /\ owed = 0
    /\ incomplete = FALSE
    /\ live = {} /\ announced = FALSE /\ callbacks = 0

-----------------------------------------------------------------------------
(* Pieces *)

\* Fault: the stop event is left to the STA thread.
FatalWithoutStop(s) ==
    /\ UNCHANGED stopping /\ accepting' = FALSE /\ incomplete' = TRUE
    /\ state' = IF s \in Failed THEN s ELSE "error"

\* _fatal, of an adapter in state s: it also fails the health and requests the shutdown.
FatalFrom(s) ==
    /\ stopping' = TRUE /\ accepting' = FALSE /\ incomplete' = TRUE
    /\ state' = IF s \in Failed THEN s ELSE "error"

Fatal == FatalFrom(state)

Goes(s) == state' = s /\ UNCHANGED <<accepting, stopping>>

Stays == UNCHANGED <<state, accepting, stopping>>

\* _refresh_subscription_state_locked
Refresh(s, wanted, have) ==
    CASE wanted # {} /\ wanted \subseteq have /\ s = "stocks_ready" -> "subscribed"
      [] wanted # {} /\ ~(wanted \subseteq have) /\ s = "subscribed" -> "stocks_ready"
      [] OTHER -> s

\* _schedule_reconnect_failure, of the attempt that began with this many.
ReconnectFails(previous) ==
    /\ attempts' = previous + 1
    /\ incomplete' = TRUE
    /\ IF attempts' >= MaxAttempts
       THEN Fatal /\ UNCHANGED timer
       ELSE Stays /\ timer' = [timer EXCEPT !.reconnect = "pending"]

\* _schedule_resubscribe_failure
ResubscribeFails(s, r) ==
    /\ resubscribe' = [r EXCEPT !.attempts = @ + 1]
    /\ incomplete' = TRUE
    /\ IF r.attempts + 1 >= MaxAttempts
       THEN FatalFrom(s) /\ UNCHANGED timer
       ELSE Goes(s) /\ timer' = [timer EXCEPT !.resubscribe = "pending"]

\* _enrich_quote of the notifications of a sequence; lookups may fail.
Enrich(notifications) ==
    LET fresh == {i \in DOMAIN notifications : notifications[i] = generation}
    IN  \E found \in SUBSET fresh :
           /\ owed' = owed - Cardinality(found)
           /\ incomplete' = (incomplete \/ found # DOMAIN notifications)

\* Fault: what waits for its lookup is left in the queue.
DrainNothing == UNCHANGED <<quotes, overflow, owed, incomplete>>

\* _drain_sta_quotes before the thread ends: the overflow is looked up too.
DrainAll == Enrich(quotes \o overflow) /\ quotes' = <<>> /\ overflow' = <<>>

-----------------------------------------------------------------------------
(* The callers *)

\* start
Start ==
    /\ state = "new"
    /\ state' = "starting" /\ accepting' = TRUE /\ pc' = "com"
    /\ UNCHANGED <<stopping, timedOut, connection, subscription, held, calls, handoff,
                   incomplete, broker>>

CanSubmit == accepting /\ Len(commands) < CommandCapacity

\* _submit
Submit(c) ==
    /\ CanSubmit
    /\ commands' = Append(commands, c) /\ submitted' = submitted + 1
    /\ UNCHANGED <<control, connection, subscription, held, processed, failing, handoff,
                   incomplete, broker>>

\* The caller's time-out cancels a command that is not running yet.
TimeOut(i) ==
    /\ ~commands[i].cancelled
    /\ commands' = [commands EXCEPT ![i].cancelled = TRUE]
    /\ UNCHANGED <<control, connection, subscription, held, processed, failing, submitted,
                   handoff, incomplete, broker>>

TimeOutFailing ==
    /\ failing # <<>> /\ ~failing[1].cancelled
    /\ failing' = <<[failing[1] EXCEPT !.cancelled = TRUE]>>
    /\ UNCHANGED <<control, connection, subscription, held, commands, processed, submitted,
                   handoff, incomplete, broker>>

\* start and wait_until_ready see their time-out under the lock ...
GiveUp ==
    /\ pc # "none" /\ state \notin Ready \cup Failed
    /\ timedOut' = TRUE
    /\ UNCHANGED <<pc, state, accepting, stopping, connection, subscription, held, calls,
                   handoff, incomplete, broker>>

\* ... and call _fatal after they released it.
GiveUpFatal ==
    /\ timedOut /\ timedOut' = FALSE
    /\ Fatal
    /\ UNCHANGED <<pc, connection, subscription, held, calls, handoff, broker>>

Stop ==
    /\ state # "stopped" /\ ~(stopping /\ timer.connected = "off" /\ timer.stocks_ready = "off")
    /\ accepting' = FALSE /\ stopping' = TRUE
    /\ timer' = [timer EXCEPT !.connected = "off", !.stocks_ready = "off"]
    /\ state' = IF state = "new" THEN "stopped" ELSE state
    /\ UNCHANGED <<pc, timedOut, generation, attempts, attempt, subscription, held, calls,
                   handoff, incomplete, broker>>

Elapse(t) ==
    /\ timer[t] = "pending" /\ timer' = [timer EXCEPT ![t] = "due"]
    /\ UNCHANGED <<control, generation, attempts, attempt, subscription, held, calls,
                   handoff, incomplete, broker>>

-----------------------------------------------------------------------------
(* The broker's callbacks, on the STA thread.  A sink is bound to the        *)
(* generation it was registered for; the one before may still fire.          *)

Sinks == {generation} \cup {g \in {generation - 1} : g >= 0}

Connected ==
    /\ state' = "connected"
    /\ timer' = [timer EXCEPT !.connected = "off",
                              !.stocks_ready = IF state = "reconnecting" THEN "pending" ELSE @]
    /\ UNCHANGED <<attempts, actual, resubscribe>>

StocksReady ==
    /\ state' = "stocks_ready" /\ attempts' = 0
    /\ resubscribe' = [generation |-> generation, attempts |-> 0]
    /\ timer' = [timer EXCEPT !.connected = "off", !.stocks_ready = "off",
                              !.resubscribe = "due"]
    /\ UNCHANGED actual

\* Fault: what was subscribed is believed to survive the connection.
DisconnectedKeepingActual ==
    /\ state' = "reconnecting"
    /\ attempts' = IF timer.stocks_ready = "off" THEN 0 ELSE attempts
    /\ timer' = [timer EXCEPT !.connected = "off", !.stocks_ready = "off",
                              !.reconnect = "pending"]
    /\ UNCHANGED <<actual, resubscribe>>

\* DISCONNECTED lasts no longer than the lock is held.
Disconnected ==
    /\ state' = "reconnecting" /\ actual' = {}
    /\ attempts' = IF timer.stocks_ready = "off" THEN 0 ELSE attempts
    /\ timer' = [timer EXCEPT !.connected = "off", !.stocks_ready = "off",
                              !.reconnect = "pending"]
    /\ UNCHANGED resubscribe

\* The adapter's part of _handle_connection.
HandleConnection(kind) ==
    \/ kind = 3001 /\ state \in {"entering_monitor", "reconnecting"} /\ Connected
    \/ kind = 3003 /\ state = "connected" /\ StocksReady
    \/ kind = 3002 /\ state \in {"connected"} \cup Ready /\ Disconnected
    \/ /\ \/ kind = 3001 /\ state \notin {"entering_monitor", "reconnecting"}
          \/ kind = 3003 /\ state # "connected"
          \/ kind = 3002 /\ state \notin {"connected"} \cup Ready
       /\ UNCHANGED <<state, attempts, timer, actual, resubscribe>>

\* OnConnection of the sink of generation g.
OnConnection(g, kind) ==
    /\ pc \in Dispatching
    /\ IF g # generation
       THEN UNCHANGED <<state, attempts, timer, actual, resubscribe, broker>>
       ELSE /\ callbacks < MaxCallbacks /\ callbacks' = callbacks + 1
            /\ HandleConnection(kind)
            /\ \/ kind = 3001 /\ UNCHANGED <<live, announced>>
               \/ kind = 3002 /\ live' = {} /\ announced' = FALSE
               \/ kind = 3003 /\ announced' = TRUE /\ UNCHANGED live
    /\ UNCHANGED <<pc, accepting, stopping, timedOut, generation, attempt, desired, held,
                   calls, handoff, incomplete>>

\* Quotes come while something is streamed, or late: from the last connection or after the
\* subscriptions are cancelled.
QuoteMayCome(g) == g < generation \/ live # {} \/ pc = "final_pump"

\* OnNotifyQuote: the notification waits for its lookup; one beyond the queue takes the
\* overflow slot, a second one is fatal.
OnNotifyQuote(g) ==
    /\ pc \in Dispatching /\ QuoteMayCome(g) /\ g > 0 /\ callbacks < MaxCallbacks
    /\ callbacks' = callbacks + 1 /\ owed' = owed + 1
    /\ \/ /\ Len(quotes) < QuoteCapacity
          /\ quotes' = Append(quotes, g) /\ Stays /\ UNCHANGED <<overflow, incomplete>>
       \/ /\ Len(quotes) = QuoteCapacity /\ overflow = <<>>
          /\ overflow' = <<g>> /\ incomplete' = TRUE /\ Stays /\ UNCHANGED quotes
       \/ /\ Len(quotes) = QuoteCapacity /\ overflow # <<>>
          /\ Fatal /\ UNCHANGED <<quotes, overflow>>
    /\ UNCHANGED <<pc, timedOut, connection, subscription, held, calls, live, announced>>

\* _invoke: a handler that raises is fatal, of whatever generation its sink is.
CallbackFails ==
    /\ pc \in Dispatching /\ callbacks < MaxCallbacks
    /\ callbacks' = callbacks + 1
    /\ Fatal
    /\ UNCHANGED <<pc, timedOut, connection, subscription, held, calls, handoff, live, announced>>

-----------------------------------------------------------------------------
(* _run: initialization *)

Boots(step, next) ==
    /\ pc = step
    /\ \/ /\ held' = held \cup {step}
          /\ \/ ~stopping /\ pc' = next /\ Stays /\ UNCHANGED incomplete
             \/ stopping /\ pc' = "cleanup" /\ Fatal
       \/ pc' = "cleanup" /\ Fatal /\ UNCHANGED held
    /\ UNCHANGED <<timedOut, connection, subscription, calls, handoff, broker>>

\* A caller that gave up since the last look at the stop event has left ERROR, from which
\* _transition_locked refuses COM_READY: it raises, and the handler of _run calls _fatal.
ComReady ==
    /\ pc = "com_ready"
    /\ \/ /\ "com_ready" \in Transitions[state]
          /\ Goes("com_ready") /\ pc' = "commands" /\ UNCHANGED incomplete
       \/ "com_ready" \notin Transitions[state] /\ Fatal /\ pc' = "cleanup"
    /\ UNCHANGED <<timedOut, connection, subscription, held, calls, handoff, broker>>

-----------------------------------------------------------------------------
(* The commands.  Only the callers' _fatal and stop can come between the     *)
(* locked parts of a subscription, and they commute with them.               *)

\* The first locked part of _login; in any other state the command raises.
LoginBegins ==
    /\ \/ state = "com_ready" /\ Goes("logging_in") /\ pc' = "login"
       \/ state # "com_ready" /\ Stays /\ UNCHANGED pc
    /\ UNCHANGED <<connection, subscription, held, incomplete, live, announced>>

\* The first half of _enter_monitor: the sink of the new generation replaces the old one.
EnterBegins(next) ==
    /\ generation' = generation + 1 /\ actual' = {}
    /\ resubscribe' = [resubscribe EXCEPT !.generation = 0]
    /\ live' = {} /\ announced' = FALSE
    /\ pc' = next

EnterMonitor ==
    /\ UNCHANGED <<attempts, attempt, timer, desired>>
    /\ \/ /\ state = "logged_in" /\ Goes("entering_monitor") /\ EnterBegins("enter")
          /\ held' = held \cup {"monitor", "events"} /\ UNCHANGED incomplete
       \/ /\ state = "logged_in" /\ Fatal /\ EnterBegins(pc)
          /\ held' = (held \cup {"monitor"}) \ {"events"}
       \/ /\ state # "logged_in" /\ Stays
          /\ UNCHANGED <<pc, held, incomplete, generation, actual, resubscribe, live, announced>>

\* _subscribe: while the stocks are ready what is missing of the kind is requested at once.
Subscribe(kind, items) ==
    LET wanted == desired \cup items
        missing == {i \in wanted \ actual : i[1] = kind}
        again == [generation |-> generation, attempts |-> 0]
    IN  /\ desired' = wanted
        /\ \/ /\ state \notin Ready \/ missing = {}
              /\ Stays /\ UNCHANGED <<actual, resubscribe, timer, incomplete, live>>
           \/ /\ state \in Ready /\ missing # {}
              /\ actual' = actual \cup missing /\ live' = live \cup missing
              /\ Goes(Refresh("stocks_ready", wanted, actual'))
              /\ resubscribe' = again /\ timer' = [timer EXCEPT !.resubscribe = "due"]
              /\ UNCHANGED incomplete
           \/ /\ state \in Ready /\ missing # {}
              /\ ResubscribeFails("stocks_ready", again)
              /\ UNCHANGED <<actual, live>>
        /\ UNCHANGED <<pc, generation, attempts, attempt, held, announced>>

\* _unsubscribe
Unsubscribe(items) ==
    /\ \/ /\ items \cap actual = {} /\ desired' = desired \ items
          /\ Stays /\ UNCHANGED <<actual, resubscribe, timer, live>>
       \/ /\ items \cap actual # {}
          /\ desired' = desired \ items /\ actual' = actual \ items /\ live' = live \ items
          /\ IF desired' = {}
             THEN /\ resubscribe' = [resubscribe EXCEPT !.generation = 0]
                  /\ timer' = [timer EXCEPT !.resubscribe = "off"]
             ELSE UNCHANGED <<resubscribe, timer>>
          /\ Goes(IF state = "subscribed" /\ desired' = {} THEN "stocks_ready"
                  ELSE Refresh(state, desired', actual'))
       \/ /\ items \cap actual # {}      \* the broker refuses
          /\ Stays /\ UNCHANGED <<subscription, timer, live>>
    /\ UNCHANGED <<pc, generation, attempts, attempt, held, incomplete, announced>>

\* _execute
Execute(c) ==
    \/ c.op = "login" /\ LoginBegins
    \/ c.op = "enter_monitor" /\ EnterMonitor
    \/ c.op = "subscribe" /\ \E kind \in Kinds : c.items \subseteq {kind} \X Symbols
                                                 /\ Subscribe(kind, c.items)
    \/ c.op = "unsubscribe" /\ Unsubscribe(c.items)

\* _process_commands: a cancelled command is skipped ...
SkipCommand ==
    /\ pc = "commands" /\ ~stopping /\ processed < CommandBatch
    /\ commands # <<>> /\ Head(commands).cancelled
    /\ commands' = Tail(commands)
    /\ UNCHANGED <<control, connection, subscription, held, processed, failing, submitted,
                   handoff, incomplete, broker>>

\* ... and a batch of the others executed.
RunCommand ==
    /\ pc = "commands" /\ ~stopping /\ processed < CommandBatch
    /\ commands # <<>> /\ ~Head(commands).cancelled
    /\ commands' = Tail(commands) /\ processed' = processed + 1
    /\ Execute(Head(commands))
    /\ UNCHANGED <<timedOut, failing, submitted, handoff, callbacks>>

CommandsDone ==
    /\ pc = "commands" /\ (stopping \/ commands = <<>> \/ processed = CommandBatch)
    /\ pc' = IF stopping THEN "cleanup" ELSE "pump"
    /\ processed' = 0
    /\ UNCHANGED <<state, accepting, stopping, timedOut, connection, subscription, held,
                   commands, failing, submitted, handoff, incomplete, broker>>

\* The broker's answer to a login, and the second locked part.  LOGGED_IN is refused if a
\* caller has left ERROR meanwhile: that caller of login gets the exception.
LoginReturns ==
    /\ pc = "login" /\ pc' = "commands"
    /\ \/ "logged_in" \in Transitions[state] /\ Goes("logged_in") /\ UNCHANGED incomplete
       \/ "logged_in" \notin Transitions[state] /\ Stays /\ UNCHANGED incomplete
       \/ Fatal
    /\ UNCHANGED <<timedOut, connection, subscription, held, calls, handoff, broker>>

\* The second half of _enter_monitor, for a command.
EnterReturns ==
    /\ pc = "enter" /\ pc' = "commands"
    /\ (Stays /\ UNCHANGED incomplete) \/ Fatal
    /\ UNCHANGED <<timedOut, connection, subscription, held, calls, handoff, broker>>

-----------------------------------------------------------------------------
(* The rest of a turn of _run *)

\* pump_waiting_messages returns, or fails.
Pumped ==
    /\ pc = "pump"
    /\ \/ pc' = (IF stopping THEN "cleanup" ELSE "drain") /\ Stays /\ UNCHANGED incomplete
       \/ pc' = "cleanup" /\ Fatal
    /\ UNCHANGED <<timedOut, connection, subscription, held, calls, handoff, broker>>

\* _drain_sta_quotes: the overflow is reported, the others looked up.
Drain ==
    /\ pc = "drain" /\ pc' = "resubscribe"
    /\ Enrich(quotes) /\ quotes' = <<>> /\ overflow' = <<>>
    /\ UNCHANGED <<state, accepting, stopping, timedOut, connection, subscription, held,
                   calls, broker>>

Resubscribable ==
    /\ resubscribe.generation = generation /\ state \in Ready /\ timer.resubscribe = "due"

\* _run_resubscribe: the quotes that are missing, then the ticks.
Resubscribe ==
    LET missing == desired \ actual
        quotesOnly == {i \in missing : i[1] = "quotes"}
        none == [resubscribe EXCEPT !.generation = 0]
    IN  /\ pc = "resubscribe" /\ pc' = "watchdog"
        /\ \/ ~Resubscribable /\ Stays /\ UNCHANGED <<actual, resubscribe, timer, incomplete, live>>
           \/ /\ Resubscribable
              /\ \E accepted \in {missing, quotesOnly, {}} :
                    /\ actual' = actual \cup accepted /\ live' = live \cup accepted
                    /\ \/ /\ accepted = missing
                          /\ Goes(Refresh(state, desired, actual')) /\ resubscribe' = none
                          /\ timer' = [timer EXCEPT !.resubscribe = "off"]
                          /\ UNCHANGED incomplete
                       \/ /\ accepted # missing
                          /\ ResubscribeFails(Refresh(state, desired, actual'), resubscribe)
        /\ UNCHANGED <<timedOut, generation, attempts, attempt, desired, held, calls, handoff,
                       announced, callbacks>>

\* Fault: a connection that never becomes ready is not watched.
ExpiredConnectedOnly == state = "reconnecting" /\ timer.connected = "due"

Expired ==
    \/ state = "reconnecting" /\ timer.connected = "due"
    \/ state = "connected" /\ timer.stocks_ready = "due"

\* _run_reconnect_watchdog
Watchdog ==
    LET off == [timer EXCEPT !.connected = "off", !.stocks_ready = "off"]
    IN  /\ pc = "watchdog" /\ pc' = "reconnect"
        /\ \/ ~Expired /\ Stays /\ UNCHANGED <<timer, incomplete>>
           \/ /\ Expired /\ attempts < MaxAttempts
              /\ Goes("reconnecting") /\ incomplete' = TRUE
              /\ timer' = [off EXCEPT !.reconnect = "due"]
           \/ Expired /\ attempts >= MaxAttempts /\ Fatal /\ timer' = off
        /\ UNCHANGED <<timedOut, generation, attempts, attempt, subscription, held, calls,
                       handoff, broker>>

\* _run_reconnect: nothing is due, ...
NoReconnect ==
    /\ pc = "reconnect" /\ pc' = "commands"
    /\ state # "reconnecting" \/ timer.reconnect # "due" \/ stopping
    /\ UNCHANGED <<state, accepting, stopping, timedOut, connection, subscription, held,
                   calls, handoff, incomplete, broker>>

Reconnecting == pc = "reconnect" /\ state = "reconnecting" /\ timer.reconnect = "due" /\ ~stopping

\* ... the monitor cannot be left, ...
LeaveFails ==
    /\ Reconnecting /\ "monitor" \in held /\ pc' = "commands"
    /\ ReconnectFails(attempts)
    /\ UNCHANGED <<timedOut, generation, attempt, subscription, held, calls, handoff, broker>>

\* ... the new sink cannot be registered, ...
RegisterFails ==
    /\ Reconnecting /\ EnterBegins("commands")
    /\ held' = (held \cup {"monitor"}) \ {"events"}
    /\ ReconnectFails(attempts)
    /\ UNCHANGED <<timedOut, attempt, desired, calls, handoff, callbacks>>

\* ... or the monitor is entered anew.
Reconnect ==
    /\ Reconnecting /\ EnterBegins("reenter")
    /\ held' = held \cup {"monitor", "events"} /\ attempt' = attempts
    /\ UNCHANGED <<state, accepting, stopping, timedOut, attempts, timer, desired, calls,
                   handoff, incomplete, callbacks>>

ReenterFails ==
    /\ pc = "reenter" /\ pc' = "commands" /\ ReconnectFails(attempt) /\ attempt' = 0
    /\ UNCHANGED <<timedOut, generation, subscription, held, calls, handoff, broker>>

\* A stop in the middle of enter_monitor is taken for a failure of the thread.
ReenterReturns ==
    /\ pc = "reenter" /\ attempt' = 0
    /\ \/ stopping /\ Fatal /\ pc' = "cleanup" /\ UNCHANGED <<attempts, timer>>
       \/ /\ ~stopping /\ Stays /\ pc' = "commands" /\ attempts' = attempt + 1
          /\ timer' = [timer EXCEPT !.reconnect = "off",
                          !.connected = IF state = "reconnecting" THEN "pending" ELSE @]
          /\ UNCHANGED incomplete
    /\ UNCHANGED <<timedOut, generation, subscription, held, calls, handoff, broker>>

-----------------------------------------------------------------------------
(* _cleanup *)

Cleanup ==
    /\ pc = "cleanup" /\ pc' = "fail_pending"
    /\ accepting' = FALSE /\ state' = "stopping"
    /\ timer' = [t \in Timers |-> IF t = "resubscribe" THEN timer[t] ELSE "off"]
    /\ \/ "objects" \in held /\ DrainAll /\ UNCHANGED stopping
       \/ /\ "objects" \notin held /\ UNCHANGED <<quotes, overflow, owed>>
          /\ incomplete' = (incomplete \/ quotes \o overflow # <<>>) /\ UNCHANGED stopping
    /\ UNCHANGED <<timedOut, generation, attempts, attempt, subscription, held, calls,
                   broker>>

\* _fail_pending looks at a future ...
FailPending ==
    /\ pc = "fail_pending"
    /\ \/ commands = <<>> /\ pc' = "cancel" /\ UNCHANGED <<commands, failing>>
       \/ /\ commands # <<>> /\ commands' = Tail(commands)
          /\ IF Head(commands).cancelled THEN UNCHANGED <<pc, failing>>
             ELSE pc' = "fail_set" /\ failing' = <<Head(commands)>>
    /\ UNCHANGED <<state, accepting, stopping, timedOut, connection, subscription, held,
                   processed, submitted, handoff, incomplete, broker>>

\* ... and fails it, which raises if the caller cancelled it in between: the exception
\* leaves _cleanup and ends the thread.
FailSet ==
    /\ pc = "fail_set" /\ failing' = <<>>
    /\ pc' = IF failing[1].cancelled THEN "crashed" ELSE "fail_pending"
    /\ UNCHANGED <<state, accepting, stopping, timedOut, connection, subscription, held,
                   commands, processed, submitted, handoff, incomplete, broker>>

FinalPhase == IF actual # {} /\ "monitor" \in held THEN "final_pump" ELSE "release"

\* The subscriptions are cancelled, or cannot be.
Cancel ==
    /\ pc = "cancel" /\ pc' = FinalPhase /\ actual' = {}
    /\ \/ live' = live \ actual /\ UNCHANGED incomplete
       \/ actual # {} /\ incomplete' = TRUE /\ UNCHANGED live
    /\ UNCHANGED <<state, accepting, stopping, timedOut, connection, desired, resubscribe,
                   held, calls, handoff, announced, callbacks>>

\* The messages pumped meanwhile are drained too.
FinalPump ==
    /\ pc = "final_pump" /\ pc' = "release" /\ DrainAll
    /\ UNCHANGED <<state, accepting, stopping, timedOut, connection, subscription, held,
                   calls, broker>>

\* Monitor, events, objects and COM are released; a failure marks the session.
Release ==
    /\ pc = "release" /\ pc' = "ended" /\ held' = {} /\ live' = {}
    /\ Goes("stopped") /\ incomplete' \in {incomplete, incomplete \/ held # {}}
    /\ UNCHANGED <<timedOut, connection, subscription, calls, handoff, announced, callbacks>>

-----------------------------------------------------------------------------

Callers ==
    \/ Start \/ \E k \in DOMAIN Script : k = submitted + 1 /\ \E c \in Script[k] : Submit(c)
    \/ (\E i \in DOMAIN commands : TimeOut(i)) \/ TimeOutFailing
    \/ GiveUp \/ GiveUpFatal \/ Stop

Callbacks ==
    \/ \E g \in Sinks :
           (\E kind \in {3001, 3002, 3003} : OnConnection(g, kind)) \/ OnNotifyQuote(g)
    \/ CallbackFails

Sta ==
    \/ Boots("com", "objects") \/ Boots("objects", "events") \/ Boots("events", "com_ready")
    \/ ComReady \/ SkipCommand \/ RunCommand \/ CommandsDone \/ LoginReturns \/ EnterReturns
    \/ Pumped \/ Drain \/ Resubscribe \/ Watchdog
    \/ NoReconnect \/ LeaveFails \/ RegisterFails \/ Reconnect \/ ReenterFails \/ ReenterReturns
    \/ Cleanup \/ FailPending \/ FailSet \/ Cancel \/ FinalPump \/ Release

Next == Callers \/ Callbacks \/ Sta \/ \E t \in Timers : Elapse(t)

\* The STA thread runs and time passes.
Fairness == WF_vars(Sta) /\ \A t \in Timers : WF_vars(Elapse(t))

Spec == Init /\ [][Next]_vars /\ Fairness

-----------------------------------------------------------------------------
(* Properties *)

\* SUBSCRIBED tells the truth through every reconnection: the broker said of this
\* connection that its stocks are ready and streams everything that is desired.
SubscribedIsLive ==
    state = "subscribed" => announced /\ desired # {} /\ desired \subseteq live

\* Nothing is lost in silence: when the thread has ended no caller is left waiting for a
\* queued command, and if the session is not marked incomplete every notification the
\* broker delivered was looked up and published.
EndsAccounted == pc = "ended" => commands = <<>> /\ (~incomplete => owed = 0)

\* Where the thread asks for a state without having looked at the present one since
\* another thread could change it.
Asks == [com_ready |-> "com_ready", login |-> "logged_in"]

\* Every change of state is one that _TRANSITIONS lists.  COM_READY and LOGGED_IN, which the
\* STA thread asks for after a call out of the lock, can be refused, which raises; but only
\* in ERROR, when a caller's _fatal came in between: the adapter is stopping by then, takes
\* no commands, has marked its session incomplete, and stays in ERROR.
RefusedInErrorOnly ==
    [][/\ state' # state =>
             \/ state' \in Transitions[state]
             \/ \E u \in Passing \cap Transitions[state] : state' \in Transitions[u]
       /\ \A at \in DOMAIN Asks :
             pc = at /\ pc' # at /\ Asks[at] \notin Transitions[state] =>
                /\ state = "error" /\ state' = "error"
                /\ stopping /\ ~accepting /\ incomplete]_vars

\* A lost connection is ready again or the adapter's thread ends: no callback that does
\* not come can leave it between the two.
ReconnectEnds ==
    state = "reconnecting" ~> (state \in Ready \/ pc \in {"ended", "crashed"})

\* "Beyond the reconnect retry policy the adapter goes to ERROR."
RetryPolicyKept == attempts > MaxAttempts => state \in Failed
=============================================================================
