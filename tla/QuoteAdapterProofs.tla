-------------------------- MODULE QuoteAdapterProofs --------------------------
(***************************************************************************)
(* What the STA thread of the quote adapter never does, for every set of   *)
(* symbols, script of commands, capacity and retry policy: the state it    *)
(* reports, the transitions it asks for and the account of the broker's    *)
(* notifications when it ends.                                             *)
(***************************************************************************)
EXTENDS QuoteAdapter, FiniteSetTheorems, TLAPS

-----------------------------------------------------------------------------
(* The inductive invariant *)

\* The phases of _cleanup, and those after _fail_pending.
Closing == {"fail_pending", "fail_set", "cancel", "final_pump", "release", "crashed"}
AfterPending == {"cancel", "final_pump", "release", "ended"}

Points ==
    {"none", "com", "objects", "events", "com_ready", "commands", "login", "enter", "pump", "drain",
     "resubscribe", "watchdog", "reconnect", "reenter", "cleanup", "ended"} \cup Closing

Lasting ==
    {"new", "starting", "com_ready", "logging_in", "logged_in", "entering_monitor", "connected",
     "stocks_ready", "subscribed", "reconnecting", "error", "stopping", "stopped"}

Typed ==
    /\ pc \in Points /\ state \in Lasting
    /\ incomplete \in BOOLEAN /\ generation \in Nat
    /\ quotes \in Seq(Nat) /\ overflow \in Seq(Nat)

\* The thread exists exactly between start and the end of _cleanup, which runs in STOPPING
\* and accepts no command.  Until it has asked for COM_READY or LOGGED_IN only an error has
\* changed the state it asks from, and an adapter in ERROR stops, incomplete.
PhaseFits ==
    /\ state = "new" => pc = "none"
    /\ pc = "none" => state \in {"new", "stopped"} /\ ~timedOut
    /\ state = "stopped" => pc \in {"none", "ended"}
    /\ pc = "ended" => state = "stopped"
    /\ pc \in Closing => state = "stopping"
    /\ pc \in Closing \cup {"ended"} => ~accepting
    /\ pc \in AfterPending => commands = <<>>
    /\ pc \in Booting => state \in {"starting", "error"}
    /\ pc = "login" => state \in {"logging_in", "error"}
    /\ state = "error" => stopping /\ ~accepting /\ incomplete

\* While the stocks are ready the broker said so of this connection and streams what the
\* adapter believes to be subscribed; without a ready connection it believes in nothing.
SubscriptionFits ==
    /\ state \in Ready => announced /\ actual \subseteq live
    /\ state \notin Ready \cup Failed => actual = {}
    /\ state = "subscribed" => desired # {} /\ desired \subseteq actual

\* Until the session is marked incomplete, what is owed is what waits for its lookup, and
\* nothing waits once a phase has drained it.
Drained == {"fail_pending", "fail_set", "cancel", "release", "ended", "crashed"}

AccountFits ==
    /\ ~incomplete => overflow = <<>> /\ owed = Len(quotes)
    /\ pc \in Drained /\ ~incomplete => quotes = <<>>

AdapterInv == Typed /\ PhaseFits /\ SubscriptionFits /\ AccountFits

\* Every step keeps the phase and the state of the adapter in agreement.
LEMMA PhaseStep ==
    ASSUME Typed, PhaseFits, [Next]_vars
    PROVE  PhaseFits'
<1>1. CASE Start
  BY <1>1 DEF Start, Stays, control, connection, subscription, calls, handoff, broker,
       Typed, PhaseFits, Booting, Points, Closing, AfterPending, Lasting, Ready, Failed
<1>2. CASE \E k \in DOMAIN Script : k = submitted + 1 /\ \E c \in Script[k] : Submit(c)
  BY <1>2 DEF Submit, CanSubmit, control, connection, subscription, calls, handoff,
       broker, Typed, PhaseFits, Booting, Points, Closing, AfterPending, Lasting, Ready, Failed
<1>3. CASE \E i \in DOMAIN commands : TimeOut(i)
  BY <1>3 DEF TimeOut, control, connection, subscription, calls, handoff, broker, Typed,
       PhaseFits, Booting, Points, Closing, AfterPending, Lasting, Ready, Failed
<1>4. CASE TimeOutFailing
  BY <1>4 DEF TimeOutFailing, control, connection, subscription, calls, handoff, broker,
       Typed, PhaseFits, Booting, Points, Closing, AfterPending, Lasting, Ready, Failed
<1>5. CASE GiveUp
  BY <1>5 DEF GiveUp, control, connection, subscription, calls, handoff, broker, Typed,
       PhaseFits, Booting, Points, Closing, AfterPending, Lasting, Ready, Failed
<1>6. CASE GiveUpFatal
  BY <1>6 DEF GiveUpFatal, Fatal, FatalFrom, control, connection, subscription, calls,
       handoff, broker, Typed, PhaseFits, Booting, Points, Closing, AfterPending, Lasting, Ready,
       Failed
<1>7. CASE Stop
  BY <1>7 DEF Stop, control, connection, subscription, calls, handoff, broker, Typed,
       PhaseFits, Booting, Points, Closing, AfterPending, Lasting, Ready, Failed
<1>8. CASE \E g \in Sinks : \E kind \in {3001, 3002, 3003} : OnConnection(g, kind)
  BY <1>8 DEF OnConnection, HandleConnection, Connected, StocksReady, Disconnected,
       Dispatching, control, connection, subscription, calls, handoff, broker, Typed,
       PhaseFits, Booting, Points, Closing, AfterPending, Lasting, Ready, Failed
<1>9. CASE \E g \in Sinks : OnNotifyQuote(g)
  BY <1>9 DEF OnNotifyQuote, Sinks, Dispatching, Stays, Fatal, FatalFrom, control,
       connection, subscription, calls, handoff, broker, Typed, PhaseFits, Booting, Points,
       Closing, AfterPending, Lasting, Ready, Failed
<1>10. CASE CallbackFails
  BY <1>10 DEF CallbackFails, Dispatching, Fatal, FatalFrom, control, connection,
       subscription, calls, handoff, broker, Typed, PhaseFits, Booting, Points, Closing,
       AfterPending, Lasting, Ready, Failed
<1>11. CASE Boots("com", "objects")
  BY <1>11 DEF Boots, Stays, Fatal, FatalFrom, control, connection, subscription, calls,
       handoff, broker, Typed, PhaseFits, Booting, Points, Closing, AfterPending, Lasting, Ready,
       Failed
<1>12. CASE Boots("objects", "events")
  BY <1>12 DEF Boots, Stays, Fatal, FatalFrom, control, connection, subscription, calls,
       handoff, broker, Typed, PhaseFits, Booting, Points, Closing, AfterPending, Lasting, Ready,
       Failed
<1>13. CASE Boots("events", "com_ready")
  BY <1>13 DEF Boots, Stays, Fatal, FatalFrom, control, connection, subscription, calls,
       handoff, broker, Typed, PhaseFits, Booting, Points, Closing, AfterPending, Lasting, Ready,
       Failed
<1>14. CASE ComReady
  BY <1>14 DEF ComReady, Goes, Transitions, Fatal, FatalFrom, control, connection,
       subscription, calls, handoff, broker, Typed, PhaseFits, Booting, Points, Closing,
       AfterPending, Lasting, Ready, Failed
<1>15. CASE SkipCommand
  BY <1>15 DEF SkipCommand, control, connection, subscription, calls, handoff, broker,
       Typed, PhaseFits, Booting, Points, Closing, AfterPending, Lasting, Ready, Failed
<1>16. CASE RunCommand
  <2>1. CASE LoginBegins
    BY <1>16, <2>1 DEF RunCommand, LoginBegins, Goes, Stays, control,
         connection, subscription, calls, handoff, broker, Typed, PhaseFits, Booting, Points,
         Closing, AfterPending, Lasting, Ready, Failed
  <2>2. CASE EnterMonitor
    BY <1>16, <2>2 DEF RunCommand, EnterMonitor, EnterBegins, Goes, Stays, Fatal,
         FatalFrom, control, connection, subscription, calls, handoff, broker, Typed,
         PhaseFits, Booting, Points, Closing, AfterPending, Lasting, Ready, Failed
  <2>3. CASE \E kind \in Kinds : /\ Head(commands).items \subseteq {kind} \X Symbols
       /\ Subscribe(kind, Head(commands).items)
    BY <1>16, <2>3 DEF RunCommand, Subscribe, ResubscribeFails, Refresh, Goes, Stays,
         FatalFrom, control, connection, subscription, calls, handoff, broker, Typed,
         PhaseFits, Booting, Points, Closing, AfterPending, Lasting, Ready, Failed
  <2>4. CASE Unsubscribe(Head(commands).items)
    BY <1>16, <2>4 DEF RunCommand, Unsubscribe, Refresh, Goes, Stays, control, connection,
         subscription, calls, handoff, broker, Typed, PhaseFits, Booting, Points, Closing,
         AfterPending, Lasting, Ready, Failed
  <2> QED BY <1>16, <2>1, <2>2, <2>3, <2>4 DEF RunCommand, Execute
<1>17. CASE CommandsDone
  BY <1>17 DEF CommandsDone, control, connection, subscription, calls, handoff, broker,
       Typed, PhaseFits, Booting, Points, Closing, AfterPending, Lasting, Ready, Failed
<1>18. CASE EnterReturns
  BY <1>18 DEF EnterReturns, Stays, Fatal, FatalFrom, control, connection, subscription,
       calls, handoff, broker, Typed, PhaseFits, Booting, Points, Closing, AfterPending, Lasting,
       Ready, Failed
<1>19. CASE Pumped
  BY <1>19 DEF Pumped, Stays, Fatal, FatalFrom, control, connection, subscription, calls,
       handoff, broker, Typed, PhaseFits, Booting, Points, Closing, AfterPending, Lasting, Ready,
       Failed
<1>20. CASE Drain
  BY <1>20 DEF Drain, Enrich, control, connection, subscription, calls, handoff, broker,
       Typed, PhaseFits, Booting, Points, Closing, AfterPending, Lasting, Ready, Failed
<1>21. CASE Resubscribe
  BY <1>21 DEF Resubscribe, Resubscribable, ResubscribeFails, Refresh, Goes, Stays,
       FatalFrom, control, connection, subscription, calls, handoff, broker, Typed,
       PhaseFits, Booting, Points, Closing, AfterPending, Lasting, Ready, Failed
<1>22. CASE Watchdog
  BY <1>22 DEF Watchdog, Expired, Goes, Stays, Fatal, FatalFrom, control, connection,
       subscription, calls, handoff, broker, Typed, PhaseFits, Booting, Points, Closing,
       AfterPending, Lasting, Ready, Failed
<1>23. CASE NoReconnect
  BY <1>23 DEF NoReconnect, control, connection, subscription, calls, handoff, broker,
       Typed, PhaseFits, Booting, Points, Closing, AfterPending, Lasting, Ready, Failed
<1>24. CASE LeaveFails
  BY <1>24 DEF LeaveFails, Reconnecting, ReconnectFails, Stays, Fatal, FatalFrom, control,
       connection, subscription, calls, handoff, broker, Typed, PhaseFits, Booting, Points,
       Closing, AfterPending, Lasting, Ready, Failed
<1>25. CASE RegisterFails
  BY <1>25 DEF RegisterFails, Reconnecting, EnterBegins, ReconnectFails, Stays, Fatal,
       FatalFrom, control, connection, subscription, calls, handoff, broker, Typed,
       PhaseFits, Booting, Points, Closing, AfterPending, Lasting, Ready, Failed
<1>26. CASE Reconnect
  BY <1>26 DEF Reconnect, Reconnecting, EnterBegins, control, connection, subscription,
       calls, handoff, broker, Typed, PhaseFits, Booting, Points, Closing, AfterPending, Lasting,
       Ready, Failed
<1>27. CASE ReenterFails
  BY <1>27 DEF ReenterFails, ReconnectFails, Stays, Fatal, FatalFrom, control, connection,
       subscription, calls, handoff, broker, Typed, PhaseFits, Booting, Points, Closing,
       AfterPending, Lasting, Ready, Failed
<1>28. CASE ReenterReturns
  BY <1>28 DEF ReenterReturns, Stays, Fatal, FatalFrom, control, connection, subscription,
       calls, handoff, broker, Typed, PhaseFits, Booting, Points, Closing, AfterPending, Lasting,
       Ready, Failed
<1>29. CASE Cleanup
  BY <1>29 DEF Cleanup, DrainAll, Enrich, control, connection, subscription, calls,
       handoff, broker, Typed, PhaseFits, Booting, Points, Closing, AfterPending, Lasting, Ready,
       Failed
<1>30. CASE FailPending
  BY <1>30 DEF FailPending, control, connection, subscription, calls, handoff, broker,
       Typed, PhaseFits, Booting, Points, Closing, AfterPending, Lasting, Ready, Failed
<1>31. CASE FailSet
  BY <1>31 DEF FailSet, control, connection, subscription, calls, handoff, broker, Typed,
       PhaseFits, Booting, Points, Closing, AfterPending, Lasting, Ready, Failed
<1>32. CASE Cancel
  BY <1>32 DEF Cancel, FinalPhase, control, connection, subscription, calls, handoff,
       broker, Typed, PhaseFits, Booting, Points, Closing, AfterPending, Lasting, Ready, Failed
<1>33. CASE FinalPump
  BY <1>33 DEF FinalPump, DrainAll, Enrich, control, connection, subscription, calls,
       handoff, broker, Typed, PhaseFits, Booting, Points, Closing, AfterPending, Lasting, Ready,
       Failed
<1>34. CASE Release
  BY <1>34 DEF Release, Goes, control, connection, subscription, calls, handoff, broker,
       Typed, PhaseFits, Booting, Points, Closing, AfterPending, Lasting, Ready, Failed
<1>35. CASE \E t \in Timers : Elapse(t)
  BY <1>35 DEF Elapse, control, connection, subscription, calls, handoff, broker, Typed,
       PhaseFits, Booting, Points, Closing, AfterPending, Lasting, Ready, Failed
<1>36. CASE UNCHANGED vars
  BY <1>36 DEF vars, control, connection, subscription, calls, handoff, broker, Typed,
       PhaseFits, Booting, Points, Closing, AfterPending, Lasting, Ready, Failed
<1>37. CASE LoginReturns
  BY <1>37 DEF LoginReturns, Goes, Transitions, Stays, Fatal, FatalFrom, control, connection, subscription,
       calls, handoff, broker, Typed, PhaseFits, Booting, Points, Closing, AfterPending, Lasting,
       Ready, Failed
<1> QED BY <1>1, <1>2, <1>3, <1>4, <1>5, <1>6, <1>7, <1>8, <1>9, <1>10, <1>11, <1>12,
     <1>13, <1>14, <1>15, <1>16, <1>17, <1>18, <1>19, <1>20, <1>21, <1>22, <1>23, <1>24,
     <1>25, <1>26, <1>27, <1>28, <1>29, <1>30, <1>31, <1>32, <1>33, <1>34, <1>35, <1>36,
     <1>37
     DEF Next, Callers, Callbacks, Sta

\* The change of state of a step is one that _TRANSITIONS lists, or two within one lock.
LegalChange ==
    state' # state =>
        \/ state' \in Transitions[state]
        \/ \E u \in Passing \cap Transitions[state] : state' \in Transitions[u]

\* What the adapter believes of its subscriptions stays true through every step.
LEMMA SubscriptionStep ==
    ASSUME Typed, PhaseFits, SubscriptionFits, [Next]_vars
    PROVE  SubscriptionFits'
<1>1. CASE Start
  BY <1>1 DEF Start, Stays, control, connection, subscription, calls, handoff, broker,
       Typed, PhaseFits, SubscriptionFits, Points, Closing, AfterPending, Lasting, Ready,
       Failed
<1>2. CASE \E k \in DOMAIN Script : k = submitted + 1 /\ \E c \in Script[k] : Submit(c)
  BY <1>2 DEF Submit, CanSubmit, control, connection, subscription, calls, handoff,
       broker, Typed, PhaseFits, SubscriptionFits, Points, Closing, AfterPending, Lasting,
       Ready, Failed
<1>3. CASE \E i \in DOMAIN commands : TimeOut(i)
  BY <1>3 DEF TimeOut, control, connection, subscription, calls, handoff, broker, Typed,
       PhaseFits, SubscriptionFits, Points, Closing, AfterPending, Lasting, Ready, Failed
<1>4. CASE TimeOutFailing
  BY <1>4 DEF TimeOutFailing, control, connection, subscription, calls, handoff, broker,
       Typed, PhaseFits, SubscriptionFits, Points, Closing, AfterPending, Lasting, Ready,
       Failed
<1>5. CASE GiveUp
  BY <1>5 DEF GiveUp, control, connection, subscription, calls, handoff, broker, Typed,
       PhaseFits, SubscriptionFits, Points, Closing, AfterPending, Lasting, Ready, Failed
<1>6. CASE GiveUpFatal
  BY <1>6 DEF GiveUpFatal, Fatal, FatalFrom, control, connection, subscription, calls,
       handoff, broker, Typed, PhaseFits, SubscriptionFits, Points, Closing, AfterPending,
       Lasting, Ready, Failed
<1>7. CASE Stop
  BY <1>7 DEF Stop, control, connection, subscription, calls, handoff, broker, Typed,
       PhaseFits, SubscriptionFits, Points, Closing, AfterPending, Lasting, Ready, Failed
<1>8. CASE \E g \in Sinks : \E kind \in {3001, 3002, 3003} : OnConnection(g, kind)
  <2>1. PICK g \in Sinks, kind \in {3001, 3002, 3003} : OnConnection(g, kind)
    BY <1>8
  <2>2. CASE g # generation
    BY <2>1, <2>2 DEF OnConnection, broker, Typed, PhaseFits, SubscriptionFits, Points,
         Closing, AfterPending, Lasting, Ready, Failed
  <2>3. CASE g = generation
    <3>1. /\ HandleConnection(kind) /\ UNCHANGED desired
          /\ \/ kind = 3001 /\ UNCHANGED <<live, announced>>
             \/ kind = 3002 /\ live' = {} /\ announced' = FALSE
             \/ kind = 3003 /\ announced' = TRUE /\ UNCHANGED live
      BY <2>1, <2>3 DEF OnConnection
    <3>2. CASE kind = 3001 /\ state \in {"entering_monitor", "reconnecting"} /\ Connected
      BY <3>1, <3>2 DEF Connected, Typed, PhaseFits, SubscriptionFits, Points, Closing,
           AfterPending, Lasting, Ready, Failed
    <3>3. CASE kind = 3003 /\ state = "connected" /\ StocksReady
      BY <3>1, <3>3 DEF StocksReady, Typed, PhaseFits, SubscriptionFits, Points, Closing,
           AfterPending, Lasting, Ready, Failed
    <3>4. CASE kind = 3002 /\ state \in {"connected"} \cup Ready /\ Disconnected
      BY <3>1, <3>4 DEF Disconnected, Typed, PhaseFits, SubscriptionFits, Points, Closing,
           AfterPending, Lasting, Ready, Failed
    <3>5. CASE /\ kind = 3002 => state \notin {"connected"} \cup Ready
               /\ UNCHANGED <<state, actual>>
      BY <3>1, <3>5 DEF Typed, PhaseFits, SubscriptionFits, Points, Closing, AfterPending,
           Lasting, Ready, Failed
    <3> QED BY <3>1, <3>2, <3>3, <3>4, <3>5, <2>1 DEF HandleConnection
  <2> QED BY <2>2, <2>3
<1>9. CASE \E g \in Sinks : OnNotifyQuote(g)
  BY <1>9 DEF OnNotifyQuote, Sinks, Dispatching, Stays, Fatal, FatalFrom, control,
       connection, subscription, calls, handoff, broker, Typed, PhaseFits,
       SubscriptionFits, Points, Closing, AfterPending, Lasting, Ready, Failed
<1>10. CASE CallbackFails
  BY <1>10 DEF CallbackFails, Dispatching, Fatal, FatalFrom, control, connection,
       subscription, calls, handoff, broker, Typed, PhaseFits, SubscriptionFits, Points,
       Closing, AfterPending, Lasting, Ready, Failed
<1>11. CASE Boots("com", "objects")
  BY <1>11 DEF Boots, Stays, Fatal, FatalFrom, control, connection, subscription, calls,
       handoff, broker, Typed, PhaseFits, SubscriptionFits, Points, Closing, AfterPending,
       Lasting, Ready, Failed
<1>12. CASE Boots("objects", "events")
  BY <1>12 DEF Boots, Stays, Fatal, FatalFrom, control, connection, subscription, calls,
       handoff, broker, Typed, PhaseFits, SubscriptionFits, Points, Closing, AfterPending,
       Lasting, Ready, Failed
<1>13. CASE Boots("events", "com_ready")
  BY <1>13 DEF Boots, Stays, Fatal, FatalFrom, control, connection, subscription, calls,
       handoff, broker, Typed, PhaseFits, SubscriptionFits, Points, Closing, AfterPending,
       Lasting, Ready, Failed
<1>14. CASE ComReady
  BY <1>14 DEF ComReady, Goes, Transitions, Fatal, FatalFrom, control, connection,
       subscription, calls, handoff, broker, Typed, PhaseFits, SubscriptionFits, Points,
       Closing, AfterPending, Lasting, Ready, Failed
<1>15. CASE SkipCommand
  BY <1>15 DEF SkipCommand, control, connection, subscription, calls, handoff, broker,
       Typed, PhaseFits, SubscriptionFits, Points, Closing, AfterPending, Lasting, Ready,
       Failed
<1>16. CASE RunCommand
  <2>1. CASE LoginBegins
    BY <1>16, <2>1 DEF RunCommand, LoginBegins, Goes, Stays, control,
         connection, subscription, calls, handoff, broker, Typed, PhaseFits,
         SubscriptionFits, Points, Closing, AfterPending, Lasting, Ready, Failed
  <2>2. CASE EnterMonitor
    BY <1>16, <2>2 DEF RunCommand, EnterMonitor, EnterBegins, Goes, Stays, Fatal,
         FatalFrom, control, connection, subscription, calls, handoff, broker, Typed,
         PhaseFits, SubscriptionFits, Points, Closing, AfterPending, Lasting, Ready,
         Failed
  <2>3. CASE \E kind \in Kinds : /\ Head(commands).items \subseteq {kind} \X Symbols
       /\ Subscribe(kind, Head(commands).items)
    BY <1>16, <2>3 DEF RunCommand, Subscribe, ResubscribeFails, Refresh, Goes, Stays,
         FatalFrom, control, connection, subscription, calls, handoff, broker, Typed,
         PhaseFits, SubscriptionFits, Points, Closing, AfterPending, Lasting, Ready,
         Failed
  <2>4. CASE Unsubscribe(Head(commands).items)
    BY <1>16, <2>4 DEF RunCommand, Unsubscribe, Refresh, Goes, Stays, control, connection,
         subscription, calls, handoff, broker, Typed, PhaseFits, SubscriptionFits, Points,
         Closing, AfterPending, Lasting, Ready, Failed
  <2> QED BY <1>16, <2>1, <2>2, <2>3, <2>4 DEF RunCommand, Execute
<1>17. CASE CommandsDone
  BY <1>17 DEF CommandsDone, control, connection, subscription, calls, handoff, broker,
       Typed, PhaseFits, SubscriptionFits, Points, Closing, AfterPending, Lasting, Ready,
       Failed
<1>18. CASE EnterReturns
  BY <1>18 DEF EnterReturns, Stays, Fatal, FatalFrom, control, connection, subscription,
       calls, handoff, broker, Typed, PhaseFits, SubscriptionFits, Points, Closing,
       AfterPending, Lasting, Ready, Failed
<1>19. CASE Pumped
  BY <1>19 DEF Pumped, Stays, Fatal, FatalFrom, control, connection, subscription, calls,
       handoff, broker, Typed, PhaseFits, SubscriptionFits, Points, Closing, AfterPending,
       Lasting, Ready, Failed
<1>20. CASE Drain
  BY <1>20 DEF Drain, Enrich, control, connection, subscription, calls, handoff, broker,
       Typed, PhaseFits, SubscriptionFits, Points, Closing, AfterPending, Lasting, Ready,
       Failed
<1>21. CASE Resubscribe
  BY <1>21 DEF Resubscribe, Resubscribable, ResubscribeFails, Refresh, Goes, Stays,
       FatalFrom, control, connection, subscription, calls, handoff, broker, Typed,
       PhaseFits, SubscriptionFits, Points, Closing, AfterPending, Lasting, Ready, Failed
<1>22. CASE Watchdog
  BY <1>22 DEF Watchdog, Expired, Goes, Stays, Fatal, FatalFrom, control, connection,
       subscription, calls, handoff, broker, Typed, PhaseFits, SubscriptionFits, Points,
       Closing, AfterPending, Lasting, Ready, Failed
<1>23. CASE NoReconnect
  BY <1>23 DEF NoReconnect, control, connection, subscription, calls, handoff, broker,
       Typed, PhaseFits, SubscriptionFits, Points, Closing, AfterPending, Lasting, Ready,
       Failed
<1>24. CASE LeaveFails
  BY <1>24 DEF LeaveFails, Reconnecting, ReconnectFails, Stays, Fatal, FatalFrom, control,
       connection, subscription, calls, handoff, broker, Typed, PhaseFits,
       SubscriptionFits, Points, Closing, AfterPending, Lasting, Ready, Failed
<1>25. CASE RegisterFails
  BY <1>25 DEF RegisterFails, Reconnecting, EnterBegins, ReconnectFails, Stays, Fatal,
       FatalFrom, control, connection, subscription, calls, handoff, broker, Typed,
       PhaseFits, SubscriptionFits, Points, Closing, AfterPending, Lasting, Ready, Failed
<1>26. CASE Reconnect
  BY <1>26 DEF Reconnect, Reconnecting, EnterBegins, control, connection, subscription,
       calls, handoff, broker, Typed, PhaseFits, SubscriptionFits, Points, Closing,
       AfterPending, Lasting, Ready, Failed
<1>27. CASE ReenterFails
  BY <1>27 DEF ReenterFails, ReconnectFails, Stays, Fatal, FatalFrom, control, connection,
       subscription, calls, handoff, broker, Typed, PhaseFits, SubscriptionFits, Points,
       Closing, AfterPending, Lasting, Ready, Failed
<1>28. CASE ReenterReturns
  BY <1>28 DEF ReenterReturns, Stays, Fatal, FatalFrom, control, connection, subscription,
       calls, handoff, broker, Typed, PhaseFits, SubscriptionFits, Points, Closing,
       AfterPending, Lasting, Ready, Failed
<1>29. CASE Cleanup
  BY <1>29 DEF Cleanup, DrainAll, Enrich, control, connection, subscription, calls,
       handoff, broker, Typed, PhaseFits, SubscriptionFits, Points, Closing, AfterPending,
       Lasting, Ready, Failed
<1>30. CASE FailPending
  BY <1>30 DEF FailPending, control, connection, subscription, calls, handoff, broker,
       Typed, PhaseFits, SubscriptionFits, Points, Closing, AfterPending, Lasting, Ready,
       Failed
<1>31. CASE FailSet
  BY <1>31 DEF FailSet, control, connection, subscription, calls, handoff, broker, Typed,
       PhaseFits, SubscriptionFits, Points, Closing, AfterPending, Lasting, Ready, Failed
<1>32. CASE Cancel
  BY <1>32 DEF Cancel, FinalPhase, control, connection, subscription, calls, handoff,
       broker, Typed, PhaseFits, SubscriptionFits, Points, Closing, AfterPending, Lasting,
       Ready, Failed
<1>33. CASE FinalPump
  BY <1>33 DEF FinalPump, DrainAll, Enrich, control, connection, subscription, calls,
       handoff, broker, Typed, PhaseFits, SubscriptionFits, Points, Closing, AfterPending,
       Lasting, Ready, Failed
<1>34. CASE Release
  BY <1>34 DEF Release, Goes, control, connection, subscription, calls, handoff, broker,
       Typed, PhaseFits, SubscriptionFits, Points, Closing, AfterPending, Lasting, Ready,
       Failed
<1>35. CASE \E t \in Timers : Elapse(t)
  BY <1>35 DEF Elapse, control, connection, subscription, calls, handoff, broker, Typed,
       PhaseFits, SubscriptionFits, Points, Closing, AfterPending, Lasting, Ready, Failed
<1>36. CASE UNCHANGED vars
  BY <1>36 DEF vars, control, connection, subscription, calls, handoff, broker, Typed,
       PhaseFits, SubscriptionFits, Points, Closing, AfterPending, Lasting, Ready, Failed
<1>37. CASE LoginReturns
  BY <1>37 DEF LoginReturns, Goes, Transitions, Stays, Fatal, FatalFrom, control, connection, subscription,
       calls, handoff, broker, Typed, PhaseFits, SubscriptionFits, Points, Closing,
       AfterPending, Lasting, Ready, Failed
<1> QED BY <1>1, <1>2, <1>3, <1>4, <1>5, <1>6, <1>7, <1>8, <1>9, <1>10, <1>11, <1>12,
     <1>13, <1>14, <1>15, <1>16, <1>17, <1>18, <1>19, <1>20, <1>21, <1>22, <1>23, <1>24,
     <1>25, <1>26, <1>27, <1>28, <1>29, <1>30, <1>31, <1>32, <1>33, <1>34, <1>35, <1>36,
     <1>37
     DEF Next, Callers, Callbacks, Sta

\* A connection is lost by way of DISCONNECTED, which is left under the same lock.
LEMMA LossIsLegal ==
    ASSUME state \in {"connected", "stocks_ready", "subscribed"}, state' = "reconnecting"
    PROVE  LegalChange
<1>1. "disconnected" \in Passing \cap Transitions[state]
  BY DEF Passing, Transitions
<1>2. state' \in Transitions["disconnected"]
  BY DEF Transitions
<1> QED BY <1>1, <1>2 DEF LegalChange

\* No step asks for a state that _transition_locked would refuse.
LEMMA LegalStep ==
    ASSUME Typed, PhaseFits, [Next]_vars
    PROVE  LegalChange
<1>1. CASE Start
  BY <1>1 DEF Start, Stays, control, connection, subscription, calls, handoff, broker,
       Typed, PhaseFits, LegalChange, Transitions, Passing, Points, Closing, Lasting,
       Ready, Failed
<1>2. CASE \E k \in DOMAIN Script : k = submitted + 1 /\ \E c \in Script[k] : Submit(c)
  BY <1>2 DEF Submit, CanSubmit, control, connection, subscription, calls, handoff,
       broker, Typed, PhaseFits, LegalChange, Transitions, Passing, Points, Closing,
       Lasting, Ready, Failed
<1>3. CASE \E i \in DOMAIN commands : TimeOut(i)
  BY <1>3 DEF TimeOut, control, connection, subscription, calls, handoff, broker, Typed,
       PhaseFits, LegalChange, Transitions, Passing, Points, Closing, Lasting, Ready,
       Failed
<1>4. CASE TimeOutFailing
  BY <1>4 DEF TimeOutFailing, control, connection, subscription, calls, handoff, broker,
       Typed, PhaseFits, LegalChange, Transitions, Passing, Points, Closing, Lasting,
       Ready, Failed
<1>5. CASE GiveUp
  BY <1>5 DEF GiveUp, control, connection, subscription, calls, handoff, broker, Typed,
       PhaseFits, LegalChange, Transitions, Passing, Points, Closing, Lasting, Ready,
       Failed
<1>6. CASE GiveUpFatal
  BY <1>6 DEF GiveUpFatal, Fatal, FatalFrom, control, connection, subscription, calls,
       handoff, broker, Typed, PhaseFits, LegalChange, Transitions, Passing, Points,
       Closing, Lasting, Ready, Failed
<1>7. CASE Stop
  <2>1. UNCHANGED state \/ (state = "new" /\ state' = "stopped")
    BY <1>7 DEF Stop
  <2>2. "stopping" \in Passing \cap Transitions["new"] /\ "stopped" \in Transitions["stopping"]
    BY DEF Passing, Transitions
  <2> QED BY <2>1, <2>2 DEF LegalChange
<1>8. CASE \E g \in Sinks : \E kind \in {3001, 3002, 3003} : OnConnection(g, kind)
  <2>1. \/ UNCHANGED state
        \/ state \in {"entering_monitor", "reconnecting"} /\ state' = "connected"
        \/ state = "connected" /\ state' = "stocks_ready"
        \/ state \in {"connected", "stocks_ready", "subscribed"} /\ state' =
             "reconnecting"
    BY <1>8 DEF OnConnection, HandleConnection, Connected, StocksReady, Disconnected,
         Ready
  <2> QED BY <2>1, LossIsLegal DEF LegalChange, Transitions
<1>9. CASE \E g \in Sinks : OnNotifyQuote(g)
  BY <1>9 DEF OnNotifyQuote, Sinks, Dispatching, Stays, Fatal, FatalFrom, control,
       connection, subscription, calls, handoff, broker, Typed, PhaseFits, LegalChange,
       Transitions, Passing, Points, Closing, Lasting, Ready, Failed
<1>10. CASE CallbackFails
  BY <1>10 DEF CallbackFails, Dispatching, Fatal, FatalFrom, control, connection,
       subscription, calls, handoff, broker, Typed, PhaseFits, LegalChange, Transitions,
       Passing, Points, Closing, Lasting, Ready, Failed
<1>11. CASE Boots("com", "objects")
  BY <1>11 DEF Boots, Stays, Fatal, FatalFrom, control, connection, subscription, calls,
       handoff, broker, Typed, PhaseFits, LegalChange, Transitions, Passing, Points,
       Closing, Lasting, Ready, Failed
<1>12. CASE Boots("objects", "events")
  BY <1>12 DEF Boots, Stays, Fatal, FatalFrom, control, connection, subscription, calls,
       handoff, broker, Typed, PhaseFits, LegalChange, Transitions, Passing, Points,
       Closing, Lasting, Ready, Failed
<1>13. CASE Boots("events", "com_ready")
  BY <1>13 DEF Boots, Stays, Fatal, FatalFrom, control, connection, subscription, calls,
       handoff, broker, Typed, PhaseFits, LegalChange, Transitions, Passing, Points,
       Closing, Lasting, Ready, Failed
<1>14. CASE ComReady
  BY <1>14 DEF ComReady, Goes, Transitions, Fatal, FatalFrom, control, connection,
       subscription, calls, handoff, broker, Typed, PhaseFits, LegalChange, Transitions,
       Passing, Points, Closing, Lasting, Ready, Failed
<1>15. CASE SkipCommand
  BY <1>15 DEF SkipCommand, control, connection, subscription, calls, handoff, broker,
       Typed, PhaseFits, LegalChange, Transitions, Passing, Points, Closing, Lasting,
       Ready, Failed
<1>16. CASE RunCommand
  <2>1. CASE LoginBegins
    BY <2>1 DEF LoginBegins, Goes, Stays, LegalChange, Transitions
  <2>2. CASE EnterMonitor
    BY <1>16, <2>2 DEF RunCommand, EnterMonitor, EnterBegins, Goes, Stays, Fatal,
         FatalFrom, control, connection, subscription, calls, handoff, broker, Typed,
         PhaseFits, LegalChange, Transitions, Passing, Points, Closing, Lasting, Ready,
         Failed
  <2>3. CASE \E kind \in Kinds : /\ Head(commands).items \subseteq {kind} \X Symbols
       /\ Subscribe(kind, Head(commands).items)
    BY <1>16, <2>3 DEF RunCommand, Subscribe, ResubscribeFails, Refresh, Goes, Stays,
         FatalFrom, control, connection, subscription, calls, handoff, broker, Typed,
         PhaseFits, LegalChange, Transitions, Passing, Points, Closing, Lasting, Ready,
         Failed
  <2>4. CASE Unsubscribe(Head(commands).items)
    BY <1>16, <2>4 DEF RunCommand, Unsubscribe, Refresh, Goes, Stays, control, connection,
         subscription, calls, handoff, broker, Typed, PhaseFits, LegalChange, Transitions,
         Passing, Points, Closing, Lasting, Ready, Failed
  <2> QED BY <1>16, <2>1, <2>2, <2>3, <2>4 DEF RunCommand, Execute
<1>17. CASE CommandsDone
  BY <1>17 DEF CommandsDone, control, connection, subscription, calls, handoff, broker,
       Typed, PhaseFits, LegalChange, Transitions, Passing, Points, Closing, Lasting,
       Ready, Failed
<1>18. CASE EnterReturns
  BY <1>18 DEF EnterReturns, Stays, Fatal, FatalFrom, control, connection, subscription,
       calls, handoff, broker, Typed, PhaseFits, LegalChange, Transitions, Passing,
       Points, Closing, Lasting, Ready, Failed
<1>19. CASE Pumped
  BY <1>19 DEF Pumped, Stays, Fatal, FatalFrom, control, connection, subscription, calls,
       handoff, broker, Typed, PhaseFits, LegalChange, Transitions, Passing, Points,
       Closing, Lasting, Ready, Failed
<1>20. CASE Drain
  BY <1>20 DEF Drain, Enrich, control, connection, subscription, calls, handoff, broker,
       Typed, PhaseFits, LegalChange, Transitions, Passing, Points, Closing, Lasting,
       Ready, Failed
<1>21. CASE Resubscribe
  BY <1>21 DEF Resubscribe, Resubscribable, ResubscribeFails, Refresh, Goes, Stays,
       FatalFrom, control, connection, subscription, calls, handoff, broker, Typed,
       PhaseFits, LegalChange, Transitions, Passing, Points, Closing, Lasting, Ready,
       Failed
<1>22. CASE Watchdog
  <2>1. \/ UNCHANGED state
        \/ state = "connected" /\ state' = "reconnecting"
        \/ state \in {"connected", "reconnecting"} /\ state' = "error"
    BY <1>22 DEF Watchdog, Expired, Goes, Stays, Fatal, FatalFrom
  <2> QED BY <2>1, LossIsLegal DEF LegalChange, Transitions
<1>23. CASE NoReconnect
  BY <1>23 DEF NoReconnect, control, connection, subscription, calls, handoff, broker,
       Typed, PhaseFits, LegalChange, Transitions, Passing, Points, Closing, Lasting,
       Ready, Failed
<1>24. CASE LeaveFails
  BY <1>24 DEF LeaveFails, Reconnecting, ReconnectFails, Stays, Fatal, FatalFrom, control,
       connection, subscription, calls, handoff, broker, Typed, PhaseFits, LegalChange,
       Transitions, Passing, Points, Closing, Lasting, Ready, Failed
<1>25. CASE RegisterFails
  BY <1>25 DEF RegisterFails, Reconnecting, EnterBegins, ReconnectFails, Stays, Fatal,
       FatalFrom, control, connection, subscription, calls, handoff, broker, Typed,
       PhaseFits, LegalChange, Transitions, Passing, Points, Closing, Lasting, Ready,
       Failed
<1>26. CASE Reconnect
  BY <1>26 DEF Reconnect, Reconnecting, EnterBegins, control, connection, subscription,
       calls, handoff, broker, Typed, PhaseFits, LegalChange, Transitions, Passing,
       Points, Closing, Lasting, Ready, Failed
<1>27. CASE ReenterFails
  BY <1>27 DEF ReenterFails, ReconnectFails, Stays, Fatal, FatalFrom, control, connection,
       subscription, calls, handoff, broker, Typed, PhaseFits, LegalChange, Transitions,
       Passing, Points, Closing, Lasting, Ready, Failed
<1>28. CASE ReenterReturns
  BY <1>28 DEF ReenterReturns, Stays, Fatal, FatalFrom, control, connection, subscription,
       calls, handoff, broker, Typed, PhaseFits, LegalChange, Transitions, Passing,
       Points, Closing, Lasting, Ready, Failed
<1>29. CASE Cleanup
  BY <1>29 DEF Cleanup, DrainAll, Enrich, control, connection, subscription, calls,
       handoff, broker, Typed, PhaseFits, LegalChange, Transitions, Passing, Points,
       Closing, Lasting, Ready, Failed
<1>30. CASE FailPending
  BY <1>30 DEF FailPending, control, connection, subscription, calls, handoff, broker,
       Typed, PhaseFits, LegalChange, Transitions, Passing, Points, Closing, Lasting,
       Ready, Failed
<1>31. CASE FailSet
  BY <1>31 DEF FailSet, control, connection, subscription, calls, handoff, broker, Typed,
       PhaseFits, LegalChange, Transitions, Passing, Points, Closing, Lasting, Ready,
       Failed
<1>32. CASE Cancel
  BY <1>32 DEF Cancel, FinalPhase, control, connection, subscription, calls, handoff,
       broker, Typed, PhaseFits, LegalChange, Transitions, Passing, Points, Closing,
       Lasting, Ready, Failed
<1>33. CASE FinalPump
  BY <1>33 DEF FinalPump, DrainAll, Enrich, control, connection, subscription, calls,
       handoff, broker, Typed, PhaseFits, LegalChange, Transitions, Passing, Points,
       Closing, Lasting, Ready, Failed
<1>34. CASE Release
  BY <1>34 DEF Release, Goes, control, connection, subscription, calls, handoff, broker,
       Typed, PhaseFits, LegalChange, Transitions, Passing, Points, Closing, Lasting,
       Ready, Failed
<1>35. CASE \E t \in Timers : Elapse(t)
  BY <1>35 DEF Elapse, control, connection, subscription, calls, handoff, broker, Typed,
       PhaseFits, LegalChange, Transitions, Passing, Points, Closing, Lasting, Ready,
       Failed
<1>36. CASE UNCHANGED vars
  BY <1>36 DEF vars, control, connection, subscription, calls, handoff, broker, Typed,
       PhaseFits, LegalChange, Transitions, Passing, Points, Closing, Lasting, Ready,
       Failed
<1>37. CASE LoginReturns
  BY <1>37 DEF LoginReturns, Goes, Transitions, Stays, Fatal, FatalFrom, control, connection, subscription,
       calls, handoff, broker, Typed, PhaseFits, LegalChange, Passing,
       Points, Closing, Lasting, Ready, Failed
<1> QED BY <1>1, <1>2, <1>3, <1>4, <1>5, <1>6, <1>7, <1>8, <1>9, <1>10, <1>11, <1>12,
     <1>13, <1>14, <1>15, <1>16, <1>17, <1>18, <1>19, <1>20, <1>21, <1>22, <1>23, <1>24,
     <1>25, <1>26, <1>27, <1>28, <1>29, <1>30, <1>31, <1>32, <1>33, <1>34, <1>35, <1>36,
     <1>37
     DEF Next, Callers, Callbacks, Sta

\* Nothing that is looked up is lost in silence: the session is marked, or every
\* notification of the sequence was published.
LEMMA EnrichAccounts ==
    ASSUME NEW n \in Seq(Nat), Enrich(n), incomplete \in BOOLEAN
    PROVE  /\ incomplete' \in BOOLEAN
           /\ ~incomplete' => ~incomplete /\ owed' = owed - Len(n)
<1>1. PICK found \in SUBSET DOMAIN n :
          /\ owed' = owed - Cardinality(found)
          /\ incomplete' = (incomplete \/ found # DOMAIN n)
  <2>1. {i \in DOMAIN n : n[i] = generation} \subseteq DOMAIN n
    OBVIOUS
  <2> QED BY <2>1, Zenon DEF Enrich
<1>2. incomplete' \in BOOLEAN
  BY <1>1, Zenon
<1>3. ~incomplete' => ~incomplete /\ found = DOMAIN n
  BY <1>1, Zenon
<1>4. DOMAIN n = 1 .. Len(n) /\ Len(n) \in Nat
  OBVIOUS
<1>5. Cardinality(1 .. Len(n)) = Len(n)
  <2>1. \A k \in Nat : Cardinality(1 .. k) = IF 1 > k THEN 0 ELSE k - 1 + 1
    BY FS_Interval
  <2> QED BY <1>4, <2>1
<1>6. found = DOMAIN n => Cardinality(found) = Len(n)
  BY <1>4, <1>5
<1> QED BY <1>1, <1>2, <1>3, <1>6

\* The same of what remains in the queue and its overflow slot when the thread ends.
LEMMA DrainAllAccounts ==
    ASSUME Typed, DrainAll
    PROVE  /\ incomplete' \in BOOLEAN /\ quotes' = <<>> /\ overflow' = <<>>
           /\ ~incomplete' /\ overflow = <<>> => ~incomplete /\ owed' = owed - Len(quotes)
<1>1. quotes \o overflow \in Seq(Nat) /\ Enrich(quotes \o overflow)
  BY DEF Typed, DrainAll
<1>2. overflow = <<>> => Len(quotes \o overflow) = Len(quotes)
  BY DEF Typed
<1>3. /\ incomplete' \in BOOLEAN
      /\ ~incomplete' => ~incomplete /\ owed' = owed - Len(quotes \o overflow)
  BY <1>1, EnrichAccounts DEF Typed
<1> QED BY <1>2, <1>3 DEF DrainAll

LEMMA EmptySeq == <<>> \in Seq(Nat) /\ Len(<<>>) = 0
  OBVIOUS

\* Every step keeps the types.
LEMMA TypedStep ==
    ASSUME Typed, [Next]_vars
    PROVE  Typed'
<1>1. CASE Start
  BY <1>1 DEF Start, Stays, control, connection, subscription, calls, handoff, broker,
       Typed, Points, Closing, Lasting, Ready, Failed
<1>2. CASE \E k \in DOMAIN Script : k = submitted + 1 /\ \E c \in Script[k] : Submit(c)
  BY <1>2 DEF Submit, CanSubmit, control, connection, subscription, calls, handoff,
       broker, Typed, Points, Closing, Lasting, Ready, Failed
<1>3. CASE \E i \in DOMAIN commands : TimeOut(i)
  BY <1>3 DEF TimeOut, control, connection, subscription, calls, handoff, broker, Typed,
       Points, Closing, Lasting, Ready, Failed
<1>4. CASE TimeOutFailing
  BY <1>4 DEF TimeOutFailing, control, connection, subscription, calls, handoff, broker,
       Typed, Points, Closing, Lasting, Ready, Failed
<1>5. CASE GiveUp
  BY <1>5 DEF GiveUp, control, connection, subscription, calls, handoff, broker, Typed,
       Points, Closing, Lasting, Ready, Failed
<1>6. CASE GiveUpFatal
  BY <1>6 DEF GiveUpFatal, Fatal, FatalFrom, control, connection, subscription, calls,
       handoff, broker, Typed, Points, Closing, Lasting, Ready, Failed
<1>7. CASE Stop
  BY <1>7 DEF Stop, control, connection, subscription, calls, handoff, broker, Typed,
       Points, Closing, Lasting, Ready, Failed
<1>8. CASE \E g \in Sinks : \E kind \in {3001, 3002, 3003} : OnConnection(g, kind)
  BY <1>8 DEF OnConnection, HandleConnection, Connected, StocksReady, Disconnected,
       Dispatching, control, connection, subscription, calls, handoff, broker, Typed,
       Points, Closing, Lasting, Ready, Failed
<1>9. CASE \E g \in Sinks : OnNotifyQuote(g)
  <2>1. PICK g \in Nat : OnNotifyQuote(g)
    BY <1>9 DEF Sinks, Typed
  <2>2. quotes' \in Seq(Nat) /\ overflow' \in Seq(Nat)
    <3>1. Append(quotes, g) \in Seq(Nat) /\ <<g>> \in Seq(Nat)
      BY <2>1 DEF Typed
    <3>2. quotes' \in {quotes, Append(quotes, g)} /\ overflow' \in {overflow, <<g>>}
      BY <2>1 DEF OnNotifyQuote
    <3> QED BY <3>1, <3>2 DEF Typed
  <2> QED BY <2>1, <2>2 DEF OnNotifyQuote, Stays, Fatal, FatalFrom, connection, Typed,
       Lasting
<1>10. CASE CallbackFails
  BY <1>10 DEF CallbackFails, Dispatching, Fatal, FatalFrom, control, connection,
       subscription, calls, handoff, broker, Typed, Points, Closing, Lasting, Ready,
       Failed
<1>11. CASE Boots("com", "objects")
  BY <1>11 DEF Boots, Stays, Fatal, FatalFrom, control, connection, subscription, calls,
       handoff, broker, Typed, Points, Closing, Lasting, Ready, Failed
<1>12. CASE Boots("objects", "events")
  BY <1>12 DEF Boots, Stays, Fatal, FatalFrom, control, connection, subscription, calls,
       handoff, broker, Typed, Points, Closing, Lasting, Ready, Failed
<1>13. CASE Boots("events", "com_ready")
  BY <1>13 DEF Boots, Stays, Fatal, FatalFrom, control, connection, subscription, calls,
       handoff, broker, Typed, Points, Closing, Lasting, Ready, Failed
<1>14. CASE ComReady
  BY <1>14 DEF ComReady, Goes, Transitions, Fatal, FatalFrom, control, connection,
       subscription, calls, handoff, broker, Typed, Points, Closing, Lasting, Ready,
       Failed
<1>15. CASE SkipCommand
  BY <1>15 DEF SkipCommand, control, connection, subscription, calls, handoff, broker,
       Typed, Points, Closing, Lasting, Ready, Failed
<1>16. CASE RunCommand
  <2>1. CASE LoginBegins
    BY <1>16, <2>1 DEF RunCommand, LoginBegins, Goes, Stays, control,
         connection, subscription, calls, handoff, broker, Typed, Points, Closing,
         Lasting, Ready, Failed
  <2>2. CASE EnterMonitor
    <3>1. generation' \in Nat
      BY <2>2 DEF EnterMonitor, EnterBegins, Typed
    <3>2. pc' \in Points
      BY <2>2 DEF EnterMonitor, EnterBegins, Typed, Points
    <3>3. state' \in Lasting /\ incomplete' \in BOOLEAN
      BY <2>2 DEF EnterMonitor, Goes, Stays, Fatal, FatalFrom, Typed, Lasting
    <3> QED BY <1>16, <3>1, <3>2, <3>3 DEF RunCommand, handoff, Typed
  <2>3. CASE \E kind \in Kinds : /\ Head(commands).items \subseteq {kind} \X Symbols
       /\ Subscribe(kind, Head(commands).items)
    BY <1>16, <2>3 DEF RunCommand, Subscribe, ResubscribeFails, Refresh, Goes, Stays,
         FatalFrom, control, connection, subscription, calls, handoff, broker, Typed,
         Points, Closing, Lasting, Ready, Failed
  <2>4. CASE Unsubscribe(Head(commands).items)
    BY <1>16, <2>4 DEF RunCommand, Unsubscribe, Refresh, Goes, Stays, control, connection,
         subscription, calls, handoff, broker, Typed, Points, Closing, Lasting, Ready,
         Failed
  <2> QED BY <1>16, <2>1, <2>2, <2>3, <2>4 DEF RunCommand, Execute
<1>17. CASE CommandsDone
  BY <1>17 DEF CommandsDone, control, connection, subscription, calls, handoff, broker,
       Typed, Points, Closing, Lasting, Ready, Failed
<1>18. CASE EnterReturns
  BY <1>18 DEF EnterReturns, Stays, Fatal, FatalFrom, control, connection, subscription,
       calls, handoff, broker, Typed, Points, Closing, Lasting, Ready, Failed
<1>19. CASE Pumped
  BY <1>19 DEF Pumped, Stays, Fatal, FatalFrom, control, connection, subscription, calls,
       handoff, broker, Typed, Points, Closing, Lasting, Ready, Failed
<1>20. CASE Drain
  <2>1. /\ incomplete' \in BOOLEAN
        /\ ~incomplete' => ~incomplete /\ owed' = owed - Len(quotes)
    BY <1>20, EnrichAccounts DEF Drain, Typed
  <2> QED BY <1>20, <2>1, EmptySeq DEF Drain, connection, Typed, Points, Closing, Lasting,
       Ready, Failed
<1>21. CASE Resubscribe
  BY <1>21 DEF Resubscribe, Resubscribable, ResubscribeFails, Refresh, Goes, Stays,
       FatalFrom, control, connection, subscription, calls, handoff, broker, Typed,
       Points, Closing, Lasting, Ready, Failed
<1>22. CASE Watchdog
  BY <1>22 DEF Watchdog, Expired, Goes, Stays, Fatal, FatalFrom, control, connection,
       subscription, calls, handoff, broker, Typed, Points, Closing, Lasting, Ready,
       Failed
<1>23. CASE NoReconnect
  BY <1>23 DEF NoReconnect, control, connection, subscription, calls, handoff, broker,
       Typed, Points, Closing, Lasting, Ready, Failed
<1>24. CASE LeaveFails
  BY <1>24 DEF LeaveFails, Reconnecting, ReconnectFails, Stays, Fatal, FatalFrom, control,
       connection, subscription, calls, handoff, broker, Typed, Points, Closing, Lasting,
       Ready, Failed
<1>25. CASE RegisterFails
  BY <1>25 DEF RegisterFails, Reconnecting, EnterBegins, ReconnectFails, Stays, Fatal,
       FatalFrom, control, connection, subscription, calls, handoff, broker, Typed,
       Points, Closing, Lasting, Ready, Failed
<1>26. CASE Reconnect
  BY <1>26 DEF Reconnect, Reconnecting, EnterBegins, control, connection, subscription,
       calls, handoff, broker, Typed, Points, Closing, Lasting, Ready, Failed
<1>27. CASE ReenterFails
  BY <1>27 DEF ReenterFails, ReconnectFails, Stays, Fatal, FatalFrom, control, connection,
       subscription, calls, handoff, broker, Typed, Points, Closing, Lasting, Ready,
       Failed
<1>28. CASE ReenterReturns
  BY <1>28 DEF ReenterReturns, Stays, Fatal, FatalFrom, control, connection, subscription,
       calls, handoff, broker, Typed, Points, Closing, Lasting, Ready, Failed
<1>29. CASE Cleanup
  <2>1. CASE "objects" \in held /\ DrainAll
    BY <1>29, <2>1, DrainAllAccounts, EmptySeq DEF Cleanup, connection, Typed, Points,
         Closing, Lasting, Ready, Failed
  <2>2. CASE /\ UNCHANGED <<quotes, overflow, owed>>
             /\ incomplete' = (incomplete \/ quotes \o overflow # <<>>)
    <3>1. /\ incomplete' \in BOOLEAN
          /\ ~incomplete' => ~incomplete /\ quotes \o overflow = <<>>
      BY <2>2, Zenon DEF Typed
    <3>2. quotes \o overflow = <<>> => quotes = <<>>
      BY DEF Typed
    <3> QED BY <1>29, <2>2, <3>1, <3>2 DEF Cleanup, connection, Typed, Points, Closing,
         Lasting, Ready, Failed
  <2> QED BY <1>29, <2>1, <2>2 DEF Cleanup
<1>30. CASE FailPending
  BY <1>30 DEF FailPending, control, connection, subscription, calls, handoff, broker,
       Typed, Points, Closing, Lasting, Ready, Failed
<1>31. CASE FailSet
  BY <1>31 DEF FailSet, control, connection, subscription, calls, handoff, broker, Typed,
       Points, Closing, Lasting, Ready, Failed
<1>32. CASE Cancel
  BY <1>32 DEF Cancel, FinalPhase, control, connection, subscription, calls, handoff,
       broker, Typed, Points, Closing, Lasting, Ready, Failed
<1>33. CASE FinalPump
  <2>1. DrainAll
    BY <1>33 DEF FinalPump
  <2> QED BY <1>33, <2>1, DrainAllAccounts, EmptySeq DEF FinalPump, connection, Typed,
       Points, Closing, Lasting, Ready, Failed
<1>34. CASE Release
  <2>1. incomplete' \in BOOLEAN /\ (~incomplete' => ~incomplete)
    BY <1>34, Zenon DEF Release, Typed
  <2> QED BY <1>34, <2>1 DEF Release, Goes, connection, handoff, Typed, Points, Closing,
       Lasting, Ready, Failed
<1>35. CASE \E t \in Timers : Elapse(t)
  BY <1>35 DEF Elapse, control, connection, subscription, calls, handoff, broker, Typed,
       Points, Closing, Lasting, Ready, Failed
<1>36. CASE UNCHANGED vars
  BY <1>36 DEF vars, control, connection, subscription, calls, handoff, broker, Typed,
       Points, Closing, Lasting, Ready, Failed
<1>37. CASE LoginReturns
  BY <1>37 DEF LoginReturns, Goes, Transitions, Stays, Fatal, FatalFrom, control, connection, subscription,
       calls, handoff, broker, Typed, Points, Closing, Lasting, Ready, Failed
<1> QED BY <1>1, <1>2, <1>3, <1>4, <1>5, <1>6, <1>7, <1>8, <1>9, <1>10, <1>11, <1>12,
     <1>13, <1>14, <1>15, <1>16, <1>17, <1>18, <1>19, <1>20, <1>21, <1>22, <1>23, <1>24,
     <1>25, <1>26, <1>27, <1>28, <1>29, <1>30, <1>31, <1>32, <1>33, <1>34, <1>35, <1>36,
     <1>37
     DEF Next, Callers, Callbacks, Sta

\* If the session is not marked, what is drained is all that is owed.
LEMMA DrainedOwesNothing ==
    ASSUME Typed, AccountFits, DrainAll
    PROVE  ~incomplete' => owed' = 0
<1>1. ~incomplete' /\ overflow = <<>> => ~incomplete /\ owed' = owed - Len(quotes)
  BY DrainAllAccounts
<1>2. ~incomplete => overflow = <<>> /\ owed = Len(quotes)
  BY DEF AccountFits
<1>3. incomplete => incomplete'
  BY Zenon DEF DrainAll, Enrich
<1>4. Len(quotes) \in Nat
  BY DEF Typed
<1> QED BY <1>1, <1>2, <1>3, <1>4

\* Every step keeps the account of the notifications.
LEMMA AccountStep ==
    ASSUME Typed, AccountFits, [Next]_vars
    PROVE  AccountFits'
<1>1. CASE Start
  BY <1>1 DEF Start, Stays, control, connection, subscription, calls, handoff, broker,
       Typed, AccountFits, Drained
<1>2. CASE \E k \in DOMAIN Script : k = submitted + 1 /\ \E c \in Script[k] : Submit(c)
  BY <1>2 DEF Submit, CanSubmit, control, connection, subscription, calls, handoff,
       broker, Typed, AccountFits, Drained
<1>3. CASE \E i \in DOMAIN commands : TimeOut(i)
  BY <1>3 DEF TimeOut, control, connection, subscription, calls, handoff, broker, Typed,
       AccountFits, Drained
<1>4. CASE TimeOutFailing
  BY <1>4 DEF TimeOutFailing, control, connection, subscription, calls, handoff, broker,
       Typed, AccountFits, Drained
<1>5. CASE GiveUp
  BY <1>5 DEF GiveUp, control, connection, subscription, calls, handoff, broker, Typed,
       AccountFits, Drained
<1>6. CASE GiveUpFatal
  BY <1>6 DEF GiveUpFatal, Fatal, FatalFrom, control, connection, subscription, calls,
       handoff, broker, Typed, AccountFits, Drained
<1>7. CASE Stop
  BY <1>7 DEF Stop, control, connection, subscription, calls, handoff, broker, Typed,
       AccountFits, Drained
<1>8. CASE \E g \in Sinks : \E kind \in {3001, 3002, 3003} : OnConnection(g, kind)
  BY <1>8 DEF OnConnection, HandleConnection, Connected, StocksReady, Disconnected,
       Dispatching, control, connection, subscription, calls, handoff, broker, Typed,
       AccountFits, Drained
<1>9. CASE \E g \in Sinks : OnNotifyQuote(g)
  BY <1>9 DEF OnNotifyQuote, Sinks, Dispatching, Stays, Fatal, FatalFrom, control,
       connection, subscription, calls, handoff, broker, Typed, AccountFits, Drained
<1>10. CASE CallbackFails
  BY <1>10 DEF CallbackFails, Dispatching, Fatal, FatalFrom, control, connection,
       subscription, calls, handoff, broker, Typed, AccountFits, Drained
<1>11. CASE Boots("com", "objects")
  BY <1>11 DEF Boots, Stays, Fatal, FatalFrom, control, connection, subscription, calls,
       handoff, broker, Typed, AccountFits, Drained
<1>12. CASE Boots("objects", "events")
  BY <1>12 DEF Boots, Stays, Fatal, FatalFrom, control, connection, subscription, calls,
       handoff, broker, Typed, AccountFits, Drained
<1>13. CASE Boots("events", "com_ready")
  BY <1>13 DEF Boots, Stays, Fatal, FatalFrom, control, connection, subscription, calls,
       handoff, broker, Typed, AccountFits, Drained
<1>14. CASE ComReady
  BY <1>14 DEF ComReady, Goes, Transitions, Fatal, FatalFrom, control, connection,
       subscription, calls, handoff, broker, Typed, AccountFits, Drained
<1>15. CASE SkipCommand
  BY <1>15 DEF SkipCommand, control, connection, subscription, calls, handoff, broker,
       Typed, AccountFits, Drained
<1>16. CASE RunCommand
  <2>1. CASE LoginBegins
    BY <1>16, <2>1 DEF RunCommand, LoginBegins, Goes, Stays, control,
         connection, subscription, calls, handoff, broker, Typed, AccountFits, Drained
  <2>2. CASE EnterMonitor
    BY <1>16, <2>2 DEF RunCommand, EnterMonitor, EnterBegins, Goes, Stays, Fatal,
         FatalFrom, control, connection, subscription, calls, handoff, broker, Typed,
         AccountFits, Drained
  <2>3. CASE \E kind \in Kinds : /\ Head(commands).items \subseteq {kind} \X Symbols
       /\ Subscribe(kind, Head(commands).items)
    BY <1>16, <2>3 DEF RunCommand, Subscribe, ResubscribeFails, Refresh, Goes, Stays,
         FatalFrom, control, connection, subscription, calls, handoff, broker, Typed,
         AccountFits, Drained
  <2>4. CASE Unsubscribe(Head(commands).items)
    BY <1>16, <2>4 DEF RunCommand, Unsubscribe, Refresh, Goes, Stays, control, connection,
         subscription, calls, handoff, broker, Typed, AccountFits, Drained
  <2> QED BY <1>16, <2>1, <2>2, <2>3, <2>4 DEF RunCommand, Execute
<1>17. CASE CommandsDone
  BY <1>17 DEF CommandsDone, control, connection, subscription, calls, handoff, broker,
       Typed, AccountFits, Drained
<1>18. CASE EnterReturns
  BY <1>18 DEF EnterReturns, Stays, Fatal, FatalFrom, control, connection, subscription,
       calls, handoff, broker, Typed, AccountFits, Drained
<1>19. CASE Pumped
  BY <1>19 DEF Pumped, Stays, Fatal, FatalFrom, control, connection, subscription, calls,
       handoff, broker, Typed, AccountFits, Drained
<1>20. CASE Drain
  <2>1. /\ incomplete' \in BOOLEAN
        /\ ~incomplete' => ~incomplete /\ owed' = owed - Len(quotes)
    BY <1>20, EnrichAccounts DEF Drain, Typed
  <2> QED BY <1>20, <2>1, EmptySeq DEF Drain, connection, Typed, AccountFits, Drained
<1>21. CASE Resubscribe
  BY <1>21 DEF Resubscribe, Resubscribable, ResubscribeFails, Refresh, Goes, Stays,
       FatalFrom, control, connection, subscription, calls, handoff, broker, Typed,
       AccountFits, Drained
<1>22. CASE Watchdog
  BY <1>22 DEF Watchdog, Expired, Goes, Stays, Fatal, FatalFrom, control, connection,
       subscription, calls, handoff, broker, Typed, AccountFits, Drained
<1>23. CASE NoReconnect
  BY <1>23 DEF NoReconnect, control, connection, subscription, calls, handoff, broker,
       Typed, AccountFits, Drained
<1>24. CASE LeaveFails
  BY <1>24 DEF LeaveFails, Reconnecting, ReconnectFails, Stays, Fatal, FatalFrom, control,
       connection, subscription, calls, handoff, broker, Typed, AccountFits, Drained
<1>25. CASE RegisterFails
  BY <1>25 DEF RegisterFails, Reconnecting, EnterBegins, ReconnectFails, Stays, Fatal,
       FatalFrom, control, connection, subscription, calls, handoff, broker, Typed,
       AccountFits, Drained
<1>26. CASE Reconnect
  BY <1>26 DEF Reconnect, Reconnecting, EnterBegins, control, connection, subscription,
       calls, handoff, broker, Typed, AccountFits, Drained
<1>27. CASE ReenterFails
  BY <1>27 DEF ReenterFails, ReconnectFails, Stays, Fatal, FatalFrom, control, connection,
       subscription, calls, handoff, broker, Typed, AccountFits, Drained
<1>28. CASE ReenterReturns
  BY <1>28 DEF ReenterReturns, Stays, Fatal, FatalFrom, control, connection, subscription,
       calls, handoff, broker, Typed, AccountFits, Drained
<1>29. CASE Cleanup
  <2>1. CASE "objects" \in held /\ DrainAll
    <3>1. /\ quotes' = <<>> /\ overflow' = <<>>
          /\ ~incomplete' => owed' = 0
      BY <2>1, DrainAllAccounts, DrainedOwesNothing
    <3> QED BY <3>1, EmptySeq DEF AccountFits
  <2>2. CASE /\ UNCHANGED <<quotes, overflow, owed>>
             /\ incomplete' = (incomplete \/ quotes \o overflow # <<>>)
    <3>1. /\ incomplete' \in BOOLEAN
          /\ ~incomplete' => ~incomplete /\ quotes \o overflow = <<>>
      BY <2>2, Zenon DEF Typed
    <3>2. quotes \o overflow = <<>> => quotes = <<>>
      BY DEF Typed
    <3> QED BY <1>29, <2>2, <3>1, <3>2 DEF Cleanup, connection, Typed, AccountFits,
         Drained
  <2> QED BY <1>29, <2>1, <2>2 DEF Cleanup
<1>30. CASE FailPending
  BY <1>30 DEF FailPending, control, connection, subscription, calls, handoff, broker,
       Typed, AccountFits, Drained
<1>31. CASE FailSet
  BY <1>31 DEF FailSet, control, connection, subscription, calls, handoff, broker, Typed,
       AccountFits, Drained
<1>32. CASE Cancel
  BY <1>32 DEF Cancel, FinalPhase, control, connection, subscription, calls, handoff,
       broker, Typed, AccountFits, Drained
<1>33. CASE FinalPump
  <2>1. DrainAll
    BY <1>33 DEF FinalPump
  <2>2. /\ quotes' = <<>> /\ overflow' = <<>>
        /\ ~incomplete' => owed' = 0
    BY <2>1, DrainAllAccounts, DrainedOwesNothing
  <2> QED BY <2>2, EmptySeq DEF AccountFits
<1>34. CASE Release
  <2>1. incomplete' \in BOOLEAN /\ (~incomplete' => ~incomplete)
    BY <1>34, Zenon DEF Release, Typed
  <2> QED BY <1>34, <2>1 DEF Release, Goes, connection, handoff, Typed, AccountFits,
       Drained
<1>35. CASE \E t \in Timers : Elapse(t)
  BY <1>35 DEF Elapse, control, connection, subscription, calls, handoff, broker, Typed,
       AccountFits, Drained
<1>36. CASE UNCHANGED vars
  BY <1>36 DEF vars, control, connection, subscription, calls, handoff, broker, Typed,
       AccountFits, Drained
<1>37. CASE LoginReturns
  BY <1>37 DEF LoginReturns, Goes, Transitions, Stays, Fatal, FatalFrom, control, connection, subscription,
       calls, handoff, broker, Typed, AccountFits, Drained
<1> QED BY <1>1, <1>2, <1>3, <1>4, <1>5, <1>6, <1>7, <1>8, <1>9, <1>10, <1>11, <1>12,
     <1>13, <1>14, <1>15, <1>16, <1>17, <1>18, <1>19, <1>20, <1>21, <1>22, <1>23, <1>24,
     <1>25, <1>26, <1>27, <1>28, <1>29, <1>30, <1>31, <1>32, <1>33, <1>34, <1>35, <1>36,
     <1>37
     DEF Next, Callers, Callbacks, Sta

-----------------------------------------------------------------------------
(* The asks that can be refused *)

Asking == {"com_ready", "login"}

\* Only these two steps take the thread out of the places where it asks blindly.
LEMMA AskingSteps ==
    ASSUME PhaseFits, [Next]_vars, pc \in Asking, pc' # pc
    PROVE  ComReady \/ LoginReturns
<1>1. ~(Start \/ \E k \in DOMAIN Script : k = submitted + 1 /\ \E c \in Script[k] : Submit(c))
  BY DEF Start, Submit, Asking, control, PhaseFits
<1>2. ~((\E i \in DOMAIN commands : TimeOut(i)) \/ TimeOutFailing \/ GiveUp \/ GiveUpFatal \/ Stop)
  BY DEF TimeOut, TimeOutFailing, GiveUp, GiveUpFatal, Stop, control
<1>3. ~Callbacks
  BY DEF Callbacks, OnConnection, OnNotifyQuote, CallbackFails
<1>4. ~(Boots("com", "objects") \/ Boots("objects", "events") \/ Boots("events", "com_ready"))
  BY DEF Boots, Asking
<1>5. ~(SkipCommand \/ RunCommand \/ CommandsDone \/ EnterReturns \/ Pumped \/ Drain)
  BY DEF SkipCommand, RunCommand, CommandsDone, EnterReturns, Pumped, Drain, Asking
<1>6. ~(Resubscribe \/ Watchdog \/ NoReconnect \/ LeaveFails \/ RegisterFails)
  BY DEF Resubscribe, Watchdog, NoReconnect, LeaveFails, RegisterFails, Reconnecting, Asking
<1>7. ~(Reconnect \/ ReenterFails \/ ReenterReturns \/ Cleanup \/ FailPending)
  BY DEF Reconnect, Reconnecting, ReenterFails, ReenterReturns, Cleanup, FailPending, Asking
<1>8. ~(FailSet \/ Cancel \/ FinalPump \/ Release)
  BY DEF FailSet, Cancel, FinalPump, Release, Asking
<1>9. ~(UNCHANGED vars) /\ ~\E t \in Timers : Elapse(t)
  BY DEF vars, Elapse, control
<1> QED BY <1>1, <1>2, <1>3, <1>4, <1>5, <1>6, <1>7, <1>8, <1>9 DEF Next, Callers, Sta

\* A refused ask comes of a caller's _fatal.
RefusalFits ==
    \A at \in DOMAIN Asks :
        pc = at /\ pc' # at /\ Asks[at] \notin Transitions[state] =>
            /\ state = "error" /\ state' = "error"
            /\ stopping /\ ~accepting /\ incomplete

LEMMA RefusalStep ==
    ASSUME Typed, PhaseFits, [Next]_vars
    PROVE  RefusalFits
<1>1. DOMAIN Asks = Asking
  BY DEF Asks, Asking
<1> SUFFICES ASSUME NEW at \in Asking, pc = at, pc' # at, Asks[at] \notin Transitions[state]
             PROVE  /\ state = "error" /\ state' = "error"
                    /\ stopping /\ ~accepting /\ incomplete
  BY <1>1 DEF RefusalFits
<1>2. state = "error"
  <2>1. CASE at = "com_ready"
    <3>1. state \in {"starting", "error"}
      BY <2>1 DEF PhaseFits, Booting
    <3>2. Asks[at] = "com_ready" /\ "com_ready" \in Transitions["starting"]
      BY <2>1 DEF Asks, Transitions
    <3> QED BY <3>1, <3>2
  <2>2. CASE at = "login"
    <3>1. state \in {"logging_in", "error"}
      BY <2>2 DEF PhaseFits
    <3>2. Asks[at] = "logged_in" /\ "logged_in" \in Transitions["logging_in"]
      BY <2>2 DEF Asks, Transitions
    <3> QED BY <3>1, <3>2
  <2> QED BY <2>1, <2>2 DEF Asking
<1>3. stopping /\ ~accepting /\ incomplete
  BY <1>2 DEF PhaseFits
<1>4. state' = "error"
  <2>1. ComReady \/ LoginReturns
    BY AskingSteps
  <2>2. "com_ready" \notin Transitions["error"] /\ "logged_in" \notin Transitions["error"]
    BY DEF Transitions
  <2> QED BY <1>2, <2>1, <2>2 DEF ComReady, LoginReturns, Goes, Stays, Fatal, FatalFrom, Failed
<1> QED BY <1>2, <1>3, <1>4

-----------------------------------------------------------------------------
(* The theorems *)

\* The invariant holds before start and every step of a caller, of the broker and of the
\* STA thread keeps it.
THEOREM AdapterInvariant == Spec => []AdapterInv
<1>1. Init => AdapterInv
  <2>1. Init => Typed
    <3>1. Init => pc \in Points /\ state \in Lasting /\ incomplete \in BOOLEAN
      BY DEF Init, Points, Lasting
    <3>2. Init => generation \in Nat
      BY DEF Init
    <3>3. Init => quotes \in Seq(Nat) /\ overflow \in Seq(Nat)
      BY EmptySeq, Zenon DEF Init
    <3> QED BY <3>1, <3>2, <3>3 DEF Typed
  <2>2. Init => PhaseFits /\ SubscriptionFits
    BY DEF Init, PhaseFits, SubscriptionFits, Booting, Closing, AfterPending, Ready, Failed
  <2>3. Init => AccountFits
    BY EmptySeq DEF Init, AccountFits, Drained
  <2> QED BY <2>1, <2>2, <2>3 DEF AdapterInv
<1>2. AdapterInv /\ [Next]_vars => AdapterInv'
  BY TypedStep, PhaseStep, SubscriptionStep, AccountStep DEF AdapterInv
<1> QED BY <1>1, <1>2, PTL DEF Spec

\* SUBSCRIBED tells the truth, whatever callbacks, losses and reconnections come: the broker
\* announced this connection and streams every desired subscription.
THEOREM SubscribedMeansLive == Spec => []SubscribedIsLive
<1>1. AdapterInv => SubscribedIsLive
  BY DEF AdapterInv, SubscriptionFits, SubscribedIsLive, Ready
<1> QED BY <1>1, AdapterInvariant, PTL

\* When _cleanup is through, no caller waits for a queued command, and a session that is not
\* marked incomplete has published every notification, for every capacity of the queue.
THEOREM EndIsAccounted == Spec => []EndsAccounted
<1>1. AdapterInv => EndsAccounted
  BY EmptySeq
     DEF AdapterInv, PhaseFits, AccountFits, AfterPending, Drained, EndsAccounted
<1> QED BY <1>1, AdapterInvariant, PTL

\* Every change of state is in the table, and what the table refuses is asked only by the
\* thread of an adapter that a caller's time-out has put in ERROR, and that is stopping.
THEOREM RefusalsAreOfErrors == Spec => RefusedInErrorOnly
<1>1. AdapterInv /\ [Next]_vars => [LegalChange /\ RefusalFits]_vars
  BY LegalStep, RefusalStep DEF AdapterInv
<1>2. Spec => [][Next]_vars
  BY PTL DEF Spec
<1>3. Spec => [][LegalChange /\ RefusalFits]_vars
  BY <1>1, <1>2, AdapterInvariant, PTL
<1> QED BY <1>3, PTL DEF RefusedInErrorOnly, LegalChange, RefusalFits
=============================================================================
