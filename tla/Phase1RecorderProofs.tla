------------------------- MODULE Phase1RecorderProofs -------------------------
(***************************************************************************)
(* A session that run_live ends as complete has recorded everything, for   *)
(* every capacity of the lanes, every kind of event and every bound on the *)
(* callbacks, however the adapter, the writer and the main thread          *)
(* interleave their work and their reports.                                *)
(***************************************************************************)
EXTENDS Phase1Recorder, TLAPS

-----------------------------------------------------------------------------
(* The inductive invariant *)

Steps == {"fail", "degrade", "impact", "shutdown"}

RecorderTyped ==
    /\ adapter \in {"running", "stopping", "stopped"}
    /\ status \in {"open", "closed", "failed"}
    /\ health \in {"healthy", "degraded", "failed"}
    /\ pc \in {"loop", "adapter", "drain", "flush", "stop", "verify", "finalize", "done"}
    /\ outcome \in {"recording", "incomplete", "complete"}
    /\ incomplete \in BOOLEAN /\ damaged \in BOOLEAN
    /\ reporting \in [Threads -> Seq(Steps)]
    /\ accepted \in Nat /\ durable \in Nat /\ sequence \in Nat /\ popped \in Nat

HasImpact(s) == \E i \in DOMAIN s : s[i] = "impact"

\* What changes the health is followed by the report of its impact on the session.
ImpactFollows(s) ==
    \A i \in DOMAIN s :
        s[i] \in {"fail", "degrade"} => \E j \in DOMAIN s : j > i /\ s[j] = "impact"

\* A thread that has ended, or never failed, has nothing left to report.
ReportsFit ==
    /\ \A t \in Threads : ImpactFollows(reporting[t])
    /\ adapter = "stopped" => reporting["adapter"] = <<>>
    /\ status # "failed" => reporting["writer"] = <<>>

\* Damage is known to the session, or its report is on the way.
DamageReported ==
    /\ lost # {} => incomplete \/ HasImpact(reporting["adapter"])
    /\ health # "healthy" => incomplete \/ \E t \in Threads : HasImpact(reporting[t])

InFlight == IF inflight = <<>> THEN 0 ELSE 1

\* As long as nothing is damaged each phase of the shutdown leaves what the next one needs.
OrderlyShutdown ==
    /\ ~halted
    /\ pc \notin {"loop", "drain"} => inflight = <<>>
    /\ popped = sequence + InFlight /\ accepted = sequence
    /\ pc \notin {"loop", "adapter"} => adapter = "stopped"
    /\ pc \notin {"loop", "adapter", "drain"} => IsEmpty(ingress)
    /\ pc \in {"verify", "finalize", "done"} => status = "closed"

PhasesFit ==
    /\ ~damaged => OrderlyShutdown
    /\ status = "closed" => durable = accepted
    /\ outcome = "complete" =>
           pc = "done" /\ ~damaged /\ ~incomplete /\ reporting["main"] = <<>>

RecorderInv == RecorderTyped /\ ReportsFit /\ DamageReported /\ PhasesFit

-----------------------------------------------------------------------------
(* Reports *)

\* What run_live, the adapter and the writer report names its impact last but one.
LEMMA FailureReports ==
    Failure \in Seq(Steps) /\ ImpactFollows(Failure) /\ HasImpact(Failure)
<1>1. Failure \in Seq(Steps) /\ DOMAIN Failure = {1, 2, 3}
  BY DEF Failure, Steps
<1>2. Failure[1] = "fail" /\ Failure[2] = "impact" /\ Failure[3] = "shutdown"
  BY DEF Failure
<1> QED BY <1>1, <1>2 DEF ImpactFollows, HasImpact

LEMMA DegradationReports ==
    Degradation \in Seq(Steps) /\ ImpactFollows(Degradation) /\ HasImpact(Degradation)
<1>1. Degradation \in Seq(Steps) /\ DOMAIN Degradation = {1, 2}
  BY DEF Degradation, Steps
<1>2. Degradation[1] = "degrade" /\ Degradation[2] = "impact"
  BY DEF Degradation
<1> QED BY <1>1, <1>2 DEF ImpactFollows, HasImpact

LEMMA ImpactReport ==
    LET s == <<"impact">> IN s \in Seq(Steps) /\ ImpactFollows(s) /\ HasImpact(s)
<1> DEFINE s == <<"impact">>
<1>1. s \in Seq(Steps) /\ DOMAIN s = {1} /\ s[1] = "impact"
  BY DEF Steps
<1> QED BY <1>1 DEF ImpactFollows, HasImpact

LEMMA ReportsConcatenate ==
    ASSUME NEW a \in Seq(Steps), NEW b \in Seq(Steps),
           ImpactFollows(a), HasImpact(a), ImpactFollows(b)
    PROVE  a \o b \in Seq(Steps) /\ ImpactFollows(a \o b) /\ HasImpact(a \o b)
<1> DEFINE s == a \o b
<1>1. s \in Seq(Steps)
  OBVIOUS
<1>2. /\ Len(a) \in Nat /\ Len(b) \in Nat
      /\ DOMAIN s = 1 .. Len(a) + Len(b) /\ DOMAIN a = 1 .. Len(a) /\ DOMAIN b = 1 .. Len(b)
      /\ \A i \in DOMAIN a : s[i] = a[i]
      /\ \A i \in DOMAIN b : s[Len(a) + i] = b[i]
  OBVIOUS
<1>3. \A i \in DOMAIN s : i \in DOMAIN a \/ (i - Len(a) \in DOMAIN b /\ s[i] = b[i - Len(a)])
  OBVIOUS
<1> HIDE DEF s
<1>4. HasImpact(s)
  BY <1>2 DEF HasImpact
<1>5. ASSUME NEW i \in DOMAIN s, s[i] \in {"fail", "degrade"}
      PROVE  \E j \in DOMAIN s : j > i /\ s[j] = "impact"
  <2>1. CASE i \in DOMAIN a
    <3>1. PICK j \in DOMAIN a : j > i /\ a[j] = "impact"
      BY <1>2, <1>5, <2>1 DEF ImpactFollows
    <3> QED BY <1>2, <3>1
  <2>2. CASE i - Len(a) \in DOMAIN b /\ s[i] = b[i - Len(a)]
    <3>1. PICK j \in DOMAIN b : j > i - Len(a) /\ b[j] = "impact"
      BY <1>5, <2>2 DEF ImpactFollows
    <3>2. Len(a) + j \in DOMAIN s /\ Len(a) + j > i /\ s[Len(a) + j] = "impact"
      BY <1>2, <3>1
    <3> QED BY <3>2
  <2> QED BY <1>3, <2>1, <2>2
<1> QED BY <1>1, <1>4, <1>5 DEF ImpactFollows, s

\* The observer's failure, in the drain and in the loop.
LEMMA ObserverReports ==
    ASSUME NEW more \in {<<>>, Failure}
    PROVE  LET s == <<"degrade", "impact", "shutdown">> \o more
           IN  s \in Seq(Steps) /\ ImpactFollows(s) /\ HasImpact(s)
<1> DEFINE a == <<"degrade", "impact", "shutdown">>
<1>1. a \in Seq(Steps) /\ DOMAIN a = {1, 2, 3}
  BY DEF Steps
<1>2. a[1] = "degrade" /\ a[2] = "impact" /\ a[3] = "shutdown"
  OBVIOUS
<1>3. ImpactFollows(a) /\ HasImpact(a)
  BY <1>1, <1>2 DEF ImpactFollows, HasImpact
<1>4. more \in Seq(Steps) /\ ImpactFollows(more)
  <2>1. <<>> \in Seq(Steps) /\ DOMAIN <<>> = {}
    OBVIOUS
  <2> QED BY <2>1, FailureReports DEF ImpactFollows
<1> QED BY <1>1, <1>3, <1>4, ReportsConcatenate

\* One report made: its impact is known now, or still ahead.
LEMMA TailReports ==
    ASSUME NEW s \in Seq(Steps), s # <<>>, ImpactFollows(s)
    PROVE  /\ Tail(s) \in Seq(Steps) /\ Head(s) \in Steps /\ ImpactFollows(Tail(s))
           /\ HasImpact(s) => Head(s) = "impact" \/ HasImpact(Tail(s))
           /\ Head(s) \in {"fail", "degrade"} => HasImpact(Tail(s))
<1>1. /\ Len(s) \in Nat \ {0} /\ DOMAIN s = 1 .. Len(s) /\ Head(s) = s[1] /\ s[1] \in Steps
      /\ Tail(s) \in Seq(Steps) /\ DOMAIN Tail(s) = 1 .. Len(s) - 1
      /\ \A i \in 1 .. Len(s) - 1 : Tail(s)[i] = s[i + 1]
  OBVIOUS
<1>2. \A j \in DOMAIN s : j > 1 => j - 1 \in DOMAIN Tail(s) /\ Tail(s)[j - 1] = s[j]
  BY <1>1
<1>3. ImpactFollows(Tail(s))
  <2> SUFFICES ASSUME NEW i \in DOMAIN Tail(s), Tail(s)[i] \in {"fail", "degrade"}
               PROVE  \E j \in DOMAIN Tail(s) : j > i /\ Tail(s)[j] = "impact"
    BY DEF ImpactFollows
  <2>1. i \in Nat /\ i + 1 \in DOMAIN s /\ s[i + 1] \in {"fail", "degrade"}
    BY <1>1
  <2>2. PICK j \in DOMAIN s : j > i + 1 /\ s[j] = "impact"
    BY <2>1 DEF ImpactFollows
  <2>3. j \in Nat /\ j > 1 /\ j - 1 > i
    BY <1>1, <2>1, <2>2
  <2> QED BY <1>2, <2>2, <2>3
<1>4. HasImpact(s) => Head(s) = "impact" \/ HasImpact(Tail(s))
  <2> SUFFICES ASSUME NEW j \in DOMAIN s, s[j] = "impact", Head(s) # "impact"
               PROVE  HasImpact(Tail(s))
    BY DEF HasImpact
  <2>1. j > 1
    BY <1>1
  <2> QED BY <1>2, <2>1 DEF HasImpact
<1>5. Head(s) \in {"fail", "degrade"} => HasImpact(Tail(s))
  <2> SUFFICES ASSUME s[1] \in {"fail", "degrade"} PROVE HasImpact(Tail(s))
    BY <1>1
  <2>1. PICK j \in DOMAIN s : j > 1 /\ s[j] = "impact"
    BY <1>1 DEF ImpactFollows
  <2> QED BY <1>2, <2>1 DEF HasImpact
<1> QED BY <1>1, <1>3, <1>4, <1>5

\* A thread with nothing left to report reports these steps.
LEMMA NewReports ==
    ASSUME RecorderTyped, ReportsFit, NEW t \in Threads, NEW steps \in Seq(Steps),
           ImpactFollows(steps), HasImpact(steps), reporting[t] = <<>>, Reports(t, steps)
    PROVE  /\ reporting' \in [Threads -> Seq(Steps)]
           /\ reporting'[t] = steps /\ HasImpact(reporting'[t])
           /\ \A u \in Threads : u # t => reporting'[u] = reporting[u]
           /\ \A u \in Threads : ImpactFollows(reporting'[u])
<1>1. <<>> \o steps = steps
  OBVIOUS
<1>2. reporting' = [reporting EXCEPT ![t] = steps]
  BY <1>1 DEF Reports, RecorderTyped
<1>3. /\ reporting' \in [Threads -> Seq(Steps)] /\ reporting'[t] = steps
      /\ \A u \in Threads : u # t => reporting'[u] = reporting[u]
  BY <1>2 DEF RecorderTyped
<1> QED BY <1>3 DEF ReportsFit

\* The part of the invariant that is about reports.
ReportInv == reporting \in [Threads -> Seq(Steps)] /\ ReportsFit /\ DamageReported

\* A step without a report that ends the adapter only when it has nothing to report.
LEMMA SilentStep ==
    ASSUME RecorderInv, UNCHANGED <<reporting, incomplete, health, lost>>,
           adapter' = "stopped" => adapter = "stopped" \/ reporting["adapter"] = <<>>,
           status' # "failed" => status # "failed"
    PROVE  ReportInv'
  BY DEF RecorderInv, RecorderTyped, ReportsFit, DamageReported, ReportInv

\* A step with which a thread that has nothing left to report has these steps to report.
LEMMA LoudStep ==
    ASSUME RecorderInv, NEW t \in Threads, NEW steps \in Seq(Steps),
           ImpactFollows(steps), HasImpact(steps), reporting[t] = <<>>, Reports(t, steps),
           UNCHANGED <<incomplete, health>>, t # "adapter" => UNCHANGED lost,
           adapter' = "stopped" => adapter = "stopped" /\ t # "adapter",
           status' # "failed" => status # "failed" /\ t # "writer"
    PROVE  ReportInv'
<1>1. /\ reporting' \in [Threads -> Seq(Steps)]
      /\ reporting'[t] = steps /\ HasImpact(reporting'[t])
      /\ \A u \in Threads : u # t => reporting'[u] = reporting[u]
      /\ \A u \in Threads : ImpactFollows(reporting'[u])
  BY NewReports DEF RecorderInv
<1>2. "adapter" \in Threads /\ "writer" \in Threads
  BY DEF Threads
<1>3. ReportsFit'
  BY <1>1, <1>2 DEF ReportsFit, RecorderInv
<1>4. DamageReported'
  <2>1. lost' # {} => incomplete' \/ HasImpact(reporting'["adapter"])
    BY <1>1, <1>2 DEF RecorderInv, DamageReported
  <2> QED BY <1>1, <2>1 DEF DamageReported
<1> QED BY <1>1, <1>3, <1>4 DEF ReportInv

\* A report is made: fail and degrade leave their impact ahead, and the impact is noted.
LEMMA ReportMade ==
    ASSUME RecorderInv, NEW t \in Threads, Report(t)
    PROVE  ReportInv' /\ incomplete' \in BOOLEAN /\ health' \in {"healthy", "degraded", "failed"}
           /\ (incomplete' => incomplete \/ reporting[t] # <<>>)
<1> DEFINE s == reporting[t]
<1>1. s \in Seq(Steps) /\ s # <<>> /\ ImpactFollows(s)
  BY DEF RecorderInv, RecorderTyped, ReportsFit, Report
<1>2. /\ Tail(s) \in Seq(Steps) /\ Head(s) \in Steps /\ ImpactFollows(Tail(s))
      /\ HasImpact(s) => Head(s) = "impact" \/ HasImpact(Tail(s))
      /\ Head(s) \in {"fail", "degrade"} => HasImpact(Tail(s))
  BY <1>1, TailReports
<1>3. /\ reporting' \in [Threads -> Seq(Steps)] /\ reporting'[t] = Tail(s)
      /\ \A u \in Threads : u # t => reporting'[u] = reporting[u]
  BY <1>2 DEF Report, RecorderInv, RecorderTyped
<1>4. incomplete' \in BOOLEAN /\ (incomplete => incomplete') /\ (Head(s) = "impact" => incomplete')
  BY Zenon DEF Report
<1>5. UNCHANGED <<lost, adapter, status>>
  BY DEF Report, sink
<1>6. health' # "healthy" => health # "healthy" \/ Head(s) \in {"fail", "degrade"}
  BY DEF Report, Change
<1>7. health' \in {"healthy", "degraded", "failed"}
  BY DEF Report, Change, RecorderInv, RecorderTyped
<1> HIDE DEF s
<1>8. ReportsFit'
  <2>1. \A u \in Threads : ImpactFollows(reporting'[u])
    BY <1>2, <1>3 DEF RecorderInv, ReportsFit
  <2>2. \A u \in Threads : reporting[u] = <<>> => reporting'[u] = <<>>
    BY <1>1, <1>3 DEF s
  <2>3. "adapter" \in Threads /\ "writer" \in Threads
    BY DEF Threads
  <2> QED BY <1>5, <2>1, <2>2, <2>3 DEF RecorderInv, ReportsFit
<1>9. \A u \in Threads : HasImpact(reporting[u]) => incomplete' \/ HasImpact(reporting'[u])
  BY <1>2, <1>3, <1>4 DEF s
<1>10. DamageReported'
  <2>1. "adapter" \in Threads
    BY DEF Threads
  <2>2. lost' # {} => incomplete' \/ HasImpact(reporting'["adapter"])
    BY <1>4, <1>5, <1>9, <2>1 DEF RecorderInv, DamageReported
  <2>3. health' # "healthy" => incomplete' \/ \E u \in Threads : HasImpact(reporting'[u])
    BY <1>2, <1>3, <1>4, <1>6, <1>9 DEF RecorderInv, DamageReported
  <2> QED BY <2>2, <2>3 DEF DamageReported
<1> QED BY <1>1, <1>3, <1>4, <1>7, <1>8, <1>10 DEF ReportInv, s

LEMMA ThreadNames == "adapter" \in Threads /\ "writer" \in Threads /\ "main" \in Threads
  BY DEF Threads

\* A phase of the shutdown that fails is reported as an impact.
LEMMA StepToReports ==
    ASSUME RecorderInv, NEW phase, NEW ok, StepTo(phase, ok), reporting["main"] = <<>>,
           UNCHANGED adapter
    PROVE  ReportInv'
<1>1. UNCHANGED <<incomplete, health, lost, status>>
  BY DEF StepTo, flags, sink
<1>2. CASE UNCHANGED reporting
  BY <1>1, <1>2, SilentStep
<1>3. CASE Reports("main", <<"impact">>)
  BY <1>1, <1>3, LoudStep, ImpactReport, ThreadNames
<1> QED BY <1>2, <1>3 DEF StepTo

\* Every step keeps the reports in order and the damage known.
LEMMA ReportStep ==
    ASSUME RecorderInv, [Next]_vars
    PROVE  ReportInv'
<1>1. CASE \E t \in Threads : Report(t)
  BY <1>1, ReportMade
<1>2. CASE \E kind \in Kinds : Callback(kind)
  <2>1. PICK kind \in Kinds : Callback(kind)
    BY <1>2
  <2> DEFINE event == Captured(kind)
  <2>2. /\ PublishCaptured(event) /\ reporting["adapter"] = <<>>
        /\ UNCHANGED <<incomplete, health, adapter, status>> /\ adapter # "stopped"
    BY <2>1 DEF Callback, flags, sink
  <2> HIDE DEF event
  <2>3. CASE Reports("adapter", Overflow(event.lane))
    <3>1. Overflow(event.lane) \in {Failure, Degradation}
      BY DEF Overflow
    <3>2. /\ Overflow(event.lane) \in Seq(Steps) /\ ImpactFollows(Overflow(event.lane))
          /\ HasImpact(Overflow(event.lane))
      BY <3>1, FailureReports, DegradationReports
    <3> QED BY <2>2, <2>3, <3>2, LoudStep, ThreadNames
  <2>4. CASE UNCHANGED <<lost, reporting>>
    BY <2>2, <2>4, SilentStep
  <2> QED BY <2>2, <2>3, <2>4 DEF PublishCaptured
<1>3. CASE AdapterFails
  <2>1. /\ reporting["adapter"] = <<>> /\ Reports("adapter", Failure) /\ adapter' = "stopping"
        /\ UNCHANGED <<incomplete, health, lost, status>>
    BY <1>3 DEF AdapterFails, flags, sink
  <2> QED BY <2>1, LoudStep, FailureReports, ThreadNames
<1>4. CASE AdapterEnds
  BY <1>4, SilentStep DEF AdapterEnds, flags, sink
<1>5. CASE WriterPersists \/ WriterCloses
  BY <1>5, SilentStep DEF WriterPersists, WriterCloses, Writer!Persist, Writer!Close, flags
<1>6. CASE WriterFails
  <2>1. /\ status = "open" /\ status' = "failed" /\ Reports("writer", Failure)
        /\ UNCHANGED <<incomplete, health, lost, adapter>>
    BY <1>6 DEF WriterFails, Writer!Fail, flags
  <2>2. reporting["writer"] = <<>>
    BY <2>1 DEF RecorderInv, ReportsFit
  <2> QED BY <2>1, <2>2, LoudStep, FailureReports, ThreadNames
<1>7. CASE Pop \/ LeaveLoop \/ IterationsEnd \/ StopAdapter \/ Finalize
  BY <1>7, SilentStep
     DEF Pop, LeaveLoop, IterationsEnd, StopAdapter, Finalize, Main, flags, sink
<1>8. CASE Accept
  BY <1>8, SilentStep DEF Accept, Writer!Accept, flags
<1>9. CASE AcceptFails
  <2>1. /\ reporting["main"] = <<>> /\ Reports("main", Failure)
        /\ UNCHANGED <<incomplete, health, lost, adapter, status>>
    BY <1>9 DEF AcceptFails, Main, flags, sink
  <2> QED BY <2>1, LoudStep, FailureReports, ThreadNames
<1>10. CASE ObserverFails
  <2> DEFINE more == IF pc = "loop" THEN Failure ELSE <<>>
  <2> DEFINE steps == <<"degrade", "impact", "shutdown">> \o more
  <2>1. /\ reporting["main"] = <<>> /\ Reports("main", steps)
        /\ UNCHANGED <<incomplete, health, lost, adapter, status>>
    BY <1>10 DEF ObserverFails, Main, Writer!Accept, flags
  <2>2. more \in {<<>>, Failure}
    OBVIOUS
  <2>3. steps \in Seq(Steps) /\ ImpactFollows(steps) /\ HasImpact(steps)
    BY <2>2, ObserverReports
  <2> HIDE DEF steps
  <2> QED BY <2>1, <2>3, LoudStep, ThreadNames
<1>11. CASE Interrupted
  <2>1. /\ reporting["main"] = <<>> /\ (Reports("main", Failure) \/ UNCHANGED reporting)
        /\ UNCHANGED <<incomplete, health, lost, adapter, status>>
    BY <1>11 DEF Interrupted, Main, flags, sink
  <2> QED BY <2>1, LoudStep, SilentStep, FailureReports, ThreadNames
<1>12. CASE JoinAdapter \/ DrainEnds \/ Flush \/ StopWriter \/ Verify
  <2>1. reporting["main"] = <<>> /\ UNCHANGED adapter /\ \E phase, ok : StepTo(phase, ok)
    BY <1>12, Zenon DEF JoinAdapter, DrainEnds, Flush, StopWriter, Verify, Main
  <2> QED BY <2>1, StepToReports
<1>13. CASE UNCHANGED vars
  BY <1>13, SilentStep DEF vars, flags, sink
<1> QED BY <1>1, <1>2, <1>3, <1>4, <1>5, <1>6, <1>7, <1>8, <1>9, <1>10, <1>11, <1>12, <1>13
        DEF Next, MainStep

\* Every step keeps the types.
LEMMA TypedStep ==
    ASSUME RecorderInv, [Next]_vars
    PROVE  RecorderTyped'
<1>0. reporting' \in [Threads -> Seq(Steps)] /\ RecorderTyped
  BY ReportStep DEF ReportInv, RecorderInv
<1>1. CASE \E t \in Threads : Report(t)
  <2>1. PICK t \in Threads : Report(t)
    BY <1>1
  <2>2. incomplete' \in BOOLEAN /\ health' \in {"healthy", "degraded", "failed"}
    BY <2>1, ReportMade
  <2> QED BY <2>1, <2>2, <1>0 DEF Report, sink, main, RecorderTyped
<1>2. CASE \E kind \in Kinds : Callback(kind)
  BY <1>2, <1>0 DEF Callback, PublishCaptured, sink, flags, main, RecorderTyped
<1>3. CASE AdapterFails
  BY <1>3, <1>0 DEF AdapterFails, sink, flags, main, RecorderTyped
<1>4. CASE AdapterEnds
  BY <1>4, <1>0 DEF AdapterEnds, sink, flags, main, RecorderTyped
<1>5. CASE WriterPersists
  BY <1>5, <1>0 DEF WriterPersists, Writer!Persist, sink, flags, main, RecorderTyped
<1>6. CASE WriterCloses
  BY <1>6, <1>0 DEF WriterCloses, Writer!Close, sink, flags, main, RecorderTyped
<1>7. CASE WriterFails
  BY <1>7, <1>0 DEF WriterFails, Writer!Fail, sink, flags, main, RecorderTyped
<1>8. CASE Pop
  BY <1>8, <1>0 DEF Pop, Main, sink, flags, main, RecorderTyped
<1>9. CASE Accept
  BY <1>9, <1>0 DEF Accept, Writer!Accept, Main, sink, flags, main, RecorderTyped
<1>10. CASE AcceptFails
  BY <1>10, <1>0 DEF AcceptFails, Main, NextPhase, sink, flags, main, RecorderTyped
<1>11. CASE ObserverFails
  BY <1>11, <1>0 DEF ObserverFails, Writer!Accept, Main, NextPhase, sink, flags, main,
       RecorderTyped
<1>12. CASE Interrupted
  BY <1>12, <1>0 DEF Interrupted, Main, NextPhase, sink, flags, main, RecorderTyped
<1>13. CASE LeaveLoop
  BY <1>13, <1>0 DEF LeaveLoop, Main, sink, flags, main, RecorderTyped
<1>14. CASE IterationsEnd
  BY <1>14, <1>0 DEF IterationsEnd, Main, sink, flags, main, RecorderTyped
<1>15. CASE StopAdapter
  BY <1>15, <1>0 DEF StopAdapter, Main, sink, flags, main, RecorderTyped
<1>16. CASE JoinAdapter
  BY <1>16, <1>0 DEF JoinAdapter, AdapterJoined, StepTo, Main, sink, flags, main,
       RecorderTyped
<1>17. CASE DrainEnds
  BY <1>17, <1>0 DEF DrainEnds, StepTo, Main, sink, flags, main, RecorderTyped
<1>18. CASE Flush
  BY <1>18, <1>0 DEF Flush, StepTo, Main, sink, flags, main, RecorderTyped
<1>19. CASE StopWriter
  BY <1>19, <1>0 DEF StopWriter, StepTo, Main, sink, flags, main, RecorderTyped
<1>20. CASE Verify
  BY <1>20, <1>0 DEF Verify, StepTo, Main, sink, flags, main, RecorderTyped
<1>21. CASE Finalize
  BY <1>21, <1>0 DEF Finalize, EffectiveTerminalStatus, Main, sink, flags, main,
       RecorderTyped
<1>22. CASE UNCHANGED vars
  BY <1>22, <1>0 DEF vars, sink, flags, main, RecorderTyped
<1> QED BY <1>1, <1>2, <1>3, <1>4, <1>5, <1>6, <1>7, <1>8, <1>9, <1>10, <1>11, <1>12,
     <1>13, <1>14, <1>15, <1>16, <1>17, <1>18, <1>19, <1>20, <1>21, <1>22 DEF Next,
     MainStep

\* Every step keeps the order of the shutdown.
LEMMA PhasesStep ==
    ASSUME RecorderInv, [Next]_vars
    PROVE  PhasesFit'
<1>0. RecorderTyped /\ PhasesFit
  BY DEF RecorderInv
<1>1. CASE \E t \in Threads : Report(t)
  <2>1. PICK t \in Threads : Report(t)
    BY <1>1
  <2>2. UNCHANGED <<ingress, sink, adapter, main>> /\ reporting[t] # <<>>
    BY <2>1 DEF Report
  <2>3. outcome # "complete"
    BY <1>0, <2>2 DEF RecorderInv, ReportsFit, PhasesFit, OrderlyShutdown, Threads
  <2> QED BY <1>0, <2>2, <2>3 DEF PhasesFit, OrderlyShutdown, InFlight, sink, main
<1>2. CASE \E kind \in Kinds : Callback(kind)
  BY <1>2, <1>0 DEF Callback, PublishCaptured, sink, flags, main, RecorderTyped,
       PhasesFit, OrderlyShutdown, InFlight, Threads
<1>3. CASE AdapterFails
  BY <1>3, <1>0 DEF AdapterFails, sink, flags, main, RecorderTyped, PhasesFit,
       OrderlyShutdown, InFlight, Threads
<1>4. CASE AdapterEnds
  BY <1>4, <1>0 DEF AdapterEnds, sink, flags, main, RecorderTyped, PhasesFit,
       OrderlyShutdown, InFlight, Threads
<1>5. CASE WriterPersists
  BY <1>5, <1>0 DEF WriterPersists, Writer!Persist, sink, flags, main, RecorderTyped,
       PhasesFit, OrderlyShutdown, InFlight, Threads
<1>6. CASE WriterCloses
  BY <1>6, <1>0 DEF WriterCloses, Writer!Close, sink, flags, main, RecorderTyped,
       PhasesFit, OrderlyShutdown, InFlight, Threads
<1>7. CASE WriterFails
  BY <1>7, <1>0 DEF WriterFails, Writer!Fail, sink, flags, main, RecorderTyped, PhasesFit,
       OrderlyShutdown, InFlight, Threads
<1>8. CASE Pop
  BY <1>8, <1>0 DEF Pop, Main, sink, flags, main, RecorderTyped, PhasesFit,
       OrderlyShutdown, InFlight, Threads
<1>9. CASE Accept
  BY <1>9, <1>0 DEF Accept, Writer!Accept, Main, sink, flags, main, RecorderTyped,
       PhasesFit, OrderlyShutdown, InFlight, Threads
<1>10. CASE AcceptFails
  BY <1>10, <1>0 DEF AcceptFails, Main, NextPhase, sink, flags, main, RecorderTyped,
       PhasesFit, OrderlyShutdown, InFlight, Threads
<1>11. CASE ObserverFails
  BY <1>11, <1>0 DEF ObserverFails, Writer!Accept, Main, NextPhase, sink, flags, main,
       RecorderTyped, PhasesFit, OrderlyShutdown, InFlight, Threads
<1>12. CASE Interrupted
  BY <1>12, <1>0 DEF Interrupted, Main, NextPhase, sink, flags, main, RecorderTyped,
       PhasesFit, OrderlyShutdown, InFlight, Threads
<1>13. CASE LeaveLoop
  BY <1>13, <1>0 DEF LeaveLoop, Main, sink, flags, main, RecorderTyped, PhasesFit,
       OrderlyShutdown, InFlight, Threads
<1>14. CASE IterationsEnd
  BY <1>14, <1>0 DEF IterationsEnd, Main, sink, flags, main, RecorderTyped, PhasesFit,
       OrderlyShutdown, InFlight, Threads
<1>15. CASE StopAdapter
  BY <1>15, <1>0 DEF StopAdapter, Main, sink, flags, main, RecorderTyped, PhasesFit,
       OrderlyShutdown, InFlight, Threads
<1>16. CASE JoinAdapter
  BY <1>16, <1>0 DEF JoinAdapter, AdapterJoined, StepTo, Main, sink, flags, main,
       RecorderTyped, PhasesFit, OrderlyShutdown, InFlight, Threads
<1>17. CASE DrainEnds
  BY <1>17, <1>0 DEF DrainEnds, StepTo, Main, sink, flags, main, RecorderTyped, PhasesFit,
       OrderlyShutdown, InFlight, Threads
<1>18. CASE Flush
  BY <1>18, <1>0 DEF Flush, StepTo, Main, sink, flags, main, RecorderTyped, PhasesFit,
       OrderlyShutdown, InFlight, Threads
<1>19. CASE StopWriter
  BY <1>19, <1>0 DEF StopWriter, StepTo, Main, sink, flags, main, RecorderTyped,
       PhasesFit, OrderlyShutdown, InFlight, Threads
<1>20. CASE Verify
  BY <1>20, <1>0 DEF Verify, StepTo, Main, sink, flags, main, RecorderTyped, PhasesFit,
       OrderlyShutdown, InFlight, Threads
<1>21. CASE Finalize
  BY <1>21, <1>0 DEF Finalize, EffectiveTerminalStatus, Main, sink, flags, main,
       RecorderTyped, PhasesFit, OrderlyShutdown, InFlight, Threads
<1>22. CASE UNCHANGED vars
  BY <1>22, <1>0 DEF vars, sink, flags, main, RecorderTyped, PhasesFit, OrderlyShutdown,
       InFlight, Threads
<1> QED BY <1>1, <1>2, <1>3, <1>4, <1>5, <1>6, <1>7, <1>8, <1>9, <1>10, <1>11, <1>12,
     <1>13, <1>14, <1>15, <1>16, <1>17, <1>18, <1>19, <1>20, <1>21, <1>22 DEF Next,
     MainStep

-----------------------------------------------------------------------------
(* The theorems *)

\* The invariant holds when the adapter runs and the session has begun, and every step of
\* the three threads keeps it.
THEOREM RecorderInvariant == Spec => []RecorderInv
<1>1. Init => RecorderInv
  <2> SUFFICES ASSUME Init PROVE RecorderInv
    OBVIOUS
  <2>1. \A t \in Threads : reporting[t] = <<>>
    BY DEF Init
  <2>2. reporting \in [Threads -> Seq(Steps)]
    BY DEF Init
  <2>3. RecorderTyped
    BY <2>2 DEF Init, RecorderTyped, Writer!Init
  <2>4. ReportsFit
    BY <2>1, ThreadNames DEF ReportsFit, ImpactFollows
  <2>5. DamageReported /\ PhasesFit
    BY DEF Init, Writer!Init, DamageReported, PhasesFit, OrderlyShutdown, InFlight
  <2> QED BY <2>3, <2>4, <2>5 DEF RecorderInv
<1>2. RecorderInv /\ [Next]_vars => RecorderInv'
  BY ReportStep, TypedStep, PhasesStep DEF RecorderInv, ReportInv
<1> QED BY <1>1, <1>2, PTL DEF Spec

\* A session whose outcome is complete has lost no event, left none in the ingress or in
\* flight, and every event its callbacks captured was numbered, accepted and made durable
\* by a writer that closed in order; no report of any thread is on the way.
THEOREM CompleteIsRecorded == Spec => []CompleteMeansRecorded
<1>1. RecorderInv => CompleteMeansRecorded
  <2> SUFFICES ASSUME RecorderInv, outcome = "complete"
               PROVE  /\ lost = {} /\ IsEmpty(ingress) /\ inflight = <<>>
                      /\ adapter = "stopped" /\ \A t \in Threads : reporting[t] = <<>>
                      /\ status = "closed" /\ popped = sequence /\ accepted = sequence
                      /\ durable = sequence /\ health = "healthy"
    BY DEF CompleteMeansRecorded
  <2>1. /\ IsEmpty(ingress) /\ inflight = <<>> /\ adapter = "stopped" /\ status = "closed"
        /\ reporting["main"] = <<>> /\ ~incomplete
        /\ popped = sequence + InFlight /\ accepted = sequence /\ durable = accepted
    BY DEF RecorderInv, PhasesFit, OrderlyShutdown
  <2>2. \A t \in Threads : reporting[t] = <<>>
    BY <2>1 DEF RecorderInv, ReportsFit, Threads
  <2>3. \A t \in Threads : ~HasImpact(reporting[t])
    BY <2>2 DEF HasImpact
  <2>4. lost = {} /\ health = "healthy"
    BY <2>1, <2>3, ThreadNames DEF RecorderInv, DamageReported
  <2>5. popped = sequence
    BY <2>1 DEF InFlight, RecorderInv, RecorderTyped
  <2> QED BY <2>1, <2>2, <2>4, <2>5
<1> QED BY <1>1, RecorderInvariant, PTL
=============================================================================
