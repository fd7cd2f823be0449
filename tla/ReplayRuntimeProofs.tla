------------------------- MODULE ReplayRuntimeProofs -------------------------
(***************************************************************************)
(* Proofs about the replay runtime: for every session, starting cursor and *)
(* set of client threads, and whatever the source yields, the sink is      *)
(* served in order, COMPLETED is reported only of the plan, and a request  *)
(* wakes the sleeping worker.                                              *)
(***************************************************************************)
EXTENDS ReplayRuntime, WellFoundedInduction, SequenceTheorems, TLAPS

-----------------------------------------------------------------------------
(* The plan *)

\* The positions from which on the session lies after the cursor.
LEMMA FirstPlannedExists ==
    /\ FirstPlanned \in 1 .. Len(Session) + 1
    /\ \A j \in DOMAIN Session : j < FirstPlanned <=> Session[j] <= After
  <1> DEFINE N == Len(Session)
             Fits(i) == \A j \in DOMAIN Session : j < i <=> Session[j] <= After
             T == {i \in 1 .. N + 1 : i \in DOMAIN Session => Session[i] > After}
  <1>1. /\ N \in Nat /\ DOMAIN Session = 1 .. N /\ After \in Int
        /\ \A i \in 1 .. N : Session[i] \in Nat
        /\ \A i, j \in 1 .. N : i < j => Session[i] < Session[j]
    <2>1. Session \in Seq(Nat \ {0}) /\ Session # <<>> /\ After \in 0 .. Last(Session)
          /\ \A i, j \in DOMAIN Session : i < j => Session[i] < Session[j]
      BY ReplayAssumption
    <2>2. N \in Nat /\ N # 0 /\ DOMAIN Session = 1 .. N /\ \A i \in 1 .. N : Session[i] \in Nat
      BY <2>1
    <2>3. After \in Int
      BY <2>1
    <2> QED
      BY <2>1, <2>2, <2>3
  <1>2. PICK i \in T : \A j \in T : ~(j < i)
    <2>1. T \subseteq Nat /\ N + 1 \in T
      BY <1>1
    <2>2. \E i \in T : \A j \in T : ~(<<j, i>> \in OpToRel(<, Nat))
      BY <2>1, NatLessThanWellFounded, WFMin, Zenon
    <2> QED
      BY <2>1, <2>2 DEF OpToRel
  <1>3. Fits(i)
    <2> SUFFICES ASSUME NEW j \in 1 .. N PROVE j < i <=> Session[j] <= After
      BY <1>1
    <2>1. CASE j < i
      BY <1>1, <1>2, <2>1
    <2>2. CASE j = i
      BY <1>1, <1>2, <2>2
    <2>3. CASE i < j
      BY <1>1, <1>2, <2>3
    <2> QED
      BY <1>1, <1>2, <2>1, <2>2, <2>3
  <1>4. i \in 1 .. N + 1
    BY <1>2
  <1> HIDE DEF Fits
  <1>5. LET k == CHOOSE k \in 1 .. N + 1 : Fits(k) IN k \in 1 .. N + 1 /\ Fits(k)
    BY <1>3, <1>4
  <1> QED
    BY <1>5 DEF Fits, FirstPlanned

LEMMA IntervalOfNat ==
    ASSUME NEW a \in Nat, NEW b \in Nat, NEW x \in a .. b
    PROVE  x \in Nat
  OBVIOUS

LEMMA SessionEnds == Head(Session) \in Nat /\ Last(Session) \in Nat
  <1> DEFINE N == Len(Session)
  <1>1. Session \in Seq(Nat \ {0}) /\ Session # <<>>
    BY ReplayAssumption
  <1>2. N \in Nat /\ N # 0
    BY <1>1
  <1>3. 1 \in 1 .. N /\ N \in 1 .. N
    BY <1>2
  <1>4. Session[1] \in Nat /\ Session[N] \in Nat
    BY <1>1, <1>3
  <1>5. Head(Session) = Session[1]
    BY <1>1
  <1> QED
    BY <1>4, <1>5 DEF Last

LEMMA AfterIsNat == After \in Nat
  <1>1. Last(Session) \in Int /\ After \in 0 .. Last(Session)
    BY ReplayAssumption DEF Last
  <1> QED
    BY <1>1

LEMMA PlannedSequence == Planned \in Seq(Nat) /\ Len(Planned) \in Nat
  <1>1. Session \in Seq(Nat)
    BY ReplayAssumption
  <1>2. FirstPlanned \in 1 .. Len(Session) + 1 /\ Len(Session) \in Nat
    BY <1>1, FirstPlannedExists
  <1>3. Planned \in Seq(Nat)
    BY <1>1, <1>2, SubSeqProperties DEF Planned
  <1> QED
    BY <1>3

\* The plan holds the events after the cursor, all of them, in ascending order.
LEMMA PlanIsTheRest ==
    /\ \A j \in DOMAIN Session :
          Session[j] > After <=> \E i \in DOMAIN Planned : Planned[i] = Session[j]
    /\ \A i, k \in DOMAIN Planned : i < k => Planned[i] < Planned[k]
  <1> DEFINE N == Len(Session)
             F == FirstPlanned
  <1>1. /\ Session \in Seq(Nat) /\ N \in Nat /\ DOMAIN Session = 1 .. N
        /\ \A i, j \in 1 .. N : i < j => Session[i] < Session[j]
        /\ \A i \in 1 .. N : Session[i] \in Nat
    BY ReplayAssumption
  <1>2. After \in Int
    <2>1. Last(Session) \in Int /\ After \in 0 .. Last(Session)
      BY ReplayAssumption DEF Last
    <2> QED
      BY <2>1
  <1>3. F \in 1 .. N + 1 /\ \A j \in 1 .. N : j < F <=> Session[j] <= After
    BY <1>1, FirstPlannedExists
  <1>4. DOMAIN Planned = 1 .. N - F + 1 /\ \A i \in 1 .. N - F + 1 : Planned[i] = Session[F + i - 1]
    BY <1>1, <1>3, SubSeqProperties DEF Planned
  <1> HIDE DEF F, N
  <1>5. ASSUME NEW j \in 1 .. N
        PROVE  Session[j] > After <=> \E i \in DOMAIN Planned : Planned[i] = Session[j]
    <2>1. ASSUME Session[j] > After PROVE \E i \in DOMAIN Planned : Planned[i] = Session[j]
      <3>1. ~(j < F)
        BY <2>1, <1>1, <1>2, <1>3
      <3>2. j - F + 1 \in 1 .. N - F + 1 /\ F + (j - F + 1) - 1 = j
        BY <3>1, <1>1, <1>3
      <3> QED
        BY <3>2, <1>4
    <2>2. ASSUME NEW i \in DOMAIN Planned, Planned[i] = Session[j] PROVE Session[j] > After
      <3>1. F + i - 1 \in 1 .. N /\ ~(F + i - 1 < F)
        BY <1>1, <1>3, <1>4
      <3>2. ~(Session[F + i - 1] <= After)
        BY <3>1, <1>3
      <3>3. Session[F + i - 1] = Session[j] /\ Session[j] \in Nat
        BY <2>2, <1>1, <1>4
      <3> QED
        BY <3>2, <3>3, <1>2
    <2> QED
      BY <2>1, <2>2
  <1>6. \A i, k \in DOMAIN Planned : i < k => Planned[i] < Planned[k]
    <2> SUFFICES ASSUME NEW i \in 1 .. N - F + 1, NEW k \in 1 .. N - F + 1, i < k
                 PROVE  Planned[i] < Planned[k]
      BY <1>4
    <2>1. F + i - 1 \in 1 .. N /\ F + k - 1 \in 1 .. N /\ F + i - 1 < F + k - 1
      BY <1>1, <1>3
    <2> QED
      BY <2>1, <1>1, <1>4
  <1> QED
    BY <1>1, <1>5, <1>6

\* An ascending list of as many events, all of them of the plan, is the plan.
LEMMA AscendingPlan ==
    ASSUME NEW q \in Seq(Nat), Len(q) = Len(Planned),
           \A i, j \in DOMAIN q : i < j => q[i] < q[j],
           \A i \in DOMAIN q : \E k \in DOMAIN Planned : Planned[k] = q[i]
    PROVE  q = Planned
  <1> DEFINE P == Planned
             n == Len(P)
             f == [i \in 1 .. n |-> CHOOSE k \in 1 .. n : P[k] = q[i]]
  <1>1. /\ P \in Seq(Nat) /\ n \in Nat /\ DOMAIN P = 1 .. n /\ DOMAIN q = 1 .. n
        /\ \A i \in 1 .. n : P[i] \in Nat /\ q[i] \in Nat
    BY PlannedSequence
  <1>2. \A i, k \in 1 .. n : i < k => P[i] < P[k]
    BY <1>1, PlanIsTheRest
  <1>3. \A i, k \in 1 .. n : i < k => q[i] < q[k]
    BY <1>1
  <1>4. \A i \in 1 .. n : f[i] \in 1 .. n /\ P[f[i]] = q[i]
    <2> TAKE i \in 1 .. n
    <2>1. \E k \in 1 .. n : P[k] = q[i]
      BY <1>1
    <2> QED
      BY <2>1
  <1> HIDE DEF f, P, n
  <1>5. \A i, k \in 1 .. n : i < k => f[i] < f[k]
    <2> TAKE i, k \in 1 .. n
    <2> HAVE i < k
    <2>1. P[f[i]] < P[f[k]]
      BY <1>3, <1>4
    <2>2. /\ f[i] \in 1 .. n /\ f[k] \in 1 .. n
          /\ P[f[i]] \in Nat /\ P[f[k]] \in Nat
      BY <1>1, <1>4
    <2>3. f[k] # f[i]
      BY <2>1, <2>2
    <2>4. ~(f[k] < f[i])
      <3>1. f[k] < f[i] => P[f[k]] < P[f[i]]
        BY <2>2, <1>2
      <3> QED
        BY <2>1, <2>2, <3>1
    <2>5. f[i] \in Nat /\ f[k] \in Nat
      <3>1. 1 \in Nat /\ n \in Nat
        BY <1>1
      <3> QED
        BY <2>2, <3>1, IntervalOfNat, Zenon
    <2> QED
      BY <2>3, <2>4, <2>5
  <1>6. \A i \in 1 .. n : f[i] >= i
    <2> DEFINE T == {i \in 1 .. n : f[i] < i}
    <2> SUFFICES ASSUME NEW a \in 1 .. n, ~(f[a] >= a) PROVE FALSE
      OBVIOUS
    <2>0. a \in T
      <3>1. f[a] < a
        BY <1>1, <1>4
      <3> QED
        BY <3>1
    <2>1. PICK i \in T : \A j \in T : ~(j < i)
      <3>1. T \subseteq Nat
        BY <1>1
      <3>2. \E i \in T : \A j \in T : ~(<<j, i>> \in OpToRel(<, Nat))
        BY <2>0, <3>1, NatLessThanWellFounded, WFMin, Zenon
      <3> QED
        BY <3>1, <3>2 DEF OpToRel
    <2>2. f[i] \in 1 .. n /\ i \in 1 .. n /\ f[i] < i
      BY <2>1, <1>4
    <2>3. f[f[i]] < f[i]
      BY <2>2, <1>5
    <2> QED
      BY <2>1, <2>2, <2>3, <1>1
  <1>7. \A i \in 1 .. n : f[i] <= i
    <2> DEFINE T == {m \in 0 .. n : n - m \in 1 .. n /\ f[n - m] > n - m}
    <2>0. ASSUME NEW i \in 1 .. n, ~(f[i] <= i) PROVE FALSE
      <3>0. n - i \in T
        <4>1. n - i \in 0 .. n /\ n - (n - i) = i
          BY <1>1
        <4>2. f[i] > i
          BY <2>0, <1>1, <1>4
        <4> QED
          BY <4>1, <4>2
      <3>1. PICK m \in T : \A j \in T : ~(j < m)
        <4>1. T \subseteq Nat
          BY <1>1
        <4>2. \E m \in T : \A j \in T : ~(<<j, m>> \in OpToRel(<, Nat))
          BY <4>1, <3>0, NatLessThanWellFounded, WFMin, Zenon
        <4> QED
          BY <4>1, <4>2 DEF OpToRel
      <3> DEFINE k == n - m
      <3>2. k \in 1 .. n /\ f[k] > k /\ f[k] \in 1 .. n /\ m \in 0 .. n
        BY <3>1, <1>4
      <3>3. k + 1 \in 1 .. n /\ m - 1 \in 0 .. n /\ n - (m - 1) = k + 1 /\ k < k + 1
        BY <3>2, <1>1
      <3>4. f[k + 1] > k + 1
        <4> HIDE DEF k
        <4>1. f[k] < f[k + 1]
          BY <3>2, <3>3, <1>5
        <4>2. f[k + 1] \in 1 .. n
          BY <3>3, <1>4
        <4>3. k \in Nat /\ f[k] \in Nat /\ f[k + 1] \in Nat /\ f[k] > k
          <5>1. 1 \in Nat /\ n \in Nat
            BY <1>1
          <5> QED
            BY <3>2, <4>2, <5>1, IntervalOfNat, Zenon
        <4> QED
          BY <4>1, <4>3
      <3>5. m - 1 \in T
        <4>1. n - (m - 1) \in 1 .. n /\ f[n - (m - 1)] > n - (m - 1)
          BY <3>3, <3>4, Zenon
        <4> QED
          BY <3>3, <4>1, Zenon
      <3>6. m - 1 < m
        BY <3>2, <1>1
      <3> QED
        BY <3>1, <3>5, <3>6, Zenon
    <2> QED
      BY <2>0
  <1>8. \A i \in 1 .. n : q[i] = P[i]
    <2> TAKE i \in 1 .. n
    <2>1. f[i] = i
      BY <1>1, <1>4, <1>6, <1>7
    <2> QED
      BY <2>1, <1>4
  <1> QED
    BY <1>1, <1>8, SeqEqual DEF P, n

-----------------------------------------------------------------------------
(* The inductive invariant *)

WorkerPlaces ==
    {"unstarted", "open", "ack next", "paused next", "next", "ack wait", "paused wait", "arm",
     "timer", "ack publish", "paused publish", "publish", "record", "finish", "ended"}

\* Between taking an event and having recorded it.
Holding ==
    {"ack wait", "paused wait", "arm", "timer", "ack publish", "paused publish", "publish", "record"}

TypeOK ==
    /\ state \in {"ready", "running", "paused", "stopped", "completed", "failed"}
    /\ pause \in BOOLEAN /\ stop \in BOOLEAN /\ wake \in BOOLEAN
    /\ worker \in WorkerPlaces
    /\ emitted \in Nat /\ cursor \in Nat /\ envelope \in Nat
    /\ published \in Seq(Nat)

\* The envelope in hand, the count, the cursor and the sink move together.
ProgressAgrees ==
    /\ Len(published) = IF worker = "record" THEN emitted + 1 ELSE emitted
    /\ \A i, j \in 1 .. Len(published) : i < j => published[i] < published[j]
    /\ \A i \in 1 .. Len(published) : published[i] > After
    /\ cursor = IF emitted = 0 THEN After ELSE published[emitted]
    /\ worker \in Holding =>
          IF worker = "record" THEN envelope = published[emitted + 1] ELSE envelope > cursor

\* The thread of a runtime that is ready does not exist, and a completed one has ended
\* after all of the plan.
WorkerAgrees ==
    /\ state = "ready" => worker = "unstarted"
    /\ state = "completed" => worker = "ended" /\ emitted = Len(Planned)

ReplayInv == TypeOK /\ ProgressAgrees /\ WorkerAgrees /\ SleepingWorkerIsWoken

LEMMA ReplayInit == Init => ReplayInv
  <1> SUFFICES ASSUME Init PROVE ReplayInv
    OBVIOUS
  <1>1. TypeOK
    <2>1. <<>> \in Seq(Nat) /\ FALSE \in BOOLEAN /\ After \in Nat /\ 0 \in Nat
      BY EmptySeq, AfterIsNat
    <2> QED
      BY <2>1 DEF Init, TypeOK, WorkerPlaces
  <1>2. ProgressAgrees
    BY DEF Init, ProgressAgrees, Holding
  <1>3. WorkerAgrees /\ SleepingWorkerIsWoken
    BY DEF Init, WorkerAgrees, SleepingWorkerIsWoken
  <1> QED
    BY <1>1, <1>2, <1>3 DEF ReplayInv

\* A step that leaves the progress alone and the worker out of it, or takes it through
\* places where nothing is recorded.
LEMMA QuietStep ==
    ASSUME ReplayInv, UNCHANGED progress, TypeOK', WorkerAgrees', SleepingWorkerIsWoken',
           worker' = worker
           \/ (worker # "record" /\ worker' # "record" /\ (worker' \in Holding => worker \in Holding))
    PROVE  ReplayInv'
  <1>1. ProgressAgrees'
    BY DEF ReplayInv, ProgressAgrees, progress, Holding
  <1> QED
    BY <1>1 DEF ReplayInv

LEMMA ClientSteps ==
    ASSUME ReplayInv, NEW c \in Clients, ClientCall(c) \/ ClientReturn(c) \/ TimesOut(c)
    PROVE  ReplayInv'
  <1>1. CASE Start(c)
    <2>1. TypeOK' /\ WorkerAgrees' /\ SleepingWorkerIsWoken' /\ UNCHANGED progress
      BY <1>1 DEF Start, ReplayInv, TypeOK, WorkerAgrees, SleepingWorkerIsWoken, WorkerPlaces,
                  progress, control
    <2>2. worker # "record" /\ worker' = "open"
      BY <1>1 DEF Start, ReplayInv, WorkerAgrees
    <2> QED
      BY <2>1, <2>2, QuietStep DEF Holding
  <1>2. CASE Pause(c) \/ Resume(c) \/ Stop(c)
    <2>1. TypeOK' /\ UNCHANGED progress /\ worker' = worker
      BY <1>2 DEF Pause, Resume, Stop, ReplayInv, TypeOK, progress, control
    <2>2. WorkerAgrees'
      BY <1>2 DEF Pause, Resume, Stop, ReplayInv, WorkerAgrees, progress, control, Terminal
    <2>3. SleepingWorkerIsWoken'
      BY <1>2 DEF Pause, Resume, Stop, ReplayInv, WorkerAgrees, SleepingWorkerIsWoken, progress,
                  control, Terminal
    <2> QED
      BY <2>1, <2>2, <2>3, QuietStep
  <1>3. CASE Wait(c) \/ ClientReturn(c) \/ TimesOut(c)
    <2>1. UNCHANGED <<state, control, worker, progress>>
      BY <1>3 DEF Wait, ClientReturn, TimesOut, PauseReturns, JoinReturns, WaitReturns
    <2>2. TypeOK' /\ WorkerAgrees' /\ SleepingWorkerIsWoken'
      BY <2>1 DEF ReplayInv, TypeOK, WorkerAgrees, SleepingWorkerIsWoken, progress, control
    <2> QED
      BY <2>1, <2>2, QuietStep
  <1> QED
    BY <1>1, <1>2, <1>3 DEF ClientCall

LEMMA Moves ==
    ASSUME ReplayInv, NEW place \in WorkerPlaces \ {"timer", "record"}, Goto(place),
           worker \notin {"record", "unstarted", "ended"},
           place \in Holding => worker \in Holding
    PROVE  ReplayInv'
  <1>1. UNCHANGED <<state, control, progress>> /\ worker' = place
    BY DEF Goto
  <1>2. TypeOK' /\ WorkerAgrees' /\ SleepingWorkerIsWoken'
    BY <1>1 DEF ReplayInv, TypeOK, WorkerAgrees, SleepingWorkerIsWoken, progress, control
  <1> QED
    BY <1>1, <1>2, QuietStep

LEMMA Fails ==
    ASSUME ReplayInv, Failing, worker \notin {"record", "unstarted", "ended"}
    PROVE  ReplayInv'
  <1>1. UNCHANGED <<control, progress>> /\ worker' = "ended"
    BY DEF Failing
  <1>2. state' \in {"stopped", "failed"}
    BY DEF Failing, Terminal, ReplayInv, WorkerAgrees
  <1>3. TypeOK' /\ WorkerAgrees' /\ SleepingWorkerIsWoken'
    BY <1>1, <1>2 DEF ReplayInv, TypeOK, WorkerAgrees, SleepingWorkerIsWoken, progress, control,
                      WorkerPlaces
  <1> QED
    BY <1>1, <1>3, QuietStep DEF Holding

LEMMA ControlSteps ==
    ASSUME ReplayInv, AcknowledgeControls \/ LeavePause
    PROVE  ReplayInv'
  <1>1. ASSUME NEW at, NEW paused, NEW then, Acknowledge(at, paused, then) \/ EndPause(paused, then),
               <<at, paused, then>> \in {<<"ack next", "paused next", "next">>,
                                         <<"ack wait", "paused wait", "arm">>,
                                         <<"ack publish", "paused publish", "publish">>}
        PROVE  ReplayInv'
    <2>1. /\ UNCHANGED <<control, progress>> /\ worker \in {at, paused}
          /\ worker' \in {"ended", paused, then}
          /\ state' \in {"stopped", "paused", "running", state}
      BY <1>1 DEF Acknowledge, EndPause
    <2>2. /\ worker \notin {"ended", "unstarted", "record", "timer"}
          /\ worker' \notin {"unstarted", "record", "timer"} /\ worker' \in WorkerPlaces
          /\ worker' \in Holding => worker \in Holding
      BY <1>1, <2>1 DEF WorkerPlaces, Holding
    <2>3. TypeOK' /\ WorkerAgrees' /\ SleepingWorkerIsWoken'
      BY <2>1, <2>2 DEF ReplayInv, TypeOK, WorkerAgrees, SleepingWorkerIsWoken, progress, control
    <2> QED
      BY <2>1, <2>2, <2>3, QuietStep
  <1> QED
    BY <1>1 DEF AcknowledgeControls, LeavePause

LEMMA RecordStep ==
    ASSUME ReplayInv, Record
    PROVE  ReplayInv'
  <1>1. /\ worker = "record" /\ cursor' = envelope /\ emitted' = emitted + 1
        /\ worker' = "ack next" /\ published' = published /\ envelope' = envelope
        /\ UNCHANGED <<state, pause, stop, wake>>
    BY DEF Record, control
  <1>a. emitted' = emitted + 1
    BY <1>1, Zenon
  <1>2. /\ emitted \in Nat /\ envelope \in Nat /\ Len(published) = emitted + 1
        /\ envelope = published[emitted + 1]
    BY <1>1 DEF ReplayInv, ProgressAgrees, TypeOK, Holding
  <1>3. TypeOK'
    <2>1. emitted' \in Nat
      BY <1>2, <1>a
    <2> QED
      BY <2>1, <1>1, <1>2 DEF ReplayInv, TypeOK, WorkerPlaces
  <1>4. WorkerAgrees' /\ SleepingWorkerIsWoken'
    BY <1>1 DEF ReplayInv, WorkerAgrees, SleepingWorkerIsWoken
  <1>5. cursor' = IF emitted' = 0 THEN After ELSE published'[emitted']
    <2>1. emitted' # 0
      BY <1>2, <1>a
    <2> QED
      BY <2>1, <1>1, <1>2, <1>a, Zenon
  <1>6. Len(published') = emitted'
    BY <1>1, <1>2
  <1>7. /\ \A i, j \in 1 .. Len(published') : i < j => published'[i] < published'[j]
        /\ \A i \in 1 .. Len(published') : published'[i] > After
    BY <1>1, Zenon DEF ReplayInv, ProgressAgrees
  <1>8. ProgressAgrees'
    BY <1>1, <1>5, <1>6, <1>7 DEF ProgressAgrees, Holding
  <1> QED
    BY <1>3, <1>4, <1>8 DEF ReplayInv

LEMMA PublishStep ==
    ASSUME ReplayInv, Publish
    PROVE  ReplayInv'
  <1>1. CASE worker = "publish" /\ Failing
    BY <1>1, Fails
  <1>2. CASE /\ worker = "publish" /\ published' = Append(published, envelope)
             /\ worker' = "record" /\ UNCHANGED <<state, cursor, emitted, envelope>>
             /\ pause' \in BOOLEAN /\ stop' \in BOOLEAN /\ wake' \in BOOLEAN
    <2>1. /\ envelope \in Nat /\ cursor \in Nat /\ emitted \in Nat /\ envelope > cursor
          /\ published \in Seq(Nat) /\ Len(published) = emitted
      BY <1>2 DEF ReplayInv, ProgressAgrees, TypeOK, Holding
    <2>2. /\ published' \in Seq(Nat) /\ Len(published') = emitted + 1
          /\ \A i \in 1 .. emitted : published'[i] = published[i]
          /\ published'[emitted + 1] = envelope
      BY <1>2, <2>1, AppendProperties
    <2>3. TypeOK' /\ WorkerAgrees' /\ SleepingWorkerIsWoken'
      BY <1>2, <2>2 DEF ReplayInv, TypeOK, WorkerAgrees, SleepingWorkerIsWoken, WorkerPlaces
    <2>4. /\ \A i, j \in 1 .. emitted : i < j => published[i] < published[j]
          /\ \A i \in 1 .. emitted : published[i] > After
          /\ cursor = IF emitted = 0 THEN After ELSE published[emitted]
      BY <2>1 DEF ReplayInv, ProgressAgrees
    <2>5. After \in Nat /\ \A i \in 1 .. emitted : published[i] \in Nat
      BY <2>1, AfterIsNat
    <2>6. \A i \in 1 .. emitted : published[i] < envelope
      <3> TAKE i \in 1 .. emitted
      <3>1. emitted # 0 /\ cursor = published[emitted] /\ emitted \in 1 .. emitted
        BY <2>1, <2>4
      <3>2. i = emitted \/ i < emitted
        BY <2>1
      <3> QED
        BY <2>1, <2>4, <2>5, <3>1, <3>2
    <2>7. envelope > After
      <3>1. emitted # 0 => cursor = published[emitted] /\ emitted \in 1 .. emitted
        BY <2>1, <2>4
      <3> QED
        BY <2>1, <2>4, <2>5, <3>1
    <2>8. \A i, j \in 1 .. emitted + 1 : i < j => published'[i] < published'[j]
      <3> SUFFICES ASSUME NEW i \in 1 .. emitted + 1, NEW j \in 1 .. emitted + 1, i < j
                   PROVE  published'[i] < published'[j]
        OBVIOUS
      <3>1. i \in 1 .. emitted
        BY <2>1
      <3>2. CASE j \in 1 .. emitted
        BY <3>1, <3>2, <2>2, <2>4
      <3>3. CASE j = emitted + 1
        BY <3>1, <3>3, <2>2, <2>6
      <3> QED
        BY <3>2, <3>3, <2>1
    <2>9. \A i \in 1 .. emitted + 1 : published'[i] > After
      <3> TAKE i \in 1 .. emitted + 1
      <3>1. i \in 1 .. emitted \/ i = emitted + 1
        BY <2>1
      <3> QED
        BY <3>1, <2>2, <2>4, <2>7
    <2>10. cursor' = IF emitted' = 0 THEN After ELSE published'[emitted']
      <3>1. emitted # 0 => emitted \in 1 .. emitted
        BY <2>1
      <3> QED
        BY <1>2, <2>2, <2>4, <3>1
    <2>11. ProgressAgrees'
      BY <1>2, <2>2, <2>8, <2>9, <2>10 DEF ProgressAgrees
    <2> QED
      BY <2>3, <2>11 DEF ReplayInv
  <1>3. Publish => (worker = "publish" /\ Failing) \/
             (/\ worker = "publish" /\ published' = Append(published, envelope)
              /\ worker' = "record" /\ UNCHANGED <<state, cursor, emitted, envelope>>
              /\ pause' \in BOOLEAN /\ stop' \in BOOLEAN /\ wake' \in BOOLEAN)
    BY DEF Publish, ReplayInv, TypeOK, control
  <1> QED
    BY <1>1, <1>2, <1>3

\* An envelope in hand follows the cursor.
LEMMA TakeStep ==
    ASSUME ReplayInv, worker = "next",
           envelope' \in {e \in Head(Session) .. Last(Session) : e > cursor},
           worker' \in {"ack publish", "ack wait"},
           UNCHANGED <<state, control, cursor, emitted, published, clients>>
    PROVE  ReplayInv'
  <1>1. envelope' \in Nat
    <2>1. Head(Session) \in Nat /\ Last(Session) \in Nat
      BY SessionEnds
    <2>2. envelope' \in Head(Session) .. Last(Session)
      OBVIOUS
    <2> QED
      BY <2>1, <2>2, IntervalOfNat, Zenon
  <1>2. TypeOK' /\ WorkerAgrees' /\ SleepingWorkerIsWoken'
    BY <1>1 DEF ReplayInv, TypeOK, WorkerAgrees, SleepingWorkerIsWoken, control, WorkerPlaces
  <1>3. ProgressAgrees'
    BY DEF ReplayInv, ProgressAgrees
  <1> QED
    BY <1>2, <1>3 DEF ReplayInv

LEMMA WorkerSteps ==
    ASSUME ReplayInv, WorkerStep
    PROVE  ReplayInv'
  <1>1. CASE OpenSource
    BY <1>1, Moves, Fails DEF OpenSource, WorkerPlaces, Holding
  <1>2. CASE AcknowledgeControls \/ LeavePause
    BY <1>2, ControlSteps
  <1>3. CASE TakeNext
    BY <1>3, TakeStep, Moves, Fails DEF TakeNext, WorkerPlaces, Holding
  <1>4. CASE ArmTimer
    <2>1. TypeOK' /\ WorkerAgrees' /\ SleepingWorkerIsWoken' /\ UNCHANGED progress
      BY <1>4 DEF ArmTimer, ReplayInv, TypeOK, WorkerAgrees, SleepingWorkerIsWoken, WorkerPlaces,
                  progress
    <2>2. worker # "record" /\ worker' # "record" /\ worker \in Holding
      BY <1>4 DEF ArmTimer, Holding
    <2> QED
      BY <2>1, <2>2, QuietStep
  <1>5. CASE TimerEnds
    <2>1. worker \in Holding /\ worker = "timer"
      BY <1>5 DEF TimerEnds, Holding
    <2> QED
      BY <1>5, <2>1, Moves, Fails DEF TimerEnds, WorkerPlaces
  <1>6. CASE Publish \/ Record
    BY <1>6, PublishStep, RecordStep
  <1>7. CASE Finish
    <2>1. UNCHANGED <<control, progress>> /\ worker' = "ended" /\ worker = "finish"
      BY <1>7 DEF Finish
    <2>2. state' \in {"stopped", "failed", "completed"}
          /\ (state' = "completed" => emitted = Len(Planned))
      BY <1>7 DEF Finish
    <2>3. TypeOK' /\ WorkerAgrees' /\ SleepingWorkerIsWoken'
      BY <2>1, <2>2 DEF ReplayInv, TypeOK, WorkerAgrees, SleepingWorkerIsWoken, progress, control,
                        WorkerPlaces
    <2> QED
      BY <2>1, <2>3, QuietStep DEF Holding
  <1> QED
    BY <1>1, <1>2, <1>3, <1>4, <1>5, <1>6, <1>7 DEF WorkerStep

\* In every reachable state the envelope in hand, the emitted count, the cursor and the
\* sink agree, and a request that finds the worker asleep has set the wake event.
THEOREM ReplayInvariant == Spec => []ReplayInv
  <1>1. ReplayInv /\ [Next]_vars => ReplayInv'
    <2> SUFFICES ASSUME ReplayInv, [Next]_vars PROVE ReplayInv'
      OBVIOUS
    <2>1. CASE UNCHANGED vars
      <3>1. TypeOK' /\ WorkerAgrees' /\ SleepingWorkerIsWoken' /\ UNCHANGED progress
            /\ worker' = worker
        BY <2>1 DEF ReplayInv, TypeOK, WorkerAgrees, SleepingWorkerIsWoken, progress, control, vars
      <3> QED
        BY <3>1, QuietStep
    <2> QED
      BY <2>1, ClientSteps, WorkerSteps DEF Next
  <1> QED
    BY <1>1, ReplayInit, PTL DEF Spec

\* Whatever the source yields, the sink receives ascending events after the cursor, the
\* recorded cursor is at most one event behind it, and a replay that reports itself
\* completed published as many events as its plan has: the plan, unless some were foreign.
THEOREM PublishesPlan == Spec => []PublishesInOrder
  <1>1. ReplayInv => PublishesInOrder
    <2> SUFFICES ASSUME ReplayInv PROVE PublishesInOrder
      OBVIOUS
    <2>1. /\ published \in Seq(Nat) /\ DOMAIN published = 1 .. Len(published)
          /\ \A i, j \in DOMAIN published : i < j => published[i] < published[j]
          /\ \A i \in DOMAIN published : published[i] > After
      <3>1. published \in Seq(Nat)
        BY DEF ReplayInv, TypeOK
      <3>2. DOMAIN published = 1 .. Len(published)
        BY <3>1
      <3> QED
        BY <3>1, <3>2, Zenon DEF ReplayInv, ProgressAgrees
    <2>2. emitted \in {Len(published), Len(published) - 1}
          /\ cursor = IF emitted = 0 THEN After ELSE published[emitted]
      BY DEF ReplayInv, TypeOK, ProgressAgrees
    <2>3. state = "completed" => emitted = Len(published) /\ Len(published) = Len(Planned)
      BY DEF ReplayInv, ProgressAgrees, WorkerAgrees
    <2>4. ASSUME Len(published) = Len(Planned), Range(published) \subseteq Range(Session)
          PROVE  published = Planned
      <3>1. \A i \in DOMAIN published : \E k \in DOMAIN Planned : Planned[k] = published[i]
        <4> TAKE i \in DOMAIN published
        <4>1. PICK j \in DOMAIN Session : Session[j] = published[i]
          BY <2>4 DEF Range
        <4> QED
          BY <4>1, <2>1, PlanIsTheRest
      <3> QED
        BY <3>1, <2>1, <2>4, AscendingPlan
    <2> QED
      BY <2>1, <2>2, <2>3, <2>4 DEF PublishesInOrder
  <1> QED
    BY <1>1, ReplayInvariant, PTL

\* A pause or a stop that arrives while the worker sleeps finds the wake event set.
THEOREM SleeperIsWoken == Spec => []SleepingWorkerIsWoken
  <1>1. ReplayInv => SleepingWorkerIsWoken
    BY DEF ReplayInv
  <1> QED
    BY <1>1, ReplayInvariant, PTL
=============================================================================
