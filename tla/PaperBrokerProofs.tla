-------------------------- MODULE PaperBrokerProofs -------------------------
(*****************************************************************************)
(* Theorems about the paper broker: first of its operators, which PaperTrading *)
(* and ResearchRun both drive; then of a broker under any calls (PaperTrading), *)
(* what its checkpoint and its fills keep to; then of the research run, whose *)
(* durable rows a broker's batches are written to (ResearchRun).             *)
(*****************************************************************************)
EXTENDS PaperInvariants, FiniteSetTheorems, WellFoundedInduction, TLAPS

-----------------------------------------------------------------------------
(* Lists and numbers *)

LEMMA LeastNumber ==
    ASSUME NEW B, B \subseteq Nat, B # {}
    PROVE  \E m \in B : \A y \in B : m <= y
<1>1. \E m \in B : \A y \in B : ~(<<y, m>> \in OpToRel(<, Nat))
  BY NatLessThanWellFounded, WFMin
<1>2. PICK m \in B : \A y \in B : ~(<<y, m>> \in OpToRel(<, Nat))
  BY <1>1
<1>3. \A y \in B : ~(y < m)
  BY <1>2 DEF OpToRel
<1> QED BY <1>3

LEMMA ListFacts ==
    ASSUME NEW q, IsList(q)
    PROVE  Len(q) \in Nat /\ DOMAIN q = 1 .. Len(q)
  BY DEF IsList

LEMMA EmptyList == IsList(<< >>) /\ Len(<< >>) = 0 /\ DOMAIN << >> = {}
<1>1. << >> \in Seq({}) /\ Len(<< >>) = 0 /\ DOMAIN << >> = {}
  OBVIOUS
<1> QED
  BY <1>1 DEF IsList

LEMMA AppendFacts ==
    ASSUME NEW q, IsList(q), NEW e
    PROVE  /\ IsList(Append(q, e))
           /\ Len(Append(q, e)) = Len(q) + 1
           /\ \A n \in 1 .. Len(q) : Append(q, e)[n] = q[n]
           /\ Append(q, e)[Len(q) + 1] = e
<1>1. PICK S : q \in Seq(S)
  BY DEF IsList
<1>2. q \in Seq(S \cup {e}) /\ e \in S \cup {e}
  BY <1>1
<1>3. Append(q, e) \in Seq(S \cup {e})
  BY <1>2
<1> QED
  BY <1>2, <1>3 DEF IsList

LEMMA ConcatFacts ==
    ASSUME NEW q, IsList(q), NEW r, IsList(r)
    PROVE  /\ IsList(q \o r)
           /\ Len(q \o r) = Len(q) + Len(r)
           /\ \A n \in 1 .. Len(q) : (q \o r)[n] = q[n]
           /\ \A n \in 1 .. Len(r) : (q \o r)[Len(q) + n] = r[n]
<1>1. PICK S : q \in Seq(S)
  BY DEF IsList
<1>2. PICK T : r \in Seq(T)
  BY DEF IsList
<1>3. q \in Seq(S \cup T) /\ r \in Seq(S \cup T)
  BY <1>1, <1>2
<1>4. q \o r \in Seq(S \cup T)
  BY <1>3
<1> QED
  BY <1>3, <1>4 DEF IsList

LEMMA TripleFacts ==
    ASSUME NEW a, NEW b, NEW c
    PROVE  /\ IsList(<<a, b, c>>) /\ Len(<<a, b, c>>) = 3
           /\ <<a, b, c>>[1] = a /\ <<a, b, c>>[2] = b /\ <<a, b, c>>[3] = c
<1>1. <<a, b, c>> \in Seq({a, b, c})
  OBVIOUS
<1> QED
  BY <1>1 DEF IsList

-----------------------------------------------------------------------------
(* A step that an envelope causes *)

LEMMA CausesNothing ==
    ASSUME NEW s, IsState(s), NEW session, NEW sequence
    PROVE  Causes(s, s, session, sequence)
<1>1. Len(s.events) \in Nat
  BY ListFacts DEF IsState
<1> QED
  BY <1>1 DEF Causes, SameFences, EventsCaused

LEMMA CausesThen ==
    ASSUME NEW s, NEW t, NEW u, NEW session, NEW sequence, IsState(s),
           Causes(s, t, session, sequence), Causes(t, u, session, sequence)
    PROVE  Causes(s, u, session, sequence)
<1>1. IsState(u) /\ IsState(t)
  BY DEF Causes
<1>2. Len(s.events) \in Nat /\ Len(t.events) \in Nat /\ Len(u.events) \in Nat
  BY <1>1, ListFacts DEF IsState
<1>3. SameFences(s, u)
  BY DEF Causes, SameFences
<1>4. EventsCaused(s, u, session, sequence)
  <2> DEFINE a == Len(s.events)
             b == Len(t.events)
             c == Len(u.events)
  <2>1. /\ a <= b /\ b <= c
        /\ \A n \in 1 .. a : t.events[n] = s.events[n]
        /\ \A n \in 1 .. b : u.events[n] = t.events[n]
        /\ \A n \in (a + 1) .. b : t.events[n].session = session /\ t.events[n].sequence = sequence
        /\ \A n \in (b + 1) .. c : u.events[n].session = session /\ u.events[n].sequence = sequence
    BY DEF Causes, EventsCaused
  <2>2. a \in Nat /\ b \in Nat /\ c \in Nat
    BY <1>2
  <2> HIDE DEF a, b, c
  <2>3. a <= c /\ \A n \in 1 .. a : n \in 1 .. b
    BY <2>1, <2>2
  <2>4. \A n \in 1 .. a : u.events[n] = s.events[n]
    BY <2>1, <2>3
  <2>5. ASSUME NEW n \in (a + 1) .. c
        PROVE  u.events[n].session = session /\ u.events[n].sequence = sequence
    <3>1. CASE n \in (b + 1) .. c
      BY <2>1, <3>1
    <3>2. CASE n \notin (b + 1) .. c
      <4>1. n \in 1 .. b /\ n \in (a + 1) .. b
        BY <2>2, <3>2
      <4> QED
        BY <2>1, <4>1
    <3> QED
      BY <3>1, <3>2
  <2> QED
    BY <2>3, <2>4, <2>5 DEF EventsCaused, a, c
<1> QED
  BY <1>1, <1>3, <1>4 DEF Causes

\* One event appended, with the other fields of the journal's side unchanged.
LEMMA CausesEvent ==
    ASSUME NEW s, IsState(s), NEW t, NEW e, DOMAIN t = BrokerFields, IsList(t.fills),
           SameFences(s, t), t.events = Append(s.events, e)
    PROVE  Causes(s, t, e.session, e.sequence)
<1>1. /\ IsList(t.events) /\ Len(t.events) = Len(s.events) + 1
      /\ \A n \in 1 .. Len(s.events) : t.events[n] = s.events[n]
      /\ t.events[Len(s.events) + 1] = e
  BY AppendFacts DEF IsState
<1>2. Len(s.events) \in Nat
  BY ListFacts DEF IsState
<1>3. EventsCaused(s, t, e.session, e.sequence)
  BY <1>1, <1>2 DEF EventsCaused
<1> QED
  BY <1>1, <1>3 DEF Causes, IsState

LEMMA CausesNoEvent ==
    ASSUME NEW s, IsState(s), NEW t, DOMAIN t = BrokerFields, IsList(t.fills),
           SameFences(s, t), t.events = s.events, NEW session, NEW sequence
    PROVE  Causes(s, t, session, sequence)
<1>1. Len(s.events) \in Nat
  BY ListFacts DEF IsState
<1>2. EventsCaused(s, t, session, sequence)
  BY <1>1 DEF EventsCaused
<1> QED
  BY <1>2 DEF Causes, IsState

LEMMA EventFields ==
    \A type, payload, time, session, sequence :
        LET e == Event(type, payload, time, session, sequence)
        IN  /\ e.type = type /\ e.payload = payload /\ e.time = time
            /\ e.session = session /\ e.sequence = sequence
  BY DEF Event

-----------------------------------------------------------------------------
(* Commands of a batch *)

LEMMA RejectionCauses ==
    ASSUME NEW s, IsState(s), NEW rejection, NEW session, NEW sequence
    PROVE  Causes(s, AppendRejection(s, rejection, session, sequence), session, sequence)
<1>1. CASE JournalFull(s)
  BY <1>1, CausesNothing DEF AppendRejection
<1>2. CASE ~JournalFull(s)
  <2> DEFINE e == Event("order_rejected", rejection, rejection.rejected, session, sequence)
             t == Journal(s, e)
  <2>1. DOMAIN t = BrokerFields /\ t.fills = s.fills /\ SameFences(s, t) /\ t.events = Append(s.events, e)
    <3> HIDE DEF e
    <3> QED
      BY DEF Journal, IsState, BrokerFields, SameFences
  <2>2. e.session = session /\ e.sequence = sequence
    BY EventFields
  <2>3. IsList(t.fills)
    BY <2>1 DEF IsState
  <2>4. AppendRejection(s, rejection, session, sequence) = t
    BY <1>2 DEF AppendRejection
  <2> HIDE DEF e, t
  <2> QED
    BY <2>1, <2>2, <2>3, <2>4, CausesEvent
<1> QED
  BY <1>1, <1>2

LEMMA AcceptCauses ==
    ASSUME NEW s, IsState(s), NEW intent, NEW after, NEW session, NEW sequence
    PROVE  Causes(s, AcceptOrder(s, intent, after, session, sequence), session, sequence)
<1> DEFINE order == NewOrder(intent)
           e == Event("order_accepted", order, intent.created, session, sequence)
           u == [s EXCEPT !.orders = Bind(@, order.id, order),
                          !.submits = Bind(@, order.id, OutcomeRecord(intent, order)),
                          !.ordinals = Bind(@, order.id, s.nextOrdinal),
                          !.eligible = Bind(@, order.id, after),
                          !.nextOrdinal = @ + 1]
           t == Journal(u, e)
<1>1. AcceptOrder(s, intent, after, session, sequence) = t
  BY DEF AcceptOrder
<1>2. DOMAIN u = BrokerFields /\ u.fills = s.fills /\ SameFences(s, u) /\ u.events = s.events
  BY DEF IsState, BrokerFields, SameFences
<1>3. e.session = session /\ e.sequence = sequence
  BY EventFields
<1>4. DOMAIN t = BrokerFields /\ t.fills = u.fills /\ SameFences(u, t) /\ t.events = Append(u.events, e)
  <2> HIDE DEF e, u
  <2> QED
    BY <1>2 DEF Journal, BrokerFields, SameFences
<1> HIDE DEF e, u, t
<1>5. SameFences(s, t) /\ IsList(t.fills) /\ t.events = Append(s.events, e)
  BY <1>2, <1>4 DEF SameFences, IsState
<1> QED
  BY <1>1, <1>3, <1>4, <1>5, CausesEvent

\* What a rejection does to a state in which it was first cached.
LEMMA CachedRejectionCauses ==
    ASSUME NEW s, IsState(s), NEW u, DOMAIN u = BrokerFields, u.fills = s.fills, u.events = s.events,
           SameFences(s, u), NEW rejection, NEW session, NEW sequence
    PROVE  Causes(s, AppendRejection(u, rejection, session, sequence), session, sequence)
<1>1. IsState(u) /\ Causes(s, u, session, sequence)
  BY CausesNoEvent DEF IsState
<1> QED
  BY <1>1, RejectionCauses, CausesThen

LEMMA CacheSubmitFields ==
    ASSUME NEW s, IsState(s), NEW intent, NEW record
    PROVE  LET u == CacheSubmit(s, intent, record)
           IN  DOMAIN u = BrokerFields /\ u.fills = s.fills /\ u.events = s.events /\ SameFences(s, u)
  BY DEF CacheSubmit, IsState, BrokerFields, SameFences

LEMMA VersionedZero ==
    ASSUME NEW s, NEW t, NEW session, NEW sequence, IsState(s), s.version \in Int,
           Causes(s, t, session, sequence)
    PROVE  Causes(s, Versioned(t, 0), session, sequence)
<1> DEFINE u == Versioned(t, 0)
<1>1. IsState(t) /\ SameFences(s, t) /\ t.version = s.version
  BY DEF Causes, SameFences
<1>2. DOMAIN u = BrokerFields /\ u.fills = t.fills /\ u.events = t.events /\ SameFences(t, u)
  BY <1>1 DEF Versioned, IsState, BrokerFields, SameFences
<1>3. IsList(u.fills)
  BY <1>1, <1>2 DEF IsState
<1>4. Causes(t, u, session, sequence)
  <2> HIDE DEF u
  <2> QED
    BY <1>1, <1>2, <1>3, CausesNoEvent
<1> QED
  BY <1>1, <1>4, CausesThen

LEMMA StageSubmitCases ==
    ASSUME NEW s, NEW intent, NEW env
    PROVE  LET t == StageSubmit(s, intent, env).state
               known == OrderId(intent) \in DOMAIN s.submits
           IN  \/ t = s
               \/ /\ known /\ ~Answers(s.submits, OrderId(intent), intent)
                  /\ t = SubmitConflict(s, intent, env.session, env.sequence, 0).state
               \/ /\ ~known
                  /\ t = RejectSubmit(s, intent, "capacity_exceeded", env.session, env.sequence, 0).state
               \/ /\ ~known /\ ~(Cardinality(DOMAIN s.submits) >= Limits.orders) /\ ~NoRoomForOrder(s)
                  /\ t = AcceptOrder(s, intent, env.sequence, env.session, env.sequence)
<1> DEFINE key == OrderId(intent)
           known == key \in DOMAIN s.submits
           cached == Answers(s.submits, key, intent)
           full == Cardinality(DOMAIN s.submits) >= Limits.orders \/ NoRoomForOrder(s)
           a == Result(s, Resolve(s, Find(s.submits[key], intent)))
           b == SubmitConflict(s, intent, env.session, env.sequence, 0)
           c == RejectSubmit(s, intent, "capacity_exceeded", env.session, env.sequence, 0)
           d == Result(AcceptOrder(s, intent, env.sequence, env.session, env.sequence),
                             NewOrder(intent))
<1>1. a.state = s /\ d.state = AcceptOrder(s, intent, env.sequence, env.session, env.sequence)
  BY DEF Result
<1>2. StageSubmit(s, intent, env) =
        CASE cached -> a
          [] known /\ ~cached -> b
          [] OTHER -> IF full THEN c ELSE d
  BY DEF StageSubmit
<1>3. cached => known
  BY DEF Answers
<1>4. ~full => ~(Cardinality(DOMAIN s.submits) >= Limits.orders) /\ ~NoRoomForOrder(s)
  OBVIOUS
<1> HIDE DEF known, cached, full, a, b, c, d
<1>5. \/ StageSubmit(s, intent, env) = a
      \/ known /\ ~cached /\ StageSubmit(s, intent, env) = b
      \/ ~known /\ StageSubmit(s, intent, env) = c
      \/ ~known /\ ~full /\ StageSubmit(s, intent, env) = d
  BY <1>2, <1>3
<1> QED
  BY <1>1, <1>4, <1>5 DEF b, c, known, cached, key

LEMMA StageSubmitCauses ==
    ASSUME NEW s, IsState(s), s.version \in Int, NEW intent, NEW env
    PROVE  Causes(s, StageSubmit(s, intent, env).state, env.session, env.sequence)
<1>1. Causes(s, SubmitConflict(s, intent, env.session, env.sequence, 0).state, env.session, env.sequence)
  <2> DEFINE record == s.submits[OrderId(intent)]
             conflict == Rejected(intent, "idempotency_conflict")
             u == CacheSubmit(s, intent, WithAlternate(record, intent, conflict))
             t == AppendRejection(u, conflict, env.session, env.sequence)
  <2>1. Causes(s, t, env.session, env.sequence)
    BY CacheSubmitFields, CachedRejectionCauses
  <2>2. Causes(s, Versioned(t, 0), env.session, env.sequence)
    <3> HIDE DEF t
    <3> QED
      BY <2>1, VersionedZero
  <2>3. \/ SubmitConflict(s, intent, env.session, env.sequence, 0).state = s
        \/ SubmitConflict(s, intent, env.session, env.sequence, 0).state = Versioned(t, 0)
    BY DEF SubmitConflict, Result
  <2> HIDE DEF t
  <2> QED
    BY <2>2, <2>3, CausesNothing
<1>2. Causes(s, RejectSubmit(s, intent, "capacity_exceeded", env.session, env.sequence, 0).state,
             env.session, env.sequence)
  <2> DEFINE rejection == Rejected(intent, "capacity_exceeded")
             u == CacheSubmit(s, intent, OutcomeRecord(intent, rejection))
             t == AppendRejection(u, rejection, env.session, env.sequence)
  <2>1. Causes(s, t, env.session, env.sequence)
    BY CacheSubmitFields, CachedRejectionCauses
  <2>2. Causes(s, Versioned(t, 0), env.session, env.sequence)
    <3> HIDE DEF t
    <3> QED
      BY <2>1, VersionedZero
  <2>3. \/ RejectSubmit(s, intent, "capacity_exceeded", env.session, env.sequence, 0).state = s
        \/ RejectSubmit(s, intent, "capacity_exceeded", env.session, env.sequence, 0).state = Versioned(t, 0)
    BY DEF RejectSubmit, Result
  <2> HIDE DEF t
  <2> QED
    BY <2>2, <2>3, CausesNothing
<1>3. Causes(s, AcceptOrder(s, intent, env.sequence, env.session, env.sequence), env.session, env.sequence)
  BY AcceptCauses
<1>4. Causes(s, s, env.session, env.sequence)
  BY CausesNothing
<1> QED
  BY <1>1, <1>2, <1>3, <1>4, StageSubmitCases

\* The forms a cancel takes.
LEMMA StageCancelCases ==
    ASSUME NEW s, NEW request, NEW session, NEW sequence
    PROVE  LET t == StageCancel(s, request, session, sequence).state
               key == CancelKey(request)
               known == key \in DOMAIN s.cancels
               outcome == EvaluateCancel(s, request)
               cacheable == IF known THEN s.cancels[key].alternate = None
                            ELSE Cardinality(DOMAIN s.cancels) < Limits.orders
               staged == IF ~cacheable THEN s
                         ELSE [s EXCEPT !.cancels = Bind(@, key,
                                IF known THEN WithAlternate(s.cancels[key], request, outcome)
                                ELSE OutcomeRecord(request, outcome))]
           IN  \/ t = s
               \/ /\ ~Answers(s.cancels, key, request)
                  /\ ~IsRejection(outcome) /\ s.orders[outcome.id] # outcome
                  /\ t = Journal([staged EXCEPT !.orders[outcome.id] = outcome],
                                 Event("order_cancelled", outcome, request.requested, session, sequence))
               \/ /\ ~Answers(s.cancels, key, request)
                  /\ cacheable /\ IsRejection(outcome)
                  /\ t = AppendRejection(staged, outcome, session, sequence)
<1> DEFINE key == CancelKey(request)
           known == key \in DOMAIN s.cancels
           cached == Answers(s.cancels, key, request)
           outcome == EvaluateCancel(s, request)
           already == ~IsRejection(outcome) /\ s.orders[outcome.id] = outcome
           cacheable == IF known THEN s.cancels[key].alternate = None
                        ELSE Cardinality(DOMAIN s.cancels) < Limits.orders
           staged == IF ~cacheable THEN s
                     ELSE [s EXCEPT !.cancels = Bind(@, key,
                            IF known THEN WithAlternate(s.cancels[key], request, outcome)
                            ELSE OutcomeRecord(request, outcome))]
           c == Journal([staged EXCEPT !.orders[outcome.id] = outcome],
                        Event("order_cancelled", outcome, request.requested, session, sequence))
           d == AppendRejection(staged, outcome, session, sequence)
           rejected == IsRejection(outcome)
           answer == Resolve(s, Find(s.cancels[key], request))
<1>1. StageCancel(s, request, session, sequence) =
        CASE cached -> Result(s, answer)
          [] ~cached /\ already -> Result(s, outcome)
          [] ~cached /\ ~already /\ ~rejected -> Result(c, outcome)
          [] OTHER -> Result(IF cacheable THEN d ELSE s, outcome)
  BY DEF StageCancel
<1>2. already => ~rejected
  OBVIOUS
<1> SUFFICES LET t == StageCancel(s, request, session, sequence).state
             IN  \/ t = s
                 \/ ~cached /\ ~already /\ ~rejected /\ t = c
                 \/ ~cached /\ cacheable /\ rejected /\ t = d
  BY DEF rejected
<1> HIDE DEF key, known, cached, outcome, already, cacheable, staged, c, d, rejected, answer
<1>3. \A a, b : Result(a, b).state = a
  BY DEF Result
<1>4. \/ StageCancel(s, request, session, sequence) = Result(s, answer)
      \/ StageCancel(s, request, session, sequence) = Result(s, outcome)
      \/ ~cached /\ ~already /\ ~rejected
         /\ StageCancel(s, request, session, sequence) = Result(c, outcome)
      \/ ~cached /\ rejected
         /\ StageCancel(s, request, session, sequence) = Result(IF cacheable THEN d ELSE s, outcome)
  BY <1>1, <1>2
<1> QED
  BY <1>3, <1>4, Zenon

LEMMA StageCancelCauses ==
    ASSUME NEW s, IsState(s), NEW request, NEW session, NEW sequence
    PROVE  Causes(s, StageCancel(s, request, session, sequence).state, session, sequence)
<1> DEFINE key == CancelKey(request)
           known == key \in DOMAIN s.cancels
           outcome == EvaluateCancel(s, request)
           cacheable == IF known THEN s.cancels[key].alternate = None
                        ELSE Cardinality(DOMAIN s.cancels) < Limits.orders
           new == IF known THEN WithAlternate(s.cancels[key], request, outcome)
                  ELSE OutcomeRecord(request, outcome)
           staged == IF ~cacheable THEN s ELSE [s EXCEPT !.cancels = Bind(@, key, new)]
           u == [staged EXCEPT !.orders[outcome.id] = outcome]
           e == Event("order_cancelled", outcome, request.requested, session, sequence)
           t == StageCancel(s, request, session, sequence).state
<1>1. t = s \/ t = Journal(u, e) \/ t = AppendRejection(staged, outcome, session, sequence)
  BY StageCancelCases
<1>2. DOMAIN staged = BrokerFields /\ staged.fills = s.fills /\ staged.events = s.events
      /\ SameFences(s, staged)
  <2> HIDE DEF key, known, outcome, cacheable, new
  <2> QED
    BY DEF IsState, BrokerFields, SameFences
<1>3. e.session = session /\ e.sequence = sequence
  BY EventFields
<1> HIDE DEF outcome, staged, e, t
<1>4. Causes(s, AppendRejection(staged, outcome, session, sequence), session, sequence)
  BY <1>2, CachedRejectionCauses
<1>5. DOMAIN u = BrokerFields /\ u.fills = s.fills /\ u.events = s.events /\ SameFences(s, u)
  BY <1>2 DEF BrokerFields, SameFences
<1> HIDE DEF u
<1>6. DOMAIN Journal(u, e) = BrokerFields /\ IsList(Journal(u, e).fills) /\ SameFences(s, Journal(u, e))
      /\ Journal(u, e).events = Append(s.events, e)
  BY <1>5 DEF Journal, BrokerFields, SameFences, IsState
<1>7. Causes(s, Journal(u, e), session, sequence)
  BY <1>3, <1>6, CausesEvent
<1> QED
  BY <1>1, <1>4, <1>7, CausesNothing DEF t

LEMMA StageCommandCauses ==
    ASSUME NEW s, IsState(s), s.version \in Int, NEW env, NEW command
    PROVE  Causes(s, StageCommand(s, env, command), env.session, env.sequence)
  BY StageSubmitCauses, StageCancelCauses DEF StageCommand

-----------------------------------------------------------------------------
(* The commands in order *)

LEMMA StagingExists ==
    ASSUME NEW s, NEW env, NEW commands, NEW N \in Nat
    PROVE  \E g : Staging(g, s, env, commands, N)
<1> DEFINE B == {n \in Nat : ~\E g : Staging(g, s, env, commands, n)}
<1> SUFFICES ASSUME B # {} PROVE FALSE
  OBVIOUS
<1>1. PICK b \in B : \A y \in B : b <= y
  <2>1. B \subseteq Nat
    OBVIOUS
  <2> HIDE DEF B
  <2> QED
    BY <2>1, LeastNumber
<1>2. b \in Nat /\ ~\E g : Staging(g, s, env, commands, b)
  OBVIOUS
<1>3. CASE b = 0
  <2>1. Staging([n \in 0 .. 0 |-> s], s, env, commands, 0)
    BY DEF Staging
  <2> QED
    BY <1>2, <1>3, <2>1
<1>4. CASE b # 0
  <2>1. b - 1 \in Nat /\ b - 1 \notin B
    BY <1>1, <1>2, <1>4
  <2>2. PICK g : Staging(g, s, env, commands, b - 1)
    BY <2>1
  <2> DEFINE h == [n \in 0 .. b |-> IF n = b THEN StageCommand(g[b - 1], env, commands[b]) ELSE g[n]]
  <2>3. Staging(h, s, env, commands, b)
    BY <1>2, <1>4, <2>2 DEF Staging
  <2> QED
    BY <1>2, <2>3
<1> QED
  BY <1>3, <1>4

LEMMA StagingDone ==
    ASSUME NEW s, NEW env, NEW commands, Len(commands) \in Nat
    PROVE  \E g : /\ Staging(g, s, env, commands, Len(commands))
                  /\ StageCommands(s, env, commands) = g[Len(commands)]
<1> DEFINE N == Len(commands)
           Is(g) == g = [n \in 0 .. N |-> IF n = 0 THEN s ELSE StageCommand(g[n - 1], env, commands[n])]
<1>1. PICK g : Staging(g, s, env, commands, N)
  BY StagingExists
<1>2. \E h : Is(h)
  <2> DEFINE h == [n \in 0 .. N |-> g[n]]
  <2>1. \A n \in 0 .. N : h[n] = IF n = 0 THEN s ELSE StageCommand(h[n - 1], env, commands[n])
    BY <1>1 DEF Staging
  <2>2. Is(h)
    BY <2>1
  <2> QED
    BY <2>2
<1> DEFINE f == CHOOSE h : Is(h)
<1>3. Is(f)
  <2> HIDE DEF Is
  <2> QED
    BY <1>2
<1>4. StageCommands(s, env, commands) = f[N]
  BY DEF StageCommands
<1> HIDE DEF f
<1>5. Staging(f, s, env, commands, N)
  BY <1>3 DEF Staging
<1> QED
  BY <1>4, <1>5

LEMMA StageCommandsCauses ==
    ASSUME NEW s, IsState(s), s.version \in Int, NEW env, NEW commands, Len(commands) \in Nat
    PROVE  Causes(s, StageCommands(s, env, commands), env.session, env.sequence)
<1>1. PICK g : /\ Staging(g, s, env, commands, Len(commands))
               /\ StageCommands(s, env, commands) = g[Len(commands)]
  BY StagingDone
<1> DEFINE Good(n) == Causes(s, g[n], env.session, env.sequence)
           B == {n \in 0 .. Len(commands) : ~Good(n)}
<1> SUFFICES ASSUME B # {} PROVE FALSE
  BY <1>1
<1>2. PICK b \in B : \A y \in B : b <= y
  <2>1. B \subseteq Nat
    OBVIOUS
  <2> HIDE DEF B
  <2> QED
    BY <2>1, LeastNumber
<1>3. b \in 0 .. Len(commands) /\ ~Good(b)
  OBVIOUS
<1>4. b # 0
  BY <1>1, <1>3, CausesNothing DEF Staging
<1>5. b - 1 \in 0 .. Len(commands) /\ Good(b - 1)
  BY <1>2, <1>3, <1>4
<1> HIDE DEF B
<1>6. g[b] = StageCommand(g[b - 1], env, commands[b])
  BY <1>1, <1>3, <1>4 DEF Staging
<1>7. IsState(g[b - 1]) /\ g[b - 1].version \in Int
  BY <1>5 DEF Causes, SameFences
<1>8. Causes(g[b - 1], g[b], env.session, env.sequence)
  BY <1>6, <1>7, StageCommandCauses
<1> QED
  BY <1>3, <1>5, <1>8, CausesThen

-----------------------------------------------------------------------------
(* Matching *)

LEMMA RecordFillCauses ==
    ASSUME NEW s, IsState(s), NEW order, NEW fill
    PROVE  Causes(s, RecordFill(s, order, fill), fill.session, fill.sequence)
<1> DEFINE updated == FillOrder(order, fill)
           position == ApplyFillToPosition(Position(s, PositionKey(fill)), fill)
           a == Event("fill_recorded", fill, fill.time, fill.session, fill.sequence)
           b == Event(IF updated.status = "filled" THEN "order_filled" ELSE "order_partially_filled",
                      updated, fill.time, fill.session, fill.sequence)
           c == Event("position_changed", position, fill.time, fill.session, fill.sequence)
           t == [s EXCEPT !.orders[order.id] = updated,
                          !.positions = Bind(@, PositionKey(fill), position),
                          !.fills = Append(@, fill),
                          !.events = @ \o <<a, b, c>>]
<1>1. RecordFill(s, order, fill) = t
  BY DEF RecordFill
<1>2. \A e \in {a, b, c} : e.session = fill.session /\ e.sequence = fill.sequence
  BY EventFields
<1> HIDE DEF updated, position, a, b, c
<1>3. /\ DOMAIN t = BrokerFields /\ SameFences(s, t)
      /\ t.fills = Append(s.fills, fill) /\ t.events = s.events \o <<a, b, c>>
  BY DEF IsState, BrokerFields, SameFences
<1> HIDE DEF t
<1>4. IsList(t.fills)
  BY <1>3, AppendFacts DEF IsState
<1> DEFINE r == <<a, b, c>>
<1>5. IsList(r) /\ Len(r) = 3 /\ r[1] = a /\ r[2] = b /\ r[3] = c
  BY TripleFacts
<1> HIDE DEF r
<1>6. /\ IsList(t.events) /\ Len(t.events) = Len(s.events) + 3
      /\ \A n \in 1 .. Len(s.events) : t.events[n] = s.events[n]
      /\ \A n \in 1 .. 3 : t.events[Len(s.events) + n] = r[n]
  <2>1. t.events = s.events \o r /\ IsList(s.events)
    BY <1>3 DEF r, IsState
  <2> DEFINE q == s.events
  <2>2. IsList(q) /\ IsList(r)
    BY <2>1, <1>5
  <2> HIDE DEF q
  <2>3. /\ IsList(q \o r)
        /\ Len(q \o r) = Len(q) + Len(r)
        /\ \A n \in 1 .. Len(q) : (q \o r)[n] = q[n]
        /\ \A n \in 1 .. Len(r) : (q \o r)[Len(q) + n] = r[n]
    BY <2>2, ConcatFacts
  <2>4. t.events = q \o r /\ q = s.events
    BY <2>1 DEF q
  <2> QED
    BY <2>3, <2>4, <1>5
<1>7. Len(s.events) \in Nat
  BY ListFacts DEF IsState
<1>8. ASSUME NEW n \in (Len(s.events) + 1) .. Len(t.events)
      PROVE  t.events[n].session = fill.session /\ t.events[n].sequence = fill.sequence
  <2> DEFINE N == Len(s.events)
             M == Len(t.events)
  <2>3. N \in Nat /\ M = N + 3 /\ n \in (N + 1) .. M
    BY <1>6, <1>7, <1>8
  <2> HIDE DEF N, M
  <2>4. n - N \in 1 .. 3 /\ n = N + (n - N)
    BY <2>3
  <2>1. n - Len(s.events) \in 1 .. 3 /\ n = Len(s.events) + (n - Len(s.events))
    BY <2>4 DEF N
  <2>2. t.events[n] = r[n - Len(s.events)]
    BY <2>1, <1>6
  <2>5. r[n - Len(s.events)] \in {a, b, c}
    BY <2>1, <1>5
  <2> QED
    BY <2>2, <2>5, <1>2
<1>9. EventsCaused(s, t, fill.session, fill.sequence)
  BY <1>6, <1>7, <1>8 DEF EventsCaused
<1> QED
  BY <1>1, <1>3, <1>4, <1>6, <1>9 DEF Causes, IsState

LEMMA StageMatchCases ==
    ASSUME NEW m, NEW id, NEW env, NEW top
    PROVE  \/ StageMatch(m, id, env, top) = m
           \/ /\ TakesFill(m, id, env, top)
              /\ StageMatch(m, id, env, top)
                    = [s |-> RecordFill(m.s, m.s.orders[id], NextFill(m, id, env, top)),
                       capacity |-> [m.capacity EXCEPT ![m.s.orders[id].intent.side]
                                        = @ - NextFill(m, id, env, top).quantity],
                       ordinal |-> m.ordinal + 1]
  BY DEF StageMatch, TakesFill, NextFill

LEMMA StageMatchCauses ==
    ASSUME NEW m, IsState(m.s), NEW id, NEW env, NEW top
    PROVE  Causes(m.s, StageMatch(m, id, env, top).s, env.session, env.sequence)
<1> DEFINE fill == NextFill(m, id, env, top)
<1>1. fill.session = env.session /\ fill.sequence = env.sequence
  BY DEF NextFill, MakeFill
<1>2. \/ StageMatch(m, id, env, top) = m
      \/ StageMatch(m, id, env, top).s = RecordFill(m.s, m.s.orders[id], fill)
  BY StageMatchCases
<1> HIDE DEF fill
<1> QED
  BY <1>1, <1>2, CausesNothing, RecordFillCauses

LEMMA MatchingExists ==
    ASSUME NEW s, NEW env, NEW top, NEW N \in Nat
    PROVE  \E g : Matching(g, s, env, top, N)
<1> DEFINE B == {n \in Nat : ~\E g : Matching(g, s, env, top, n)}
<1> SUFFICES ASSUME B # {} PROVE FALSE
  OBVIOUS
<1>1. PICK b \in B : \A y \in B : b <= y
  <2>1. B \subseteq Nat
    OBVIOUS
  <2> HIDE DEF B
  <2> QED
    BY <2>1, LeastNumber
<1>2. b \in Nat /\ ~\E g : Matching(g, s, env, top, b)
  OBVIOUS
<1> DEFINE m0 == [s |-> s, capacity |-> top.capacity, ordinal |-> 0]
<1>3. CASE b = 0
  <2>1. Matching([n \in 0 .. 0 |-> m0], s, env, top, 0)
    BY DEF Matching
  <2> QED
    BY <1>2, <1>3, <2>1
<1>4. CASE b # 0
  <2>1. b - 1 \in Nat /\ b - 1 \notin B
    BY <1>1, <1>2, <1>4
  <2>2. PICK g : Matching(g, s, env, top, b - 1)
    BY <2>1
  <2> DEFINE h == [n \in 0 .. b |-> IF n = b THEN StageMatch(g[b - 1], OrderedIds(s)[b], env, top)
                                    ELSE g[n]]
  <2>3. Matching(h, s, env, top, b)
    BY <1>2, <1>4, <2>2 DEF Matching
  <2> QED
    BY <1>2, <2>3
<1> QED
  BY <1>3, <1>4

LEMMA MatchingDone ==
    ASSUME NEW s, NEW env, NEW top, Len(OrderedIds(s)) \in Nat
    PROVE  \E g : /\ Matching(g, s, env, top, Len(OrderedIds(s)))
                  /\ StageMatches(s, env, top) = g[Len(OrderedIds(s))].s
<1> DEFINE queue == OrderedIds(s)
           N == Len(queue)
           m0 == [s |-> s, capacity |-> top.capacity, ordinal |-> 0]
           Is(g) == g = [n \in 0 .. N |-> IF n = 0 THEN m0 ELSE StageMatch(g[n - 1], queue[n], env, top)]
<1>1. PICK g : Matching(g, s, env, top, N)
  BY MatchingExists
<1>2. \E h : Is(h)
  <2> DEFINE h == [n \in 0 .. N |-> g[n]]
  <2>1. \A n \in 0 .. N : h[n] = IF n = 0 THEN m0 ELSE StageMatch(h[n - 1], queue[n], env, top)
    BY <1>1 DEF Matching
  <2>2. Is(h)
    BY <2>1
  <2> QED
    BY <2>2
<1> DEFINE f == CHOOSE h : Is(h)
<1>3. Is(f)
  <2> HIDE DEF Is
  <2> QED
    BY <1>2
<1>4. StageMatches(s, env, top) = f[N].s
  BY DEF StageMatches
<1> HIDE DEF f
<1>5. Matching(f, s, env, top, N)
  BY <1>3 DEF Matching
<1> QED
  BY <1>4, <1>5

-----------------------------------------------------------------------------
(* The queue of the orders *)

LEMMA BindFacts ==
    ASSUME NEW map, NEW key, NEW value
    PROVE  /\ DOMAIN Bind(map, key, value) = DOMAIN map \cup {key}
           /\ Bind(map, key, value)[key] = value
           /\ \A k \in DOMAIN map : k # key => Bind(map, key, value)[k] = map[k]
  BY DEF Bind

LEMMA BindDomain ==
    \A map, key, value, k : k \in DOMAIN Bind(map, key, value) <=> k \in DOMAIN map \/ k = key
  BY DEF Bind

LEMMA BindValues ==
    \A map, key, value : /\ Bind(map, key, value)[key] = value
                         /\ \A k \in DOMAIN map : k # key => Bind(map, key, value)[k] = map[k]
  BY DEF Bind

LEMMA QueueFacts ==
    ASSUME NEW s, QueueKept(s)
    PROVE  /\ IsFiniteSet(DOMAIN s.orders)
           /\ Cardinality(DOMAIN s.orders) = s.nextOrdinal - 1
           /\ OrderedIds(s) \in Seq(DOMAIN s.orders)
           /\ Len(OrderedIds(s)) = s.nextOrdinal - 1
           /\ \A n, k \in 1 .. (s.nextOrdinal - 1) :
                  n < k => s.ordinals[OrderedIds(s)[n]] < s.ordinals[OrderedIds(s)[k]]
<1> DEFINE K == s.nextOrdinal - 1
           D == DOMAIN s.orders
           q == [n \in 1 .. K |-> CHOOSE id \in D : s.ordinals[id] = n]
           Ascends(p) == \A n, k \in DOMAIN p : n < k => s.ordinals[p[n]] < s.ordinals[p[k]]
<1>1. K \in Nat
  BY DEF QueueKept
<1>2. \A n \in 1 .. K : q[n] \in D /\ s.ordinals[q[n]] = n
  BY DEF QueueKept
<1>3. q \in [1 .. K -> D] /\ DOMAIN q = 1 .. K
  BY <1>2
<1>4. \A n, k \in 1 .. K : q[n] = q[k] => n = k
  BY <1>2
<1>5. \A id \in D : s.ordinals[id] \in 1 .. K /\ q[s.ordinals[id]] = id
  <2> SUFFICES ASSUME NEW id \in D
               PROVE  s.ordinals[id] \in 1 .. K /\ q[s.ordinals[id]] = id
    OBVIOUS
  <2>1. s.ordinals[id] \in 1 .. K
    BY DEF QueueKept
  <2>2. q[s.ordinals[id]] \in D /\ s.ordinals[q[s.ordinals[id]]] = s.ordinals[id]
    BY <2>1, <1>2
  <2> HIDE DEF q
  <2> QED
    BY <2>1, <2>2 DEF QueueKept
<1> HIDE DEF q
<1>6. q \in Bijection(1 .. K, D)
  BY <1>3, <1>4, <1>5 DEF Bijection, Injection, Surjection, IsInjective
<1>7. ExistsBijection(1 .. K, D)
  BY <1>6 DEF ExistsBijection
<1>8. Cardinality(D) = K /\ IsFiniteSet(D)
  BY <1>1, <1>7, FS_CountingElements, FS_NatBijection
<1>9. Ascends(q)
  BY <1>2, <1>3
<1>10. DOMAIN s.ordinals = D
  BY DEF QueueKept
<1>11. OrderedIds(s) = CHOOSE p \in [1 .. K -> D] : Ascends(p)
  BY <1>8, <1>10 DEF OrderedIds
<1>12. OrderedIds(s) \in [1 .. K -> D] /\ Ascends(OrderedIds(s))
  <2> HIDE DEF Ascends
  <2> QED
    BY <1>3, <1>9, <1>11
<1>13. OrderedIds(s) \in Seq(D) /\ Len(OrderedIds(s)) = K /\ DOMAIN OrderedIds(s) = 1 .. K
  BY <1>1, <1>12
<1> QED
  BY <1>8, <1>12, <1>13

LEMMA QueueSame ==
    ASSUME NEW s, QueueKept(s), NEW t, DOMAIN t.orders = DOMAIN s.orders,
           t.ordinals = s.ordinals, t.eligible = s.eligible, t.nextOrdinal = s.nextOrdinal,
           DOMAIN s.submits \subseteq DOMAIN t.submits
    PROVE  QueueKept(t)
  BY DEF QueueKept

LEMMA AcceptFields ==
    ASSUME NEW s, IsState(s), NEW intent, NEW after, NEW session, NEW sequence
    PROVE  LET t == AcceptOrder(s, intent, after, session, sequence)
               order == NewOrder(intent)
               id == OrderId(intent)
           IN  /\ t.orders = Bind(s.orders, id, order)
               /\ t.submits = Bind(s.submits, id, OutcomeRecord(intent, order))
               /\ t.ordinals = Bind(s.ordinals, id, s.nextOrdinal)
               /\ t.eligible = Bind(s.eligible, id, after)
               /\ t.nextOrdinal = s.nextOrdinal + 1
               /\ t.events = Append(s.events, Event("order_accepted", order, intent.created,
                                                    session, sequence))
               /\ t.cancels = s.cancels /\ t.positions = s.positions /\ t.fills = s.fills
               /\ t.instruments = s.instruments
<1> DEFINE order == NewOrder(intent)
           id == OrderId(intent)
           record == OutcomeRecord(intent, order)
           e == Event("order_accepted", order, intent.created, session, sequence)
<1>1. order.id = id
  BY DEF NewOrder
<1>2. AcceptOrder(s, intent, after, session, sequence)
        = Journal([s EXCEPT !.orders = Bind(@, order.id, order),
                            !.submits = Bind(@, order.id, record),
                            !.ordinals = Bind(@, order.id, s.nextOrdinal),
                            !.eligible = Bind(@, order.id, after),
                            !.nextOrdinal = @ + 1], e)
  BY DEF AcceptOrder
<1> HIDE DEF order, id, record, e
<1> QED
  BY <1>1, <1>2 DEF Journal, IsState, BrokerFields, order, id, record, e

LEMMA AcceptQueue ==
    ASSUME NEW s, IsState(s), QueueKept(s), NEW intent, NEW after, NEW session, NEW sequence,
           OrderId(intent) \notin DOMAIN s.submits
    PROVE  QueueKept(AcceptOrder(s, intent, after, session, sequence))
<1> DEFINE t == AcceptOrder(s, intent, after, session, sequence)
           id == OrderId(intent)
<1>1. /\ t.orders = Bind(s.orders, id, NewOrder(intent))
      /\ t.submits = Bind(s.submits, id, OutcomeRecord(intent, NewOrder(intent)))
      /\ t.ordinals = Bind(s.ordinals, id, s.nextOrdinal)
      /\ t.eligible = Bind(s.eligible, id, after)
      /\ t.nextOrdinal = s.nextOrdinal + 1
  BY AcceptFields
<1> HIDE DEF t, id
<1>2. /\ \A k : k \in DOMAIN t.orders <=> k \in DOMAIN s.orders \/ k = id
      /\ \A k : k \in DOMAIN t.ordinals <=> k \in DOMAIN s.ordinals \/ k = id
      /\ \A k : k \in DOMAIN t.eligible <=> k \in DOMAIN s.eligible \/ k = id
      /\ \A k : k \in DOMAIN t.submits <=> k \in DOMAIN s.submits \/ k = id
  BY <1>1, BindDomain
<1>3. t.ordinals[id] = s.nextOrdinal /\ \A k \in DOMAIN s.ordinals : k # id => t.ordinals[k] = s.ordinals[k]
  BY <1>1, BindValues
<1>4. id \notin DOMAIN s.orders
  BY DEF QueueKept, id
<1>5. ASSUME NEW n \in 1 .. (t.nextOrdinal - 1)
      PROVE  \E k \in DOMAIN t.orders : t.ordinals[k] = n
  <2>1. CASE n = s.nextOrdinal
    BY <2>1, <1>2, <1>3
  <2>2. CASE n # s.nextOrdinal
    <3>1. n \in 1 .. (s.nextOrdinal - 1)
      BY <2>2, <1>1 DEF QueueKept
    <3> QED
      BY <3>1, <1>2, <1>3, <1>4 DEF QueueKept
  <2> QED
    BY <2>1, <2>2
<1>6. s.nextOrdinal \in Nat \ {0}
  BY DEF QueueKept
<1>7. \A k \in DOMAIN t.orders : t.ordinals[k] \in 1 .. (t.nextOrdinal - 1)
  BY <1>1, <1>2, <1>3, <1>4, <1>6 DEF QueueKept
<1>8. \A a, b \in DOMAIN t.orders : t.ordinals[a] = t.ordinals[b] => a = b
  BY <1>2, <1>3, <1>4, <1>6 DEF QueueKept
<1>9. DOMAIN s.ordinals = DOMAIN s.orders /\ DOMAIN s.eligible = DOMAIN s.orders
      /\ DOMAIN s.orders \subseteq DOMAIN s.submits
  BY DEF QueueKept
<1>10. DOMAIN t.ordinals = DOMAIN t.orders
  BY <1>2, <1>9
<1>11. DOMAIN t.eligible = DOMAIN t.orders
  BY <1>2, <1>9
<1>12. DOMAIN t.orders \subseteq DOMAIN t.submits
  BY <1>2, <1>9
<1>13. t.nextOrdinal \in Nat \ {0}
  BY <1>1, <1>6
<1>14. QueueKept(t)
  BY <1>5, <1>7, <1>8, <1>10, <1>11, <1>12, <1>13 DEF QueueKept
<1> QED
  BY <1>14 DEF t

-----------------------------------------------------------------------------
(* What an operation changes *)

LEMMA LimitsAreNumbers ==
    /\ Limits.orders \in Nat \ {0} /\ Limits.open \in Nat \ {0} /\ Limits.fills \in Nat \ {0}
    /\ Limits.events \in Nat \ {0} /\ Limits.records \in Nat \ {0}
    /\ Limits.versions \in Nat \ {0} /\ Limits.positions \in Nat \ {0}
  BY LimitsPositive DEF PaperBrokerLimitsContract

LEMMA RejectionFields ==
    ASSUME NEW s, IsState(s), NEW rejection, NEW session, NEW sequence
    PROVE  LET t == AppendRejection(s, rejection, session, sequence)
           IN  /\ Frame(s, t, {"events"})
               /\ MayAppend(s.events, t.events, RejectionEvent(rejection, session, sequence))
<1> DEFINE t == AppendRejection(s, rejection, session, sequence)
           e == RejectionEvent(rejection, session, sequence)
<1>1. (t = s /\ JournalFull(s)) \/ (t = Journal(s, e) /\ ~JournalFull(s))
  BY DEF AppendRejection, RejectionEvent
<1>2. JournalFull(s) \/ Len(s.events) < Limits.events
  BY ListFacts, LimitsAreNumbers DEF JournalFull, IsState
<1> HIDE DEF t, e
<1>3. CASE t = s
  BY <1>3 DEF Frame, MayAppend, IsState, t, e
<1>4. CASE t = Journal(s, e) /\ ~JournalFull(s)
  <2>1. Frame(s, t, {"events"}) /\ t.events = Append(s.events, e)
    BY <1>4 DEF Journal, IsState, BrokerFields, Frame
  <2> QED
    BY <1>2, <1>4, <2>1 DEF MayAppend, t, e
<1> QED
  BY <1>1, <1>3, <1>4

LEMMA ConflictFields ==
    ASSUME NEW s, IsState(s), NEW intent, NEW session, NEW sequence, NEW step
    PROVE  LET t == SubmitConflict(s, intent, session, sequence, step).state
               key == OrderId(intent)
               conflict == Rejected(intent, "idempotency_conflict")
           IN  \/ t = s
               \/ /\ Frame(s, t, {"submits", "events", "version"})
                  /\ s.submits[key].alternate = None
                  /\ t.submits = Bind(s.submits, key, WithAlternate(s.submits[key], intent, conflict))
                  /\ MayAppend(s.events, t.events, RejectionEvent(conflict, session, sequence))
                  /\ t.version = s.version + step
<1> DEFINE t == SubmitConflict(s, intent, session, sequence, step).state
           key == OrderId(intent)
           conflict == Rejected(intent, "idempotency_conflict")
           record == WithAlternate(s.submits[key], intent, conflict)
           u == CacheSubmit(s, intent, record)
           v == AppendRejection(u, conflict, session, sequence)
<1>1. t = s \/ (s.submits[key].alternate = None /\ t = Versioned(v, step))
  BY DEF SubmitConflict, Result
<1> HIDE DEF record, conflict, t
<1>2. Frame(s, u, {"submits"}) /\ u.submits = Bind(s.submits, key, record)
  BY DEF CacheSubmit, IsState, BrokerFields, Frame
<1> HIDE DEF u
<1>3. IsState(u) /\ u.events = s.events /\ u.version = s.version
  BY <1>2 DEF Frame, IsState, BrokerFields
<1>4. Frame(u, v, {"events"}) /\ MayAppend(u.events, v.events, RejectionEvent(conflict, session, sequence))
  BY <1>3, RejectionFields
<1> HIDE DEF v
<1> DEFINE w == Versioned(v, step)
<1>5. Frame(v, w, {"version"}) /\ w.version = v.version + step
  BY <1>4 DEF Versioned, Frame, BrokerFields
<1> HIDE DEF w
<1>6. /\ w.submits = u.submits /\ w.events = v.events /\ w.version = s.version + step
  BY <1>3, <1>4, <1>5 DEF Frame, BrokerFields
<1>7. Frame(s, w, {"submits", "events", "version"})
  BY <1>2, <1>4, <1>5 DEF Frame, BrokerFields
<1> QED
  BY <1>1, <1>2, <1>3, <1>4, <1>6, <1>7 DEF w, t, record, conflict

LEMMA RejectFields ==
    ASSUME NEW s, IsState(s), NEW intent, NEW code, NEW session, NEW sequence,
           NEW step
    PROVE  LET t == RejectSubmit(s, intent, code, session, sequence, step).state
               key == OrderId(intent)
               rejection == Rejected(intent, code)
           IN  \/ t = s
               \/ /\ Frame(s, t, {"submits", "events", "version"})
                  /\ ~(Cardinality(DOMAIN s.submits) >= Limits.orders)
                  /\ t.submits = Bind(s.submits, key, OutcomeRecord(intent, rejection))
                  /\ MayAppend(s.events, t.events, RejectionEvent(rejection, session, sequence))
                  /\ t.version = s.version + step
<1> DEFINE t == RejectSubmit(s, intent, code, session, sequence, step).state
           key == OrderId(intent)
           rejection == Rejected(intent, code)
           record == OutcomeRecord(intent, rejection)
           u == CacheSubmit(s, intent, record)
           v == AppendRejection(u, rejection, session, sequence)
<1>1. t = s \/ (~(Cardinality(DOMAIN s.submits) >= Limits.orders) /\ t = Versioned(v, step))
  BY DEF RejectSubmit, Result
<1> HIDE DEF record, rejection, t
<1>2. Frame(s, u, {"submits"}) /\ u.submits = Bind(s.submits, key, record)
  BY DEF CacheSubmit, IsState, BrokerFields, Frame
<1> HIDE DEF u
<1>3. IsState(u) /\ u.events = s.events /\ u.version = s.version
  BY <1>2 DEF Frame, IsState, BrokerFields
<1>4. Frame(u, v, {"events"}) /\ MayAppend(u.events, v.events, RejectionEvent(rejection, session, sequence))
  BY <1>3, RejectionFields
<1> HIDE DEF v
<1> DEFINE w == Versioned(v, step)
<1>5. Frame(v, w, {"version"}) /\ w.version = v.version + step
  BY <1>4 DEF Versioned, Frame, BrokerFields
<1> HIDE DEF w
<1>6. /\ w.submits = u.submits /\ w.events = v.events /\ w.version = s.version + step
  BY <1>3, <1>4, <1>5 DEF Frame, BrokerFields
<1>7. Frame(s, w, {"submits", "events", "version"})
  BY <1>2, <1>4, <1>5 DEF Frame, BrokerFields
<1> QED
  BY <1>1, <1>2, <1>3, <1>4, <1>6, <1>7 DEF w, t, record, rejection

LEMMA CancelFields ==
    ASSUME NEW s, IsState(s), NEW request, NEW session, NEW sequence
    PROVE  LET t == StageCancel(s, request, session, sequence).state
               outcome == EvaluateCancel(s, request)
           IN  \/ t = s
               \/ /\ ~Answers(s.cancels, CancelKey(request), request)
                  /\ ~IsRejection(outcome) /\ s.orders[outcome.id] # outcome
                  /\ Frame(s, t, {"cancels", "orders", "events"})
                  /\ t.cancels = IF CancelCacheable(s, request) THEN CancelsAfter(s, request)
                                 ELSE s.cancels
                  /\ t.orders = [s.orders EXCEPT ![outcome.id] = outcome]
                  /\ t.events = Append(s.events, Event("order_cancelled", outcome, request.requested,
                                                       session, sequence))
               \/ /\ ~Answers(s.cancels, CancelKey(request), request)
                  /\ IsRejection(outcome) /\ CancelCacheable(s, request)
                  /\ Frame(s, t, {"cancels", "events"})
                  /\ t.cancels = CancelsAfter(s, request)
                  /\ MayAppend(s.events, t.events, RejectionEvent(outcome, session, sequence))
<1> DEFINE key == CancelKey(request)
           known == key \in DOMAIN s.cancels
           outcome == EvaluateCancel(s, request)
           cacheable == IF known THEN s.cancels[key].alternate = None
                        ELSE Cardinality(DOMAIN s.cancels) < Limits.orders
           new == IF known THEN WithAlternate(s.cancels[key], request, outcome)
                  ELSE OutcomeRecord(request, outcome)
           staged == IF ~cacheable THEN s ELSE [s EXCEPT !.cancels = Bind(@, key, new)]
           u == [staged EXCEPT !.orders[outcome.id] = outcome]
           e == Event("order_cancelled", outcome, request.requested, session, sequence)
           t == StageCancel(s, request, session, sequence).state
           answered == Answers(s.cancels, key, request)
           after == CancelsAfter(s, request)
<1>1. \/ t = s
      \/ ~answered /\ ~IsRejection(outcome) /\ s.orders[outcome.id] # outcome /\ t = Journal(u, e)
      \/ ~answered /\ cacheable /\ IsRejection(outcome)
         /\ t = AppendRejection(staged, outcome, session, sequence)
  BY StageCancelCases, SMTT(30)
<1>2. cacheable <=> CancelCacheable(s, request)
  BY DEF CancelCacheable
<1>3. after = Bind(s.cancels, key, new)
  BY DEF CancelsAfter, CancelRecord
<1> HIDE DEF cacheable, new, after, outcome, e, t, answered
<1>4. /\ Frame(s, staged, {"cancels"})
      /\ staged.cancels = IF cacheable THEN after ELSE s.cancels
  BY <1>3 DEF IsState, BrokerFields, Frame
<1>5. IsState(staged) /\ staged.events = s.events /\ staged.orders = s.orders
  BY <1>4 DEF Frame, IsState, BrokerFields
<1> HIDE DEF staged
<1>6. CASE t = Journal(u, e) /\ ~answered /\ ~IsRejection(outcome) /\ s.orders[outcome.id] # outcome
  <2>1. /\ Frame(staged, t, {"orders", "events"})
        /\ t.orders = [staged.orders EXCEPT ![outcome.id] = outcome]
        /\ t.events = Append(staged.events, e)
    BY <1>5, <1>6 DEF Journal, Frame, BrokerFields, IsState
  <2>2. Frame(s, t, {"cancels", "orders", "events"}) /\ t.cancels = staged.cancels
    BY <2>1, <1>4 DEF Frame, BrokerFields
  <2> QED
    BY <1>2, <1>4, <1>5, <1>6, <2>1, <2>2 DEF t, outcome, e, answered, after
<1>7. CASE /\ t = AppendRejection(staged, outcome, session, sequence)
           /\ ~answered /\ cacheable /\ IsRejection(outcome)
  <2>1. /\ Frame(staged, t, {"events"})
        /\ MayAppend(staged.events, t.events, RejectionEvent(outcome, session, sequence))
    BY <1>5, <1>7, RejectionFields
  <2>2. Frame(s, t, {"cancels", "events"}) /\ t.cancels = staged.cancels
    BY <2>1, <1>4 DEF Frame, BrokerFields
  <2> QED
    BY <1>2, <1>4, <1>5, <1>7, <2>1, <2>2 DEF t, outcome, answered, after
<1>8. CASE t = s
  BY <1>8 DEF t
<1> QED
  BY <1>1, <1>6, <1>7, <1>8

LEMMA RecordFillFields ==
    ASSUME NEW s, IsState(s), NEW order, NEW fill
    PROVE  LET t == RecordFill(s, order, fill)
           IN  /\ Frame(s, t, {"orders", "positions", "fills", "events"})
               /\ DOMAIN t.orders = DOMAIN s.orders
               /\ \A id \in DOMAIN s.orders :
                      t.orders[id] = IF id = order.id THEN FillOrder(order, fill) ELSE s.orders[id]
               /\ t.positions = Bind(s.positions, PositionKey(fill),
                                     ApplyFillToPosition(Position(s, PositionKey(fill)), fill))
               /\ t.fills = Append(s.fills, fill)
               /\ t.events = s.events \o FillEvents(s, order, fill)
<1> DEFINE updated == FillOrder(order, fill)
           position == ApplyFillToPosition(Position(s, PositionKey(fill)), fill)
           a == Event("fill_recorded", fill, fill.time, fill.session, fill.sequence)
           b == Event(IF updated.status = "filled" THEN "order_filled" ELSE "order_partially_filled",
                      updated, fill.time, fill.session, fill.sequence)
           c == Event("position_changed", position, fill.time, fill.session, fill.sequence)
           t == [s EXCEPT !.orders[order.id] = updated,
                          !.positions = Bind(@, PositionKey(fill), position),
                          !.fills = Append(@, fill),
                          !.events = @ \o <<a, b, c>>]
<1>1. RecordFill(s, order, fill) = t
  BY DEF RecordFill
<1>2. FillEvents(s, order, fill) = <<a, b, c>>
  BY DEF FillEvents
<1> HIDE DEF updated, position, a, b, c
<1>3. /\ Frame(s, t, {"orders", "positions", "fills", "events"})
      /\ DOMAIN t.orders = DOMAIN s.orders
      /\ \A id \in DOMAIN s.orders : t.orders[id] = IF id = order.id THEN updated ELSE s.orders[id]
      /\ t.positions = Bind(s.positions, PositionKey(fill), position)
      /\ t.fills = Append(s.fills, fill)
      /\ t.events = s.events \o <<a, b, c>>
  BY DEF IsState, BrokerFields, Frame
<1> HIDE DEF t
<1> QED
  BY <1>1, <1>2, <1>3 DEF updated, position

-----------------------------------------------------------------------------
(* The batch of an envelope *)

\* A list of fields of which none belongs to the queue leaves it as it is.
LEMMA QueueFrame ==
    ASSUME NEW s, QueueKept(s), NEW t, NEW F, Frame(s, t, F),
           F \cap {"orders", "ordinals", "eligible", "nextOrdinal"} = {},
           DOMAIN s.submits \subseteq DOMAIN t.submits
    PROVE  QueueKept(t)
<1>1. t["orders"] = s["orders"] /\ t["ordinals"] = s["ordinals"]
      /\ t["eligible"] = s["eligible"] /\ t["nextOrdinal"] = s["nextOrdinal"]
  BY DEF Frame, BrokerFields
<1>2. t.orders = s.orders /\ t.ordinals = s.ordinals
      /\ t.eligible = s.eligible /\ t.nextOrdinal = s.nextOrdinal
  BY <1>1
<1> QED
  BY <1>2, QueueSame

LEMMA StageSubmitQueue ==
    ASSUME NEW s, IsState(s), QueueKept(s), NEW intent, NEW env
    PROVE  QueueKept(StageSubmit(s, intent, env).state)
<1> DEFINE key == OrderId(intent)
           conflict == Rejected(intent, "idempotency_conflict")
           rejection == Rejected(intent, "capacity_exceeded")
           record == WithAlternate(s.submits[key], intent, conflict)
           new == OutcomeRecord(intent, rejection)
           t == SubmitConflict(s, intent, env.session, env.sequence, 0).state
           u == RejectSubmit(s, intent, "capacity_exceeded", env.session, env.sequence, 0).state
<1>1. t = s \/ (Frame(s, t, {"submits", "events", "version"}) /\ t.submits = Bind(s.submits, key, record))
  BY ConflictFields
<1>2. u = s \/ (Frame(s, u, {"submits", "events", "version"}) /\ u.submits = Bind(s.submits, key, new))
  BY RejectFields
<1>3. key \notin DOMAIN s.submits => QueueKept(AcceptOrder(s, intent, env.sequence, env.session, env.sequence))
  BY AcceptQueue
<1>4. \A r : DOMAIN s.submits \subseteq DOMAIN Bind(s.submits, key, r)
  BY BindDomain
<1>5. {"submits", "events", "version"} \cap {"orders", "ordinals", "eligible", "nextOrdinal"} = {}
  OBVIOUS
<1>6. \/ StageSubmit(s, intent, env).state = s
      \/ StageSubmit(s, intent, env).state = t
      \/ StageSubmit(s, intent, env).state = u
      \/ /\ key \notin DOMAIN s.submits
         /\ StageSubmit(s, intent, env).state = AcceptOrder(s, intent, env.sequence, env.session, env.sequence)
  BY StageSubmitCases
<1> HIDE DEF key, conflict, rejection, record, new, t, u
<1>7. QueueKept(t)
  BY <1>1, <1>4, <1>5, QueueFrame
<1>8. QueueKept(u)
  BY <1>2, <1>4, <1>5, QueueFrame
<1> QED
  BY <1>3, <1>6, <1>7, <1>8

LEMMA StageCancelQueue ==
    ASSUME NEW s, IsState(s), QueueKept(s), NEW request, NEW session, NEW sequence
    PROVE  QueueKept(StageCancel(s, request, session, sequence).state)
<1> DEFINE t == StageCancel(s, request, session, sequence).state
           outcome == EvaluateCancel(s, request)
<1>1. \/ t = s
      \/ /\ Frame(s, t, {"cancels", "orders", "events"})
         /\ t.orders = [s.orders EXCEPT ![outcome.id] = outcome]
      \/ Frame(s, t, {"cancels", "events"})
  BY CancelFields
<1> HIDE DEF t, outcome
<1>2. CASE /\ Frame(s, t, {"cancels", "orders", "events"})
           /\ t.orders = [s.orders EXCEPT ![outcome.id] = outcome]
  <2>1. t.ordinals = s.ordinals /\ t.eligible = s.eligible /\ t.nextOrdinal = s.nextOrdinal
        /\ t.submits = s.submits
    BY <1>2 DEF Frame, BrokerFields
  <2>2. DOMAIN t.orders = DOMAIN s.orders
    BY <1>2
  <2> QED
    BY <2>1, <2>2, QueueSame DEF t
<1>3. CASE Frame(s, t, {"cancels", "events"})
  <2>1. t.submits = s.submits
    BY <1>3 DEF Frame, BrokerFields
  <2>2. QueueKept(t)
    BY <1>3, <2>1, QueueFrame
  <2> QED
    BY <2>2 DEF t
<1> QED
  BY <1>1, <1>2, <1>3 DEF t

LEMMA StageCommandKept ==
    ASSUME NEW s, BatchState(s), NEW env, NEW command
    PROVE  BatchState(StageCommand(s, env, command))
<1> DEFINE t == StageCommand(s, env, command)
<1>1. Causes(s, t, env.session, env.sequence)
  BY StageCommandCauses DEF BatchState
<1>2. QueueKept(t)
  BY StageSubmitQueue, StageCancelQueue DEF StageCommand, BatchState
<1> HIDE DEF t
<1> QED
  BY <1>1, <1>2 DEF BatchState, Causes, SameFences, t

LEMMA StageCommandsKept ==
    ASSUME NEW s, BatchState(s), NEW env, NEW commands, Len(commands) \in Nat
    PROVE  BatchState(StageCommands(s, env, commands))
<1>1. PICK g : /\ Staging(g, s, env, commands, Len(commands))
               /\ StageCommands(s, env, commands) = g[Len(commands)]
  BY StagingDone
<1> DEFINE B == {n \in 0 .. Len(commands) : ~BatchState(g[n])}
<1> SUFFICES ASSUME B # {} PROVE FALSE
  BY <1>1
<1>2. PICK b \in B : \A y \in B : b <= y
  <2>1. B \subseteq Nat
    OBVIOUS
  <2> HIDE DEF B
  <2> QED
    BY <2>1, LeastNumber
<1>3. b \in 0 .. Len(commands) /\ ~BatchState(g[b])
  OBVIOUS
<1>4. b # 0
  BY <1>1, <1>3 DEF Staging
<1>5. b - 1 \in 0 .. Len(commands) /\ BatchState(g[b - 1])
  BY <1>2, <1>3, <1>4
<1> HIDE DEF B
<1>6. g[b] = StageCommand(g[b - 1], env, commands[b])
  BY <1>1, <1>3, <1>4 DEF Staging
<1> QED
  BY <1>3, <1>5, <1>6, StageCommandKept

LEMMA StageMatchKept ==
    ASSUME NEW m, BatchState(m.s), NEW id, NEW env, NEW top
    PROVE  BatchState(StageMatch(m, id, env, top).s)
<1> DEFINE fill == NextFill(m, id, env, top)
           order == m.s.orders[id]
           n == StageMatch(m, id, env, top)
           t == RecordFill(m.s, order, fill)
<1>1. Causes(m.s, n.s, env.session, env.sequence)
  BY StageMatchCauses DEF BatchState
<1>2. n = m \/ n.s = t
  BY StageMatchCases
<1>3. Frame(m.s, t, {"orders", "positions", "fills", "events"}) /\ DOMAIN t.orders = DOMAIN m.s.orders
  BY RecordFillFields DEF BatchState
<1> HIDE DEF fill, order, n, t
<1>4. t.ordinals = m.s.ordinals /\ t.eligible = m.s.eligible /\ t.nextOrdinal = m.s.nextOrdinal
      /\ t.submits = m.s.submits /\ DOMAIN t.orders = DOMAIN m.s.orders
  BY <1>3 DEF Frame, BrokerFields
<1>5. QueueKept(t)
  BY <1>4, QueueSame DEF BatchState
<1> QED
  BY <1>1, <1>2, <1>5 DEF BatchState, Causes, SameFences, n

LEMMA StageMatchesKept ==
    ASSUME NEW s, BatchState(s), NEW env, NEW top
    PROVE  /\ BatchState(StageMatches(s, env, top))
           /\ Causes(s, StageMatches(s, env, top), env.session, env.sequence)
<1> DEFINE N == Len(OrderedIds(s))
<1>1. N \in Nat
  BY QueueFacts DEF BatchState, QueueKept
<1>2. PICK g : Matching(g, s, env, top, N) /\ StageMatches(s, env, top) = g[N].s
  BY <1>1, MatchingDone
<1> HIDE DEF N
<1> DEFINE Good(n) == BatchState(g[n].s) /\ Causes(s, g[n].s, env.session, env.sequence)
           B == {n \in 0 .. N : ~Good(n)}
<1> SUFFICES ASSUME B # {} PROVE FALSE
  BY <1>1, <1>2
<1>3. PICK b \in B : \A y \in B : b <= y
  <2>1. B \subseteq Nat
    BY <1>1
  <2> HIDE DEF B
  <2> QED
    BY <2>1, LeastNumber
<1>4. b \in 0 .. N /\ ~Good(b)
  OBVIOUS
<1>5. b # 0
  <2>1. g[0].s = s
    BY <1>2 DEF Matching
  <2> QED
    BY <2>1, <1>4, CausesNothing DEF BatchState
<1>6. b - 1 \in 0 .. N /\ Good(b - 1)
  BY <1>1, <1>3, <1>4, <1>5
<1> HIDE DEF B
<1>7. g[b] = StageMatch(g[b - 1], OrderedIds(s)[b], env, top)
  BY <1>1, <1>2, <1>4, <1>5 DEF Matching
<1>8. BatchState(g[b].s) /\ Causes(g[b - 1].s, g[b].s, env.session, env.sequence)
  BY <1>6, <1>7, StageMatchKept, StageMatchCauses DEF BatchState
<1>9. Causes(s, g[b].s, env.session, env.sequence)
  BY <1>6, <1>8, CausesThen DEF BatchState
<1> QED
  BY <1>4, <1>8, <1>9

LEMMA StageEnvelopeKept ==
    ASSUME NEW s, BatchState(s), NEW env
    PROVE  LET t == StageEnvelope(s, env)
           IN  /\ Carries(s, t, env)
               /\ t.effective = env.session /\ t.bound = env.session
               /\ t.source = env.source /\ t.last = env.sequence
               /\ t.version = s.version /\ t.envelopes = s.envelopes
               /\ t.decisions = s.decisions /\ t.dedupe = s.dedupe
<1> DEFINE metadata == IF env.kind = "quote" /\ env.version # None
                       THEN Get(s.instruments, <<env.payload.instrument, env.version>>) ELSE None
           a == [s EXCEPT !.instruments =
                     Bind(@, <<env.payload.instrument, env.payload.version>>,
                          Metadata(env.payload))]
           b == IF Usable(env.payload, metadata)
                THEN StageMatches(s, env, QuoteTop(env.payload, metadata)) ELSE s
           staged == CASE env.kind = "instrument" -> a
                       [] env.kind = "quote" -> b
                       [] OTHER -> s
           t == [staged EXCEPT !.effective = env.session, !.bound = env.session,
                               !.source = env.source, !.last = env.sequence]
<1>1. StageEnvelope(s, env) = t
  BY DEF StageEnvelope
<1>2. Causes(s, a, env.session, env.sequence) /\ BatchState(a)
  <2>1. DOMAIN a = BrokerFields /\ a.fills = s.fills /\ SameFences(s, a) /\ a.events = s.events
        /\ a.orders = s.orders /\ a.ordinals = s.ordinals /\ a.eligible = s.eligible
        /\ a.nextOrdinal = s.nextOrdinal /\ a.submits = s.submits
    BY DEF BatchState, IsState, BrokerFields, SameFences
  <2> HIDE DEF a
  <2>2. Causes(s, a, env.session, env.sequence)
    BY <2>1, CausesNoEvent DEF BatchState, IsState
  <2>3. QueueKept(a)
    BY <2>1, QueueSame DEF BatchState
  <2> QED
    BY <2>1, <2>2, <2>3 DEF BatchState, Causes, SameFences
<1>3. Causes(s, b, env.session, env.sequence) /\ BatchState(b)
  BY StageMatchesKept, CausesNothing DEF BatchState
<1> HIDE DEF metadata, a, b
<1>4. Causes(s, s, env.session, env.sequence)
  BY CausesNothing DEF BatchState
<1>5. staged = a \/ staged = b \/ staged = s
  OBVIOUS
<1> HIDE DEF staged
<1>6. Causes(s, staged, env.session, env.sequence) /\ BatchState(staged)
  BY <1>2, <1>3, <1>4, <1>5
<1>7. /\ Frame(staged, t, {"effective", "bound", "source", "last"})
      /\ t.effective = env.session /\ t.bound = env.session
      /\ t.source = env.source /\ t.last = env.sequence
  BY <1>6 DEF BatchState, IsState, BrokerFields, Frame
<1> HIDE DEF t
<1>8. /\ t.events = staged.events /\ t.fills = staged.fills /\ t.submits = staged.submits
      /\ t.version = staged.version /\ t.envelopes = staged.envelopes
      /\ t.decisions = staged.decisions /\ t.dedupe = staged.dedupe
  BY <1>7 DEF Frame, BrokerFields
<1>9. QueueKept(t)
  BY <1>6, <1>7, <1>8, QueueFrame DEF BatchState
<1>10. IsState(t)
  BY <1>6, <1>7, <1>8 DEF BatchState, IsState, Frame
<1>11. EventsCaused(s, t, env.session, env.sequence)
  BY <1>6, <1>8 DEF Causes, EventsCaused
<1> QED
  BY <1>1, <1>6, <1>7, <1>8, <1>9, <1>10, <1>11 DEF Carries, BatchState, Causes, SameFences

LEMMA CarriesThen ==
    ASSUME NEW s, IsState(s), NEW t, NEW u, NEW env, Carries(s, t, env), Carries(t, u, env)
    PROVE  Carries(s, u, env)
<1>1. Len(s.events) \in Nat /\ Len(t.events) \in Nat /\ Len(u.events) \in Nat
  BY ListFacts DEF Carries, BatchState, IsState
<1> QED
  BY <1>1 DEF Carries, EventsCaused

LEMMA BatchKept ==
    ASSUME NEW s, BatchState(s), NEW env, ~IsDuplicate(s, env), NEW commands, Len(commands) \in Nat
    PROVE  LET t == ProcessDecisionBatch(s, env, commands)
           IN  /\ Carries(s, t, env)
               /\ t.effective = env.session /\ t.bound = env.session
               /\ t.source = env.source /\ t.last = env.sequence
               /\ t.version = s.version + 1
               /\ t.envelopes = Bind(s.envelopes, env.sequence, env)
               /\ t.decisions = Bind(s.decisions, env.sequence, commands)
               /\ t.dedupe = Bind(s.dedupe, env.dedupe, env.sequence)
<1> DEFINE a == StageEnvelope(s, env)
           b == StageCommands(a, env, commands)
           t == CommitBatch(s, b, env, commands)
<1>1. ProcessDecisionBatch(s, env, commands) = t
  BY DEF ProcessDecisionBatch
<1>2. /\ Carries(s, a, env)
      /\ a.effective = env.session /\ a.bound = env.session
      /\ a.source = env.source /\ a.last = env.sequence
      /\ a.version = s.version /\ a.envelopes = s.envelopes
      /\ a.decisions = s.decisions /\ a.dedupe = s.dedupe
  BY StageEnvelopeKept
<1> HIDE DEF a
<1>3. BatchState(b) /\ Causes(a, b, env.session, env.sequence)
  BY <1>2, StageCommandsKept, StageCommandsCauses DEF Carries, BatchState
<1> HIDE DEF b
<1>4. Carries(s, b, env)
  BY <1>2, <1>3, CarriesThen DEF Carries, Causes, BatchState
<1>5. /\ b.effective = env.session /\ b.bound = env.session
      /\ b.source = env.source /\ b.last = env.sequence
      /\ b.envelopes = s.envelopes /\ b.decisions = s.decisions /\ b.dedupe = s.dedupe
  BY <1>2, <1>3 DEF Causes, SameFences
<1>6. /\ Frame(b, t, {"version", "envelopes", "decisions", "dedupe"})
      /\ t.version = s.version + 1
      /\ t.envelopes = Bind(b.envelopes, env.sequence, env)
      /\ t.decisions = Bind(b.decisions, env.sequence, commands)
      /\ t.dedupe = Bind(b.dedupe, env.dedupe, env.sequence)
  BY <1>3 DEF CommitBatch, BatchState, IsState, BrokerFields, Frame
<1> HIDE DEF t
<1>7. /\ t.events = b.events /\ t.fills = b.fills /\ t.submits = b.submits
      /\ t.effective = b.effective /\ t.bound = b.bound
      /\ t.source = b.source /\ t.last = b.last
  BY <1>6 DEF Frame, BrokerFields
<1>8. QueueKept(t)
  BY <1>3, <1>6, <1>7, QueueFrame DEF BatchState
<1>9. IsState(t)
  BY <1>3, <1>6, <1>7 DEF BatchState, IsState, Frame
<1>10. EventsCaused(s, t, env.session, env.sequence)
  BY <1>4, <1>7 DEF Carries, EventsCaused
<1>11. t.version \in Int
  BY <1>6 DEF BatchState
<1> QED
  BY <1>1, <1>5, <1>6, <1>7, <1>8, <1>9, <1>10, <1>11 DEF Carries, BatchState

-----------------------------------------------------------------------------
(* Sums *)

LEMMA SummingExists ==
    ASSUME NEW values, NEW N \in Nat
    PROVE  \E g : Summing(g, values, N)
<1> DEFINE B == {n \in Nat : ~\E g : Summing(g, values, n)}
<1> SUFFICES ASSUME B # {} PROVE FALSE
  OBVIOUS
<1>1. PICK b \in B : \A y \in B : b <= y
  <2>1. B \subseteq Nat
    OBVIOUS
  <2> HIDE DEF B
  <2> QED
    BY <2>1, LeastNumber
<1>2. b \in Nat /\ ~\E g : Summing(g, values, b)
  OBVIOUS
<1>3. CASE b = 0
  <2>1. Summing([n \in 0 .. 0 |-> 0], values, 0)
    BY DEF Summing
  <2> QED
    BY <1>2, <1>3, <2>1
<1>4. CASE b # 0
  <2>1. b - 1 \in Nat /\ b - 1 \notin B
    BY <1>1, <1>2, <1>4
  <2>2. PICK g : Summing(g, values, b - 1)
    BY <2>1
  <2> DEFINE h == [n \in 0 .. b |-> IF n = b THEN g[b - 1] + values[b] ELSE g[n]]
  <2>3. Summing(h, values, b)
    BY <1>2, <1>4, <2>2 DEF Summing
  <2> QED
    BY <1>2, <2>3
<1> QED
  BY <1>3, <1>4

LEMMA SummingDone ==
    ASSUME NEW values, Len(values) \in Nat
    PROVE  \E g : Summing(g, values, Len(values)) /\ SumOf(values) = g[Len(values)]
<1> DEFINE N == Len(values)
           Is(g) == g = [n \in 0 .. N |-> IF n = 0 THEN 0 ELSE g[n - 1] + values[n]]
<1>1. PICK g : Summing(g, values, N)
  BY SummingExists
<1>2. \E h : Is(h)
  <2> DEFINE h == [n \in 0 .. N |-> g[n]]
  <2>1. \A n \in 0 .. N : h[n] = IF n = 0 THEN 0 ELSE h[n - 1] + values[n]
    BY <1>1 DEF Summing
  <2>2. Is(h)
    BY <2>1
  <2> QED
    BY <2>2
<1> DEFINE f == CHOOSE h : Is(h)
<1>3. Is(f)
  <2> HIDE DEF Is
  <2> QED
    BY <1>2
<1>4. SumOf(values) = f[N]
  BY DEF SumOf
<1> HIDE DEF f
<1>5. Summing(f, values, N)
  BY <1>3 DEF Summing
<1> QED
  BY <1>4, <1>5

\* Two lists that agree on the first N numbers have the same partial sums.
LEMMA SummingAgree ==
    ASSUME NEW v, NEW w, NEW N \in Nat, NEW M \in Nat, N <= M,
           \A n \in 1 .. M : w[n] \in Int, \A n \in 1 .. N : v[n] = w[n],
           NEW g, Summing(g, v, N), NEW h, Summing(h, w, M)
    PROVE  \A n \in 0 .. N : g[n] = h[n] /\ g[n] \in Int
<1> DEFINE B == {n \in 0 .. N : ~(g[n] = h[n] /\ g[n] \in Int)}
<1> SUFFICES ASSUME B # {} PROVE FALSE
  OBVIOUS
<1>1. PICK b \in B : \A y \in B : b <= y
  <2>1. B \subseteq Nat
    OBVIOUS
  <2> HIDE DEF B
  <2> QED
    BY <2>1, LeastNumber
<1>2. b \in 0 .. N /\ ~(g[b] = h[b] /\ g[b] \in Int)
  OBVIOUS
<1>3. b # 0
  BY <1>2 DEF Summing
<1>4. b - 1 \in 0 .. N /\ g[b - 1] = h[b - 1] /\ g[b - 1] \in Int
  BY <1>1, <1>2, <1>3
<1> HIDE DEF B
<1>5. g[b] = g[b - 1] + v[b] /\ h[b] = h[b - 1] + w[b] /\ v[b] = w[b] /\ w[b] \in Int
  BY <1>2, <1>3 DEF Summing
<1> QED
  BY <1>2, <1>4, <1>5

LEMMA SumAppend ==
    ASSUME NEW v, NEW w, Len(v) \in Nat, Len(w) = Len(v) + 1,
           \A n \in 1 .. Len(w) : w[n] \in Int, \A n \in 1 .. Len(v) : v[n] = w[n]
    PROVE  SumOf(w) = SumOf(v) + w[Len(w)] /\ SumOf(v) \in Int
<1>1. PICK g : Summing(g, v, Len(v)) /\ SumOf(v) = g[Len(v)]
  BY SummingDone
<1>2. PICK h : Summing(h, w, Len(w)) /\ SumOf(w) = h[Len(w)]
  BY SummingDone
<1> DEFINE N == Len(v)
           M == Len(w)
<1>3. N \in Nat /\ M = N + 1 /\ Summing(g, v, N) /\ Summing(h, w, M)
      /\ (\A n \in 1 .. M : w[n] \in Int) /\ (\A n \in 1 .. N : v[n] = w[n])
  BY <1>1, <1>2
<1>4. SumOf(v) = g[N] /\ SumOf(w) = h[M]
  BY <1>1, <1>2
<1> HIDE DEF N, M
<1>5. M \in Nat /\ N <= M
  BY <1>3
<1>6. \A n \in 0 .. N : g[n] = h[n] /\ g[n] \in Int
  BY <1>3, <1>5, SummingAgree
<1>7. g[N] = h[N] /\ g[N] \in Int
  BY <1>3, <1>6
<1>8. h[M] = h[N] + w[M]
  BY <1>3 DEF Summing
<1> QED
  BY <1>4, <1>7, <1>8 DEF N, M

LEMMA SumOfZeros ==
    ASSUME NEW v, Len(v) \in Nat, \A n \in 1 .. Len(v) : v[n] = 0
    PROVE  SumOf(v) = 0
<1>1. PICK g : Summing(g, v, Len(v)) /\ SumOf(v) = g[Len(v)]
  BY SummingDone
<1> DEFINE N == Len(v)
           h == [n \in 0 .. N |-> 0]
<1>2. N \in Nat /\ Summing(g, v, N) /\ (\A n \in 1 .. N : v[n] = 0) /\ SumOf(v) = g[N]
  BY <1>1
<1> HIDE DEF N
<1>3. Summing(h, v, N)
  BY <1>2 DEF Summing
<1>4. h[N] = 0
  BY <1>2
<1> HIDE DEF h
<1>5. \A n \in 1 .. N : v[n] \in Int
  BY <1>2
<1>6. \A n \in 1 .. N : v[n] = v[n]
  OBVIOUS
<1>7. \A n \in 0 .. N : g[n] = h[n]
  BY <1>2, <1>3, <1>5, <1>6, SummingAgree, SMTT(30)
<1> QED
  BY <1>2, <1>4, <1>7

\* The quantity filled of an order grows by that of a fill of it.
LEMMA FilledAppend ==
    ASSUME NEW s, NEW t, NEW f, IsList(s.fills), t.fills = Append(s.fills, f),
           f.quantity \in Int, \A n \in 1 .. Len(s.fills) : s.fills[n].quantity \in Int, NEW id
    PROVE  /\ FilledQuantity(s, id) \in Int
           /\ FilledQuantity(t, id)
                 = FilledQuantity(s, id) + (IF f.order = id THEN f.quantity ELSE 0)
<1> DEFINE N == Len(s.fills)
           v == [n \in DOMAIN s.fills |-> IF s.fills[n].order = id THEN s.fills[n].quantity ELSE 0]
           w == [n \in DOMAIN t.fills |-> IF t.fills[n].order = id THEN t.fills[n].quantity ELSE 0]
<1>1. /\ IsList(t.fills) /\ Len(t.fills) = N + 1
      /\ \A n \in 1 .. N : t.fills[n] = s.fills[n]
      /\ t.fills[N + 1] = f
  BY AppendFacts
<1>2. N \in Nat /\ DOMAIN s.fills = 1 .. N
  BY ListFacts
<1>3. DOMAIN t.fills = 1 .. (N + 1)
  BY <1>1, <1>2, ListFacts
<1> HIDE DEF N
<1>4. v \in Seq(Int) /\ Len(v) = N
  BY <1>2 DEF N
<1>5. \A n \in 1 .. (N + 1) : t.fills[n].quantity \in Int
  BY <1>1, <1>2 DEF N
<1>6. w \in Seq(Int) /\ Len(w) = N + 1
  BY <1>2, <1>3, <1>5
<1>7. \A n \in 1 .. N : v[n] = w[n]
  BY <1>1, <1>2, <1>3
<1>8. w[N + 1] = IF f.order = id THEN f.quantity ELSE 0
  BY <1>1, <1>2, <1>3
<1>9. \A n \in 1 .. (N + 1) : w[n] \in Int
  BY <1>2, <1>6
<1>10. SumOf(v) = FilledQuantity(s, id) /\ SumOf(w) = FilledQuantity(t, id)
  BY DEF FilledQuantity
<1> HIDE DEF v, w
<1>11. SumOf(w) = SumOf(v) + w[Len(w)] /\ SumOf(v) \in Int
  BY <1>2, <1>4, <1>6, <1>7, <1>9, SumAppend
<1> QED
  BY <1>6, <1>8, <1>10, <1>11

-----------------------------------------------------------------------------
(* A journal that grows *)

LEMMA GrowsNot ==
    ASSUME NEW s, NEW t, IsList(s.events), t.events = s.events
    PROVE  Grows(s, t, << >>)
  BY ListFacts, EmptyList DEF Grows

LEMMA GrowsOne ==
    ASSUME NEW s, NEW t, NEW e, IsList(s.events), t.events = Append(s.events, e)
    PROVE  Grows(s, t, <<e>>)
<1>1. Len(<<e>>) = 1 /\ <<e>>[1] = e
  OBVIOUS
<1>2. /\ IsList(t.events) /\ Len(t.events) = Len(s.events) + 1
      /\ \A n \in 1 .. Len(s.events) : t.events[n] = s.events[n]
      /\ t.events[Len(s.events) + 1] = e
  BY AppendFacts
<1> DEFINE r == <<e>>
<1>3. Len(r) = 1 /\ r[1] = e
  BY <1>1
<1> HIDE DEF r
<1>4. Grows(s, t, r)
  BY <1>2, <1>3 DEF Grows
<1> QED
  BY <1>4 DEF r

LEMMA GrowsBy ==
    ASSUME NEW s, NEW t, NEW new, IsList(s.events), IsList(new), t.events = s.events \o new
    PROVE  Grows(s, t, new)
<1> DEFINE q == s.events
<1>1. IsList(q) /\ t.events = q \o new
  OBVIOUS
<1> HIDE DEF q
<1>2. /\ IsList(q \o new)
      /\ Len(q \o new) = Len(q) + Len(new)
      /\ \A n \in 1 .. Len(q) : (q \o new)[n] = q[n]
      /\ \A n \in 1 .. Len(new) : (q \o new)[Len(q) + n] = new[n]
  BY <1>1, ConcatFacts
<1>3. q = s.events /\ Len(new) \in Nat
  BY ListFacts DEF q
<1> QED
  BY <1>1, <1>2, <1>3 DEF Grows

LEMMA JournalledGrows ==
    ASSUME NEW s, NEW t, NEW new, Grows(s, t, new), NEW types
    PROVE  /\ \A n \in Journalled(s, types) :
                  n \in 1 .. Len(s.events) /\ n \in Journalled(t, types) /\ t.events[n] = s.events[n]
           /\ \A n \in Journalled(t, types) :
                  \/ n \in Journalled(s, types)
                  \/ n - Len(s.events) \in 1 .. Len(new)
                     /\ t.events[n] = new[n - Len(s.events)] /\ new[n - Len(s.events)].type \in types
           /\ \A k \in 1 .. Len(new) :
                  new[k].type \in types => /\ Len(s.events) + k \in Journalled(t, types)
                                           /\ t.events[Len(s.events) + k] = new[k]
<1> DEFINE N == Len(s.events)
           M == Len(t.events)
           L == Len(new)
<1>1. N \in Nat /\ M \in Nat /\ L \in Nat /\ M = N + L
      /\ DOMAIN s.events = 1 .. N /\ DOMAIN t.events = 1 .. M
      /\ (\A n \in 1 .. N : t.events[n] = s.events[n])
      /\ (\A n \in 1 .. L : t.events[N + n] = new[n])
  BY ListFacts DEF Grows
<1> HIDE DEF N, M, L
<1>2. ASSUME NEW n \in Journalled(t, types)
      PROVE  \/ n \in Journalled(s, types)
             \/ n - N \in 1 .. L /\ t.events[n] = new[n - N] /\ new[n - N].type \in types
  <2>1. n \in 1 .. M /\ t.events[n].type \in types
    BY <1>1 DEF Journalled
  <2>2. CASE n \in 1 .. N
    BY <1>1, <2>1, <2>2 DEF Journalled
  <2>3. CASE n \notin 1 .. N
    <3>1. n - N \in 1 .. L /\ N + (n - N) = n
      BY <1>1, <2>1, <2>3
    <3>2. t.events[N + (n - N)] = new[n - N]
      BY <1>1, <3>1
    <3> QED
      BY <2>1, <3>1, <3>2
  <2> QED
    BY <2>2, <2>3
<1>3. ASSUME NEW n \in Journalled(s, types)
      PROVE  n \in 1 .. N /\ n \in Journalled(t, types) /\ t.events[n] = s.events[n]
  <2>1. n \in 1 .. N /\ n \in 1 .. M /\ s.events[n].type \in types
    BY <1>1 DEF Journalled
  <2> QED
    BY <2>1, <1>1 DEF Journalled
<1>4. ASSUME NEW k \in 1 .. L, new[k].type \in types
      PROVE  N + k \in Journalled(t, types) /\ t.events[N + k] = new[k]
  <2>1. N + k \in 1 .. M /\ t.events[N + k] = new[k]
    BY <1>1
  <2> QED
    BY <2>1, <1>1, <1>4 DEF Journalled
<1> QED
  BY <1>2, <1>3, <1>4 DEF N, M, L

LEMMA JournalledSame ==
    ASSUME NEW s, NEW t, NEW new, Grows(s, t, new), NEW types, Without(new, types)
    PROVE  /\ Journalled(t, types) = Journalled(s, types)
           /\ \A n \in Journalled(s, types) : t.events[n] = s.events[n]
<1>1. \A n \in Journalled(t, types) : n \in Journalled(s, types)
  BY JournalledGrows DEF Without
<1>2. \A n \in Journalled(s, types) : n \in Journalled(t, types) /\ t.events[n] = s.events[n]
  BY JournalledGrows
<1> QED
  BY <1>1, <1>2

\* Every fill stands in the journal once: a step without a fill.
LEMMA FillsJournalledSame ==
    ASSUME NEW s, NEW t, NEW new, FillsJournalled(s), Grows(s, t, new), t.fills = s.fills,
           DOMAIN s.orders \subseteq DOMAIN t.orders, Without(new, {"fill_recorded"})
    PROVE  FillsJournalled(t)
<1> DEFINE a == Journalled(s, {"fill_recorded"})
           b == Journalled(t, {"fill_recorded"})
<1>1. b = a /\ \A n \in a : t.events[n] = s.events[n]
  BY JournalledSame
<1>2. /\ \A n \in DOMAIN s.fills : s.fills[n].order \in DOMAIN s.orders
      /\ Cardinality(a) = Len(s.fills)
      /\ {s.events[n].payload : n \in a} = ToSet(s.fills)
  BY DEF FillsJournalled
<1> HIDE DEF a, b
<1>3. {t.events[n].payload : n \in b} = {s.events[n].payload : n \in a}
  BY <1>1
<1>4. /\ \A n \in DOMAIN t.fills : t.fills[n].order \in DOMAIN t.orders
      /\ Cardinality(b) = Len(t.fills)
      /\ {t.events[n].payload : n \in b} = ToSet(t.fills)
  BY <1>1, <1>2, <1>3
<1> QED
  BY <1>4 DEF FillsJournalled, b

\* ... and a step with one.
LEMMA FillsJournalledMore ==
    ASSUME NEW s, NEW t, NEW new, FillsJournalled(s), Grows(s, t, new), NEW f,
           IsList(s.fills), t.fills = Append(s.fills, f), DOMAIN t.orders = DOMAIN s.orders,
           f.order \in DOMAIN s.orders, Len(new) >= 1,
           new[1].type = "fill_recorded", new[1].payload = f,
           \A k \in 2 .. Len(new) : new[k].type # "fill_recorded"
    PROVE  FillsJournalled(t)
<1> DEFINE a == Journalled(s, {"fill_recorded"})
           b == Journalled(t, {"fill_recorded"})
           N == Len(s.events)
           F == Len(s.fills)
<1>1. /\ \A n \in a : n \in 1 .. N /\ n \in b /\ t.events[n] = s.events[n]
      /\ \A n \in b : \/ n \in a
                      \/ /\ n - N \in 1 .. Len(new)
                         /\ t.events[n] = new[n - N] /\ new[n - N].type \in {"fill_recorded"}
      /\ \A k \in 1 .. Len(new) :
             new[k].type \in {"fill_recorded"} => N + k \in b /\ t.events[N + k] = new[k]
  BY JournalledGrows, SMTT(30)
<1>2. /\ \A n \in DOMAIN s.fills : s.fills[n].order \in DOMAIN s.orders
      /\ Cardinality(a) = F
      /\ {s.events[n].payload : n \in a} = ToSet(s.fills)
  BY DEF FillsJournalled
<1>3. N \in Nat /\ F \in Nat /\ DOMAIN s.fills = 1 .. F /\ Len(new) \in Nat
  BY ListFacts DEF Grows
<1>4. /\ IsList(t.fills) /\ Len(t.fills) = F + 1
      /\ \A n \in 1 .. F : t.fills[n] = s.fills[n]
      /\ t.fills[F + 1] = f
  BY AppendFacts
<1>5. DOMAIN t.fills = 1 .. (F + 1)
  BY <1>4, ListFacts
<1> HIDE DEF a, b, N, F
<1>6. \A n \in b : n \in a \/ n = N + 1
  <2> SUFFICES ASSUME NEW n \in b, n \notin a PROVE n = N + 1
    OBVIOUS
  <2>1. n - N \in 1 .. Len(new) /\ new[n - N].type = "fill_recorded"
    BY <1>1
  <2>2. n - N \notin 2 .. Len(new)
    BY <2>1
  <2>3. n - N = 1
    BY <1>3, <2>1, <2>2
  <2>4. n \in Int
    BY DEF b, Journalled, Grows, IsList
  <2> QED
    BY <1>3, <2>3, <2>4
<1>7. N + 1 \in b /\ t.events[N + 1] = new[1] /\ t.events[N + 1].payload = f
  BY <1>1, <1>3
<1>8. b = a \cup {N + 1} /\ N + 1 \notin a
  BY <1>1, <1>3, <1>6, <1>7
<1>9. IsFiniteSet(a)
  <2>1. a \subseteq 1 .. N
    BY <1>1
  <2>2. IsFiniteSet(1 .. N)
    BY <1>3, FS_Interval
  <2> QED
    BY <2>1, <2>2, FS_Subset
<1>10. Cardinality(b) = F + 1
  BY <1>2, <1>8, <1>9, FS_AddElement
<1>11. \A x : x \in {t.events[n].payload : n \in b} <=> x \in {s.events[n].payload : n \in a} \/ x = f
  BY <1>1, <1>7, <1>8
<1>12. \A x : x \in ToSet(t.fills) <=> x \in ToSet(s.fills) \/ x = f
  <2>1. \A x : x \in ToSet(t.fills) <=> \E n \in 1 .. (F + 1) : x = t.fills[n]
    BY <1>5 DEF ToSet
  <2>2. \A x : x \in ToSet(s.fills) <=> \E n \in 1 .. F : x = s.fills[n]
    BY <1>3 DEF ToSet
  <2> QED
    BY <2>1, <2>2, <1>3, <1>4
<1>13. {t.events[n].payload : n \in b} = ToSet(t.fills)
  BY <1>2, <1>11, <1>12
<1>14. \A n \in DOMAIN t.fills : t.fills[n].order \in DOMAIN t.orders
  BY <1>2, <1>3, <1>4, <1>5
<1> QED
  BY <1>4, <1>10, <1>13, <1>14 DEF FillsJournalled, b

-----------------------------------------------------------------------------
(* What the journal tells of an order and of a position *)

LEMMA HistoryGrows ==
    ASSUME NEW s, NEW t, NEW new, Grows(s, t, new), NEW id
    PROVE  /\ \A n \in OrderHistory(s, id) :
                  /\ n \in 1 .. Len(s.events) /\ n \in OrderHistory(t, id)
                  /\ t.events[n] = s.events[n]
           /\ \A n \in OrderHistory(t, id) :
                  \/ n \in OrderHistory(s, id)
                  \/ /\ n - Len(s.events) \in 1 .. Len(new)
                     /\ new[n - Len(s.events)].type \in OrderEventTypes
                     /\ new[n - Len(s.events)].payload.id = id
           /\ \A k \in 1 .. Len(new) :
                  new[k].type \in OrderEventTypes /\ new[k].payload.id = id
                      => /\ Len(s.events) + k \in OrderHistory(t, id)
                         /\ t.events[Len(s.events) + k] = new[k]
<1> DEFINE a == Journalled(s, OrderEventTypes)
           b == Journalled(t, OrderEventTypes)
           N == Len(s.events)
<1>1. /\ \A n \in a : n \in 1 .. N /\ n \in b /\ t.events[n] = s.events[n]
      /\ \A n \in b : \/ n \in a
                      \/ /\ n - N \in 1 .. Len(new)
                         /\ t.events[n] = new[n - N] /\ new[n - N].type \in OrderEventTypes
      /\ \A k \in 1 .. Len(new) :
             new[k].type \in OrderEventTypes => N + k \in b /\ t.events[N + k] = new[k]
  BY JournalledGrows, SMTT(30)
<1>2. OrderHistory(s, id) = {n \in a : s.events[n].payload.id = id}
      /\ OrderHistory(t, id) = {n \in b : t.events[n].payload.id = id}
  BY DEF OrderHistory
<1> HIDE DEF a, b
<1> QED
  BY <1>1, <1>2

LEMMA PlacesGrow ==
    ASSUME NEW s, NEW t, NEW new, Grows(s, t, new), NEW key
    PROVE  /\ \A n \in PositionHistory(s, key) :
                  /\ n \in 1 .. Len(s.events) /\ n \in PositionHistory(t, key)
                  /\ t.events[n] = s.events[n]
           /\ \A n \in PositionHistory(t, key) :
                  \/ n \in PositionHistory(s, key)
                  \/ /\ n - Len(s.events) \in 1 .. Len(new)
                     /\ new[n - Len(s.events)].type = "position_changed"
                     /\ new[n - Len(s.events)].payload.key = key
           /\ \A k \in 1 .. Len(new) :
                  new[k].type = "position_changed" /\ new[k].payload.key = key
                      => /\ Len(s.events) + k \in PositionHistory(t, key)
                         /\ t.events[Len(s.events) + k] = new[k]
<1> DEFINE a == Journalled(s, {"position_changed"})
           b == Journalled(t, {"position_changed"})
           N == Len(s.events)
<1>1. /\ \A n \in a : n \in 1 .. N /\ n \in b /\ t.events[n] = s.events[n]
      /\ \A n \in b : \/ n \in a
                      \/ /\ n - N \in 1 .. Len(new)
                         /\ t.events[n] = new[n - N] /\ new[n - N].type \in {"position_changed"}
      /\ \A k \in 1 .. Len(new) :
             new[k].type \in {"position_changed"} => N + k \in b /\ t.events[N + k] = new[k]
  BY JournalledGrows, SMTT(30)
<1>2. PositionHistory(s, key) = {n \in a : s.events[n].payload.key = key}
      /\ PositionHistory(t, key) = {n \in b : t.events[n].payload.key = key}
  BY DEF PositionHistory
<1> HIDE DEF a, b
<1> QED
  BY <1>1, <1>2

\* An order of which the new events say nothing.
LEMMA OrderToldSame ==
    ASSUME NEW s, NEW t, NEW new, Grows(s, t, new), NEW id, OrderTold(s, id),
           t.orders[id] = s.orders[id],
           \A k \in 1 .. Len(new) : new[k].type \in OrderEventTypes => new[k].payload.id # id
    PROVE  OrderTold(t, id)
<1>1. PICK first \in OrderHistory(s, id), last \in OrderHistory(s, id) :
          /\ \A n \in OrderHistory(s, id) : first <= n /\ n <= last
          /\ s.events[first].payload.status = "accepted"
          /\ s.events[last].payload = s.orders[id]
  BY DEF OrderTold
<1>2. \A n : n \in OrderHistory(t, id) <=> n \in OrderHistory(s, id)
  BY HistoryGrows
<1>3. t.events[first] = s.events[first] /\ t.events[last] = s.events[last]
  BY HistoryGrows
<1> QED
  BY <1>1, <1>2, <1>3 DEF OrderTold

\* The k-th new event is the only one of the order, and tells its state.
LEMMA OrderToldNext ==
    ASSUME NEW s, NEW t, NEW new, Grows(s, t, new), NEW id, OrderTold(s, id),
           NEW k \in 1 .. Len(new), new[k].type \in OrderEventTypes,
           new[k].payload = t.orders[id], t.orders[id].id = id,
           \A j \in 1 .. Len(new) : new[j].type \in OrderEventTypes => j = k
    PROVE  OrderTold(t, id)
<1> DEFINE N == Len(s.events)
           H == OrderHistory(s, id)
           G == OrderHistory(t, id)
<1>1. PICK first \in H, last \in H :
          /\ \A n \in H : first <= n /\ n <= last
          /\ s.events[first].payload.status = "accepted"
          /\ s.events[last].payload = s.orders[id]
  BY DEF OrderTold
<1>2. /\ \A n \in H : n \in 1 .. N /\ n \in G /\ t.events[n] = s.events[n]
      /\ \A n \in G : n \in H \/ (n - N \in 1 .. Len(new) /\ new[n - N].type \in OrderEventTypes)
      /\ N + k \in G /\ t.events[N + k] = new[k]
  BY HistoryGrows
<1>3. N \in Nat /\ Len(new) \in Nat
  BY ListFacts DEF Grows
<1>4. \A n \in G : n \in Int
  BY <1>3 DEF OrderHistory, Journalled, Grows, IsList
<1> HIDE DEF N, H, G
<1>5. \A n \in G : n \in H \/ n = N + k
  <2> SUFFICES ASSUME NEW n \in G, n \notin H PROVE n = N + k
    OBVIOUS
  <2>1. n - N \in 1 .. Len(new) /\ new[n - N].type \in OrderEventTypes
    BY <1>2
  <2>2. n - N = k
    BY <2>1
  <2> QED
    BY <2>2, <1>3, <1>4
<1>6. \A n \in G : first <= n /\ n <= N + k
  BY <1>1, <1>2, <1>3, <1>5
<1>7. first \in G /\ t.events[first].payload.status = "accepted"
      /\ N + k \in G /\ t.events[N + k].payload = t.orders[id]
  BY <1>1, <1>2
<1> QED
  BY <1>6, <1>7 DEF OrderTold, G

\* The first event of an order.
LEMMA OrderToldFirst ==
    ASSUME NEW s, NEW t, NEW e, Grows(s, t, <<e>>), NEW id, OrdersNamed(s), id \notin DOMAIN s.orders,
           e.type = "order_accepted", e.payload = t.orders[id], t.orders[id].id = id,
           t.orders[id].status = "accepted"
    PROVE  OrderTold(t, id)
<1> DEFINE N == Len(s.events)
           G == OrderHistory(t, id)
           new == <<e>>
<1>1. Len(new) = 1 /\ new[1] = e /\ Grows(s, t, new)
  OBVIOUS
<1> HIDE DEF new
<1>2. e.type \in OrderEventTypes
  BY DEF OrderEventTypes
<1>3. OrderHistory(s, id) = {}
  BY DEF OrderHistory, OrdersNamed
<1>4. /\ \A n \in G : n - N \in 1 .. 1
      /\ N + 1 \in G /\ t.events[N + 1] = e
  BY <1>1, <1>2, <1>3, HistoryGrows
<1>5. N \in Nat
  BY ListFacts DEF Grows
<1>6. \A n \in G : n \in Int
  BY DEF OrderHistory, Journalled, Grows, IsList
<1> HIDE DEF N, G
<1>7. \A n \in G : n = N + 1
  BY <1>4, <1>5, <1>6
<1>8. \A n \in G : N + 1 <= n /\ n <= N + 1
  BY <1>5, <1>7
<1> QED
  BY <1>4, <1>8 DEF OrderTold, G

LEMMA PositionToldSame ==
    ASSUME NEW s, NEW t, NEW new, Grows(s, t, new), NEW key, PositionTold(s, key),
           t.positions[key] = s.positions[key],
           \A k \in 1 .. Len(new) : new[k].type = "position_changed" => new[k].payload.key # key
    PROVE  PositionTold(t, key)
<1>1. PICK last \in PositionHistory(s, key) :
          /\ \A n \in PositionHistory(s, key) : n <= last
          /\ s.events[last].payload = s.positions[key]
  BY DEF PositionTold
<1>2. \A n : n \in PositionHistory(t, key) <=> n \in PositionHistory(s, key)
  BY PlacesGrow
<1>3. t.events[last] = s.events[last]
  BY PlacesGrow
<1> QED
  BY <1>1, <1>2, <1>3 DEF PositionTold

LEMMA PositionToldNext ==
    ASSUME NEW s, NEW t, NEW new, Grows(s, t, new), NEW key,
           NEW k \in 1 .. Len(new), new[k].type = "position_changed",
           new[k].payload = t.positions[key], t.positions[key].key = key,
           \A j \in 1 .. Len(new) : new[j].type = "position_changed" => j = k
    PROVE  PositionTold(t, key)
<1> DEFINE N == Len(s.events)
           H == PositionHistory(s, key)
           G == PositionHistory(t, key)
<1>1. /\ \A n \in H : n \in 1 .. N
      /\ \A n \in G : n \in H \/ (n - N \in 1 .. Len(new) /\ new[n - N].type = "position_changed")
      /\ N + k \in G /\ t.events[N + k] = new[k]
  BY PlacesGrow
<1>2. N \in Nat /\ Len(new) \in Nat
  BY ListFacts DEF Grows
<1>3. \A n \in G : n \in Int
  BY <1>2 DEF PositionHistory, Journalled, Grows, IsList
<1> HIDE DEF N, H, G
<1>4. ASSUME NEW n \in G
      PROVE  n <= N + k
  <2>1. CASE n \in H
    BY <2>1, <1>1, <1>2
  <2>2. CASE n \notin H
    <3>1. n - N \in 1 .. Len(new) /\ new[n - N].type = "position_changed"
      BY <1>1, <2>2
    <3>2. n - N = k
      BY <3>1
    <3> QED
      BY <3>2, <1>2, <1>3
  <2> QED
    BY <2>1, <2>2
<1> QED
  BY <1>1, <1>4 DEF PositionTold, G

LEMMA OrdersNamedGrows ==
    ASSUME NEW s, NEW t, NEW new, Grows(s, t, new), OrdersNamed(s),
           DOMAIN s.orders \subseteq DOMAIN t.orders,
           \A k \in 1 .. Len(new) :
               new[k].type \in OrderEventTypes => new[k].payload.id \in DOMAIN t.orders
    PROVE  OrdersNamed(t)
<1> SUFFICES ASSUME NEW n \in Journalled(t, OrderEventTypes)
             PROVE  t.events[n].payload.id \in DOMAIN t.orders
  BY DEF OrdersNamed
<1>1. \/ n \in Journalled(s, OrderEventTypes) /\ t.events[n] = s.events[n]
      \/ n - Len(s.events) \in 1 .. Len(new)
         /\ t.events[n] = new[n - Len(s.events)] /\ new[n - Len(s.events)].type \in OrderEventTypes
  BY JournalledGrows
<1> QED
  BY <1>1 DEF OrdersNamed

-----------------------------------------------------------------------------
(* Prices, fees and averages *)

\* A fraction in lowest terms is the fraction.
LEMMA FractionFacts ==
    ASSUME NEW num \in Int, NEW den \in Nat \ {0}
    PROVE  \E n \in Int, d \in Nat \ {0}, g \in Nat \ {0} :
               Fraction(num, den) = <<n, d>> /\ num = g * n /\ den = g * d
<1> DEFINE Common == {d \in 1 .. den : num % d = 0 /\ den % d = 0}
           gcd == CHOOSE d \in Common : \A e \in Common : e <= d
           B == {den - d : d \in Common}
<1>1. 1 \in Common
  <2>1. num % 1 = 0 /\ den % 1 = 0
    OBVIOUS
  <2> QED
    BY <2>1
<1>2. Common \subseteq 1 .. den
  OBVIOUS
<1>3. \A d \in Common : num % d = 0 /\ den % d = 0
  OBVIOUS
<1>4. Fraction(num, den) = <<num \div gcd, den \div gcd>>
  BY DEF Fraction
<1> HIDE DEF Common
<1>5. \E d \in Common : \A e \in Common : e <= d
  <2>1. B \subseteq Nat /\ B # {}
    BY <1>1, <1>2
  <2> HIDE DEF B
  <2>2. PICK b \in B : \A y \in B : b <= y
    BY <2>1, LeastNumber
  <2> USE DEF B
  <2>3. PICK d \in Common : b = den - d
    BY <2>2
  <2>4. \A e \in Common : den - d <= den - e
    BY <2>2, <2>3
  <2> QED
    BY <1>2, <2>4
<1>6. gcd \in Common
  BY <1>5
<1> HIDE DEF gcd
<1>7. gcd \in Nat \ {0} /\ num % gcd = 0 /\ den % gcd = 0
  BY <1>2, <1>3, <1>6
<1>8. num = gcd * (num \div gcd) /\ num \div gcd \in Int
  BY <1>7
<1>9. den = gcd * (den \div gcd) /\ den \div gcd \in Int
  BY <1>7
<1>10. den \div gcd \in Nat \ {0}
  <2> DEFINE d == den \div gcd
  <2>1. d \in Int /\ den = gcd * d
    BY <1>9
  <2> HIDE DEF d
  <2>2. d > 0
    BY <1>7, <2>1
  <2> QED
    BY <2>1, <2>2 DEF d
<1> QED
  BY <1>4, <1>7, <1>8, <1>9, <1>10

\* Where a fraction lies is a matter of its value.
LEMMA BetweenFraction ==
    ASSUME NEW num \in Int, NEW den \in Nat \ {0}, NEW prices \in SUBSET Int,
           \E q \in prices : q * den <= num, \E q \in prices : q * den >= num
    PROVE  AverageSound(Fraction(num, den)) /\ Between(Fraction(num, den), prices)
<1>1. PICK n \in Int, d \in Nat \ {0}, g \in Nat \ {0} :
         Fraction(num, den) = <<n, d>> /\ num = g * n /\ den = g * d
  BY FractionFacts
<1> DEFINE a == Fraction(num, den)
<1>2. a[1] = n /\ a[2] = d /\ AverageSound(a)
  BY <1>1 DEF AverageSound
<1> HIDE DEF a
<1>3. \A q \in Int : q * den = g * (q * d)
  BY <1>1
<1>4. \A x \in Int, y \in Int : g * x <= g * y => x <= y
  OBVIOUS
<1>5. \A q \in Int : q * den <= num => q * d <= n
  <2> TAKE q \in Int
  <2>1. q * d \in Int
    OBVIOUS
  <2> QED
    BY <1>1, <1>3, <1>4, <2>1
<1>6. \A q \in Int : q * den >= num => q * d >= n
  <2> TAKE q \in Int
  <2>1. q * d \in Int
    OBVIOUS
  <2> QED
    BY <1>1, <1>3, <1>4, <2>1
<1>7. Between(a, prices)
  BY <1>2, <1>5, <1>6 DEF Between
<1> QED
  BY <1>2, <1>7 DEF a

\* The mean of two values, weighted, is no less than the smaller and no more than the larger.
LEMMA WeightedMean ==
    ASSUME NEW u \in Nat \ {0}, NEW v \in Nat \ {0}, NEW n \in Int, NEW d \in Nat \ {0},
           NEW price \in Int, NEW q \in Int
    PROVE  /\ q * d <= n => \/ q * ((u + v) * d) <= u * n + v * price * d
                            \/ price * ((u + v) * d) <= u * n + v * price * d
           /\ q * d >= n => \/ q * ((u + v) * d) >= u * n + v * price * d
                            \/ price * ((u + v) * d) >= u * n + v * price * d
<1> DEFINE qd == q * d
           pd == price * d
<1>1. qd \in Int /\ pd \in Int
  OBVIOUS
<1>2. q * ((u + v) * d) = u * qd + v * qd /\ price * ((u + v) * d) = u * pd + v * pd
      /\ v * price * d = v * pd
  OBVIOUS
<1> HIDE DEF qd, pd
<1>3. \A w \in Nat \ {0}, x \in Int, y \in Int : x <= y => w * x <= w * y
  OBVIOUS
<1>4. ASSUME qd <= n
      PROVE  u * qd + v * qd <= u * n + v * pd \/ u * pd + v * pd <= u * n + v * pd
  <2>1. u * qd <= u * n /\ u * qd \in Int /\ u * n \in Int /\ v * qd \in Int /\ v * pd \in Int
        /\ u * pd \in Int
    BY <1>1, <1>3, <1>4
  <2>2. CASE qd <= pd
    <3>1. v * qd <= v * pd
      BY <1>1, <1>3, <2>2
    <3> QED
      BY <2>1, <3>1
  <2>3. CASE pd <= qd
    <3>1. pd <= n
      BY <1>1, <1>4, <2>3
    <3>2. u * pd <= u * n
      BY <1>1, <1>3, <3>1
    <3> QED
      BY <2>1, <3>2
  <2> QED
    BY <1>1, <2>2, <2>3
<1>5. ASSUME n <= qd
      PROVE  u * n + v * pd <= u * qd + v * qd \/ u * n + v * pd <= u * pd + v * pd
  <2>1. u * n <= u * qd /\ u * qd \in Int /\ u * n \in Int /\ v * qd \in Int /\ v * pd \in Int
        /\ u * pd \in Int
    BY <1>1, <1>3, <1>5
  <2>2. CASE pd <= qd
    <3>1. v * pd <= v * qd
      BY <1>1, <1>3, <2>2
    <3> QED
      BY <2>1, <3>1
  <2>3. CASE qd <= pd
    <3>1. n <= pd
      BY <1>1, <1>5, <2>3
    <3>2. u * n <= u * pd
      BY <1>1, <1>3, <3>1
    <3> QED
      BY <2>1, <3>2
  <2> QED
    BY <1>1, <2>2, <2>3
<1> DEFINE m == u * n + v * pd
           x == u * qd + v * qd
           y == u * pd + v * pd
<1>6. m \in Int /\ x \in Int /\ y \in Int
  BY <1>1
<1>7. /\ qd <= n => x <= m \/ y <= m
      /\ n <= qd => m <= x \/ m <= y
  BY <1>4, <1>5
<1>8. q * ((u + v) * d) = x /\ price * ((u + v) * d) = y /\ u * n + v * price * d = m
      /\ q * d = qd
  BY <1>2 DEF qd
<1> HIDE DEF m, x, y
<1> QED
  BY <1>1, <1>6, <1>7, <1>8

\* prices are those of the fills on the side of the position before a fill, more
\* those on its side after it.
LEMMA AverageNext ==
    ASSUME NEW net \in Int, NEW average, (net = 0) <=> (average = None),
           net # 0 => AverageSound(average), None \notin Int \X Int,
           NEW fill, fill.quantity \in Nat \ {0}, fill.price \in Int, fill.side \in {"buy", "sell"},
           NEW prices \in SUBSET Int, net # 0 => Between(average, prices),
           NEW more \in SUBSET Int,
           fill.side = SideOf(net + Signed(fill)) => fill.price \in more,
           SideOf(net) = SideOf(net + Signed(fill)) => prices \subseteq more
    PROVE  LET new == net + Signed(fill)
               a == NextAverage(net, average, fill)
           IN  /\ new \in Int /\ (new = 0 <=> a = None)
               /\ new # 0 => AverageSound(a) /\ Between(a, more)
<1> DEFINE delta == Signed(fill)
           new == net + delta
           a == NextAverage(net, average, fill)
           p == fill.price
           num == Abs(net) * average[1] + Abs(delta) * p * average[2]
           den == Abs(new) * average[2]
<1>1. delta \in Int /\ delta # 0 /\ (delta > 0 <=> fill.side = "buy")
  <2> DEFINE q == fill.quantity
  <2>1. q \in Nat \ {0} /\ delta = IF fill.side = "buy" THEN q ELSE -q
    BY DEF Signed
  <2> HIDE DEF q, delta
  <2> QED
    BY <2>1
<1>2. a = IF net = 0 THEN <<p, 1>>
          ELSE IF SameSign(net, delta) THEN Fraction(num, den)
          ELSE IF new = 0 THEN None
          ELSE IF SameSign(new, net) THEN average
          ELSE <<p, 1>>
  BY DEF NextAverage
<1>3. /\ (SideOf(new) = "buy") <=> new > 0
      /\ (SideOf(net) = "buy") <=> net > 0
      /\ SideOf(new) \in {"buy", "sell"} /\ SideOf(net) \in {"buy", "sell"}
  BY DEF SideOf
<1>4. /\ fill.side = SideOf(new) => p \in more
      /\ SideOf(net) = SideOf(new) => prices \subseteq more
  OBVIOUS
<1>5. \A x, y : AverageSound(<<x, y>>) => <<x, y>> # None
  BY DEF AverageSound
<1>6. /\ <<p, 1>>[1] = p /\ <<p, 1>>[2] = 1 /\ AverageSound(<<p, 1>>)
  BY DEF AverageSound
<1>7. p \in more => Between(<<p, 1>>, more)
  BY <1>6 DEF Between
<1>8. \A x : AverageSound(x) => x # None
  BY DEF AverageSound
<1> HIDE DEF a, p
<1>9. CASE net = 0
  <2>1. a = <<p, 1>> /\ new = delta
    BY <1>1, <1>2, <1>9
  <2>2. p \in more
    BY <1>1, <1>3, <1>4, <1>9
  <2> QED
    BY <2>1, <2>2, <1>1, <1>6, <1>7, <1>8 DEF a
<1>10. CASE net # 0 /\ SameSign(net, delta)
  <2>1. PICK n \in Int, d \in Nat \ {0} : average = <<n, d>>
    BY <1>10 DEF AverageSound
  <2>2. average[1] = n /\ average[2] = d
    BY <2>1
  <2> DEFINE u == Abs(net)
             v == Abs(delta)
  <2>3. u \in Nat \ {0} /\ v \in Nat \ {0} /\ Abs(new) = u + v /\ new # 0
    BY <1>1, <1>10 DEF SameSign, Abs
  <2> HIDE DEF u, v
  <2>4. num = u * n + v * p * d /\ den = (u + v) * d /\ a = Fraction(num, den)
    BY <1>2, <1>10, <2>2, <2>3 DEF u, v
  <2>5. SideOf(net) = SideOf(new) /\ fill.side = SideOf(new)
    BY <1>1, <1>3, <1>10 DEF SameSign
  <2>6. p \in more /\ p \in Int /\ prices \subseteq more
    BY <1>4, <2>5
  <2> HIDE DEF num, den
  <2>7. num \in Int /\ den \in Nat \ {0}
    <3>1. (u + v) * d \in Nat \ {0} /\ u * n + v * p * d \in Int
      BY <2>3, <2>6
    <3> QED
      BY <3>1, <2>4
  <2>8. \E q \in more : q * den <= num
    <3>1. PICK q \in prices : q * d <= n
      BY <1>10, <2>2 DEF Between
    <3>2. q \in Int /\ q \in more
      BY <3>1, <2>6
    <3>3. q * ((u + v) * d) <= u * n + v * p * d \/ p * ((u + v) * d) <= u * n + v * p * d
      BY <2>3, <2>6, <3>1, <3>2, WeightedMean
    <3> QED
      BY <2>4, <2>6, <3>2, <3>3
  <2>9. \E q \in more : q * den >= num
    <3>1. PICK q \in prices : q * d >= n
      BY <1>10, <2>2 DEF Between
    <3>2. q \in Int /\ q \in more
      BY <3>1, <2>6
    <3>3. q * ((u + v) * d) >= u * n + v * p * d \/ p * ((u + v) * d) >= u * n + v * p * d
      BY <2>3, <2>6, <3>1, <3>2, WeightedMean
    <3> QED
      BY <2>4, <2>6, <3>2, <3>3
  <2>10. AverageSound(a) /\ Between(a, more)
    BY <2>4, <2>7, <2>8, <2>9, BetweenFraction
  <2> QED
    BY <2>3, <2>10, <1>1, <1>8 DEF a
<1>11. CASE net # 0 /\ ~SameSign(net, delta) /\ new = 0
  BY <1>1, <1>2, <1>11 DEF a
<1>12. CASE net # 0 /\ ~SameSign(net, delta) /\ new # 0 /\ SameSign(new, net)
  <2>1. a = average /\ AverageSound(a) /\ Between(a, prices)
    BY <1>2, <1>12
  <2>2. SideOf(net) = SideOf(new)
    BY <1>1, <1>3, <1>12 DEF SameSign
  <2>3. Between(a, more)
    BY <1>4, <2>1, <2>2 DEF Between
  <2> QED
    BY <2>1, <2>3, <1>1, <1>8, <1>12 DEF a
<1>13. CASE net # 0 /\ ~SameSign(net, delta) /\ new # 0 /\ ~SameSign(new, net)
  <2>1. a = <<p, 1>>
    BY <1>2, <1>13
  <2>2. fill.side = SideOf(new)
    BY <1>1, <1>3, <1>13 DEF SameSign
  <2> QED
    BY <2>1, <2>2, <1>1, <1>4, <1>6, <1>7, <1>8, <1>13 DEF a
<1> QED
  BY <1>9, <1>10, <1>11, <1>12, <1>13

LEMMA CumulativeFacts ==
    ASSUME NEW rule, rule.amount \in Nat \ {0}, rule.quantum \in Nat \ {0},
           NEW a \in Nat, NEW b \in Nat, a <= b
    PROVE  /\ CumulativeFee(rule, a) \in Nat /\ CumulativeFee(rule, b) \in Nat
           /\ CumulativeFee(rule, a) <= CumulativeFee(rule, b)
<1> DEFINE m == rule.amount
           u == rule.quantum
           x == 2 * m * a + u
           y == 2 * m * b + u
           w == 2 * u
<1>1. m \in Nat \ {0} /\ u \in Nat \ {0}
  OBVIOUS
<1>2. CumulativeFee(rule, a) = (x \div w) * u /\ CumulativeFee(rule, b) = (y \div w) * u
  BY DEF CumulativeFee
<1> HIDE DEF m, u
<1>3. 2 * m * a \in Nat /\ 2 * m * b \in Nat /\ 2 * m * a <= 2 * m * b
  BY <1>1
<1>4. x \in Nat /\ y \in Nat /\ x <= y /\ w \in Nat \ {0}
  BY <1>1, <1>3
<1> HIDE DEF x, y, w
<1>5. x \div w \in Nat /\ y \div w \in Nat /\ x \div w <= y \div w
  BY <1>4
<1> DEFINE i == x \div w
           j == y \div w
<1>6. i \in Nat /\ j \in Nat /\ i <= j
  BY <1>5
<1> HIDE DEF i, j
<1>7. i * u \in Nat /\ j * u \in Nat /\ i * u <= j * u
  BY <1>1, <1>6
<1> QED
  BY <1>2, <1>7 DEF i, j

\* The fee of an order grows by that of each fill to the fee of what is filled of it.
LEMMA FeeFacts ==
    ASSUME NEW instrument, NEW currency, FeeAssessable(instrument, currency),
           NEW a \in Nat, NEW b \in Nat, a <= b
    PROVE  /\ Fee(instrument, a, b) \in Nat /\ Fee(instrument, 0, a) \in Nat
           /\ Fee(instrument, 0, b) = Fee(instrument, 0, a) + Fee(instrument, a, b)
           /\ Fee(instrument, 0, 0) = 0
           /\ Fee(instrument, a, b) = 0 <=> FeeCurrency(instrument, Fee(instrument, a, b)) = None
<1>1. CASE DOMAIN FeeRules = {}
  <2>1. Fee(instrument, a, b) = 0 /\ Fee(instrument, 0, a) = 0 /\ Fee(instrument, 0, b) = 0
        /\ Fee(instrument, 0, 0) = 0
    BY <1>1 DEF Fee
  <2> QED
    BY <1>1, <2>1 DEF FeeCurrency
<1>2. CASE DOMAIN FeeRules # {}
  <2> DEFINE rule == FeeRules[instrument]
             C(q) == CumulativeFee(rule, q)
  <2>1. instrument \in DOMAIN FeeRules
    BY <1>2 DEF FeeAssessable
  <2>2. rule.amount \in Nat \ {0} /\ rule.quantum \in Nat \ {0} /\ rule.currency # None
    BY <2>1, ExecutionConfigured DEF PaperFeeScheduleContract
  <2>3. \A x, y : Fee(instrument, x, y) = C(y) - C(x)
    BY <1>2 DEF Fee
  <2>4. \A fee : (fee = 0) <=> (FeeCurrency(instrument, fee) = None)
    BY <2>2 DEF FeeCurrency
  <2> HIDE DEF rule
  <2>5. C(a) \in Nat /\ C(b) \in Nat /\ C(a) <= C(b)
    BY <2>2, CumulativeFacts
  <2>6. C(0) \in Nat /\ C(0) <= C(a)
    BY <2>2, CumulativeFacts
  <2> HIDE DEF C
  <2> QED
    BY <2>3, <2>4, <2>5, <2>6
<1> QED
  BY <1>1, <1>2

LEMMA SlippedFacts ==
    ASSUME NEW price \in Nat \ {0}, NEW side \in {"buy", "sell"}, SlippageRepresentable(price, side)
    PROVE  /\ SlippedPrice(price, side) \in Nat \ {0}
           /\ side = "buy" => SlippedPrice(price, side) >= price
           /\ side = "sell" => SlippedPrice(price, side) <= price
<1> DEFINE delta == SlippageDelta(price)
           v == Slippage.value
<1>1. /\ Slippage.mode \in {"none", "basis_points", "absolute"}
      /\ Slippage.mode \in {"basis_points", "absolute"} => v \in Nat
  <2> DEFINE mode == Slippage.mode
  <2>1. SlippageConfigContract
    BY ExecutionConfigured
  <2>2. /\ mode \in {"none", "basis_points", "absolute"}
        /\ CASE mode = "none" -> v = 0
             [] mode = "basis_points" -> v \in 1 .. 9999
             [] OTHER -> v \in Nat \ {0}
    BY <2>1 DEF SlippageConfigContract
  <2> HIDE DEF mode, v
  <2>3. mode = "basis_points" => v \in 1 .. 9999
    BY <2>2
  <2>4. mode = "absolute" => v \in Nat \ {0}
    BY <2>2
  <2>5. \A n : n \in 1 .. 9999 => n \in Nat
    OBVIOUS
  <2>6. mode \in {"none", "basis_points", "absolute"} /\ (mode \in {"basis_points", "absolute"} => v \in Nat)
    BY <2>2, <2>3, <2>4, <2>5
  <2> QED
    BY <2>6 DEF mode
<1>2. /\ Slippage.mode = "none" => delta = 0
      /\ Slippage.mode = "basis_points" => delta = (price * v) \div 10000
      /\ Slippage.mode = "absolute" => delta = v
  BY <1>1 DEF SlippageDelta
<1> HIDE DEF delta, v
<1>3. delta \in Nat
  <2>1. CASE Slippage.mode = "basis_points"
    <3>1. price * v \in Nat
      <4>1. v \in Nat
        BY <1>1, <2>1
      <4> QED
        BY <4>1
    <3> DEFINE x == price * v
    <3>2. x \in Nat /\ delta = x \div 10000
      BY <1>2, <2>1, <3>1
    <3> HIDE DEF x
    <3> QED
      BY <3>2
  <2>2. CASE Slippage.mode # "basis_points"
    BY <1>1, <1>2, <2>2
  <2> QED
    BY <2>1, <2>2
<1>4. SlippedPrice(price, side) = (IF side = "buy" THEN price + delta ELSE price - delta)
      /\ SlippedPrice(price, side) > 0
  BY DEF SlippedPrice, SlippageRepresentable, delta
<1> QED
  BY <1>3, <1>4

-----------------------------------------------------------------------------
(* Sound fills, orders and positions *)

LEMMA NewOrderSound ==
    ASSUME NEW intent, IntentTyped(intent)
    PROVE  OrderSound(NewOrder(intent)) /\ NewOrder(intent).intent = intent
<1> DEFINE o == NewOrder(intent)
<1>1. /\ o.filled = 0 /\ o.remaining = intent.quantity /\ o.notional = 0
      /\ o.accepted = intent.created /\ o.updated = intent.created
      /\ o.intent = intent /\ o.status = "accepted"
  BY DEF NewOrder
<1>2. intent.quantity \in Nat \ {0} /\ intent.created \in Int
  BY DEF IntentTyped
<1> HIDE DEF o
<1>3. PaperOrderContract(o)
  BY <1>1, <1>2 DEF PaperOrderContract
<1>4. OrderSound(o)
  BY <1>1, <1>2, <1>3 DEF OrderSound
<1> QED
  BY <1>1, <1>4 DEF o

LEMMA OpenOrder ==
    ASSUME NEW o, OrderSound(o), o.status \notin TerminalStatuses
    PROVE  /\ o.remaining > 0 /\ o.filled + o.remaining = o.intent.quantity
           /\ o.status \in {"accepted", "partially_filled"}
           /\ AllowedTransitions[o.status] = {"partially_filled", "filled", "cancelled"}
<1>1. /\ o.filled \in Nat /\ o.remaining \in Nat /\ o.intent.quantity \in Nat \ {0}
      /\ o.filled + o.remaining = o.intent.quantity
      /\ CASE o.status = "accepted" -> o.filled = 0
           [] o.status = "partially_filled" -> o.filled \in 1 .. (o.intent.quantity - 1)
           [] o.status = "filled" -> o.filled = o.intent.quantity
           [] o.status = "cancelled" -> o.remaining > 0
           [] OTHER -> FALSE
  BY DEF OrderSound, PaperOrderContract
<1>2. o.status \in {"accepted", "partially_filled"}
  BY <1>1 DEF TerminalStatuses
<1>3. o.filled < o.intent.quantity
  BY <1>1, <1>2
<1>4. AllowedTransitions[o.status] = {"partially_filled", "filled", "cancelled"}
  BY <1>2 DEF AllowedTransitions
<1> QED
  BY <1>1, <1>2, <1>3, <1>4

\* An order takes a fill of no more than what remains of it.
LEMMA OrderFilled ==
    ASSUME NEW o, OrderSound(o), DOMAIN o = OrderFields, o.status \notin TerminalStatuses,
           NEW f, FillSound(f), f.quantity <= o.remaining, f.time \in Int, f.time >= o.updated
    PROVE  LET new == FillOrder(o, f)
           IN  /\ OrderSound(new) /\ LegalTransition(o, new)
               /\ new.filled = o.filled + f.quantity
<1> DEFINE new == FillOrder(o, f)
           q == f.quantity
           x == f.quantity * f.price
<1>1. /\ new.id = o.id /\ new.intent = o.intent /\ new.accepted = o.accepted
      /\ new.filled = o.filled + q /\ new.remaining = o.remaining - q
      /\ new.notional = o.notional + x /\ new.updated = f.time
      /\ new.status = IF o.remaining = q THEN "filled" ELSE "partially_filled"
  BY DEF FillOrder, OrderFields
<1>2. /\ o.filled \in Nat /\ o.remaining \in Nat /\ o.notional \in Nat
      /\ o.accepted \in Int /\ o.updated \in Int /\ o.intent.quantity \in Nat \ {0}
      /\ o.intent.created \in Int
      /\ (o.filled = 0) <=> (o.notional = 0)
      /\ o.accepted >= o.intent.created /\ o.updated >= o.accepted
  BY DEF OrderSound, PaperOrderContract
<1>3. /\ o.remaining > 0 /\ o.filled + o.remaining = o.intent.quantity
      /\ AllowedTransitions[o.status] = {"partially_filled", "filled", "cancelled"}
  BY OpenOrder
<1>4. q \in Nat \ {0} /\ q <= o.remaining /\ x \in Nat \ {0}
  BY DEF FillSound
<1> HIDE DEF new, q, x
<1>5. /\ new.filled \in Nat \ {0} /\ new.remaining \in Nat /\ new.notional \in Nat \ {0}
      /\ new.filled + new.remaining = new.intent.quantity
      /\ new.updated >= new.accepted /\ new.updated \in Int
  BY <1>1, <1>2, <1>3, <1>4
<1>6. \/ new.status = "filled" /\ new.filled = new.intent.quantity
      \/ new.status = "partially_filled" /\ new.filled \in 1 .. (new.intent.quantity - 1)
  BY <1>1, <1>2, <1>3, <1>4, <1>5
<1>7. PaperOrderContract(new)
  <2>1. CASE new.status = "filled"
    BY <2>1, <1>1, <1>2, <1>5, <1>6 DEF PaperOrderContract
  <2>2. CASE new.status = "partially_filled"
    BY <2>2, <1>1, <1>2, <1>5, <1>6 DEF PaperOrderContract
  <2> QED
    BY <2>1, <2>2, <1>1
<1>8. OrderSound(new)
  BY <1>1, <1>2, <1>5, <1>7 DEF OrderSound
<1>9. LegalTransition(o, new)
  BY <1>1, <1>2, <1>3, <1>4 DEF LegalTransition
<1> QED
  BY <1>1, <1>8, <1>9 DEF new, q

LEMMA OrderCancelled ==
    ASSUME NEW o, OrderSound(o), DOMAIN o = OrderFields, o.status \notin TerminalStatuses,
           NEW time \in Int, time >= o.updated, NEW new,
           new = [o EXCEPT !.status = "cancelled", !.updated = time]
    PROVE  OrderSound(new) /\ LegalTransition(o, new) /\ new.filled = o.filled
<1>1. /\ new.id = o.id /\ new.intent = o.intent /\ new.accepted = o.accepted
      /\ new.filled = o.filled /\ new.remaining = o.remaining
      /\ new.notional = o.notional /\ new.updated = time /\ new.status = "cancelled"
  BY DEF OrderFields
<1>2. /\ o.filled \in Nat /\ o.remaining \in Nat /\ o.notional \in Nat
      /\ o.accepted \in Int /\ o.updated \in Int /\ o.intent.quantity \in Nat \ {0}
      /\ o.intent.created \in Int
      /\ (o.filled = 0) <=> (o.notional = 0)
      /\ o.accepted >= o.intent.created /\ o.updated >= o.accepted
  BY DEF OrderSound, PaperOrderContract
<1>3. /\ o.remaining > 0 /\ o.filled + o.remaining = o.intent.quantity
      /\ AllowedTransitions[o.status] = {"partially_filled", "filled", "cancelled"}
  BY OpenOrder
<1>4. PaperOrderContract(new)
  BY <1>1, <1>2, <1>3 DEF PaperOrderContract
<1>5. OrderSound(new)
  BY <1>1, <1>2, <1>4 DEF OrderSound
<1>6. LegalTransition(o, new)
  BY <1>1, <1>2, <1>3 DEF LegalTransition
<1> QED
  BY <1>1, <1>5, <1>6

LEMMA PositionFilled ==
    ASSUME NEW old, PositionSound(old) \/ old = EmptyPosition, None \notin Int \X Int,
           NEW f, FillSound(f), NEW prices \in SUBSET Int,
           old.net # 0 => Between(old.average, prices), NEW more \in SUBSET Int,
           f.side = SideOf(old.net + Signed(f)) => f.price \in more,
           SideOf(old.net) = SideOf(old.net + Signed(f)) => prices \subseteq more
    PROVE  LET new == ApplyFillToPosition(old, f)
           IN  /\ PositionSound(new) /\ new.key = PositionKey(f)
               /\ new.version = old.version + 1
               /\ new.net = old.net + Signed(f) /\ new.fees = old.fees + f.fee
               /\ new.net # 0 => Between(new.average, more)
<1> DEFINE new == ApplyFillToPosition(old, f)
           a == NextAverage(old.net, old.average, f)
<1>1. /\ new.key = PositionKey(f) /\ new.version = old.version + 1
      /\ new.net = old.net + Signed(f) /\ new.fees = old.fees + f.fee
      /\ new.average = a
      /\ new.currency = IF f.fee # 0 /\ old.currency = None THEN f.currency ELSE old.currency
  BY DEF ApplyFillToPosition, PositionKey
<1>2. /\ old.net \in Int /\ (old.net = 0 <=> old.average = None)
      /\ old.net # 0 => AverageSound(old.average)
      /\ old.fees \in Nat /\ (old.fees = 0 <=> old.currency = None)
      /\ old.version \in Nat
  BY DEF PositionSound, PaperPositionContract, EmptyPosition
<1>3. /\ f.quantity \in Nat \ {0} /\ f.price \in Int /\ f.side \in {"buy", "sell"}
      /\ f.fee \in Nat /\ (f.fee = 0 <=> f.currency = None)
  BY DEF FillSound, PaperFillContract
<1> DEFINE net == old.net
           average == old.average
<1>4. /\ net \in Int /\ (net = 0 <=> average = None)
      /\ net # 0 => AverageSound(average) /\ Between(average, prices)
      /\ f.side = SideOf(net + Signed(f)) => f.price \in more
      /\ SideOf(net) = SideOf(net + Signed(f)) => prices \subseteq more
  BY <1>2
<1> HIDE DEF new, net, average
<1>5. LET b == NextAverage(net, average, f)
      IN  /\ net + Signed(f) \in Int /\ (net + Signed(f) = 0 <=> b = None)
          /\ net + Signed(f) # 0 => AverageSound(b) /\ Between(b, more)
  BY <1>3, <1>4, AverageNext
<1>6. /\ new.net \in Int /\ (new.net = 0 <=> new.average = None)
      /\ new.net # 0 => AverageSound(new.average) /\ Between(new.average, more)
  BY <1>1, <1>5 DEF net, average
<1>7. new.fees \in Nat /\ ((new.fees = 0) <=> (new.currency = None))
      /\ new.version \in Nat \ {0}
  BY <1>1, <1>2, <1>3
<1>8. PositionSound(new)
  BY <1>6, <1>7 DEF PositionSound, PaperPositionContract
<1> QED
  BY <1>1, <1>6, <1>8 DEF new

-----------------------------------------------------------------------------
(* What the events of an order and of a position explain *)

LEMMA HistoriesAreNumbers ==
    ASSUME NEW s, IsList(s.events)
    PROVE  /\ \A id : OrderHistory(s, id) \subseteq 1 .. Len(s.events)
           /\ \A key : PositionHistory(s, key) \subseteq 1 .. Len(s.events)
           /\ Len(s.events) \in Nat
<1>1. Len(s.events) \in Nat /\ DOMAIN s.events = 1 .. Len(s.events)
  BY ListFacts
<1> QED
  BY <1>1 DEF OrderHistory, PositionHistory, Journalled

LEMMA OrderExplainedSame ==
    ASSUME NEW s, NEW t, NEW new, Grows(s, t, new), NEW id, OrderExplained(s, id),
           t.orders[id].intent = s.orders[id].intent,
           \A k \in 1 .. Len(new) : new[k].type \in OrderEventTypes => new[k].payload.id # id
    PROVE  OrderExplained(t, id)
<1>1. \A n : n \in OrderHistory(t, id) <=> n \in OrderHistory(s, id)
  BY HistoryGrows
<1>2. OrderHistory(t, id) = OrderHistory(s, id)
  BY <1>1 DEF OrderHistory
<1>3. \A n \in OrderHistory(s, id) : t.events[n] = s.events[n]
  BY HistoryGrows
<1> DEFINE H == OrderHistory(s, id)
<1>4. /\ \A n \in H : PaperOrderContract(s.events[n].payload)
      /\ \A n \in H : (\A k \in H : n <= k) => s.events[n].payload = NewOrder(s.orders[id].intent)
      /\ \A n, k \in H :
             n < k /\ (\A j \in H : j <= n \/ k <= j)
                 => LegalTransition(s.events[n].payload, s.events[k].payload)
  BY DEF OrderExplained
<1>5. \A n \in H : t.events[n].payload = s.events[n].payload
  BY <1>3
<1>6. OrderHistory(t, id) = H
  BY <1>2
<1> HIDE DEF H
<1> QED
  BY <1>4, <1>5, <1>6 DEF OrderExplained

\* The k-th new event is the only one of the order, and a legal transition of it.
LEMMA OrderExplainedNext ==
    ASSUME NEW s, NEW t, NEW new, Grows(s, t, new), NEW id, OrderTold(s, id), OrderExplained(s, id),
           NEW k \in 1 .. Len(new), new[k].type \in OrderEventTypes,
           new[k].payload = t.orders[id], t.orders[id].id = id,
           \A j \in 1 .. Len(new) : new[j].type \in OrderEventTypes => j = k,
           t.orders[id].intent = s.orders[id].intent, PaperOrderContract(t.orders[id]),
           LegalTransition(s.orders[id], t.orders[id])
    PROVE  OrderExplained(t, id)
<1> DEFINE N == Len(s.events)
           H == OrderHistory(s, id)
           G == OrderHistory(t, id)
           p == N + k
<1>1. PICK first \in H, last \in H :
          /\ \A n \in H : first <= n /\ n <= last
          /\ s.events[last].payload = s.orders[id]
  BY DEF OrderTold
<1>2. /\ \A n \in H : n \in 1 .. N /\ n \in G /\ t.events[n] = s.events[n]
      /\ \A n \in G : n \in H \/ (n - N \in 1 .. Len(new) /\ new[n - N].type \in OrderEventTypes)
      /\ p \in G /\ t.events[p] = new[k]
  BY HistoryGrows
<1>3. N \in Nat /\ Len(new) \in Nat
  BY ListFacts DEF Grows
<1>4. \A n \in G : n \in Int
  BY HistoriesAreNumbers DEF Grows
<1>5. /\ \A n \in H : PaperOrderContract(s.events[n].payload)
      /\ \A n \in H : (\A j \in H : n <= j) => s.events[n].payload = NewOrder(s.orders[id].intent)
      /\ \A n, i \in H :
             n < i /\ (\A j \in H : j <= n \/ i <= j)
                 => LegalTransition(s.events[n].payload, s.events[i].payload)
  BY DEF OrderExplained
<1> HIDE DEF N, H, G
<1>6. \A n \in G : n \in H \/ n = p
  <2> SUFFICES ASSUME NEW n \in G, n \notin H PROVE n = p
    OBVIOUS
  <2>1. n - N \in 1 .. Len(new) /\ new[n - N].type \in OrderEventTypes
    BY <1>2
  <2>2. n - N = k
    BY <2>1
  <2> QED
    BY <2>2, <1>3, <1>4
<1>7. p \in Int /\ \A n \in H : n < p /\ n \in Int
  BY <1>2, <1>3
<1>8. t.events[p].payload = t.orders[id]
  BY <1>2
<1> HIDE DEF p
<1>9. ASSUME NEW n \in G
      PROVE  PaperOrderContract(t.events[n].payload)
  BY <1>2, <1>5, <1>6, <1>8
<1>10. ASSUME NEW n \in G, \A j \in G : n <= j
       PROVE  t.events[n].payload = NewOrder(t.orders[id].intent)
  <2>1. n \in H
    BY <1>1, <1>2, <1>6, <1>7, <1>10
  <2>2. \A j \in H : n <= j
    BY <1>2, <1>10
  <2> QED
    BY <2>1, <2>2, <1>2, <1>5
<1>11. ASSUME NEW n \in G, NEW i \in G, n < i, \A j \in G : j <= n \/ i <= j
       PROVE  LegalTransition(t.events[n].payload, t.events[i].payload)
  <2>1. CASE i \in H
    <3>1. n \in H
      BY <2>1, <1>6, <1>7, <1>11
    <3>2. \A j \in H : j <= n \/ i <= j
      BY <1>2, <1>11
    <3> QED
      BY <2>1, <3>1, <3>2, <1>2, <1>5, <1>11
  <2>2. CASE i = p
    <3>1. n \in H
      BY <2>2, <1>6, <1>7, <1>11
    <3>2. last <= n
      BY <2>2, <1>1, <1>2, <1>7, <1>11
    <3>3. n = last
      BY <3>1, <3>2, <1>1, <1>7
    <3>4. t.events[n].payload = s.orders[id]
      BY <3>1, <3>3, <1>1, <1>2
    <3> QED
      BY <2>2, <3>4, <1>8
  <2> QED
    BY <2>1, <2>2, <1>6
<1> QED
  BY <1>9, <1>10, <1>11 DEF OrderExplained, G

LEMMA OrderExplainedFirst ==
    ASSUME NEW s, NEW t, NEW e, Grows(s, t, <<e>>), NEW id, OrdersNamed(s), id \notin DOMAIN s.orders,
           e.payload = t.orders[id], t.orders[id] = NewOrder(t.orders[id].intent),
           PaperOrderContract(t.orders[id])
    PROVE  OrderExplained(t, id)
<1> DEFINE N == Len(s.events)
           G == OrderHistory(t, id)
           new == <<e>>
<1>1. Len(new) = 1 /\ new[1] = e /\ Grows(s, t, new)
  OBVIOUS
<1> HIDE DEF new
<1>2. OrderHistory(s, id) = {}
  BY DEF OrderHistory, OrdersNamed
<1>3. \A n \in G : n - N \in 1 .. 1
  BY <1>1, <1>2, HistoryGrows
<1>4. N \in Nat /\ t.events[N + 1] = e
  <2>1. 1 \in 1 .. 1
    OBVIOUS
  <2> QED
    BY <2>1, <1>1, ListFacts DEF Grows
<1>5. \A n \in G : n \in Int
  BY HistoriesAreNumbers DEF Grows
<1> HIDE DEF N, G
<1>6. \A n \in G : n = N + 1
  BY <1>3, <1>4, <1>5
<1>7. \A n \in G : t.events[n].payload = t.orders[id]
  BY <1>4, <1>6
<1>8. \A n, k \in G : ~(n < k)
  BY <1>4, <1>6
<1> QED
  BY <1>7, <1>8 DEF OrderExplained, G

LEMMA PositionExplainedSame ==
    ASSUME NEW s, NEW t, NEW new, Grows(s, t, new), NEW key, PositionExplained(s, key),
           \A k \in 1 .. Len(new) : new[k].type = "position_changed" => new[k].payload.key # key
    PROVE  PositionExplained(t, key)
<1> DEFINE H == PositionHistory(s, key)
<1>1. \A n : n \in PositionHistory(t, key) <=> n \in PositionHistory(s, key)
  BY PlacesGrow
<1>2. PositionHistory(t, key) = H
  BY <1>1 DEF PositionHistory
<1>3. \A n \in H : t.events[n] = s.events[n]
  BY PlacesGrow
<1>4. \A n \in H : /\ PaperPositionContract(s.events[n].payload)
                   /\ s.events[n].payload.version = Cardinality({k \in H : k <= n})
  BY DEF PositionExplained
<1> HIDE DEF H
<1> QED
  BY <1>2, <1>3, <1>4 DEF PositionExplained

\* The k-th new event is the only one of a position, and tells its next version: the
\* first, or the one after what the last event of it tells.
LEMMA PositionExplainedNext ==
    ASSUME NEW s, NEW t, NEW new, Grows(s, t, new), NEW key,
           key \in DOMAIN s.positions => PositionTold(s, key) /\ PositionExplained(s, key),
           PlacesNamed(s), NEW k \in 1 .. Len(new), new[k].type = "position_changed",
           new[k].payload = t.positions[key], t.positions[key].key = key,
           \A j \in 1 .. Len(new) : new[j].type = "position_changed" => j = k,
           PaperPositionContract(t.positions[key]),
           key \notin DOMAIN s.positions => t.positions[key].version = 1,
           key \in DOMAIN s.positions => t.positions[key].version = s.positions[key].version + 1
    PROVE  PositionExplained(t, key)
<1> DEFINE N == Len(s.events)
           H == PositionHistory(s, key)
           G == PositionHistory(t, key)
           p == N + k
<1>1. /\ \A n \in H : n \in 1 .. N /\ n \in G /\ t.events[n] = s.events[n]
      /\ \A n \in G : n \in H \/ (n - N \in 1 .. Len(new) /\ new[n - N].type = "position_changed")
      /\ p \in G /\ t.events[p] = new[k]
  BY PlacesGrow
<1>2. N \in Nat /\ Len(new) \in Nat
  BY ListFacts DEF Grows
<1>3. \A n \in G : n \in Int
  BY HistoriesAreNumbers DEF Grows
<1>4. key \notin DOMAIN s.positions => H = {}
  BY DEF PlacesNamed, PositionHistory
<1>5. key \in DOMAIN s.positions =>
          \E last \in H : /\ \A n \in H : n <= last
                          /\ s.events[last].payload = s.positions[key]
  BY DEF PositionTold
<1>6. key \in DOMAIN s.positions =>
          \A n \in H : /\ PaperPositionContract(s.events[n].payload)
                       /\ s.events[n].payload.version = Cardinality({j \in H : j <= n})
  BY DEF PositionExplained
<1>7. H \subseteq 1 .. N
  BY <1>1
<1> HIDE DEF N, H, G
<1>8. \A n \in G : n \in H \/ n = p
  <2> SUFFICES ASSUME NEW n \in G, n \notin H PROVE n = p
    OBVIOUS
  <2>1. n - N \in 1 .. Len(new) /\ new[n - N].type = "position_changed"
    BY <1>1
  <2>2. n - N = k
    BY <2>1
  <2> QED
    BY <2>2, <1>2, <1>3
<1>9. p \in Int /\ (\A n \in H : n < p /\ n \in Int) /\ p \notin H
  BY <1>1, <1>2
<1>10. t.events[p].payload = t.positions[key]
  BY <1>1
<1> HIDE DEF p
<1>11. IsFiniteSet(H) /\ Cardinality(H) \in Nat
  <2>1. IsFiniteSet(1 .. N)
    BY <1>2, FS_Interval
  <2> QED
    BY <2>1, <1>7, FS_Subset, FS_CardinalityType
<1>12. G = H \cup {p}
  BY <1>1, <1>8
<1>13. Cardinality(G) = Cardinality(H) + 1
  BY <1>9, <1>11, <1>12, FS_AddElement
<1>14. t.positions[key].version = Cardinality(G)
  <2>1. CASE key \in DOMAIN s.positions
    <3>1. PICK last \in H : (\A n \in H : n <= last) /\ s.events[last].payload = s.positions[key]
      BY <2>1, <1>5
    <3>2. {j \in H : j <= last} = H
      BY <3>1
    <3>3. s.positions[key].version = Cardinality(H)
      BY <2>1, <3>1, <3>2, <1>6
    <3> QED
      BY <2>1, <3>3, <1>13
  <2>2. CASE key \notin DOMAIN s.positions
    <3>1. Cardinality(H) = 0
      BY <2>2, <1>4, FS_EmptySet
    <3> QED
      BY <2>2, <3>1, <1>13
  <2> QED
    BY <2>1, <2>2
<1>15. ASSUME NEW n \in H
       PROVE  /\ PaperPositionContract(t.events[n].payload)
              /\ t.events[n].payload.version = Cardinality({j \in G : j <= n})
  <2>1. {j \in G : j <= n} = {j \in H : j <= n}
    BY <1>9, <1>12
  <2>2. key \in DOMAIN s.positions
    BY <1>4
  <2>3. t.events[n] = s.events[n]
    BY <1>1
  <2> QED
    BY <2>1, <2>2, <2>3, <1>6
<1>16. {j \in G : j <= p} = G
  BY <1>9, <1>12
<1>17. ASSUME NEW n \in G
       PROVE  /\ PaperPositionContract(t.events[n].payload)
              /\ t.events[n].payload.version = Cardinality({j \in G : j <= n})
  <2>1. CASE n = p
    BY <2>1, <1>10, <1>14, <1>16
  <2>2. CASE n # p
    BY <2>2, <1>8, <1>15
  <2> QED
    BY <2>1, <2>2
<1> QED
  BY <1>17 DEF PositionExplained, G

LEMMA PlacesNamedGrows ==
    ASSUME NEW s, NEW t, NEW new, Grows(s, t, new), PlacesNamed(s),
           DOMAIN s.positions \subseteq DOMAIN t.positions,
           \A k \in 1 .. Len(new) :
               new[k].type = "position_changed" => new[k].payload.key \in DOMAIN t.positions
    PROVE  PlacesNamed(t)
<1> SUFFICES ASSUME NEW n \in Journalled(t, {"position_changed"})
             PROVE  t.events[n].payload.key \in DOMAIN t.positions
  BY DEF PlacesNamed
<1>1. \/ n \in Journalled(s, {"position_changed"}) /\ t.events[n] = s.events[n]
      \/ /\ n - Len(s.events) \in 1 .. Len(new) /\ t.events[n] = new[n - Len(s.events)]
         /\ new[n - Len(s.events)].type \in {"position_changed"}
  BY JournalledGrows
<1> QED
  BY <1>1 DEF PlacesNamed

-----------------------------------------------------------------------------
(* What the fills explain *)

LEMMA SumGrows ==
    ASSUME NEW N \in Nat, NEW v \in [1 .. N -> Int], NEW w \in [1 .. (N + 1) -> Int],
           \A n \in 1 .. N : w[n] = v[n]
    PROVE  SumOf(w) = SumOf(v) + w[N + 1] /\ SumOf(v) \in Int
<1>1. v \in Seq(Int) /\ Len(v) = N
  OBVIOUS
<1>2. w \in Seq(Int) /\ Len(w) = N + 1
  OBVIOUS
<1>3. (\A n \in 1 .. (N + 1) : w[n] \in Int) /\ (\A n \in 1 .. N : v[n] = w[n])
  OBVIOUS
<1> QED
  BY <1>1, <1>2, <1>3, SumAppend

LEMMA SumNothing ==
    ASSUME NEW N \in Nat, NEW v \in [1 .. N -> Int], \A n \in 1 .. N : v[n] = 0
    PROVE  SumOf(v) = 0
<1>1. v \in Seq(Int) /\ Len(v) = N
  OBVIOUS
<1> QED
  BY <1>1, SumOfZeros

LEMMA FillsAppend ==
    ASSUME NEW s, NEW t, NEW f, IsList(s.fills), t.fills = Append(s.fills, f),
           FillsSound(s), FillSound(f)
    PROVE  /\ \A key : /\ NetOf(s, key) \in Int /\ FeesOf(s, key) \in Int
                       /\ NetOf(t, key) = NetOf(s, key)
                              + (IF PositionKey(f) = key THEN Signed(f) ELSE 0)
                       /\ FeesOf(t, key) = FeesOf(s, key)
                              + (IF PositionKey(f) = key THEN f.fee ELSE 0)
           /\ \A id : /\ OrderFees(s, id) \in Int
                      /\ OrderFees(t, id) = OrderFees(s, id)
                             + (IF f.order = id THEN f.fee ELSE 0)
           /\ \A key, side :
                  OwnPrices(t, key, side) = OwnPrices(s, key, side)
                      \cup (IF PositionKey(f) = key /\ f.side = side THEN {f.price} ELSE {})
           /\ FillsSound(t)
<1> DEFINE N == Len(s.fills)
<1>1. /\ IsList(t.fills) /\ Len(t.fills) = N + 1
      /\ \A n \in 1 .. N : t.fills[n] = s.fills[n]
      /\ t.fills[N + 1] = f
  BY AppendFacts
<1>2. N \in Nat /\ DOMAIN s.fills = 1 .. N
  BY ListFacts
<1>3. DOMAIN t.fills = 1 .. (N + 1)
  BY <1>1, <1>2, ListFacts
<1>4. FillsSound(t)
  <2> SUFFICES ASSUME NEW n \in 1 .. (N + 1) PROVE FillSound(t.fills[n])
    BY <1>1 DEF FillsSound
  <2>1. CASE n \in 1 .. N
    BY <2>1, <1>1 DEF FillsSound
  <2>2. CASE n \notin 1 .. N
    <3>1. n = N + 1
      BY <2>2, <1>2
    <3> QED
      BY <3>1, <1>1
  <2> QED
    BY <2>1, <2>2
<1>5. \A g : FillSound(g) => g.fee \in Int /\ Signed(g) \in Int
  BY DEF FillSound, Signed
<1>6. /\ \A n \in 1 .. N : s.fills[n].fee \in Int /\ Signed(s.fills[n]) \in Int
      /\ \A n \in 1 .. (N + 1) : t.fills[n].fee \in Int /\ Signed(t.fills[n]) \in Int
  BY <1>1, <1>4, <1>5 DEF FillsSound
<1>7. N + 1 \in 1 .. (N + 1) /\ \A n \in 1 .. N : n \in 1 .. (N + 1)
  BY <1>2
<1> HIDE DEF N
<1>8. ASSUME NEW key
      PROVE  /\ NetOf(s, key) \in Int
             /\ NetOf(t, key) = NetOf(s, key) + (IF PositionKey(f) = key THEN Signed(f) ELSE 0)
  <2> DEFINE v == [n \in DOMAIN s.fills |-> IF Own(s, key, n) THEN Signed(s.fills[n]) ELSE 0]
             w == [n \in DOMAIN t.fills |-> IF Own(t, key, n) THEN Signed(t.fills[n]) ELSE 0]
  <2>1. v \in [1 .. N -> Int] /\ w \in [1 .. (N + 1) -> Int]
    BY <1>2, <1>3, <1>6
  <2>2. \A n \in 1 .. N : w[n] = v[n]
    BY <1>1, <1>2, <1>3, <1>7 DEF Own
  <2>3. w[N + 1] = IF PositionKey(f) = key THEN Signed(f) ELSE 0
    BY <1>1, <1>3, <1>7 DEF Own
  <2>4. NetOf(s, key) = SumOf(v) /\ NetOf(t, key) = SumOf(w)
    BY DEF NetOf
  <2> HIDE DEF v, w
  <2> QED
    BY <2>1, <2>2, <2>3, <2>4, <1>2, SumGrows
<1>9. ASSUME NEW key
      PROVE  /\ FeesOf(s, key) \in Int
             /\ FeesOf(t, key) = FeesOf(s, key) + (IF PositionKey(f) = key THEN f.fee ELSE 0)
  <2> DEFINE v == [n \in DOMAIN s.fills |-> IF Own(s, key, n) THEN s.fills[n].fee ELSE 0]
             w == [n \in DOMAIN t.fills |-> IF Own(t, key, n) THEN t.fills[n].fee ELSE 0]
  <2>1. v \in [1 .. N -> Int] /\ w \in [1 .. (N + 1) -> Int]
    BY <1>2, <1>3, <1>6
  <2>2. \A n \in 1 .. N : w[n] = v[n]
    BY <1>1, <1>2, <1>3, <1>7 DEF Own
  <2>3. w[N + 1] = IF PositionKey(f) = key THEN f.fee ELSE 0
    BY <1>1, <1>3, <1>7 DEF Own
  <2>4. FeesOf(s, key) = SumOf(v) /\ FeesOf(t, key) = SumOf(w)
    BY DEF FeesOf
  <2> HIDE DEF v, w
  <2> QED
    BY <2>1, <2>2, <2>3, <2>4, <1>2, SumGrows
<1>10. ASSUME NEW id
       PROVE  /\ OrderFees(s, id) \in Int
              /\ OrderFees(t, id) = OrderFees(s, id) + (IF f.order = id THEN f.fee ELSE 0)
  <2> DEFINE v == [n \in DOMAIN s.fills |-> IF s.fills[n].order = id THEN s.fills[n].fee ELSE 0]
             w == [n \in DOMAIN t.fills |-> IF t.fills[n].order = id THEN t.fills[n].fee ELSE 0]
  <2>1. v \in [1 .. N -> Int] /\ w \in [1 .. (N + 1) -> Int]
    BY <1>2, <1>3, <1>6
  <2>2. \A n \in 1 .. N : w[n] = v[n]
    BY <1>1, <1>2, <1>3, <1>7
  <2>3. w[N + 1] = IF f.order = id THEN f.fee ELSE 0
    BY <1>1, <1>3, <1>7
  <2>4. OrderFees(s, id) = SumOf(v) /\ OrderFees(t, id) = SumOf(w)
    BY DEF OrderFees
  <2> HIDE DEF v, w
  <2> QED
    BY <2>1, <2>2, <2>3, <2>4, <1>2, SumGrows
<1>11. ASSUME NEW key, NEW side
       PROVE  OwnPrices(t, key, side) = OwnPrices(s, key, side)
                  \cup (IF PositionKey(f) = key /\ f.side = side THEN {f.price} ELSE {})
  <2> DEFINE A == {k \in DOMAIN s.fills : Own(s, key, k) /\ s.fills[k].side = side}
             B == {k \in DOMAIN t.fills : Own(t, key, k) /\ t.fills[k].side = side}
  <2>1. \A k : k \in B <=> k \in A \/ (k = N + 1 /\ PositionKey(f) = key /\ f.side = side)
    <3>1. \A k : k \in 1 .. (N + 1) <=> k \in 1 .. N \/ k = N + 1
      BY <1>2
    <3>2. N + 1 \notin 1 .. N
      BY <1>2
    <3> QED
      BY <3>1, <3>2, <1>1, <1>2, <1>3 DEF Own
  <2>2. \A k \in A : t.fills[k] = s.fills[k]
    BY <1>1, <1>2
  <2>3. OwnPrices(s, key, side) = {s.fills[n].price : n \in A}
        /\ OwnPrices(t, key, side) = {t.fills[n].price : n \in B}
    BY DEF OwnPrices
  <2> HIDE DEF A, B
  <2> QED
    BY <2>1, <2>2, <2>3, <1>1
<1> QED
  BY <1>4, <1>8, <1>9, <1>10, <1>11

-----------------------------------------------------------------------------
(* Everything the journal and the fills explain *)

LEMMA PositionsExplainedSame ==
    ASSUME NEW s, NEW t, NEW new, Grows(s, t, new), Explained(s),
           t.positions = s.positions, t.fills = s.fills,
           \A k \in 1 .. Len(new) : new[k].type # "position_changed"
    PROVE  PositionsExplained(t) /\ PlacesNamed(t) /\ FillsSound(t) /\ FillsPlaced(t)
<1>1. ASSUME NEW key \in DOMAIN t.positions
      PROVE  PositionSound(t.positions[key]) /\ PositionExplained(t, key) /\ NetExplained(t, key)
  <2>1. PositionSound(s.positions[key]) /\ PositionExplained(s, key) /\ NetExplained(s, key)
    BY DEF Explained, PositionsExplained
  <2>2. PositionExplained(t, key)
    BY <2>1, PositionExplainedSame
  <2>3. NetOf(t, key) = NetOf(s, key) /\ FeesOf(t, key) = FeesOf(s, key)
        /\ \A side : OwnPrices(t, key, side) = OwnPrices(s, key, side)
    BY DEF NetOf, FeesOf, OwnPrices, Own
  <2>4. NetExplained(t, key)
    BY <2>1, <2>3 DEF NetExplained
  <2> QED
    BY <2>1, <2>2, <2>4
<1>2. PlacesNamed(t)
  BY PlacesNamedGrows DEF Explained
<1>3. FillsSound(t) /\ FillsPlaced(t)
  BY DEF Explained, FillsSound, FillsPlaced
<1> QED
  BY <1>1, <1>2, <1>3 DEF PositionsExplained

\* One order that the new events say nothing of, or only in an event of its own.
LEMMA OrdersExplainedNext ==
    ASSUME NEW s, NEW t, NEW new, Grows(s, t, new), OrdersExplained(s),
           NEW id, DOMAIN t.orders = DOMAIN s.orders \cup {id},
           \A k \in DOMAIN s.orders : k # id => t.orders[k] = s.orders[k],
           \A j \in 1 .. Len(new) : new[j].type \in OrderEventTypes => new[j].payload.id = id,
           \A k \in DOMAIN s.orders : k # id => OrderFees(t, k) = OrderFees(s, k),
           OrderSound(t.orders[id]), OrderExplained(t, id), FeesExplained(t, id)
    PROVE  OrdersExplained(t)
<1> SUFFICES ASSUME NEW k \in DOMAIN s.orders, k # id
             PROVE  OrderSound(t.orders[k]) /\ OrderExplained(t, k) /\ FeesExplained(t, k)
  BY DEF OrdersExplained
<1>1. /\ OrderSound(s.orders[k]) /\ OrderExplained(s, k) /\ FeesExplained(s, k)
      /\ t.orders[k] = s.orders[k] /\ OrderFees(t, k) = OrderFees(s, k)
  BY DEF OrdersExplained
<1>2. OrderExplained(t, k)
  BY <1>1, OrderExplainedSame
<1>3. FeesExplained(t, k)
  BY <1>1 DEF FeesExplained
<1> QED
  BY <1>1, <1>2, <1>3

LEMMA ExplainedSame ==
    ASSUME NEW s, NEW t, NEW new, Grows(s, t, new), Explained(s),
           t.orders = s.orders, t.positions = s.positions, t.fills = s.fills,
           Without(new, OrderEventTypes), Without(new, {"position_changed"})
    PROVE  Explained(t)
<1>1. \A k \in 1 .. Len(new) :
          new[k].type \notin OrderEventTypes /\ new[k].type # "position_changed"
  BY DEF Without
<1>2. PositionsExplained(t) /\ PlacesNamed(t) /\ FillsSound(t) /\ FillsPlaced(t)
  BY <1>1, PositionsExplainedSame
<1>3. OrdersExplained(t)
  <2> SUFFICES ASSUME NEW id \in DOMAIN s.orders
               PROVE  OrderSound(t.orders[id]) /\ OrderExplained(t, id) /\ FeesExplained(t, id)
    BY DEF OrdersExplained
  <2>1. OrderSound(s.orders[id]) /\ OrderExplained(s, id) /\ FeesExplained(s, id)
    BY DEF Explained, OrdersExplained
  <2>2. OrderExplained(t, id)
    BY <1>1, <2>1, OrderExplainedSame
  <2>3. OrderFees(t, id) = OrderFees(s, id)
    BY DEF OrderFees
  <2> QED
    BY <2>1, <2>2, <2>3 DEF FeesExplained
<1> QED
  BY <1>2, <1>3 DEF Explained

LEMMA ExplainedAccepted ==
    ASSUME NEW s, NEW t, NEW e, Grows(s, t, <<e>>), Explained(s), OrdersNamed(s), IsList(s.fills),
           NEW id, id \notin DOMAIN s.orders, \A n \in DOMAIN s.fills : s.fills[n].order # id,
           NEW intent, IntentTyped(intent), t.orders[id] = NewOrder(intent), t.orders[id].id = id,
           DOMAIN t.orders = DOMAIN s.orders \cup {id},
           \A k \in DOMAIN s.orders : k # id => t.orders[k] = s.orders[k],
           e.type = "order_accepted", e.payload = t.orders[id],
           t.positions = s.positions, t.fills = s.fills
    PROVE  Explained(t)
<1> DEFINE new == <<e>>
<1>1. Len(new) = 1 /\ new[1] = e /\ (\A k \in 1 .. Len(new) : new[k] = e) /\ Grows(s, t, new)
  OBVIOUS
<1> HIDE DEF new
<1>2. PositionsExplained(t) /\ PlacesNamed(t) /\ FillsSound(t) /\ FillsPlaced(t)
  <2>1. \A k \in 1 .. Len(new) : new[k].type # "position_changed"
    BY <1>1
  <2> QED
    BY <1>1, <2>1, PositionsExplainedSame
<1>3. OrderSound(t.orders[id]) /\ t.orders[id].intent = intent
  BY NewOrderSound
<1>4. OrderExplained(t, id)
  <2>1. PaperOrderContract(t.orders[id]) /\ t.orders[id] = NewOrder(t.orders[id].intent)
    BY <1>3 DEF OrderSound
  <2> QED
    BY <2>1, OrderExplainedFirst
<1>5. \A k : OrderFees(t, k) = OrderFees(s, k)
  BY DEF OrderFees
<1>6. FeesExplained(t, id)
  <2> DEFINE N == Len(s.fills)
             v == [n \in DOMAIN s.fills |-> IF s.fills[n].order = id THEN s.fills[n].fee ELSE 0]
  <2>1. N \in Nat /\ DOMAIN s.fills = 1 .. N
    BY ListFacts
  <2>2. v \in [1 .. N -> Int] /\ \A n \in 1 .. N : v[n] = 0
    BY <2>1
  <2>3. OrderFees(s, id) = SumOf(v)
    BY DEF OrderFees
  <2> HIDE DEF N, v
  <2>4. OrderFees(t, id) = 0
    BY <2>1, <2>2, <2>3, <1>5, SumNothing
  <2>5. t.orders[id].filled = 0
    BY DEF NewOrder
  <2> QED
    BY <2>4, <2>5 DEF FeesExplained
<1>7. OrdersExplained(t)
  <2>1. \A j \in 1 .. Len(new) : new[j].type \in OrderEventTypes => new[j].payload.id = id
    BY <1>1
  <2> QED
    BY <2>1, <1>1, <1>3, <1>4, <1>5, <1>6, OrdersExplainedNext DEF Explained
<1> QED
  BY <1>2, <1>7 DEF Explained

LEMMA ExplainedCancelled ==
    ASSUME NEW s, NEW t, NEW e, Grows(s, t, <<e>>), Explained(s), NEW id, OrderTold(s, id),
           NEW time, OrderCancels(s, t, e, id, time)
    PROVE  Explained(t)
<1> USE DEF OrderCancels
<1> DEFINE new == <<e>>
<1>1. Len(new) = 1 /\ new[1] = e /\ (\A k \in 1 .. Len(new) : new[k] = e) /\ Grows(s, t, new)
      /\ 1 \in 1 .. Len(new)
  OBVIOUS
<1> HIDE DEF new
<1>2. PositionsExplained(t) /\ PlacesNamed(t) /\ FillsSound(t) /\ FillsPlaced(t)
  <2>1. \A k \in 1 .. Len(new) : new[k].type # "position_changed"
    BY <1>1
  <2> QED
    BY <1>1, <2>1, PositionsExplainedSame
<1>3. OrderSound(s.orders[id]) /\ OrderExplained(s, id) /\ FeesExplained(s, id)
  BY DEF Explained, OrdersExplained
<1>4. /\ OrderSound(t.orders[id]) /\ LegalTransition(s.orders[id], t.orders[id])
      /\ t.orders[id].filled = s.orders[id].filled
  BY <1>3, OrderCancelled, ZenonT(40)
<1>5. t.orders[id].intent = s.orders[id].intent
  BY <1>4 DEF LegalTransition
<1>6. OrderExplained(t, id)
  <2>1. new[1].type \in OrderEventTypes /\ new[1].payload = t.orders[id]
    BY <1>1 DEF OrderEventTypes
  <2>2. \A j \in 1 .. Len(new) : new[j].type \in OrderEventTypes => j = 1
    BY <1>1
  <2>3. PaperOrderContract(t.orders[id])
    BY <1>4 DEF OrderSound
  <2> QED
    BY <2>1, <2>2, <2>3, <1>1, <1>3, <1>4, <1>5, OrderExplainedNext
<1>7. \A k : OrderFees(t, k) = OrderFees(s, k)
  BY DEF OrderFees
<1>8. FeesExplained(t, id)
  BY <1>3, <1>4, <1>5, <1>7 DEF FeesExplained
<1>9. OrdersExplained(t)
  <2>1. \A j \in 1 .. Len(new) : new[j].type \in OrderEventTypes => new[j].payload.id = id
    BY <1>1
  <2>2. DOMAIN t.orders = DOMAIN s.orders \cup {id}
    OBVIOUS
  <2> QED
    BY <2>1, <2>2, <1>1, <1>4, <1>6, <1>7, <1>8, OrdersExplainedNext DEF Explained
<1> QED
  BY <1>2, <1>9 DEF Explained

\* A position without an event has no fill.
LEMMA NoPosition ==
    ASSUME NEW s, IsList(s.fills), FillsPlaced(s), NEW key, key \notin DOMAIN s.positions
    PROVE  NetOf(s, key) = 0 /\ FeesOf(s, key) = 0
<1> DEFINE N == Len(s.fills)
           v == [n \in DOMAIN s.fills |-> IF Own(s, key, n) THEN Signed(s.fills[n]) ELSE 0]
           w == [n \in DOMAIN s.fills |-> IF Own(s, key, n) THEN s.fills[n].fee ELSE 0]
<1>1. N \in Nat /\ DOMAIN s.fills = 1 .. N
  BY ListFacts
<1>2. \A n \in 1 .. N : ~Own(s, key, n)
  BY DEF FillsPlaced, Own
<1>3. /\ v \in [1 .. N -> Int] /\ \A n \in 1 .. N : v[n] = 0
      /\ w \in [1 .. N -> Int] /\ \A n \in 1 .. N : w[n] = 0
  BY <1>1, <1>2
<1>4. NetOf(s, key) = SumOf(v) /\ FeesOf(s, key) = SumOf(w)
  BY DEF NetOf, FeesOf
<1> HIDE DEF N, v, w
<1> QED
  BY <1>1, <1>3, <1>4, SumNothing

LEMMA PricesAreNumbers ==
    ASSUME NEW s, IsList(s.fills), FillsSound(s), NEW key, NEW side
    PROVE  OwnPrices(s, key, side) \in SUBSET Int
<1>1. DOMAIN s.fills = 1 .. Len(s.fills)
  BY ListFacts
<1> QED
  BY <1>1 DEF OwnPrices, FillsSound, FillSound

\* The position of a fill.
LEMMA PositionExplainedFilled ==
    ASSUME NEW s, NEW t, IsList(s.fills), Explained(s), NEW fill, FillSound(fill),
           None \notin Int \X Int, t.fills = Append(s.fills, fill), NEW key, key = PositionKey(fill),
           t.positions[key] = ApplyFillToPosition(Position(s, key), fill)
    PROVE  FilledPosition(s, t, key)
<1> DEFINE old == Position(s, key)
           p == t.positions[key]
           new == old.net + Signed(fill)
           prices == OwnPrices(s, key, SideOf(old.net))
           more == OwnPrices(t, key, SideOf(new))
<1>1. /\ key \in DOMAIN s.positions => old = s.positions[key]
      /\ key \notin DOMAIN s.positions => old = EmptyPosition
  BY DEF Position
<1>2. EmptyPosition.net = 0 /\ EmptyPosition.fees = 0 /\ EmptyPosition.version = 0
  BY DEF EmptyPosition
<1>3. key \in DOMAIN s.positions => PositionSound(s.positions[key]) /\ NetExplained(s, key)
  BY DEF Explained, PositionsExplained
<1>4. FillsSound(s) /\ FillsPlaced(s)
  BY DEF Explained
<1>5. key \notin DOMAIN s.positions => NetOf(s, key) = 0 /\ FeesOf(s, key) = 0
  BY <1>4, NoPosition
<1> HIDE DEF old
<1>6. /\ PositionSound(old) \/ old = EmptyPosition
      /\ old.net = NetOf(s, key) /\ old.fees = FeesOf(s, key)
      /\ old.net # 0 => Between(old.average, prices)
  BY <1>1, <1>2, <1>3, <1>5 DEF NetExplained
<1>7. /\ NetOf(t, key) = NetOf(s, key) + Signed(fill)
      /\ FeesOf(t, key) = FeesOf(s, key) + fill.fee
      /\ \A side : OwnPrices(t, key, side)
             = OwnPrices(s, key, side) \cup (IF fill.side = side THEN {fill.price} ELSE {})
      /\ FillsSound(t)
  BY <1>4, FillsAppend
<1>8. IsList(t.fills)
  BY AppendFacts
<1>9. prices \in SUBSET Int /\ more \in SUBSET Int
  BY <1>4, <1>7, <1>8, PricesAreNumbers
<1>10. /\ fill.side = SideOf(new) => fill.price \in more
       /\ SideOf(old.net) = SideOf(new) => prices \subseteq more
  BY <1>7
<1> HIDE DEF prices, more
<1>11. /\ PositionSound(p) /\ p.key = PositionKey(fill) /\ p.version = old.version + 1
       /\ p.net = new /\ p.fees = old.fees + fill.fee
       /\ p.net # 0 => Between(p.average, more)
  <2> DEFINE q == ApplyFillToPosition(old, fill)
  <2>1. /\ PositionSound(q) /\ q.key = PositionKey(fill) /\ q.version = old.version + 1
        /\ q.net = new /\ q.fees = old.fees + fill.fee
        /\ q.net # 0 => Between(q.average, more)
    BY <1>6, <1>9, <1>10, PositionFilled
  <2>2. p = q
    BY DEF old
  <2> HIDE DEF q, p
  <2> QED
    BY <2>1, <2>2
<1>12. NetExplained(t, key)
  BY <1>6, <1>7, <1>11 DEF NetExplained, more
<1> QED
  BY <1>1, <1>2, <1>11, <1>12 DEF FilledPosition

\* A fill changes the sums of its own order and of its own position alone.
LEMMA FillsFollow ==
    ASSUME NEW s, NEW t, NEW f, IsList(s.fills), t.fills = Append(s.fills, f),
           FillsSound(s), FillSound(f), NEW id, f.order = id, NEW key, key = PositionKey(f)
    PROVE  SumsFollow(s, t, f, id, key)
<1> DEFINE Place == PositionKey(f)
<1>a. /\ \A k : /\ NetOf(s, k) \in Int /\ FeesOf(s, k) \in Int
                /\ NetOf(t, k) = NetOf(s, k) + (IF Place = k THEN Signed(f) ELSE 0)
                /\ FeesOf(t, k) = FeesOf(s, k) + (IF Place = k THEN f.fee ELSE 0)
      /\ \A k : /\ OrderFees(s, k) \in Int
                /\ OrderFees(t, k) = OrderFees(s, k) + (IF f.order = k THEN f.fee ELSE 0)
      /\ \A k, side :
             OwnPrices(t, k, side) = OwnPrices(s, k, side)
                 \cup (IF Place = k /\ f.side = side THEN {f.price} ELSE {})
      /\ FillsSound(t)
  BY FillsAppend, Zenon
<1>b. Place = key
  OBVIOUS
<1> HIDE DEF Place
<1>1. \A k : /\ NetOf(s, k) \in Int /\ FeesOf(s, k) \in Int
             /\ NetOf(t, k) = NetOf(s, k) + (IF Place = k THEN Signed(f) ELSE 0)
             /\ FeesOf(t, k) = FeesOf(s, k) + (IF Place = k THEN f.fee ELSE 0)
  BY <1>a, Zenon
<1>2. \A k : /\ OrderFees(s, k) \in Int
             /\ OrderFees(t, k) = OrderFees(s, k) + (IF f.order = k THEN f.fee ELSE 0)
  BY <1>a, Zenon
<1>3. \A k, side :
          OwnPrices(t, k, side) = OwnPrices(s, k, side)
              \cup (IF Place = k /\ f.side = side THEN {f.price} ELSE {})
  BY <1>a, Zenon
<1>4. FillsSound(t)
  BY <1>a, Zenon
<1>5. OrderFees(s, id) \in Int /\ OrderFees(t, id) = OrderFees(s, id) + f.fee
  BY <1>2
<1>6. ASSUME NEW k, k # id PROVE OrderFees(t, k) = OrderFees(s, k)
  BY <1>2, <1>6
<1>7. ASSUME NEW k, k # key
      PROVE  NetOf(t, k) = NetOf(s, k) /\ FeesOf(t, k) = FeesOf(s, k)
  BY <1>b, <1>1, <1>7
<1>8. ASSUME NEW k, NEW side, k # key PROVE OwnPrices(t, k, side) = OwnPrices(s, k, side)
  <2>1. (IF Place = k /\ f.side = side THEN {f.price} ELSE {}) = {}
    BY <1>b, <1>8
  <2>2. OwnPrices(t, k, side) = OwnPrices(s, k, side) \cup {}
    BY <1>3, <2>1
  <2> QED
    BY <2>2
<1> QED
  BY <1>4, <1>5, <1>6, <1>7, <1>8 DEF SumsFollow

LEMMA ExplainedFilled ==
    ASSUME NEW s, NEW t, NEW new, Grows(s, t, new), IsList(s.fills), Explained(s),
           None \notin Int \X Int, NEW id, OrderTold(s, id),
           \A k \in DOMAIN s.positions : PositionTold(s, k),
           NEW fill, FillFits(s, id, fill), NEW key, OrderFills(s, t, id, fill, key),
           FillTold(new, t.orders[id], t.positions[key])
    PROVE  Explained(t)
<1> USE DEF FillFits, OrderFills, FillTold
<1> DEFINE o == s.orders[id]
           u == t.orders[id]
<1>1. OrderSound(o) /\ OrderExplained(s, id) /\ FeesExplained(s, id)
  BY DEF Explained, OrdersExplained
<1>2. /\ OrderSound(u) /\ LegalTransition(o, u) /\ u.filled = o.filled + fill.quantity
  BY <1>1, OrderFilled
<1>3. u.intent = o.intent
  BY <1>2 DEF LegalTransition
<1>4. FillsSound(s) /\ FillsPlaced(s) /\ PlacesNamed(s) /\ OrdersExplained(s) /\ PositionsExplained(s)
  BY DEF Explained
<1>5. SumsFollow(s, t, fill, id, key)
  BY <1>4, FillsFollow
<1>6. OrderExplained(t, id)
  <2>1. 2 \in 1 .. Len(new) /\ \A j \in 1 .. Len(new) : new[j].type \in OrderEventTypes => j = 2
    OBVIOUS
  <2>2. new[2].type \in OrderEventTypes /\ PaperOrderContract(u)
    BY <1>2 DEF OrderSound
  <2> QED
    BY <2>1, <2>2, <1>1, <1>2, <1>3, OrderExplainedNext
<1>7. FeesExplained(t, id)
  <2> DEFINE i == o.intent.instrument
             a == o.filled
             b == o.filled + fill.quantity
  <2>1. PICK currency : FeeAssessable(i, currency) /\ fill.fee = Fee(i, a, b)
    BY DEF FeeDue
  <2>2. a \in Nat /\ b \in Nat /\ a <= b /\ b # 0
    <3>1. a \in Nat /\ fill.quantity \in Nat \ {0}
      BY <1>1 DEF OrderSound, FillSound
    <3> QED
      BY <3>1
  <2>3. OrderFees(s, id) = IF a = 0 THEN 0 ELSE Fee(i, 0, a)
    BY <1>1 DEF FeesExplained
  <2>4. OrderFees(t, id) = OrderFees(s, id) + fill.fee
    BY <1>5 DEF SumsFollow
  <2>5. u.filled = b /\ u.intent.instrument = i
    BY <1>2, <1>3
  <2> HIDE DEF i, a, b, o, u
  <2>6. /\ Fee(i, a, b) \in Nat /\ Fee(i, 0, a) \in Nat /\ Fee(i, 0, 0) = 0
        /\ Fee(i, 0, b) = Fee(i, 0, a) + Fee(i, a, b)
    BY <2>1, <2>2, FeeFacts, ZenonT(40)
  <2>7. OrderFees(t, id) = Fee(i, 0, b)
    BY <2>1, <2>3, <2>4, <2>6
  <2> QED
    BY <2>2, <2>5, <2>7 DEF FeesExplained, u
<1>8. OrdersExplained(t)
  <2>1. \A j \in 1 .. Len(new) : new[j].type \in OrderEventTypes => new[j].payload.id = id
    OBVIOUS
  <2>2. \A k \in DOMAIN s.orders : k # id => OrderFees(t, k) = OrderFees(s, k)
    BY <1>5 DEF SumsFollow
  <2>3. DOMAIN t.orders = DOMAIN s.orders \cup {id}
    OBVIOUS
  <2> QED
    BY <2>1, <2>2, <2>3, <1>2, <1>4, <1>6, <1>7, OrdersExplainedNext
<1>9. /\ PositionSound(t.positions[key]) /\ NetExplained(t, key)
      /\ t.positions[key].key = key
      /\ key \notin DOMAIN s.positions => t.positions[key].version = 1
      /\ key \in DOMAIN s.positions
            => t.positions[key].version = s.positions[key].version + 1
  <2>1. FilledPosition(s, t, key)
    BY PositionExplainedFilled
  <2> QED
    BY <2>1 DEF FilledPosition
<1>10. PositionExplained(t, key)
  <2>1. 3 \in 1 .. Len(new) /\ \A j \in 1 .. Len(new) : new[j].type = "position_changed" => j = 3
    OBVIOUS
  <2>2. new[3].type = "position_changed" /\ PaperPositionContract(t.positions[key])
    BY <1>9 DEF PositionSound
  <2>3. key \in DOMAIN s.positions => PositionTold(s, key) /\ PositionExplained(s, key)
    BY <1>4 DEF PositionsExplained
  <2> QED
    BY <2>1, <2>2, <2>3, <1>4, <1>9, PositionExplainedNext
<1>11. ASSUME NEW k \in DOMAIN s.positions, k # key
       PROVE  PositionSound(t.positions[k]) /\ PositionExplained(t, k) /\ NetExplained(t, k)
  <2>1. PositionSound(s.positions[k]) /\ PositionExplained(s, k) /\ NetExplained(s, k)
        /\ t.positions[k] = s.positions[k]
    BY <1>4, <1>11 DEF PositionsExplained
  <2>2. \A j \in 1 .. Len(new) : new[j].type = "position_changed" => new[j].payload.key # k
    BY <1>9, <1>11
  <2>3. PositionExplained(t, k)
    BY <2>1, <2>2, PositionExplainedSame
  <2>4. NetOf(t, k) = NetOf(s, k) /\ FeesOf(t, k) = FeesOf(s, k)
    BY <1>5, <1>11 DEF SumsFollow
  <2>5. \A side : OwnPrices(t, k, side) = OwnPrices(s, k, side)
    BY <1>5, <1>11 DEF SumsFollow
  <2>6. NetExplained(t, k)
    BY <2>1, <2>4, <2>5 DEF NetExplained
  <2> QED
    BY <2>1, <2>3, <2>6
<1>12. PositionsExplained(t)
  BY <1>9, <1>10, <1>11 DEF PositionsExplained
<1>13. PlacesNamed(t)
  <2>1. \A j \in 1 .. Len(new) :
            new[j].type = "position_changed" => new[j].payload.key \in DOMAIN t.positions
    BY <1>9
  <2> QED
    BY <2>1, <1>4, PlacesNamedGrows
<1>14. FillsPlaced(t)
  <2> DEFINE N == Len(s.fills)
  <2>1. /\ Len(t.fills) = N + 1 /\ N \in Nat
        /\ \A n \in 1 .. N : t.fills[n] = s.fills[n]
        /\ t.fills[N + 1] = fill
    BY AppendFacts, ListFacts
  <2>2. ASSUME NEW n \in 1 .. (N + 1)
        PROVE  PositionKey(t.fills[n]) \in DOMAIN t.positions
    <3>1. CASE n \in 1 .. N
      BY <3>1, <2>1, <1>4 DEF FillsPlaced
    <3>2. CASE n \notin 1 .. N
      <4>1. n = N + 1
        BY <3>2, <2>1
      <4> QED
        BY <4>1, <2>1
    <3> QED
      BY <3>1, <3>2
  <2> QED
    BY <2>1, <2>2 DEF FillsPlaced
<1> QED
  BY <1>5, <1>8, <1>12, <1>13, <1>14 DEF Explained, SumsFollow

-----------------------------------------------------------------------------
(* Caches and limits *)

LEMMA BindHolds ==
    ASSUME NEW map, NEW key, NEW value, NEW limit \in Nat, Holds(map, limit),
           key \in DOMAIN map \/ ~(Cardinality(DOMAIN map) >= limit)
    PROVE  Holds(Bind(map, key, value), limit)
<1> DEFINE D == DOMAIN map
           E == DOMAIN Bind(map, key, value)
<1>1. E = D \cup {key}
  BY BindFacts
<1>2. IsFiniteSet(D) /\ Cardinality(D) <= limit /\ (key \in D \/ ~(Cardinality(D) >= limit))
  BY DEF Holds
<1>3. Holds(Bind(map, key, value), limit) <=> IsFiniteSet(E) /\ Cardinality(E) <= limit
  BY DEF Holds
<1> HIDE DEF D, E
<1>4. CASE key \in D
  <2>1. E = D
    BY <1>1, <1>4
  <2> QED
    BY <1>2, <1>3, <2>1
<1>5. CASE key \notin D
  <2>1. IsFiniteSet(E) /\ Cardinality(E) = Cardinality(D) + 1
    BY <1>1, <1>2, <1>5, FS_AddElement
  <2>2. Cardinality(D) \in Nat
    BY <1>2, FS_CardinalityType
  <2> QED
    BY <1>2, <1>3, <1>5, <2>1, <2>2
<1> QED
  BY <1>4, <1>5

LEMMA OutcomeRecordFacts ==
    ASSUME NEW digest, NEW outcome
    PROVE  LET r == OutcomeRecord(digest, outcome)
           IN  /\ DOMAIN r = {"primary", "alternate"}
               /\ Outcomes(r) = {outcome}
               /\ AnswersDiffer(r)
               /\ r.primary = <<digest, outcome>>
  BY DEF OutcomeRecord, Outcomes, AnswersDiffer

LEMMA WithAlternateFacts ==
    ASSUME NEW record, DOMAIN record = {"primary", "alternate"}, NEW digest, NEW outcome,
           record.primary[1] # digest
    PROVE  LET r == WithAlternate(record, digest, outcome)
           IN  /\ DOMAIN r = {"primary", "alternate"}
               /\ \A o \in Outcomes(r) : o \in Outcomes(record) \/ o = outcome
               /\ AnswersDiffer(r)
               /\ r.primary = record.primary
<1> DEFINE r == WithAlternate(record, digest, outcome)
           a == <<digest, outcome>>
<1>1. DOMAIN r = {"primary", "alternate"} /\ r.primary = record.primary /\ r.alternate = a
  BY DEF WithAlternate
<1>2. a[1] = digest /\ a[2] = outcome
  OBVIOUS
<1> HIDE DEF r, a
<1>3. \A o \in Outcomes(r) : o \in Outcomes(record) \/ o = outcome
  BY <1>1, <1>2 DEF Outcomes
<1>4. AnswersDiffer(r)
  BY <1>1, <1>2 DEF AnswersDiffer
<1> QED
  BY <1>1, <1>3, <1>4 DEF r

LEMMA RejectedFacts ==
    ASSUME NEW intent, NEW code
    PROVE  IsRejection(Rejected(intent, code)) /\ OutcomeClient(Rejected(intent, code)) = OrderId(intent)
  BY DEF IsRejection, Rejected, Rejection, OutcomeClient, OrderId

LEMMA NewOrderFacts ==
    ASSUME NEW intent
    PROVE  LET o == NewOrder(intent)
           IN  /\ DOMAIN o = OrderFields /\ o.id = OrderId(intent) /\ o.intent = intent
               /\ o.status = "accepted" /\ o.filled = 0 /\ o.remaining = intent.quantity
               /\ o.notional = 0 /\ o.accepted = intent.created /\ o.updated = intent.created
               /\ ~IsRejection(o) /\ OutcomeClient(o) = OrderId(intent)
  BY DEF NewOrder, OrderFields, IsRejection, OutcomeClient

LEMMA ConflictKeyed ==
    ASSUME NEW s, CachesKept(s), NEW intent, OrderId(intent) \in DOMAIN s.submits,
           ~Answers(s.submits, OrderId(intent), intent),
           s.submits[OrderId(intent)].alternate = None
    PROVE  LET key == OrderId(intent)
               r == WithAlternate(s.submits[key], intent, Rejected(intent, "idempotency_conflict"))
           IN  SubmitKeyed(key, r) /\ r.primary = s.submits[key].primary
<1> DEFINE key == OrderId(intent)
           conflict == Rejected(intent, "idempotency_conflict")
           old == s.submits[key]
           r == WithAlternate(old, intent, conflict)
<1>1. SubmitKeyed(key, old)
  BY DEF CachesKept
<1>2. old.primary[1] # intent
  BY DEF Answers
<1>3. OutcomeClient(conflict) = key
  BY RejectedFacts
<1> HIDE DEF key, conflict, old
<1>4. /\ DOMAIN r = {"primary", "alternate"}
      /\ \A o \in Outcomes(r) : o \in Outcomes(old) \/ o = conflict
      /\ AnswersDiffer(r)
      /\ r.primary = old.primary
  BY <1>1, <1>2, WithAlternateFacts DEF SubmitKeyed
<1> HIDE DEF r
<1>5. SubmitKeyed(key, r)
  BY <1>1, <1>3, <1>4 DEF SubmitKeyed
<1> QED
  BY <1>4, <1>5 DEF key, conflict, old, r

LEMMA RejectionKeyed ==
    ASSUME NEW intent, NEW code
    PROVE  SubmitKeyed(OrderId(intent), OutcomeRecord(intent, Rejected(intent, code)))
<1> DEFINE o == Rejected(intent, code)
           r == OutcomeRecord(intent, o)
<1>1. DOMAIN r = {"primary", "alternate"} /\ Outcomes(r) = {o} /\ AnswersDiffer(r)
  BY OutcomeRecordFacts
<1>2. OutcomeClient(o) = OrderId(intent)
  BY RejectedFacts
<1> HIDE DEF o, r
<1>3. SubmitKeyed(OrderId(intent), r)
  BY <1>1, <1>2 DEF SubmitKeyed
<1> QED
  BY <1>3 DEF r, o

LEMMA AcceptedKeyed ==
    ASSUME NEW intent
    PROVE  SubmitKeyed(OrderId(intent), OutcomeRecord(intent, NewOrder(intent)))
<1> DEFINE o == NewOrder(intent)
           r == OutcomeRecord(intent, o)
<1>1. DOMAIN r = {"primary", "alternate"} /\ Outcomes(r) = {o} /\ AnswersDiffer(r)
  BY OutcomeRecordFacts
<1>2. OutcomeClient(o) = OrderId(intent)
  BY NewOrderFacts
<1> HIDE DEF o, r
<1>3. SubmitKeyed(OrderId(intent), r)
  BY <1>1, <1>2 DEF SubmitKeyed
<1> QED
  BY <1>3 DEF r, o

LEMMA JournalKeptSame ==
    ASSUME NEW s, NEW t, NEW new, Grows(s, t, new), JournalKept(s),
           t.orders = s.orders, t.positions = s.positions, t.fills = s.fills,
           Without(new, OrderEventTypes), Without(new, {"fill_recorded"}),
           Without(new, {"position_changed"})
    PROVE  JournalKept(t)
<1>1. \A k \in 1 .. Len(new) :
          new[k].type \notin OrderEventTypes /\ new[k].type # "position_changed"
  BY DEF Without
<1>2. ASSUME NEW id \in DOMAIN t.orders
      PROVE  OrderTold(t, id) /\ FilledQuantity(t, id) = t.orders[id].filled
  <2>1. OrderTold(s, id) /\ FilledQuantity(s, id) = s.orders[id].filled
    BY DEF JournalKept
  <2>2. FilledQuantity(t, id) = FilledQuantity(s, id)
    BY DEF FilledQuantity
  <2> QED
    BY <2>1, <2>2, <1>1, OrderToldSame
<1>3. ASSUME NEW key \in DOMAIN t.positions
      PROVE  PositionTold(t, key)
  BY <1>1, PositionToldSame DEF JournalKept
<1>4. OrdersNamed(t)
  BY <1>1, OrdersNamedGrows DEF JournalKept
<1>5. FillsJournalled(t)
  BY FillsJournalledSame DEF JournalKept
<1>6. FillsNumbered(t)
  BY DEF JournalKept, FillsNumbered
<1> QED
  BY <1>2, <1>3, <1>4, <1>5, <1>6 DEF JournalKept

\* A rejection tells nothing of an order or a position.
LEMMA RejectionQuiet ==
    ASSUME NEW s, NEW t, NEW e, IsList(s.events), MayAppend(s.events, t.events, e),
           e.type = "order_rejected"
    PROVE  \E new : /\ Grows(s, t, new)
                    /\ Without(new, OrderEventTypes) /\ Without(new, {"fill_recorded"})
                    /\ Without(new, {"position_changed"})
<1>1. CASE t.events = s.events
  <2>1. Grows(s, t, << >>)
    BY <1>1, GrowsNot
  <2>2. \A types : Without(<< >>, types)
    BY DEF Without
  <2> QED
    BY <2>1, <2>2
<1>2. CASE t.events = Append(s.events, e)
  <2> DEFINE new == <<e>>
  <2>1. Grows(s, t, new)
    BY <1>2, GrowsOne
  <2>2. \A k \in 1 .. Len(new) : new[k] = e
    OBVIOUS
  <2> HIDE DEF new
  <2>3. Without(new, OrderEventTypes) /\ Without(new, {"fill_recorded"})
        /\ Without(new, {"position_changed"})
    BY <2>2 DEF Without, OrderEventTypes
  <2> QED
    BY <2>1, <2>3
<1> QED
  BY <1>1, <1>2 DEF MayAppend

\* A direct command or one of a batch answers with a rejection that is new.
LEMMA CacheKept ==
    ASSUME NEW s, LedgerKept(s), NEW t, NEW key, NEW record, NEW e,
           Frame(s, t, {"submits", "events", "version", "effective"}), t.version \in Int,
           t.submits = Bind(s.submits, key, record), SubmitKeyed(key, record),
           \/ key \in DOMAIN s.submits /\ record.primary = s.submits[key].primary
           \/ key \notin DOMAIN s.submits /\ ~(Cardinality(DOMAIN s.submits) >= Limits.orders),
           MayAppend(s.events, t.events, e), e.type = "order_rejected"
    PROVE  LedgerKept(t)
<1>1. /\ t.orders = s.orders /\ t.positions = s.positions /\ t.fills = s.fills
      /\ t.cancels = s.cancels /\ t.eligible = s.eligible /\ t.instruments = s.instruments
      /\ t.ordinals = s.ordinals /\ t.nextOrdinal = s.nextOrdinal /\ DOMAIN t = BrokerFields
  BY DEF Frame, BrokerFields
<1>2. IsState(s) /\ QueueKept(s)
  BY DEF LedgerKept, BatchState
<1>3. PICK new : /\ Grows(s, t, new)
                 /\ Without(new, OrderEventTypes) /\ Without(new, {"fill_recorded"})
                 /\ Without(new, {"position_changed"})
  BY <1>2, RejectionQuiet DEF IsState
<1>4. /\ \A k : k \in DOMAIN t.submits <=> k \in DOMAIN s.submits \/ k = key
      /\ t.submits[key] = record
      /\ \A k \in DOMAIN s.submits : k # key => t.submits[k] = s.submits[k]
  BY BindDomain, BindValues
<1>5. IsState(t)
  BY <1>1, <1>2, <1>3 DEF IsState, Grows
<1>6. QueueKept(t)
  BY <1>1, <1>2, <1>4, QueueSame
<1>7. OrdersKept(t)
  <2>1. \A id \in DOMAIN s.orders : t.submits[id].primary = s.submits[id].primary
    BY <1>2, <1>4 DEF QueueKept
  <2> QED
    BY <1>1, <2>1 DEF LedgerKept, OrdersKept, OrderKept
<1>8. JournalKept(t)
  BY <1>1, <1>3, JournalKeptSame DEF LedgerKept
<1>9. CachesKept(t)
  BY <1>1, <1>4 DEF LedgerKept, CachesKept, CancelKeyed
<1>10. LimitsKept(t)
  <2>1. Holds(t.submits, Limits.orders)
    BY BindHolds, LimitsAreNumbers DEF LedgerKept, LimitsKept
  <2>2. OpenOrders(t) = OpenOrders(s)
    BY <1>1 DEF OpenOrders
  <2> QED
    BY <1>1, <2>1, <2>2 DEF LedgerKept, LimitsKept
<1>11. Explained(t)
  BY <1>1, <1>3, ExplainedSame DEF LedgerKept
<1> QED
  BY <1>5, <1>6, <1>7, <1>8, <1>9, <1>10, <1>11 DEF LedgerKept, BatchState

-----------------------------------------------------------------------------
(* The elementary steps *)

\* Nothing of the ledger is in the fences.
LEMMA LedgerSame ==
    ASSUME NEW s, LedgerKept(s), NEW t, NEW F, Frame(s, t, F), t.version \in Int,
           F \subseteq {"effective", "bound", "source", "last", "version", "envelopes",
                        "decisions", "dedupe"}
    PROVE  LedgerKept(t)
<1>1. /\ t.orders = s.orders /\ t.positions = s.positions /\ t.fills = s.fills
      /\ t.cancels = s.cancels /\ t.eligible = s.eligible /\ t.instruments = s.instruments
      /\ t.ordinals = s.ordinals /\ t.nextOrdinal = s.nextOrdinal /\ DOMAIN t = BrokerFields
      /\ t.submits = s.submits /\ t.events = s.events
  BY DEF Frame, BrokerFields
<1>2. IsState(s) /\ QueueKept(s)
  BY DEF LedgerKept, BatchState
<1>3. IsState(t)
  BY <1>1, <1>2 DEF IsState
<1>4. QueueKept(t)
  BY <1>1, <1>2, QueueSame
<1>5. OrdersKept(t)
  BY <1>1 DEF LedgerKept, OrdersKept, OrderKept
<1>6. Grows(s, t, << >>) /\ \A types : Without(<< >>, types)
  BY <1>1, <1>2, GrowsNot DEF IsState, Without
<1>7. JournalKept(t)
  BY <1>1, <1>6, JournalKeptSame DEF LedgerKept
<1>8. CachesKept(t)
  BY <1>1 DEF LedgerKept, CachesKept, CancelKeyed
<1>9. OpenOrders(t) = OpenOrders(s)
  BY <1>1 DEF OpenOrders
<1>10. LimitsKept(t)
  BY <1>1, <1>9 DEF LedgerKept, LimitsKept
<1>11. Explained(t)
  BY <1>1, <1>6, ExplainedSame DEF LedgerKept
<1> QED
  BY <1>3, <1>4, <1>5, <1>7, <1>8, <1>10, <1>11 DEF LedgerKept, BatchState

LEMMA AcceptKept ==
    ASSUME NEW s, LedgerKept(s), NEW intent, IntentTyped(intent), NEW after, WaitsFor(intent, after),
           NEW session, NEW sequence, OrderId(intent) \notin DOMAIN s.submits,
           ~(Cardinality(DOMAIN s.submits) >= Limits.orders), ~NoRoomForOrder(s)
    PROVE  LedgerKept(AcceptOrder(s, intent, after, session, sequence))
<1> DEFINE t == AcceptOrder(s, intent, after, session, sequence)
           id == OrderId(intent)
           order == NewOrder(intent)
           e == Event("order_accepted", order, intent.created, session, sequence)
           record == OutcomeRecord(intent, order)
<1>1. IsState(s) /\ QueueKept(s) /\ s.version \in Int
  BY DEF LedgerKept, BatchState
<1>2. /\ t.orders = Bind(s.orders, id, order)
      /\ t.submits = Bind(s.submits, id, record)
      /\ t.ordinals = Bind(s.ordinals, id, s.nextOrdinal)
      /\ t.eligible = Bind(s.eligible, id, after)
      /\ t.nextOrdinal = s.nextOrdinal + 1
      /\ t.events = Append(s.events, e)
      /\ t.cancels = s.cancels /\ t.positions = s.positions /\ t.fills = s.fills
      /\ t.instruments = s.instruments
  BY <1>1, AcceptFields
<1>3. QueueKept(t)
  BY <1>1, AcceptQueue
<1>4. Causes(s, t, session, sequence)
  BY <1>1, AcceptCauses
<1>5. e.type = "order_accepted" /\ e.payload = order
  BY EventFields
<1>6. /\ DOMAIN order = OrderFields /\ order.id = id /\ order.intent = intent
      /\ order.status = "accepted" /\ order.filled = 0 /\ order.remaining = intent.quantity
      /\ order.updated = intent.created
  BY NewOrderFacts
<1>7. record.primary = <<intent, order>>
  BY OutcomeRecordFacts
<1>8. SubmitKeyed(id, record)
  BY AcceptedKeyed
<1>9. IsState(t) /\ t.version \in Int
  BY <1>1, <1>4 DEF Causes, SameFences
<1>10. id \notin DOMAIN s.orders
  BY <1>1 DEF QueueKept
<1> USE DEF id
<1> HIDE DEF t, id, e, record
<1>11. /\ \A k : k \in DOMAIN t.orders <=> k \in DOMAIN s.orders \/ k = id
       /\ \A k : k \in DOMAIN t.submits <=> k \in DOMAIN s.submits \/ k = id
       /\ t.orders[id] = order /\ t.submits[id] = record /\ t.eligible[id] = after
       /\ \A k \in DOMAIN s.orders : k # id => t.orders[k] = s.orders[k]
       /\ \A k \in DOMAIN s.submits : k # id => t.submits[k] = s.submits[k]
       /\ \A k \in DOMAIN s.eligible : k # id => t.eligible[k] = s.eligible[k]
  BY <1>2, BindDomain, BindValues
<1>12. order = NewOrder(intent)
  OBVIOUS
<1>13. OrderKept(t, id)
  BY <1>6, <1>7, <1>11, <1>12 DEF OrderKept, IntentTyped, WaitsFor, id
<1> HIDE DEF order
<1>14. OrdersKept(t)
  <2> SUFFICES ASSUME NEW k \in DOMAIN s.orders, k # id PROVE OrderKept(t, k)
    BY <1>11, <1>13 DEF OrdersKept
  <2>1. OrderKept(s, k)
    BY DEF LedgerKept, OrdersKept
  <2>2. k \in DOMAIN s.submits /\ k \in DOMAIN s.eligible
    BY <1>1 DEF QueueKept
  <2>3. t.orders[k] = s.orders[k] /\ t.submits[k] = s.submits[k] /\ t.eligible[k] = s.eligible[k]
    BY <1>11, <2>2
  <2> QED
    BY <2>1, <2>3 DEF OrderKept
<1>15. Grows(s, t, <<e>>)
  BY <1>1, <1>2, GrowsOne DEF IsState
<1>16. JournalKept(s)
  BY DEF LedgerKept
<1> DEFINE new == <<e>>
<1>17. Len(new) = 1 /\ new[1] = e /\ (\A k \in 1 .. Len(new) : new[k] = e) /\ Grows(s, t, new)
  BY <1>15
<1>18. OrderTold(t, id)
  BY <1>5, <1>6, <1>10, <1>11, <1>15, <1>16, OrderToldFirst DEF JournalKept
<1> HIDE DEF new
<1>19. ASSUME NEW k \in DOMAIN s.orders, k # id
       PROVE  OrderTold(t, k)
  <2>1. OrderTold(s, k) /\ t.orders[k] = s.orders[k]
    BY <1>11, <1>16, <1>19 DEF JournalKept
  <2>2. \A j \in 1 .. Len(new) : new[j].type \in OrderEventTypes => new[j].payload.id # k
    BY <1>5, <1>6, <1>17, <1>19
  <2> QED
    BY <2>1, <2>2, <1>17, OrderToldSame
<1>20. \A k : FilledQuantity(t, k) = FilledQuantity(s, k)
  BY <1>2 DEF FilledQuantity
<1>21. FilledQuantity(s, id) = 0
  <2> DEFINE v == [n \in DOMAIN s.fills |-> IF s.fills[n].order = id THEN s.fills[n].quantity ELSE 0]
  <2>1. \A n \in DOMAIN s.fills : s.fills[n].order # id
    BY <1>10, <1>16 DEF JournalKept, FillsJournalled
  <2>2. Len(s.fills) \in Nat /\ DOMAIN s.fills = 1 .. Len(s.fills)
    BY <1>1, ListFacts DEF IsState
  <2>3. v \in Seq(Int) /\ Len(v) = Len(s.fills)
    BY <2>1, <2>2
  <2>4. \A n \in 1 .. Len(v) : v[n] = 0
    BY <2>1, <2>2, <2>3
  <2>5. SumOf(v) = FilledQuantity(s, id)
    BY DEF FilledQuantity
  <2> HIDE DEF v
  <2> QED
    BY <2>2, <2>3, <2>4, <2>5, SumOfZeros
<1>22. FillsJournalled(t)
  <2>1. Without(new, {"fill_recorded"})
    BY <1>5, <1>17 DEF Without
  <2> QED
    BY <2>1, <1>2, <1>11, <1>16, <1>17, FillsJournalledSame DEF JournalKept
<1>23. OrdersNamed(t)
  <2>1. \A j \in 1 .. Len(new) : new[j].type \in OrderEventTypes => new[j].payload.id \in DOMAIN t.orders
    BY <1>5, <1>6, <1>11, <1>17
  <2> QED
    BY <2>1, <1>11, <1>16, <1>17, OrdersNamedGrows DEF JournalKept
<1>24. ASSUME NEW key \in DOMAIN t.positions
       PROVE  PositionTold(t, key)
  <2>1. \A j \in 1 .. Len(new) : new[j].type # "position_changed"
    BY <1>5, <1>17
  <2> QED
    BY <2>1, <1>2, <1>16, <1>17, PositionToldSame DEF JournalKept
<1>25. FillsNumbered(t)
  BY <1>2, <1>16 DEF JournalKept, FillsNumbered
<1>26. JournalKept(t)
  <2> SUFFICES ASSUME NEW k \in DOMAIN t.orders
               PROVE  OrderTold(t, k) /\ FilledQuantity(t, k) = t.orders[k].filled
    BY <1>22, <1>23, <1>24, <1>25 DEF JournalKept
  <2>1. CASE k = id
    BY <2>1, <1>6, <1>11, <1>18, <1>20, <1>21
  <2>2. CASE k # id
    BY <2>2, <1>11, <1>16, <1>19, <1>20 DEF JournalKept
  <2> QED
    BY <2>1, <2>2
<1>27. CachesKept(t)
  BY <1>2, <1>8, <1>11 DEF LedgerKept, CachesKept, CancelKeyed
<1>28. LimitsKept(t)
  <2>1. LimitsKept(s)
    BY DEF LedgerKept
  <2>2. /\ ~(Cardinality(DOMAIN s.orders) >= Limits.orders)
        /\ ~(Cardinality(OpenOrders(s)) >= Limits.open)
    BY DEF NoRoomForOrder
  <2>3. Holds(t.orders, Limits.orders) /\ Holds(t.submits, Limits.orders)
    BY <1>2, <2>1, <2>2, BindHolds, LimitsAreNumbers DEF LimitsKept
  <2>4. OpenOrders(t) \subseteq OpenOrders(s) \cup {id}
    BY <1>11 DEF OpenOrders
  <2>5. IsFiniteSet(OpenOrders(s))
    <3>1. OpenOrders(s) \subseteq DOMAIN s.orders
      BY DEF OpenOrders
    <3> QED
      BY <3>1, <2>1, FS_Subset DEF LimitsKept, Holds
  <2>6. id \notin OpenOrders(s)
    BY <1>10 DEF OpenOrders
  <2> DEFINE O == OpenOrders(s)
             P == OpenOrders(s) \cup {id}
  <2>7. IsFiniteSet(P) /\ Cardinality(P) = Cardinality(O) + 1
    BY <2>5, <2>6, FS_AddElement
  <2>8. Cardinality(OpenOrders(t)) <= Cardinality(P)
    BY <2>4, <2>7, FS_Subset
  <2>9. Cardinality(OpenOrders(t)) \in Nat /\ Cardinality(O) \in Nat
    BY <2>4, <2>5, <2>7, FS_Subset, FS_CardinalityType
  <2>10. Cardinality(OpenOrders(t)) <= Limits.open
    BY <2>2, <2>7, <2>8, <2>9, LimitsAreNumbers
  <2> QED
    BY <2>1, <2>3, <2>10, <1>2 DEF LimitsKept
<1>29. Explained(t)
  <2>1. Explained(s) /\ OrdersNamed(s) /\ IsList(s.fills)
    BY <1>1, <1>16 DEF LedgerKept, JournalKept, IsState
  <2>2. \A n \in DOMAIN s.fills : s.fills[n].order # id
    BY <1>10, <1>16 DEF JournalKept, FillsJournalled
  <2>3. t.orders[id] = NewOrder(intent) /\ t.orders[id].id = id
    BY <1>6, <1>11 DEF order
  <2>4. DOMAIN t.orders = DOMAIN s.orders \cup {id}
    BY <1>11
  <2>5. e.type = "order_accepted" /\ e.payload = t.orders[id]
    BY <1>5, <1>11
  <2> HIDE DEF id
  <2> QED
    BY <2>1, <2>2, <2>3, <2>4, <2>5, <1>2, <1>10, <1>11, <1>15, ExplainedAccepted
<1>30. LedgerKept(t)
  BY <1>3, <1>9, <1>14, <1>26, <1>27, <1>28, <1>29 DEF LedgerKept, BatchState
<1> QED
  BY <1>30 DEF t

LEMMA EvaluateCancelFacts ==
    ASSUME NEW s, OrdersKept(s), NEW request
    PROVE  LET outcome == EvaluateCancel(s, request)
           IN  \/ CancelRefused(s, request, outcome)
               \/ CancelTaken(s, request, outcome)
               \/ /\ request.order \in DOMAIN s.orders
                  /\ OrderId(s.orders[request.order].intent) = OrderId(request)
                  /\ outcome = s.orders[request.order]
<1> DEFINE id == request.order
           order == Get(s.orders, id)
           Reject(code) == Rejection(request.strategy, request.client, code,
                                     request.requested, request.order)
           taken == [order EXCEPT !.status = "cancelled", !.updated = request.requested]
           outcome == EvaluateCancel(s, request)
<1>1. outcome = IF order = None \/ OrderId(order.intent) # OrderId(request) THEN Reject("unknown_order")
                ELSE IF request.requested < order.updated THEN Reject("invalid_intent")
                ELSE IF order.status = "cancelled" THEN order
                ELSE IF order.status \in TerminalStatuses THEN Reject("order_terminal")
                ELSE IF JournalFull(s) THEN Reject("capacity_exceeded")
                ELSE taken
  BY DEF EvaluateCancel
<1>2. \A code : /\ IsRejection(Reject(code))
                /\ OutcomeOrder(Reject(code)) = id
                /\ OutcomeClient(Reject(code)) = <<request.strategy, request.client>>
                /\ Reject(code).code = code
  BY DEF Rejection, IsRejection, OutcomeOrder, OutcomeClient
<1>3. order # None => id \in DOMAIN s.orders /\ order = s.orders[id]
  BY DEF Get
<1> HIDE DEF Reject, outcome, order
<1>4. outcome = Reject("unknown_order") => CancelRefused(s, request, outcome)
  BY <1>2 DEF CancelRefused
<1>5. \A code : outcome = Reject(code) /\ order # None => CancelRefused(s, request, outcome)
  BY <1>2, <1>3 DEF CancelRefused
<1>6. CASE order = None \/ OrderId(order.intent) # OrderId(request)
  BY <1>1, <1>4, <1>6 DEF outcome
<1>7. CASE /\ order # None /\ OrderId(order.intent) = OrderId(request)
           /\ \/ request.requested < order.updated
              \/ order.status # "cancelled" /\ order.status \in TerminalStatuses
              \/ order.status # "cancelled" /\ JournalFull(s)
  <2>1. \/ outcome = Reject("invalid_intent") \/ outcome = Reject("order_terminal")
        \/ outcome = Reject("capacity_exceeded") \/ outcome = order
    BY <1>1, <1>7
  <2> QED
    BY <2>1, <1>3, <1>5, <1>7 DEF outcome
<1>8. CASE /\ order # None /\ OrderId(order.intent) = OrderId(request)
           /\ ~(request.requested < order.updated) /\ order.status = "cancelled"
  <2>1. outcome = order
    BY <1>1, <1>8
  <2> QED
    BY <2>1, <1>3, <1>8 DEF outcome
<1>9. CASE /\ order # None /\ OrderId(order.intent) = OrderId(request)
           /\ ~(request.requested < order.updated) /\ order.status # "cancelled"
           /\ order.status \notin TerminalStatuses /\ ~JournalFull(s)
  <2>1. outcome = taken
    BY <1>1, <1>9
  <2>2. CancelTaken(s, request, outcome)
    BY <2>1, <1>3, <1>9 DEF CancelTaken
  <2> QED
    BY <2>2 DEF outcome
<1> QED
  BY <1>6, <1>7, <1>8, <1>9

LEMMA PairPrefixed ==
    \A a, b, c : <<a>> \o <<b, c>> = <<a, b, c>>
<1> SUFFICES ASSUME NEW a, NEW b, NEW c
             PROVE  <<a>> \o <<b, c>> = <<a, b, c>>
  OBVIOUS
<1> DEFINE p == <<a>>
           q == <<b, c>>
           r == <<a, b, c>>
           S == {a, b, c}
<1>1. p \in Seq(S) /\ Len(p) = 1 /\ p[1] = a
  OBVIOUS
<1>2. q \in Seq(S) /\ Len(q) = 2 /\ q[1] = b /\ q[2] = c
  OBVIOUS
<1>3. r \in [1 .. 3 -> S] /\ r[1] = a /\ r[2] = b /\ r[3] = c
  OBVIOUS
<1> HIDE DEF p, q, r, S
<1>4. IsList(p) /\ IsList(q)
  BY <1>1, <1>2 DEF IsList
<1>5. /\ IsList(p \o q) /\ Len(p \o q) = 3
      /\ (p \o q)[1] = a /\ (p \o q)[2] = b /\ (p \o q)[3] = c
  <2>1. /\ IsList(p \o q) /\ Len(p \o q) = Len(p) + Len(q)
        /\ \A n \in 1 .. Len(p) : (p \o q)[n] = p[n]
        /\ \A n \in 1 .. Len(q) : (p \o q)[Len(p) + n] = q[n]
    BY <1>4, ConcatFacts
  <2>2. (p \o q)[1] = p[1] /\ (p \o q)[1 + 1] = q[1] /\ (p \o q)[1 + 2] = q[2]
    BY <2>1, <1>1, <1>2
  <2> QED
    BY <2>1, <2>2, <1>1, <1>2
<1> DEFINE t == p \o q
<1>6. IsList(t) /\ Len(t) = 3 /\ t[1] = a /\ t[2] = b /\ t[3] = c
  BY <1>5
<1> HIDE DEF t
<1>7. t = r
  <2>1. PICK T : t \in Seq(T)
    BY <1>6 DEF IsList
  <2>2. t = [n \in 1 .. Len(t) |-> t[n]]
    BY <2>1
  <2>3. t = [n \in 1 .. 3 |-> t[n]] /\ r = [n \in 1 .. 3 |-> r[n]]
    BY <2>2, <1>3, <1>6
  <2>4. \A n \in 1 .. 3 : t[n] = r[n]
    BY <1>3, <1>6
  <2> QED
    BY <2>3, <2>4
<1>8. p \o q = r
  BY <1>7 DEF t
<1> QED
  BY <1>8 DEF p, q, r

LEMMA CancelOutcomeFacts ==
    ASSUME NEW s, OrdersKept(s), NEW request, NEW outcome,
           CancelRefused(s, request, outcome) \/ CancelTaken(s, request, outcome)
    PROVE  CancelOutcome(CancelKey(request), outcome)
<1>1. OutcomeOrder(outcome) = request.order /\ OutcomeClient(outcome) = <<request.strategy, request.client>>
  <2>1. CASE CancelRefused(s, request, outcome)
    BY <2>1 DEF CancelRefused
  <2>2. CASE CancelTaken(s, request, outcome)
    <3> DEFINE order == s.orders[request.order]
    <3>1. /\ DOMAIN order = OrderFields /\ order.id = request.order
          /\ OrderId(order.intent) = OrderId(request)
          /\ outcome = [order EXCEPT !.status = "cancelled", !.updated = request.requested]
      BY <2>2 DEF CancelTaken, OrdersKept, OrderKept
    <3> HIDE DEF order
    <3>2. ~IsRejection(outcome) /\ outcome.id = order.id /\ outcome.intent = order.intent
      BY <3>1 DEF IsRejection, OrderFields
    <3>3. OrderId(request) = <<request.strategy, request.client>>
      BY DEF OrderId
    <3> QED
      BY <3>1, <3>2, <3>3 DEF OutcomeOrder, OutcomeClient
  <2> QED
    BY <2>1, <2>2
<1>2. <<request.order>> \o <<request.strategy, request.client>>
        = <<request.order, request.strategy, request.client>>
  BY PairPrefixed
<1> QED
  BY <1>1, <1>2 DEF CancelOutcome, CancelKey

\* The cache of cancels after an outcome is cached, over the same orders.
LEMMA CancelsKept ==
    ASSUME NEW s, LedgerKept(s), NEW request,
           ~Answers(s.cancels, CancelKey(request), request), CancelCacheable(s, request),
           \/ CancelRefused(s, request, EvaluateCancel(s, request))
           \/ CancelTaken(s, request, EvaluateCancel(s, request))
    PROVE  /\ Holds(CancelsAfter(s, request), Limits.orders)
           /\ \A key \in DOMAIN CancelsAfter(s, request) :
                  CancelKeyed(s, key, CancelsAfter(s, request)[key])
<1> DEFINE key == CancelKey(request)
           outcome == EvaluateCancel(s, request)
           record == CancelRecord(s, request)
           old == s.cancels[key]
<1>1. CancelOutcome(key, outcome)
  BY CancelOutcomeFacts DEF LedgerKept
<1>2. key[1] \in DOMAIN s.orders \/ (IsRejection(outcome) /\ outcome.code = "unknown_order")
  <2>1. key[1] = request.order
    BY DEF CancelKey
  <2> QED
    BY <2>1 DEF CancelRefused, CancelTaken
<1>3. key \in DOMAIN s.cancels \/ ~(Cardinality(DOMAIN s.cancels) >= Limits.orders)
  <2>1. key \notin DOMAIN s.cancels => Cardinality(DOMAIN s.cancels) < Limits.orders
    BY DEF CancelCacheable
  <2>2. Cardinality(DOMAIN s.cancels) \in Nat
    BY FS_CardinalityType DEF LedgerKept, LimitsKept, Holds
  <2> QED
    BY <2>1, <2>2, LimitsAreNumbers
<1>4. CancelKeyed(s, key, record)
  <2>1. CASE key \notin DOMAIN s.cancels
    <3>1. record = OutcomeRecord(request, outcome)
      BY <2>1 DEF CancelRecord
    <3> HIDE DEF record, outcome, key
    <3>2. DOMAIN record = {"primary", "alternate"} /\ Outcomes(record) = {outcome}
          /\ AnswersDiffer(record) /\ record.primary = <<request, outcome>>
      BY <3>1, OutcomeRecordFacts
    <3>3. record.primary[2] = outcome
      BY <3>2
    <3> QED
      BY <3>2, <3>3, <1>1, <1>2 DEF CancelKeyed
  <2>2. CASE key \in DOMAIN s.cancels
    <3>1. record = WithAlternate(old, request, outcome) /\ old.alternate = None
      BY <2>2 DEF CancelRecord, CancelCacheable
    <3>2. CancelKeyed(s, key, old)
      BY <2>2 DEF LedgerKept, CachesKept
    <3>3. old.primary[1] # request
      BY <2>2 DEF Answers
    <3> HIDE DEF record, outcome, key, old
    <3>4. /\ DOMAIN record = {"primary", "alternate"}
          /\ \A o \in Outcomes(record) : o \in Outcomes(old) \/ o = outcome
          /\ AnswersDiffer(record)
          /\ record.primary = old.primary
      BY <3>1, <3>2, <3>3, WithAlternateFacts DEF CancelKeyed
    <3> QED
      BY <3>2, <3>4, <1>1 DEF CancelKeyed
  <2> QED
    BY <2>1, <2>2
<1> DEFINE after == CancelsAfter(s, request)
<1>5. after = Bind(s.cancels, key, record)
  BY DEF CancelsAfter
<1> HIDE DEF key, outcome, record, old, after
<1>6. /\ \A k : k \in DOMAIN after <=> k \in DOMAIN s.cancels \/ k = key
      /\ after[key] = record
      /\ \A k \in DOMAIN s.cancels : k # key => after[k] = s.cancels[k]
  BY <1>5, BindDomain, BindValues
<1>7. Holds(after, Limits.orders)
  BY <1>3, <1>5, BindHolds, LimitsAreNumbers DEF LedgerKept, LimitsKept
<1>8. \A k \in DOMAIN after : CancelKeyed(s, k, after[k])
  BY <1>4, <1>6 DEF LedgerKept, CachesKept
<1> QED
  BY <1>7, <1>8 DEF after

LEMMA AppendRoomy ==
    ASSUME NEW q, IsList(q), NEW r, NEW e,
           MayAppend(q, r, e) \/ (r = Append(q, e) /\ ~(Len(q) >= Limits.events))
    PROVE  Len(q) <= Limits.events => Len(r) <= Limits.events
<1>1. Len(Append(q, e)) = Len(q) + 1 /\ Len(q) \in Nat
  BY AppendFacts, ListFacts
<1> QED
  BY <1>1, LimitsAreNumbers DEF MayAppend

LEMMA CancelRefusedKept ==
    ASSUME NEW s, LedgerKept(s), NEW t, NEW request, NEW session, NEW sequence,
           ~Answers(s.cancels, CancelKey(request), request), CancelCacheable(s, request),
           IsRejection(EvaluateCancel(s, request)),
           Frame(s, t, {"cancels", "events"}), t.cancels = CancelsAfter(s, request),
           MayAppend(s.events, t.events,
                     RejectionEvent(EvaluateCancel(s, request), session, sequence))
    PROVE  LedgerKept(t) /\ Roomy(s, t)
<1> DEFINE outcome == EvaluateCancel(s, request)
           e == RejectionEvent(outcome, session, sequence)
<1>1. /\ t.orders = s.orders /\ t.positions = s.positions /\ t.fills = s.fills
      /\ t.submits = s.submits /\ t.eligible = s.eligible /\ t.instruments = s.instruments
      /\ t.ordinals = s.ordinals /\ t.nextOrdinal = s.nextOrdinal /\ DOMAIN t = BrokerFields
      /\ t.version = s.version
  BY DEF Frame, BrokerFields
<1>2. IsState(s) /\ QueueKept(s) /\ s.version \in Int /\ OrdersKept(s)
  BY DEF LedgerKept, BatchState
<1>3. e.type = "order_rejected"
  BY EventFields DEF RejectionEvent
<1>4. PICK new : /\ Grows(s, t, new)
                 /\ Without(new, OrderEventTypes) /\ Without(new, {"fill_recorded"})
                 /\ Without(new, {"position_changed"})
  BY <1>2, <1>3, RejectionQuiet DEF IsState
<1>5. CancelRefused(s, request, outcome) \/ CancelTaken(s, request, outcome)
  <2>1. \/ CancelRefused(s, request, outcome) \/ CancelTaken(s, request, outcome)
        \/ request.order \in DOMAIN s.orders /\ outcome = s.orders[request.order]
    BY <1>2, EvaluateCancelFacts
  <2>2. \A id \in DOMAIN s.orders : ~IsRejection(s.orders[id])
    BY <1>2 DEF OrdersKept, OrderKept, IsRejection, OrderFields
  <2> QED
    BY <2>1, <2>2
<1>6. /\ Holds(t.cancels, Limits.orders)
      /\ \A key \in DOMAIN t.cancels : CancelKeyed(s, key, t.cancels[key])
  BY <1>5, CancelsKept
<1> HIDE DEF outcome, e
<1>7. IsState(t)
  BY <1>1, <1>2, <1>4 DEF IsState, Grows
<1>8. QueueKept(t)
  BY <1>1, <1>2, QueueSame
<1>9. OrdersKept(t)
  BY <1>1, <1>2 DEF OrdersKept, OrderKept
<1>10. JournalKept(t)
  BY <1>1, <1>4, JournalKeptSame DEF LedgerKept
<1>11. CachesKept(t)
  BY <1>1, <1>6 DEF LedgerKept, CachesKept, CancelKeyed
<1>12. LimitsKept(t)
  <2>1. OpenOrders(t) = OpenOrders(s)
    BY <1>1 DEF OpenOrders
  <2> QED
    BY <1>1, <1>6, <2>1 DEF LedgerKept, LimitsKept
<1>13. Roomy(s, t)
  BY <1>1, <1>2, AppendRoomy DEF IsState, Roomy
<1>14. Explained(t)
  BY <1>1, <1>4, ExplainedSame DEF LedgerKept
<1> QED
  BY <1>1, <1>2, <1>7, <1>8, <1>9, <1>10, <1>11, <1>12, <1>13, <1>14 DEF LedgerKept, BatchState

LEMMA OrdersKeptMoved ==
    ASSUME NEW s, OrdersKept(s), NEW t, NEW id \in DOMAIN s.orders,
           DOMAIN t.orders = DOMAIN s.orders, t.submits = s.submits, t.eligible = s.eligible,
           \A k \in DOMAIN s.orders : k # id => t.orders[k] = s.orders[k],
           SameOrder(s.orders[id], t.orders[id]), t.orders[id].filled \in Int,
           t.orders[id].remaining \in Int, t.orders[id].updated \in Int
    PROVE  OrdersKept(t)
<1>1. OrderKept(t, id)
  BY DEF OrdersKept, OrderKept, SameOrder
<1>2. \A k \in DOMAIN s.orders : k # id => OrderKept(t, k)
  BY DEF OrdersKept, OrderKept
<1> QED
  BY <1>1, <1>2 DEF OrdersKept

\* No order is opened again.
LEMMA OpenMoved ==
    ASSUME NEW s, NEW t, NEW id \in DOMAIN s.orders, IsFiniteSet(DOMAIN s.orders),
           DOMAIN t.orders = DOMAIN s.orders,
           \A k \in DOMAIN s.orders : k # id => t.orders[k] = s.orders[k],
           s.orders[id].status \notin TerminalStatuses,
           Cardinality(OpenOrders(s)) <= Limits.open
    PROVE  Cardinality(OpenOrders(t)) <= Limits.open
<1>1. OpenOrders(t) \subseteq OpenOrders(s) /\ OpenOrders(s) \subseteq DOMAIN s.orders
  BY DEF OpenOrders
<1>2. IsFiniteSet(OpenOrders(s))
  BY <1>1, FS_Subset
<1>3. IsFiniteSet(OpenOrders(t)) /\ Cardinality(OpenOrders(t)) <= Cardinality(OpenOrders(s))
  BY <1>1, <1>2, FS_Subset
<1>4. Cardinality(OpenOrders(t)) \in Nat /\ Cardinality(OpenOrders(s)) \in Nat
  BY <1>2, <1>3, FS_CardinalityType
<1> QED
  BY <1>3, <1>4, LimitsAreNumbers

LEMMA CancelTakenKept ==
    ASSUME NEW s, LedgerKept(s), NEW t, NEW request, request.requested \in Int,
           NEW session, NEW sequence,
           ~Answers(s.cancels, CancelKey(request), request),
           CancelTaken(s, request, EvaluateCancel(s, request)),
           Frame(s, t, {"cancels", "orders", "events"}),
           t.cancels = IF CancelCacheable(s, request) THEN CancelsAfter(s, request) ELSE s.cancels,
           t.orders = [s.orders EXCEPT ![request.order] = EvaluateCancel(s, request)],
           t.events = Append(s.events, Event("order_cancelled", EvaluateCancel(s, request),
                                             request.requested, session, sequence))
    PROVE  LedgerKept(t) /\ Roomy(s, t)
<1> DEFINE outcome == EvaluateCancel(s, request)
           id == request.order
           e == Event("order_cancelled", outcome, request.requested, session, sequence)
<1>1. /\ t.positions = s.positions /\ t.fills = s.fills
      /\ t.submits = s.submits /\ t.eligible = s.eligible /\ t.instruments = s.instruments
      /\ t.ordinals = s.ordinals /\ t.nextOrdinal = s.nextOrdinal /\ DOMAIN t = BrokerFields
      /\ t.version = s.version
  BY DEF Frame, BrokerFields
<1>2. IsState(s) /\ QueueKept(s) /\ s.version \in Int /\ OrdersKept(s) /\ JournalKept(s)
  BY DEF LedgerKept, BatchState
<1>3. /\ id \in DOMAIN s.orders /\ s.orders[id].status \notin TerminalStatuses /\ ~JournalFull(s)
      /\ outcome = [s.orders[id] EXCEPT !.status = "cancelled", !.updated = request.requested]
  BY DEF CancelTaken
<1>4. /\ DOMAIN s.orders[id] = OrderFields /\ s.orders[id].id = id
      /\ s.orders[id].filled \in Int /\ s.orders[id].remaining \in Int
  BY <1>2, <1>3 DEF OrdersKept, OrderKept
<1>5. /\ SameOrder(s.orders[id], outcome) /\ outcome.filled = s.orders[id].filled
      /\ outcome.remaining = s.orders[id].remaining /\ outcome.updated = request.requested
      /\ outcome.id = id
  BY <1>3, <1>4 DEF SameOrder, OrderFields
<1>6. e.type = "order_cancelled" /\ e.payload = outcome
  BY EventFields
<1>7. /\ Holds(t.cancels, Limits.orders)
      /\ \A key \in DOMAIN t.cancels : CancelKeyed(s, key, t.cancels[key])
  <2>1. CASE CancelCacheable(s, request)
    BY <2>1, CancelsKept
  <2>2. CASE ~CancelCacheable(s, request)
    BY <2>2 DEF LedgerKept, LimitsKept, CachesKept
  <2> QED
    BY <2>1, <2>2
<1> HIDE DEF outcome, id, e
<1>8. /\ DOMAIN t.orders = DOMAIN s.orders /\ t.orders[id] = outcome
      /\ \A k \in DOMAIN s.orders : k # id => t.orders[k] = s.orders[k]
  BY <1>3 DEF outcome, id
<1>9. Grows(s, t, <<e>>)
  BY <1>2, GrowsOne DEF e, outcome, IsState
<1>10. IsState(t)
  BY <1>1, <1>2, <1>9 DEF IsState, Grows
<1>11. QueueKept(t)
  BY <1>1, <1>2, <1>8, QueueSame
<1>12. OrdersKept(t)
  <2>1. /\ SameOrder(s.orders[id], t.orders[id]) /\ t.orders[id].filled \in Int
        /\ t.orders[id].remaining \in Int /\ t.orders[id].updated \in Int
    BY <1>4, <1>5, <1>8
  <2>2. id \in DOMAIN s.orders
    BY <1>3
  <2> QED
    BY <2>1, <2>2, <1>1, <1>2, <1>8, OrdersKeptMoved
<1> DEFINE new == <<e>>
<1>13. Len(new) = 1 /\ new[1] = e /\ (\A k \in 1 .. Len(new) : new[k] = e) /\ Grows(s, t, new)
  BY <1>9
<1> HIDE DEF new
<1>14. e.type \in OrderEventTypes
  BY <1>6 DEF OrderEventTypes
<1>15. OrderTold(t, id)
  <2>1. OrderTold(s, id)
    BY <1>2, <1>3 DEF JournalKept
  <2>2. 1 \in 1 .. Len(new) /\ \A j \in 1 .. Len(new) : j = 1
    BY <1>13
  <2>3. new[1].type \in OrderEventTypes /\ new[1].payload = t.orders[id] /\ t.orders[id].id = id
    BY <1>5, <1>6, <1>8, <1>13, <1>14
  <2> QED
    BY <2>1, <2>2, <2>3, <1>13, OrderToldNext
<1>16. ASSUME NEW k \in DOMAIN s.orders, k # id
       PROVE  OrderTold(t, k)
  <2>1. OrderTold(s, k) /\ t.orders[k] = s.orders[k]
    BY <1>2, <1>8, <1>16 DEF JournalKept
  <2>2. \A j \in 1 .. Len(new) : new[j].type \in OrderEventTypes => new[j].payload.id # k
    BY <1>5, <1>6, <1>13, <1>16
  <2> QED
    BY <2>1, <2>2, <1>13, OrderToldSame
<1>17. \A k : FilledQuantity(t, k) = FilledQuantity(s, k)
  BY <1>1 DEF FilledQuantity
<1>18. FillsJournalled(t)
  <2>1. Without(new, {"fill_recorded"})
    BY <1>6, <1>13 DEF Without
  <2> QED
    BY <2>1, <1>1, <1>2, <1>8, <1>13, FillsJournalledSame DEF JournalKept
<1>19. OrdersNamed(t)
  <2>0. e.payload.id \in DOMAIN t.orders
    BY <1>3, <1>5, <1>6, <1>8
  <2>1. \A j \in 1 .. Len(new) : new[j].type \in OrderEventTypes => new[j].payload.id \in DOMAIN t.orders
    BY <1>13, <2>0
  <2> QED
    BY <2>1, <1>2, <1>8, <1>13, OrdersNamedGrows DEF JournalKept
<1>20. ASSUME NEW key \in DOMAIN t.positions
       PROVE  PositionTold(t, key)
  <2>1. \A j \in 1 .. Len(new) : new[j].type # "position_changed"
    BY <1>6, <1>13
  <2> QED
    BY <2>1, <1>1, <1>2, <1>13, PositionToldSame DEF JournalKept
<1>21. FillsNumbered(t)
  BY <1>1, <1>2 DEF JournalKept, FillsNumbered
<1>22. JournalKept(t)
  <2> SUFFICES ASSUME NEW k \in DOMAIN t.orders
               PROVE  OrderTold(t, k) /\ FilledQuantity(t, k) = t.orders[k].filled
    BY <1>18, <1>19, <1>20, <1>21 DEF JournalKept
  <2>1. CASE k = id
    BY <2>1, <1>2, <1>3, <1>5, <1>8, <1>15, <1>17 DEF JournalKept
  <2>2. CASE k # id
    BY <2>2, <1>2, <1>8, <1>16, <1>17 DEF JournalKept
  <2> QED
    BY <2>1, <2>2
<1>23. CachesKept(t)
  BY <1>1, <1>7, <1>8 DEF LedgerKept, CachesKept, CancelKeyed
<1>24. LimitsKept(t)
  <2>1. LimitsKept(s)
    BY DEF LedgerKept
  <2>2. Cardinality(OpenOrders(t)) <= Limits.open
    BY <2>1, <1>3, <1>8, OpenMoved DEF LimitsKept, Holds
  <2>3. Holds(t.orders, Limits.orders)
    BY <2>1, <1>8 DEF LimitsKept, Holds
  <2> QED
    BY <2>1, <2>2, <2>3, <1>1, <1>7 DEF LimitsKept
<1>25. Roomy(s, t)
  <2>1. t.events = Append(s.events, e)
    BY DEF e, outcome
  <2> QED
    BY <2>1, <1>1, <1>2, <1>3, AppendRoomy DEF IsState, Roomy, JournalFull
<1>26. Explained(t)
  <2> DEFINE time == request.requested
  <2>1. Explained(s) /\ OrderTold(s, id)
    BY <1>2, <1>3 DEF LedgerKept, JournalKept
  <2>2. s.orders[id].updated \in Int /\ ~(time < s.orders[id].updated)
    BY <1>2, <1>3 DEF CancelTaken, OrdersKept, OrderKept, id
  <2>3. time \in Int /\ time >= s.orders[id].updated
    BY <2>2
  <2>4. t.orders[id] = [s.orders[id] EXCEPT !.status = "cancelled", !.updated = time]
    BY <1>3, <1>8
  <2>5. e.type = "order_cancelled" /\ e.payload = t.orders[id] /\ t.orders[id].id = id
    BY <1>5, <1>6, <1>8
  <2> HIDE DEF time
  <2>6. OrderCancels(s, t, e, id, time)
    BY <2>3, <2>4, <2>5, <1>1, <1>3, <1>4, <1>8 DEF OrderCancels
  <2> QED
    BY <2>1, <2>6, <1>9, ExplainedCancelled
<1> QED
  BY <1>1, <1>2, <1>10, <1>11, <1>12, <1>22, <1>23, <1>24, <1>25, <1>26 DEF LedgerKept, BatchState

LEMMA StageCancelLedger ==
    ASSUME NEW s, LedgerKept(s), NEW request, request.requested \in Int, NEW session, NEW sequence
    PROVE  LET t == StageCancel(s, request, session, sequence).state
           IN  LedgerKept(t) /\ Roomy(s, t)
<1> DEFINE t == StageCancel(s, request, session, sequence).state
           outcome == EvaluateCancel(s, request)
           e == Event("order_cancelled", outcome, request.requested, session, sequence)
           r == RejectionEvent(outcome, session, sequence)
<1> SUFFICES LedgerKept(t) /\ Roomy(s, t)
  OBVIOUS
<1>1. IsState(s) /\ OrdersKept(s)
  BY DEF LedgerKept, BatchState
<1>2. \/ t = s
      \/ /\ ~Answers(s.cancels, CancelKey(request), request)
         /\ ~IsRejection(outcome) /\ s.orders[outcome.id] # outcome
         /\ Frame(s, t, {"cancels", "orders", "events"})
         /\ t.cancels = IF CancelCacheable(s, request) THEN CancelsAfter(s, request)
                        ELSE s.cancels
         /\ t.orders = [s.orders EXCEPT ![outcome.id] = outcome]
         /\ t.events = Append(s.events, e)
      \/ /\ ~Answers(s.cancels, CancelKey(request), request)
         /\ IsRejection(outcome) /\ CancelCacheable(s, request)
         /\ Frame(s, t, {"cancels", "events"})
         /\ t.cancels = CancelsAfter(s, request)
         /\ MayAppend(s.events, t.events, r)
  BY <1>1, CancelFields
<1> HIDE DEF t
<1>3. ASSUME ~IsRejection(outcome), s.orders[outcome.id] # outcome
      PROVE  CancelTaken(s, request, outcome) /\ outcome.id = request.order
  <2>1. \/ CancelRefused(s, request, outcome) \/ CancelTaken(s, request, outcome)
        \/ request.order \in DOMAIN s.orders /\ outcome = s.orders[request.order]
    BY <1>1, EvaluateCancelFacts
  <2> HIDE DEF outcome
  <2>2. \A id \in DOMAIN s.orders : s.orders[id].id = id /\ DOMAIN s.orders[id] = OrderFields
    BY <1>1 DEF OrdersKept, OrderKept
  <2>3. CancelTaken(s, request, outcome)
    BY <1>3, <2>1, <2>2 DEF CancelRefused
  <2>4. outcome.id = request.order
    BY <2>2, <2>3 DEF CancelTaken, OrderFields
  <2> QED
    BY <2>3, <2>4
<1>4. CASE t = s
  BY <1>4 DEF Roomy
<1>5. CASE /\ ~Answers(s.cancels, CancelKey(request), request)
           /\ IsRejection(outcome) /\ CancelCacheable(s, request)
           /\ Frame(s, t, {"cancels", "events"})
           /\ t.cancels = CancelsAfter(s, request)
           /\ MayAppend(s.events, t.events, r)
  <2> QED
    BY <1>5, CancelRefusedKept
<1>6. CASE /\ ~Answers(s.cancels, CancelKey(request), request)
           /\ ~IsRejection(outcome) /\ s.orders[outcome.id] # outcome
           /\ Frame(s, t, {"cancels", "orders", "events"})
           /\ t.cancels = IF CancelCacheable(s, request) THEN CancelsAfter(s, request)
                          ELSE s.cancels
           /\ t.orders = [s.orders EXCEPT ![outcome.id] = outcome]
           /\ t.events = Append(s.events, e)
  <2>1. CancelTaken(s, request, outcome) /\ outcome.id = request.order
    BY <1>3, <1>6
  <2>2. t.orders = [s.orders EXCEPT ![request.order] = outcome]
    BY <1>6, <2>1
  <2> QED
    BY <1>6, <2>1, <2>2, CancelTakenKept, ZenonT(30)
<1> HIDE DEF outcome, e, r
<1> QED
  BY <1>2, <1>4, <1>5, <1>6

LEMMA ConflictLedger ==
    ASSUME NEW s, LedgerKept(s), NEW intent, NEW session, NEW sequence, NEW step \in Int,
           OrderId(intent) \in DOMAIN s.submits, ~Answers(s.submits, OrderId(intent), intent)
    PROVE  LET t == SubmitConflict(s, intent, session, sequence, step).state
           IN  LedgerKept(t) /\ Roomy(s, t)
<1> DEFINE t == SubmitConflict(s, intent, session, sequence, step).state
           key == OrderId(intent)
           conflict == Rejected(intent, "idempotency_conflict")
           record == WithAlternate(s.submits[key], intent, conflict)
           e == RejectionEvent(conflict, session, sequence)
<1> SUFFICES LedgerKept(t) /\ Roomy(s, t)
  OBVIOUS
<1>1. IsState(s) /\ CachesKept(s) /\ s.version \in Int
  BY DEF LedgerKept, BatchState
<1>2. \/ t = s
      \/ /\ Frame(s, t, {"submits", "events", "version"})
         /\ s.submits[key].alternate = None
         /\ t.submits = Bind(s.submits, key, record)
         /\ MayAppend(s.events, t.events, e)
         /\ t.version = s.version + step
  BY <1>1, ConflictFields
<1>3. s.submits[key].alternate = None
         => SubmitKeyed(key, record) /\ record.primary = s.submits[key].primary
  BY <1>1, ConflictKeyed
<1>4. e.type = "order_rejected"
  BY EventFields DEF RejectionEvent
<1> HIDE DEF t, record, e, conflict
<1>5. CASE t = s
  BY <1>5 DEF Roomy
<1>6. CASE /\ Frame(s, t, {"submits", "events", "version"})
           /\ s.submits[key].alternate = None
           /\ t.submits = Bind(s.submits, key, record)
           /\ MayAppend(s.events, t.events, e)
           /\ t.version = s.version + step
  <2>1. Frame(s, t, {"submits", "events", "version", "effective"}) /\ t.version \in Int
    BY <1>1, <1>6 DEF Frame
  <2>2. LedgerKept(t)
    BY <2>1, <1>3, <1>4, <1>6, CacheKept
  <2>3. t.fills = s.fills /\ t.positions = s.positions /\ t.instruments = s.instruments
    BY <1>6 DEF Frame, BrokerFields
  <2>4. Roomy(s, t)
    BY <2>3, <1>1, <1>6, AppendRoomy DEF Roomy, IsState
  <2> QED
    BY <2>2, <2>4
<1> QED
  BY <1>2, <1>5, <1>6

LEMMA RejectLedger ==
    ASSUME NEW s, LedgerKept(s), NEW intent, NEW code, NEW session, NEW sequence, NEW step \in Int,
           OrderId(intent) \notin DOMAIN s.submits
    PROVE  LET t == RejectSubmit(s, intent, code, session, sequence, step).state
           IN  LedgerKept(t) /\ Roomy(s, t)
<1> DEFINE t == RejectSubmit(s, intent, code, session, sequence, step).state
           key == OrderId(intent)
           rejection == Rejected(intent, code)
           record == OutcomeRecord(intent, rejection)
           e == RejectionEvent(rejection, session, sequence)
<1> SUFFICES LedgerKept(t) /\ Roomy(s, t)
  OBVIOUS
<1>1. IsState(s) /\ CachesKept(s) /\ s.version \in Int
  BY DEF LedgerKept, BatchState
<1>2. \/ t = s
      \/ /\ Frame(s, t, {"submits", "events", "version"})
         /\ ~(Cardinality(DOMAIN s.submits) >= Limits.orders)
         /\ t.submits = Bind(s.submits, key, record)
         /\ MayAppend(s.events, t.events, e)
         /\ t.version = s.version + step
  BY <1>1, RejectFields
<1>3. SubmitKeyed(key, record)
  BY RejectionKeyed
<1>4. e.type = "order_rejected"
  BY EventFields DEF RejectionEvent
<1> HIDE DEF t, record, e, rejection
<1>5. CASE t = s
  BY <1>5 DEF Roomy
<1>6. CASE /\ Frame(s, t, {"submits", "events", "version"})
           /\ ~(Cardinality(DOMAIN s.submits) >= Limits.orders)
           /\ t.submits = Bind(s.submits, key, record)
           /\ MayAppend(s.events, t.events, e)
           /\ t.version = s.version + step
  <2>1. Frame(s, t, {"submits", "events", "version", "effective"}) /\ t.version \in Int
    BY <1>1, <1>6 DEF Frame
  <2>2. LedgerKept(t)
    BY <2>1, <1>3, <1>4, <1>6, CacheKept
  <2>3. t.fills = s.fills /\ t.positions = s.positions /\ t.instruments = s.instruments
    BY <1>6 DEF Frame, BrokerFields
  <2>4. Roomy(s, t)
    BY <2>3, <1>1, <1>6, AppendRoomy DEF Roomy, IsState
  <2> QED
    BY <2>2, <2>4
<1> QED
  BY <1>2, <1>5, <1>6

LEMMA AcceptLedger ==
    ASSUME NEW s, LedgerKept(s), NEW intent, IntentTyped(intent), NEW after, WaitsFor(intent, after),
           NEW session, NEW sequence, OrderId(intent) \notin DOMAIN s.submits,
           ~(Cardinality(DOMAIN s.submits) >= Limits.orders), ~NoRoomForOrder(s)
    PROVE  LET t == AcceptOrder(s, intent, after, session, sequence)
           IN  LedgerKept(t) /\ Roomy(s, t)
<1> DEFINE t == AcceptOrder(s, intent, after, session, sequence)
           e == Event("order_accepted", NewOrder(intent), intent.created, session, sequence)
<1> SUFFICES LedgerKept(t) /\ Roomy(s, t)
  OBVIOUS
<1>1. IsState(s)
  BY DEF LedgerKept, BatchState
<1>2. /\ t.fills = s.fills /\ t.positions = s.positions /\ t.instruments = s.instruments
      /\ t.events = Append(s.events, e)
  BY <1>1, AcceptFields
<1>3. LedgerKept(t)
  BY AcceptKept
<1>4. ~(Len(s.events) >= Limits.events)
  BY DEF NoRoomForOrder, JournalFull
<1> HIDE DEF t, e
<1>5. Roomy(s, t)
  BY <1>1, <1>2, <1>4, AppendRoomy DEF Roomy, IsState
<1> QED
  BY <1>3, <1>5

LEMMA StageSubmitLedger ==
    ASSUME NEW s, LedgerKept(s), NEW intent, IntentTyped(intent), NEW env,
           WaitsFor(intent, env.sequence)
    PROVE  LET t == StageSubmit(s, intent, env).state
           IN  LedgerKept(t) /\ Roomy(s, t)
<1> DEFINE t == StageSubmit(s, intent, env).state
           a == SubmitConflict(s, intent, env.session, env.sequence, 0).state
           b == RejectSubmit(s, intent, "capacity_exceeded", env.session, env.sequence, 0).state
           c == AcceptOrder(s, intent, env.sequence, env.session, env.sequence)
           known == OrderId(intent) \in DOMAIN s.submits
<1> SUFFICES LedgerKept(t) /\ Roomy(s, t)
  OBVIOUS
<1>1. \/ t = s
      \/ known /\ ~Answers(s.submits, OrderId(intent), intent) /\ t = a
      \/ ~known /\ t = b
      \/ /\ ~known /\ ~(Cardinality(DOMAIN s.submits) >= Limits.orders) /\ ~NoRoomForOrder(s)
         /\ t = c
  BY StageSubmitCases
<1>2. known /\ ~Answers(s.submits, OrderId(intent), intent) => LedgerKept(a) /\ Roomy(s, a)
  <2>1. 0 \in Int
    OBVIOUS
  <2> QED
    BY <2>1, ConflictLedger
<1>3. ~known => LedgerKept(b) /\ Roomy(s, b)
  <2>1. 0 \in Int
    OBVIOUS
  <2> QED
    BY <2>1, RejectLedger
<1>4. ~known /\ ~(Cardinality(DOMAIN s.submits) >= Limits.orders) /\ ~NoRoomForOrder(s)
         => LedgerKept(c) /\ Roomy(s, c)
  BY AcceptLedger
<1>5. Roomy(s, s)
  BY DEF Roomy
<1> HIDE DEF t, a, b, c, known
<1> QED
  BY <1>1, <1>2, <1>3, <1>4, <1>5

LEMMA FillsNumberedMore ==
    ASSUME NEW s, IsList(s.fills), FillsNumbered(s), NEW id, NEW f, FitsOrder(s, id, f),
           NEW t, t.fills = Append(s.fills, f)
    PROVE  FillsNumbered(t)
<1> DEFINE N == Len(s.fills)
<1>1. /\ IsList(t.fills) /\ Len(t.fills) = N + 1
      /\ \A n \in 1 .. N : t.fills[n] = s.fills[n]
      /\ t.fills[N + 1] = f
  BY AppendFacts
<1>2. N \in Nat
  BY ListFacts
<1> HIDE DEF N
<1>3. N = Len(s.fills)
  BY DEF N
<1>4. ASSUME NEW n \in 1 .. (N + 1)
      PROVE  /\ t.fills[n].quantity \in Int
             /\ \E j \in Nat :
                   /\ t.fills[n].id = <<t.fills[n].order, t.fills[n].session, t.fills[n].sequence, j>>
                   /\ j = 1 \/ \E k \in 1 .. (n - 1) : t.fills[k].sequence = t.fills[n].sequence
  <2>1. CASE n = N + 1
    <3>1. PICK j \in Nat :
             /\ f.id = <<f.order, f.session, f.sequence, j>>
             /\ j = 1 \/ \E k \in 1 .. N : s.fills[k].sequence = f.sequence
      BY <1>3 DEF FitsOrder
    <3>2. j = 1 \/ \E k \in 1 .. (n - 1) : t.fills[k].sequence = f.sequence
      BY <1>1, <1>2, <2>1, <3>1
    <3> QED
      BY <1>1, <2>1, <3>1, <3>2 DEF FitsOrder
  <2>2. CASE n # N + 1
    <3>1. n \in 1 .. N /\ \A k \in 1 .. (n - 1) : k \in 1 .. N
      BY <1>2, <2>2
    <3> DEFINE g == s.fills[n]
    <3>2. /\ g.quantity \in Int
          /\ \E j \in Nat :
                /\ g.id = <<g.order, g.session, g.sequence, j>>
                /\ j = 1 \/ \E k \in 1 .. (n - 1) : s.fills[k].sequence = g.sequence
      BY <3>1, <1>3 DEF FillsNumbered
    <3>3. t.fills[n] = g /\ \A k \in 1 .. (n - 1) : t.fills[k] = s.fills[k]
      BY <3>1, <1>1
    <3> HIDE DEF g
    <3> QED
      BY <3>2, <3>3
  <2> QED
    BY <2>1, <2>2
<1>5. ASSUME NEW n \in 1 .. (N + 1), NEW k \in 1 .. (N + 1),
             t.fills[n].sequence = t.fills[k].sequence, t.fills[n].order = t.fills[k].order
      PROVE  n = k
  <2>1. \A i \in 1 .. N : ~(t.fills[i].sequence = f.sequence /\ t.fills[i].order = f.order)
    BY <1>1, <1>3 DEF FitsOrder
  <2>2. CASE n \in 1 .. N /\ k \in 1 .. N
    BY <2>2, <1>1, <1>3, <1>5 DEF FillsNumbered
  <2>3. CASE ~(n \in 1 .. N /\ k \in 1 .. N)
    <3>1. \A i \in 1 .. (N + 1) : i \in 1 .. N \/ i = N + 1
      BY <1>2
    <3>2. CASE n = N + 1 /\ k # N + 1
      <4>1. k \in 1 .. N /\ t.fills[n] = f
        BY <3>1, <3>2, <1>1
      <4> QED
        BY <4>1, <2>1, <1>5
    <3>3. CASE k = N + 1 /\ n # N + 1
      <4>1. n \in 1 .. N /\ t.fills[k] = f
        BY <3>1, <3>3, <1>1
      <4> QED
        BY <4>1, <2>1, <1>5
    <3> QED
      BY <2>3, <3>1, <3>2, <3>3
  <2> QED
    BY <2>2, <2>3
<1> QED
  BY <1>1, <1>4, <1>5 DEF FillsNumbered

LEMMA RecordFillKept ==
    ASSUME NEW s, LedgerKept(s), NEW id, NEW fill, FitsOrder(s, id, fill)
    PROVE  LedgerKept(RecordFill(s, s.orders[id], fill))
<1> DEFINE order == s.orders[id]
           t == RecordFill(s, order, fill)
           updated == FillOrder(order, fill)
           key == PositionKey(fill)
           position == ApplyFillToPosition(Position(s, key), fill)
           new == FillEvents(s, order, fill)
<1> SUFFICES LedgerKept(t)
  OBVIOUS
<1>1. IsState(s) /\ QueueKept(s) /\ s.version \in Int /\ OrdersKept(s) /\ JournalKept(s)
  BY DEF LedgerKept, BatchState
<1>2. /\ id \in DOMAIN s.orders /\ order.status \notin TerminalStatuses
      /\ fill.order = id /\ fill.quantity \in Int /\ fill.time \in Int
  BY DEF FitsOrder
<1>3. /\ DOMAIN order = OrderFields /\ order.id = id
      /\ order.filled \in Int /\ order.remaining \in Int
  BY <1>1, <1>2 DEF OrdersKept, OrderKept
<1>4. /\ Frame(s, t, {"orders", "positions", "fills", "events"})
      /\ DOMAIN t.orders = DOMAIN s.orders
      /\ \A k \in DOMAIN s.orders : t.orders[k] = IF k = order.id THEN updated ELSE s.orders[k]
      /\ t.positions = Bind(s.positions, key, position)
      /\ t.fills = Append(s.fills, fill)
      /\ t.events = s.events \o new
  <2> HIDE DEF order
  <2> QED
    BY <1>1, RecordFillFields
<1>5. Causes(s, t, fill.session, fill.sequence)
  BY <1>1, RecordFillCauses
<1>6. /\ SameOrder(order, updated) /\ updated.filled = order.filled + fill.quantity
      /\ updated.remaining = order.remaining - fill.quantity
      /\ updated.updated = fill.time /\ updated.id = id
  <2> HIDE DEF order
  <2> QED
    BY <1>3 DEF FillOrder, SameOrder, OrderFields
<1>7. position.key = key
  BY DEF ApplyFillToPosition, PositionKey
<1> DEFINE a == Event("fill_recorded", fill, fill.time, fill.session, fill.sequence)
           type == IF updated.status = "filled" THEN "order_filled" ELSE "order_partially_filled"
           b == Event(type, updated, fill.time, fill.session, fill.sequence)
           c == Event("position_changed", position, fill.time, fill.session, fill.sequence)
<1>8. /\ a.type = "fill_recorded" /\ a.payload = fill /\ b.type = type /\ b.payload = updated
      /\ c.type = "position_changed" /\ c.payload = position
  BY EventFields
<1>9. new = <<a, b, c>>
  BY DEF FillEvents
<1>10. type \in OrderEventTypes /\ type # "fill_recorded" /\ type # "position_changed"
       /\ "fill_recorded" \notin OrderEventTypes /\ "position_changed" \notin OrderEventTypes
  BY DEF OrderEventTypes
<1> HIDE DEF t, updated, key, position, a, b, c, type, new
<1>11. IsList(new) /\ Len(new) = 3 /\ new[1] = a /\ new[2] = b /\ new[3] = c
  BY <1>9, TripleFacts
<1>12. Grows(s, t, new)
  BY <1>1, <1>4, <1>11, GrowsBy DEF IsState
<1>13. /\ t.orders[id] = updated
       /\ \A k \in DOMAIN s.orders : k # id => t.orders[k] = s.orders[k]
  BY <1>2, <1>3, <1>4
<1>14. /\ t.submits = s.submits /\ t.cancels = s.cancels /\ t.eligible = s.eligible
       /\ t.ordinals = s.ordinals /\ t.nextOrdinal = s.nextOrdinal
       /\ t.instruments = s.instruments /\ t.version = s.version
  BY <1>4 DEF Frame, BrokerFields
<1>15. IsState(t)
  BY <1>5 DEF Causes
<1>16. QueueKept(t)
  BY <1>1, <1>4, <1>14, QueueSame
<1>17. OrdersKept(t)
  <2>1. /\ SameOrder(s.orders[id], t.orders[id]) /\ t.orders[id].filled \in Int
        /\ t.orders[id].remaining \in Int /\ t.orders[id].updated \in Int
    BY <1>2, <1>3, <1>6, <1>13
  <2>2. id \in DOMAIN s.orders
    BY <1>2
  <2> QED
    BY <2>1, <2>2, <1>1, <1>4, <1>13, <1>14, OrdersKeptMoved
<1>18. \A j \in 1 .. Len(new) : j = 1 \/ j = 2 \/ j = 3
  BY <1>11
<1>19. \A j \in 1 .. Len(new) : new[j].type \in OrderEventTypes => j = 2
  BY <1>8, <1>10, <1>11, <1>18
<1>20. \A j \in 1 .. Len(new) : new[j].type = "position_changed" => j = 3
  BY <1>8, <1>10, <1>11, <1>18
<1>21. OrderTold(t, id)
  <2>1. OrderTold(s, id)
    BY <1>1, <1>2 DEF JournalKept
  <2>2. 2 \in 1 .. Len(new)
    BY <1>11
  <2>3. new[2].type \in OrderEventTypes /\ new[2].payload = t.orders[id] /\ t.orders[id].id = id
    BY <1>6, <1>8, <1>10, <1>11, <1>13
  <2> QED
    BY <2>1, <2>2, <2>3, <1>12, <1>19, OrderToldNext
<1>22. ASSUME NEW k \in DOMAIN s.orders, k # id
       PROVE  OrderTold(t, k)
  <2>1. OrderTold(s, k) /\ t.orders[k] = s.orders[k]
    BY <1>1, <1>13, <1>22 DEF JournalKept
  <2>2. new[2].payload.id # k
    BY <1>6, <1>8, <1>11, <1>22
  <2>3. \A j \in 1 .. Len(new) : new[j].type \in OrderEventTypes => new[j].payload.id # k
    BY <2>2, <1>19
  <2> QED
    BY <2>1, <2>3, <1>12, OrderToldSame
<1>23. \A k : FilledQuantity(t, k) = FilledQuantity(s, k) + (IF fill.order = k THEN fill.quantity ELSE 0)
             /\ FilledQuantity(s, k) \in Int
  <2>1. IsList(s.fills) /\ \A n \in 1 .. Len(s.fills) : s.fills[n].quantity \in Int
    BY <1>1 DEF IsState, JournalKept, FillsNumbered
  <2> QED
    BY <2>1, <1>2, <1>4, FilledAppend, SMTT(20)
<1>24. FillsJournalled(t)
  <2>1. \A j \in 2 .. Len(new) : new[j].type # "fill_recorded"
    BY <1>8, <1>10, <1>11
  <2>2. new[1].type = "fill_recorded" /\ new[1].payload = fill /\ Len(new) >= 1
    BY <1>8, <1>11
  <2>3. IsList(s.fills) /\ FillsJournalled(s)
    BY <1>1 DEF IsState, JournalKept
  <2> QED
    BY <2>1, <2>2, <2>3, <1>2, <1>4, <1>12, FillsJournalledMore
<1>25. OrdersNamed(t)
  <2>1. new[2].payload.id \in DOMAIN t.orders
    BY <1>2, <1>4, <1>6, <1>8, <1>11
  <2>2. \A j \in 1 .. Len(new) : new[j].type \in OrderEventTypes => new[j].payload.id \in DOMAIN t.orders
    BY <2>1, <1>19
  <2> QED
    BY <2>2, <1>1, <1>4, <1>12, OrdersNamedGrows DEF JournalKept
<1>26. ASSUME NEW k \in DOMAIN t.positions
       PROVE  PositionTold(t, k)
  <2>1. t.positions[key] = position /\ \A i \in DOMAIN s.positions : i # key => t.positions[i] = s.positions[i]
    BY <1>4, BindValues
  <2>2. k \in DOMAIN s.positions \/ k = key
    BY <1>4, BindDomain
  <2>3. CASE k = key
    <3>1. 3 \in 1 .. Len(new) /\ new[3].type = "position_changed" /\ new[3].payload = t.positions[k]
          /\ t.positions[k].key = k
      BY <2>1, <2>3, <1>7, <1>8, <1>11
    <3> QED
      BY <3>1, <1>12, <1>20, PositionToldNext
  <2>4. CASE k # key
    <3>1. PositionTold(s, k) /\ t.positions[k] = s.positions[k]
      BY <2>1, <2>2, <2>4, <1>1 DEF JournalKept
    <3>2. new[3].payload.key # k
      BY <2>4, <1>7, <1>8, <1>11
    <3>3. \A j \in 1 .. Len(new) : new[j].type = "position_changed" => new[j].payload.key # k
      BY <3>2, <1>20
    <3> QED
      BY <3>1, <3>3, <1>12, PositionToldSame
  <2> QED
    BY <2>3, <2>4
<1>27. FillsNumbered(t)
  BY <1>1, <1>4, FillsNumberedMore DEF IsState, JournalKept
<1>28. JournalKept(t)
  <2> SUFFICES ASSUME NEW k \in DOMAIN s.orders
               PROVE  OrderTold(t, k) /\ FilledQuantity(t, k) = t.orders[k].filled
    BY <1>4, <1>24, <1>25, <1>26, <1>27 DEF JournalKept
  <2>1. FilledQuantity(s, k) = s.orders[k].filled
    BY <1>1 DEF JournalKept
  <2>2. CASE k = id
    BY <2>1, <2>2, <1>2, <1>6, <1>13, <1>21, <1>23
  <2>3. CASE k # id
    BY <2>1, <2>3, <1>2, <1>13, <1>22, <1>23
  <2> QED
    BY <2>2, <2>3
<1>29. CachesKept(t)
  BY <1>4, <1>14 DEF LedgerKept, CachesKept, CancelKeyed
<1>30. LimitsKept(t)
  <2>1. LimitsKept(s)
    BY DEF LedgerKept
  <2>2. Cardinality(OpenOrders(t)) <= Limits.open
    BY <2>1, <1>2, <1>4, <1>13, OpenMoved DEF LimitsKept, Holds
  <2>3. Holds(t.orders, Limits.orders)
    BY <2>1, <1>4 DEF LimitsKept, Holds
  <2> QED
    BY <2>1, <2>2, <2>3, <1>14 DEF LimitsKept
<1>31. Explained(t)
  <2>1. IsList(s.fills) /\ Explained(s) /\ None \notin Int \X Int
    BY <1>1, NoneIsNoNumber DEF LedgerKept, IsState
  <2>2. OrderTold(s, id) /\ \A k \in DOMAIN s.positions : PositionTold(s, k)
    BY <1>1, <1>2 DEF JournalKept
  <2>3. /\ FillSound(fill) /\ FeeDue(s.orders[id], fill)
        /\ fill.quantity <= s.orders[id].remaining /\ fill.time >= s.orders[id].updated
    BY DEF FitsOrder
  <2>4. t.orders[id] = FillOrder(s.orders[id], fill) /\ t.orders[id].id = id
    BY <1>6, <1>13 DEF updated
  <2>5. /\ key = PositionKey(fill) /\ DOMAIN t.positions = DOMAIN s.positions \cup {key}
        /\ t.positions[key] = ApplyFillToPosition(Position(s, key), fill)
        /\ \A k \in DOMAIN s.positions : k # key => t.positions[k] = s.positions[k]
    <3>1. \A k : k \in DOMAIN t.positions <=> k \in DOMAIN s.positions \/ k = key
      BY <1>4, BindDomain
    <3>2. t.positions[key] = position
          /\ \A k \in DOMAIN s.positions : k # key => t.positions[k] = s.positions[k]
      BY <1>4, BindValues
    <3> QED
      BY <3>1, <3>2 DEF key, position
  <2>6. /\ Len(new) = 3 /\ \A j \in 1 .. 3 : new[j].type \in OrderEventTypes <=> j = 2
        /\ \A j \in 1 .. 3 : new[j].type = "position_changed" <=> j = 3
    BY <1>8, <1>10, <1>11, <1>18
  <2>7. new[2].payload = t.orders[id] /\ new[3].payload = t.positions[key]
    BY <2>5, <1>8, <1>11, <1>13 DEF position
  <2> HIDE DEF order
  <2>8. s.orders[id].status \notin TerminalStatuses /\ DOMAIN s.orders[id] = OrderFields
    BY <1>2, <1>3 DEF order
  <2>9. FillFits(s, id, fill)
    BY <2>3, <2>8, <1>2 DEF FillFits
  <2>10. OrderFills(s, t, id, fill, key)
    BY <2>4, <2>5, <1>4, <1>13 DEF OrderFills
  <2>11. FillTold(new, t.orders[id], t.positions[key])
    BY <2>6, <2>7 DEF FillTold
  <2> QED
    BY <2>1, <2>2, <2>9, <2>10, <2>11, <1>12, ExplainedFilled
<1> QED
  BY <1>1, <1>14, <1>15, <1>16, <1>17, <1>28, <1>29, <1>30, <1>31 DEF LedgerKept, BatchState

-----------------------------------------------------------------------------
(* The matching of one quote *)

LEMMA NextFillFields ==
    ASSUME NEW m, NEW id, NEW env, NEW top
    PROVE  LET f == NextFill(m, id, env, top)
               o == m.s.orders[id]
               available == m.capacity[o.intent.side]
           IN  /\ f.id = <<o.id, env.session, env.sequence, m.ordinal + 1>>
               /\ f.order = o.id /\ f.session = env.session /\ f.sequence = env.sequence
               /\ f.time = env.time /\ f.side = o.intent.side
               /\ f.quantity = IF o.remaining < available THEN o.remaining ELSE available
               /\ f.price = SlippedPrice(top.price[o.intent.side], o.intent.side)
               /\ f.reference = top.price[o.intent.side]
               /\ f.fee = Fee(o.intent.instrument, o.filled, o.filled + f.quantity)
               /\ f.currency = FeeCurrency(o.intent.instrument, f.fee)
  BY DEF NextFill, MakeFill

\* The fill an order takes meets its contract and charges what is due.
LEMMA FillIsSound ==
    ASSUME NEW o, OrderSound(o), o.status \notin TerminalStatuses,
           o.intent.side \in {"buy", "sell"}, NEW top, TopTyped(top), NEW available \in Int,
           Executable(o, top, available), NEW f, f.side = o.intent.side,
           f.quantity = IF o.remaining < available THEN o.remaining ELSE available,
           f.price = SlippedPrice(top.price[o.intent.side], o.intent.side),
           f.reference = top.price[o.intent.side],
           f.fee = Fee(o.intent.instrument, o.filled, o.filled + f.quantity),
           f.currency = FeeCurrency(o.intent.instrument, f.fee)
    PROVE  FillSound(f) /\ FeeDue(o, f) /\ f.quantity <= o.remaining
<1> DEFINE side == o.intent.side
           price == top.price[side]
           i == o.intent.instrument
           a == o.filled
           q == f.quantity
<1>1. /\ available > 0 /\ SlippageRepresentable(price, side) /\ FeeAssessable(i, top.currency)
  BY DEF Executable
<1>2. a \in Nat /\ o.remaining \in Nat \ {0}
  BY OpenOrder DEF OrderSound
<1>3. q \in Nat \ {0} /\ q <= o.remaining
  BY <1>1, <1>2
<1>4. price \in Nat \ {0} /\ side \in {"buy", "sell"}
  BY DEF TopTyped
<1>5. /\ f.price = SlippedPrice(price, side) /\ f.reference = price /\ f.side = side
      /\ f.fee = Fee(i, a, a + q) /\ f.currency = FeeCurrency(i, f.fee)
  OBVIOUS
<1> HIDE DEF side, price, i, a
<1>6. /\ f.price \in Nat \ {0}
      /\ side = "buy" => f.price >= price
      /\ side = "sell" => f.price <= price
  BY <1>1, <1>4, <1>5, SlippedFacts
<1> HIDE DEF q
<1>7. a \in Nat /\ a + q \in Nat /\ a <= a + q
  BY <1>2, <1>3
<1>8. /\ Fee(i, a, a + q) \in Nat
      /\ Fee(i, a, a + q) = 0 <=> FeeCurrency(i, Fee(i, a, a + q)) = None
  BY <1>1, <1>7, FeeFacts
<1>9. f.fee \in Nat /\ ((f.fee = 0) <=> (f.currency = None))
  BY <1>5, <1>8
<1>10. PaperFillContract(f)
  BY <1>3, <1>4, <1>5, <1>6, <1>9 DEF PaperFillContract, q
<1>11. FillSound(f)
  BY <1>3, <1>4, <1>5, <1>6, <1>9, <1>10 DEF FillSound, q
<1>12. FeeDue(o, f)
  BY <1>1, <1>5 DEF FeeDue, i, a, q
<1> QED
  BY <1>3, <1>11, <1>12 DEF q

LEMMA TakesFillFits ==
    ASSUME NEW s, LedgerKept(s), NEW env, FreshEnvelope(s, env), NEW m, NEW n \in Nat,
           n + 1 \in 1 .. Len(OrderedIds(s)), Served(s, m, n, env), NEW top, TopTyped(top),
           TakesFill(m, OrderedIds(s)[n + 1], env, top)
    PROVE  LET id == OrderedIds(s)[n + 1]
               f == NextFill(m, id, env, top)
           IN  /\ FitsOrder(m.s, id, f)
               /\ OwnFill(s, env, f) /\ f.order = id
               /\ m.s.orders[id].intent.side \in {"buy", "sell"}
               /\ m.capacity[m.s.orders[id].intent.side] \in Int
<1> DEFINE id == OrderedIds(s)[n + 1]
           f == NextFill(m, id, env, top)
           o == m.s.orders[id]
           available == m.capacity[o.intent.side]
           queue == OrderedIds(s)
           N == Len(queue)
<1>1. QueueKept(s) /\ IsState(s) /\ IsState(m.s) /\ OrdersKept(m.s)
  BY DEF LedgerKept, BatchState, Served
<1>2. /\ queue \in Seq(DOMAIN s.orders) /\ N = s.nextOrdinal - 1
      /\ \A i, k \in 1 .. (s.nextOrdinal - 1) :
             i < k => s.ordinals[queue[i]] < s.ordinals[queue[k]]
  BY <1>1, QueueFacts
<1>3. id \in DOMAIN s.orders
  BY <1>2
<1>4. o = s.orders[id]
  BY DEF Served
<1>5. o.id = id /\ o.remaining \in Int /\ IntentTyped(o.intent)
  BY <1>1, <1>3 DEF Served, OrdersKept, OrderKept
<1>6. /\ o.status \notin TerminalStatuses /\ Eligible(m.s, o, env)
      /\ available # None
  BY DEF TakesFill, Executable
<1>7. o.intent.side \in {"buy", "sell"} /\ available \in Int
  BY <1>5, <1>6 DEF IntentTyped, Served
<1>8. /\ f.id = <<o.id, env.session, env.sequence, m.ordinal + 1>>
      /\ f.order = o.id /\ f.session = env.session /\ f.sequence = env.sequence
      /\ f.time = env.time
      /\ f.quantity = IF o.remaining < available THEN o.remaining ELSE available
      /\ f.side = o.intent.side
      /\ f.price = SlippedPrice(top.price[o.intent.side], o.intent.side)
      /\ f.reference = top.price[o.intent.side]
      /\ f.fee = Fee(o.intent.instrument, o.filled, o.filled + f.quantity)
      /\ f.currency = FeeCurrency(o.intent.instrument, f.fee)
  <2> HIDE DEF id
  <2> QED
    BY NextFillFields
<1>14. OrderSound(o) /\ Executable(o, top, available)
  BY <1>3 DEF Served, LedgerKept, Explained, OrdersExplained, TakesFill
<1> HIDE DEF id, f, o, available
<1>15. FillSound(f) /\ FeeDue(o, f) /\ f.quantity <= o.remaining
  BY <1>6, <1>7, <1>8, <1>14, FillIsSound
<1>9. f.quantity \in Int /\ f.time \in Int
  BY <1>5, <1>7, <1>8 DEF FreshEnvelope
<1>10. OwnFill(s, env, f)
  <2>1. f.order \in OpenOrders(s)
    BY <1>3, <1>4, <1>5, <1>6, <1>8 DEF OpenOrders
  <2>2. f.time >= s.orders[f.order].updated /\ env.sequence > s.eligible[f.order]
    BY <1>4, <1>5, <1>6, <1>8 DEF Eligible, Served
  <2> QED
    BY <2>1, <2>2, <1>8 DEF OwnFill
<1>11. ASSUME NEW k \in 1 .. Len(m.s.fills)
       PROVE  ~(m.s.fills[k].sequence = f.sequence /\ m.s.fills[k].order = id)
  <2>1. Len(s.fills) \in Nat /\ Len(m.s.fills) \in Nat
    BY <1>1, ListFacts DEF IsState
  <2>2. CASE k \in 1 .. Len(s.fills)
    BY <2>2, <1>8 DEF Served, FreshEnvelope
  <2>3. CASE k \notin 1 .. Len(s.fills)
    <3>1. k \in (Len(s.fills) + 1) .. Len(m.s.fills)
      BY <2>1, <2>3
    <3>2. PICK i \in 1 .. n : queue[i] = m.s.fills[k].order
      BY <3>1 DEF Served
    <3>3. i \in 1 .. N /\ n + 1 \in 1 .. N /\ i < n + 1
      BY <1>2
    <3>4. s.ordinals[queue[i]] < s.ordinals[queue[n + 1]]
      BY <3>3, <1>2
    <3>5. queue[n + 1] = id
      BY DEF id
    <3>6. s.ordinals[id] \in Int
      BY <1>1, <1>3 DEF QueueKept
    <3> HIDE DEF queue
    <3> QED
      BY <3>2, <3>4, <3>5, <3>6
  <2> QED
    BY <2>2, <2>3
<1>12. \E j \in Nat : /\ f.id = <<f.order, f.session, f.sequence, j>>
                      /\ j = 1 \/ \E k \in 1 .. Len(m.s.fills) : m.s.fills[k].sequence = f.sequence
  <2>1. m.ordinal \in Nat
    BY DEF Served
  <2>2. m.ordinal + 1 = 1 \/ m.ordinal > 0
    BY <2>1
  <2>3. m.ordinal + 1 \in Nat
    BY <2>1
  <2>4. f.id = <<f.order, f.session, f.sequence, m.ordinal + 1>>
    BY <1>8
  <2>5. m.ordinal + 1 = 1 \/ \E k \in 1 .. Len(m.s.fills) : m.s.fills[k].sequence = f.sequence
    BY <2>2, <1>8 DEF Served
  <2> QED
    BY <2>3, <2>4, <2>5
<1>13. FitsOrder(m.s, id, f)
  <2>1. id \in DOMAIN m.s.orders /\ m.s.orders[id].status \notin TerminalStatuses
    BY <1>3, <1>6 DEF Served, o
  <2>2. f.order = id
    BY <1>5, <1>8
  <2>3. FillSound(f) /\ FeeDue(m.s.orders[id], f) /\ f.quantity <= m.s.orders[id].remaining
    BY <1>15 DEF o
  <2>4. f.time >= m.s.orders[id].updated
    BY <1>6, <1>8 DEF Eligible, o
  <2> QED
    BY <2>1, <2>2, <2>3, <2>4, <1>9, <1>11, <1>12 DEF FitsOrder
<1> QED
  BY <1>5, <1>7, <1>8, <1>10, <1>13 DEF id, f, o, available

LEMMA ServedOn ==
    ASSUME NEW s, NEW m, NEW n \in Nat, NEW env, Served(s, m, n, env),
           Len(OrderedIds(s)) \in Nat
    PROVE  Served(s, m, n + 1, env)
<1>1. 1 .. n \subseteq 1 .. (n + 1)
  OBVIOUS
<1>2. (n + 1 + 1) .. Len(OrderedIds(s)) \subseteq (n + 1) .. Len(OrderedIds(s))
  OBVIOUS
<1> QED
  BY <1>1, <1>2 DEF Served

\* One order of the queue takes what it can of the quote.
LEMMA ServedFill ==
    ASSUME NEW s, LedgerKept(s), NEW env, FreshEnvelope(s, env), NEW m, NEW n \in Nat,
           n + 1 \in 1 .. Len(OrderedIds(s)), Served(s, m, n, env), NEW top, TopTyped(top),
           TakesFill(m, OrderedIds(s)[n + 1], env, top), NEW r,
           r = AfterFill(m, OrderedIds(s)[n + 1], env, top)
    PROVE  Served(s, r, n + 1, env)
<1> DEFINE queue == OrderedIds(s)
           id == queue[n + 1]
           f == NextFill(m, id, env, top)
           o == m.s.orders[id]
           N == Len(m.s.fills)
<1>1. /\ FitsOrder(m.s, id, f)
      /\ OwnFill(s, env, f) /\ f.order = id
      /\ o.intent.side \in {"buy", "sell"} /\ m.capacity[o.intent.side] \in Int
  BY TakesFillFits
<1>2. LedgerKept(m.s) /\ IsState(m.s) /\ IsState(s) /\ OrdersKept(m.s) /\ QueueKept(s)
  BY DEF Served, LedgerKept, BatchState
<1>19. /\ r.s = RecordFill(m.s, o, f) /\ r.ordinal = m.ordinal + 1
       /\ r.capacity = [m.capacity EXCEPT ![o.intent.side] = @ - f.quantity]
  BY DEF AfterFill
<1>3. LedgerKept(r.s)
  <2> DEFINE p == m.s
  <2>1. r.s = RecordFill(p, p.orders[id], f) /\ LedgerKept(p) /\ FitsOrder(p, id, f)
    BY <1>1, <1>2, <1>19
  <2> HIDE DEF o, f, p
  <2> QED
    BY <2>1, RecordFillKept
<1>4. /\ Frame(m.s, r.s, {"orders", "positions", "fills", "events"})
      /\ DOMAIN r.s.orders = DOMAIN m.s.orders
      /\ \A k \in DOMAIN m.s.orders : k # o.id => r.s.orders[k] = m.s.orders[k]
      /\ r.s.fills = Append(m.s.fills, f)
  <2> DEFINE p == m.s
  <2>1. r.s = RecordFill(p, o, f) /\ IsState(p)
    BY <1>2, <1>19
  <2> HIDE DEF o, f, p
  <2>2. /\ Frame(p, r.s, {"orders", "positions", "fills", "events"})
        /\ DOMAIN r.s.orders = DOMAIN p.orders
        /\ \A k \in DOMAIN p.orders : k # o.id => r.s.orders[k] = p.orders[k]
        /\ r.s.fills = Append(p.fills, f)
    BY <2>1, RecordFillFields
  <2> QED
    BY <2>2 DEF p
<1>5. o.id = id
  BY <1>1, <1>2 DEF FitsOrder, OrdersKept, OrderKept
<1>6. f.quantity \in Int
  BY <1>1 DEF FitsOrder
<1>7. /\ DOMAIN r.capacity = {"buy", "sell"}
      /\ \A side \in {"buy", "sell"} : r.capacity[side] \in Int \cup {None}
  <2> DEFINE own == o.intent.side
             q == f.quantity
             c == m.capacity
  <2>1. r.capacity = [c EXCEPT ![own] = @ - q]
    BY <1>19
  <2>2. /\ DOMAIN c = {"buy", "sell"} /\ own \in {"buy", "sell"} /\ c[own] \in Int /\ q \in Int
        /\ \A side \in {"buy", "sell"} : c[side] \in Int \cup {None}
    BY <1>1, <1>6 DEF Served
  <2> HIDE DEF own, q, c
  <2>3. c[own] - q \in Int
    BY <2>2
  <2>4. DOMAIN r.capacity = {"buy", "sell"}
    BY <2>1, <2>2
  <2>5. \A side \in {"buy", "sell"} :
            r.capacity[side] = IF side = own THEN c[own] - q ELSE c[side]
    BY <2>1, <2>2
  <2> QED
    BY <2>2, <2>3, <2>4, <2>5
<1> HIDE DEF f, o, id, queue
<1>8. r.s.eligible = m.s.eligible /\ r.s.instruments = m.s.instruments
  BY <1>4 DEF Frame, BrokerFields
<1>9. /\ IsList(r.s.fills) /\ Len(r.s.fills) = N + 1
      /\ \A k \in 1 .. N : r.s.fills[k] = m.s.fills[k]
      /\ r.s.fills[N + 1] = f
  <2> DEFINE q == m.s.fills
  <2>1. IsList(q) /\ r.s.fills = Append(q, f)
    BY <1>2, <1>4 DEF IsState
  <2> HIDE DEF q
  <2>2. /\ IsList(Append(q, f)) /\ Len(Append(q, f)) = Len(q) + 1
        /\ \A k \in 1 .. Len(q) : Append(q, f)[k] = q[k]
        /\ Append(q, f)[Len(q) + 1] = f
    BY <2>1, AppendFacts
  <2> QED
    BY <2>1, <2>2 DEF q
<1>10. N \in Nat /\ Len(s.fills) \in Nat
  BY <1>2, ListFacts DEF IsState
<1> HIDE DEF N
<1>11. N = Len(m.s.fills) /\ Len(s.fills) <= N
  BY DEF N, Served
<1>12. ASSUME NEW k \in 1 .. Len(s.fills)
       PROVE  r.s.fills[k] = s.fills[k]
  <2>1. k \in 1 .. N
    BY <1>10, <1>11
  <2> QED
    BY <2>1, <1>9 DEF Served
<1>13. ASSUME NEW k \in (Len(s.fills) + 1) .. Len(r.s.fills)
       PROVE  /\ OwnFill(s, env, r.s.fills[k])
              /\ \E i \in 1 .. (n + 1) : queue[i] = r.s.fills[k].order
  <2>1. CASE k = N + 1
    <3>1. queue[n + 1] = f.order /\ n + 1 \in 1 .. (n + 1)
      BY <1>1 DEF id
    <3> QED
      BY <2>1, <3>1, <1>1, <1>9
  <2>2. CASE k # N + 1
    <3>1. k \in (Len(s.fills) + 1) .. N /\ k \in 1 .. N
      <4> DEFINE A == Len(s.fills)
      <4>1. A \in Nat /\ N \in Nat /\ k \in (A + 1) .. (N + 1)
        BY <1>9, <1>10
      <4> HIDE DEF A
      <4>2. k \in (A + 1) .. N /\ k \in 1 .. N
        BY <2>2, <4>1
      <4> QED
        BY <4>2 DEF A
    <3>2. /\ OwnFill(s, env, m.s.fills[k])
          /\ \E i \in 1 .. n : queue[i] = m.s.fills[k].order
      BY <3>1, <1>11 DEF Served, queue
    <3>3. r.s.fills[k] = m.s.fills[k]
      BY <3>1, <1>9
    <3> QED
      BY <3>2, <3>3
  <2> QED
    BY <2>1, <2>2
<1>14. ASSUME NEW i \in (n + 1 + 1) .. Len(queue)
       PROVE  r.s.orders[queue[i]] = s.orders[queue[i]]
  <2>1. i \in 1 .. Len(queue) /\ i \in (n + 1) .. Len(queue) /\ n + 1 < i
    OBVIOUS
  <2>2. m.s.orders[queue[i]] = s.orders[queue[i]]
    BY <2>1 DEF Served, queue
  <2>3. queue[i] \in DOMAIN s.orders /\ queue[i] # queue[n + 1]
    <3>1. /\ queue \in Seq(DOMAIN s.orders) /\ Len(queue) = s.nextOrdinal - 1
          /\ \A a, b \in 1 .. (s.nextOrdinal - 1) :
                 a < b => s.ordinals[queue[a]] < s.ordinals[queue[b]]
      BY <1>2, QueueFacts DEF queue
    <3>2. queue[i] \in DOMAIN s.orders
      BY <2>1, <3>1
    <3>3. s.ordinals[queue[n + 1]] < s.ordinals[queue[i]]
      BY <2>1, <3>1 DEF queue
    <3>4. s.ordinals[queue[i]] \in Int
      BY <3>2, <1>2 DEF QueueKept
    <3> QED
      BY <3>2, <3>3, <3>4
  <2>4. queue[i] \in DOMAIN m.s.orders
    BY <2>3 DEF Served
  <2> QED
    BY <2>2, <2>3, <2>4, <1>4, <1>5 DEF id
<1>15. \E k \in 1 .. Len(r.s.fills) : r.s.fills[k].sequence = env.sequence
  <2>1. N + 1 \in 1 .. (N + 1)
    BY <1>10
  <2>2. f.sequence = env.sequence
    BY <1>1 DEF OwnFill
  <2> QED
    BY <2>1, <2>2, <1>9
<1>16. r.ordinal \in Nat
  BY <1>19 DEF Served
<1>17. Len(s.fills) <= Len(r.s.fills)
  <2> DEFINE A == Len(s.fills)
  <2>1. A \in Nat /\ N \in Nat /\ A <= N /\ Len(r.s.fills) = N + 1
    BY <1>9, <1>10, <1>11
  <2> HIDE DEF A
  <2> QED
    BY <2>1 DEF A
<1>18. DOMAIN r.s.orders = DOMAIN s.orders /\ r.s.eligible = s.eligible
       /\ r.s.instruments = s.instruments
  BY <1>4, <1>8 DEF Served
<1> QED
  BY <1>3, <1>7, <1>12, <1>13, <1>14, <1>15, <1>16, <1>17, <1>18 DEF Served, queue

LEMMA ServedNext ==
    ASSUME NEW s, LedgerKept(s), NEW env, FreshEnvelope(s, env), NEW m, NEW n \in Nat,
           n + 1 \in 1 .. Len(OrderedIds(s)), Served(s, m, n, env), NEW top, TopTyped(top)
    PROVE  Served(s, StageMatch(m, OrderedIds(s)[n + 1], env, top), n + 1, env)
<1> DEFINE id == OrderedIds(s)[n + 1]
           r == StageMatch(m, id, env, top)
<1>1. r = m \/ (TakesFill(m, id, env, top) /\ r = AfterFill(m, id, env, top))
  BY StageMatchCases DEF AfterFill
<1>2. Len(OrderedIds(s)) \in Nat
  BY QueueFacts DEF LedgerKept, BatchState, QueueKept
<1> HIDE DEF r
<1>3. CASE r = m
  BY <1>2, <1>3, ServedOn DEF r
<1>4. CASE TakesFill(m, id, env, top) /\ r = AfterFill(m, id, env, top)
  <2>1. Served(s, r, n + 1, env)
    BY <1>4, ServedFill
  <2> QED
    BY <2>1 DEF r
<1> QED
  BY <1>1, <1>3, <1>4

LEMMA StageMatchesLedger ==
    ASSUME NEW s, LedgerKept(s), NEW env, FreshEnvelope(s, env), NEW top, TopTyped(top)
    PROVE  LET t == StageMatches(s, env, top)
           IN  LedgerKept(t) /\ OwnFills(s, t, env) /\ t.instruments = s.instruments
<1> DEFINE N == Len(OrderedIds(s))
           t == StageMatches(s, env, top)
<1> SUFFICES LedgerKept(t) /\ OwnFills(s, t, env) /\ t.instruments = s.instruments
  OBVIOUS
<1>1. N \in Nat
  BY QueueFacts DEF LedgerKept, BatchState, QueueKept
<1>2. PICK g : Matching(g, s, env, top, N) /\ t = g[N].s
  BY <1>1, MatchingDone
<1>3. Served(s, g[0], 0, env)
  <2>1. g[0].s = s /\ g[0].capacity = top.capacity /\ g[0].ordinal = 0
    BY <1>2 DEF Matching
  <2>2. Len(s.fills) \in Nat
    BY ListFacts DEF LedgerKept, BatchState, IsState
  <2> QED
    BY <2>1, <2>2 DEF Served, TopTyped
<1> DEFINE B == {n \in 0 .. N : ~Served(s, g[n], n, env)}
<1>4. B = {}
  <2> SUFFICES ASSUME B # {} PROVE FALSE
    OBVIOUS
  <2>1. PICK b \in B : \A y \in B : b <= y
    <3>1. B \subseteq Nat
      BY <1>1
    <3> HIDE DEF B
    <3> QED
      BY <3>1, LeastNumber
  <2>2. b \in 0 .. N /\ ~Served(s, g[b], b, env)
    OBVIOUS
  <2>3. b # 0
    BY <1>3, <2>2
  <2>4. b - 1 \in 0 .. N /\ Served(s, g[b - 1], b - 1, env)
    BY <1>1, <2>1, <2>2, <2>3
  <2> HIDE DEF B
  <2>5. b - 1 \in Nat /\ (b - 1) + 1 = b /\ b \in 1 .. N
    BY <1>1, <2>2, <2>3
  <2>6. g[b] = StageMatch(g[b - 1], OrderedIds(s)[b], env, top)
    BY <1>2, <2>5 DEF Matching
  <2> DEFINE n == b - 1
  <2>7. n \in Nat /\ n + 1 = b /\ n + 1 \in 1 .. N /\ Served(s, g[n], n, env)
    BY <2>4, <2>5
  <2>8. g[b] = StageMatch(g[n], OrderedIds(s)[n + 1], env, top)
    BY <2>5, <2>6
  <2> HIDE DEF n
  <2>9. Served(s, g[b], n + 1, env)
    BY <2>7, <2>8, ServedNext
  <2> QED
    BY <2>2, <2>7, <2>9
<1>5. Served(s, g[N], N, env)
  BY <1>1, <1>4
<1> HIDE DEF N, t
<1> QED
  BY <1>2, <1>5 DEF Served, OwnFills

-----------------------------------------------------------------------------
(* The envelope of a batch *)

LEMMA QuoteTopTyped ==
    ASSUME NEW quote, quote.bid_qty \in Int \cup {None}, quote.ask_qty \in Int \cup {None},
           quote.bid \in Int \cup {None}, quote.ask \in Int \cup {None},
           NEW metadata, metadata.quantity_scale \in Int, Usable(quote, metadata)
    PROVE  TopTyped(QuoteTop(quote, metadata))
<1> DEFINE a == Capacity(quote.ask_qty, metadata.quantity_scale)
           b == Capacity(quote.bid_qty, metadata.quantity_scale)
<1>1. a \in Int \cup {None} /\ b \in Int \cup {None}
  BY DEF Capacity
<1>2. QuoteTop(quote, metadata).capacity = [buy |-> a, sell |-> b]
  BY DEF QuoteTop
<1>3. quote.bid \in Nat \ {0} /\ quote.ask \in Nat \ {0}
  BY DEF Usable
<1>4. QuoteTop(quote, metadata).price = [buy |-> quote.ask, sell |-> quote.bid]
  BY DEF QuoteTop
<1> HIDE DEF a, b
<1> QED
  BY <1>1, <1>2, <1>3, <1>4 DEF TopTyped

LEMMA OwnFillsNone ==
    ASSUME NEW s, IsState(s), NEW t, t.fills = s.fills, NEW env
    PROVE  OwnFills(s, t, env)
<1>1. Len(s.fills) \in Nat
  BY ListFacts DEF IsState
<1> QED
  BY <1>1 DEF OwnFills

LEMMA InstrumentKept ==
    ASSUME NEW s, LedgerKept(s), NEW t, NEW key, NEW value,
           Frame(s, t, {"instruments"}), t.instruments = Bind(s.instruments, key, value),
           key \in DOMAIN s.instruments \/ Cardinality(DOMAIN s.instruments) < Limits.versions
    PROVE  LedgerKept(t)
<1>1. /\ t.orders = s.orders /\ t.positions = s.positions /\ t.fills = s.fills
      /\ t.cancels = s.cancels /\ t.eligible = s.eligible /\ t.version = s.version
      /\ t.ordinals = s.ordinals /\ t.nextOrdinal = s.nextOrdinal /\ DOMAIN t = BrokerFields
      /\ t.submits = s.submits /\ t.events = s.events
  BY DEF Frame, BrokerFields
<1>2. IsState(s) /\ QueueKept(s)
  BY DEF LedgerKept, BatchState
<1>3. IsState(t)
  BY <1>1, <1>2 DEF IsState
<1>4. QueueKept(t)
  BY <1>1, <1>2, QueueSame
<1>5. OrdersKept(t)
  BY <1>1 DEF LedgerKept, OrdersKept, OrderKept
<1>6. Grows(s, t, << >>) /\ \A types : Without(<< >>, types)
  BY <1>1, <1>2, GrowsNot DEF IsState, Without
<1>7. JournalKept(t)
  BY <1>1, <1>6, JournalKeptSame DEF LedgerKept
<1>8. CachesKept(t)
  BY <1>1 DEF LedgerKept, CachesKept, CancelKeyed
<1>9. OpenOrders(t) = OpenOrders(s)
  BY <1>1 DEF OpenOrders
<1>10. LimitsKept(t)
  <2>1. Holds(s.instruments, Limits.versions)
    BY DEF LedgerKept, LimitsKept
  <2>2. key \in DOMAIN s.instruments \/ ~(Cardinality(DOMAIN s.instruments) >= Limits.versions)
    BY <2>1, FS_CardinalityType, LimitsAreNumbers DEF Holds
  <2>3. Holds(t.instruments, Limits.versions)
    BY <2>1, <2>2, BindHolds, LimitsAreNumbers
  <2> QED
    BY <1>1, <1>9, <2>3 DEF LedgerKept, LimitsKept
<1>11. Explained(t)
  BY <1>1, <1>6, ExplainedSame DEF LedgerKept
<1> QED
  BY <1>1, <1>3, <1>4, <1>5, <1>7, <1>8, <1>10, <1>11 DEF LedgerKept, BatchState

LEMMA EnvelopeLedger ==
    ASSUME NEW s, LedgerKept(s), ScalesTyped(s), NEW env, FreshEnvelope(s, env),
           PayloadTyped(env), MetadataAccepted(s, env)
    PROVE  LET t == StageEnvelope(s, env)
           IN  LedgerKept(t) /\ OwnFills(s, t, env) /\ ScalesTyped(t)
<1> DEFINE metadata == IF env.kind = "quote" /\ env.version # None
                       THEN Get(s.instruments, <<env.payload.instrument, env.version>>) ELSE None
           key == <<env.payload.instrument, env.payload.version>>
           value == Metadata(env.payload)
           a == [s EXCEPT !.instruments = Bind(@, key, value)]
           b == StageMatches(s, env, QuoteTop(env.payload, metadata))
           staged == CASE env.kind = "instrument" -> a
                       [] env.kind = "quote" -> IF Usable(env.payload, metadata) THEN b ELSE s
                       [] OTHER -> s
           t == [staged EXCEPT !.effective = env.session, !.bound = env.session,
                               !.source = env.source, !.last = env.sequence]
           Good(u) == LedgerKept(u) /\ OwnFills(s, u, env) /\ ScalesTyped(u)
<1> SUFFICES Good(t)
  BY DEF StageEnvelope
<1>1. IsState(s) /\ s.version \in Int
  BY DEF LedgerKept, BatchState
<1>2. Good(s)
  BY <1>1, OwnFillsNone
<1>3. ASSUME env.kind = "instrument"
      PROVE  Good(a)
  <2>1. Frame(s, a, {"instruments"}) /\ a.instruments = Bind(s.instruments, key, value)
    BY <1>1 DEF IsState, BrokerFields, Frame
  <2>2. key \in DOMAIN s.instruments \/ Cardinality(DOMAIN s.instruments) < Limits.versions
    BY <1>3 DEF MetadataAccepted, Get
  <2>3. value.quantity_scale \in Int \cup {None}
    BY <1>3 DEF PayloadTyped, Metadata
  <2> HIDE DEF a, key, value
  <2>4. LedgerKept(a)
    BY <2>1, <2>2, InstrumentKept
  <2>5. a.fills = s.fills
    BY <2>1 DEF Frame, BrokerFields
  <2>6. OwnFills(s, a, env)
    BY <1>1, <2>5, OwnFillsNone
  <2>7. ScalesTyped(a)
    BY <2>1, <2>3, BindDomain, BindValues DEF ScalesTyped
  <2> QED
    BY <2>4, <2>6, <2>7
<1>4. ASSUME env.kind = "quote", Usable(env.payload, metadata)
      PROVE  Good(b)
  <2>1. metadata # None /\ metadata.quantity_scale # None
    BY <1>4 DEF Usable
  <2>2. metadata.quantity_scale \in Int
    BY <2>1 DEF ScalesTyped, Get
  <2> HIDE DEF metadata
  <2>3. TopTyped(QuoteTop(env.payload, metadata))
    BY <1>4, <2>2, QuoteTopTyped DEF PayloadTyped
  <2> DEFINE top == QuoteTop(env.payload, metadata)
  <2> HIDE DEF top
  <2>4. TopTyped(top) /\ b = StageMatches(s, env, top)
    BY <2>3 DEF top
  <2> HIDE DEF b
  <2>5. LedgerKept(b) /\ OwnFills(s, b, env) /\ b.instruments = s.instruments
    BY <2>4, StageMatchesLedger
  <2> QED
    BY <2>5 DEF ScalesTyped
<1> HIDE DEF a, b, metadata, key, value
<1>5. Good(staged)
  BY <1>2, <1>3, <1>4
<1> HIDE DEF staged
<1>6. Frame(staged, t, {"effective", "bound", "source", "last"})
  BY <1>5 DEF LedgerKept, BatchState, IsState, BrokerFields, Frame
<1> HIDE DEF t
<1>7. t.version = staged.version /\ t.fills = staged.fills /\ t.instruments = staged.instruments
  BY <1>6 DEF Frame, BrokerFields
<1>8. t.version \in Int
  BY <1>5, <1>7 DEF LedgerKept, BatchState
<1>9. LedgerKept(t)
  <2>1. {"effective", "bound", "source", "last"}
           \subseteq {"effective", "bound", "source", "last", "version", "envelopes",
                      "decisions", "dedupe"}
    OBVIOUS
  <2> QED
    BY <1>5, <1>6, <1>8, <2>1, LedgerSame
<1> QED
  BY <1>5, <1>7, <1>9 DEF OwnFills, ScalesTyped

-----------------------------------------------------------------------------
(* The commands of a batch *)

LEMMA StageCommandLedger ==
    ASSUME NEW s, LedgerKept(s), NEW env, env.sequence \in Nat, NEW command,
           CommandTyped(command), command.sequence = env.sequence
    PROVE  LET t == StageCommand(s, env, command)
           IN  LedgerKept(t) /\ Roomy(s, t)
<1>1. CASE command.kind = "order"
  <2>1. IntentTyped(command)
    BY <1>1 DEF CommandTyped
  <2>2. WaitsFor(command, env.sequence)
    BY DEF WaitsFor
  <2> DEFINE t == StageSubmit(s, command, env).state
  <2>3. LedgerKept(t) /\ Roomy(s, t)
    BY <2>1, <2>2, StageSubmitLedger
  <2>4. StageCommand(s, env, command) = t
    BY <1>1 DEF StageCommand
  <2> HIDE DEF t
  <2> QED
    BY <2>3, <2>4
<1>2. CASE command.kind # "order"
  <2>1. command.requested \in Int
    BY <1>2 DEF CommandTyped
  <2> DEFINE t == StageCancel(s, command, env.session, env.sequence).state
  <2>2. LedgerKept(t) /\ Roomy(s, t)
    BY <2>1, StageCancelLedger
  <2>3. StageCommand(s, env, command) = t
    BY <1>2 DEF StageCommand
  <2> HIDE DEF t
  <2> QED
    BY <2>2, <2>3
<1> QED
  BY <1>1, <1>2

LEMMA StageCommandsLedger ==
    ASSUME NEW s, LedgerKept(s), NEW env, env.sequence \in Nat, NEW commands,
           Len(commands) \in Nat,
           \A n \in 1 .. Len(commands) :
               CommandTyped(commands[n]) /\ commands[n].sequence = env.sequence
    PROVE  LET t == StageCommands(s, env, commands)
           IN  LedgerKept(t) /\ Roomy(s, t)
<1> DEFINE N == Len(commands)
           t == StageCommands(s, env, commands)
           Good(u) == LedgerKept(u) /\ Roomy(s, u)
<1> SUFFICES Good(t)
  OBVIOUS
<1>1. PICK g : Staging(g, s, env, commands, N) /\ t = g[N]
  BY StagingDone
<1>2. Good(g[0])
  BY <1>1 DEF Staging, Roomy
<1> DEFINE B == {n \in 0 .. N : ~Good(g[n])}
<1>3. B = {}
  <2> SUFFICES ASSUME B # {} PROVE FALSE
    OBVIOUS
  <2>1. PICK b \in B : \A y \in B : b <= y
    <3>1. B \subseteq Nat
      OBVIOUS
    <3> HIDE DEF B
    <3> QED
      BY <3>1, LeastNumber
  <2>2. b \in 0 .. N /\ ~Good(g[b])
    OBVIOUS
  <2>3. b # 0
    BY <1>2, <2>2
  <2>4. b - 1 \in 0 .. N /\ Good(g[b - 1]) /\ b \in 1 .. N
    BY <2>1, <2>2, <2>3
  <2> HIDE DEF B
  <2>5. g[b] = StageCommand(g[b - 1], env, commands[b])
    BY <1>1, <2>4 DEF Staging
  <2> DEFINE u == g[b - 1]
             v == g[b]
             command == commands[b]
  <2>6. CommandTyped(command) /\ command.sequence = env.sequence /\ LedgerKept(u) /\ Roomy(s, u)
    BY <2>4
  <2>7. v = StageCommand(u, env, command)
    BY <2>5
  <2> HIDE DEF u, v, command
  <2>8. LedgerKept(v) /\ Roomy(u, v)
    BY <2>6, <2>7, StageCommandLedger
  <2>9. Roomy(s, v)
    BY <2>6, <2>8 DEF Roomy
  <2> QED
    BY <2>2, <2>8, <2>9 DEF v
<1> HIDE DEF Good
<1> QED
  BY <1>1, <1>3

-----------------------------------------------------------------------------
(* The calls *)

LEMMA BindFences ==
    ASSUME NEW s, FencesKept(s), NEW env, ~IsDuplicate(s, env), env.sequence \in Nat,
           FenceAccepts(s, env), Cardinality(DOMAIN s.envelopes) < Limits.records
    PROVE  LET envelopes == Bind(s.envelopes, env.sequence, env)
               dedupe == Bind(s.dedupe, env.dedupe, env.sequence)
           IN  /\ IsFiniteSet(DOMAIN envelopes) /\ DOMAIN envelopes \subseteq Nat
               /\ Cardinality(DOMAIN envelopes) <= Limits.records
               /\ env.sequence \in DOMAIN envelopes
               /\ \A q \in DOMAIN envelopes : q <= env.sequence
               /\ \A q : q \in DOMAIN envelopes <=> q \in DOMAIN s.envelopes \/ q = env.sequence
               /\ \A d \in DOMAIN dedupe : dedupe[d] \in DOMAIN envelopes
<1> DEFINE E == DOMAIN s.envelopes
           q0 == env.sequence
           envelopes == Bind(s.envelopes, env.sequence, env)
           dedupe == Bind(s.dedupe, env.dedupe, env.sequence)
<1>1. DOMAIN envelopes = E \cup {q0}
  BY DEF Bind
<1>2. IsFiniteSet(E) /\ q0 \notin E /\ E \subseteq Nat /\ q0 \in Nat
  BY DEF FencesKept, IsDuplicate
<1>3. IsFiniteSet(E \cup {q0}) /\ Cardinality(E \cup {q0}) = Cardinality(E) + 1
  BY <1>2, FS_AddElement
<1>4. Cardinality(E) \in Nat
  BY <1>2, FS_CardinalityType
<1>5. Cardinality(E) + 1 <= Limits.records
  BY <1>4, LimitsAreNumbers
<1>6. \A q \in E : q <= q0
  <2>1. CASE s.last = None
    BY <2>1 DEF FencesKept
  <2>2. CASE s.last # None
    <3>1. s.last \in E /\ (\A q \in E : q <= s.last) /\ s.last <= q0
      BY <2>2, <1>2 DEF FencesKept, FencesComplete, FenceAccepts
    <3> QED
      BY <3>1, <1>2
  <2> QED
    BY <2>1, <2>2
<1>7. \A d \in DOMAIN s.dedupe : s.dedupe[d] \in E
  BY DEF FencesKept, FencesComplete
<1> HIDE DEF E, q0
<1>8. \A d \in DOMAIN dedupe : dedupe[d] \in E \cup {q0}
  BY <1>7, BindDomain, BindValues DEF q0
<1> HIDE DEF envelopes, dedupe
<1>9. \A q \in E \cup {q0} : q <= q0
  BY <1>2, <1>6
<1> QED
  BY <1>1, <1>2, <1>3, <1>5, <1>8, <1>9 DEF envelopes, dedupe, E, q0

LEMMA BatchBrokerKept ==
    ASSUME NEW s, BrokerKept(s), None \notin Int, NEW env, NEW commands,
           DecisionTyped(env, commands), BatchAccepted(s, env, commands)
    PROVE  LET t == ProcessDecisionBatch(s, env, commands)
           IN  /\ BrokerKept(t) /\ OwnFills(s, t, env)
               /\ t = s \/ env.sequence \notin DOMAIN s.envelopes
<1> DEFINE a == StageEnvelope(s, env)
           b == StageCommands(a, env, commands)
           t == ProcessDecisionBatch(s, env, commands)
<1> SUFFICES /\ BrokerKept(t) /\ OwnFills(s, t, env)
             /\ t = s \/ env.sequence \notin DOMAIN s.envelopes
  OBVIOUS
<1>1. LedgerKept(s) /\ BatchState(s) /\ IsState(s) /\ FencesKept(s)
  BY DEF BrokerKept, LedgerKept, BatchState
<1>2. CASE IsDuplicate(s, env)
  <2>1. t = s
    BY <1>2 DEF ProcessDecisionBatch
  <2> HIDE DEF t
  <2> QED
    BY <2>1, <1>1, OwnFillsNone
<1>3. CASE ~IsDuplicate(s, env)
  <2>1. /\ FenceAccepts(s, env) /\ MetadataAccepted(s, env)
        /\ Cardinality(DOMAIN s.envelopes) < Limits.records /\ WithinCapacity(t)
    BY <1>3 DEF BatchAccepted
  <2>2. env.sequence \notin DOMAIN s.envelopes
    BY <1>3 DEF IsDuplicate
  <2>3. FreshEnvelope(s, env) /\ PayloadTyped(env) /\ ScalesTyped(s) /\ env.sequence \in Nat
    BY <1>1, <2>2 DEF FreshEnvelope, FencesKept, DecisionTyped
  <2>4. LedgerKept(a) /\ OwnFills(s, a, env) /\ ScalesTyped(a)
    BY <1>1, <2>1, <2>3, EnvelopeLedger
  <2>5. /\ t.effective = env.session /\ t.bound = env.session
        /\ t.source = env.source /\ t.last = env.sequence
        /\ t.version = s.version + 1
        /\ t.envelopes = Bind(s.envelopes, env.sequence, env)
        /\ t.decisions = Bind(s.decisions, env.sequence, commands)
        /\ t.dedupe = Bind(s.dedupe, env.dedupe, env.sequence)
    BY <1>1, <1>3, BatchKept DEF DecisionTyped
  <2>6. /\ Len(commands) \in Nat
        /\ \A n \in 1 .. Len(commands) :
               CommandTyped(commands[n]) /\ commands[n].sequence = env.sequence
    BY DEF BatchAccepted, DecisionContract, DecisionTyped
  <2>7. t = CommitBatch(s, b, env, commands)
    BY <1>3 DEF ProcessDecisionBatch
  <2> HIDE DEF a, t
  <2>8. LedgerKept(b) /\ Roomy(a, b)
    BY <2>3, <2>4, <2>6, StageCommandsLedger
  <2> HIDE DEF b
  <2>9. Frame(b, t, {"version", "envelopes", "decisions", "dedupe"})
    BY <2>7, <2>8 DEF CommitBatch, LedgerKept, BatchState, IsState, BrokerFields, Frame
  <2>10. LedgerKept(t)
    <3>1. {"version", "envelopes", "decisions", "dedupe"}
             \subseteq {"effective", "bound", "source", "last", "version", "envelopes",
                        "decisions", "dedupe"}
      OBVIOUS
    <3>2. t.version \in Int
      BY <1>1, <2>5 DEF BatchState
    <3> QED
      BY <2>8, <2>9, <3>1, <3>2, LedgerSame
  <2>11. t.fills = a.fills /\ t.instruments = a.instruments
    BY <2>8, <2>9 DEF Frame, BrokerFields, Roomy
  <2>12. OwnFills(s, t, env) /\ ScalesTyped(t)
    BY <2>4, <2>11 DEF OwnFills, ScalesTyped
  <2>13. /\ IsFiniteSet(DOMAIN t.envelopes) /\ DOMAIN t.envelopes \subseteq Nat
         /\ Cardinality(DOMAIN t.envelopes) <= Limits.records
         /\ env.sequence \in DOMAIN t.envelopes
         /\ \A q \in DOMAIN t.envelopes : q <= env.sequence
         /\ \A q : q \in DOMAIN t.envelopes <=> q \in DOMAIN s.envelopes \/ q = env.sequence
         /\ \A d \in DOMAIN t.dedupe : t.dedupe[d] \in DOMAIN t.envelopes
    BY <1>1, <1>3, <2>1, <2>3, <2>5, BindFences
  <2>14. DOMAIN t.envelopes = DOMAIN t.decisions
    <3>1. DOMAIN s.envelopes = DOMAIN s.decisions
      BY <1>1 DEF FencesKept, FencesComplete
    <3>2. \A q : q \in DOMAIN t.decisions <=> q \in DOMAIN s.decisions \/ q = env.sequence
      BY <2>5, BindDomain
    <3> QED
      BY <2>13, <3>1, <3>2
  <2>15. env.session # None /\ env.source # None /\ env.sequence # None
    BY <2>3 DEF DecisionTyped
  <2>16. SessionsAgree(t)
    BY <2>5, <2>15 DEF SessionsAgree
  <2>17. FencesComplete(t)
    BY <2>5, <2>13, <2>14 DEF FencesComplete
  <2>18. ASSUME NEW k \in 1 .. Len(t.fills)
         PROVE  t.fills[k].sequence \in DOMAIN t.envelopes
    <3>1. Len(s.fills) \in Nat /\ Len(t.fills) \in Nat
      BY <1>1, <2>10, ListFacts DEF LedgerKept, BatchState, IsState
    <3>2. CASE k \in 1 .. Len(s.fills)
      BY <3>2, <1>1, <2>12, <2>13 DEF OwnFills, FencesKept
    <3>3. CASE k \notin 1 .. Len(s.fills)
      <4>1. k \in (Len(s.fills) + 1) .. Len(t.fills)
        BY <3>1, <3>3
      <4> QED
        BY <4>1, <2>12, <2>13 DEF OwnFills, OwnFill
    <3> QED
      BY <3>2, <3>3
  <2>19. FencesKept(t)
    BY <2>5, <2>12, <2>13, <2>15, <2>16, <2>17, <2>18 DEF FencesKept
  <2> QED
    BY <2>1, <2>2, <2>10, <2>12, <2>19 DEF BrokerKept
<1> QED
  BY <1>2, <1>3

LEMMA CallKept ==
    ASSUME NEW s, BrokerKept(s), NEW t, LedgerKept(t), Roomy(s, t), CallFences(s, t)
    PROVE  BrokerKept(t)
<1>1. SessionsAgree(t) /\ (t.effective = None => t.bound = None)
  BY DEF BrokerKept, FencesKept, CallFences, SessionsAgree
<1>2. FencesComplete(t)
  BY DEF BrokerKept, FencesKept, CallFences, FencesComplete
<1>3. FencesKept(t)
  BY <1>1, <1>2 DEF BrokerKept, FencesKept, CallFences, Roomy, ScalesTyped
<1>4. WithinCapacity(t)
  BY DEF BrokerKept, WithinCapacity, Roomy
<1> QED
  BY <1>3, <1>4 DEF BrokerKept

LEMMA FramedFences ==
    ASSUME NEW s, NEW t, NEW F, Frame(s, t, F),
           F \cap {"bound", "source", "last", "envelopes", "decisions", "dedupe"} = {},
           t.effective = s.effective \/ s.effective = None
    PROVE  CallFences(s, t)
  BY DEF Frame, BrokerFields, CallFences

\* The session a direct command is the first to name.
LEMMA EffectiveKept ==
    ASSUME NEW s, BrokerKept(s), NEW session, session = s.effective \/ s.effective = None, NEW t,
           t = [s EXCEPT !.effective = session]
    PROVE  BrokerKept(t) /\ Frame(s, t, {"effective"}) /\ CallFences(s, t) /\ Roomy(s, t)
<1>1. LedgerKept(s) /\ IsState(s) /\ s.version \in Int
  BY DEF BrokerKept, LedgerKept, BatchState
<1>2. Frame(s, t, {"effective"}) /\ t.effective = session
  BY <1>1 DEF IsState, BrokerFields, Frame
<1>3. t.version = s.version /\ Roomy(s, t)
  BY <1>2 DEF Frame, BrokerFields, Roomy
<1>4. LedgerKept(t)
  <2>1. {"effective"} \subseteq {"effective", "bound", "source", "last", "version", "envelopes",
                                 "decisions", "dedupe"}
    OBVIOUS
  <2> QED
    BY <1>1, <1>2, <1>3, <2>1, LedgerSame
<1>5. CallFences(s, t)
  <2>1. {"effective"} \cap {"bound", "source", "last", "envelopes", "decisions", "dedupe"} = {}
    OBVIOUS
  <2> QED
    BY <1>2, <2>1, FramedFences
<1> QED
  BY <1>2, <1>3, <1>4, <1>5, CallKept

LEMMA CallThen ==
    ASSUME NEW s, NEW t, NEW u, Roomy(s, t), CallFences(s, t), Roomy(t, u), CallFences(t, u)
    PROVE  Roomy(s, u) /\ CallFences(s, u)
  BY DEF Roomy, CallFences

LEMMA FencesNothing == \A s : Roomy(s, s) /\ CallFences(s, s)
  BY DEF Roomy, CallFences

LEMMA SubmitCases ==
    ASSUME NEW s, NEW intent
    PROVE  LET t == Submit(s, intent).state
               known == OrderId(intent) \in DOMAIN s.submits
               session == IF s.effective = None THEN intent.session ELSE s.effective
               base == [s EXCEPT !.effective = session]
               after == IF intent.sequence # None THEN intent.sequence
                        ELSE IF s.last = None THEN -1 ELSE s.last
           IN  \/ t = s
               \/ /\ known /\ ~Answers(s.submits, OrderId(intent), intent)
                  /\ t = SubmitConflict(s, intent, None, None, 1).state
               \/ ~known /\ t = RejectSubmit(s, intent, "invalid_intent", None, None, 1).state
               \/ ~known /\ t = RejectSubmit(base, intent, "capacity_exceeded", None, None, 1).state
               \/ /\ ~known /\ ~(Cardinality(DOMAIN s.submits) >= Limits.orders)
                  /\ ~NoRoomForOrder(s)
                  /\ t = Versioned(AcceptOrder(base, intent, after, intent.session,
                                               intent.sequence), 1)
<1> DEFINE known == OrderId(intent) \in DOMAIN s.submits
           cached == Answers(s.submits, OrderId(intent), intent)
           session == IF s.effective = None THEN intent.session ELSE s.effective
           base == [s EXCEPT !.effective = session]
           after == IF intent.sequence # None THEN intent.sequence
                    ELSE IF s.last = None THEN -1 ELSE s.last
           a == Result(s, Resolve(s, Find(s.submits[OrderId(intent)], intent)))
           b == SubmitConflict(s, intent, None, None, 1)
           c == RejectSubmit(s, intent, "invalid_intent", None, None, 1)
           d == Result(s, Rejected(intent, "capacity_exceeded"))
           e == RejectSubmit(base, intent, "capacity_exceeded", None, None, 1)
           f == Result(Versioned(AcceptOrder(base, intent, after, intent.session,
                                             intent.sequence), 1), NewOrder(intent))
<1>1. Submit(s, intent) =
          CASE cached -> a
            [] known /\ ~cached -> b
            [] ~known /\ intent.session \notin {None, session} -> c
            [] OTHER -> IF Cardinality(DOMAIN s.submits) >= Limits.orders THEN d
                        ELSE IF NoRoomForOrder(s) THEN e ELSE f
  BY DEF Submit
<1>2. a.state = s /\ d.state = s
      /\ f.state = Versioned(AcceptOrder(base, intent, after, intent.session, intent.sequence), 1)
  BY DEF Result
<1>3. cached => known
  BY DEF Answers
<1> HIDE DEF a, b, c, d, e, f, known, cached, session, base, after
<1> QED
  BY <1>1, <1>2, <1>3 DEF known, cached, session, base, after, b, c, e

LEMMA SubmitKept ==
    ASSUME NEW s, BrokerKept(s), NEW intent, IntentTyped(intent)
    PROVE  BrokerKept(Submit(s, intent).state) /\ Submit(s, intent).state.fills = s.fills
<1> DEFINE t == Submit(s, intent).state
           key == OrderId(intent)
           known == key \in DOMAIN s.submits
           session == IF s.effective = None THEN intent.session ELSE s.effective
           base == [s EXCEPT !.effective = session]
           after == IF intent.sequence # None THEN intent.sequence
                    ELSE IF s.last = None THEN -1 ELSE s.last
           a == SubmitConflict(s, intent, None, None, 1).state
           b == RejectSubmit(s, intent, "invalid_intent", None, None, 1).state
           c == RejectSubmit(base, intent, "capacity_exceeded", None, None, 1).state
           d == AcceptOrder(base, intent, after, intent.session, intent.sequence)
           e == Versioned(d, 1)
           Good(u) == LedgerKept(u) /\ Roomy(s, u) /\ CallFences(s, u)
<1>1. LedgerKept(s) /\ IsState(s) /\ FencesKept(s) /\ 1 \in Int
  BY DEF BrokerKept, LedgerKept, BatchState
<1>2. \/ t = s
      \/ known /\ ~Answers(s.submits, key, intent) /\ t = a
      \/ ~known /\ t = b
      \/ ~known /\ t = c
      \/ ~known /\ ~(Cardinality(DOMAIN s.submits) >= Limits.orders) /\ ~NoRoomForOrder(s) /\ t = e
  BY SubmitCases
<1>3. Good(s)
  BY <1>1, FencesNothing
<1>4. BrokerKept(base) /\ Frame(s, base, {"effective"}) /\ CallFences(s, base) /\ Roomy(s, base)
  <2>1. session = s.effective \/ s.effective = None
    OBVIOUS
  <2> HIDE DEF session
  <2> QED
    BY <2>1, EffectiveKept
<1>5. WaitsFor(intent, after)
  <2>1. s.last # None => s.last \in Nat
    BY <1>1 DEF FencesKept, FencesComplete
  <2> QED
    BY <2>1 DEF WaitsFor, IntentTyped
<1> HIDE DEF base, after, session
<1>6. LedgerKept(base) /\ IsState(base)
  BY <1>4 DEF BrokerKept, LedgerKept, BatchState
<1>7. /\ base.orders = s.orders /\ base.submits = s.submits /\ base.events = s.events
  BY <1>4 DEF Frame, BrokerFields
<1>8. /\ {"submits", "events", "version"}
            \cap {"bound", "source", "last", "envelopes", "decisions", "dedupe"} = {}
      /\ "effective" \notin {"submits", "events", "version"}
  OBVIOUS
<1>9. \A u, v : Frame(u, v, {"submits", "events", "version"}) => CallFences(u, v)
  BY DEF Frame, BrokerFields, CallFences
<1>10. known /\ ~Answers(s.submits, key, intent) => Good(a)
  <2>1. a = s \/ Frame(s, a, {"submits", "events", "version"})
    BY <1>1, ConflictFields
  <2>2. known /\ ~Answers(s.submits, key, intent) => LedgerKept(a) /\ Roomy(s, a)
    BY <1>1, ConflictLedger
  <2> HIDE DEF a
  <2> QED
    BY <2>1, <2>2, <1>9, FencesNothing
<1>11. ~known => Good(b)
  <2>1. b = s \/ Frame(s, b, {"submits", "events", "version"})
    BY <1>1, RejectFields
  <2>2. ~known => LedgerKept(b) /\ Roomy(s, b)
    BY <1>1, RejectLedger
  <2> HIDE DEF b
  <2> QED
    BY <2>1, <2>2, <1>9, FencesNothing
<1>12. ~known => Good(c)
  <2>1. c = base \/ Frame(base, c, {"submits", "events", "version"})
    BY <1>6, RejectFields
  <2>2. ~known => LedgerKept(c) /\ Roomy(base, c)
    BY <1>1, <1>6, <1>7, RejectLedger
  <2> HIDE DEF c
  <2>3. CallFences(base, c)
    BY <2>1, <1>9, FencesNothing
  <2> QED
    BY <2>2, <2>3, <1>4, CallThen
<1>13. ~known /\ ~(Cardinality(DOMAIN s.submits) >= Limits.orders) /\ ~NoRoomForOrder(s) => Good(e)
  <2>1. NoRoomForOrder(base) <=> NoRoomForOrder(s)
    BY <1>7 DEF NoRoomForOrder, OpenOrders, JournalFull
  <2>2. ~known /\ ~(Cardinality(DOMAIN s.submits) >= Limits.orders) /\ ~NoRoomForOrder(s)
           => LedgerKept(d) /\ Roomy(base, d)
    BY <1>5, <1>6, <1>7, <2>1, AcceptLedger
  <2>3. Causes(base, d, intent.session, intent.sequence)
    BY <1>6, AcceptCauses
  <2> HIDE DEF d
  <2>4. CallFences(base, d) /\ IsState(d)
    BY <2>3 DEF Causes, SameFences, CallFences
  <2>5. Frame(d, e, {"version"}) /\ e.version = d.version + 1
    BY <2>4 DEF Versioned, IsState, BrokerFields, Frame
  <2> HIDE DEF e
  <2>6. LedgerKept(d) => LedgerKept(e)
    <3>1. {"version"} \subseteq {"effective", "bound", "source", "last", "version", "envelopes",
                                 "decisions", "dedupe"}
      OBVIOUS
    <3>2. LedgerKept(d) => e.version \in Int
      BY <2>5 DEF LedgerKept, BatchState
    <3> QED
      BY <2>5, <3>1, <3>2, LedgerSame
  <2>7. Roomy(d, e) /\ CallFences(d, e)
    BY <2>5 DEF Frame, BrokerFields, Roomy, CallFences
  <2> QED
    BY <2>2, <2>4, <2>6, <2>7, <1>4, CallThen
<1> HIDE DEF t, a, b, c, e, known, key, Good
<1>14. Good(t)
  BY <1>2, <1>3, <1>10, <1>11, <1>12, <1>13
<1>15. BrokerKept(t) /\ t.fills = s.fills
  BY <1>14, CallKept DEF Good, Roomy
<1> QED
  BY <1>15 DEF t

LEMMA CancelKept ==
    ASSUME NEW s, BrokerKept(s), NEW request, request.requested \in Int, CancelAccepted(s, request)
    PROVE  BrokerKept(Cancel(s, request).state) /\ Cancel(s, request).state.fills = s.fills
<1> DEFINE base == IF s.effective = None THEN [s EXCEPT !.effective = request.session] ELSE s
           rejected == IsRejection(EvaluateCancel(base, request))
           session == IF rejected THEN None ELSE request.session
           sequence == IF rejected THEN None ELSE request.sequence
           u == StageCancel(base, request, session, sequence).state
           t == Cancel(s, request).state
           Good(v) == LedgerKept(v) /\ Roomy(s, v) /\ CallFences(s, v)
<1>1. t = s \/ t = Versioned(u, 1)
  BY DEF Cancel, Result
<1>2. BrokerKept(base) /\ CallFences(s, base) /\ Roomy(s, base)
  <2>1. CASE s.effective = None
    <3> DEFINE v == [s EXCEPT !.effective = request.session]
    <3>1. BrokerKept(v) /\ CallFences(s, v) /\ Roomy(s, v)
      BY <2>1, EffectiveKept
    <3> HIDE DEF v
    <3> QED
      BY <2>1, <3>1 DEF v
  <2>2. CASE s.effective # None
    BY <2>2, FencesNothing
  <2> QED
    BY <2>1, <2>2
<1> HIDE DEF base, rejected, session, sequence
<1>3. LedgerKept(base) /\ IsState(base)
  BY <1>2 DEF BrokerKept, LedgerKept, BatchState
<1>4. LedgerKept(u) /\ Roomy(base, u)
  BY <1>3, StageCancelLedger
<1>5. Causes(base, u, session, sequence)
  BY <1>3, StageCancelCauses
<1> HIDE DEF u
<1>6. CallFences(base, u) /\ IsState(u)
  BY <1>5 DEF Causes, SameFences, CallFences
<1> DEFINE e == Versioned(u, 1)
<1>7. Frame(u, e, {"version"}) /\ e.version = u.version + 1
  BY <1>6 DEF Versioned, IsState, BrokerFields, Frame
<1> HIDE DEF e
<1>8. LedgerKept(e)
  <2>1. {"version"} \subseteq {"effective", "bound", "source", "last", "version", "envelopes",
                               "decisions", "dedupe"}
    OBVIOUS
  <2>2. e.version \in Int
    BY <1>4, <1>7 DEF LedgerKept, BatchState
  <2> QED
    BY <1>4, <1>7, <2>1, <2>2, LedgerSame
<1>9. Roomy(u, e) /\ CallFences(u, e)
  BY <1>7 DEF Frame, BrokerFields, Roomy, CallFences
<1>10. Roomy(base, e) /\ CallFences(base, e)
  BY <1>4, <1>6, <1>9, CallThen
<1>11. Good(e)
  BY <1>2, <1>8, <1>10, CallThen
<1>12. BrokerKept(e) /\ e.fills = s.fills
  BY <1>11, CallKept DEF Roomy
<1> HIDE DEF t
<1>13. BrokerKept(t) /\ t.fills = s.fills
  BY <1>1, <1>12 DEF e
<1> QED
  BY <1>13 DEF t

-----------------------------------------------------------------------------
(* The specification *)

LEMMA InitialBrokerKept == \A session : BrokerKept(InitialState(session))
<1> TAKE session
<1> DEFINE s == InitialState(session)
<1>1. /\ DOMAIN s = BrokerFields /\ s.orders = Empty /\ s.positions = Empty /\ s.submits = Empty
      /\ s.cancels = Empty /\ s.ordinals = Empty /\ s.eligible = Empty /\ s.nextOrdinal = 1
      /\ s.fills = << >> /\ s.events = << >> /\ s.instruments = Empty /\ s.envelopes = Empty
      /\ s.decisions = Empty /\ s.dedupe = Empty /\ s.version = 0
      /\ s.bound = None /\ s.source = None /\ s.last = None
  BY DEF InitialState, BrokerFields
<1> HIDE DEF s
<1>2. DOMAIN Empty = {} /\ Len(<< >>) = 0 /\ 1 .. 0 = {}
  BY DEF Empty
<1>3. IsFiniteSet({}) /\ Cardinality({}) = 0
  BY FS_EmptySet
<1>4. OpenOrders(s) = {} /\ \A types : Journalled(s, types) = {}
  BY <1>1, <1>2 DEF OpenOrders, Journalled
<1>5. BatchState(s)
  <2>1. QueueKept(s)
    BY <1>1, <1>2 DEF QueueKept
  <2> QED
    BY <1>1, <2>1, EmptyList DEF BatchState, IsState
<1>6. OrdersKept(s)
  BY <1>1, <1>2 DEF OrdersKept
<1>7. JournalKept(s)
  <2>1. OrdersNamed(s)
    BY <1>4 DEF OrdersNamed
  <2>2. FillsNumbered(s)
    BY <1>1, <1>2 DEF FillsNumbered
  <2>3. FillsJournalled(s)
    <3>1. ToSet(<< >>) = {} /\ DOMAIN << >> = {}
      BY DEF ToSet
    <3>2. {s.events[n].payload : n \in Journalled(s, {"fill_recorded"})} = {}
      BY <1>4
    <3> QED
      BY <1>1, <1>2, <1>3, <1>4, <3>1, <3>2 DEF FillsJournalled
  <2> QED
    BY <1>1, <1>2, <2>1, <2>2, <2>3 DEF JournalKept
<1>8. CachesKept(s)
  BY <1>1, <1>2 DEF CachesKept
<1>9. LimitsKept(s)
  BY <1>1, <1>2, <1>3, <1>4, LimitsAreNumbers DEF LimitsKept, Holds
<1>10. FencesKept(s)
  <2>1. SessionsAgree(s)
    BY <1>1 DEF SessionsAgree
  <2>2. FencesComplete(s)
    BY <1>1, <1>2, <1>3, LimitsAreNumbers DEF FencesComplete
  <2> QED
    BY <1>1, <1>2, <1>3, <2>1, <2>2 DEF FencesKept, ScalesTyped
<1>11. WithinCapacity(s)
  BY <1>1, <1>2, <1>3, LimitsAreNumbers DEF WithinCapacity
<1>12. Explained(s)
  <2>1. OrdersExplained(s) /\ PositionsExplained(s)
    BY <1>1, <1>2 DEF OrdersExplained, PositionsExplained
  <2>2. PlacesNamed(s)
    BY <1>4 DEF PlacesNamed
  <2>3. FillsSound(s) /\ FillsPlaced(s)
    BY <1>1, <1>2 DEF FillsSound, FillsPlaced
  <2> QED
    BY <2>1, <2>2, <2>3 DEF Explained
<1> QED
  BY <1>5, <1>6, <1>7, <1>8, <1>9, <1>10, <1>11, <1>12 DEF BrokerKept, LedgerKept, s

\* A step of the specification and the batch it may be.
LEMMA TradingStep ==
    ASSUME TradingInv, TradingNext
    PROVE  /\ BrokerKept(broker')
           /\ \/ broker'.fills = broker.fills
              \/ \E env : /\ OwnFills(broker, broker', env) /\ env.sequence \in Nat
                          /\ env.sequence \notin DOMAIN broker.envelopes
<1>1. BrokerKept(broker)
  BY DEF TradingInv
<1>2. CASE SubmitIntent
  <2>1. PICK i \in Intents : broker' = Submit(broker, i).state
    BY <1>2 DEF SubmitIntent
  <2>2. IntentTyped(i)
    BY InputsAreTyped
  <2> QED
    BY <1>1, <2>1, <2>2, SubmitKept
<1>3. CASE CancelRequest
  <2>1. PICK r \in Requests : CancelAccepted(broker, r) /\ broker' = Cancel(broker, r).state
    BY <1>3 DEF CancelRequest
  <2>2. r.requested \in Int
    BY InputsAreTyped
  <2> QED
    BY <1>1, <2>1, <2>2, CancelKept
<1>4. CASE ProcessBatch
  <2>1. PICK b \in Batches : /\ BatchAccepted(broker, b.envelope, b.commands)
                             /\ broker' = ProcessDecisionBatch(broker, b.envelope, b.commands)
    BY <1>4 DEF ProcessBatch
  <2>2. DecisionTyped(b.envelope, b.commands) /\ None \notin Int
    BY InputsAreTyped, NoneIsNoNumber
  <2> DEFINE env == b.envelope
             commands == b.commands
             t == ProcessDecisionBatch(broker, env, commands)
  <2>3. /\ BrokerKept(t) /\ OwnFills(broker, t, env)
        /\ t = broker \/ env.sequence \notin DOMAIN broker.envelopes
    BY <1>1, <2>1, <2>2, BatchBrokerKept
  <2>4. broker' = t /\ env.sequence \in Nat
    BY <2>1, <2>2 DEF DecisionTyped
  <2> HIDE DEF t, env
  <2> QED
    BY <2>3, <2>4
<1> QED
  BY <1>2, <1>3, <1>4 DEF TradingNext

\* The inductive invariant: what the journal, the caches, the queue and the
\* fences of a broker have to do with each other after any call.
THEOREM TradingInvHolds == TradingSpec => []TradingInv
<1>1. TradingInit => TradingInv
  BY InitialBrokerKept DEF TradingInit, TradingInv
<1>2. TradingInv /\ [TradingNext]_tradingVars => TradingInv'
  <2> SUFFICES ASSUME TradingInv, [TradingNext]_tradingVars
               PROVE  TradingInv'
    OBVIOUS
  <2>1. CASE TradingNext
    BY <2>1, TradingStep DEF TradingInv
  <2>2. CASE UNCHANGED tradingVars
    BY <2>2 DEF TradingInv, tradingVars
  <2> QED
    BY <2>1, <2>2
<1> QED
  BY <1>1, <1>2, PTL DEF TradingSpec

\* NoLookAhead of _stage_matches and eligibility_sequence: whatever was
\* submitted before, an order is filled only by an envelope that was committed
\* after it, with a later sequence than its cause.
THEOREM NoLookAheadHolds == TradingSpec => NoLookAhead
<1> DEFINE Ahead ==
        \A n \in DOMAIN NewFills :
            LET f == NewFills[n]
            IN  /\ f.order \in OpenOrders(broker)
                /\ f.sequence \notin DOMAIN broker.envelopes
                /\ f.time >= broker.orders[f.order].updated
                /\ broker.orders[f.order].intent.sequence # None =>
                       f.sequence > broker.orders[f.order].intent.sequence
<1>1. TradingInv /\ [TradingNext]_tradingVars => [Ahead]_tradingVars
  <2> SUFFICES ASSUME TradingInv, TradingNext
               PROVE  Ahead
    OBVIOUS
  <2>1. /\ BrokerKept(broker')
        /\ \/ broker'.fills = broker.fills
           \/ \E env : /\ OwnFills(broker, broker', env) /\ env.sequence \in Nat
                       /\ env.sequence \notin DOMAIN broker.envelopes
    BY TradingStep
  <2>2. /\ IsList(broker.fills) /\ IsList(broker'.fills) /\ OrdersKept(broker)
    BY <2>1 DEF TradingInv, BrokerKept, LedgerKept, BatchState, IsState
  <2> DEFINE A == Len(broker.fills)
             B == Len(broker'.fills)
  <2>3. A \in Nat /\ B \in Nat
    BY <2>2, ListFacts
  <2>4. DOMAIN NewFills = 1 .. (B - A) /\ \A n \in 1 .. (B - A) : NewFills[n] = broker'.fills[A + n]
    <3> DEFINE q == broker'.fills
    <3>1. PICK S : q \in Seq(S)
      BY <2>2 DEF IsList
    <3>2. NewFills = SubSeq(q, A + 1, B) /\ B = Len(q)
      BY DEF NewFills
    <3> HIDE DEF q, A, B
    <3>3. Len(SubSeq(q, A + 1, B)) = IF A + 1 <= B THEN B - A ELSE 0
      BY <2>3, <3>1, <3>2
    <3>4. SubSeq(q, A + 1, B) \in Seq(S)
      BY <2>3, <3>1, <3>2
    <3>5. DOMAIN SubSeq(q, A + 1, B) = 1 .. (B - A)
      BY <2>3, <3>3, <3>4
    <3>6. \A n \in 1 .. (B - A) : SubSeq(q, A + 1, B)[n] = q[A + n]
      BY <2>3, <3>1, <3>2
    <3> QED
      BY <3>2, <3>5, <3>6 DEF q
  <2> SUFFICES ASSUME NEW n \in 1 .. (B - A)
               PROVE  LET f == broker'.fills[A + n]
                      IN  /\ f.order \in OpenOrders(broker)
                          /\ f.sequence \notin DOMAIN broker.envelopes
                          /\ f.time >= broker.orders[f.order].updated
                          /\ broker.orders[f.order].intent.sequence # None =>
                                 f.sequence > broker.orders[f.order].intent.sequence
    BY <2>4
  <2>5. A + n \in (A + 1) .. B /\ A < B
    BY <2>3
  <2>6. PICK env : /\ OwnFills(broker, broker', env) /\ env.sequence \in Nat
                   /\ env.sequence \notin DOMAIN broker.envelopes
    BY <2>1, <2>5
  <2> DEFINE f == broker'.fills[A + n]
  <2>7. OwnFill(broker, env, f)
    BY <2>5, <2>6 DEF OwnFills
  <2> HIDE DEF f
  <2>8. f.order \in DOMAIN broker.orders
    BY <2>7 DEF OwnFill, OpenOrders
  <2> DEFINE intent == broker.orders[f.order].intent
             after == broker.eligible[f.order]
  <2>9. WaitsFor(intent, after) /\ IntentTyped(intent)
    BY <2>2, <2>8 DEF OrdersKept, OrderKept
  <2>10. f.sequence = env.sequence /\ env.sequence > after
    BY <2>7 DEF OwnFill
  <2> HIDE DEF intent, after
  <2>11. intent.sequence # None => f.sequence > intent.sequence
    BY <2>6, <2>9, <2>10 DEF WaitsFor, IntentTyped
  <2> QED
    BY <2>6, <2>7, <2>11 DEF OwnFill, f, intent
<1> QED
  BY <1>1, TradingInvHolds, PTL DEF TradingSpec, NoLookAhead

-----------------------------------------------------------------------------
(* The checkpoint *)

LEMMA FillsRecomputed ==
    ASSUME NEW s, IsList(s.fills), FillsNumbered(s),
           \A n, k \in 1 .. Len(s.fills) :
               s.fills[n].sequence = s.fills[k].sequence => s.fills[n].order = s.fills[k].order
    PROVE  FillIdsRecomputed(s)
<1> DEFINE N == Len(s.fills)
<1>1. N \in Nat /\ DOMAIN s.fills = 1 .. N
  BY ListFacts
<1> SUFFICES ASSUME NEW n \in 1 .. N
             PROVE  LET f == s.fills[n]
                        same == {k \in 1 .. n : /\ s.fills[k].order = f.order
                                                /\ s.fills[k].session = f.session
                                                /\ s.fills[k].sequence = f.sequence}
                    IN  f.id = <<f.order, f.session, f.sequence, Cardinality(same)>>
  BY <1>1 DEF FillIdsRecomputed
<1> DEFINE f == s.fills[n]
           same == {k \in 1 .. n : /\ s.fills[k].order = f.order
                                   /\ s.fills[k].session = f.session
                                   /\ s.fills[k].sequence = f.sequence}
<1>2. PICK j \in Nat : /\ f.id = <<f.order, f.session, f.sequence, j>>
                       /\ j = 1 \/ \E k \in 1 .. (n - 1) : s.fills[k].sequence = f.sequence
  BY DEF FillsNumbered
<1>3. \A k \in 1 .. n : s.fills[k].sequence = f.sequence => k = n
  <2>1. ASSUME NEW k \in 1 .. n, s.fills[k].sequence = s.fills[n].sequence
        PROVE  k = n
    <3>1. k \in 1 .. N
      BY <1>1
    <3> QED
      BY <2>1, <3>1 DEF FillsNumbered
  <2> QED
    BY <2>1
<1>4. j = 1
  <2>1. \A k \in 1 .. (n - 1) : k \in 1 .. n /\ k # n
    BY <1>1
  <2> QED
    BY <1>2, <1>3, <2>1
<1>5. same = {n}
  <2>1. n \in 1 .. n
    BY <1>1
  <2> QED
    BY <1>3, <2>1
<1>6. Cardinality(same) = 1
  BY <1>5, FS_Singleton
<1> HIDE DEF f, same
<1> QED
  BY <1>2, <1>4, <1>6 DEF f, same

LEMMA QueueIsComplete ==
    ASSUME NEW s, QueueKept(s), OrdersKept(s)
    PROVE  QueueComplete(s)
<1> DEFINE K == s.nextOrdinal - 1
<1>1. Cardinality(DOMAIN s.orders) = K
  BY QueueFacts
<1>2. {s.ordinals[id] : id \in DOMAIN s.ordinals} = 1 .. K
  BY DEF QueueKept
<1>3. \A id \in DOMAIN s.eligible : s.eligible[id] >= -1
  BY DEF QueueKept, OrdersKept, OrderKept, WaitsFor
<1> QED
  BY <1>1, <1>2, <1>3 DEF QueueComplete, QueueKept

LEMMA SubmitsOfOrders ==
    ASSUME NEW s, QueueKept(s), OrdersKept(s)
    PROVE  OrdersHaveSubmits(s)
<1> SUFFICES ASSUME NEW id \in DOMAIN s.orders
             PROVE  LET record == s.submits[id]
                    IN  /\ id = OrderId(s.orders[id].intent)
                        /\ id \in DOMAIN s.submits
                        /\ ~IsRejection(record.primary[2])
                        /\ record.primary[2].id = id
                        /\ record.primary[2].status = "accepted"
                        /\ record.primary[1] = record.primary[2].intent
  BY DEF OrdersHaveSubmits
<1> DEFINE intent == s.orders[id].intent
           order == NewOrder(intent)
           primary == s.submits[id].primary
<1>1. id \in DOMAIN s.submits /\ OrderId(intent) = id /\ primary = <<intent, order>>
  BY DEF QueueKept, OrdersKept, OrderKept
<1>2. ~IsRejection(order) /\ order.id = OrderId(intent) /\ order.status = "accepted"
      /\ order.intent = intent
  BY DEF NewOrder, IsRejection
<1> HIDE DEF intent, order, primary
<1>3. primary[1] = intent /\ primary[2] = order
  BY <1>1
<1> QED
  BY <1>1, <1>2, <1>3 DEF primary, intent

LEMMA KeptIsRestorable ==
    ASSUME NEW s, BrokerKept(s)
    PROVE  /\ FilledApart(s) => FillIdsRecomputed(s)
           /\ SessionsAgree(s) /\ QueueComplete(s) /\ OrdersHaveSubmits(s)
           /\ FillsJournalled(s) /\ OrdersJournalled(s) /\ PositionsJournalled(s)
           /\ WithinLimits(s) /\ FencesComplete(s) /\ OutcomesKeyed(s)
<1>1. /\ LedgerKept(s) /\ FencesKept(s) /\ WithinCapacity(s)
      /\ IsState(s) /\ QueueKept(s) /\ OrdersKept(s) /\ JournalKept(s)
      /\ CachesKept(s) /\ LimitsKept(s)
  BY DEF BrokerKept, LedgerKept, BatchState
<1>2. ASSUME FilledApart(s)
      PROVE  FillIdsRecomputed(s)
  <2>1. \A n \in 1 .. Len(s.fills) : s.fills[n] \in ToSet(s.fills)
    BY <1>1, ListFacts DEF IsState, ToSet
  <2>2. \A n, k \in 1 .. Len(s.fills) :
            s.fills[n].sequence = s.fills[k].sequence => s.fills[n].order = s.fills[k].order
    BY <1>2, <2>1 DEF FilledApart
  <2> QED
    BY <1>1, <2>2, FillsRecomputed DEF IsState, JournalKept
<1>3. SessionsAgree(s) /\ FencesComplete(s)
  BY <1>1 DEF FencesKept
<1>4. QueueComplete(s) /\ OrdersHaveSubmits(s)
  BY <1>1, QueueIsComplete, SubmitsOfOrders
<1>5. FillsJournalled(s)
  BY <1>1 DEF JournalKept
<1>6. OrdersJournalled(s)
  BY <1>1 DEF JournalKept, OrdersJournalled, OrderTold
<1>7. PositionsJournalled(s)
  BY <1>1 DEF JournalKept, PositionsJournalled, PositionTold
<1>8. WithinLimits(s)
  BY <1>1 DEF LimitsKept, Holds, WithinLimits
<1>9. OutcomesKeyed(s)
  BY <1>1 DEF CachesKept, SubmitKeyed, CancelKeyed, CancelOutcome, AnswersDiffer, OutcomesKeyed
<1> QED
  BY <1>2, <1>3, <1>4, <1>5, <1>6, <1>7, <1>8, <1>9

\* RestorableUnlessQuoteShared of export_checkpoint and _validate_checkpoint_state:
\* what a broker exports is restored, but for the fill ids of a shared quote.
THEOREM RestorableHolds == TradingSpec => []RestorableUnlessQuoteShared
<1>1. TradingInv => RestorableUnlessQuoteShared
  <2> SUFFICES ASSUME TradingInv
               PROVE  RestorableUnlessQuoteShared
    OBVIOUS
  <2>1. BrokerKept(broker)
    BY DEF TradingInv
  <2>2. ~QuoteShared => FilledApart(broker)
    BY DEF QuoteShared, FilledApart
  <2> QED
    BY <2>1, <2>2, KeptIsRestorable DEF RestorableUnlessQuoteShared
<1> QED
  BY <1>1, TradingInvHolds, PTL

-----------------------------------------------------------------------------
(* How one quote is shared *)

\* The part of a list that is new.
LEMMA SinceFacts ==
    ASSUME NEW p, IsList(p), NEW q, IsList(q), Len(p) <= Len(q)
    PROVE  /\ Len(Since(p, q)) = Len(q) - Len(p)
           /\ DOMAIN Since(p, q) = 1 .. (Len(q) - Len(p))
           /\ \A n \in 1 .. (Len(q) - Len(p)) : Since(p, q)[n] = q[Len(p) + n]
<1> DEFINE A == Len(p)
           B == Len(q)
<1>1. PICK S : q \in Seq(S)
  BY DEF IsList
<1>2. A \in Nat /\ B \in Nat /\ A <= B
  BY ListFacts
<1>3. Since(p, q) = SubSeq(q, A + 1, B) /\ B = Len(q)
  BY DEF Since
<1> HIDE DEF A, B
<1>4. Len(SubSeq(q, A + 1, B)) = IF A + 1 <= B THEN B - A ELSE 0
  BY <1>1, <1>2, <1>3
<1>5. SubSeq(q, A + 1, B) \in Seq(S)
  BY <1>1, <1>2, <1>3
<1>6. Len(SubSeq(q, A + 1, B)) = B - A
  BY <1>2, <1>4
<1>7. DOMAIN SubSeq(q, A + 1, B) = 1 .. (B - A)
  BY <1>2, <1>5, <1>6
<1>8. \A n \in 1 .. (B - A) : SubSeq(q, A + 1, B)[n] = q[A + n]
  BY <1>1, <1>2, <1>3
<1> QED
  BY <1>3, <1>6, <1>7, <1>8 DEF A, B

LEMMA NothingSold ==
    ASSUME NEW s, IsList(s.fills), NEW t, t.fills = s.fills, NEW side
    PROVE  Sold(s, t, side) = 0
<1> DEFINE q == Since(s.fills, t.fills)
           v == [n \in DOMAIN q |-> IF q[n].side = side THEN q[n].quantity ELSE 0]
<1>1. Len(s.fills) \in Nat
  BY ListFacts
<1>2. DOMAIN q = 1 .. (Len(s.fills) - Len(s.fills)) /\ Len(s.fills) - Len(s.fills) = 0
  BY <1>1, SinceFacts
<1> HIDE DEF q
<1>3. DOMAIN q = 1 .. 0
  BY <1>2
<1>4. Len(v) = 0
  BY <1>3
<1>5. \A n \in 1 .. Len(v) : v[n] = 0
  BY <1>4
<1>6. Sold(s, t, side) = SumOf(v)
  BY DEF Sold, q
<1> HIDE DEF v
<1> QED
  BY <1>4, <1>5, <1>6, SumOfZeros

LEMMA SoldGrows ==
    ASSUME NEW s, IsList(s.fills), NEW t, IsList(t.fills), Len(s.fills) <= Len(t.fills),
           \A n \in 1 .. Len(t.fills) : t.fills[n].quantity \in Int,
           NEW f, f.quantity \in Int, NEW u, u.fills = Append(t.fills, f), NEW side
    PROVE  SoldMore(s, t, u, f, side)
<1> DEFINE a == s.fills
           b == t.fills
           c == u.fills
           p == Since(a, b)
           q == Since(a, c)
           A == Len(a)
           B == Len(b)
           D == B - A
           v == [n \in DOMAIN p |-> IF p[n].side = side THEN p[n].quantity ELSE 0]
           w == [n \in DOMAIN q |-> IF q[n].side = side THEN q[n].quantity ELSE 0]
<1>1. /\ IsList(a) /\ IsList(b) /\ c = Append(b, f) /\ A <= B
      /\ \A n \in 1 .. B : b[n].quantity \in Int
  OBVIOUS
<1>2. Sold(s, t, side) = SumOf(v) /\ Sold(s, u, side) = SumOf(w)
  BY DEF Sold
<1> HIDE DEF a, b, c
<1>3. IsList(c) /\ Len(c) = B + 1 /\ (\A n \in 1 .. B : c[n] = b[n]) /\ c[B + 1] = f
  BY <1>1, AppendFacts
<1>4. A \in Nat /\ B \in Nat /\ A <= B
  BY <1>1, ListFacts
<1>5. D \in Nat /\ Len(c) - A = D + 1 /\ A + D = B /\ A + (D + 1) = B + 1 /\ A <= Len(c)
  BY <1>3, <1>4
<1>6. DOMAIN p = 1 .. D /\ \A n \in 1 .. D : p[n] = b[A + n]
  BY <1>1, SinceFacts
<1>7. DOMAIN q = 1 .. (D + 1) /\ \A n \in 1 .. (D + 1) : q[n] = c[A + n]
  <2>1. IsList(a) /\ IsList(c) /\ Len(a) <= Len(c)
    BY <1>1, <1>3, <1>5
  <2>2. DOMAIN q = 1 .. (Len(c) - A) /\ \A n \in 1 .. (Len(c) - A) : q[n] = c[A + n]
    BY <2>1, SinceFacts
  <2> HIDE DEF q, A, D
  <2> QED
    BY <1>5, <2>2
<1>8. \A n \in 1 .. D : A + n \in 1 .. B
  BY <1>4
<1>18. \A n \in 1 .. D : n \in 1 .. (D + 1)
  BY <1>5
<1>19. \A n \in 1 .. B : b[n].quantity \in Int
  BY <1>1
<1> HIDE DEF p, q, A, B, D
<1>9. ASSUME NEW n \in 1 .. D
      PROVE  q[n] = p[n] /\ p[n].quantity \in Int
  <2>1. A + n \in 1 .. B /\ n \in 1 .. (D + 1)
    BY <1>8, <1>18
  <2>2. p[n] = b[A + n] /\ q[n] = c[A + n] /\ c[A + n] = b[A + n]
    BY <2>1, <1>3, <1>6, <1>7
  <2> QED
    BY <2>1, <2>2, <1>19
<1>10. q[D + 1] = f
  BY <1>3, <1>5, <1>7
<1>11. v \in Seq(Int) /\ Len(v) = D
  BY <1>5, <1>6, <1>9
<1>12. \A n \in 1 .. (D + 1) : q[n].quantity \in Int
  BY <1>5, <1>9, <1>10
<1>13. w \in Seq(Int) /\ Len(w) = D + 1
  BY <1>5, <1>7, <1>12
<1>14. \A n \in 1 .. D : v[n] = w[n]
  BY <1>5, <1>6, <1>7, <1>9
<1>15. w[D + 1] = IF f.side = side THEN f.quantity ELSE 0
  BY <1>5, <1>7, <1>10
<1>16. \A n \in 1 .. (D + 1) : w[n] \in Int
  BY <1>5, <1>13
<1> HIDE DEF v, w
<1>17. SumOf(w) = SumOf(v) + w[Len(w)] /\ SumOf(v) \in Int
  BY <1>5, <1>11, <1>13, <1>14, <1>16, SumAppend
<1> QED
  BY <1>2, <1>13, <1>15, <1>17 DEF SoldMore

\* The queue has every order once.
LEMMA QueueHasAll ==
    ASSUME NEW s, QueueKept(s)
    PROVE  LET queue == OrderedIds(s)
               N == Len(queue)
           IN  /\ N \in Nat
               /\ \A i \in 1 .. N : queue[i] \in DOMAIN s.orders
               /\ \A i, j \in 1 .. N : queue[i] = queue[j] => i = j
               /\ \A i, j \in 1 .. N : s.ordinals[queue[i]] < s.ordinals[queue[j]] => i < j
               /\ \A id \in DOMAIN s.orders : \E i \in 1 .. N : queue[i] = id
<1> DEFINE queue == OrderedIds(s)
           K == s.nextOrdinal - 1
           D == DOMAIN s.orders
<1>1. /\ IsFiniteSet(D) /\ Cardinality(D) = K
      /\ queue \in Seq(D) /\ Len(queue) = K
      /\ \A n, k \in 1 .. K : n < k => s.ordinals[queue[n]] < s.ordinals[queue[k]]
  BY QueueFacts
<1>2. K \in Nat /\ \A id \in D : s.ordinals[id] \in Int
  BY DEF QueueKept
<1> HIDE DEF queue, K, D
<1>3. \A i \in 1 .. K : queue[i] \in D
  BY <1>1, <1>2
<1>4. \A i \in 1 .. K : s.ordinals[queue[i]] \in Int
  BY <1>2, <1>3
<1>5. \A i, j \in 1 .. K : queue[i] = queue[j] => i = j
  BY <1>1, <1>2, <1>4
<1>6. \A i, j \in 1 .. K : s.ordinals[queue[i]] < s.ordinals[queue[j]] => i < j
  <2> SUFFICES ASSUME NEW i \in 1 .. K, NEW j \in 1 .. K,
                      s.ordinals[queue[i]] < s.ordinals[queue[j]], ~(i < j)
               PROVE  FALSE
    OBVIOUS
  <2>1. i = j \/ j < i
    BY <1>2
  <2>2. s.ordinals[queue[i]] \in Int /\ s.ordinals[queue[j]] \in Int
    BY <1>4
  <2>3. CASE i = j
    BY <2>2, <2>3
  <2>4. CASE j < i
    BY <1>1, <2>2, <2>4
  <2> QED
    BY <2>1, <2>3, <2>4
<1>7. queue \in Injection(1 .. K, D)
  <2>1. queue \in [1 .. K -> D]
    BY <1>1, <1>2
  <2> QED
    BY <2>1, <1>5 DEF Injection, IsInjective
<1>8. Cardinality(1 .. K) = K
  BY <1>2, FS_Interval
<1>9. queue \in Surjection(1 .. K, D)
  BY <1>1, <1>7, <1>8, FS_Injection
<1>10. \A id \in D : \E i \in 1 .. K : queue[i] = id
  BY <1>9 DEF Surjection
<1> QED
  BY <1>1, <1>2, <1>3, <1>5, <1>6, <1>10 DEF queue, D

LEMMA SharedStart ==
    ASSUME NEW s, IsState(s), NEW env, NEW top, TopTyped(top), NEW m,
           m.s = s, m.capacity = top.capacity
    PROVE  Shared(s, m, 0, env, top)
<1>1. \A side : Sold(s, m.s, side) = 0
  BY NothingSold DEF IsState
<1>2. 1 .. 0 = {}
  OBVIOUS
<1>3. ASSUME NEW side \in {"buy", "sell"}
      PROVE  IF top.capacity[side] = None THEN m.capacity[side] = None /\ Sold(s, m.s, side) = 0
             ELSE /\ m.capacity[side] \in Int /\ Sold(s, m.s, side) \in Int
                  /\ m.capacity[side] = top.capacity[side] - Sold(s, m.s, side)
                  /\ Sold(s, m.s, side) = 0 \/ m.capacity[side] >= 0
  <2>1. top.capacity[side] \in Int \cup {None} /\ m.capacity[side] = top.capacity[side]
    BY DEF TopTyped
  <2> QED
    BY <1>1, <2>1
<1> QED
  BY <1>2, <1>3 DEF Shared

\* An order that takes nothing found nothing left, or is not a contender.
LEMMA SharedSkip ==
    ASSUME NEW s, LedgerKept(s), NEW env, NEW top, NEW m, NEW n \in Nat,
           n + 1 \in 1 .. Len(OrderedIds(s)), Served(s, m, n, env), Shared(s, m, n, env, top),
           ~TakesFill(m, OrderedIds(s)[n + 1], env, top), TopTyped(top)
    PROVE  Shared(s, m, n + 1, env, top)
<1> DEFINE queue == OrderedIds(s)
           id == queue[n + 1]
           o == s.orders[id]
           N == Len(queue)
<1>1. QueueKept(s) /\ OrdersKept(s)
  BY DEF LedgerKept, BatchState
<1>2. /\ N \in Nat
      /\ \A i \in 1 .. N : queue[i] \in DOMAIN s.orders
      /\ \A i, j \in 1 .. N : queue[i] = queue[j] => i = j
  BY <1>1, QueueHasAll
<1>3. id \in DOMAIN s.orders /\ m.s.orders[id] = o
  <2>1. n + 1 \in (n + 1) .. N
    BY <1>2
  <2> QED
    BY <1>2, <2>1 DEF Served
<1>4. o.intent.side \in {"buy", "sell"} /\ o.id = id
  BY <1>1, <1>3 DEF OrdersKept, OrderKept, IntentTyped
<1>5. ASSUME Contends(s, id, env, top)
      PROVE  ~(m.capacity[o.intent.side] > 0)
  <2>1. o.status \notin TerminalStatuses /\ o.intent.instrument = env.payload.instrument
    BY <1>5 DEF Contends, OpenOrders
  <2>2. Eligible(m.s, o, env)
    BY <1>5 DEF Contends, Eligible, Served
  <2>3. LedgerAccepts(m.s.positions, PositionKey(o.intent), env.time)
    BY <1>5 DEF Contends, Shared
  <2>4. ~Executable(o, top, m.capacity[o.intent.side])
    BY <1>3, <2>1, <2>2, <2>3 DEF TakesFill
  <2>5. Executable(o, top, top.capacity[o.intent.side])
    BY <1>5 DEF Contends
  <2> DEFINE left == m.capacity[o.intent.side]
             size == top.capacity[o.intent.side]
  <2>6. size # None => left \in Int
    BY <1>4 DEF Shared
  <2> HIDE DEF left, size, o
  <2>7. ~Executable(o, top, left) /\ Executable(o, top, size)
    BY <2>4, <2>5 DEF left, size
  <2>8. size # None /\ size > 0
    BY <2>7 DEF Executable
  <2>9. ~(left # None /\ left > 0)
    BY <2>7 DEF Executable
  <2>10. None \notin Int
    BY NoneIsNoNumber
  <2> QED
    BY <2>6, <2>8, <2>9, <2>10 DEF left
<1> HIDE DEF queue, id, o, N
<1>6. \A i \in 1 .. (n + 1) : i \in 1 .. n \/ i = n + 1
  OBVIOUS
<1>7. ASSUME NEW i \in 1 .. (n + 1), Contends(s, queue[i], env, top)
      PROVE  \/ m.s.orders[queue[i]].status = "filled"
             \/ ~(m.capacity[s.orders[queue[i]].intent.side] > 0)
  <2>1. CASE i \in 1 .. n
    BY <2>1, <1>7 DEF Shared, queue
  <2>2. CASE i = n + 1
    BY <2>2, <1>5, <1>7 DEF id, o
  <2> QED
    BY <1>6, <2>1, <2>2
<1>8. ASSUME NEW k \in (Len(s.fills) + 1) .. Len(m.s.fills), NEW i \in 1 .. (n + 1),
             NEW j \in 1 .. (n + 1), m.s.fills[k].order = queue[j], i < j,
             Contends(s, queue[i], env, top),
             s.orders[queue[i]].intent.side = s.orders[queue[j]].intent.side
      PROVE  m.s.orders[queue[i]].status = "filled"
  <2>1. PICK h \in 1 .. n : queue[h] = m.s.fills[k].order
    BY DEF Served, queue
  <2>2. h \in 1 .. N /\ j \in 1 .. N
    BY <1>2 DEF N, queue
  <2>3. j = h
    BY <1>2, <1>8, <2>1, <2>2
  <2>4. i \in 1 .. n /\ j \in 1 .. n
    BY <1>8, <2>3
  <2> QED
    BY <1>8, <2>4 DEF Shared, queue
<1> QED
  BY <1>7, <1>8 DEF Shared, queue

LEMMA FillEffects ==
    ASSUME NEW s, LedgerKept(s), NEW env, FreshEnvelope(s, env), NEW m, NEW n \in Nat,
           n + 1 \in 1 .. Len(OrderedIds(s)), Served(s, m, n, env), NEW top, TopTyped(top),
           TakesFill(m, OrderedIds(s)[n + 1], env, top), NEW r,
           r = AfterFill(m, OrderedIds(s)[n + 1], env, top)
    PROVE  FillMade(s, m, n, env, top, r)
<1> DEFINE id == OrderedIds(s)[n + 1]
           o == m.s.orders[id]
           own == o.intent.side
           f == NextFill(m, id, env, top)
           left == m.capacity[own]
           p == m.s
<1>1. /\ FitsOrder(m.s, id, f) /\ f.order = id
      /\ own \in {"buy", "sell"} /\ left \in Int
  BY TakesFillFits
<1>2. /\ LedgerKept(p) /\ IsState(p) /\ OrdersKept(p) /\ QueueKept(s)
      /\ DOMAIN p.orders = DOMAIN s.orders
  BY DEF Served, LedgerKept, BatchState
<1>3. id \in DOMAIN s.orders /\ o = s.orders[id]
  <2>1. /\ Len(OrderedIds(s)) \in Nat
        /\ \A i \in 1 .. Len(OrderedIds(s)) : OrderedIds(s)[i] \in DOMAIN s.orders
    BY <1>2, QueueHasAll
  <2>2. n + 1 \in (n + 1) .. Len(OrderedIds(s))
    BY <2>1
  <2> QED
    BY <2>1, <2>2 DEF Served
<1>4. Executable(o, top, left)
  BY DEF TakesFill
<1>5. left > 0
  <2> HIDE DEF left, o
  <2> QED
    BY <1>4 DEF Executable
<1>6. f.side = own /\ f.quantity = (IF o.remaining < left THEN o.remaining ELSE left)
      /\ f.time = env.time
  <2>1. /\ f.time = env.time /\ f.side = m.s.orders[id].intent.side
        /\ f.quantity = IF m.s.orders[id].remaining < m.capacity[m.s.orders[id].intent.side]
                        THEN m.s.orders[id].remaining ELSE m.capacity[m.s.orders[id].intent.side]
    <3> HIDE DEF id
    <3> QED
      BY NextFillFields
  <2> HIDE DEF f
  <2> QED
    BY <2>1
<1>7. DOMAIN o = OrderFields /\ o.remaining \in Int /\ o.id = id
  BY <1>2, <1>3 DEF OrdersKept, OrderKept
<1>8. r.s = RecordFill(p, o, f) /\ r.capacity = [m.capacity EXCEPT ![own] = @ - f.quantity]
  BY DEF AfterFill
<1>9. DOMAIN m.capacity = {"buy", "sell"}
  BY DEF Served
<1>10. /\ r.capacity[own] = left - f.quantity
       /\ \A side \in {"buy", "sell"} : side # own => r.capacity[side] = m.capacity[side]
  <2> DEFINE c == m.capacity
             q == f.quantity
  <2>1. r.capacity = [c EXCEPT ![own] = @ - q] /\ DOMAIN c = {"buy", "sell"} /\ left = c[own]
    BY <1>8, <1>9
  <2> HIDE DEF c, q, own, left
  <2>2. r.capacity[own] = left - q /\ \A side \in {"buy", "sell"} : side # own => r.capacity[side] = c[side]
    BY <2>1, <1>1
  <2> QED
    BY <2>2 DEF c, q
<1> HIDE DEF f, left
<1>11. f.quantity \in Int /\ f.quantity <= left
  BY <1>1, <1>6, <1>7
<1>12. FillOrder(o, f).status = "filled" \/ f.quantity = left
  <2>1. o.remaining = f.quantity \/ f.quantity = left
    BY <1>1, <1>6, <1>7
  <2>2. "status" \in DOMAIN o
    BY <1>7 DEF OrderFields
  <2> DEFINE status == IF o.remaining = f.quantity THEN "filled" ELSE "partially_filled"
  <2>3. FillOrder(o, f).status = status
    <3> HIDE DEF o, status
    <3>1. FillOrder(o, f) = [o EXCEPT !.filled = @ + f.quantity, !.remaining = @ - f.quantity,
                                      !.notional = @ + f.quantity * f.price, !.updated = f.time,
                                      !.status = status]
      BY DEF FillOrder, status
    <3> QED
      BY <3>1, <2>2
  <2> QED
    BY <2>1, <2>3
<1>13. /\ \A k \in DOMAIN p.orders :
              r.s.orders[k] = IF k = o.id THEN FillOrder(o, f) ELSE p.orders[k]
       /\ r.s.positions = Bind(p.positions, PositionKey(f),
                               ApplyFillToPosition(Position(p, PositionKey(f)), f))
       /\ r.s.fills = Append(p.fills, f)
  <2> HIDE DEF o, p
  <2> QED
    BY <1>2, <1>8, RecordFillFields
<1>14. ASSUME NEW key, LedgerAccepts(p.positions, key, env.time)
       PROVE  LedgerAccepts(r.s.positions, key, env.time)
  <2> DEFINE own2 == PositionKey(f)
             value == ApplyFillToPosition(Position(p, own2), f)
             a == p.positions
             b == r.s.positions
  <2>1. b = Bind(a, own2, value) /\ value.updated = env.time /\ env.time \in Int
    BY <1>6, <1>13 DEF ApplyFillToPosition, FreshEnvelope
  <2>2. LedgerAccepts(a, key, env.time)
    BY <1>14
  <2> HIDE DEF own2, value, a, b
  <2>3. LedgerAccepts(b, key, env.time)
    BY <2>1, <2>2, BindDomain, BindValues DEF LedgerAccepts
  <2> QED
    BY <2>3 DEF b
<1> HIDE DEF own, p
<1>15. /\ r.s.orders[id] = FillOrder(o, f)
       /\ \A k \in DOMAIN s.orders : k # id => r.s.orders[k] = m.s.orders[k]
  BY <1>2, <1>3, <1>7, <1>13 DEF p
<1> QED
  BY <1>1, <1>3, <1>5, <1>6, <1>10, <1>11, <1>12, <1>13, <1>14, <1>15 DEF f, left, own, p, FillMade

\* An order that takes its part of the quote leaves the rest to the next ones.
LEMMA SharedFill ==
    ASSUME NEW s, LedgerKept(s), NEW env, FreshEnvelope(s, env), NEW m, NEW n \in Nat,
           n + 1 \in 1 .. Len(OrderedIds(s)), Served(s, m, n, env), NEW top,
           Shared(s, m, n, env, top), TopTyped(top),
           TakesFill(m, OrderedIds(s)[n + 1], env, top), NEW r,
           r = AfterFill(m, OrderedIds(s)[n + 1], env, top)
    PROVE  Shared(s, r, n + 1, env, top)
<1> DEFINE queue == OrderedIds(s)
           id == queue[n + 1]
           o == s.orders[id]
           own == o.intent.side
           f == NextFill(m, id, env, top)
           left == m.capacity[own]
           q == f.quantity
           N == Len(queue)
           A == Len(s.fills)
           B == Len(m.s.fills)
<1>1. /\ id \in DOMAIN s.orders /\ own \in {"buy", "sell"}
      /\ f.order = id /\ f.side = own /\ q \in Int
      /\ left \in Int /\ left > 0 /\ q <= left
      /\ r.s.orders[id].status = "filled" \/ q = left
      /\ r.capacity[own] = left - q
      /\ \A side \in {"buy", "sell"} : side # own => r.capacity[side] = m.capacity[side]
      /\ \A k \in DOMAIN s.orders : k # id => r.s.orders[k] = m.s.orders[k]
      /\ r.s.fills = Append(m.s.fills, f)
      /\ \A key : LedgerAccepts(m.s.positions, key, env.time)
                      => LedgerAccepts(r.s.positions, key, env.time)
  <2>1. FillMade(s, m, n, env, top, r)
    BY FillEffects
  <2> QED
    BY <2>1 DEF FillMade
<1>2. /\ QueueKept(s) /\ IsList(s.fills) /\ IsList(m.s.fills) /\ OrdersKept(s)
      /\ FillsNumbered(m.s) /\ A <= B
  BY DEF Served, LedgerKept, BatchState, IsState, JournalKept
<1>3. /\ N \in Nat
      /\ \A i \in 1 .. N : queue[i] \in DOMAIN s.orders
      /\ \A i, j \in 1 .. N : queue[i] = queue[j] => i = j
  BY <1>2, QueueHasAll
<1>4. None \notin Int
  BY NoneIsNoNumber
<1>5. /\ IsList(r.s.fills) /\ Len(r.s.fills) = B + 1
      /\ \A k \in 1 .. B : r.s.fills[k] = m.s.fills[k]
      /\ r.s.fills[B + 1] = f
  <2> DEFINE old == m.s.fills
             new == r.s.fills
  <2>1. IsList(old) /\ new = Append(old, f)
    BY <1>1, <1>2
  <2> HIDE DEF old, new, f
  <2>2. /\ IsList(new) /\ Len(new) = Len(old) + 1
        /\ \A k \in 1 .. Len(old) : new[k] = old[k]
        /\ new[Len(old) + 1] = f
    BY <2>1, AppendFacts
  <2> QED
    BY <2>2 DEF old, new
<1>6. A \in Nat /\ B \in Nat
  BY <1>2, ListFacts
<1>7. \A k \in 1 .. n : k \in 1 .. N /\ k # n + 1 /\ n + 1 \in 1 .. N
  BY <1>3
<1>8. \A side : /\ Sold(s, m.s, side) \in Int
                /\ Sold(s, r.s, side) = Sold(s, m.s, side) + (IF own = side THEN q ELSE 0)
  <2> DEFINE t == m.s
             u == r.s
  <2>1. \A k \in 1 .. Len(t.fills) : t.fills[k].quantity \in Int
    BY <1>2 DEF FillsNumbered
  <2>2. IsList(s.fills) /\ IsList(t.fills) /\ Len(s.fills) <= Len(t.fills)
        /\ u.fills = Append(t.fills, f) /\ f.quantity \in Int /\ f.side = own
    BY <1>1, <1>2
  <2> HIDE DEF t, u, f, own
  <2>3. ASSUME NEW side
        PROVE  SoldMore(s, t, u, f, side)
    <3>1. /\ IsList(s.fills) /\ IsList(t.fills) /\ Len(s.fills) <= Len(t.fills)
          /\ u.fills = Append(t.fills, f) /\ f.quantity \in Int
      BY <2>2
    <3> QED
      BY <2>1, <3>1, SoldGrows
  <2> QED
    BY <2>2, <2>3 DEF t, u, SoldMore
<1>9. ASSUME NEW side \in {"buy", "sell"}
      PROVE  IF top.capacity[side] = None THEN r.capacity[side] = None /\ Sold(s, r.s, side) = 0
             ELSE /\ r.capacity[side] \in Int /\ Sold(s, r.s, side) \in Int
                  /\ r.capacity[side] = top.capacity[side] - Sold(s, r.s, side)
                  /\ Sold(s, r.s, side) = 0 \/ r.capacity[side] >= 0
  <2> DEFINE size == top.capacity[side]
             was == m.capacity[side]
             sold == Sold(s, m.s, side)
             now == r.capacity[side]
             total == Sold(s, r.s, side)
  <2>1. /\ size \in Int \cup {None}
        /\ IF size = None THEN was = None /\ sold = 0
           ELSE was \in Int /\ sold \in Int /\ was = size - sold /\ (sold = 0 \/ was >= 0)
    BY DEF Shared, TopTyped
  <2>2. sold \in Int /\ total = sold + (IF own = side THEN q ELSE 0)
    BY <1>8
  <2>3. own = side => was = left /\ now = left - q
    BY <1>1
  <2>4. own # side => now = was
    BY <1>1
  <2> HIDE DEF size, was, sold, now, total, own, left, q
  <2>5. IF size = None THEN now = None /\ total = 0
        ELSE now \in Int /\ total \in Int /\ now = size - total /\ (total = 0 \/ now >= 0)
    <3>1. CASE own = side
      BY <1>1, <1>4, <2>1, <2>2, <2>3, <3>1
    <3>2. CASE own # side
      BY <2>1, <2>2, <2>4, <3>2
    <3> QED
      BY <3>1, <3>2
  <2> QED
    BY <2>5 DEF size, now, total
<1> HIDE DEF f, q, left, A, B, N
<1>10. ASSUME NEW key, LedgerAccepts(s.positions, key, env.time)
       PROVE  LedgerAccepts(r.s.positions, key, env.time)
  BY <1>1, <1>10 DEF Shared
<1>11. ASSUME NEW i \in 1 .. n, Contends(s, queue[i], env, top)
       PROVE  /\ r.s.orders[queue[i]] = m.s.orders[queue[i]]
              /\ \/ r.s.orders[queue[i]].status = "filled"
                 \/ ~(m.capacity[s.orders[queue[i]].intent.side] > 0)
  <2>1. r.s.orders[queue[i]] = m.s.orders[queue[i]]
    BY <1>1, <1>3, <1>7
  <2> QED
    BY <2>1, <1>11 DEF Shared
<1>12. ASSUME NEW i \in 1 .. (n + 1), Contends(s, queue[i], env, top)
       PROVE  \/ r.s.orders[queue[i]].status = "filled"
              \/ ~(r.capacity[s.orders[queue[i]].intent.side] > 0)
  <2>1. CASE i = n + 1
    <3>1. r.s.orders[id].status = "filled" \/ ~(r.capacity[own] > 0)
      <4> HIDE DEF own, id
      <4> QED
        BY <1>1
    <3> QED
      BY <2>1, <3>1
  <2>2. CASE i # n + 1
    <3>1. i \in 1 .. n
      BY <2>2
    <3> DEFINE side == s.orders[queue[i]].intent.side
    <3>2. side \in {"buy", "sell"}
      BY <1>2, <1>3, <1>7, <3>1 DEF OrdersKept, OrderKept, IntentTyped
    <3>3. r.s.orders[queue[i]].status = "filled" \/ ~(m.capacity[side] > 0)
      BY <3>1, <1>11, <1>12
    <3>4. side = own => m.capacity[side] > 0
      BY <1>1 DEF left
    <3> HIDE DEF side, own, id
    <3>5. r.s.orders[queue[i]].status = "filled" \/ ~(r.capacity[side] > 0)
      BY <3>2, <3>3, <3>4, <1>1
    <3> QED
      BY <3>5 DEF side
  <2> QED
    BY <2>1, <2>2
<1>13. ASSUME NEW k \in (A + 1) .. Len(r.s.fills), NEW i \in 1 .. (n + 1),
              NEW j \in 1 .. (n + 1), r.s.fills[k].order = queue[j], i < j,
              Contends(s, queue[i], env, top),
              s.orders[queue[i]].intent.side = s.orders[queue[j]].intent.side
       PROVE  r.s.orders[queue[i]].status = "filled"
  <2>1. i \in 1 .. n /\ i \in 1 .. N /\ j \in 1 .. N /\ n + 1 \in 1 .. N
    BY <1>3, <1>13 DEF N
  <2>2. CASE k = B + 1
    <3>1. queue[j] = id
      BY <2>2, <1>1, <1>5, <1>13
    <3>2. s.orders[queue[i]].intent.side = own /\ m.capacity[own] > 0
      BY <3>1, <1>1, <1>13 DEF left
    <3> QED
      BY <2>1, <3>2, <1>11, <1>13
  <2>3. CASE k # B + 1
    <3>1. k \in (A + 1) .. B /\ k \in 1 .. B
      BY <2>3, <1>5, <1>6
    <3>2. r.s.fills[k] = m.s.fills[k]
      BY <3>1, <1>5
    <3>3. PICK h \in 1 .. n : queue[h] = m.s.fills[k].order
      BY <3>1 DEF Served, queue, A, B
    <3>4. h = j
      BY <3>2, <3>3, <2>1, <1>3, <1>7, <1>13
    <3>5. j \in 1 .. n
      BY <3>3, <3>4
    <3>6. m.s.orders[queue[i]].status = "filled"
      BY <3>1, <3>2, <3>5, <2>1, <1>13 DEF Shared, queue, A, B
    <3> QED
      BY <3>6, <2>1, <1>11, <1>13
  <2> QED
    BY <2>2, <2>3
<1> QED
  BY <1>9, <1>10, <1>12, <1>13 DEF Shared, queue, A

LEMMA SharedDone ==
    ASSUME NEW s, LedgerKept(s), NEW env, NEW top, TopTyped(top), NEW m,
           Shared(s, m, Len(OrderedIds(s)), env, top), DOMAIN m.s.orders = DOMAIN s.orders
    PROVE  SharedOut(s, m.s, env, top)
<1> DEFINE queue == OrderedIds(s)
           N == Len(queue)
<1>1. /\ \A i, j \in 1 .. N : s.ordinals[queue[i]] < s.ordinals[queue[j]] => i < j
      /\ \A id \in DOMAIN s.orders : \E i \in 1 .. N : queue[i] = id
  BY QueueHasAll DEF LedgerKept, BatchState
<1>2. ASSUME NEW side \in {"buy", "sell"}, Sold(s, m.s, side) > 0
      PROVE  Sold(s, m.s, side) <= top.capacity[side]
  <2> DEFINE size == top.capacity[side]
             left == m.capacity[side]
             sold == Sold(s, m.s, side)
  <2>1. /\ size \in Int \cup {None} /\ sold > 0
        /\ IF size = None THEN left = None /\ sold = 0
           ELSE left \in Int /\ sold \in Int /\ left = size - sold /\ (sold = 0 \/ left >= 0)
    BY <1>2 DEF Shared, TopTyped
  <2> HIDE DEF size, left, sold
  <2>2. sold <= size
    BY <2>1
  <2> QED
    BY <2>2 DEF size, sold
<1>3. ASSUME NEW a \in DOMAIN s.orders, NEW b \in DOMAIN s.orders,
             Contends(s, a, env, top), s.orders[a].intent.side = s.orders[b].intent.side,
             s.ordinals[a] < s.ordinals[b],
             NEW k \in (Len(s.fills) + 1) .. Len(m.s.fills), m.s.fills[k].order = b
      PROVE  m.s.orders[a].status = "filled"
  <2>1. PICK i \in 1 .. N : queue[i] = a
    BY <1>1
  <2>2. PICK j \in 1 .. N : queue[j] = b
    BY <1>1
  <2>3. i < j
    BY <1>1, <1>3, <2>1, <2>2
  <2> QED
    BY <1>3, <2>1, <2>2, <2>3 DEF Shared
<1> QED
  BY <1>2, <1>3 DEF SharedOut

LEMMA SharedNext ==
    ASSUME NEW s, LedgerKept(s), NEW env, FreshEnvelope(s, env), NEW m, NEW n \in Nat,
           n + 1 \in 1 .. Len(OrderedIds(s)), Served(s, m, n, env), NEW top,
           Shared(s, m, n, env, top), TopTyped(top)
    PROVE  LET r == StageMatch(m, OrderedIds(s)[n + 1], env, top)
           IN  Served(s, r, n + 1, env) /\ Shared(s, r, n + 1, env, top)
<1> DEFINE id == OrderedIds(s)[n + 1]
           r == StageMatch(m, id, env, top)
           w == AfterFill(m, id, env, top)
<1>1. \/ TakesFill(m, id, env, top) /\ r = w
      \/ ~TakesFill(m, id, env, top) /\ r = m
  BY DEF StageMatch, TakesFill, NextFill, AfterFill
<1>2. Served(s, r, n + 1, env)
  BY ServedNext
<1> HIDE DEF r, w
<1>3. CASE TakesFill(m, id, env, top) /\ r = w
  <2>1. Shared(s, r, n + 1, env, top)
    BY <1>3, SharedFill DEF w
  <2> QED
    BY <1>2, <2>1 DEF r
<1>4. CASE ~TakesFill(m, id, env, top) /\ r = m
  <2>1. Shared(s, r, n + 1, env, top)
    BY <1>4, SharedSkip
  <2> QED
    BY <1>2, <2>1 DEF r
<1> QED
  BY <1>1, <1>3, <1>4

LEMMA StageMatchesShared ==
    ASSUME NEW s, LedgerKept(s), NEW env, FreshEnvelope(s, env), NEW top, TopTyped(top)
    PROVE  SharedOut(s, StageMatches(s, env, top), env, top)
<1> DEFINE N == Len(OrderedIds(s))
           t == StageMatches(s, env, top)
           Good(m, n) == Served(s, m, n, env) /\ Shared(s, m, n, env, top)
<1>0. IsState(s) /\ Len(s.fills) \in Nat
  BY ListFacts DEF LedgerKept, BatchState, IsState
<1>1. N \in Nat
  BY QueueFacts DEF LedgerKept, BatchState, QueueKept
<1>2. PICK g : Matching(g, s, env, top, N) /\ t = g[N].s
  BY <1>1, MatchingDone
<1>3. Good(g[0], 0)
  <2> DEFINE m == g[0]
  <2>1. m.s = s /\ m.capacity = top.capacity /\ m.ordinal = 0
    BY <1>2 DEF Matching
  <2> HIDE DEF m
  <2>2. Served(s, m, 0, env)
    BY <1>0, <2>1 DEF Served, TopTyped
  <2>3. Shared(s, m, 0, env, top)
    BY <1>0, <2>1, SharedStart
  <2> QED
    BY <2>2, <2>3 DEF m
<1> DEFINE B == {n \in 0 .. N : ~Good(g[n], n)}
<1> HIDE DEF t
<1>4. B = {}
  <2> SUFFICES ASSUME B # {} PROVE FALSE
    OBVIOUS
  <2>1. PICK b \in B : \A y \in B : b <= y
    <3>1. B \subseteq Nat
      BY <1>1
    <3> HIDE DEF B
    <3> QED
      BY <3>1, LeastNumber
  <2>2. b \in 0 .. N /\ ~Good(g[b], b)
    OBVIOUS
  <2> HIDE DEF Good
  <2>3. b # 0
    BY <1>3, <2>2
  <2>4. b - 1 \in 0 .. N /\ Good(g[b - 1], b - 1)
    BY <1>1, <2>1, <2>2, <2>3
  <2> HIDE DEF B
  <2>5. b - 1 \in Nat /\ (b - 1) + 1 = b /\ b \in 1 .. N
    BY <1>1, <2>2, <2>3
  <2>6. g[b] = StageMatch(g[b - 1], OrderedIds(s)[b], env, top)
    BY <1>2, <2>5 DEF Matching
  <2> DEFINE n == b - 1
             m == g[n]
  <2>7. n \in Nat /\ n + 1 = b /\ n + 1 \in 1 .. N /\ Good(m, n)
    BY <2>4, <2>5
  <2>8. g[b] = StageMatch(m, OrderedIds(s)[n + 1], env, top)
    BY <2>5, <2>6
  <2> HIDE DEF n, m
  <2>9. Served(s, m, n, env) /\ Shared(s, m, n, env, top)
    BY <2>7 DEF Good
  <2>10. Good(g[b], n + 1)
    BY <2>7, <2>8, <2>9, SharedNext DEF Good
  <2> QED
    BY <2>2, <2>7, <2>10
<1>5. Shared(s, g[N], N, env, top) /\ DOMAIN g[N].s.orders = DOMAIN s.orders
  BY <1>1, <1>4 DEF Served
<1> HIDE DEF N
<1>6. SharedOut(s, g[N].s, env, top)
  BY <1>5, SharedDone DEF N
<1> QED
  BY <1>2, <1>6 DEF t

LEMMA EnvelopeShared ==
    ASSUME NEW s, LedgerKept(s), ScalesTyped(s), NEW env, FreshEnvelope(s, env), PayloadTyped(env)
    PROVE  LET t == StageEnvelope(s, env)
               metadata == Get(s.instruments, <<env.payload.instrument, env.version>>)
           IN  t.fills = s.fills \/ SharedOut(s, t, env, QuoteTop(env.payload, metadata))
<1> DEFINE metadata == Get(s.instruments, <<env.payload.instrument, env.version>>)
           known == IF env.kind = "quote" /\ env.version # None THEN metadata ELSE None
           a == [s EXCEPT !.instruments =
                     Bind(@, <<env.payload.instrument, env.payload.version>>, Metadata(env.payload))]
           top == QuoteTop(env.payload, metadata)
           b == StageMatches(s, env, top)
           staged == CASE env.kind = "instrument" -> a
                       [] env.kind = "quote" ->
                              IF Usable(env.payload, known)
                              THEN StageMatches(s, env, QuoteTop(env.payload, known)) ELSE s
                       [] OTHER -> s
           t == [staged EXCEPT !.effective = env.session, !.bound = env.session,
                               !.source = env.source, !.last = env.sequence]
           Good(u) == u.fills = s.fills \/ SharedOut(s, u, env, top)
<1>1. StageEnvelope(s, env) = t
  BY DEF StageEnvelope
<1>2. a.fills = s.fills /\ DOMAIN a = DOMAIN s
  OBVIOUS
<1>3. IsState(s)
  BY DEF LedgerKept, BatchState
<1>4. ASSUME env.kind = "quote", Usable(env.payload, known)
      PROVE  known = metadata /\ SharedOut(s, b, env, top) /\ IsState(b)
  <2>1. known # None /\ known.quantity_scale # None
    BY <1>4 DEF Usable
  <2>2. known = metadata
    BY <2>1
  <2>3. metadata.quantity_scale \in Int
    BY <2>1, <2>2 DEF ScalesTyped, Get
  <2>7. Usable(env.payload, metadata)
    BY <1>4, <2>2
  <2> HIDE DEF known, metadata
  <2>4. TopTyped(top)
    BY <1>4, <2>3, <2>7, QuoteTopTyped DEF PayloadTyped
  <2> HIDE DEF top
  <2>5. SharedOut(s, b, env, top)
    BY <2>4, StageMatchesShared
  <2>6. IsState(b)
    BY <2>4, StageMatchesLedger DEF LedgerKept, BatchState
  <2> HIDE DEF b
  <2> QED
    BY <2>2, <2>5, <2>6
<1>5. staged = a \/ staged = s \/ (staged = b /\ SharedOut(s, b, env, top) /\ IsState(b))
  <2> HIDE DEF a, b, known, metadata
  <2>1. known = metadata => StageMatches(s, env, QuoteTop(env.payload, known)) = b
    BY DEF b
  <2> QED
    BY <1>4, <2>1
<1> HIDE DEF staged, a, b, known, top
<1>6. t.fills = staged.fills /\ t.orders = staged.orders
  BY <1>2, <1>3, <1>5 DEF IsState, BrokerFields
<1>7. SharedOut(s, staged, env, top) => SharedOut(s, t, env, top)
  <2> HIDE DEF t
  <2>1. \A side : Sold(s, t, side) = Sold(s, staged, side)
    BY <1>6 DEF Sold
  <2> QED
    BY <1>6, <2>1 DEF SharedOut
<1>8. Good(t)
  BY <1>2, <1>5, <1>6, <1>7
<1> HIDE DEF t
<1> QED
  BY <1>1, <1>8 DEF top

-----------------------------------------------------------------------------
(* The commands after it *)

LEMMA SubmitFilled ==
    ASSUME NEW s, LedgerKept(s), NEW intent, NEW env
    PROVE  FilledStay(s, StageSubmit(s, intent, env).state)
<1> DEFINE t == StageSubmit(s, intent, env).state
           key == OrderId(intent)
           conflict == Rejected(intent, "idempotency_conflict")
           rejection == Rejected(intent, "capacity_exceeded")
           a == SubmitConflict(s, intent, env.session, env.sequence, 0).state
           b == RejectSubmit(s, intent, "capacity_exceeded", env.session, env.sequence, 0).state
           c == AcceptOrder(s, intent, env.sequence, env.session, env.sequence)
<1>1. IsState(s) /\ QueueKept(s)
  BY DEF LedgerKept, BatchState
<1>2. a = s \/ Frame(s, a, {"submits", "events", "version"})
  BY <1>1, ConflictFields
<1>3. b = s \/ Frame(s, b, {"submits", "events", "version"})
  BY <1>1, RejectFields
<1>4. c.orders = Bind(s.orders, key, NewOrder(intent))
  BY <1>1, AcceptFields
<1>5. t = s \/ t = a \/ t = b \/ (key \notin DOMAIN s.submits /\ t = c)
  BY StageSubmitCases
<1> HIDE DEF t, a, b, c, conflict, rejection
<1>6. a.orders = s.orders
  BY <1>2 DEF Frame, BrokerFields
<1>7. b.orders = s.orders
  BY <1>3 DEF Frame, BrokerFields
<1>8. t.orders = s.orders \/ (key \notin DOMAIN s.orders /\ t.orders = Bind(s.orders, key, NewOrder(intent)))
  BY <1>1, <1>4, <1>5, <1>6, <1>7 DEF QueueKept
<1>9. FilledStay(s, t)
  <2> DEFINE old == s.orders
             new == t.orders
             value == NewOrder(intent)
  <2>1. new = old \/ (key \notin DOMAIN old /\ new = Bind(old, key, value))
    BY <1>8
  <2> HIDE DEF old, new, value, key
  <2>2. \A id \in DOMAIN old : id \in DOMAIN new /\ new[id] = old[id]
    BY <2>1, BindDomain, BindValues
  <2> QED
    BY <2>2 DEF FilledStay, old, new
<1> QED
  BY <1>9 DEF t

LEMMA CancelFilled ==
    ASSUME NEW s, LedgerKept(s), NEW request, NEW session, NEW sequence
    PROVE  FilledStay(s, StageCancel(s, request, session, sequence).state)
<1> DEFINE t == StageCancel(s, request, session, sequence).state
           outcome == EvaluateCancel(s, request)
<1>1. IsState(s) /\ OrdersKept(s)
  BY DEF LedgerKept, BatchState
<1>2. \/ t = s
      \/ /\ ~IsRejection(outcome) /\ s.orders[outcome.id] # outcome
         /\ t.orders = [s.orders EXCEPT ![outcome.id] = outcome]
      \/ Frame(s, t, {"cancels", "events"})
  BY <1>1, CancelFields
<1> HIDE DEF t
<1>3. ASSUME ~IsRejection(outcome), s.orders[outcome.id] # outcome
      PROVE  CancelTaken(s, request, outcome) /\ outcome.id = request.order
  <2>1. \/ CancelRefused(s, request, outcome) \/ CancelTaken(s, request, outcome)
        \/ request.order \in DOMAIN s.orders /\ outcome = s.orders[request.order]
    BY <1>1, EvaluateCancelFacts
  <2> HIDE DEF outcome
  <2>2. \A id \in DOMAIN s.orders : s.orders[id].id = id /\ DOMAIN s.orders[id] = OrderFields
    BY <1>1 DEF OrdersKept, OrderKept
  <2>3. CancelTaken(s, request, outcome)
    BY <1>3, <2>1, <2>2 DEF CancelRefused
  <2>4. outcome.id = request.order
    BY <2>2, <2>3 DEF CancelTaken, OrderFields
  <2> QED
    BY <2>3, <2>4
<1> HIDE DEF outcome
<1>4. CASE t = s \/ Frame(s, t, {"cancels", "events"})
  <2>1. t.orders = s.orders
    BY <1>4 DEF Frame, BrokerFields
  <2> QED
    BY <2>1 DEF FilledStay, t
<1>5. CASE /\ ~IsRejection(outcome) /\ s.orders[outcome.id] # outcome
           /\ t.orders = [s.orders EXCEPT ![outcome.id] = outcome]
  <2>1. outcome.id \in DOMAIN s.orders /\ s.orders[outcome.id].status # "filled"
    BY <1>3, <1>5 DEF CancelTaken, TerminalStatuses
  <2> HIDE DEF t
  <2>2. \A id \in DOMAIN s.orders :
            id \in DOMAIN t.orders /\ (id # outcome.id => t.orders[id] = s.orders[id])
    BY <1>5
  <2>3. FilledStay(s, t)
    BY <2>1, <2>2 DEF FilledStay
  <2> QED
    BY <2>3 DEF t
<1> QED
  BY <1>2, <1>4, <1>5

LEMMA CommandsFilled ==
    ASSUME NEW s, LedgerKept(s), NEW env, env.sequence \in Nat, NEW commands,
           Len(commands) \in Nat,
           \A n \in 1 .. Len(commands) :
               CommandTyped(commands[n]) /\ commands[n].sequence = env.sequence
    PROVE  FilledStay(s, StageCommands(s, env, commands))
<1> DEFINE N == Len(commands)
           t == StageCommands(s, env, commands)
           Good(u) == LedgerKept(u) /\ FilledStay(s, u)
<1> SUFFICES Good(t)
  OBVIOUS
<1>1. PICK g : Staging(g, s, env, commands, N) /\ t = g[N]
  BY StagingDone
<1>2. Good(g[0])
  BY <1>1 DEF Staging, FilledStay
<1> DEFINE B == {n \in 0 .. N : ~Good(g[n])}
<1>3. B = {}
  <2> SUFFICES ASSUME B # {} PROVE FALSE
    OBVIOUS
  <2>1. PICK b \in B : \A y \in B : b <= y
    <3>1. B \subseteq Nat
      OBVIOUS
    <3> HIDE DEF B
    <3> QED
      BY <3>1, LeastNumber
  <2>2. b \in 0 .. N /\ ~Good(g[b])
    OBVIOUS
  <2>3. b # 0
    BY <1>2, <2>2
  <2>4. b - 1 \in 0 .. N /\ Good(g[b - 1]) /\ b \in 1 .. N
    BY <2>1, <2>2, <2>3
  <2> HIDE DEF B
  <2>5. g[b] = StageCommand(g[b - 1], env, commands[b])
    BY <1>1, <2>4 DEF Staging
  <2> DEFINE u == g[b - 1]
             v == g[b]
             command == commands[b]
  <2>6. CommandTyped(command) /\ command.sequence = env.sequence /\ LedgerKept(u) /\ FilledStay(s, u)
    BY <2>4
  <2>7. v = StageCommand(u, env, command)
    BY <2>5
  <2> HIDE DEF u, v, command
  <2>8. LedgerKept(v)
    BY <2>6, <2>7, StageCommandLedger
  <2>9. FilledStay(u, v)
    <3>1. FilledStay(u, StageSubmit(u, command, env).state)
      BY <2>6, SubmitFilled
    <3>2. FilledStay(u, StageCancel(u, command, env.session, env.sequence).state)
      BY <2>6, CancelFilled
    <3> QED
      BY <2>7, <3>1, <3>2 DEF StageCommand
  <2>10. FilledStay(s, v)
    BY <2>6, <2>9 DEF FilledStay
  <2> QED
    BY <2>2, <2>8, <2>10 DEF v
<1> HIDE DEF Good
<1> QED
  BY <1>1, <1>3

-----------------------------------------------------------------------------
(* A batch and the theorem *)

LEMMA BatchShared ==
    ASSUME NEW s, BrokerKept(s), NEW env, NEW commands,
           DecisionTyped(env, commands), BatchAccepted(s, env, commands)
    PROVE  LET t == ProcessDecisionBatch(s, env, commands)
           IN  \/ t.fills = s.fills
               \/ /\ SharedOut(s, t, env, QuoteOf(s, env))
                  /\ \A q \in DOMAIN t.envelopes \ DOMAIN s.envelopes : t.envelopes[q] = env
<1> DEFINE a == StageEnvelope(s, env)
           b == StageCommands(a, env, commands)
           t == ProcessDecisionBatch(s, env, commands)
           top == QuoteOf(s, env)
<1>1. LedgerKept(s) /\ BatchState(s) /\ IsState(s) /\ FencesKept(s)
  BY DEF BrokerKept, LedgerKept, BatchState
<1>2. CASE IsDuplicate(s, env)
  <2>1. t = s
    BY <1>2 DEF ProcessDecisionBatch
  <2> HIDE DEF t
  <2>2. t.fills = s.fills
    BY <2>1
  <2> QED
    BY <2>2 DEF t
<1>3. CASE ~IsDuplicate(s, env)
  <2>1. FenceAccepts(s, env) /\ MetadataAccepted(s, env)
    BY <1>3 DEF BatchAccepted
  <2>2. env.sequence \notin DOMAIN s.envelopes
    BY <1>3 DEF IsDuplicate
  <2>3. FreshEnvelope(s, env) /\ PayloadTyped(env) /\ ScalesTyped(s) /\ env.sequence \in Nat
    BY <1>1, <2>2 DEF FreshEnvelope, FencesKept, DecisionTyped
  <2>4. LedgerKept(a)
    BY <1>1, <2>1, <2>3, EnvelopeLedger
  <2>5. a.fills = s.fills \/ SharedOut(s, a, env, top)
    BY <1>1, <2>3, EnvelopeShared DEF QuoteOf
  <2>6. /\ Len(commands) \in Nat
        /\ \A n \in 1 .. Len(commands) :
               CommandTyped(commands[n]) /\ commands[n].sequence = env.sequence
    BY DEF BatchAccepted, DecisionContract, DecisionTyped
  <2>7. t = CommitBatch(s, b, env, commands)
    BY <1>3 DEF ProcessDecisionBatch
  <2> HIDE DEF a, t, top
  <2>8. t.envelopes = Bind(s.envelopes, env.sequence, env)
    BY <1>1, <1>3, BatchKept DEF DecisionTyped, t
  <2>9. LedgerKept(b) /\ Roomy(a, b) /\ FilledStay(a, b)
    BY <2>3, <2>4, <2>6, StageCommandsLedger, CommandsFilled
  <2> HIDE DEF b
  <2>10. Frame(b, t, {"version", "envelopes", "decisions", "dedupe"})
    BY <2>7, <2>9 DEF CommitBatch, LedgerKept, BatchState, IsState, BrokerFields, Frame
  <2>11. t.fills = b.fills /\ t.orders = b.orders
    BY <2>10 DEF Frame, BrokerFields
  <2>12. t.fills = a.fills
    BY <2>9, <2>11 DEF Roomy
  <2>13. \A q \in DOMAIN t.envelopes \ DOMAIN s.envelopes : t.envelopes[q] = env
    <3> DEFINE new == t.envelopes
               old == s.envelopes
               at == env.sequence
    <3>1. new = Bind(old, at, env)
      BY <2>8
    <3> HIDE DEF new, old, at
    <3>2. \A q \in DOMAIN new \ DOMAIN old : new[q] = env
      BY <3>1 DEF Bind
    <3> QED
      BY <3>2 DEF new, old
  <2>14. ASSUME SharedOut(s, a, env, top)
         PROVE  SharedOut(s, t, env, top)
    <3>1. \A side : Sold(s, t, side) = Sold(s, a, side)
      BY <2>12 DEF Sold
    <3>2. /\ DOMAIN a.orders \subseteq DOMAIN t.orders
          /\ \A id \in DOMAIN a.orders : a.orders[id].status = "filled" => t.orders[id].status = "filled"
      BY <2>9, <2>11 DEF FilledStay
    <3>3. DOMAIN s.orders \subseteq DOMAIN a.orders
      BY <2>14 DEF SharedOut
    <3>4. \A x, y \in DOMAIN s.orders :
              /\ Contends(s, x, env, top) /\ s.orders[x].intent.side = s.orders[y].intent.side
              /\ s.ordinals[x] < s.ordinals[y]
              /\ \E k \in (Len(s.fills) + 1) .. Len(t.fills) : t.fills[k].order = y
              => a.orders[x].status = "filled"
      BY <2>12, <2>14 DEF SharedOut
    <3>5. \A side \in {"buy", "sell"} : Sold(s, t, side) > 0 => Sold(s, t, side) <= top.capacity[side]
      BY <2>14, <3>1 DEF SharedOut
    <3>6. \A x, y \in DOMAIN s.orders :
              /\ Contends(s, x, env, top) /\ s.orders[x].intent.side = s.orders[y].intent.side
              /\ s.ordinals[x] < s.ordinals[y]
              /\ \E k \in (Len(s.fills) + 1) .. Len(t.fills) : t.fills[k].order = y
              => t.orders[x].status = "filled"
      BY <3>2, <3>3, <3>4
    <3> QED
      BY <3>2, <3>3, <3>5, <3>6 DEF SharedOut
  <2>15. t.fills = s.fills \/ SharedOut(s, t, env, top)
    BY <2>5, <2>12, <2>14
  <2> QED
    BY <2>13, <2>15 DEF t, top
<1> QED
  BY <1>2, <1>3

LEMMA SharingStep ==
    ASSUME TradingInv, TradingNext
    PROVE  \/ broker'.fills = broker.fills
           \/ \E env : /\ SharedOut(broker, broker', env, QuoteOf(broker, env))
                       /\ \A q \in DOMAIN broker'.envelopes \ DOMAIN broker.envelopes :
                              broker'.envelopes[q] = env
<1>1. BrokerKept(broker)
  BY DEF TradingInv
<1>2. CASE SubmitIntent
  <2>1. PICK i \in Intents : broker' = Submit(broker, i).state
    BY <1>2 DEF SubmitIntent
  <2>2. IntentTyped(i)
    BY InputsAreTyped
  <2> QED
    BY <1>1, <2>1, <2>2, SubmitKept
<1>3. CASE CancelRequest
  <2>1. PICK r \in Requests : CancelAccepted(broker, r) /\ broker' = Cancel(broker, r).state
    BY <1>3 DEF CancelRequest
  <2>2. r.requested \in Int
    BY InputsAreTyped
  <2> QED
    BY <1>1, <2>1, <2>2, CancelKept
<1>4. CASE ProcessBatch
  <2>1. PICK b \in Batches : /\ BatchAccepted(broker, b.envelope, b.commands)
                             /\ broker' = ProcessDecisionBatch(broker, b.envelope, b.commands)
    BY <1>4 DEF ProcessBatch
  <2>2. DecisionTyped(b.envelope, b.commands)
    BY InputsAreTyped
  <2> DEFINE env == b.envelope
             commands == b.commands
             t == ProcessDecisionBatch(broker, env, commands)
  <2>3. \/ t.fills = broker.fills
        \/ /\ SharedOut(broker, t, env, QuoteOf(broker, env))
           /\ \A q \in DOMAIN t.envelopes \ DOMAIN broker.envelopes : t.envelopes[q] = env
    BY <1>1, <2>1, <2>2, BatchShared
  <2>4. broker' = t
    BY <2>1
  <2> HIDE DEF t, env
  <2> QED
    BY <2>3, <2>4
<1> QED
  BY <1>2, <1>3, <1>4 DEF TradingNext

\* What the property calls a contender is one here.
LEMMA ContendersContend ==
    ASSUME BrokerKept(broker), NEW env, NEW top, NEW o \in Contenders(env, top)
    PROVE  /\ o.id \in DOMAIN broker.orders /\ broker.orders[o.id] = o
           /\ Contends(broker, o.id, env, top)
<1>1. PICK id \in OpenOrders(broker) : o = broker.orders[id]
  BY DEF Contenders
<1>2. id \in DOMAIN broker.orders /\ o.id = id
  BY <1>1 DEF OpenOrders, BrokerKept, LedgerKept, OrdersKept, OrderKept
<1>3. /\ o.intent.instrument = env.payload.instrument
      /\ Eligible(broker, o, env)
      /\ Executable(o, top, top.capacity[o.intent.side])
      /\ LedgerAccepts(broker.positions, PositionKey(o.intent), env.time)
  BY DEF Contenders
<1> QED
  BY <1>1, <1>2, <1>3 DEF Contends

\* QuoteSharedInOrder of _stage_matches: whatever was submitted, cancelled or
\* redelivered before, the fills of one quote take no more of a side than it
\* shows, and an order gets nothing while a contender accepted before it waits.
THEOREM QuoteSharedHolds == TradingSpec => QuoteSharedInOrder
<1> DEFINE InOrder ==
        \A q \in DOMAIN broker'.envelopes \ DOMAIN broker.envelopes :
           LET env == broker'.envelopes[q]
               metadata == Get(broker.instruments, <<env.payload.instrument, env.version>>)
               top == QuoteTop(env.payload, metadata)
               TookPart(id) == \E f \in ToSet(NewFills) : f.order = id
           IN  NewFills # << >> =>
                 /\ \A side \in {"buy", "sell"} :
                        LET total == SumOf([n \in DOMAIN NewFills |->
                                IF NewFills[n].side = side THEN NewFills[n].quantity ELSE 0])
                        IN  total > 0 => total <= top.capacity[side]
                 /\ \A a, b \in Contenders(env, top) :
                        /\ a.intent.side = b.intent.side
                        /\ broker.ordinals[a.id] < broker.ordinals[b.id]
                        /\ TookPart(b.id)
                        => broker'.orders[a.id].status = "filled"
<1>1. TradingInv /\ [TradingNext]_tradingVars => [InOrder]_tradingVars
  <2> SUFFICES ASSUME TradingInv, TradingNext
               PROVE  InOrder
    OBVIOUS
  <2>1. BrokerKept(broker) /\ BrokerKept(broker')
    BY TradingStep DEF TradingInv
  <2>2. /\ IsList(broker.fills) /\ IsList(broker'.fills)
        /\ Len(broker.fills) \in Nat /\ Len(broker'.fills) \in Nat
    BY <2>1, ListFacts DEF BrokerKept, LedgerKept, BatchState, IsState
  <2>3. NewFills = Since(broker.fills, broker'.fills)
    BY DEF NewFills, Since
  <2>4. CASE broker'.fills = broker.fills
    <3>1. NewFills = << >>
      <4> DEFINE p == broker.fills
                 A == Len(p)
      <4>1. PICK S : p \in Seq(S)
        BY <2>2 DEF IsList
      <4>2. NewFills = SubSeq(p, A + 1, A) /\ A \in Nat
        BY <2>2, <2>4 DEF NewFills
      <4> HIDE DEF A
      <4> HIDE DEF p
      <4>3. SubSeq(p, A + 1, A) = << >>
        BY <4>1, <4>2
      <4> QED
        BY <4>2, <4>3
    <3> QED
      BY <3>1
  <2>5. CASE broker'.fills # broker.fills
    <3>1. PICK env : /\ SharedOut(broker, broker', env, QuoteOf(broker, env))
                     /\ \A q \in DOMAIN broker'.envelopes \ DOMAIN broker.envelopes :
                            broker'.envelopes[q] = env
      BY <2>5, SharingStep
    <3> DEFINE top == QuoteOf(broker, env)
    <3>2. \A side \in {"buy", "sell"} :
              LET total == SumOf([n \in DOMAIN NewFills |->
                      IF NewFills[n].side = side THEN NewFills[n].quantity ELSE 0])
              IN  total > 0 => total <= top.capacity[side]
      BY <2>3, <3>1 DEF SharedOut, Sold
    <3>3. ASSUME NEW a \in Contenders(env, top), NEW b \in Contenders(env, top),
                 a.intent.side = b.intent.side,
                 broker.ordinals[a.id] < broker.ordinals[b.id],
                 NEW f \in ToSet(NewFills), f.order = b.id
          PROVE  broker'.orders[a.id].status = "filled"
      <4>1. /\ a.id \in DOMAIN broker.orders /\ broker.orders[a.id] = a
            /\ Contends(broker, a.id, env, top)
        BY <2>1, <3>3, ContendersContend
      <4>2. b.id \in DOMAIN broker.orders /\ broker.orders[b.id] = b
        BY <2>1, <3>3, ContendersContend
      <4>3. \E k \in (Len(broker.fills) + 1) .. Len(broker'.fills) : broker'.fills[k].order = b.id
        <5>1. PICK n \in DOMAIN NewFills : f = NewFills[n]
          BY <3>3 DEF ToSet
        <5>2. Len(broker.fills) <= Len(broker'.fills)
          BY <2>1, TradingStep DEF OwnFills
        <5>3. n \in 1 .. (Len(broker'.fills) - Len(broker.fills)) /\ f = broker'.fills[Len(broker.fills) + n]
          <6> DEFINE p == broker.fills
                     r == broker'.fills
          <6>1. IsList(p) /\ IsList(r) /\ Len(p) <= Len(r)
            BY <2>2, <5>2
          <6>2. NewFills = Since(p, r) /\ n \in DOMAIN NewFills /\ f = NewFills[n]
            BY <2>3, <5>1
          <6> HIDE DEF p, r
          <6>3. n \in 1 .. (Len(r) - Len(p)) /\ f = r[Len(p) + n]
            BY <6>1, <6>2, SinceFacts
          <6> QED
            BY <6>3 DEF p, r
        <5>4. Len(broker.fills) + n \in (Len(broker.fills) + 1) .. Len(broker'.fills)
          <6> DEFINE A == Len(broker.fills)
                     B == Len(broker'.fills)
          <6>1. A \in Nat /\ B \in Nat /\ n \in 1 .. (B - A)
            BY <2>2, <5>3
          <6> HIDE DEF A, B
          <6>2. A + n \in (A + 1) .. B
            BY <6>1
          <6> QED
            BY <6>2 DEF A, B
        <5> QED
          BY <3>3, <5>3, <5>4
      <4> HIDE DEF top
      <4> QED
        BY <3>1, <3>3, <4>1, <4>2, <4>3 DEF SharedOut, top
    <3>4. \A q \in DOMAIN broker'.envelopes \ DOMAIN broker.envelopes :
              /\ broker'.envelopes[q] = env
              /\ QuoteTop(env.payload, Get(broker.instruments, <<env.payload.instrument, env.version>>)) = top
      BY <3>1 DEF QuoteOf
    <3> HIDE DEF top
    <3> QED
      BY <3>2, <3>3, <3>4
  <2> QED
    BY <2>4, <2>5
<1> QED
  BY <1>1, TradingInvHolds, PTL DEF TradingSpec, QuoteSharedInOrder

-----------------------------------------------------------------------------
(* What the broker reports *)

\* Two lists of the same elements in the same places are the same list.
LEMMA SameList ==
    ASSUME NEW S, NEW p \in Seq(S), NEW q \in Seq(S), Len(p) = Len(q),
           \A n \in 1 .. Len(p) : p[n] = q[n]
    PROVE  p = q
<1> DEFINE N == Len(p)
<1>1. p \in [1 .. N -> S] /\ q \in [1 .. N -> S]
  OBVIOUS
<1> HIDE DEF N
<1>2. \A n \in 1 .. N : p[n] = q[n]
  BY DEF N
<1>3. p = [n \in 1 .. N |-> p[n]] /\ q = [n \in 1 .. N |-> q[n]]
  BY <1>1, Zenon
<1>4. [n \in 1 .. N |-> p[n]] = [n \in 1 .. N |-> q[n]]
  BY <1>2, Zenon
<1> QED
  BY <1>3, <1>4

\* What was new after the matching is the first part of what is new after the commands.
LEMMA SincePrefix ==
    ASSUME NEW p, IsList(p), NEW q, IsList(q), NEW r, IsList(r), Len(p) <= Len(q), Len(q) <= Len(r),
           \A n \in 1 .. Len(q) : r[n] = q[n]
    PROVE  IsPrefix(Since(p, q), Since(p, r))
<1> DEFINE A == Len(p)
           B == Len(q)
           C == Len(r)
           x == Since(p, q)
           y == Since(p, r)
<1>1. A \in Nat /\ B \in Nat /\ C \in Nat /\ A <= B /\ B <= C
  BY ListFacts
<1>2. /\ Len(x) = B - A /\ \A n \in 1 .. (B - A) : x[n] = q[A + n]
      /\ DOMAIN x = 1 .. (B - A)
  BY SinceFacts
<1>3. Len(p) <= Len(r)
  BY <1>1
<1>4. /\ Len(y) = C - A /\ \A n \in 1 .. (C - A) : y[n] = r[A + n]
      /\ DOMAIN y = 1 .. (C - A)
  BY <1>3, SinceFacts
<1>5. \E S : x \in Seq(S) /\ y \in Seq(S)
  <2>1. PICK S : q \in Seq(S)
    BY DEF IsList
  <2>2. PICK T : r \in Seq(T)
    BY DEF IsList
  <2>3. q \in Seq(S \cup T) /\ r \in Seq(S \cup T)
    BY <2>1, <2>2
  <2>4. x = SubSeq(q, A + 1, B) /\ y = SubSeq(r, A + 1, C)
    BY DEF Since
  <2> HIDE DEF A, B, C, x, y
  <2>5. x \in Seq(S \cup T)
    BY <1>1, <2>3, <2>4 DEF B
  <2>6. y \in Seq(S \cup T)
    BY <1>1, <2>3, <2>4 DEF C
  <2> QED
    BY <2>5, <2>6
<1> HIDE DEF x, y
<1> DEFINE D == B - A
           E == C - A
<1>6. D \in Nat /\ E \in Nat /\ D <= E
  BY <1>1
<1>7. \A n \in 1 .. D : x[n] = y[n]
  <2> SUFFICES ASSUME NEW n \in 1 .. D PROVE x[n] = y[n]
    OBVIOUS
  <2>1. n \in 1 .. E /\ A + n \in 1 .. B
    BY <1>1
  <2> QED
    BY <2>1, <1>2, <1>4
<1>8. Len(x) = D /\ Len(y) = E
  BY <1>2, <1>4
<1> HIDE DEF A, B, C, D, E
<1>9. PICK S : x \in Seq(S) /\ y \in Seq(S)
  BY <1>5
<1> DEFINE u == SubSeq(x, 1, D)
           v == SubSeq(y, 1, D)
<1>10. u \in Seq(S) /\ Len(u) = D /\ \A n \in 1 .. D : u[n] = x[n]
  BY <1>6, <1>8, <1>9
<1>11. v \in Seq(S) /\ Len(v) = D /\ \A n \in 1 .. D : v[n] = y[n]
  BY <1>6, <1>8, <1>9
<1> HIDE DEF u, v
<1>12. u = v
  BY <1>7, <1>10, <1>11, SameList
<1> QED
  BY <1>6, <1>8, <1>12 DEF IsPrefix, u, v, x, y

\* All of what is new is of the envelope's cause.
LEMMA SinceCaused ==
    ASSUME NEW p, IsList(p), NEW q, IsList(q), Len(p) <= Len(q), NEW env,
           \A n \in (Len(p) + 1) .. Len(q) :
               q[n].session = env.session /\ q[n].sequence = env.sequence
    PROVE  \A e \in ToSet(Since(p, q)) : CausedBy(env, e)
<1> DEFINE A == Len(p)
           B == Len(q)
           x == Since(p, q)
<1>1. A \in Nat /\ B \in Nat
  BY ListFacts
<1>2. DOMAIN x = 1 .. (B - A) /\ \A n \in 1 .. (B - A) : x[n] = q[A + n]
  BY SinceFacts
<1>3. \A n \in (A + 1) .. B : CausedBy(env, q[n])
  BY DEF CausedBy
<1> HIDE DEF A, B, x
<1>4. ASSUME NEW n \in 1 .. (B - A)
      PROVE  CausedBy(env, x[n])
  <2>1. A + n \in (A + 1) .. B
    BY <1>1
  <2> QED
    BY <2>1, <1>2, <1>3
<1> QED
  BY <1>2, <1>4 DEF ToSet, x

\* What a batch that is accepted answers.
LEMMA BatchReported ==
    ASSUME NEW s, BrokerKept(s), None \notin Int, NEW env, NEW commands,
           DecisionTyped(env, commands), BatchAccepted(s, env, commands)
    PROVE  BatchResultContract(env, BatchResult(s, env, commands))
<1> DEFINE a == StageEnvelope(s, env)
           b == StageCommands(a, env, commands)
           result == BatchResult(s, env, commands)
<1>1. LedgerKept(s) /\ BatchState(s) /\ IsState(s) /\ FencesKept(s)
  BY DEF BrokerKept, LedgerKept, BatchState
<1>2. CASE IsDuplicate(s, env)
  <2> DEFINE none == << >>
  <2>1. /\ result.match.fills = none /\ result.match.events = none /\ result.events = none
    BY <1>2 DEF BatchResult
  <2>2. ToSet(none) = {}
    BY DEF ToSet
  <2>3. IsPrefix(none, none)
    BY DEF IsPrefix
  <2> HIDE DEF result, none
  <2>4. BatchResultContract(env, result)
    BY <2>1, <2>2, <2>3 DEF BatchResultContract, MatchResultContract
  <2> QED
    BY <2>4 DEF result
<1>3. CASE ~IsDuplicate(s, env)
  <2>1. MetadataAccepted(s, env)
    BY <1>3 DEF BatchAccepted
  <2>2. env.sequence \notin DOMAIN s.envelopes
    BY <1>3 DEF IsDuplicate
  <2>3. FreshEnvelope(s, env) /\ PayloadTyped(env) /\ ScalesTyped(s) /\ Len(commands) \in Nat
    BY <1>1, <2>2 DEF FreshEnvelope, FencesKept, DecisionTyped
  <2>4. LedgerKept(a) /\ OwnFills(s, a, env)
    BY <1>1, <2>1, <2>3, EnvelopeLedger
  <2>5. Carries(s, a, env)
    BY <1>1, StageEnvelopeKept
  <2>6. /\ result.match.fills = Since(s.fills, a.fills)
        /\ result.match.events = Since(s.events, a.events)
        /\ result.events = Since(s.events, b.events)
    BY <1>3 DEF BatchResult
  <2> HIDE DEF a, result
  <2>7. BatchState(b) /\ Causes(a, b, env.session, env.sequence)
    BY <2>3, <2>5, StageCommandsKept, StageCommandsCauses DEF Carries, BatchState
  <2> HIDE DEF b
  <2>8. Carries(s, b, env)
    BY <1>1, <2>5, <2>7, CarriesThen DEF Carries, Causes
  <2>9. /\ IsList(s.events) /\ IsList(a.events) /\ IsList(b.events)
        /\ IsList(s.fills) /\ IsList(a.fills)
    BY <1>1, <2>5, <2>7 DEF Carries, BatchState, IsState
  <2>10. \A f \in ToSet(Since(s.fills, a.fills)) : CausedBy(env, f)
    BY <2>4, <2>9, SinceCaused DEF OwnFills, OwnFill
  <2>11. \A e \in ToSet(Since(s.events, a.events)) : CausedBy(env, e)
    BY <2>5, <2>9, SinceCaused DEF Carries, EventsCaused
  <2>12. \A e \in ToSet(Since(s.events, b.events)) : CausedBy(env, e)
    BY <2>8, <2>9, SinceCaused DEF Carries, EventsCaused
  <2>13. IsPrefix(Since(s.events, a.events), Since(s.events, b.events))
    BY <2>5, <2>7, <2>9, SincePrefix DEF Carries, Causes, EventsCaused
  <2>14. BatchResultContract(env, result)
    BY <2>6, <2>10, <2>11, <2>12, <2>13 DEF BatchResultContract, MatchResultContract
  <2> QED
    BY <2>14 DEF result
<1> QED
  BY <1>2, <1>3

\* JournalExplainsState: whatever was called before, and with whatever result, the
\* journal tells the whole life of every order and of every position, legal from
\* one event to the next, and what the broker answers next meets its contract.
THEOREM JournalExplainsHolds == TradingSpec => []JournalExplainsState
<1>1. TradingInv => JournalExplainsState
  <2> SUFFICES ASSUME TradingInv PROVE JournalExplainsState
    OBVIOUS
  <2> DEFINE s == broker
  <2>1. BrokerKept(s) /\ LedgerKept(s) /\ Explained(s) /\ JournalKept(s) /\ FencesKept(s) /\ IsState(s)
    BY DEF TradingInv, BrokerKept, LedgerKept, BatchState
  <2>2. \A id \in DOMAIN broker.orders : OrderExplained(broker, id)
    BY <2>1 DEF Explained, OrdersExplained
  <2>3. \A key \in DOMAIN broker.positions : PositionExplained(broker, key)
    BY <2>1 DEF Explained, PositionsExplained
  <2>4. \A f \in ToSet(broker.fills) : PaperFillContract(f)
    <3>1. DOMAIN broker.fills = 1 .. Len(broker.fills)
      BY <2>1, ListFacts DEF IsState
    <3> QED
      BY <3>1, <2>1 DEF ToSet, Explained, FillsSound, FillSound
  <2>5. SnapshotContract(broker)
    BY <2>1 DEF SnapshotContract, FencesKept, SessionsAgree, JournalKept, PositionTold
  <2>6. ASSUME NEW b \in Batches, BatchAccepted(broker, b.envelope, b.commands)
        PROVE  BatchResultContract(b.envelope, BatchResult(broker, b.envelope, b.commands))
    <3>1. DecisionTyped(b.envelope, b.commands) /\ None \notin Int
      BY InputsAreTyped, NoneIsNoNumber
    <3> QED
      BY <3>1, <2>1, <2>6, BatchReported
  <2> QED
    BY <2>2, <2>3, <2>4, <2>5, <2>6 DEF JournalExplainsState, OrderExplained, PositionExplained
<1> QED
  BY <1>1, TradingInvHolds, PTL

\* PositionExplainedByFills: a position is what its fills make of it, and an order
\* pays the fee of its filled quantity however its fills were cut.
THEOREM PositionExplainedHolds == TradingSpec => []PositionExplainedByFills
<1>1. TradingInv => PositionExplainedByFills
  <2> SUFFICES ASSUME TradingInv PROVE PositionExplainedByFills
    OBVIOUS
  <2>1. Explained(broker)
    BY DEF TradingInv, BrokerKept, LedgerKept
  <2>2. \A key \in DOMAIN broker.positions : NetExplained(broker, key)
    BY <2>1 DEF Explained, PositionsExplained
  <2>3. \A id \in DOMAIN broker.orders : FeesExplained(broker, id)
    BY <2>1 DEF Explained, OrdersExplained
  <2> QED
    BY <2>2, <2>3 DEF PositionExplainedByFills, NetExplained, FeesExplained, NetOf, FeesOf, Own,
                      OwnPrices, OrderFees, Between, SideOf
<1> QED
  BY <1>1, TradingInvHolds, PTL

-----------------------------------------------------------------------------
(* The commands of a decision *)

LEMMA DecidingExists ==
    ASSUME NEW c, NEW registrations, NEW env, NEW N \in Nat
    PROVE  \E g : Deciding(g, c, registrations, env, N)
<1> DEFINE B == {n \in Nat : ~\E g : Deciding(g, c, registrations, env, n)}
<1> SUFFICES ASSUME B # {} PROVE FALSE
  OBVIOUS
<1>1. PICK b \in B : \A y \in B : b <= y
  <2>1. B \subseteq Nat
    OBVIOUS
  <2> HIDE DEF B
  <2> QED
    BY <2>1, LeastNumber
<1>2. b \in Nat /\ ~\E g : Deciding(g, c, registrations, env, b)
  OBVIOUS
<1>3. CASE b = 0
  <2>1. Deciding([n \in 0 .. 0 |-> << >>], c, registrations, env, 0)
    BY DEF Deciding
  <2> QED
    BY <1>2, <1>3, <2>1
<1>4. CASE b # 0
  <2>1. b - 1 \in Nat /\ b - 1 \notin B
    BY <1>1, <1>2, <1>4
  <2>2. PICK g : Deciding(g, c, registrations, env, b - 1)
    BY <2>1
  <2> DEFINE h == [n \in 0 .. b |-> IF n = b THEN Decided(g[b - 1], c, registrations, env, b) ELSE g[n]]
  <2>5. Deciding(h, c, registrations, env, b)
    BY <1>2, <1>4, <2>2 DEF Deciding
  <2> QED
    BY <1>2, <2>5
<1> QED
  BY <1>3, <1>4

LEMMA DecideIsList ==
    ASSUME NEW template, NEW orders, NEW env
    PROVE  IsList(Decide(template, orders, env))
<1>1. \A e : IsList(<<e>>)
  <2> TAKE e
  <2>1. <<e>> \in Seq({e})
    OBVIOUS
  <2> QED
    BY <2>1 DEF IsList
<1> QED
  BY <1>1, EmptyList DEF Decide

LEMMA DecisionBuilt ==
    ASSUME NEW c, NEW registrations, Len(registrations) \in Nat, NEW env
    PROVE  \E g : /\ Deciding(g, c, registrations, env, Len(registrations))
                  /\ Decision(c, registrations, env) = g[Len(registrations)]
<1> DEFINE N == Len(registrations)
           Is(g) == g = [n \in 0 .. N |-> IF n = 0 THEN << >>
                                          ELSE Decided(g[n - 1], c, registrations, env, n)]
<1>1. PICK g : Deciding(g, c, registrations, env, N)
  BY DecidingExists
<1>2. \E h : Is(h)
  <2> DEFINE h == [n \in 0 .. N |-> g[n]]
  <2>1. \A n \in 0 .. N : h[n] = IF n = 0 THEN << >> ELSE Decided(h[n - 1], c, registrations, env, n)
    BY <1>1 DEF Deciding
  <2>2. Is(h)
    BY <2>1
  <2> QED
    BY <2>2
<1> DEFINE f == CHOOSE h : Is(h)
<1>3. Is(f)
  <2> HIDE DEF Is
  <2> QED
    BY <1>2
<1>4. Decision(c, registrations, env) = f[N]
  BY DEF Decision, Decided
<1> HIDE DEF f
<1>5. Deciding(f, c, registrations, env, N)
  BY <1>3 DEF Deciding
<1> QED
  BY <1>4, <1>5

LEMMA DecisionIsList ==
    ASSUME NEW c, NEW registrations, Len(registrations) \in Nat, NEW env
    PROVE  IsList(Decision(c, registrations, env))
<1> DEFINE N == Len(registrations)
<1>1. PICK f : Deciding(f, c, registrations, env, N) /\ Decision(c, registrations, env) = f[N]
  BY DecisionBuilt
<1>2. f[0] = << >> /\ \A n \in 1 .. N : f[n] = Decided(f[n - 1], c, registrations, env, n)
  BY <1>1 DEF Deciding
<1> DEFINE B == {n \in 0 .. N : ~IsList(f[n])}
<1> SUFFICES ASSUME B # {} PROVE FALSE
  BY <1>1
<1>3. PICK b \in B : \A y \in B : b <= y
  <2>1. B \subseteq Nat
    OBVIOUS
  <2> HIDE DEF B
  <2> QED
    BY <2>1, LeastNumber
<1>4. b \in 0 .. N /\ ~IsList(f[b]) /\ b # 0
  BY <1>2, EmptyList
<1>5. b - 1 \in 0 .. N /\ IsList(f[b - 1])
  BY <1>3, <1>4
<1>6. f[b] = Decided(f[b - 1], c, registrations, env, b)
  BY <1>2, <1>4
<1>7. IsList(Decided(f[b - 1], c, registrations, env, b))
  BY <1>5, DecideIsList, ConcatFacts DEF Decided, OwnDecision
<1> QED
  BY <1>4, <1>6, <1>7

-----------------------------------------------------------------------------
(* Decisions are typed, and an accepted one leaves a sound coordinator *)

LEMMA DecideTyped ==
    ASSUME NEW template, TemplateTyped(template), NEW orders, NEW env,
           env.sequence \in Nat, env.time \in Int
    PROVE  TypedCommands(Decide(template, orders, env))
<1>1. CASE Decide(template, orders, env) = << >>
  BY <1>1, EmptyList DEF TypedCommands
<1>2. CASE Decide(template, orders, env) # << >>
  <2> DEFINE command == [kind |-> "order", strategy |-> template.strategy,
                         client |-> template.client, account |-> template.account,
                         instrument |-> template.instrument, side |-> template.side,
                         quantity |-> template.quantity, limit |-> template.limit,
                         created |-> env.time, session |-> env.session,
                         sequence |-> env.sequence]
  <2>1. template # None /\ Decide(template, orders, env) = <<command>>
    BY <1>2 DEF Decide
  <2>2. template.side \in {"buy", "sell"} /\ template.quantity \in Nat \ {0}
    BY <2>1 DEF TemplateTyped
  <2>3. /\ command.kind = "order" /\ command.side = template.side
        /\ command.quantity = template.quantity /\ command.created = env.time
        /\ command.sequence = env.sequence
    OBVIOUS
  <2> HIDE DEF command
  <2>4. CommandTyped(command)
    BY <2>2, <2>3 DEF CommandTyped, IntentTyped
  <2>5. <<command>> \in Seq({command}) /\ Len(<<command>>) = 1 /\ <<command>>[1] = command
    OBVIOUS
  <2>6. \A n \in 1 .. Len(<<command>>) : <<command>>[n] = command
    BY <2>5
  <2> QED
    BY <2>1, <2>4, <2>5, <2>6 DEF TypedCommands, IsList
<1> QED
  BY <1>1, <1>2

LEMMA DecidedTyped ==
    ASSUME NEW q, TypedCommands(q), NEW c, NEW registrations, NEW n,
           TemplateTyped(registrations[n].template), NEW env,
           env.sequence \in Nat, env.time \in Int
    PROVE  TypedCommands(Decided(q, c, registrations, env, n))
<1> DEFINE r == OwnDecision(c, registrations[n], env)
<1>1. TypedCommands(r)
  BY DecideTyped DEF OwnDecision
<1>2. Decided(q, c, registrations, env, n) = q \o r
  BY DEF Decided
<1> HIDE DEF r
<1>3. /\ IsList(q \o r) /\ Len(q \o r) = Len(q) + Len(r) /\ Len(q) \in Nat /\ Len(r) \in Nat
      /\ \A k \in 1 .. Len(q) : (q \o r)[k] = q[k]
      /\ \A k \in 1 .. Len(r) : (q \o r)[Len(q) + k] = r[k]
  BY <1>1, ConcatFacts, ListFacts DEF TypedCommands
<1>4. ASSUME NEW k \in 1 .. Len(q \o r)
      PROVE  CommandTyped((q \o r)[k])
  <2>1. CASE k <= Len(q)
    <3>1. k \in 1 .. Len(q)
      BY <2>1, <1>3
    <3> QED
      BY <3>1, <1>3 DEF TypedCommands
  <2>2. CASE ~(k <= Len(q))
    <3>1. k - Len(q) \in 1 .. Len(r) /\ Len(q) + (k - Len(q)) = k
      BY <2>2, <1>3
    <3>2. (q \o r)[Len(q) + (k - Len(q))] = r[k - Len(q)]
      BY <3>1, <1>3
    <3> QED
      BY <3>1, <3>2, <1>1 DEF TypedCommands
  <2> QED
    BY <2>1, <2>2
<1> QED
  BY <1>2, <1>3, <1>4 DEF TypedCommands

LEMMA DecisionIsTyped ==
    ASSUME NEW c, NEW registrations, Len(registrations) \in Nat,
           \A n \in 1 .. Len(registrations) : TemplateTyped(registrations[n].template),
           NEW env, env.sequence \in Nat, env.time \in Int
    PROVE  TypedCommands(Decision(c, registrations, env))
<1> DEFINE N == Len(registrations)
<1>1. PICK g : Deciding(g, c, registrations, env, N) /\ Decision(c, registrations, env) = g[N]
  BY DecisionBuilt
<1> DEFINE B == {n \in 0 .. N : ~TypedCommands(g[n])}
<1> SUFFICES ASSUME B # {} PROVE FALSE
  BY <1>1
<1>2. PICK b \in B : \A y \in B : b <= y
  <2>1. B \subseteq Nat
    OBVIOUS
  <2> HIDE DEF B
  <2> QED
    BY <2>1, LeastNumber
<1>3. TypedCommands(<< >>)
  BY EmptyList DEF TypedCommands
<1>4. b \in 0 .. N /\ ~TypedCommands(g[b]) /\ b # 0
  BY <1>1, <1>3 DEF Deciding
<1>5. b - 1 \in 0 .. N /\ b \in 1 .. N /\ TypedCommands(g[b - 1])
  BY <1>2, <1>4
<1>6. g[b] = Decided(g[b - 1], c, registrations, env, b)
  BY <1>1, <1>5 DEF Deciding
<1>7. TypedCommands(Decided(g[b - 1], c, registrations, env, b))
  BY <1>5, DecidedTyped
<1> QED
  BY <1>4, <1>6, <1>7

-----------------------------------------------------------------------------
(* The recorded session *)

LEMMA SourceFacts ==
    /\ EventCount \in Nat \ {0} /\ DOMAIN Source = 1 .. EventCount
    /\ \A n \in 1 .. EventCount : Source[n].sequence \in Nat /\ Source[n].session = Session
    /\ FirstSequence \in Nat /\ LastSequence \in Nat
<1>1. Source \in Seq(Range(Source)) /\ Source # << >>
  BY InputTypes, SourceScanned DEF ScannedSource
<1>2. EventCount \in Nat \ {0} /\ DOMAIN Source = 1 .. EventCount
  BY <1>1 DEF EventCount
<1>3. \A n \in 1 .. EventCount : Source[n].sequence \in Nat /\ Source[n].session = Session
  BY <1>2, InputTypes, SourceScanned DEF ScannedSource, Session, DecisionTyped
<1>4. 1 \in 1 .. EventCount /\ EventCount \in 1 .. EventCount
  BY <1>2
<1> QED
  BY <1>2, <1>3, <1>4 DEF FirstSequence, LastSequence

\* Ingest sequences increase along the source.
LEMMA SourceOrder ==
    \A n, k \in 1 .. EventCount : n < k => Source[n].sequence < Source[k].sequence
<1> SUFFICES ASSUME NEW n \in 1 .. EventCount
             PROVE  \A k \in 1 .. EventCount : n < k => Source[n].sequence < Source[k].sequence
  OBVIOUS
<1> DEFINE B == {k \in 1 .. EventCount : n < k /\ ~(Source[n].sequence < Source[k].sequence)}
<1> SUFFICES ASSUME B # {} PROVE FALSE
  OBVIOUS
<1>1. PICK b \in B : \A y \in B : b <= y
  <2>1. B \subseteq Nat
    BY SourceFacts
  <2> HIDE DEF B
  <2> QED
    BY <2>1, LeastNumber
<1>2. b \in 1 .. EventCount /\ n < b /\ ~(Source[n].sequence < Source[b].sequence)
  OBVIOUS
<1>3. b \in 2 .. EventCount /\ b - 1 \in 1 .. EventCount
  BY <1>2, SourceFacts
<1>4. Source[b].sequence > Source[b - 1].sequence
  BY <1>3, SourceScanned DEF ScannedSource, EventCount
<1>5. n = b - 1 \/ Source[n].sequence < Source[b - 1].sequence
  BY <1>1, <1>2, <1>3
<1>6. Source[n].sequence \in Nat /\ Source[b].sequence \in Nat /\ Source[b - 1].sequence \in Nat
  BY <1>2, <1>3, SourceFacts
<1> QED
  BY <1>2, <1>4, <1>5, <1>6

LEMMA SameSequence ==
    \A n, k \in 1 .. EventCount : Source[n].sequence = Source[k].sequence => n = k
  BY SourceFacts, SourceOrder

LEMMA OrdinalOf == \A n \in 1 .. EventCount : Ordinal(Source[n]) = n - 1
<1> SUFFICES ASSUME NEW n \in 1 .. EventCount PROVE Ordinal(Source[n]) = n - 1
  OBVIOUS
<1>1. \A k \in DOMAIN Source : Source[k] = Source[n] => k = n
  BY SameSequence, SourceFacts
<1>2. n \in DOMAIN Source
  BY SourceFacts
<1>3. (CHOOSE k \in DOMAIN Source : Source[k] = Source[n]) = n
  BY <1>1, <1>2
<1> QED
  BY <1>3 DEF Ordinal

-----------------------------------------------------------------------------
(* The coordinator after the first k envelopes *)

LEMMA InitialKept == CoordinatorKept(InitialCoordinator(Session), 0)
<1> DEFINE s == InitialState(Session)
           c == InitialCoordinator(Session)
<1>1. /\ DOMAIN s = BrokerFields /\ s.events = << >> /\ s.fills = << >>
      /\ s.nextOrdinal = 1 /\ s.version = 0 /\ s.last = None
      /\ DOMAIN s.ordinals = {} /\ DOMAIN s.orders = {} /\ DOMAIN s.eligible = {}
      /\ DOMAIN s.submits = {} /\ DOMAIN s.envelopes = {}
  BY EmptyList DEF InitialState, BrokerFields, Empty
<1>2. DOMAIN c = {"broker", "records"} /\ c.broker = s /\ DOMAIN c.records = {}
  BY EmptyList DEF InitialCoordinator, Empty
<1> HIDE DEF s, c
<1>3. IsState(s)
  BY <1>1, EmptyList DEF IsState
<1>4. QueueKept(s)
  BY <1>1 DEF QueueKept
<1>5. Len(s.events) = 0
  BY <1>1
<1>6. CoordinatorKept(c, 0)
  BY <1>1, <1>2, <1>3, <1>4, <1>5 DEF CoordinatorKept, BatchState
<1> QED
  BY <1>6 DEF c

LEMMA PublishKept ==
    ASSUME NEW settings, Len(settings) \in Nat, NEW k \in 0 .. (EventCount - 1), NEW c,
           CoordinatorKept(c, k)
    PROVE  LET d == Publish(c, settings, Source[k + 1])
           IN  CoordinatorKept(d, k + 1) /\ Extends(c, d, Source[k + 1])
<1> DEFINE env == Source[k + 1]
           commands == CommandsFor(c, settings, env)
           s == ProcessDecisionBatch(c.broker, env, commands)
           record == [envelope |-> env, commands |-> commands, result |-> NewEvents(c.broker, s)]
           d == Publish(c, settings, env)
<1>1. k + 1 \in 1 .. EventCount /\ k \in Nat /\ \A n \in 1 .. k : n \in 1 .. EventCount /\ n # k + 1
  BY SourceFacts
<1>2. env.session = Session /\ env.sequence \in Nat
  BY <1>1, SourceFacts
<1>3. \A n \in 1 .. k : env.sequence # Source[n].sequence
  BY <1>1, SameSequence
<1>4. env.sequence \notin DOMAIN c.records /\ env.sequence \notin DOMAIN c.broker.envelopes
  BY <1>3 DEF CoordinatorKept
<1>5. d = [broker |-> s, records |-> Bind(c.records, env.sequence, record)]
  BY <1>4 DEF Publish
<1>6. IsList(commands)
  BY <1>4, DecisionIsList DEF CommandsFor
<1>7. Len(commands) \in Nat
  BY <1>6, ListFacts
<1>8. BatchState(c.broker) /\ ~IsDuplicate(c.broker, env)
  BY <1>4 DEF CoordinatorKept, IsDuplicate
<1> DEFINE b == c.broker
<1> HIDE DEF commands, b
<1>9. /\ Carries(b, s, env)
      /\ s.bound = env.session /\ s.last = env.sequence
      /\ s.envelopes = Bind(b.envelopes, env.sequence, env)
  <2>1. BatchState(b) /\ ~IsDuplicate(b, env)
    BY <1>8 DEF b
  <2> HIDE DEF env
  <2>2. s = ProcessDecisionBatch(b, env, commands)
    BY DEF b
  <2> QED
    BY <2>1, <2>2, <1>7, BatchKept
<1> HIDE DEF s
<1>10. record.envelope = env
  OBVIOUS
<1> HIDE DEF record
<1>11. d.broker = s /\ DOMAIN d = {"broker", "records"} /\ d.records = Bind(c.records, env.sequence, record)
  BY <1>5
<1> HIDE DEF d, env
<1>12. /\ \A q : q \in DOMAIN d.records <=> q \in DOMAIN c.records \/ q = env.sequence
       /\ d.records[env.sequence] = record
       /\ \A q \in DOMAIN c.records : q # env.sequence => d.records[q] = c.records[q]
  BY <1>11, BindDomain, BindValues
<1>13. \A q : q \in DOMAIN s.envelopes <=> q \in DOMAIN b.envelopes \/ q = env.sequence
  BY <1>9, BindDomain
<1>14. /\ \A q : q \in DOMAIN b.envelopes <=> \E n \in 1 .. k : q = Source[n].sequence
       /\ \A q : q \in DOMAIN c.records <=> \E n \in 1 .. k : q = Source[n].sequence
       /\ \A n \in 1 .. k : c.records[Source[n].sequence].envelope = Source[n]
       /\ \A n \in 1 .. Len(b.events) :
              b.events[n].sequence \in DOMAIN c.records /\ b.events[n].session = Session
  BY DEF CoordinatorKept, b
<1>15. \A n : n \in 1 .. (k + 1) <=> n \in 1 .. k \/ n = k + 1
  BY <1>1
<1>16. env = Source[k + 1]
  BY DEF env
<1>17. /\ \A q : q \in DOMAIN d.broker.envelopes <=> \E n \in 1 .. (k + 1) : q = Source[n].sequence
       /\ \A q : q \in DOMAIN d.records <=> \E n \in 1 .. (k + 1) : q = Source[n].sequence
  BY <1>11, <1>12, <1>13, <1>14, <1>15, <1>16
<1>18. \A n \in 1 .. (k + 1) : d.records[Source[n].sequence].envelope = Source[n]
  BY <1>3, <1>10, <1>12, <1>14, <1>15, <1>16
<1>19. EventsCaused(b, s, env.session, env.sequence) /\ BatchState(s)
  BY <1>9 DEF Carries
<1>20. \A q \in DOMAIN c.records : q \in DOMAIN d.records /\ d.records[q] = c.records[q]
  BY <1>4, <1>12
<1>21. Len(b.events) \in Nat /\ Len(s.events) \in Nat
  BY <1>8, <1>19, ListFacts DEF BatchState, IsState, b
<1>22. ASSUME NEW n \in 1 .. Len(s.events)
       PROVE  s.events[n].sequence \in DOMAIN d.records /\ s.events[n].session = Session
  <2>1. CASE n \in 1 .. Len(b.events)
    BY <2>1, <1>14, <1>19, <1>20 DEF EventsCaused
  <2>2. CASE n \in (Len(b.events) + 1) .. Len(s.events)
    BY <2>2, <1>2, <1>12, <1>19 DEF EventsCaused
  <2> QED
    BY <2>1, <2>2, <1>21
<1>23. CoordinatorKept(d, k + 1)
  BY <1>1, <1>2, <1>9, <1>11, <1>16, <1>17, <1>18, <1>19, <1>22 DEF CoordinatorKept
<1>24. Extends(c, d, env)
  BY <1>11, <1>19, <1>20 DEF Extends, b
<1> QED
  BY <1>23, <1>24 DEF d, env

-----------------------------------------------------------------------------
(* The uninterrupted run *)

LEMMA RunningExists ==
    ASSUME NEW settings, NEW N \in Nat
    PROVE  \E g : RunningTo(g, settings, N)
<1> DEFINE B == {n \in Nat : ~\E g : RunningTo(g, settings, n)}
<1> SUFFICES ASSUME B # {} PROVE FALSE
  OBVIOUS
<1>1. PICK b \in B : \A y \in B : b <= y
  <2>1. B \subseteq Nat
    OBVIOUS
  <2> HIDE DEF B
  <2> QED
    BY <2>1, LeastNumber
<1>2. b \in Nat /\ ~\E g : RunningTo(g, settings, b)
  OBVIOUS
<1> DEFINE first == InitialCoordinator(Session)
<1>3. CASE b = 0
  <2>1. RunningTo([n \in 0 .. 0 |-> first], settings, 0)
    BY DEF RunningTo
  <2> QED
    BY <1>2, <1>3, <2>1
<1>4. CASE b # 0
  <2>1. b - 1 \in Nat /\ b - 1 \notin B
    BY <1>1, <1>2, <1>4
  <2>2. PICK g : RunningTo(g, settings, b - 1)
    BY <2>1
  <2> DEFINE h == [n \in 0 .. b |-> IF n = b THEN Publish(g[b - 1], settings, Source[b]) ELSE g[n]]
  <2>3. RunningTo(h, settings, b)
    BY <1>2, <1>4, <2>2 DEF RunningTo
  <2> QED
    BY <1>2, <2>3
<1> QED
  BY <1>3, <1>4

LEMMA UninterruptedRuns ==
    ASSUME NEW settings
    PROVE  \E g : /\ RunningTo(g, settings, EventCount)
                  /\ \A n \in 0 .. EventCount : Uninterrupted(settings, n) = g[n]
<1> DEFINE first == InitialCoordinator(Session)
           Is(g) == g = [n \in 0 .. EventCount |-> IF n = 0 THEN first
                                                   ELSE Publish(g[n - 1], settings, Source[n])]
<1>0. EventCount \in Nat
  BY SourceFacts
<1>1. PICK g : RunningTo(g, settings, EventCount)
  BY <1>0, RunningExists
<1>2. \E h : Is(h)
  <2> DEFINE h == [n \in 0 .. EventCount |-> g[n]]
  <2>1. \A n \in 0 .. EventCount : h[n] = IF n = 0 THEN first ELSE Publish(h[n - 1], settings, Source[n])
    BY <1>0, <1>1 DEF RunningTo
  <2>2. Is(h)
    BY <2>1
  <2> QED
    BY <2>2
<1> DEFINE f == CHOOSE h : Is(h)
<1>3. Is(f)
  <2> HIDE DEF Is
  <2> QED
    BY <1>2
<1>4. \A n \in 0 .. EventCount : Uninterrupted(settings, n) = f[n]
  BY DEF Uninterrupted
<1> HIDE DEF f
<1>5. RunningTo(f, settings, EventCount)
  BY <1>0, <1>3 DEF RunningTo
<1> QED
  BY <1>4, <1>5

LEMMA UninterruptedStep ==
    ASSUME NEW settings
    PROVE  /\ Uninterrupted(settings, 0) = InitialCoordinator(Session)
           /\ \A k \in 0 .. (EventCount - 1) :
                  Uninterrupted(settings, k + 1)
                    = Publish(Uninterrupted(settings, k), settings, Source[k + 1])
<1>1. PICK g : /\ RunningTo(g, settings, EventCount)
               /\ \A n \in 0 .. EventCount : Uninterrupted(settings, n) = g[n]
  BY UninterruptedRuns
<1>2. EventCount \in Nat \ {0}
  BY SourceFacts
<1>3. Uninterrupted(settings, 0) = InitialCoordinator(Session)
  BY <1>1, <1>2 DEF RunningTo
<1>4. ASSUME NEW k \in 0 .. (EventCount - 1)
      PROVE  Uninterrupted(settings, k + 1)
                    = Publish(Uninterrupted(settings, k), settings, Source[k + 1])
  <2>1. k + 1 \in 1 .. EventCount /\ k \in 0 .. EventCount /\ k + 1 - 1 = k
    BY <1>2
  <2> QED
    BY <1>1, <2>1 DEF RunningTo
<1> QED
  BY <1>3, <1>4

LEMMA SettingsAreList == \A settings \in Settings : Len(settings) \in Nat
  BY InputTypes

LEMMA UninterruptedKept ==
    ASSUME NEW settings \in Settings
    PROVE  \A k \in 0 .. EventCount : CoordinatorKept(Uninterrupted(settings, k), k)
<1> DEFINE B == {k \in 0 .. EventCount : ~CoordinatorKept(Uninterrupted(settings, k), k)}
<1> SUFFICES ASSUME B # {} PROVE FALSE
  OBVIOUS
<1>1. PICK b \in B : \A y \in B : b <= y
  <2>1. B \subseteq Nat
    OBVIOUS
  <2> HIDE DEF B
  <2> QED
    BY <2>1, LeastNumber
<1>2. b \in 0 .. EventCount /\ ~CoordinatorKept(Uninterrupted(settings, b), b)
  OBVIOUS
<1>3. b # 0
  BY <1>2, UninterruptedStep, InitialKept
<1>4. b - 1 \in 0 .. (EventCount - 1) /\ b - 1 + 1 = b /\ b - 1 \notin B
  BY <1>1, <1>2, <1>3, SourceFacts
<1>5. CoordinatorKept(Uninterrupted(settings, b - 1), b - 1)
  BY <1>4, SourceFacts
<1>6. CoordinatorKept(Publish(Uninterrupted(settings, b - 1), settings, Source[b - 1 + 1]), b - 1 + 1)
  BY <1>4, <1>5, SettingsAreList, PublishKept
<1> QED
  BY <1>2, <1>4, <1>6, UninterruptedStep

LEMMA UninterruptedExtends ==
    ASSUME NEW settings \in Settings, NEW k \in 0 .. (EventCount - 1)
    PROVE  Extends(Uninterrupted(settings, k), Uninterrupted(settings, k + 1), Source[k + 1])
<1>1. k \in 0 .. EventCount
  BY SourceFacts
<1>2. CoordinatorKept(Uninterrupted(settings, k), k)
  BY <1>1, UninterruptedKept
<1> QED
  BY <1>2, SettingsAreList, PublishKept, UninterruptedStep

-----------------------------------------------------------------------------
(* Output records *)

\* A record of the output never changes again.
LEMMA PaperRecordKept ==
    ASSUME NEW settings \in Settings, NEW k \in 0 .. (EventCount - 1),
           NEW n \in 1 .. Len(Events(settings, k))
    PROVE  PaperRecord(Uninterrupted(settings, k + 1), n) = PaperRecord(Uninterrupted(settings, k), n)
<1> DEFINE c == Uninterrupted(settings, k)
           d == Uninterrupted(settings, k + 1)
<1>1. k \in 0 .. EventCount
  BY SourceFacts
<1>2. CoordinatorKept(c, k) /\ Extends(c, d, Source[k + 1])
  BY <1>1, UninterruptedKept, UninterruptedExtends
<1> HIDE DEF c, d
<1>3. n \in 1 .. Len(c.broker.events)
  BY DEF Events, c
<1>4. c.broker.events[n].sequence \in DOMAIN c.records
  BY <1>2, <1>3 DEF CoordinatorKept
<1>5. d.broker.events[n] = c.broker.events[n]
  BY <1>2, <1>3 DEF Extends, EventsCaused
<1>6. /\ c.broker.events[n].sequence \in DOMAIN d.records
      /\ d.records[c.broker.events[n].sequence] = c.records[c.broker.events[n].sequence]
  BY <1>2, <1>4 DEF Extends
<1> QED
  BY <1>4, <1>5, <1>6 DEF PaperRecord, c, d

LEMMA EventCountFacts ==
    ASSUME NEW settings \in Settings, NEW k \in 0 .. EventCount
    PROVE  /\ Len(Events(settings, k)) \in Nat
           /\ DOMAIN Events(settings, k) = 1 .. Len(Events(settings, k))
           /\ k < EventCount => Len(Events(settings, k)) <= Len(Events(settings, k + 1))
<1>1. CoordinatorKept(Uninterrupted(settings, k), k)
  BY UninterruptedKept
<1>2. IsList(Events(settings, k))
  BY <1>1 DEF CoordinatorKept, BatchState, IsState, Events
<1>3. k < EventCount => Extends(Uninterrupted(settings, k), Uninterrupted(settings, k + 1), Source[k + 1])
  BY UninterruptedExtends, SourceFacts
<1> QED
  BY <1>2, <1>3, ListFacts DEF Events, Extends, EventsCaused

LEMMA MarketContract ==
    \A n \in 1 .. EventCount : OutboxRecordContract(MarketRecord(Source[n]))
  BY SourceFacts, NoneIsNoNumber DEF OutboxRecordContract, MarketRecord

LEMMA SummaryContract == \A c : OutboxRecordContract(SummaryRecord(c))
<1> TAKE c
<1>1. SummaryRecord(c).type = "summary" /\ SummaryRecord(c).source = None /\ SummaryRecord(c).paper = None
  BY DEF SummaryRecord
<1> QED
  BY <1>1 DEF OutboxRecordContract

LEMMA PaperContract ==
    ASSUME NEW settings \in Settings, NEW k \in 0 .. EventCount, NEW n \in 1 .. Len(Events(settings, k))
    PROVE  OutboxRecordContract(PaperRecord(Uninterrupted(settings, k), n))
<1> DEFINE c == Uninterrupted(settings, k)
<1>1. CoordinatorKept(c, k)
  BY UninterruptedKept
<1> HIDE DEF c
<1>2. n \in 1 .. Len(c.broker.events)
  BY DEF Events, c
<1>3. c.broker.events[n].sequence \in DOMAIN c.records
  BY <1>1, <1>2 DEF CoordinatorKept
<1>4. PICK j \in 1 .. k : c.broker.events[n].sequence = Source[j].sequence
  BY <1>1, <1>3 DEF CoordinatorKept
<1>5. c.broker.events[n].sequence # None
  BY <1>4, SourceFacts, NoneIsNoNumber
<1>6. /\ PaperRecord(c, n).type = "paper" /\ PaperRecord(c, n).paper = n
      /\ PaperRecord(c, n).source = c.broker.events[n].sequence
  BY DEF PaperRecord
<1>7. n # None
  BY <1>1, <1>2, ListFacts, NoneIsNoNumber DEF CoordinatorKept, BatchState, IsState
<1> QED
  BY <1>5, <1>6, <1>7 DEF OutboxRecordContract, c

LEMMA BatchOutboxFacts ==
    ASSUME NEW settings \in Settings, NEW k \in 0 .. (EventCount - 1)
    PROVE  LET new == BatchOutbox(Uninterrupted(settings, k), Uninterrupted(settings, k + 1), Source[k + 1])
               old == EventCount + Len(Events(settings, k))
               end == EventCount + Len(Events(settings, k + 1))
           IN  /\ \A n : n \in DOMAIN new <=> n = k \/ n \in old .. (end - 1)
               /\ new[k] = MarketRecord(Source[k + 1])
               /\ \A n \in old .. (end - 1) :
                      new[n] = PaperRecord(Uninterrupted(settings, k + 1), n - EventCount + 1)
<1> DEFINE c == Uninterrupted(settings, k)
           d == Uninterrupted(settings, k + 1)
           env == Source[k + 1]
           P == Len(c.broker.events)
           Q == Len(d.broker.events)
           old == EventCount + P
           end == EventCount + Q
           new == BatchOutbox(c, d, env)
<1>1. EventCount \in Nat /\ k \in 0 .. EventCount /\ k + 1 \in 1 .. EventCount /\ k + 1 \in 0 .. EventCount
  BY SourceFacts
<1>2. Ordinal(env) = k
  BY <1>1, OrdinalOf
<1>3. P \in Nat /\ Q \in Nat
  BY <1>1, EventCountFacts DEF Events
<1> HIDE DEF c, d, env, P, Q
<1> DEFINE keys == {Ordinal(env)} \cup {EventCount + j - 1 : j \in (P + 1) .. Q}
<1>4. new = [n \in keys |-> IF n = Ordinal(env) THEN MarketRecord(env) ELSE PaperRecord(d, n - EventCount + 1)]
  BY DEF BatchOutbox, P, Q
<1>5. \A n : n \in keys <=> n = k \/ n \in old .. (end - 1)
  <2> TAKE n
  <2>1. n \in {EventCount + j - 1 : j \in (P + 1) .. Q} => n \in old .. (end - 1)
    BY <1>1, <1>3
  <2>2. ASSUME n \in old .. (end - 1) PROVE n \in {EventCount + j - 1 : j \in (P + 1) .. Q}
    <3>1. n - EventCount + 1 \in (P + 1) .. Q /\ n = EventCount + (n - EventCount + 1) - 1
      BY <1>1, <1>3, <2>2
    <3> QED
      BY <3>1
  <2> QED
    BY <1>2, <2>1, <2>2
<1> HIDE DEF new, keys
<1>6. /\ \A n : n \in DOMAIN new <=> n = k \/ n \in old .. (end - 1)
      /\ new[k] = MarketRecord(env)
      /\ \A n \in old .. (end - 1) : new[n] = PaperRecord(d, n - EventCount + 1)
  BY <1>1, <1>2, <1>3, <1>4, <1>5
<1> QED
  BY <1>6 DEF new, c, d, env, P, Q, Events

-----------------------------------------------------------------------------
(* The steps *)

LEMMA IdleKept ==
    /\ IsProc(Idle) /\ Idle.pc = "idle"
    /\ \A identity, count : ProcKept(Idle, identity, count)
  BY DEF IsProc, Idle, ProcFields, ProcKept

\* A step of one runner that leaves the file as it is.
LEMMA RunnerStep ==
    ASSUME IInv, Created, NEW r \in Runners, NEW p, IsProc(p), ProcKept(p, run.identity, run.count),
           proc' = [proc EXCEPT ![r] = p], UNCHANGED durable,
           outputs' = outputs
               \/ outputs' = outputs \cup {Materialize(Uninterrupted(run.identity, EventCount))}
    PROVE  IInv'
<1>1. file' = file /\ run' = run /\ batches' = batches /\ outbox' = outbox
  BY DEF durable
<1>2. RowKept'
  BY <1>1 DEF Created, RowKept
<1>3. OutboxKept'
  BY <1>1 DEF Created, OutboxKept
<1>4. DOMAIN proc' = Runners /\ proc'[r] = p /\ \A q \in Runners : q # r => proc'[q] = proc[q]
  BY DEF IInv
<1>5. \A q \in Runners : ProcKept(proc'[q], run'.identity, run'.count) /\ IsProc(proc'[q])
  BY <1>1, <1>4 DEF Created, IInv, IsProc
<1>6. \A output \in outputs' : output = Materialize(Uninterrupted(run'.identity, EventCount))
  BY <1>1 DEF Created
<1>7. Created'
  BY <1>1, <1>2, <1>3, <1>5, <1>6 DEF Created
<1> QED
  BY <1>4, <1>5, <1>7 DEF IInv, IsProc

LEMMA RunnerEnds ==
    ASSUME IInv, Created, NEW r \in Runners, proc' = [proc EXCEPT ![r] = Idle],
           UNCHANGED <<durable, outputs>>
    PROVE  IInv'
  BY IdleKept, RunnerStep

LEMMA InitInv == Init => IInv
<1> SUFFICES ASSUME Init PROVE IInv
  OBVIOUS
<1>1. DOMAIN batches = {} /\ DOMAIN outbox = {}
  BY EmptyList DEF Init, Empty
<1>2. \A r \in Runners : proc[r] = Idle
  BY DEF Init
<1> QED
  BY <1>1, <1>2, IdleKept DEF Init, IInv, Opening, IsProc

LEMMA ReserveInv ==
    ASSUME IInv, NEW r \in Runners, NEW settings \in Settings, Reserve(r, settings)
    PROVE  IInv' /\ Opening'
<1>1. file = "absent" /\ Opening
  BY DEF Reserve, StatePathValid, IInv, Created
<1>2. \A q \in Runners : proc[q].pc = "idle"
  BY <1>1 DEF Opening
<1> DEFINE p == [Idle EXCEPT !.pc = "reserved", !.settings = settings]
<1>3. IsProc(p) /\ p.pc = "reserved" /\ p.settings = settings
  BY DEF Idle, IsProc, ProcFields
<1>4. proc' = [proc EXCEPT ![r] = p] /\ file' = "reserved" /\ UNCHANGED <<run, batches, outbox, outputs>>
  BY DEF Reserve
<1> HIDE DEF p
<1>5. DOMAIN proc' = Runners /\ proc'[r] = p /\ \A q \in Runners : q # r => proc'[q] = proc[q]
  BY <1>4 DEF IInv
<1>6. Opening'
  BY <1>1, <1>2, <1>3, <1>4, <1>5 DEF Opening
<1>7. \A q \in Runners : DOMAIN proc'[q] = ProcFields
  BY <1>3, <1>5 DEF IInv, IsProc
<1> QED
  BY <1>5, <1>6, <1>7 DEF IInv

LEMMA OpeningPc ==
    ASSUME IInv, NEW r \in Runners, proc[r].pc \in {"reserved", "schema"}
    PROVE  /\ Opening /\ file # "absent" /\ proc[r].settings \in Settings
           /\ \A q \in Runners : q # r => proc[q].pc = "idle"
<1>1. ~Created
  BY DEF Created, ProcKept
<1> QED
  BY <1>1 DEF IInv, Opening

LEMMA CreatedPc ==
    ASSUME IInv, NEW r \in Runners,
           proc[r].pc \in {"created", "ready", "publishing", "reload", "ledger", "completed"}
    PROVE  /\ Created /\ RowKept /\ OutboxKept /\ ProcKept(proc[r], run.identity, run.count)
           /\ proc[r].settings = run.identity
<1>1. ~Opening
  BY DEF Opening
<1> QED
  BY <1>1 DEF IInv, Created, ProcKept

LEMMA InitializeSchemaInv ==
    ASSUME IInv, NEW r \in Runners, InitializeSchema(r)
    PROVE  IInv' /\ Opening'
<1>1. proc[r].pc = "reserved" /\ file' = "schema" /\ UNCHANGED <<run, batches, outbox, outputs>>
  BY DEF InitializeSchema
<1>2. /\ Opening /\ proc[r].settings \in Settings
      /\ \A q \in Runners : q # r => proc[q].pc = "idle"
  BY <1>1, OpeningPc
<1>3. /\ DOMAIN proc' = Runners /\ \A q \in Runners : DOMAIN proc'[q] = ProcFields
      /\ proc'[r].pc = "schema" /\ proc'[r].settings = proc[r].settings
      /\ \A q \in Runners : q # r => proc'[q] = proc[q]
  BY DEF InitializeSchema, IInv, ProcFields
<1>4. Opening'
  BY <1>1, <1>2, <1>3 DEF Opening
<1> QED
  BY <1>3, <1>4 DEF IInv

LEMMA CreateRunInv ==
    ASSUME IInv, NEW r \in Runners, CreateRun(r)
    PROVE  IInv'
<1> DEFINE first == InitialCoordinator(Session)
<1>1. /\ proc[r].pc = "schema" /\ UNCHANGED <<file, batches, outbox, outputs>>
      /\ run' = [identity |-> proc[r].settings, status |-> "active", version |-> 0,
                 cursor |-> None, count |-> 0, c |-> first]
      /\ proc' = [proc EXCEPT ![r].pc = "created", ![r].c = first]
  BY DEF CreateRun
<1>2. /\ Opening /\ file # "absent" /\ proc[r].settings \in Settings
      /\ \A q \in Runners : q # r => proc[q].pc = "idle"
  BY <1>1, OpeningPc
<1>3. \A identity : Uninterrupted(identity, 0) = first
  BY UninterruptedStep
<1>4. Len(first.broker.events) = 0
  BY EmptyList DEF InitialCoordinator, InitialState
<1>5. EventCount \in Nat \ {0}
  BY SourceFacts
<1> HIDE DEF first
<1>6. /\ DOMAIN proc' = Runners /\ \A q \in Runners : DOMAIN proc'[q] = ProcFields
      /\ proc'[r].pc = "created" /\ proc'[r].settings = proc[r].settings /\ proc'[r].c = first
      /\ \A q \in Runners : q # r => proc'[q] = proc[q]
  BY <1>1 DEF IInv, ProcFields
<1>7. \A q \in Runners : ProcKept(proc[q]', run'.identity, run'.count)
  <2> SUFFICES ASSUME NEW q \in Runners PROVE ProcKept(proc'[q], run'.identity, run'.count)
    OBVIOUS
  <2>1. CASE q = r
    BY <2>1, <1>1, <1>3, <1>6 DEF ProcKept
  <2>2. CASE q # r
    BY <2>2, <1>2, <1>6 DEF ProcKept
  <2> QED
    BY <2>1, <2>2
<1>8. RowKept'
  BY <1>1, <1>2, <1>3, <1>5 DEF RowKept, Opening
<1>9. OutboxKept'
  <2>1. run'.count = 0 /\ run'.c = first /\ run'.status = "active" /\ outbox' = outbox
    BY <1>1
  <2>2. DOMAIN outbox = {}
    BY <1>2 DEF Opening
  <2> QED
    BY <2>1, <2>2, <1>4, <1>5 DEF OutboxKept
<1>10. Created'
  BY <1>1, <1>2, <1>7, <1>8, <1>9 DEF Created, Opening
<1> QED
  BY <1>6, <1>10 DEF IInv

\* What a process that passed hydration holds.
LEMMA HydratedInv ==
    ASSUME IInv, Created, NEW r \in Runners, NEW k \in 0 .. run.count,
           Hydratable(run.identity, Uninterrupted(run.identity, k)),
           Hydrated(r, run.identity, Uninterrupted(run.identity, k)),
           UNCHANGED <<durable, outputs>>
    PROVE  IInv'
<1> DEFINE c == Uninterrupted(run.identity, k)
           p == [pc |-> IF run.status = "complete" THEN "completed" ELSE "ready",
                 settings |-> run.identity, c |-> c, version |-> run.version, cursor |-> run.cursor,
                 batch |-> None]
<1>1. RowKept /\ run.identity \in Settings /\ run.count \in 0 .. EventCount
  BY DEF Created, RowKept
<1>2. k \in 0 .. EventCount /\ CoordinatorKept(c, k) /\ EventCount \in Nat \ {0}
  BY <1>1, SourceFacts, UninterruptedKept
<1>3. run.status = "complete" => run.cursor = LastSequence
  BY DEF Hydratable, LoadAccepted
<1>4. c.broker.last = run.cursor
  BY DEF Hydratable
<1> HIDE DEF c
<1>5. run.status = "complete" => k = EventCount
  <2>1. LastSequence \in Nat /\ LastSequence = Source[EventCount].sequence /\ LastSequence # None
    BY SourceFacts, NoneIsNoNumber DEF LastSequence
  <2>2. run.status = "complete" => k # 0
    BY <1>2, <1>3, <1>4, <2>1 DEF CoordinatorKept
  <2>3. run.status = "complete" => Source[k].sequence = Source[EventCount].sequence
    BY <1>2, <1>3, <1>4, <2>1, <2>2 DEF CoordinatorKept
  <2> QED
    BY <1>2, <2>2, <2>3, SameSequence
<1>6. IsProc(p)
  BY DEF IsProc, ProcFields
<1>7. ProcKept(p, run.identity, run.count)
  <2>1. /\ p.settings = run.identity /\ p.c = c
        /\ p.pc = IF run.status = "complete" THEN "completed" ELSE "ready"
    OBVIOUS
  <2>2. c = Uninterrupted(run.identity, k)
    BY DEF c
  <2> HIDE DEF p
  <2>3. CASE run.status = "complete"
    BY <2>1, <2>2, <2>3, <1>5 DEF ProcKept
  <2>4. CASE run.status # "complete"
    BY <2>1, <2>2, <2>4 DEF ProcKept
  <2> QED
    BY <2>3, <2>4
<1>8. proc' = [proc EXCEPT ![r] = p]
  BY DEF Hydrated, c
<1> HIDE DEF p
<1> QED
  BY <1>6, <1>7, <1>8, RunnerStep

LEMMA HydrateCreatedInv ==
    ASSUME IInv, NEW r \in Runners, HydrateCreated(r)
    PROVE  IInv'
<1>1. /\ Created /\ RowKept /\ proc[r].c = Uninterrupted(run.identity, 0)
      /\ proc[r].settings = run.identity
  BY CreatedPc DEF HydrateCreated, ProcKept
<1>2. 0 \in 0 .. run.count
  BY <1>1 DEF RowKept
<1>3. UNCHANGED <<durable, outputs>>
  BY DEF HydrateCreated
<1>4. \/ /\ Hydratable(run.identity, Uninterrupted(run.identity, 0))
         /\ Hydrated(r, run.identity, Uninterrupted(run.identity, 0))
      \/ proc' = [proc EXCEPT ![r] = Idle]
  BY <1>1 DEF HydrateCreated
<1> QED
  BY <1>1, <1>2, <1>3, <1>4, HydratedInv, RunnerEnds

LEMMA ResumeInv ==
    ASSUME IInv, NEW r \in Runners, NEW settings \in Settings, Resume(r, settings)
    PROVE  IInv'
<1>1. /\ run # None /\ Hydratable(settings, run.c) /\ Hydrated(r, settings, run.c)
      /\ UNCHANGED <<durable, outputs>>
  BY DEF Resume
<1>2. Created /\ RowKept
  BY <1>1 DEF IInv, Opening, Created
<1>3. run.identity = settings
  BY <1>1 DEF Hydratable
<1>4. run.c = Uninterrupted(run.identity, run.count) /\ run.count \in 0 .. run.count
  BY <1>2 DEF RowKept
<1> QED
  BY <1>1, <1>2, <1>3, <1>4, HydratedInv

\* What is left of the source after the first k envelopes.
LEMMA SuffixFacts ==
    ASSUME NEW settings \in Settings, NEW k \in 0 .. EventCount
    PROVE  Suffix(Uninterrupted(settings, k)) = (k + 1) .. EventCount
<1> DEFINE c == Uninterrupted(settings, k)
<1>1. CoordinatorKept(c, k)
  BY UninterruptedKept
<1> HIDE DEF c
<1>2. EventCount \in Nat \ {0} /\ DOMAIN Source = 1 .. EventCount
  BY SourceFacts
<1>3. CASE k = 0
  <2>1. c.broker.last = None
    BY <1>1, <1>3 DEF CoordinatorKept
  <2>2. Suffix(c) = DOMAIN Source
    BY <2>1 DEF Suffix
  <2> QED
    BY <2>2, <1>2, <1>3 DEF c
<1>4. CASE k # 0
  <2>1. c.broker.last = Source[k].sequence /\ k \in 1 .. EventCount
    BY <1>1, <1>4 DEF CoordinatorKept
  <2>2. c.broker.last # None
    BY <2>1, SourceFacts, NoneIsNoNumber
  <2>3. Suffix(c) = {n \in 1 .. EventCount : Source[n].sequence > Source[k].sequence}
    BY <1>2, <2>1, <2>2 DEF Suffix
  <2>4. \A n \in 1 .. EventCount : Source[n].sequence > Source[k].sequence <=> n > k
    <3> TAKE n \in 1 .. EventCount
    <3>1. Source[n].sequence \in Nat /\ Source[k].sequence \in Nat
      BY <2>1, SourceFacts
    <3>2. /\ n < k => Source[n].sequence < Source[k].sequence
          /\ k < n => Source[k].sequence < Source[n].sequence
      BY <2>1, SourceOrder
    <3> QED
      BY <3>1, <3>2, <2>1
  <2> QED
    BY <2>1, <2>3, <2>4 DEF c
<1> QED
  BY <1>3, <1>4

LEMMA PublishNextInv ==
    ASSUME IInv, NEW r \in Runners, PublishNext(r)
    PROVE  IInv'
<1>1. PICK n \in Suffix(proc[r].c) :
          /\ \A k \in Suffix(proc[r].c) : n <= k
          /\ \/ proc' = [proc EXCEPT ![r] = [@ EXCEPT !.pc = "publishing",
                                                      !.batch = DurableBatch(proc[r], Source[n])]]
             \/ proc' = [proc EXCEPT ![r] = Idle]
  BY DEF PublishNext
<1>2. proc[r].pc = "ready" /\ UNCHANGED <<durable, outputs>>
  BY DEF PublishNext
<1>3. /\ Created /\ RowKept /\ proc[r].settings = run.identity
      /\ ProcKept(proc[r], run.identity, run.count)
  BY <1>2, CreatedPc
<1>4. PICK k \in 0 .. run.count : proc[r].c = Uninterrupted(run.identity, k)
  BY <1>2, <1>3 DEF ProcKept
<1>5. run.identity \in Settings /\ run.count \in 0 .. EventCount /\ EventCount \in Nat \ {0}
  BY <1>3, SourceFacts DEF RowKept
<1>6. n \in (k + 1) .. EventCount /\ \A j \in (k + 1) .. EventCount : n <= j
  BY <1>1, <1>4, <1>5, SuffixFacts
<1>7. n = k + 1 /\ k \in 0 .. (EventCount - 1)
  BY <1>5, <1>6
<1> DEFINE c == Uninterrupted(run.identity, k)
           d == Uninterrupted(run.identity, k + 1)
           b == DurableBatch(proc[r], Source[n])
           p == [proc[r] EXCEPT !.pc = "publishing", !.batch = b]
<1>8. Publish(c, run.identity, Source[k + 1]) = d
  BY <1>7, UninterruptedStep
<1>9. b.envelope = Source[k + 1] /\ b.c = d /\ b.outbox = BatchOutbox(c, d, Source[k + 1])
  BY <1>3, <1>4, <1>7, <1>8 DEF DurableBatch
<1> HIDE DEF b
<1>10. IsProc(p) /\ p.pc = "publishing" /\ p.settings = run.identity /\ p.batch = b
  BY <1>3 DEF IInv, IsProc, ProcFields
<1> HIDE DEF p
<1>11. ProcKept(p, run.identity, run.count)
  BY <1>4, <1>5, <1>7, <1>9, <1>10 DEF ProcKept
<1>12. CASE proc' = [proc EXCEPT ![r] = Idle]
  BY <1>12, <1>2, <1>3, RunnerEnds
<1>13. CASE proc' = [proc EXCEPT ![r] = p]
  BY <1>13, <1>2, <1>3, <1>10, <1>11, RunnerStep
<1> QED
  BY <1>1, <1>12, <1>13 DEF p, b

LEMMA MoreCommitted ==
    ASSUME NEW p, NEW identity, NEW count \in Nat, ProcKept(p, identity, count)
    PROVE  ProcKept(p, identity, count + 1)
<1>1. CASE p.pc = "ready"
  <2>1. PICK k \in 0 .. count : p.c = Uninterrupted(identity, k)
    BY <1>1 DEF ProcKept
  <2>2. k \in 0 .. (count + 1)
    OBVIOUS
  <2> QED
    BY <1>1, <2>1, <2>2 DEF ProcKept
<1>2. CASE p.pc \in {"publishing", "reload", "ledger"}
  <2>1. EventCount \in Nat
    BY SourceFacts
  <2> QED
    BY <1>2, <2>1 DEF ProcKept
<1>3. CASE p.pc \in {"idle", "created", "completed"}
  BY <1>3 DEF ProcKept
<1> QED
  BY <1>1, <1>2, <1>3 DEF ProcKept

\* A batch is applied only on top of the prefix it was computed from.
LEMMA CommitAppliedInv ==
    ASSUME IInv, NEW r \in Runners, CommitApplied(r)
    PROVE  IInv'
<1> DEFINE b == proc[r].batch
<1>1. /\ proc[r].pc = "publishing" /\ b.envelope.sequence \notin DOMAIN batches
      /\ CommitAccepted(b) /\ run' = CommittedRun(b)
      /\ batches' = Bind(batches, b.envelope.sequence, [fingerprint |-> b, version |-> run.version + 1])
      /\ outbox' = [n \in DOMAIN outbox \cup DOMAIN b.outbox |->
                        IF n \in DOMAIN outbox THEN outbox[n] ELSE b.outbox[n]]
      /\ proc' = [proc EXCEPT ![r].pc = "reload"]
      /\ UNCHANGED <<file, outputs>>
  BY DEF CommitApplied
<1>2. /\ Created /\ RowKept /\ OutboxKept /\ ProcKept(proc[r], run.identity, run.count)
  BY <1>1, CreatedPc
<1>3. PICK k \in 0 .. (EventCount - 1) :
          /\ k <= run.count
          /\ b.envelope = Source[k + 1] /\ b.c = Uninterrupted(run.identity, k + 1)
          /\ b.outbox = BatchOutbox(Uninterrupted(run.identity, k),
                                    Uninterrupted(run.identity, k + 1), Source[k + 1])
  BY <1>1, <1>2 DEF ProcKept
<1> HIDE DEF b
<1>4. /\ EventCount \in Nat \ {0} /\ k + 1 \in 1 .. EventCount
      /\ run.count \in 0 .. EventCount /\ run.identity \in Settings
  BY <1>2, SourceFacts DEF RowKept
<1>5. run.status = "active" /\ b.envelope.sequence > (IF run.cursor # None THEN run.cursor ELSE FirstSequence - 1)
  BY <1>1 DEF CommitAccepted
<1>6. k = run.count
  <2>1. CASE run.count = 0
    BY <2>1, <1>3
  <2>2. CASE run.count # 0
    <3>1. run.cursor = Source[run.count].sequence /\ run.count \in 1 .. EventCount
      BY <2>2, <1>2, <1>4 DEF RowKept
    <3>2. run.cursor # None /\ run.cursor \in Nat
      BY <3>1, SourceFacts, NoneIsNoNumber
    <3>3. Source[k + 1].sequence > Source[run.count].sequence /\ Source[k + 1].sequence \in Nat
      BY <1>3, <1>4, <1>5, <3>1, <3>2, SourceFacts
    <3>4. ~(k + 1 < run.count) /\ k + 1 # run.count
      BY <3>1, <3>2, <3>3, <1>4, SourceOrder
    <3> QED
      BY <3>4, <1>3, <1>4
  <2> QED
    BY <2>1, <2>2
<1> DEFINE c == Uninterrupted(run.identity, k)
           d == Uninterrupted(run.identity, k + 1)
           P == Len(c.broker.events)
           Q == Len(d.broker.events)
<1>7. run.c = c /\ run.version = k
  BY <1>2, <1>5, <1>6 DEF RowKept
<1>8. /\ DOMAIN run' = DOMAIN run /\ run'.identity = run.identity /\ run'.status = "active"
      /\ run'.count = k + 1 /\ run'.cursor = Source[k + 1].sequence /\ run'.c = d
      /\ run'.version = k + 1
  BY <1>1, <1>2, <1>3, <1>5, <1>6, <1>7 DEF CommittedRun, RowKept
<1>9. \A j : j \in 1 .. (k + 1) <=> j \in 1 .. k \/ j = k + 1
  OBVIOUS
<1>10. \A n \in 1 .. k : Source[n].sequence # Source[k + 1].sequence
  BY <1>4, SameSequence
<1>11. RowKept'
  <2>1. /\ \A q : q \in DOMAIN batches' <=> q \in DOMAIN batches \/ q = Source[k + 1].sequence
        /\ \A q \in DOMAIN batches : q # Source[k + 1].sequence => batches'[q] = batches[q]
        /\ batches'[Source[k + 1].sequence] = [fingerprint |-> b, version |-> run.version + 1]
    BY <1>1, <1>3, BindDomain, BindValues
  <2>2. /\ \A q : q \in DOMAIN batches <=> \E n \in 1 .. k : q = Source[n].sequence
        /\ \A n \in 1 .. k : batches[Source[n].sequence].version = n
    BY <1>2, <1>6 DEF RowKept
  <2>3. \A q : q \in DOMAIN batches' <=> \E n \in 1 .. (k + 1) : q = Source[n].sequence
    BY <2>1, <2>2, <1>9
  <2>4. \A n \in 1 .. (k + 1) : batches'[Source[n].sequence].version = n
    BY <2>1, <2>2, <1>7, <1>9, <1>10
  <2>5. k + 1 \in 0 .. EventCount
    BY <1>4
  <2>6. DOMAIN run = {"identity", "status", "version", "cursor", "count", "c"}
    BY <1>2 DEF RowKept
  <2> QED
    BY <1>4, <1>8, <2>3, <2>4, <2>5, <2>6 DEF RowKept
<1>12. P \in Nat /\ Q \in Nat /\ P <= Q
  BY <1>4, EventCountFacts DEF Events
<1>13. \A n \in 1 .. P : PaperRecord(d, n) = PaperRecord(c, n)
  BY <1>4, PaperRecordKept DEF Events
<1>14. /\ \A n : n \in DOMAIN b.outbox <=> n = k \/ n \in (EventCount + P) .. (EventCount + Q - 1)
       /\ b.outbox[k] = MarketRecord(Source[k + 1])
       /\ \A n \in (EventCount + P) .. (EventCount + Q - 1) :
              b.outbox[n] = PaperRecord(d, n - EventCount + 1)
  <2> DEFINE new == BatchOutbox(c, d, Source[k + 1])
  <2>1. /\ \A n : n \in DOMAIN new <=> n = k \/ n \in (EventCount + P) .. (EventCount + Q - 1)
        /\ new[k] = MarketRecord(Source[k + 1])
        /\ \A n \in (EventCount + P) .. (EventCount + Q - 1) :
               new[n] = PaperRecord(d, n - EventCount + 1)
    <3> DEFINE i == run.identity
    <3>1. i \in Settings
      BY <1>4
    <3>2. P = Len(Events(i, k)) /\ Q = Len(Events(i, k + 1)) /\ c = Uninterrupted(i, k)
          /\ d = Uninterrupted(i, k + 1) /\ new = BatchOutbox(c, d, Source[k + 1])
      BY DEF Events
    <3> HIDE DEF i, new, c, d, P, Q
    <3>3. /\ \A n : n \in DOMAIN BatchOutbox(Uninterrupted(i, k), Uninterrupted(i, k + 1), Source[k + 1])
                   <=> n = k \/ n \in (EventCount + Len(Events(i, k)))
                                        .. ((EventCount + Len(Events(i, k + 1))) - 1)
          /\ BatchOutbox(Uninterrupted(i, k), Uninterrupted(i, k + 1), Source[k + 1])[k]
                = MarketRecord(Source[k + 1])
          /\ \A n \in (EventCount + Len(Events(i, k))) .. ((EventCount + Len(Events(i, k + 1))) - 1) :
                 BatchOutbox(Uninterrupted(i, k), Uninterrupted(i, k + 1), Source[k + 1])[n]
                   = PaperRecord(Uninterrupted(i, k + 1), n - EventCount + 1)
      BY <3>1, BatchOutboxFacts
    <3>4. Q \in Nat /\ EventCount \in Nat /\ (EventCount + Q) - 1 = EventCount + Q - 1
      BY <1>4, <1>12
    <3> QED
      BY <3>2, <3>3, <3>4
  <2>2. b.outbox = new
    BY <1>3
  <2> HIDE DEF new, c, d, P, Q
  <2> QED
    BY <2>1, <2>2
<1>15. /\ \A n : n \in DOMAIN outbox <=>
                     n \in 0 .. (k - 1) \/ n \in EventCount .. (EventCount + P - 1)
       /\ \A n \in 1 .. k : outbox[n - 1] = MarketRecord(Source[n])
       /\ \A n \in 1 .. P : outbox[EventCount + n - 1] = PaperRecord(c, n)
  BY <1>2, <1>5, <1>6, <1>7 DEF OutboxKept
<1> HIDE DEF c, d, P, Q
<1>16. OutboxKept'
  <2>1. /\ \A n : n \in DOMAIN outbox' <=> n \in DOMAIN outbox \/ n \in DOMAIN b.outbox
        /\ \A n \in DOMAIN outbox : outbox'[n] = outbox[n]
        /\ \A n \in DOMAIN b.outbox : n \notin DOMAIN outbox => outbox'[n] = b.outbox[n]
    BY <1>1
  <2>2. \A n : n \in DOMAIN outbox' <=> n \in 0 .. k \/ n \in EventCount .. (EventCount + Q - 1)
    BY <2>1, <1>4, <1>12, <1>14, <1>15
  <2>3. ASSUME NEW n \in 1 .. (k + 1) PROVE outbox'[n - 1] = MarketRecord(Source[n])
    <3>1. CASE n \in 1 .. k
      <4>1. n - 1 \in DOMAIN outbox
        BY <3>1, <1>15
      <4> QED
        BY <3>1, <4>1, <2>1, <1>15
    <3>2. CASE n = k + 1
      <4>1. k \in DOMAIN b.outbox /\ k \notin DOMAIN outbox
        BY <1>4, <1>12, <1>14, <1>15
      <4>2. n - 1 = k
        BY <3>2
      <4>3. outbox'[n - 1] = b.outbox[k]
        BY <4>1, <4>2, <2>1
      <4> QED
        BY <4>3, <3>2, <1>14
    <3> QED
      BY <3>1, <3>2, <1>9
  <2>4. ASSUME NEW n \in 1 .. Q PROVE outbox'[EventCount + n - 1] = PaperRecord(d, n)
    <3> DEFINE i == EventCount + n - 1
    <3>1. CASE n \in 1 .. P
      <4>1. i \in DOMAIN outbox
        BY <3>1, <1>4, <1>12, <1>15
      <4>2. outbox'[i] = outbox[i]
        BY <4>1, <2>1
      <4> QED
        BY <3>1, <4>2, <1>13, <1>15
    <3>2. CASE n \notin 1 .. P
      <4>1. i \in (EventCount + P) .. (EventCount + Q - 1) /\ i - EventCount + 1 = n
        BY <3>2, <1>4, <1>12
      <4>2. i \in DOMAIN b.outbox /\ i \notin DOMAIN outbox
        BY <4>1, <1>4, <1>12, <1>14, <1>15
      <4>3. outbox'[i] = b.outbox[i]
        BY <4>2, <2>1
      <4> QED
        BY <4>1, <4>3, <1>14
    <3> QED
      BY <3>1, <3>2
  <2>5. run'.c.broker.events = d.broker.events /\ Len(d.broker.events) = Q /\ k + 1 - 1 = k
    BY <1>4, <1>8 DEF Q
  <2> QED
    BY <1>8, <2>2, <2>3, <2>4, <2>5 DEF OutboxKept
<1>17. /\ DOMAIN proc' = Runners /\ \A q \in Runners : DOMAIN proc'[q] = ProcFields
       /\ \A q \in Runners : q # r => proc'[q] = proc[q]
       /\ proc'[r] = [proc[r] EXCEPT !.pc = "reload"]
  BY <1>1 DEF IInv, ProcFields
<1>18. \A q \in Runners : ProcKept(proc[q], run.identity, k + 1)
  BY <1>2, <1>6, MoreCommitted DEF Created
<1>19. ProcKept(proc'[r], run.identity, k + 1)
  <2>1. /\ proc'[r].pc = "reload" /\ proc'[r].settings = proc[r].settings /\ proc'[r].batch = b
    BY <1>17 DEF IInv, ProcFields, b
  <2>2. proc[r].settings = run.identity
    BY <1>1, <1>2 DEF ProcKept
  <2> QED
    BY <1>3, <2>1, <2>2 DEF ProcKept
<1>20. \A q \in Runners : ProcKept(proc'[q], run'.identity, run'.count)
  BY <1>8, <1>17, <1>18, <1>19
<1>21. Created'
  BY <1>1, <1>2, <1>8, <1>11, <1>16, <1>20 DEF Created
<1> QED
  BY <1>17, <1>21 DEF IInv

\* A batch found already there is the one that was committed.
LEMMA CommitDuplicateInv ==
    ASSUME IInv, NEW r \in Runners, CommitDuplicate(r)
    PROVE  IInv'
<1> DEFINE b == proc[r].batch
           p == [proc[r] EXCEPT !.pc = "reload"]
<1>1. /\ proc[r].pc = "publishing" /\ b.envelope.sequence \in DOMAIN batches
      /\ proc' = [proc EXCEPT ![r].pc = "reload"] /\ UNCHANGED <<durable, outputs>>
  BY DEF CommitDuplicate
<1>2. /\ Created /\ RowKept /\ ProcKept(proc[r], run.identity, run.count)
      /\ proc[r].settings = run.identity
  BY <1>1, CreatedPc
<1>3. PICK k \in 0 .. (EventCount - 1) :
          /\ k <= run.count
          /\ b.envelope = Source[k + 1] /\ b.c = Uninterrupted(run.identity, k + 1)
          /\ b.outbox = BatchOutbox(Uninterrupted(run.identity, k),
                                    Uninterrupted(run.identity, k + 1), Source[k + 1])
  BY <1>1, <1>2 DEF ProcKept
<1>4. k + 1 \in 1 .. EventCount /\ run.count \in 0 .. EventCount /\ EventCount \in Nat
  BY <1>2, SourceFacts DEF RowKept
<1>5. PICK n \in 1 .. run.count : Source[k + 1].sequence = Source[n].sequence
  BY <1>1, <1>2, <1>3 DEF RowKept
<1>6. k + 1 = n
  BY <1>4, <1>5, SameSequence
<1>7. k < run.count
  BY <1>4, <1>5, <1>6
<1>8. IsProc(p) /\ p.pc = "reload" /\ p.settings = run.identity /\ p.batch = b
  BY <1>2 DEF IInv, IsProc, ProcFields
<1>9. proc' = [proc EXCEPT ![r] = p]
  BY <1>1 DEF IInv
<1> HIDE DEF b, p
<1>10. ProcKept(p, run.identity, run.count)
  BY <1>3, <1>7, <1>8 DEF ProcKept
<1> QED
  BY <1>1, <1>2, <1>8, <1>9, <1>10, RunnerStep

LEMMA CommitConflictInv ==
    ASSUME IInv, NEW r \in Runners, CommitConflict(r)
    PROVE  IInv'
<1>1. proc[r].pc = "publishing" /\ proc' = [proc EXCEPT ![r] = Idle] /\ UNCHANGED <<durable, outputs>>
  BY DEF CommitConflict
<1> QED
  BY <1>1, CreatedPc, RunnerEnds

LEMMA ReadRowInv ==
    ASSUME IInv, NEW r \in Runners, ReadRow(r)
    PROVE  IInv'
<1> DEFINE p == [proc[r] EXCEPT !.pc = "ledger", !.version = run.version, !.cursor = run.cursor]
<1>1. proc[r].pc = "reload" /\ UNCHANGED <<durable, outputs>> /\ proc' = [proc EXCEPT ![r] = p]
  BY DEF ReadRow, IInv
<1>2. /\ Created /\ ProcKept(proc[r], run.identity, run.count)
      /\ proc[r].settings = run.identity
  BY <1>1, CreatedPc
<1>3. /\ IsProc(p) /\ p.pc = "ledger" /\ p.settings = run.identity
      /\ p.batch = proc[r].batch
  BY <1>2 DEF IInv, IsProc, ProcFields
<1> HIDE DEF p
<1>4. ProcKept(p, run.identity, run.count)
  BY <1>1, <1>2, <1>3 DEF ProcKept
<1> QED
  BY <1>1, <1>2, <1>3, <1>4, RunnerStep

LEMMA ReloadInv ==
    ASSUME IInv, NEW r \in Runners, Reload(r)
    PROVE  IInv'
<1> DEFINE b == proc[r].batch
           p == [proc[r] EXCEPT !.pc = "ready", !.c = b.c, !.batch = None]
<1>1. /\ proc[r].pc = "ledger" /\ UNCHANGED <<durable, outputs>>
      /\ proc' = [proc EXCEPT ![r] = p] \/ proc' = [proc EXCEPT ![r] = Idle]
  BY DEF Reload, IInv
<1>2. /\ Created /\ RowKept /\ ProcKept(proc[r], run.identity, run.count)
      /\ proc[r].settings = run.identity
  BY <1>1, CreatedPc
<1>3. PICK k \in 0 .. (EventCount - 1) : k < run.count /\ b.c = Uninterrupted(run.identity, k + 1)
  BY <1>1, <1>2 DEF ProcKept
<1>4. k + 1 \in 0 .. run.count
  BY <1>2, <1>3, SourceFacts DEF RowKept
<1> HIDE DEF b
<1>5. IsProc(p) /\ p.pc = "ready" /\ p.settings = run.identity /\ p.c = b.c
  BY <1>2 DEF IInv, IsProc, ProcFields
<1> HIDE DEF p
<1>6. ProcKept(p, run.identity, run.count)
  BY <1>3, <1>4, <1>5 DEF ProcKept
<1>7. CASE proc' = [proc EXCEPT ![r] = p]
  BY <1>1, <1>2, <1>5, <1>6, <1>7, RunnerStep
<1>8. CASE proc' = [proc EXCEPT ![r] = Idle]
  BY <1>1, <1>2, <1>8, RunnerEnds
<1> QED
  BY <1>1, <1>7, <1>8

LEMMA CompleteInv ==
    ASSUME IInv, NEW r \in Runners, Complete(r)
    PROVE  IInv'
<1>1. proc[r].pc = "ready" /\ Suffix(proc[r].c) = {} /\ UNCHANGED <<file, batches, outputs>>
  BY DEF Complete
<1>2. /\ Created /\ RowKept /\ OutboxKept /\ ProcKept(proc[r], run.identity, run.count)
      /\ proc[r].settings = run.identity
  BY <1>1, CreatedPc
<1>3. PICK k \in 0 .. run.count : proc[r].c = Uninterrupted(run.identity, k)
  BY <1>1, <1>2 DEF ProcKept
<1>4. run.identity \in Settings /\ run.count \in 0 .. EventCount /\ EventCount \in Nat \ {0}
  BY <1>2, SourceFacts DEF RowKept
<1>5. k = EventCount /\ run.count = EventCount
  <2>0. k \in 0 .. EventCount
    BY <1>4
  <2>1. (k + 1) .. EventCount = {}
    BY <1>1, <1>3, <1>4, <2>0, SuffixFacts
  <2> QED
    BY <2>1, <1>4
<1> DEFINE c == Uninterrupted(run.identity, EventCount)
           size == Len(c.broker.events)
<1>6. proc[r].c = c /\ run.c = c
  BY <1>2, <1>3, <1>5 DEF RowKept
<1>7. size \in Nat
  BY <1>4, EventCountFacts DEF Events
<1> HIDE DEF c, size
<1>8. CASE PrefixCommitted(proc[r].c, LastSequence) /\ CompleteAccepted(proc[r])
  <2>1. /\ run' = [run EXCEPT !.status = "complete", !.version = @ + 1]
        /\ outbox' = Bind(outbox, EventCount + size, SummaryRecord(c))
        /\ proc' = [proc EXCEPT ![r].pc = "completed"]
    BY <1>6, <1>8 DEF Complete, size
  <2>2. run.status = "active"
    BY <1>8 DEF CompleteAccepted
  <2>3. /\ DOMAIN run' = DOMAIN run /\ run'.identity = run.identity /\ run'.status = "complete"
        /\ run'.count = run.count /\ run'.cursor = run.cursor /\ run'.c = c
        /\ run'.version = run.count + 1
    BY <1>2, <1>6, <2>1, <2>2 DEF RowKept
  <2>4. RowKept'
    BY <1>1, <1>2, <1>5, <1>6, <2>3 DEF RowKept
  <2>5. /\ \A n : n \in DOMAIN outbox' <=> n \in DOMAIN outbox \/ n = EventCount + size
        /\ \A n \in DOMAIN outbox : n # EventCount + size => outbox'[n] = outbox[n]
        /\ outbox'[EventCount + size] = SummaryRecord(c)
    BY <2>1, BindDomain, BindValues
  <2>6. /\ \A n : n \in DOMAIN outbox <=>
                     n \in 0 .. (run.count - 1) \/ n \in EventCount .. (EventCount + size - 1)
        /\ \A n \in 1 .. run.count : outbox[n - 1] = MarketRecord(Source[n])
        /\ \A n \in 1 .. size : outbox[EventCount + n - 1] = PaperRecord(c, n)
    BY <1>2, <1>6, <2>2 DEF OutboxKept, size
  <2>7. \A n \in 1 .. run.count : outbox'[n - 1] = MarketRecord(Source[n])
    <3> TAKE n \in 1 .. run.count
    <3>1. n - 1 \in DOMAIN outbox /\ n - 1 # EventCount + size
      BY <1>5, <1>7, <1>4, <2>6
    <3> QED
      BY <3>1, <2>5, <2>6
  <2>8. \A n \in 1 .. size : outbox'[EventCount + n - 1] = PaperRecord(c, n)
    <3> TAKE n \in 1 .. size
    <3>1. EventCount + n - 1 \in DOMAIN outbox /\ EventCount + n - 1 # EventCount + size
      BY <1>7, <1>4, <2>6
    <3> QED
      BY <3>1, <2>5, <2>6
  <2>9. Len(run'.c.broker.events) = size
    BY <2>3 DEF size
  <2>10. OutboxKept'
    BY <2>3, <2>5, <2>6, <2>7, <2>8, <2>9 DEF OutboxKept
  <2>11. /\ DOMAIN proc' = Runners /\ \A q \in Runners : DOMAIN proc'[q] = ProcFields
         /\ \A q \in Runners : q # r => proc'[q] = proc[q]
         /\ proc'[r].pc = "completed" /\ proc'[r].settings = run.identity /\ proc'[r].c = c
    BY <1>2, <1>6, <2>1 DEF IInv, ProcFields
  <2>12. ProcKept(proc'[r], run'.identity, run'.count)
    BY <2>3, <2>11 DEF ProcKept, c
  <2>13. \A q \in Runners : ProcKept(proc'[q], run'.identity, run'.count)
    BY <1>2, <2>3, <2>11, <2>12 DEF Created
  <2>14. Created'
    BY <1>1, <1>2, <2>3, <2>4, <2>10, <2>13 DEF Created
  <2> QED
    BY <2>11, <2>14 DEF IInv
<1>9. CASE ~(PrefixCommitted(proc[r].c, LastSequence) /\ CompleteAccepted(proc[r]))
  <2>1. proc' = [proc EXCEPT ![r] = Idle] /\ UNCHANGED <<run, outbox>>
    BY <1>9 DEF Complete
  <2> QED
    BY <1>1, <1>2, <2>1, RunnerEnds DEF durable
<1> QED
  BY <1>8, <1>9

LEMMA ReadOutboxInv ==
    ASSUME IInv, NEW r \in Runners, ReadOutbox(r)
    PROVE  IInv'
<1>1. proc[r].pc = "completed" /\ proc' = [proc EXCEPT ![r] = Idle] /\ UNCHANGED durable
  BY DEF ReadOutbox
<1>2. Created /\ proc[r].c = Uninterrupted(run.identity, EventCount)
  BY <1>1, CreatedPc DEF ProcKept
<1>3. \/ outputs' = outputs
      \/ outputs' = outputs \cup {Materialize(Uninterrupted(run.identity, EventCount))}
  BY <1>2 DEF ReadOutbox
<1> QED
  BY <1>1, <1>2, <1>3, IdleKept, RunnerStep

LEMMA CrashInv ==
    ASSUME IInv, NEW r \in Runners, Crash(r)
    PROVE  IInv' /\ (Opening => Opening')
<1>1. proc' = [proc EXCEPT ![r] = Idle] /\ UNCHANGED <<durable, outputs>>
  BY DEF Crash
<1>2. /\ DOMAIN proc' = Runners /\ \A q \in Runners : DOMAIN proc'[q] = ProcFields
      /\ \A q \in Runners : q # r => proc'[q] = proc[q]
      /\ proc'[r].pc = "idle"
  BY <1>1, IdleKept DEF IInv, IsProc
<1>3. Opening => Opening'
  BY <1>1, <1>2 DEF Opening, durable
<1>4. CASE Created
  BY <1>1, <1>3, <1>4, RunnerEnds
<1>5. CASE Opening
  BY <1>2, <1>3, <1>5 DEF IInv
<1> QED
  BY <1>4, <1>5 DEF IInv

LEMMA NextInv == IInv /\ [Next]_vars => IInv'
<1> SUFFICES ASSUME IInv, [Next]_vars PROVE IInv'
  OBVIOUS
<1>1. CASE UNCHANGED vars
  <2>1. /\ file' = file /\ run' = run /\ batches' = batches /\ outbox' = outbox
        /\ proc' = proc /\ outputs' = outputs
    BY <1>1 DEF vars
  <2> QED
    BY <2>1 DEF IInv, Opening, Created, RowKept, OutboxKept
<1>2. CASE Next
  <2>1. PICK r \in Runners :
            \/ \E settings \in Settings : Reserve(r, settings) \/ Resume(r, settings)
            \/ Step(r)
            \/ Crash(r)
    BY <1>2 DEF Next
  <2>2. CASE \E settings \in Settings : Reserve(r, settings) \/ Resume(r, settings)
    BY <2>2, ReserveInv, ResumeInv
  <2>3. CASE Step(r)
    BY <2>3, InitializeSchemaInv, CreateRunInv, HydrateCreatedInv, PublishNextInv, CommitAppliedInv,
       CommitDuplicateInv, CommitConflictInv, ReadRowInv, ReloadInv, CompleteInv,
       ReadOutboxInv DEF Step
  <2>4. CASE Crash(r)
    BY <2>4, CrashInv
  <2> QED
    BY <2>1, <2>2, <2>3, <2>4
<1> QED
  BY <1>1, <1>2

LEMMA InvHolds == Spec => []IInv
<1>1. Init => IInv
  BY InitInv
<1>2. IInv /\ [Next]_vars => IInv'
  BY NextInv
<1> QED
  BY <1>1, <1>2, PTL DEF Spec

LEMMA InvDurable == IInv => DurablePrefix
<1> SUFFICES ASSUME IInv PROVE DurablePrefix
  OBVIOUS
<1>1. CASE Opening
  BY <1>1 DEF Opening, DurablePrefix
<1>2. CASE Created
  <2> DEFINE c == Uninterrupted(run.identity, run.count)
             size == Len(c.broker.events)
             records == [n \in 1 .. run.count |-> MarketRecord(Source[n])]
  <2>1. RowKept /\ OutboxKept /\ run.c = c /\ run.identity \in Settings /\ run.count \in 0 .. EventCount
    BY <1>2 DEF Created, RowKept
  <2>2. size \in Nat /\ DOMAIN c.broker.events = 1 .. size /\ EventCount \in Nat \ {0}
    BY <2>1, EventCountFacts, SourceFacts DEF Events
  <2>3. \A n \in 1 .. size : OutboxRecordContract(PaperRecord(c, n))
    BY <2>1, PaperContract DEF Events
  <2>4. run.count > 0 => run.cursor = Source[run.count].sequence
    BY <2>1 DEF RowKept
  <2> HIDE DEF c
  <2>5. /\ \A n : n \in DOMAIN outbox <=>
                     \/ n \in 0 .. (run.count - 1)
                     \/ n \in EventCount .. (EventCount + size - 1)
                     \/ run.status = "complete" /\ n = EventCount + size
        /\ \A n \in 1 .. run.count : outbox[n - 1] = MarketRecord(Source[n])
        /\ \A n \in 1 .. size : outbox[EventCount + n - 1] = PaperRecord(c, n)
        /\ run.status = "complete" => outbox[EventCount + size] = SummaryRecord(c)
    BY <2>1 DEF OutboxKept
  <2>6. DOMAIN outbox = (0 .. (run.count - 1))
                      \cup (EventCount .. (EventCount + size - 1))
                      \cup (IF run.status = "complete" THEN {EventCount + size} ELSE {})
    BY <2>5
  <2>7. \A n \in 1 .. run.count : outbox[n - 1] = records[n]
    BY <2>5
  <2>8. ASSUME NEW n \in DOMAIN outbox PROVE OutboxRecordContract(outbox[n])
    <3>1. CASE n \in 0 .. (run.count - 1)
      <4>1. n + 1 \in 1 .. run.count /\ n + 1 \in 1 .. EventCount /\ n = (n + 1) - 1
        BY <3>1, <2>1, <2>2
      <4>2. outbox[(n + 1) - 1] = MarketRecord(Source[n + 1])
        BY <4>1, <2>5
      <4> QED
        BY <4>1, <4>2, MarketContract
    <3>2. CASE n \in EventCount .. (EventCount + size - 1)
      <4>1. n - EventCount + 1 \in 1 .. size /\ n = EventCount + (n - EventCount + 1) - 1
        BY <3>2, <2>2
      <4>2. outbox[n] = PaperRecord(c, n - EventCount + 1)
        BY <4>1, <2>5
      <4> QED
        BY <4>1, <4>2, <2>3
    <3>3. CASE run.status = "complete" /\ n = EventCount + size
      BY <3>3, <2>5, SummaryContract
    <3> QED
      BY <2>5, <3>1, <3>2, <3>3
  <2>9. \A output \in outputs : output = Materialize(Uninterrupted(run.identity, EventCount))
    BY <1>2 DEF Created
  <2> QED
    BY <2>1, <2>2, <2>4, <2>5, <2>6, <2>7, <2>8, <2>9 DEF DurablePrefix, c
<1> QED
  BY <1>1, <1>2 DEF IInv

\* Whatever crashed, was resumed or ran twice: research_runs, research_batches
\* and research_outbox hold what one uninterrupted run over the committed
\* prefix computes, and every output returned is that run's JSONL.
THEOREM DurablePrefixHolds == Spec => []DurablePrefix
<1>1. IInv => DurablePrefix
  BY InvDurable
<1> QED
  BY <1>1, InvHolds, PTL

-----------------------------------------------------------------------------
(* What a resume demands *)

LEMMA InitialSound == \A settings : Sound(InitialCoordinator(Session), settings)
<1> TAKE settings
<1> DEFINE s == InitialState(Session)
           c == InitialCoordinator(Session)
<1>1. c.broker = s /\ DOMAIN c.records = {}
  BY DEF InitialCoordinator, Empty
<1>2. BrokerKept(s)
  BY InitialBrokerKept
<1>3. IsFiniteSet({}) /\ Cardinality({}) = 0
  BY FS_EmptySet
<1> HIDE DEF s, c
<1>4. CoordinatorValid(c, settings)
  BY <1>1, <1>3, MaxDecisionsPositive DEF CoordinatorValid
<1>5. Sound(c, settings)
  BY <1>1, <1>2, <1>3, <1>4 DEF Sound
<1> QED
  BY <1>5 DEF c

\* An accepted publication: every check of the coordinator and of the broker passed.
LEMMA PublishSound ==
    ASSUME NEW settings \in Settings, NEW k \in 0 .. (EventCount - 1), NEW c,
           CoordinatorKept(c, k), Sound(c, settings), PublishAccepted(c, settings, Source[k + 1])
    PROVE  Sound(Publish(c, settings, Source[k + 1]), settings)
<1> DEFINE env == Source[k + 1]
           commands == CommandsFor(c, settings, env)
           b == c.broker
           s == ProcessDecisionBatch(b, env, commands)
           record == [envelope |-> env, commands |-> commands, result |-> NewEvents(b, s)]
           d == Publish(c, settings, env)
<1>1. k + 1 \in 1 .. EventCount /\ k \in Nat /\ \A n \in 1 .. k : n \in 1 .. EventCount /\ n # k + 1
  BY SourceFacts
<1>2. \A n \in 1 .. k : env.sequence # Source[n].sequence
  BY <1>1, SameSequence
<1>3. env.sequence \notin DOMAIN c.records
  BY <1>2 DEF CoordinatorKept
<1>4. d = [broker |-> s, records |-> Bind(c.records, env.sequence, record)]
  BY <1>3 DEF Publish
<1>5. commands = Decision(c, settings, env)
  BY <1>3 DEF CommandsFor
<1>6. /\ Cardinality(DOMAIN c.records) < MaxDecisions
      /\ DecisionAccepted(commands, settings, env)
      /\ BatchAccepted(b, env, commands)
  BY <1>3, <1>5 DEF PublishAccepted
<1>7. DecisionTyped(env, << >>)
  BY <1>1, SourceFacts, InputTypes
<1>8. /\ Len(settings) \in Nat
      /\ \A n \in 1 .. Len(settings) : TemplateTyped(settings[n].template)
  <2>1. settings \in Seq(Range(settings)) /\ \A n \in DOMAIN settings : TemplateTyped(settings[n].template)
    BY InputTypes
  <2> QED
    BY <2>1
<1>9. TypedCommands(commands)
  BY <1>5, <1>7, <1>8, DecisionIsTyped DEF DecisionTyped
<1> HIDE DEF commands, env
<1>10. DecisionTyped(env, commands)
  BY <1>7, <1>9, ListFacts DEF TypedCommands, DecisionTyped
<1>11. BrokerKept(b)
  BY DEF Sound
<1>12. BrokerKept(s)
  BY <1>6, <1>10, <1>11, NoneIsNoNumber, BatchBrokerKept
<1>13. record.envelope = env /\ record.commands = commands
  OBVIOUS
<1> HIDE DEF s, record
<1>14. d.broker = s /\ d.records = Bind(c.records, env.sequence, record)
  BY <1>4
<1> HIDE DEF d
<1> DEFINE D == DOMAIN c.records
           E == DOMAIN d.records
<1>15. /\ E = D \cup {env.sequence}
       /\ d.records[env.sequence] = record
       /\ \A q \in D : d.records[q] = c.records[q]
  <2>1. /\ \A q : q \in DOMAIN d.records <=> q \in DOMAIN c.records \/ q = env.sequence
        /\ d.records[env.sequence] = record
        /\ \A q \in DOMAIN c.records : q # env.sequence => d.records[q] = c.records[q]
    BY <1>14, BindDomain, BindValues
  <2>2. env.sequence \notin DOMAIN c.records
    BY <1>3 DEF env
  <2> QED
    BY <2>1, <2>2
<1>16. IsFiniteSet(D) /\ CoordinatorValid(c, settings) /\ Cardinality(D) < MaxDecisions
  BY <1>6 DEF Sound
<1>17. IsFiniteSet(E) /\ Cardinality(E) <= MaxDecisions
  <2> HIDE DEF D, E
  <2>1. IsFiniteSet(E) /\ Cardinality(E) \in {Cardinality(D), Cardinality(D) + 1}
    BY <1>15, <1>16, FS_AddElement
  <2>2. Cardinality(D) \in Nat
    BY <1>16, FS_CardinalityType
  <2> QED
    BY <1>16, <2>1, <2>2, MaxDecisionsPositive
<1>18. ASSUME NEW q \in E
       PROVE  /\ d.records[q].envelope.sequence = q
              /\ DecisionAccepted(d.records[q].commands, settings, d.records[q].envelope)
  <2>1. CASE q \in D
    BY <2>1, <1>15, <1>16 DEF CoordinatorValid
  <2>2. CASE q = env.sequence
    BY <2>2, <1>6, <1>13, <1>15
  <2> QED
    BY <2>1, <2>2, <1>15
<1>19. Sound(d, settings)
  BY <1>12, <1>14, <1>17, <1>18 DEF Sound, CoordinatorValid
<1> QED
  BY <1>19 DEF d, env

LEMMA IdleSound == RunnerSound(Idle)
  BY DEF RunnerSound, Idle

\* A step of one runner that leaves the row as it is.
LEMMA SoundStep ==
    ASSUME IInv, SoundInv, ~Opening, NEW r \in Runners, NEW p, RunnerSound(p),
           proc' = [proc EXCEPT ![r] = p], run' = run
    PROVE  SoundInv'
<1>1. \A q \in Runners : proc'[q] = IF q = r THEN p ELSE proc[q]
  BY DEF IInv
<1>2. \A q \in Runners : RunnerSound(proc'[q])
  BY <1>1 DEF SoundInv
<1>3. Sound(run'.c, run'.identity)
  BY DEF SoundInv
<1> QED
  BY <1>2, <1>3 DEF SoundInv

LEMMA OpeningSound ==
    ASSUME Opening'
    PROVE  SoundInv'
<1>1. \A q \in Runners : RunnerSound(proc'[q])
  BY DEF Opening, RunnerSound
<1> QED
  BY <1>1 DEF SoundInv

LEMMA CreateRunSound ==
    ASSUME IInv, SoundInv, NEW r \in Runners, CreateRun(r)
    PROVE  SoundInv'
<1> DEFINE first == InitialCoordinator(Session)
<1>1. /\ run'.identity = proc[r].settings /\ run'.c = first
      /\ proc' = [proc EXCEPT ![r].pc = "created", ![r].c = first]
  BY DEF CreateRun
<1>2. \A settings : Sound(first, settings)
  BY InitialSound
<1> HIDE DEF first
<1>3. /\ proc'[r].pc = "created" /\ proc'[r].c = first
      /\ \A q \in Runners : q # r => proc'[q] = proc[q]
  BY <1>1 DEF IInv, ProcFields
<1>4. \A q \in Runners : RunnerSound(proc'[q])
  BY <1>2, <1>3 DEF SoundInv, RunnerSound
<1> QED
  BY <1>1, <1>2, <1>4 DEF SoundInv

LEMMA HydratedSound ==
    ASSUME IInv, SoundInv, ~Opening, NEW r \in Runners, NEW settings, NEW c, Sound(c, settings),
           Hydrated(r, settings, c), run' = run
    PROVE  SoundInv'
<1> DEFINE p == [pc |-> IF run.status = "complete" THEN "completed" ELSE "ready",
                 settings |-> settings, c |-> c, version |-> run.version, cursor |-> run.cursor,
                 batch |-> None]
<1>1. /\ proc' = [proc EXCEPT ![r] = p] /\ p.pc \in {"completed", "ready"}
      /\ p.c = c /\ p.settings = settings
  BY DEF Hydrated
<1> HIDE DEF p
<1>2. RunnerSound(p)
  BY <1>1 DEF RunnerSound
<1> QED
  BY <1>1, <1>2, SoundStep

LEMMA HydrateCreatedSound ==
    ASSUME IInv, SoundInv, NEW r \in Runners, HydrateCreated(r)
    PROVE  SoundInv'
<1>1. proc[r].pc = "created" /\ run' = run
  BY DEF HydrateCreated, durable
<1>2. ~Opening /\ Sound(proc[r].c, proc[r].settings)
  BY <1>1 DEF Opening, SoundInv, RunnerSound
<1>3. Hydrated(r, proc[r].settings, proc[r].c) \/ proc' = [proc EXCEPT ![r] = Idle]
  BY DEF HydrateCreated
<1> QED
  BY <1>1, <1>2, <1>3, HydratedSound, SoundStep, IdleSound

LEMMA ResumeSound ==
    ASSUME IInv, SoundInv, NEW r \in Runners, NEW settings, Resume(r, settings)
    PROVE  SoundInv'
<1>1. run # None /\ run.identity = settings /\ Hydrated(r, settings, run.c) /\ run' = run
  BY DEF Resume, Hydratable, durable
<1>2. ~Opening /\ Sound(run.c, settings)
  BY <1>1 DEF Opening, SoundInv
<1> QED
  BY <1>1, <1>2, HydratedSound

LEMMA PublishNextSound ==
    ASSUME IInv, SoundInv, NEW r \in Runners, PublishNext(r)
    PROVE  SoundInv'
<1>1. proc[r].pc = "ready" /\ run' = run
  BY DEF PublishNext, durable
<1>2. ~Opening
  BY <1>1 DEF Opening
<1>3. /\ RowKept /\ proc[r].settings = run.identity
      /\ ProcKept(proc[r], run.identity, run.count) /\ Sound(proc[r].c, run.identity)
  BY <1>1, CreatedPc DEF SoundInv, RunnerSound
<1>4. PICK k \in 0 .. run.count : proc[r].c = Uninterrupted(run.identity, k)
  BY <1>1, <1>3 DEF ProcKept
<1>5. run.identity \in Settings /\ run.count \in 0 .. EventCount /\ EventCount \in Nat \ {0}
  BY <1>3, SourceFacts DEF RowKept
<1> DEFINE P(n) == [proc[r] EXCEPT !.pc = "publishing", !.batch = DurableBatch(proc[r], Source[n])]
<1>6. CASE proc' = [proc EXCEPT ![r] = Idle]
  BY <1>1, <1>2, <1>6, SoundStep, IdleSound
<1>7. CASE \E n \in Suffix(proc[r].c) :
               /\ \A j \in Suffix(proc[r].c) : n <= j
               /\ PublishAccepted(proc[r].c, proc[r].settings, Source[n])
               /\ proc' = [proc EXCEPT ![r] = P(n)]
  <2>1. PICK n \in Suffix(proc[r].c) :
               /\ \A j \in Suffix(proc[r].c) : n <= j
               /\ PublishAccepted(proc[r].c, proc[r].settings, Source[n])
               /\ proc' = [proc EXCEPT ![r] = P(n)]
    BY <1>7
  <2>2. n \in (k + 1) .. EventCount /\ \A j \in (k + 1) .. EventCount : n <= j
    BY <2>1, <1>4, <1>5, SuffixFacts
  <2>3. n = k + 1 /\ k \in 0 .. (EventCount - 1) /\ k \in 0 .. EventCount
    BY <1>5, <2>2
  <2> DEFINE c == proc[r].c
             b == DurableBatch(proc[r], Source[n])
             p == P(n)
  <2>4. CoordinatorKept(c, k)
    BY <1>4, <1>5, <2>3, UninterruptedKept
  <2>5. Sound(Publish(c, run.identity, Source[n]), run.identity)
    BY <1>3, <1>5, <2>1, <2>3, <2>4, PublishSound
  <2>6. b.c = Publish(c, run.identity, Source[n])
    BY <1>3 DEF DurableBatch
  <2> HIDE DEF b, c
  <2>7. p.pc = "publishing" /\ p.settings = run.identity /\ p.batch = b
    BY <1>3 DEF IInv, ProcFields, b
  <2> HIDE DEF p, P
  <2>8. RunnerSound(p)
    BY <2>5, <2>6, <2>7 DEF RunnerSound
  <2> QED
    BY <1>1, <1>2, <2>1, <2>8, SoundStep DEF p
<1> QED
  BY <1>6, <1>7 DEF PublishNext

LEMMA CommitAppliedSound ==
    ASSUME IInv, SoundInv, NEW r \in Runners, CommitApplied(r)
    PROVE  SoundInv'
<1> DEFINE b == proc[r].batch
<1>1. /\ proc[r].pc = "publishing" /\ run' = CommittedRun(b)
      /\ proc' = [proc EXCEPT ![r].pc = "reload"]
  BY DEF CommitApplied
<1>2. RowKept /\ proc[r].settings = run.identity /\ Sound(b.c, proc[r].settings)
  BY <1>1, CreatedPc DEF SoundInv, RunnerSound
<1> HIDE DEF b
<1>3. run'.c = b.c /\ run'.identity = run.identity
  BY <1>1, <1>2 DEF CommittedRun, RowKept
<1>4. /\ proc'[r].pc = "reload" /\ proc'[r].settings = proc[r].settings /\ proc'[r].batch = b
      /\ \A q \in Runners : q # r => proc'[q] = proc[q]
  BY <1>1 DEF IInv, ProcFields, b
<1>5. \A q \in Runners : RunnerSound(proc'[q])
  BY <1>2, <1>4 DEF SoundInv, RunnerSound
<1> QED
  BY <1>2, <1>3, <1>5 DEF SoundInv

LEMMA CommitEndsSound ==
    ASSUME IInv, SoundInv, NEW r \in Runners, CommitDuplicate(r) \/ CommitConflict(r)
    PROVE  SoundInv'
<1>1. proc[r].pc = "publishing" /\ run' = run
  BY DEF CommitDuplicate, CommitConflict, durable
<1>2. ~Opening /\ Sound(proc[r].batch.c, proc[r].settings)
  BY <1>1 DEF Opening, SoundInv, RunnerSound
<1>3. CASE CommitDuplicate(r)
  <2> DEFINE p == [proc[r] EXCEPT !.pc = "reload"]
  <2>1. proc' = [proc EXCEPT ![r] = p]
    BY <1>3 DEF CommitDuplicate
  <2>2. p.pc = "reload" /\ p.settings = proc[r].settings /\ p.batch = proc[r].batch
    BY DEF IInv, ProcFields
  <2> HIDE DEF p
  <2>3. RunnerSound(p)
    BY <1>2, <2>2 DEF RunnerSound
  <2> QED
    BY <1>1, <1>2, <2>1, <2>3, SoundStep
<1>4. CASE CommitConflict(r)
  <2>1. proc' = [proc EXCEPT ![r] = Idle]
    BY <1>4 DEF CommitConflict
  <2> QED
    BY <1>1, <1>2, <2>1, SoundStep, IdleSound
<1> QED
  BY <1>3, <1>4

LEMMA ReadRowSound ==
    ASSUME IInv, SoundInv, NEW r \in Runners, ReadRow(r)
    PROVE  SoundInv'
<1> DEFINE p == [proc[r] EXCEPT !.pc = "ledger", !.version = run.version, !.cursor = run.cursor]
<1>1. proc[r].pc = "reload" /\ run' = run /\ proc' = [proc EXCEPT ![r] = p]
  BY DEF ReadRow, durable
<1>2. ~Opening /\ Sound(proc[r].batch.c, proc[r].settings)
  BY <1>1 DEF Opening, SoundInv, RunnerSound
<1>3. p.pc = "ledger" /\ p.settings = proc[r].settings /\ p.batch = proc[r].batch
  BY DEF IInv, ProcFields
<1> HIDE DEF p
<1>4. RunnerSound(p)
  BY <1>2, <1>3 DEF RunnerSound
<1> QED
  BY <1>1, <1>2, <1>4, SoundStep

LEMMA ReloadSound ==
    ASSUME IInv, SoundInv, NEW r \in Runners, Reload(r)
    PROVE  SoundInv'
<1> DEFINE p == [proc[r] EXCEPT !.pc = "ready", !.c = proc[r].batch.c, !.batch = None]
<1>1. /\ proc[r].pc = "ledger" /\ run' = run
      /\ proc' = [proc EXCEPT ![r] = p] \/ proc' = [proc EXCEPT ![r] = Idle]
  BY DEF Reload, durable
<1>2. ~Opening /\ Sound(proc[r].batch.c, proc[r].settings)
  BY <1>1 DEF Opening, SoundInv, RunnerSound
<1>3. p.pc = "ready" /\ p.settings = proc[r].settings /\ p.c = proc[r].batch.c
  BY DEF IInv, ProcFields
<1> HIDE DEF p
<1>4. RunnerSound(p)
  BY <1>2, <1>3 DEF RunnerSound
<1> QED
  BY <1>1, <1>2, <1>4, SoundStep, IdleSound

LEMMA CompleteSound ==
    ASSUME IInv, SoundInv, NEW r \in Runners, Complete(r)
    PROVE  SoundInv'
<1>1. proc[r].pc = "ready"
  BY DEF Complete
<1>2. ~Opening /\ RowKept
  BY <1>1, CreatedPc DEF Opening
<1>3. CASE proc' = [proc EXCEPT ![r] = Idle] /\ run' = run
  BY <1>2, <1>3, SoundStep, IdleSound
<1>4. CASE /\ run' = [run EXCEPT !.status = "complete", !.version = @ + 1]
           /\ proc' = [proc EXCEPT ![r].pc = "completed"]
  <2>1. run'.c = run.c /\ run'.identity = run.identity
    BY <1>2, <1>4 DEF RowKept
  <2>2. /\ proc'[r].pc = "completed"
        /\ \A q \in Runners : q # r => proc'[q] = proc[q]
    BY <1>4 DEF IInv, ProcFields
  <2>3. \A q \in Runners : RunnerSound(proc'[q])
    BY <2>2 DEF SoundInv, RunnerSound
  <2> QED
    BY <1>2, <2>1, <2>3 DEF SoundInv
<1> QED
  BY <1>3, <1>4 DEF Complete

LEMMA EndsSound ==
    ASSUME IInv, SoundInv, NEW r \in Runners, ReadOutbox(r) \/ Crash(r)
    PROVE  SoundInv'
<1>1. run' = run /\ proc' = [proc EXCEPT ![r] = Idle]
  BY DEF ReadOutbox, Crash, durable
<1>2. CASE Opening
  <2>1. proc[r].pc # "completed"
    BY <1>2 DEF Opening
  <2>2. Crash(r)
    BY <2>1 DEF ReadOutbox
  <2> QED
    BY <1>2, <2>2, CrashInv, OpeningSound
<1>3. CASE ~Opening
  BY <1>1, <1>3, SoundStep, IdleSound
<1> QED
  BY <1>2, <1>3

LEMMA SoundNext == IInv /\ SoundInv /\ [Next]_vars => SoundInv'
<1> SUFFICES ASSUME IInv, SoundInv, [Next]_vars PROVE SoundInv'
  OBVIOUS
<1>1. CASE UNCHANGED vars
  BY <1>1 DEF vars, SoundInv, Opening
<1>2. CASE Next
  <2>1. PICK r \in Runners :
            \/ \E settings \in Settings : Reserve(r, settings) \/ Resume(r, settings)
            \/ Step(r)
            \/ Crash(r)
    BY <1>2 DEF Next
  <2>2. CASE \E settings \in Settings : Reserve(r, settings) \/ Resume(r, settings)
    BY <2>2, ReserveInv, OpeningSound, ResumeSound
  <2>3. CASE Step(r)
    BY <2>3, InitializeSchemaInv, OpeningSound, CreateRunSound, HydrateCreatedSound,
       PublishNextSound, CommitAppliedSound, CommitEndsSound, ReadRowSound, ReloadSound,
       CompleteSound, EndsSound DEF Step
  <2>4. CASE Crash(r)
    BY <2>4, EndsSound
  <2> QED
    BY <2>1, <2>2, <2>3, <2>4
<1> QED
  BY <1>1, <1>2

LEMMA SoundInvHolds == Spec => [](IInv /\ SoundInv)
<1>1. Init => IInv /\ SoundInv
  <2> SUFFICES ASSUME Init PROVE IInv /\ SoundInv
    OBVIOUS
  <2>1. IInv /\ Opening
    <3>1. DOMAIN batches = {} /\ DOMAIN outbox = {}
      BY EmptyList DEF Init, Empty
    <3>2. IInv
      BY InitInv
    <3> QED
      BY <3>1, <3>2, IdleKept DEF Init, Opening
  <2>2. \A q \in Runners : RunnerSound(proc[q])
    BY <2>1 DEF Opening, RunnerSound
  <2> QED
    BY <2>1, <2>2 DEF SoundInv
<1>2. (IInv /\ SoundInv) /\ [Next]_vars => (IInv /\ SoundInv)'
  BY NextInv, SoundNext
<1> QED
  BY <1>1, <1>2, PTL DEF Spec

-----------------------------------------------------------------------------
(* The ledger of batches *)

\* The first k ingest sequences.
LEMMA SequencesCounted ==
    ASSUME NEW k \in 0 .. EventCount, NEW D,
           \A q : q \in D <=> \E n \in 1 .. k : q = Source[n].sequence
    PROVE  Cardinality(D) = k
<1> DEFINE f == [n \in 1 .. k |-> Source[n].sequence]
<1>1. k \in Nat /\ \A n \in 1 .. k : n \in 1 .. EventCount
  BY SourceFacts
<1>2. f \in [1 .. k -> D]
  OBVIOUS
<1>3. \A n, j \in 1 .. k : f[n] = f[j] => n = j
  BY <1>1, SameSequence
<1>4. \A q \in D : \E n \in 1 .. k : f[n] = q
  OBVIOUS
<1> HIDE DEF f
<1>5. f \in Bijection(1 .. k, D)
  BY <1>2, <1>3, <1>4 DEF Bijection, Injection, Surjection, IsInjective
<1>6. ExistsBijection(1 .. k, D)
  BY <1>5 DEF ExistsBijection
<1> QED
  BY <1>1, <1>6, FS_CountingElements

LEMMA LedgerLoads ==
    ASSUME RowKept
    PROVE  LoadAccepted
<1> DEFINE k == run.count
           versions == {batches[q].version : q \in DOMAIN batches}
<1>1. /\ k \in 0 .. EventCount /\ EventCount \in Nat \ {0} /\ DOMAIN Source = 1 .. EventCount
      /\ \A n \in 1 .. EventCount : Source[n].sequence \in Nat
      /\ 1 \in 1 .. EventCount /\ EventCount \in 1 .. EventCount
  BY SourceFacts DEF RowKept
<1>2. \A q : q \in DOMAIN batches <=> \E n \in 1 .. k : q = Source[n].sequence
  BY DEF RowKept
<1>3. k = 0 => run.cursor = None
  BY DEF RowKept
<1>4. k # 0 => /\ k \in 1 .. k /\ k \in 1 .. EventCount /\ run.cursor = Source[k].sequence
               /\ run.cursor \in Nat /\ run.cursor # None
  BY <1>1, NoneIsNoNumber DEF RowKept
<1>5. \A n \in 1 .. k : n \in 1 .. EventCount /\ batches[Source[n].sequence].version = n
  BY <1>1 DEF RowKept
<1>6. \A n, j \in 1 .. EventCount : n <= j => Source[n].sequence <= Source[j].sequence
  <2> TAKE n, j \in 1 .. EventCount
  <2>1. Source[n].sequence \in Nat /\ Source[j].sequence \in Nat
    BY <1>1
  <2>2. n < j => Source[n].sequence < Source[j].sequence
    BY SourceOrder
  <2> QED
    BY <2>1, <2>2
<1>7. FirstSequence = Source[1].sequence /\ LastSequence = Source[EventCount].sequence
  BY DEF FirstSequence, LastSequence
<1>8. Cardinality(DOMAIN batches) = k
  BY <1>1, <1>2, SequencesCounted
<1>9. run.status = "complete" => k = EventCount
  BY DEF RowKept
<1>10. run.version = k + (IF run.status = "complete" THEN 1 ELSE 0)
  BY DEF RowKept
<1> HIDE DEF k
<1>11. (run.cursor = None) <=> (k = 0)
  BY <1>3, <1>4
<1>12. run.cursor # None => run.cursor \in FirstSequence .. LastSequence
  <2> SUFFICES ASSUME run.cursor # None PROVE run.cursor \in FirstSequence .. LastSequence
    OBVIOUS
  <2>1. k # 0
    BY <1>3
  <2>2. Source[1].sequence <= Source[k].sequence /\ Source[k].sequence <= Source[EventCount].sequence
    BY <1>1, <1>4, <1>6, <2>1
  <2> QED
    BY <1>1, <1>4, <1>7, <2>1, <2>2
<1>13. run.status = "complete" => run.cursor = LastSequence /\ k = EventCount
  BY <1>1, <1>4, <1>7, <1>9
<1>14. ASSUME k > 0
       PROVE  /\ run.cursor \in DOMAIN batches
              /\ \A q \in DOMAIN batches : FirstSequence <= q /\ q <= run.cursor
              /\ k \in versions /\ \A v \in versions : v <= k
  <2>1. k # 0
    BY <1>14
  <2>2. run.cursor \in DOMAIN batches /\ batches[run.cursor].version = k
    BY <2>1, <1>2, <1>4, <1>5
  <2>3. ASSUME NEW q \in DOMAIN batches
        PROVE  FirstSequence <= q /\ q <= run.cursor /\ batches[q].version <= k
    <3>1. PICK n \in 1 .. k : q = Source[n].sequence
      BY <1>2
    <3>2. n \in 1 .. EventCount /\ n <= k /\ 1 <= n /\ batches[q].version = n
      BY <3>1, <1>1, <1>5
    <3> QED
      BY <3>1, <3>2, <2>1, <1>1, <1>4, <1>6, <1>7
  <2> QED
    BY <2>2, <2>3
<1> QED
  BY <1>8, <1>10, <1>11, <1>12, <1>13, <1>14 DEF LoadAccepted, k

LEMMA RowHydrates ==
    ASSUME RowKept
    PROVE  Hydratable(run.identity, run.c)
<1> DEFINE c == run.c
           k == run.count
<1>1. /\ k \in 0 .. EventCount /\ EventCount \in Nat /\ DOMAIN Source = 1 .. EventCount
      /\ \A n \in 1 .. EventCount : Source[n].sequence \in Nat
  BY SourceFacts DEF RowKept
<1>2. CoordinatorKept(c, k)
  BY UninterruptedKept DEF RowKept
<1>3. /\ k = 0 => run.cursor = None
      /\ k # 0 => run.cursor = Source[k].sequence /\ k \in 1 .. EventCount /\ run.cursor # None
  BY <1>1, NoneIsNoNumber DEF RowKept
<1> HIDE DEF c, k
<1>4. c.broker.last = run.cursor /\ (run.cursor # None => c.broker.bound = Session)
  BY <1>2, <1>3 DEF CoordinatorKept
<1>5. Cardinality(DOMAIN c.records) = k
  BY <1>1, <1>2, SequencesCounted DEF CoordinatorKept
<1> DEFINE prefix == {n \in DOMAIN Source : run.cursor # None /\ Source[n].sequence <= run.cursor}
<1>6. \A n : n \in prefix <=> n \in 1 .. k
  <2>1. CASE k = 0
    BY <2>1, <1>3
  <2>2. CASE k # 0
    <3>1. \A n \in 1 .. EventCount : Source[n].sequence <= Source[k].sequence <=> n <= k
      <4> TAKE n \in 1 .. EventCount
      <4>1. Source[n].sequence \in Nat /\ Source[k].sequence \in Nat /\ k \in 1 .. EventCount
        BY <1>1, <1>3, <2>2
      <4>2. /\ n < k => Source[n].sequence < Source[k].sequence
            /\ k < n => Source[k].sequence < Source[n].sequence
        BY <4>1, SourceOrder
      <4> QED
        BY <4>1, <4>2
    <3> QED
      BY <3>1, <2>2, <1>1, <1>3
  <2> QED
    BY <2>1, <2>2
<1> HIDE DEF prefix
<1>7. DOMAIN c.records = {Source[n].sequence : n \in prefix}
  BY <1>2, <1>6 DEF CoordinatorKept
<1>8. \A n \in prefix : c.records[Source[n].sequence].envelope = Source[n]
  BY <1>2, <1>6 DEF CoordinatorKept
<1>9. \A e \in ToSet(c.broker.events) : e.session = Session /\ e.sequence \in DOMAIN c.records
  <2>1. DOMAIN c.broker.events = 1 .. Len(c.broker.events)
    BY <1>2, ListFacts DEF CoordinatorKept, BatchState, IsState
  <2> QED
    BY <2>1, <1>2 DEF ToSet, CoordinatorKept
<1>10. PrefixCommitted(c, run.cursor)
  BY <1>7, <1>8, <1>9 DEF PrefixCommitted, prefix
<1> QED
  BY <1>4, <1>5, <1>10, LedgerLoads DEF Hydratable, c, k

\* What _validate_committed_prefix, load_run and restore_checkpoint demand of the
\* row: at every moment a runner could die a resume with the same settings goes
\* through, provided that no quote filled two orders (see RestorableHolds).
THEOREM ResumeAcceptsHolds ==
    Spec => []((run # None => FilledApart(run.c.broker)) => ResumeAccepts)
<1>1. IInv /\ SoundInv => ((run # None => FilledApart(run.c.broker)) => ResumeAccepts)
  <2> SUFFICES ASSUME IInv, SoundInv, run # None, FilledApart(run.c.broker)
               PROVE  Hydratable(run.identity, run.c) /\ Restorable(run.identity, run.c)
    BY DEF ResumeAccepts
  <2>1. RowKept /\ Sound(run.c, run.identity)
    BY DEF IInv, SoundInv, Opening, Created
  <2>2. Hydratable(run.identity, run.c)
    BY <2>1, RowHydrates
  <2>3. CheckpointValid(run.c.broker) /\ CoordinatorValid(run.c, run.identity)
    BY <2>1, KeptIsRestorable DEF Sound, CheckpointValid
  <2> QED
    BY <2>2, <2>3 DEF Restorable
<1> QED
  BY <1>1, SoundInvHolds, PTL

=============================================================================
