------------------------ MODULE RecordedSessionProofs ------------------------
(***************************************************************************)
(* Theorems about SQLiteMarketDataWriter and RecordedSession, for any      *)
(* number of clients, any queue capacity, any batch size and any captured  *)
(* events, repeated ones included.                                         *)
(*                                                                         *)
(* The writer: the events from the oldest durable one to the newest        *)
(* accepted one are numbered without a gap, durable first, then the batch, *)
(* the item in the worker's hand and the queue.  A barrier in the queue is *)
(* ahead of every event it does not cover, so that it covers nothing but   *)
(* taken events when its turn comes, and the stop token is the last item.  *)
(*                                                                         *)
(* The repository: a batch follows all that is durable, and of it those    *)
(* events are stored whose key is new, the first of each key.  So the log  *)
(* ascends, has each key once and covers whatever is durable; an ascending *)
(* list is the only one of its members, so that it is what is read back.   *)
(***************************************************************************)
EXTENDS RecordedSession, FiniteSetTheorems, WellFoundedInduction, TLAPS

QueueItems == [kind : {"event", "barrier", "stop"}, n : Nat]

Barriers == [covers : Nat, outcome : {"waiting", "ok", "fatal"}]

ClientPlaces ==
    [at : {"ready", "flushing", "putting", "joining"}, barrier : Nat,
     result : {"none", "ok", "fatal", "timeout", "stopped", "backpressure", "invalid state"}]

WorkerPlaces ==
    [at : {"unstarted", "get", "item", "write", "count", "finish", "fail", "notify", "drain",
           "ended"},
     item : [kind : {"event", "barrier", "stop", "tick", "none"}, n : Nat]]

TypeOK ==
    /\ state \in {"new", "running", "stopping", "stopped", "failed"}
    /\ queue \in Seq(QueueItems)
    /\ accepted \in Nat /\ persisted \in Nat
    /\ barriers \in Seq(Barriers)
    /\ clients \in [Clients -> ClientPlaces]
    /\ worker \in WorkerPlaces
    /\ batch \in Seq(Nat) /\ durable \in Seq(Nat)

\* The worker has not failed, and still takes items.
Working == worker.at \in {"get", "item", "write", "count", "finish"}

Holding == worker.at \in {"item", "write", "count", "finish"}

\* The newest event that is out of the queue.
Taken ==
    Len(durable) + (IF worker.at = "count" THEN 0 ELSE Len(batch))
        + (IF worker.at = "item" /\ worker.item.kind = "event" THEN 1 ELSE 0)

\* Each thread's place fits the writer's state.
StatesFit ==
    /\ state = "new" => worker.at = "unstarted" /\ accepted = 0 /\ Len(durable) = 0
                          /\ queue = <<>> /\ batch = <<>>
    /\ worker.at = "unstarted" => state \in {"new", "stopped"}
    /\ worker.at \in {"get", "item", "write", "count", "finish", "fail"} =>
          state \in {"running", "stopping"}
    /\ worker.at \in {"notify", "drain"} => state = "failed"
    /\ worker.at = "ended" => state \in {"stopped", "failed"}
    /\ state = "stopped" => accepted = Len(durable)

\* There is one stop token at most, put by the one client that may put it, and no
\* event and no barrier comes after it.
TokenIsLast ==
    /\ \A c, d \in Clients :
          clients[c].at = "putting" /\ clients[d].at = "putting" => c = d
    /\ (\E c \in Clients : clients[c].at = "putting") =>
          /\ state \in {"stopping", "failed"}
          /\ \A i \in DOMAIN queue : queue[i].kind # "stop"
          /\ Holding => worker.item.kind # "stop"
    /\ \A i \in DOMAIN queue :
          queue[i].kind = "stop" =>
              /\ i = Len(queue) /\ state \in {"stopping", "failed"}
              /\ Holding => worker.item.kind # "stop"
    /\ Holding /\ worker.item.kind = "stop" => state = "stopping" /\ queue = <<>>

\* What is taken continues what is durable, and the queue continues what is taken.
EventsConsecutive ==
    /\ InOrder(durable)
    /\ Working =>
          /\ worker.at # "count" => \A i \in DOMAIN batch : batch[i] = Len(durable) + i
          /\ worker.at = "finish" => batch = <<>>
          /\ worker.at = "item" /\ worker.item.kind = "event" => worker.item.n = Taken
          /\ Taken <= accepted
          /\ \A i \in DOMAIN queue :
                queue[i].kind = "event" => queue[i].n > Taken /\ queue[i].n <= accepted
          /\ \A i, j \in DOMAIN queue :
                i < j /\ queue[i].kind = "event" /\ queue[j].kind = "event" =>
                    queue[i].n < queue[j].n
          /\ \A n \in Taken + 1 .. accepted : \E i \in DOMAIN queue : queue[i] = Event(n)

CountersAgree ==
    /\ worker.at # "count" => persisted = Len(durable)
    /\ worker.at = "count" => persisted + Len(batch) = Len(durable)

\* A barrier has no event behind it that it covers.
BarriersInPlace ==
    /\ \A b \in DOMAIN barriers : barriers[b].covers <= accepted
    /\ \A i \in DOMAIN queue : queue[i].kind = "barrier" => queue[i].n \in DOMAIN barriers
    /\ Working =>
          \A i, j \in DOMAIN queue :
              i < j /\ queue[i].kind = "barrier" /\ queue[j].kind = "event" =>
                  barriers[queue[i].n].covers < queue[j].n
    /\ \A c \in Clients :
          clients[c].at = "flushing" => clients[c].barrier \in DOMAIN barriers
    /\ Holding /\ worker.item.kind = "barrier" =>
          /\ worker.item.n \in DOMAIN barriers
          /\ barriers[worker.item.n].covers <= Taken

IInv ==
    /\ TypeOK /\ StatesFit /\ TokenIsLast /\ EventsConsecutive /\ CountersAgree
    /\ BarriersInPlace /\ FlushCoversEarlierEvents

-----------------------------------------------------------------------------
(* Types *)

\* A client that returns is ready.
LEMMA ReturnType ==
    ASSUME TypeOK, NEW c \in Clients,
           NEW r \in {"none", "ok", "fatal", "timeout", "stopped", "backpressure", "invalid state"},
           Return(c, r)
    PROVE  clients' \in [Clients -> ClientPlaces]
  BY DEF TypeOK, Return, Ready, ClientPlaces

\* The items that are put into the queue.
LEMMA ItemTypes ==
    /\ \A n \in Nat : Event(n) \in QueueItems /\ Barrier(n) \in QueueItems
    /\ StopToken \in QueueItems
  BY DEF Event, Barrier, StopToken, QueueItems

\* The worker's next place with the item in its hand.
LEMMA WorkerType ==
    ASSUME TypeOK,
           NEW pc \in {"unstarted", "get", "item", "write", "count", "finish", "fail", "notify",
                       "drain", "ended"}
    PROVE  /\ At(pc, Nothing) \in WorkerPlaces /\ At(pc, Tick) \in WorkerPlaces
           /\ At(pc, worker.item) \in WorkerPlaces
           /\ \A x \in QueueItems : At(pc, x) \in WorkerPlaces
  BY DEF TypeOK, At, Nothing, Tick, WorkerPlaces, QueueItems

\* The outcome of a barrier is set once it is answered.
LEMMA OutcomeType ==
    ASSUME TypeOK, NEW b \in DOMAIN barriers, NEW o \in {"ok", "fatal"}
    PROVE  LET new == [barriers EXCEPT ![b].outcome = o]
           IN  /\ new \in Seq(Barriers) /\ DOMAIN new = DOMAIN barriers
               /\ \A x \in DOMAIN barriers :
                     /\ new[x].covers = barriers[x].covers
                     /\ x # b => new[x] = barriers[x]
               /\ new[b].outcome = o
  <1>0. barriers[b] \in Barriers
    BY DEF TypeOK
  <1>1. [barriers[b] EXCEPT !.outcome = o] \in Barriers
    BY <1>0 DEF Barriers
  <1>2. [barriers EXCEPT ![b] = [barriers[b] EXCEPT !.outcome = o]] \in Seq(Barriers)
    BY <1>1 DEF TypeOK
  <1>3. QED
    BY <1>0, <1>1, <1>2 DEF TypeOK, Barriers

\* Every step keeps the types.
LEMMA TypeStep == IInv /\ [Next]_vars => TypeOK'
  <1> SUFFICES ASSUME IInv, [Next]_vars PROVE TypeOK'
    OBVIOUS
  <1>a. TypeOK
    BY DEF IInv
  <1>1. ASSUME NEW c \in Clients, Start(c) PROVE TypeOK'
    BY <1>1, <1>a, ReturnType, ItemTypes, WorkerType DEF TypeOK, Start
  <1>2. ASSUME NEW c \in Clients, Publish(c) PROVE TypeOK'
    <2>1. queue' \in Seq(QueueItems) /\ accepted' \in Nat
      BY <1>2, <1>a, ItemTypes DEF TypeOK, Publish
    <2> QED
      BY <2>1, <1>2, <1>a, ReturnType DEF TypeOK, Publish
  <1>3. ASSUME NEW c \in Clients, Flush(c) PROVE TypeOK'
    <2>1. [covers |-> accepted, outcome |-> "waiting"] \in Barriers
      BY <1>a DEF TypeOK, Barriers
    <2>2. barriers' \in Seq(Barriers)
      BY <2>1, <1>3, <1>a DEF TypeOK, Flush
    <2>3. queue' \in Seq(QueueItems)
      BY <1>3, <1>a, ItemTypes DEF TypeOK, Flush
    <2>4. clients' \in [Clients -> ClientPlaces]
      <3>1. Len(barriers) + 1 \in Nat
        BY <1>a DEF TypeOK
      <3>2. [at |-> "flushing", barrier |-> Len(barriers) + 1, result |-> "none"] \in ClientPlaces
        BY <3>1 DEF ClientPlaces
      <3> QED
        BY <3>2, <1>3, <1>a DEF TypeOK, Flush
    <2> QED
      BY <2>2, <2>3, <2>4, <1>3, <1>a DEF TypeOK, Flush
  <1>4. ASSUME NEW c \in Clients, FlushReturns(c) PROVE TypeOK'
    <2>1. barriers[clients[c].barrier] \in Barriers
      BY <1>4, <1>a DEF TypeOK, FlushReturns, IInv, BarriersInPlace
    <2>2. barriers[clients[c].barrier].outcome \in {"ok", "fatal"}
      BY <2>1, <1>4 DEF FlushReturns, Barriers
    <2> QED
      BY <2>2, <1>4, <1>a, ReturnType DEF TypeOK, FlushReturns
  <1>5. ASSUME NEW c \in Clients, FlushTimesOut(c) PROVE TypeOK'
    BY <1>5, <1>a, ReturnType, ItemTypes, WorkerType DEF TypeOK, FlushTimesOut
  <1>6. ASSUME NEW c \in Clients, RequestStop(c) PROVE TypeOK'
    <2>1. clients[c] \in ClientPlaces
      BY <1>a DEF TypeOK
    <2>2. \A place \in {"putting", "joining"} :
             [clients[c] EXCEPT !.at = place, !.result = "none"] \in ClientPlaces
      BY <2>1 DEF ClientPlaces
    <2>3. clients' \in [Clients -> ClientPlaces]
      BY <2>2, <1>6, <1>a, ReturnType DEF TypeOK, RequestStop
    <2> QED
      BY <2>3, <1>6, <1>a DEF TypeOK, RequestStop
  <1>7. ASSUME NEW c \in Clients, PutStopToken(c) PROVE TypeOK'
    <2>1. clients[c] \in ClientPlaces
      BY <1>a DEF TypeOK
    <2>2. [clients[c] EXCEPT !.at = "joining"] \in ClientPlaces
      BY <2>1 DEF ClientPlaces
    <2>3. clients' \in [Clients -> ClientPlaces]
      BY <2>2, <1>7, <1>a DEF TypeOK, PutStopToken
    <2>4. queue' \in Seq(QueueItems)
      BY <1>7, <1>a, ItemTypes DEF TypeOK, PutStopToken
    <2> QED
      BY <2>3, <2>4, <1>7, <1>a DEF TypeOK, PutStopToken
  <1>8. ASSUME NEW c \in Clients, PutTimesOut(c) PROVE TypeOK'
    BY <1>8, <1>a, ReturnType, ItemTypes, WorkerType DEF TypeOK, PutTimesOut
  <1>9. ASSUME NEW c \in Clients, JoinReturns(c) PROVE TypeOK'
    BY <1>9, <1>a, ReturnType, ItemTypes, WorkerType DEF TypeOK, JoinReturns
  <1>10. ASSUME NEW c \in Clients, JoinTimesOut(c) PROVE TypeOK'
    BY <1>10, <1>a, ReturnType, ItemTypes, WorkerType DEF TypeOK, JoinTimesOut
  <1>11. CASE Get
    <2>1. queue # <<>> => Head(queue) \in QueueItems /\ Tail(queue) \in Seq(QueueItems)
      BY <1>a DEF TypeOK
    <2>2. queue' \in Seq(QueueItems) /\ worker' \in WorkerPlaces
      BY <2>1, <1>11, <1>a, WorkerType DEF TypeOK, Get
    <2> QED
      BY <2>2, <1>11, <1>a DEF TypeOK, Get
  <1>12. CASE Take
    <2>1. worker.item.n \in Nat
      BY <1>a DEF TypeOK, WorkerPlaces
    <2>2. batch' \in Seq(Nat)
      BY <2>1, <1>12, <1>a DEF TypeOK, Take
    <2>3. worker' \in WorkerPlaces
      BY <1>12, <1>a, WorkerType DEF Take
    <2> QED
      BY <2>2, <2>3, <1>12, <1>a DEF TypeOK, Take
  <1>13. CASE Count
    BY <1>13, <1>a, ItemTypes, WorkerType, OutcomeType DEF TypeOK, Count
  <1>14. CASE Finish
    <2>1. worker' \in WorkerPlaces
      BY <1>14, <1>a, WorkerType DEF Finish
    <2>2. barriers' \in Seq(Barriers)
      <3>1. worker.item.kind = "barrier" => worker.item.n \in DOMAIN barriers
        BY <1>14 DEF Finish, IInv, BarriersInPlace, Holding
      <3> QED
        BY <3>1, <1>14, <1>a, OutcomeType DEF Finish, TypeOK
    <2> QED
      BY <2>1, <2>2, <1>14, <1>a DEF TypeOK, Finish
  <1>15. CASE Fail
    BY <1>15, <1>a, ItemTypes, WorkerType, OutcomeType DEF TypeOK, Fail
  <1>16. CASE Notify
    BY <1>16, <1>a, ItemTypes, WorkerType, OutcomeType DEF TypeOK, Notify
  <1>17. CASE Drain
    <2>1. queue # <<>> => Head(queue) = queue[1] /\ 1 \in DOMAIN queue
      BY <1>a DEF TypeOK
    <2>2. queue # <<>> => Tail(queue) \in Seq(QueueItems)
      BY <1>a DEF TypeOK
    <2>3. barriers' \in Seq(Barriers)
      <3>1. queue # <<>> /\ Head(queue).kind = "barrier" => Head(queue).n \in DOMAIN barriers
        BY <2>1 DEF IInv, BarriersInPlace
      <3>2. CASE queue # <<>> /\ Head(queue).kind = "barrier"
        <4>1. barriers' = [barriers EXCEPT ![Head(queue).n].outcome = "fatal"]
          BY <3>2, <1>17 DEF Drain
        <4> QED
          BY <3>1, <3>2, <4>1, <1>a, OutcomeType
      <3>3. CASE ~(queue # <<>> /\ Head(queue).kind = "barrier")
        BY <3>3, <1>17, <1>a DEF Drain, TypeOK
      <3> QED
        BY <3>2, <3>3
    <2>4. worker' \in WorkerPlaces
      BY <1>17, <1>a, WorkerType DEF Drain, TypeOK
    <2> QED
      BY <2>2, <2>3, <2>4, <1>17, <1>a DEF TypeOK, Drain
  <1>18. CASE Write
    BY <1>18, <1>a, ItemTypes, WorkerType, OutcomeType DEF TypeOK, Write
  <1>19. CASE WriteFails
    <2>1. worker' \in WorkerPlaces
      BY <1>19, <1>a, WorkerType DEF WriteFails
    <2>2. barriers' \in Seq(Barriers)
      <3>1. worker.item.kind = "barrier" => worker.item.n \in DOMAIN barriers
        BY <1>19 DEF WriteFails, IInv, BarriersInPlace, Holding
      <3> QED
        BY <3>1, <1>19, <1>a, OutcomeType DEF WriteFails, TypeOK
    <2> QED
      BY <2>1, <2>2, <1>19, <1>a DEF TypeOK, WriteFails
  <1>20. CASE UNCHANGED vars
    BY <1>20, <1>a DEF vars, TypeOK
  <1> QED
    BY <1>1, <1>2, <1>3, <1>4, <1>5, <1>6, <1>7, <1>8, <1>9, <1>10, <1>11, <1>12, <1>13, <1>14, <1>15, <1>16, <1>17, <1>18, <1>19, <1>20
       DEF Next, ClientStep, ClientCall, ClientWait, ClientTimeout, WorkerStep, QueueStep

-----------------------------------------------------------------------------
(* Helpers *)

\* Appending to and taking from the queue.
LEMMA QueueFacts ==
    ASSUME TypeOK
    PROVE  /\ Len(queue) \in Nat /\ DOMAIN queue = 1 .. Len(queue)
           /\ \A x \in QueueItems :
                 LET q == Append(queue, x)
                 IN  /\ DOMAIN q = 1 .. Len(queue) + 1 /\ Len(q) = Len(queue) + 1
                     /\ \A i \in 1 .. Len(queue) : q[i] = queue[i]
                     /\ q[Len(queue) + 1] = x
           /\ queue # <<>> =>
                 LET q == Tail(queue)
                 IN  /\ DOMAIN q = 1 .. Len(queue) - 1 /\ Len(q) = Len(queue) - 1
                     /\ \A i \in 1 .. Len(queue) - 1 : q[i] = queue[i + 1]
                     /\ Head(queue) = queue[1] /\ 1 \in DOMAIN queue
           /\ \A i \in DOMAIN queue : queue[i] \in QueueItems
  BY DEF TypeOK

\* Nothing follows the only item of a queue.
LEMMA TailOfOne ==
  ASSUME NEW S, NEW s \in Seq(S), Len(s) = 1
  PROVE  Tail(s) = <<>> /\ DOMAIN Tail(s) = {}
  <1>1. Len(Tail(s)) = 0 /\ Tail(s) \in Seq(S)
    OBVIOUS
  <1>2. \A t \in Seq(S) : Len(t) = 0 => t = <<>> /\ DOMAIN t = {}
    OBVIOUS
  <1> QED
    BY <1>1, <1>2

\* A place of the worker has the two parts it is made of.
LEMMA AtFacts == \A pc, x : At(pc, x).at = pc /\ At(pc, x).item = x
  BY DEF At

LEMMA ItemKinds ==
    /\ \A n : Event(n).kind = "event" /\ Event(n).n = n
    /\ \A n : Barrier(n).kind = "barrier" /\ Barrier(n).n = n
    /\ StopToken.kind = "stop" /\ Tick.kind = "tick" /\ Nothing.kind = "none"
  BY DEF Event, Barrier, StopToken, Tick, Nothing

\* A client that returns is neither putting nor flushing; the others stay where they are.
LEMMA ReturnFacts ==
    ASSUME TypeOK, NEW c \in Clients, NEW r, Return(c, r)
    PROVE  /\ clients'[c].at = "ready"
           /\ \A d \in Clients \ {c} : clients'[d] = clients[d]
  BY DEF TypeOK, Return, Ready

\* Steps of clients leave the worker's variables alone, except that start starts it.
LEMMA ClientFrame ==
    ASSUME NEW c \in Clients, ClientCall(c) \/ ClientWait(c) \/ ClientTimeout(c)
    PROVE  /\ UNCHANGED <<batch, durable, persisted, notified>>
           /\ UNCHANGED worker \/ Start(c)
  BY DEF ClientCall, ClientWait, ClientTimeout, Start, Publish, Flush, FlushReturns, FlushTimesOut,
         RequestStop, PutStopToken, PutTimesOut, JoinReturns, JoinTimesOut

-----------------------------------------------------------------------------
(* Each part of the invariant is preserved *)

LEMMA CountersStep == IInv /\ [Next]_vars => CountersAgree'
  <1> SUFFICES ASSUME IInv, [Next]_vars PROVE CountersAgree'
    OBVIOUS
  <1>a. TypeOK /\ CountersAgree
    BY DEF IInv
  <1>1. ASSUME NEW c \in Clients, ClientCall(c) \/ ClientWait(c) \/ ClientTimeout(c)
        PROVE  CountersAgree'
    <2>1. CASE UNCHANGED worker
      BY <2>1, <1>1, <1>a, ClientFrame DEF CountersAgree
    <2>2. CASE Start(c)
      BY <2>2, <1>1, <1>a, ClientFrame, AtFacts DEF CountersAgree, Start, IInv, StatesFit
    <2> QED
      BY <2>1, <2>2, <1>1, ClientFrame
  <1>2. CASE Write
    <2>1. Len(durable \o batch) = Len(durable) + Len(batch) /\ Len(durable) \in Nat
             /\ Len(batch) \in Nat
      BY <1>a DEF TypeOK
    <2> QED
      BY <2>1, <1>2, <1>a, AtFacts DEF Write, CountersAgree
  <1>3. CASE Count
    BY <1>3, <1>a, AtFacts DEF Count, CountersAgree, TypeOK
  <1>4. CASE Get \/ Take \/ Finish \/ Fail \/ Notify \/ Drain \/ WriteFails
    BY <1>4, <1>a, AtFacts
       DEF Get, Take, Finish, Fail, Notify, Drain, WriteFails, CountersAgree
  <1>5. CASE UNCHANGED vars
    BY <1>5, <1>a DEF vars, CountersAgree
  <1> QED
    BY <1>1, <1>2, <1>3, <1>4, <1>5 DEF Next, ClientStep, WorkerStep, QueueStep

LEMMA StatesStep == IInv /\ [Next]_vars => StatesFit'
  <1> SUFFICES ASSUME IInv, [Next]_vars PROVE StatesFit'
    OBVIOUS
  <1>a. TypeOK /\ StatesFit /\ TokenIsLast /\ EventsConsecutive
    BY DEF IInv
  <1>1. ASSUME NEW c \in Clients, ClientCall(c) PROVE StatesFit'
    <2>1. CASE Start(c)
      BY <2>1, <1>a, AtFacts DEF Start, StatesFit
    <2>2. CASE Publish(c) \/ Flush(c)
      BY <2>2, <1>a DEF Publish, Flush, RequireRunning, StatesFit
    <2>3. CASE RequestStop(c)
      BY <2>3, <1>a DEF RequestStop, StatesFit
    <2> QED
      BY <2>1, <2>2, <2>3, <1>1 DEF ClientCall
  <1>2. ASSUME NEW c \in Clients, PutStopToken(c) \/ PutTimesOut(c) PROVE StatesFit'
    <2>1. state \in {"stopping", "failed"}
      BY <1>2, <1>a DEF PutStopToken, PutTimesOut, TokenIsLast
    <2> QED
      BY <2>1, <1>2, <1>a DEF PutStopToken, PutTimesOut, StatesFit
  <1>3. ASSUME NEW c \in Clients,
               FlushReturns(c) \/ FlushTimesOut(c) \/ JoinReturns(c) \/ JoinTimesOut(c)
        PROVE  StatesFit'
    BY <1>3, <1>a DEF FlushReturns, FlushTimesOut, JoinReturns, JoinTimesOut, StatesFit
  <1>4. CASE Finish
    <2>1. CASE worker.item.kind = "stop"
      <3>1. queue = <<>> /\ Working /\ batch = <<>> /\ Len(batch) = 0 /\ DOMAIN queue = {}
        BY <2>1, <1>4, <1>a DEF Finish, TokenIsLast, Holding, EventsConsecutive, Working
      <3>2. Taken = Len(durable) /\ Taken \in Nat /\ accepted \in Nat
        BY <3>1, <1>4, <1>a DEF Finish, Taken, TypeOK
      <3>3. Taken <= accepted /\ ~ \E n \in Taken + 1 .. accepted : TRUE
        BY <3>1, <1>a DEF EventsConsecutive
      <3>4. accepted = Len(durable)
        <4>1. CASE accepted > Taken
          <5>1. accepted \in Taken + 1 .. accepted
            BY <4>1, <3>2
          <5> QED
            BY <5>1, <3>3
        <4> QED
          BY <4>1, <3>2, <3>3
      <3> QED
        BY <3>4, <2>1, <1>4, <1>a, AtFacts DEF Finish, StatesFit
    <2>2. CASE worker.item.kind # "stop"
      BY <2>2, <1>4, <1>a, AtFacts DEF Finish, StatesFit
    <2> QED
      BY <2>1, <2>2
  <1>5. CASE Get \/ Take \/ Write \/ Count \/ Fail \/ Notify \/ WriteFails
    BY <1>5, <1>a, AtFacts DEF Get, Take, Write, Count, Fail, Notify, WriteFails, StatesFit
  <1>6. CASE Drain
    BY <1>6, <1>a, AtFacts DEF Drain, StatesFit
  <1>7. CASE UNCHANGED vars
    BY <1>7, <1>a DEF vars, StatesFit
  <1> QED
    BY <1>1, <1>2, <1>3, <1>4, <1>5, <1>6, <1>7
       DEF Next, ClientStep, ClientWait, ClientTimeout, WorkerStep, QueueStep

LEMMA TokenStep == IInv /\ [Next]_vars => TokenIsLast'
  <1> SUFFICES ASSUME IInv, [Next]_vars PROVE TokenIsLast'
    OBVIOUS
  <1>a. TypeOK /\ StatesFit /\ TokenIsLast
    BY DEF IInv
  <1>1. ASSUME NEW c \in Clients, Start(c) PROVE TokenIsLast'
    <2>1. ~ \E d \in Clients : clients'[d].at = "putting"
      BY <1>1, <1>a, ReturnFacts DEF Start, TokenIsLast
    <2>2. queue' = queue /\ queue = <<>> /\ DOMAIN queue = {}
      BY <1>1, <1>a DEF Start, StatesFit
    <2>3. ~Holding'
      BY <1>1, AtFacts DEF Start, Holding
    <2> QED
      BY <2>1, <2>2, <2>3 DEF TokenIsLast
  <1>2. ASSUME NEW c \in Clients, NEW x \in QueueItems, x.kind # "stop",
               queue' = Append(queue, x), state = "running", UNCHANGED <<state, worker>>,
               \A d \in Clients : clients'[d].at = "putting" => clients[d].at = "putting"
        PROVE  TokenIsLast'
    <2>1. ~ \E d \in Clients : clients'[d].at = "putting"
      BY <1>2, <1>a DEF TokenIsLast
    <2>2. \A i \in DOMAIN queue' : queue'[i].kind # "stop"
      BY <1>2, <1>a, QueueFacts DEF TokenIsLast
    <2>3. Holding => worker.item.kind # "stop"
      BY <1>2, <1>a DEF TokenIsLast
    <2> QED
      BY <2>1, <2>2, <2>3, <1>2 DEF TokenIsLast, Holding
  <1>3. ASSUME NEW c \in Clients, Publish(c) PROVE TokenIsLast'
    <2>1. Event(accepted + 1) \in QueueItems /\ Event(accepted + 1).kind # "stop"
      BY <1>a, ItemTypes, ItemKinds DEF TypeOK
    <2> QED
      BY <2>1, <1>2, <1>3, <1>a, ReturnFacts DEF Publish, RequireRunning
  <1>4. ASSUME NEW c \in Clients, Flush(c) PROVE TokenIsLast'
    <2>1. Barrier(Len(barriers) + 1) \in QueueItems /\ Barrier(Len(barriers) + 1).kind # "stop"
      BY <1>a, ItemTypes, ItemKinds DEF TypeOK
    <2>2. \A d \in Clients : clients'[d].at = "putting" => clients[d].at = "putting"
      BY <1>4, <1>a DEF Flush, TypeOK
    <2> QED
      BY <2>1, <2>2, <1>2, <1>4 DEF Flush, RequireRunning
  <1>5. ASSUME NEW c \in Clients,
               FlushReturns(c) \/ FlushTimesOut(c) \/ JoinReturns(c) \/ JoinTimesOut(c)
        PROVE  TokenIsLast'
    <2>1. \A d \in Clients : clients'[d].at = "putting" => clients[d].at = "putting"
      BY <1>5, <1>a, ReturnFacts DEF FlushReturns, FlushTimesOut, JoinReturns, JoinTimesOut
    <2>2. UNCHANGED <<queue, state, worker>>
      BY <1>5 DEF FlushReturns, FlushTimesOut, JoinReturns, JoinTimesOut
    <2> QED
      BY <2>1, <2>2, <1>a DEF TokenIsLast, Holding
  <1>6. ASSUME NEW c \in Clients, RequestStop(c) PROVE TokenIsLast'
    <2>0. UNCHANGED <<queue, worker>>
      BY <1>6 DEF RequestStop
    <2>1. CASE state = "new"
      <3>1. \A d \in Clients : clients'[d].at # "putting"
        BY <2>1, <1>6, <1>a, ReturnFacts DEF RequestStop, TokenIsLast
      <3>2. DOMAIN queue = {} /\ ~Holding
        BY <2>1, <1>a DEF StatesFit, Holding
      <3> QED
        BY <3>1, <3>2, <2>0 DEF TokenIsLast, Holding
    <2>2. CASE state = "running"
      <3>1. \A d \in Clients : clients[d].at # "putting"
        BY <2>2, <1>a DEF TokenIsLast
      <3>2. \A d \in Clients : clients'[d].at = "putting" => d = c
        BY <3>1, <2>2, <1>6, <1>a DEF RequestStop, TypeOK
      <3>3. /\ \A i \in DOMAIN queue : queue[i].kind # "stop"
            /\ Holding => worker.item.kind # "stop"
        BY <2>2, <1>a DEF TokenIsLast
      <3>4. state' = "stopping"
        BY <2>2, <1>6 DEF RequestStop
      <3> QED
        BY <3>2, <3>3, <3>4, <2>0 DEF TokenIsLast, Holding
    <2>3. CASE state = "stopping"
      <3>1. \A d \in Clients : clients'[d].at = "putting" => clients[d].at = "putting"
        <4>1. clients' = [clients EXCEPT ![c] = [@ EXCEPT !.at = "joining", !.result = "none"]]
          BY <2>3, <1>6 DEF RequestStop
        <4>2. c \in Clients /\ clients \in [Clients -> ClientPlaces] /\ clients[c] \in ClientPlaces
          BY <1>6, <1>a DEF TypeOK
        <4>3. clients'[c] = [clients[c] EXCEPT !.at = "joining", !.result = "none"]
          BY <4>1, <4>2
        <4>4. clients'[c].at = "joining"
          BY <4>2, <4>3 DEF ClientPlaces
        <4>5. \A d \in Clients : d # c => clients'[d] = clients[d]
          BY <4>1, <4>2
        <4> QED
          BY <4>4, <4>5
      <3>2. state' = state
        BY <2>3, <1>6 DEF RequestStop
      <3> QED
        BY <3>1, <3>2, <2>0, <1>a DEF TokenIsLast, Holding
    <2> QED
      BY <2>1, <2>2, <2>3, <1>6 DEF RequestStop
  <1>7. ASSUME NEW c \in Clients, PutStopToken(c) PROVE TokenIsLast'
    <2>1. \A d \in Clients : clients'[d].at # "putting"
      <3>1. clients'[c].at = "joining" /\ \A d \in Clients \ {c} : clients'[d] = clients[d]
        BY <1>7, <1>a DEF PutStopToken, TypeOK, ClientPlaces
      <3> QED
        BY <3>1, <1>7, <1>a DEF PutStopToken, TokenIsLast
    <2>2. /\ state \in {"stopping", "failed"} /\ UNCHANGED <<state, worker>>
          /\ \A i \in DOMAIN queue : queue[i].kind # "stop"
          /\ Holding => worker.item.kind # "stop"
      BY <1>7, <1>a DEF PutStopToken, TokenIsLast
    <2>3. \A i \in DOMAIN queue' : queue'[i].kind = "stop" => i = Len(queue')
      BY <2>2, <1>7, <1>a, QueueFacts, ItemTypes DEF PutStopToken
    <2> QED
      BY <2>1, <2>2, <2>3 DEF TokenIsLast, Holding
  <1>8. ASSUME NEW c \in Clients, PutTimesOut(c) PROVE TokenIsLast'
    <2>1. \A d \in Clients : clients'[d].at # "putting"
      BY <1>8, <1>a, ReturnFacts DEF PutTimesOut, TokenIsLast
    <2>2. /\ UNCHANGED <<queue, worker>>
          /\ \A i \in DOMAIN queue : queue[i].kind # "stop"
          /\ Holding => worker.item.kind # "stop"
      BY <1>8, <1>a DEF PutTimesOut, TokenIsLast
    <2> QED
      BY <2>1, <2>2 DEF TokenIsLast, Holding
  <1>9. CASE Get
    <2>0. UNCHANGED <<clients, state>> /\ state \in {"running", "stopping"}
      BY <1>9, <1>a DEF Get, StatesFit
    <2>1. CASE queue = <<>>
      <3>1. queue' = queue /\ worker'.item.kind = "tick"
        BY <2>1, <1>9, AtFacts, ItemKinds DEF Get
      <3> QED
        BY <3>1, <2>0, <1>a DEF TokenIsLast
    <2>2. CASE queue # <<>>
      <3>1. queue' = Tail(queue) /\ worker'.item = queue[1] /\ 1 \in DOMAIN queue
        BY <2>2, <1>9, <1>a, AtFacts, QueueFacts DEF Get
      <3>2. \A i \in DOMAIN queue' : i + 1 \in DOMAIN queue /\ queue'[i] = queue[i + 1] /\ i \in Nat
        BY <3>1, <2>2, <1>a, QueueFacts
      <3>3. Len(queue') = Len(queue) - 1 /\ Len(queue) \in Nat
        BY <3>1, <2>2, <1>a, QueueFacts
      <3>4. CASE queue[1].kind = "stop"
        <4>1. Len(queue) = 1 /\ state = "stopping"
          BY <3>4, <3>1, <2>0, <1>a DEF TokenIsLast
        <4>2. queue' = <<>> /\ DOMAIN queue' = {}
          BY <4>1, <3>1, <1>a, TailOfOne DEF TypeOK
        <4>3. \A d \in Clients : clients[d].at # "putting"
          BY <3>4, <3>1, <1>a DEF TokenIsLast
        <4> QED
          BY <4>1, <4>2, <4>3, <2>0 DEF TokenIsLast
      <3>5. CASE queue[1].kind # "stop"
        <4>1. \A i \in DOMAIN queue' :
                 queue'[i].kind = "stop" => i = Len(queue') /\ state \in {"stopping", "failed"}
          BY <3>2, <3>3, <1>a DEF TokenIsLast
        <4>2. (\E d \in Clients : clients[d].at = "putting") =>
                 /\ state \in {"stopping", "failed"}
                 /\ \A i \in DOMAIN queue' : queue'[i].kind # "stop"
          BY <3>2, <1>a DEF TokenIsLast
        <4>3. worker'.item.kind # "stop"
          BY <3>5, <3>1
        <4> QED
          BY <4>1, <4>2, <4>3, <2>0, <1>a DEF TokenIsLast
      <3> QED
        BY <3>4, <3>5
    <2> QED
      BY <2>1, <2>2
  <1>10. CASE Take \/ Write \/ Count
    <2>1. UNCHANGED <<clients, state, queue>> /\ Holding
      BY <1>10 DEF Take, Write, Count, Holding
    <2>2. Holding' => worker'.item = worker.item
      BY <1>10, AtFacts DEF Take, Write, Count, Holding
    <2> QED
      BY <2>1, <2>2, <1>a DEF TokenIsLast
  <1>11. CASE Finish
    <2>1. UNCHANGED <<clients, queue>> /\ Holding /\ ~Holding'
      BY <1>11, AtFacts DEF Finish, Holding
    <2>2. CASE worker.item.kind = "stop"
      <3>1. DOMAIN queue = {}
        BY <2>1, <2>2, <1>a DEF TokenIsLast
      <3>2. \A d \in Clients : clients[d].at # "putting"
        BY <2>1, <2>2, <1>a DEF TokenIsLast
      <3> QED
        BY <3>1, <3>2, <2>1 DEF TokenIsLast
    <2>3. CASE worker.item.kind # "stop"
      <3>1. state' = state
        BY <2>3, <1>11 DEF Finish
      <3> QED
        BY <3>1, <2>1, <1>a DEF TokenIsLast
    <2> QED
      BY <2>2, <2>3
  <1>12. CASE Fail \/ Notify \/ WriteFails
    <2>1. UNCHANGED <<clients, queue>> /\ ~Holding' /\ (state' = state \/ state' = "failed")
      BY <1>12, AtFacts DEF Fail, Notify, WriteFails, Holding
    <2> QED
      BY <2>1, <1>a DEF TokenIsLast
  <1>13. CASE Drain
    <2>1. UNCHANGED <<clients, state>> /\ ~Holding'
      BY <1>13, AtFacts DEF Drain, Holding
    <2>2. CASE queue = <<>>
      <3>1. queue' = queue
        BY <2>2, <1>13 DEF Drain
      <3> QED
        BY <3>1, <2>1, <1>a DEF TokenIsLast
    <2>3. CASE queue # <<>>
      <3>1. queue' = Tail(queue)
        BY <2>3, <1>13 DEF Drain
      <3>2. \A i \in DOMAIN queue' : i + 1 \in DOMAIN queue /\ queue'[i] = queue[i + 1] /\ i \in Nat
        BY <3>1, <2>3, <1>a, QueueFacts
      <3>3. Len(queue') = Len(queue) - 1 /\ Len(queue) \in Nat
        BY <3>1, <2>3, <1>a, QueueFacts
      <3>4. \A i \in DOMAIN queue' :
               queue'[i].kind = "stop" => i = Len(queue') /\ state \in {"stopping", "failed"}
        BY <3>2, <3>3, <1>a DEF TokenIsLast
      <3>5. (\E d \in Clients : clients[d].at = "putting") =>
               /\ state \in {"stopping", "failed"}
               /\ \A i \in DOMAIN queue' : queue'[i].kind # "stop"
        BY <3>2, <1>a DEF TokenIsLast
      <3> QED
        BY <3>4, <3>5, <2>1, <1>a DEF TokenIsLast
    <2> QED
      BY <2>2, <2>3
  <1>14. CASE UNCHANGED vars
    BY <1>14, <1>a DEF vars, TokenIsLast, Holding
  <1> QED
    BY <1>1, <1>3, <1>4, <1>5, <1>6, <1>7, <1>8, <1>9, <1>10, <1>11, <1>12, <1>13, <1>14
       DEF Next, ClientStep, ClientCall, ClientWait, ClientTimeout, WorkerStep, QueueStep

\* The numbers the arguments about events compute with.
LEMMA TakenFacts ==
    ASSUME TypeOK
    PROVE  /\ Len(durable) \in Nat /\ Len(batch) \in Nat /\ accepted \in Nat
           /\ DOMAIN batch = 1 .. Len(batch) /\ DOMAIN durable = 1 .. Len(durable)
           /\ Taken \in Nat /\ Len(durable) <= Taken
           /\ worker.item.n \in Nat
           /\ \A i \in DOMAIN queue : queue[i].n \in Nat
  <1>1. Len(durable) \in Nat /\ Len(batch) \in Nat /\ accepted \in Nat
           /\ DOMAIN batch = 1 .. Len(batch) /\ DOMAIN durable = 1 .. Len(durable)
    BY DEF TypeOK
  <1>2. worker.item.n \in Nat
    BY DEF TypeOK, WorkerPlaces
  <1>3. \A i \in DOMAIN queue : queue[i].n \in Nat
    BY QueueFacts DEF QueueItems
  <1>4. Taken \in Nat /\ Len(durable) <= Taken
    <2> DEFINE a == IF worker.at = "count" THEN 0 ELSE Len(batch)
               b == IF worker.at = "item" /\ worker.item.kind = "event" THEN 1 ELSE 0
    <2>1. a \in Nat /\ b \in Nat
      BY <1>1
    <2>2. Taken = Len(durable) + a + b
      BY DEF Taken
    <2> HIDE DEF a, b
    <2> QED
      BY <2>1, <2>2, <1>1
  <1> QED
    BY <1>1, <1>2, <1>3, <1>4

\* The oldest event of the queue, if it is at its head, is the one after the taken ones.
LEMMA HeadEvent ==
    ASSUME TypeOK, EventsConsecutive, Working, queue # <<>>, queue[1].kind = "event"
    PROVE  queue[1].n = Taken + 1 /\ Taken + 1 <= accepted
  <1>1. 1 \in DOMAIN queue /\ DOMAIN queue = 1 .. Len(queue) /\ Len(queue) \in Nat
    BY QueueFacts
  <1>2. queue[1].n > Taken /\ queue[1].n <= accepted /\ queue[1].n \in Nat
    BY <1>1, TakenFacts DEF EventsConsecutive
  <1>3. Taken + 1 \in Taken + 1 .. accepted
    BY <1>2, TakenFacts
  <1>4. PICK i \in DOMAIN queue : queue[i] = Event(Taken + 1)
    BY <1>3 DEF EventsConsecutive
  <1>5. queue[i].kind = "event" /\ queue[i].n = Taken + 1
    BY <1>4, ItemKinds
  <1>6. ~(1 < i)
    <2> SUFFICES ASSUME 1 < i PROVE FALSE
      OBVIOUS
    <2>1. queue[1].n < queue[i].n
      BY <1>1, <1>5 DEF EventsConsecutive
    <2> QED
      BY <2>1, <1>2, <1>5, TakenFacts
  <1>7. i = 1
    BY <1>1, <1>6
  <1> QED
    BY <1>2, <1>5, <1>7, TakenFacts

\* What is put behind the events of the queue and is none of them changes nothing.
LEMMA EventsKept ==
    ASSUME TypeOK, EventsConsecutive, NEW x \in QueueItems, x.kind # "event",
           queue' = Append(queue, x), UNCHANGED <<accepted, worker, batch, durable>>
    PROVE  EventsConsecutive'
  <1>1. Taken' = Taken /\ (Working' <=> Working)
    BY DEF Taken, Working
  <1>2. \A i \in DOMAIN queue' :
           queue'[i].kind = "event" => i \in DOMAIN queue /\ queue'[i] = queue[i]
    BY QueueFacts
  <1>3. \A i \in DOMAIN queue : i \in DOMAIN queue' /\ queue'[i] = queue[i]
    BY QueueFacts
  <1> QED
    BY <1>1, <1>2, <1>3 DEF EventsConsecutive

\* Only a get takes an event out of the queue.
LEMMA TakenKept ==
    ASSUME TypeOK, TypeOK', Take \/ Write \/ Count \/ Finish
    PROVE  Taken' = Taken
  <1>0. /\ Len(batch) \in Nat /\ Len(durable) \in Nat
        /\ Len(batch') \in Nat /\ Len(durable') \in Nat
    BY DEF TypeOK
  <1>1. CASE Take
    <2>1. worker.at = "item" /\ worker'.at \in {"get", "write"} /\ durable' = durable
      BY <1>1, AtFacts DEF Take
    <2>2. Taken' = Len(durable) + Len(batch') + 0
      BY <2>1 DEF Taken
    <2>3. CASE worker.item.kind = "event"
      <3>1. Taken = Len(durable) + Len(batch) + 1
        BY <2>1, <2>3 DEF Taken
      <3>2. Len(batch') = Len(batch) + 1
        BY <1>1, <2>3, TakenFacts DEF Take, TypeOK
      <3> QED
        BY <3>1, <3>2, <2>2, <1>0
    <2>4. CASE worker.item.kind # "event"
      <3>1. Taken = Len(durable) + Len(batch) + 0 /\ batch' = batch
        BY <2>1, <2>4, <1>1 DEF Taken, Take
      <3> QED
        BY <3>1, <2>2, <1>0
    <2> QED
      BY <2>3, <2>4
  <1>2. CASE Write
    <2>1. worker.at = "write" /\ worker'.at = "count" /\ durable' = durable \o batch
      BY <1>2, AtFacts DEF Write
    <2>2. Taken' = Len(durable') + 0 + 0 /\ Taken = Len(durable) + Len(batch) + 0
      BY <2>1 DEF Taken
    <2>3. Len(durable') = Len(durable) + Len(batch)
      BY <2>1 DEF TypeOK
    <2> QED
      BY <2>2, <2>3, <1>0
  <1>3. CASE Count
    <2>1. worker.at = "count" /\ worker'.at = "finish" /\ durable' = durable /\ Len(batch') = 0
      BY <1>3, AtFacts DEF Count
    <2>2. Taken' = Len(durable) + Len(batch') + 0 /\ Taken = Len(durable) + 0 + 0
      BY <2>1 DEF Taken
    <2> QED
      BY <2>1, <2>2, <1>0
  <1>4. CASE Finish
    <2>1. /\ worker.at = "finish" /\ worker'.at \in {"get", "ended"}
          /\ durable' = durable /\ batch' = batch
      BY <1>4, AtFacts DEF Finish
    <2> QED
      BY <2>1 DEF Taken
  <1> QED
    BY <1>1, <1>2, <1>3, <1>4

LEMMA EventsStep == IInv /\ [Next]_vars => EventsConsecutive'
  <1> SUFFICES ASSUME IInv, [Next]_vars PROVE EventsConsecutive'
    OBVIOUS
  <1>a. TypeOK /\ StatesFit /\ EventsConsecutive
    BY DEF IInv
  <1>b. TypeOK'
    BY TypeStep
  <1>1. ASSUME UNCHANGED <<queue, accepted, worker, batch, durable>> PROVE EventsConsecutive'
    BY <1>1, <1>a DEF EventsConsecutive, Taken, Working
  <1>2. ASSUME NEW c \in Clients, Start(c) PROVE EventsConsecutive'
    <2>1. /\ queue' = <<>> /\ batch' = <<>> /\ accepted' = 0 /\ Len(durable') = 0
          /\ UNCHANGED durable
      BY <1>2, <1>a DEF Start, StatesFit
    <2>2. worker'.at = "get" /\ worker'.item.kind = "none"
      BY <1>2, AtFacts, ItemKinds DEF Start
    <2>3. Taken' = 0
      BY <2>1, <2>2 DEF Taken
    <2>4. DOMAIN queue' = {} /\ DOMAIN batch' = {}
      BY <2>1
    <2>5. (Taken + 1 .. accepted)' = {}
      BY <2>1, <2>3
    <2> QED
      BY <2>1, <2>2, <2>3, <2>4, <2>5, <1>a DEF EventsConsecutive
  <1>3. ASSUME NEW c \in Clients, Publish(c) PROVE EventsConsecutive'
    <2> DEFINE e == Event(accepted + 1)
    <2>1. e \in QueueItems /\ e.kind = "event" /\ e.n = accepted + 1
      BY <1>a, ItemTypes, ItemKinds DEF TypeOK
    <2> HIDE DEF e
    <2>2. queue' = Append(queue, e) /\ accepted' = accepted + 1 /\ UNCHANGED <<worker, batch, durable>>
      BY <1>3 DEF Publish, e
    <2>3. Taken' = Taken /\ (Working' <=> Working)
      BY <2>2 DEF Taken, Working
    <2>4. /\ DOMAIN queue = 1 .. Len(queue) /\ Len(queue) \in Nat
          /\ DOMAIN queue' = 1 .. Len(queue) + 1
          /\ \A i \in DOMAIN queue : queue'[i] = queue[i]
          /\ queue'[Len(queue) + 1] = e
      BY <2>1, <2>2, <1>a, QueueFacts
    <2>5. ASSUME Working
          PROVE  /\ Taken <= accepted'
                 /\ \A i \in DOMAIN queue' :
                       queue'[i].kind = "event" => queue'[i].n > Taken /\ queue'[i].n <= accepted'
                 /\ \A i, j \in DOMAIN queue' :
                       i < j /\ queue'[i].kind = "event" /\ queue'[j].kind = "event" =>
                           queue'[i].n < queue'[j].n
                 /\ \A n \in Taken + 1 .. accepted' : \E i \in DOMAIN queue' : queue'[i] = Event(n)
      <3>1. Taken <= accepted
        BY <2>5, <1>a DEF EventsConsecutive
      <3>2. ASSUME NEW i \in DOMAIN queue', queue'[i].kind = "event"
            PROVE  queue'[i].n > Taken /\ queue'[i].n <= accepted'
        <4>1. CASE i \in DOMAIN queue
          BY <4>1, <3>2, <2>2, <2>4, <2>5, <1>a, TakenFacts DEF EventsConsecutive
        <4>2. CASE i = Len(queue) + 1
          BY <4>2, <3>1, <2>1, <2>2, <2>4, <1>a, TakenFacts
        <4> QED
          BY <4>1, <4>2, <2>4
      <3>3. ASSUME NEW i \in DOMAIN queue', NEW j \in DOMAIN queue', i < j,
                   queue'[i].kind = "event", queue'[j].kind = "event"
            PROVE  queue'[i].n < queue'[j].n
        <4>1. i \in DOMAIN queue
          BY <3>3, <2>4
        <4>2. queue[i].n <= accepted /\ queue[i].n \in Nat /\ accepted \in Nat
          BY <4>1, <3>3, <2>4, <2>5, <1>a, TakenFacts DEF EventsConsecutive
        <4>3. CASE j \in DOMAIN queue
          BY <4>1, <4>3, <3>3, <2>4, <2>5, <1>a DEF EventsConsecutive
        <4>4. CASE j = Len(queue) + 1
          BY <4>1, <4>2, <4>4, <2>1, <2>4
        <4> QED
          BY <4>3, <4>4, <2>4
      <3>4. ASSUME NEW n \in Taken + 1 .. accepted'
            PROVE  \E i \in DOMAIN queue' : queue'[i] = Event(n)
        <4>1. n = accepted + 1 \/ n \in Taken + 1 .. accepted
          BY <2>2, <1>a, TakenFacts
        <4>2. CASE n = accepted + 1
          <5>1. queue'[Len(queue) + 1] = Event(n) /\ Len(queue) + 1 \in DOMAIN queue'
            BY <4>2, <2>4 DEF e
          <5> QED
            BY <5>1
        <4>3. CASE n \in Taken + 1 .. accepted
          <5>1. PICK i \in DOMAIN queue : queue[i] = Event(n)
            BY <4>3, <2>5, <1>a DEF EventsConsecutive
          <5>2. i \in DOMAIN queue' /\ queue'[i] = Event(n)
            BY <5>1, <2>4
          <5> QED
            BY <5>2
        <4> QED
          BY <4>1, <4>2, <4>3
      <3> QED
        BY <3>1, <3>2, <3>3, <3>4, <2>2, <1>a, TakenFacts
    <2> QED
      BY <2>2, <2>3, <2>5, <1>a DEF EventsConsecutive
  <1>4. ASSUME NEW c \in Clients, Flush(c) PROVE EventsConsecutive'
    <2>1. Barrier(Len(barriers) + 1) \in QueueItems /\ Barrier(Len(barriers) + 1).kind # "event"
      BY <1>a, ItemTypes, ItemKinds DEF TypeOK
    <2> QED
      BY <2>1, <1>4, <1>a, EventsKept DEF Flush
  <1>5. ASSUME NEW c \in Clients, PutStopToken(c) PROVE EventsConsecutive'
    <2>1. StopToken \in QueueItems /\ StopToken.kind # "event"
      BY ItemTypes, ItemKinds
    <2> QED
      BY <2>1, <1>5, <1>a, EventsKept DEF PutStopToken
  <1>6. ASSUME NEW c \in Clients,
               \/ FlushReturns(c) \/ FlushTimesOut(c) \/ RequestStop(c) \/ PutTimesOut(c)
               \/ JoinReturns(c) \/ JoinTimesOut(c)
        PROVE  EventsConsecutive'
    BY <1>6, <1>1
       DEF FlushReturns, FlushTimesOut, RequestStop, PutTimesOut, JoinReturns, JoinTimesOut
  <1>7. CASE Get
    <2>0. Working /\ Working' /\ worker'.at = "item" /\ UNCHANGED <<batch, durable, accepted>>
      BY <1>7, AtFacts DEF Get, Working
    <2>1. CASE queue = <<>>
      <3>1. worker'.item.kind = "tick" /\ queue' = queue
        BY <2>1, <1>7, AtFacts, ItemKinds DEF Get
      <3>2. Taken' = Taken
        BY <3>1, <2>0, <1>7 DEF Taken, Get
      <3> QED
        BY <3>1, <3>2, <2>0, <1>7, <1>a DEF EventsConsecutive, Get
    <2>2. CASE queue # <<>>
      <3>1. queue' = Tail(queue) /\ worker'.item = queue[1] /\ 1 \in DOMAIN queue
        BY <2>2, <1>7, <1>a, AtFacts, QueueFacts DEF Get
      <3>2. /\ DOMAIN queue' = 1 .. Len(queue) - 1 /\ DOMAIN queue = 1 .. Len(queue)
            /\ Len(queue) \in Nat
            /\ \A i \in DOMAIN queue' : queue'[i] = queue[i + 1]
        BY <3>1, <2>2, <1>a, QueueFacts
      <3>3. \A i \in DOMAIN queue' : i + 1 \in DOMAIN queue /\ queue'[i] = queue[i + 1] /\ i \in Nat
        BY <3>2
      <3>4. Taken' = Taken + (IF queue[1].kind = "event" THEN 1 ELSE 0)
        BY <3>1, <2>0, <1>7, <1>a, TakenFacts DEF Taken, Get
      <3>5. queue[1].kind = "event" => queue[1].n = Taken + 1 /\ Taken + 1 <= accepted
        BY <2>0, <2>2, <1>a, HeadEvent
      <3>6. Taken' <= accepted /\ Taken \in Nat /\ Taken' \in Nat /\ accepted \in Nat
        BY <3>4, <3>5, <2>0, <1>a, TakenFacts DEF EventsConsecutive
      <3>7. ASSUME NEW i \in DOMAIN queue', queue'[i].kind = "event"
            PROVE  queue'[i].n > Taken' /\ queue'[i].n <= accepted
        <4>1. i + 1 \in DOMAIN queue /\ queue'[i] = queue[i + 1] /\ 1 < i + 1
          BY <3>2, <3>3
        <4>2. queue[i + 1].n > Taken /\ queue[i + 1].n <= accepted /\ queue[i + 1].n \in Nat
          BY <4>1, <3>7, <2>0, <1>a, TakenFacts DEF EventsConsecutive
        <4>3. queue[1].kind = "event" => queue[1].n < queue[i + 1].n
          BY <4>1, <3>1, <3>7, <2>0, <1>a DEF EventsConsecutive
        <4> QED
          BY <4>1, <4>2, <4>3, <3>4, <3>5, <3>6
      <3>8. ASSUME NEW i \in DOMAIN queue', NEW j \in DOMAIN queue', i < j,
                   queue'[i].kind = "event", queue'[j].kind = "event"
            PROVE  queue'[i].n < queue'[j].n
        <4>1. i + 1 < j + 1
          BY <3>3, <3>8
        <4> QED
          BY <4>1, <3>3, <3>8, <2>0, <1>a DEF EventsConsecutive
      <3>9. ASSUME NEW n \in Taken' + 1 .. accepted
            PROVE  \E i \in DOMAIN queue' : queue'[i] = Event(n)
        <4>1. n \in Taken + 1 .. accepted
          BY <3>4, <3>6
        <4>2. PICK i \in DOMAIN queue : queue[i] = Event(n)
          BY <4>1, <2>0, <1>a DEF EventsConsecutive
        <4>3. i # 1
          <5>1. queue[i].kind = "event" /\ queue[i].n = n
            BY <4>2, ItemKinds
          <5> QED
            BY <5>1, <3>4, <3>5, <3>6
        <4>4. i - 1 \in DOMAIN queue' /\ queue'[i - 1] = Event(n)
          BY <4>2, <4>3, <3>2
        <4> QED
          BY <4>4
      <3>10. worker'.item.kind = "event" => worker'.item.n = Taken'
        BY <3>1, <3>4, <3>5
      <3>11. \A i \in DOMAIN batch : batch[i] = Len(durable) + i
        BY <2>0, <1>7, <1>a DEF EventsConsecutive, Get
      <3> QED
        BY <3>6, <3>7, <3>8, <3>9, <3>10, <3>11, <2>0, <1>a DEF EventsConsecutive
    <2> QED
      BY <2>1, <2>2
  <1>8. CASE Take
    <2>0. /\ Working /\ Working' /\ UNCHANGED <<queue, durable, accepted>>
          /\ worker.at = "item" /\ worker'.at \in {"get", "write"}
      BY <1>8, AtFacts DEF Take, Working
    <2>1. /\ worker.item.kind = "event" =>
                /\ Len(batch') = Len(batch) + 1 /\ DOMAIN batch' = 1 .. Len(batch) + 1
                /\ \A i \in DOMAIN batch : batch'[i] = batch[i]
                /\ batch'[Len(batch) + 1] = worker.item.n
          /\ worker.item.kind # "event" => batch' = batch
      BY <1>8, <1>a, TakenFacts DEF Take, TypeOK
    <2>2. Taken' = Taken
      BY <1>8, <1>a, <1>b, TakenKept
    <2>3. \A i \in DOMAIN batch' : batch'[i] = Len(durable) + i
      <3>1. \A i \in DOMAIN batch : batch[i] = Len(durable) + i
        BY <2>0, <1>a DEF EventsConsecutive
      <3>2. worker.item.kind = "event" => worker.item.n = Len(durable) + Len(batch) + 1
        BY <2>0, <1>a DEF EventsConsecutive, Taken
      <3>3. CASE worker.item.kind = "event"
        BY <3>1, <3>2, <3>3, <2>1, <1>a, TakenFacts
      <3>4. CASE worker.item.kind # "event"
        BY <3>1, <3>4, <2>1
      <3> QED
        BY <3>3, <3>4
    <2> QED
      BY <2>0, <2>2, <2>3, <1>a DEF EventsConsecutive
  <1>9. CASE Write
    <2>0. /\ Working /\ Working' /\ UNCHANGED <<queue, batch, accepted>>
          /\ worker.at = "write" /\ worker'.at = "count" /\ durable' = durable \o batch
      BY <1>9, AtFacts DEF Write, Working
    <2>1. /\ Len(durable') = Len(durable) + Len(batch) /\ DOMAIN durable' = 1 .. Len(durable')
          /\ \A i \in DOMAIN durable' :
                durable'[i] = IF i <= Len(durable) THEN durable[i] ELSE batch[i - Len(durable)]
      BY <2>0, <1>a DEF TypeOK
    <2>2. Taken' = Taken
      BY <1>9, <1>a, <1>b, TakenKept
    <2>3. InOrder(durable')
      <3>1. ASSUME NEW i \in DOMAIN durable' PROVE durable'[i] = i
        <4>1. CASE i <= Len(durable)
          BY <4>1, <2>1, <1>a, TakenFacts DEF EventsConsecutive, InOrder
        <4>2. CASE i > Len(durable)
          <5>1. i - Len(durable) \in DOMAIN batch
            BY <4>2, <2>1, <1>a, TakenFacts
          <5>2. batch[i - Len(durable)] = Len(durable) + (i - Len(durable))
            BY <5>1, <2>0, <1>a DEF EventsConsecutive
          <5> QED
            BY <4>2, <5>2, <2>1, <1>a, TakenFacts
        <4> QED
          BY <4>1, <4>2, <2>1, <1>a, TakenFacts
      <3> QED
        BY <3>1 DEF InOrder
    <2> QED
      BY <2>0, <2>2, <2>3, <1>a DEF EventsConsecutive
  <1>10. CASE Count
    <2>0. /\ Working /\ Working' /\ UNCHANGED <<queue, durable, accepted>>
          /\ worker.at = "count" /\ worker'.at = "finish" /\ batch' = <<>>
          /\ Len(batch') = 0 /\ DOMAIN batch' = {}
      BY <1>10, AtFacts DEF Count, Working
    <2>1. Taken' = Taken
      BY <1>10, <1>a, <1>b, TakenKept
    <2> QED
      BY <2>0, <2>1, <1>a DEF EventsConsecutive
  <1>11. CASE Finish
    <2>0. /\ Working /\ UNCHANGED <<queue, batch, durable, accepted>>
          /\ worker.at = "finish" /\ worker'.at \in {"get", "ended"}
      BY <1>11, AtFacts DEF Finish, Working
    <2>1. Taken' = Taken
      BY <1>11, <1>a, <1>b, TakenKept
    <2> QED
      BY <2>0, <2>1, <1>a DEF EventsConsecutive
  <1>12. CASE Fail \/ Notify \/ Drain \/ WriteFails
    <2>1. ~Working' /\ UNCHANGED durable
      BY <1>12, AtFacts DEF Fail, Notify, Drain, WriteFails, Working
    <2> QED
      BY <2>1, <1>a DEF EventsConsecutive
  <1>13. CASE UNCHANGED vars
    BY <1>13, <1>1 DEF vars
  <1> QED
    BY <1>2, <1>3, <1>4, <1>5, <1>6, <1>7, <1>8, <1>9, <1>10, <1>11, <1>12, <1>13
       DEF Next, ClientStep, ClientCall, ClientWait, ClientTimeout, WorkerStep, QueueStep

\* What a flush call covers is a number of events.
LEMMA CoversType == ASSUME TypeOK PROVE \A b \in DOMAIN barriers : barriers[b].covers \in Nat
  <1>1. \A b \in DOMAIN barriers : barriers[b] \in Barriers
    BY DEF TypeOK
  <1> QED
    BY <1>1 DEF Barriers

\* A barrier at the head of the queue covers taken events only.
LEMMA HeadBarrier ==
    ASSUME TypeOK, EventsConsecutive, BarriersInPlace, Working, queue # <<>>,
           queue[1].kind = "barrier"
    PROVE  queue[1].n \in DOMAIN barriers /\ barriers[queue[1].n].covers <= Taken
  <1>1. 1 \in DOMAIN queue /\ DOMAIN queue = 1 .. Len(queue) /\ Len(queue) \in Nat
    BY QueueFacts
  <1>2. queue[1].n \in DOMAIN barriers
    BY <1>1 DEF BarriersInPlace
  <1> DEFINE k == barriers[queue[1].n].covers
  <1>3. k \in Nat /\ k <= accepted
    BY <1>2, CoversType DEF BarriersInPlace
  <1>4. ASSUME ~(k <= Taken) PROVE FALSE
    <2>1. Taken + 1 \in Taken + 1 .. accepted
      BY <1>3, <1>4, TakenFacts
    <2>2. PICK i \in DOMAIN queue : queue[i] = Event(Taken + 1)
      BY <2>1 DEF EventsConsecutive
    <2>3. queue[i].kind = "event" /\ queue[i].n = Taken + 1
      BY <2>2, ItemKinds
    <2>4. 1 < i
      BY <1>1, <2>3
    <2>5. k < Taken + 1
      BY <2>3, <2>4, <1>1 DEF BarriersInPlace
    <2> QED
      BY <2>5, <1>3, <1>4, TakenFacts
  <1> QED
    BY <1>2, <1>4

LEMMA BarriersStep == IInv /\ [Next]_vars => BarriersInPlace'
  <1> SUFFICES ASSUME IInv, [Next]_vars PROVE BarriersInPlace'
    OBVIOUS
  <1>a. TypeOK /\ StatesFit /\ TokenIsLast /\ EventsConsecutive /\ BarriersInPlace
    BY DEF IInv
  <1>b. TypeOK'
    BY TypeStep
  <1>1. ASSUME UNCHANGED <<queue, accepted, worker, batch, durable, barriers>>,
               \A d \in Clients : clients'[d].at = "flushing" => clients'[d] = clients[d]
        PROVE  BarriersInPlace'
    <2>1. Taken' = Taken /\ (Working' <=> Working) /\ (Holding' <=> Holding)
      BY <1>1 DEF Taken, Working, Holding
    <2> QED
      BY <2>1, <1>1, <1>a DEF BarriersInPlace
  <1>2. ASSUME NEW c \in Clients, Start(c) PROVE BarriersInPlace'
    <2>1. UNCHANGED <<queue, accepted, barriers>> /\ queue = <<>> /\ DOMAIN queue = {} /\ ~Holding'
      BY <1>2, <1>a, AtFacts DEF Start, StatesFit, Holding
    <2>2. \A d \in Clients : clients'[d].at = "flushing" => clients'[d] = clients[d]
      BY <1>2, <1>a, ReturnFacts DEF Start
    <2> QED
      BY <2>1, <2>2, <1>a DEF BarriersInPlace
  <1>3. ASSUME NEW c \in Clients, Publish(c) PROVE BarriersInPlace'
    <2> DEFINE e == Event(accepted + 1)
    <2>1. e \in QueueItems /\ e.kind = "event" /\ e.n = accepted + 1
      BY <1>a, ItemTypes, ItemKinds DEF TypeOK
    <2> HIDE DEF e
    <2>2. /\ queue' = Append(queue, e) /\ accepted' = accepted + 1
          /\ UNCHANGED <<worker, batch, durable, barriers>>
      BY <1>3 DEF Publish, e
    <2>3. Taken' = Taken /\ (Working' <=> Working) /\ (Holding' <=> Holding)
      BY <2>2 DEF Taken, Working, Holding
    <2>4. /\ DOMAIN queue = 1 .. Len(queue) /\ Len(queue) \in Nat
          /\ DOMAIN queue' = 1 .. Len(queue) + 1
          /\ \A i \in DOMAIN queue : queue'[i] = queue[i]
          /\ queue'[Len(queue) + 1] = e
      BY <2>1, <2>2, <1>a, QueueFacts
    <2>5. \A b \in DOMAIN barriers :
             barriers[b].covers \in Nat /\ barriers[b].covers <= accepted /\ accepted \in Nat
      BY <1>a, CoversType, TakenFacts DEF BarriersInPlace
    <2>6. \A i \in DOMAIN queue' :
             queue'[i].kind = "barrier" => i \in DOMAIN queue /\ queue[i].n \in DOMAIN barriers
      BY <2>1, <2>4, <1>a DEF BarriersInPlace
    <2>7. ASSUME Working, NEW i \in DOMAIN queue', NEW j \in DOMAIN queue', i < j,
                 queue'[i].kind = "barrier", queue'[j].kind = "event"
          PROVE  barriers[queue'[i].n].covers < queue'[j].n
      <3>1. i \in DOMAIN queue /\ queue[i].n \in DOMAIN barriers /\ queue'[i] = queue[i]
        BY <2>4, <2>6, <2>7
      <3>2. CASE j \in DOMAIN queue
        BY <3>1, <3>2, <2>4, <2>7, <1>a DEF BarriersInPlace
      <3>3. CASE j = Len(queue) + 1
        BY <3>1, <3>3, <2>1, <2>4, <2>5
      <3> QED
        BY <3>2, <3>3, <2>4
    <2>8. \A d \in Clients : clients'[d].at = "flushing" => clients'[d] = clients[d]
      BY <1>3, <1>a, ReturnFacts DEF Publish
    <2>9. \A b \in DOMAIN barriers : barriers[b].covers <= accepted'
      BY <2>2, <2>5
    <2>10. \A i \in DOMAIN queue' : queue'[i].kind = "barrier" => queue'[i].n \in DOMAIN barriers
      BY <2>4, <2>6
    <2> QED
      BY <2>2, <2>3, <2>7, <2>8, <2>9, <2>10, <1>a DEF BarriersInPlace
  <1>4. ASSUME NEW c \in Clients, Flush(c) PROVE BarriersInPlace'
    <2> DEFINE x == Barrier(Len(barriers) + 1)
    <2>0. Len(barriers) \in Nat /\ DOMAIN barriers = 1 .. Len(barriers)
      BY <1>a DEF TypeOK
    <2>1. x \in QueueItems /\ x.kind = "barrier" /\ x.n = Len(barriers) + 1
      BY <2>0, ItemTypes, ItemKinds
    <2> HIDE DEF x
    <2>2. queue' = Append(queue, x) /\ UNCHANGED <<worker, batch, durable, accepted>>
      BY <1>4 DEF Flush, x
    <2>3. Taken' = Taken /\ (Working' <=> Working) /\ (Holding' <=> Holding)
      BY <2>2 DEF Taken, Working, Holding
    <2>4. /\ DOMAIN queue = 1 .. Len(queue) /\ Len(queue) \in Nat
          /\ DOMAIN queue' = 1 .. Len(queue) + 1
          /\ \A i \in DOMAIN queue : queue'[i] = queue[i]
          /\ queue'[Len(queue) + 1] = x
      BY <2>1, <2>2, <1>a, QueueFacts
    <2>5. /\ DOMAIN barriers' = 1 .. Len(barriers) + 1
          /\ \A b \in DOMAIN barriers : barriers'[b] = barriers[b]
          /\ barriers'[Len(barriers) + 1].covers = accepted
      BY <1>4, <1>a DEF Flush, TypeOK
    <2>6. \A b \in DOMAIN barriers' : barriers'[b].covers <= accepted
      <3>1. accepted <= accepted
        BY <1>a DEF TypeOK
      <3>2. \A b \in DOMAIN barriers : barriers[b].covers <= accepted
        BY <1>a DEF BarriersInPlace
      <3> QED
        BY <3>1, <3>2, <2>0, <2>5
    <2>7. \A i \in DOMAIN queue' : queue'[i].kind = "barrier" => queue'[i].n \in DOMAIN barriers'
      BY <2>0, <2>1, <2>4, <2>5, <1>a DEF BarriersInPlace
    <2>8. ASSUME Working, NEW i \in DOMAIN queue', NEW j \in DOMAIN queue', i < j,
                 queue'[i].kind = "barrier", queue'[j].kind = "event"
          PROVE  barriers'[queue'[i].n].covers < queue'[j].n
      <3>1. i \in DOMAIN queue /\ j \in DOMAIN queue /\ queue'[i] = queue[i] /\ queue'[j] = queue[j]
        BY <2>1, <2>4, <2>8
      <3>2. queue[i].n \in DOMAIN barriers
        BY <3>1, <2>8, <1>a DEF BarriersInPlace
      <3> QED
        BY <3>1, <3>2, <2>5, <2>8, <1>a DEF BarriersInPlace
    <2>9. \A d \in Clients : clients'[d].at = "flushing" => clients'[d].barrier \in DOMAIN barriers'
      <3>1. clients'[c].barrier = Len(barriers) + 1 /\ \A d \in Clients \ {c} : clients'[d] = clients[d]
        BY <1>4, <1>a DEF Flush, TypeOK
      <3> QED
        BY <3>1, <2>0, <2>5, <1>a DEF BarriersInPlace
    <2>10. Holding /\ worker.item.kind = "barrier" =>
             worker.item.n \in DOMAIN barriers' /\ barriers'[worker.item.n].covers <= Taken
      BY <2>0, <2>5, <1>a DEF BarriersInPlace
    <2> QED
      BY <2>2, <2>3, <2>6, <2>7, <2>8, <2>9, <2>10 DEF BarriersInPlace
  <1>5. ASSUME NEW c \in Clients,
               FlushReturns(c) \/ FlushTimesOut(c) \/ PutTimesOut(c) \/ JoinReturns(c) \/ JoinTimesOut(c)
        PROVE  BarriersInPlace'
    <2>1. \A d \in Clients : clients'[d].at = "flushing" => clients'[d] = clients[d]
      BY <1>5, <1>a, ReturnFacts
         DEF FlushReturns, FlushTimesOut, PutTimesOut, JoinReturns, JoinTimesOut
    <2> QED
      BY <2>1, <1>1, <1>5 DEF FlushReturns, FlushTimesOut, PutTimesOut, JoinReturns, JoinTimesOut
  <1>6. ASSUME NEW c \in Clients, RequestStop(c) PROVE BarriersInPlace'
    <2>1. \A d \in Clients : clients'[d].at = "flushing" => clients'[d] = clients[d]
      BY <1>6, <1>a, ReturnFacts DEF RequestStop, TypeOK, ClientPlaces
    <2> QED
      BY <2>1, <1>1, <1>6 DEF RequestStop
  <1>7. ASSUME NEW c \in Clients, PutStopToken(c) PROVE BarriersInPlace'
    <2>1. \A d \in Clients : clients'[d].at = "flushing" => clients'[d] = clients[d]
      BY <1>7, <1>a DEF PutStopToken, TypeOK, ClientPlaces
    <2>2. queue' = Append(queue, StopToken) /\ UNCHANGED <<worker, batch, durable, accepted, barriers>>
      BY <1>7 DEF PutStopToken
    <2>3. Taken' = Taken /\ (Working' <=> Working) /\ (Holding' <=> Holding)
      BY <2>2 DEF Taken, Working, Holding
    <2>4. \A i \in DOMAIN queue' :
             queue'[i].kind # "stop" => i \in DOMAIN queue /\ queue'[i] = queue[i]
      BY <2>2, <1>a, QueueFacts, ItemTypes, ItemKinds
    <2> QED
      BY <2>1, <2>2, <2>3, <2>4, <1>a DEF BarriersInPlace
  <1>8. CASE Get
    <2>0. /\ Working /\ worker'.at = "item" /\ UNCHANGED <<batch, durable, accepted, barriers, clients>>
      BY <1>8, AtFacts DEF Get, Working
    <2>1. CASE queue = <<>>
      <3>1. worker'.item.kind = "tick" /\ queue' = queue
        BY <2>1, <1>8, AtFacts, ItemKinds DEF Get
      <3> QED
        BY <3>1, <2>0, <1>a DEF BarriersInPlace
    <2>2. CASE queue # <<>>
      <3>1. queue' = Tail(queue) /\ worker'.item = queue[1]
        BY <2>2, <1>8, <1>a, AtFacts, QueueFacts DEF Get
      <3>2. \A i \in DOMAIN queue' : i + 1 \in DOMAIN queue /\ queue'[i] = queue[i + 1] /\ i \in Nat
        BY <3>1, <2>2, <1>a, QueueFacts
      <3>3. queue[1].kind = "barrier" => Taken' = Taken
        BY <3>1, <2>0, <1>8 DEF Taken, Get
      <3>4. queue[1].kind = "barrier" =>
               queue[1].n \in DOMAIN barriers /\ barriers[queue[1].n].covers <= Taken
        BY <2>0, <2>2, <1>a, HeadBarrier
      <3>5. ASSUME NEW i \in DOMAIN queue', NEW j \in DOMAIN queue', i < j,
                   queue'[i].kind = "barrier", queue'[j].kind = "event"
            PROVE  barriers[queue'[i].n].covers < queue'[j].n
        <4>1. i + 1 < j + 1
          BY <3>2, <3>5
        <4> QED
          BY <4>1, <3>2, <3>5, <2>0, <1>a DEF BarriersInPlace
      <3> QED
        BY <3>1, <3>2, <3>3, <3>4, <3>5, <2>0, <1>a DEF BarriersInPlace
    <2> QED
      BY <2>1, <2>2
  <1>9. CASE Take \/ Write \/ Count
    <2>1. UNCHANGED <<clients, queue, barriers, accepted>> /\ Holding /\ Working
      BY <1>9 DEF Take, Write, Count, Holding, Working
    <2>2. Holding' => worker'.item = worker.item
      BY <1>9, AtFacts DEF Take, Write, Count, Holding
    <2>3. Taken' = Taken
      BY <1>9, <1>a, <1>b, TakenKept
    <2> QED
      BY <2>1, <2>2, <2>3, <1>a DEF BarriersInPlace
  <1>10. ASSUME NEW b \in DOMAIN barriers, NEW o \in {"ok", "fatal"},
                barriers' = [barriers EXCEPT ![b].outcome = o],
                UNCHANGED <<clients, accepted>>, ~Holding',
                Working' => Working,
                \/ queue' = queue
                \/ ~Working' /\ queue # <<>> /\ queue' = Tail(queue)
         PROVE  BarriersInPlace'
    <2>1. /\ DOMAIN barriers' = DOMAIN barriers
          /\ \A d \in DOMAIN barriers : barriers'[d].covers = barriers[d].covers
      BY <1>10, <1>a, OutcomeType
    <2>2. CASE queue' = queue
      BY <2>1, <2>2, <1>10, <1>a DEF BarriersInPlace
    <2>3. CASE ~Working' /\ queue # <<>> /\ queue' = Tail(queue)
      <3>1. \A i \in DOMAIN queue' : i + 1 \in DOMAIN queue /\ queue'[i] = queue[i + 1]
        BY <2>3, <1>a, QueueFacts
      <3> QED
        BY <3>1, <2>1, <2>3, <1>10, <1>a DEF BarriersInPlace
    <2> QED
      BY <2>2, <2>3, <1>10
  <1>11. CASE Finish \/ WriteFails
    <2>1. UNCHANGED <<clients, queue, accepted>> /\ ~Holding' /\ Working /\ Holding
      BY <1>11, AtFacts DEF Finish, WriteFails, Holding, Working
    <2>2. CASE worker.item.kind = "barrier"
      <3>1. worker.item.n \in DOMAIN barriers
        BY <2>1, <2>2, <1>a DEF BarriersInPlace
      <3>2. CASE Finish
        <4>1. barriers' = [barriers EXCEPT ![worker.item.n].outcome = "ok"]
          BY <2>2, <3>2 DEF Finish
        <4> QED
          BY <4>1, <3>1, <2>1, <1>10
      <3>3. CASE WriteFails
        <4>1. barriers' = [barriers EXCEPT ![worker.item.n].outcome = "fatal"]
          BY <2>2, <3>3 DEF WriteFails
        <4> QED
          BY <4>1, <3>1, <2>1, <1>10
      <3> QED
        BY <3>2, <3>3, <1>11
    <2>3. CASE worker.item.kind # "barrier"
      <3>1. barriers' = barriers
        BY <2>3, <1>11 DEF Finish, WriteFails
      <3> QED
        BY <3>1, <2>1, <1>a DEF BarriersInPlace
    <2> QED
      BY <2>2, <2>3
  <1>12. CASE Fail \/ Notify
    <2>1. UNCHANGED <<clients, queue, barriers, accepted>> /\ ~Holding' /\ ~Working'
      BY <1>12, AtFacts DEF Fail, Notify, Holding, Working
    <2> QED
      BY <2>1, <1>a DEF BarriersInPlace
  <1>13. CASE Drain
    <2>1. UNCHANGED <<clients, accepted>> /\ ~Holding' /\ ~Working'
      BY <1>13, AtFacts DEF Drain, Holding, Working
    <2>2. CASE queue = <<>>
      <3>1. UNCHANGED <<queue, barriers>>
        BY <2>2, <1>13 DEF Drain
      <3> QED
        BY <3>1, <2>1, <1>a DEF BarriersInPlace
    <2>3. CASE queue # <<>>
      <3>1. queue' = Tail(queue) /\ Head(queue) = queue[1] /\ 1 \in DOMAIN queue
        BY <2>3, <1>13, <1>a, QueueFacts DEF Drain
      <3>2. CASE queue[1].kind = "barrier"
        <4>1. barriers' = [barriers EXCEPT ![queue[1].n].outcome = "fatal"]
          BY <3>1, <3>2, <2>3, <1>13 DEF Drain
        <4>2. queue[1].n \in DOMAIN barriers
          BY <3>1, <3>2, <1>a DEF BarriersInPlace
        <4> QED
          BY <4>1, <4>2, <3>1, <2>1, <2>3, <1>10
      <3>3. CASE queue[1].kind # "barrier"
        <4>1. barriers' = barriers
          BY <3>1, <3>3, <2>3, <1>13 DEF Drain
        <4>2. \A i \in DOMAIN queue' : i + 1 \in DOMAIN queue /\ queue'[i] = queue[i + 1]
          BY <3>1, <2>3, <1>a, QueueFacts
        <4> QED
          BY <4>1, <4>2, <2>1, <1>a DEF BarriersInPlace
      <3> QED
        BY <3>2, <3>3
    <2> QED
      BY <2>2, <2>3
  <1>14. CASE UNCHANGED vars
    BY <1>14, <1>1 DEF vars
  <1> QED
    BY <1>2, <1>3, <1>4, <1>5, <1>6, <1>7, <1>8, <1>9, <1>11, <1>12, <1>13, <1>14
       DEF Next, ClientStep, ClientCall, ClientWait, ClientTimeout, WorkerStep, QueueStep

\* What is durable and counted never shrinks.
LEMMA DurableGrows ==
    ASSUME TypeOK, [Next]_vars
    PROVE  Len(durable) <= Len(durable') /\ persisted <= persisted'
  <1>0. Len(durable) \in Nat /\ Len(batch) \in Nat /\ persisted \in Nat
    BY DEF TypeOK
  <1>1. ASSUME NEW c \in Clients, ClientCall(c) \/ ClientWait(c) \/ ClientTimeout(c)
        PROVE  UNCHANGED <<durable, persisted>>
    BY <1>1, ClientFrame
  <1>2. CASE Write
    <2>1. Len(durable \o batch) = Len(durable) + Len(batch)
      BY DEF TypeOK
    <2> QED
      BY <1>0, <1>2, <2>1 DEF Write
  <1>3. CASE Count
    BY <1>0, <1>3 DEF Count
  <1>4. CASE Get \/ Take \/ Finish \/ Fail \/ Notify \/ Drain \/ WriteFails \/ UNCHANGED vars
    BY <1>0, <1>4 DEF Get, Take, Finish, Fail, Notify, Drain, WriteFails, vars
  <1> QED
    BY <1>0, <1>1, <1>2, <1>3, <1>4 DEF Next, ClientStep, WorkerStep, QueueStep

\* A flush call's outcome is "ok" only if it was, or if the worker has just counted the
\* batch ahead of its barrier.
LEMMA OutcomeStep ==
    ASSUME IInv, [Next]_vars, NEW b \in DOMAIN barriers', barriers'[b].outcome = "ok"
    PROVE  /\ b \in DOMAIN barriers /\ barriers'[b].covers = barriers[b].covers
           /\ \/ barriers[b].outcome = "ok"
              \/ Finish /\ worker.item.kind = "barrier" /\ b = worker.item.n
  <1>a. TypeOK /\ BarriersInPlace
    BY DEF IInv
  <1>0. ASSUME UNCHANGED barriers
        PROVE  /\ b \in DOMAIN barriers /\ barriers'[b].covers = barriers[b].covers
               /\ barriers[b].outcome = "ok"
    BY <1>0
  <1>1. ASSUME NEW c \in Clients, Flush(c)
        PROVE  /\ b \in DOMAIN barriers /\ barriers'[b].covers = barriers[b].covers
               /\ barriers[b].outcome = "ok"
    <2>1. /\ DOMAIN barriers' = 1 .. Len(barriers) + 1 /\ DOMAIN barriers = 1 .. Len(barriers)
          /\ Len(barriers) \in Nat
          /\ \A d \in DOMAIN barriers : barriers'[d] = barriers[d]
          /\ barriers'[Len(barriers) + 1].outcome = "waiting"
      BY <1>1, <1>a DEF Flush, TypeOK
    <2>2. b # Len(barriers) + 1
      BY <2>1
    <2> QED
      BY <2>1, <2>2
  <1>2. ASSUME NEW c \in Clients, ClientCall(c) \/ ClientWait(c) \/ ClientTimeout(c), ~Flush(c)
        PROVE  UNCHANGED barriers
    BY <1>2 DEF ClientCall, ClientWait, ClientTimeout, Start, Publish, FlushReturns, FlushTimesOut,
                RequestStop, PutStopToken, PutTimesOut, JoinReturns, JoinTimesOut
  <1>3. ASSUME NEW x \in DOMAIN barriers, NEW o \in {"ok", "fatal"},
               barriers' = [barriers EXCEPT ![x].outcome = o]
        PROVE  /\ b \in DOMAIN barriers /\ barriers'[b].covers = barriers[b].covers
               /\ \/ barriers[b].outcome = "ok"
                  \/ b = x /\ o = "ok"
    BY <1>3, <1>a, OutcomeType
  <1>4. CASE Finish
    <2>1. worker.item.kind = "barrier" => worker.item.n \in DOMAIN barriers
      BY <1>4, <1>a DEF Finish, BarriersInPlace, Holding
    <2> QED
      BY <2>1, <1>0, <1>3, <1>4 DEF Finish
  <1>5. CASE WriteFails
    <2>1. worker.item.kind = "barrier" => worker.item.n \in DOMAIN barriers
      BY <1>5, <1>a DEF WriteFails, BarriersInPlace, Holding
    <2>2. CASE worker.item.kind = "barrier"
      <3>1. barriers' = [barriers EXCEPT ![worker.item.n].outcome = "fatal"]
        BY <2>2, <1>5 DEF WriteFails
      <3> QED
        BY <3>1, <2>1, <2>2, <1>3
    <2>3. CASE worker.item.kind # "barrier"
      BY <2>3, <1>0, <1>5 DEF WriteFails
    <2> QED
      BY <2>2, <2>3
  <1>6. CASE Drain
    <2>1. queue # <<>> => Head(queue) = queue[1] /\ 1 \in DOMAIN queue
      BY <1>a, QueueFacts
    <2>2. CASE queue # <<>> /\ Head(queue).kind = "barrier"
      <3>1. barriers' = [barriers EXCEPT ![Head(queue).n].outcome = "fatal"]
        BY <2>2, <1>6 DEF Drain
      <3>2. Head(queue).n \in DOMAIN barriers
        BY <2>1, <2>2, <1>a DEF BarriersInPlace
      <3> QED
        BY <3>1, <3>2, <1>3
    <2>3. CASE ~(queue # <<>> /\ Head(queue).kind = "barrier")
      BY <2>3, <1>0, <1>6 DEF Drain
    <2> QED
      BY <2>2, <2>3
  <1>7. CASE Get \/ Take \/ Write \/ Count \/ Fail \/ Notify \/ UNCHANGED vars
    BY <1>0, <1>7 DEF Get, Take, Write, Count, Fail, Notify, vars
  <1> QED
    BY <1>0, <1>1, <1>2, <1>4, <1>5, <1>6, <1>7 DEF Next, ClientStep, WorkerStep, QueueStep

LEMMA FlushStep == IInv /\ [Next]_vars => FlushCoversEarlierEvents'
  <1> SUFFICES ASSUME IInv, [Next]_vars, NEW b \in DOMAIN barriers', barriers'[b].outcome = "ok"
               PROVE  barriers'[b].covers <= Len(durable') /\ barriers'[b].covers <= persisted'
    BY DEF FlushCoversEarlierEvents
  <1>a. TypeOK /\ EventsConsecutive /\ CountersAgree /\ BarriersInPlace /\ FlushCoversEarlierEvents
    BY DEF IInv
  <1>b. TypeOK'
    BY TypeStep
  <1>1. b \in DOMAIN barriers /\ barriers'[b].covers = barriers[b].covers
    BY OutcomeStep
  <1>2. barriers[b].covers \in Nat
    BY <1>1, <1>a, CoversType
  <1>3. /\ Len(durable) \in Nat /\ persisted \in Nat /\ Len(durable') \in Nat /\ persisted' \in Nat
    BY <1>a, <1>b DEF TypeOK
  <1>4. CASE barriers[b].outcome = "ok"
    <2>1. barriers[b].covers <= Len(durable) /\ barriers[b].covers <= persisted
      BY <1>1, <1>4, <1>a DEF FlushCoversEarlierEvents
    <2>2. Len(durable) <= Len(durable') /\ persisted <= persisted'
      BY <1>a, DurableGrows
    <2> QED
      BY <2>1, <2>2, <1>1, <1>2, <1>3
  <1>5. CASE Finish /\ worker.item.kind = "barrier" /\ b = worker.item.n
    <2>1. worker.at = "finish" /\ UNCHANGED <<durable, persisted>>
      BY <1>5 DEF Finish
    <2>2. batch = <<>> /\ Len(batch) = 0
      BY <2>1, <1>a DEF EventsConsecutive, Working
    <2>3. Taken = Len(durable) + 0 + 0
      BY <2>1, <2>2 DEF Taken
    <2>4. barriers[b].covers <= Taken
      BY <2>1, <1>5, <1>a DEF BarriersInPlace, Holding
    <2>5. persisted = Len(durable)
      BY <2>1, <1>a DEF CountersAgree
    <2> QED
      BY <2>1, <2>3, <2>4, <2>5, <1>1, <1>2, <1>3
  <1> QED
    BY <1>4, <1>5, OutcomeStep

-----------------------------------------------------------------------------
(* The invariant *)

LEMMA InitIInv == Init => IInv
  <1> SUFFICES ASSUME Init PROVE IInv
    OBVIOUS
  <1>1. TypeOK
    <2>1. Ready("none") \in ClientPlaces
      BY DEF Ready, ClientPlaces
    <2>2. worker \in WorkerPlaces
      BY DEF Init, At, Nothing, WorkerPlaces
    <2>3. queue \in Seq(QueueItems) /\ barriers \in Seq(Barriers) /\ batch \in Seq(Nat) /\ durable \in Seq(Nat)
      BY DEF Init
    <2> QED
      BY <2>1, <2>2, <2>3 DEF Init, TypeOK
  <1>2. worker.at = "unstarted" /\ ~Holding /\ ~Working
    BY AtFacts DEF Init, Holding, Working
  <1>3. /\ DOMAIN queue = {} /\ DOMAIN barriers = {} /\ DOMAIN durable = {} /\ Len(durable) = 0
        /\ Len(batch) = 0 /\ \A c \in Clients : clients[c].at = "ready"
    BY DEF Init, Ready
  <1>4. StatesFit
    BY <1>2, <1>3 DEF Init, StatesFit
  <1>5. TokenIsLast
    BY <1>2, <1>3 DEF TokenIsLast
  <1>6. EventsConsecutive
    BY <1>2, <1>3 DEF EventsConsecutive, InOrder
  <1>7. CountersAgree
    BY <1>2, <1>3 DEF CountersAgree, Init
  <1>8. BarriersInPlace /\ FlushCoversEarlierEvents
    BY <1>2, <1>3 DEF BarriersInPlace, FlushCoversEarlierEvents
  <1> QED
    BY <1>1, <1>4, <1>5, <1>6, <1>7, <1>8 DEF IInv

LEMMA NextIInv == IInv /\ [Next]_vars => IInv'
  BY TypeStep, StatesStep, TokenStep, EventsStep, CountersStep, BarriersStep, FlushStep DEF IInv

\* Every reachable state of the writer satisfies the invariant, whatever the number of
\* threads that call it.
THEOREM WriterInvariant == Spec => []IInv
  BY InitIInv, NextIInv, PTL DEF Spec

\* A flush call that returns without an error leaves nothing behind that was accepted
\* before it: every such event is committed and counted.
THEOREM FlushCovers == Spec => []FlushCoversEarlierEvents
  <1>1. IInv => FlushCoversEarlierEvents
    BY DEF IInv
  <1> QED
    BY <1>1, WriterInvariant, PTL

-----------------------------------------------------------------------------
(* The writer is an ordered sink *)

\* The length of what is durable, as the mapping to the sink has it.
DurableCount == IF InOrder(durable) THEN Len(durable) ELSE -1

LEMMA SinkInit == Init => Sink!Init
  <1> SUFFICES ASSUME Init PROVE Sink!Init
    OBVIOUS
  <1>1. DOMAIN durable = {} /\ Len(durable) = 0
    BY DEF Init
  <1>2. InOrder(durable)
    BY <1>1 DEF InOrder
  <1>3. SinkStatus = "open"
    BY DEF Init, SinkStatus
  <1> QED
    BY <1>1, <1>2, <1>3 DEF Init, Sink!Init

\* publish accepts, an append_batch persists, a stop closes with nothing left to write,
\* a storage error fails; every other step is invisible to the publishers.
LEMMA SinkStep == IInv /\ IInv' /\ [Next]_vars => [Sink!Next]_(Sink!vars)
  <1> SUFFICES ASSUME IInv, IInv', [Next]_vars PROVE Sink!Next \/ UNCHANGED Sink!vars
    OBVIOUS
  <1>a. TypeOK /\ StatesFit /\ TokenIsLast /\ EventsConsecutive
    BY DEF IInv
  <1>b. TypeOK' /\ StatesFit' /\ EventsConsecutive'
    BY DEF IInv
  <1>c. DurableCount = Len(durable) /\ DurableCount' = Len(durable')
    BY <1>a, <1>b DEF DurableCount, EventsConsecutive
  <1>0. ASSUME UNCHANGED <<state, accepted, durable>> PROVE UNCHANGED Sink!vars
    BY <1>0, <1>c DEF Sink!vars, SinkStatus, DurableCount
  <1>1. ASSUME NEW c \in Clients, Publish(c) PROVE Sink!Accept
    <2>1. accepted' = accepted + 1 /\ durable' = durable /\ state = "running" /\ state' = state
      BY <1>1 DEF Publish, RequireRunning
    <2>2. SinkStatus = "open" /\ SinkStatus' = "open"
      BY <2>1 DEF SinkStatus
    <2> QED
      BY <2>1, <2>2 DEF Sink!Accept
  <1>2. ASSUME NEW c \in Clients, Start(c) \/ PutTimesOut(c) PROVE UNCHANGED Sink!vars
    <2>1. /\ UNCHANGED <<accepted, durable>> /\ state \in {"new", "stopping", "failed"}
          /\ state' = state \/ (state \in {"new", "stopping"} /\ state' = "running")
      BY <1>2, <1>a DEF Start, PutTimesOut, TokenIsLast
    <2>2. SinkStatus' = SinkStatus
      BY <2>1 DEF SinkStatus
    <2> QED
      BY <2>1, <2>2 DEF Sink!vars, DurableCount
  <1>3. ASSUME NEW c \in Clients, RequestStop(c) PROVE Sink!Close \/ UNCHANGED Sink!vars
    <2>1. UNCHANGED <<accepted, durable>>
      BY <1>3 DEF RequestStop
    <2>2. CASE state = "new"
      <3>1. state' = "stopped"
        BY <2>2, <1>3 DEF RequestStop
      <3>2. SinkStatus = "open" /\ SinkStatus' = "closed"
        BY <2>2, <3>1 DEF SinkStatus
      <3>3. DurableCount = accepted
        BY <2>1, <3>1, <1>b, <1>c DEF StatesFit
      <3> QED
        BY <2>1, <3>2, <3>3 DEF Sink!Close, DurableCount
    <2>3. CASE state # "new"
      <3>1. state \in {"running", "stopping"} /\ state' = "stopping"
        BY <2>3, <1>3 DEF RequestStop
      <3>2. SinkStatus' = SinkStatus
        BY <3>1 DEF SinkStatus
      <3> QED
        BY <2>1, <3>2 DEF Sink!vars, DurableCount
    <2> QED
      BY <2>2, <2>3
  <1>4. ASSUME NEW c \in Clients,
               \/ Flush(c) \/ FlushReturns(c) \/ FlushTimesOut(c) \/ PutStopToken(c)
               \/ JoinReturns(c) \/ JoinTimesOut(c)
        PROVE  UNCHANGED Sink!vars
    BY <1>4, <1>0 DEF Flush, FlushReturns, FlushTimesOut, PutStopToken, JoinReturns, JoinTimesOut
  <1>5. CASE Write
    <2>1. /\ durable' = durable \o batch /\ UNCHANGED <<state, accepted>>
          /\ worker.at = "write" /\ worker'.at = "count"
      BY <1>5, AtFacts DEF Write
    <2>2. state \in {"running", "stopping"}
      BY <2>1, <1>a DEF StatesFit
    <2>3. SinkStatus = "open" /\ SinkStatus' = SinkStatus
      BY <2>1, <2>2 DEF SinkStatus
    <2>4. Len(durable') = Len(durable) + Len(batch) /\ Len(durable) \in Nat /\ Len(batch) \in Nat
             /\ accepted \in Nat
      BY <2>1, <1>a DEF TypeOK
    <2>5. Len(durable') <= accepted
      <3>1. Taken' <= accepted'
        BY <2>1, <1>b DEF EventsConsecutive, Working
      <3>2. Taken' = Len(durable') + 0 + 0
        BY <2>1 DEF Taken
      <3> QED
        BY <3>1, <3>2, <2>1, <2>4
    <2>6. CASE Len(batch) = 0
      <3>1. DurableCount' = DurableCount
        BY <2>4, <2>6, <1>c
      <3> QED
        BY <3>1, <2>1, <2>3 DEF Sink!vars, DurableCount
    <2>7. CASE Len(batch) # 0
      <3>1. DurableCount' \in DurableCount + 1 .. accepted
        BY <2>4, <2>5, <2>7, <1>c
      <3>2. Sink!Persist
        BY <3>1, <2>1, <2>3 DEF Sink!Persist, DurableCount
      <3> QED
        BY <3>2 DEF Sink!Next
    <2> QED
      BY <2>6, <2>7
  <1>6. CASE Finish
    <2>1. worker.at = "finish" /\ UNCHANGED <<accepted, durable>>
      BY <1>6 DEF Finish
    <2>2. CASE worker.item.kind = "stop"
      <3>1. state' = "stopped" /\ state \in {"running", "stopping"}
        BY <2>1, <2>2, <1>6, <1>a DEF Finish, StatesFit
      <3>2. SinkStatus = "open" /\ SinkStatus' = "closed"
        BY <3>1 DEF SinkStatus
      <3>3. DurableCount = accepted
        BY <2>1, <3>1, <1>b, <1>c DEF StatesFit
      <3>4. Sink!Close
        BY <2>1, <3>2, <3>3 DEF Sink!Close, DurableCount
      <3> QED
        BY <3>4 DEF Sink!Next
    <2>3. CASE worker.item.kind # "stop"
      BY <2>1, <2>3, <1>0, <1>6 DEF Finish
    <2> QED
      BY <2>2, <2>3
  <1>7. CASE Fail
    <2>1. worker.at = "fail" /\ UNCHANGED <<accepted, durable>> /\ state' = "failed"
      BY <1>7 DEF Fail
    <2>2. state \in {"running", "stopping"}
      BY <2>1, <1>a DEF StatesFit
    <2>3. SinkStatus = "open" /\ SinkStatus' = "failed"
      BY <2>1, <2>2 DEF SinkStatus
    <2>4. Sink!Fail
      BY <2>1, <2>3 DEF Sink!Fail, DurableCount
    <2> QED
      BY <2>4 DEF Sink!Next
  <1>8. CASE Get \/ Take \/ Count \/ Notify \/ Drain \/ WriteFails \/ UNCHANGED vars
    BY <1>8, <1>0 DEF Get, Take, Count, Notify, Drain, WriteFails, vars
  <1> QED
    BY <1>1, <1>2, <1>3, <1>4, <1>5, <1>6, <1>7, <1>8
       DEF Next, ClientStep, ClientCall, ClientWait, ClientTimeout, WorkerStep, QueueStep, Sink!Next

\* The safety half of the refinement that the writer's run checks: events become durable
\* in the order of their acceptance and none is lost, no stop with accepted events
\* outstanding, and nothing is accepted once the writer stopped or failed.
THEOREM RefinesOrderedSink == Spec => Sink!Init /\ [][Sink!Next]_(Sink!vars)
  <1>1. Spec => []IInv
    BY WriterInvariant
  <1> QED
    BY <1>1, SinkInit, SinkStep, PTL DEF Spec

-----------------------------------------------------------------------------
(* Ascending sequences *)

Increasing(s) == \A i, j \in DOMAIN s : i < j => s[i] < s[j]

\* s lists the members of S, the least first.
Lists(s, S) ==
    s \in [1 .. Cardinality(S) -> S] /\ Range(s) = S /\ Increasing(s)

LEMMA SameFunction ==
    ASSUME NEW D, NEW S, NEW f \in [D -> S], NEW g \in [D -> S], \A x \in D : f[x] = g[x]
    PROVE  f = g
  OBVIOUS

LEMMA LeastNumber ==
    ASSUME NEW B, B \subseteq Nat, B # {}
    PROVE  \E m \in B : \A y \in B : m <= y
<1>1. \E m \in B : \A y \in B : ~(<<y, m>> \in OpToRel(<, Nat))
  BY NatLessThanWellFounded, WFMin
<1>2. PICK m \in B : \A y \in B : ~(<<y, m>> \in OpToRel(<, Nat))
  BY <1>1
<1>3. \A y \in B : ~(y < m)
  BY <1>2 DEF OpToRel
<1> QED BY <1>3

\* A set of numbers up to a bound can be listed.
LEMMA ListExists ==
    ASSUME NEW N \in Nat
    PROVE  \A S \in SUBSET (1 .. N) : \E s : Lists(s, S)
<1> DEFINE Bad == {n \in Nat : ~(\A S \in SUBSET (1 .. n) : \E s : Lists(s, S))}
<1> SUFFICES ASSUME Bad # {} PROVE FALSE
  OBVIOUS
<1>1. PICK n \in Bad : \A m \in Bad : n <= m
  BY LeastNumber
<1>2. PICK S \in SUBSET (1 .. n) : ~\E s : Lists(s, S)
  OBVIOUS
<1>3. IsFiniteSet(1 .. n)
  BY FS_Interval
<1>4. IsFiniteSet(S) /\ Cardinality(S) \in Nat
  BY <1>3, FS_Subset, FS_CardinalityType
<1>5. S # {}
  <2> SUFFICES ASSUME S = {} PROVE FALSE
    OBVIOUS
  <2>1. Cardinality(S) = 0 /\ 1 .. 0 = {}
    BY FS_EmptySet
  <2>2. <<>> \in [1 .. Cardinality(S) -> S] /\ DOMAIN <<>> = {}
    BY <2>1
  <2>3. Lists(<<>>, S)
    BY <2>2 DEF Lists, Range, Increasing
  <2> QED BY <1>2, <2>3
<1>6. n > 0 /\ n - 1 \in Nat /\ n - 1 \notin Bad
  <2>1. n \in Nat
    OBVIOUS
  <2>2. n # 0
    <3>1. 1 .. 0 = {}
      OBVIOUS
    <3> QED BY <1>5, <3>1
  <2>3. n - 1 \in Nat /\ ~(n <= n - 1)
    BY <2>1, <2>2
  <2>4. n - 1 \notin Bad
    BY <1>1, <2>3
  <2> HIDE DEF Bad
  <2> QED BY <2>1, <2>2, <2>3, <2>4
<1>7. \A T \in SUBSET (1 .. n - 1) : \E s : Lists(s, T)
  BY <1>6
<1>8. n \in S
  <2>1. n \notin S => S \in SUBSET (1 .. n - 1)
    BY <1>6
  <2> QED BY <1>2, <1>7, <2>1
<1> DEFINE T == S \ {n}
<1>9. T \in SUBSET (1 .. n - 1) /\ IsFiniteSet(T)
  BY <1>4, <1>6, FS_Subset
<1>10. PICK t : Lists(t, T)
  BY <1>7, <1>9
<1>11. Cardinality(S) = Cardinality(T) + 1 /\ Cardinality(T) \in Nat
  BY <1>4, <1>8, <1>9, FS_RemoveElement, FS_CardinalityType
<1> DEFINE k == Cardinality(S)
           s == [i \in 1 .. k |-> IF i = k THEN n ELSE t[i]]
<1>18. Cardinality(T) = k - 1 /\ k \in Nat
  BY <1>4, <1>11
<1>19. /\ t \in [1 .. k - 1 -> T] /\ \A x \in T : \E i \in 1 .. k - 1 : t[i] = x
       /\ \A i, j \in 1 .. k - 1 : i < j => t[i] < t[j]
  BY <1>10, <1>18 DEF Lists, Range, Increasing
<1>12. \A i \in 1 .. k : i # k => i \in 1 .. k - 1
  BY <1>4
<1>13. \A i \in 1 .. k - 1 : t[i] \in T /\ t[i] \in S /\ t[i] < n
  <2>1. n \in Nat
    OBVIOUS
  <2>2. \A x \in T : x \in S /\ x \in 1 .. n - 1
    BY <1>9
  <2>3. \A x \in T : x \in S /\ x < n
    BY <2>1, <2>2
  <2> HIDE DEF T
  <2> QED BY <1>19, <2>3
<1>14. s \in [1 .. k -> S]
  BY <1>8, <1>12, <1>13
<1>15. Range(s) = S
  <2>1. ASSUME NEW x \in S PROVE \E i \in 1 .. k : s[i] = x
    <3>1. CASE x = n
      BY <1>4, <1>11, <3>1
    <3>2. CASE x # n
      <4>1. PICK i \in 1 .. k - 1 : t[i] = x
        BY <1>19, <3>2
      <4> QED BY <1>4, <4>1
    <3> QED BY <3>1, <3>2
  <2>2. \A i \in 1 .. k : s[i] \in S
    BY <1>14
  <2> HIDE DEF s
  <2> QED BY <1>14, <2>1, <2>2 DEF Range
<1>16. Increasing(s)
  <2> SUFFICES ASSUME NEW i \in 1 .. k, NEW j \in 1 .. k, i < j PROVE s[i] < s[j]
    BY DEF Increasing
  <2>1. i \in 1 .. k - 1 /\ s[i] = t[i]
    BY <1>4
  <2>2. CASE j = k
    BY <1>13, <2>1, <2>2
  <2>3. CASE j # k
    <3>1. j \in 1 .. k - 1 /\ s[j] = t[j]
      BY <1>12, <2>3
    <3>2. t[i] < t[j]
      BY <1>19, <2>1, <3>1
    <3> QED BY <2>1, <3>1, <3>2
  <2> QED BY <2>2, <2>3
<1> HIDE DEF s
<1>17. Lists(s, S)
  BY <1>14, <1>15, <1>16 DEF Lists
<1> QED BY <1>2, <1>17

\* Ascending lists its argument.
LEMMA AscendingLists ==
    ASSUME NEW N \in Nat, NEW S \in SUBSET (1 .. N)
    PROVE  Lists(Ascending(S), S)
<1>1. PICK s : Lists(s, S)
  BY ListExists
<1>2. \E t \in [1 .. Cardinality(S) -> S] :
         Range(t) = S /\ \A i, j \in DOMAIN t : i < j => t[i] < t[j]
  BY <1>1 DEF Lists, Increasing
<1> QED BY <1>2 DEF Ascending, Lists, Increasing

\* There is one list only.
LEMMA ListUnique ==
    ASSUME NEW S \in SUBSET Nat, IsFiniteSet(S), NEW s, NEW t, Lists(s, S), Lists(t, S)
    PROVE  s = t
<1> DEFINE k == Cardinality(S)
           Differ == {i \in 1 .. k : s[i] # t[i]}
<1>1. k \in Nat
  BY FS_CardinalityType
<1>2. /\ s \in [1 .. k -> S] /\ t \in [1 .. k -> S]
      /\ \A x \in S : (\E i \in 1 .. k : s[i] = x) /\ (\E i \in 1 .. k : t[i] = x)
      /\ \A i, j \in 1 .. k : i < j => s[i] < s[j] /\ t[i] < t[j]
  BY DEF Lists, Range, Increasing
<1>8. (\A i \in 1 .. k : s[i] = t[i]) => s = t
  <2> SUFFICES ASSUME \A i \in 1 .. k : s[i] = t[i] PROVE s = t
    OBVIOUS
  <2>1. s \in [1 .. k -> S] /\ t \in [1 .. k -> S]
    BY <1>2
  <2>2. PICK D : D = 1 .. k
    OBVIOUS
  <2>3. s \in [D -> S] /\ t \in [D -> S] /\ \A i \in D : s[i] = t[i]
    BY <2>1, <2>2
  <2> QED BY <2>3, SameFunction
<1> SUFFICES ASSUME Differ # {} PROVE FALSE
  BY <1>8
<1>9. Differ \subseteq Nat
  BY <1>1
<1>3. PICK i \in Differ : \A j \in Differ : i <= j
  BY <1>9, LeastNumber
<1>4. \A j \in 1 .. k : j < i => s[j] = t[j]
  BY <1>1, <1>3
<1>5. s[i] \in Nat /\ t[i] \in Nat /\ s[i] # t[i] /\ i \in 1 .. k
  BY <1>2, <1>3
<1>6. ASSUME s[i] < t[i] PROVE FALSE
  <2>1. PICK j \in 1 .. k : t[j] = s[i]
    BY <1>2, <1>5
  <2>2. j < i => t[j] = s[j] /\ s[j] < s[i]
    BY <1>2, <1>4, <1>5
  <2>3. j > i => t[i] < t[j]
    BY <1>2, <1>5
  <2> QED BY <1>1, <1>5, <1>6, <2>1, <2>2, <2>3
<1>7. ASSUME t[i] < s[i] PROVE FALSE
  <2>1. PICK j \in 1 .. k : s[j] = t[i]
    BY <1>2, <1>5
  <2>2. j < i => t[j] = s[j] /\ t[j] < t[i]
    BY <1>2, <1>4, <1>5
  <2>3. j > i => s[i] < s[j]
    BY <1>2, <1>5
  <2> QED BY <1>1, <1>5, <1>7, <2>1, <2>2, <2>3
<1> QED BY <1>5, <1>6, <1>7

\* An ascending sequence lists its members.
LEMMA IncreasingLists ==
    ASSUME NEW s \in Seq(Nat), Increasing(s)
    PROVE  Lists(s, Range(s)) /\ IsFiniteSet(Range(s)) /\ Range(s) \in SUBSET Nat
<1> DEFINE n == Len(s)
<1>1. n \in Nat /\ DOMAIN s = 1 .. n /\ \A i \in 1 .. n : s[i] \in Nat
  OBVIOUS
<1>2. s \in [1 .. n -> Range(s)] /\ Range(s) \in SUBSET Nat
  BY <1>1 DEF Range
<1>3. \A i, j \in 1 .. n : s[i] = s[j] => i = j
  BY <1>1 DEF Increasing
<1>4. s \in Injection(1 .. n, Range(s))
  BY <1>2, <1>3 DEF Injection, IsInjective
<1>5. s \in Surjection(1 .. n, Range(s))
  BY <1>1, <1>2 DEF Surjection, Range
<1>6. ExistsBijection(1 .. n, Range(s))
  BY <1>4, <1>5 DEF ExistsBijection, Bijection
<1>7. Cardinality(Range(s)) = n /\ IsFiniteSet(Range(s))
  BY <1>1, <1>6, FS_CountingElements, FS_NatBijection
<1> QED BY <1>2, <1>7 DEF Lists

-----------------------------------------------------------------------------
(* The recording: its invariant *)

SessionTyped ==
    /\ session \in {"none", "recording"} \cup Terminal /\ rawOnly \in BOOLEAN
    /\ log \in Seq(Nat)

\* The log holds durable events in ascending order up to the checkpoint.
LogFits ==
    /\ Increasing(log)
    /\ \A i \in DOMAIN log : log[i] \in 1 .. Len(durable)
    /\ checkpoint = IF log = <<>> THEN 0 ELSE Last(log)

\* Every durable event is in the log under its key, which is there once.
KeysFit ==
    /\ \A i \in DOMAIN durable : DedupeKey[durable[i]] \in Keys(Range(log))
    /\ \A i, j \in DOMAIN log : DedupeKey[log[i]] = DedupeKey[log[j]] => i = j

\* A session that did not lose a projection has them all; another one ends incomplete.
ProjectionsFit ==
    /\ rawOnly => session = "incomplete"
    /\ session \in {"none", "recording", "complete"} => Projected(log) \subseteq projected

RecordingInv == SessionTyped /\ LogFits /\ KeysFit /\ ProjectionsFit

-----------------------------------------------------------------------------
(* What append_batch stores *)

\* The event at this place of the batch is new to the log and the first with its key.
First(i) ==
    /\ DedupeKey[batch[i]] \notin Keys(Range(log))
    /\ \A j \in 1 .. i - 1 : DedupeKey[batch[j]] # DedupeKey[batch[i]]

Places == {i \in DOMAIN batch : First(i)}

LEMMA KeysOfLog ==
    ASSUME NEW s, NEW k
    PROVE  k \in Keys(Range(s)) <=> \E i \in DOMAIN s : k = DedupeKey[s[i]]
  BY DEF Keys, Range

\* The new events are those of the batch that are first, in the order of the batch.
LEMMA NewFacts ==
    ASSUME IInv, worker.at = "write"
    PROVE  /\ NewEvents \in Seq(Nat) /\ Increasing(NewEvents)
           /\ \A k \in DOMAIN NewEvents :
                 \E i \in Places : NewEvents[k] = batch[i]
                     /\ batch[i] \in Len(durable) + 1 .. Len(durable) + Len(batch)
           /\ \A i \in Places : \E k \in DOMAIN NewEvents : NewEvents[k] = batch[i]
           /\ \A k, l \in DOMAIN NewEvents :
                 DedupeKey[NewEvents[k]] = DedupeKey[NewEvents[l]] => k = l
<1> DEFINE kept == Ascending(Places)
<1>1. NewEvents = [k \in DOMAIN kept |-> batch[kept[k]]]
  BY DEF NewEvents, Places, First
<1>2. /\ Len(batch) \in Nat /\ Len(durable) \in Nat /\ DOMAIN batch = 1 .. Len(batch)
      /\ \A i \in DOMAIN batch : batch[i] = Len(durable) + i
  BY TakenFacts DEF IInv, EventsConsecutive, Working
<1>3. Places \in SUBSET (1 .. Len(batch))
  BY <1>2 DEF Places
<1>4. Lists(kept, Places)
  BY <1>2, <1>3, AscendingLists
<1>5. IsFiniteSet(1 .. Len(batch))
  BY <1>2, FS_Interval
<1>6. Cardinality(Places) \in Nat
  BY <1>3, <1>5, FS_Subset, FS_CardinalityType
<1> HIDE DEF kept
<1>7. PICK n \in Nat : /\ kept \in [1 .. n -> Places]
                       /\ \A i \in Places : \E k \in 1 .. n : kept[k] = i
                       /\ \A k, l \in 1 .. n : k < l => kept[k] < kept[l]
  BY <1>4, <1>6 DEF Lists, Range, Increasing
<1>8. NewEvents = [k \in 1 .. n |-> batch[kept[k]]] /\ DOMAIN NewEvents = 1 .. n
  BY <1>1, <1>7
<1>9. \A k \in 1 .. n : /\ kept[k] \in Places /\ kept[k] \in 1 .. Len(batch)
                        /\ NewEvents[k] = batch[kept[k]]
                        /\ NewEvents[k] = Len(durable) + kept[k]
  BY <1>2, <1>3, <1>7, <1>8
<1>10. NewEvents \in Seq(Nat)
  <2>1. \A k \in 1 .. n : batch[kept[k]] \in Nat
    BY <1>2, <1>9
  <2> QED BY <1>8, <2>1
<1>11. Increasing(NewEvents)
  <2> SUFFICES ASSUME NEW k \in 1 .. n, NEW l \in 1 .. n, k < l
               PROVE  NewEvents[k] < NewEvents[l]
    BY <1>8 DEF Increasing
  <2>1. kept[k] < kept[l]
    BY <1>7
  <2> QED BY <1>2, <1>9, <2>1
<1>12. \A k \in DOMAIN NewEvents :
           \E i \in Places : NewEvents[k] = batch[i]
               /\ batch[i] \in Len(durable) + 1 .. Len(durable) + Len(batch)
  <2> SUFFICES ASSUME NEW k \in 1 .. n
               PROVE  batch[kept[k]] \in Len(durable) + 1 .. Len(durable) + Len(batch)
    BY <1>8, <1>9
  <2> QED BY <1>2, <1>9
<1>13. \A i \in Places : \E k \in DOMAIN NewEvents : NewEvents[k] = batch[i]
  BY <1>7, <1>8, <1>9
<1>15. \A a, b \in 1 .. Len(batch) :
           First(b) /\ DedupeKey[batch[a]] = DedupeKey[batch[b]] => ~(a < b)
  <2> SUFFICES ASSUME NEW a \in 1 .. Len(batch), NEW b \in 1 .. Len(batch), First(b), a < b
               PROVE  DedupeKey[batch[a]] # DedupeKey[batch[b]]
    OBVIOUS
  <2>1. a \in 1 .. b - 1
    BY <1>2
  <2> QED BY <2>1 DEF First
<1>14. ASSUME NEW k \in DOMAIN NewEvents, NEW l \in DOMAIN NewEvents,
              DedupeKey[NewEvents[k]] = DedupeKey[NewEvents[l]]
       PROVE  k = l
  <2>1. /\ k \in 1 .. n /\ l \in 1 .. n
        /\ First(kept[k]) /\ First(kept[l])
        /\ DedupeKey[batch[kept[k]]] = DedupeKey[batch[kept[l]]]
        /\ kept[k] \in 1 .. Len(batch) /\ kept[l] \in 1 .. Len(batch)
    BY <1>8, <1>9, <1>14 DEF Places
  <2>2. ~(kept[k] < kept[l]) /\ ~(kept[l] < kept[k])
    BY <1>15, <2>1
  <2>3. ~(k < l) /\ ~(l < k)
    BY <1>7, <2>1, <2>2
  <2> QED BY <2>1, <2>3
<1> QED BY <1>10, <1>11, <1>12, <1>13, <1>14

\* Each key of the batch is that of the log, or of a new event: the first with it.
LEMMA BatchCovered ==
    ASSUME IInv, worker.at = "write", NEW i \in DOMAIN batch
    PROVE  \/ DedupeKey[batch[i]] \in Keys(Range(log))
           \/ \E p \in Places : DedupeKey[batch[p]] = DedupeKey[batch[i]]
<1>1. Len(batch) \in Nat /\ DOMAIN batch = 1 .. Len(batch)
  BY TakenFacts DEF IInv
<1> SUFFICES ASSUME DedupeKey[batch[i]] \notin Keys(Range(log))
             PROVE  \E p \in Places : DedupeKey[batch[p]] = DedupeKey[batch[i]]
  OBVIOUS
<1> DEFINE Same == {j \in DOMAIN batch : DedupeKey[batch[j]] = DedupeKey[batch[i]]}
<1>2. Same \subseteq Nat /\ i \in Same
  BY <1>1
<1>3. PICK p \in Same : \A j \in Same : p <= j
  BY <1>2, LeastNumber
<1>4. \A j \in 1 .. p - 1 : DedupeKey[batch[j]] # DedupeKey[batch[p]]
  <2> SUFFICES ASSUME NEW j \in 1 .. p - 1, DedupeKey[batch[j]] = DedupeKey[batch[p]]
               PROVE  FALSE
    OBVIOUS
  <2>1. j \in DOMAIN batch /\ j < p
    BY <1>1, <1>3
  <2>2. j \in Same
    BY <1>3, <2>1
  <2> QED BY <1>1, <1>3, <2>1, <2>2
<1>5. First(p)
  BY <1>3, <1>4 DEF First
<1> QED BY <1>3, <1>5 DEF Places

LEMMA ConcatFacts ==
    ASSUME NEW a \in Seq(Nat), NEW b \in Seq(Nat)
    PROVE  /\ a \o b \in Seq(Nat) /\ Len(a \o b) = Len(a) + Len(b)
           /\ Len(a) \in Nat /\ Len(b) \in Nat
           /\ DOMAIN a = 1 .. Len(a) /\ DOMAIN b = 1 .. Len(b)
           /\ DOMAIN (a \o b) = 1 .. Len(a) + Len(b)
           /\ \A i \in 1 .. Len(a) : (a \o b)[i] = a[i]
           /\ \A i \in 1 .. Len(b) : (a \o b)[Len(a) + i] = b[i]
           /\ \A i \in 1 .. Len(a) + Len(b) :
                 \/ i \in 1 .. Len(a)
                 \/ i - Len(a) \in 1 .. Len(b) /\ (a \o b)[i] = b[i - Len(a)]
  OBVIOUS

\* The batch is committed with its new events behind the log, and the checkpoint follows.
LEMMA StoreKeeps ==
    ASSUME IInv, RecordingInv, Write, log' = log \o NewEvents,
           checkpoint' = IF NewEvents = <<>> THEN checkpoint ELSE Last(NewEvents)
    PROVE  log' \in Seq(Nat) /\ LogFits' /\ KeysFit'
<1> DEFINE new == NewEvents
<1>1. worker.at = "write" /\ durable' = durable \o batch
  BY DEF Write
<1>2. /\ new \in Seq(Nat) /\ Increasing(new)
      /\ \A k \in DOMAIN new :
            \E i \in Places : new[k] = batch[i]
                /\ batch[i] \in Len(durable) + 1 .. Len(durable) + Len(batch)
      /\ \A i \in Places : \E k \in DOMAIN new : new[k] = batch[i]
      /\ \A k, l \in DOMAIN new : DedupeKey[new[k]] = DedupeKey[new[l]] => k = l
  BY <1>1, NewFacts
<1>3. \A k \in DOMAIN new : DedupeKey[new[k]] \notin Keys(Range(log))
  BY <1>2 DEF Places, First
<1>4. PICK m : m = new
  OBVIOUS
<1>5. /\ m \in Seq(Nat) /\ log \in Seq(Nat) /\ durable \in Seq(Nat) /\ batch \in Seq(Nat)
  BY <1>2, <1>4 DEF RecordingInv, SessionTyped, IInv, TypeOK
<1>6. log' = log \o m
  BY <1>4
<1>7. /\ log' \in Seq(Nat) /\ Len(log') = Len(log) + Len(m)
      /\ Len(log) \in Nat /\ Len(m) \in Nat
      /\ DOMAIN log = 1 .. Len(log) /\ DOMAIN m = 1 .. Len(m)
      /\ DOMAIN log' = 1 .. Len(log) + Len(m)
      /\ \A i \in 1 .. Len(log) : log'[i] = log[i]
      /\ \A i \in 1 .. Len(m) : log'[Len(log) + i] = m[i]
      /\ \A i \in 1 .. Len(log) + Len(m) :
            i \in 1 .. Len(log) \/ (i - Len(log) \in 1 .. Len(m) /\ log'[i] = m[i - Len(log)])
  BY <1>5, <1>6, ConcatFacts
<1>8. /\ durable' \in Seq(Nat) /\ Len(durable') = Len(durable) + Len(batch)
      /\ Len(durable) \in Nat /\ Len(batch) \in Nat
      /\ DOMAIN durable = 1 .. Len(durable) /\ DOMAIN batch = 1 .. Len(batch)
      /\ DOMAIN durable' = 1 .. Len(durable) + Len(batch)
      /\ \A i \in 1 .. Len(durable) : durable'[i] = durable[i]
      /\ \A i \in 1 .. Len(durable) + Len(batch) :
            \/ i \in 1 .. Len(durable)
            \/ i - Len(durable) \in 1 .. Len(batch) /\ durable'[i] = batch[i - Len(durable)]
  BY <1>1, <1>5, ConcatFacts
<1>9. /\ \A k \in 1 .. Len(m) : m[k] \in Len(durable) + 1 .. Len(durable) + Len(batch)
      /\ \A k \in 1 .. Len(m) : DedupeKey[m[k]] \notin Keys(Range(log))
      /\ \A i \in Places : \E k \in 1 .. Len(m) : m[k] = batch[i]
      /\ \A k, l \in 1 .. Len(m) : DedupeKey[m[k]] = DedupeKey[m[l]] => k = l
      /\ \A k, l \in 1 .. Len(m) : k < l => m[k] < m[l]
  BY <1>2, <1>3, <1>4, <1>7 DEF Increasing
<1>10. /\ \A i \in 1 .. Len(log) : log[i] \in 1 .. Len(durable)
       /\ \A i, j \in 1 .. Len(log) : i < j => log[i] < log[j]
       /\ \A i, j \in 1 .. Len(log) : DedupeKey[log[i]] = DedupeKey[log[j]] => i = j
       /\ \A i \in 1 .. Len(durable) : DedupeKey[durable[i]] \in Keys(Range(log))
       /\ checkpoint = IF log = <<>> THEN 0 ELSE Last(log)
  BY <1>7, <1>8 DEF RecordingInv, LogFits, KeysFit, Increasing
<1>17. \A k, l \in 1 .. Len(m) : k < l => m[k] < m[l]
  BY <1>9
<1>18. \A k \in 1 .. Len(m) : DedupeKey[m[k]] \notin Keys(Range(log))
  BY <1>9
<1>19. \A i \in 1 .. Len(log) : log'[i] = log[i]
  BY <1>7
<1>20. DOMAIN log' = 1 .. Len(log) + Len(m)
  BY <1>7
<1> HIDE DEF new
<1>11. Increasing(log')
  <2> SUFFICES ASSUME NEW i \in 1 .. Len(log) + Len(m), NEW j \in 1 .. Len(log) + Len(m), i < j
               PROVE  log'[i] < log'[j]
    BY <1>7 DEF Increasing
  <2>1. CASE j \in 1 .. Len(log)
    <3>1. i \in 1 .. Len(log)
      BY <1>7, <2>1
    <3> QED BY <1>7, <1>10, <2>1, <3>1
  <2>2. CASE j - Len(log) \in 1 .. Len(m) /\ log'[j] = m[j - Len(log)]
    <3>1. CASE i \in 1 .. Len(log)
      <4>1. log'[i] \in 1 .. Len(durable)
        BY <1>7, <1>10, <3>1
      <4>2. log'[j] \in Len(durable) + 1 .. Len(durable) + Len(batch)
        BY <1>9, <2>2
      <4>3. \A d, b \in Nat : \A x \in 1 .. d : \A y \in d + 1 .. d + b : x < y
        OBVIOUS
      <4> QED BY <1>8, <4>1, <4>2, <4>3
    <3>2. CASE i - Len(log) \in 1 .. Len(m) /\ log'[i] = m[i - Len(log)]
      <4>1. i - Len(log) < j - Len(log)
        BY <1>7
      <4> QED BY <1>17, <2>2, <3>2, <4>1
    <3> QED BY <1>7, <3>1, <3>2
  <2> QED BY <1>7, <2>1, <2>2
<1>12. \A i \in DOMAIN log' : log'[i] \in 1 .. Len(durable')
  <2> SUFFICES ASSUME NEW i \in 1 .. Len(log) + Len(m)
               PROVE  log'[i] \in 1 .. Len(durable) + Len(batch)
    BY <1>7, <1>8
  <2>1. CASE i \in 1 .. Len(log)
    BY <1>7, <1>8, <1>10, <2>1
  <2>2. CASE i - Len(log) \in 1 .. Len(m) /\ log'[i] = m[i - Len(log)]
    BY <1>8, <1>9, <2>2
  <2> QED BY <1>7, <2>1, <2>2
<1>13. checkpoint' = IF log' = <<>> THEN 0 ELSE Last(log')
  <2>1. CASE m = <<>>
    <3>1. log' = log
      BY <1>5, <1>6, <2>1
    <3> QED BY <1>4, <1>10, <2>1, <3>1 DEF new
  <2>2. CASE m # <<>>
    <3>1. Len(m) > 0 /\ checkpoint' = m[Len(m)]
      BY <1>4, <1>5, <2>2 DEF Last, new
    <3>2. log' # <<>> /\ Last(log') = log'[Len(log) + Len(m)]
      BY <1>7, <3>1 DEF Last
    <3> QED BY <1>7, <3>1, <3>2
  <2> QED BY <2>1, <2>2
<1>14. \A i, j \in DOMAIN log' : DedupeKey[log'[i]] = DedupeKey[log'[j]] => i = j
  <2>0. \A i \in 1 .. Len(log) : DedupeKey[log[i]] \in Keys(Range(log))
    BY <1>7, KeysOfLog
  <2> SUFFICES ASSUME NEW i \in 1 .. Len(log) + Len(m), NEW j \in 1 .. Len(log) + Len(m),
                      DedupeKey[log'[i]] = DedupeKey[log'[j]]
               PROVE  i = j
    BY <1>20
  <2>1. CASE i \in 1 .. Len(log) /\ j \in 1 .. Len(log)
    BY <1>7, <1>10, <2>1
  <2>2. CASE i \in 1 .. Len(log) /\ j - Len(log) \in 1 .. Len(m) /\ log'[j] = m[j - Len(log)]
    BY <1>18, <1>19, <2>0, <2>2
  <2>3. CASE j \in 1 .. Len(log) /\ i - Len(log) \in 1 .. Len(m) /\ log'[i] = m[i - Len(log)]
    BY <1>18, <1>19, <2>0, <2>3
  <2>4. CASE /\ i - Len(log) \in 1 .. Len(m) /\ log'[i] = m[i - Len(log)]
             /\ j - Len(log) \in 1 .. Len(m) /\ log'[j] = m[j - Len(log)]
    <3>1. i - Len(log) = j - Len(log)
      BY <1>9, <2>4
    <3> QED BY <1>7, <3>1
  <2> QED BY <1>7, <2>1, <2>2, <2>3, <2>4
<1>15. \A k : k \in Keys(Range(log)) => k \in Keys(Range(log'))
  <2> SUFFICES ASSUME NEW k, k \in Keys(Range(log)) PROVE k \in Keys(Range(log'))
    OBVIOUS
  <2>1. PICK i \in DOMAIN log : k = DedupeKey[log[i]]
    BY KeysOfLog
  <2>2. i \in DOMAIN log' /\ log'[i] = log[i]
    BY <1>7
  <2> QED BY <2>1, <2>2, KeysOfLog
<1>16. \A i \in DOMAIN durable' : DedupeKey[durable'[i]] \in Keys(Range(log'))
  <2> SUFFICES ASSUME NEW i \in 1 .. Len(durable) + Len(batch)
               PROVE  DedupeKey[durable'[i]] \in Keys(Range(log'))
    BY <1>8
  <2>1. CASE i \in 1 .. Len(durable)
    BY <1>8, <1>10, <1>15, <2>1
  <2>2. CASE i - Len(durable) \in 1 .. Len(batch) /\ durable'[i] = batch[i - Len(durable)]
    <3>1. i - Len(durable) \in DOMAIN batch
      BY <1>8, <2>2
    <3>2. CASE DedupeKey[durable'[i]] \in Keys(Range(log))
      BY <1>15, <3>2
    <3>3. CASE \E p \in Places : DedupeKey[batch[p]] = DedupeKey[durable'[i]]
      <4>1. PICK p \in Places : DedupeKey[batch[p]] = DedupeKey[durable'[i]]
        BY <3>3
      <4>2. PICK k \in 1 .. Len(m) : m[k] = batch[p]
        BY <1>9
      <4>3. Len(log) + k \in DOMAIN log' /\ log'[Len(log) + k] = batch[p]
        BY <1>7, <4>2
      <4> QED BY <4>1, <4>3, KeysOfLog
    <3> QED BY <1>1, <2>2, <3>1, <3>2, <3>3, BatchCovered
  <2> QED BY <1>8, <2>1, <2>2
<1> QED BY <1>7, <1>11, <1>12, <1>13, <1>14, <1>16 DEF LogFits, KeysFit


-----------------------------------------------------------------------------
(* The steps of the recording *)

\* A step that commits nothing and leaves the repository alone.
LEMMA RepositoryFrame ==
    ASSUME RecordingInv, durable' = durable, UNCHANGED repository
    PROVE  RecordingInv'
  BY DEF RecordingInv, SessionTyped, LogFits, KeysFit, ProjectionsFit, repository, Increasing,
         Keys, Range, Projected, Last

LEMMA ProjectedConcat ==
    ASSUME NEW a \in Seq(Nat), NEW b \in Seq(Nat)
    PROVE  Projected(a \o b) \subseteq Projected(a) \cup Projected(b)
<1> DEFINE c == a \o b
<1> SUFFICES ASSUME NEW n \in Range(c) PROVE n \in Range(a) \/ n \in Range(b)
  BY DEF Projected
<1>1. PICK i \in DOMAIN c : c[i] = n
  BY DEF Range
<1>2. \/ i \in DOMAIN a /\ c[i] = a[i]
      \/ i - Len(a) \in DOMAIN b /\ c[i] = b[i - Len(a)]
  BY <1>1, ConcatFacts
<1> QED BY <1>1, <1>2 DEF Range

\* append_batch, whichever of its ends it takes.
LEMMA AppendKeeps ==
    ASSUME IInv, RecordingInv, Write, AppendBatch
    PROVE  RecordingInv'
<1>0. /\ worker.at = "write" /\ durable' = durable \o batch
      /\ durable \in Seq(Nat) /\ log \in Seq(Nat)
  BY DEF Write, IInv, TypeOK, RecordingInv, SessionTyped
<1>1. CASE batch = <<>> /\ UNCHANGED repository
  <2>1. durable' = durable
    BY <1>0, <1>1
  <2> QED BY <1>1, <2>1, RepositoryFrame
<1>2. NewEvents \in Seq(Nat)
  BY <1>0, NewFacts
<1>3. PICK m : m = NewEvents
  OBVIOUS
<1>4. CASE NewEvents = <<>> /\ UNCHANGED repository
  <2>1. log' = log \o NewEvents
    <3>1. log \o <<>> = log
      BY <1>0
    <3> QED BY <1>4, <3>1 DEF repository
  <2>2. log' \in Seq(Nat) /\ LogFits' /\ KeysFit'
    BY <1>4, <2>1, StoreKeeps DEF repository
  <2> QED BY <1>4, <2>2 DEF RecordingInv, SessionTyped, ProjectionsFit, repository, Projected, Range
<1>5. ASSUME NewEvents # <<>>, Store(NewEvents)
      PROVE  log' \in Seq(Nat) /\ LogFits' /\ KeysFit' /\ log' = log \o m
  BY <1>3, <1>5, StoreKeeps DEF Store
<1>6. CASE NewEvents # <<>> /\ rawOnly /\ Store(NewEvents) /\ UNCHANGED <<session, projected, rawOnly>>
  <2>1. log' \in Seq(Nat) /\ LogFits' /\ KeysFit'
    BY <1>5, <1>6
  <2>2. session = "incomplete" /\ session' = "incomplete"
    BY <1>6 DEF RecordingInv, ProjectionsFit
  <2> QED BY <1>6, <2>1, <2>2 DEF RecordingInv, SessionTyped, ProjectionsFit
<1>7. CASE /\ NewEvents # <<>> /\ ~rawOnly /\ Store(NewEvents)
           /\ projected' = projected \cup Projected(NewEvents) /\ UNCHANGED <<session, rawOnly>>
  <2>1. log' \in Seq(Nat) /\ LogFits' /\ KeysFit' /\ log' = log \o m
    BY <1>5, <1>7
  <2>2. Projected(log \o m) \subseteq Projected(log) \cup Projected(m)
    BY <1>0, <1>2, <1>3, ProjectedConcat
  <2>3. session' \in {"none", "recording", "complete"} => Projected(log \o m) \subseteq projected'
    BY <1>3, <1>7, <2>2 DEF RecordingInv, ProjectionsFit
  <2>4. Projected(log)' = Projected(log \o m)
    BY <2>1 DEF Projected, Range
  <2> QED BY <1>7, <2>1, <2>3, <2>4 DEF RecordingInv, SessionTyped, ProjectionsFit
<1>8. CASE NewEvents # <<>> /\ RecoverProjectionBatch(NewEvents)
  <2>1. Store(NewEvents) /\ session' = "incomplete" /\ rawOnly' = TRUE
    BY <1>8 DEF RecoverProjectionBatch
  <2>2. log' \in Seq(Nat) /\ LogFits' /\ KeysFit'
    BY <1>5, <1>8, <2>1
  <2> QED BY <2>1, <2>2 DEF RecordingInv, SessionTyped, ProjectionsFit, Terminal
<1> QED BY <1>1, <1>4, <1>6, <1>7, <1>8 DEF AppendBatch

\* begin_session, end_session and the recovery of another process.
LEMMA SessionKeeps ==
    ASSUME RecordingInv, UNCHANGED vars,
           BeginSession \/ RecoverSessions \/ \E s \in {"complete", "incomplete"} : EndSession(s)
    PROVE  RecordingInv'
<1>1. UNCHANGED <<durable, checkpoint, log, projected>>
  BY DEF vars, BeginSession, RecoverSessions, EndSession
<1>2. SessionTyped'
  BY <1>1 DEF RecordingInv, SessionTyped, BeginSession, RecoverSessions, EndSession, Terminal
<1>3. LogFits' /\ KeysFit'
  BY <1>1 DEF RecordingInv, LogFits, KeysFit, Increasing, Keys, Range, Last
<1>4. Projected(log)' = Projected(log)
  BY <1>1 DEF Projected, Range
<1>5. /\ rawOnly' => session' = "incomplete"
      /\ session' \in {"none", "recording", "complete"} => session \in {"none", "recording", "complete"}
  BY DEF RecordingInv, ProjectionsFit, BeginSession, RecoverSessions, EndSession
<1> QED BY <1>1, <1>2, <1>3, <1>4, <1>5 DEF RecordingInv, ProjectionsFit

\* A step of the recording is one of the writer, and keeps what the repository holds.
LEMMA RecordingStep ==
    ASSUME IInv, RecordingInv, [RecordingNext]_recording
    PROVE  [Next]_vars /\ RecordingInv'
<1>1. CASE ClientStep /\ UNCHANGED repository
  <2>1. durable' = durable
    BY <1>1, ClientFrame DEF ClientStep
  <2> QED BY <1>1, <2>1, RepositoryFrame DEF Next
<1>2. CASE QueueStep /\ UNCHANGED repository
  <2>1. durable' = durable
    BY <1>2 DEF QueueStep, Get, Take, Count, Finish, Fail, Notify, Drain
  <2> QED BY <1>2, <2>1, RepositoryFrame DEF Next, WorkerStep
<1>3. CASE Write /\ AppendBatch
  BY <1>3, AppendKeeps DEF Next, WorkerStep
<1>4. CASE WriteFails /\ UNCHANGED repository
  <2>1. durable' = durable
    BY <1>4 DEF WriteFails
  <2> QED BY <1>4, <2>1, RepositoryFrame DEF Next, WorkerStep
<1>5. CASE /\ BeginSession \/ RecoverSessions \/ \E s \in {"complete", "incomplete"} : EndSession(s)
           /\ UNCHANGED vars
  BY <1>5, SessionKeeps
<1>6. CASE UNCHANGED recording
  <2>1. UNCHANGED vars /\ UNCHANGED repository
    BY <1>6 DEF recording
  <2>2. durable' = durable
    BY <2>1 DEF vars
  <2> QED BY <2>1, <2>2, RepositoryFrame
<1> QED BY <1>1, <1>2, <1>3, <1>4, <1>5, <1>6 DEF RecordingNext, Worker

LEMMA RecordingStart == RecordingInit => IInv /\ RecordingInv
<1> SUFFICES ASSUME RecordingInit PROVE IInv /\ RecordingInv
  OBVIOUS
<1>1. IInv
  BY InitIInv DEF RecordingInit
<1>2. /\ log = <<>> /\ durable = <<>> /\ session = "none" /\ rawOnly = FALSE /\ checkpoint = 0
  BY DEF RecordingInit, RepositoryInit, Init
<1>3. DOMAIN log = {} /\ DOMAIN durable = {} /\ log \in Seq(Nat)
  BY <1>2
<1>4. Projected(log) = {}
  BY <1>3 DEF Projected, Range
<1> QED BY <1>1, <1>2, <1>3, <1>4
         DEF RecordingInv, SessionTyped, LogFits, KeysFit, ProjectionsFit, Increasing

\* The invariant of the writer holds under the repository, and with it that the log lists
\* durable events in ascending order, each key once, and that a session not lost to a
\* projection failure has every projection.
THEOREM RecordingInvariant == RecordingSpec => [](IInv /\ RecordingInv)
<1>1. IInv /\ RecordingInv /\ [RecordingNext]_recording => (IInv /\ RecordingInv)'
  BY RecordingStep, NextIInv
<1> QED BY <1>1, RecordingStart, PTL DEF RecordingSpec

\* What the readback returns in the order of the ingest sequence is the log as written.
LEMMA RowsAreLog ==
    ASSUME IInv, RecordingInv
    PROVE  EventRows = log
<1>1. log \in Seq(Nat) /\ Increasing(log)
  BY DEF RecordingInv, SessionTyped, LogFits
<1>2. Lists(log, Range(log)) /\ IsFiniteSet(Range(log)) /\ Range(log) \in SUBSET Nat
  BY <1>1, IncreasingLists
<1>3. Len(durable) \in Nat
  BY DEF IInv, TypeOK
<1>4. Range(log) \in SUBSET (1 .. Len(durable))
  BY DEF Range, RecordingInv, LogFits
<1>5. Lists(EventRows, Range(log))
  BY <1>3, <1>4, AscendingLists DEF EventRows
<1> QED BY <1>2, <1>5, ListUnique

\* Whatever the writer reports as persisted, the readback returns: in the order of the
\* ingest sequence, verified against the checkpoint, and each event once under its key.
THEOREM PersistedReadsBack == RecordingSpec => []PersistedIsReadBack
<1>1. ASSUME IInv, RecordingInv PROVE PersistedIsReadBack
  <2>1. EventRows = log
    BY <1>1, RowsAreLog
  <2>3. VerifyIntegrity
    BY <1>1, <2>1 DEF VerifyIntegrity, RecordingInv, LogFits, Increasing
  <2> QED BY <1>1, <2>1, <2>3 DEF PersistedIsReadBack, RecordingInv, KeysFit
<1> QED BY <1>1, RecordingInvariant, PTL

\* A session ends complete only with a projection for each event that needs one.
THEOREM CompleteIsProjected == RecordingSpec => []CompleteMeansProjected
<1>1. RecordingInv => CompleteMeansProjected
  BY DEF RecordingInv, ProjectionsFit, CompleteMeansProjected
<1> QED BY <1>1, RecordingInvariant, PTL

\* Under the repository, too, a flush that returns leaves nothing behind.
THEOREM RecordedFlushCovers == RecordingSpec => []FlushCoversEarlierEvents
<1>1. IInv => FlushCoversEarlierEvents
  BY DEF IInv
<1> QED BY <1>1, RecordingInvariant, PTL

\* Writer and repository together take no step that the ordered sink does not take.
THEOREM RecordingRefinesSink == RecordingSpec => Sink!Init /\ [][Sink!Next]_(Sink!vars)
<1>1. RecordingInit => Sink!Init
  BY SinkInit DEF RecordingInit
<1>2. ASSUME IInv, RecordingInv, IInv', [RecordingNext]_recording
      PROVE  [Sink!Next]_(Sink!vars)
  BY <1>2, RecordingStep, SinkStep
<1> QED BY <1>1, <1>2, RecordingInvariant, PTL DEF RecordingSpec
=============================================================================
