---------------------------- MODULE DriverProofs ----------------------------
(***************************************************************************)
(* Proofs about the kernel drivers' parts that share no state: the list of *)
(* events (MonitorQueue), the event handlers of the connection monitor     *)
(* (EventHandlers), its connections (TdiConnections) and the file monitor  *)
(* (FileDriver).                                                           *)
(***************************************************************************)
EXTENDS MonitorQueue, EventHandlers, TdiConnections, FileDriver, FiniteSetTheorems, TLAPS

-----------------------------------------------------------------------------
(***************************************************************************)
(* The list of events, for every number of callers, sizes of events and    *)
(* drainers.  One request and one routine that waits for the handle are    *)
(* under way at most, and the timer is kept out by the clock.              *)
(***************************************************************************)

Reading == reader.pc # "idle"
Emptying(d) == drain[d] # "idle"

ReaderInv ==
  /\ reader.pc = "idle" => reader = NoRequest
  /\ reader.pc = "putback" => reader.held \in Event
  /\ reader.pc # "putback" => reader.held = NoEvent

\* The request and the routines that wait for the handle to be closed.
HandleInv ==
  /\ \A d, e \in Drainer \ {Timer} : Emptying(d) /\ Emptying(e) => d = e
  /\ \A d \in Drainer \ {Timer} : Emptying(d) => ~Reading

UnloadedInv ==
  /\ ~loaded => ~Reading /\ \A c \in Caller : inserting[c] = NoEvent
  /\ ~loaded /\ drain[Unloader] = "idle" => queue = <<>>

OrderlyInv ==
  Orderly =>
    /\ ~crashed
    /\ Emptying(Timer) => ~Reading /\ \A d \in Drainer \ {Timer} : ~Emptying(d)
    /\ loaded /\ (Reading \/ \E d \in Drainer \ {Timer} : Emptying(d)) => silence <= GRACE
    /\ reader.pc = "remove" => queue # <<>>
    /\ \A d \in Drainer : drain[d] = "remove" => queue # <<>>

QueueInv == QueueTypeOK /\ ReaderInv /\ HandleInv /\ UnloadedInv /\ OrderlyInv

LEMMA NoRequestFields ==
  /\ NoRequest.pc = "idle" /\ NoRequest.batch = <<>> /\ NoRequest.held = NoEvent
  /\ NoRequest.room = 0
BY DEF NoRequest

LEMMA SeqFacts ==
  ASSUME NEW S, NEW q \in Seq(S)
  PROVE  /\ \A e \in S : Append(q, e) \in Seq(S) /\ Append(q, e) # <<>> /\ <<e>> \o q \in Seq(S)
         /\ q # <<>> => Head(q) \in S /\ Tail(q) \in Seq(S)
         /\ \A t \in Seq(S) : q \o t \in Seq(S)
<1>1. ASSUME NEW e \in S PROVE Append(q, e) \in Seq(S) /\ Append(q, e) # <<>>
  <2>1. Append(q, e) \in Seq(S) /\ Len(Append(q, e)) = Len(q) + 1 /\ Len(q) \in Nat
    OBVIOUS
  <2>2. Len(<<>>) = 0
    OBVIOUS
  <2> QED BY <2>1, <2>2
<1>2. ASSUME NEW e \in S PROVE <<e>> \o q \in Seq(S)
  <2>1. <<e>> \in Seq(S)
    OBVIOUS
  <2> QED BY <2>1
<1>3. q # <<>> => Head(q) \in S /\ Tail(q) \in Seq(S)
  OBVIOUS
<1>4. \A t \in Seq(S) : q \o t \in Seq(S)
  OBVIOUS
<1> QED BY <1>1, <1>2, <1>3, <1>4

Readers == [pc : {"idle", "test", "remove", "putback"},
            batch : Seq(Event), held : Event \cup {NoEvent}, room : Nat]

-----------------------------------------------------------------------------
(* The steps, one lemma each *)

LEMMA CallerKeeps ==
  ASSUME QueueInv, NEW c \in Caller, Insert(c) \/ \E s \in Size : Decide(c, s)
  PROVE  QueueInv'
<1>1. CASE Insert(c)
  <2>1. /\ queue \in Seq(Event) /\ inserting \in [Caller -> Event \cup {NoEvent}]
        /\ inserting[c] \in Event
    BY <1>1 DEF QueueInv, QueueTypeOK, Insert
  <2>2. queue' \in Seq(Event) /\ queue' # <<>>
    BY <1>1, <2>1, SeqFacts DEF Insert
  <2>3. /\ inserting' \in [Caller -> Event \cup {NoEvent}]
        /\ inserting' = [inserting EXCEPT ![c] = NoEvent]
    BY <1>1, <2>1 DEF Insert
  <2>4. UNCHANGED <<world, loaded, silence, made, reader, drain, delivered, crashed>>
    BY <1>1 DEF Insert
  <2>5. QueueTypeOK'
    BY <2>2, <2>3, <2>4 DEF QueueInv, QueueTypeOK
  <2>6. ReaderInv' /\ HandleInv'
    BY <2>4 DEF QueueInv, ReaderInv, HandleInv, Reading, Emptying
  <2>7. UnloadedInv'
    <3>1. loaded
      BY <1>1, NoEventAssumption DEF Insert, QueueInv, UnloadedInv
    <3> QED BY <2>4, <3>1 DEF UnloadedInv
  <2>8. OrderlyInv'
    BY <2>2, <2>4 DEF QueueInv, OrderlyInv, Orderly, Reading, Emptying
  <2> QED BY <2>5, <2>6, <2>7, <2>8 DEF QueueInv
<1>2. ASSUME NEW s \in Size, Decide(c, s) PROVE QueueInv'
  <2>1. /\ made \in [Caller -> 0..MaxEvents] /\ inserting \in [Caller -> Event \cup {NoEvent}]
        /\ made[c] < MaxEvents
    BY <1>2 DEF QueueInv, QueueTypeOK, Decide
  <2>2. made[c] + 1 \in 1..MaxEvents
    BY <2>1, QueueAssumption
  <2>3. [by |-> c, n |-> made[c] + 1, size |-> s] \in Event
    BY <2>2 DEF Event
  <2>4. /\ made' \in [Caller -> 0..MaxEvents]
        /\ inserting' \in [Caller -> Event \cup {NoEvent}]
    <3>1. 1..MaxEvents \subseteq 0..MaxEvents
      BY QueueAssumption
    <3> QED BY <1>2, <2>1, <2>2, <2>3, <3>1 DEF Decide
  <2>5. UNCHANGED <<world, loaded, queue, silence, reader, drain, delivered, crashed>> /\ loaded
    BY <1>2 DEF Decide
  <2>6. QueueTypeOK'
    BY <2>4, <2>5 DEF QueueInv, QueueTypeOK
  <2>7. ReaderInv' /\ HandleInv' /\ UnloadedInv'
    BY <2>5 DEF QueueInv, ReaderInv, HandleInv, UnloadedInv, Reading, Emptying
  <2>8. OrderlyInv'
    BY <2>5 DEF QueueInv, OrderlyInv, Orderly, Reading, Emptying
  <2> QED BY <2>6, <2>7, <2>8 DEF QueueInv
<1> QED BY <1>1, <1>2

LEMMA RequestKeeps == ASSUME QueueInv, Request PROVE QueueInv'
<1> USE NoRequestFields
<1>1. /\ UNCHANGED <<world, loaded, made, inserting, drain, crashed>> /\ Runs
      /\ silence' \in {silence, 0}
  BY DEF Request, BeginRequest, ReadMore, EndRequest, TakeHead, TakeFault, PutBack, Complete
<1>2. /\ queue \in Seq(Event) /\ reader \in Readers /\ delivered \in Seq(Event)
      /\ silence \in 0..GRACE + 1 /\ NoRequest \in Readers
  BY DEF QueueInv, QueueTypeOK, Readers, NoRequest
<1>3. silence' \in 0..GRACE + 1
  BY <1>1, <1>2, QueueAssumption
<1>4. loaded /\ \A d \in Drainer \ {Timer} : ~Emptying(d)
  <2>1. CASE BeginRequest
    BY <2>1 DEF BeginRequest, HandleIsOpen, Emptying
  <2>2. CASE ~BeginRequest
    <3>1. Reading
      BY <2>2 DEF Request, ReadMore, EndRequest, TakeHead, TakeFault, PutBack, Reading
    <3> QED BY <3>1 DEF QueueInv, HandleInv, UnloadedInv
  <2> QED BY <2>1, <2>2
<1>5. /\ queue' \in Seq(Event) /\ reader' \in Readers /\ delivered' \in Seq(Event)
      /\ ReaderInv'
      /\ reader'.pc = "remove" => queue' # <<>>
      /\ Reading' => silence' = 0 \/ Reading
  <2>1. CASE BeginRequest
    <3>1. /\ UNCHANGED <<queue, delivered>> /\ silence' = 0
          /\ reader' = [NoRequest EXCEPT !.pc = "test", !.room = BufferSpace]
      BY <2>1 DEF BeginRequest
    <3>2. reader' \in Readers /\ reader'.pc = "test" /\ reader'.held = NoEvent
      BY <1>2, <3>1, QueueAssumption DEF Readers, NoRequest
    <3> QED BY <1>2, <3>1, <3>2 DEF ReaderInv
  <2>2. CASE ReadMore
    <3>1. /\ UNCHANGED <<queue, delivered>> /\ reader.pc = "test" /\ queue # <<>>
          /\ reader' = [reader EXCEPT !.pc = "remove"]
      BY <2>2 DEF ReadMore
    <3>2. reader' \in Readers /\ reader'.pc = "remove" /\ reader'.held = reader.held
      BY <1>2, <3>1 DEF Readers
    <3> QED BY <1>2, <3>1, <3>2 DEF ReaderInv, QueueInv, Reading
  <2>3. CASE EndRequest \/ PutBack
    <3>1. delivered' = delivered \o reader.batch /\ reader' = NoRequest
      BY <2>3 DEF EndRequest, PutBack, Complete
    <3>2. delivered' \in Seq(Event)
      BY <1>2, <3>1, SeqFacts DEF Readers
    <3>3. queue' \in Seq(Event)
      <4>1. CASE EndRequest
        BY <1>2, <4>1 DEF EndRequest
      <4>2. CASE PutBack
        <5>1. reader.held \in Event
          BY <4>2 DEF PutBack, QueueInv, ReaderInv
        <5> QED BY <1>2, <4>2, <5>1, SeqFacts DEF PutBack
      <4> QED BY <2>3, <4>1, <4>2
    <3> QED BY <1>2, <3>1, <3>2, <3>3 DEF ReaderInv, Reading
  <2>4. CASE TakeFault
    <3>1. UNCHANGED <<queue, delivered>> /\ reader' = NoRequest
      BY <2>4 DEF TakeFault
    <3> QED BY <1>2, <3>1 DEF ReaderInv, Reading
  <2>5. CASE TakeHead
    <3>1. /\ UNCHANGED delivered /\ queue # <<>> /\ queue' = Tail(queue) /\ reader.pc = "remove"
          /\ reader' = IF Head(queue).size <= reader.room
                       THEN [reader EXCEPT !.pc = "test",
                                           !.batch = Append(reader.batch, Head(queue)),
                                           !.room = reader.room - Head(queue).size]
                       ELSE [reader EXCEPT !.pc = "putback", !.held = Head(queue)]
      BY <2>5 DEF TakeHead
    <3>2. Head(queue) \in Event /\ queue' \in Seq(Event)
      BY <1>2, <3>1, SeqFacts
    <3>3. reader.batch \in Seq(Event) /\ Append(reader.batch, Head(queue)) \in Seq(Event)
      BY <1>2, <3>2, SeqFacts DEF Readers
    <3>4. Head(queue).size \in Nat /\ reader.room \in Nat
      BY <1>2, <3>2, QueueAssumption DEF Event, Readers
    <3>5. Head(queue).size <= reader.room => reader.room - Head(queue).size \in Nat
      BY <3>4
    <3>6. /\ reader' \in Readers /\ reader'.pc \in {"test", "putback"}
          /\ reader'.pc = "putback" => reader'.held = Head(queue)
          /\ reader'.pc = "test" => reader'.held = reader.held
      BY <1>2, <3>1, <3>2, <3>3, <3>5 DEF Readers
    <3> QED BY <1>2, <3>1, <3>2, <3>6 DEF ReaderInv, QueueInv, Reading
  <2> QED BY <2>1, <2>2, <2>3, <2>4, <2>5 DEF Request
<1>6. QueueTypeOK'
  BY <1>1, <1>3, <1>5 DEF QueueInv, QueueTypeOK, Readers
<1>7. HandleInv'
  BY <1>1, <1>4 DEF HandleInv, Emptying
<1>8. UnloadedInv'
  BY <1>1, <1>4 DEF UnloadedInv
<1>9. OrderlyInv'
  <2>1. Orderly => drain[Timer] = "idle"
    BY <1>1 DEF Runs, Orderly
  <2>2. Orderly => \A d \in Drainer : ~Emptying(d)
    BY <1>4, <2>1 DEF Emptying
  <2>3. Orderly' <=> Orderly
    BY <1>1 DEF Orderly
  <2>4. Orderly /\ Reading' => silence' <= GRACE
    <3>1. Orderly /\ Reading => silence <= GRACE
      BY <1>4 DEF QueueInv, OrderlyInv
    <3> QED BY <1>1, <1>5, <3>1, QueueAssumption
  <2>5. Orderly => ~crashed' /\ \A d \in Drainer : drain'[d] = "idle"
    BY <1>1, <2>2 DEF QueueInv, OrderlyInv, Emptying
  <2>6. Timer \in Drainer
    BY QueueAssumption
  <2> QED BY <1>5, <2>3, <2>4, <2>5, <2>6 DEF OrderlyInv, Emptying
<1> QED BY <1>5, <1>6, <1>7, <1>8, <1>9 DEF QueueInv

\* What a step of the timer or of a drainer does to the rest.
LEMMA Rest ==
  ASSUME QueueInv, UNCHANGED <<world, made, inserting, reader, delivered>>,
         loaded' \in BOOLEAN, queue' \in Seq(Event), silence' \in 0..GRACE + 1,
         drain' \in [Drainer -> {"idle", "test", "remove"}], crashed' \in BOOLEAN
  PROVE  QueueTypeOK' /\ ReaderInv' /\ (Reading' <=> Reading) /\ (Orderly' <=> Orderly)
BY DEF QueueInv, QueueTypeOK, ReaderInv, Reading, Orderly

LEMMA QueueTypes ==
  ASSUME QueueInv
  PROVE  /\ loaded \in BOOLEAN /\ queue \in Seq(Event) /\ silence \in 0..GRACE + 1
         /\ drain \in [Drainer -> {"idle", "test", "remove"}] /\ crashed \in BOOLEAN
BY DEF QueueInv, QueueTypeOK

LEMMA BeginKeeps ==
  ASSUME QueueInv, NEW d \in Drainer,
         (d = Timer /\ Fire) \/ BeginDrain(d) \/ (d = Unloader /\ BeginUnload)
  PROVE  QueueInv'
<1>1. /\ UNCHANGED <<world, queue, silence, made, inserting, reader, delivered, crashed>>
      /\ Runs /\ loaded /\ drain' = [drain EXCEPT ![d] = "test"]
      /\ loaded' \in BOOLEAN
      /\ loaded' # loaded => d = Unloader /\ \A c \in Caller : inserting[c] = NoEvent
      /\ d # Timer => ~Reading /\ HandleIsOpen
      /\ d = Timer => silence > GRACE
  BY QueueAssumption DEF Fire, BeginDrain, BeginUnload, Reading
<1>2. /\ queue \in Seq(Event) /\ silence \in 0..GRACE + 1
      /\ drain \in [Drainer -> {"idle", "test", "remove"}] /\ crashed \in BOOLEAN
  BY QueueTypes
<1>3. /\ drain' \in [Drainer -> {"idle", "test", "remove"}]
      /\ drain'[d] = "test" /\ \A e \in Drainer : e # d => drain'[e] = drain[e]
  BY <1>1, <1>2
<1>4. QueueTypeOK' /\ ReaderInv' /\ (Reading' <=> Reading) /\ (Orderly' <=> Orderly)
  BY <1>1, <1>2, <1>3, Rest
<1>5. HandleInv'
  BY <1>1, <1>3, <1>4 DEF QueueInv, HandleInv, HandleIsOpen, Emptying
<1>6. UnloadedInv'
  <2>1. ASSUME ~loaded' PROVE drain'[Unloader] # "idle" /\ ~Reading'
    BY <1>1, <1>3, <1>4, <2>1, QueueAssumption
  <2> QED BY <1>1, <2>1 DEF UnloadedInv
<1>7. ASSUME Orderly PROVE OrderlyInv'
  <2>1. drain[Timer] = "idle" /\ ~crashed /\ Timer \in Drainer
    BY <1>1, <1>7, QueueAssumption DEF Runs, Orderly
  <2>2. /\ Reading \/ (\E e \in Drainer \ {Timer} : Emptying(e)) => silence <= GRACE
        /\ reader.pc = "remove" => queue # <<>>
        /\ \A e \in Drainer : drain[e] = "remove" => queue # <<>>
    BY <1>1, <1>7 DEF QueueInv, OrderlyInv
  <2>3. CASE d = Timer
    <3>1. ~Reading /\ \A e \in Drainer \ {Timer} : ~Emptying(e)
      BY <1>1, <1>2, <2>2, <2>3, QueueAssumption
    <3>2. ~Reading' /\ \A e \in Drainer \ {Timer} : ~Emptying(e)'
      BY <1>3, <1>4, <2>3, <3>1 DEF Emptying
    <3>3. reader'.pc # "remove" /\ \A e \in Drainer : drain'[e] # "remove"
      BY <1>3, <2>3, <3>2 DEF Emptying, Reading
    <3> QED BY <1>1, <2>1, <3>2, <3>3 DEF OrderlyInv
  <2>4. CASE d # Timer
    <3>1. drain'[Timer] = "idle" /\ ~Reading' /\ ~crashed'
      BY <1>1, <1>3, <1>4, <2>1, <2>4
    <3>2. loaded' => silence' <= GRACE
      <4>1. CASE BeginDrain(d)
        <5>1. silence < GRACE
          BY <1>7, <4>1 DEF BeginDrain, Orderly
        <5> QED BY <1>1, <1>2, <5>1, QueueAssumption
      <4>2. CASE BeginUnload
        BY <4>2 DEF BeginUnload
      <4> QED BY <2>4, <4>1, <4>2
    <3>3. \A e \in Drainer : drain'[e] = "remove" => queue' # <<>>
      BY <1>1, <1>3, <2>2
    <3> QED BY <3>1, <3>2, <3>3 DEF OrderlyInv, Emptying, Reading
  <2> QED BY <2>3, <2>4
<1> QED BY <1>4, <1>5, <1>6, <1>7 DEF QueueInv, OrderlyInv


LEMMA DrainingKeeps ==
  ASSUME QueueInv, NEW d \in Drainer, Draining(d)
  PROVE  QueueInv'
<1>1. /\ UNCHANGED <<world, loaded, silence, made, inserting, reader, delivered>>
      /\ DrainRuns(d) /\ drain[d] # "idle"
  BY DEF Draining, DrainTest, DrainTake, DrainFault
<1>2. /\ queue \in Seq(Event) /\ silence \in 0..GRACE + 1 /\ loaded \in BOOLEAN
      /\ drain \in [Drainer -> {"idle", "test", "remove"}] /\ crashed \in BOOLEAN
  BY QueueTypes
<1>3. ASSUME Orderly
      PROVE  /\ ~Reading /\ \A e \in Drainer : e # d => drain[e] = "idle"
             /\ ~crashed
             /\ drain[d] = "remove" => queue # <<>>
  <2>1. CASE d = Timer
    BY <1>1, <1>3, <2>1 DEF QueueInv, OrderlyInv, Emptying
  <2>2. CASE d # Timer
    <3>1. drain[Timer] = "idle"
      BY <1>1, <1>3, <2>2 DEF DrainRuns, Runs, Orderly
    <3>2. ~Reading /\ \A e \in Drainer \ {Timer} : e # d => drain[e] = "idle"
      BY <1>1, <2>2 DEF QueueInv, HandleInv, Emptying
    <3> QED BY <1>3, <3>1, <3>2 DEF QueueInv, OrderlyInv
  <2> QED BY <2>1, <2>2
<1>4. /\ queue' \in Seq(Event) /\ crashed' \in BOOLEAN
      /\ drain' \in [Drainer -> {"idle", "test", "remove"}]
      /\ \A e \in Drainer : e # d => drain'[e] = drain[e]
      /\ Orderly => ~crashed' /\ (drain'[d] = "remove" => queue' # <<>>)
      /\ drain'[d] = "idle" => queue' = <<>>
      /\ queue = <<>> => queue' = <<>>
  <2>1. CASE DrainTest(d)
    <3>1. /\ UNCHANGED <<queue, crashed>>
          /\ drain' = [drain EXCEPT ![d] = IF queue = <<>> THEN "idle" ELSE "remove"]
      BY <2>1 DEF DrainTest
    <3> QED BY <1>2, <1>3, <3>1
  <2>2. CASE DrainTake(d)
    <3>1. /\ UNCHANGED crashed /\ queue # <<>> /\ queue' = Tail(queue)
          /\ drain' = [drain EXCEPT ![d] = "test"]
      BY <2>2 DEF DrainTake
    <3>2. queue' \in Seq(Event)
      BY <1>2, <3>1, SeqFacts
    <3> QED BY <1>2, <1>3, <3>1, <3>2
  <2>3. CASE DrainFault(d)
    <3>1. UNCHANGED <<queue, drain>> /\ crashed' = TRUE /\ drain[d] = "remove" /\ queue = <<>>
      BY <2>3 DEF DrainFault
    <3> QED BY <1>2, <1>3, <3>1
  <2> QED BY <2>1, <2>2, <2>3 DEF Draining
<1>5. QueueTypeOK' /\ ReaderInv' /\ (Reading' <=> Reading) /\ (Orderly' <=> Orderly)
  BY <1>1, <1>2, <1>4, Rest
<1>6. \A e \in Drainer : Emptying(e)' => Emptying(e)
  BY <1>1, <1>4 DEF Emptying
<1>7. HandleInv'
  BY <1>5, <1>6 DEF QueueInv, HandleInv
<1>8. UnloadedInv'
  <2>1. ~loaded' => ~Reading' /\ \A c \in Caller : inserting'[c] = NoEvent
    BY <1>1, <1>5 DEF QueueInv, UnloadedInv
  <2>2. ASSUME ~loaded', drain'[Unloader] = "idle" PROVE queue' = <<>>
    <3>1. CASE d = Unloader
      BY <1>4, <2>2, <3>1
    <3>2. CASE d # Unloader
      <4>1. drain[Unloader] = "idle"
        BY <1>4, <2>2, <3>2, QueueAssumption
      <4> QED BY <1>1, <1>4, <2>2, <4>1 DEF QueueInv, UnloadedInv
    <3> QED BY <3>1, <3>2
  <2> QED BY <2>1, <2>2 DEF UnloadedInv
<1>9. ASSUME Orderly PROVE OrderlyInv'
  <2>1. Emptying(Timer)' => ~Reading' /\ \A e \in Drainer \ {Timer} : ~Emptying(e)'
    BY <1>3, <1>4, <1>5, <1>9, QueueAssumption DEF Emptying
  <2>2. loaded' /\ (Reading' \/ \E e \in Drainer \ {Timer} : Emptying(e)') => silence' <= GRACE
    BY <1>1, <1>5, <1>6, <1>9 DEF QueueInv, OrderlyInv
  <2>3. reader'.pc # "remove"
    BY <1>3, <1>5, <1>9 DEF Reading
  <2>4. \A e \in Drainer : drain'[e] = "remove" => queue' # <<>>
    BY <1>3, <1>4, <1>9
  <2> QED BY <1>4, <1>9, <2>1, <2>2, <2>3, <2>4 DEF OrderlyInv
<1> QED BY <1>5, <1>7, <1>8, <1>9 DEF QueueInv, OrderlyInv

LEMMA LoadKeeps == ASSUME QueueInv, Load PROVE QueueInv'
<1>1. /\ UNCHANGED <<world, made, inserting, reader, drain, delivered, crashed>>
      /\ ~loaded /\ loaded' = TRUE /\ silence' = 0 /\ queue' = <<>>
      /\ \A d \in Drainer : drain[d] = "idle"
  BY DEF Load
<1>2. silence' \in 0..GRACE + 1 /\ queue' \in Seq(Event)
  BY <1>1, QueueAssumption
<1>3. QueueTypeOK' /\ ReaderInv' /\ (Reading' <=> Reading) /\ (Orderly' <=> Orderly)
  BY <1>1, <1>2, QueueTypes, Rest
<1>4. ~Reading /\ \A d \in Drainer : ~Emptying(d)'
  BY <1>1 DEF QueueInv, UnloadedInv, Emptying
<1>5. HandleInv' /\ UnloadedInv'
  BY <1>1, <1>4 DEF HandleInv, UnloadedInv
<1>6. OrderlyInv'
  BY <1>1, <1>3, <1>4, QueueAssumption DEF QueueInv, OrderlyInv, Reading, Emptying
<1> QED BY <1>3, <1>5, <1>6 DEF QueueInv

LEMMA TimeKeeps == ASSUME QueueInv, Tick \/ ClockStep PROVE QueueInv'
<1>1. /\ UNCHANGED <<world, loaded, queue, made, inserting, reader, drain, delivered, crashed>>
      /\ \/ silence <= GRACE /\ silence' = silence + 1
         \/ silence' = GRACE + 1
      /\ Orderly => /\ silence' = silence + 1
                    /\ (reader.pc = "idle" /\ HandleIsOpen) \/ ~loaded \/ silence < GRACE
  BY DEF Tick, ClockStep, Orderly
<1>2. silence \in 0..GRACE + 1
  BY QueueTypes
<1>3. silence' \in 0..GRACE + 1
  BY <1>1, <1>2, QueueAssumption
<1>4. QueueTypeOK' /\ ReaderInv' /\ (Reading' <=> Reading) /\ (Orderly' <=> Orderly)
  BY <1>1, <1>3, QueueTypes, Rest
<1>5. HandleInv' /\ UnloadedInv'
  BY <1>1, <1>4 DEF QueueInv, HandleInv, UnloadedInv, Emptying
<1>6. Orderly /\ loaded /\ (Reading \/ \E d \in Drainer \ {Timer} : Emptying(d))
        => silence' <= GRACE
  <2>1. silence < GRACE => silence + 1 <= GRACE
    BY <1>2, QueueAssumption
  <2> QED BY <1>1, <2>1 DEF Reading, HandleIsOpen, Emptying
<1>7. OrderlyInv'
  BY <1>1, <1>4, <1>6 DEF QueueInv, OrderlyInv, Emptying
<1> QED BY <1>4, <1>5, <1>7 DEF QueueInv

-----------------------------------------------------------------------------
(* The theorems *)

LEMMA QueueStart == ASSUME QueueInit PROVE QueueInv
<1>1. QueueTypeOK
  <2>1. 0 \in 0..MaxEvents /\ 0 \in 0..GRACE + 1 /\ <<>> \in Seq(Event)
    BY QueueAssumption
  <2>2. NoRequest \in Readers
    BY DEF NoRequest, Readers
  <2> QED BY <2>1, <2>2 DEF QueueInit, QueueTypeOK, Readers
<1>2. ReaderInv /\ HandleInv /\ UnloadedInv /\ OrderlyInv
  BY NoRequestFields, QueueAssumption
  DEF QueueInit, ReaderInv, HandleInv, UnloadedInv, OrderlyInv, Reading, Emptying
<1> QED BY <1>1, <1>2 DEF QueueInv

LEMMA QueueStep == ASSUME QueueInv, [QueueNext]_queueVars PROVE QueueInv'
<1>1. CASE UNCHANGED queueVars
  BY <1>1 DEF queueVars, QueueInv, QueueTypeOK, ReaderInv, HandleInv, UnloadedInv, OrderlyInv, Orderly,
              Reading, Emptying
<1>2. CASE Fire \/ BeginUnload
  BY <1>2, BeginKeeps, QueueAssumption
<1>3. ASSUME NEW d \in Drainer, Draining(d) \/ BeginDrain(d) PROVE QueueInv'
  BY <1>3, BeginKeeps, DrainingKeeps
<1>4. ASSUME NEW c \in Caller, Insert(c) \/ \E s \in Size : Decide(c, s) PROVE QueueInv'
  BY <1>4, CallerKeeps
<1>5. CASE Request \/ Load \/ Tick \/ ClockStep
  BY <1>5, RequestKeeps, LoadKeeps, TimeKeeps
<1> QED BY <1>1, <1>2, <1>3, <1>4, <1>5, Zenon DEF QueueNext

\* The reader, the drainers and the callers of the list keep out of each other's way as
\* the handle of the client and the registration of the callback make them.
THEOREM QueueInvariance == QueueSpec => []QueueInv
<1>1. QueueInit => QueueInv
  BY QueueStart
<1>2. QueueInv /\ [QueueNext]_queueVars => QueueInv'
  BY QueueStep
<1> QED BY <1>1, <1>2, PTL DEF QueueSpec

\* Type correctness of the list, the request and the drainers.
THEOREM QueueTypeCorrect == QueueSpec => []QueueTypeOK
<1>1. QueueInv => QueueTypeOK
  BY DEF QueueInv
<1> QED BY <1>1, QueueInvariance, PTL

\* UnloadFreesEverything: the list of an unloaded driver is empty, since no thread is in
\* the callback once it is removed and the unload routine stops at an empty list.
THEOREM UnloadFrees == QueueSpec => []UnloadFreesEverything
<1>1. QueueInv => UnloadFreesEverything
  BY DEF QueueInv, UnloadedInv, UnloadFreesEverything
<1> QED BY <1>1, QueueInvariance, PTL

\* TheHeadIsThere: on one processor, with clients that do not pause, the test for an
\* empty list is still good when the head is removed; no routine faults.
THEOREM HeadIsTaken == QueueSpec => []TheHeadIsThere
<1>1. QueueInv => TheHeadIsThere
  BY DEF QueueInv, OrderlyInv, TheHeadIsThere
<1> QED BY <1>1, QueueInvariance, PTL

-----------------------------------------------------------------------------
(* The channel *)

LEMMA Joined ==
  ASSUME NEW S, NEW p \in Seq(S), NEW q \in Seq(S)
  PROVE  /\ p \o q \in Seq(S) /\ Len(p \o q) = Len(p) + Len(q)
         /\ Len(p) \in Nat /\ Len(q) \in Nat
         /\ \A i \in 1..Len(p) : (p \o q)[i] = p[i]
         /\ \A i \in 1..Len(q) : (p \o q)[Len(p) + i] = q[i]
OBVIOUS

LEMMA SameSequence ==
  ASSUME NEW S, NEW p \in Seq(S), NEW q \in Seq(S), Len(p) = Len(q),
         \A i \in 1..Len(p) : p[i] = q[i]
  PROVE  p = q
OBVIOUS

LEMMA Nothing ==
  ASSUME NEW S, NEW p \in Seq(S)
  PROVE  p \o <<>> = p /\ <<>> \o p = p
OBVIOUS

LEMMA AppendLast ==
  ASSUME NEW S, NEW p \in Seq(S), NEW q \in Seq(S), NEW e \in S
  PROVE  p \o Append(q, e) = Append(p \o q, e)
OBVIOUS

LEMMA MoveHead ==
  ASSUME NEW S, NEW p \in Seq(S), NEW q \in Seq(S), q # <<>>
  PROVE  Append(p, Head(q)) \o Tail(q) = p \o q
OBVIOUS

LEMMA AppendAsConcat ==
  ASSUME NEW S, NEW p \in Seq(S), NEW e \in S
  PROVE  p \o <<e>> = Append(p, e)
OBVIOUS

LEMMA MoveLast ==
  ASSUME NEW S, NEW p \in Seq(S), NEW q \in Seq(S), NEW e \in S
  PROVE  Append(p, e) \o q = p \o (<<e>> \o q)
OBVIOUS

LEMMA Prefix ==
  ASSUME NEW S, NEW p \in Seq(S), NEW q \in Seq(S), p # <<>>
  PROVE  /\ Len(p) \in 1..Len(p \o q) /\ SubSeq(p \o q, 1, Len(p)) = p
         /\ SubSeq(p \o q, Len(p) + 1, Len(p \o q)) = q
OBVIOUS

LEMMA WithoutHead ==
  ASSUME NEW S, NEW p \in Seq(S), NEW q \in Seq(S), q # <<>>
  PROVE  Channel!Remains(p \o q, p \o Tail(q))
<1> DEFINE m == Len(p)
           n == Len(q)
           s == p \o q
           t == p \o Tail(q)
           place == [i \in 1..Len(t) |-> IF i <= m THEN i ELSE i + 1]
<1>1. /\ m \in Nat /\ n \in Nat /\ n >= 1
      /\ Tail(q) \in Seq(S) /\ Len(Tail(q)) = n - 1
      /\ \A i \in 1..n - 1 : Tail(q)[i] = q[i + 1]
  OBVIOUS
<1>2. /\ Len(s) = m + n
      /\ \A i \in 1..m : s[i] = p[i]
      /\ \A i \in 1..n : s[m + i] = q[i]
  BY Joined
<1>3. /\ Len(t) = m + (n - 1)
      /\ \A i \in 1..m : t[i] = p[i]
      /\ \A i \in 1..n - 1 : t[m + i] = Tail(q)[i]
  BY <1>1, Joined
<1> HIDE DEF m, n, s, t
<1>4. place \in [1..Len(t) -> 1..Len(s)]
  BY <1>1, <1>2, <1>3
<1>5. \A i, j \in 1..Len(t) : i < j => place[i] < place[j]
  BY <1>1, <1>3
<1>6. ASSUME NEW i \in 1..Len(t) PROVE t[i] = s[place[i]]
  <2>1. CASE i <= m
    <3>1. i \in 1..m /\ place[i] = i
      BY <1>1, <1>3, <2>1
    <3> QED BY <1>2, <1>3, <3>1
  <2>2. CASE ~(i <= m)
    <3>1. PICK k \in 1..n - 1 : i = m + k
      <4>1. i - m \in 1..n - 1 /\ i = m + (i - m)
        BY <1>1, <1>3, <2>2
      <4> QED BY <4>1
    <3>2. place[i] = m + (k + 1) /\ k + 1 \in 1..n
      BY <1>1, <2>2, <3>1
    <3>3. t[i] = q[k + 1]
      BY <1>1, <1>3, <3>1
    <3>4. s[m + (k + 1)] = q[k + 1]
      BY <1>2, <3>2
    <3> QED BY <3>2, <3>3, <3>4
  <2> QED BY <2>1, <2>2
<1> HIDE DEF place
<1>7. Channel!Remains(s, t)
  BY <1>4, <1>5, <1>6 DEF Channel!Remains
<1> QED BY <1>7 DEF s, t

LEMMA NothingRemains == ASSUME NEW s PROVE Channel!Remains(s, <<>>)
<1> DEFINE place == [i \in 1..0 |-> 0]
<1>1. Len(<<>>) = 0
  OBVIOUS
<1>2. place \in [1..Len(<<>>) -> 1..Len(s)] /\ \A i \in 1..Len(<<>>) : FALSE
  BY <1>1
<1> QED BY <1>2 DEF Channel!Remains

HeldIn(r) == IF r.held = NoEvent THEN <<>> ELSE <<r.held>>

\* What is pending, for any state of the request.
LEMMA PendingOf ==
  ASSUME NEW r \in Readers, NEW q \in Seq(Event),
         r.pc = "putback" => r.held \in Event, r.pc # "putback" => r.held = NoEvent
  PROVE  /\ r.batch \in Seq(Event) /\ HeldIn(r) \in Seq(Event)
         /\ r.batch \o HeldIn(r) \in Seq(Event)
         /\ r.pc # "putback" => r.batch \o HeldIn(r) \o q = r.batch \o q
         /\ r.pc = "putback" => r.batch \o HeldIn(r) \o q = r.batch \o (<<r.held>> \o q)
<1>1. r.batch \in Seq(Event)
  BY DEF Readers
<1>2. CASE r.pc # "putback"
  <2>1. HeldIn(r) = <<>>
    BY <1>2 DEF HeldIn
  <2>2. <<>> \in Seq(Event) /\ r.batch \o <<>> = r.batch
    BY <1>1, Nothing
  <2> QED BY <1>1, <1>2, <2>1, <2>2
<1>3. CASE r.pc = "putback"
  <2>1. r.held \in Event /\ HeldIn(r) = <<r.held>>
    BY <1>3, NoEventAssumption DEF HeldIn
  <2>2. r.batch \o HeldIn(r) = Append(r.batch, r.held) /\ Append(r.batch, r.held) \in Seq(Event)
    BY <1>1, <2>1, AppendAsConcat, SeqFacts
  <2>3. Append(r.batch, r.held) \o q = r.batch \o (<<r.held>> \o q)
    <3>1. ASSUME NEW p \in Seq(Event), NEW e \in Event
          PROVE  Append(p, e) \o q = p \o (<<e>> \o q)
      BY MoveLast
    <3> QED BY <1>1, <2>1, <3>1, Zenon
  <2>4. HeldIn(r) \in Seq(Event)
    BY <2>1
  <2>5. r.batch \o HeldIn(r) \o q = r.batch \o (<<r.held>> \o q)
    BY <2>2, <2>3, Zenon
  <2>6. r.batch \o HeldIn(r) \in Seq(Event)
    BY <2>2, Zenon
  <2> QED BY <1>1, <1>3, <2>4, <2>5, <2>6, Zenon
<1> QED BY <1>2, <1>3

LEMMA PendingIs ==
  ASSUME QueueTypeOK, ReaderInv
  PROVE  /\ reader.batch \in Seq(Event) /\ queue \in Seq(Event) /\ delivered \in Seq(Event)
         /\ reader.batch \o Held \in Seq(Event)
         /\ reader.pc # "putback" => Pending = reader.batch \o queue
         /\ reader.pc = "putback" =>
              reader.held \in Event /\ Pending = reader.batch \o (<<reader.held>> \o queue)
<1>1. /\ reader \in Readers /\ queue \in Seq(Event) /\ delivered \in Seq(Event)
      /\ reader.pc = "putback" => reader.held \in Event
      /\ reader.pc # "putback" => reader.held = NoEvent
  BY DEF QueueTypeOK, ReaderInv, Readers
<1>2. Held = HeldIn(reader) /\ Pending = reader.batch \o HeldIn(reader) \o queue
  BY DEF Held, HeldIn, Pending
<1> QED BY <1>1, <1>2, PendingOf

LEMMA PendingBecomes ==
  ASSUME QueueTypeOK', ReaderInv'
  PROVE  /\ reader'.batch \in Seq(Event) /\ queue' \in Seq(Event)
         /\ reader'.pc # "putback" => Pending' = reader'.batch \o queue'
         /\ reader'.pc = "putback" => Pending' = reader'.batch \o (<<reader'.held>> \o queue')
<1>1. /\ reader' \in Readers /\ queue' \in Seq(Event)
      /\ reader'.pc = "putback" => reader'.held \in Event
      /\ reader'.pc # "putback" => reader'.held = NoEvent
  BY DEF QueueTypeOK, ReaderInv, Readers
<1>2. Pending' = reader'.batch \o HeldIn(reader') \o queue'
  BY DEF Held, HeldIn, Pending
<1> QED BY <1>1, <1>2, PendingOf

LEMMA HandsOver ==
  ASSUME NEW a \in Seq(Event), NEW r \in Seq(Event), Pending = a \o r, delivered \in Seq(Event),
         delivered' = delivered \o a, Pending' = r
  PROVE  Channel!Deliver \/ UNCHANGED Channel!chan
<1>1. CASE a = <<>>
  <2>1. Pending' = Pending /\ delivered' = delivered
    BY <1>1, Nothing
  <2> QED BY <2>1 DEF Channel!chan
<1>2. CASE a # <<>>
  <2>1. /\ Len(a) \in 1..Len(Pending) /\ SubSeq(Pending, 1, Len(a)) = a
        /\ SubSeq(Pending, Len(a) + 1, Len(Pending)) = r
    BY <1>2, Prefix
  <2> QED BY <2>1 DEF Channel!Deliver
<1> QED BY <1>1, <1>2

LEMMA RequestIsChannel ==
  ASSUME QueueInv, QueueInv', Request
  PROVE  Channel!Deliver \/ Channel!Drop \/ UNCHANGED Channel!chan
<1> USE NoRequestFields
<1>a. QueueTypeOK /\ ReaderInv /\ QueueTypeOK' /\ ReaderInv'
  BY DEF QueueInv
<1>b. /\ reader.batch \in Seq(Event) /\ queue \in Seq(Event) /\ delivered \in Seq(Event)
      /\ reader.pc # "putback" => Pending = reader.batch \o queue
      /\ reader.pc = "putback" =>
           reader.held \in Event /\ Pending = reader.batch \o (<<reader.held>> \o queue)
  BY <1>a, PendingIs
<1>c. /\ reader'.batch \in Seq(Event) /\ queue' \in Seq(Event)
      /\ reader'.pc # "putback" => Pending' = reader'.batch \o queue'
      /\ reader'.pc = "putback" => Pending' = reader'.batch \o (<<reader'.held>> \o queue')
  BY <1>a, PendingBecomes
<1>1. CASE BeginRequest
  <2>1. reader.pc = "idle" /\ reader = NoRequest
    BY <1>1 DEF BeginRequest, QueueInv, ReaderInv
  <2>2. reader'.pc = "test" /\ reader'.batch = <<>> /\ UNCHANGED <<queue, delivered>>
    BY <1>1 DEF BeginRequest, NoRequest
  <2>3. Pending = <<>> \o queue /\ Pending' = <<>> \o queue'
    BY <1>b, <1>c, <2>1, <2>2
  <2> QED BY <2>2, <2>3 DEF Channel!chan
<1>2. CASE ReadMore
  <2>1. /\ reader.pc = "test" /\ reader' = [reader EXCEPT !.pc = "remove"]
        /\ UNCHANGED <<queue, delivered>> /\ reader \in Readers
    BY <1>2 DEF ReadMore, QueueInv, QueueTypeOK, Readers
  <2>2. reader'.pc = "remove" /\ reader'.batch = reader.batch
    BY <2>1 DEF Readers
  <2> QED BY <1>b, <1>c, <2>1, <2>2 DEF Channel!chan
<1>3. CASE EndRequest
  <2>1. /\ reader.pc = "test" /\ delivered' = delivered \o reader.batch /\ reader' = NoRequest
        /\ UNCHANGED queue
    BY <1>3 DEF EndRequest, Complete
  <2>2. Pending = reader.batch \o queue /\ Pending' = queue
    BY <1>b, <1>c, <2>1, Nothing
  <2> QED BY <1>b, <2>1, <2>2, HandsOver
<1>4. CASE PutBack
  <2>1. /\ reader.pc = "putback" /\ delivered' = delivered \o reader.batch /\ reader' = NoRequest
        /\ queue' = <<reader.held>> \o queue
    BY <1>4 DEF PutBack, Complete
  <2>2. Pending = reader.batch \o queue' /\ Pending' = queue'
    BY <1>b, <1>c, <2>1, Nothing
  <2> QED BY <1>b, <1>c, <2>1, <2>2, HandsOver
<1>5. CASE TakeFault
  <2>1. reader' = NoRequest /\ queue' = <<>> /\ delivered' = delivered
    BY <1>5 DEF TakeFault
  <2>2. Pending' = <<>>
    BY <1>c, <2>1, Nothing
  <2>3. Pending' \in Seq(Event)
    BY <2>2
  <2> QED BY <2>1, <2>2, <2>3, NothingRemains DEF Channel!Drop
<1>6. CASE TakeHead
  <2>1. /\ reader.pc = "remove" /\ queue # <<>> /\ queue' = Tail(queue) /\ UNCHANGED delivered
        /\ reader' = IF Head(queue).size <= reader.room
                     THEN [reader EXCEPT !.pc = "test",
                                         !.batch = Append(reader.batch, Head(queue)),
                                         !.room = reader.room - Head(queue).size]
                     ELSE [reader EXCEPT !.pc = "putback", !.held = Head(queue)]
        /\ reader \in Readers
    BY <1>6 DEF TakeHead, QueueInv, QueueTypeOK, Readers
  <2>2. Head(queue) \in Event /\ Tail(queue) \in Seq(Event)
    BY <1>b, <2>1, SeqFacts
  <2>3. Append(reader.batch, Head(queue)) \o Tail(queue) = reader.batch \o queue
    BY <1>b, <2>1, MoveHead
  <2>4. CASE Head(queue).size <= reader.room
    <3>1. reader'.pc = "test" /\ reader'.batch = Append(reader.batch, Head(queue))
      BY <2>1, <2>4 DEF Readers
    <3> QED BY <1>b, <1>c, <2>1, <2>3, <3>1 DEF Channel!chan
  <2>5. CASE ~(Head(queue).size <= reader.room)
    <3>1. reader'.pc = "putback" /\ reader'.batch = reader.batch /\ reader'.held = Head(queue)
      BY <2>1, <2>5 DEF Readers
    <3>2. Append(reader.batch, Head(queue)) \o Tail(queue)
            = reader.batch \o (<<Head(queue)>> \o Tail(queue))
      BY <1>b, <2>2, MoveLast
    <3>3. Pending' = reader.batch \o (<<Head(queue)>> \o Tail(queue))
      BY <1>c, <2>1, <3>1
    <3> QED BY <1>b, <2>1, <2>3, <3>2, <3>3 DEF Channel!chan
  <2> QED BY <2>4, <2>5
<1> QED BY <1>1, <1>2, <1>3, <1>4, <1>5, <1>6 DEF Request

\* Whatever else happens leaves the request alone.
LEMMA OthersAreChannel ==
  ASSUME QueueInv, UNCHANGED <<reader, delivered>>,
         \/ UNCHANGED queue
         \/ \E e \in Event : queue' = Append(queue, e)
         \/ queue # <<>> /\ queue' = Tail(queue)
         \/ queue' = <<>> /\ ~Reading
  PROVE  [Channel!ChannelNext]_(Channel!chan)
<1> DEFINE p == reader.batch \o Held
<1>1. p \in Seq(Event) /\ queue \in Seq(Event) /\ reader.batch \in Seq(Event)
  BY PendingIs DEF QueueInv
<1>2. Pending = p \o queue /\ Pending' = p \o queue' /\ UNCHANGED delivered
  BY DEF Pending, Held
<1>3. ~Reading => p = <<>>
  <2>1. ~Reading => reader = NoRequest
    BY DEF QueueInv, ReaderInv, Reading
  <2>2. reader = NoRequest => Held = <<>> /\ reader.batch = <<>>
    BY NoRequestFields DEF Held
  <2> QED BY <2>1, <2>2
<1> HIDE DEF p
<1>4. CASE UNCHANGED queue
  BY <1>2, <1>4 DEF Channel!chan
<1>5. ASSUME NEW e \in Event, queue' = Append(queue, e) PROVE Channel!Accept
  <2>1. Pending' = Append(Pending, e)
    BY <1>1, <1>2, <1>5, AppendLast
  <2> QED BY <1>2, <2>1 DEF Channel!Accept
<1>6. CASE queue # <<>> /\ queue' = Tail(queue)
  <2>1. Channel!Remains(Pending, Pending')
    BY <1>1, <1>2, <1>6, WithoutHead
  <2>2. Pending' \in Seq(Event)
    BY <1>1, <1>2, <1>6, SeqFacts
  <2> QED BY <1>2, <2>1, <2>2 DEF Channel!Drop, Channel!ChannelNext
<1>7. CASE queue' = <<>> /\ ~Reading
  <2>1. Pending' = <<>>
    BY <1>1, <1>2, <1>3, <1>7, Nothing
  <2>2. Pending' \in Seq(Event)
    BY <2>1
  <2> QED BY <1>2, <2>1, <2>2, NothingRemains DEF Channel!Drop, Channel!ChannelNext
<1> QED BY <1>4, <1>5, <1>6, <1>7 DEF Channel!ChannelNext

\* ImplementsChannel: an insertion is an accept, the end of a request and the return of
\* an event that did not fit are a deliver, what a drainer or a failed request removes
\* is dropped, and the order is kept; in every world.
THEOREM DriverImplementsChannel == QueueSpec => ImplementsChannel
<1>1. QueueInit => Channel!ChannelInit
  BY NoRequestFields DEF QueueInit, Channel!ChannelInit, Pending, Held
<1>2. ASSUME QueueInv, QueueInv', [QueueNext]_queueVars PROVE [Channel!ChannelNext]_(Channel!chan)
  <2>1. CASE Request
    BY <1>2, <2>1, RequestIsChannel DEF Channel!ChannelNext
  <2>2. CASE UNCHANGED queueVars
    BY <1>2, <2>2, OthersAreChannel DEF queueVars
  <2>3. ASSUME NEW c \in Caller, Insert(c) PROVE [Channel!ChannelNext]_(Channel!chan)
    <3>1. inserting[c] \in Event
      BY <1>2, <2>3 DEF Insert, QueueInv, QueueTypeOK
    <3>2. UNCHANGED <<reader, delivered>> /\ queue' = Append(queue, inserting[c])
      BY <2>3 DEF Insert
    <3> QED BY <1>2, <3>1, <3>2, OthersAreChannel
  <2>4. ASSUME NEW d \in Drainer, DrainTake(d) PROVE [Channel!ChannelNext]_(Channel!chan)
    BY <1>2, <2>4, OthersAreChannel DEF DrainTake
  <2>5. CASE Load
    <3>1. ~Reading
      BY <1>2, <2>5 DEF Load, QueueInv, UnloadedInv
    <3> QED BY <1>2, <2>5, <3>1, OthersAreChannel DEF Load
  <2>6. ASSUME \/ Fire \/ BeginUnload \/ Tick \/ ClockStep
               \/ \E c \in Caller, s \in Size : Decide(c, s)
               \/ \E d \in Drainer : DrainTest(d) \/ DrainFault(d) \/ BeginDrain(d)
        PROVE  [Channel!ChannelNext]_(Channel!chan)
    <3>1. UNCHANGED <<reader, delivered, queue>>
      BY <2>6 DEF Fire, BeginUnload, Tick, ClockStep, Decide, DrainTest, DrainFault, BeginDrain
    <3> QED BY <1>2, <3>1, OthersAreChannel
  <2> QED BY <1>2, <2>1, <2>2, <2>3, <2>4, <2>5, <2>6, Zenon DEF QueueNext, Draining
<1> QED BY <1>1, <1>2, QueueInvariance, PTL
        DEF QueueSpec, ImplementsChannel, Channel!ChannelSpec
-----------------------------------------------------------------------------
(***************************************************************************)
(* The event handlers, for every number of files, types and nodes.  The    *)
(* invariant follows one slot: the request on its way, what the transport  *)
(* has, what the node keeps, and, once the driver unloads, what is left to *)
(* restore.  Nodes are not shared by files.                                *)
(***************************************************************************)

Hook == Handler \cup NodeBlock \cup {NoHandler}

\* What is known of a request that is on its way.
RequestType ==
  /\ request \in [FileObject -> [type : EventType \cup {"none"}, to : Hook]]
  /\ \A f \in FileObject : request[f].type = "none" => request[f] = NothingSent

HandlersRange ==
  /\ HandlersTypeOK /\ RequestType
  /\ wanted \in [FileObject -> [EventType -> Handler \cup {NoHandler}]]

\* A file that is not open has no handlers.
ClosedInv ==
  \A f \in FileObject \ openFiles :
    request[f] = NothingSent /\ transport[f] = Unset /\ wanted[f] = Unset

\* The nodes a file uses are its own.
Uses(f, b) == \/ nodeOf[f] = b \/ request[f].to = b
              \/ \E t \in EventType : transport[f][t] = b
NodesInv ==
  /\ \A f \in FileObject, b \in NodeBlock : Uses(f, b) => b \in taken
  /\ \A f, g \in FileObject, b \in NodeBlock : Uses(f, b) /\ Uses(g, b) => f = g

\* Slots of types that are not in the table stay empty.
TableInv ==
  /\ \A b \in NodeBlock, t \in EventType \ Table : blocks[b][t] = NoHandler
  /\ \A b \in NodeBlock \ taken : blocks[b] = Unset

ToRestoreInv ==
  \A f \in FileObject, t \in EventType : <<f, t>> \in toRestore =>
     phase = "restoring" /\ nodeOf[f] # NoBlock /\ Slot(f, t) # NoHandler

\* The request on its way carries what the client wants, itself or in a slot.
InFlight(f, t) ==
  request[f].type = t =>
    IF request[f].to \in NodeBlock
    THEN blocks[request[f].to][t] = wanted[f][t] /\ wanted[f][t] # NoHandler
    ELSE request[f].to = wanted[f][t]

Quiet(f, t) ==
  request[f].type # t =>
    /\ transport[f][t] \in NodeBlock => blocks[transport[f][t]][t] # NoHandler
    /\ phase = "loaded" => Receiver(f, t) = wanted[f][t]

\* What the unloading will go by.
Loaded(f, t) ==
  Works /\ phase = "loaded" /\ <<f, t>> \notin excused =>
    /\ request[f].type = t /\ request[f].to \in NodeBlock => request[f].to = nodeOf[f]
    /\ request[f].type # t /\ transport[f][t] \in NodeBlock => transport[f][t] = nodeOf[f]
    /\ nodeOf[f] # NoBlock /\ Slot(f, t) # NoHandler => Slot(f, t) = wanted[f][t]

\* What it has done and has left to do.
Unloading(f, t) ==
  phase # "loaded" /\ <<f, t>> \notin excused =>
    IF request[f].type = t THEN request[f].to = wanted[f][t] /\ <<f, t>> \notin toRestore
    ELSE IF <<f, t>> \in toRestore THEN Slot(f, t) = wanted[f][t]
    ELSE transport[f][t] = wanted[f][t]

SlotInv(f, t) == InFlight(f, t) /\ Quiet(f, t) /\ Loaded(f, t) /\ Unloading(f, t)

CrashInv == crash.why = "no handler" => request[crash.at[1]].type = crash.at[2]

BaseInv ==
  HandlersRange /\ ClosedInv /\ NodesInv /\ TableInv /\ ToRestoreInv /\ CrashInv

HandlersInv ==
  /\ BaseInv
  /\ \A f \in FileObject, t \in EventType : SlotInv(f, t)

LEMMA SetEntry ==
  ASSUME NEW S, NEW T, NEW V, NEW F \in [S -> [T -> V]], NEW f \in S, NEW t \in T, NEW v \in V,
         NEW G, G = [F EXCEPT ![f][t] = v]
  PROVE  /\ G \in [S -> [T -> V]]
         /\ \A g \in S, u \in T : G[g][u] = IF g = f /\ u = t THEN v ELSE F[g][u]
         /\ \A g \in S : g # f => G[g] = F[g]
OBVIOUS

LEMMA SetRow ==
  ASSUME NEW S, NEW V, NEW F \in [S -> V], NEW f \in S, NEW v \in V, NEW G, G = [F EXCEPT ![f] = v]
  PROVE  /\ G \in [S -> V]
         /\ \A g \in S : G[g] = IF g = f THEN v ELSE F[g]
OBVIOUS

LEMMA EntryTypes ==
  ASSUME HandlersRange, NEW f \in FileObject, NEW t \in EventType
  PROVE  /\ request[f] \in [type : EventType \cup {"none"}, to : Hook]
         /\ transport[f][t] \in Hook
         /\ wanted[f][t] \in Handler \cup {NoHandler}
         /\ nodeOf[f] \in NodeBlock \cup {NoBlock}
         /\ \A b \in NodeBlock : blocks[b][t] \in Handler \cup {NoHandler}
BY DEF HandlersRange, HandlersTypeOK, RequestType, Hook

\* What is not touched stays right.
LEMMA EntryStays ==
  ASSUME HandlersInv, NEW g \in FileObject, NEW u \in EventType,
         transport'[g][u] = transport[g][u], wanted'[g][u] = wanted[g][u],
         request'[g] = request[g] \/ (request[g].type # u /\ request'[g].type # u),
         nodeOf'[g] = nodeOf[g]
           \/ (nodeOf[g] = NoBlock /\ blocks'[nodeOf'[g]][u] = NoHandler),
         \A b \in NodeBlock : Uses(g, b) => blocks'[b][u] = blocks[b][u],
         <<g, u>> \in excused => <<g, u>> \in excused',
         <<g, u>> \in toRestore' <=> <<g, u>> \in toRestore,
         phase' = phase, crash' = crash \/ crash' # NoCrash
  PROVE  SlotInv(g, u)'
<1>1. SlotInv(g, u) /\ HandlersRange /\ ToRestoreInv
  BY DEF HandlersInv, BaseInv
<1>2. /\ request[g].to \in NodeBlock => blocks'[request[g].to][u] = blocks[request[g].to][u]
      /\ transport[g][u] \in NodeBlock => blocks'[transport[g][u]][u] = blocks[transport[g][u]][u]
      /\ nodeOf[g] \in NodeBlock => blocks'[nodeOf[g]][u] = blocks[nodeOf[g]][u]
  BY DEF Uses
<1>3. nodeOf[g] \in NodeBlock \cup {NoBlock}
  BY <1>1, EntryTypes
<1>4. InFlight(g, u)'
  BY <1>1, <1>2 DEF SlotInv, InFlight
<1>5. Quiet(g, u)'
  BY <1>1, <1>2 DEF SlotInv, Quiet, Receiver
<1>6. Loaded(g, u)'
  <2>1. CASE nodeOf'[g] = nodeOf[g]
    BY <1>1, <1>2, <1>3, <2>1 DEF SlotInv, Loaded, Slot, Works
  <2>2. CASE nodeOf[g] = NoBlock /\ blocks'[nodeOf'[g]][u] = NoHandler
    BY <1>1, <1>2, <2>2, HandlersAssumption DEF SlotInv, Loaded, Slot, Works
  <2> QED BY <2>1, <2>2
<1>7. Unloading(g, u)'
  <2>1. <<g, u>> \in toRestore => nodeOf[g] \in NodeBlock /\ nodeOf'[g] = nodeOf[g]
    BY <1>1, <1>3 DEF ToRestoreInv
  <2> QED BY <1>1, <1>2, <2>1 DEF SlotInv, Unloading, Slot
<1> QED BY <1>4, <1>5, <1>6, <1>7 DEF SlotInv

\* A request leaves what it is not about as it is.
LEMMA AsksKeeps ==
  ASSUME HandlersInv, BaseInv', NEW f \in FileObject, NEW t \in EventType, NEW x \in Hook,
         NEW h \in Handler \cup {NoHandler}, Asks(f, t, h), Forward(f, t, x),
         UNCHANGED <<transport, phase, toRestore>>,
         nodeOf' = nodeOf \/
           (/\ nodeOf[f] = NoBlock /\ nodeOf' = [nodeOf EXCEPT ![f] = nodeOf'[f]]
            /\ \A u \in EventType \ {t} : blocks'[nodeOf'[f]][u] = NoHandler),
         \A c \in NodeBlock, u \in EventType :
           \/ blocks'[c][u] = blocks[c][u]
           \/ u = t /\ \A g \in FileObject \ {f} : ~Uses(g, c),
         \A g \in FileObject, u \in EventType :
           <<g, u>> \in excused => <<g, u>> \in excused' \/ (g = f /\ u = t),
         crash' = crash \/ crash' # NoCrash,
         InFlight(f, t)', Loaded(f, t)', Unloading(f, t)'
  PROVE  HandlersInv'
<1>1. /\ request[f].type = "none" /\ request'[f].type = t
      /\ \A g \in FileObject : g # f => request'[g] = request[g]
      /\ \A g \in FileObject, u \in EventType : g # f \/ u # t => wanted'[g][u] = wanted[g][u]
  <2>1. /\ request \in [FileObject -> [type : EventType \cup {"none"}, to : Hook]]
        /\ wanted \in [FileObject -> [EventType -> Handler \cup {NoHandler}]]
    BY DEF HandlersInv, BaseInv, HandlersRange, RequestType
  <2>2. /\ request' = [request EXCEPT ![f] = [type |-> t, to |-> x]]
        /\ wanted' = [wanted EXCEPT ![f][t] = h] /\ request[f] = NothingSent
    BY DEF Forward, Asks
  <2>3. \A g \in FileObject, u \in EventType : g # f \/ u # t => wanted'[g][u] = wanted[g][u]
    BY <2>1, <2>2, SetEntry
  <2> QED BY <2>1, <2>2, <2>3 DEF NothingSent
<1>2. ASSUME NEW g \in FileObject, NEW u \in EventType, g # f \/ u # t
      PROVE  SlotInv(g, u)'
  <2>1. /\ transport'[g][u] = transport[g][u] /\ wanted'[g][u] = wanted[g][u]
        /\ request'[g] = request[g] \/ (request[g].type # u /\ request'[g].type # u)
    BY <1>1, <1>2, HandlersAssumption
  <2>2. \/ nodeOf'[g] = nodeOf[g]
        \/ nodeOf[g] = NoBlock /\ blocks'[nodeOf'[g]][u] = NoHandler
    <3>1. nodeOf \in [FileObject -> taken \cup {NoBlock}]
      BY DEF HandlersInv, BaseInv, HandlersRange, HandlersTypeOK
    <3> QED BY <1>2, <3>1
  <2>3. \A c \in NodeBlock : Uses(g, c) => blocks'[c][u] = blocks[c][u]
    BY <1>2
  <2>4. <<g, u>> \in excused => <<g, u>> \in excused'
    BY <1>2
  <2> QED BY <2>1, <2>2, <2>3, <2>4, EntryStays
<1>3. SlotInv(f, t)'
  BY <1>1 DEF SlotInv, Quiet
<1> QED BY <1>2, <1>3 DEF HandlersInv

LEMMA AsksBase ==
  ASSUME BaseInv, NEW f \in FileObject, NEW t \in EventType, NEW x \in Hook,
         NEW h \in Handler \cup {NoHandler}, Asks(f, t, h), Forward(f, t, x),
         UNCHANGED <<openFiles, known, transport, phase>>
  PROVE  /\ RequestType' /\ wanted' \in [FileObject -> [EventType -> Handler \cup {NoHandler}]]
         /\ ClosedInv'
         /\ request'[f] = [type |-> t, to |-> x] /\ wanted'[f][t] = h
         /\ \A g \in FileObject : g # f => request'[g] = request[g]
<1>1. /\ request \in [FileObject -> [type : EventType \cup {"none"}, to : Hook]]
      /\ wanted \in [FileObject -> [EventType -> Handler \cup {NoHandler}]]
      /\ \A g \in FileObject : request[g].type = "none" => request[g] = NothingSent
      /\ f \in openFiles
  BY DEF BaseInv, HandlersRange, RequestType, Asks
<1>2. /\ request' = [request EXCEPT ![f] = [type |-> t, to |-> x]]
      /\ wanted' = [wanted EXCEPT ![f][t] = h]
  BY DEF Forward, Asks
<1>3. [type |-> t, to |-> x] \in [type : EventType \cup {"none"}, to : Hook]
  OBVIOUS
<1>4. /\ request' \in [FileObject -> [type : EventType \cup {"none"}, to : Hook]]
      /\ \A g \in FileObject : request'[g] = IF g = f THEN [type |-> t, to |-> x] ELSE request[g]
  BY <1>1, <1>2, <1>3, SetRow
<1>5. /\ wanted' \in [FileObject -> [EventType -> Handler \cup {NoHandler}]]
      /\ wanted'[f][t] = h /\ \A g \in FileObject : g # f => wanted'[g] = wanted[g]
  BY <1>1, <1>2, SetEntry
<1>6. RequestType'
  BY <1>1, <1>4, HandlersAssumption DEF RequestType
<1>7. ClosedInv'
  BY <1>1, <1>4, <1>5 DEF BaseInv, ClosedInv, Unset
<1> QED BY <1>4, <1>5, <1>6, <1>7

LEMMA UsesAfter ==
  ASSUME BaseInv, NEW f \in FileObject, NEW t \in EventType, NEW x \in Hook,
         NEW h \in Handler \cup {NoHandler}, Asks(f, t, h), Forward(f, t, x),
         UNCHANGED <<openFiles, known, transport, phase>>, taken \subseteq taken',
         NEW n \in NodeBlock \cup {NoBlock},
         nodeOf' = nodeOf \/ nodeOf' = [nodeOf EXCEPT ![f] = n],
         x \in NodeBlock => x = n,
         n \in NodeBlock => n \in taken' /\ (n = nodeOf[f] \/ n \notin taken)
  PROVE  NodesInv'
<1>1. nodeOf \in [FileObject -> taken \cup {NoBlock}] /\ NodesInv
  BY DEF BaseInv, HandlersRange, HandlersTypeOK
<1>2. \A g \in FileObject, b \in NodeBlock :
        request'[g].to = b => request[g].to = b \/ (g = f /\ b = n)
  <2>1. /\ request'[f] = [type |-> t, to |-> x]
        /\ \A g \in FileObject : g # f => request'[g] = request[g]
    BY AsksBase
  <2> QED BY <2>1
<1>3. \A g \in FileObject, b \in NodeBlock :
        nodeOf'[g] = b => nodeOf[g] = b \/ (g = f /\ b = n)
  BY <1>1
<1>4. \A g \in FileObject, b \in NodeBlock : Uses(g, b)' => Uses(g, b) \/ (g = f /\ b = n)
  BY <1>2, <1>3 DEF Uses
<1>5. \A g \in FileObject : n \in NodeBlock /\ Uses(g, n) => g = f
  BY <1>1 DEF NodesInv, Uses
<1> QED BY <1>1, <1>4, <1>5 DEF NodesInv

-----------------------------------------------------------------------------
(* The steps of the clients *)

LEMMA SetEventKeeps ==
  ASSUME HandlersInv, NEW f \in FileObject, NEW t \in EventType, NEW h \in Handler,
         SetEvent(f, t, h)
  PROVE  HandlersInv'
<1>a. nodeOf[f] \in NodeBlock \cup {NoBlock}
  BY DEF HandlersInv, BaseInv, HandlersRange, HandlersTypeOK
<1>b. PICK n \in Nodes(f) :
        /\ SetEventHandler(f, t, h, n)
        /\ taken' = taken \cup ({n.node} \ {NoBlock})
        /\ nodeOf' = IF n.mapped THEN [nodeOf EXCEPT ![f] = n.node] ELSE nodeOf
        /\ excused' = IF n.mapped \/ n.node = NoBlock THEN excused \ {<<f, t>>}
                      ELSE excused \cup {<<f, t>>}
  BY DEF SetEvent
<1>1. /\ n.node \in NodeBlock \cup {NoBlock} /\ n.mapped \in BOOLEAN
      /\ n.mapped => n.node # NoBlock
      /\ n.node = nodeOf[f] \/ nodeOf[f] = NoBlock
      /\ n.node \in NodeBlock => n.node = nodeOf[f] \/ n.node \notin taken
      /\ nodeOf[f] # NoBlock => n.mapped
  <2>1. CASE nodeOf[f] # NoBlock
    <3>1. n \in Nodes(f)
      BY <1>b
    <3>2. n = [node |-> nodeOf[f], mapped |-> TRUE]
      BY <2>1, <3>1 DEF Nodes
    <3> QED BY <1>a, <2>1, <3>2
  <2>2. CASE nodeOf[f] = NoBlock
    <3>1. CASE n = [node |-> NoBlock, mapped |-> FALSE]
      BY <2>2, <3>1
    <3>2. CASE n \in [node : NodeBlock \ taken, mapped : BOOLEAN]
      BY <2>2, <3>2, HandlersAssumption
    <3>3. n \in Nodes(f)
      BY <1>b
    <3>4. \/ n \in [node : NodeBlock \ taken, mapped : BOOLEAN]
          \/ n = [node |-> NoBlock, mapped |-> FALSE]
      BY <2>2, <3>3 DEF Nodes
    <3> QED BY <3>1, <3>2, <3>4
  <2> QED BY <2>1, <2>2
<1> DEFINE b == n.node
           x == IF b = NoBlock THEN h ELSE b
<1>2. /\ Asks(f, t, h) /\ Forward(f, t, x) /\ phase = "loaded" /\ t \in Table
      /\ UNCHANGED <<openFiles, known, transport, phase, toRestore, crash>>
      /\ blocks' = IF b = NoBlock THEN blocks ELSE [blocks EXCEPT ![b][t] = h]
      /\ x \in Hook /\ h \in Handler \cup {NoHandler} /\ b \in NodeBlock \cup {NoBlock}
      /\ b # NoBlock => x = b
      /\ b = NoBlock => x = h /\ h \notin NodeBlock
      /\ h # NoHandler
  BY <1>1, <1>b, HandlersAssumption DEF SetEvent, SetEventHandler, Hook
<1>3. /\ BaseInv /\ HandlersRange /\ NodesInv /\ TableInv /\ ToRestoreInv /\ SlotInv(f, t)
      /\ nodeOf \in [FileObject -> taken \cup {NoBlock}] /\ taken \subseteq NodeBlock
      /\ blocks \in [NodeBlock -> [EventType -> Handler \cup {NoHandler}]]
  BY DEF HandlersInv, BaseInv, HandlersRange, HandlersTypeOK
<1>4. /\ taken \subseteq taken' /\ taken' \subseteq NodeBlock
      /\ b \in NodeBlock => b \in taken'
      /\ \A c \in NodeBlock : c \notin taken' => c \notin taken /\ c # b
  BY <1>b, <1>2, <1>3, HandlersAssumption
<1>5. /\ nodeOf' = IF n.mapped THEN [nodeOf EXCEPT ![f] = b] ELSE nodeOf
      /\ n.mapped => b \in NodeBlock
      /\ b = nodeOf[f] \/ nodeOf[f] = NoBlock
      /\ b \in NodeBlock => b = nodeOf[f] \/ b \notin taken
      /\ nodeOf[f] # NoBlock => n.mapped
      /\ excused' = IF n.mapped \/ b = NoBlock THEN excused \ {<<f, t>>}
                    ELSE excused \cup {<<f, t>>}
  BY <1>1, <1>b, <1>2
<1> HIDE DEF b, x
<1>6. /\ RequestType' /\ wanted' \in [FileObject -> [EventType -> Handler \cup {NoHandler}]]
      /\ ClosedInv' /\ request'[f] = [type |-> t, to |-> x] /\ wanted'[f][t] = h
  BY <1>2, <1>3, AsksBase
<1>7. NodesInv'
  <2>1. CASE n.mapped
    BY <1>2, <1>3, <1>4, <1>5, <2>1, UsesAfter
  <2>2. CASE ~n.mapped
    <3>1. nodeOf' = nodeOf
      BY <1>5, <2>2
    <3>2. nodeOf[f] \in NodeBlock \cup {NoBlock}
      BY <1>3
    <3> QED BY <1>2, <1>3, <1>4, <1>5, <3>1, <3>2, UsesAfter
  <2> QED BY <2>1, <2>2
<1>8. /\ blocks' \in [NodeBlock -> [EventType -> Handler \cup {NoHandler}]]
      /\ \A c \in NodeBlock, u \in EventType :
           blocks'[c][u] = IF c = b /\ u = t THEN h ELSE blocks[c][u]
      /\ \A c \in NodeBlock : c # b => blocks'[c] = blocks[c]
  <2>1. CASE b = NoBlock
    BY <1>2, <1>3, <2>1, HandlersAssumption
  <2>2. CASE b # NoBlock
    <3>1. b \in NodeBlock /\ blocks' = [blocks EXCEPT ![b][t] = h]
      BY <1>2, <2>2
    <3> QED BY <1>2, <1>3, <3>1, SetEntry
  <2> QED BY <2>1, <2>2
<1>9. nodeOf' \in [FileObject -> taken' \cup {NoBlock}] /\ nodeOf'[f] \in {b, nodeOf[f]}
      /\ (nodeOf' = nodeOf \/ nodeOf' = [nodeOf EXCEPT ![f] = nodeOf'[f]])
      /\ (n.mapped => nodeOf'[f] = b) /\ (~n.mapped => nodeOf' = nodeOf /\ nodeOf[f] = NoBlock)
  BY <1>3, <1>4, <1>5
<1>10. HandlersRange'
  BY <1>2, <1>3, <1>4, <1>6, <1>8, <1>9 DEF HandlersRange, HandlersTypeOK
<1>11. TableInv'
  BY <1>2, <1>3, <1>4, <1>8, HandlersAssumption DEF TableInv
<1>12. ToRestoreInv'
  BY <1>2, <1>3 DEF ToRestoreInv
<1>13. CrashInv'
  <2>1. crash' = NoCrash
    BY <1>2 DEF Asks, Works
  <2> QED BY <2>1 DEF CrashInv, NoCrash
<1>14. BaseInv'
  BY <1>6, <1>7, <1>10, <1>11, <1>12, <1>13 DEF BaseInv
<1>15. InFlight(f, t)'
  BY <1>2, <1>6, <1>8, HandlersAssumption DEF InFlight
<1>16. Loaded(f, t)'
  <2>1. CASE n.mapped
    <3>1. nodeOf'[f] = b /\ b \in NodeBlock
      BY <1>5, <1>9, <2>1
    <3>2. Slot(f, t)' = h
      BY <1>8, <3>1 DEF Slot
    <3> QED BY <1>2, <1>6, <3>1, <3>2 DEF Loaded
  <2>2. CASE ~n.mapped /\ b = NoBlock
    BY <1>2, <1>6, <1>9, <2>2, HandlersAssumption DEF Loaded
  <2>3. CASE ~n.mapped /\ b # NoBlock
    BY <1>5, <2>3 DEF Loaded
  <2> QED BY <2>1, <2>2, <2>3
<1>17. Unloading(f, t)'
  BY <1>2 DEF Unloading
<1>18. \A c \in NodeBlock, u \in EventType :
         \/ blocks'[c][u] = blocks[c][u]
         \/ u = t /\ \A g \in FileObject \ {f} : ~Uses(g, c)
  <2>1. b \in NodeBlock => \A g \in FileObject \ {f} : ~Uses(g, b)
    BY <1>3, <1>5 DEF NodesInv, Uses
  <2> QED BY <1>8, <2>1
<1>19. \/ nodeOf' = nodeOf
       \/ /\ nodeOf[f] = NoBlock /\ nodeOf' = [nodeOf EXCEPT ![f] = nodeOf'[f]]
          /\ \A u \in EventType \ {t} : blocks'[nodeOf'[f]][u] = NoHandler
  <2>1. CASE nodeOf[f] # NoBlock
    BY <1>3, <1>5, <2>1
  <2>2. CASE nodeOf[f] = NoBlock /\ n.mapped
    <3>1. b \in NodeBlock /\ b \notin taken /\ nodeOf'[f] = b
      BY <1>5, <1>9, <2>2, HandlersAssumption
    <3>2. blocks[b] = Unset
      BY <1>3, <3>1 DEF TableInv
    <3>3. \A u \in EventType \ {t} : blocks'[nodeOf'[f]][u] = NoHandler
      BY <1>8, <3>1, <3>2 DEF Unset
    <3> QED BY <1>5, <1>9, <2>2, <3>3
  <2> QED BY <1>9, <2>1, <2>2
<1>20. \A g \in FileObject, u \in EventType :
         <<g, u>> \in excused => <<g, u>> \in excused' \/ (g = f /\ u = t)
  BY <1>5
<1> QED BY <1>2, <1>14, <1>15, <1>16, <1>17, <1>18, <1>19, <1>20, AsksKeeps

LEMMA ListenKeeps ==
  ASSUME HandlersInv, NEW f \in FileObject, NEW t \in EventType, NEW h \in Handler,
         ListenOnUnknown(f, t, h)
  PROVE  HandlersInv'
<1>0. BaseInv
  BY DEF HandlersInv
<1>1. /\ Asks(f, t, h) /\ Forward(f, t, h) /\ phase = "loaded"
      /\ UNCHANGED <<openFiles, known, transport, blocks, taken, nodeOf, phase, toRestore, excused>>
      /\ h \in Hook /\ h \notin NodeBlock /\ h \in Handler \cup {NoHandler}
  BY HandlersAssumption DEF ListenOnUnknown, Hook
<1>a. crash' # NoCrash
  BY DEF ListenOnUnknown, NoCrash
<1>2. /\ RequestType' /\ wanted' \in [FileObject -> [EventType -> Handler \cup {NoHandler}]]
      /\ ClosedInv' /\ request'[f] = [type |-> t, to |-> h] /\ wanted'[f][t] = h
  BY <1>0, <1>1, AsksBase
<1>3. HandlersRange' /\ TableInv' /\ ToRestoreInv'
  BY <1>1, <1>2 DEF HandlersInv, BaseInv, HandlersRange, HandlersTypeOK, TableInv, ToRestoreInv, Slot
<1>4. NodesInv'
  <2>1. NoBlock \in NodeBlock \cup {NoBlock}
    OBVIOUS
  <2> QED BY <1>0, <1>1, <2>1, UsesAfter, HandlersAssumption
<1>5. BaseInv'
  <2>1. CrashInv'
    BY DEF ListenOnUnknown, CrashInv
  <2> QED BY <1>2, <1>3, <1>4, <2>1 DEF BaseInv
<1>6. InFlight(f, t)' /\ Unloading(f, t)'
  BY <1>1, <1>2 DEF InFlight, Unloading
<1>7. Loaded(f, t)'
  BY <1>a DEF Loaded, Works
<1> QED BY <1>a, <1>1, <1>5, <1>6, <1>7, AsksKeeps

LEMMA RemoveKeeps ==
  ASSUME HandlersInv, NEW f \in FileObject, NEW t \in EventType, RemoveEvent(f, t)
  PROVE  HandlersInv'
<1>0. BaseInv
  BY DEF HandlersInv
<1> DEFINE b == nodeOf[f]
<1>1. /\ Asks(f, t, NoHandler) /\ Forward(f, t, NoHandler) /\ phase = "loaded"
      /\ UNCHANGED <<openFiles, known, transport, taken, nodeOf, phase, toRestore, crash>>
      /\ blocks' = IF b = NoBlock THEN blocks ELSE [blocks EXCEPT ![b][t] = NoHandler]
      /\ excused' = excused \ {<<f, t>>}
      /\ NoHandler \in Hook /\ NoHandler \notin NodeBlock /\ NoHandler \in Handler \cup {NoHandler}
  BY HandlersAssumption DEF RemoveEvent, Hook
<1>2. /\ RequestType' /\ wanted' \in [FileObject -> [EventType -> Handler \cup {NoHandler}]]
      /\ ClosedInv' /\ request'[f] = [type |-> t, to |-> NoHandler] /\ wanted'[f][t] = NoHandler
  BY <1>0, <1>1, AsksBase
<1>3. /\ BaseInv /\ HandlersRange /\ NodesInv /\ TableInv /\ ToRestoreInv
      /\ b \in taken \cup {NoBlock} /\ taken \subseteq NodeBlock
      /\ blocks \in [NodeBlock -> [EventType -> Handler \cup {NoHandler}]]
  BY DEF HandlersInv, BaseInv, HandlersRange, HandlersTypeOK
<1>4. NodesInv'
  BY <1>1, <1>3, UsesAfter, HandlersAssumption
<1> HIDE DEF b
<1>5. /\ blocks' \in [NodeBlock -> [EventType -> Handler \cup {NoHandler}]]
      /\ \A c \in NodeBlock, u \in EventType :
           blocks'[c][u] = IF c = b /\ u = t THEN NoHandler ELSE blocks[c][u]
      /\ \A c \in NodeBlock : c # b => blocks'[c] = blocks[c]
  <2>1. CASE b = NoBlock
    BY <1>1, <1>3, <2>1, HandlersAssumption
  <2>2. CASE b # NoBlock
    <3>1. b \in NodeBlock /\ blocks' = [blocks EXCEPT ![b][t] = NoHandler]
      BY <1>1, <1>3, <2>2
    <3> QED BY <1>1, <1>3, <3>1, SetEntry
  <2> QED BY <2>1, <2>2
<1>6. HandlersRange'
  BY <1>1, <1>2, <1>3, <1>5 DEF HandlersRange, HandlersTypeOK
<1>7. TableInv'
  BY <1>1, <1>3, <1>5 DEF TableInv
<1>8. ToRestoreInv'
  BY <1>1, <1>3 DEF ToRestoreInv
<1>9. BaseInv'
  <2>1. CrashInv'
    BY <1>1 DEF Asks, Works, CrashInv, NoCrash
  <2> QED BY <1>2, <1>4, <1>6, <1>7, <1>8, <2>1 DEF BaseInv
<1>10. InFlight(f, t)' /\ Unloading(f, t)'
  BY <1>1, <1>2 DEF InFlight, Unloading
<1>11. Loaded(f, t)'
  <2>1. nodeOf'[f] # NoBlock => Slot(f, t)' = NoHandler
    BY <1>1, <1>3, <1>5 DEF Slot, b
  <2> QED BY <1>1, <1>2, <2>1 DEF Loaded
<1>12. \A c \in NodeBlock, u \in EventType :
         \/ blocks'[c][u] = blocks[c][u]
         \/ u = t /\ \A g \in FileObject \ {f} : ~Uses(g, c)
  <2>1. b \in NodeBlock => \A g \in FileObject \ {f} : ~Uses(g, b)
    BY <1>3 DEF NodesInv, Uses, b
  <2> QED BY <1>5, <2>1
<1> QED BY <1>1, <1>9, <1>10, <1>11, <1>12, AsksKeeps

LEMMA DirectKeeps ==
  ASSUME HandlersInv, NEW f \in FileObject, NEW t \in EventType, NEW h \in Handler \cup {NoHandler},
         SetDirectly(f, t, h)
  PROVE  HandlersInv'
<1>0. BaseInv
  BY DEF HandlersInv
<1>1. /\ Asks(f, t, h) /\ Forward(f, t, h) /\ (phase # "loaded" \/ t \notin Table)
      /\ UNCHANGED <<openFiles, known, transport, blocks, taken, nodeOf, phase, toRestore, crash>>
      /\ excused' = IF <<f, t>> \in toRestore THEN excused \cup {<<f, t>>} ELSE excused
      /\ h \in Hook /\ h \notin NodeBlock /\ h \in Handler \cup {NoHandler}
  BY HandlersAssumption DEF SetDirectly, Hook
<1>2. /\ RequestType' /\ wanted' \in [FileObject -> [EventType -> Handler \cup {NoHandler}]]
      /\ ClosedInv' /\ request'[f] = [type |-> t, to |-> h] /\ wanted'[f][t] = h
  BY <1>0, <1>1, AsksBase
<1>3. HandlersRange' /\ TableInv' /\ ToRestoreInv'
  BY <1>1, <1>2 DEF HandlersInv, BaseInv, HandlersRange, HandlersTypeOK, TableInv, ToRestoreInv, Slot
<1>4. NodesInv'
  <2>1. NoBlock \in NodeBlock \cup {NoBlock}
    OBVIOUS
  <2> QED BY <1>0, <1>1, <2>1, UsesAfter, HandlersAssumption
<1>5. BaseInv'
  <2>1. CrashInv'
    BY <1>1 DEF Asks, Works, CrashInv, NoCrash
  <2> QED BY <1>1, <1>2, <1>3, <1>4, <2>1 DEF BaseInv
<1>6. InFlight(f, t)' /\ Unloading(f, t)'
  BY <1>1, <1>2 DEF InFlight, Unloading
<1>7. Loaded(f, t)'
  <2>1. phase = "loaded" /\ nodeOf[f] # NoBlock => Slot(f, t) = NoHandler
    BY <1>1 DEF HandlersInv, BaseInv, HandlersRange, HandlersTypeOK, TableInv, Slot
  <2>2. Slot(f, t)' = Slot(f, t)
    BY <1>1 DEF Slot
  <2> QED BY <1>1, <1>2, <2>1, <2>2 DEF Loaded
<1> QED BY <1>1, <1>5, <1>6, <1>7, AsksKeeps

LEMMA OpenKeeps ==
  ASSUME HandlersInv, NEW f \in FileObject, OpenFile(f)
  PROVE  HandlersInv'
<1>1. /\ UNCHANGED <<transport, blocks, taken, nodeOf, request, phase, toRestore, crash, wanted,
                     excused>>
      /\ openFiles' = openFiles \cup {f} /\ known' \in {known, known \cup {f}}
  BY DEF OpenFile
<1>2. BaseInv'
  <2>1. HandlersRange' /\ ClosedInv'
    BY <1>1 DEF HandlersInv, BaseInv, HandlersRange, HandlersTypeOK, RequestType, ClosedInv
  <2>2. NodesInv' /\ TableInv' /\ ToRestoreInv'
    BY <1>1 DEF HandlersInv, BaseInv, NodesInv, Uses, TableInv, ToRestoreInv, Slot
  <2>3. CrashInv'
    BY <1>1, Zenon DEF HandlersInv, BaseInv, CrashInv
  <2> QED BY <2>1, <2>2, <2>3 DEF BaseInv
<1>3. ASSUME NEW g \in FileObject, NEW u \in EventType PROVE SlotInv(g, u)'
  BY <1>1, EntryStays
<1> QED BY <1>2, <1>3 DEF HandlersInv

LEMMA CloseKeeps ==
  ASSUME HandlersInv, NEW f \in FileObject, CloseFile(f)
  PROVE  HandlersInv'
<1>1. /\ UNCHANGED <<blocks, taken, nodeOf, request, phase, toRestore, crash>>
      /\ openFiles' = openFiles \ {f} /\ known' = known \ {f}
      /\ f \in openFiles /\ request[f] = NothingSent
      /\ transport' = [transport EXCEPT ![f] = Unset] /\ wanted' = [wanted EXCEPT ![f] = Unset]
  BY DEF CloseFile
<1>2. /\ transport \in [FileObject -> [EventType -> Hook]]
      /\ wanted \in [FileObject -> [EventType -> Handler \cup {NoHandler}]]
      /\ BaseInv /\ ToRestoreInv /\ NodesInv /\ HandlersRange
  BY DEF HandlersInv, BaseInv, HandlersRange, HandlersTypeOK, Hook
<1>3. /\ transport' \in [FileObject -> [EventType -> Hook]]
      /\ \A g \in FileObject : transport'[g] = IF g = f THEN Unset ELSE transport[g]
  <2>1. Unset \in [EventType -> Hook]
    BY DEF Unset, Hook
  <2> QED BY <1>1, <1>2, <2>1, SetRow
<1>4. /\ wanted' \in [FileObject -> [EventType -> Handler \cup {NoHandler}]]
      /\ \A g \in FileObject : wanted'[g] = IF g = f THEN Unset ELSE wanted[g]
  <2>1. Unset \in [EventType -> Handler \cup {NoHandler}]
    BY DEF Unset
  <2> QED BY <1>1, <1>2, <2>1, SetRow
<1>5. \A u \in EventType : Unset[u] = NoHandler
  BY DEF Unset
<1>6. HandlersRange'
  BY <1>1, <1>2, <1>3, <1>4 DEF HandlersRange, HandlersTypeOK, RequestType, Hook
<1>7. NodesInv'
  <2>1. \A g \in FileObject, b \in NodeBlock : Uses(g, b)' => Uses(g, b)
    BY <1>1, <1>3, <1>5, HandlersAssumption DEF Uses
  <2> QED BY <1>1, <1>2, <2>1 DEF NodesInv
<1>8. ClosedInv'
  BY <1>1, <1>3, <1>4 DEF HandlersInv, BaseInv, ClosedInv
<1>9. TableInv' /\ ToRestoreInv' /\ CrashInv'
  BY <1>1 DEF HandlersInv, BaseInv, TableInv, ToRestoreInv, Slot, CrashInv
<1>10. /\ \A g \in FileObject, u \in EventType : <<g, u>> \in excused => <<g, u>> \in excused'
       /\ nodeOf[f] # NoBlock =>
            \A u \in EventType : Slot(f, u) # NoHandler => <<f, u>> \in excused'
  BY DEF CloseFile
<1>11. ASSUME NEW g \in FileObject, NEW u \in EventType PROVE SlotInv(g, u)'
  <2>1. CASE g # f
    BY <1>1, <1>3, <1>4, <1>10, <2>1, EntryStays
  <2>2. CASE g = f
    <3>1. /\ request'[g] = NothingSent /\ transport'[g][u] = NoHandler
          /\ wanted'[g][u] = NoHandler /\ NoHandler \notin NodeBlock /\ request'[g].type # u
      BY <1>1, <1>3, <1>4, <1>5, <2>2, HandlersAssumption DEF NothingSent
    <3>2. InFlight(g, u)' /\ Quiet(g, u)'
      BY <3>1 DEF InFlight, Quiet, Receiver
    <3>3. /\ nodeOf'[g] = nodeOf[g] /\ Slot(g, u)' = Slot(g, u)
          /\ nodeOf'[g] # NoBlock => Slot(g, u)' = NoHandler \/ <<g, u>> \in excused'
      BY <1>1, <1>10, <2>2 DEF Slot
    <3>4. Loaded(g, u)'
      BY <3>1, <3>3 DEF Loaded
    <3>5. <<g, u>> \in toRestore' => nodeOf'[g] # NoBlock /\ Slot(g, u)' # NoHandler
      BY <1>9 DEF ToRestoreInv
    <3>6. Unloading(g, u)'
      BY <3>1, <3>3, <3>5 DEF Unloading
    <3> QED BY <3>2, <3>4, <3>6 DEF SlotInv
  <2> QED BY <2>1, <2>2
<1> QED BY <1>6, <1>7, <1>8, <1>9, <1>11 DEF HandlersInv, BaseInv

-----------------------------------------------------------------------------
(* The transport *)

LEMMA DeliverKeeps ==
  ASSUME HandlersInv, NEW f \in FileObject, Deliver(f)
  PROVE  HandlersInv'
<1>1. /\ UNCHANGED <<openFiles, known, blocks, taken, nodeOf, phase, toRestore, crash, wanted,
                     excused>>
      /\ request[f] # NothingSent /\ request' = [request EXCEPT ![f] = NothingSent]
      /\ crash = NoCrash
  BY DEF Deliver, Works
<1>2. /\ request \in [FileObject -> [type : EventType \cup {"none"}, to : Hook]]
      /\ transport \in [FileObject -> [EventType -> Hook]]
      /\ BaseInv /\ HandlersRange
  BY DEF HandlersInv, BaseInv, HandlersRange, HandlersTypeOK, RequestType, Hook
<1>3. PICK t \in EventType, x \in Hook :
        /\ request[f].type = t /\ request[f].to = x
        /\ transport' = [transport EXCEPT ![f][t] = x]
  <2>1. request[f].type # "none"
    BY <1>1 DEF HandlersInv, BaseInv, HandlersRange, RequestType
  <2>2. request[f].type \in EventType /\ request[f].to \in Hook
    BY <1>2, <2>1
  <2>3. transport' = [transport EXCEPT ![f][request[f].type] = request[f].to]
    BY DEF Deliver
  <2> QED BY <2>2, <2>3
<1>4. SlotInv(f, t)
  BY DEF HandlersInv
<1>5. f \in openFiles
  BY <1>1 DEF HandlersInv, BaseInv, ClosedInv
<1>6. request[f].type = t /\ request[f].to = x
  BY <1>3
<1>7. /\ transport' \in [FileObject -> [EventType -> Hook]]
      /\ \A g \in FileObject, u \in EventType :
           transport'[g][u] = IF g = f /\ u = t THEN x ELSE transport[g][u]
      /\ \A g \in FileObject : g # f => transport'[g] = transport[g]
  BY <1>1, <1>2, <1>3, SetEntry
<1>8. /\ request' \in [FileObject -> [type : EventType \cup {"none"}, to : Hook]]
      /\ \A g \in FileObject : request'[g] = IF g = f THEN NothingSent ELSE request[g]
  <2>1. NothingSent \in [type : EventType \cup {"none"}, to : Hook]
    BY DEF NothingSent, Hook
  <2> QED BY <1>1, <1>2, <2>1, SetRow
<1>9. NothingSent.type = "none" /\ NothingSent.to = NoHandler
  BY DEF NothingSent
<1>10. HandlersRange'
  BY <1>1, <1>2, <1>7, <1>8 DEF HandlersRange, HandlersTypeOK, RequestType, Hook
<1>11. NodesInv'
  <2>1. \A g \in FileObject, b \in NodeBlock : Uses(g, b)' => Uses(g, b)
    BY <1>1, <1>6, <1>7, <1>8, <1>9, HandlersAssumption DEF Uses
  <2> QED BY <1>1, <2>1 DEF HandlersInv, BaseInv, NodesInv
<1>12. ClosedInv'
  BY <1>1, <1>5, <1>7, <1>8 DEF HandlersInv, BaseInv, ClosedInv
<1>13. TableInv' /\ ToRestoreInv'
  BY <1>1 DEF HandlersInv, BaseInv, TableInv, ToRestoreInv, Slot
<1>14. CrashInv'
  BY <1>1 DEF CrashInv, NoCrash
<1>15. ASSUME NEW g \in FileObject, NEW u \in EventType, g # f \/ u # t
       PROVE  SlotInv(g, u)'
  <2>1. transport'[g][u] = transport[g][u]
    BY <1>7, <1>15
  <2>2. request'[g] = request[g] \/ (request[g].type # u /\ request'[g].type # u)
    BY <1>6, <1>8, <1>9, <1>15, HandlersAssumption
  <2> QED BY <1>1, <2>1, <2>2, EntryStays
<1>16. SlotInv(f, t)'
  <2>2. request'[f].type # t /\ transport'[f][t] = x
    BY <1>3, <1>7, <1>8, <1>9, HandlersAssumption
  <2>3. InFlight(f, t)'
    BY <2>2 DEF InFlight
  <2>4. Quiet(f, t)'
    BY <1>1, <1>4, <1>6, <2>2 DEF Quiet, Receiver, SlotInv, InFlight
  <2>5. Loaded(f, t)'
    BY <1>1, <1>4, <1>6, <2>2 DEF Loaded, Slot, Works, SlotInv
  <2>6. Unloading(f, t)'
    BY <1>1, <1>4, <1>6, <2>2 DEF Unloading, Slot, SlotInv
  <2> QED BY <2>3, <2>4, <2>5, <2>6 DEF SlotInv
<1> QED BY <1>3, <1>10, <1>11, <1>12, <1>13, <1>14, <1>15, <1>16 DEF HandlersInv, BaseInv

LEMMA CrashFields ==
  ASSUME NEW c, NEW w, NEW p, c = [why |-> w, at |-> p]
  PROVE  c.why = w /\ c.at = p
OBVIOUS

LEMMA IndicateKeeps ==
  ASSUME HandlersInv, NEW f \in FileObject, NEW t \in EventType, Indicate(f, t)
  PROVE  HandlersInv'
<1>u. UNCHANGED <<openFiles, known, transport, blocks, taken, nodeOf, request, phase, toRestore,
                  wanted, excused>>
  BY DEF Indicate
<1>1. /\ UNCHANGED <<openFiles, known, transport, blocks, taken, nodeOf, request, phase, toRestore,
                     wanted, excused>>
      /\ transport[f][t] \in NodeBlock
  BY DEF Indicate
<1>2. PICK w \in {"driver gone", "connections gone", "no handler"} :
        /\ crash' = [why |-> w, at |-> <<f, t>>]
        /\ w = "no handler" => blocks[transport[f][t]][t] = NoHandler
  BY Zenon DEF Indicate
<1>3. crash'.why = w /\ crash'.at = <<f, t>>
  BY <1>2, CrashFields
<1>4. crash' # NoCrash
  <2>1. NoCrash.why = "none"
    BY DEF NoCrash
  <2>2. w # "none"
    OBVIOUS
  <2> QED BY <1>3, <2>1, <2>2, Zenon
<1>5. CrashInv'
  <2>1. w = "no handler" => request[f].type = t
    BY <1>1, <1>2 DEF HandlersInv, SlotInv, Quiet
  <2>2. <<f, t>>[1] = f /\ <<f, t>>[2] = t
    OBVIOUS
  <2> QED BY <1>1, <1>3, <2>1, <2>2, Zenon DEF CrashInv
<1>6. BaseInv'
  <2>1. HandlersRange' /\ ClosedInv'
    BY <1>u DEF HandlersInv, BaseInv, HandlersRange, HandlersTypeOK, RequestType, ClosedInv
  <2>2. NodesInv'
    BY <1>u DEF HandlersInv, BaseInv, NodesInv, Uses
  <2>3. TableInv' /\ ToRestoreInv'
    BY <1>u DEF HandlersInv, BaseInv, TableInv, ToRestoreInv, Slot
  <2> QED BY <1>5, <2>1, <2>2, <2>3 DEF BaseInv
<1>7. ASSUME NEW g \in FileObject, NEW u \in EventType PROVE SlotInv(g, u)'
  BY <1>1, <1>4, EntryStays
<1> QED BY <1>6, <1>7 DEF HandlersInv

-----------------------------------------------------------------------------
(* The unloading of the driver *)

LEMMA UnloadKeeps == ASSUME HandlersInv, UnloadDriver PROVE HandlersInv'
<1>1. /\ UNCHANGED <<openFiles, known, transport, blocks, taken, nodeOf, request, crash, wanted>>
      /\ phase = "loaded" /\ phase' = "restoring" /\ Works
      /\ toRestore' = {s \in FileObject \X EventType :
                         nodeOf[s[1]] # NoBlock /\ Slot(s[1], s[2]) # NoHandler}
      /\ excused' = excused \cup {<<f, request[f].type>> :
                                   f \in {g \in FileObject : request[g] # NothingSent}}
  BY DEF UnloadDriver
<1>2. ASSUME NEW f \in FileObject, NEW t \in EventType
      PROVE  <<f, t>> \in toRestore' <=> nodeOf[f] # NoBlock /\ Slot(f, t) # NoHandler
  <2>1. <<f, t>> \in FileObject \X EventType /\ <<f, t>>[1] = f /\ <<f, t>>[2] = t
    OBVIOUS
  <2>2. <<f, t>> \in toRestore' <=>
          /\ <<f, t>> \in FileObject \X EventType
          /\ nodeOf[<<f, t>>[1]] # NoBlock /\ Slot(<<f, t>>[1], <<f, t>>[2]) # NoHandler
    BY <1>1, Zenon
  <2> QED BY <2>1, <2>2, Zenon
<1>3. HandlersRange' /\ ClosedInv'
  BY <1>1 DEF HandlersInv, BaseInv, HandlersRange, HandlersTypeOK, RequestType, ClosedInv
<1>4. NodesInv' /\ TableInv' /\ CrashInv'
  <2>1. NodesInv' /\ TableInv'
    BY <1>1 DEF HandlersInv, BaseInv, NodesInv, Uses, TableInv
  <2>2. CrashInv'
    BY <1>1, Zenon DEF HandlersInv, BaseInv, CrashInv
  <2> QED BY <2>1, <2>2
<1>5. ToRestoreInv'
  BY <1>1, <1>2 DEF ToRestoreInv, Slot
<1>6. ASSUME NEW f \in FileObject, NEW t \in EventType PROVE SlotInv(f, t)'
  <2>1. SlotInv(f, t)
    BY DEF HandlersInv
  <2>2. InFlight(f, t)' /\ Quiet(f, t)' /\ Loaded(f, t)'
    BY <1>1, <2>1 DEF SlotInv, InFlight, Quiet, Loaded
  <2>3. request[f].type = t => <<f, t>> \in excused'
    <3>1. ASSUME request[f].type = t PROVE request[f] # NothingSent
      BY <3>1, HandlersAssumption DEF NothingSent
    <3> QED BY <1>1, <3>1
  <2>4. <<f, t>> \notin excused' => <<f, t>> \notin excused
    BY <1>1
  <2>5. ASSUME <<f, t>> \notin excused' PROVE Unloading(f, t)'
    <3>1. request[f].type # t /\ Quiet(f, t) /\ Loaded(f, t) /\ <<f, t>> \notin excused
      BY <2>1, <2>3, <2>4, <2>5 DEF SlotInv
    <3>2. CASE <<f, t>> \in toRestore'
      BY <1>1, <1>2, <3>1, <3>2 DEF Unloading, Loaded, Slot
    <3>3. CASE <<f, t>> \notin toRestore'
      <4>1. nodeOf[f] = NoBlock \/ Slot(f, t) = NoHandler
        BY <1>2, <3>3
      <4>2. transport[f][t] \notin NodeBlock
        BY <1>1, <3>1, <4>1, HandlersAssumption DEF Quiet, Loaded, Slot
      <4>3. transport[f][t] = wanted[f][t]
        BY <1>1, <3>1, <4>2 DEF Quiet, Receiver
      <4> QED BY <1>1, <3>1, <3>3, <4>3 DEF Unloading
    <3> QED BY <3>2, <3>3
  <2> QED BY <2>2, <2>5 DEF SlotInv, Unloading
<1> QED BY <1>3, <1>4, <1>5, <1>6 DEF HandlersInv, BaseInv

\* A slot is dealt with, in one way or another.
LEMMA Dealt ==
  ASSUME HandlersInv, NEW f \in FileObject, NEW t \in EventType, <<f, t>> \in toRestore,
         toRestore' = toRestore \ {<<f, t>>},
         UNCHANGED <<openFiles, known, blocks, taken, nodeOf, request, phase, wanted>>,
         \A g \in FileObject, u \in EventType : g # f \/ u # t => transport'[g][u] = transport[g][u],
         \A g \in FileObject : g # f => transport'[g] = transport[g],
         f \in openFiles \/ transport' = transport,
         transport' \in [FileObject -> [EventType -> Hook]],
         transport'[f][t] = transport[f][t] \/ transport'[f][t] \notin NodeBlock,
         excused \subseteq excused',
         \/ <<f, t>> \in excused'
         \/ transport'[f][t] = wanted[f][t]
         \/ request[f].type = t,
         crash' = crash \/ crash' # NoCrash, CrashInv'
  PROVE  HandlersInv'
<1>1. phase = "restoring" /\ HandlersRange
  BY DEF HandlersInv, BaseInv, ToRestoreInv
<1>2. HandlersRange'
  BY <1>1 DEF HandlersRange, HandlersTypeOK, RequestType, Hook
<1>3. ClosedInv'
  BY DEF HandlersInv, BaseInv, ClosedInv
<1>4. NodesInv'
  <2>1. \A g \in FileObject, b \in NodeBlock : Uses(g, b)' => Uses(g, b)
    BY DEF Uses
  <2> QED BY <2>1 DEF HandlersInv, BaseInv, NodesInv
<1>5. TableInv'
  BY DEF HandlersInv, BaseInv, TableInv
<1>6. ToRestoreInv'
  BY DEF HandlersInv, BaseInv, ToRestoreInv, Slot
<1>7. ASSUME NEW g \in FileObject, NEW u \in EventType, g # f \/ u # t PROVE SlotInv(g, u)'
  <2>1. <<g, u>> \in toRestore' <=> <<g, u>> \in toRestore
    BY <1>7
  <2>2. transport'[g][u] = transport[g][u] /\ nodeOf'[g] = nodeOf[g]
    BY <1>7
  <2> QED BY <2>1, <2>2, EntryStays
<1>8. SlotInv(f, t)'
  <2>1. SlotInv(f, t)
    BY DEF HandlersInv
  <2>2. InFlight(f, t)'
    BY <2>1 DEF SlotInv, InFlight
  <2>3. Quiet(f, t)'
    BY <1>1, <2>1 DEF SlotInv, Quiet
  <2>4. Loaded(f, t)'
    BY <1>1 DEF Loaded
  <2>5. Unloading(f, t)'
    BY <1>1, <2>1 DEF SlotInv, Unloading
  <2> QED BY <2>2, <2>3, <2>4, <2>5 DEF SlotInv
<1> QED BY <1>2, <1>3, <1>4, <1>5, <1>6, <1>7, <1>8 DEF HandlersInv, BaseInv

LEMMA NoMemoryKeeps ==
  ASSUME HandlersInv, NEW f \in FileObject, NEW t \in EventType, NoMemoryToRestore(f, t)
  PROVE  HandlersInv'
<1>1. /\ <<f, t>> \in toRestore /\ toRestore' = toRestore \ {<<f, t>>}
      /\ excused' = excused \cup {<<f, t>>}
      /\ UNCHANGED <<openFiles, known, transport, blocks, taken, nodeOf, request, phase, crash, wanted>>
  BY DEF NoMemoryToRestore
<1>2. transport' \in [FileObject -> [EventType -> Hook]]
  BY <1>1 DEF HandlersInv, BaseInv, HandlersRange, HandlersTypeOK, Hook
<1>3. CrashInv'
  BY <1>1, Zenon DEF HandlersInv, BaseInv, CrashInv
<1> QED BY <1>1, <1>2, <1>3, Dealt

LEMMA RestoreKeeps ==
  ASSUME HandlersInv, NEW f \in FileObject, NEW t \in EventType, Restore(f, t)
  PROVE  HandlersInv'
<1>1. /\ <<f, t>> \in toRestore /\ toRestore' = toRestore \ {<<f, t>>} /\ f \in openFiles
      /\ transport' = [transport EXCEPT ![f][t] = Slot(f, t)]
      /\ UNCHANGED <<openFiles, known, blocks, taken, nodeOf, request, phase, crash, wanted, excused>>
  BY DEF Restore
<1>2. /\ transport \in [FileObject -> [EventType -> Hook]]
      /\ blocks \in [NodeBlock -> [EventType -> Handler \cup {NoHandler}]]
      /\ nodeOf[f] \in NodeBlock
  BY <1>1 DEF HandlersInv, BaseInv, HandlersRange, HandlersTypeOK, Hook, ToRestoreInv
<1>3. Slot(f, t) \in Hook /\ Slot(f, t) \notin NodeBlock
  BY <1>2, HandlersAssumption DEF Slot, Hook
<1>4. /\ transport' \in [FileObject -> [EventType -> Hook]]
      /\ \A g \in FileObject, u \in EventType :
           transport'[g][u] = IF g = f /\ u = t THEN Slot(f, t) ELSE transport[g][u]
      /\ \A g \in FileObject : g # f => transport'[g] = transport[g]
  BY <1>1, <1>2, <1>3, SetEntry
<1>5. \/ <<f, t>> \in excused' \/ transport'[f][t] = wanted[f][t]
      \/ request[f].type = t
  BY <1>1, <1>4 DEF HandlersInv, BaseInv, ToRestoreInv, SlotInv, Unloading
<1>6. CrashInv'
  BY <1>1, Zenon DEF HandlersInv, BaseInv, CrashInv
<1>7. transport'[f][t] = transport[f][t] \/ transport'[f][t] \notin NodeBlock
  BY <1>3, <1>4
<1> QED BY <1>1, <1>4, <1>5, <1>6, <1>7, Dealt

LEMMA ClosedKeeps ==
  ASSUME HandlersInv, NEW f \in FileObject, NEW t \in EventType, RestoreClosed(f, t)
  PROVE  HandlersInv'
<1>1. /\ <<f, t>> \in toRestore /\ toRestore' = toRestore \ {<<f, t>>} /\ f \notin openFiles
      /\ UNCHANGED <<openFiles, known, transport, blocks, taken, nodeOf, request, phase, wanted, excused>>
      /\ crash = NoCrash
  BY DEF RestoreClosed, Works
<1>2. transport' \in [FileObject -> [EventType -> Hook]]
  BY <1>1 DEF HandlersInv, BaseInv, HandlersRange, HandlersTypeOK, Hook
<1>3. transport'[f][t] = wanted[f][t]
  BY <1>1 DEF HandlersInv, BaseInv, ClosedInv
<1>4. crash'.why # "no handler"
  <2>1. CASE crash' = NoCrash
    BY <2>1 DEF NoCrash
  <2>2. CASE crash' = [why |-> "file gone", at |-> <<f, t>>]
    BY <2>2, CrashFields
  <2> QED BY <2>1, <2>2 DEF RestoreClosed
<1>6. CrashInv'
  BY <1>4 DEF CrashInv
<1>7. crash' = crash \/ crash' # NoCrash
  BY <1>1
<1> QED BY <1>1, <1>2, <1>3, <1>6, <1>7, Dealt

LEMMA EndUnloadKeeps == ASSUME HandlersInv, EndUnload PROVE HandlersInv'
<1>1. /\ UNCHANGED <<openFiles, known, transport, blocks, taken, nodeOf, request, toRestore, crash,
                     wanted, excused>>
      /\ phase = "restoring" /\ toRestore = {} /\ phase' = "unloaded"
  BY DEF EndUnload
<1>2. HandlersRange' /\ ClosedInv'
  BY <1>1 DEF HandlersInv, BaseInv, HandlersRange, HandlersTypeOK, RequestType, ClosedInv
<1>3. NodesInv' /\ TableInv' /\ ToRestoreInv'
  BY <1>1 DEF HandlersInv, BaseInv, NodesInv, Uses, TableInv, ToRestoreInv
<1>4. CrashInv'
  BY <1>1, Zenon DEF HandlersInv, BaseInv, CrashInv
<1>5. ASSUME NEW f \in FileObject, NEW t \in EventType PROVE SlotInv(f, t)'
  <2>1. SlotInv(f, t)
    BY DEF HandlersInv
  <2>2. InFlight(f, t)' /\ Quiet(f, t)' /\ Loaded(f, t)'
    BY <1>1, <2>1 DEF SlotInv, InFlight, Quiet, Loaded
  <2>3. Unloading(f, t)'
    BY <1>1, <2>1 DEF SlotInv, Unloading, Slot
  <2> QED BY <2>2, <2>3 DEF SlotInv
<1> QED BY <1>2, <1>3, <1>4, <1>5 DEF HandlersInv, BaseInv

-----------------------------------------------------------------------------
(* The theorems *)

LEMMA HandlersStart == ASSUME HandlersInit PROVE HandlersInv
<1>1. /\ openFiles \in SUBSET FileObject /\ known = {}
      /\ transport = [f \in FileObject |-> Unset] /\ wanted = transport
      /\ blocks = [b \in NodeBlock |-> Unset] /\ taken = {}
      /\ nodeOf = [f \in FileObject |-> NoBlock]
      /\ request = [f \in FileObject |-> NothingSent]
      /\ phase = "loaded" /\ toRestore = {} /\ excused = {} /\ crash = NoCrash
  BY DEF HandlersInit
<1>2. /\ Unset \in [EventType -> Handler \cup {NoHandler}]
      /\ \A t \in EventType : Unset[t] = NoHandler
  BY DEF Unset
<1>3. /\ NothingSent \in [type : EventType \cup {"none"}, to : Hook]
      /\ NothingSent.type = "none" /\ NothingSent.to = NoHandler
  BY DEF NothingSent, Hook
<1>4. HandlersRange
  BY <1>1, <1>2, <1>3 DEF HandlersRange, HandlersTypeOK, RequestType
<1>5. ClosedInv /\ TableInv /\ ToRestoreInv
  BY <1>1, <1>2 DEF ClosedInv, TableInv, ToRestoreInv
<1>6. NodesInv
  BY <1>1, <1>2, <1>3, HandlersAssumption DEF NodesInv, Uses
<1>7. CrashInv
  BY <1>1 DEF CrashInv, NoCrash
<1>8. ASSUME NEW f \in FileObject, NEW t \in EventType PROVE SlotInv(f, t)
  <2>1. /\ request[f].type # t /\ transport[f][t] = NoHandler /\ wanted[f][t] = NoHandler
        /\ nodeOf[f] = NoBlock /\ NoHandler \notin NodeBlock
    BY <1>1, <1>2, <1>3, HandlersAssumption
  <2> QED BY <1>1, <2>1 DEF SlotInv, InFlight, Quiet, Loaded, Unloading, Receiver
<1> QED BY <1>4, <1>5, <1>6, <1>7, <1>8 DEF HandlersInv, BaseInv

LEMMA HandlersStep == ASSUME HandlersInv, [HandlersNext]_handlerVars PROVE HandlersInv'
<1>1. CASE UNCHANGED handlerVars
  <2>1. UNCHANGED <<openFiles, known, transport, blocks, taken, nodeOf, request, phase, toRestore,
                    crash, wanted, excused>>
    BY <1>1 DEF handlerVars
  <2>2. HandlersRange' /\ ClosedInv'
    BY <2>1 DEF HandlersInv, BaseInv, HandlersRange, HandlersTypeOK, RequestType, ClosedInv
  <2>3. NodesInv' /\ TableInv' /\ ToRestoreInv'
    BY <2>1 DEF HandlersInv, BaseInv, NodesInv, Uses, TableInv, ToRestoreInv, Slot
  <2>4. CrashInv'
    BY <2>1, Zenon DEF HandlersInv, BaseInv, CrashInv
  <2>5. ASSUME NEW g \in FileObject, NEW u \in EventType PROVE SlotInv(g, u)'
    BY <2>1, EntryStays
  <2> QED BY <2>2, <2>3, <2>4, <2>5 DEF HandlersInv, BaseInv
<1>2. CASE UnloadDriver \/ EndUnload
  BY <1>2, UnloadKeeps, EndUnloadKeeps
<1>3. ASSUME NEW f \in FileObject, OpenFile(f) \/ CloseFile(f) \/ Deliver(f) PROVE HandlersInv'
  BY <1>3, OpenKeeps, CloseKeeps, DeliverKeeps
<1>4. ASSUME NEW f \in FileObject, NEW t \in EventType,
             \/ RemoveEvent(f, t) \/ SetDirectly(f, t, NoHandler) \/ Indicate(f, t)
             \/ NoMemoryToRestore(f, t) \/ Restore(f, t) \/ RestoreClosed(f, t)
      PROVE  HandlersInv'
  BY <1>4, RemoveKeeps, DirectKeeps, IndicateKeeps, NoMemoryKeeps, RestoreKeeps, ClosedKeeps
<1>5. ASSUME NEW f \in FileObject, NEW t \in EventType, NEW h \in Handler,
             SetEvent(f, t, h) \/ ListenOnUnknown(f, t, h) \/ SetDirectly(f, t, h)
      PROVE  HandlersInv'
  BY <1>5, SetEventKeeps, ListenKeeps, DirectKeeps
<1> QED BY <1>1, <1>2, <1>3, <1>4, <1>5, Zenon DEF HandlersNext

\* The requests of the clients, the slots of the nodes and what the unloading has
\* left to do agree, in every state.
THEOREM HandlersInvariance == HandlersSpec => []HandlersInv
<1>1. HandlersInit => HandlersInv
  BY HandlersStart
<1>2. HandlersInv /\ [HandlersNext]_handlerVars => HandlersInv'
  BY HandlersStep
<1> QED BY <1>1, <1>2, PTL DEF HandlersSpec

\* Type correctness of the files, the handlers and the nodes.
THEOREM HandlersTypeCorrect == HandlersSpec => []HandlersTypeOK
<1>1. HandlersInv => HandlersTypeOK
  BY DEF HandlersInv, BaseInv, HandlersRange
<1> QED BY <1>1, HandlersInvariance, PTL

\* EventsReachTheClient: while the driver is loaded an event goes to the handler the
\* client set last, and none of the driver's handlers finds its slot empty while no
\* request for its type is on its way, for every number of files, types and nodes.
THEOREM EventsReach == HandlersSpec => []EventsReachTheClient
<1>1. HandlersInv => EventsReachTheClient
  <2> SUFFICES ASSUME HandlersInv PROVE EventsReachTheClient
    OBVIOUS
  <2>1. ASSUME phase = "loaded", NEW f \in openFiles, NEW t \in EventType
        PROVE  request[f].type = t \/ Receiver(f, t) = wanted[f][t]
    <3>1. f \in FileObject
      BY DEF HandlersInv, BaseInv, HandlersRange, HandlersTypeOK
    <3> QED BY <2>1, <3>1 DEF HandlersInv, SlotInv, Quiet
  <2>2. CrashInv
    BY DEF HandlersInv, BaseInv
  <2> QED BY <2>1, <2>2, Zenon DEF EventsReachTheClient, CrashInv
<1> QED BY <1>1, HandlersInvariance, PTL

\* UnloadRestores: after DestroyEventHandlerManager the transport has the handlers the
\* clients set last, but for the slots that are known to be missed.
THEOREM UnloadRestoresHandlers == HandlersSpec => []UnloadRestores
<1>1. HandlersInv => UnloadRestores
  <2> SUFFICES ASSUME HandlersInv, phase = "unloaded", NEW f \in openFiles, NEW t \in EventType,
                      <<f, t>> \notin excused, request[f].type # t
               PROVE  transport[f][t] = wanted[f][t]
    BY DEF UnloadRestores
  <2>1. f \in FileObject
    BY DEF HandlersInv, BaseInv, HandlersRange, HandlersTypeOK
  <2>2. <<f, t>> \notin toRestore
    BY <2>1 DEF HandlersInv, BaseInv, ToRestoreInv
  <2> QED BY <2>1, <2>2 DEF HandlersInv, SlotInv, Unloading
<1> QED BY <1>1, HandlersInvariance, PTL
-----------------------------------------------------------------------------
(***************************************************************************)
(* The connections, for every number of files, connections and processes:  *)
(* the table and the pending completions refer to connections that were    *)
(* not freed.                                                              *)
(***************************************************************************)

Memory == [state : ConnectionState, process : Process]

ConnectionsInv == conns \in Seq(Memory)

\* A request that is pending has kept the connection of its file.
RequestsInv ==
  \A r \in irps :
    /\ r.file \in DOMAIN table /\ table[r.file] = r.conn
    /\ r.file \in Endpoint \cup UdpFile

TdiInv == TdiTypeOK /\ ConnectionsInv /\ ReferencesAreAlive /\ RequestsInv

-----------------------------------------------------------------------------
(* The memory of connections                                               *)

LEMMA MemoryGrows ==
  ASSUME ConnectionsInv, NEW p \in Process
  PROVE  /\ Append(conns, FreshConnection("CLOSED", p)) \in Seq(Memory)
         /\ Len(Append(conns, FreshConnection("CLOSED", p))) = NewConn
         /\ Len(conns) \in Nat /\ NewConn \in 1 .. NewConn /\ NewConn \notin 1 .. Len(conns)
<1>1. FreshConnection("CLOSED", p) \in Memory
  BY DEF FreshConnection, Memory, ConnectionState
<1>2. Len(conns) \in Nat
  BY DEF ConnectionsInv
<1> QED BY <1>1, <1>2 DEF ConnectionsInv, NewConn

LEMMA MemoryStays ==
  ASSUME NEW memory \in Seq(Memory), NEW c \in 1 .. Len(memory), NEW state \in ConnectionState,
         SetConnectionState(memory, c, state)
  PROVE  conns' \in Seq(Memory) /\ Len(conns') = Len(memory)
<1>1. memory[c] \in Memory
  OBVIOUS
<1>2. [memory[c] EXCEPT !.state = state] \in Memory
  BY <1>1 DEF Memory
<1>3. conns' = [memory EXCEPT ![c] = [memory[c] EXCEPT !.state = state]]
  BY DEF SetConnectionState
<1> QED BY <1>2, <1>3

LEMMA MemoryElements ==
  ASSUME NEW S, NEW q \in Seq(S)
  PROVE  \A i \in 1 .. Len(q) : q[i] \in S
OBVIOUS

LEMMA TypeOfMemory ==
  ASSUME ConnectionsInv'
  PROVE  \A c \in 1 .. Len(conns') :
           conns'[c] \in [state : ConnectionState, process : Process]
BY MemoryElements DEF ConnectionsInv, Memory

LEMMA StateAfter ==
  ASSUME NEW state \in ConnectionState, NEW requested \in BOOLEAN, NEW abort \in BOOLEAN
  PROVE  AfterDisconnect(state, requested, abort) \in ConnectionState
BY DEF AfterDisconnect, ConnectionState

-----------------------------------------------------------------------------
(* Two ways in which the references change                                 *)

\* A file gets the connection that was just allocated, or a state is set.
LEMMA NewReference ==
  ASSUME TdiInv, NEW f \in DOMAIN table, NEW n \in Nat, n = Len(conns) + 1,
         \A r \in irps : r.file # f,
         table' = [table EXCEPT ![f] = n], ConnectionsInv', Len(conns') = n,
         UNCHANGED <<opened, freed>>,
         irps' = irps \/ \E kind : Send(f, kind, n), f \in Endpoint \cup UdpFile \/ irps' = irps
  PROVE  TdiInv'
<1> USE DEF TdiInv
<1>1. Len(conns) \in Nat
  BY DEF ConnectionsInv
<1>2. /\ DOMAIN table' = DOMAIN table
      /\ \A g \in DOMAIN table : table'[g] = IF g = f THEN n ELSE table[g]
  OBVIOUS
<1>3. n \in 1 .. Len(conns') /\ n \notin 1 .. Len(conns) /\ n # NoConn
  BY <1>1, TdiAssumption
<1>4. 1 .. Len(conns) \subseteq 1 .. Len(conns')
  BY <1>1
<1>5. \A r \in irps' : r \in irps \/ (r.file = f /\ r.conn = n /\ f \in Endpoint \cup UdpFile)
  BY DEF Send
<1>6. \A r \in irps' : r.file \in opened' /\ r.conn \in 1 .. Len(conns')
  BY <1>3, <1>4, <1>5 DEF TdiTypeOK
<1>7. TdiTypeOK'
  <2>1. \A c \in 1 .. Len(conns') : conns'[c] \in [state : ConnectionState, process : Process]
    BY TypeOfMemory
  <2>2. \A g \in DOMAIN table' : table'[g] \in 1 .. Len(conns') \cup {NoConn}
    BY <1>2, <1>3, <1>4 DEF TdiTypeOK
  <2>3. /\ opened' \subseteq TdiFile /\ DOMAIN table' \subseteq opened'
        /\ freed' \subseteq 1 .. Len(conns')
    BY <1>2, <1>4 DEF TdiTypeOK
  <2> QED BY <1>6, <2>1, <2>2, <2>3 DEF TdiTypeOK
<1>8. ReferencesAreAlive'
  <2>1. \A g \in DOMAIN table' : table'[g] \notin freed'
    BY <1>2, <1>3 DEF ReferencesAreAlive, TdiTypeOK
  <2>2. \A r \in irps' : r.conn \notin freed'
    BY <1>3, <1>5 DEF ReferencesAreAlive, TdiTypeOK
  <2>3. \A g, h \in DOMAIN table' : table'[g] = table'[h] /\ table'[g] # NoConn => g = h
    BY <1>2, <1>3 DEF ReferencesAreAlive, TdiTypeOK
  <2> QED BY <2>1, <2>2, <2>3 DEF ReferencesAreAlive
<1>9. RequestsInv'
  BY <1>2, <1>5 DEF RequestsInv
<1> QED BY <1>7, <1>8, <1>9

\* References stay as they are, or a request of a file for its connection begins or ends.
LEMMA SameReferences ==
  ASSUME TdiInv, UNCHANGED <<opened, table, freed>>, ConnectionsInv',
         Len(conns') = Len(conns) \/ Len(conns') = Len(conns) + 1,
         \A r \in irps' : \/ r \in irps
                          \/ /\ r.file \in opened \cap Endpoint /\ r.conn = GetConnection(r.file)
                             /\ r.conn # NoConn
  PROVE  TdiInv'
<1> USE DEF TdiInv
<1>1. Len(conns) \in Nat /\ 1 .. Len(conns) \subseteq 1 .. Len(conns')
  BY DEF ConnectionsInv
<1>2. \A r \in irps' : \/ r \in irps
                       \/ /\ r.file \in opened \cap Endpoint /\ r.file \in DOMAIN table
                          /\ r.conn = table[r.file] /\ r.conn # NoConn
  BY DEF GetConnection
<1>3. TdiTypeOK'
  <2>1. \A c \in 1 .. Len(conns') : conns'[c] \in [state : ConnectionState, process : Process]
    BY TypeOfMemory
  <2>2. \A r \in irps' : r.file \in opened' /\ r.conn \in 1 .. Len(conns')
    BY <1>1, <1>2 DEF TdiTypeOK
  <2> QED BY <1>1, <2>1, <2>2 DEF TdiTypeOK
<1>4. ReferencesAreAlive'
  BY <1>2 DEF ReferencesAreAlive
<1>5. RequestsInv'
  BY <1>2 DEF RequestsInv
<1> QED BY <1>3, <1>4, <1>5

\* A file without requests gives its connection back.
LEMMA GivenBack ==
  ASSUME TdiInv, NEW f \in TdiFile, ~HasRequest(f), FreeConnection(GetConnection(f)),
         \A g \in DOMAIN table' :
           g \in DOMAIN table /\ table'[g] = IF g = f THEN NoConn ELSE table[g],
         DOMAIN table \ {f} \subseteq DOMAIN table',
         opened' = opened \/ (opened' = opened \ {f} /\ f \notin DOMAIN table'),
         UNCHANGED <<conns, irps>>
  PROVE  TdiInv'
<1> USE DEF TdiInv
<1>1. \A r \in irps : r.file # f
  BY DEF HasRequest
<1>2. /\ freed' \subseteq freed \cup {table[f]}
      /\ freed' = freed \/ (f \in DOMAIN table /\ table[f] # NoConn)
  BY DEF FreeConnection, GetConnection
<1>3. NoConn \notin 1 .. Len(conns)
  BY TdiAssumption DEF ConnectionsInv
<1>4. freed' \subseteq 1 .. Len(conns)
  BY <1>2 DEF TdiTypeOK
<1>5. TdiTypeOK'
  BY <1>1, <1>4 DEF TdiTypeOK
<1>6. RequestsInv'
  BY <1>1 DEF RequestsInv
<1>7. ReferencesAreAlive'
  <2>1. \A g \in DOMAIN table' : table'[g] \notin freed'
    BY <1>2, <1>3, <1>4 DEF ReferencesAreAlive
  <2>2. \A r \in irps : r.conn \notin freed'
    <3> SUFFICES ASSUME NEW r \in irps PROVE r.conn \notin freed'
      OBVIOUS
    <3>1. r.file \in DOMAIN table /\ table[r.file] = r.conn /\ r.file # f /\ r.conn # NoConn
      BY <1>1, <1>3 DEF RequestsInv, TdiTypeOK
    <3>2. r.conn \notin freed
      BY DEF ReferencesAreAlive
    <3> QED BY <1>2, <3>1, <3>2 DEF ReferencesAreAlive
  <2>3. \A g, h \in DOMAIN table' : table'[g] = table'[h] /\ table'[g] # NoConn => g = h
    BY DEF ReferencesAreAlive
  <2> QED BY <2>1, <2>2, <2>3 DEF ReferencesAreAlive
<1> QED BY <1>5, <1>6, <1>7 DEF ConnectionsInv

-----------------------------------------------------------------------------
(* The invariant                                                           *)

LEMMA TdiStart == TdiInit => TdiInv
BY DEF TdiInit, TdiInv, TdiTypeOK, ConnectionsInv, ReferencesAreAlive, RequestsInv

LEMMA TdiStep == TdiInv /\ [TdiNext]_tdiVars => TdiInv'
<1> SUFFICES ASSUME TdiInv, [TdiNext]_tdiVars PROVE TdiInv'
  OBVIOUS
<1> USE DEF TdiInv
<1>0. Len(conns) \in Nat /\ NoConn \notin 1 .. Len(conns)
  BY TdiAssumption DEF ConnectionsInv
<1>a. \A f \in TdiFile : GetConnection(f) # NoConn =>
        f \in DOMAIN table /\ table[f] = GetConnection(f) /\ GetConnection(f) \in 1 .. Len(conns)
  BY DEF GetConnection, TdiTypeOK
<1>1. ASSUME NEW f \in TdiFile, Create(f) PROVE TdiInv'
  <2>1. f \notin DOMAIN table
    BY <1>1 DEF Create, TdiTypeOK
  <2>2. /\ DOMAIN table' \subseteq DOMAIN table \cup {f} /\ DOMAIN table \subseteq DOMAIN table'
        /\ \A g \in DOMAIN table : table'[g] = table[g]
        /\ \A g \in DOMAIN table' : g \notin DOMAIN table => table'[g] = NoConn
    BY <1>1, <2>1 DEF Create, WithNode
  <2>3. TdiTypeOK'
    BY <1>1, <2>2 DEF Create, TdiTypeOK
  <2>4. NoConn \notin freed'
    BY <1>0, <1>1 DEF Create, TdiTypeOK
  <2>5. ReferencesAreAlive' /\ RequestsInv'
    BY <1>1, <2>2, <2>4 DEF Create, ReferencesAreAlive, RequestsInv
  <2> QED BY <1>1, <2>3, <2>5 DEF Create, ConnectionsInv
<1>2. ASSUME NEW f \in TdiFile, Close(f) PROVE TdiInv'
  BY <1>2, GivenBack DEF Close
<1>3. ASSUME NEW e \in Endpoint, NEW a \in Address, NEW p \in Process, Associate(e, a, p)
      PROVE  TdiInv'
  <2>1. ConnectionsInv' /\ Len(conns') = NewConn /\ NewConn = Len(conns) + 1 /\ NewConn \in Nat
    BY <1>0, <1>3, MemoryGrows DEF Associate, ConnectionsInv, NewConn
  <2>2. CASE table' = table
    BY <1>3, <2>1, <2>2, SameReferences DEF Associate
  <2>3. CASE e \in DOMAIN table /\ table' = [table EXCEPT ![e] = NewConn]
    <3>1. table[e] = NoConn
      BY <1>3, <2>3 DEF Associate, GetConnection
    <3>2. \A r \in irps : r.file # e
      BY <1>0, <3>1 DEF RequestsInv, TdiTypeOK
    <3> QED BY <1>3, <2>1, <2>3, <3>2, NewReference DEF Associate
  <2> QED BY <1>3, <2>2, <2>3 DEF Associate
<1>4. ASSUME NEW e \in Endpoint, Disassociate(e) PROVE TdiInv'
  <2>1. e \in TdiFile
    BY DEF TdiFile
  <2>2. /\ ~HasRequest(e) /\ FreeConnection(GetConnection(e))
        /\ table' = [table EXCEPT ![e] = NoConn] /\ UNCHANGED <<opened, conns, irps>>
    BY <1>4 DEF Disassociate
  <2>3. DOMAIN table' = DOMAIN table
        /\ \A g \in DOMAIN table : table'[g] = IF g = e THEN NoConn ELSE table[g]
    BY <2>2
  <2> QED BY <2>1, <2>2, <2>3, GivenBack
<1>5. ASSUME NEW e \in Endpoint, Connect(e) \/ Accept(e) PROVE TdiInv'
  <2> DEFINE c == GetConnection(e)
  <2>1. c \in 1 .. Len(conns) /\ c # NoConn /\ e \in opened
    BY <1>5, <1>a DEF Connect, Accept, TdiFile
  <2>2. \E state \in ConnectionState : SetConnectionState(conns, c, state)
    BY <1>5 DEF Connect, Accept, ConnectionState
  <2>3. ConnectionsInv' /\ Len(conns') = Len(conns)
    BY <2>1, <2>2, MemoryStays DEF ConnectionsInv
  <2>4. \A r \in irps' : r \in irps \/ (r.file = e /\ r.conn = c)
    BY <1>5 DEF Connect, Accept, Send
  <2>5. UNCHANGED <<opened, table, freed>>
    BY <1>5 DEF Connect, Accept
  <2> QED BY <2>1, <2>3, <2>4, <2>5, SameReferences
<1>6. ASSUME NEW u \in UdpFile, NEW p \in Process, ConnectUdp(u, p) PROVE TdiInv'
  <2>1. /\ SetConnectionState(Append(conns, FreshConnection("CLOSED", p)), NewConn, "UDP_CONNECT")
        /\ Send(u, "connect", NewConn) /\ table' = [table EXCEPT ![u] = NewConn]
        /\ u \in DOMAIN table /\ \A r \in irps : r.file # u
        /\ UNCHANGED <<opened, freed>>
    BY <1>6 DEF ConnectUdp, HasRequest
  <2>2. ConnectionsInv' /\ Len(conns') = NewConn
    BY <2>1, MemoryGrows, MemoryStays DEF ConnectionsInv, ConnectionState
  <2>3. NewConn \in Nat /\ NewConn = Len(conns) + 1
    BY <1>0 DEF NewConn
  <2> QED BY <2>1, <2>2, <2>3, NewReference
<1>7. ASSUME NEW u \in UdpFile, NEW p \in Process, SendDatagram(u, p) PROVE TdiInv'
  <2>1. u \in DOMAIN table /\ u \in TdiFile /\ UNCHANGED <<opened, freed, irps>>
    BY <1>7 DEF SendDatagram, TdiFile
  <2>2. CASE GetConnection(u) = NoConn
    <3>1. /\ SetConnectionState(Append(conns, FreshConnection("CLOSED", p)), NewConn,
                                "UDP_SEND_DATAGRAM")
          /\ table' = [table EXCEPT ![u] = NewConn]
      BY <1>7, <2>2 DEF SendDatagram
    <3>2. ConnectionsInv' /\ Len(conns') = NewConn
      BY <3>1, MemoryGrows, MemoryStays DEF ConnectionsInv, ConnectionState
    <3>3. NewConn \in Nat /\ NewConn = Len(conns) + 1
      BY <1>0 DEF NewConn
    <3>4. \A r \in irps : r.file # u
      BY <1>0, <2>1, <2>2 DEF RequestsInv, TdiTypeOK, GetConnection
    <3> QED BY <2>1, <3>1, <3>2, <3>3, <3>4, NewReference
  <2>3. CASE GetConnection(u) # NoConn
    <3>1. SetConnectionState(conns, GetConnection(u), "UDP_SEND_DATAGRAM") /\ table' = table
      BY <1>7, <2>3 DEF SendDatagram
    <3>2. ConnectionsInv' /\ Len(conns') = Len(conns)
      BY <1>a, <2>1, <2>3, <3>1, MemoryStays DEF ConnectionsInv, ConnectionState
    <3> QED BY <2>1, <3>1, <3>2, SameReferences
  <2> QED BY <2>2, <2>3
<1>8. ASSUME NEW a \in Address, Listen(a) PROVE TdiInv'
  <2>1. PICK p \in Process :
          SetConnectionState(Append(conns, FreshConnection("CLOSED", p)), NewConn, "LISTEN")
    BY <1>8 DEF Listen
  <2>2. /\ a \in DOMAIN table /\ table' = [table EXCEPT ![a] = NewConn]
        /\ UNCHANGED <<opened, freed, irps>>
    BY <1>8 DEF Listen
  <2>3. ConnectionsInv' /\ Len(conns') = NewConn
    BY <2>1, MemoryGrows, MemoryStays DEF ConnectionsInv, ConnectionState
  <2>4. NewConn \in Nat /\ NewConn = Len(conns) + 1
    BY <1>0 DEF NewConn
  <2>5. \A r \in irps : r.file # a
    BY TdiAssumption DEF RequestsInv
  <2> QED BY <2>2, <2>3, <2>4, <2>5, NewReference
<1>9. ASSUME NEW r \in irps, NEW success \in BOOLEAN, CompleteRequest(r, success) PROVE TdiInv'
  <2>1. r.conn \in 1 .. Len(conns)
    BY DEF TdiTypeOK
  <2>2. conns' = conns \/ \E state \in ConnectionState : SetConnectionState(conns, r.conn, state)
    BY <1>9 DEF CompleteRequest, ConnectionState
  <2>3. ConnectionsInv' /\ Len(conns') = Len(conns)
    BY <2>1, <2>2, MemoryStays DEF ConnectionsInv
  <2> QED BY <1>9, <2>3, SameReferences DEF CompleteRequest
<1>10. ASSUME NEW f \in TdiFile, NEW requested \in BOOLEAN, NEW abort \in BOOLEAN,
              Disconnect(f, requested, abort)
       PROVE  TdiInv'
  <2> DEFINE c == GetConnection(f)
  <2>1. c \in 1 .. Len(conns)
    BY <1>10, <1>a DEF Disconnect
  <2>2. conns[c].state \in ConnectionState
    BY <2>1 DEF TdiTypeOK
  <2>3. AfterDisconnect(conns[c].state, requested, abort) \in ConnectionState
    BY <2>2, StateAfter
  <2>4. conns' = conns
        \/ SetConnectionState(conns, c, AfterDisconnect(conns[c].state, requested, abort))
    BY <1>10 DEF Disconnect
  <2>5. ConnectionsInv' /\ Len(conns') = Len(conns)
    BY <2>1, <2>3, <2>4, MemoryStays DEF ConnectionsInv
  <2> QED BY <1>10, <2>5, SameReferences DEF Disconnect
<1>11. CASE UNCHANGED tdiVars
  BY <1>11 DEF tdiVars, TdiTypeOK, ConnectionsInv, ReferencesAreAlive, RequestsInv
<1> QED
  BY <1>1, <1>2, <1>3, <1>4, <1>5, <1>6, <1>7, <1>8, <1>9, <1>10, <1>11 DEF TdiNext

LEMMA TdiInvariant == TdiSpec => []TdiInv
BY TdiStart, TdiStep, PTL DEF TdiSpec

(* The table of files and the completions that are awaited refer to        *)
(* connections that were not freed, and to different ones.                 *)
THEOREM ReferencesStayAlive == TdiSpec => []ReferencesAreAlive
<1>1. TdiInv => ReferencesAreAlive
  BY DEF TdiInv
<1> QED BY <1>1, TdiInvariant, PTL

(* Type correctness of the table, the connections and the requests.        *)
THEOREM TdiTypeCorrect == TdiSpec => []TdiTypeOK
<1>1. TdiInv => TdiTypeOK
  BY DEF TdiInv
<1> QED BY <1>1, TdiInvariant, PTL

-----------------------------------------------------------------------------
(***************************************************************************)
(* The file monitor, for every number of threads, files and operations:    *)
(* every event has one owner, an unloaded driver has freed everything, a   *)
(* deleted file was copied, and the driver implements the abstract channel *)
(* of events.                                                              *)
(***************************************************************************)

Busy(t) == op[t] # NoFileOp

Contexts == {EventOf(t) : t \in {u \in Worker : Busy(u) /\ op[u].event}}

OneToOne(q) == \A i, j \in 1..Len(q) : q[i] = q[j] => i = j

\* An operation has an event from Allocate to its post-operation callback, and
\* none that it could allocate exists before.
StageInv(t) ==
  Busy(t) =>
    /\ count[t] > 0
    /\ op[t].pc \in {"pre", "copy", "allocate"} => ~op[t].event /\ EventOf(t) \notin pool
    /\ op[t].pc = "post" => op[t].event

\* A file that is about to be deleted was copied before its event is allocated.
CopyInv(t) ==
  Busy(t) =>
    /\ op[t].covered => collecting
    /\ /\ op[t].what.kind = "delete" /\ op[t].covered /\ ~op[t].spoilt
       /\ op[t].pc \in {"allocate", "below", "post"}
       => Target(op[t].what.file) \in DOMAIN copies

\* The identity of an event is of an operation that was begun.
NumberInv == \A e \in pool : e.n <= count[e.by]

OwnerInv ==
  /\ pool = Contexts \cup Queued(fileQueue)
  /\ Contexts \cap Queued(fileQueue) = {}
  /\ OneToOne(fileQueue)

UnloadInv ==
  ~filtering =>
    /\ ~client /\ ~collecting /\ directory = 0 /\ fileQueue = <<>>
    /\ \A t \in Worker : Busy(t) => op[t].pc = "below" /\ ~op[t].event

IInv ==
  /\ FileTypeOK /\ NumberInv /\ OwnerInv /\ UnloadInv
  /\ \A t \in Worker : StageInv(t) /\ CopyInv(t)

-----------------------------------------------------------------------------
(* The list                                                                *)

LEMMA QueuedAppend ==
  ASSUME NEW S, NEW q \in Seq(S), NEW e \in S
  PROVE  /\ Append(q, e) \in Seq(S)
         /\ Queued(Append(q, e)) = Queued(q) \cup {e}
         /\ OneToOne(q) /\ e \notin Queued(q) => OneToOne(Append(q, e))
<1> DEFINE p == Append(q, e)
<1>1. /\ p \in Seq(S) /\ Len(q) \in Nat /\ Len(p) = Len(q) + 1 /\ p[Len(q) + 1] = e
      /\ \A i \in 1..Len(q) : p[i] = q[i]
  OBVIOUS
<1> HIDE DEF p
<1>2. \A i \in 1..Len(p) : i = Len(q) + 1 \/ i \in 1..Len(q)
  BY <1>1
<1>3. Queued(p) = Queued(q) \cup {e}
  <2>1. \A x \in Queued(p) : x \in Queued(q) \cup {e}
    BY <1>1, <1>2 DEF Queued
  <2>2. e \in Queued(p)
    BY <1>1 DEF Queued
  <2>3. \A x \in Queued(q) : x \in Queued(p)
    BY <1>1 DEF Queued
  <2> QED BY <2>1, <2>2, <2>3
<1>4. ASSUME OneToOne(q), e \notin Queued(q), NEW i \in 1..Len(p), NEW j \in 1..Len(p), p[i] = p[j]
      PROVE  i = j
  <2>1. \A k \in 1..Len(q) : q[k] # e
    BY <1>4 DEF Queued
  <2>2. CASE i \in 1..Len(q) /\ j \in 1..Len(q)
    BY <1>1, <1>4, <2>2 DEF OneToOne
  <2>3. CASE ~(i \in 1..Len(q) /\ j \in 1..Len(q))
    BY <1>1, <1>2, <1>4, <2>1, <2>3
  <2> QED BY <2>2, <2>3
<1> QED BY <1>1, <1>3, <1>4 DEF p, OneToOne

LEMMA QueuedSplit ==
  ASSUME NEW S, NEW q \in Seq(S), NEW k \in 0..Len(q), OneToOne(q)
  PROVE  /\ SubSeq(q, 1, k) \in Seq(S) /\ SubSeq(q, k + 1, Len(q)) \in Seq(S)
         /\ Queued(SubSeq(q, k + 1, Len(q))) = Queued(q) \ Queued(SubSeq(q, 1, k))
         /\ OneToOne(SubSeq(q, k + 1, Len(q)))
<1> DEFINE a == SubSeq(q, 1, k)
           b == SubSeq(q, k + 1, Len(q))
<1>1. /\ Len(q) \in Nat /\ k \in Nat /\ k <= Len(q)
      /\ a \in Seq(S) /\ Len(a) = k /\ \A i \in 1..k : a[i] = q[i]
      /\ b \in Seq(S) /\ Len(b) = Len(q) - k /\ \A i \in 1..(Len(q) - k) : b[i] = q[i + k]
  OBVIOUS
<1> HIDE DEF a, b
<1>2. \A i \in 1..Len(b) : i + k \in 1..Len(q) /\ i + k > k /\ b[i] = q[i + k]
  BY <1>1
<1>3. \A i \in 1..Len(a) : i \in 1..Len(q) /\ i <= k /\ a[i] = q[i]
  BY <1>1
<1>4. \A x \in Queued(b) : x \in Queued(q) /\ x \notin Queued(a)
  <2> SUFFICES ASSUME NEW i \in 1..Len(b) PROVE b[i] \in Queued(q) /\ b[i] \notin Queued(a)
    BY DEF Queued
  <2>1. b[i] = q[i + k] /\ i + k \in 1..Len(q) /\ i + k > k
    BY <1>2
  <2>2. \A j \in 1..Len(a) : a[j] # b[i]
    <3> SUFFICES ASSUME NEW j \in 1..Len(a), a[j] = b[i] PROVE FALSE
      OBVIOUS
    <3>1. j \in 1..Len(q) /\ j <= k /\ q[j] = q[i + k]
      BY <1>3, <2>1
    <3>2. j = i + k
      BY <2>1, <3>1 DEF OneToOne
    <3> QED BY <1>1, <2>1, <3>1, <3>2
  <2> QED BY <2>1, <2>2 DEF Queued
<1>5. \A x \in Queued(q) : x \notin Queued(a) => x \in Queued(b)
  <2> SUFFICES ASSUME NEW i \in 1..Len(q), q[i] \notin Queued(a) PROVE q[i] \in Queued(b)
    BY DEF Queued
  <2>1. CASE i <= k
    BY <1>1, <2>1 DEF Queued
  <2>2. CASE i > k
    <3>1. i - k \in 1..Len(b) /\ b[i - k] = q[i]
      BY <1>1, <2>2
    <3> QED BY <3>1 DEF Queued
  <2> QED BY <1>1, <2>1, <2>2
<1>6. OneToOne(b)
  <2> SUFFICES ASSUME NEW i \in 1..Len(b), NEW j \in 1..Len(b), b[i] = b[j] PROVE i = j
    BY DEF OneToOne
  <2>1. i + k = j + k
    BY <1>2 DEF OneToOne
  <2> QED BY <1>1, <2>1
<1> QED BY <1>1, <1>4, <1>5, <1>6 DEF a, b

\* A list without duplicates has as many events as places.
LEMMA CountOfQueued ==
  ASSUME NEW S, NEW q \in Seq(S), OneToOne(q)
  PROVE  Cardinality(Queued(q)) = Len(q)
<1>1. Len(q) \in Nat /\ IsFiniteSet(1..Len(q)) /\ Cardinality(1..Len(q)) = Len(q)
  <2> DEFINE n == Len(q)
  <2>1. n \in Nat
    OBVIOUS
  <2> HIDE DEF n
  <2>2. IsFiniteSet(1..n) /\ Cardinality(1..n) = IF 1 > n THEN 0 ELSE n - 1 + 1
    BY <2>1, FS_Interval
  <2> QED BY <2>1, <2>2 DEF n
<1>2. q \in [1..Len(q) -> Queued(q)]
  BY DEF Queued
<1>3. q \in Injection(1..Len(q), Queued(q))
  BY <1>2 DEF OneToOne, Injection, IsInjective
<1>4. q \in Surjection(1..Len(q), Queued(q))
  BY <1>2 DEF Queued, Surjection
<1> QED BY <1>1, <1>3, <1>4, FS_Surjection

-----------------------------------------------------------------------------
(* What steps do to the owners                                             *)

\* Contexts are as before when the same operations have events.
LEMMA SameContexts ==
  ASSUME \A t \in Worker : (Busy(t) /\ op[t].event)' <=> Busy(t) /\ op[t].event,
         \A t \in Worker : Busy(t) /\ op[t].event => count'[t] = count[t]
  PROVE  Contexts' = Contexts
BY DEF Contexts, EventOf

LEMMA InitInv == ASSUME FileInit PROVE IInv
<1> USE DEF FileInit
<1>1. \A t \in Worker : ~Busy(t)
  BY DEF Busy
<1>2. FileTypeOK
  <2>1. 1 \in 0..MaxVersion /\ 0 \in 0..MaxOperations
    BY FileDriverAssumption
  <2>2. version \in [File -> 0..MaxVersion] /\ count \in [Worker -> 0..MaxOperations]
    BY <2>1
  <2>3. fileQueue \in Seq(FileEvent) /\ reported \in Seq(FileEvent)
    OBVIOUS
  <2>4. op \in [Worker -> RunningOperation \cup {NoFileOp}]
    OBVIOUS
  <2>5. filtering \in BOOLEAN /\ client \in BOOLEAN /\ heard \in BOOLEAN /\ collecting \in BOOLEAN
    OBVIOUS
  <2>6. directory \in 0..2
    OBVIOUS
  <2>7. pool \subseteq FileEvent
    OBVIOUS
  <2> HIDE DEF FileInit
  <2> QED BY <2>2, <2>3, <2>4, <2>5, <2>6, <2>7 DEF FileTypeOK
<1>3. Contexts = {} /\ Queued(fileQueue) = {}
  BY <1>1 DEF Contexts, Queued
<1>4. OwnerInv /\ NumberInv
  BY <1>3 DEF OwnerInv, NumberInv, OneToOne
<1>5. UnloadInv
  BY DEF UnloadInv
<1> QED BY <1>1, <1>2, <1>4, <1>5 DEF IInv, StageInv, CopyInv

\* The callbacks of a thread leave the other threads alone.
LEMMA OthersKeep ==
  ASSUME IInv, NEW t \in Worker, NEW o, op' = [op EXCEPT ![t] = o],
         \A u \in Worker : u # t => count'[u] = count[u],
         pool' \subseteq pool \cup {EventOf(t)},
         collecting' = collecting, DOMAIN copies \subseteq DOMAIN copies'
  PROVE  \A u \in Worker : u # t => StageInv(u)' /\ CopyInv(u)'
<1> SUFFICES ASSUME NEW u \in Worker, u # t PROVE StageInv(u)' /\ CopyInv(u)'
  OBVIOUS
<1>1. op'[u] = op[u] /\ count'[u] = count[u] /\ EventOf(u)' = EventOf(u) /\ EventOf(u) # EventOf(t)
  BY DEF IInv, FileTypeOK, EventOf
<1>2. StageInv(u) /\ CopyInv(u)
  BY DEF IInv
<1>3. StageInv(u)'
  BY <1>1, <1>2 DEF StageInv, Busy
<1>4. CopyInv(u)'
  BY <1>1, <1>2 DEF CopyInv, Busy
<1> QED BY <1>3, <1>4

\* A callback that leaves the events where they are.
LEMMA Moves ==
  ASSUME IInv, NEW t \in Worker, Busy(t), NEW o \in RunningOperation \cup {NoFileOp},
         op' = [op EXCEPT ![t] = o],
         UNCHANGED <<filtering, client, heard, collecting, directory, count, fileQueue,
                     reported, pool>>,
         version' \in [File -> 0..MaxVersion], DOMAIN copies \subseteq DOMAIN copies',
         o = NoFileOp => ~op[t].event,
         o # NoFileOp => /\ o.event = op[t].event
                         /\ o.pc \in {"pre", "copy", "allocate"}
                              => op[t].pc \in {"pre", "copy", "allocate"}
                         /\ o.pc = "post" => o.event
                         /\ o.covered => collecting
                         /\ /\ o.what.kind = "delete" /\ o.covered /\ ~o.spoilt
                            /\ o.pc \in {"allocate", "below", "post"}
                            => Target(o.what.file) \in DOMAIN copies',
         filtering \/ op[t].pc # "below" \/ o = NoFileOp
  PROVE  IInv'
<1>1. /\ FileTypeOK /\ StageInv(t) /\ NumberInv /\ OwnerInv /\ UnloadInv
      /\ op'[t] = o /\ \A u \in Worker : u # t => op'[u] = op[u]
  BY DEF IInv, FileTypeOK
<1>2. FileTypeOK'
  BY <1>1 DEF FileTypeOK
<1>3. \A u \in Worker : u # t => StageInv(u)' /\ CopyInv(u)'
  BY OthersKeep
<1>4. EventOf(t)' = EventOf(t)
  BY DEF EventOf
<1>5. StageInv(t)'
  BY <1>1, <1>4 DEF StageInv, Busy
<1>6. CopyInv(t)'
  BY <1>1 DEF CopyInv, Busy
<1>7. Contexts' = Contexts
  <2>1. \A u \in Worker : (Busy(u) /\ op[u].event)' <=> Busy(u) /\ op[u].event
    BY <1>1 DEF Busy
  <2> QED BY <2>1, SameContexts
<1>8. OwnerInv' /\ NumberInv'
  BY <1>1, <1>7 DEF OwnerInv, NumberInv, OneToOne, Queued
<1>9. UnloadInv'
  BY <1>1 DEF UnloadInv, Busy
<1> QED BY <1>2, <1>3, <1>5, <1>6, <1>8, <1>9 DEF IInv

LEMMA OpRange ==
  ASSUME IInv, NEW t \in Worker, Busy(t)
  PROVE  op[t] \in RunningOperation /\ op[t] # NoFileOp /\ StageInv(t) /\ CopyInv(t)
BY DEF IInv, FileTypeOK, Busy

LEMMA VersionType ==
  ASSUME IInv
  PROVE  version \in [File -> 0..MaxVersion] /\ directory \in 0..2
BY DEF IInv, FileTypeOK

LEMMA NameKeeps == ASSUME IInv, NEW t \in Worker, Name(t) PROVE IInv'
<1>1. Busy(t) /\ op[t].pc = "pre"
  BY DEF Name, Busy
<1>2. op[t] \in RunningOperation /\ StageInv(t) /\ CopyInv(t) /\ FileTypeOK
  BY <1>1, OpRange DEF IInv
<1>3. filtering
  BY <1>1 DEF IInv, UnloadInv
<1>4. version \in [File -> 0..MaxVersion] /\ directory \in 0..2
  BY VersionType
<1>5. PICK p \in {"copy", "allocate", "below"}, b \in BOOLEAN, d \in 0..2 :
        /\ op' = [op EXCEPT ![t] = [op[t] EXCEPT !.pc = p, !.spoilt = b, !.dir = d]]
        /\ p = "below" => b
        /\ p = "allocate" => op[t].what.kind # "delete" \/ b \/ ~collecting
  <2>1. CASE op' = [op EXCEPT ![t].pc = "below", ![t].spoilt = TRUE]
    <3>1. op[t] = [op[t] EXCEPT !.dir = op[t].dir] /\ op[t].dir \in 0..2
      BY <1>2 DEF RunningOperation
    <3>2. op' = [op EXCEPT ![t] = [op[t] EXCEPT !.pc = "below", !.spoilt = TRUE, !.dir = op[t].dir]]
      BY <1>2, <2>1 DEF RunningOperation, FileTypeOK
    <3> QED BY <3>1, <3>2
  <2>2. CASE op' = [op EXCEPT ![t].pc = IF /\ op[t].what.kind = "delete"
                                      /\ op[t].what.named = "normalized"
                                      /\ collecting
                                   THEN "copy" ELSE "allocate",
                         ![t].spoilt = op[t].what.named = "no",
                         ![t].dir = directory]
    <3> DEFINE p == IF op[t].what.kind = "delete" /\ op[t].what.named = "normalized" /\ collecting
                    THEN "copy" ELSE "allocate"
               b == op[t].what.named = "no"
    <3>1. op' = [op EXCEPT ![t] = [op[t] EXCEPT !.pc = p, !.spoilt = b, !.dir = directory]]
      BY <1>2, <2>2 DEF FileTypeOK
    <3>2. op[t].what.named \in {"normalized", "no"}
      BY <1>2 DEF RunningOperation, FileOperation
    <3>3. /\ p \in {"copy", "allocate", "below"} /\ b \in BOOLEAN /\ p # "below"
          /\ p = "allocate" => op[t].what.kind # "delete" \/ b \/ ~collecting
      BY <3>2
    <3> HIDE DEF p, b
    <3> QED BY <1>4, <3>1, <3>3, Zenon
  <2> QED BY Zenon, <2>1, <2>2 DEF Name
<1> DEFINE o == [op[t] EXCEPT !.pc = p, !.spoilt = b, !.dir = d]
<1>6. /\ o \in RunningOperation /\ o.event = op[t].event /\ o.pc = p /\ o.spoilt = b
      /\ o.covered = op[t].covered /\ o.what = op[t].what
  BY <1>2, <1>5 DEF RunningOperation
<1>7. o # NoFileOp
  BY <1>6, NoFileOpAssumption
<1>8. op' = [op EXCEPT ![t] = o]
  BY <1>5
<1>9. UNCHANGED <<filtering, client, heard, collecting, directory, count, fileQueue,
                  reported, pool, version, copies>>
  BY DEF Name
<1>10. /\ o.covered => collecting
       /\ /\ o.what.kind = "delete" /\ o.covered /\ ~o.spoilt
          /\ o.pc \in {"allocate", "below", "post"}
          => Target(o.what.file) \in DOMAIN copies'
  BY <1>1, <1>2, <1>5, <1>6 DEF CopyInv
<1> HIDE DEF o
<1> QED BY <1>1, <1>3, <1>4, <1>5, <1>6, <1>7, <1>8, <1>9, <1>10, Moves, Zenon

LEMMA CopyKeeps == ASSUME IInv, NEW t \in Worker, CopyFileIfBeingDeleted(t) PROVE IInv'
<1> DEFINE f == op[t].what.file
<1>1. Busy(t) /\ op[t].pc = "copy"
  BY DEF CopyFileIfBeingDeleted, Busy
<1>2. op[t] \in RunningOperation /\ StageInv(t) /\ CopyInv(t) /\ FileTypeOK
  BY <1>1, OpRange DEF IInv
<1>3. filtering
  BY <1>1 DEF IInv, UnloadInv
<1>4. version \in [File -> 0..MaxVersion]
  BY VersionType
<1>5. PICK b \in BOOLEAN :
        /\ op' = [op EXCEPT ![t] = [op[t] EXCEPT !.pc = "allocate", !.spoilt = b]]
        /\ (b /\ copies' = copies) \/ copies' = WithCopy(f)
  <2>1. CASE op' = [op EXCEPT ![t].pc = "allocate"] /\ copies' = WithCopy(f)
    <3>1. op' = [op EXCEPT ![t] = [op[t] EXCEPT !.pc = "allocate", !.spoilt = op[t].spoilt]]
      BY <1>2, <2>1 DEF RunningOperation, FileTypeOK
    <3>2. op[t].spoilt \in BOOLEAN
      BY <1>2 DEF RunningOperation
    <3> QED BY <2>1, <3>1, <3>2
  <2>2. CASE op' = [op EXCEPT ![t].pc = "allocate", ![t].spoilt = TRUE] /\ copies' = copies
    BY <1>2, <2>2 DEF FileTypeOK
  <2> QED BY <2>1, <2>2 DEF CopyFileIfBeingDeleted
<1> DEFINE o == [op[t] EXCEPT !.pc = "allocate", !.spoilt = b]
<1>6. /\ o \in RunningOperation /\ o.event = op[t].event /\ o.pc = "allocate" /\ o.spoilt = b
      /\ o.covered = op[t].covered /\ o.what = op[t].what
  BY <1>2, <1>5 DEF RunningOperation
<1>7. o # NoFileOp
  BY <1>6, NoFileOpAssumption
<1>8. op' = [op EXCEPT ![t] = o]
  BY <1>5
<1>9. UNCHANGED <<filtering, client, heard, collecting, directory, count, fileQueue,
                  reported, pool, version>>
  BY DEF CopyFileIfBeingDeleted
<1>10. DOMAIN copies \subseteq DOMAIN copies' /\ (b \/ Target(f) \in DOMAIN copies')
  BY <1>5 DEF WithCopy
<1>11. o.covered => collecting
  BY <1>1, <1>2, <1>6 DEF CopyInv
<1> HIDE DEF o
<1> QED BY <1>1, <1>3, <1>4, <1>6, <1>7, <1>8, <1>9, <1>10, <1>11, Moves

LEMMA BelowKeeps == ASSUME IInv, NEW t \in Worker, Below(t) PROVE IInv'
<1> DEFINE w == op[t].what
<1>1. Busy(t) /\ op[t].pc = "below"
  BY DEF Below, Busy
<1>2. op[t] \in RunningOperation /\ StageInv(t) /\ CopyInv(t) /\ FileTypeOK
  BY <1>1, OpRange DEF IInv
<1>3. version' \in [File -> 0..MaxVersion]
  <2>1. version \in [File -> 0..MaxVersion] /\ MaxVersion \in Nat
    BY <1>2, FileDriverAssumption DEF FileTypeOK
  <2>2. PICK v : v \in 0..MaxVersion /\ version' \in {version, [version EXCEPT ![w.file] = v]}
    <3>1. w.file \in File
      BY <1>2 DEF RunningOperation, FileOperation
    <3>2. 0 \in 0..MaxVersion /\ MaxVersion \in 0..MaxVersion /\ version[w.file] \in 0..MaxVersion
      BY <2>1, <3>1
    <3> QED BY <3>2 DEF Below
  <2> QED BY <2>1, <2>2
<1>4. UNCHANGED <<filtering, client, heard, collecting, directory, count, fileQueue,
                  reported, pool, copies>>
  BY DEF Below
<1>5. CASE op[t].event
  <2> DEFINE o == [op[t] EXCEPT !.pc = "post"]
  <2>1. /\ o \in RunningOperation /\ o.event = op[t].event /\ o.pc = "post"
        /\ o.spoilt = op[t].spoilt /\ o.covered = op[t].covered /\ o.what = op[t].what
    BY <1>2 DEF RunningOperation
  <2>2. o # NoFileOp
    BY <2>1, NoFileOpAssumption
  <2>3. op' = [op EXCEPT ![t] = o]
    BY <1>5 DEF Below
  <2>4. filtering
    BY <1>1, <1>5 DEF IInv, UnloadInv
  <2>5. /\ o.covered => collecting
        /\ o.what.kind = "delete" /\ o.covered /\ ~o.spoilt
           => Target(o.what.file) \in DOMAIN copies'
    BY <1>1, <1>2, <1>4, <2>1 DEF CopyInv
  <2> HIDE DEF o
  <2> QED BY <1>1, <1>3, <1>4, <1>5, <2>1, <2>2, <2>3, <2>4, <2>5, Moves
<1>6. CASE ~op[t].event
  <2>1. op' = [op EXCEPT ![t] = NoFileOp]
    BY <1>6 DEF Below
  <2> QED BY <1>1, <1>3, <1>4, <1>6, <2>1, Moves
<1> QED BY <1>5, <1>6

LEMMA StartKeeps == ASSUME IInv, NEW t \in Worker, StartOperation(t) PROVE IInv'
<1>1. PICK w \in FileOperation :
        op' = [op EXCEPT ![t] = [pc |-> IF filtering THEN "pre" ELSE "below", what |-> w,
                                 event |-> FALSE, dir |-> 0, covered |-> collecting,
                                 spoilt |-> FALSE]]
  BY DEF StartOperation
<1> DEFINE o == [pc |-> IF filtering THEN "pre" ELSE "below", what |-> w,
                 event |-> FALSE, dir |-> 0, covered |-> collecting, spoilt |-> FALSE]
<1>2. FileTypeOK /\ OwnerInv /\ NumberInv /\ UnloadInv /\ ~Busy(t)
  BY DEF IInv, StartOperation, Busy
<1>3. /\ collecting \in BOOLEAN /\ t \in DOMAIN op /\ count[t] \in 0..MaxOperations
      /\ count[t] < MaxOperations /\ count' = [count EXCEPT ![t] = count[t] + 1]
      /\ count \in [Worker -> 0..MaxOperations] /\ pool \subseteq FileEvent
      /\ MaxOperations \in Nat
  BY <1>2, FileDriverAssumption DEF FileTypeOK, StartOperation
<1>4. /\ o \in RunningOperation /\ ~o.event /\ o.pc = (IF filtering THEN "pre" ELSE "below")
      /\ o.covered = collecting /\ o.what = w
  BY <1>3 DEF RunningOperation
<1>5. o # NoFileOp
  BY <1>4, NoFileOpAssumption
<1>6. op' = [op EXCEPT ![t] = o]
  BY <1>1
<1>7. UNCHANGED <<filtering, client, heard, collecting, directory, fileQueue, reported,
                  pool, version, copies>>
  BY DEF StartOperation
<1>8. op'[t] = o /\ \A u \in Worker : u # t => op'[u] = op[u] /\ count'[u] = count[u]
  BY <1>3, <1>6
<1>9. \A e \in pool :
        /\ count'[e.by] >= count[e.by] /\ e.by \in Worker /\ e.n \in Nat
        /\ count'[e.by] \in Nat /\ count[e.by] \in Nat
  BY <1>3 DEF FileEvent
<1>10. NumberInv'
  BY <1>2, <1>7, <1>9 DEF NumberInv
<1> HIDE DEF o
<1>11. FileTypeOK'
  <2>1. op' \in [Worker -> RunningOperation \cup {NoFileOp}]
    BY <1>2, <1>4, <1>6 DEF FileTypeOK
  <2>2. count' \in [Worker -> 0..MaxOperations]
    BY <1>3
  <2> QED BY <1>2, <1>7, <2>1, <2>2 DEF FileTypeOK
<1>12. \A u \in Worker : u # t => StageInv(u)' /\ CopyInv(u)'
  BY <1>6, <1>7, <1>8, OthersKeep
<1>13. EventOf(t)' \notin pool'
  <2>1. EventOf(t)'.by = t /\ EventOf(t)'.n = count[t] + 1
    BY <1>3 DEF EventOf
  <2> QED BY <1>2, <1>3, <1>7, <2>1 DEF NumberInv
<1>14. StageInv(t)'
  BY <1>3, <1>4, <1>8, <1>13 DEF StageInv, Busy
<1>15. CopyInv(t)'
  BY <1>4, <1>7, <1>8, <1>2 DEF CopyInv, Busy, UnloadInv
<1>16. OwnerInv'
  <2>1. \A u \in Worker : (Busy(u) /\ op[u].event)' <=> Busy(u) /\ op[u].event
    BY <1>2, <1>4, <1>8 DEF Busy
  <2>2. Contexts' = Contexts
    BY <1>2, <1>8, <2>1, SameContexts
  <2> QED BY <1>2, <1>7, <2>2 DEF OwnerInv, OneToOne, Queued
<1>17. UnloadInv'
  BY <1>2, <1>4, <1>7, <1>8 DEF UnloadInv, Busy
<1> QED BY <1>10, <1>11, <1>12, <1>14, <1>15, <1>16, <1>17 DEF IInv

\* A thread that has an event now and had none, or the other way round.
LEMMA OneMoreContext ==
  ASSUME NEW t \in Worker, count' = count, \A u \in Worker : u # t => op'[u] = op[u],
         (Busy(t) /\ op[t].event)'
  PROVE  Contexts' = Contexts \cup {EventOf(t)}
BY DEF Contexts, EventOf, Busy

LEMMA OneContextLess ==
  ASSUME NEW t \in Worker, count' = count, \A u \in Worker : u # t => op'[u] = op[u],
         ~(Busy(t) /\ op[t].event)'
  PROVE  Contexts' = Contexts \ {EventOf(t)}
<1>1. \A u \in Worker : EventOf(u)' = EventOf(u) /\ (u # t => EventOf(u) # EventOf(t))
  BY DEF EventOf
<1> QED BY <1>1 DEF Contexts, Busy

LEMMA EventRange ==
  ASSUME IInv, NEW t \in Worker, Busy(t)
  PROVE  EventOf(t) \in FileEvent /\ EventOf(t).by = t /\ EventOf(t).n = count[t]
<1>1. count[t] \in 1..MaxOperations
  BY FileDriverAssumption, OpRange DEF IInv, FileTypeOK, StageInv
<1> QED BY <1>1 DEF EventOf, FileEvent

LEMMA AllocateKeeps == ASSUME IInv, NEW t \in Worker, Allocate(t) PROVE IInv'
<1>1. Busy(t) /\ op[t].pc = "allocate"
  BY DEF Allocate, Busy
<1>2. op[t] \in RunningOperation /\ StageInv(t) /\ CopyInv(t) /\ FileTypeOK
  BY <1>1, OpRange DEF IInv
<1>3. filtering /\ OwnerInv /\ NumberInv
  BY <1>1 DEF IInv, UnloadInv
<1>4. UNCHANGED <<filtering, client, heard, collecting, directory, count, fileQueue,
                  reported, version, copies>>
  BY DEF Allocate
<1>5. ~op[t].event /\ EventOf(t) \notin pool
  BY <1>1, <1>2 DEF StageInv
<1>6. CASE pool' = pool /\ op' = [op EXCEPT ![t].pc = "below"]
  <2> DEFINE o == [op[t] EXCEPT !.pc = "below"]
  <2>1. /\ o \in RunningOperation /\ o.event = op[t].event /\ o.pc = "below"
        /\ o.spoilt = op[t].spoilt /\ o.covered = op[t].covered /\ o.what = op[t].what
    BY <1>2 DEF RunningOperation
  <2>2. o # NoFileOp
    BY <2>1, NoFileOpAssumption
  <2>3. op' = [op EXCEPT ![t] = o]
    BY <1>2, <1>6 DEF FileTypeOK
  <2>4. /\ o.covered => collecting
        /\ o.what.kind = "delete" /\ o.covered /\ ~o.spoilt
           => Target(o.what.file) \in DOMAIN copies'
    BY <1>1, <1>2, <1>4, <2>1 DEF CopyInv
  <2>5. version' \in [File -> 0..MaxVersion]
    BY <1>2, <1>4 DEF FileTypeOK
  <2> HIDE DEF o
  <2> QED BY <1>1, <1>3, <1>4, <1>5, <1>6, <2>1, <2>2, <2>3, <2>4, <2>5, Moves
<1>7. CASE /\ pool' = pool \cup {EventOf(t)}
           /\ op' = [op EXCEPT ![t].event = TRUE,
                            ![t].pc = IF op[t].what.kind = "shutdown" THEN "post" ELSE "below"]
  <2> DEFINE p == IF op[t].what.kind = "shutdown" THEN "post" ELSE "below"
             o == [op[t] EXCEPT !.event = TRUE, !.pc = p]
  <2>1. /\ o \in RunningOperation /\ o.event /\ o.pc \in {"below", "post"}
        /\ o.spoilt = op[t].spoilt /\ o.covered = op[t].covered /\ o.what = op[t].what
    BY <1>2 DEF RunningOperation
  <2>2. o # NoFileOp
    BY <2>1, NoFileOpAssumption
  <2>3. op' = [op EXCEPT ![t] = o]
    BY <1>2, <1>7 DEF FileTypeOK
  <2> HIDE DEF o
  <2>4. op'[t] = o /\ \A u \in Worker : u # t => op'[u] = op[u]
    BY <1>2, <2>3 DEF FileTypeOK
  <2>5. FileTypeOK'
    <3>1. pool' \subseteq FileEvent
      BY <1>1, <1>2, <1>7, EventRange DEF FileTypeOK
    <3>2. op' \in [Worker -> RunningOperation \cup {NoFileOp}]
      BY <1>2, <2>1, <2>3 DEF FileTypeOK
    <3> QED BY <1>2, <1>4, <3>1, <3>2 DEF FileTypeOK
  <2>6. NumberInv'
    <3>1. count[t] \in 0..MaxOperations
      BY <1>2 DEF FileTypeOK
    <3> QED BY <1>1, <1>3, <1>4, <1>7, <3>1, EventRange, FileDriverAssumption DEF NumberInv
  <2>7. \A u \in Worker : u # t => StageInv(u)' /\ CopyInv(u)'
    BY <1>4, <1>7, <2>3, OthersKeep
  <2>8. StageInv(t)' /\ CopyInv(t)'
    BY <1>1, <1>2, <1>4, <2>1, <2>4 DEF StageInv, CopyInv, Busy
  <2>9. OwnerInv'
    <3>1. Contexts' = Contexts \cup {EventOf(t)}
      BY <1>4, <2>1, <2>2, <2>4, OneMoreContext DEF Busy
    <3>2. Queued(fileQueue)' = Queued(fileQueue) /\ OneToOne(fileQueue)' = OneToOne(fileQueue)
      BY <1>4 DEF Queued, OneToOne
    <3> QED BY <1>3, <1>5, <1>7, <3>1, <3>2 DEF OwnerInv
  <2>10. UnloadInv'
    BY <1>3, <1>4 DEF UnloadInv
  <2> QED BY <2>5, <2>6, <2>7, <2>8, <2>9, <2>10 DEF IInv
<1> QED BY <1>6, <1>7 DEF Allocate

LEMMA PostKeeps == ASSUME IInv, NEW t \in Worker, PostFileOperation(t) PROVE IInv'
<1> DEFINE e == EventOf(t)
<1>1. Busy(t) /\ op[t].pc = "post"
  BY DEF PostFileOperation, Busy
<1>2. op[t] \in RunningOperation /\ StageInv(t) /\ CopyInv(t) /\ FileTypeOK
  BY <1>1, OpRange DEF IInv
<1>3. filtering /\ OwnerInv /\ NumberInv
  BY <1>1 DEF IInv, UnloadInv
<1>4. UNCHANGED <<filtering, client, heard, collecting, directory, count, reported,
                  version, copies>>
  BY DEF PostFileOperation
<1>5. op[t].event /\ e \in FileEvent /\ e \in Contexts
  BY <1>1, <1>2, EventRange DEF StageInv, Contexts
<1>6. PICK o : /\ o \in RunningOperation \cup {NoFileOp} /\ op' = [op EXCEPT ![t] = o]
               /\ o # NoFileOp => /\ ~o.event /\ o.pc = "below" /\ o.covered = op[t].covered
                                  /\ o.what.kind # "delete"
  <2>1. CASE op[t].what.kind = "shutdown"
    <3> DEFINE o == [op[t] EXCEPT !.pc = "below", !.event = FALSE]
    <3>1. /\ o \in RunningOperation /\ ~o.event /\ o.pc = "below" /\ o.covered = op[t].covered
          /\ o.what.kind # "delete"
      BY <1>2, <2>1 DEF RunningOperation
    <3>2. op' = [op EXCEPT ![t] = o]
      BY <2>1 DEF PostFileOperation
    <3> HIDE DEF o
    <3> QED BY <3>1, <3>2
  <2>2. CASE op[t].what.kind # "shutdown"
    BY <2>2 DEF PostFileOperation
  <2> QED BY <2>1, <2>2
<1>7. op'[t] = o /\ \A u \in Worker : u # t => op'[u] = op[u]
  BY <1>2, <1>6 DEF FileTypeOK
<1>8. Contexts' = Contexts \ {e}
  BY <1>4, <1>6, <1>7, OneContextLess DEF Busy
<1>9. \/ fileQueue' = Append(fileQueue, e) /\ pool' = pool
      \/ fileQueue' = fileQueue /\ pool' = pool \ {e}
  BY DEF PostFileOperation, QueueFileEvent, FreeEvents
<1>10. fileQueue \in Seq(FileEvent) /\ e \notin Queued(fileQueue) /\ OneToOne(fileQueue)
  BY <1>2, <1>3, <1>5 DEF FileTypeOK, OwnerInv
<1>11. OwnerInv' /\ fileQueue' \in Seq(FileEvent) /\ pool' \subseteq pool
  <2>1. CASE fileQueue' = Append(fileQueue, e) /\ pool' = pool
    <3>1. /\ fileQueue' \in Seq(FileEvent) /\ OneToOne(fileQueue')
          /\ Queued(fileQueue') = Queued(fileQueue) \cup {e}
      BY <1>5, <1>10, <2>1, QueuedAppend
    <3>2. OneToOne(fileQueue)' /\ Queued(fileQueue)' = Queued(fileQueue) \cup {e}
      BY <3>1 DEF OneToOne, Queued
    <3> QED BY <1>3, <1>5, <1>8, <2>1, <3>1, <3>2 DEF OwnerInv
  <2>2. CASE fileQueue' = fileQueue /\ pool' = pool \ {e}
    <3>1. OneToOne(fileQueue)' /\ Queued(fileQueue)' = Queued(fileQueue)
      BY <1>10, <2>2 DEF OneToOne, Queued
    <3> QED BY <1>3, <1>5, <1>8, <1>10, <2>2, <3>1 DEF OwnerInv
  <2> QED BY <1>9, <2>1, <2>2
<1>12. FileTypeOK'
  <2>1. op' \in [Worker -> RunningOperation \cup {NoFileOp}]
    BY <1>2, <1>6 DEF FileTypeOK
  <2>2. heard' \in BOOLEAN /\ pool' \subseteq FileEvent
    BY <1>2, <1>4, <1>11 DEF FileTypeOK
  <2> QED BY <1>2, <1>4, <1>11, <2>1, <2>2 DEF FileTypeOK
<1>13. NumberInv'
  BY <1>3, <1>4, <1>11 DEF NumberInv
<1>14. \A u \in Worker : u # t => StageInv(u)' /\ CopyInv(u)'
  BY <1>4, <1>6, <1>11, OthersKeep
<1>15. StageInv(t)' /\ CopyInv(t)'
  BY <1>1, <1>2, <1>4, <1>6, <1>7 DEF StageInv, CopyInv, Busy
<1>16. UnloadInv'
  BY <1>3, <1>4 DEF UnloadInv
<1> QED BY <1>11, <1>12, <1>13, <1>14, <1>15, <1>16 DEF IInv

\* Steps that begin and end no operation: the covered ones may become uncovered.
LEMMA OperationsStay ==
  ASSUME IInv, op' = NotCovered \/ (op' = op /\ (collecting => collecting')),
         count' = count, copies' = copies, pool' \subseteq pool
  PROVE  /\ op' \in [Worker -> RunningOperation \cup {NoFileOp}]
         /\ \A t \in Worker : StageInv(t)' /\ CopyInv(t)'
         /\ Contexts' = Contexts /\ NumberInv'
         /\ \A t \in Worker : Busy(t)' =>
              Busy(t) /\ op'[t].pc = op[t].pc /\ op'[t].event = op[t].event
<1>1. FileTypeOK /\ NumberInv /\ \A t \in Worker : StageInv(t) /\ CopyInv(t)
  BY DEF IInv
<1>2. CASE op' = op /\ (collecting => collecting')
  <2>1. op' \in [Worker -> RunningOperation \cup {NoFileOp}]
    BY <1>1, <1>2 DEF FileTypeOK
  <2>2. \A t \in Worker : EventOf(t)' = EventOf(t)
    BY DEF EventOf
  <2>3. \A t \in Worker : StageInv(t)'
    BY <1>1, <1>2, <2>2 DEF StageInv, Busy
  <2>4. \A t \in Worker : CopyInv(t)'
    BY <1>1, <1>2 DEF CopyInv, Busy
  <2>5. Contexts' = Contexts
    BY <1>2 DEF Contexts, EventOf, Busy
  <2> QED BY <1>1, <1>2, <2>1, <2>3, <2>4, <2>5 DEF NumberInv, Busy
<1>3. CASE op' = NotCovered
  <2>1. \A t \in Worker : Busy(t) =>
          /\ op'[t] \in RunningOperation /\ op'[t] # NoFileOp /\ ~op'[t].covered
          /\ op'[t].pc = op[t].pc /\ op'[t].event = op[t].event
    <3> SUFFICES ASSUME NEW t \in Worker, Busy(t)
                 PROVE /\ op'[t] \in RunningOperation /\ op'[t] # NoFileOp /\ ~op'[t].covered
                       /\ op'[t].pc = op[t].pc /\ op'[t].event = op[t].event
      OBVIOUS
    <3>1. op'[t] = [op[t] EXCEPT !.covered = FALSE] /\ op[t] \in RunningOperation
      BY <1>3, OpRange DEF NotCovered, Busy
    <3>2. /\ op'[t] \in RunningOperation /\ ~op'[t].covered
          /\ op'[t].pc = op[t].pc /\ op'[t].event = op[t].event
      BY <3>1 DEF RunningOperation
    <3> QED BY <3>2, NoFileOpAssumption
  <2>2. \A t \in Worker : ~Busy(t) => op'[t] = NoFileOp
    BY <1>3 DEF NotCovered, Busy
  <2>3. op' \in [Worker -> RunningOperation \cup {NoFileOp}]
    <3>1. op' = [t \in Worker |-> op'[t]]
      BY <1>3 DEF NotCovered
    <3>2. \A t \in Worker : op'[t] \in RunningOperation \cup {NoFileOp}
      BY <2>1, <2>2
    <3> QED BY <3>1, <3>2
  <2>4. \A t \in Worker : EventOf(t)' = EventOf(t)
    BY DEF EventOf
  <2>5. \A t \in Worker : StageInv(t)'
    BY <1>1, <2>1, <2>2, <2>4 DEF StageInv, Busy
  <2>6. \A t \in Worker : CopyInv(t)'
    BY <2>1, <2>2 DEF CopyInv, Busy
  <2>7. \A t \in Worker : (Busy(t) /\ op[t].event)' <=> Busy(t) /\ op[t].event
    BY <2>1, <2>2 DEF Busy
  <2>8. Contexts' = Contexts
    BY <2>7, SameContexts
  <2> QED BY <1>1, <2>1, <2>2, <2>3, <2>5, <2>6, <2>8 DEF NumberInv, Busy
<1> QED BY <1>2, <1>3

\* What the port, the timer and the manager of the filter do to the list and
\* the settings.
LEMMA PortKeeps ==
  ASSUME IInv, op' = NotCovered \/ (op' = op /\ (collecting => collecting')),
         count' = count, copies' = copies, version' = version,
         filtering' \in BOOLEAN, client' \in BOOLEAN, heard' \in BOOLEAN,
         collecting' \in BOOLEAN, directory' \in 0..2,
         reported' \in Seq(FileEvent), fileQueue' \in Seq(FileEvent), OneToOne(fileQueue'),
         Queued(fileQueue') \subseteq Queued(fileQueue),
         pool' = pool \ (Queued(fileQueue) \ Queued(fileQueue')),
         UnloadInv'
  PROVE  IInv'
<1>1. FileTypeOK /\ OwnerInv
  BY DEF IInv
<1>2. pool' \subseteq pool
  OBVIOUS
<1>3. /\ op' \in [Worker -> RunningOperation \cup {NoFileOp}]
      /\ \A t \in Worker : StageInv(t)' /\ CopyInv(t)'
      /\ Contexts' = Contexts /\ NumberInv'
  BY <1>2, OperationsStay
<1>4. FileTypeOK'
  BY <1>1, <1>2, <1>3 DEF FileTypeOK
<1>5. OwnerInv'
  <2>1. OneToOne(fileQueue)' /\ Queued(fileQueue)' = Queued(fileQueue')
    BY DEF OneToOne, Queued
  <2> QED BY <1>1, <1>3, <2>1 DEF OwnerInv
<1> QED BY <1>3, <1>4, <1>5 DEF IInv

LEMMA EmptyList ==
  /\ <<>> \in Seq(FileEvent) /\ OneToOne(<<>>) /\ Queued(<<>>) = {}
BY DEF OneToOne, Queued

LEMMA ClearKeeps ==
  ASSUME IInv, ConnectionChecker \/ DisconnectCallback
  PROVE  IInv'
<1>1. FileTypeOK /\ UnloadInv
  BY DEF IInv
<1>2. /\ fileQueue' = <<>> /\ pool' = pool \ Queued(fileQueue)
      /\ count' = count /\ copies' = copies /\ version' = version
      /\ filtering' = filtering /\ heard' = heard /\ reported' = reported
  BY DEF ConnectionChecker, DisconnectCallback, FreeQueuedEvents, FreeEvents
<1> DEFINE typed == /\ filtering' \in BOOLEAN /\ client' \in BOOLEAN /\ heard' \in BOOLEAN
                    /\ collecting' \in BOOLEAN /\ directory' \in 0..2
                    /\ reported' \in Seq(FileEvent) /\ fileQueue' \in Seq(FileEvent)
<1>3. /\ OneToOne(fileQueue') /\ Queued(fileQueue') \subseteq Queued(fileQueue)
      /\ pool' = pool \ (Queued(fileQueue) \ Queued(fileQueue'))
  BY <1>2, EmptyList
<1>4. CASE ConnectionChecker
  <2>1. op' = op /\ UNCHANGED <<client, collecting, directory>> /\ filtering
    BY <1>4 DEF ConnectionChecker
  <2>2. UnloadInv'
    BY <1>2, <2>1 DEF UnloadInv
  <2>3. typed
    BY <1>1, <1>2, <2>1, EmptyList DEF FileTypeOK
  <2> QED BY <1>3, <1>2, <2>1, <2>2, <2>3, PortKeeps
<1>5. CASE DisconnectCallback
  <2>1. op' = NotCovered /\ client' = FALSE /\ directory' = 0 /\ collecting' = FALSE /\ filtering
    BY <1>1, <1>5 DEF DisconnectCallback, StopCollecting, UnloadInv
  <2>2. UnloadInv'
    BY <1>2, <2>1 DEF UnloadInv
  <2>3. client' \in BOOLEAN /\ collecting' \in BOOLEAN
    BY <2>1, Zenon
  <2>4. typed
    BY <1>1, <1>2, <2>1, <2>3, EmptyList DEF FileTypeOK
  <2>5. op' = NotCovered
    BY <2>1
  <2>6. count' = count /\ copies' = copies /\ version' = version
    BY <1>2
  <2> QED BY <1>3, <2>2, <2>4, <2>5, <2>6, PortKeeps
<1> QED BY <1>4, <1>5

LEMMA GetKeeps == ASSUME IInv, GetFileEvents PROVE IInv'
<1>1. FileTypeOK /\ UnloadInv /\ OwnerInv
  BY DEF IInv
<1>2. PICK k \in 0..Len(fileQueue) :
        /\ client /\ heard' = TRUE
        /\ reported' = reported \o SubSeq(fileQueue, 1, k)
        /\ fileQueue' = SubSeq(fileQueue, k + 1, Len(fileQueue))
        /\ pool' = pool \ Queued(SubSeq(fileQueue, 1, k))
  BY DEF GetFileEvents, FreeEvents
<1>3. UNCHANGED <<filtering, client, collecting, directory, op, count, version, copies>>
  BY DEF GetFileEvents
<1>4. fileQueue \in Seq(FileEvent) /\ reported \in Seq(FileEvent) /\ OneToOne(fileQueue)
  BY <1>1 DEF FileTypeOK, OwnerInv
<1> DEFINE a == SubSeq(fileQueue, 1, k)
<1>5. /\ a \in Seq(FileEvent) /\ fileQueue' \in Seq(FileEvent) /\ OneToOne(fileQueue')
      /\ Queued(fileQueue') = Queued(fileQueue) \ Queued(a)
  BY <1>2, <1>4, QueuedSplit
<1>6. \A x \in Queued(a) : x \in Queued(fileQueue)
  <2>1. Len(a) = k /\ \A i \in 1..k : a[i] = fileQueue[i]
    BY <1>4
  <2> HIDE DEF a
  <2> QED BY <1>4, <2>1 DEF Queued
<1>7. pool' = pool \ (Queued(fileQueue) \ Queued(fileQueue'))
  BY <1>2, <1>5, <1>6
<1>8. reported' \in Seq(FileEvent)
  <2>1. reported' = reported \o a
    BY <1>2
  <2> HIDE DEF a
  <2> QED BY <1>4, <1>5, <2>1
<1>9. UnloadInv'
  BY <1>1, <1>2, <1>3 DEF UnloadInv
<1>10. /\ filtering' \in BOOLEAN /\ client' \in BOOLEAN /\ heard' \in BOOLEAN
       /\ collecting' \in BOOLEAN /\ directory' \in 0..2
  BY <1>1, <1>2, <1>3 DEF FileTypeOK
<1> HIDE DEF a
<1>11. Queued(fileQueue') \subseteq Queued(fileQueue)
  BY <1>5
<1> QED BY <1>3, <1>5, <1>7, <1>8, <1>9, <1>10, <1>11, PortKeeps

\* Steps that leave the list alone.
LEMMA SettingsKeep ==
  ASSUME IInv, TimePasses \/ ConnectCallback \/ DriverEntry
               \/ \E sought \in BOOLEAN : SetupMonitor(sought)
  PROVE  IInv'
<1>1. FileTypeOK /\ UnloadInv /\ OwnerInv
  BY DEF IInv
<1>2. /\ UNCHANGED <<count, fileQueue, reported, pool, version, copies>>
  BY DEF TimePasses, ConnectCallback, DriverEntry, SetupMonitor
<1>3. /\ filtering' \in BOOLEAN /\ client' \in BOOLEAN /\ heard' \in BOOLEAN
      /\ collecting' \in BOOLEAN /\ directory' \in 0..2
      /\ op' = NotCovered \/ (op' = op /\ (collecting => collecting'))
  <2>1. CASE TimePasses
    BY <1>1, <2>1 DEF TimePasses, FileTypeOK
  <2>2. CASE ConnectCallback
    BY <1>1, <2>2 DEF ConnectCallback, FileTypeOK
  <2>3. CASE DriverEntry
    BY <1>1, <2>3 DEF DriverEntry, FileTypeOK
  <2>4. ASSUME NEW sought \in BOOLEAN, SetupMonitor(sought)
        PROVE  /\ filtering' \in BOOLEAN /\ client' \in BOOLEAN /\ heard' \in BOOLEAN
               /\ collecting' \in BOOLEAN /\ directory' \in 0..2
               /\ op' = NotCovered \/ (op' = op /\ (collecting => collecting'))
    <3>1. filtering' = filtering /\ client' = client /\ heard' = heard
      BY <2>4 DEF SetupMonitor
    <3>2. collecting' = TRUE \/ collecting' = collecting \/ collecting' = FALSE
      BY <2>4 DEF SetupMonitor
    <3>3. directory' = 0 \/ directory' = 1 \/ directory' = 2
      BY <2>4, SMT DEF SetupMonitor
    <3>4. op' = NotCovered \/ (op' = op /\ (collecting => collecting'))
      <4>1. CASE sought
        <5>1. collecting => collecting'
          BY <2>4, <4>1 DEF SetupMonitor
        <5>2. op' = NotCovered \/ op' = op
          BY <2>4 DEF SetupMonitor
        <5> QED BY <5>1, <5>2
      <4>2. CASE ~sought
        <5>1. directory' = 0 /\ ~(collecting /\ directory' # 0 /\ directory = 0)
          BY <2>4, <4>2 DEF SetupMonitor
        <5> QED BY <2>4, <5>1 DEF SetupMonitor
      <4> QED BY <4>1, <4>2
    <3>5. collecting' \in BOOLEAN
      <4>1. collecting \in BOOLEAN
        BY <1>1 DEF FileTypeOK
      <4> QED BY <3>2, <4>1, Zenon
    <3>6. filtering' \in BOOLEAN /\ client' \in BOOLEAN /\ heard' \in BOOLEAN
      BY <1>1, <3>1 DEF FileTypeOK
    <3>7. directory' \in 0..2
      BY <3>3
    <3> QED BY <3>4, <3>5, <3>6, <3>7
  <2> QED BY <2>1, <2>2, <2>3, <2>4
<1>4. UnloadInv'
  <2>1. CASE TimePasses
    BY <1>1, <1>2, <2>1 DEF UnloadInv, TimePasses, Busy
  <2>2. CASE ConnectCallback
    BY <1>1, <1>2, <2>2 DEF UnloadInv, ConnectCallback
  <2>3. CASE DriverEntry
    BY <2>3 DEF UnloadInv, DriverEntry
  <2>4. CASE \E sought \in BOOLEAN : SetupMonitor(sought)
    BY <1>1, <2>4 DEF UnloadInv, SetupMonitor
  <2> QED BY <2>1, <2>2, <2>3, <2>4
<1>5. fileQueue' \in Seq(FileEvent) /\ reported' \in Seq(FileEvent) /\ OneToOne(fileQueue')
  BY <1>1, <1>2 DEF FileTypeOK, OwnerInv
<1>6. /\ Queued(fileQueue') = Queued(fileQueue)
      /\ pool' = pool \ (Queued(fileQueue) \ Queued(fileQueue'))
  BY <1>2
<1> QED BY <1>2, <1>3, <1>4, <1>5, <1>6, PortKeeps

LEMMA FileUnloadKeeps == ASSUME IInv, FilterUnload PROVE IInv'
<1>1. FileTypeOK /\ OwnerInv /\ NumberInv
  BY DEF IInv
<1>2. /\ filtering' = FALSE /\ fileQueue' = <<>> /\ directory' = 0 /\ collecting' = FALSE
      /\ UNCHANGED <<client, heard, count, reported, version, folders, copies>>
      /\ ~client /\ \A t \in Worker : Busy(t) => op[t].pc = "below"
  BY DEF FilterUnload, StopCollecting, Busy
<1>3. pool' = pool \ (Queued(fileQueue) \cup Contexts)
  BY DEF FilterUnload, FreeEvents, Contexts, Busy
<1>4. pool' = {}
  BY <1>1, <1>3 DEF OwnerInv
<1>5. \A t \in Worker : Busy(t) =>
        /\ op'[t] \in RunningOperation /\ op'[t] # NoFileOp /\ ~op'[t].event /\ ~op'[t].covered
        /\ op'[t].pc = "below"
  <2> SUFFICES ASSUME NEW t \in Worker, Busy(t)
               PROVE /\ op'[t] \in RunningOperation /\ op'[t] # NoFileOp
                     /\ ~op'[t].event /\ ~op'[t].covered /\ op'[t].pc = "below"
    OBVIOUS
  <2>1. op'[t] = [op[t] EXCEPT !.event = FALSE, !.covered = FALSE] /\ op[t] \in RunningOperation
    BY OpRange DEF FilterUnload, Busy
  <2>2. /\ op'[t] \in RunningOperation /\ ~op'[t].event /\ ~op'[t].covered
        /\ op'[t].pc = op[t].pc
    BY <2>1 DEF RunningOperation
  <2> QED BY <1>2, <2>2, NoFileOpAssumption
<1>6. \A t \in Worker : ~Busy(t) => op'[t] = NoFileOp
  BY DEF FilterUnload, Busy
<1>7. op' \in [Worker -> RunningOperation \cup {NoFileOp}]
  <2>1. op' = [t \in Worker |-> op'[t]]
    BY DEF FilterUnload
  <2>2. \A t \in Worker : op'[t] \in RunningOperation \cup {NoFileOp}
    BY <1>5, <1>6
  <2> QED BY <2>1, <2>2
<1>8. FileTypeOK'
  <2>1. filtering' \in BOOLEAN /\ collecting' \in BOOLEAN
    BY <1>2, Zenon
  <2>2. fileQueue' \in Seq(FileEvent) /\ pool' \subseteq FileEvent /\ directory' \in 0..2
    BY <1>2, <1>4, EmptyList
  <2> QED BY <1>1, <1>2, <1>7, <2>1, <2>2 DEF FileTypeOK
<1>9. \A t \in Worker : StageInv(t)' /\ CopyInv(t)'
  <2> SUFFICES ASSUME NEW t \in Worker PROVE StageInv(t)' /\ CopyInv(t)'
    OBVIOUS
  <2>1. StageInv(t)
    BY DEF IInv
  <2>2. StageInv(t)'
    BY <1>2, <1>4, <1>5, <1>6, <2>1 DEF StageInv, Busy
  <2>3. CopyInv(t)'
    BY <1>5, <1>6 DEF CopyInv, Busy
  <2> QED BY <2>2, <2>3
<1>10. OwnerInv' /\ NumberInv'
  <2>1. Contexts' = {}
    BY <1>5, <1>6 DEF Contexts, Busy
  <2>2. Queued(fileQueue)' = {} /\ OneToOne(fileQueue)'
    BY <1>2 DEF Queued, OneToOne
  <2> QED BY <1>4, <2>1, <2>2 DEF OwnerInv, NumberInv
<1>11. UnloadInv'
  BY <1>2, <1>5, <1>6 DEF UnloadInv, Busy
<1> QED BY <1>8, <1>9, <1>10, <1>11 DEF IInv

LEMMA StepInv == ASSUME IInv, [FileNext]_fileVars PROVE IInv'
<1>1. CASE fileVars' = fileVars
  <2> USE <1>1 DEF fileVars
  <2>1. FileTypeOK' /\ NumberInv'
    BY DEF IInv, FileTypeOK, NumberInv
  <2>2. OwnerInv'
    BY DEF IInv, OwnerInv, Contexts, EventOf, Busy, OneToOne, Queued
  <2>3. UnloadInv'
    BY DEF IInv, UnloadInv, Busy
  <2>4. \A t \in Worker : StageInv(t)' /\ CopyInv(t)'
    BY DEF IInv, StageInv, CopyInv, EventOf, Busy
  <2> QED BY <2>1, <2>2, <2>3, <2>4 DEF IInv
<1>2. CASE FileNext
  BY <1>2, StartKeeps, NameKeeps, CopyKeeps, AllocateKeeps, BelowKeeps, PostKeeps,
     ClearKeeps, GetKeeps, SettingsKeep, FileUnloadKeeps DEF FileNext
<1> QED BY <1>1, <1>2

\* The inductive invariant holds of every behaviour.
LEMMA FileInvariant == FileSpec => []IInv
BY InitInv, StepInv, PTL DEF FileSpec

-----------------------------------------------------------------------------
(* Results                                                                 *)

\* FileTypeOK: the callbacks and the port keep every variable in its range.
THEOREM FileTypeCorrect == FileSpec => []FileTypeOK
<1>1. IInv => FileTypeOK
  BY DEF IInv
<1> QED BY <1>1, FileInvariant, PTL

\* EveryFileEventHasAnOwner: an event that PreFileOperationCallback allocated is
\* in the context of its operation or in lQueuedFileEvents, in one place of one
\* of the two, until it is freed; none leaks and none is freed twice.
THEOREM FileEventsAreOwned == FileSpec => []EveryFileEventHasAnOwner
<1>1. ASSUME IInv PROVE EveryFileEventHasAnOwner
  <2>1. fileQueue \in Seq(FileEvent) /\ OwnerInv
    BY <1>1 DEF IInv, FileTypeOK
  <2>2. Cardinality(Queued(fileQueue)) = Len(fileQueue)
    BY <2>1, CountOfQueued DEF OwnerInv
  <2> QED BY <2>1, <2>2 DEF OwnerInv, EveryFileEventHasAnOwner, Contexts, Busy
<1> QED BY <1>1, FileInvariant, PTL

\* UnloadedDriverIsClean: FilterUnload leaves no event, no log directory and no
\* setting behind, whatever operations are under way.
THEOREM UnloadIsClean == FileSpec => []UnloadedDriverIsClean
<1>1. ASSUME IInv PROVE UnloadedDriverIsClean
  <2> SUFFICES ASSUME ~filtering PROVE pool = {} /\ directory = 0 /\ ~collecting
    BY DEF UnloadedDriverIsClean
  <2>1. UnloadInv /\ OwnerInv
    BY <1>1 DEF IInv
  <2>2. Contexts = {}
    BY <2>1 DEF Contexts, UnloadInv
  <2>3. Queued(fileQueue) = {}
    BY <2>1 DEF Queued, UnloadInv
  <2> QED BY <2>1, <2>2, <2>3 DEF OwnerInv, UnloadInv
<1> QED BY <1>1, FileInvariant, PTL

\* DeletedFileWasCopied: a file that disappears by a named operation while the
\* client collects deleted files was copied before, unless the copy failed.
THEOREM DeletedFilesAreCopied == FileSpec => DeletedFileWasCopied
<1>1. ASSUME IInv, NEW t \in Worker, op[t] # NoFileOp, op[t].pc = "below",
             op[t].what.kind = "delete", op[t].covered, ~op[t].spoilt
      PROVE  Target(op[t].what.file) \in DOMAIN copies
  BY <1>1, OpRange DEF CopyInv, Busy
<1>2. IInv => [\A t \in Worker :
       LET o == op[t] IN
       (o # NoFileOp /\ o.pc = "below" /\ o.what.kind = "delete" /\ o.covered /\ ~o.spoilt
          /\ version'[o.what.file] = 0)
       => Target(o.what.file) \in DOMAIN copies]_fileVars
  BY <1>1
<1> QED BY <1>2, FileInvariant, PTL DEF DeletedFileWasCopied

LEMMA AcceptStep ==
  ASSUME IInv, NEW t \in Worker, PostFileOperation(t)
  PROVE  FileChannel!Accept \/ UNCHANGED FileChannel!chan
<1>1. EventOf(t) \in FileEvent
  BY EventRange DEF PostFileOperation, Busy
<1>2. reported' = reported
  BY DEF PostFileOperation
<1>3. fileQueue' = Append(fileQueue, EventOf(t)) \/ fileQueue' = fileQueue
  BY DEF PostFileOperation, QueueFileEvent
<1> QED BY <1>1, <1>2, <1>3 DEF FileChannel!Accept, FileChannel!chan

LEMMA DropStep ==
  ASSUME fileQueue' = <<>>, reported' = reported
  PROVE  FileChannel!Drop
<1>1. fileQueue' \in Seq(FileEvent) /\ Len(fileQueue') = 0
  OBVIOUS
<1>2. FileChannel!Remains(fileQueue, fileQueue')
  <2> DEFINE place == [i \in 1..0 |-> 0]
  <2>1. place \in [1..Len(fileQueue') -> 1..Len(fileQueue)]
    BY <1>1
  <2>2. \A i \in 1..Len(fileQueue') : FALSE
    BY <1>1
  <2> QED BY <2>1, <2>2 DEF FileChannel!Remains
<1> QED BY <1>1, <1>2 DEF FileChannel!Drop

LEMMA DeliverStep ==
  ASSUME IInv, GetFileEvents
  PROVE  FileChannel!Deliver \/ UNCHANGED FileChannel!chan
<1>1. PICK k \in 0..Len(fileQueue) :
        /\ reported' = reported \o SubSeq(fileQueue, 1, k)
        /\ fileQueue' = SubSeq(fileQueue, k + 1, Len(fileQueue))
  BY DEF GetFileEvents
<1>2. fileQueue \in Seq(FileEvent) /\ reported \in Seq(FileEvent)
  BY DEF IInv, FileTypeOK
<1>3. CASE k = 0
  <2>1. SubSeq(fileQueue, 1, 0) = <<>> /\ SubSeq(fileQueue, 1, Len(fileQueue)) = fileQueue
    BY <1>2
  <2>2. reported \o <<>> = reported
    BY <1>2
  <2>3. /\ fileQueue' = SubSeq(fileQueue, 1, Len(fileQueue))
        /\ reported' = reported \o SubSeq(fileQueue, 1, 0)
    <3>1. k + 1 = 1
      BY <1>3
    <3> QED BY <1>1, <1>3, <3>1
  <2>4. fileQueue' = fileQueue /\ reported' = reported
    BY <2>1, <2>2, <2>3
  <2> QED BY <2>4 DEF FileChannel!chan
<1>4. CASE k # 0
  <2>1. k \in 1..Len(fileQueue)
    BY <1>2, <1>4
  <2> QED BY <1>1, <2>1 DEF FileChannel!Deliver
<1> QED BY <1>3, <1>4

\* FileDriverIsAChannel: an event that PostFileOperationCallback queues is accepted,
\* GetFileEvents delivers the oldest ones in order and once, and FreeQueuedEvents
\* drops what was not delivered.
THEOREM FileDriverImplementsChannel == FileSpec => FileDriverIsAChannel
<1>1. FileInit => FileChannel!ChannelInit
  BY DEF FileInit, FileChannel!ChannelInit
<1>2. ASSUME IInv, [FileNext]_fileVars PROVE [FileChannel!ChannelNext]_(FileChannel!chan)
  <2>1. ASSUME UNCHANGED <<fileQueue, reported>> PROVE UNCHANGED FileChannel!chan
    BY <2>1 DEF FileChannel!chan
  <2>2. ASSUME NEW t \in Worker,
               StartOperation(t) \/ Name(t) \/ CopyFileIfBeingDeleted(t) \/ Allocate(t) \/ Below(t)
        PROVE  UNCHANGED <<fileQueue, reported>>
    BY <2>2 DEF StartOperation, Name, CopyFileIfBeingDeleted, Allocate, Below
  <2>3. ASSUME NEW t \in Worker, PostFileOperation(t)
        PROVE  [FileChannel!ChannelNext]_(FileChannel!chan)
    BY <1>2, <2>3, AcceptStep DEF FileChannel!ChannelNext
  <2>4. CASE ConnectionChecker \/ DisconnectCallback \/ FilterUnload
    <3>1. fileQueue' = <<>> /\ reported' = reported
      BY <2>4 DEF ConnectionChecker, DisconnectCallback, FilterUnload, FreeQueuedEvents
    <3> QED BY <3>1, DropStep DEF FileChannel!ChannelNext
  <2>5. CASE GetFileEvents
    BY <1>2, <2>5, DeliverStep DEF FileChannel!ChannelNext
  <2>6. ASSUME TimePasses \/ ConnectCallback \/ DriverEntry
               \/ \E sought \in BOOLEAN : SetupMonitor(sought)
        PROVE  UNCHANGED <<fileQueue, reported>>
    BY <2>6 DEF TimePasses, ConnectCallback, DriverEntry, SetupMonitor
  <2>7. CASE fileVars' = fileVars
    BY <2>1, <2>7 DEF fileVars
  <2>8. ASSUME FileNext PROVE [FileChannel!ChannelNext]_(FileChannel!chan)
    <3>1. CASE \E t \in Worker : PostFileOperation(t)
      BY <2>3, <3>1
    <3>2. CASE \E t \in Worker : \/ StartOperation(t) \/ Name(t) \/ CopyFileIfBeingDeleted(t)
                                 \/ Allocate(t) \/ Below(t)
      BY <2>1, <2>2, <3>2
    <3>3. CASE TimePasses \/ ConnectCallback \/ DriverEntry
               \/ \E sought \in BOOLEAN : SetupMonitor(sought)
      BY <2>1, <2>6, <3>3
    <3> QED BY <2>4, <2>5, <2>8, <3>1, <3>2, <3>3 DEF FileNext
  <2> QED BY <1>2, <2>7, <2>8
<1> QED BY <1>1, <1>2, FileInvariant, PTL
        DEF FileSpec, FileDriverIsAChannel, FileChannel!ChannelSpec
=============================================================================
