---------------------------- MODULE MonitorQueue ----------------------------
(***************************************************************************)
(* The list of events of a monitor driver.  Threads whose operations are   *)
(* monitored append to it, one reader of the client copies it to its       *)
(* buffer through an I/O request, and drainers empty it: the timer routine *)
(* when no request was seen for a while, the driver when it is unloaded or *)
(* disconnected.  The spin lock is held for one insertion or removal, not  *)
(* between the test for an empty list and the removal that follows it.     *)
(*                                                                         *)
(* Definitions are those of the registry driver.  The file driver repeats  *)
(* the same loops, which FileDriver has as single steps.  Pool exhaustion  *)
(* is left out.                                                            *)
(***************************************************************************)
EXTENDS Naturals, Sequences, FiniteSets

CONSTANTS
  Caller,          \* threads whose operations are monitored
  Size,            \* sizes of an event
  BufferSpace,     \* length of the reader's buffer
  TIMEOUT,         \* USERSPACE_CONNECTION_TIMEOUT, in ticks
  GRACE,           \* the same and a half
  MaxEvents,       \* bound: events of one caller
  Drainer,         \* routines that empty the list
  Timer,           \* the drainer that is the timer routine
  Unloader,        \* the drainer that unloads the driver
  Worlds,          \* set of records: multi - threads run while the timer routine
                   \* does, punctual - see Tick
  NoEvent          \* null

ASSUME QueueAssumption ==
  /\ BufferSpace \in Nat \ {0} /\ Size \subseteq Nat \ {0}
  /\ TIMEOUT \in Nat /\ GRACE \in Nat /\ TIMEOUT < GRACE
  /\ MaxEvents \in Nat
  /\ Timer \in Drainer /\ Unloader \in Drainer /\ Timer # Unloader
  /\ Worlds \subseteq [multi : BOOLEAN, punctual : BOOLEAN]

Event == [by : Caller, n : 1..MaxEvents, size : Size]

ASSUME NoEventAssumption == NoEvent \notin Event

VARIABLES
  world,      \* what the machine and its users are like
  loaded,     \* the callback is registered and the timer set
  queue,      \* lQueuedRegistryEvents
  silence,    \* GetCurrentTime() - lastContactTime, at most GRACE + 1
  made,       \* events of a caller so far
  inserting,  \* the event a caller has decided to queue
  reader,     \* the request of the client
  drain,      \* the loops that empty the list
  delivered,  \* history: events the client received
  crashed     \* history: the head of an empty list was dereferenced

queueVars == <<world, loaded, queue, silence, made, inserting, reader, drain,
          delivered, crashed>>

QueueTypeOK ==
  /\ world \in Worlds
  /\ loaded \in BOOLEAN
  /\ queue \in Seq(Event)
  /\ silence \in 0..GRACE + 1
  /\ made \in [Caller -> 0..MaxEvents]
  /\ inserting \in [Caller -> Event \cup {NoEvent}]
  /\ reader \in [pc : {"idle", "test", "remove", "putback"},
                 batch : Seq(Event), held : Event \cup {NoEvent}, room : Nat]
  /\ drain \in [Drainer -> {"idle", "test", "remove"}]
  /\ delivered \in Seq(Event)
  /\ crashed \in BOOLEAN

NoRequest == [pc |-> "idle", batch |-> <<>>, held |-> NoEvent, room |-> 0]

QueueInit ==
  /\ world \in Worlds
  /\ loaded = TRUE /\ queue = <<>> /\ silence = 0
  /\ made = [c \in Caller |-> 0]
  /\ inserting = [c \in Caller |-> NoEvent]
  /\ reader = NoRequest
  /\ drain = [d \in Drainer |-> "idle"]
  /\ delivered = <<>>
  /\ crashed = FALSE

(* The timer routine runs at DISPATCH_LEVEL: on one processor nothing else *)
(* runs until it returns.                                                  *)
Runs == ~crashed /\ (world.multi \/ drain[Timer] = "idle")

(* An operation of c with an event of size s: it is queued when the client *)
(* was heard of lately and freed otherwise.                                *)
Decide(c, s) ==
  /\ Runs /\ loaded /\ inserting[c] = NoEvent /\ made[c] < MaxEvents
  /\ made' = [made EXCEPT ![c] = made[c] + 1]
  /\ inserting' = [inserting EXCEPT ![c] =
       IF silence <= TIMEOUT THEN [by |-> c, n |-> made[c] + 1, size |-> s]
                             ELSE NoEvent]
  /\ UNCHANGED <<world, loaded, queue, silence, reader, drain, delivered, crashed>>

Insert(c) ==
  /\ Runs /\ inserting[c] # NoEvent
  /\ queue' = Append(queue, inserting[c])
  /\ inserting' = [inserting EXCEPT ![c] = NoEvent]
  /\ UNCHANGED <<world, loaded, silence, made, reader, drain, delivered, crashed>>

(* The handle of the client is open: no drainer but the timer runs.        *)
HandleIsOpen == \A d \in Drainer \ {Timer} : drain[d] = "idle"

BeginRequest ==
  /\ Runs /\ loaded /\ reader.pc = "idle" /\ HandleIsOpen
  /\ silence' = 0
  /\ reader' = [NoRequest EXCEPT !.pc = "test", !.room = BufferSpace]
  /\ UNCHANGED <<world, loaded, queue, made, inserting, drain, delivered, crashed>>

(* IsListEmpty, without the lock, and the room that is left.               *)
ReadMore ==
  /\ Runs /\ reader.pc = "test" /\ queue # <<>> /\ reader.room > 0
  /\ reader' = [reader EXCEPT !.pc = "remove"]
  /\ UNCHANGED <<world, loaded, queue, silence, made, inserting, drain, delivered,
                 crashed>>

Complete ==
  /\ delivered' = delivered \o reader.batch
  /\ reader' = NoRequest

EndRequest ==
  /\ Runs /\ reader.pc = "test" /\ (queue = <<>> \/ reader.room = 0)
  /\ Complete
  /\ UNCHANGED <<world, loaded, queue, silence, made, inserting, drain, crashed>>

(* Seeded fault: the comparison with the room is strict.                 *)
TakeHead_Strict ==
  /\ Runs /\ reader.pc = "remove" /\ queue # <<>>
  /\ queue' = Tail(queue)
  /\ reader' = IF Head(queue).size < reader.room
               THEN [reader EXCEPT !.pc = "test",
                                   !.batch = Append(reader.batch, Head(queue)),
                                   !.room = reader.room - Head(queue).size]
               ELSE [reader EXCEPT !.pc = "putback", !.held = Head(queue)]
  /\ UNCHANGED <<world, loaded, silence, made, inserting, drain, delivered, crashed>>

(* ExInterlockedRemoveHeadList, and the copy if the event fits.            *)
TakeHead ==
  /\ Runs /\ reader.pc = "remove" /\ queue # <<>>
  /\ queue' = Tail(queue)
  /\ reader' = IF Head(queue).size <= reader.room
               THEN [reader EXCEPT !.pc = "test",
                                   !.batch = Append(reader.batch, Head(queue)),
                                   !.room = reader.room - Head(queue).size]
               ELSE [reader EXCEPT !.pc = "putback", !.held = Head(queue)]
  /\ UNCHANGED <<world, loaded, silence, made, inserting, drain, delivered, crashed>>

(* The list was emptied after the test: the exception is caught, the       *)
(* request fails, and what it had copied and freed is lost.                *)
TakeFault ==
  /\ Runs /\ reader.pc = "remove" /\ queue = <<>>
  /\ reader' = NoRequest
  /\ UNCHANGED <<world, loaded, queue, silence, made, inserting, drain, delivered,
                 crashed>>

(* Seeded fault: the event that is put back is delivered as well.        *)
PutBack_Delivers ==
  /\ Runs /\ reader.pc = "putback"
  /\ queue' = <<reader.held>> \o queue
  /\ delivered' = Append(delivered \o reader.batch, reader.held)
  /\ reader' = NoRequest
  /\ UNCHANGED <<world, loaded, silence, made, inserting, drain, crashed>>

PutBack ==
  /\ Runs /\ reader.pc = "putback"
  /\ queue' = <<reader.held>> \o queue
  /\ Complete
  /\ UNCHANGED <<world, loaded, silence, made, inserting, drain, crashed>>

(* The timer fires; it does nothing unless the client has been silent.     *)
Fire ==
  /\ Runs /\ loaded /\ drain[Timer] = "idle" /\ silence > GRACE
  /\ drain' = [drain EXCEPT ![Timer] = "test"]
  /\ UNCHANGED <<world, loaded, queue, silence, made, inserting, reader, delivered,
                 crashed>>

(* The client closed its handle and d begins to empty the list.            *)
BeginDrain(d) ==
  /\ Runs /\ loaded /\ d \notin {Timer, Unloader} /\ reader.pc = "idle" /\ HandleIsOpen
  /\ world.punctual => silence < GRACE
  /\ drain' = [drain EXCEPT ![d] = "test"]
  /\ UNCHANGED <<world, loaded, queue, silence, made, inserting, reader, delivered,
                 crashed>>

(* Seeded fault: the list is emptied before the callback is removed.     *)
BeginUnload_NoWait ==
  /\ Runs /\ loaded /\ reader.pc = "idle" /\ HandleIsOpen
  /\ loaded' = FALSE
  /\ drain' = [drain EXCEPT ![Unloader] = "test"]
  /\ UNCHANGED <<world, queue, silence, made, inserting, reader, delivered, crashed>>

(* The driver is unloaded: the timer is cancelled, a routine of it that    *)
(* runs is not waited for; the callback is removed when no thread is in it.*)
BeginUnload ==
  /\ Runs /\ loaded /\ reader.pc = "idle" /\ HandleIsOpen
  /\ \A c \in Caller : inserting[c] = NoEvent
  /\ loaded' = FALSE
  /\ drain' = [drain EXCEPT ![Unloader] = "test"]
  /\ UNCHANGED <<world, queue, silence, made, inserting, reader, delivered, crashed>>

(* The next client loads the driver again.                                 *)
Load ==
  /\ ~loaded /\ \A d \in Drainer : drain[d] = "idle"
  /\ loaded' = TRUE /\ silence' = 0 /\ queue' = <<>>
  /\ UNCHANGED <<world, made, inserting, reader, drain, delivered, crashed>>

DrainRuns(d) == IF d = Timer THEN ~crashed ELSE Runs

DrainTest(d) ==
  /\ DrainRuns(d) /\ drain[d] = "test"
  /\ drain' = [drain EXCEPT ![d] = IF queue = <<>> THEN "idle" ELSE "remove"]
  /\ UNCHANGED <<world, loaded, queue, silence, made, inserting, reader, delivered,
                 crashed>>

DrainTake(d) ==
  /\ DrainRuns(d) /\ drain[d] = "remove" /\ queue # <<>>
  /\ queue' = Tail(queue)
  /\ drain' = [drain EXCEPT ![d] = "test"]
  /\ UNCHANGED <<world, loaded, silence, made, inserting, reader, delivered, crashed>>

(* No handler catches the access to a record before the null page.         *)
DrainFault(d) ==
  /\ DrainRuns(d) /\ drain[d] = "remove" /\ queue = <<>>
  /\ crashed' = TRUE
  /\ UNCHANGED <<world, loaded, queue, silence, made, inserting, reader, drain,
                 delivered>>

(* Time.  When everybody is punctual a request or a disconnection is over  *)
(* before the grace period is and nobody sets the clock.                   *)
Tick ==
  /\ Runs /\ silence <= GRACE
  /\ world.punctual => (reader.pc = "idle" /\ HandleIsOpen) \/ ~loaded \/ silence < GRACE
  /\ silence' = silence + 1
  /\ UNCHANGED <<world, loaded, queue, made, inserting, reader, drain, delivered,
                 crashed>>

(* The local time is set, in either direction: the unsigned difference is  *)
(* larger than the grace period until the next request.                    *)
ClockStep ==
  /\ ~world.punctual /\ Runs
  /\ silence' = GRACE + 1
  /\ UNCHANGED <<world, loaded, queue, made, inserting, reader, drain, delivered,
                 crashed>>

Draining(d) == DrainTest(d) \/ DrainTake(d) \/ DrainFault(d)

Request == BeginRequest \/ ReadMore \/ EndRequest \/ TakeHead \/ TakeFault \/ PutBack

QueueNext ==
  \/ \E c \in Caller : Insert(c) \/ \E s \in Size : Decide(c, s)
  \/ Request \/ Fire \/ BeginUnload \/ Load
  \/ \E d \in Drainer : Draining(d) \/ BeginDrain(d)
  \/ Tick \/ ClockStep

QueueSpec == QueueInit /\ [][QueueNext]_queueVars

(* The client polls the driver in a loop and runs between two interrupts   *)
(* of the timer, which come seconds apart; routines of the kernel run.     *)
QueueFairness ==
  /\ SF_queueVars(Request)
  /\ \A d \in Drainer : WF_queueVars(Draining(d))

LiveQueueSpec == QueueSpec /\ QueueFairness
-----------------------------------------------------------------------------
(* All events that are not freed, in the order in which they will reach or *)
(* reached the client.                                                     *)
Held == IF reader.held = NoEvent THEN <<>> ELSE <<reader.held>>
Pending == reader.batch \o Held \o queue

(* One processor, and clients that do not pause.                           *)
Orderly == ~world.multi /\ world.punctual

(* In that world whoever has found the list non-empty takes the head       *)
(* before another one does, although the lock was not held in between: the *)
(* reader, the timer and the other drainers do not overlap.                *)
TheHeadIsThere ==
  Orderly =>
    /\ ~crashed
    /\ reader.pc = "remove" \/ (\E d \in Drainer : drain[d] = "remove") => queue # <<>>

(* When the driver is unloaded nothing is left in its list: no thread      *)
(* appended to it after it was found empty, whatever the world is like.    *)
UnloadFreesEverything == ~loaded /\ drain[Unloader] = "idle" => queue = <<>>

(* No event stays in the list for ever: it reaches the client or is        *)
(* cleared.  The threads make finitely many events, so that each leaves    *)
(* exactly if the list is empty again and again.                           *)
EveryEventLeaves == []<>(Pending = <<>> \/ crashed)

Channel == INSTANCE EventChannel WITH pending <- Pending

(* The driver implements the channel.                                      *)
ImplementsChannel == Channel!ChannelSpec
=============================================================================
