--------------------------- MODULE ProcessEvents ----------------------------
(***************************************************************************)
(* Process events from the driver to the analyzer: the list of the process *)
(* driver with the event it pulses, the thread of the process monitor that *)
(* takes one event per request, and the map of process paths, which that   *)
(* thread and those of the other monitors read and write without a lock.   *)
(*                                                                         *)
(* Left out: exhausted memory, the conversion of device paths to drives,   *)
(* and the lookups of the parent, which are like those of another thread.  *)
(***************************************************************************)
EXTENDS Naturals, Sequences, FiniteSets

CONSTANTS
  Pid,       \* process ids, reused by the system
  Image,     \* paths of executables
  Other,     \* threads of the other monitors
  Tries,     \* lookups before the system is asked, 10 in the code
  MaxCreated,\* bound: processes created in all
  None       \* null

ProcessEvent == [create : BOOLEAN, pid : Pid, image : Image]

ASSUME ProcessAssumption ==
  /\ Tries \in Nat \ {0} /\ MaxCreated \in Nat /\ "monitor" \notin Other
  /\ None \notin Image /\ None \notin ProcessEvent

Thread == Other \cup {"monitor"}
Unknown == "UNKNOWN"

VARIABLES
  running,    \* Pid -> image, None when there is no such process
  wasRunning, \* history: the images a pid has had
  processQueue, \* lQueuedProcessEvents
  happened,   \* history: the events the callback queued
  waits,      \* the monitor is in WaitForSingleObject
  current,    \* p, the event the monitor handles
  previous,   \* tempP
  processMap, \* Pid -> path, None when it is not in the map
  lookup,     \* the calls of getProcessPath
  handled,    \* history: the events the monitor reported, with their paths
  extra       \* history: creations a cache miss reported

processVars == <<running, wasRunning, processQueue, happened, waits, current, previous,
                 processMap, lookup, handled, extra>>

NoLookup == [pc |-> "none", pid |-> None, tries |-> 0, path |-> None]

(* initialiseProcessMap: what runs is in the map, or "<unknown>" is when   *)
(* the process may not be opened.                                          *)
ProcessInit ==
  /\ running \in [Pid -> Image \cup {None}]
  /\ wasRunning = [p \in Pid |-> {running[p]} \ {None}]
  /\ processQueue = <<>> /\ happened = <<>>
  /\ waits = FALSE /\ current = None /\ previous = None
  /\ processMap \in [Pid -> Image \cup {Unknown, None}]
  /\ \A p \in Pid : processMap[p] \in IF running[p] = None THEN {None} ELSE {running[p], Unknown}
  /\ lookup = [t \in Thread |-> NoLookup]
  /\ handled = <<>> /\ extra = {}

(* The pulse sets and clears the event: it wakes a thread that waits at    *)
(* that moment, which then sends its request, and nobody else.             *)
Pulse == waits' = FALSE

(* ProcessCallback.                                                        *)
Callback(create, p, image) == LET e == [create |-> create, pid |-> p, image |-> image] IN
  /\ processQueue' = Append(processQueue, e)
  /\ happened' = Append(happened, e)
  /\ Pulse

Creations == Cardinality({i \in 1..Len(happened) : happened[i].create})

CreateProcess(p, image) ==
  /\ running[p] = None /\ Creations < MaxCreated
  /\ running' = [running EXCEPT ![p] = image]
  /\ wasRunning' = [wasRunning EXCEPT ![p] = wasRunning[p] \cup {image}]
  /\ Callback(TRUE, p, image)
  /\ lookup' = [lookup EXCEPT !["monitor"].pc = IF waits THEN "request" ELSE @]
  /\ UNCHANGED <<current, previous, processMap, handled, extra>>

EndProcess(p) ==
  /\ running[p] # None
  /\ running' = [running EXCEPT ![p] = None]
  /\ Callback(FALSE, p, running[p])
  /\ lookup' = [lookup EXCEPT !["monitor"].pc = IF waits THEN "request" ELSE @]
  /\ UNCHANGED <<wasRunning, current, previous, processMap, handled, extra>>

(* The monitor waits; after a second it looks at its flag and waits again. *)
Wait ==
  /\ lookup["monitor"].pc = "none" /\ ~waits
  /\ waits' = TRUE
  /\ UNCHANGED <<running, wasRunning, processQueue, happened, current, previous,
                 processMap, lookup, handled, extra>>

WaitTimesOut ==
  /\ waits /\ waits' = FALSE
  /\ UNCHANGED <<running, wasRunning, processQueue, happened, current, previous,
                 processMap, lookup, handled, extra>>

(* Seeded fault: events of one process are taken for repetitions.        *)
Differs_PidOnly(e) == previous = None \/ e.pid # previous.pid

Differs(e) == previous = None \/ e.create # previous.create \/ e.pid # previous.pid

Find(t, p) == [lookup EXCEPT ![t] = [pc |-> "find", pid |-> p, tries |-> Tries, path |-> None]]

(* IOCTL_CAPTURE_GET_PROCINFO hands out one event.  The pulse it ends with *)
(* when there are more finds nobody waiting: the only thread that ever     *)
(* waits is in this request.                                               *)
GetProcessInfo ==
  /\ lookup["monitor"].pc = "request"
  /\ IF processQueue # <<>> /\ Differs(Head(processQueue))
     THEN /\ current' = Head(processQueue)
          /\ lookup' = Find("monitor", Head(processQueue).pid)
     ELSE /\ UNCHANGED current
          /\ lookup' = [lookup EXCEPT !["monitor"] = NoLookup]
  /\ processQueue' = IF processQueue = <<>> THEN <<>> ELSE Tail(processQueue)
  /\ UNCHANGED <<running, wasRunning, happened, waits, previous, processMap, handled,
                 extra>>

(* Another monitor has an event of process p.                              *)
BeginLookup(o, p) ==
  /\ lookup[o].pc = "none" /\ wasRunning[p] # {}
  /\ lookup' = Find(o, p)
  /\ UNCHANGED <<running, wasRunning, processQueue, happened, waits, current, previous,
                 processMap, handled, extra>>

Found(t, path) == [lookup EXCEPT ![t].pc = "found", ![t].path = path]

TryMap(t) == LET l == lookup[t] IN
  /\ l.pc = "find" /\ l.tries > 0
  /\ lookup' = IF processMap[l.pid] # None THEN Found(t, processMap[l.pid])
               ELSE [lookup EXCEPT ![t].tries = l.tries - 1]
  /\ UNCHANGED <<running, wasRunning, processQueue, happened, waits, current, previous,
                 processMap, handled, extra>>

InsertPath(p, path) == processMap' = [processMap EXCEPT ![p] = path]

(* The process is opened instead; a miss is entered into the map and       *)
(* reported as a creation, whatever the driver reports.                    *)
AskSystem(t) == LET l == lookup[t] IN
  /\ l.pc = "find" /\ l.tries = 0
  /\ IF running[l.pid] # None
     THEN /\ InsertPath(l.pid, running[l.pid])
          /\ lookup' = Found(t, running[l.pid])
          /\ extra' = extra \cup {<<l.pid, running[l.pid]>>}
     ELSE lookup' = Found(t, Unknown) /\ UNCHANGED <<processMap, extra>>
  /\ UNCHANGED <<running, wasRunning, processQueue, happened, waits, current,
                 previous, handled>>

EndLookup(o) ==
  /\ o \in Other /\ lookup[o].pc = "found"
  /\ lookup' = [lookup EXCEPT ![o] = NoLookup]
  /\ UNCHANGED <<running, wasRunning, processQueue, happened, waits, current, previous,
                 processMap, handled, extra>>

(* ProcessMonitor::onProcessEvent: the path that was looked up is entered  *)
(* for a new process, then the event is reported with it.                  *)
OnProcessEvent == LET path == lookup["monitor"].path IN
  /\ lookup["monitor"].pc = "found"
  /\ IF current.create THEN InsertPath(current.pid, path) ELSE UNCHANGED processMap
  /\ handled' = Append(handled, [event |-> current, path |-> path])
  /\ previous' = current /\ current' = None
  /\ lookup' = [lookup EXCEPT !["monitor"] = NoLookup]
  /\ UNCHANGED <<running, wasRunning, processQueue, happened, waits, extra>>

MonitorThread ==
  Wait \/ GetProcessInfo \/ TryMap("monitor") \/ AskSystem("monitor") \/ OnProcessEvent

ProcessNext ==
  \/ \E p \in Pid : EndProcess(p) \/ \E image \in Image : CreateProcess(p, image)
  \/ MonitorThread \/ WaitTimesOut
  \/ \E o \in Other : \/ TryMap(o) \/ AskSystem(o) \/ EndLookup(o)
                      \/ \E p \in Pid : BeginLookup(o, p)

ProcessSpec == ProcessInit /\ [][ProcessNext]_processVars
-----------------------------------------------------------------------------
ProcessTypeOK ==
  /\ running \in [Pid -> Image \cup {None}]
  /\ wasRunning \in [Pid -> SUBSET Image]
  /\ processMap \in [Pid -> Image \cup {Unknown, None}]
  /\ waits \in BOOLEAN
  /\ waits => lookup["monitor"].pc = "none"
  /\ lookup \in [Thread -> [pc : {"none", "request", "find", "found"}, pid : Pid \cup {None},
                            tries : 0..Tries, path : Image \cup {Unknown, None}]]

(* No event of the driver is lost or reordered on its way, however many    *)
(* wait in the list: what was reported, what is being handled and what is  *)
(* queued are the events that happened.  The comparison with the previous  *)
(* event, which is there against repetitions, drops none.                  *)
NoProcessEventIsLost ==
  LET taken == [i \in 1..Len(handled) |-> handled[i].event]
      inHand == IF current = None THEN <<>> ELSE <<current>>
  IN taken \o inHand \o processQueue = happened

(* The map that several threads write never names a program that did not   *)
(* run under that id, and neither does a report.                           *)
KnownPathsWereReal ==
  /\ \A p \in Pid : processMap[p] \in wasRunning[p] \cup {Unknown, None}
  /\ \A i \in 1..Len(handled) : handled[i].path \in wasRunning[handled[i].event.pid] \cup {Unknown}
  /\ \A x \in extra : x[2] \in wasRunning[x[1]]
=============================================================================
