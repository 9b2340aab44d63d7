--------------------------- MODULE SystemMonitors ---------------------------
(***************************************************************************)
(* The monitors of the client: a thread per monitor that asks its driver   *)
(* for events, checks them, keeps the set of modified files and reports to *)
(* the analyzer; the visitor thread in Analyzer.start and Analyzer.stop;   *)
(* and the main thread that deletes the monitors at the end.               *)
(*                                                                         *)
(* A driver is a channel (EventChannel); whether an event is excluded is   *)
(* decided by Exclusions.  What becomes of the copied files is FileUpload. *)
(***************************************************************************)
EXTENDS Naturals, Sequences, FiniteSets

CONSTANTS
  Loadable,   \* bound: the sets of monitors whose drivers may be loaded
  Path,       \* files, as the monitor names them
  Directories,    \* those that are directories
  Excluded,   \* those whose events are excluded
  MaxEvents,  \* bound: events in all
  MaxTours    \* bound: visits

ASSUME MonitorsAssumption ==
  /\ Loadable \subseteq SUBSET {"registry", "process", "file", "network"}
  /\ MaxEvents \in Nat /\ MaxTours \in Nat

VARIABLES
  installed,      \* driverInstalled
  started,        \* monitorRunning of a monitor
  runs,           \* Thread's running flag of a monitor
  thread,         \* the thread of a monitor
  queue,          \* what the driver has for a monitor
  buffer,         \* what the thread has of it
  slots,          \* monitors the analyzer's callback is connected to
  collectOption,  \* Analyzer.collectModifiedFiles
  modifiedOn,     \* FileMonitor.monitorModifiedFiles
  modifiedFiles,  \* FileMonitor.modifiedFiles
  analyzer,       \* the main, then the visitor thread: where it is, and at which monitor
  tour,           \* number of the visit
  quitting,       \* the main thread in ~Analyzer
  deleted,        \* monitors that are deleted
  crashed,        \* the client died
  happens,        \* number of events so far
  reports,        \* history: what was signalled, and to which visit, 0 for none
  archive         \* archive[v]: the files copied at the end of visit v

monitoringVars == <<installed, started, runs, thread, queue, buffer, slots, collectOption,
                 modifiedOn, modifiedFiles, analyzer, tour, quitting, deleted, crashed,
                 happens, reports, archive>>

threadingVars == <<installed, started, runs, thread, queue, buffer, deleted, quitting>>
visitVars == <<collectOption, modifiedOn, modifiedFiles, analyzer, tour, archive, slots>>

Monitor == {"registry", "process", "file", "network"}

\* The order of the constructors, of start, connect and disconnect, of the
\* destructors.
LoadOrder == <<"process", "registry", "network", "file">>
StartOrder == <<"process", "registry", "file", "network">>
DeleteOrder == <<"registry", "process", "file", "network">>

\* What a driver reports: kind and file for the file monitor, a stream of a
\* file being no file, and the visit during which it happened, 0 for none.
EventKind == {"create", "open", "stream", "write", "delete"}
MonitorEvent == [n : 1 .. MaxEvents, kind : EventKind, path : Path, tour : 0 .. MaxTours]

\* The constructor of the analyzer.
MonitorsInit ==
  /\ installed = {}
  /\ started = [m \in Monitor |-> FALSE] /\ runs = [m \in Monitor |-> FALSE]
  /\ thread = [m \in Monitor |-> "none"]
  /\ queue = [m \in Monitor |-> <<>>] /\ buffer = [m \in Monitor |-> <<>>]
  /\ slots = {} /\ collectOption = FALSE /\ modifiedOn = FALSE
  /\ modifiedFiles = {} /\ analyzer = [pc |-> "load", at |-> 1] /\ tour = 0
  /\ quitting = [pc |-> "no", monitor |-> "none"] /\ deleted = {} /\ crashed = FALSE
  /\ happens = 0 /\ reports = {} /\ archive = [v \in 1 .. MaxTours |-> {}]

\* Something happens that the driver of m reports.
Happens(m, kind, p) ==
  /\ ~crashed /\ m \in installed \ deleted /\ happens < MaxEvents /\ analyzer.pc # "load"
  /\ m # "file" => kind = "write" /\ p = CHOOSE x \in Path : TRUE
  /\ happens' = happens + 1
  /\ queue' = [queue EXCEPT ![m] = Append(queue[m],
       [n |-> happens + 1, kind |-> kind, path |-> p,
        tour |-> IF analyzer.pc = "visiting" THEN tour ELSE 0])]
  /\ UNCHANGED <<installed, started, runs, thread, buffer, deleted, quitting, visitVars,
                 crashed, reports>>
-----------------------------------------------------------------------------
(* The main thread: the monitors are constructed, then started             *)

StartUpRest == UNCHANGED <<started, runs, queue, buffer, deleted, quitting, collectOption,
                           modifiedOn, modifiedFiles, tour, archive, slots, crashed, happens,
                           reports>>

NextAt == IF analyzer.at < 4 THEN [analyzer EXCEPT !.at = analyzer.at + 1]
          ELSE [pc |-> IF analyzer.pc = "load" THEN "start" ELSE "idle", at |-> 1]

\* The service of a driver is created or opened, and started; the network
\* monitor has to open two devices besides, and removes its driver again
\* when it cannot.
LoadDriver == LET m == LoadOrder[analyzer.at] IN
  /\ analyzer.pc = "load" /\ analyzer' = NextAt
  /\ \/ /\ \E set \in Loadable : installed \cup {m} \subseteq set
        /\ installed' = installed \cup {m}
     \/ UNCHANGED installed
  /\ UNCHANGED thread /\ StartUpRest

\* A monitor with a driver gets a thread.
StartMonitor == LET m == StartOrder[analyzer.at] IN
  /\ analyzer.pc = "start" /\ analyzer' = NextAt
  /\ thread' = [thread EXCEPT ![m] = IF m \in installed THEN "created" ELSE "none"]
  /\ UNCHANGED installed /\ StartUpRest
-----------------------------------------------------------------------------
(* The thread of a monitor                                                 *)

Alive(m, pc) == ~crashed /\ m \notin deleted /\ thread[m] = pc

Runs(m) == runs[m] /\ (m \in {"registry", "process"} => started[m])

\* threadProc and the start of run.
EnterThread(m) ==
  /\ Alive(m, "created")
  /\ runs' = [runs EXCEPT ![m] = TRUE] /\ started' = [started EXCEPT ![m] = TRUE]
  /\ thread' = [thread EXCEPT ![m] = "loop"]
  /\ UNCHANGED <<installed, queue, buffer, deleted, quitting, visitVars, crashed, happens,
                 reports>>

\* The driver gives the first k of the events it has.
GetEvents(m, k) ==
  /\ Alive(m, "loop") /\ Runs(m) /\ queue[m] # <<>>
  /\ buffer' = [buffer EXCEPT ![m] = SubSeq(queue[m], 1, k)]
  /\ queue' = [queue EXCEPT ![m] = SubSeq(queue[m], k + 1, Len(queue[m]))]
  /\ thread' = [thread EXCEPT ![m] = "check"]
  /\ UNCHANGED <<installed, started, runs, deleted, quitting, visitVars, crashed, happens,
                 reports>>

\* The file and the registry driver give all they have, the others one event.
GetFileEvents == GetEvents("file", Len(queue["file"]))
GetRegistryEvents == GetEvents("registry", Len(queue["registry"]))
GetProcessEvent == GetEvents("process", 1)
GetConnectionEvent == GetEvents("network", 1)

LeaveThread(m) ==
  /\ Alive(m, "loop") /\ ~Runs(m)
  /\ thread' = [thread EXCEPT ![m] = "ended"]
  /\ started' = IF m = "network" THEN [started EXCEPT ![m] = FALSE] ELSE started
  /\ UNCHANGED <<installed, runs, queue, buffer, deleted, quitting, visitVars, crashed,
                 happens, reports>>

Drop(m) == /\ buffer' = [buffer EXCEPT ![m] = Tail(buffer[m])]
           /\ thread' = [thread EXCEPT ![m] = IF Len(buffer[m]) = 1 THEN "loop" ELSE "check"]

\* Whether an event has a name.
HasName(e) == e.kind # "stream"

\* What the file monitor does with an event that is not excluded.
AfterCheck(m) ==
  IF m = "file" /\ modifiedOn /\ Head(buffer[m]).path \notin Directories THEN "collect"
  ELSE "signal"

CheckEvent(m) ==
  /\ Alive(m, "check")
  /\ \/ /\ Head(buffer[m]).path \in Excluded \/ ~HasName(Head(buffer[m]))
        /\ Drop(m)
     \/ /\ Head(buffer[m]).path \notin Excluded /\ HasName(Head(buffer[m]))
        /\ thread' = [thread EXCEPT ![m] = AfterCheck(m)]
        /\ UNCHANGED buffer
  /\ UNCHANGED <<installed, started, runs, queue, deleted, quitting, visitVars, crashed,
                 happens, reports>>

\* The set is shared with the visitor thread, without a lock: while that
\* copies and clears it, a change may crash the client.
Collected(e) == IF e.kind = "delete" THEN modifiedFiles \ {e.path} ELSE modifiedFiles \cup {e.path}

CollectFile ==
  /\ Alive("file", "collect")
  /\ modifiedFiles' = Collected(Head(buffer["file"]))
  /\ thread' = [thread EXCEPT !["file"] = "signal"]
  /\ crashed' \in IF analyzer.pc = "clear" THEN BOOLEAN ELSE {FALSE}
  /\ UNCHANGED <<installed, started, runs, queue, buffer, deleted, quitting, collectOption,
                 modifiedOn, analyzer, tour, archive, slots, happens, reports>>

SignalEvent(m) ==
  /\ Alive(m, "signal")
  /\ reports' = reports \cup {[by |-> m, event |-> Head(buffer[m]),
                                tour |-> IF m \in slots THEN tour ELSE 0]}
  /\ Drop(m)
  /\ UNCHANGED <<installed, started, runs, queue, deleted, quitting, visitVars, crashed,
                 happens>>

MonitorThread(m) ==
  EnterThread(m) \/ LeaveThread(m) \/ CheckEvent(m) \/ SignalEvent(m)
-----------------------------------------------------------------------------
(* The visitor thread, and the option the server sends before the visits   *)

Visits(pc) == ~crashed /\ analyzer.pc = pc /\ quitting.pc = "no"
VisitRest == UNCHANGED <<threadingVars, crashed, happens, reports>>

OnOptionChanged(value) ==
  /\ Visits("idle") /\ tour = 0
  /\ collectOption' = value /\ modifiedOn' = value
  /\ UNCHANGED <<modifiedFiles, analyzer, tour, archive, slots>> /\ VisitRest

BeginTour ==
  /\ Visits("idle") /\ tour < MaxTours
  /\ tour' = tour + 1
  /\ analyzer' = [pc |-> "connect", at |-> 1]
  /\ UNCHANGED <<collectOption, modifiedOn, modifiedFiles, archive, slots>> /\ VisitRest

\* Analyzer.start connects its callbacks, ...
ConnectSlot ==
  /\ Visits("connect")
  /\ slots' = slots \cup {StartOrder[analyzer.at]}
  /\ analyzer' = IF analyzer.at = 4 THEN [pc |-> "on", at |-> 1]
                 ELSE [analyzer EXCEPT !.at = analyzer.at + 1]
  /\ UNCHANGED <<collectOption, modifiedOn, modifiedFiles, tour, archive>> /\ VisitRest

\* ... then has modified files collected.
StartCollecting ==
  /\ Visits("on")
  /\ modifiedOn' = (collectOption \/ modifiedOn)
  /\ analyzer' = [pc |-> "visiting", at |-> 1]
  /\ UNCHANGED <<collectOption, modifiedFiles, tour, archive, slots>> /\ VisitRest

AfterDisconnect == IF analyzer.at < 4 THEN [pc |-> "disconnect", at |-> analyzer.at + 1]
                   ELSE [pc |-> IF collectOption THEN "off" ELSE "idle", at |-> 1]

\* Seeded fault: collecting stops before the callbacks are disconnected.
DisconnectSlot_StopsFirst ==
  /\ Visits("visiting") \/ Visits("disconnect")
  /\ slots' = slots \ {StartOrder[analyzer.at]} /\ analyzer' = AfterDisconnect
  /\ modifiedOn' = FALSE
  /\ UNCHANGED <<collectOption, modifiedFiles, tour, archive>> /\ VisitRest

\* Analyzer.stop disconnects the callbacks, ...
DisconnectSlot ==
  /\ Visits("visiting") \/ Visits("disconnect")
  /\ slots' = slots \ {StartOrder[analyzer.at]} /\ analyzer' = AfterDisconnect
  /\ UNCHANGED <<collectOption, modifiedOn, modifiedFiles, tour, archive>> /\ VisitRest

\* ... stops collecting, ...
EndCollecting ==
  /\ Visits("off")
  /\ modifiedOn' = FALSE
  /\ analyzer' = [analyzer EXCEPT !.pc = "copy"]
  /\ UNCHANGED <<collectOption, modifiedFiles, tour, archive, slots>> /\ VisitRest

\* ... and copies the files and forgets them.
CopyCreatedFiles ==
  /\ Visits("copy")
  /\ archive' = [archive EXCEPT ![tour] = modifiedFiles]
  /\ analyzer' = [analyzer EXCEPT !.pc = "clear"]
  /\ UNCHANGED <<collectOption, modifiedOn, modifiedFiles, tour, slots>> /\ VisitRest

ClearModifiedFiles ==
  /\ Visits("clear")
  /\ modifiedFiles' = {}
  /\ analyzer' = [analyzer EXCEPT !.pc = "idle"]
  /\ UNCHANGED <<collectOption, modifiedOn, tour, archive, slots>> /\ VisitRest

VisitorThread ==
  \/ \E value \in BOOLEAN : OnOptionChanged(value)
  \/ BeginTour \/ ConnectSlot \/ StartCollecting \/ DisconnectSlot \/ EndCollecting
  \/ CopyCreatedFiles \/ ClearModifiedFiles
-----------------------------------------------------------------------------
(* The main thread: a key was pressed between visits, and the monitors are *)
(* deleted in a fixed order, the registry monitor first.                   *)

NextToDelete == DeleteOrder[Cardinality(deleted) + 1]

QuitRest == UNCHANGED <<installed, queue, buffer, visitVars, crashed, happens, reports>>

\* stop does nothing to a monitor whose thread has not begun to run, or has
\* ended.
BeginStop ==
  /\ ~crashed /\ analyzer.pc = "idle" /\ quitting.pc # "wait" /\ Monitor # deleted
  /\ IF started[NextToDelete] /\ NextToDelete \in installed
     THEN /\ started' = [started EXCEPT ![NextToDelete] = FALSE]
          /\ runs' = [runs EXCEPT ![NextToDelete] = FALSE]
          /\ quitting' = [pc |-> "wait", monitor |-> NextToDelete]
          /\ UNCHANGED deleted
     ELSE /\ deleted' = deleted \cup {NextToDelete}
          /\ quitting' = [pc |-> "quit", monitor |-> "none"]
          /\ UNCHANGED <<started, runs>>
  /\ UNCHANGED thread /\ QuitRest

\* Seeded fault: the others are not terminated either.
EndStop_Waits ==
  /\ ~crashed /\ quitting.pc = "wait"
  /\ deleted' = deleted \cup {quitting.monitor}
  /\ quitting' = [pc |-> "quit", monitor |-> "none"]
  /\ UNCHANGED <<started, runs, thread>> /\ QuitRest

\* The thread has ended, or is terminated after five seconds - that of the
\* network monitor is left alone.
EndStop == LET m == quitting.monitor IN
  /\ ~crashed /\ quitting.pc = "wait"
  /\ thread' = IF thread[m] = "ended" \/ m = "network" THEN thread
               ELSE [thread EXCEPT ![m] = "killed"]
  /\ deleted' = deleted \cup {m}
  /\ quitting' = [pc |-> "quit", monitor |-> "none"]
  /\ UNCHANGED <<started, runs>> /\ QuitRest
-----------------------------------------------------------------------------
MonitorsNext ==
  \/ \E m \in Monitor : MonitorThread(m)
  \/ \E m \in Monitor, k \in EventKind, p \in Path : Happens(m, k, p)
  \/ LoadDriver \/ StartMonitor
  \/ GetFileEvents \/ GetRegistryEvents \/ GetProcessEvent \/ GetConnectionEvent
  \/ CollectFile \/ VisitorThread \/ BeginStop \/ EndStop

MonitorsSpec == MonitorsInit /\ [][MonitorsNext]_monitoringVars
-----------------------------------------------------------------------------
MonitorsTypeOK ==
  /\ installed \subseteq Monitor /\ deleted \subseteq Monitor /\ slots \subseteq Monitor
  /\ started \in [Monitor -> BOOLEAN] /\ runs \in [Monitor -> BOOLEAN]
  /\ thread \in [Monitor -> {"none", "created", "loop", "check", "collect", "signal",
                             "ended", "killed"}]
  /\ queue \in [Monitor -> Seq(MonitorEvent)] /\ buffer \in [Monitor -> Seq(MonitorEvent)]
  /\ collectOption \in BOOLEAN /\ modifiedOn \in BOOLEAN /\ crashed \in BOOLEAN
  /\ modifiedFiles \subseteq Path /\ tour \in 0 .. MaxTours /\ happens \in 0 .. MaxEvents
  /\ analyzer \in [pc : {"load", "start", "idle", "connect", "on", "visiting", "disconnect",
                         "off", "copy", "clear"}, at : 1 .. 4]
  /\ reports \subseteq [by : Monitor, event : MonitorEvent, tour : 0 .. MaxTours]
  /\ archive \in [1 .. MaxTours -> SUBSET Path]

\* The deletions of files the monitor has seen.
SeenDeletions ==
  {e \in {r.event : r \in reports} \cup {buffer["file"][i] : i \in DOMAIN buffer["file"]} :
     e.kind = "delete"}

(* A file that was created or written during a visit (once Analyzer.start   *)
(* had returned) and reported for that visit is among those copied at its   *)
(* end, unless a later deletion was seen: the monitor adds it to the set    *)
(* before it tells the analyzer, which copies after it stopped listening.   *)
ReportedFilesAreCopied ==
  collectOption /\ tour > 0 /\ analyzer.pc \in {"idle", "clear"} /\ ~crashed =>
    \A r \in reports :
      r.by = "file" /\ r.tour = tour /\ r.event.tour = tour /\ r.event.kind # "delete"
        /\ r.event.path \notin Directories
      => \/ r.event.path \in archive[tour]
         \/ \E d \in SeenDeletions : d.path = r.event.path /\ d.n > r.event.n

(* The thread of a monitor that is deleted does not run any more, if it had *)
(* begun to: it has ended, or it is terminated; the network monitor's, which *)
(* is only waited for, may go on.                                            *)
StoppedThreadsAreGone ==
  \A m \in deleted \ {"network"} : thread[m] \in {"none", "created", "ended", "killed"}
=============================================================================
