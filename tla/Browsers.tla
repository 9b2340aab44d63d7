------------------------------ MODULE Browsers ------------------------------
(***************************************************************************)
(* The two plug-ins that have Internet Explorer visit a group of URLs: one *)
(* process per URL (InternetExplorerBulk), or one window per URL from a    *)
(* class factory (InternetExplorer).  Each URL has an instance object that *)
(* starts its browser, listens to its events and waits for one of them.    *)
(*                                                                         *)
(* That the group waits for all its workers is shown in ClientVisit; here  *)
(* a worker takes any URL that is left, and the group closes the browsers  *)
(* when all are visited.  What Windows and the browser do is external.     *)
(***************************************************************************)
EXTENDS Naturals, FiniteSets

CONSTANTS
  BrowserUrl,   \* the URLs of the group
  Workers,      \* MAX_WORKER_THREADS
  Handle,       \* the values event handles have
  BrowserPid,   \* the ids processes have
  MaxCalls,     \* bound: events of all browsers
  NoHandle, NoPid

ASSUME BrowsersAssumption ==
  /\ Workers \in Nat \ {0} /\ MaxCalls \in Nat
  /\ NoHandle \notin Handle /\ NoPid \notin BrowserPid

VARIABLES
  plugin,          \* "bulk" or "factory"
  visit,           \* visit[u]: where the worker of u is in visitUrl
  instance,        \* instance[u]: hVisiting, mainURL, major, minor and process id
  browser,         \* browser[u]: "none", "open" or "ended"
  page,            \* page[u]: what it shows, and to whom it reports: "deaf" to nobody
  call,            \* call[u]: the event it has called Invoke for
  callCount,       \* number of events so far
  event,           \* event[h]: "closed", "unset", or the URL whose browser set it
  processHandles,  \* ids of processes the plug-in has a handle of
  outcome,         \* outcome[u]: what is set in the Url object
  group            \* whether the group is over, and whether it has a warning

browserVars == <<plugin, visit, instance, browser, page, call, callCount, event,
                 processHandles, outcome, group>>

Pages == {"home", "target", "frame"}

\* An event: a navigation begins, a document is complete, a navigation failed
\* with a status of WinInet or of HTTP, the browser quits.
Calls == {<<"before", p>> : p \in Pages} \cup {<<"complete">>, <<"quit">>}
           \cup {<<"error", p, s>> : p \in Pages, s \in {"wininet", "http"}}

NoCall == <<"none">>

\* The constructors.
BrowsersInit ==
  /\ plugin \in {"bulk", "factory"}
  /\ visit = [u \in BrowserUrl |-> "todo"]
  /\ instance = [u \in BrowserUrl |-> [handle |-> NoHandle, main |-> "empty", major |-> "OK",
                                       minor |-> "none", pid |-> NoPid]]
  /\ browser = [u \in BrowserUrl |-> "none"] /\ page = [u \in BrowserUrl |-> "deaf"]
  /\ call = [u \in BrowserUrl |-> NoCall] /\ callCount = 0
  /\ event = [h \in Handle |-> "closed"] /\ processHandles = {}
  /\ outcome = [u \in BrowserUrl |-> [visited |-> FALSE, major |-> "OK", minor |-> "none",
                                      pid |-> NoPid]]
  /\ group = [pc |-> "visiting", warned |-> FALSE]

Goes(u, from, to) == visit[u] = from /\ visit' = [visit EXCEPT ![u] = to]
-----------------------------------------------------------------------------
(* A worker thread                                                         *)

\* The worker gets a URL, and visitUrl creates an event, with a handle value
\* that is free.
BeginVisit(u) ==
  /\ Cardinality({v \in BrowserUrl : visit[v] \notin {"todo", "done"}}) < Workers
  /\ Goes(u, "todo", "start")
  /\ \E h \in Handle :
       /\ event[h] = "closed"
       /\ event' = [event EXCEPT ![h] = "unset"]
       /\ instance' = [instance EXCEPT ![u].handle = h]
  /\ UNCHANGED <<plugin, browser, page, call, callCount, processHandles, outcome, group>>

Fails(u, error) == outcome' = [outcome EXCEPT ![u].major = error]

CannotStart(u) ==
  /\ Goes(u, "start", IF plugin = "bulk" THEN "free" ELSE "done")
  /\ Fails(u, "PROCESS_ERROR")
  /\ UNCHANGED <<plugin, instance, browser, page, call, callCount, event, processHandles, group>>

\* executeProcess: the process has 20 seconds to show a window to attach to,
\* and is left to itself if it does not.  An id is free when no process has
\* it and no handle of its process is open.
ExecuteProcess(u) ==
  /\ plugin = "bulk" /\ visit[u] = "start"
  /\ \E p \in BrowserPid \ (processHandles
                         \cup {instance[v].pid : v \in {v \in BrowserUrl : browser[v] = "open"}}) :
       /\ instance' = [instance EXCEPT ![u].pid = p]
       /\ processHandles' = processHandles \cup {p}
  /\ browser' = [browser EXCEPT ![u] = "open"]
  /\ \/ Goes(u, "start", "attach") /\ UNCHANGED outcome
     \/ Goes(u, "start", "free") /\ Fails(u, "PROCESS_ERROR")
  /\ UNCHANGED <<plugin, page, call, callCount, event, group>>

CreateInstance(u) ==
  /\ plugin = "factory" /\ Goes(u, "start", "attach")
  /\ browser' = [browser EXCEPT ![u] = "open"]
  /\ UNCHANGED <<plugin, instance, page, call, callCount, event, processHandles, outcome, group>>

\* The browser has no connection points, or none for its events.
CannotListen(u) ==
  /\ Goes(u, "attach", IF plugin = "bulk" THEN "free" ELSE "done")
  /\ \/ plugin = "bulk" /\ Fails(u, "ATTACH_PROCESS_ERROR")
     \/ UNCHANGED outcome
  /\ UNCHANGED <<plugin, instance, browser, page, call, callCount, event, processHandles, group>>

\* The instance listens and has the browser navigate.  A process of its own
\* may have to load its home page yet.
Navigate(u) ==
  /\ Goes(u, "attach", "wait")
  /\ \E p \in IF plugin = "bulk" THEN {"blank", "home"} ELSE {"blank"} :
       page' = [page EXCEPT ![u] = p]
  /\ UNCHANGED <<plugin, instance, browser, call, callCount, event, processHandles, outcome, group>>

Signalled(u) == event[instance[u].handle] \in BrowserUrl

\* The wait ends with an event, and the URL is visited unless WinInet failed.
VisitEnds(u) ==
  /\ Goes(u, "wait", "close") /\ Signalled(u)
  /\ event' = [event EXCEPT ![instance[u].handle] = "unset"]
  /\ outcome' = [outcome EXCEPT ![u] =
       [visited |-> instance[u].minor # "wininet", major |-> instance[u].major,
        minor |-> instance[u].minor, pid |-> instance[u].pid]]
  /\ UNCHANGED <<plugin, instance, browser, page, call, callCount, processHandles, group>>

\* Three minutes without an event.
VisitTimesOut(u) ==
  /\ Goes(u, "wait", "close") /\ ~Signalled(u)
  /\ outcome' = [outcome EXCEPT ![u].major = "TIMEOUT_ERROR", ![u].pid = instance[u].pid]
  /\ UNCHANGED <<plugin, instance, browser, page, call, callCount, event, processHandles, group>>

\* Whether the browser could be closed: not when it has ended, which it may do
\* when it is told to close and before it is terminated.
Closing(u) ==
  \E closed \in IF browser[u] = "ended" THEN {FALSE} ELSE BOOLEAN :
    outcome' = IF closed THEN outcome ELSE [outcome EXCEPT ![u].major = "WARNING",
                                                           ![u].minor = "ALREADY_TERMINATED"]

\* Close of the bulk plug-in closes the windows and terminates the process.
CloseProcess(u) ==
  /\ plugin = "bulk" /\ Goes(u, "close", "free") /\ Closing(u)
  /\ browser' = [browser EXCEPT ![u] = "ended"]
  /\ UNCHANGED <<plugin, instance, page, call, callCount, event, processHandles, group>>

\* Close of the other has the window quit, which the last one does not do.
QuitWindow(u) ==
  /\ plugin = "factory" /\ Goes(u, "close", "free") /\ Closing(u)
  /\ \E s \in {browser[u], "ended"} : browser' = [browser EXCEPT ![u] = s]
  /\ UNCHANGED <<plugin, instance, page, call, callCount, event, processHandles, group>>

\* CloseHandle: the instance keeps the value.
FreeHandle(u) ==
  /\ Goes(u, "free", "done")
  /\ event' = [event EXCEPT ![instance[u].handle] = "closed"]
  /\ UNCHANGED <<plugin, instance, browser, page, call, callCount, processHandles, outcome, group>>

WorkerStep(u) ==
  \/ BeginVisit(u) \/ CannotStart(u) \/ ExecuteProcess(u) \/ CreateInstance(u)
  \/ CannotListen(u) \/ Navigate(u) \/ VisitEnds(u) \/ VisitTimesOut(u)
  \/ CloseProcess(u) \/ QuitWindow(u) \/ FreeHandle(u)
-----------------------------------------------------------------------------
(* The browser, and the thread of COM that runs Invoke                     *)

\* A browser that is listened to has one call out at a time.
BrowserCalls(u, c) ==
  /\ browser[u] = "open" /\ page[u] # "deaf" /\ call[u] = NoCall
  /\ page[u] = "blank" => c[1] \in {"before", "quit"} /\ c # <<"before", "frame">>
  /\ c = <<"before", "home">> => page[u] = "blank" /\ plugin = "bulk"
  /\ c = <<"before", "target">> => page[u] # "target"
  /\ c[1] = "error" => c[2] \in {page[u], "frame"}
  /\ page' = IF c[1] = "before" /\ c[2] # "frame" THEN [page EXCEPT ![u] = c[2]] ELSE page
  /\ browser' = IF c[1] = "quit" THEN [browser EXCEPT ![u] = "ended"] ELSE browser
  /\ call' = [call EXCEPT ![u] = c] /\ callCount < MaxCalls /\ callCount' = callCount + 1
  /\ UNCHANGED <<plugin, visit, instance, event, processHandles, outcome, group>>

BrowserCrashes(u) ==
  /\ browser[u] = "open" /\ browser' = [browser EXCEPT ![u] = "ended"]
  /\ UNCHANGED <<plugin, visit, instance, page, call, callCount, event, processHandles, outcome,
                 group>>

\* SetEvent, with whatever value the handle has: nothing happens if it is
\* closed.
Signal(u) == LET h == instance[u].handle IN
  event' = IF event[h] = "closed" THEN event ELSE [event EXCEPT ![h] = u]

\* Invoke: an error counts if it is of the page the instance saw first, the
\* major code being set before the minor one.
Invoke(u) == LET c == call[u] IN
  /\ group.pc # "done" /\ c # NoCall
  /\ \/ /\ c[1] = "before"
        /\ instance' = [instance EXCEPT ![u].main = IF @ = "empty" THEN c[2] ELSE @]
        /\ call' = [call EXCEPT ![u] = NoCall] /\ UNCHANGED event
     \/ /\ c[1] \in {"complete", "quit"} /\ Signal(u)
        /\ call' = [call EXCEPT ![u] = NoCall] /\ UNCHANGED instance
     \/ /\ c[1] = "error" /\ c[2] # instance[u].main
        /\ call' = [call EXCEPT ![u] = NoCall] /\ UNCHANGED <<instance, event>>
     \/ /\ c[1] = "error" /\ c[2] = instance[u].main
        /\ instance' = [instance EXCEPT ![u].major = "NETWORK_ERROR"]
        /\ call' = [call EXCEPT ![u] = <<"status", c[3]>>] /\ UNCHANGED event
     \/ /\ c[1] = "status" /\ Signal(u)
        /\ instance' = [instance EXCEPT ![u].minor = c[2]]
        /\ call' = [call EXCEPT ![u] = NoCall]
  /\ UNCHANGED <<plugin, visit, browser, page, callCount, processHandles, outcome, group>>
-----------------------------------------------------------------------------
(* The end of visitGroup                                                   *)

\* The processes that have the program's name.
Open == {u \in BrowserUrl : browser[u] = "open"}

\* One that cannot be terminated makes a warning, as does one that ends by
\* itself meanwhile.
Terminated(processes) ==
  \E left \in SUBSET processes, warned \in BOOLEAN :
    /\ left # {} => warned
    /\ browser' = [u \in BrowserUrl |-> IF u \in processes \ left THEN "ended" ELSE browser[u]]
    /\ group' = [pc |-> "closed", warned |-> warned]

\* Seeded fault: only the browsers of visited URLs are looked for.
CloseAllProcesses_Visited ==
  /\ plugin = "bulk" /\ group.pc = "visiting" /\ \A u \in BrowserUrl : visit[u] = "done"
  /\ Terminated({u \in Open : outcome[u].visited})
  /\ UNCHANGED <<plugin, visit, instance, page, call, callCount, event, processHandles, outcome>>

\* closeAllInternetExplorers of the bulk plug-in.
CloseAllProcesses ==
  /\ plugin = "bulk" /\ group.pc = "visiting" /\ \A u \in BrowserUrl : visit[u] = "done"
  /\ Terminated(Open)
  /\ UNCHANGED <<plugin, visit, instance, page, call, callCount, event, processHandles, outcome>>

\* closeAllInternetExplorers of the other: first the process of an instance it
\* creates for that, with whatever windows are in it, then all that are left.
CloseAllWindows ==
  /\ plugin = "factory" /\ group.pc = "visiting" /\ \A u \in BrowserUrl : visit[u] = "done"
  /\ Terminated(Open)
  /\ UNCHANGED <<plugin, visit, instance, page, call, callCount, event, processHandles, outcome>>

\* The instances are deleted, and close the handles of their processes.
DeleteInstances ==
  /\ group.pc = "closed" /\ group' = [group EXCEPT !.pc = "done"]
  /\ processHandles' = {}
  /\ UNCHANGED <<plugin, visit, instance, browser, page, call, callCount, event, outcome>>

BrowsersNext ==
  \/ \E u \in BrowserUrl : WorkerStep(u) \/ Invoke(u) \/ BrowserCrashes(u)
  \/ \E u \in BrowserUrl, c \in Calls : BrowserCalls(u, c)
  \/ CloseAllProcesses \/ CloseAllWindows \/ DeleteInstances

BrowsersSpec == BrowsersInit /\ [][BrowsersNext]_browserVars
-----------------------------------------------------------------------------
BrowsersTypeOK ==
  /\ plugin \in {"bulk", "factory"}
  /\ visit \in [BrowserUrl -> {"todo", "start", "attach", "wait", "close", "free", "done"}]
  /\ instance \in [BrowserUrl ->
       [handle : Handle \cup {NoHandle}, main : {"empty"} \cup Pages,
        major : {"OK", "NETWORK_ERROR"}, minor : {"none", "wininet", "http"},
        pid : BrowserPid \cup {NoPid}]]
  /\ browser \in [BrowserUrl -> {"none", "open", "ended"}]
  /\ page \in [BrowserUrl -> {"deaf", "blank", "home", "target"}]
  /\ event \in [Handle -> {"closed", "unset"} \cup BrowserUrl]
  /\ processHandles \subseteq BrowserPid
  /\ group \in [pc : {"visiting", "closed", "done"}, warned : BOOLEAN]

(* When a group is over none of its browsers runs on into the next visit    *)
(* without a warning in the answer to the server, be it one that never      *)
(* showed a window, one that could not be listened to or one that quit late. *)
NoBrowserOutlivesTheVisit == group.pc # "visiting" /\ ~group.warned => Open = {}
=============================================================================
