----------------------------- MODULE ClientVisit -----------------------------
(***************************************************************************)
(* The visit of a URL group inside the client: the receiver thread queues  *)
(* it, the visitor thread takes it and lets the application plug-in hand   *)
(* its URLs to worker threads that browse, and the analyzer collects the   *)
(* events of the system monitors' threads and answers the server.  The     *)
(* workers are those of the plug-ins InternetExplorer and                  *)
(* InternetExplorerBulk, whose visitGroup is the same.  The connection     *)
(* does not break.                                                         *)
(***************************************************************************)
EXTENDS Integers, Sequences

CONSTANTS
  Groups,            \* URL groups the server may send
  Size,              \* number of URLs of each group
  Supported,         \* groups for whose program there is a plug-in
  MaxWorkerThreads,  \* MAX_WORKER_THREADS
  Monitors,          \* threads of the system monitors
  Codes,             \* major error codes the visit of one URL may end with
  NotRetried         \* those for which the server does not retry a group

ASSUME ClientAssumption ==
  /\ Size \in [Groups -> Nat \ {0}]
  /\ Supported \subseteq Groups
  /\ MaxWorkerThreads \in Nat \ {0}
  /\ NotRetried \subseteq Codes
  /\ Codes \cap {"OK", "MULTIPLE", "EXCEPTION", "none"} = {}

VARIABLES
  toVisit,        \* Visitor: the queue of visit events
  queueNotEmpty,  \* Visitor: auto-reset event
  receiver,       \* receiver thread: "idle", or "pushed" with the event to set
  received,       \* the groups the server has sent so far
  visitor,        \* visitor thread: pc, and the locals of run and visitGroup
  worker,         \* the worker_ arrays and the worker threads
  code,           \* major error code of each URL of the group, "none" before
  analyzer,       \* Analyzer: callbacks connected, malicious
  monitor,        \* a monitor's thread in a callback of the analyzer, and
                  \* the visit in which that began (history)
  report          \* history: what the server was told about each group

vars == <<toVisit, queueNotEmpty, receiver, received, visitor, worker, code,
          analyzer, monitor, report>>

Worker   == 0 .. MaxWorkerThreads - 1
UrlCodes  == Codes \union {"OK"}
Notices  == Codes \union {"OK", "WARNING", "MULTIPLE", "EXCEPTION"}
VisitPc  == {"prestart", "connect", "start", "alloc", "assign", "join", "close"}
IdleWorker == [pc |-> "wait", busy |-> FALSE, data |-> 0, url |-> 0,
               hasData |-> FALSE, finished |-> FALSE]

Init ==
  /\ toVisit = <<>> /\ queueNotEmpty = FALSE
  /\ receiver = "idle" /\ received = {}
  /\ \E g \in Groups :   \* not read before the first pop and the first event
       /\ visitor = [pc |-> "wait", group |-> g, next |-> 0, visited |-> 0,
                     i |-> 0, notice |-> "OK"]
       /\ monitor = [m \in Monitors |-> [pc |-> "idle", visit |-> g]]
  /\ worker = [w \in Worker |-> IdleWorker]
  /\ code = <<>>
  /\ analyzer = [connected |-> FALSE, malicious |-> FALSE]
  /\ report = [g \in Groups |-> [started |-> FALSE, answers |-> 0,
                 event |-> FALSE, malicious |-> FALSE, notice |-> "OK"]]

At(pc)   == visitor.pc = pc
Goto(pc) == visitor' = [visitor EXCEPT !.pc = pc]
-----------------------------------------------------------------------------
(* The receiver thread                                                     *)

\* The server answers a visit that was benign and ended well, or with an error
\* it does not retry, with the next group; otherwise it drops the client.
ServerGoesOn ==
  \A g \in received :
    /\ report[g].answers = 1 /\ ~report[g].malicious
    /\ report[g].notice \in NotRetried \union {"OK", "WARNING", "MULTIPLE"}

\* onServerEvent: the push, ...
Receive(g) ==
  /\ receiver = "idle" /\ g \notin received /\ ServerGoesOn
  /\ toVisit' = Append(toVisit, g)
  /\ receiver' = "pushed"
  /\ received' = received \union {g}
  /\ UNCHANGED <<queueNotEmpty, visitor, worker, code, analyzer, monitor, report>>

\* ... and the event.
WakeVisitor ==
  /\ receiver = "pushed"
  /\ queueNotEmpty' = TRUE /\ receiver' = "idle"
  /\ UNCHANGED <<toVisit, received, visitor, worker, code, analyzer, monitor,
                 report>>
-----------------------------------------------------------------------------
(* The visitor thread                                                      *)

\* Seeded fault: the event is not reset by the wait.
Wait_ManualReset ==
  /\ At("wait") /\ queueNotEmpty /\ Goto("pop")
  /\ UNCHANGED <<toVisit, queueNotEmpty, receiver, received, worker, code,
                 analyzer, monitor, report>>

Wait ==
  /\ At("wait") /\ queueNotEmpty /\ Goto("pop")
  /\ queueNotEmpty' = FALSE
  /\ UNCHANGED <<toVisit, receiver, received, worker, code, analyzer, monitor,
                 report>>

\* A visit for an unknown program is dropped.
Pop ==
  /\ At("pop") /\ toVisit # <<>>
  /\ toVisit' = Tail(toVisit)
  /\ visitor' = [visitor EXCEPT !.group = Head(toVisit), !.notice = "OK",
                   !.pc = IF Head(toVisit) \in Supported THEN "prestart" ELSE "wait"]
  /\ UNCHANGED <<queueNotEmpty, receiver, received, worker, code, analyzer,
                 monitor, report>>

\* Analyzer.start forgets the last visit, and then connects the callbacks.
PreStart ==
  /\ At("prestart") /\ Goto("connect")
  /\ analyzer' = [analyzer EXCEPT !.malicious = FALSE]
  /\ UNCHANGED <<toVisit, queueNotEmpty, receiver, received, worker, code,
                 monitor, report>>

Connect ==
  /\ At("connect") /\ Goto("start")
  /\ analyzer' = [analyzer EXCEPT !.connected = TRUE]
  /\ UNCHANGED <<toVisit, queueNotEmpty, receiver, received, worker, code,
                 monitor, report>>

\* Seeded fault: the flag is reset by the start of the visit.
Start_Resets ==
  /\ At("start") /\ Goto("alloc")
  /\ report' = [report EXCEPT ![visitor.group].started = TRUE]
  /\ analyzer' = [analyzer EXCEPT !.malicious = FALSE]
  /\ UNCHANGED <<toVisit, queueNotEmpty, receiver, received, worker, code,
                 monitor>>

Start ==
  /\ At("start") /\ Goto("alloc")
  /\ report' = [report EXCEPT ![visitor.group].started = TRUE]
  /\ UNCHANGED <<toVisit, queueNotEmpty, receiver, received, worker, code,
                 analyzer, monitor>>

\* visitGroup allocates what it needs, or throws: run notifies the exception.
Allocate ==
  /\ At("alloc")
  /\ \/ visitor' = [visitor EXCEPT !.pc = "stop", !.notice = "EXCEPTION"]
     \/ visitor' = [visitor EXCEPT !.pc = "assign", !.next = 0, !.visited = 0, !.i = 0]
  /\ code' = [u \in 1 .. Size[visitor.group] |-> "none"]
  /\ UNCHANGED <<toVisit, queueNotEmpty, receiver, received, worker, analyzer,
                 monitor, report>>

\* The next URL goes to worker i if it is not busy.
Assign ==
  LET w == visitor.i
  IN  /\ At("assign") /\ w < MaxWorkerThreads
      /\ \/ /\ ~worker[w].busy /\ visitor.next < Size[visitor.group]
            /\ visitor' = [visitor EXCEPT !.i = w + 1, !.next = @ + 1]
            /\ worker' = [worker EXCEPT ![w].data = visitor.next + 1,
                            ![w].busy = TRUE, ![w].hasData = TRUE]
         \/ /\ worker[w].busy \/ visitor.next = Size[visitor.group]
            /\ visitor' = [visitor EXCEPT !.i = w + 1]
            /\ UNCHANGED worker
      /\ UNCHANGED <<toVisit, queueNotEmpty, receiver, received, code, analyzer,
                     monitor, report>>

EndAssign ==
  /\ At("assign") /\ visitor.i = MaxWorkerThreads /\ Goto("join")
  /\ UNCHANGED <<toVisit, queueNotEmpty, receiver, received, worker, code,
                 analyzer, monitor, report>>

\* The while loop of visitGroup, once n of its URLs are counted as visited
Loop(n) ==
  visitor' = [visitor EXCEPT !.visited = n, !.i = 0,
                !.pc = IF n < Size[visitor.group] THEN "assign" ELSE "close"]

\* WaitForMultipleObjects resets the first event that is set.  The URL counts
\* unless its worker has got the next one in the meantime.
Join ==
  /\ At("join")
  /\ \E w \in Worker :
       /\ worker[w].finished /\ \A v \in 0 .. w - 1 : ~worker[v].finished
       /\ worker' = [worker EXCEPT ![w].finished = FALSE]
       /\ Loop(IF worker[w].busy THEN visitor.visited ELSE visitor.visited + 1)
  /\ UNCHANGED <<toVisit, queueNotEmpty, receiver, received, code, analyzer,
                 monitor, report>>

\* Seeded fault: the index of a timeout is not told from that of a worker.
JoinTimeout_Counts ==
  /\ At("join") /\ \A w \in Worker : ~worker[w].finished
  /\ Loop(visitor.visited + 1)
  /\ UNCHANGED <<toVisit, queueNotEmpty, receiver, received, worker, code,
                 analyzer, monitor, report>>

\* The wait is over after a minute.
JoinTimeout ==
  /\ At("join") /\ \A w \in Worker : ~worker[w].finished
  /\ Loop(visitor.visited)
  /\ UNCHANGED <<toVisit, queueNotEmpty, receiver, received, worker, code,
                 analyzer, monitor, report>>

\* VisitEvent: anything that is set after an error makes it multiple errors.
SetErrorCode(old, new) == IF old # "OK" THEN "MULTIPLE" ELSE new

\* What setting the codes of all URLs leaves: a code other than OK stays only
\* if it is that of the last URL.
JointCode(codes) ==
  LET bad == {u \in 1 .. Len(codes) : codes[u] # "OK"}
  IN  CASE bad = {}           -> "OK"
        [] bad = {Len(codes)} -> codes[Len(codes)]
        [] OTHER              -> "MULTIPLE"

\* The codes of the URLs, and a warning if a browser was not closed, are set
\* one after the other; then visit_information and the instances are deleted.
Close ==
  /\ At("close")
  /\ LET joint == JointCode(code)
     IN  \E n \in {joint, SetErrorCode(joint, "WARNING")} :
           visitor' = [visitor EXCEPT !.pc = "stop", !.notice = n]
  /\ UNCHANGED <<toVisit, queueNotEmpty, receiver, received, worker, code,
                 analyzer, monitor, report>>

\* Analyzer.stop, for an error as well as for a finish
Stop ==
  /\ At("stop") /\ Goto("answer")
  /\ analyzer' = [analyzer EXCEPT !.connected = FALSE]
  /\ UNCHANGED <<toVisit, queueNotEmpty, receiver, received, worker, code,
                 monitor, report>>

\* The answer goes out.  After an exception the error code is still OK, and
\* run notifies a finish too.
Answer ==
  /\ At("answer")
  /\ report' = [report EXCEPT ![visitor.group].answers = @ + 1,
                              ![visitor.group].malicious = analyzer.malicious,
                              ![visitor.group].notice = visitor.notice]
  /\ visitor' = [visitor EXCEPT !.notice = "OK",
                   !.pc = IF visitor.notice = "EXCEPTION" THEN "stop" ELSE "post"]
  /\ UNCHANGED <<toVisit, queueNotEmpty, receiver, received, worker, code,
                 analyzer, monitor>>

\* The visit event is deleted; the server may have sent the next one already.
PostFinish ==
  /\ At("post") /\ Goto("wait")
  /\ UNCHANGED <<toVisit, queueNotEmpty, receiver, received, worker, code,
                 analyzer, monitor, report>>

Visitor ==
  \/ Wait \/ Pop \/ PreStart \/ Connect \/ Start \/ Allocate \/ Assign
  \/ EndAssign \/ Join \/ JoinTimeout \/ Close \/ Stop \/ Answer
  \/ PostFinish
-----------------------------------------------------------------------------
(* The worker threads                                                      *)

Take(w) ==
  /\ worker[w].pc = "wait" /\ worker[w].hasData
  /\ worker' = [worker EXCEPT ![w].pc = "visit", ![w].hasData = FALSE,
                              ![w].url = worker[w].data]
  /\ UNCHANGED <<toVisit, queueNotEmpty, receiver, received, visitor, code,
                 analyzer, monitor, report>>

\* visitUrl, and the flag that the worker is free ...
Browse(w) ==
  /\ worker[w].pc = "visit"
  /\ \E c \in UrlCodes : code' = [code EXCEPT ![worker[w].url] = c]
  /\ worker' = [worker EXCEPT ![w].pc = "signal", ![w].busy = FALSE]
  /\ UNCHANGED <<toVisit, queueNotEmpty, receiver, received, visitor, analyzer,
                 monitor, report>>

\* ... before the event.
Signal(w) ==
  /\ worker[w].pc = "signal"
  /\ worker' = [worker EXCEPT ![w].pc = "wait", ![w].finished = TRUE]
  /\ UNCHANGED <<toVisit, queueNotEmpty, receiver, received, visitor, code,
                 analyzer, monitor, report>>

\* Seeded fault: the worker signals first and is free later.
WorkerStep_SignalsFirst(w) ==
  \/ Take(w)
  \/ /\ worker[w].pc = "visit"
     /\ \E c \in UrlCodes : code' = [code EXCEPT ![worker[w].url] = c]
     /\ worker' = [worker EXCEPT ![w].pc = "signal", ![w].finished = TRUE]
     /\ UNCHANGED <<toVisit, queueNotEmpty, receiver, received, visitor,
                    analyzer, monitor, report>>
  \/ /\ worker[w].pc = "signal"
     /\ worker' = [worker EXCEPT ![w].pc = "wait", ![w].busy = FALSE]
     /\ UNCHANGED <<toVisit, queueNotEmpty, receiver, received, visitor, code,
                    analyzer, monitor, report>>

WorkerStep(w) == Take(w) \/ Browse(w) \/ Signal(w)
-----------------------------------------------------------------------------
(* The threads of the system monitors                                      *)

\* An event that no exclusion list allows calls the analyzer if connected.
Event(m) ==
  /\ monitor[m].pc = "idle" /\ analyzer.connected
  /\ monitor' = [monitor EXCEPT ![m] = [pc |-> "called", visit |-> visitor.group]]
  /\ UNCHANGED <<toVisit, queueNotEmpty, receiver, received, visitor, worker,
                 code, analyzer, report>>

Flag(m) ==
  /\ monitor[m].pc = "called"
  /\ monitor' = [monitor EXCEPT ![m].pc = "flagged"]
  /\ analyzer' = [analyzer EXCEPT !.malicious = TRUE]
  /\ UNCHANGED <<toVisit, queueNotEmpty, receiver, received, visitor, worker,
                 code, report>>

SendEvent(m) ==
  /\ monitor[m].pc = "flagged"
  /\ monitor' = [monitor EXCEPT ![m].pc = "idle"]
  /\ report' = IF monitor[m].visit = visitor.group /\ report[visitor.group].answers = 0
               THEN [report EXCEPT ![visitor.group].event = TRUE]
               ELSE report
  /\ UNCHANGED <<toVisit, queueNotEmpty, receiver, received, visitor, worker,
                 code, analyzer>>

MonitorStep(m) == Event(m) \/ Flag(m) \/ SendEvent(m)

Next ==
  \/ \E g \in Groups : Receive(g)
  \/ WakeVisitor
  \/ Visitor
  \/ \E w \in Worker : WorkerStep(w)
  \/ \E m \in Monitors : MonitorStep(m)

Spec == Init /\ [][Next]_vars

(* The client's own threads go on; visitUrl ends, each of its waits has a   *)
(* timeout.                                                                *)
LiveSpec == /\ Spec /\ WF_vars(WakeVisitor) /\ WF_vars(Visitor)
            /\ \A w \in Worker : WF_vars(WorkerStep(w))
            /\ \A m \in Monitors : WF_vars(Flag(m) \/ SendEvent(m))

-----------------------------------------------------------------------------
(* Properties                                                              *)

TypeOK ==
  /\ toVisit \in Seq(Groups) /\ queueNotEmpty \in BOOLEAN
  /\ receiver \in {"idle", "pushed"} /\ received \subseteq Groups
  /\ visitor \in [pc : VisitPc \union {"wait", "pop", "stop", "answer", "post"},
                  group : Groups, next : Nat, visited : Nat, i : 0 .. MaxWorkerThreads,
                  notice : Notices]
  /\ worker \in [Worker -> [pc : {"wait", "visit", "signal"}, busy : BOOLEAN,
                            data : Nat, url : Nat, hasData : BOOLEAN,
                            finished : BOOLEAN]]
  /\ code \in Seq(UrlCodes \union {"none"})
  /\ analyzer \in [connected : BOOLEAN, malicious : BOOLEAN]
  /\ monitor \in [Monitors -> [pc : {"idle", "called", "flagged"}, visit : Groups]]
  /\ report \in [Groups -> [started : BOOLEAN, answers : 0 .. 2, event : BOOLEAN,
                            malicious : BOOLEAN, notice : Notices]]

\* The visitor thread wakes up for every group in its queue, and never pops
\* an empty queue, although the event that wakes it up does not count.
NoLostWakeUp ==
  /\ At("pop") => toVisit # <<>>
  /\ At("wait") /\ toVisit # <<>> => queueNotEmpty \/ receiver = "pushed"

\* When visitGroup deletes its browser instances each URL of the group was
\* visited, and no worker thread has, or is going to get, one of them.
JoinIsComplete ==
  At("close") => /\ \A u \in 1 .. Size[visitor.group] : code[u] # "none"
                 /\ \A w \in Worker : worker[w].pc # "visit" /\ ~worker[w].hasData

\* An answer calls the visit malicious if any event that began in the visit was
\* sent to the server before, however the threads of the monitors and of the
\* visitor interleave, and whatever callbacks of an earlier visit still run.
VerdictCoversEvents ==
  \A g \in Groups : report[g].answers > 0 /\ report[g].event => report[g].malicious

\* visitGroup returns, and the server gets an answer, for a group that does
\* not have more URLs than there are worker threads.
SmallGroupsAreAnswered ==
  \A g \in Supported : Size[g] <= MaxWorkerThreads =>
    (At("alloc") /\ visitor.group = g) ~> report[g].answers > 0

\* Readme.txt, group size: plug-in internetexplorer fully supports groups of up
\* to 80 URLs, more than its 60 worker threads.  (The event of a worker that
\* has got its next URL in the meantime is not counted; visitGroup then waits
\* for ever.)
EveryGroupIsAnswered ==
  \A g \in Supported : (At("alloc") /\ visitor.group = g) ~> report[g].answers > 0
=============================================================================
