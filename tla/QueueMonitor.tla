---------------------------- MODULE QueueMonitor ----------------------------
(***************************************************************************)
(* The QueueMonitor thread of UrlGroupsController (option terminate):      *)
(* ends the server once it found no work left twice, ten seconds apart.    *)
(* It reads four sizes one after the other, without a lock, while the      *)
(* threads of UrlGroups go on; a group that a retriever took and that no   *)
(* client has started to visit is in none of them.  The database is off.   *)
(***************************************************************************)
EXTENDS UrlGroups

CONSTANT Processing   \* what processing() of the active postprocessor may return

ASSUME ProcessingAssumption == Processing \subseteq BOOLEAN /\ Processing # {}

VARIABLE monitor      \* the monitor thread: which test of which round is next

monitorVars == <<vars, monitor>>

\* on: the option terminate is set, so that the thread was started.
FirstTest == [on |-> TRUE, round |-> 1, test |-> "visiting", exited |-> FALSE]

MonitorTypeOK ==
  monitor \in [on : BOOLEAN, round : {1, 2}, exited : BOOLEAN,
               test : {"visiting", "groups", "urls", "postprocessor"}]

MonitorInit ==
  /\ Init
  /\ \E on \in BOOLEAN : monitor = [FirstTest EXCEPT !.on = on]

\* The conjuncts of the condition in run, in their order
TestHolds ==
  CASE monitor.test = "visiting"      -> \A g \in Group : visiting[g] = 0
    [] monitor.test = "groups"        -> groupQueue = <<>>
    [] monitor.test = "urls"          -> urlQueue = {}
    [] monitor.test = "postprocessor" -> FALSE \in Processing

TestMayFail ==
  IF monitor.test = "postprocessor" THEN TRUE \in Processing ELSE ~TestHolds

NextTest == [visiting |-> "groups", groups |-> "urls", urls |-> "postprocessor"]

\* A conjunct is true: on to the next one, to the second round, to the exit.
Pass ==
  /\ TestHolds
  /\ \/ /\ monitor.test # "postprocessor"
        /\ monitor' = [monitor EXCEPT !.test = NextTest[monitor.test]]
     \/ /\ monitor.test = "postprocessor"
        /\ monitor' = [monitor EXCEPT !.round = 2, !.test = "visiting",
                                      !.exited = monitor.round = 2]

\* A conjunct is false: sleep, and start over.
Fail == TestMayFail /\ monitor' = FirstTest

Monitor ==
  /\ monitor.on /\ ~monitor.exited
  /\ Pass \/ Fail
  /\ UNCHANGED vars

\* System.exit stops the other threads as well.
MonitorNext ==
  \/ Monitor
  \/ ~monitor.exited /\ Next /\ UNCHANGED monitor

MonitorSpec == MonitorInit /\ [][MonitorNext]_monitorVars

(* Fairness of the server's own threads and of remote clients that answer, *)
(* as long as the server runs.  Of the errors only one is required: the    *)
(* timeout of the state checker hits the group of a client whose receiver  *)
(* ended.                                                                  *)
Running(A) == ~monitor.exited /\ A /\ UNCHANGED monitor

MonitorFairness ==
  /\ WF_monitorVars(Monitor)
  /\ \A s \in Session :
       /\ WF_monitorVars(Running(BeginTake(s)))
       /\ WF_monitorVars(Running(\E u \in Urls : TakeUrl(s, u)))
       /\ WF_monitorVars(Running(PopGroup(s)))
       /\ WF_monitorVars(Running(Visit(s)))
       /\ WF_monitorVars(Running(GiveUp(s)))
       /\ WF_monitorVars(Running(/\ session[s].pc = "deaf"
                                 /\ \E c \in Codes : MarkError(s, c, FALSE)))

MonitorLiveSpec == MonitorSpec /\ MonitorFairness
-----------------------------------------------------------------------------
(* Properties                                                              *)

\* Every URL of the input gets a final state and keeps it, unless the server
\* ends before: splitting and retrying come to an end, and no retriever waits
\* for ever while there is work.
EveryUrlDecided ==
  \A u \in Urls : (u \in known) ~> ([]Final(u) \/ monitor.exited)

\* With the option terminate the server ends when it is done: no group is left
\* over for good in the list of visits or in the deque.
ServerTerminates == (monitor.on /\ known = Urls) ~> monitor.exited

\* Readme.txt, option terminate: the server terminates once all URLs are
\* processed.  (A group on its way to a client is overlooked.)
ExitMeansAllProcessed == monitor.exited => \A u \in known : Final(u)
=============================================================================
