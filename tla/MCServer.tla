------------------------------ MODULE MCServer ------------------------------
(***************************************************************************)
(* An instance for TLC of the two places where the server's threads wait:  *)
(* the queues and the thread that ends the server when they are empty, and *)
(* the monitors around a client.  They are modelled apart, so a behaviour  *)
(* is one of the two, and the other keeps one initial state.               *)
(***************************************************************************)
EXTENDS QueueMonitor, ClientLocks, TLC

CONSTANTS cl1, v1

OneClient == {cl1 :> v1}

VARIABLE which   \* queues or locks

serverVars == <<which, vars, monitor, lockVars>>

ServerInit ==
  /\ which \in {"queues", "locks"} /\ MonitorInit /\ LocksInit
  /\ which = "locks" => ~monitor.on

OnQueues(A) == which = "queues" /\ A /\ UNCHANGED <<which, lockVars>>
OnLocks(A) == which = "locks" /\ A /\ UNCHANGED <<which, vars, monitor>>

ServerNext == OnQueues(MonitorNext) \/ OnLocks(LocksNext)

\* MonitorFairness and LocksFairness, each for its part.
ServerFairness ==
  /\ WF_serverVars(OnQueues(Monitor))
  /\ \A s \in Session :
       /\ WF_serverVars(OnQueues(Running(BeginTake(s))))
       /\ WF_serverVars(OnQueues(Running(\E u \in Urls : TakeUrl(s, u))))
       /\ WF_serverVars(OnQueues(Running(PopGroup(s))))
       /\ WF_serverVars(OnQueues(Running(Visit(s))))
       /\ WF_serverVars(OnQueues(Running(GiveUp(s))))
       /\ WF_serverVars(OnQueues(Running(/\ session[s].pc = "deaf"
                                         /\ \E c \in Codes : MarkError(s, c, FALSE))))
  /\ \A t \in Threads : WF_serverVars(OnLocks(CallStep(t)))
  /\ \A c \in Client : WF_serverVars(OnLocks(RetrieverStep(c)))
  /\ \A v \in Machine : WF_serverVars(OnLocks(EndRevert(v)))

ServerSpec == ServerInit /\ [][ServerNext]_serverVars /\ ServerFairness
=============================================================================
