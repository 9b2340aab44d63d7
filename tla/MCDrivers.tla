----------------------------- MODULE MCDrivers ------------------------------
(***************************************************************************)
(* Instances of the drivers' modules for TLC.  The drivers, and the parts  *)
(* of the network driver, share no state, so a behaviour is one of the     *)
(* part it picks in its first state, and the others keep one initial       *)
(* state.                                                                  *)
(***************************************************************************)
EXTENDS MonitorQueue, FileDriver, ProcessEvents, TdiConnections, EventHandlers, HashMap,
        SharedEventList, TLC

VARIABLE which   \* the part this behaviour is about

driverVars == <<which, queueVars, fileVars, processVars, tdiVars, handlerVars, mapVars,
                sharedVars>>

\* One processor and users who keep to the pace of the timer, and neither.
TwoWorlds == {[multi |-> FALSE, punctual |-> TRUE], [multi |-> TRUE, punctual |-> FALSE]}

\* A file below a directory of a drive, and one on a share.
Files == {[volume |-> "v", dirs |-> <<"d">>, name |-> "a"],
          [volume |-> "w", dirs |-> <<>>, name |-> "a"]}
Drives == [v |-> <<"C">>, w |-> <<>>]

DriversInit ==
  /\ which \in {"queue", "file", "process", "tdi", "handlers", "map", "shared"}
  /\ QueueInit /\ FileInit /\ ProcessInit /\ TdiInit /\ HandlersInit /\ MapInit /\ SharedInit
  /\ which # "queue" => world = [multi |-> FALSE, punctual |-> TRUE]
  /\ which # "process" => running = [p \in Pid |-> None]
  /\ which # "handlers" => openFiles = {}

\* A step of the part, with everything else as it is.
OnQueue(A) == which = "queue" /\ A
  /\ UNCHANGED <<which, fileVars, processVars, tdiVars, handlerVars, mapVars, sharedVars>>

DriversNext ==
  \/ OnQueue(QueueNext)
  \/ which = "file" /\ FileNext
     /\ UNCHANGED <<which, queueVars, processVars, tdiVars, handlerVars, mapVars, sharedVars>>
  \/ which = "process" /\ ProcessNext
     /\ UNCHANGED <<which, queueVars, fileVars, tdiVars, handlerVars, mapVars, sharedVars>>
  \/ which = "tdi" /\ TdiNext
     /\ UNCHANGED <<which, queueVars, fileVars, processVars, handlerVars, mapVars, sharedVars>>
  \/ which = "handlers" /\ HandlersNext
     /\ UNCHANGED <<which, queueVars, fileVars, processVars, tdiVars, mapVars, sharedVars>>
  \/ which = "map" /\ MapNext
     /\ UNCHANGED <<which, queueVars, fileVars, processVars, tdiVars, handlerVars, sharedVars>>
  \/ which = "shared" /\ SharedNext
     /\ UNCHANGED <<which, queueVars, fileVars, processVars, tdiVars, handlerVars, mapVars>>

DriversSpec ==
  /\ DriversInit /\ [][DriversNext]_driverVars
  /\ SF_driverVars(OnQueue(Request))
  /\ \A d \in Drainer : WF_driverVars(OnQueue(Draining(d)))

\* The two drivers with a list that a client reads through requests implement
\* the channel.
DriversAreChannels == ImplementsChannel /\ FileDriverIsAChannel

\* The type invariants.
DriversTypeOK ==
  /\ QueueTypeOK /\ FileTypeOK /\ ProcessTypeOK /\ TdiTypeOK /\ SharedTypeOK
  /\ HandlersTypeOK /\ MapTypeOK
=============================================================================
