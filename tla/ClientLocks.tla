---------------------------- MODULE ClientLocks ----------------------------
(***************************************************************************)
(* The threads of the server that meet in a client and its virtual machine *)
(* and the three monitors they take: that of the machine, that of the      *)
(* client and that of the client's retriever thread, which the retriever   *)
(* holds except while it waits, also while it waits for URLs.              *)
(*                                                                         *)
(* A thread is the stack of the calls it has still to make, innermost      *)
(* first.  A step makes one call; entering a monitor and the assignments   *)
(* up to the next call are one step.  An exception unwinds the stack and   *)
(* leaves every monitor.                                                   *)
(***************************************************************************)
EXTENDS Naturals, Sequences, FiniteSets

CONSTANTS
  Client,      \* connections, each of which becomes a Client object
  Machine,     \* virtual machines
  Mapping,     \* set of functions: which machine a client runs on
  MaxGroups,   \* bound: URL groups to visit
  MaxReverts,  \* bound: reverts of a machine
  NoOne        \* null

ASSUME LocksAssumption ==
  /\ Mapping \subseteq [Client -> Machine] /\ Mapping # {}
  /\ MaxGroups \in Nat /\ MaxReverts \in Nat
  /\ NoOne \notin Client

Checker == <<"checker">>           \* VirtualMachinesStateChecker
Pinger == <<"pinger">>             \* ClientsPinger
Receiver(c) == <<"receiver", c>>   \* ClientEventController
Retriever(c) == <<"retriever", c>> \* Client.run
Worker(v) == <<"worker", v>>       \* VMwareServer.run, as far as v is concerned

Threads == {Checker, Pinger} \cup {Receiver(c) : c \in Client}
             \cup {Retriever(c) : c \in Client} \cup {Worker(v) : v \in Machine}

VmLock(v) == <<"vm", v>>
ClientLock(c) == <<"client", c>>
RetrieverLock(c) == <<"urlRetriever", c>>
Locks == {VmLock(v) : v \in Machine} \cup {ClientLock(c) : c \in Client}
           \cup {RetrieverLock(c) : c \in Client}

VARIABLES
  machineOf,   \* where the clients run
  vmState,     \* VirtualMachine.vmState
  vmClient,    \* VirtualMachine.client
  requested,   \* the machine is in the queue of reverts
  reverts,     \* reverts of a machine so far
  clientState, \* Client.clientState, "NEW" before there is an object
  hasGroup,    \* Client.visitingUrlGroup is not null
  wire,        \* what the remote client has been sent or has answered
  urls,        \* groups takeUrlGroup can still return
  calls,       \* the calls a thread has still to make
  owner,       \* owner of a monitor and how often it entered
  asleep,      \* clients whose retriever is in the wait set
  pinged,      \* clients of the pinger
  pings,       \* those the pinger has still to visit in this round
  pinger       \* "ok", "stale" - the set changed under the iterator -, "dead"

machineVars == <<machineOf, vmState, vmClient, requested, reverts>>
clientVars == <<clientState, hasGroup, wire, urls>>
threadVars == <<calls, owner, asleep>>
pingVars == <<pinged, pings, pinger>>
lockVars == <<machineVars, clientVars, threadVars, pingVars>>

LocksInit ==
  /\ machineOf \in Mapping
  /\ vmState = [v \in Machine |-> "RUNNING"]
  /\ vmClient = [v \in Machine |-> NoOne]
  /\ requested = [v \in Machine |-> FALSE] /\ reverts = [v \in Machine |-> 0]
  /\ clientState = [c \in Client |-> "NEW"]
  /\ hasGroup = [c \in Client |-> FALSE] /\ wire = [c \in Client |-> "none"]
  /\ urls = MaxGroups
  /\ calls = [t \in Threads |-> <<>>]
  /\ owner = [l \in Locks |-> [by |-> NoOne, depth |-> 0]]
  /\ asleep = {} /\ pinged = {} /\ pings = {} /\ pinger = "ok"
-----------------------------------------------------------------------------
(* Monitors.                                                               *)
MayEnter(t, l) == owner[l].depth = 0 \/ owner[l].by = t
Entered(t, l) == [owner EXCEPT ![l] = [by |-> t, depth |-> owner[l].depth + 1]]
Left(l) == [owner EXCEPT ![l].depth = owner[l].depth - 1]
WithoutOwner(t) == [l \in Locks |->
  IF owner[l].by = t THEN [by |-> NoOne, depth |-> 0] ELSE owner[l]]

Leave(l) == <<"leave", l>>
SetVmState(v, s) == <<"VirtualMachine.setState", v, s>>
SetClientState(c, s) == <<"setClientState", c, s>>
Call(name, c) == <<name, c>>

Calling(t, name) == calls[t] # <<>> /\ Head(calls[t])[1] = name
Then(t, more) == calls' = [calls EXCEPT ![t] = more \o Tail(calls[t])]

LeaveStep(t) == LET l == Head(calls[t])[2] IN
  /\ Calling(t, "leave")
  /\ owner' = Left(l) /\ Then(t, <<>>)
  /\ UNCHANGED <<machineVars, clientVars, asleep, pingVars>>

(* VirtualMachine.setState.  The observers are told after the monitor was  *)
(* left; what they do is the subject of RevertQueue.                       *)
VmStateStep(t) == LET v == Head(calls[t])[2]
                      s == Head(calls[t])[3]
                      c == vmClient[v] IN
  /\ Calling(t, "VirtualMachine.setState") /\ MayEnter(t, VmLock(v))
  /\ vmState' = [vmState EXCEPT ![v] = s]
  /\ IF /\ vmState[v] # s /\ s = "WAITING_TO_BE_REVERTED"
        /\ c # NoOne /\ clientState[c] # "DISCONNECTED"
     THEN /\ owner' = Entered(t, VmLock(v))
          /\ Then(t, <<SetClientState(c, "DISCONNECTED"), Leave(VmLock(v)), Call("notifyVm", v)>>)
     ELSE /\ Then(t, IF vmState[v] = s THEN <<>> ELSE <<Call("notifyVm", v)>>)
          /\ UNCHANGED owner
  /\ UNCHANGED <<machineOf, vmClient, requested, reverts, clientVars, asleep, pingVars>>

NotifyVmStep(t) == LET v == Head(calls[t])[2] IN
  /\ Calling(t, "notifyVm") /\ Then(t, <<>>)
  /\ requested' = [requested EXCEPT ![v] =
       requested[v] \/ vmState[v] = "WAITING_TO_BE_REVERTED"]
  /\ UNCHANGED <<machineOf, vmState, vmClient, reverts, clientVars, owner, asleep,
                 pingVars>>

(* Seeded fault: the retriever of a client that waits is not notified.   *)
AfterClientState_NoNotify(c, s) ==
  (CASE s = "WAITING" -> <<SetVmState(machineOf[c], "RUNNING")>>
     [] s = "DISCONNECTED" -> <<Call("disconnect", c), Call("notifyAll", c)>>
     [] s = "CONNECTED" -> <<Call("send", c)>>
     [] OTHER -> <<>>)
  \o <<Call("notifyPinger", c)>>

(* Client.setClientState, by the new state.                                *)
AfterClientState(c, s) ==
  (CASE s = "WAITING" -> <<SetVmState(machineOf[c], "RUNNING"), Call("notifyAll", c)>>
     [] s = "DISCONNECTED" -> <<Call("disconnect", c), Call("notifyAll", c)>>
     [] s = "CONNECTED" -> <<Call("send", c)>>
     [] OTHER -> <<>>)
  \o <<Call("notifyPinger", c)>>

ClientStateStep(t) == LET c == Head(calls[t])[2]
                          s == Head(calls[t])[3] IN
  /\ Calling(t, "setClientState") /\ MayEnter(t, ClientLock(c))
  /\ IF clientState[c] = s
     THEN Then(t, <<>>) /\ UNCHANGED <<clientState, owner>>
     ELSE /\ clientState' = [clientState EXCEPT ![c] = s]
          /\ owner' = Entered(t, ClientLock(c))
          /\ Then(t, AfterClientState(c, s))
  /\ UNCHANGED <<machineVars, hasGroup, wire, urls, asleep, pingVars>>

(* Client.disconnect, up to the machine; the machine forgets its client,   *)
(* whoever that is by now.                                                 *)
DisconnectStep(t) == LET c == Head(calls[t])[2] IN
  /\ Calling(t, "disconnect")
  /\ vmClient' = [vmClient EXCEPT ![machineOf[c]] = NoOne]
  /\ Then(t, <<SetVmState(machineOf[c], "WAITING_TO_BE_REVERTED"), Call("testGroup", c)>>)
  /\ UNCHANGED <<machineOf, vmState, requested, reverts, clientVars, owner, asleep,
                 pingVars>>

(* The group is tested for null and used, the socket closed.               *)
TestGroupStep(t) == LET c == Head(calls[t])[2] IN
  /\ Calling(t, "testGroup")
  /\ Then(t, IF hasGroup[c] THEN <<Call("useGroup", c)>> ELSE <<SetClientState(c, "DISCONNECTED")>>)
  /\ UNCHANGED <<machineVars, clientVars, owner, asleep, pingVars>>

(* The exception ends the call, and with it the threads that do not catch  *)
(* it: the checker does.                                                   *)
Ended(t) == calls' = [calls EXCEPT ![t] = IF t = Checker THEN <<>> ELSE <<Call("dead", NoOne)>>]

UseGroupStep(t) == LET c == Head(calls[t])[2] IN
  /\ Calling(t, "useGroup")
  /\ IF hasGroup[c]
     THEN Then(t, <<SetClientState(c, "DISCONNECTED")>>) /\ UNCHANGED <<owner, pinger>>
     ELSE /\ Ended(t) /\ owner' = WithoutOwner(t)
          /\ pinger' = IF t = Pinger THEN "dead" ELSE pinger
  /\ UNCHANGED <<machineVars, clientVars, asleep, pinged, pings>>

(* Client.send, and what follows a failure; the visit of a group is sent   *)
(* by setVisitingUrlGroup, which goes on to overwrite the state.           *)
SendStep(t) == LET c == Head(calls[t])[2]
                   visit == calls[t][1][1] = "sendVisit" IN
  /\ Calling(t, "send") \/ Calling(t, "sendVisit")
  /\ \/ /\ clientState[c] # "DISCONNECTED"
        /\ Then(t, IF visit THEN <<Call("overwrite", c)>> ELSE <<>>)
        /\ wire' = [wire EXCEPT ![c] = IF visit THEN "visit" ELSE wire[c]]
     \/ /\ Then(t, IF clientState[c] = "DISCONNECTED" THEN <<>>
                   ELSE <<SetClientState(c, "DISCONNECTED")>>)
        /\ UNCHANGED wire
  /\ UNCHANGED <<machineVars, clientState, hasGroup, urls, owner, asleep, pingVars>>

NotifyAllStep(t) == LET c == Head(calls[t])[2] IN
  /\ Calling(t, "notifyAll") /\ MayEnter(t, RetrieverLock(c)) /\ Then(t, <<>>)
  /\ asleep' = asleep \ {c}
  /\ UNCHANGED <<machineVars, clientVars, owner, pingVars>>

(* ClientsPinger.update: the set compares clients by their machine.  Then  *)
(* setClientState leaves the monitor of the client.                        *)
SameMachine(c) == {d \in pinged : machineOf[d] = machineOf[c]}

WithoutClient(c) == pinged \ SameMachine(c)

NotifyPingerStep(t) == LET c == Head(calls[t])[2] IN
  /\ Calling(t, "notifyPinger") /\ Then(t, <<>>)
  /\ pinged' = CASE clientState[c] = "DISCONNECTED" -> WithoutClient(c)
                 [] clientState[c] = "CONNECTED" /\ SameMachine(c) = {} -> pinged \cup {c}
                 [] OTHER -> pinged
  /\ pinger' = IF pinged' # pinged /\ pings # {} /\ pinger = "ok" THEN "stale" ELSE pinger
  /\ owner' = Left(ClientLock(c))
  /\ UNCHANGED <<machineVars, clientVars, asleep, pings>>
-----------------------------------------------------------------------------
(* ClientEventController: a client of a machine that was reverted connects.*)
Guest(v) == {c \in Client : machineOf[c] = v /\ clientState[c] # "NEW"}

ConnectClient(c) == LET v == machineOf[c] IN
  /\ clientState[c] = "NEW" /\ calls[Receiver(c)] = <<>>
  /\ Cardinality(Guest(v)) <= reverts[v]
  /\ clientState' = [clientState EXCEPT ![c] = "CONNECTING"]
  /\ vmClient' = [vmClient EXCEPT ![v] = c]
  /\ calls' = [calls EXCEPT
       ![Receiver(c)] = <<SetClientState(c, "CONNECTED"), SetClientState(c, "WAITING")>>,
       ![Retriever(c)] = <<Call("awake", c)>>]
  /\ UNCHANGED <<machineOf, vmState, requested, reverts, hasGroup, wire, urls, owner,
                 asleep, pingVars>>

(* The answers to a visit: start, and the end that the group is dropped for*)
ReceiveStart(c) ==
  /\ calls[Receiver(c)] = <<>> /\ wire[c] = "visit"
  /\ wire' = [wire EXCEPT ![c] = "started"]
  /\ calls' = [calls EXCEPT ![Receiver(c)] = <<SetClientState(c, "VISITING")>>]
  /\ UNCHANGED <<machineVars, clientState, hasGroup, urls, owner, asleep, pingVars>>

ReceiveEnd(c) == \E s \in {"WAITING", "DISCONNECTED"} :
  /\ calls[Receiver(c)] = <<>> /\ wire[c] = "started"
  /\ wire' = [wire EXCEPT ![c] = "none"]
  /\ hasGroup' = [hasGroup EXCEPT ![c] = FALSE]
  /\ calls' = [calls EXCEPT ![Receiver(c)] = <<SetClientState(c, s)>>]
  /\ UNCHANGED <<machineVars, clientState, urls, owner, asleep, pingVars>>

(* Client.run: the retriever enters its monitor, also after a wait, and    *)
(* looks at the state; it takes a group there and waits again.             *)
WakeStep(c) == LET t == Retriever(c) IN
  /\ Calling(t, "awake") /\ c \notin asleep /\ MayEnter(t, RetrieverLock(c))
  /\ CASE clientState[c] = "DISCONNECTED" -> Then(t, <<>>) /\ UNCHANGED <<owner,
                                                       asleep>>
       [] clientState[c] = "WAITING" ->
            /\ owner' = Entered(t, RetrieverLock(c))
            /\ Then(t, <<Call("take", c), Call("wait", c)>>) /\ UNCHANGED asleep
       [] OTHER -> asleep' = asleep \cup {c} /\ UNCHANGED <<calls, owner>>
  /\ UNCHANGED <<machineVars, clientVars, pingVars>>

TakeStep(c) == LET t == Retriever(c) IN
  /\ Calling(t, "take") /\ urls > 0
  /\ urls' = urls - 1
  /\ hasGroup' = [hasGroup EXCEPT ![c] = TRUE]
  /\ Then(t, <<Call("sendVisit", c)>>)
  /\ UNCHANGED <<machineVars, clientState, wire, owner, asleep, pingVars>>

OverwriteStep(c) == LET t == Retriever(c) IN
  /\ Calling(t, "overwrite") /\ Then(t, <<>>)
  /\ clientState' = [clientState EXCEPT ![c] = "AWAITING_VISITING"]
  /\ UNCHANGED <<machineVars, hasGroup, wire, urls, owner, asleep, pingVars>>

(* Seeded fault: the retriever sleeps without leaving its monitor.       *)
WaitStep_Keeps(c) == LET t == Retriever(c) IN
  /\ Calling(t, "wait")
  /\ asleep' = asleep \cup {c}
  /\ Then(t, <<Call("awake", c)>>)
  /\ UNCHANGED <<machineVars, clientVars, owner, pingVars>>

WaitStep(c) == LET t == Retriever(c) IN
  /\ Calling(t, "wait")
  /\ owner' = Left(RetrieverLock(c)) /\ asleep' = asleep \cup {c}
  /\ Then(t, <<Call("awake", c)>>)
  /\ UNCHANGED <<machineVars, clientVars, pingVars>>

(* A timeout of the machine, of whatever kind.                             *)
CheckMachine(v) ==
  /\ calls[Checker] = <<>> /\ vmState[v] # "WAITING_TO_BE_REVERTED" /\ reverts[v] < MaxReverts
  /\ calls' = [calls EXCEPT ![Checker] = <<SetVmState(v, "WAITING_TO_BE_REVERTED")>>]
  /\ UNCHANGED <<machineVars, clientVars, owner, asleep, pingVars>>

(* The revert runs inside the machine's monitor, and so does the delay     *)
(* after it, in which the new client may connect.                          *)
BeginRevert(v) == LET t == Worker(v) IN
  /\ calls[t] = <<>> /\ requested[v] /\ reverts[v] < MaxReverts /\ MayEnter(t, VmLock(v))
  /\ owner' = Entered(t, VmLock(v))
  /\ vmState' = [vmState EXCEPT ![v] = "REVERTING"]
  /\ calls' = [calls EXCEPT ![t] = <<Call("reverted", v)>>]
  /\ UNCHANGED <<machineOf, vmClient, requested, reverts, clientVars, asleep, pingVars>>

EndRevert(v) == LET t == Worker(v) IN
  /\ Calling(t, "reverted")
  /\ vmState' = [vmState EXCEPT ![v] = "RUNNING"]
  /\ reverts' = [reverts EXCEPT ![v] = reverts[v] + 1]
  /\ requested' = [requested EXCEPT ![v] = FALSE]
  /\ Then(t, <<Leave(VmLock(v))>>)
  /\ UNCHANGED <<machineOf, vmClient, clientVars, owner, asleep, pingVars>>

(* ClientsPinger.run: an iterator of the set, which the set's next change  *)
(* makes useless; its exception ends the timer.                            *)
BeginPings ==
  /\ calls[Pinger] = <<>> /\ pings = {} /\ pinger # "dead"
  /\ pings' = pinged /\ pinger' = "ok"
  /\ UNCHANGED <<machineVars, clientVars, threadVars, pinged>>

Ping(c) ==
  /\ calls[Pinger] = <<>> /\ c \in pings /\ pinger # "dead"
  /\ IF pinger = "ok"
     THEN /\ calls' = [calls EXCEPT ![Pinger] = <<Call("send", c)>>]
          /\ pings' = pings \ {c} /\ UNCHANGED pinger
     ELSE pinger' = "dead" /\ pings' = {} /\ UNCHANGED calls
  /\ UNCHANGED <<machineVars, clientVars, owner, asleep, pinged>>

CallStep(t) ==
  \/ LeaveStep(t) \/ VmStateStep(t) \/ NotifyVmStep(t) \/ ClientStateStep(t)
  \/ DisconnectStep(t) \/ TestGroupStep(t) \/ UseGroupStep(t) \/ SendStep(t)
  \/ NotifyAllStep(t) \/ NotifyPingerStep(t)

RetrieverStep(c) == TakeStep(c) \/ OverwriteStep(c) \/ WaitStep(c) \/ WakeStep(c)

Working ==
  \/ \E t \in Threads : CallStep(t)
  \/ \E c \in Client : RetrieverStep(c)
  \/ \E v \in Machine : EndRevert(v)

LocksNext ==
  \/ Working
  \/ \E c \in Client : ConnectClient(c) \/ ReceiveStart(c) \/ ReceiveEnd(c) \/ Ping(c)
  \/ \E v \in Machine : CheckMachine(v) \/ BeginRevert(v)
  \/ BeginPings

LocksSpec == LocksInit /\ [][LocksNext]_lockVars

(* The threads run; what the clients and the clock do is left open.        *)
LocksFairness ==
  /\ \A t \in Threads : WF_lockVars(CallStep(t))
  /\ \A c \in Client : WF_lockVars(RetrieverStep(c))
  /\ \A v \in Machine : WF_lockVars(EndRevert(v))

LiveLocksSpec == LocksSpec /\ LocksFairness
-----------------------------------------------------------------------------
ClientStates == {"NEW", "CONNECTING", "CONNECTED", "WAITING", "AWAITING_VISITING", "VISITING",
                 "DISCONNECTED"}

LocksTypeOK ==
  /\ machineOf \in Mapping
  /\ vmState \in [Machine -> {"RUNNING", "WAITING_TO_BE_REVERTED", "REVERTING"}]
  /\ vmClient \in [Machine -> Client \cup {NoOne}]
  /\ clientState \in [Client -> ClientStates]
  /\ \A l \in Locks : owner[l].depth > 0 => owner[l].by \in Threads
  /\ asleep \subseteq Client /\ pings \subseteq Client /\ pinged \subseteq Client
  /\ \A c, d \in pinged : machineOf[c] = machineOf[d] => c = d

(* The monitor a thread has to enter next.                                 *)
Wanted(t) ==
  IF calls[t] = <<>> THEN {}
  ELSE LET call == Head(calls[t]) IN
       CASE call[1] = "VirtualMachine.setState" -> {VmLock(call[2])}
         [] call[1] = "setClientState" -> {ClientLock(call[2])}
         [] call[1] = "notifyAll" -> {RetrieverLock(call[2])}
         [] call[1] = "awake" -> {RetrieverLock(call[2])} \ {RetrieverLock(c) : c \in asleep}
         [] OTHER -> {}

(* Each thread of S waits for a monitor that one of S owns.                *)
CircularWait == \E S \in SUBSET Threads \ {{}} :
  \A t \in S : \E l \in Wanted(t) : ~MayEnter(t, l) /\ owner[l].by \in S

(* A retriever waits for URLs, inside its monitor.                         *)
OutOfUrls == urls = 0 /\ \E c \in Client : Calling(Retriever(c), "take")

(* No wake-up is lost: a retriever that sleeps although its client waits   *)
(* for a group is about to be notified.                                    *)
NoNotifyIsLost ==
  \A c \in asleep : clientState[c] = "WAITING" =>
    \E t \in Threads : \E i \in 1..Len(calls[t]) : calls[t][i] = Call("notifyAll", c)

(* The state checker, whose timeouts keep every machine going, gets stuck  *)
(* in two ways only: in a circular wait of threads, and behind a retriever *)
(* that waits for URLs.                                                    *)
CheckerReturns ==
  calls[Checker] # <<>> ~> calls[Checker] = <<>> \/ CircularWait \/ OutOfUrls

(* "dont change to set function call - could cause deadlock": the threads  *)
(* do not block each other.                                                *)
NoCircularWait == ~CircularWait
=============================================================================
