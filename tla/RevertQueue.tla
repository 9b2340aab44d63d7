----------------------------- MODULE RevertQueue -----------------------------
(***************************************************************************)
(* Reverting virtual machines: the state of the VirtualMachine objects of  *)
(* one VMware server, its queue of work items, the VMwareServer thread     *)
(* that works the queue off, and the threads that call                     *)
(* VirtualMachine.setState: the configuration thread, the state checker    *)
(* and the receiver threads of connected clients.                          *)
(*                                                                         *)
(* Only the monitor of a VirtualMachine is modelled, and of the callers    *)
(* only the steps that another thread can come between: setState changes   *)
(* the state inside the monitor and notifies its observers outside of it.  *)
(* The monitor of a Client and the URL groups are left out.  Time is       *)
(* abstract: a timeout of the state checker may strike at any moment.      *)
(***************************************************************************)
EXTENDS Naturals, FiniteSets, Sequences, SequencesExt

CONSTANTS
  VM,         \* virtual machines of the server
  Receiver,   \* receiver threads, one for each connection of a client
  Checker,    \* the timer thread of the VirtualMachinesStateChecker
  Main,       \* the thread that reads the configuration
  NoClient    \* null reference

Caller == Receiver \cup {Checker, Main}

ASSUME ConstantsAssumption ==
  /\ VM # {} /\ IsFiniteSet(VM)
  /\ IsFiniteSet(Receiver)
  /\ Checker \notin Receiver /\ Main \notin Receiver /\ Checker # Main
  /\ NoClient \notin Receiver

VARIABLES
  vm,         \* VirtualMachine.vmState
  client,     \* VirtualMachine.client
  changed,    \* the changed flag of Observable
  queue,      \* VMwareServer.queuedWorkItems; an item is its machine
  worker,     \* the VMwareServer thread
  thread,     \* the calls of setState under way
  alive,      \* the client of a receiver is not DISCONNECTED
  booted,     \* machines that were reverted, so that clients run in them
  lost        \* history: a request for a revert was dropped, see ContainsItem

vars == <<vm, client, changed, queue, worker, thread, alive, booted, lost>>

State == {"STOPPED", "WAITING_TO_BE_REVERTED", "REVERTING", "RUNNING", "ERROR"}

(* pc of a caller: "idle"; "finish" a client finished a visit; "monitor"   *)
(* before the synchronized block of setState; "changed", "notify" in the   *)
(* two calls after it; "update", "contains", "add" in VMwareServer.update. *)
(* pc of the worker: "peek"; "enter" before synchronized(item.vm);         *)
(* "reverting" and "delay" inside of it; "remove" in the finally clause.   *)
TypeOK ==
  /\ vm \in [VM -> State]
  /\ client \in [VM -> Receiver \cup {NoClient}]
  /\ changed \in [VM -> BOOLEAN]
  /\ queue \in Seq(VM)
  /\ worker \in [pc : {"peek", "enter", "reverting", "delay", "remove"}, vm : VM]
  /\ thread \in [Caller -> [pc : {"idle", "finish", "monitor", "changed", "notify",
                                  "update", "contains", "add"},
                            vm : VM, to : State]]
  /\ alive \in [Receiver -> BOOLEAN]
  /\ booted \in SUBSET VM
  /\ lost \in SUBSET VM

Init ==
  /\ vm = [v \in VM |-> "STOPPED"]
  /\ client = [v \in VM |-> NoClient]
  /\ changed = [v \in VM |-> FALSE]
  /\ queue = <<>>
  /\ \E v \in VM : /\ worker = [pc |-> "peek", vm |-> v]
                   /\ thread = [t \in Caller |-> [pc |-> "idle", vm |-> v, to |-> "STOPPED"]]
  /\ alive = [r \in Receiver |-> FALSE]
  /\ booted = {}
  /\ lost = {}

\* Seeded fault: setState is not synchronized.
Locked_Never(v) == FALSE

\* The VMwareServer thread owns the monitor of v during the whole revert and
\* the delay after it.
Locked(v) == worker.pc \in {"reverting", "delay"} /\ worker.vm = v

InQueue(v) == \E i \in DOMAIN queue : queue[i] = v

Items(v) == Cardinality({i \in DOMAIN queue : queue[i] = v})

\* Items of v beyond the one of a revert that began.
Pending(v) ==
  Items(v) > (IF worker.pc \in {"reverting", "delay", "remove"} /\ worker.vm = v
              THEN 1 ELSE 0)

-----------------------------------------------------------------------------
(* VirtualMachine.setState, by a thread other than the VMwareServer        *)

GoTo(t, pc) == thread' = [thread EXCEPT ![t].pc = pc]

Call(t, v, new) ==
  thread' = [thread EXCEPT ![t] = [pc |-> "monitor", vm |-> v, to |-> new]]

\* The synchronized block.  A machine that is going to be reverted loses its
\* client: it is disconnected, which sets the client of the machine to null.
SetState(t) ==
  LET v   == thread[t].vm
      new == thread[t].to
      c   == client[v]
  IN /\ thread[t].pc = "monitor"
     /\ ~Locked(v)
     /\ \/ /\ vm[v] = new
           /\ GoTo(t, "idle")
           /\ UNCHANGED <<vm, client, alive>>
        \/ /\ vm[v] # new
           /\ vm' = [vm EXCEPT ![v] = new]
           /\ GoTo(t, "changed")
           /\ \/ /\ new = "WAITING_TO_BE_REVERTED" /\ c # NoClient /\ alive[c]
                 /\ client' = [client EXCEPT ![v] = NoClient]
                 /\ alive' = [alive EXCEPT ![c] = FALSE]
              \/ /\ ~(new = "WAITING_TO_BE_REVERTED" /\ c # NoClient /\ alive[c])
                 /\ UNCHANGED <<client, alive>>
     /\ UNCHANGED <<changed, queue, worker, booted, lost>>

SetChanged(t) ==
  /\ thread[t].pc = "changed"
  /\ changed' = [changed EXCEPT ![thread[t].vm] = TRUE]
  /\ GoTo(t, "notify")
  /\ UNCHANGED <<vm, client, queue, worker, alive, booted, lost>>

\* Another thread's notifyObservers may have taken the flag.
NotifyObservers(t) ==
  /\ thread[t].pc = "notify"
  /\ changed' = [changed EXCEPT ![thread[t].vm] = FALSE]
  /\ GoTo(t, IF changed[thread[t].vm] THEN "update" ELSE "idle")
  /\ UNCHANGED <<vm, client, queue, worker, alive, booted, lost>>

\* VMwareServer.update looks at the state the machine has by now.
Update(t) ==
  /\ thread[t].pc = "update"
  /\ GoTo(t, IF vm[thread[t].vm] = "WAITING_TO_BE_REVERTED" THEN "contains" ELSE "idle")
  /\ UNCHANGED <<vm, client, changed, queue, worker, alive, booted, lost>>

\* revertVirtualMachineStateAsync: a machine that has an item needs no other
\* one.  lost records the one case where it does: the only item is that of
\* the revert that is over and is removed next.
ContainsItem(t) ==
  LET v == thread[t].vm
  IN /\ thread[t].pc = "contains"
     /\ GoTo(t, IF InQueue(v) THEN "idle" ELSE "add")
     /\ lost' = IF /\ worker.pc = "remove" /\ worker.vm = v
                   /\ Items(v) = 1 /\ vm[v] = "WAITING_TO_BE_REVERTED"
                THEN lost \cup {v} ELSE lost
     /\ UNCHANGED <<vm, client, changed, queue, worker, alive, booted>>

Add(t) ==
  /\ thread[t].pc = "add"
  /\ queue' = Append(queue, thread[t].vm)
  /\ GoTo(t, "idle")
  /\ UNCHANGED <<vm, client, changed, worker, alive, booted, lost>>

SetStateStep(t) ==
  \/ SetState(t) \/ SetChanged(t) \/ NotifyObservers(t)
  \/ Update(t) \/ ContainsItem(t) \/ Add(t)

-----------------------------------------------------------------------------
(* The callers                                                             *)

\* VMwareServer.addVirtualMachine
AddVirtualMachine(v) ==
  /\ thread[Main].pc = "idle"
  /\ vm[v] = "STOPPED"
  /\ Call(Main, v, "WAITING_TO_BE_REVERTED")
  /\ UNCHANGED <<vm, client, changed, queue, worker, alive, booted, lost>>

\* Seeded fault: only running machines are looked at.
Timeout_RunningOnly(v) ==
  /\ thread[Checker].pc = "idle"
  /\ vm[v] = "RUNNING"
  /\ Call(Checker, v, "WAITING_TO_BE_REVERTED")
  /\ UNCHANGED <<vm, client, changed, queue, worker, alive, booted, lost>>

\* The state checker finds an inactive client or a stalled machine, in
\* whatever state the machine is.
Timeout(v) ==
  /\ thread[Checker].pc = "idle"
  /\ vm[v] # "STOPPED" \/ (thread[Main].pc # "idle" /\ thread[Main].vm = v)
  /\ Call(Checker, v, "WAITING_TO_BE_REVERTED")
  /\ UNCHANGED <<vm, client, changed, queue, worker, alive, booted, lost>>

\* A connect event: the new Client replaces the one the machine had.
Connect(r, v) ==
  /\ thread[r].pc = "idle"
  /\ ~alive[r]
  /\ v \in booted
  /\ alive' = [alive EXCEPT ![r] = TRUE]
  /\ client' = [client EXCEPT ![v] = r]
  /\ Call(r, v, "RUNNING")
  /\ UNCHANGED <<vm, changed, queue, worker, booted, lost>>

\* A benign visit is over; until the client is told to wait again another
\* thread may disconnect it, and that is not noticed.
FinishVisit(r) ==
  /\ thread[r].pc = "idle"
  /\ alive[r]
  /\ GoTo(r, "finish")
  /\ UNCHANGED <<vm, client, changed, queue, worker, alive, booted, lost>>

BecomeWaiting(r) ==
  /\ thread[r].pc = "finish"
  /\ alive' = [alive EXCEPT ![r] = TRUE]
  /\ Call(r, thread[r].vm, "RUNNING")
  /\ UNCHANGED <<vm, client, changed, queue, worker, booted, lost>>

\* Client.disconnect, after a malicious visit, an error or a failed send
Disconnect(r) ==
  /\ thread[r].pc = "idle"
  /\ alive[r]
  /\ alive' = [alive EXCEPT ![r] = FALSE]
  /\ client' = [client EXCEPT ![thread[r].vm] = NoClient]
  /\ Call(r, thread[r].vm, "WAITING_TO_BE_REVERTED")
  /\ UNCHANGED <<vm, changed, queue, worker, booted, lost>>

-----------------------------------------------------------------------------
(* VMwareServer.run                                                        *)

Peek ==
  /\ worker.pc = "peek"
  /\ queue # <<>>
  /\ worker' = [pc |-> "enter", vm |-> Head(queue)]
  /\ UNCHANGED <<vm, client, changed, queue, thread, alive, booted, lost>>

\* setState(REVERTING), whose notification finds nothing to do
BeginRevert ==
  LET v == worker.vm
  IN /\ worker.pc = "enter"
     /\ vm' = [vm EXCEPT ![v] = "REVERTING"]
     /\ changed' = [changed EXCEPT ![v] = FALSE]
     /\ worker' = [worker EXCEPT !.pc = "reverting"]
     /\ booted' = booted \cup {v}
     /\ lost' = lost \ {v}
     /\ UNCHANGED <<client, queue, thread, alive>>

\* The revert program returns or is stopped after revert_timeout seconds.
EndRevert(result) ==
  /\ worker.pc = "reverting"
  /\ vm' = [vm EXCEPT ![worker.vm] = result]
  /\ changed' = [changed EXCEPT ![worker.vm] = FALSE]
  /\ worker' = [worker EXCEPT !.pc = "delay"]
  /\ UNCHANGED <<client, queue, thread, alive, booted, lost>>

LeaveMonitor ==
  /\ worker.pc = "delay"
  /\ worker' = [worker EXCEPT !.pc = "remove"]
  /\ UNCHANGED <<vm, client, changed, queue, thread, alive, booted, lost>>

\* Seeded fault: all items of the machine are removed.
RemoveItem_All ==
  /\ worker.pc = "remove"
  /\ queue' = SelectSeq(queue, LAMBDA v : v # worker.vm)
  /\ worker' = [worker EXCEPT !.pc = "peek"]
  /\ UNCHANGED <<vm, client, changed, thread, alive, booted, lost>>

\* remove(item) takes the first equal item.
RemoveItem ==
  /\ worker.pc = "remove"
  /\ queue' = RemoveFirst(queue, worker.vm)
  /\ worker' = [worker EXCEPT !.pc = "peek"]
  /\ UNCHANGED <<vm, client, changed, thread, alive, booted, lost>>

WorkerStep ==
  \/ Peek \/ BeginRevert \/ LeaveMonitor \/ RemoveItem
  \/ \E result \in {"RUNNING", "ERROR"} : EndRevert(result)

-----------------------------------------------------------------------------
Next ==
  \/ \E t \in Caller : SetStateStep(t)
  \/ \E v \in VM : AddVirtualMachine(v)
  \/ \E v \in VM : Timeout(v)
  \/ \E r \in Receiver, v \in VM : Connect(r, v)
  \/ \E r \in Receiver : FinishVisit(r) \/ BecomeWaiting(r) \/ Disconnect(r)
  \/ WorkerStep

Spec == Init /\ [][Next]_vars

\* Threads that can run do so, and none waits for ever for a monitor that is
\* left again and again; the checker looks at every machine each second and a
\* machine that does not leave a state runs into its timeout.
Fairness ==
  /\ WF_vars(WorkerStep)
  /\ \A t \in Caller : WF_vars(SetStateStep(t)) /\ SF_vars(SetState(t))
  /\ \A r \in Receiver : WF_vars(BecomeWaiting(r))
  /\ \A v \in VM : WF_vars(AddVirtualMachine(v))
  /\ \A v \in VM : SF_vars(vm[v] # "RUNNING" /\ Timeout(v))

LiveSpec == Spec /\ Fairness

-----------------------------------------------------------------------------
(* Properties                                                              *)

\* Nobody else touches the state of a machine while it is being reverted:
\* it is REVERTING exactly as long as the revert program runs for it.
RevertIsExclusive ==
  \A v \in VM : vm[v] = "REVERTING" <=> worker.pc = "reverting" /\ worker.vm = v

\* On its way to VMwareServer.update or past the test there.
Requesting(t, v) ==
  thread[t].vm = v /\ thread[t].pc \in {"changed", "notify", "update", "contains", "add"}

\* A machine that waits to be reverted has a work item that is still to be
\* worked off, or a thread is about to add one, or the request fell into the
\* one window the code has: between the end of a revert and the removal of
\* its item.  The dropped changed flag, the stale state in update, double
\* items and late clients lose nothing.
WaitingIsQueuedOrLost ==
  \A v \in VM :
    vm[v] = "WAITING_TO_BE_REVERTED" =>
      \/ Pending(v)
      \/ \E t \in Caller : Requesting(t, v)
      \/ v \in lost

\* Every work item is worked off: its machine is reverted, also if others are
\* queued before it and whatever the callers do.
QueuedIsReverted == \A v \in VM : Pending(v) ~> vm[v] = "REVERTING"

\* A machine whose revert failed, or that waits for one, is reverted again or
\* taken up by a client, unless its request was lost.
FailedRevertIsRepeated ==
  \A v \in VM : vm[v] \in {"ERROR", "WAITING_TO_BE_REVERTED"} ~>
                  vm[v] \in {"REVERTING", "RUNNING"} \/ v \in lost

\* Readme.txt, vm_stalled timeouts and revert_timeout: the machine is
\* reverted.  (The request may be lost, and a machine that already waits is
\* never queued again.)
WaitingIsReverted ==
  \A v \in VM : vm[v] = "WAITING_TO_BE_REVERTED" ~> vm[v] \in {"REVERTING", "RUNNING"}
=============================================================================
