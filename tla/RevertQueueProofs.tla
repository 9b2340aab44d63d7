-------------------------- MODULE RevertQueueProofs --------------------------
(***************************************************************************)
(* Proofs about RevertQueue, for every number of machines and clients:     *)
(* type correctness, the exclusiveness of a revert, that the item the      *)
(* VMwareServer thread removes is the one it worked off, and that a        *)
(* machine that waits has an item, or lost it in the one known window.     *)
(***************************************************************************)
EXTENDS RevertQueue, FiniteSetTheorems, TLAPS

\* setState(REVERTING) is called by the VMwareServer thread only.
TargetInv == \A t \in Caller : thread[t].to # "REVERTING"

\* peek leaves the item in the deque, at its head.
HeadInv == worker.pc # "peek" => queue # <<>> /\ Head(queue) = worker.vm

RInv == TypeOK /\ TargetInv /\ HeadInv /\ RevertIsExclusive

CallerRecord == [pc : {"idle", "finish", "monitor", "changed", "notify",
                       "update", "contains", "add"},
                 vm : VM, to : State]

WorkerRecord == [pc : {"peek", "enter", "reverting", "delay", "remove"}, vm : VM]

\* remove(item) takes the head, if the head is the item.
LEMMA RemoveHead ==
  ASSUME NEW S, NEW q \in Seq(S), q # <<>>
  PROVE  RemoveFirst(q, Head(q)) = Tail(q)
<1> DEFINE I == {i \in 1 .. Len(q) : q[i] = Head(q)}
<1>1. Len(q) \in Nat \ {0} /\ Head(q) = q[1]
  OBVIOUS
<1>2. 1 \in I /\ \A i \in I : 1 <= i
  BY <1>1
<1>3. SelectInSeq(q, LAMBDA v : v = Head(q)) = Min(I)
  BY <1>2 DEF SelectInSeq
<1>4. Min(I) = 1
  <2>1. \A x \in I : (\A y \in I : x =< y) => x = 1
    BY <1>2
  <2> HIDE DEF I
  <2>2. \E x \in I : \A y \in I : x =< y
    BY <1>2
  <2> QED BY <2>1, <2>2 DEF Min
<1>5. RemoveFirst(q, Head(q)) = RemoveAt(q, SelectInSeq(q, LAMBDA v : v = Head(q)))
  BY <1>1 DEF RemoveFirst
<1>6. RemoveAt(q, 1) = Tail(q)
  BY <1>1 DEF RemoveAt
<1> QED BY <1>3, <1>4, <1>5, <1>6

LEMMA InitRInv == Init => RInv
BY DEF Init, RInv, TypeOK, TargetInv, HeadInv, RevertIsExclusive, State

-----------------------------------------------------------------------------
(* Steps of the callers                                                    *)

\* A step of caller t that leaves the machines and the worker alone and may
\* only append to the queue.
LEMMA CallerStep ==
  ASSUME RInv, NEW t \in Caller, NEW new \in CallerRecord, new.to # "REVERTING",
         thread' = [thread EXCEPT ![t] = new],
         UNCHANGED <<vm, worker>>,
         queue' = queue \/ \E v \in VM : queue' = Append(queue, v),
         client' \in [VM -> Receiver \cup {NoClient}],
         changed' \in [VM -> BOOLEAN], alive' \in [Receiver -> BOOLEAN],
         booted' \in SUBSET VM, lost' \in SUBSET VM
  PROVE  RInv'
<1>1. thread \in [Caller -> CallerRecord] /\ queue \in Seq(VM)
  BY DEF RInv, TypeOK, CallerRecord
<1>2. thread' \in [Caller -> CallerRecord]
  BY <1>1
<1>3. queue' \in Seq(VM)
  <2>1. \A v \in VM : Append(queue, v) \in Seq(VM)
    BY <1>1
  <2> QED BY <1>1, <2>1, Zenon
<1>4. TypeOK'
  BY <1>2, <1>3 DEF RInv, TypeOK, CallerRecord
<1>5. TargetInv'
  BY <1>1 DEF RInv, TargetInv
<1>6. HeadInv'
  <2>1. CASE queue' = queue
    BY <2>1 DEF RInv, HeadInv
  <2>2. ASSUME NEW v \in VM, queue' = Append(queue, v) PROVE HeadInv'
    <3>1. queue # <<>> => queue' # <<>> /\ Head(queue') = Head(queue)
      BY <1>1, <2>2
    <3> QED BY <3>1 DEF RInv, HeadInv
  <2> QED BY <2>1, <2>2
<1>7. RevertIsExclusive'
  BY DEF RInv, RevertIsExclusive
<1> QED BY <1>4, <1>5, <1>6, <1>7 DEF RInv

\* What a caller's record is, and what becomes of it.
LEMMA CallerType ==
  ASSUME RInv, NEW t \in Caller
  PROVE  /\ thread[t] \in CallerRecord /\ thread[t].to # "REVERTING"
         /\ \A pc \in {"idle", "finish", "monitor", "changed", "notify", "update",
                       "contains", "add"} :
              LET new == [thread[t] EXCEPT !.pc = pc]
              IN new \in CallerRecord /\ new.to # "REVERTING"
<1>1. thread[t] \in CallerRecord
  BY DEF RInv, TypeOK, CallerRecord
<1>2. thread[t].to # "REVERTING"
  BY DEF RInv, TargetInv
<1> QED BY <1>1, <1>2 DEF CallerRecord

LEMMA GoToKeeps ==
  ASSUME RInv, NEW t \in Caller, NEW pc \in {"idle", "finish", "monitor", "changed",
                                             "notify", "update", "contains", "add"},
         GoTo(t, pc), UNCHANGED <<vm, worker>>,
         queue' = queue \/ \E v \in VM : queue' = Append(queue, v),
         client' \in [VM -> Receiver \cup {NoClient}],
         changed' \in [VM -> BOOLEAN], alive' \in [Receiver -> BOOLEAN],
         booted' \in SUBSET VM, lost' \in SUBSET VM
  PROVE  RInv'
<1> DEFINE new == [thread[t] EXCEPT !.pc = pc]
<1>1. new \in CallerRecord /\ new.to # "REVERTING"
  BY CallerType
<1>2. thread' = [thread EXCEPT ![t] = new]
  BY DEF GoTo
<1> HIDE DEF new
<1> QED BY <1>1, <1>2, CallerStep

LEMMA CallKeeps ==
  ASSUME RInv, NEW t \in Caller, NEW v \in VM,
         NEW to \in {"WAITING_TO_BE_REVERTED", "RUNNING"},
         Call(t, v, to), UNCHANGED <<vm, worker, queue>>,
         client' \in [VM -> Receiver \cup {NoClient}],
         changed' \in [VM -> BOOLEAN], alive' \in [Receiver -> BOOLEAN],
         booted' \in SUBSET VM, lost' \in SUBSET VM
  PROVE  RInv'
<1> DEFINE new == [pc |-> "monitor", vm |-> v, to |-> to]
<1>1. new \in CallerRecord /\ new.to # "REVERTING"
  BY DEF CallerRecord, State
<1>2. thread' = [thread EXCEPT ![t] = new]
  BY DEF Call
<1> HIDE DEF new
<1> QED BY <1>1, <1>2, CallerStep

\* What the types of the variables a step leaves alone are.
LEMMA Types ==
  ASSUME RInv
  PROVE  /\ client \in [VM -> Receiver \cup {NoClient}]
         /\ changed \in [VM -> BOOLEAN] /\ alive \in [Receiver -> BOOLEAN]
         /\ booted \in SUBSET VM /\ lost \in SUBSET VM
         /\ queue \in Seq(VM) /\ vm \in [VM -> State]
         /\ \A t \in Caller : thread[t].vm \in VM
BY DEF RInv, TypeOK

LEMMA SetStateKeeps == ASSUME RInv, NEW t \in Caller, SetState(t) PROVE RInv'
<1>1. SUFFICES ASSUME NEW v, v = thread[t].vm PROVE RInv'
  OBVIOUS
<1>2. v \in VM
  BY <1>1, Types
<1>3. CASE UNCHANGED vm
  <2>1. /\ client' \in [VM -> Receiver \cup {NoClient}]
        /\ alive' \in [Receiver -> BOOLEAN]
    BY Types DEF SetState
  <2>2. GoTo(t, "idle") \/ GoTo(t, "changed")
    BY DEF SetState
  <2>3. UNCHANGED <<vm, worker, queue, changed, booted, lost>>
    BY <1>3 DEF SetState
  <2> QED BY <2>1, <2>2, <2>3, Types, GoToKeeps
<1>4. ASSUME NEW new, new = thread[t].to, ~Locked(v), vm' = [vm EXCEPT ![v] = new]
      PROVE  RInv'
  <2>1. /\ new \in State /\ new # "REVERTING"
    BY <1>4 DEF RInv, TypeOK, TargetInv
  <2>2. UNCHANGED <<queue, worker, changed, booted, lost>>
        /\ (GoTo(t, "idle") \/ GoTo(t, "changed"))
    BY DEF SetState
  <2>3. /\ client' \in [VM -> Receiver \cup {NoClient}]
        /\ alive' \in [Receiver -> BOOLEAN]
    BY Types DEF SetState
  <2>4. PICK pc \in {"idle", "changed"} : thread' = [thread EXCEPT ![t].pc = pc]
    BY <2>2 DEF GoTo
  <2>5. thread \in [Caller -> CallerRecord]
    BY DEF RInv, TypeOK, CallerRecord
  <2>6. \A r \in Caller : thread'[r] \in CallerRecord /\ thread'[r].to = thread[r].to
    BY <2>4, <2>5 DEF CallerRecord
  <2>7. thread' \in [Caller -> CallerRecord]
    BY <2>4, <2>5, <2>6
  <2>8. vm' \in [VM -> State]
    BY <1>2, <1>4, <2>1, Types
  <2>9. TypeOK'
    BY <2>2, <2>3, <2>7, <2>8 DEF RInv, TypeOK, CallerRecord
  <2>10. TargetInv' /\ HeadInv'
    BY <2>2, <2>6 DEF RInv, TargetInv, HeadInv
  <2>11. vm[v] # "REVERTING"
    BY <1>2, <1>4 DEF RInv, RevertIsExclusive, Locked
  <2>12. RevertIsExclusive'
    BY <1>2, <1>4, <2>1, <2>2, <2>11, Types DEF RInv, RevertIsExclusive
  <2> QED BY <2>9, <2>10, <2>12 DEF RInv
<1> QED BY <1>1, <1>3, <1>4 DEF SetState

LEMMA SetStateStepKeeps == ASSUME RInv, NEW t \in Caller, SetStateStep(t) PROVE RInv'
<1>1. CASE SetState(t)
  BY <1>1, SetStateKeeps
<1>2. CASE SetChanged(t)
  <2>1. changed' \in [VM -> BOOLEAN]
    BY <1>2, Types DEF SetChanged
  <2> QED BY <1>2, <2>1, Types, GoToKeeps DEF SetChanged
<1>3. CASE NotifyObservers(t)
  <2>1. changed' \in [VM -> BOOLEAN]
    BY <1>3, Types DEF NotifyObservers
  <2>2. GoTo(t, "update") \/ GoTo(t, "idle")
    BY <1>3 DEF NotifyObservers
  <2>3. UNCHANGED <<vm, client, queue, worker, alive, booted, lost>>
    BY <1>3 DEF NotifyObservers
  <2> QED BY <2>1, <2>2, <2>3, Types, GoToKeeps
<1>4. CASE Update(t)
  <2>1. GoTo(t, "contains") \/ GoTo(t, "idle")
    BY <1>4 DEF Update
  <2>2. UNCHANGED <<vm, client, changed, queue, worker, alive, booted, lost>>
    BY <1>4 DEF Update
  <2> QED BY <2>1, <2>2, Types, GoToKeeps
<1>5. CASE ContainsItem(t)
  <2>1. GoTo(t, "add") \/ GoTo(t, "idle")
    BY <1>5 DEF ContainsItem
  <2>2. lost' \in SUBSET VM
    BY <1>5, Types DEF ContainsItem
  <2>3. UNCHANGED <<vm, client, changed, queue, worker, alive, booted>>
    BY <1>5 DEF ContainsItem
  <2> QED BY <2>1, <2>2, <2>3, Types, GoToKeeps
<1>6. CASE Add(t)
  <2>1. \E v \in VM : queue' = Append(queue, v)
    BY <1>6, Types DEF Add
  <2> QED BY <1>6, <2>1, Types, GoToKeeps DEF Add
<1> QED BY <1>1, <1>2, <1>3, <1>4, <1>5, <1>6 DEF SetStateStep

LEMMA ReceiverStepKeeps ==
  ASSUME RInv, NEW r \in Receiver,
         \/ \E v \in VM : Connect(r, v)
         \/ FinishVisit(r) \/ BecomeWaiting(r) \/ Disconnect(r)
  PROVE  RInv'
<1>0. r \in Caller
  BY DEF Caller
<1>1. ASSUME NEW v \in VM, Connect(r, v) PROVE RInv'
  <2>1. client' \in [VM -> Receiver \cup {NoClient}] /\ alive' \in [Receiver -> BOOLEAN]
    BY <1>1, Types DEF Connect
  <2> QED BY <1>0, <1>1, <2>1, Types, CallKeeps DEF Connect
<1>2. CASE FinishVisit(r)
  BY <1>0, <1>2, Types, GoToKeeps DEF FinishVisit
<1>3. CASE BecomeWaiting(r)
  <2>1. alive' \in [Receiver -> BOOLEAN]
    BY <1>3, Types DEF BecomeWaiting
  <2> QED BY <1>0, <1>3, <2>1, Types, CallKeeps DEF BecomeWaiting
<1>4. CASE Disconnect(r)
  <2>1. client' \in [VM -> Receiver \cup {NoClient}] /\ alive' \in [Receiver -> BOOLEAN]
    BY <1>0, <1>4, Types DEF Disconnect
  <2> QED BY <1>0, <1>4, <2>1, Types, CallKeeps DEF Disconnect
<1> QED BY <1>1, <1>2, <1>3, <1>4

LEMMA RequestKeeps ==
  ASSUME RInv, NEW v \in VM, AddVirtualMachine(v) \/ Timeout(v)
  PROVE  RInv'
<1>1. CASE AddVirtualMachine(v)
  BY <1>1, Types, CallKeeps DEF AddVirtualMachine, Caller
<1>2. CASE Timeout(v)
  BY <1>2, Types, CallKeeps DEF Timeout, Caller
<1> QED BY <1>1, <1>2

-----------------------------------------------------------------------------
(* Steps of the VMwareServer thread                                        *)

LEMMA WorkerStepKeeps == ASSUME RInv, WorkerStep PROVE RInv'
<1>1. worker \in WorkerRecord
  BY DEF RInv, TypeOK, WorkerRecord
<1>2. thread' = thread /\ TargetInv'
  BY DEF RInv, TargetInv, WorkerStep, Peek, BeginRevert, EndRevert, LeaveMonitor, RemoveItem
<1>3. CASE Peek
  <2>1. Head(queue) \in VM /\ queue # <<>>
    BY <1>3, Types DEF Peek
  <2>2. worker' = [pc |-> "enter", vm |-> Head(queue)] /\ worker.pc = "peek"
        /\ UNCHANGED <<vm, client, changed, queue, thread, alive, booted, lost>>
    BY <1>3 DEF Peek
  <2>3. TypeOK'
    BY <2>1, <2>2 DEF RInv, TypeOK
  <2>4. HeadInv' /\ RevertIsExclusive'
    BY <2>1, <2>2 DEF RInv, HeadInv, RevertIsExclusive
  <2> QED BY <1>2, <2>3, <2>4 DEF RInv
<1>4. CASE BeginRevert
  <2>1. /\ worker.pc = "enter" /\ worker.vm \in VM
        /\ vm' = [vm EXCEPT ![worker.vm] = "REVERTING"]
        /\ changed' = [changed EXCEPT ![worker.vm] = FALSE]
        /\ worker' = [worker EXCEPT !.pc = "reverting"]
        /\ booted' = booted \cup {worker.vm} /\ lost' = lost \ {worker.vm}
        /\ UNCHANGED <<client, queue, thread, alive>>
    BY <1>1, <1>4 DEF BeginRevert, WorkerRecord
  <2>2. worker'.pc = "reverting" /\ worker'.vm = worker.vm /\ worker' \in WorkerRecord
    BY <1>1, <2>1 DEF WorkerRecord
  <2>3. vm' \in [VM -> State] /\ changed' \in [VM -> BOOLEAN]
    BY <2>1, Types DEF State
  <2>4. TypeOK'
    BY <2>1, <2>2, <2>3 DEF RInv, TypeOK, WorkerRecord
  <2>5. HeadInv'
    BY <2>1, <2>2 DEF RInv, HeadInv
  <2>6. RevertIsExclusive'
    BY <2>1, <2>2, Types DEF RInv, RevertIsExclusive
  <2> QED BY <1>2, <2>4, <2>5, <2>6 DEF RInv
<1>5. ASSUME NEW result \in {"RUNNING", "ERROR"}, EndRevert(result) PROVE RInv'
  <2>1. /\ worker.pc = "reverting" /\ worker.vm \in VM
        /\ vm' = [vm EXCEPT ![worker.vm] = result]
        /\ changed' = [changed EXCEPT ![worker.vm] = FALSE]
        /\ worker' = [worker EXCEPT !.pc = "delay"]
        /\ UNCHANGED <<client, queue, thread, alive, booted, lost>>
    BY <1>1, <1>5 DEF EndRevert, WorkerRecord
  <2>2. worker'.pc = "delay" /\ worker'.vm = worker.vm /\ worker' \in WorkerRecord
    BY <1>1, <2>1 DEF WorkerRecord
  <2>3. vm' \in [VM -> State] /\ changed' \in [VM -> BOOLEAN]
    BY <2>1, Types DEF State
  <2>4. TypeOK'
    BY <2>1, <2>2, <2>3 DEF RInv, TypeOK, WorkerRecord
  <2>5. HeadInv'
    BY <2>1, <2>2 DEF RInv, HeadInv
  <2>6. RevertIsExclusive'
    BY <2>1, <2>2, Types DEF RInv, RevertIsExclusive
  <2> QED BY <1>2, <2>4, <2>5, <2>6 DEF RInv
<1>6. CASE LeaveMonitor
  <2>1. /\ worker.pc = "delay" /\ worker' = [worker EXCEPT !.pc = "remove"]
        /\ UNCHANGED <<vm, client, changed, queue, thread, alive, booted, lost>>
    BY <1>6 DEF LeaveMonitor
  <2>2. worker'.pc = "remove" /\ worker'.vm = worker.vm /\ worker' \in WorkerRecord
    BY <1>1, <2>1 DEF WorkerRecord
  <2>3. TypeOK'
    BY <2>1, <2>2 DEF RInv, TypeOK, WorkerRecord
  <2>4. HeadInv' /\ RevertIsExclusive'
    BY <2>1, <2>2 DEF RInv, HeadInv, RevertIsExclusive
  <2> QED BY <1>2, <2>3, <2>4 DEF RInv
<1>7. CASE RemoveItem
  <2>1. /\ worker.pc = "remove" /\ worker' = [worker EXCEPT !.pc = "peek"]
        /\ queue' = RemoveFirst(queue, worker.vm)
        /\ UNCHANGED <<vm, client, changed, thread, alive, booted, lost>>
    BY <1>7 DEF RemoveItem
  <2>2. worker'.pc = "peek" /\ worker' \in WorkerRecord
    BY <1>1, <2>1 DEF WorkerRecord
  <2>3. queue # <<>> /\ Head(queue) = worker.vm /\ queue \in Seq(VM)
    BY <2>1, Types DEF RInv, HeadInv
  <2>4. queue' = Tail(queue)
    BY <2>1, <2>3, RemoveHead
  <2>5. queue' \in Seq(VM)
    BY <2>3, <2>4
  <2>6. TypeOK'
    BY <2>1, <2>2, <2>5 DEF RInv, TypeOK, WorkerRecord
  <2>7. HeadInv' /\ RevertIsExclusive'
    BY <2>1, <2>2 DEF RInv, HeadInv, RevertIsExclusive
  <2> QED BY <1>2, <2>6, <2>7 DEF RInv
<1> QED BY <1>3, <1>4, <1>5, <1>6, <1>7 DEF WorkerStep

-----------------------------------------------------------------------------
(* The theorems                                                            *)

LEMMA NextRInv == RInv /\ [Next]_vars => RInv'
<1> SUFFICES ASSUME RInv, [Next]_vars PROVE RInv'
  OBVIOUS
<1>1. CASE \E t \in Caller : SetStateStep(t)
  BY <1>1, SetStateStepKeeps
<1>2. CASE \E v \in VM : AddVirtualMachine(v) \/ Timeout(v)
  BY <1>2, RequestKeeps
<1>3. CASE \E r \in Receiver : \/ \E v \in VM : Connect(r, v)
                              \/ FinishVisit(r) \/ BecomeWaiting(r) \/ Disconnect(r)
  BY <1>3, ReceiverStepKeeps
<1>4. CASE WorkerStep
  BY <1>4, WorkerStepKeeps
<1>5. CASE UNCHANGED vars
  BY <1>5 DEF vars, RInv, TypeOK, TargetInv, HeadInv, RevertIsExclusive
<1> QED BY <1>1, <1>2, <1>3, <1>4, <1>5 DEF Next

LEMMA RevertInvariance == Spec => []RInv
BY InitRInv, NextRInv, PTL DEF Spec

\* Every variable keeps its type; in particular the worker always has a
\* machine, and the deque holds machines only.
THEOREM RevertTypeCorrect == Spec => []TypeOK
<1>1. RInv => TypeOK
  BY DEF RInv
<1> QED BY <1>1, RevertInvariance, PTL

\* synchronized(item.vm) around the revert and in setState: for any number of
\* threads that call setState, nobody changes the state of a machine that is
\* being reverted.
THEOREM RevertExclusive == Spec => []RevertIsExclusive
<1>1. RInv => RevertIsExclusive
  BY DEF RInv
<1> QED BY <1>1, RevertInvariance, PTL

\* The item removed in the finally clause is the one that was peeked: remove
\* takes the head, whatever was added meanwhile.
THEOREM WorkedItemIsHead == Spec => []HeadInv
<1>1. RInv => HeadInv
  BY DEF RInv
<1> QED BY <1>1, RevertInvariance, PTL

-----------------------------------------------------------------------------
(* No request is lost but in the window                                    *)

\* An item that is still to be worked off: the head is not, once its revert
\* began.
Working(v) == worker.pc \in {"reverting", "delay", "remove"} /\ worker.vm = v

ToDo(v) == \E i \in DOMAIN queue : queue[i] = v /\ (Working(v) => i # 1)

\* A call whose notification is not over, and has not been taken by another
\* thread.
Announcing(t, v) ==
  /\ thread[t].vm = v
  /\ \/ thread[t].pc \in {"changed", "update", "contains", "add"}
     \/ thread[t].pc = "notify" /\ changed[v]

WaitsInv(v) ==
  vm[v] = "WAITING_TO_BE_REVERTED" =>
    ToDo(v) \/ v \in lost \/ \E t \in Caller : Announcing(t, v)

\* The monitor of the machine is owned during the delay.
DelayInv == worker.pc = "delay" => vm[worker.vm] # "WAITING_TO_BE_REVERTED"

WInv == RInv /\ DelayInv /\ \A v \in VM : WaitsInv(v)

LEMMA CountedItems ==
  ASSUME RInv, NEW v \in VM
  PROVE  /\ IsFiniteSet({i \in DOMAIN queue : queue[i] = v})
         /\ Items(v) \in Nat /\ (Items(v) = 0 <=> ~InQueue(v))
<1> DEFINE I == {i \in DOMAIN queue : queue[i] = v}
<1>1. queue \in Seq(VM)
  BY Types
<1>2. I \in SUBSET (1 .. Len(queue)) /\ Len(queue) \in Nat
  BY <1>1
<1>3. IsFiniteSet(1 .. Len(queue))
  BY <1>2, FS_Interval
<1>4. IsFiniteSet(I)
  BY <1>2, <1>3, FS_Subset
<1>5. Cardinality(I) \in Nat /\ (Cardinality(I) = 0 <=> I = {})
  BY <1>4, FS_CardinalityType, FS_EmptySet
<1> QED BY <1>4, <1>5 DEF Items, InQueue

\* The count of items of Pending, without counting.
LEMMA PendingIsToDo == ASSUME RInv, NEW v \in VM PROVE Pending(v) <=> ToDo(v)
<1> DEFINE I == {i \in DOMAIN queue : queue[i] = v}
<1>1. queue \in Seq(VM) /\ DOMAIN queue = 1 .. Len(queue) /\ Len(queue) \in Nat
  BY Types
<1>2. IsFiniteSet(I)
  BY CountedItems
<1>3. Items(v) = Cardinality(I) /\ Cardinality(I) \in Nat
  BY CountedItems DEF Items
<1>4. CASE ~Working(v)
  <2>1. Pending(v) <=> Cardinality(I) > 0
    BY <1>3, <1>4 DEF Pending, Working
  <2>2. Cardinality(I) > 0 <=> I # {}
    BY <1>2, <1>3, FS_EmptySet
  <2> QED BY <1>4, <2>1, <2>2 DEF ToDo
<1>5. CASE Working(v)
  <2>1. Pending(v) <=> Cardinality(I) > 1
    BY <1>3, <1>5 DEF Pending, Working
  <2>2. queue # <<>> /\ Head(queue) = v
    BY <1>5 DEF RInv, HeadInv, Working
  <2>3. 1 \in I
    BY <1>1, <2>2
  <2>4. IsFiniteSet(I \ {1}) /\ Cardinality(I \ {1}) = Cardinality(I) - 1
    BY <1>2, <2>3, FS_RemoveElement
  <2>5. Cardinality(I) > 1 <=> I \ {1} # {}
    <3>1. Cardinality(I \ {1}) = 0 <=> I \ {1} = {}
      BY <2>4, FS_EmptySet
    <3>2. Cardinality(I) # 0
      BY <1>2, <2>3, FS_EmptySet
    <3> HIDE DEF I
    <3> QED BY <1>3, <2>4, <3>1, <3>2
  <2> QED BY <1>5, <2>1, <2>5 DEF ToDo
<1> QED BY <1>4, <1>5

\* A step that leaves machines, worker and queue alone, forgets no lost
\* request and ends no announcement.
LEMMA NothingEnds ==
  ASSUME WInv, UNCHANGED <<vm, worker, queue>>, lost \subseteq lost',
         \A t \in Caller, v \in VM : Announcing(t, v) => Announcing(t, v)'
  PROVE  DelayInv' /\ \A v \in VM : WaitsInv(v)'
<1>1. DelayInv'
  BY DEF WInv, DelayInv
<1>2. ASSUME NEW v \in VM, vm'[v] = "WAITING_TO_BE_REVERTED"
      PROVE  ToDo(v)' \/ v \in lost' \/ \E t \in Caller : Announcing(t, v)'
  <2>1. ToDo(v) => ToDo(v)'
    BY DEF ToDo, Working
  <2>2. ToDo(v) \/ v \in lost \/ \E t \in Caller : Announcing(t, v)
    BY <1>2 DEF WInv, WaitsInv
  <2> QED BY <2>1, <2>2
<1> QED BY <1>1, <1>2 DEF WaitsInv

\* A caller that begins or ends a call, or is about to, announces nothing.
LEMMA SilentCaller ==
  ASSUME RInv, NEW t \in Caller, thread[t].pc \in {"idle", "finish", "monitor"},
         NEW new, thread' = [thread EXCEPT ![t] = new], UNCHANGED changed,
         NEW r \in Caller, NEW v \in VM, Announcing(r, v)
  PROVE  Announcing(r, v)'
<1>1. r # t
  BY DEF Announcing
<1>2. thread'[r] = thread[r]
  BY <1>1 DEF RInv, TypeOK
<1> QED BY <1>2 DEF Announcing

\* The synchronized block: who makes a machine wait is going to announce it.
LEMMA SetStateWaits ==
  ASSUME WInv, NEW t \in Caller, SetState(t)
  PROVE  DelayInv' /\ \A v \in VM : WaitsInv(v)'
<1> DEFINE new == thread[t].to
<1>0. PICK m \in VM : m = thread[t].vm
  BY Types DEF WInv
<1>1. /\ RInv /\ m \in VM /\ vm \in [VM -> State]
      /\ thread \in [Caller -> CallerRecord] /\ worker \in WorkerRecord
  BY Types DEF WInv, RInv, TypeOK, CallerRecord, WorkerRecord
<1>2. thread[t].pc = "monitor" /\ ~Locked(m) /\ UNCHANGED <<changed, queue, worker, lost>>
  BY <1>0 DEF SetState
<1>3. \A r \in Caller, v \in VM : Announcing(r, v) => Announcing(r, v)'
  <2>1. PICK pc : thread' = [thread EXCEPT ![t].pc = pc]
    BY DEF SetState, GoTo
  <2>2. thread' = [thread EXCEPT ![t] = [thread[t] EXCEPT !.pc = pc]]
    BY <2>1
  <2> QED BY <1>1, <1>2, <2>2, SilentCaller
<1>4. CASE UNCHANGED vm
  BY <1>2, <1>3, <1>4, NothingEnds
<1>5. CASE vm' = [vm EXCEPT ![m] = new] /\ GoTo(t, "changed")
  <2>1. DelayInv'
    <3>1. worker.pc = "delay" => worker.vm # m
      BY <1>2 DEF Locked
    <3>2. worker.vm \in VM
      BY <1>1 DEF WorkerRecord
    <3> QED BY <1>1, <1>2, <1>5, <3>1, <3>2 DEF WInv, DelayInv
  <2>2. Announcing(t, m)'
    BY <1>0, <1>1, <1>5 DEF GoTo, Announcing, CallerRecord
  <2>3. ASSUME NEW v \in VM PROVE WaitsInv(v)'
    <3>1. CASE v = m
      BY <2>2, <3>1 DEF WaitsInv
    <3>2. CASE v # m
      <4>1. vm'[v] = vm[v]
        BY <1>1, <1>5, <3>2
      <4>2. ToDo(v) => ToDo(v)'
        BY <1>2 DEF ToDo, Working
      <4> QED BY <1>2, <1>3, <4>1, <4>2 DEF WInv, WaitsInv
    <3> QED BY <3>1, <3>2
  <2> QED BY <2>1, <2>3
<1> QED BY <1>0, <1>4, <1>5 DEF SetState

\* Whoever takes the flag of another thread goes on to update in its place.
LEMMA NotifyWaits ==
  ASSUME WInv, NEW t \in Caller, NotifyObservers(t)
  PROVE  DelayInv' /\ \A v \in VM : WaitsInv(v)'
<1>0. PICK m \in VM : m = thread[t].vm
  BY Types DEF WInv
<1>1. /\ m \in VM /\ thread \in [Caller -> CallerRecord] /\ changed \in [VM -> BOOLEAN]
  BY DEF WInv, RInv, TypeOK, CallerRecord
<1>2. /\ thread[t].pc = "notify" /\ changed' = [changed EXCEPT ![m] = FALSE]
      /\ thread' = [thread EXCEPT ![t].pc = IF changed[m] THEN "update" ELSE "idle"]
      /\ UNCHANGED <<vm, queue, worker, lost>>
  BY <1>0 DEF NotifyObservers, GoTo
<1>3. changed[m] => Announcing(t, m)'
  BY <1>0, <1>1, <1>2 DEF Announcing, CallerRecord
<1>4. ASSUME NEW r \in Caller, NEW v \in VM, Announcing(r, v)
      PROVE  \E s \in Caller : Announcing(s, v)'
  <2>1. CASE r = t
    <3>1. v = m /\ changed[m]
      BY <1>0, <1>2, <1>4, <2>1 DEF Announcing
    <3> QED BY <1>3, <3>1
  <2>2. CASE r # t
    <3>1. thread'[r] = thread[r]
      BY <1>1, <1>2, <2>2
    <3>2. CASE v # m \/ thread[r].pc # "notify"
      <4>1. thread[r].pc = "notify" => changed'[v] = changed[v]
        BY <1>1, <1>2, <3>2
      <4> QED BY <1>4, <3>1, <4>1 DEF Announcing
    <3>3. CASE v = m /\ thread[r].pc = "notify"
      <4>1. changed[m]
        BY <1>4, <3>3 DEF Announcing
      <4> QED BY <1>3, <3>3, <4>1
    <3> QED BY <3>2, <3>3
  <2> QED BY <2>1, <2>2
<1>5. ASSUME NEW v \in VM PROVE WaitsInv(v)'
  <2>1. ToDo(v) => ToDo(v)'
    BY <1>2 DEF ToDo, Working
  <2> QED BY <1>2, <1>4, <2>1 DEF WInv, WaitsInv
<1>6. DelayInv'
  BY <1>2 DEF WInv, DelayInv
<1> QED BY <1>5, <1>6

\* update reads the state after the notification: a machine that waits is
\* looked up, whoever made it wait.
LEMMA UpdateWaits ==
  ASSUME WInv, NEW t \in Caller, Update(t)
  PROVE  DelayInv' /\ \A v \in VM : WaitsInv(v)'
<1>0. PICK m \in VM : m = thread[t].vm
  BY Types DEF WInv
<1>1. thread \in [Caller -> CallerRecord]
  BY DEF WInv, RInv, TypeOK, CallerRecord
<1>2. /\ thread[t].pc = "update" /\ UNCHANGED <<vm, queue, worker, changed, lost>>
      /\ thread' = [thread EXCEPT ![t].pc =
           IF vm[m] = "WAITING_TO_BE_REVERTED" THEN "contains" ELSE "idle"]
  BY <1>0 DEF Update, GoTo
<1>3. ASSUME NEW v \in VM PROVE WaitsInv(v)'
  <2> SUFFICES ASSUME vm[v] = "WAITING_TO_BE_REVERTED"
               PROVE  ToDo(v)' \/ v \in lost' \/ \E r \in Caller : Announcing(r, v)'
    BY <1>2 DEF WaitsInv
  <2>1. ToDo(v) => ToDo(v)'
    BY <1>2 DEF ToDo, Working
  <2>2. ASSUME NEW r \in Caller, Announcing(r, v) PROVE Announcing(r, v)'
    <3>1. CASE r = t
      BY <1>0, <1>1, <1>2, <2>2, <3>1 DEF Announcing, CallerRecord
    <3>2. CASE r # t
      BY <1>1, <1>2, <2>2, <3>2 DEF Announcing
    <3> QED BY <3>1, <3>2
  <2> QED BY <1>2, <2>1, <2>2 DEF WInv, WaitsInv
<1>4. DelayInv'
  BY <1>2 DEF WInv, DelayInv
<1> QED BY <1>3, <1>4

\* contains: an item that is there will be worked off, unless it is the one
\* that is about to be removed; the machine of a revert or of the delay after it
\* does not wait.
LEMMA ContainsWaits ==
  ASSUME WInv, NEW t \in Caller, ContainsItem(t)
  PROVE  DelayInv' /\ \A v \in VM : WaitsInv(v)'
<1>0. PICK m \in VM : m = thread[t].vm
  BY Types DEF WInv
<1>1. /\ RInv /\ m \in VM /\ thread \in [Caller -> CallerRecord]
      /\ worker \in WorkerRecord
  BY Types DEF WInv, RInv, TypeOK, CallerRecord, WorkerRecord
<1>2. /\ thread[t].pc = "contains" /\ UNCHANGED <<vm, queue, worker, changed>>
      /\ thread' = [thread EXCEPT ![t].pc = IF InQueue(m) THEN "idle" ELSE "add"]
      /\ lost \subseteq lost'
  BY <1>0 DEF ContainsItem, GoTo
<1>3. ASSUME NEW v \in VM PROVE WaitsInv(v)'
  <2> SUFFICES ASSUME vm[v] = "WAITING_TO_BE_REVERTED"
               PROVE  ToDo(v)' \/ v \in lost' \/ \E r \in Caller : Announcing(r, v)'
    BY <1>2 DEF WaitsInv
  <2>1. ToDo(v) => ToDo(v)'
    BY <1>2 DEF ToDo, Working
  <2>2. ASSUME NEW r \in Caller, r # t, Announcing(r, v) PROVE Announcing(r, v)'
    BY <1>1, <1>2, <2>2 DEF Announcing
  <2>3. CASE v # m
    <3>1. ~Announcing(t, v)
      BY <1>0, <2>3 DEF Announcing
    <3> QED BY <1>2, <2>1, <2>2, <3>1 DEF WInv, WaitsInv
  <2>4. CASE v = m /\ ~InQueue(m)
    <3>1. Announcing(t, m)'
      BY <1>0, <1>1, <1>2, <2>4 DEF Announcing, CallerRecord
    <3> QED BY <2>4, <3>1
  <2>5. CASE v = m /\ InQueue(m)
    <3>1. CASE ~Working(m)
      BY <2>1, <2>5, <3>1 DEF InQueue, ToDo
    <3>2. CASE Working(m)
      <4>1. worker.pc = "remove" /\ worker.vm = m
        BY <2>5, <3>2 DEF WInv, RInv, RevertIsExclusive, DelayInv, Working
      <4>2. CASE Items(m) = 1
        BY <1>0, <2>5, <4>1, <4>2 DEF ContainsItem
      <4>3. CASE Items(m) # 1
        <5>1. Items(m) \in Nat /\ Items(m) # 0
          BY <1>1, <2>5, CountedItems
        <5>2. Pending(m)
          BY <4>1, <4>3, <5>1 DEF Pending
        <5> QED BY <1>1, <2>1, <2>5, <5>2, PendingIsToDo
      <4> QED BY <4>2, <4>3
    <3> QED BY <3>1, <3>2
  <2> QED BY <2>3, <2>4, <2>5
<1>4. DelayInv'
  BY <1>2 DEF WInv, DelayInv
<1> QED BY <1>3, <1>4

\* add: the new item is not the head of a revert that began.
LEMMA AddWaits ==
  ASSUME WInv, NEW t \in Caller, Add(t)
  PROVE  DelayInv' /\ \A v \in VM : WaitsInv(v)'
<1>0. PICK m \in VM : m = thread[t].vm
  BY Types DEF WInv
<1>1. /\ RInv /\ m \in VM /\ thread \in [Caller -> CallerRecord] /\ queue \in Seq(VM)
  BY Types DEF WInv, RInv, TypeOK, CallerRecord
<1>2. /\ thread[t].pc = "add" /\ UNCHANGED <<vm, worker, changed, lost>>
      /\ thread' = [thread EXCEPT ![t].pc = "idle"] /\ queue' = Append(queue, m)
  BY <1>0 DEF Add, GoTo
<1>3. /\ DOMAIN queue = 1 .. Len(queue) /\ Len(queue) \in Nat
      /\ DOMAIN queue' = 1 .. Len(queue) + 1
      /\ \A i \in DOMAIN queue : queue'[i] = queue[i]
      /\ queue'[Len(queue) + 1] = m
  BY <1>1, <1>2
<1>4. ASSUME NEW v \in VM, ToDo(v) PROVE ToDo(v)'
  <2>1. PICK i \in DOMAIN queue : queue[i] = v /\ (Working(v) => i # 1)
    BY <1>4 DEF ToDo
  <2>2. i \in DOMAIN queue' /\ queue'[i] = v /\ (Working(v)' => i # 1)
    BY <1>2, <1>3, <2>1 DEF Working
  <2> QED BY <2>2 DEF ToDo
<1>5. ToDo(m)'
  <2>1. Working(m)' => Len(queue) # 0
    BY <1>1, <1>2 DEF RInv, HeadInv, Working
  <2>2. /\ Len(queue) + 1 \in DOMAIN queue' /\ queue'[Len(queue) + 1] = m
        /\ (Working(m)' => Len(queue) + 1 # 1)
    BY <1>3, <2>1
  <2> QED BY <2>2 DEF ToDo
<1>6. ASSUME NEW v \in VM PROVE WaitsInv(v)'
  <2> SUFFICES ASSUME vm[v] = "WAITING_TO_BE_REVERTED", v # m
               PROVE  ToDo(v)' \/ v \in lost' \/ \E r \in Caller : Announcing(r, v)'
    BY <1>2, <1>5 DEF WaitsInv
  <2>1. ASSUME NEW r \in Caller, Announcing(r, v) PROVE Announcing(r, v)'
    <3>1. r # t
      BY <1>0, <2>1 DEF Announcing
    <3> QED BY <1>1, <1>2, <2>1, <3>1 DEF Announcing
  <2> QED BY <1>2, <1>4, <2>1 DEF WInv, WaitsInv
<1>7. DelayInv'
  BY <1>2 DEF WInv, DelayInv
<1> QED BY <1>6, <1>7

LEMMA SetStateStepWaits ==
  ASSUME WInv, NEW t \in Caller, SetStateStep(t)
  PROVE  DelayInv' /\ \A v \in VM : WaitsInv(v)'
<1>1. CASE SetChanged(t)
  <2>1. /\ thread \in [Caller -> CallerRecord] /\ changed \in [VM -> BOOLEAN]
        /\ thread[t].vm \in VM
    BY DEF WInv, RInv, TypeOK, CallerRecord
  <2>2. /\ thread' = [thread EXCEPT ![t].pc = "notify"] /\ thread[t].pc = "changed"
        /\ changed' = [changed EXCEPT ![thread[t].vm] = TRUE]
        /\ UNCHANGED <<vm, worker, queue, lost>>
    BY <1>1 DEF SetChanged, GoTo
  <2>3. ASSUME NEW r \in Caller, NEW v \in VM, Announcing(r, v) PROVE Announcing(r, v)'
    <3>1. changed[v] => changed'[v]
      BY <2>1, <2>2
    <3>2. CASE r = t
      BY <2>1, <2>2, <2>3, <3>2 DEF Announcing, CallerRecord
    <3>3. CASE r # t
      BY <2>1, <2>2, <2>3, <3>1, <3>3 DEF Announcing
    <3> QED BY <3>2, <3>3
  <2> QED BY <2>2, <2>3, NothingEnds
<1> QED BY <1>1, SetStateWaits, NotifyWaits, UpdateWaits, ContainsWaits, AddWaits
     DEF SetStateStep

\* Calls begin with a thread that announces nothing.
LEMMA CallWaits ==
  ASSUME WInv,
         \/ \E v \in VM : AddVirtualMachine(v) \/ Timeout(v)
         \/ \E r \in Receiver : \/ \E v \in VM : Connect(r, v)
                                \/ FinishVisit(r) \/ BecomeWaiting(r) \/ Disconnect(r)
  PROVE  DelayInv' /\ \A v \in VM : WaitsInv(v)'
<1>1. \E t \in Caller : \E new :
        /\ thread[t].pc \in {"idle", "finish", "monitor"}
        /\ thread' = [thread EXCEPT ![t] = new]
  <2>1. ASSUME NEW v \in VM, AddVirtualMachine(v) \/ Timeout(v)
        PROVE  \E t \in {Main, Checker} : /\ thread[t].pc = "idle"
                                          /\ Call(t, v, "WAITING_TO_BE_REVERTED")
    BY <2>1 DEF AddVirtualMachine, Timeout
  <2>2. ASSUME NEW r \in Receiver, NEW v \in VM, Connect(r, v)
        PROVE  thread[r].pc = "idle" /\ Call(r, v, "RUNNING")
    BY <2>2 DEF Connect
  <2>3. ASSUME NEW r \in Receiver, FinishVisit(r)
        PROVE  /\ thread[r].pc = "idle"
               /\ thread' = [thread EXCEPT ![r] = [thread[r] EXCEPT !.pc = "finish"]]
    BY <2>3 DEF FinishVisit, GoTo
  <2>4. ASSUME NEW r \in Receiver, BecomeWaiting(r)
        PROVE  thread[r].pc = "finish" /\ Call(r, thread[r].vm, "RUNNING")
    BY <2>4 DEF BecomeWaiting
  <2>5. ASSUME NEW r \in Receiver, Disconnect(r)
        PROVE  thread[r].pc = "idle" /\ Call(r, thread[r].vm, "WAITING_TO_BE_REVERTED")
    BY <2>5 DEF Disconnect
  <2> QED BY <2>1, <2>2, <2>3, <2>4, <2>5 DEF Call, Caller
<1>2. UNCHANGED <<vm, worker, queue, changed, lost>>
  BY DEF AddVirtualMachine, Timeout, Connect, FinishVisit, BecomeWaiting, Disconnect
<1>3. RInv
  BY DEF WInv
<1>4. \A r \in Caller, v \in VM : Announcing(r, v) => Announcing(r, v)'
  BY <1>1, <1>2, <1>3, SilentCaller
<1> QED BY <1>2, <1>4, NothingEnds

\* The worker: a machine it does not work on keeps its items, the one it works
\* on does not wait, or keeps all items but the head.
LEMMA WorkerWaits ==
  ASSUME WInv, WorkerStep
  PROVE  DelayInv' /\ \A v \in VM : WaitsInv(v)'
<1>1. /\ RInv /\ worker \in WorkerRecord /\ queue \in Seq(VM) /\ vm \in [VM -> State]
      /\ changed \in [VM -> BOOLEAN]
  BY Types DEF WInv, RInv, TypeOK, WorkerRecord
<1>2. CASE Peek
  <2>1. /\ worker.pc = "peek" /\ worker'.pc = "enter"
        /\ UNCHANGED <<vm, queue, changed, thread, lost>>
    BY <1>2 DEF Peek
  <2>2. ASSUME NEW v \in VM PROVE WaitsInv(v)'
    BY <2>1 DEF WInv, WaitsInv, ToDo, Working, Announcing
  <2> QED BY <2>1, <2>2 DEF DelayInv
<1>3. ASSUME NEW result \in {"REVERTING", "RUNNING", "ERROR"},
             vm' = [vm EXCEPT ![worker.vm] = result],
             changed' = [changed EXCEPT ![worker.vm] = FALSE],
             worker'.vm = worker.vm, UNCHANGED <<queue, thread>>,
             lost \ {worker.vm} \subseteq lost'
      PROVE  DelayInv' /\ \A v \in VM : WaitsInv(v)'
  <2>1. worker.vm \in VM
    BY <1>1 DEF WorkerRecord
  <2>2. DelayInv'
    BY <1>1, <1>3, <2>1 DEF DelayInv
  <2>3. ASSUME NEW v \in VM PROVE WaitsInv(v)'
    <3>1. CASE v = worker.vm
      BY <1>1, <1>3, <3>1 DEF WaitsInv
    <3>2. CASE v # worker.vm
      <4>1. vm'[v] = vm[v] /\ changed'[v] = changed[v]
        BY <1>1, <1>3, <3>2
      <4>2. ToDo(v) => ToDo(v)'
        BY <1>3, <3>2 DEF ToDo, Working
      <4>3. \A t \in Caller : Announcing(t, v) => Announcing(t, v)'
        BY <1>3, <4>1 DEF Announcing
      <4> QED BY <1>3, <3>2, <4>1, <4>2, <4>3 DEF WInv, WaitsInv
    <3> QED BY <3>1, <3>2
  <2> QED BY <2>2, <2>3
<1>4. CASE BeginRevert
  <2>1. worker'.vm = worker.vm
    BY <1>1, <1>4 DEF BeginRevert, WorkerRecord
  <2> QED BY <1>3, <1>4, <2>1 DEF BeginRevert
<1>5. ASSUME NEW result \in {"RUNNING", "ERROR"}, EndRevert(result)
      PROVE  DelayInv' /\ \A v \in VM : WaitsInv(v)'
  <2>1. worker'.vm = worker.vm
    BY <1>1, <1>5 DEF EndRevert, WorkerRecord
  <2> QED BY <1>3, <1>5, <2>1 DEF EndRevert
<1>6. CASE LeaveMonitor
  <2>1. /\ worker.pc = "delay" /\ worker'.pc = "remove" /\ worker'.vm = worker.vm
        /\ UNCHANGED <<vm, queue, changed, thread, lost>>
    BY <1>1, <1>6 DEF LeaveMonitor, WorkerRecord
  <2>2. ASSUME NEW v \in VM PROVE WaitsInv(v)'
    BY <2>1 DEF WInv, WaitsInv, ToDo, Working, Announcing
  <2> QED BY <2>1, <2>2 DEF DelayInv
<1>7. CASE RemoveItem
  <2>1. /\ worker.pc = "remove" /\ worker'.pc = "peek"
        /\ queue' = RemoveFirst(queue, worker.vm)
        /\ UNCHANGED <<vm, changed, thread, lost>>
    BY <1>1, <1>7 DEF RemoveItem, WorkerRecord
  <2>2. queue # <<>> /\ Head(queue) = worker.vm
    BY <1>1, <2>1 DEF RInv, HeadInv
  <2>3. queue' = Tail(queue)
    BY <1>1, <2>1, <2>2, RemoveHead
  <2>4. /\ Len(queue) \in Nat \ {0} /\ DOMAIN queue = 1 .. Len(queue)
        /\ DOMAIN queue' = 1 .. Len(queue) - 1
        /\ \A i \in 2 .. Len(queue) : queue'[i - 1] = queue[i]
    BY <1>1, <2>2, <2>3
  <2>5. ASSUME NEW v \in VM, ToDo(v) PROVE ToDo(v)'
    <3>1. PICK i \in DOMAIN queue : queue[i] = v /\ (Working(v) => i # 1)
      BY <2>5 DEF ToDo
    <3>2. i # 1
      BY <1>1, <2>1, <2>2, <3>1 DEF Working
    <3>3. i - 1 \in DOMAIN queue' /\ queue'[i - 1] = v
      BY <2>4, <3>1, <3>2
    <3>4. ~Working(v)'
      BY <2>1 DEF Working
    <3> QED BY <3>3, <3>4 DEF ToDo
  <2>6. ASSUME NEW v \in VM PROVE WaitsInv(v)'
    BY <2>1, <2>5 DEF WInv, WaitsInv, Announcing
  <2> QED BY <2>1, <2>6 DEF DelayInv
<1> QED BY <1>2, <1>4, <1>5, <1>6, <1>7 DEF WorkerStep

LEMMA InitWInv == Init => WInv
BY InitRInv DEF Init, WInv, DelayInv, WaitsInv

LEMMA NextWInv == WInv /\ [Next]_vars => WInv'
<1> SUFFICES ASSUME WInv, [Next]_vars PROVE DelayInv' /\ \A v \in VM : WaitsInv(v)'
  BY NextRInv DEF WInv
<1>1. CASE \E t \in Caller : SetStateStep(t)
  BY <1>1, SetStateStepWaits
<1>2. CASE \/ \E v \in VM : AddVirtualMachine(v) \/ Timeout(v)
           \/ \E r \in Receiver : \/ \E v \in VM : Connect(r, v)
                                  \/ FinishVisit(r) \/ BecomeWaiting(r) \/ Disconnect(r)
  BY <1>2, CallWaits
<1>3. CASE WorkerStep
  BY <1>3, WorkerWaits
<1>4. CASE UNCHANGED vars
  <2>1. UNCHANGED <<vm, worker, queue, lost, thread, changed>>
    BY <1>4 DEF vars
  <2> QED BY <2>1, NothingEnds DEF Announcing
<1> QED BY <1>1, <1>2, <1>3, <1>4 DEF Next

\* VMwareServer.update and revertVirtualMachineStateAsync: however many threads
\* call setState for however many machines, take each other's notification and
\* look at states that have changed since, a machine that waits for its revert has
\* an item, or is about to get one, or its request fell into the window before
\* remove(item).
THEOREM WaitingIsAccountedFor == Spec => []WaitingIsQueuedOrLost
<1>1. WInv => WaitingIsQueuedOrLost
  <2> SUFFICES ASSUME WInv, NEW v \in VM, vm[v] = "WAITING_TO_BE_REVERTED"
               PROVE  Pending(v) \/ v \in lost \/ \E t \in Caller : Requesting(t, v)
    BY DEF WaitingIsQueuedOrLost
  <2>1. ToDo(v) => Pending(v)
    BY PendingIsToDo DEF WInv
  <2>2. \A t \in Caller : Announcing(t, v) => Requesting(t, v)
    BY DEF Announcing, Requesting
  <2> QED BY <2>1, <2>2 DEF WInv, WaitsInv
<1>2. Spec => []WInv
  BY InitWInv, NextWInv, PTL DEF Spec
<1> QED BY <1>1, <1>2, PTL
=============================================================================
