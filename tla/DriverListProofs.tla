-------------------------- MODULE DriverListProofs --------------------------
(***************************************************************************)
(* Proofs about the lists of the drivers that are changed while others     *)
(* read them:                                                              *)
(*   - ProcessEvents, for every set of process ids, images and threads: no *)
(*     process event is lost or reordered between the driver and the       *)
(*     analyzer, and no path is of a program that did not run;             *)
(*   - SharedEventList: the events of the network driver are read in the   *)
(*     order of their insertion;                                           *)
(*   - HashMap: a bucket of the connection monitor's map is the list that  *)
(*     KeyedList describes;                                                *)
(*   - MCDrivers, the drivers together: what is proved of each of them,    *)
(*     here or in DriverProofs, holds of their composition.                *)
(***************************************************************************)
EXTENDS MCDrivers, DriverProofs, SequenceTheorems, FiniteSetTheorems, WellFoundedInduction, TLAPS

LookupRecord ==
  [pc : {"none", "request", "find", "found"}, pid : Pid \cup {None},
   tries : 0..Tries, path : Image \cup {Unknown, None}]

InHand == IF current = None THEN 0 ELSE 1

ListsInv ==
  /\ handled \in Seq([event : ProcessEvent, path : Image \cup {Unknown, None}])
  /\ processQueue \in Seq(ProcessEvent) /\ happened \in Seq(ProcessEvent)
  /\ current \in ProcessEvent \cup {None}

\* The list of the driver, the event in hand and the reported events are
\* consecutive parts of what happened.
PlaceInv ==
  /\ Len(happened) = Len(handled) + InHand + Len(processQueue)
  /\ \A i \in 1..Len(handled) : handled[i].event = happened[i]
  /\ current # None => current = happened[Len(handled) + 1]
  /\ \A i \in 1..Len(processQueue) : processQueue[i] = happened[Len(handled) + InHand + i]

\* The monitor handles an event while it looks up its path.
MonitorInv ==
  /\ current # None <=> lookup["monitor"].pc \in {"find", "found"}
  /\ current # None => lookup["monitor"].pid = current.pid
  /\ previous = IF handled = <<>> THEN None ELSE happened[Len(handled)]

\* Two events in a row are not of one kind and one process, because a process
\* ends before its id is given to the next one.
AlternateInv ==
  /\ \A i \in 1..(Len(happened) - 1) :
       happened[i].pid = happened[i + 1].pid => happened[i].create # happened[i + 1].create
  /\ happened # <<>> =>
       LET last == happened[Len(happened)] IN last.create <=> running[last.pid] # None

\* A lookup is of a process id.
LookupInv == \A t \in Thread : lookup[t].pc \in {"find", "found"} => lookup[t].pid \in Pid

\* Every path is of a program that ran, or unknown.
PathInv ==
  /\ \A p \in Pid : running[p] \in wasRunning[p] \cup {None}
  /\ \A p \in Pid : processMap[p] \in wasRunning[p] \cup {Unknown, None}
  /\ \A t \in Thread :
       lookup[t].pc = "found" => lookup[t].path \in wasRunning[lookup[t].pid] \cup {Unknown}
  /\ \A i \in 1..Len(handled) :
       handled[i].path \in wasRunning[handled[i].event.pid] \cup {Unknown}
  /\ \A x \in extra : x[1] \in Pid /\ x[2] \in wasRunning[x[1]]

ProcessInv == ProcessTypeOK /\ ListsInv /\ PlaceInv /\ MonitorInv /\ AlternateInv /\ LookupInv

LEMMA ProcessInitInv == ASSUME ProcessInit PROVE ProcessInv
<1>1. /\ Len(handled) = 0 /\ Len(happened) = 0 /\ Len(processQueue) = 0 /\ InHand = 0
      /\ handled = <<>> /\ happened = <<>> /\ processQueue = <<>> /\ current = None
  BY DEF ProcessInit, InHand
<1>2. ListsInv
  BY <1>1 DEF ListsInv
<1>3. PlaceInv
  BY <1>1 DEF PlaceInv
<1>4. lookup = [t \in Thread |-> NoLookup] /\ "monitor" \in Thread /\ previous = None
  BY DEF ProcessInit, Thread
<1>5. MonitorInv /\ AlternateInv /\ LookupInv
  BY <1>1, <1>4 DEF MonitorInv, AlternateInv, LookupInv, NoLookup
<1>6. ProcessTypeOK
  <2>1. running \in [Pid -> Image \cup {None}] /\ waits = FALSE
    BY DEF ProcessInit
  <2>2. wasRunning \in [Pid -> SUBSET Image]
    BY DEF ProcessInit
  <2>3. processMap \in [Pid -> Image \cup {Unknown, None}]
    BY DEF ProcessInit
  <2>4. NoLookup \in [pc : {"none", "request", "find", "found"}, pid : Pid \cup {None},
                      tries : 0..Tries, path : Image \cup {Unknown, None}]
    BY ProcessAssumption DEF NoLookup
  <2> QED BY <1>4, <2>1, <2>2, <2>3, <2>4 DEF ProcessTypeOK
<1> QED BY <1>2, <1>3, <1>5, <1>6 DEF ProcessInv

LEMMA AppendPlace ==
  ASSUME NEW S, NEW q \in Seq(S), NEW e \in S
  PROVE  /\ Append(q, e) \in Seq(S) /\ Len(q) \in Nat /\ Len(Append(q, e)) = Len(q) + 1
         /\ Append(q, e)[Len(q) + 1] = e /\ \A i \in 1..Len(q) : Append(q, e)[i] = q[i]
OBVIOUS

LEMMA ConcatPlace ==
  ASSUME NEW S, NEW q \in Seq(S), NEW r \in Seq(S)
  PROVE  /\ q \o r \in Seq(S) /\ Len(q \o r) = Len(q) + Len(r)
         /\ \A i \in 1..Len(q) : (q \o r)[i] = q[i]
         /\ \A i \in 1..Len(r) : (q \o r)[Len(q) + i] = r[i]
OBVIOUS

\* Where an event of the queue stands among all that happened, k being in the hand.
LEMMA Places ==
  ASSUME NEW n \in Nat, NEW h \in Nat, NEW k \in 0..1, NEW m \in Nat, n = h + k + m
  PROVE  /\ n + 1 = h + k + (m + 1)
         /\ \A i \in 1..h : i \in 1..n
         /\ k = 1 => h + 1 \in 1..n
         /\ \A i \in 1..(m + 1) : i # m + 1 => i \in 1..m /\ h + k + i \in 1..n
OBVIOUS

\* The callback of the driver.
LEMMA CallbackKeeps ==
  ASSUME ProcessInv, NEW e \in ProcessEvent, processQueue' = Append(processQueue, e),
         happened' = Append(happened, e), e.create <=> running[e.pid] = None,
         running' \in [Pid -> Image \cup {None}],
         running'[e.pid] # None <=> running[e.pid] = None,
         wasRunning' \in [Pid -> SUBSET Image], waits' = FALSE,
         lookup' = [lookup EXCEPT !["monitor"].pc = IF waits THEN "request" ELSE @],
         UNCHANGED <<current, previous, processMap, handled>>
  PROVE  ProcessInv'
<1>1. ProcessTypeOK /\ ListsInv /\ PlaceInv /\ MonitorInv /\ AlternateInv /\ LookupInv
  BY DEF ProcessInv
<1>2. /\ "monitor" \in Thread /\ waits' = FALSE
      /\ current' = current /\ previous' = previous /\ processMap' = processMap
      /\ handled' = handled
  BY DEF Thread
<1>3. /\ \A t \in Thread : lookup'[t].pid = lookup[t].pid
      /\ lookup'["monitor"].pc = IF waits THEN "request" ELSE lookup["monitor"].pc
      /\ waits => lookup["monitor"].pc = "none"
  BY <1>1, <1>2 DEF ProcessTypeOK
<1>4. ProcessTypeOK'
  <2>1. lookup' \in [Thread -> [pc : {"none", "request", "find", "found"}, pid : Pid \cup {None},
                            tries : 0..Tries, path : Image \cup {Unknown, None}]]
    <3>1. CASE waits
      <4>1. lookup' = [lookup EXCEPT !["monitor"] = [lookup["monitor"] EXCEPT !.pc = "request"]]
        BY <1>1, <1>2, <3>1 DEF ProcessTypeOK
      <4>2. lookup \in [Thread -> LookupRecord]
        BY <1>1 DEF ProcessTypeOK, LookupRecord
      <4>3. [lookup["monitor"] EXCEPT !.pc = "request"] \in LookupRecord
        BY <1>2, <4>2 DEF LookupRecord
      <4>4. lookup' \in [Thread -> LookupRecord]
        BY <4>1, <4>2, <4>3
      <4> QED BY <4>4 DEF LookupRecord
    <3>2. CASE ~waits
      <4>1. lookup' = lookup
        BY <1>1, <1>2, <3>2 DEF ProcessTypeOK
      <4> QED BY <1>1, <4>1 DEF ProcessTypeOK
    <3> QED BY <3>1, <3>2
  <2>2. waits' \in BOOLEAN /\ ~waits'
    BY <1>2, Zenon
  <2> QED BY <1>1, <1>2, <2>1, <2>2 DEF ProcessTypeOK
<1> DEFINE n == Len(happened)
<1>5. /\ happened' \in Seq(ProcessEvent) /\ n \in Nat /\ Len(happened') = n + 1
      /\ happened'[n + 1] = e /\ \A i \in 1..n : happened'[i] = happened[i]
  BY <1>1, AppendPlace DEF ListsInv
<1> DEFINE m == Len(processQueue)
<1>6. /\ processQueue' \in Seq(ProcessEvent) /\ m \in Nat /\ Len(processQueue') = m + 1
      /\ processQueue'[m + 1] = e /\ \A i \in 1..m : processQueue'[i] = processQueue[i]
  BY <1>1, AppendPlace DEF ListsInv
<1>7. ListsInv'
  BY <1>1, <1>5, <1>6 DEF ListsInv
<1>8. InHand' = InHand /\ InHand \in 0..1 /\ (current # None => InHand = 1) /\ Len(handled) \in Nat
  BY <1>1 DEF InHand, ListsInv
<1> DEFINE h == Len(handled)
<1>9. n = h + InHand + m /\ h' = h
  BY <1>1 DEF PlaceInv
<1> DEFINE k == InHand
<1>0. n \in Nat /\ m \in Nat /\ h \in Nat /\ k \in 0..1 /\ n = h + k + m
  BY <1>5, <1>6, <1>8, <1>9
<1>h. Len(handled') = h /\ InHand' = k
  BY <1>2, <1>8
<1>i. /\ \A i \in 1..h : handled[i].event = happened[i]
      /\ current # None => current = happened[h + 1] /\ k = 1
      /\ \A i \in 1..m : processQueue[i] = happened[h + k + i]
  BY <1>1, <1>8 DEF PlaceInv
<1> HIDE DEF n, m, h, k
<1>p. /\ n + 1 = h + k + (m + 1)
      /\ \A i \in 1..h : i \in 1..n
      /\ k = 1 => h + 1 \in 1..n
      /\ \A i \in 1..(m + 1) : i # m + 1 => i \in 1..m /\ h + k + i \in 1..n
  BY <1>0, Places
<1>10. PlaceInv'
  <2>1. Len(happened') = Len(handled') + InHand' + Len(processQueue')
    BY <1>5, <1>6, <1>h, <1>p
  <2>2. \A i \in 1..Len(handled') : handled'[i].event = happened'[i]
    BY <1>2, <1>5, <1>h, <1>i, <1>p
  <2>3. current' # None => current' = happened'[Len(handled') + 1]
    BY <1>2, <1>5, <1>h, <1>i, <1>p
  <2>4. \A i \in 1..Len(processQueue') :
          processQueue'[i] = happened'[Len(handled') + InHand' + i]
    <3>1. ASSUME NEW i \in 1..(m + 1) PROVE processQueue'[i] = happened'[h + k + i]
      <4>1. CASE i = m + 1
        <5>1. processQueue'[m + 1] = e /\ happened'[n + 1] = e
          BY <1>5, <1>6, Zenon
        <5>2. h + k + i = n + 1
          BY <1>p, <4>1, Zenon
        <5> QED BY <4>1, <5>1, <5>2, Zenon
      <4>2. CASE i # m + 1
        <5>1. i \in 1..m /\ h + k + i \in 1..n
          BY <1>p, <4>2, Zenon
        <5>2. processQueue'[i] = processQueue[i]
          BY <1>6, <5>1, Zenon
        <5>3. happened'[h + k + i] = happened[h + k + i]
          BY <1>5, <5>1, Zenon
        <5>4. processQueue[i] = happened[h + k + i]
          BY <1>i, <5>1, Zenon
        <5> QED BY <5>2, <5>3, <5>4, Zenon
      <4> QED BY <4>1, <4>2, Zenon
    <3>2. Len(processQueue') = m + 1
      BY <1>6, Zenon
    <3> QED BY <1>h, <3>1, <3>2, Zenon
  <2> QED BY <2>1, <2>2, <2>3, <2>4 DEF PlaceInv
<1>11. MonitorInv'
  <2>1. current' # None <=> lookup'["monitor"].pc \in {"find", "found"}
    BY <1>1, <1>3 DEF MonitorInv
  <2>2. handled # <<>> => h \in 1..n
    <3>1. handled # <<>> => h # 0
      BY <1>1 DEF ListsInv, h
    <3> QED BY <1>5, <1>6, <1>8, <1>9, <3>1 DEF h
  <2> QED BY <1>1, <1>2, <1>3, <1>5, <2>1, <2>2 DEF MonitorInv, h
<1>12. AlternateInv'
  <2>1. e.pid \in Pid
    BY DEF ProcessEvent
  <2>2. happened = <<>> \/ n # 0
    BY <1>1 DEF ListsInv, n
  <2>3. ASSUME NEW i \in 1..(Len(happened') - 1), happened'[i].pid = happened'[i + 1].pid
        PROVE  happened'[i].create # happened'[i + 1].create
    <3>1. i \in 1..n
      BY <1>5
    <3>2. CASE i = n
      <4>1. happened'[i] = happened[n] /\ happened'[i + 1] = e /\ n # 0
        BY <1>5, <3>1, <3>2
      <4>2. happened # <<>> /\ (happened[n].create <=> running[happened[n].pid] # None)
        BY <1>1, <4>1 DEF AlternateInv, n
      <4>3. happened[n].create \in BOOLEAN /\ e.create \in BOOLEAN
        <5>1. happened[n] \in ProcessEvent
          BY <1>1, <1>5, <4>1 DEF ListsInv, n
        <5> QED BY <5>1 DEF ProcessEvent
      <4>4. happened[n].create <=> ~e.create
        BY <2>3, <4>1, <4>2
      <4> QED BY <4>1, <4>3, <4>4
    <3>3. CASE i # n
      <4>1. i \in 1..(n - 1) /\ i + 1 \in 1..n
        BY <1>5, <3>1, <3>3
      <4>2. happened'[i] = happened[i] /\ happened'[i + 1] = happened[i + 1]
        BY <1>5, <3>1, <4>1
      <4> QED BY <1>1, <2>3, <4>1, <4>2 DEF AlternateInv, n
    <3> QED BY <3>2, <3>3
  <2>4. LET last == happened'[Len(happened')] IN last.create <=> running'[last.pid] # None
    BY <1>5
  <2> QED BY <2>3, <2>4 DEF AlternateInv
<1>13. LookupInv'
  <2>1. \A t \in Thread : lookup'[t].pc \in {"find", "found"} => lookup'[t].pc = lookup[t].pc
    BY <1>1, <1>2 DEF ProcessTypeOK
  <2> QED BY <1>1, <1>3, <2>1 DEF LookupInv
<1> QED BY <1>4, <1>7, <1>10, <1>11, <1>12, <1>13 DEF ProcessInv

\* Steps that move no event.
LEMMA QuietKeeps ==
  ASSUME ProcessInv, UNCHANGED <<running, wasRunning, processQueue, happened, current, previous,
                           handled>>,
         NEW t \in Thread, NEW l \in LookupRecord, lookup' = [lookup EXCEPT ![t] = l],
         l.pc \in {"find", "found"} => l.pid \in Pid,
         processMap' \in [Pid -> Image \cup {Unknown, None}],
         waits' \in BOOLEAN, waits' => lookup'["monitor"].pc = "none",
         t = "monitor" => /\ l.pc \in {"find", "found"} <=> lookup[t].pc \in {"find", "found"}
                          /\ l.pid = lookup[t].pid
  PROVE  ProcessInv'
<1>1. ProcessTypeOK /\ ListsInv /\ PlaceInv /\ MonitorInv /\ AlternateInv /\ LookupInv
  BY DEF ProcessInv
<1>2. /\ lookup' \in [Thread -> LookupRecord] /\ lookup \in [Thread -> LookupRecord]
      /\ "monitor" \in Thread /\ lookup'[t] = l /\ \A u \in Thread : u # t => lookup'[u] = lookup[u]
  BY <1>1 DEF ProcessTypeOK, LookupRecord, Thread
<1>3. ProcessTypeOK'
  BY <1>1, <1>2 DEF ProcessTypeOK, LookupRecord
<1>4. ListsInv' /\ PlaceInv' /\ AlternateInv'
  BY <1>1 DEF ListsInv, PlaceInv, AlternateInv, InHand
<1>5. MonitorInv'
  <2>1. /\ lookup'["monitor"].pc \in {"find", "found"}
             <=> lookup["monitor"].pc \in {"find", "found"}
        /\ lookup'["monitor"].pid = lookup["monitor"].pid
    BY <1>2
  <2> QED BY <1>1, <2>1 DEF MonitorInv
<1>6. LookupInv'
  BY <1>1, <1>2 DEF LookupInv
<1> QED BY <1>3, <1>4, <1>5, <1>6 DEF ProcessInv

\* The steps of a lookup.
LEMMA LookupKeeps ==
  ASSUME ProcessInv, NEW t \in Thread,
         \/ TryMap(t) \/ AskSystem(t) \/ EndLookup(t)
         \/ t \in Other /\ \E p \in Pid : BeginLookup(t, p)
  PROVE  ProcessInv'
<1>1. /\ ProcessTypeOK /\ lookup \in [Thread -> LookupRecord] /\ "monitor" \in Thread
      /\ MonitorInv /\ LookupInv /\ Tries \in Nat \ {0} /\ lookup[t] \in LookupRecord
      /\ processMap \in [Pid -> Image \cup {Unknown, None}]
      /\ running \in [Pid -> Image \cup {None}]
  BY ProcessAssumption DEF ProcessInv, ProcessTypeOK, LookupRecord, Thread
<1>2. UNCHANGED <<running, wasRunning, processQueue, happened, current, previous, handled, waits>>
  BY DEF TryMap, AskSystem, EndLookup, BeginLookup
<1>3. PICK l \in LookupRecord :
        /\ lookup' = [lookup EXCEPT ![t] = l]
        /\ l.pc \in {"find", "found"} => l.pid \in Pid
        /\ t = "monitor" => /\ lookup[t].pc = "find" /\ l.pc \in {"find", "found"}
                            /\ l.pid = lookup[t].pid
        /\ t # "monitor" \/ l.pc # "none"
  <2>1. CASE TryMap(t)
    <3>1. lookup[t].pid \in Pid /\ lookup[t].pc = "find" /\ lookup[t].tries \in 1..Tries
      BY <1>1, <2>1 DEF TryMap, LookupInv, LookupRecord
    <3>2. CASE processMap[lookup[t].pid] # None
      <4> DEFINE l == [lookup[t] EXCEPT !.pc = "found", !.path = processMap[lookup[t].pid]]
      <4>1. lookup' = [lookup EXCEPT ![t] = l]
        BY <1>1, <2>1, <3>2 DEF TryMap, Found
      <4>2. l \in LookupRecord /\ l.pc = "found" /\ l.pid = lookup[t].pid
        BY <1>1, <3>1 DEF LookupRecord
      <4> HIDE DEF l
      <4> QED BY <3>1, <4>1, <4>2
    <3>3. CASE processMap[lookup[t].pid] = None
      <4> DEFINE l == [lookup[t] EXCEPT !.tries = lookup[t].tries - 1]
      <4>1. lookup' = [lookup EXCEPT ![t] = l]
        BY <1>1, <2>1, <3>3 DEF TryMap
      <4>2. l \in LookupRecord /\ l.pc = "find" /\ l.pid = lookup[t].pid
        <5>1. lookup[t].tries - 1 \in 0..Tries
          BY <1>1, <3>1
        <5> QED BY <1>1, <3>1, <5>1 DEF LookupRecord
      <4> HIDE DEF l
      <4> QED BY <3>1, <4>1, <4>2
    <3> QED BY <3>2, <3>3
  <2>2. CASE AskSystem(t)
    <3>1. lookup[t].pid \in Pid /\ lookup[t].pc = "find"
      BY <1>1, <2>2 DEF AskSystem, LookupInv
    <3>2. PICK path \in Image \cup {Unknown} : lookup' = Found(t, path)
      BY <1>1, <2>2, <3>1 DEF AskSystem
    <3> DEFINE l == [lookup[t] EXCEPT !.pc = "found", !.path = path]
    <3>3. lookup' = [lookup EXCEPT ![t] = l]
      BY <1>1, <3>2 DEF Found
    <3>4. l \in LookupRecord /\ l.pc = "found" /\ l.pid = lookup[t].pid
      BY <1>1, <3>1, <3>2 DEF LookupRecord
    <3> HIDE DEF l
    <3> QED BY <3>1, <3>3, <3>4
  <2>3. CASE EndLookup(t)
    <3>1. NoLookup \in LookupRecord /\ NoLookup.pc = "none" /\ t # "monitor"
      BY <1>1, <2>3, ProcessAssumption DEF NoLookup, LookupRecord, EndLookup
    <3> QED BY <2>3, <3>1 DEF EndLookup
  <2>4. ASSUME t \in Other, NEW p \in Pid, BeginLookup(t, p)
        PROVE  \E l \in LookupRecord :
                 /\ lookup' = [lookup EXCEPT ![t] = l]
                 /\ l.pc \in {"find", "found"} => l.pid \in Pid
                 /\ t # "monitor"
    <3> DEFINE l == [pc |-> "find", pid |-> p, tries |-> Tries, path |-> None]
    <3>1. lookup' = [lookup EXCEPT ![t] = l] /\ t # "monitor"
      BY <2>4, ProcessAssumption DEF BeginLookup, Find
    <3>2. l \in LookupRecord /\ l.pid \in Pid
      BY <1>1 DEF LookupRecord
    <3> HIDE DEF l
    <3> QED BY <3>1, <3>2
  <2> QED BY <2>1, <2>2, <2>3, <2>4
<1>4. processMap' \in [Pid -> Image \cup {Unknown, None}]
  <2>1. CASE AskSystem(t)
    <3>1. lookup[t].pid \in Pid
      BY <1>1, <2>1 DEF AskSystem, LookupInv
    <3>2. processMap' = processMap
            \/ processMap' = [processMap EXCEPT ![lookup[t].pid] = running[lookup[t].pid]]
      BY <2>1 DEF AskSystem, InsertPath
    <3> QED BY <1>1, <3>1, <3>2
  <2>2. CASE ~AskSystem(t)
    BY <1>1, <2>2 DEF TryMap, EndLookup, BeginLookup
  <2> QED BY <2>1, <2>2
<1>5. waits' = waits /\ waits \in BOOLEAN
  BY <1>1, <1>2 DEF ProcessTypeOK
<1>6. waits' => lookup'["monitor"].pc = "none"
  <2>1. t = "monitor" => ~waits
    BY <1>1, <1>3 DEF ProcessTypeOK
  <2> QED BY <1>1, <1>3, <1>5, <2>1 DEF ProcessTypeOK
<1>7. UNCHANGED <<running, wasRunning, processQueue, happened, current, previous, handled>>
  BY <1>2
<1>8. waits' \in BOOLEAN
  BY <1>5
<1> QED BY <1>3, <1>4, <1>6, <1>7, <1>8, QuietKeeps

LEMMA WaitKeeps == ASSUME ProcessInv, Wait \/ WaitTimesOut PROVE ProcessInv'
<1>1. ProcessTypeOK /\ ListsInv /\ PlaceInv /\ MonitorInv /\ AlternateInv /\ LookupInv
  BY DEF ProcessInv
<1>2. UNCHANGED <<running, wasRunning, processQueue, happened, current, previous, processMap,
                  lookup, handled>>
  BY DEF Wait, WaitTimesOut
<1>3. ListsInv' /\ PlaceInv' /\ MonitorInv' /\ AlternateInv' /\ LookupInv'
  BY <1>1, <1>2 DEF ListsInv, PlaceInv, MonitorInv, AlternateInv, LookupInv, InHand
<1>4. waits' \in BOOLEAN /\ (waits' => lookup["monitor"].pc = "none")
  BY Zenon DEF Wait, WaitTimesOut
<1>5. ProcessTypeOK'
  BY <1>1, <1>2, <1>4 DEF ProcessTypeOK
<1> QED BY <1>3, <1>5 DEF ProcessInv

LEMMA TailPlace ==
  ASSUME NEW S, NEW q \in Seq(S), q # <<>>
  PROVE  /\ Tail(q) \in Seq(S) /\ Len(q) \in Nat \ {0} /\ Len(Tail(q)) = Len(q) - 1
         /\ Head(q) = q[1] /\ Head(q) \in S
         /\ \A i \in 1..(Len(q) - 1) : Tail(q)[i] = q[i + 1]
OBVIOUS

\* Two events in a row differ, so that none is taken for a repetition.
LEMMA HeadDiffers ==
  ASSUME ProcessInv, processQueue # <<>>, current = None
  PROVE  Differs(Head(processQueue))
<1>1. ListsInv /\ PlaceInv /\ MonitorInv /\ AlternateInv
  BY DEF ProcessInv
<1> DEFINE h == Len(handled)
           m == Len(processQueue)
           n == Len(happened)
<1>2. /\ h \in Nat /\ m \in Nat \ {0} /\ n = h + m /\ InHand = 0
      /\ Head(processQueue) = processQueue[1] /\ 1 \in 1..m
  BY <1>1, TailPlace DEF ListsInv, PlaceInv, InHand
<1>3. Head(processQueue) = happened[h + 1]
  <2>1. processQueue[1] = happened[h + 0 + 1]
    BY <1>1, <1>2 DEF PlaceInv
  <2> QED BY <1>2, <2>1
<1>4. CASE handled = <<>>
  BY <1>1, <1>4 DEF MonitorInv, Differs
<1>5. CASE handled # <<>>
  <2>1. h \in 1..(n - 1)
    <3>1. h # 0
      BY <1>1, <1>5 DEF ListsInv
    <3> QED BY <1>2, <3>1
  <2>2. previous = happened[h]
    BY <1>1, <1>5 DEF MonitorInv
  <2>3. happened[h].pid = happened[h + 1].pid => happened[h].create # happened[h + 1].create
    BY <1>1, <2>1 DEF AlternateInv
  <2>4. Head(processQueue).pid = previous.pid => Head(processQueue).create # previous.create
    BY <1>3, <2>2, <2>3
  <2> QED BY <2>4 DEF Differs
<1> QED BY <1>4, <1>5

LEMMA GetEventsKeeps == ASSUME ProcessInv, GetProcessInfo PROVE ProcessInv'
<1>1. ProcessTypeOK /\ ListsInv /\ PlaceInv /\ MonitorInv /\ AlternateInv /\ LookupInv
  BY DEF ProcessInv
<1>2. /\ UNCHANGED <<running, wasRunning, happened, waits, previous, processMap, handled>>
      /\ lookup["monitor"].pc = "request" /\ current = None
  BY <1>1 DEF GetProcessInfo, MonitorInv
<1>3. lookup \in [Thread -> LookupRecord] /\ "monitor" \in Thread /\ Tries \in Nat /\ ~waits
  BY <1>1, <1>2, ProcessAssumption DEF ProcessTypeOK, LookupRecord, Thread
<1>4. CASE processQueue = <<>>
  <2>1. NoLookup \in LookupRecord /\ NoLookup.pc = "none"
    BY <1>3 DEF NoLookup, LookupRecord
  <2>2. /\ lookup' = [lookup EXCEPT !["monitor"] = NoLookup]
        /\ UNCHANGED <<processQueue, current>>
    BY <1>4 DEF GetProcessInfo
  <2>3. \A t \in Thread : lookup'[t] = IF t = "monitor" THEN NoLookup ELSE lookup[t]
    BY <1>3, <2>2
  <2>4. ListsInv' /\ PlaceInv' /\ AlternateInv'
    BY <1>1, <1>2, <2>2 DEF ListsInv, PlaceInv, AlternateInv, InHand
  <2>5. MonitorInv'
    BY <1>1, <1>2, <1>3, <2>1, <2>2, <2>3 DEF MonitorInv
  <2>6. LookupInv'
    BY <1>1, <2>1, <2>3 DEF LookupInv
  <2>7. ProcessTypeOK'
    <3>1. lookup' \in [Thread -> LookupRecord]
      BY <1>3, <2>1, <2>2
    <3> QED BY <1>1, <1>2, <1>3, <3>1 DEF ProcessTypeOK, LookupRecord
  <2> QED BY <2>4, <2>5, <2>6, <2>7 DEF ProcessInv
<1>5. CASE processQueue # <<>>
  <2> DEFINE e == Head(processQueue)
             l == [pc |-> "find", pid |-> e.pid, tries |-> Tries, path |-> None]
  <2>1. /\ current' = e /\ processQueue' = Tail(processQueue)
        /\ lookup' = [lookup EXCEPT !["monitor"] = l]
    BY <1>2, <1>5, HeadDiffers DEF GetProcessInfo, Find
  <2>2. /\ e \in ProcessEvent /\ e # None /\ e.pid \in Pid
        /\ l \in LookupRecord /\ l.pc = "find" /\ l.pid = e.pid
    <3>1. e \in ProcessEvent
      BY <1>1, <1>5, TailPlace DEF ListsInv
    <3>2. e # None
      BY <3>1, ProcessAssumption
    <3>3. e.pid \in Pid
      BY <3>1 DEF ProcessEvent
    <3> HIDE DEF e
    <3> QED BY <1>3, <3>1, <3>2, <3>3 DEF LookupRecord
  <2> HIDE DEF l
  <2>3. \A t \in Thread : lookup'[t] = IF t = "monitor" THEN l ELSE lookup[t]
    BY <1>3, <2>1
  <2> DEFINE h == Len(handled)
             m == Len(processQueue)
             n == Len(happened)
  <2>4. /\ processQueue' \in Seq(ProcessEvent) /\ m \in Nat \ {0} /\ Len(processQueue') = m - 1
        /\ e = processQueue[1] /\ h \in Nat
        /\ \A i \in 1..(m - 1) : processQueue'[i] = processQueue[i + 1]
    BY <1>1, <1>5, <2>1, TailPlace DEF ListsInv
  <2>5. n = h + m /\ InHand = 0 /\ InHand' = 1
    BY <1>1, <1>2, <2>1, <2>2, <2>4 DEF PlaceInv, InHand
  <2>6. ListsInv'
    BY <1>1, <1>2, <2>1, <2>2, <2>4 DEF ListsInv
  <2>7. \A i \in 1..m : processQueue[i] = happened[h + i]
    <3>1. \A i \in 1..m : processQueue[i] = happened[h + 0 + i]
      BY <1>1, <2>5 DEF PlaceInv
    <3> QED BY <2>4, <3>1
  <2>8. e = happened[h + 1]
    BY <2>4, <2>7
  <2>9. \A i \in 1..(m - 1) : processQueue'[i] = happened[h + 1 + i]
    <3> SUFFICES ASSUME NEW i \in 1..(m - 1) PROVE processQueue'[i] = happened[h + 1 + i]
      OBVIOUS
    <3>1. i + 1 \in 1..m /\ h + (i + 1) = h + 1 + i
      BY <2>4
    <3> QED BY <2>4, <2>7, <3>1
  <2>10. PlaceInv'
    <3>1. handled' = handled /\ happened' = happened /\ current' = e
      BY <1>2, <2>1
    <3>2. n = h + 1 + (m - 1)
      BY <2>4, <2>5
    <3> HIDE DEF e
    <3> QED BY <1>1, <2>4, <2>5, <2>8, <2>9, <3>1, <3>2 DEF PlaceInv
  <2>11. MonitorInv'
    BY <1>1, <1>2, <1>3, <2>1, <2>2, <2>3 DEF MonitorInv
  <2>12. LookupInv'
    BY <1>1, <2>2, <2>3 DEF LookupInv
  <2>13. ProcessTypeOK'
    <3>1. lookup' \in [Thread -> LookupRecord]
      BY <1>3, <2>1, <2>2
    <3> QED BY <1>1, <1>2, <1>3, <3>1 DEF ProcessTypeOK, LookupRecord
  <2>14. AlternateInv'
    BY <1>1, <1>2 DEF AlternateInv
  <2> QED BY <2>6, <2>10, <2>11, <2>12, <2>13, <2>14 DEF ProcessInv
<1> QED BY <1>4, <1>5

LEMMA ReportKeeps == ASSUME ProcessInv, OnProcessEvent PROVE ProcessInv'
<1>1. ProcessTypeOK /\ ListsInv /\ PlaceInv /\ MonitorInv /\ AlternateInv /\ LookupInv
  BY DEF ProcessInv
<1>2. /\ UNCHANGED <<running, wasRunning, processQueue, happened, waits>>
      /\ lookup["monitor"].pc = "found" /\ current # None
      /\ previous' = current /\ current' = None
      /\ lookup' = [lookup EXCEPT !["monitor"] = NoLookup]
  BY <1>1 DEF OnProcessEvent, MonitorInv
<1>3. lookup \in [Thread -> LookupRecord] /\ "monitor" \in Thread /\ Tries \in Nat /\ ~waits
  BY <1>1, <1>2, ProcessAssumption DEF ProcessTypeOK, LookupRecord, Thread
<1>4. NoLookup \in LookupRecord /\ NoLookup.pc = "none"
  BY <1>3 DEF NoLookup, LookupRecord
<1>5. \A t \in Thread : lookup'[t] = IF t = "monitor" THEN NoLookup ELSE lookup[t]
  BY <1>2, <1>3
<1> DEFINE path == lookup["monitor"].path
           r == [event |-> current, path |-> path]
           h == Len(handled)
           m == Len(processQueue)
           n == Len(happened)
<1>6. /\ current \in ProcessEvent /\ current.pid \in Pid
      /\ path \in Image \cup {Unknown, None}
      /\ r \in [event : ProcessEvent, path : Image \cup {Unknown, None}] /\ r.event = current
  <2>1. current \in ProcessEvent
    BY <1>1, <1>2 DEF ListsInv
  <2>2. path \in Image \cup {Unknown, None}
    BY <1>3 DEF LookupRecord
  <2> QED BY <2>1, <2>2 DEF ProcessEvent
<1> HIDE DEF r
<1>7. handled' = Append(handled, r)
  BY DEF OnProcessEvent, r
<1>8. /\ handled' \in Seq([event : ProcessEvent, path : Image \cup {Unknown, None}])
      /\ h \in Nat /\ Len(handled') = h + 1 /\ handled'[h + 1] = r /\ handled' # <<>>
      /\ \A i \in 1..h : handled'[i] = handled[i]
  <2> DEFINE R == [event : ProcessEvent, path : Image \cup {Unknown, None}]
  <2>1. handled \in Seq(R) /\ r \in R
    BY <1>1, <1>6 DEF ListsInv
  <2> HIDE DEF R
  <2>2. /\ Append(handled, r) \in Seq(R) /\ h \in Nat /\ Len(Append(handled, r)) = h + 1
        /\ Append(handled, r)[h + 1] = r /\ \A i \in 1..h : Append(handled, r)[i] = handled[i]
    BY <2>1, AppendPlace
  <2>3. handled' # <<>>
    BY <1>7, <2>2
  <2> QED BY <1>7, <2>2, <2>3 DEF R
<1>9. m \in Nat /\ n = h + 1 + m /\ InHand = 1 /\ InHand' = 0
  BY <1>1, <1>2 DEF PlaceInv, InHand, ListsInv
<1>10. ListsInv'
  BY <1>1, <1>2, <1>8 DEF ListsInv
<1>11. current = happened[h + 1]
  BY <1>1, <1>2 DEF PlaceInv
<1>12. PlaceInv'
  <2>1. \A i \in 1..(h + 1) : handled'[i].event = happened[i]
    <3> SUFFICES ASSUME NEW i \in 1..(h + 1) PROVE handled'[i].event = happened[i]
      OBVIOUS
    <3>1. CASE i = h + 1
      BY <1>6, <1>8, <1>11, <3>1
    <3>2. CASE i \in 1..h
      BY <1>1, <1>8, <3>2 DEF PlaceInv
    <3> QED BY <1>8, <3>1, <3>2
  <2>2. \A i \in 1..m : processQueue[i] = happened[h + 1 + i]
    BY <1>1, <1>9 DEF PlaceInv
  <2>3. \A i \in 1..m : processQueue[i] = happened[h + 1 + 0 + i]
    BY <1>8, <2>2
  <2> QED BY <1>2, <1>8, <1>9, <2>1, <2>3 DEF PlaceInv
<1>13. MonitorInv'
  BY <1>2, <1>3, <1>4, <1>5, <1>8, <1>11 DEF MonitorInv
<1>14. LookupInv'
  BY <1>1, <1>4, <1>5 DEF LookupInv
<1>15. ProcessTypeOK'
  <2>1. lookup' \in [Thread -> LookupRecord]
    BY <1>2, <1>3, <1>4
  <2>2. processMap' \in [Pid -> Image \cup {Unknown, None}]
    <3>1. processMap' = processMap \/ processMap' = [processMap EXCEPT ![current.pid] = path]
      BY DEF OnProcessEvent, InsertPath
    <3> QED BY <1>1, <1>6, <3>1 DEF ProcessTypeOK
  <2> QED BY <1>1, <1>2, <1>3, <2>1, <2>2 DEF ProcessTypeOK, LookupRecord
<1>16. AlternateInv'
  BY <1>1, <1>2 DEF AlternateInv
<1> QED BY <1>10, <1>12, <1>13, <1>14, <1>15, <1>16 DEF ProcessInv

LEMMA ProcessKeeps ==
  ASSUME ProcessInv, NEW p \in Pid, EndProcess(p) \/ \E image \in Image : CreateProcess(p, image)
  PROVE  ProcessInv'
<1>1. /\ running \in [Pid -> Image \cup {None}] /\ wasRunning \in [Pid -> SUBSET Image]
  BY DEF ProcessInv, ProcessTypeOK
<1>2. CASE EndProcess(p)
  <2> DEFINE e == [create |-> FALSE, pid |-> p, image |-> running[p]]
  <2>1. e \in ProcessEvent /\ ~e.create /\ e.pid = p /\ running[p] # None
    BY <1>1, <1>2 DEF ProcessEvent, EndProcess
  <2>2. processQueue' = Append(processQueue, e) /\ happened' = Append(happened, e) /\ waits' = FALSE
    BY <1>2 DEF EndProcess, Callback, Pulse
  <2>3. /\ running' \in [Pid -> Image \cup {None}] /\ running'[p] = None
        /\ wasRunning' \in [Pid -> SUBSET Image]
        /\ lookup' = [lookup EXCEPT !["monitor"].pc = IF waits THEN "request" ELSE @]
        /\ UNCHANGED <<current, previous, processMap, handled>>
    BY <1>1, <1>2 DEF EndProcess
  <2> HIDE DEF e
  <2> QED BY <2>1, <2>2, <2>3, CallbackKeeps
<1>3. ASSUME NEW image \in Image, CreateProcess(p, image) PROVE ProcessInv'
  <2> DEFINE e == [create |-> TRUE, pid |-> p, image |-> image]
  <2>1. e \in ProcessEvent /\ e.create /\ e.pid = p /\ running[p] = None
    BY <1>3 DEF ProcessEvent, CreateProcess
  <2>2. processQueue' = Append(processQueue, e) /\ happened' = Append(happened, e) /\ waits' = FALSE
    BY <1>3 DEF CreateProcess, Callback, Pulse
  <2>3. /\ running' \in [Pid -> Image \cup {None}] /\ running'[p] # None
        /\ wasRunning' \in [Pid -> SUBSET Image]
        /\ lookup' = [lookup EXCEPT !["monitor"].pc = IF waits THEN "request" ELSE @]
        /\ UNCHANGED <<current, previous, processMap, handled>>
    BY <1>1, <1>3, ProcessAssumption DEF CreateProcess
  <2> HIDE DEF e
  <2> QED BY <2>1, <2>2, <2>3, CallbackKeeps
<1> QED BY <1>2, <1>3

LEMMA ProcessStepInv == ASSUME ProcessInv, [ProcessNext]_processVars PROVE ProcessInv'
<1>1. CASE processVars' = processVars
  BY <1>1 DEF processVars, ProcessInv, ProcessTypeOK, ListsInv, PlaceInv, MonitorInv, AlternateInv,
              LookupInv, InHand
<1>2. CASE ProcessNext
  <2>1. "monitor" \in Thread /\ \A o \in Other : o \in Thread
    BY DEF Thread
  <2>2. CASE \E p \in Pid : EndProcess(p) \/ \E image \in Image : CreateProcess(p, image)
    BY <2>2, ProcessKeeps
  <2>3. CASE MonitorThread \/ WaitTimesOut
    BY <2>1, <2>3, WaitKeeps, GetEventsKeeps, LookupKeeps, ReportKeeps DEF MonitorThread
  <2>4. CASE \E o \in Other : \/ TryMap(o) \/ AskSystem(o) \/ EndLookup(o)
                              \/ \E p \in Pid : BeginLookup(o, p)
    BY <2>1, <2>4, LookupKeeps
  <2> QED BY <1>2, <2>2, <2>3, <2>4 DEF ProcessNext
<1> QED BY <1>1, <1>2

\* The inductive invariant holds of every behaviour.
LEMMA ProcessInvariant == ProcessSpec => []ProcessInv
BY ProcessInitInv, ProcessStepInv, PTL DEF ProcessSpec

-----------------------------------------------------------------------------
(* Results                                                                 *)

\* NoProcessEventIsLost: ProcessCallback's events reach onProcessEvent all and in
\* order; the driver's comparison with the previous event drops none.
THEOREM ProcessEventsArrive == ProcessSpec => []NoProcessEventIsLost
<1>1. ASSUME ProcessInv PROVE NoProcessEventIsLost
  <2> DEFINE handledEvents == [i \in 1..Len(handled) |-> handled[i].event]
             inHand == IF current = None THEN <<>> ELSE <<current>>
             h == Len(handled)
             m == Len(processQueue)
             n == Len(happened)
             s == handledEvents \o inHand
  <2>1. ListsInv /\ PlaceInv
    BY <1>1 DEF ProcessInv
  <2>2. h \in Nat /\ m \in Nat /\ n = h + InHand + m /\ InHand \in 0..1
    BY <2>1 DEF ListsInv, PlaceInv, InHand
  <2>3. handledEvents \in Seq(ProcessEvent) /\ Len(handledEvents) = h
    <3>1. \A i \in 1..h : handled[i].event \in ProcessEvent
      <4> SUFFICES ASSUME NEW i \in 1..h PROVE handled[i].event \in ProcessEvent
        OBVIOUS
      <4> DEFINE R == [event : ProcessEvent, path : Image \cup {Unknown, None}]
      <4>1. handled[i] \in R
        <5>1. handled \in Seq(R)
          BY <2>1 DEF ListsInv
        <5> HIDE DEF R
        <5> QED BY <5>1
      <4> QED BY <4>1
    <3>2. handledEvents \in [1..h -> ProcessEvent]
      BY <3>1
    <3> HIDE DEF h, handledEvents
    <3>3. handledEvents \in Seq(ProcessEvent) /\ Len(handledEvents) = h
      BY <2>2, <3>2
    <3> QED BY <3>3 DEF h, handledEvents
  <2>4. inHand \in Seq(ProcessEvent) /\ Len(inHand) = InHand
    BY <2>1 DEF ListsInv, InHand
  <2>5. \A i \in 1..h : handledEvents[i] = happened[i]
    BY <2>1 DEF PlaceInv
  <2>6. \A i \in 1..InHand : inHand[i] = happened[h + i]
    BY <2>1 DEF PlaceInv, InHand
  <2> HIDE DEF handledEvents, inHand
  <2>7. /\ s \in Seq(ProcessEvent) /\ Len(s) = h + InHand
        /\ \A i \in 1..h : s[i] = handledEvents[i]
        /\ \A i \in 1..InHand : s[h + i] = inHand[i]
    <3>0. handledEvents \in Seq(ProcessEvent) /\ inHand \in Seq(ProcessEvent)
      BY <2>3, <2>4
    <3>1. /\ s \in Seq(ProcessEvent) /\ Len(s) = Len(handledEvents) + Len(inHand)
          /\ \A i \in 1..Len(handledEvents) : s[i] = handledEvents[i]
          /\ \A i \in 1..Len(inHand) : s[Len(handledEvents) + i] = inHand[i]
      BY <3>0, ConcatPlace
    <3> HIDE DEF s, h
    <3> QED BY <2>3, <2>4, <3>1
  <2> DEFINE all == s \o processQueue
  <2>8. processQueue \in Seq(ProcessEvent) /\ happened \in Seq(ProcessEvent)
    BY <2>1 DEF ListsInv
  <2> HIDE DEF s
  <2>9. /\ all \in Seq(ProcessEvent) /\ Len(all) = Len(s) + m
        /\ \A i \in 1..Len(s) : all[i] = s[i]
        /\ \A i \in 1..m : all[Len(s) + i] = processQueue[i]
    <3>1. s \in Seq(ProcessEvent)
      BY <2>7
    <3> QED BY <2>8, <3>1, ConcatPlace
  <2> HIDE DEF all
  <2>10. \A i \in 1..m : processQueue[i] = happened[h + InHand + i]
    BY <2>1 DEF PlaceInv
  <2> HIDE DEF h, m
  <2>11. \A i \in 1..n : all[i] = happened[i]
    <3> SUFFICES ASSUME NEW i \in 1..n PROVE all[i] = happened[i]
      OBVIOUS
    <3>1. CASE i \in 1..h
      BY <2>2, <2>5, <2>7, <2>9, <3>1
    <3>2. CASE i - h \in 1..InHand
      <4>1. i \in 1..Len(s) /\ h + (i - h) = i
        BY <2>2, <2>7, <3>2
      <4> QED BY <2>6, <2>7, <2>9, <3>2, <4>1
    <3>3. CASE i - (h + InHand) \in 1..m
      <4>1. h + InHand + (i - (h + InHand)) = i
        BY <2>2, <3>3
      <4> QED BY <2>7, <2>9, <2>10, <3>3, <4>1
    <3> QED BY <2>2, <3>1, <3>2, <3>3
  <2>12. all = happened
    <3>1. Len(all) = Len(happened)
      BY <2>2, <2>7, <2>9
    <3> QED BY <2>8, <2>9, <2>11, <3>1, SeqEqual
  <2> QED BY <2>12 DEF NoProcessEventIsLost, all, s, handledEvents, inHand
<1> QED BY <1>1, ProcessInvariant, PTL

-----------------------------------------------------------------------------
(* The paths                                                               *)

LEMMA InitPaths == ASSUME ProcessInit PROVE PathInv
<1>1. /\ \A p \in Pid : running[p] \in wasRunning[p] \cup {None}
      /\ \A p \in Pid : processMap[p] \in wasRunning[p] \cup {Unknown, None}
  BY DEF ProcessInit
<1>2. \A t \in Thread : lookup[t].pc = "none"
  BY DEF ProcessInit, NoLookup
<1>3. Len(handled) = 0 /\ extra = {}
  BY DEF ProcessInit
<1> QED BY <1>1, <1>2, <1>3 DEF PathInv

\* Steps that look nothing up.
LEMMA PathsStay ==
  ASSUME ProcessInv, PathInv, UNCHANGED <<processMap, handled, extra>>,
         \A p \in Pid : wasRunning[p] \subseteq wasRunning'[p],
         \A p \in Pid : running'[p] \in wasRunning'[p] \cup {None},
         \A t \in Thread : lookup'[t].pc = "found" =>
           /\ lookup[t].pc = "found" /\ lookup'[t].pid = lookup[t].pid
           /\ lookup'[t].path = lookup[t].path
  PROVE  PathInv'
<1>1. \A t \in Thread : lookup[t].pc = "found" => lookup[t].pid \in Pid
  BY DEF ProcessInv, LookupInv
<1>2. \A i \in 1..Len(handled) : handled[i].event.pid \in Pid
  <2> SUFFICES ASSUME NEW i \in 1..Len(handled) PROVE handled[i].event.pid \in Pid
    OBVIOUS
  <2> DEFINE R == [event : ProcessEvent, path : Image \cup {Unknown, None}]
  <2>1. handled[i] \in R
    <3>1. handled \in Seq(R)
      BY DEF ProcessInv, ListsInv
    <3> HIDE DEF R
    <3> QED BY <3>1
  <2> QED BY <2>1 DEF ProcessEvent
<1>3. \A t \in Thread :
        lookup'[t].pc = "found" => lookup'[t].path \in wasRunning'[lookup'[t].pid] \cup {Unknown}
  BY <1>1 DEF PathInv
<1>4. \A i \in 1..Len(handled') :
        handled'[i].path \in wasRunning'[handled'[i].event.pid] \cup {Unknown}
  BY <1>2 DEF PathInv
<1> QED BY <1>3, <1>4 DEF PathInv

\* The step of a thread that finds a path.
LEMMA PathFound ==
  ASSUME ProcessInv, PathInv, NEW t \in Thread, TryMap(t) \/ AskSystem(t)
  PROVE  PathInv'
<1> DEFINE p == lookup[t].pid
<1>1. /\ lookup \in [Thread -> LookupRecord] /\ p \in Pid
      /\ processMap \in [Pid -> Image \cup {Unknown, None}]
      /\ running[p] \in wasRunning[p] \cup {None}
      /\ processMap[p] \in wasRunning[p] \cup {Unknown, None}
  BY DEF ProcessInv, ProcessTypeOK, LookupInv, LookupRecord, TryMap, AskSystem, PathInv
<1>2. UNCHANGED <<running, wasRunning, handled>>
  BY DEF TryMap, AskSystem
<1>3. PICK path : /\ path \in wasRunning[p] \cup {Unknown}
                  /\ \/ lookup' = Found(t, path)
                     \/ lookup' = [lookup EXCEPT ![t].tries = lookup[t].tries - 1]
  <2>1. CASE TryMap(t)
    BY <1>1, <2>1 DEF TryMap
  <2>2. CASE AskSystem(t)
    BY <1>1, <2>2 DEF AskSystem
  <2> QED BY <2>1, <2>2
<1>4. \A u \in Thread :
        /\ lookup'[u].pid = lookup[u].pid
        /\ lookup'[u].pc = "found" => \/ lookup[u].pc = "found" /\ lookup'[u].path = lookup[u].path
                                      \/ u = t /\ lookup'[u].path = path
  <2>1. CASE lookup' = Found(t, path)
    BY <1>1, <2>1 DEF Found, LookupRecord
  <2>2. CASE lookup' = [lookup EXCEPT ![t].tries = lookup[t].tries - 1]
    BY <1>1, <2>2 DEF LookupRecord
  <2> QED BY <1>3, <2>1, <2>2
<1>5. \A u \in Thread :
        lookup'[u].pc = "found" => lookup'[u].path \in wasRunning'[lookup'[u].pid] \cup {Unknown}
  <2> SUFFICES ASSUME NEW u \in Thread, lookup'[u].pc = "found"
               PROVE  lookup'[u].path \in wasRunning[lookup[u].pid] \cup {Unknown}
    BY <1>2, <1>4
  <2>1. CASE lookup[u].pc = "found" /\ lookup'[u].path = lookup[u].path
    BY <2>1 DEF PathInv
  <2>2. CASE u = t /\ lookup'[u].path = path
    BY <1>3, <2>2
  <2> QED BY <1>4, <2>1, <2>2
<1>6. /\ \A q \in Pid : processMap'[q] \in wasRunning'[q] \cup {Unknown, None}
      /\ \A x \in extra' : x[1] \in Pid /\ x[2] \in wasRunning'[x[1]]
  <2>1. CASE UNCHANGED <<processMap, extra>>
    BY <1>2, <2>1 DEF PathInv
  <2>2. CASE ~UNCHANGED <<processMap, extra>>
    <3>1. /\ processMap' = [processMap EXCEPT ![p] = running[p]] /\ running[p] # None
          /\ extra' = extra \cup {<<p, running[p]>>}
      BY <2>2 DEF TryMap, AskSystem, InsertPath
    <3> QED BY <1>1, <1>2, <3>1 DEF PathInv
  <2> QED BY <2>1, <2>2
<1>7. /\ \A q \in Pid : running'[q] \in wasRunning'[q] \cup {None}
      /\ \A i \in 1..Len(handled') :
           handled'[i].path \in wasRunning'[handled'[i].event.pid] \cup {Unknown}
  BY <1>2 DEF PathInv
<1> QED BY <1>5, <1>6, <1>7 DEF PathInv

LEMMA PathReported == ASSUME ProcessInv, PathInv, OnProcessEvent PROVE PathInv'
<1> DEFINE path == lookup["monitor"].path
           r == [event |-> current, path |-> path]
           h == Len(handled)
<1>1. /\ "monitor" \in Thread /\ lookup \in [Thread -> LookupRecord]
      /\ lookup["monitor"].pc = "found" /\ current # None /\ current.pid = lookup["monitor"].pid
  BY DEF ProcessInv, ProcessTypeOK, LookupRecord, Thread, OnProcessEvent, MonitorInv
<1>2. /\ current \in ProcessEvent /\ current.pid \in Pid
      /\ path \in wasRunning[current.pid] \cup {Unknown}
      /\ path \in Image \cup {Unknown, None}
      /\ processMap \in [Pid -> Image \cup {Unknown, None}]
  BY <1>1 DEF ProcessInv, ListsInv, LookupInv, LookupRecord, PathInv, ProcessTypeOK
<1>3. /\ UNCHANGED <<running, wasRunning, extra>> /\ handled' = Append(handled, r)
      /\ lookup' = [lookup EXCEPT !["monitor"] = NoLookup]
      /\ processMap' = processMap \/ processMap' = [processMap EXCEPT ![current.pid] = path]
  BY DEF OnProcessEvent, InsertPath
<1>4. \A t \in Thread :
        lookup'[t].pc = "found" => lookup'[t].path \in wasRunning'[lookup'[t].pid] \cup {Unknown}
  BY <1>1, <1>3 DEF PathInv, NoLookup
<1>5. \A p \in Pid : processMap'[p] \in wasRunning'[p] \cup {Unknown, None}
  BY <1>2, <1>3 DEF PathInv
<1>6. /\ h \in Nat /\ Len(handled') = h + 1 /\ handled'[h + 1] = r
      /\ \A i \in 1..h : handled'[i] = handled[i]
  <2> DEFINE R == [event : ProcessEvent, path : Image \cup {Unknown, None}]
  <2>1. handled \in Seq(R) /\ r \in R
    BY <1>2 DEF ProcessInv, ListsInv
  <2> HIDE DEF R, r
  <2> QED BY <1>3, <2>1
<1>7. r.event = current /\ r.path = path
  OBVIOUS
<1> HIDE DEF r
<1>8. \A i \in 1..Len(handled') :
        handled'[i].path \in wasRunning'[handled'[i].event.pid] \cup {Unknown}
  <2> SUFFICES ASSUME NEW i \in 1..(h + 1)
               PROVE  handled'[i].path \in wasRunning'[handled'[i].event.pid] \cup {Unknown}
    BY <1>6
  <2>1. CASE i = h + 1
    BY <1>2, <1>3, <1>6, <1>7, <2>1
  <2>2. CASE i \in 1..h
    BY <1>3, <1>6, <2>2 DEF PathInv
  <2> QED BY <1>6, <2>1, <2>2
<1> QED BY <1>3, <1>4, <1>5, <1>8 DEF PathInv

LEMMA StepPaths == ASSUME ProcessInv, PathInv, [ProcessNext]_processVars PROVE PathInv'
<1>1. /\ lookup \in [Thread -> LookupRecord] /\ "monitor" \in Thread
      /\ running \in [Pid -> Image \cup {None}] /\ wasRunning \in [Pid -> SUBSET Image]
      /\ \A p \in Pid : running[p] \in wasRunning[p] \cup {None}
  BY DEF ProcessInv, ProcessTypeOK, LookupRecord, Thread, PathInv
<1>2. CASE \E p \in Pid : EndProcess(p) \/ \E image \in Image : CreateProcess(p, image)
  <2>1. PICK p \in Pid : EndProcess(p) \/ \E image \in Image : CreateProcess(p, image)
    BY <1>2
  <2>2. /\ UNCHANGED <<processMap, handled, extra>>
        /\ lookup' = [lookup EXCEPT !["monitor"].pc = IF waits THEN "request" ELSE @]
    BY <2>1 DEF EndProcess, CreateProcess
  <2>3. \A t \in Thread : lookup'[t].pc = "found" =>
          /\ lookup[t].pc = "found" /\ lookup'[t].pid = lookup[t].pid
          /\ lookup'[t].path = lookup[t].path
    BY <1>1, <2>2 DEF LookupRecord
  <2>4. /\ \A q \in Pid : wasRunning[q] \subseteq wasRunning'[q]
        /\ \A q \in Pid : running'[q] \in wasRunning'[q] \cup {None}
    <3>1. CASE EndProcess(p)
      BY <1>1, <3>1 DEF EndProcess
    <3>2. ASSUME NEW image \in Image, CreateProcess(p, image)
          PROVE  /\ \A q \in Pid : wasRunning[q] \subseteq wasRunning'[q]
                 /\ \A q \in Pid : running'[q] \in wasRunning'[q] \cup {None}
      <4>1. \A q \in Pid : /\ wasRunning'[q] = IF q = p THEN wasRunning[p] \cup {image}
                                              ELSE wasRunning[q]
                          /\ running'[q] = IF q = p THEN image ELSE running[q]
        BY <1>1, <3>2 DEF CreateProcess
      <4> QED BY <1>1, <4>1
    <3> QED BY <2>1, <3>1, <3>2
  <2> QED BY <2>2, <2>3, <2>4, PathsStay
<1>3. CASE \E t \in Thread : TryMap(t) \/ AskSystem(t)
  BY <1>3, PathFound
<1>4. CASE OnProcessEvent
  BY <1>4, PathReported
<1>5. CASE \/ Wait \/ WaitTimesOut \/ GetProcessInfo \/ processVars' = processVars
           \/ \E o \in Other : EndLookup(o) \/ \E p \in Pid : BeginLookup(o, p)
  <2>1. UNCHANGED <<running, wasRunning, processMap, handled, extra>>
    BY <1>5 DEF Wait, WaitTimesOut, GetProcessInfo, EndLookup, BeginLookup, processVars
  <2>2. \/ lookup' = lookup
        \/ \E t \in Thread : \/ lookup' = [lookup EXCEPT ![t] = NoLookup]
                            \/ \E p : lookup' = Find(t, p)
    BY <1>1, <1>5 DEF Wait, WaitTimesOut, GetProcessInfo, EndLookup, BeginLookup, processVars,
                      Thread
  <2>3. \A t \in Thread : lookup'[t].pc = "found" =>
          /\ lookup[t].pc = "found" /\ lookup'[t].pid = lookup[t].pid
          /\ lookup'[t].path = lookup[t].path
    BY <1>1, <2>2 DEF NoLookup, Find
  <2> QED BY <1>1, <2>1, <2>3, PathsStay
<1>6. Other \subseteq Thread
  BY DEF Thread
<1> QED BY <1>1, <1>2, <1>3, <1>4, <1>5, <1>6 DEF ProcessNext, MonitorThread

\* KnownPathsWereReal: neither the map that several threads write, nor a report,
\* names a program that did not run under the process id.
THEOREM PathsAreReal == ProcessSpec => []KnownPathsWereReal
<1>1. PathInv => KnownPathsWereReal
  BY DEF PathInv, KnownPathsWereReal
<1> QED BY <1>1, InitPaths, StepPaths, ProcessInvariant, PTL DEF ProcessSpec
-----------------------------------------------------------------------------
(* The event list that the network driver shares with the monitor.         *)

(* What is in memory of one list, as a formula over its parts: B the bits in use, h and tl head and tail, M the
   blocks, W the threads at work on it, n the events inserted so far, rec those read, sk those skipped, r the reader.
   Unread events are numbered lo + 1 .. n, and event k is in block f[k]. *)
SharedAts(W) == {W[t].at : t \in DOMAIN W}
HeldBlocks(W, n, lo, f) == SharedAts(W) \cup {f[k] : k \in lo + 1 .. n}
FirstUnread(n, lo, f) == IF lo < n THEN f[lo + 1] ELSE NULL

ThreadsHold(B, tl, M, W) ==
  /\ \A t, u \in DOMAIN W : W[t].at = W[u].at => t = u
  /\ \A t \in DOMAIN W : /\ W[t].at \in B /\ W[t].at # tl /\ M[W[t].at].next = NULL
                         /\ W[t].pc = "data" => M[W[t].at].data = NULL

\* The events lo + 1 .. n that are not read yet are in the blocks f[lo + 1],
\* ..., f[n], which are linked in this order; the last is the tail.
Chained(B, tl, M, W, n, lo, f) ==
  /\ \A j, k \in lo + 1 .. n : f[j] = f[k] => j = k
  /\ \A k \in lo + 1 .. n : f[k] \in B /\ f[k] \notin SharedAts(W) /\ M[f[k]].event = k
  /\ \A k \in lo + 1 .. n : M[f[k]].next = IF k < n THEN f[k + 1] ELSE NULL
  /\ lo < n => tl = f[n]

\* No two events have the same data, and none is in a block of an event.
DataApart(B, M, F) ==
  /\ \A b \in F : M[b].data = NULL \/ M[b].data \in B \ F
  /\ \A b, c \in F : M[b].data = M[c].data => b = c \/ M[b].data = NULL

\* The head is the first unread event, or the one that the reader has in hand
\* and whose bit it has not cleared yet.
ReaderAt(B, h, tl, M, n, lo, f, F, r) ==
  /\ r.pc \in {"next", "store", "clear"} => r.at \in B \ F /\ \A b \in F : M[b].data # r.at
  /\ h = IF r.pc \in {"next", "store"} THEN r.at ELSE FirstUnread(n, lo, f)
  /\ r.pc = "data" => lo < n /\ r.at = h
  /\ r.pc = "next" => M[r.at].next = FirstUnread(n, lo, f) /\ (lo = n => tl = r.at)
  /\ r.pc = "store" => r.next = FirstUnread(n, lo, f)

\* What has been read is 1 .. lo in ascending order, but for skipped events.
ReadUpTo(n, rec, sk, lo) ==
  /\ \A i, j \in DOMAIN rec : i < j => rec[i] < rec[j]
  /\ {rec[i] : i \in DOMAIN rec} = {k \in 1 .. lo : k \notin sk}
  /\ sk \subseteq 1 .. lo

\* The invariant of one list, of its fields: the unread events are linked in
\* the order of their insertion, from the head to the tail.
ListIs(B, h, tl, M, W, n, rec, sk, r) == ThreadsHold(B, tl, M, W) /\ \E lo \in 0 .. n, f \in [Nat -> Block] :
  /\ Chained(B, tl, M, W, n, lo, f)
  /\ DataApart(B, M, HeldBlocks(W, n, lo, f))
  /\ ReaderAt(B, h, tl, M, n, lo, f, HeldBlocks(W, n, lo, f), r)
  /\ ReadUpTo(n, rec, sk, lo)

BlockMemory == [Block -> [event : Nat, next : Block \cup {NULL}, data : Block \cup {NULL}]]
Workers(W) == \A t \in DOMAIN W : W[t].pc \in {"data", "insert"} /\ W[t].at \in Block
SReader(r) == r.pc \in {"wait", "data", "next", "store", "clear"} /\ r.at \in Block \cup {NULL} /\ r.next \in Block \cup {NULL}
Blank == [event |-> 0, next |-> NULL, data |-> NULL]
AtWork(W, t, w) == [u \in DOMAIN W \cup {t} |-> IF u = t THEN w ELSE W[u]]
OffWork(W, t) == [u \in DOMAIN W \ {t} |-> W[u]]

LEMMA NullIsNoBlock == \A b \in Block : b # NULL
BY SharedListAssumption DEF Block, NULL

LEMMA SharedCreateKeeps ==
  ASSUME NEW B \in SUBSET Block, NEW h, NEW tl \in Block \cup {NULL}, NEW M \in BlockMemory, NEW W, Workers(W), NEW n \in Nat,
         NEW rec, NEW sk, NEW r, SReader(r), ListIs(B, h, tl, M, W, n, rec, sk, r),
         NEW t, t \notin DOMAIN W, NEW b \in Block \ B, b # tl, NEW l
  PROVE  ListIs(B \cup {b}, h, tl, [M EXCEPT ![b] = Blank],
                AtWork(W, t, [pc |-> "data", list |-> l, at |-> b]), n, rec, sk, r)
<1> DEFINE M1 == [M EXCEPT ![b] = Blank]  B1 == B \cup {b}  W1 == AtWork(W, t, [pc |-> "data", list |-> l, at |-> b])
<1> PICK lo \in 0 .. n, f \in [Nat -> Block] :
       /\ Chained(B, tl, M, W, n, lo, f) /\ DataApart(B, M, HeldBlocks(W, n, lo, f))
       /\ ReaderAt(B, h, tl, M, n, lo, f, HeldBlocks(W, n, lo, f), r) /\ ReadUpTo(n, rec, sk, lo)
  BY Zenon DEF ListIs
<1> DEFINE F == HeldBlocks(W, n, lo, f)  F1 == HeldBlocks(W1, n, lo, f)
<1>m. /\ \A c \in Block : c # b => M1[c] = M[c]
      /\ M1[b] = Blank
  BY DEF BlockMemory
<1>w. /\ DOMAIN W1 = DOMAIN W \cup {t} /\ W1[t].at = b /\ W1[t].pc = "data"
      /\ \A u \in DOMAIN W : u # t /\ W1[u] = W[u]
  BY DEF AtWork
<1>0. ThreadsHold(B, tl, M, W)
  BY DEF ListIs
<1>b. Blank.next = NULL /\ Blank.data = NULL
  BY DEF Blank
<1>a. SharedAts(W1) = SharedAts(W) \cup {b}
  BY <1>w DEF SharedAts
<1>f. F1 = F \cup {b}
  BY <1>a DEF HeldBlocks
<1>h. F \subseteq B
  BY <1>0 DEF HeldBlocks, SharedAts, ThreadsHold, Chained
<1>d. DataApart(B, M, F)
  OBVIOUS
<1> HIDE DEF M1, W1, F, F1
<1>1. ThreadsHold(B1, tl, M1, W1)
  <2>1. \A u, v \in DOMAIN W1 : W1[u].at = W1[v].at => u = v
    BY <1>w, <1>0 DEF ThreadsHold
  <2>2. ASSUME NEW u \in DOMAIN W1
        PROVE  /\ W1[u].at \in B1 /\ W1[u].at # tl /\ M1[W1[u].at].next = NULL
               /\ W1[u].pc = "data" => M1[W1[u].at].data = NULL
    BY <1>w, <1>m, <1>0, <1>b DEF ThreadsHold
  <2> QED BY <2>1, <2>2 DEF ThreadsHold
<1>2. Chained(B1, tl, M1, W1, n, lo, f)
  <2>1. \A k \in lo + 1 .. n : f[k] \in B /\ f[k] # b /\ M1[f[k]] = M[f[k]] /\ f[k] \notin SharedAts(W1)
    BY <1>a, <1>m DEF Chained
  <2> QED BY <2>1 DEF Chained
<1>3. DataApart(B1, M1, F1)
  <2>1. \A c \in F : c # b /\ M1[c].data = M[c].data /\ M[c].data # b
    BY <1>h, <1>m, <1>d, NullIsNoBlock DEF DataApart
  <2>2. M1[b].data = NULL
    BY <1>m, <1>b
  <2> QED BY <2>1, <2>2, <1>f, <1>d DEF DataApart
<1>4. ReaderAt(B1, h, tl, M1, n, lo, f, F1, r)
  <2>1. r.pc \in {"next", "store", "clear"} => r.at \in B /\ r.at # b /\ M1[r.at] = M[r.at]
    BY <1>m DEF ReaderAt
  <2>2. \A c \in F : c # b /\ M1[c].data = M[c].data
    BY <1>h, <1>m
  <2>3. r.pc \in {"next", "store", "clear"} => r.at \in B1 \ F1 /\ \A c \in F1 : M1[c].data # r.at
    BY <2>1, <2>2, <1>f, <1>m, <1>b, NullIsNoBlock DEF ReaderAt, F
  <2> QED BY <2>1, <2>3 DEF ReaderAt
<1> QED BY <1>1, <1>2, <1>3, <1>4 DEF ListIs, M1, W1, F1

(* A thread goes on from its data to the insertion, without room for them. *)
LEMMA SharedNoRoomKeeps ==
  ASSUME NEW B \in SUBSET Block, NEW h, NEW tl, NEW M, NEW W, NEW n \in Nat, NEW rec, NEW sk, NEW r,
         ListIs(B, h, tl, M, W, n, rec, sk, r),
         NEW t \in DOMAIN W, NEW w, w.at = W[t].at, w.pc = "insert"
  PROVE  ListIs(B, h, tl, M, AtWork(W, t, w), n, rec, sk, r)
<1> DEFINE W1 == AtWork(W, t, w)
<1>w. DOMAIN W1 = DOMAIN W /\ W1[t].pc = "insert" /\ \A u \in DOMAIN W : W1[u].at = W[u].at /\ (u # t => W1[u] = W[u])
  BY DEF AtWork
<1> HIDE DEF W1
<1>a. SharedAts(W1) = SharedAts(W)
  BY <1>w DEF SharedAts
<1>1. ThreadsHold(B, tl, M, W1)
  BY <1>w DEF ThreadsHold, ListIs
<1>2. ASSUME NEW lo \in 0 .. n, NEW f \in [Nat -> Block]
      PROVE  HeldBlocks(W1, n, lo, f) = HeldBlocks(W, n, lo, f)
  BY <1>a DEF HeldBlocks
<1>3. ASSUME NEW lo \in 0 .. n, NEW f \in [Nat -> Block], Chained(B, tl, M, W, n, lo, f)
      PROVE  Chained(B, tl, M, W1, n, lo, f)
  BY <1>a, <1>3 DEF Chained
<1> QED BY <1>1, <1>2, <1>3 DEF ListIs, W1

(* It takes a block for them.                                              *)
LEMMA SharedDataKeeps ==
  ASSUME NEW B \in SUBSET Block, NEW h, NEW tl \in Block \cup {NULL}, NEW M \in BlockMemory, NEW W, Workers(W), NEW n \in Nat,
         NEW rec, NEW sk, NEW r, SReader(r), ListIs(B, h, tl, M, W, n, rec, sk, r),
         NEW t \in DOMAIN W, W[t].pc = "data", NEW w, w.at = W[t].at, w.pc = "insert", NEW b \in Block \ B,
         NEW M1, M1 = [[M EXCEPT ![W[t].at] = [M[W[t].at] EXCEPT !.data = b]] EXCEPT ![b] = Blank]
  PROVE  ListIs(B \cup {b}, h, tl, M1, AtWork(W, t, w), n, rec, sk, r)
<1> DEFINE B1 == B \cup {b}  W1 == AtWork(W, t, w)  a == W[t].at
<1> PICK lo \in 0 .. n, f \in [Nat -> Block] :
       /\ Chained(B, tl, M, W, n, lo, f) /\ DataApart(B, M, HeldBlocks(W, n, lo, f))
       /\ ReaderAt(B, h, tl, M, n, lo, f, HeldBlocks(W, n, lo, f), r) /\ ReadUpTo(n, rec, sk, lo)
  BY Zenon DEF ListIs
<1> DEFINE F == HeldBlocks(W, n, lo, f)  F1 == HeldBlocks(W1, n, lo, f)
<1>0. ThreadsHold(B, tl, M, W)
  BY DEF ListIs
<1>t. a \in Block /\ a \in B /\ a # b /\ a \in F /\ a \in SharedAts(W)
  BY <1>0 DEF ThreadsHold, Workers, HeldBlocks, SharedAts
<1>m. /\ \A c \in Block : c # b /\ c # a => M1[c] = M[c]
      /\ M1[a].data = b /\ M1[a].next = M[a].next /\ M1[a].event = M[a].event
  BY <1>t DEF BlockMemory
<1>w. /\ DOMAIN W1 = DOMAIN W /\ W1[t].pc = "insert" /\ W1[t].at = a
      /\ \A u \in DOMAIN W : W1[u].at = W[u].at /\ (u # t => W1[u] = W[u])
  BY DEF AtWork
<1>a. SharedAts(W1) = SharedAts(W)
  BY <1>w DEF SharedAts
<1>f. F1 = F
  BY <1>a DEF HeldBlocks
<1>h. F \subseteq B
  BY <1>0 DEF HeldBlocks, SharedAts, ThreadsHold, Chained
<1>d. DataApart(B, M, F) /\ ReaderAt(B, h, tl, M, n, lo, f, F, r)
  OBVIOUS
<1>u. \A u \in DOMAIN W : u # t => W[u].at # a
  BY <1>0 DEF ThreadsHold
<1> HIDE DEF W1, F, F1, a
<1>1. ThreadsHold(B1, tl, M1, W1)
  <2>1. ASSUME NEW u \in DOMAIN W
        PROVE  /\ W1[u].at \in B1 /\ W1[u].at # tl /\ M1[W1[u].at].next = NULL
               /\ W1[u].pc = "data" => M1[W1[u].at].data = NULL
    <3>1. CASE u = t
      BY <3>1, <1>w, <1>m, <1>0 DEF ThreadsHold, a
    <3>2. CASE u # t
      <4>1. W[u].at # a /\ W[u].at # b /\ W[u].at \in Block
        BY <3>2, <1>u, <1>0 DEF ThreadsHold
      <4>2. W1[u] = W[u] /\ M1[W[u].at] = M[W[u].at]
        BY <4>1, <3>2, <1>w, <1>m
      <4>3. /\ W[u].at \in B /\ W[u].at # tl /\ M[W[u].at].next = NULL
            /\ W[u].pc = "data" => M[W[u].at].data = NULL
        BY <1>0 DEF ThreadsHold
      <4> QED BY <4>2, <4>3
    <3> QED BY <3>1, <3>2
  <2>2. \A u, v \in DOMAIN W : W1[u].at = W1[v].at => u = v
    BY <1>w, <1>0 DEF ThreadsHold
  <2>3. DOMAIN W1 = DOMAIN W
    BY <1>w
  <2> QED BY Zenon, <2>1, <2>2, <2>3 DEF ThreadsHold
<1>2. Chained(B1, tl, M1, W1, n, lo, f)
  <2>1. \A k \in lo + 1 .. n : f[k] \in B /\ f[k] # b /\ f[k] # a /\ M1[f[k]] = M[f[k]] /\ f[k] \notin SharedAts(W1)
    BY <1>a, <1>m, <1>t DEF Chained
  <2> QED BY <2>1 DEF Chained
<1>3. DataApart(B1, M1, F1)
  <2>1. \A c \in F : c # a => M1[c].data = M[c].data /\ M[c].data # b
    BY <1>h, <1>m, <1>d, NullIsNoBlock DEF DataApart
  <2>2. b \in B1 \ F1 /\ B \ F \subseteq B1 \ F1
    BY <1>f, <1>h
  <2>3. \A c \in F1 : M1[c].data = NULL \/ M1[c].data \in B1 \ F1
    <3>1. ASSUME NEW c \in F, c # a PROVE M1[c].data = NULL \/ M1[c].data \in B1 \ F1
      <4>1. M[c].data = NULL \/ M[c].data \in B \ F
        BY <1>d DEF DataApart
      <4> QED BY <2>1, <2>2, <3>1, <4>1
    <3> QED BY <2>2, <3>1, <1>f, <1>m
  <2>4. ASSUME NEW c \in F1, NEW e \in F1, M1[c].data = M1[e].data, c # e
        PROVE  M1[c].data = NULL
    <3>1. c \in F /\ e \in F /\ c # a /\ e # a
      BY <2>1, <2>4, <1>f, <1>m
    <3>2. M[c].data = M[e].data /\ M1[c].data = M[c].data
      BY <2>1, <2>4, <3>1
    <3> QED BY <3>1, <3>2, <2>4, <1>d DEF DataApart
  <2> QED BY <2>3, <2>4 DEF DataApart
<1>4. ReaderAt(B1, h, tl, M1, n, lo, f, F1, r)
  <2>1. r.pc \in {"next", "store", "clear"} => r.at \in B /\ r.at # b /\ r.at # a /\ M1[r.at] = M[r.at]
    BY <1>m, <1>t, <1>d DEF ReaderAt
  <2>2. \A c \in F : c # b /\ (c # a => M1[c].data = M[c].data)
    BY <1>h, <1>m
  <2>3. r.pc \in {"next", "store", "clear"} => r.at \in B1 \ F1 /\ \A c \in F1 : M1[c].data # r.at
    BY <2>1, <2>2, <1>f, <1>m, <1>d DEF ReaderAt
  <2> QED BY <2>1, <2>3, <1>d DEF ReaderAt
<1> QED BY <1>1, <1>2, <1>3, <1>4 DEF ListIs, W1, F1

LinkedIn(M, tl, e, k) == IF tl = NULL THEN [M EXCEPT ![e].event = k]
                         ELSE [[M EXCEPT ![e].event = k] EXCEPT ![tl].next = e]
ListEmptying(r) == r.pc = "store" /\ r.next = NULL

(* An event is inserted behind the others.  While the list is being emptied it is not: it is skipped.              *)
LEMMA SharedInsertKeeps ==
  ASSUME NEW B \in SUBSET Block, NEW h \in Block \cup {NULL}, NEW tl \in Block \cup {NULL}, NEW M \in BlockMemory, NEW W, Workers(W),
         NEW n \in Nat, NEW rec, NEW sk, NEW r, SReader(r), ListIs(B, h, tl, M, W, n, rec, sk, r),
         NEW t \in DOMAIN W, W[t].pc = "insert", NEW e, e = W[t].at
  PROVE  ListIs(B, IF h = NULL THEN e ELSE h, e, LinkedIn(M, tl, e, n + 1), OffWork(W, t), n + 1, rec,
                IF ListEmptying(r) THEN sk \cup {n + 1} ELSE sk, r)
<1> DEFINE M1 == LinkedIn(M, tl, e, n + 1)  W1 == OffWork(W, t)  h1 == IF h = NULL THEN e ELSE h  sk1 == IF ListEmptying(r) THEN sk \cup {n + 1} ELSE sk
<1> PICK lo \in 0 .. n, f \in [Nat -> Block] :
       /\ Chained(B, tl, M, W, n, lo, f) /\ DataApart(B, M, HeldBlocks(W, n, lo, f))
       /\ ReaderAt(B, h, tl, M, n, lo, f, HeldBlocks(W, n, lo, f), r) /\ ReadUpTo(n, rec, sk, lo)
  BY Zenon DEF ListIs
<1> DEFINE F == HeldBlocks(W, n, lo, f)
           f1 == [f EXCEPT ![n + 1] = e]  lo1 == IF ListEmptying(r) THEN n + 1 ELSE lo
           F1 == HeldBlocks(W1, n + 1, lo1, f1)
<1>0. ThreadsHold(B, tl, M, W)
  BY DEF ListIs
<1>e. e \in Block /\ e \in B /\ e # NULL /\ e # tl /\ e \in F /\ e \in SharedAts(W) /\ M[e].next = NULL
  BY <1>0, NullIsNoBlock DEF ThreadsHold, Workers, HeldBlocks, SharedAts
<1>m. /\ \A c \in Block : M1[c].data = M[c].data /\ (c # e => M1[c].event = M[c].event) /\ (c # tl => M1[c].next = M[c].next)
      /\ M1[e].event = n + 1 /\ (tl # NULL => M1[tl].next = e)
  BY <1>e DEF BlockMemory, LinkedIn
<1>w. /\ DOMAIN W1 = DOMAIN W \ {t} /\ \A u \in DOMAIN W1 : W1[u] = W[u] /\ W[u].at # e
  BY <1>0 DEF OffWork, ThreadsHold
<1>a. SharedAts(W1) = SharedAts(W) \ {e}
  BY <1>w DEF SharedAts
<1>g. /\ f1 \in [Nat -> Block] /\ f1[n + 1] = e /\ \A k \in lo + 1 .. n : f1[k] = f[k]
      /\ lo1 \in 0 .. n + 1 /\ (ListEmptying(r) => lo1 = n + 1 /\ lo = n) /\ (~ListEmptying(r) => lo1 = lo)
  <2>1. ListEmptying(r) => lo = n
    <3>1. lo < n => f[lo + 1] # NULL
      BY NullIsNoBlock
    <3> QED BY <3>1 DEF ReaderAt, FirstUnread, ListEmptying
  <2> QED BY <2>1, <1>e
<1>h. F \subseteq B
  BY <1>0 DEF HeldBlocks, SharedAts, ThreadsHold, Chained
<1>d. DataApart(B, M, F) /\ ReaderAt(B, h, tl, M, n, lo, f, F, r)
  OBVIOUS
<1>f. F1 \subseteq F /\ (~ListEmptying(r) => F1 = F)
  <2> HIDE DEF W1, f1
  <2>1. CASE ListEmptying(r)
    <3>1. F1 = SharedAts(W1)
      BY <2>1, <1>g DEF HeldBlocks
    <3>2. SharedAts(W) \subseteq F
      BY DEF HeldBlocks
    <3> QED BY <3>1, <3>2, <1>a, <2>1
  <2>2. CASE ~ListEmptying(r)
    <3>1. {f1[k] : k \in lo + 1 .. n + 1} = {f[k] : k \in lo + 1 .. n} \cup {e}
      BY <1>g
    <3> QED BY <3>1, <2>2, <1>g, <1>a, <1>e DEF HeldBlocks
  <2> QED BY <2>1, <2>2
<1> HIDE DEF M1, W1, F, F1, f1, lo1, h1, sk1
<1>1. ThreadsHold(B, e, M1, W1)
  <2>1. \A u, v \in DOMAIN W1 : W1[u].at = W1[v].at => u = v
    BY <1>w, <1>0 DEF ThreadsHold
  <2>2. ASSUME NEW u \in DOMAIN W1
        PROVE  /\ W1[u].at \in B /\ W1[u].at # e /\ M1[W1[u].at].next = NULL
               /\ W1[u].pc = "data" => M1[W1[u].at].data = NULL
    BY <1>w, <1>m, <1>0 DEF ThreadsHold
  <2> QED BY <2>1, <2>2 DEF ThreadsHold
<1>c. /\ \A j, k \in lo + 1 .. n : f[j] = f[k] => j = k
      /\ \A k \in lo + 1 .. n : /\ f[k] \in B /\ f[k] \notin SharedAts(W) /\ f[k] # e /\ M[f[k]].event = k
                                /\ M[f[k]].next = (IF k < n THEN f[k + 1] ELSE NULL)
                                /\ (f[k] = tl <=> k = n)
      /\ lo < n => tl = f[n]
  BY <1>e DEF Chained
<1>2. Chained(B, e, M1, W1, n + 1, lo1, f1)
  <2>1. CASE ListEmptying(r)
    BY <2>1, <1>g DEF Chained
  <2>2. CASE ~ListEmptying(r)
    <3>0. \A k \in lo + 1 .. n + 1 : k = n + 1 \/ k \in lo + 1 .. n
      OBVIOUS
    <3>1. \A j, k \in lo + 1 .. n + 1 : f1[j] = f1[k] => j = k
      BY <3>0, <1>c, <1>g
    <3>2. ASSUME NEW k \in lo + 1 .. n + 1
          PROVE  f1[k] \in B /\ f1[k] \notin SharedAts(W1) /\ M1[f1[k]].event = k
      <4>1. CASE k = n + 1
        BY <4>1, <1>g, <1>m, <1>e, <1>a
      <4>2. CASE k \in lo + 1 .. n
        BY <4>2, <1>c, <1>g, <1>m, <1>a
      <4> QED BY <4>1, <4>2, <3>0
    <3>3. ASSUME NEW k \in lo + 1 .. n + 1
          PROVE  M1[f1[k]].next = IF k < n + 1 THEN f1[k + 1] ELSE NULL
      <4>1. CASE k = n + 1
        BY <4>1, <1>g, <1>m, <1>e
      <4>2. CASE k = n
        BY <4>2, <1>g, <1>m, <1>c, NullIsNoBlock
      <4>3. CASE k < n
        <5>1. k \in lo + 1 .. n /\ k + 1 \in lo + 1 .. n /\ f[k] # tl
          BY <4>3, <1>c
        <5> QED BY <5>1, <4>3, <1>g, <1>m, <1>c
      <4> QED BY <4>1, <4>2, <4>3
    <3> QED BY <3>1, <3>2, <3>3, <2>2, <1>g DEF Chained
  <2> QED BY <2>1, <2>2
<1>3. DataApart(B, M1, F1)
  <2>1. \A c \in F1 : c \in F /\ M1[c].data = M[c].data
    BY <1>f, <1>h, <1>m
  <2> QED BY <2>1, <1>f, <1>d DEF DataApart
<1>4. ReaderAt(B, h1, e, M1, n + 1, lo1, f1, F1, r)
  <2>1. r.pc \in {"next", "store", "clear"} => r.at \in B \ F1 /\ r.at # NULL /\ \A c \in F1 : M1[c].data # r.at
    BY <1>d, <1>f, <1>h, <1>m, NullIsNoBlock DEF ReaderAt
  <2>2. h1 = IF r.pc \in {"next", "store"} THEN r.at ELSE FirstUnread(n + 1, lo1, f1)
    <3>1. CASE r.pc \in {"next", "store"}
      BY <3>1, <2>1, <1>d DEF ReaderAt, h1
    <3>2. CASE r.pc \notin {"next", "store"} /\ lo = n
      BY <3>2, <1>d, <1>g DEF ReaderAt, h1, FirstUnread, ListEmptying
    <3>3. CASE r.pc \notin {"next", "store"} /\ lo < n
      BY <3>3, <1>d, <1>g, NullIsNoBlock DEF ReaderAt, h1, FirstUnread, ListEmptying
    <3> QED BY <3>1, <3>2, <3>3
  <2>3. r.pc = "data" => lo1 < n + 1 /\ r.at = h1
    BY <1>d, <1>g, NullIsNoBlock DEF ReaderAt, h1, FirstUnread, ListEmptying
  <2>4. ASSUME r.pc = "next"
        PROVE  M1[r.at].next = FirstUnread(n + 1, lo1, f1) /\ (lo1 = n + 1 => e = r.at)
    <3>1. ~ListEmptying(r) /\ lo1 = lo /\ r.at \in Block /\ r.at # NULL /\ r.at \notin F
      BY <2>4, <1>g, <1>d, NullIsNoBlock DEF ReaderAt, ListEmptying
    <3>2. CASE lo = n
      BY <3>1, <3>2, <2>4, <1>d, <1>m, <1>g DEF ReaderAt, FirstUnread
    <3>3. CASE lo < n
      <4>1. f[n] \in F /\ tl = f[n]
        BY <3>3, <1>c DEF HeldBlocks, F
      <4> QED BY <4>1, <3>1, <3>3, <2>4, <1>d, <1>m, <1>g DEF ReaderAt, FirstUnread
    <3> QED BY <3>1, <3>2, <3>3
  <2>5. ASSUME r.pc = "store"
        PROVE  r.next = FirstUnread(n + 1, lo1, f1)
    BY <2>5, <1>d, <1>g, NullIsNoBlock DEF ReaderAt, FirstUnread, ListEmptying
  <2> QED BY <2>1, <2>2, <2>3, <2>4, <2>5 DEF ReaderAt
<1>5. ReadUpTo(n + 1, rec, sk1, lo1)
  <2>1. CASE ListEmptying(r)
    <3>1. sk1 = sk \cup {n + 1} /\ lo1 = n + 1 /\ lo = n
      BY <2>1, <1>g DEF sk1
    <3> QED BY <3>1 DEF ReadUpTo
  <2>2. CASE ~ListEmptying(r)
    BY <2>2, <1>g DEF ReadUpTo, sk1
  <2> QED BY <2>1, <2>2
<1>6. lo1 \in 0 .. n + 1 /\ f1 \in [Nat -> Block]
  BY <1>g
<1> QED BY <1>1, <1>2, <1>3, <1>4, <1>5, <1>6 DEF ListIs, M1, W1, F1, h1, sk1

(* The reader finds a head.                                                *)
LEMMA SharedHeadKeeps ==
  ASSUME NEW B, NEW h, h # NULL, NEW tl, NEW M, NEW W, NEW n \in Nat, NEW rec, NEW sk,
         NEW r, r.pc = "wait", ListIs(B, h, tl, M, W, n, rec, sk, r), NEW s, s.pc = "data", s.at = h
  PROVE  ListIs(B, h, tl, M, W, n, rec, sk, s)
<1> SUFFICES ASSUME NEW lo \in 0 .. n, NEW f \in [Nat -> Block], NEW F, ReaderAt(B, h, tl, M, n, lo, f, F, r)
             PROVE  ReaderAt(B, h, tl, M, n, lo, f, F, s)
  BY Zenon DEF ListIs
<1> QED BY DEF ReaderAt, FirstUnread

(* It reads the data of the first event, and clears the block they are in. *)
LEMMA SharedReadKeeps ==
  ASSUME NEW B \in SUBSET Block, NEW h, NEW tl, NEW M \in BlockMemory, NEW W, Workers(W), NEW n \in Nat,
         NEW rec \in Seq(Nat), NEW sk, NEW r, r.pc = "data", r.at \in Block, ListIs(B, h, tl, M, W, n, rec, sk, r),
         NEW s, s.pc = "next", s.at = r.at
  PROVE  ListIs(B \ {M[r.at].data}, h, tl, M, W, n, Append(rec, M[r.at].event), sk, s)
<1> DEFINE d == M[r.at].data  B1 == B \ {d}  rec1 == Append(rec, M[r.at].event)
<1> PICK lo \in 0 .. n, f \in [Nat -> Block] :
       /\ Chained(B, tl, M, W, n, lo, f) /\ DataApart(B, M, HeldBlocks(W, n, lo, f))
       /\ ReaderAt(B, h, tl, M, n, lo, f, HeldBlocks(W, n, lo, f), r) /\ ReadUpTo(n, rec, sk, lo)
  BY Zenon DEF ListIs
<1> DEFINE F == HeldBlocks(W, n, lo, f)  F1 == HeldBlocks(W, n, lo + 1, f)
<1>0. ThreadsHold(B, tl, M, W)
  BY DEF ListIs
<1>1. lo < n /\ lo + 1 \in lo + 1 .. n /\ r.at = f[lo + 1] /\ h = r.at /\ M[r.at].event = lo + 1
  BY DEF ReaderAt, FirstUnread, Chained
<1>2. r.at \in F /\ F1 = F \ {r.at} /\ r.at \in B
  <2>1. r.at \notin SharedAts(W) /\ r.at \in B /\ \A k \in lo + 2 .. n : f[k] # r.at
    <3>1. \A k \in lo + 2 .. n : k \in lo + 1 .. n /\ k # lo + 1
      OBVIOUS
    <3>2. \A k \in lo + 1 .. n : f[lo + 1] = f[k] => lo + 1 = k
      BY <1>1 DEF Chained
    <3>3. f[lo + 1] \notin SharedAts(W) /\ f[lo + 1] \in B
      BY <1>1 DEF Chained
    <3>4. r.at = f[lo + 1]
      BY <1>1
    <3>5. \A k \in lo + 2 .. n : f[k] # f[lo + 1]
      BY <3>1, <3>2
    <3> QED BY <3>3, <3>4, <3>5
  <2>2. {f[k] : k \in lo + 1 .. n} = {r.at} \cup {f[k] : k \in lo + 2 .. n}
    BY <1>1
  <2>3. lo + 1 + 1 .. n = lo + 2 .. n
    OBVIOUS
  <2> DEFINE later == {f[k] : k \in lo + 2 .. n}
  <2>4. r.at \notin later
    BY <2>1
  <2>5. F = SharedAts(W) \cup {r.at} \cup later /\ F1 = SharedAts(W) \cup later
    BY <2>2, <2>3 DEF HeldBlocks
  <2> HIDE DEF later, F, F1
  <2> QED BY <2>1, <2>4, <2>5
<1>3. d = NULL \/ d \in B \ F
  BY <1>2 DEF DataApart
<1>h. F \subseteq B
  BY <1>0 DEF HeldBlocks, SharedAts, ThreadsHold, Chained
<1>d. DataApart(B, M, F) /\ ReaderAt(B, h, tl, M, n, lo, f, F, r)
  OBVIOUS
<1>b. F \subseteq B1
  BY <1>3, <1>h, NullIsNoBlock
<1>g. lo + 1 \in 0 .. n
  BY <1>1
<1>4. ThreadsHold(B1, tl, M, W)
  <2>1. \A t \in DOMAIN W : W[t].at \in F
    BY DEF HeldBlocks, SharedAts
  <2> HIDE DEF B1, F
  <2> QED BY <1>0, <1>b, <2>1 DEF ThreadsHold
<1>5. Chained(B1, tl, M, W, n, lo + 1, f)
  <2>1. \A k \in lo + 1 .. n : f[k] \in F
    BY DEF HeldBlocks
  <2>2. \A k \in lo + 1 + 1 .. n : k \in lo + 1 .. n
    OBVIOUS
  <2> HIDE DEF B1, F
  <2> QED BY <1>b, <2>1, <2>2, <1>1 DEF Chained
<1>6. DataApart(B1, M, F1)
  <2> HIDE DEF B1, F, F1
  <2>1. ASSUME NEW b \in F1
        PROVE  M[b].data = NULL \/ M[b].data \in B1 \ F1
    <3>1. b \in F /\ b # r.at
      BY <1>2
    <3>2. M[b].data = NULL \/ (M[b].data \in B \ F /\ M[b].data # d)
      <4>1. M[b].data = d => M[b].data = NULL
        BY <3>1, <1>2, <1>d DEF DataApart, d
      <4> QED BY <4>1, <3>1, <1>d DEF DataApart
    <3> QED BY <3>2, <1>2 DEF B1
  <2> QED BY <2>1, <1>2, <1>d DEF DataApart
<1>7. ReaderAt(B1, h, tl, M, n, lo + 1, f, F1, s)
  <2> HIDE DEF B1, F, F1, d
  <2>1. s.at \in B1 \ F1 /\ \A b \in F1 : M[b].data # s.at
    <3>1. s.at = r.at /\ r.at \in B1 /\ r.at \notin F1
      BY <1>b, <1>2
    <3>2. \A b \in F : M[b].data = NULL \/ M[b].data \notin F
      BY <1>d DEF DataApart
    <3> QED BY <3>1, <3>2, <1>2, NullIsNoBlock
  <2>2. M[s.at].next = FirstUnread(n, lo + 1, f) /\ (lo + 1 = n => tl = s.at)
    BY <1>1 DEF Chained, FirstUnread
  <2> QED BY <2>1, <2>2, <1>1 DEF ReaderAt
<1>8. ReadUpTo(n, rec1, sk, lo + 1)
  <2>1. DOMAIN rec1 = DOMAIN rec \cup {Len(rec) + 1} /\ rec1[Len(rec) + 1] = lo + 1
        /\ \A i \in DOMAIN rec : rec1[i] = rec[i] /\ i < Len(rec) + 1
    BY <1>1
  <2>2. \A i \in DOMAIN rec : rec[i] \in 1 .. lo /\ rec[i] < lo + 1 /\ rec[i] \notin sk
    BY DEF ReadUpTo
  <2>3. sk \subseteq 1 .. lo /\ lo + 1 \notin sk /\ sk \subseteq 1 .. lo + 1
    BY DEF ReadUpTo
  <2>4. {rec[i] : i \in DOMAIN rec} = {k \in 1 .. lo : k \notin sk}
    BY DEF ReadUpTo
  <2>5. \A i, j \in DOMAIN rec : i < j => rec[i] < rec[j]
    BY DEF ReadUpTo
  <2>k. Len(rec) \in Nat /\ DOMAIN rec = 1 .. Len(rec)
    OBVIOUS
  <2> HIDE DEF rec1
  <2>6. {rec1[i] : i \in DOMAIN rec1} = {rec[i] : i \in DOMAIN rec} \cup {lo + 1}
    BY <2>1
  <2>7. {k \in 1 .. lo + 1 : k \notin sk} = {k \in 1 .. lo : k \notin sk} \cup {lo + 1}
    BY <2>3
  <2>8. ASSUME NEW i \in DOMAIN rec1, NEW j \in DOMAIN rec1, i < j
        PROVE  rec1[i] < rec1[j]
    <3>1. i \in DOMAIN rec
      BY <2>8, <2>1, <2>k
    <3> QED BY <3>1, <2>8, <2>1, <2>2, <2>5
  <2> QED BY <2>3, <2>4, <2>6, <2>7, <2>8 DEF ReadUpTo
<1> HIDE DEF B1, rec1, F1, d
<1>9. \E lo1 \in 0 .. n, f1 \in [Nat -> Block] :
        /\ Chained(B1, tl, M, W, n, lo1, f1) /\ DataApart(B1, M, HeldBlocks(W, n, lo1, f1))
        /\ ReaderAt(B1, h, tl, M, n, lo1, f1, HeldBlocks(W, n, lo1, f1), s) /\ ReadUpTo(n, rec1, sk, lo1)
  BY Zenon, <1>5, <1>6, <1>7, <1>8, <1>g DEF F1
<1> QED BY Zenon, <1>4, <1>9 DEF ListIs, B1, rec1, d

(* It reads what comes after the event.                                    *)
LEMMA SharedNextKeeps ==
  ASSUME NEW B, NEW h, NEW tl, NEW M, NEW W, NEW n \in Nat, NEW rec, NEW sk,
         NEW r, r.pc = "next", ListIs(B, h, tl, M, W, n, rec, sk, r),
         NEW s, s.pc = "store", s.at = r.at, s.next = M[r.at].next
  PROVE  ListIs(B, h, tl, M, W, n, rec, sk, s)
<1> SUFFICES ASSUME NEW lo \in 0 .. n, NEW f \in [Nat -> Block], NEW F, ReaderAt(B, h, tl, M, n, lo, f, F, r)
             PROVE  ReaderAt(B, h, tl, M, n, lo, f, F, s)
  BY Zenon DEF ListIs
<1> QED BY DEF ReaderAt

LEMMA SharedStoreKeeps ==
  ASSUME NEW B, NEW h, NEW tl, NEW M, NEW W, NEW n \in Nat, NEW rec, NEW sk,
         NEW r, r.pc = "store", ListIs(B, h, tl, M, W, n, rec, sk, r), NEW s, s.pc = "clear", s.at = r.at
  PROVE  ListIs(B, r.next, tl, M, W, n, rec, sk, s)
<1> SUFFICES ASSUME NEW lo \in 0 .. n, NEW f \in [Nat -> Block], NEW F, ReaderAt(B, h, tl, M, n, lo, f, F, r)
             PROVE  ReaderAt(B, r.next, tl, M, n, lo, f, F, s)
  BY Zenon DEF ListIs
<1> QED BY DEF ReaderAt

(* It clears the block of the event.                                       *)
LEMMA SharedClearKeeps ==
  ASSUME NEW B, NEW h, NEW tl, NEW M, NEW W, NEW n \in Nat, NEW rec, NEW sk,
         NEW r, r.pc = "clear", ListIs(B, h, tl, M, W, n, rec, sk, r), NEW s, s.pc = "wait"
  PROVE  ListIs(B \ {r.at}, h, tl, M, W, n, rec, sk, s)
<1> DEFINE B1 == B \ {r.at}
<1> PICK lo \in 0 .. n, f \in [Nat -> Block] :
       /\ Chained(B, tl, M, W, n, lo, f) /\ DataApart(B, M, HeldBlocks(W, n, lo, f))
       /\ ReaderAt(B, h, tl, M, n, lo, f, HeldBlocks(W, n, lo, f), r) /\ ReadUpTo(n, rec, sk, lo)
  BY Zenon DEF ListIs
<1> DEFINE F == HeldBlocks(W, n, lo, f)
<1>0. ThreadsHold(B, tl, M, W)
  BY DEF ListIs
<1>a. r.at \notin F /\ (\A b \in F : M[b].data # r.at)
  BY DEF ReaderAt
<1>t. (\A t \in DOMAIN W : W[t].at \in F) /\ \A k \in lo + 1 .. n : f[k] \in F
  BY DEF HeldBlocks, SharedAts
<1>d. DataApart(B, M, F) /\ ReaderAt(B, h, tl, M, n, lo, f, F, r)
  OBVIOUS
<1>1. ThreadsHold(B1, tl, M, W)
  <2> HIDE DEF F
  <2> QED BY <1>0, <1>a, <1>t DEF ThreadsHold
<1>2. Chained(B1, tl, M, W, n, lo, f)
  <2> HIDE DEF F
  <2> QED BY <1>a, <1>t DEF Chained
<1>3. DataApart(B1, M, F)
  <2> HIDE DEF F
  <2> QED BY <1>a, <1>d DEF DataApart
<1>4. ReaderAt(B1, h, tl, M, n, lo, f, F, s)
  <2> HIDE DEF F
  <2> QED BY <1>d DEF ReaderAt
<1> HIDE DEF B1
<1>5. \E lo1 \in 0 .. n, f1 \in [Nat -> Block] :
        /\ Chained(B1, tl, M, W, n, lo1, f1) /\ DataApart(B1, M, HeldBlocks(W, n, lo1, f1))
        /\ ReaderAt(B1, h, tl, M, n, lo1, f1, HeldBlocks(W, n, lo1, f1), s) /\ ReadUpTo(n, rec, sk, lo1)
  BY Zenon, <1>2, <1>3, <1>4
<1> QED BY Zenon, <1>1, <1>5 DEF ListIs, B1

(* The parts of a list in the state.                                       *)
Total(l) == Len(inserted[l])
WorkingOf(c, l) == [t \in {u \in Context : c[u].pc # "idle" /\ c[u].list = l} |-> c[t]]
ContextStates == [Context -> [pc : {"idle", "data", "insert"}, list : List, at : Block \cup {NULL}]]
ReaderOf(l) == IF listReader.list = l /\ listReader.pc \in {"data", "next", "store", "clear"}
              THEN listReader ELSE Waiting
IsInOrder(l) == ListIs(bits[l], head[l], tail[l], block[l], WorkingOf(context, l), Total(l), received[l], skipped[l],
                       ReaderOf(l))

BitTypes == bits \in [List -> SUBSET Block] /\ hint \in [List -> Block]
EndTypes == head \in [List -> Block \cup {NULL}] /\ tail \in [List -> Block \cup {NULL}]
BlockTypes == block \in [List -> BlockMemory]
ContextTypes == context \in ContextStates /\ \A t \in Context : context[t].pc # "idle" => context[t].at \in Block
SemaphoreTypes == attached \in [List -> BOOLEAN] /\ semaphore \in [List -> 0 .. SemaphoreLimit]
Reader == [pc : {"wait", "head", "data", "next", "store", "clear"}, list : List, at : Block \cup {NULL},
           next : Block \cup {NULL}, woken : List \cup {NULL}]
ReaderTypes == listReader \in Reader /\ (listReader.pc \in {"data", "next", "store", "clear"} => listReader.at \in Block)
HistoryTypes == inserted \in [List -> Seq(Nat)] /\ received \in [List -> Seq(Nat)] /\ skipped \in [List -> SUBSET Nat]
SharedTypes == BitTypes /\ EndTypes /\ BlockTypes /\ ContextTypes /\ SemaphoreTypes /\ ReaderTypes /\ HistoryTypes
               /\ stopped \in BOOLEAN

\* No thread takes, for an event, the block that the tail of the list still points to.
KeepsTail == \A t \in Context, l \in List :
  CreateEvent(t, l) => ClearBits(l) = {} \/ FoundBit(l) # tail[l]


LEMMA LeastNumber ==
  ASSUME NEW T \in SUBSET Nat, T # {}
  PROVE  \E x \in T : \A y \in T : x <= y
<1> DEFINE R == OpToRel(<, Nat)
<1>1. \A x, y \in Nat : y < x => <<y, x>> \in R
  BY DEF OpToRel
<1>2. IsWellFoundedOn(R, Nat)
  BY NatLessThanWellFounded
<1> HIDE DEF R
<1>3. PICK x \in T : \A y \in T : ~(<<y, x>> \in R)
  BY <1>2, WFMin
<1>4. \A y \in T : ~(y < x)
  BY <1>1, <1>3
<1> QED BY <1>4

(* ReserveSpace's search (RtlFindClearBitsAndSet) finds a bit that is clear. *)
LEMMA FoundBitIsClear ==
  ASSUME SharedTypes, NEW l \in List, ClearBits(l) # {}
  PROVE  FoundBit(l) \in Block \ bits[l]
<1> DEFINE after == {b \in ClearBits(l) : b >= hint[l]}
           from == IF after = {} THEN ClearBits(l) ELSE after
<1>1. from # {} /\ from \subseteq ClearBits(l) /\ from \subseteq Nat
  BY SharedListAssumption DEF ClearBits, Block, SharedTypes, BitTypes
<1>2. FoundBit(l) = CHOOSE b \in from : \A c \in from : b <= c
  BY DEF FoundBit
<1> HIDE DEF from
<1>3. \E b \in from : \A c \in from : b <= c
  BY <1>1, LeastNumber
<1>4. FoundBit(l) \in from
  BY Zenon, <1>2, <1>3
<1> QED BY <1>1, <1>4 DEF ClearBits

LEMMA WorkIsTaken ==
  ASSUME NEW c \in ContextStates, NEW t \in Context, NEW w, w.pc # "idle", NEW l, w.list = l
  PROVE  WorkingOf([c EXCEPT ![t] = w], l) = AtWork(WorkingOf(c, l), t, w)
BY DEF WorkingOf, AtWork, ContextStates

LEMMA WorkIsDone ==
  ASSUME NEW c \in ContextStates, NEW t \in Context, NEW w, w.pc = "idle", NEW l
  PROVE  WorkingOf([c EXCEPT ![t] = w], l) = OffWork(WorkingOf(c, l), t)
BY DEF WorkingOf, OffWork, ContextStates

LEMMA WorkElsewhere ==
  ASSUME NEW c \in ContextStates, NEW t \in Context, NEW w, NEW l,
         w.pc = "idle" \/ w.list # l, c[t].pc = "idle" \/ c[t].list # l
  PROVE  WorkingOf([c EXCEPT ![t] = w], l) = WorkingOf(c, l)
BY DEF WorkingOf, ContextStates

LEMMA WorkersAre ==
  ASSUME SharedTypes, NEW l
  PROVE  Workers(WorkingOf(context, l))
BY DEF Workers, WorkingOf, SharedTypes, ContextTypes, ContextStates

LEMMA ReaderIs ==
  ASSUME SharedTypes, NEW l
  PROVE  SReader(ReaderOf(l))
BY DEF SReader, ReaderOf, Waiting, SharedTypes, ReaderTypes, Reader

LEMMA TypesUnchanged ==
  /\ BitTypes /\ UNCHANGED <<bits, hint>> => BitTypes'
  /\ EndTypes /\ UNCHANGED <<head, tail>> => EndTypes'
  /\ BlockTypes /\ UNCHANGED block => BlockTypes'
  /\ ContextTypes /\ UNCHANGED context => ContextTypes'
  /\ SemaphoreTypes /\ UNCHANGED <<attached, semaphore>> => SemaphoreTypes'
  /\ ReaderTypes /\ UNCHANGED listReader => ReaderTypes'
  /\ HistoryTypes /\ UNCHANGED <<inserted, received, skipped>> => HistoryTypes'
BY DEF BitTypes, EndTypes, BlockTypes, ContextTypes, SemaphoreTypes, ReaderTypes, HistoryTypes

(* The types of the list's fields, its threads and its reader.             *)
LEMMA SharedTypesHold == SharedSpec => []SharedTypes
<1>b. Blank = [event |-> 0, next |-> NULL, data |-> NULL] /\ [event |-> 0, next |-> NULL, data |-> NULL] \in [event : Nat, next : Block \cup {NULL}, data : Block \cup {NULL}]
  BY DEF Blank
<1>1. ASSUME SharedInit PROVE SharedTypes
  <2>1. BitTypes /\ EndTypes
    BY <1>1, SharedListAssumption DEF SharedInit, BitTypes, EndTypes, Block
  <2>2. BlockTypes
    BY <1>1, <1>b DEF SharedInit, BlockTypes, BlockMemory
  <2>3. ContextTypes
    BY <1>1 DEF SharedInit, ContextTypes, ContextStates, Idle, List
  <2>4. SemaphoreTypes /\ HistoryTypes /\ stopped \in BOOLEAN
    <3>1. 0 \in 0 .. SemaphoreLimit /\ <<>> \in Seq(Nat)
      BY SharedListAssumption
    <3>2. SemaphoreTypes /\ stopped \in BOOLEAN
      BY <1>1, <3>1 DEF SharedInit, SemaphoreTypes
    <3>3. HistoryTypes
      BY <1>1, <3>1 DEF SharedInit, HistoryTypes
    <3> QED BY <3>2, <3>3
  <2>5. ReaderTypes
    BY <1>1 DEF SharedInit, ReaderTypes, Reader, Waiting, List
  <2> QED BY <2>1, <2>2, <2>3, <2>4, <2>5 DEF SharedTypes
<1>2. SharedTypes /\ [SharedNext]_sharedVars => SharedTypes'
  <2> SUFFICES ASSUME SharedTypes, [SharedNext]_sharedVars PROVE SharedTypes'
    OBVIOUS
  <2>t. BitTypes /\ EndTypes /\ BlockTypes /\ ContextTypes /\ SemaphoreTypes /\ ReaderTypes /\ HistoryTypes
        /\ stopped \in BOOLEAN
    BY DEF SharedTypes
  <2>n. NULL \notin Block /\ 1 \in List /\ 2 \in List
    BY NullIsNoBlock DEF List
  <2>1. ASSUME NEW t \in Context, NEW l \in List, CreateEvent(t, l) PROVE SharedTypes'
    <3>0. UNCHANGED <<head, tail, attached, semaphore, listReader, inserted, received, skipped>>
      BY <2>1 DEF CreateEvent
    <3>1. CASE ClearBits(l) = {}
      <4>1. stopped' = TRUE /\ UNCHANGED <<bits, hint, block, context>>
        BY <2>1, <3>1 DEF CreateEvent
      <4> QED BY <4>1, <3>0, <2>t, TypesUnchanged DEF SharedTypes
    <3>2. CASE ClearBits(l) # {}
      <4> DEFINE b == FoundBit(l)
      <4>1. b \in Block
        BY <3>2, FoundBitIsClear
      <4>a. /\ bits' = [bits EXCEPT ![l] = bits[l] \cup {b}] /\ hint' = [hint EXCEPT ![l] = b]
            /\ block' = [block EXCEPT ![l] = [block[l] EXCEPT ![b] = Blank]]
            /\ context' = [context EXCEPT ![t] = [pc |-> "data", list |-> l, at |-> b]] /\ UNCHANGED stopped
        BY <2>1, <3>2 DEF CreateEvent, ReserveSpace, Blank
      <4> HIDE DEF b
      <4>2. BitTypes'
        BY <4>a, <4>1, <2>t DEF BitTypes
      <4>3. BlockTypes'
        BY <4>a, <4>1, <2>t, <1>b DEF BlockTypes, BlockMemory
      <4>4. ContextTypes'
        BY <4>a, <4>1, <2>t DEF ContextTypes, ContextStates
      <4> QED BY <3>0, <4>a, <4>2, <4>3, <4>4, <2>t, TypesUnchanged DEF SharedTypes
    <3> QED BY <3>1, <3>2
  <2>2. ASSUME NEW t \in Context, AddEventData(t) PROVE SharedTypes'
    <3> DEFINE l == context[t].list
    <3>a. UNCHANGED <<head, tail, attached, semaphore, listReader, inserted, received, skipped, stopped>>
          /\ context' = [context EXCEPT ![t].pc = "insert"]
      BY <2>2 DEF AddEventData
    <3>0. l \in List /\ context[t].at \in Block
      BY <2>2, <2>t DEF AddEventData, ContextTypes, ContextStates
    <3> HIDE DEF l
    <3>4. ContextTypes'
      BY <2>2, <3>a, <3>0, <2>t DEF ContextTypes, ContextStates
    <3>1. CASE ClearBits(l) = {}
      <4>1. UNCHANGED <<bits, hint, block>>
        BY <2>2, <3>1 DEF AddEventData, l
      <4> QED BY <4>1, <3>a, <3>4, <2>t, TypesUnchanged DEF SharedTypes
    <3>2. CASE ClearBits(l) # {}
      <4> DEFINE b == FoundBit(l)
      <4>1. b \in Block
        BY <3>0, <3>2, FoundBitIsClear
      <4>a. /\ bits' = [bits EXCEPT ![l] = bits[l] \cup {b}] /\ hint' = [hint EXCEPT ![l] = b]
            /\ block' = [block EXCEPT ![l][context[t].at].data = b, ![l][b] = Blank]
        BY <2>2, <3>2 DEF AddEventData, ReserveSpace, Blank, l
      <4> HIDE DEF b
      <4>2. BitTypes'
        BY <4>a, <4>1, <3>0, <2>t DEF BitTypes
      <4>3. BlockTypes'
        BY <4>a, <4>1, <3>0, <2>t, <1>b DEF BlockTypes, BlockMemory
      <4> QED BY <3>a, <4>2, <4>3, <3>4, <2>t, TypesUnchanged DEF SharedTypes
    <3> QED BY <3>1, <3>2
  <2>3. ASSUME NEW t \in Context, InsertEvent(t) PROVE SharedTypes'
    <3> DEFINE l == context[t].list  e == context[t].at
    <3>0. l \in List /\ e \in Block
      BY <2>3, <2>t DEF InsertEvent, ContextTypes, ContextStates
    <3>a. /\ head' = IF head[l] = NULL THEN [head EXCEPT ![l] = e] ELSE head
          /\ block' = [block EXCEPT ![l] = Linked(l, e)] /\ tail' = [tail EXCEPT ![l] = e]
          /\ semaphore' = IF attached[l] /\ semaphore[l] < SemaphoreLimit
                          THEN [semaphore EXCEPT ![l] = semaphore[l] + 1] ELSE semaphore
          /\ stopped' = (attached[l] /\ semaphore[l] = SemaphoreLimit)
          /\ inserted' = [inserted EXCEPT ![l] = Append(inserted[l], Len(inserted[l]) + 1)]
          /\ skipped' = IF HeadIsBeingReplaced(l)
                        THEN [skipped EXCEPT ![l] = skipped[l] \cup {Len(inserted[l]) + 1}] ELSE skipped
          /\ context' = [context EXCEPT ![t] = Idle]
          /\ UNCHANGED <<bits, hint, attached, listReader, received>>
      BY <2>3 DEF InsertEvent
    <3> HIDE DEF l, e
    <3>1. EndTypes'
      BY <3>a, <3>0, <2>t DEF EndTypes
    <3>2. BlockTypes'
      <4>0. block[l] \in BlockMemory /\ tail[l] \in Block \cup {NULL} /\ Len(inserted[l]) \in Nat
        BY <3>0, <2>t DEF BlockTypes, EndTypes, HistoryTypes
      <4>1. Numbered(l, e) \in BlockMemory
        BY <3>0, <4>0 DEF Numbered, BlockMemory
      <4>2. Linked(l, e) \in BlockMemory
        BY <4>1, <4>0, <3>0 DEF Linked, BlockMemory
      <4> QED BY <4>2, <3>a, <3>0, <2>t DEF BlockTypes
    <3>3. ContextTypes'
      BY <3>a, <2>n, <2>t DEF ContextTypes, ContextStates, Idle
    <3>4. SemaphoreTypes' /\ stopped' \in BOOLEAN
      <4>1. semaphore[l] \in 0 .. SemaphoreLimit /\ SemaphoreLimit \in Nat
        BY <3>0, <2>t, SharedListAssumption DEF SemaphoreTypes
      <4>2. semaphore' \in [List -> 0 .. SemaphoreLimit]
        BY <4>1, <3>a, <3>0, <2>t DEF SemaphoreTypes
      <4>3. (attached[l] /\ semaphore[l] = SemaphoreLimit) \in BOOLEAN
        OBVIOUS
      <4> QED BY <4>2, <4>3, <3>a, <2>t DEF SemaphoreTypes
    <3>5. HistoryTypes'
      <4>1. inserted[l] \in Seq(Nat) /\ Len(inserted[l]) + 1 \in Nat /\ skipped[l] \in SUBSET Nat
        BY <3>0, <2>t DEF HistoryTypes
      <4>2. Append(inserted[l], Len(inserted[l]) + 1) \in Seq(Nat)
        BY <4>1
      <4>3. inserted' \in [List -> Seq(Nat)]
        BY <4>2, <3>a, <3>0, <2>t DEF HistoryTypes
      <4>4. skipped' \in [List -> SUBSET Nat]
        BY <4>1, <3>a, <3>0, <2>t DEF HistoryTypes
      <4> QED BY <4>3, <4>4, <3>a, <2>t DEF HistoryTypes
    <3> QED BY <3>a, <3>1, <3>2, <3>3, <3>4, <3>5, <2>t, TypesUnchanged DEF SharedTypes
  <2>4. ASSUME NEW l \in List, GetSharedEventList(l) PROVE SharedTypes'
    <3>1. SemaphoreTypes'
      BY <2>4, <2>t DEF GetSharedEventList, SemaphoreTypes
    <3> QED BY <2>4, <3>1, <2>t, TypesUnchanged DEF GetSharedEventList, SharedTypes
  <2>5. ASSUME NEW l \in List, WakeUp(l) PROVE SharedTypes'
    <3>1. SemaphoreTypes'
      BY <2>5, <2>t, SharedListAssumption DEF WakeUp, SemaphoreTypes
    <3>2. ReaderTypes'
      BY <2>5, <2>n DEF WakeUp, ReaderTypes, Reader, Waiting
    <3> QED BY <2>5, <3>1, <3>2, <2>t, TypesUnchanged DEF WakeUp, SharedTypes
  <2>r. AfterList \in Reader /\ AfterList.pc \in {"wait", "head"}
    BY <2>n, <2>t DEF AfterList, Waiting, Reader, ReaderTypes
  <2>6. CASE ReadHead
    <3>1. head[listReader.list] \in Block \cup {NULL}
      BY <2>t DEF EndTypes, ReaderTypes, Reader
    <3>2. ReaderTypes'
      BY <2>6, <3>1, <2>r, <2>t DEF ReadHead, ReaderTypes, Reader
    <3> QED BY <2>6, <3>2, <2>t, TypesUnchanged DEF ReadHead, ReaderUnchanged, SharedTypes
  <2>7. CASE ReadData
    <3> DEFINE l == listReader.list  node == block[l][listReader.at]
    <3>1. l \in List /\ node.event \in Nat
      BY <2>7, <2>t DEF ReadData, ReaderTypes, Reader, BlockTypes, BlockMemory
    <3>a. bits' = [bits EXCEPT ![l] = bits[l] \ {node.data}] /\ received' = [received EXCEPT ![l] = Append(received[l], node.event)]
          /\ listReader' = [listReader EXCEPT !.pc = "next"] /\ UNCHANGED head /\ ReaderUnchanged
      BY <2>7 DEF ReadData
    <3> HIDE DEF l, node
    <3>2. BitTypes'
      BY <3>a, <3>1, <2>t DEF ReaderUnchanged, BitTypes
    <3>3. HistoryTypes'
      <4>1. Append(received[l], node.event) \in Seq(Nat)
        BY <3>1, <2>t DEF HistoryTypes
      <4> QED BY <4>1, <3>a, <3>1, <2>t DEF HistoryTypes, ReaderUnchanged
    <3>4. ReaderTypes'
      BY <3>a, <2>7, <2>t DEF ReadData, ReaderTypes, Reader
    <3> QED BY <3>a, <3>2, <3>3, <3>4, <2>t, TypesUnchanged DEF ReaderUnchanged, SharedTypes
  <2>8. CASE ReadNext
    <3>1. block[listReader.list][listReader.at].next \in Block \cup {NULL}
      BY <2>8, <2>t DEF ReadNext, ReaderTypes, Reader, BlockTypes, BlockMemory
    <3>2. ReaderTypes'
      BY <2>8, <3>1, <2>t DEF ReadNext, ReaderTypes, Reader
    <3> QED BY <2>8, <3>2, <2>t, TypesUnchanged DEF ReadNext, ReaderUnchanged, SharedTypes
  <2>9. CASE StoreHead
    <3>1. ReaderTypes'
      BY <2>9, <2>t DEF StoreHead, ReaderTypes, Reader
    <3>2. EndTypes'
      BY <2>9, <2>t DEF StoreHead, ReaderUnchanged, ReaderTypes, Reader, EndTypes
    <3> QED BY <2>9, <3>1, <3>2, <2>t, TypesUnchanged DEF StoreHead, ReaderUnchanged, SharedTypes
  <2>10. CASE ClearEvent
    <3>1. ReaderTypes'
      BY <2>10, <2>r DEF ClearEvent, ReaderTypes, Reader
    <3>2. BitTypes'
      BY <2>10, <2>t DEF ClearEvent, ReaderUnchanged, ReaderTypes, Reader, BitTypes
    <3> QED BY <2>10, <3>1, <3>2, <2>t, TypesUnchanged DEF ClearEvent, ReaderUnchanged, SharedTypes
  <2>11. CASE UNCHANGED sharedVars
    BY <2>11, <2>t, TypesUnchanged DEF sharedVars, SharedTypes
  <2> QED BY <2>1, <2>2, <2>3, <2>4, <2>5, <2>6, <2>7, <2>8, <2>9, <2>10, <2>11 DEF SharedNext
<1> QED BY <1>1, <1>2, PTL DEF SharedSpec

LEMMA OthersAreReadOn ==
  ASSUME NEW l, IsInOrder(l), bits'[l] = bits[l], head'[l] = head[l], tail'[l] = tail[l], block'[l] = block[l],
         WorkingOf(context', l) = WorkingOf(context, l), inserted'[l] = inserted[l], received'[l] = received[l],
         skipped'[l] = skipped[l], ReaderOf(l)' = ReaderOf(l)
  PROVE  IsInOrder(l)'
BY DEF IsInOrder, Total

LEMMA ReaderStays == ASSUME UNCHANGED listReader, NEW l PROVE ReaderOf(l)' = ReaderOf(l)
BY DEF ReaderOf, Waiting

(* Every step of a driver thread (CreateEvent, AddEventData, InsertEvent)  *)
(* and of the reading thread leaves the list in order, unless the block of *)
(* the last event is handed out again while the tail still points to it.   *)
LEMMA SharedListStaysInOrder ==
  ASSUME SharedTypes, SharedTypes', [SharedNext /\ KeepsTail]_sharedVars, \A l \in List : IsInOrder(l),
         NEW l \in List
  PROVE  IsInOrder(l)'
<1>i. IsInOrder(l) /\ ListIs(bits[l], head[l], tail[l], block[l], WorkingOf(context, l), Total(l), received[l], skipped[l],
                             ReaderOf(l))
  BY DEF IsInOrder
<1>t. /\ bits[l] \in SUBSET Block /\ head[l] \in Block \cup {NULL} /\ tail[l] \in Block \cup {NULL}
      /\ block[l] \in BlockMemory /\ inserted[l] \in Seq(Nat) /\ Total(l) \in Nat /\ received[l] \in Seq(Nat)
      /\ Workers(WorkingOf(context, l)) /\ SReader(ReaderOf(l)) /\ context \in ContextStates
  BY WorkersAre, ReaderIs DEF SharedTypes, BitTypes, EndTypes, BlockTypes, ContextTypes, HistoryTypes, Total
<1>d. \A t \in Context : t \in DOMAIN WorkingOf(context, l) <=> context[t].pc # "idle" /\ context[t].list = l
  BY DEF WorkingOf
<1>v. \A t \in Context : context[t].pc # "idle" /\ context[t].list = l => WorkingOf(context, l)[t] = context[t]
  BY DEF WorkingOf
<1>k. /\ \A t \in Context : context[t].list \in List
      /\ \A k \in List : bits[k] \in SUBSET Block /\ k \in DOMAIN bits /\ k \in DOMAIN head /\ k \in DOMAIN tail
                         /\ k \in DOMAIN block /\ k \in DOMAIN inserted /\ k \in DOMAIN received /\ k \in DOMAIN skipped
      /\ listReader.list \in List
  BY DEF SharedTypes, BitTypes, EndTypes, BlockTypes, ContextTypes, ContextStates, HistoryTypes, ReaderTypes, Reader
<1>1. ASSUME NEW t \in Context, NEW m \in List, CreateEvent(t, m), KeepsTail PROVE IsInOrder(l)'
  <2>0. UNCHANGED <<head, tail, inserted, received, skipped, listReader>> /\ context[t].pc = "idle"
    BY <1>1 DEF CreateEvent
  <2>r. ReaderOf(l)' = ReaderOf(l) /\ Total(l)' = Total(l)
    BY <2>0, ReaderStays DEF Total
  <2>1. CASE ClearBits(m) = {}
    <3>1. UNCHANGED <<bits, block, context>>
      BY <1>1, <2>1 DEF CreateEvent
    <3> QED BY <3>1, <2>0, <2>r, <1>i, OthersAreReadOn
  <2>2. CASE ClearBits(m) # {}
    <3> DEFINE b == FoundBit(m)  w == [pc |-> "data", list |-> m, at |-> b]
    <3>1. b \in Block \ bits[m] /\ b # tail[m]
      BY <1>1, <2>2, FoundBitIsClear DEF KeepsTail
    <3>2. /\ bits' = [bits EXCEPT ![m] = bits[m] \cup {b}]
          /\ block' = [block EXCEPT ![m] = [block[m] EXCEPT ![b] = Blank]]
          /\ context' = [context EXCEPT ![t] = w]
      BY <1>1, <2>2 DEF CreateEvent, ReserveSpace, Blank
    <3>w. w.pc = "data" /\ w.list = m
      OBVIOUS
    <3> HIDE DEF b
    <3>3. CASE m # l
      <4>1. WorkingOf(context', l) = WorkingOf(context, l)
        BY <3>2, <3>3, <3>w, <2>0, <1>t, WorkElsewhere
      <4> QED BY <4>1, <3>2, <3>3, <2>0, <2>r, <1>i, <1>k, OthersAreReadOn
    <3>4. CASE m = l
      <4>1. WorkingOf(context', l) = AtWork(WorkingOf(context, l), t, w)
        <5>1. context' = [context EXCEPT ![t] = w] /\ w.pc # "idle" /\ w.list = l
          BY <3>2, <3>4, <3>w
        <5> HIDE DEF w
        <5>2. WorkingOf([context EXCEPT ![t] = w], l) = AtWork(WorkingOf(context, l), t, w)
          BY <5>1, <1>t, WorkIsTaken
        <5> QED BY <5>1, <5>2
      <4>2. t \notin DOMAIN WorkingOf(context, l)
        BY <2>0, <1>d
      <4>3. bits'[l] = bits[l] \cup {b} /\ block'[l] = [block[l] EXCEPT ![b] = Blank]
        BY <3>2, <3>4, <1>k
      <4>4. ListIs(bits[l] \cup {b}, head[l], tail[l], [block[l] EXCEPT ![b] = Blank],
                   AtWork(WorkingOf(context, l), t, w), Total(l), received[l], skipped[l], ReaderOf(l))
        BY <4>2, <3>1, <3>4, <1>i, <1>t, SharedCreateKeeps
      <4> QED BY <4>1, <4>3, <4>4, <2>0, <2>r DEF IsInOrder
    <3> QED BY <3>3, <3>4
  <2> QED BY <2>1, <2>2
<1>2. ASSUME NEW t \in Context, AddEventData(t) PROVE IsInOrder(l)'
  <2> DEFINE m == context[t].list  w == [context[t] EXCEPT !.pc = "insert"]
  <2>0. UNCHANGED <<head, tail, inserted, received, skipped, listReader>> /\ context[t].pc = "data"
        /\ context' = [context EXCEPT ![t] = w]
    BY <1>2 DEF AddEventData
  <2>r. ReaderOf(l)' = ReaderOf(l) /\ Total(l)' = Total(l)
    BY <2>0, ReaderStays DEF Total
  <2>w. w.pc = "insert" /\ w.list = m /\ w.at = context[t].at
    BY <1>t DEF ContextStates
  <2>m. m \in List
    BY <1>k
  <2> HIDE DEF w, m
  <2>1. CASE m # l
    <3>1. WorkingOf(context', l) = WorkingOf(context, l)
      BY <2>1, <2>0, <2>w, <1>t, WorkElsewhere DEF m
    <3>2. bits'[l] = bits[l] /\ block'[l] = block[l]
      BY <2>1, <1>2, <1>k DEF AddEventData, ReserveSpace, m
    <3> QED BY <3>1, <3>2, <2>0, <2>r, <1>i, OthersAreReadOn
  <2>2. CASE m = l
    <3>1. WorkingOf(context', l) = AtWork(WorkingOf(context, l), t, w)
      BY <2>2, <2>0, <2>w, <1>t, WorkIsTaken
    <3>2. t \in DOMAIN WorkingOf(context, l) /\ WorkingOf(context, l)[t] = context[t]
      BY <2>2, <2>0, <1>d, <1>v DEF m
    <3>3. CASE ClearBits(l) = {}
      <4>1. UNCHANGED <<bits, block>>
        BY <3>3, <2>2, <1>2 DEF AddEventData, m
      <4>2. ListIs(bits[l], head[l], tail[l], block[l], AtWork(WorkingOf(context, l), t, w), Total(l),
                   received[l], skipped[l], ReaderOf(l))
        BY <3>2, <2>w, <1>i, <1>t, SharedNoRoomKeeps
      <4> QED BY <4>1, <4>2, <3>1, <2>0, <2>r DEF IsInOrder
    <3>4. CASE ClearBits(l) # {}
      <4> DEFINE b == FoundBit(l)
                 M1 == [[block[l] EXCEPT ![context[t].at] = [block[l][context[t].at] EXCEPT !.data = b]] EXCEPT ![b] = Blank]
      <4>1. b \in Block \ bits[l]
        BY <3>4, FoundBitIsClear
      <4>2. /\ bits' = [bits EXCEPT ![l] = bits[l] \cup {b}]
            /\ block' = [block EXCEPT ![l][context[t].at].data = b, ![l][b] = Blank]
        BY <3>4, <2>2, <1>2 DEF AddEventData, ReserveSpace, Blank, m
      <4> HIDE DEF b
      <4>3. bits'[l] = bits[l] \cup {b}
        BY <4>2, <1>k
      <4>4. block'[l] = M1
        BY <4>2, <1>k
      <4> DEFINE M2 == [[block[l] EXCEPT ![WorkingOf(context, l)[t].at]
                           = [block[l][WorkingOf(context, l)[t].at] EXCEPT !.data = b]] EXCEPT ![b] = Blank]
      <4>5. M1 = M2
        BY <3>2
      <4> HIDE DEF M1
      <4>6. ListIs(bits[l] \cup {b}, head[l], tail[l], M2, AtWork(WorkingOf(context, l), t, w), Total(l),
                   received[l], skipped[l], ReaderOf(l))
        BY <4>1, <3>2, <2>0, <2>w, <1>i, <1>t, SharedDataKeeps
      <4> HIDE DEF M2
      <4> QED BY <4>3, <4>4, <4>5, <4>6, <3>1, <2>0, <2>r DEF IsInOrder
    <3> QED BY <3>3, <3>4
  <2> QED BY <2>1, <2>2
<1>3. ASSUME NEW t \in Context, InsertEvent(t) PROVE IsInOrder(l)'
  <2> DEFINE m == context[t].list  e == context[t].at
  <2>0. UNCHANGED <<bits, received, listReader>> /\ context[t].pc = "insert" /\ context' = [context EXCEPT ![t] = Idle]
    BY <1>3 DEF InsertEvent
  <2>a. /\ head' = IF head[m] = NULL THEN [head EXCEPT ![m] = e] ELSE head
        /\ block' = [block EXCEPT ![m] = Linked(m, e)] /\ tail' = [tail EXCEPT ![m] = e]
        /\ inserted' = [inserted EXCEPT ![m] = Append(inserted[m], Len(inserted[m]) + 1)]
        /\ skipped' = IF HeadIsBeingReplaced(m)
                      THEN [skipped EXCEPT ![m] = skipped[m] \cup {Len(inserted[m]) + 1}] ELSE skipped
    BY <1>3 DEF InsertEvent
  <2>r. ReaderOf(l)' = ReaderOf(l)
    BY <2>0, ReaderStays
  <2>w. Idle.pc = "idle"
    BY DEF Idle
  <2>m. m \in List
    BY <1>k
  <2> HIDE DEF m, e
  <2>1. CASE m # l
    <3>1. WorkingOf(context', l) = WorkingOf(context, l)
      BY <2>1, <2>0, <2>w, <1>t, WorkElsewhere DEF m
    <3>2. /\ head'[l] = head[l] /\ block'[l] = block[l] /\ tail'[l] = tail[l] /\ inserted'[l] = inserted[l]
          /\ skipped'[l] = skipped[l]
      BY <2>1, <2>a
    <3> QED BY <3>1, <3>2, <2>0, <2>r, <1>i, OthersAreReadOn
  <2>2. CASE m = l
    <3>1. WorkingOf(context', l) = OffWork(WorkingOf(context, l), t)
      BY <2>0, <2>w, <1>t, WorkIsDone
    <3>2. t \in DOMAIN WorkingOf(context, l) /\ WorkingOf(context, l)[t] = context[t]
      BY <2>2, <2>0, <1>d, <1>v DEF m
    <3>3. HeadIsBeingReplaced(l) <=> ListEmptying(ReaderOf(l))
      BY DEF HeadIsBeingReplaced, ListEmptying, ReaderOf, Waiting
    <3>4. Linked(l, e) = LinkedIn(block[l], tail[l], e, Total(l) + 1)
      BY DEF Linked, Numbered, LinkedIn, Total
    <3>5. /\ head'[l] = (IF head[l] = NULL THEN e ELSE head[l]) /\ tail'[l] = e
          /\ block'[l] = LinkedIn(block[l], tail[l], e, Total(l) + 1)
          /\ skipped'[l] = IF ListEmptying(ReaderOf(l)) THEN skipped[l] \cup {Total(l) + 1} ELSE skipped[l]
      BY <2>2, <2>a, <1>k, <3>3, <3>4 DEF Total
    <3>6. Total(l)' = Total(l) + 1
      <4>1. inserted'[l] = Append(inserted[l], Len(inserted[l]) + 1)
        BY <2>2, <2>a, <1>k
      <4> QED BY <4>1, <1>t DEF Total
    <3>7. ListIs(bits[l], IF head[l] = NULL THEN e ELSE head[l], e, LinkedIn(block[l], tail[l], e, Total(l) + 1),
                 OffWork(WorkingOf(context, l), t), Total(l) + 1, received[l],
                 IF ListEmptying(ReaderOf(l)) THEN skipped[l] \cup {Total(l) + 1} ELSE skipped[l], ReaderOf(l))
      BY <3>2, <2>0, <1>i, <1>t, SharedInsertKeeps DEF e
    <3> QED BY <3>1, <3>5, <3>6, <3>7, <2>0, <2>r DEF IsInOrder
  <2> QED BY <2>1, <2>2
<1>4. ASSUME NEW m \in List, GetSharedEventList(m) PROVE IsInOrder(l)'
  <2>1. UNCHANGED <<bits, head, tail, block, context, listReader, inserted, received, skipped>>
    BY <1>4 DEF GetSharedEventList
  <2> QED BY <2>1, <1>i, ReaderStays, OthersAreReadOn
<1>5. ASSUME NEW m \in List, WakeUp(m) PROVE IsInOrder(l)'
  <2>1. UNCHANGED <<bits, head, tail, block, context, inserted, received, skipped>>
    BY <1>5 DEF WakeUp
  <2>2. ReaderOf(l)' = ReaderOf(l)
    BY <1>5 DEF WakeUp, ReaderOf, Waiting
  <2> QED BY <2>1, <2>2, <1>i, OthersAreReadOn
<1>a. ReaderOf(l)' = Waiting \/ ~(listReader' = AfterList)
  <2>1. AfterList.pc \in {"wait", "head"}
    BY DEF AfterList, Waiting, SharedTypes, ReaderTypes, Reader
  <2>2. ASSUME listReader' = AfterList PROVE ReaderOf(l)' = Waiting
    <3>1. listReader'.pc \in {"wait", "head"}
      BY <2>1, <2>2
    <3> QED BY <3>1 DEF ReaderOf, Waiting
  <2> QED BY <2>2
<1>w. Waiting.pc = "wait"
  BY DEF Waiting
<1>b. ASSUME listReader.list # l, listReader'.list = listReader.list
      PROVE  ReaderOf(l)' = ReaderOf(l)
  <2>1. ReaderOf(l) = Waiting /\ ReaderOf(l)' = Waiting
    BY <1>b DEF ReaderOf, Waiting
  <2> QED BY <2>1
<1>6. CASE ReadHead
  <2>1. UNCHANGED <<bits, head, tail, block, context, inserted, received, skipped>> /\ listReader.pc = "head"
    BY <1>6 DEF ReadHead, ReaderUnchanged
  <2>2. ReaderOf(l) = Waiting
    BY <2>1 DEF ReaderOf
  <2>3. CASE head[listReader.list] = NULL
    <3>1. ReaderOf(l)' = Waiting
      BY <1>6, <2>3, <1>a DEF ReadHead
    <3> QED BY <3>1, <2>1, <2>2, <1>i, OthersAreReadOn
  <2>4. CASE head[listReader.list] # NULL
    <3>1. listReader' = [listReader EXCEPT !.pc = "data", !.at = head[listReader.list]]
      BY <1>6, <2>4 DEF ReadHead
    <3>r. listReader'.list = listReader.list /\ listReader'.pc = "data" /\ listReader'.at = head[listReader.list]
      BY <3>1 DEF SharedTypes, ReaderTypes, Reader
    <3>2. CASE listReader.list # l
      <4>1. ReaderOf(l)' = ReaderOf(l)
        BY <3>r, <3>2, <1>b
      <4> QED BY <4>1, <2>1, <1>i, OthersAreReadOn
    <3>3. CASE listReader.list = l
      <4>1. ReaderOf(l)' = listReader' /\ ReaderOf(l)'.pc = "data" /\ ReaderOf(l)'.at = head[l]
        BY <3>r, <3>3 DEF ReaderOf
      <4>2. ReaderOf(l).pc = "wait" /\ head[l] # NULL
        BY <2>2, <2>4, <3>3, <1>w
      <4>3. ListIs(bits[l], head[l], tail[l], block[l], WorkingOf(context, l), Total(l), received[l], skipped[l],
                   ReaderOf(l)')
        BY <4>1, <4>2, <1>i, <1>t, SharedHeadKeeps
      <4> QED BY <4>3, <2>1 DEF IsInOrder, Total
    <3> QED BY <3>2, <3>3
  <2> QED BY <2>3, <2>4
<1>7. CASE ReadData
  <2> DEFINE m == listReader.list  node == block[m][listReader.at]
  <2>1. UNCHANGED <<head, tail, block, context, inserted, skipped>> /\ listReader.pc = "data"
        /\ bits' = [bits EXCEPT ![m] = bits[m] \ {node.data}]
        /\ received' = [received EXCEPT ![m] = Append(received[m], node.event)]
        /\ listReader' = [listReader EXCEPT !.pc = "next"]
    BY <1>7 DEF ReadData, ReaderUnchanged
  <2>r. listReader'.list = listReader.list /\ listReader'.pc = "next" /\ listReader'.at = listReader.at
        /\ listReader.at \in Block
    BY <2>1 DEF SharedTypes, ReaderTypes, Reader
  <2> HIDE DEF m, node
  <2>2. CASE m # l
    <3>1. ReaderOf(l)' = ReaderOf(l)
      BY <2>r, <2>2, <1>b DEF m
    <3>2. bits'[l] = bits[l] /\ received'[l] = received[l]
      BY <2>1, <2>2
    <3> QED BY <3>1, <3>2, <2>1, <1>i, OthersAreReadOn
  <2>3. CASE m = l
    <3>1. ReaderOf(l) = listReader /\ ReaderOf(l)' = listReader'
      BY <2>1, <2>r, <2>3 DEF ReaderOf, m
    <3>2. bits'[l] = bits[l] \ {block[l][listReader.at].data}
          /\ received'[l] = Append(received[l], block[l][listReader.at].event)
      BY <2>1, <2>3, <1>k DEF node
    <3>3. ListIs(bits[l] \ {block[l][listReader.at].data}, head[l], tail[l], block[l], WorkingOf(context, l), Total(l),
                 Append(received[l], block[l][listReader.at].event), skipped[l], listReader')
      BY <3>1, <2>1, <2>r, <1>i, <1>t, SharedReadKeeps
    <3> QED BY <3>1, <3>2, <3>3, <2>1 DEF IsInOrder, Total
  <2> QED BY <2>2, <2>3
<1>8. CASE ReadNext
  <2> DEFINE m == listReader.list
  <2>1. UNCHANGED <<bits, head, tail, block, context, inserted, received, skipped>> /\ listReader.pc = "next"
        /\ listReader' = [listReader EXCEPT !.pc = "store", !.next = block[m][listReader.at].next]
    BY <1>8 DEF ReadNext, ReaderUnchanged
  <2>r. listReader'.list = m /\ listReader'.pc = "store" /\ listReader'.at = listReader.at
        /\ listReader'.next = block[m][listReader.at].next
    BY <2>1 DEF SharedTypes, ReaderTypes, Reader
  <2> HIDE DEF m
  <2>2. CASE m # l
    <3>1. ReaderOf(l)' = ReaderOf(l)
      BY <2>r, <2>2, <1>b DEF m
    <3> QED BY <3>1, <2>1, <1>i, OthersAreReadOn
  <2>3. CASE m = l
    <3>1. ReaderOf(l) = listReader /\ ReaderOf(l)' = listReader'
      BY <2>1, <2>r, <2>3 DEF ReaderOf, m
    <3>2. listReader'.next = block[l][listReader.at].next
      BY <2>r, <2>3
    <3>3. ListIs(bits[l], head[l], tail[l], block[l], WorkingOf(context, l), Total(l), received[l], skipped[l], listReader')
      BY Zenon, <3>1, <3>2, <2>1, <2>r, <1>i, <1>t, SharedNextKeeps
    <3> QED BY <3>1, <3>3, <2>1 DEF IsInOrder, Total
  <2> QED BY <2>2, <2>3
<1>9. CASE StoreHead
  <2> DEFINE m == listReader.list
  <2>1. UNCHANGED <<bits, tail, block, context, inserted, received, skipped>> /\ listReader.pc = "store"
        /\ listReader' = [listReader EXCEPT !.pc = "clear"] /\ head' = [head EXCEPT ![m] = listReader.next]
    BY <1>9 DEF StoreHead, ReaderUnchanged
  <2>r. listReader'.list = m /\ listReader'.pc = "clear" /\ listReader'.at = listReader.at
    BY <2>1 DEF SharedTypes, ReaderTypes, Reader
  <2> HIDE DEF m
  <2>2. CASE m # l
    <3>1. ReaderOf(l)' = ReaderOf(l)
      BY <2>r, <2>2, <1>b DEF m
    <3>2. head'[l] = head[l]
      BY <2>1, <2>2
    <3> QED BY <3>1, <3>2, <2>1, <1>i, OthersAreReadOn
  <2>3. CASE m = l
    <3>1. ReaderOf(l) = listReader /\ ReaderOf(l)' = listReader'
      BY <2>1, <2>r, <2>3 DEF ReaderOf, m
    <3>2. head'[l] = listReader.next
      BY <2>1, <2>3, <1>k
    <3>3. ListIs(bits[l], listReader.next, tail[l], block[l], WorkingOf(context, l), Total(l), received[l], skipped[l],
                 listReader')
      BY <3>1, <2>1, <2>r, <1>i, <1>t, SharedStoreKeeps
    <3> QED BY <3>1, <3>2, <3>3, <2>1 DEF IsInOrder, Total
  <2> QED BY <2>2, <2>3
<1>10. CASE ClearEvent
  <2> DEFINE m == listReader.list
  <2>1. UNCHANGED <<head, tail, block, context, inserted, received, skipped>> /\ listReader.pc = "clear"
        /\ listReader' = AfterList /\ bits' = [bits EXCEPT ![m] = bits[m] \ {listReader.at}]
    BY <1>10 DEF ClearEvent, ReaderUnchanged
  <2>r. ReaderOf(l)' = Waiting
    BY <2>1, <1>a
  <2> HIDE DEF m
  <2>2. CASE m # l
    <3>1. ReaderOf(l) = Waiting
      BY <2>2 DEF ReaderOf, m
    <3>2. bits'[l] = bits[l]
      BY <2>1, <2>2
    <3> QED BY <3>1, <3>2, <2>r, <2>1, <1>i, OthersAreReadOn
  <2>3. CASE m = l
    <3>1. ReaderOf(l) = listReader
      BY <2>1, <2>3 DEF ReaderOf, m
    <3>2. bits'[l] = bits[l] \ {listReader.at}
      BY <2>1, <2>3, <1>k
    <3>3. ListIs(bits[l] \ {listReader.at}, head[l], tail[l], block[l], WorkingOf(context, l), Total(l), received[l],
                 skipped[l], Waiting)
      BY <3>1, <2>1, <1>w, <1>i, <1>t, SharedClearKeeps
    <3> QED BY <3>2, <3>3, <2>r, <2>1 DEF IsInOrder, Total
  <2> QED BY <2>2, <2>3
<1>11. CASE UNCHANGED sharedVars
  BY <1>11, <1>i, ReaderStays, OthersAreReadOn DEF sharedVars
<1> QED BY <1>1, <1>2, <1>3, <1>4, <1>5, <1>6, <1>7, <1>8, <1>9, <1>10, <1>11 DEF SharedNext

LEMMA SharedListsBegin ==
  ASSUME SharedInit
  PROVE  \A l \in List : IsInOrder(l)
<1>1. ASSUME NEW l \in List PROVE IsInOrder(l)
  <2>1. /\ bits[l] = {} /\ head[l] = NULL /\ tail[l] = NULL /\ WorkingOf(context, l) = [t \in {} |-> Idle] /\ Total(l) = 0
        /\ received[l] = <<>> /\ skipped[l] = {} /\ ReaderOf(l) = Waiting /\ Waiting.pc = "wait"
    BY DEF SharedInit, WorkingOf, Idle, Total, ReaderOf, Waiting
  <2> DEFINE W == [t \in {} |-> Idle]
  <2>2. DOMAIN W = {} /\ SharedAts(W) = {}
    BY DEF SharedAts
  <2> HIDE DEF W
  <2>3. PICK f : f \in [Nat -> Block]
    <3>1. 1 \in Block
      BY SharedListAssumption DEF Block
    <3>2. [k \in Nat |-> 1] \in [Nat -> Block]
      BY <3>1
    <3> QED BY <3>2
  <2>4. HeldBlocks(W, 0, 0, f) = {}
    BY <2>2 DEF HeldBlocks
  <2>5. ThreadsHold({}, NULL, block[l], W)
    BY <2>2 DEF ThreadsHold
  <2>6. Chained({}, NULL, block[l], W, 0, 0, f)
    BY DEF Chained
  <2>7. DataApart({}, block[l], HeldBlocks(W, 0, 0, f))
    BY <2>4 DEF DataApart
  <2>8. ReaderAt({}, NULL, NULL, block[l], 0, 0, f, HeldBlocks(W, 0, 0, f), Waiting)
    BY <2>1 DEF ReaderAt, FirstUnread
  <2>9. ReadUpTo(0, <<>>, {}, 0)
    BY DEF ReadUpTo
  <2> QED BY <2>1, <2>3, <2>5, <2>6, <2>7, <2>8, <2>9 DEF ListIs, IsInOrder, W
<1> QED BY <1>1

LEMMA SharedListsAreInOrder == SharedSpec /\ [][KeepsTail]_sharedVars => [](\A l \in List : IsInOrder(l))
<1>2. SharedTypes /\ SharedTypes' /\ (\A l \in List : IsInOrder(l)) /\ [SharedNext]_sharedVars /\ [KeepsTail]_sharedVars
      => (\A l \in List : IsInOrder(l))'
  <2> SUFFICES ASSUME SharedTypes, SharedTypes', \A l \in List : IsInOrder(l), [SharedNext]_sharedVars,
                      [KeepsTail]_sharedVars, NEW l \in List
               PROVE  IsInOrder(l)'
    OBVIOUS
  <2>1. [SharedNext /\ KeepsTail]_sharedVars
    OBVIOUS
  <2> QED BY <2>1, SharedListStaysInOrder
<1>3. SharedInit => \A l \in List : IsInOrder(l)
  BY SharedListsBegin
<1> QED BY <1>2, <1>3, SharedTypesHold, PTL DEF SharedSpec

(* A list in order has been read in order and without a gap.               *)
LEMMA InOrderIsReadInOrder ==
  ASSUME NEW l \in List, IsInOrder(l)
  PROVE  /\ \A i, j \in DOMAIN received[l] : i < j => received[l][i] < received[l][j]
         /\ Received(l) \subseteq 1 .. Len(inserted[l]) \ skipped[l]
         /\ \A n \in Received(l) : 1 .. n \subseteq Received(l) \cup skipped[l]
<1>1. PICK lo \in 0 .. Total(l) : ReadUpTo(Total(l), received[l], skipped[l], lo)
  BY Zenon DEF IsInOrder, ListIs
<1>2. Received(l) = {k \in 1 .. lo : k \notin skipped[l]}
  BY <1>1 DEF Received, ReadUpTo
<1>3. lo \in Int /\ lo \in 0 .. Len(inserted[l])
  BY <1>1 DEF Total
<1> QED BY <1>1, <1>2, <1>3 DEF ReadUpTo

(* The client gets the events of every list of the network driver in the   *)
(* order in which the driver's threads inserted them, and none is passed   *)
(* over but those that InsertEvent links behind a head which the reader is *)
(* replacing - in any behaviour in which CreateEvent never reserves the    *)
(* block to which the tail of the list still points.  The code does not    *)
(* provide for the latter, and without it the property is false.           *)
THEOREM SharedEventsAreReadInOrder ==
  SharedSpec /\ [][KeepsTail]_sharedVars => []EventsAreReadInOrder
<1>1. (\A l \in List : IsInOrder(l)) => EventsAreReadInOrder
  BY InOrderIsReadInOrder DEF EventsAreReadInOrder
<1> QED BY <1>1, SharedListsAreInOrder, PTL

Active(l) == {t \in Context : context[t].pc # "idle" /\ context[t].list = l}
WithoutData(l) == {t \in Context : context[t].pc = "data" /\ context[t].list = l}

\* The buffer has not been filled once: the bits behind the hint are clear.
RoomLeft(l) ==
  /\ IsFiniteSet(Active(l)) /\ Reports(l) <= MaxReports
  /\ bits[l] \subseteq 1 .. hint[l] /\ tail[l] < hint[l]
  /\ hint[l] <= 2 * Reports(l) - Cardinality(WithoutData(l)) \/ (hint[l] = 1 /\ bits[l] = {} /\ Reports(l) = 0)
  /\ \A t \in Context : context[t].list = l =>
       /\ context[t].pc = "insert" => context[t].at < hint[l]
       /\ context[t].pc = "data" => context[t].at <= hint[l]

Counts(l) == /\ IsFiniteSet(WithoutData(l)) /\ Cardinality(WithoutData(l)) \in Nat /\ Cardinality(Active(l)) \in Nat
             /\ Cardinality(WithoutData(l)) <= Cardinality(Active(l))
             /\ Total(l) \in Nat /\ Reports(l) = Total(l) + Cardinality(Active(l)) /\ Reports(l) \in Nat

LEMMA RoomCounts ==
  ASSUME SharedTypes, NEW l \in List, RoomLeft(l)
  PROVE  Counts(l)
<1>1. WithoutData(l) \subseteq Active(l) /\ IsFiniteSet(Active(l))
  BY DEF WithoutData, Active, RoomLeft
<1>2. IsFiniteSet(WithoutData(l)) /\ Cardinality(WithoutData(l)) <= Cardinality(Active(l))
  BY <1>1, FS_Subset
<1>3. Cardinality(WithoutData(l)) \in Nat /\ Cardinality(Active(l)) \in Nat
  BY <1>1, <1>2, FS_CardinalityType
<1>4. Total(l) \in Nat
  BY DEF Total, SharedTypes, HistoryTypes
<1>5. Reports(l) = Total(l) + Cardinality(Active(l))
  BY DEF Reports, Total, Active
<1> QED BY <1>2, <1>3, <1>4, <1>5 DEF Counts

(* With room left the next free block is at the hint or right behind it.   *)
LEMMA FoundBehindHint ==
  ASSUME SharedTypes, NEW l \in List, RoomLeft(l), hint[l] + 1 <= Blocks
  PROVE  /\ FoundBit(l) \in {hint[l], hint[l] + 1} /\ ClearBits(l) # {} /\ FoundBit(l) \notin bits[l]
         /\ (bits[l] = {} => FoundBit(l) = hint[l])
<1> DEFINE after == {b \in ClearBits(l) : b >= hint[l]}
<1>0. hint[l] \in Nat /\ hint[l] \in Block /\ hint[l] + 1 \in Block /\ bits[l] \subseteq 1 .. hint[l]
  BY SharedListAssumption DEF SharedTypes, BitTypes, Block, RoomLeft
<1>1. hint[l] + 1 \in after /\ (hint[l] \notin bits[l] => hint[l] \in after)
  BY <1>0 DEF ClearBits
<1>2. after \subseteq Nat /\ after # {}
  BY <1>1, SharedListAssumption DEF ClearBits, Block
<1>3. FoundBit(l) = CHOOSE b \in after : \A c \in after : b <= c
  BY <1>2 DEF FoundBit
<1>4. \A b \in after : b >= hint[l] /\ b \notin bits[l]
  BY DEF ClearBits
<1> HIDE DEF after
<1>5. \E b \in after : \A c \in after : b <= c
  BY <1>2, LeastNumber
<1>6. FoundBit(l) \in after /\ \A c \in after : FoundBit(l) <= c
  BY Zenon, <1>3, <1>5
<1>7. FoundBit(l) \in Nat /\ FoundBit(l) >= hint[l] /\ FoundBit(l) <= hint[l] + 1 /\ FoundBit(l) \notin bits[l]
  BY <1>1, <1>2, <1>4, <1>6
<1>8. bits[l] = {} => FoundBit(l) <= hint[l]
  BY <1>1, <1>6
<1>9. ClearBits(l) # {}
  BY <1>0 DEF ClearBits
<1> QED BY <1>0, <1>7, <1>8, <1>9

(* With room left no block is handed out to which the tail still points.   *)
LEMMA RoomKeepsTail ==
  ASSUME SharedTypes, \A l \in List : RoomLeft(l), 2 * MaxReports <= Blocks
  PROVE  KeepsTail
<1> SUFFICES ASSUME NEW t \in Context, NEW l \in List, CreateEvent(t, l) PROVE FoundBit(l) # tail[l]
  BY DEF KeepsTail
<1>1. RoomLeft(l) /\ Counts(l)
  BY RoomCounts
<1>2. hint[l] \in Nat /\ tail[l] \in Nat /\ Reports(l) < MaxReports
  BY SharedListAssumption DEF CreateEvent, SharedTypes, BitTypes, EndTypes, Block, NULL
<1>3. hint[l] + 1 <= Blocks
  BY <1>1, <1>2, SharedListAssumption DEF RoomLeft, Counts
<1>4. FoundBit(l) \in {hint[l], hint[l] + 1}
  BY <1>1, <1>3, FoundBehindHint
<1> QED BY <1>1, <1>2, <1>4 DEF RoomLeft

LEMMA RoomElsewhere ==
  ASSUME NEW l, RoomLeft(l), bits'[l] \subseteq bits[l], hint'[l] = hint[l], tail'[l] = tail[l], inserted'[l] = inserted[l],
         \A t \in Context : \/ context'[t] = context[t]
                            \/ /\ context[t].pc = "idle" \/ context[t].list # l
                               /\ context'[t].pc = "idle" \/ context'[t].list # l
  PROVE  RoomLeft(l)'
<1>1. Active(l)' = Active(l) /\ WithoutData(l)' = WithoutData(l)
  BY DEF Active, WithoutData
<1>2. Reports(l)' = Reports(l)
  BY <1>1 DEF Reports, Active
<1>3. \A t \in Context : context'[t].list = l =>
       /\ context'[t].pc = "insert" => context'[t].at < hint[l]
       /\ context'[t].pc = "data" => context'[t].at <= hint[l]
  BY DEF RoomLeft
<1> QED BY <1>1, <1>2, <1>3 DEF RoomLeft

LEMMA RoomIsLeft ==
  ASSUME SharedTypes, SharedTypes', [SharedNext]_sharedVars, \A l \in List : RoomLeft(l), \A l \in List : IsInOrder(l),
         2 * MaxReports <= Blocks, NEW l \in List
  PROVE  RoomLeft(l)'
<1>r. RoomLeft(l) /\ Counts(l)
  BY RoomCounts
<1>k. hint[l] \in Nat /\ tail[l] \in Nat /\ context \in ContextStates /\ (\A t \in Context : context[t].list \in List)
      /\ \A m \in List : m \in DOMAIN bits /\ m \in DOMAIN hint /\ m \in DOMAIN tail /\ m \in DOMAIN inserted
  BY SharedListAssumption
     DEF SharedTypes, BitTypes, EndTypes, HistoryTypes, ContextTypes, ContextStates, Block, NULL
<1>1. ASSUME NEW t \in Context, NEW m \in List, CreateEvent(t, m) PROVE RoomLeft(l)'
  <2>0. UNCHANGED <<tail, inserted>> /\ context[t].pc = "idle" /\ Reports(m) < MaxReports
    BY <1>1 DEF CreateEvent
  <2>1. CASE ClearBits(m) = {}
    <3>1. UNCHANGED <<bits, hint, block, context>>
      BY <1>1, <2>1 DEF CreateEvent
    <3> QED BY <3>1, <2>0, <1>r, RoomElsewhere
  <2>2. CASE ClearBits(m) # {}
    <3> DEFINE b == FoundBit(m)  w == [pc |-> "data", list |-> m, at |-> b]
    <3>2. bits' = [bits EXCEPT ![m] = bits[m] \cup {b}] /\ hint' = [hint EXCEPT ![m] = b]
          /\ context' = [context EXCEPT ![t] = w]
      BY <1>1, <2>2 DEF CreateEvent, ReserveSpace
    <3>c. \A u \in Context : context'[u] = IF u = t THEN w ELSE context[u]
      BY <3>2, <1>k DEF ContextStates
    <3>w. w.pc = "data" /\ w.list = m /\ w.at = b
      OBVIOUS
    <3>3. CASE m # l
      <4>1. bits'[l] = bits[l] /\ hint'[l] = hint[l]
        BY <3>2, <3>3
      <4>2. \A u \in Context : u # t => context'[u] = context[u]
        BY <3>c
      <4>3. context'[t].list # l /\ context[t].pc = "idle"
        BY <3>c, <3>w, <3>3, <2>0
      <4> HIDE DEF w, b
      <4> QED BY <4>1, <4>2, <4>3, <2>0, <1>r, RoomElsewhere
    <3>4. CASE m = l
      <4>0. hint[l] + 1 <= Blocks
        BY <1>r, <1>k, <2>0, <3>4, SharedListAssumption DEF RoomLeft, Counts
      <4>b. b \in {hint[l], hint[l] + 1} /\ (bits[l] = {} => b = hint[l])
        BY <1>r, <4>0, <3>4, FoundBehindHint
      <4> HIDE DEF b, w
      <4>1. bits'[l] = bits[l] \cup {b} /\ hint'[l] = b
        BY <3>2, <3>4, <1>k
      <4>2. Active(l)' = Active(l) \cup {t} /\ WithoutData(l)' = WithoutData(l) \cup {t}
            /\ t \notin Active(l) /\ t \notin WithoutData(l)
        BY <3>c, <3>w, <3>4, <2>0 DEF Active, WithoutData
      <4>3. IsFiniteSet(Active(l)') /\ Cardinality(Active(l)') = Cardinality(Active(l)) + 1
        BY <4>2, <1>r, FS_AddElement DEF RoomLeft
      <4>4. Cardinality(WithoutData(l)') = Cardinality(WithoutData(l)) + 1
        BY <4>2, <1>r, FS_AddElement DEF Counts
      <4>5. Reports(l)' = Reports(l) + 1
        BY <4>3, <2>0, <1>r DEF Reports, Active, Total, Counts
      <4>6. \A u \in Context : context'[u].list = l =>
              /\ context'[u].pc = "insert" => context'[u].at < b
              /\ context'[u].pc = "data" => context'[u].at <= b
        <5> SUFFICES ASSUME NEW u \in Context, context'[u].list = l
                     PROVE  /\ context'[u].pc = "insert" => context'[u].at < b
                            /\ context'[u].pc = "data" => context'[u].at <= b
          OBVIOUS
        <5>1. CASE u = t
          BY <5>1, <3>c, <3>w, <4>b, <1>k
        <5>2. CASE u # t
          <6>1. context'[u] = context[u] /\ (context[u].pc # "idle" => context[u].at \in Nat)
            BY <5>2, <3>c, SharedListAssumption DEF SharedTypes, ContextTypes, Block
          <6> QED BY <6>1, <1>r, <1>k, <4>b DEF RoomLeft
        <5> QED BY <5>1, <5>2
      <4>7. bits'[l] \subseteq 1 .. b
        <5>1. b >= 1
          BY <4>b, <1>k, SharedListAssumption DEF SharedTypes, BitTypes, Block
        <5> QED BY <5>1, <4>1, <4>b, <1>r, <1>k DEF RoomLeft
      <4>8. b <= 2 * Reports(l)' - Cardinality(WithoutData(l)')
        BY <4>b, <4>4, <4>5, <1>r, <1>k DEF RoomLeft, Counts
      <4>9. tail[l] < b
        BY <4>b, <1>r, <1>k DEF RoomLeft
      <4>10. Reports(l)' <= MaxReports
        BY <4>5, <2>0, <3>4, <1>r, SharedListAssumption DEF Counts
      <4> QED BY <4>1, <4>3, <4>6, <4>7, <4>8, <4>9, <4>10, <2>0 DEF RoomLeft
    <3> QED BY <3>3, <3>4
  <2> QED BY <2>1, <2>2
<1>2. ASSUME NEW t \in Context, AddEventData(t) PROVE RoomLeft(l)'
  <2> DEFINE m == context[t].list  w == [context[t] EXCEPT !.pc = "insert"]
  <2>0. UNCHANGED <<tail, inserted>> /\ context[t].pc = "data" /\ context' = [context EXCEPT ![t] = w]
    BY <1>2 DEF AddEventData
  <2>w. w.pc = "insert" /\ w.list = m /\ w.at = context[t].at
    BY <1>k DEF ContextStates
  <2>c. \A u \in Context : context'[u] = IF u = t THEN w ELSE context[u]
    BY <2>0, <1>k DEF ContextStates
  <2>m. m \in List
    BY <1>k
  <2> HIDE DEF w, m
  <2>1. CASE m # l
    <3>2. bits'[l] = bits[l] /\ hint'[l] = hint[l]
      BY <2>1, <1>2, <1>k DEF AddEventData, ReserveSpace, m
    <3>3. \A u \in Context : u # t => context'[u] = context[u]
      BY <2>c
    <3>4. context'[t].list # l /\ context[t].list # l
      BY <2>c, <2>w, <2>1 DEF m
    <3> QED BY <3>2, <3>3, <3>4, <2>0, <1>r, RoomElsewhere
  <2>2. CASE m = l
    <3>d. t \in WithoutData(l) /\ t \in Active(l)
      BY <2>2, <2>0 DEF WithoutData, Active, m
    <3>n. Cardinality(WithoutData(l)) >= 1 /\ Cardinality(Active(l)) >= 1
      <4>1. Cardinality(WithoutData(l)) # 0 /\ Cardinality(Active(l)) # 0
        BY <3>d, <1>r, FS_EmptySet DEF Counts, RoomLeft
      <4> QED BY <4>1, <1>r DEF Counts
    <3>h. hint[l] + 1 <= Blocks
      BY <3>n, <1>r, <1>k, SharedListAssumption DEF RoomLeft, Counts
    <3> DEFINE b == FoundBit(l)
    <3>b. b \in {hint[l], hint[l] + 1} /\ ClearBits(l) # {} /\ b \notin bits[l]
      BY <1>r, <3>h, FoundBehindHint
    <3>a. context[t].at \in bits[l] /\ context[t].at \in Nat /\ context[t].at <= hint[l]
      <4>1. t \in DOMAIN WorkingOf(context, l) /\ WorkingOf(context, l)[t] = context[t]
        BY <2>2, <2>0 DEF WorkingOf, m
      <4>2. context[t].at \in bits[l]
        BY <4>1 DEF IsInOrder, ListIs, ThreadsHold
      <4>3. context[t].at \in Nat
        BY <2>0, SharedListAssumption DEF SharedTypes, ContextTypes, Block
      <4> QED BY <4>2, <4>3, <2>2, <2>0, <1>r DEF RoomLeft, m
    <3>e. bits' = [bits EXCEPT ![l] = bits[l] \cup {b}] /\ hint' = [hint EXCEPT ![l] = b]
      BY <1>2, <2>2, <3>b DEF AddEventData, ReserveSpace, m
    <3> HIDE DEF b
    <3>1. bits'[l] = bits[l] \cup {b} /\ hint'[l] = b
      BY <3>e, <1>k
    <3>2. Active(l)' = Active(l) /\ WithoutData(l)' = WithoutData(l) \ {t}
      BY <2>c, <2>w, <2>2, <2>0 DEF Active, WithoutData, m
    <3>3. Cardinality(WithoutData(l)') = Cardinality(WithoutData(l)) - 1
      BY <3>2, <3>d, <1>r, FS_RemoveElement DEF Counts
    <3>4. Reports(l)' = Reports(l)
      BY <3>2, <2>0 DEF Reports, Active
    <3>5. \A u \in Context : context'[u].list = l =>
            /\ context'[u].pc = "insert" => context'[u].at < b
            /\ context'[u].pc = "data" => context'[u].at <= b
      <4> SUFFICES ASSUME NEW u \in Context, context'[u].list = l
                   PROVE  /\ context'[u].pc = "insert" => context'[u].at < b
                          /\ context'[u].pc = "data" => context'[u].at <= b
        OBVIOUS
      <4>1. CASE u = t
        BY <4>1, <2>c, <2>w, <3>a, <3>b, <1>k
      <4>2. CASE u # t
        <5>1. context'[u] = context[u] /\ (context[u].pc # "idle" => context[u].at \in Nat)
          BY <4>2, <2>c, SharedListAssumption DEF SharedTypes, ContextTypes, Block
        <5> QED BY <5>1, <1>r, <1>k, <3>b DEF RoomLeft
      <4> QED BY <4>1, <4>2
    <3>6. bits'[l] \subseteq 1 .. b
      <4>1. b >= 1
        BY <3>b, <1>k, SharedListAssumption DEF SharedTypes, BitTypes, Block
      <4> QED BY <4>1, <3>1, <3>b, <1>r, <1>k DEF RoomLeft
    <3>7. b <= 2 * Reports(l)' - Cardinality(WithoutData(l)')
      BY <3>b, <3>n, <3>3, <3>4, <1>r, <1>k DEF RoomLeft, Counts
    <3>8. tail[l] < b
      BY <3>b, <1>r, <1>k DEF RoomLeft
    <3> QED BY <3>1, <3>2, <3>4, <3>5, <3>6, <3>7, <3>8, <2>0, <1>r DEF RoomLeft
  <2> QED BY <2>1, <2>2
<1>3. ASSUME NEW t \in Context, InsertEvent(t) PROVE RoomLeft(l)'
  <2> DEFINE m == context[t].list  e == context[t].at
  <2>0. UNCHANGED <<bits, hint>> /\ context[t].pc = "insert" /\ context' = [context EXCEPT ![t] = Idle]
        /\ tail' = [tail EXCEPT ![m] = e] /\ inserted' = [inserted EXCEPT ![m] = Append(inserted[m], Len(inserted[m]) + 1)]
    BY <1>3 DEF InsertEvent
  <2>c. \A u \in Context : context'[u] = IF u = t THEN Idle ELSE context[u]
    BY <2>0, <1>k DEF ContextStates
  <2>w. Idle.pc = "idle"
    BY DEF Idle
  <2> HIDE DEF m, e
  <2>u. \A u \in Context : u # t => context'[u] = context[u]
    BY <2>c
  <2>v. context'[t].pc = "idle"
    BY <2>c, <2>w
  <2>1. CASE m # l
    <3>1. tail'[l] = tail[l] /\ inserted'[l] = inserted[l]
      BY <2>0, <2>1
    <3> QED BY <3>1, <2>u, <2>v, <2>0, <2>1, <1>r, RoomElsewhere DEF m
  <2>2. CASE m = l
    <3>1. tail'[l] = e /\ inserted'[l] = Append(inserted[l], Len(inserted[l]) + 1)
      BY <2>0, <2>2, <1>k
    <3>2. Total(l)' = Total(l) + 1
      BY <3>1 DEF Total, SharedTypes, HistoryTypes
    <3>3. t \in Active(l) /\ Active(l)' = Active(l) \ {t} /\ WithoutData(l)' = WithoutData(l)
      BY <2>0, <2>2, <2>u, <2>v DEF Active, WithoutData, m
    <3>4. IsFiniteSet(Active(l)') /\ Cardinality(Active(l)') = Cardinality(Active(l)) - 1
      BY <3>3, <1>r, FS_RemoveElement DEF RoomLeft
    <3>5. Reports(l)' = Reports(l)
      <4>1. Reports(l)' = Total(l)' + Cardinality(Active(l)')
        BY DEF Reports, Total, Active
      <4> QED BY <4>1, <3>2, <3>4, <1>r DEF Counts
    <3>6. e < hint[l]
      BY <2>0, <2>2, <1>r DEF RoomLeft, m, e
    <3>7. \A u \in Context : context'[u].list = l =>
            /\ context'[u].pc = "insert" => context'[u].at < hint[l]
            /\ context'[u].pc = "data" => context'[u].at <= hint[l]
      BY <2>u, <2>v, <1>r DEF RoomLeft
    <3> QED BY <3>1, <3>3, <3>4, <3>5, <3>6, <3>7, <2>0, <1>r DEF RoomLeft
  <2> QED BY <2>1, <2>2
<1>4. ASSUME NEW m \in List, GetSharedEventList(m) \/ WakeUp(m) PROVE RoomLeft(l)'
  <2>1. UNCHANGED <<bits, hint, tail, context, inserted>>
    BY <1>4 DEF GetSharedEventList, WakeUp
  <2> QED BY <2>1, <1>r, RoomElsewhere
<1>5. CASE ReadHead \/ ReadNext \/ StoreHead
  <2>1. UNCHANGED <<bits, hint, tail, context, inserted>>
    BY <1>5 DEF ReadHead, ReadNext, StoreHead, ReaderUnchanged
  <2> QED BY <2>1, <1>r, RoomElsewhere
<1>6. CASE ReadData
  <2>1. UNCHANGED <<hint, tail, context, inserted>>
        /\ bits' = [bits EXCEPT ![listReader.list] = bits[listReader.list] \ {block[listReader.list][listReader.at].data}]
    BY <1>6 DEF ReadData, ReaderUnchanged
  <2>2. bits'[l] \subseteq bits[l]
    BY <2>1, <1>k
  <2> QED BY <2>1, <2>2, <1>r, RoomElsewhere
<1>7. CASE ClearEvent
  <2>1. UNCHANGED <<hint, tail, context, inserted>>
        /\ bits' = [bits EXCEPT ![listReader.list] = bits[listReader.list] \ {listReader.at}]
    BY <1>7 DEF ClearEvent, ReaderUnchanged
  <2>2. bits'[l] \subseteq bits[l]
    BY <2>1, <1>k
  <2> QED BY <2>1, <2>2, <1>r, RoomElsewhere
<1>8. CASE UNCHANGED sharedVars
  BY <1>8, <1>r, RoomElsewhere DEF sharedVars
<1> QED BY <1>1, <1>2, <1>3, <1>4, <1>5, <1>6, <1>7, <1>8 DEF SharedNext

(* The same, with no condition on the behaviour, until the buffer has been *)
(* filled once: an event reserves two blocks at most (CreateEvent,         *)
(* AddEventData), so that ReserveSpace, which looks from its hint on, does *)
(* not come back to a block it gave out before.                            *)
THEOREM EventsAreReadInOrderWithRoom ==
  ASSUME 2 * MaxReports <= Blocks
  PROVE  SharedSpec => []EventsAreReadInOrder
<1> DEFINE Good == (\A l \in List : RoomLeft(l)) /\ (\A l \in List : IsInOrder(l))
<1>1. ASSUME SharedInit PROVE Good
  <2>1. ASSUME NEW l \in List PROVE RoomLeft(l)
    <3>1. /\ bits[l] = {} /\ tail[l] = 0 /\ hint[l] = 1 /\ Active(l) = {} /\ inserted[l] = <<>>
          /\ \A t \in Context : context[t].pc = "idle"
      BY <1>1 DEF SharedInit, NULL, Active, Idle
    <3>2. Reports(l) = 0 /\ IsFiniteSet(Active(l))
      <4>1. Reports(l) = Len(inserted[l]) + Cardinality(Active(l))
        BY DEF Reports, Active
      <4> QED BY <4>1, <3>1, FS_EmptySet
    <3> QED BY <3>1, <3>2, SharedListAssumption DEF RoomLeft
  <2>2. \A l \in List : IsInOrder(l)
    BY <1>1, SharedListsBegin
  <2> QED BY <2>1, <2>2
<1>2. ASSUME SharedTypes, SharedTypes', Good, [SharedNext]_sharedVars PROVE Good'
  <2>1. KeepsTail
    BY <1>2, RoomKeepsTail
  <2>2. [SharedNext /\ KeepsTail]_sharedVars
    BY <1>2, <2>1
  <2>3. \A l \in List : IsInOrder(l)'
    BY <1>2, <2>2, SharedListStaysInOrder
  <2>4. \A l \in List : RoomLeft(l)'
    BY <1>2, RoomIsLeft
  <2> QED BY <2>3, <2>4
<1>3. Good => EventsAreReadInOrder
  BY InOrderIsReadInOrder DEF EventsAreReadInOrder
<1> HIDE DEF Good
<1>4. SharedInit => Good
  BY <1>1
<1>5. SharedTypes /\ SharedTypes' /\ Good /\ [SharedNext]_sharedVars => Good'
  BY <1>2
<1> QED BY <1>3, <1>4, <1>5, SharedTypesHold, PTL DEF SharedSpec

-----------------------------------------------------------------------------
(* A bucket of the hash map.                                               *)

(* Numbers of 1 .. n that ascend are n at most.                            *)
LEMMA AscendingNumbers ==
  ASSUME NEW m \in Nat, NEW n \in Nat, NEW v, \A i \in 1 .. m : v[i] \in 1 .. n,
         \A i, j \in 1 .. m : i < j => v[i] < v[j]
  PROVE  m <= n
<1> DEFINE Low == {i \in 1 .. m : v[i] < i}
<1>1. Low = {}
  <2> SUFFICES ASSUME Low # {} PROVE FALSE
    OBVIOUS
  <2>1. PICK i \in Low : \A j \in Low : i <= j
    <3>1. Low \subseteq Nat
      OBVIOUS
    <3> QED BY <3>1, LeastNumber
  <2>2. i \in 1 .. m /\ v[i] < i /\ v[i] \in 1 .. n
    OBVIOUS
  <2>3. i - 1 \in 1 .. m /\ i - 1 \notin Low
    BY <2>1, <2>2
  <2>4. v[i - 1] >= i - 1 /\ v[i - 1] < v[i] /\ v[i - 1] \in 1 .. n
    BY <2>2, <2>3
  <2> QED BY <2>2, <2>4
<1>2. CASE m = 0
  BY <1>2
<1>3. CASE m # 0
  <2>1. m \in 1 .. m /\ m \notin Low
    BY <1>1, <1>3
  <2> QED BY <2>1
<1> QED BY <1>2, <1>3

(* The walk, where the pairs from the head on end.                         *)
StepTo(P, p) == IF p = NoPair THEN NoPair ELSE P[p].next
StepsFrom(h, P) == CHOOSE r : r = [n \in 0 .. MaxInserts |-> IF n = 0 THEN h ELSE StepTo(P, r[n - 1])]
WalkOf(h, P) == [i \in {n \in 1 .. MaxInserts + 1 : StepsFrom(h, P)[n - 1] # NoPair} |-> StepsFrom(h, P)[i - 1]]

LEMMA WalkIsWalkOf == Walk = WalkOf(entry.head, pair) /\ Walk' = WalkOf(entry'.head, pair')
BY DEF Walk, WalkOf, Reached, StepsFrom, StepTo, NextOf

\* w[1], ..., w[m] are the pairs of the bucket, linked in this order.
EndOf(w, m) == IF m = 0 THEN NoPair ELSE w[m]
Listed(w, m) == {w[i] : i \in 1 .. m}

ChainOf(h, P, w, m) ==
  /\ \A i, j \in 1 .. m : w[i] = w[j] => i = j
  /\ h = IF m = 0 THEN NoPair ELSE w[1]
  /\ \A i \in 1 .. m : P[w[i]].next = IF i = m THEN NoPair ELSE w[i + 1]
  /\ \A i, j \in 1 .. m : i < j => P[w[i]].value < P[w[j]].value

(* Where the pairs are linked, the walk through the bucket meets them all. *)
LEMMA WalkFollowsChain ==
  ASSUME NEW m \in 0 .. MaxInserts, NEW w \in [1 .. m -> Pair], NEW h, NEW P, ChainOf(h, P, w, m)
  PROVE  WalkOf(h, P) = w
<1> DEFINE S == 0 .. MaxInserts
           R == StepsFrom(h, P)
           q == [n \in S |-> IF n < m THEN w[n + 1] ELSE NoPair]
<1>0. MaxInserts \in Nat /\ m \in Nat /\ m <= MaxInserts /\ NoPair \notin Pair
  BY MapAssumption
<1>1. q = [n \in S |-> IF n = 0 THEN h ELSE StepTo(P, q[n - 1])]
  <2>1. ASSUME NEW n \in S
        PROVE  q[n] = IF n = 0 THEN h ELSE StepTo(P, q[n - 1])
    <3>1. CASE n = 0
      BY <3>1, <1>0 DEF ChainOf
    <3>2. CASE n # 0 /\ n - 1 < m
      <4>1. n - 1 \in S /\ q[n - 1] = w[n] /\ n \in 1 .. m /\ w[n] \in Pair
        BY <3>2, <1>0
      <4>2. StepTo(P, w[n]) = IF n = m THEN NoPair ELSE w[n + 1]
        BY <4>1, <1>0 DEF StepTo, ChainOf
      <4>3. q[n] = IF n < m THEN w[n + 1] ELSE NoPair
        OBVIOUS
      <4> HIDE DEF q
      <4> QED BY <4>1, <4>2, <4>3, <3>2, <1>0
    <3>3. CASE n # 0 /\ ~(n - 1 < m)
      BY <3>3, <1>0 DEF StepTo
    <3> QED BY <3>1, <3>2, <3>3
  <2> QED BY <2>1
<1> HIDE DEF q
<1>2. R = [n \in S |-> IF n = 0 THEN h ELSE StepTo(P, R[n - 1])]
  BY <1>1 DEF StepsFrom
<1> HIDE DEF R
<1>3. \A n \in S : R[n] = q[n]
  <2> DEFINE Wrong == {n \in S : R[n] # q[n]}
  <2> SUFFICES ASSUME Wrong # {} PROVE FALSE
    OBVIOUS
  <2>1. PICK n \in Wrong : \A k \in Wrong : n <= k
    <3>1. Wrong \subseteq Nat
      BY <1>0
    <3> QED BY <3>1, LeastNumber
  <2>2. n \in S /\ R[n] # q[n]
    OBVIOUS
  <2>3. n # 0
    BY <1>1, <1>2, <2>2
  <2>4. n - 1 \in S /\ n - 1 \notin Wrong
    BY <2>1, <2>2, <2>3, <1>0
  <2>5. R[n - 1] = q[n - 1]
    BY <2>4
  <2> QED BY <1>1, <1>2, <2>2, <2>3, <2>5
<1>4. ASSUME NEW n \in 1 .. MaxInserts + 1
      PROVE  R[n - 1] = IF n <= m THEN w[n] ELSE NoPair
  <2>1. n - 1 \in S
    BY <1>0
  <2> QED BY <2>1, <1>3, <1>0 DEF q
<1>5. {n \in 1 .. MaxInserts + 1 : R[n - 1] # NoPair} = 1 .. m
  BY <1>0, <1>4
<1>6. WalkOf(h, P) = [i \in 1 .. m |-> R[i - 1]]
  BY <1>5 DEF WalkOf, R
<1>7. \A i \in 1 .. m : R[i - 1] = w[i]
  BY <1>0, <1>4
<1> QED BY <1>6, <1>7

BackOf(P, w, m) == \A i \in 1 .. m : P[w[i]].prev = IF i = 1 THEN NoPair ELSE w[i - 1]
ReadyOf(t, P, w, m) == BackOf(P, w, m) /\ t = EndOf(w, m)

\* A pair c that is not in the list yet, and can be linked behind its end.
NewOf(t, P, c, w, m) ==
  /\ ReadyOf(t, P, w, m) /\ c \notin Listed(w, m) /\ P[c].next = NoPair /\ P[c].prev = t
  /\ \A i \in 1 .. m : P[w[i]].value < P[c].value

FirstOf(P, w, j) == \A i \in 1 .. j - 1 : P[w[i]].key # P[w[j]].key

\* A pair c that is out of the list, while the tail may still be there.
GoneOf(t, P, c, w, m) ==
  /\ c \notin Listed(w, m) /\ BackOf(P, w, m)
  /\ (t = c /\ P[c].prev = EndOf(w, m)) \/ t = EndOf(w, m)

ChangingOf(t, P, pc, c, w, m) ==
  /\ pc = "idle" => ReadyOf(t, P, w, m)
  /\ pc = "head" => NewOf(t, P, c, w, m)
  /\ pc = "link" => \/ t = NoPair /\ m = 1 /\ w[1] = c /\ BackOf(P, w, m)
                    \/ t # NoPair /\ m # 0 /\ NewOf(t, P, c, w, m)
  /\ pc = "tail" => m # 0 /\ w[m] = c /\ BackOf(P, w, m)
  /\ pc = "before" => ReadyOf(t, P, w, m) /\ \E j \in 1 .. m : w[j] = c /\ FirstOf(P, w, j)
  /\ pc = "after" =>
       /\ t = EndOf(w, m)
       /\ \E j \in 1 .. m :
            /\ w[j] = c /\ FirstOf(P, w, j)
            /\ \A i \in 1 .. m : P[w[i]].prev = IF i = 1 \/ (j = 1 /\ i = 2) THEN NoPair
                                                ELSE IF i = j + 1 THEN w[j - 1] ELSE w[i - 1]
  /\ pc = "unhead" =>
       \/ /\ m # 0 /\ w[1] = c /\ t = EndOf(w, m)
          /\ \A i \in 1 .. m : P[w[i]].prev = IF i <= 2 THEN NoPair ELSE w[i - 1]
       \/ GoneOf(t, P, c, w, m)
  /\ pc = "untail" => GoneOf(t, P, c, w, m)
  /\ pc = "free" => c \notin Listed(w, m) /\ ReadyOf(t, P, w, m)

\* From p on there is a pair of the key.
AheadOf(P, p, k, w, m) == \E i \in 1 .. m : P[w[i]].key = k /\ \E h \in 1 .. i : p = w[h]

\* Where a find is that is sure to get its pair.
SureOf(me, P, pc, c, w, m) ==
  /\ pc \in {"before", "after", "unhead"} => P[c].key # me.key
  /\ \/ AheadOf(P, me.at, me.key, w, m)
     \/ /\ pc \in {"unhead", "untail", "free"} /\ me.at = c /\ c \notin Listed(w, m)
        /\ AheadOf(P, P[c].next, me.key, w, m)

\* The list without its pair j.
CutOut(w, m, j) == [i \in 1 .. m - 1 |-> IF i < j THEN w[i] ELSE w[i + 1]]

LEMMA CutOutIs ==
  ASSUME NEW m \in Nat, NEW w \in [1 .. m -> Pair], NEW j \in 1 .. m, \A i, k \in 1 .. m : w[i] = w[k] => i = k
  PROVE  /\ m - 1 \in Nat /\ CutOut(w, m, j) \in [1 .. m - 1 -> Pair]
         /\ \A i \in 1 .. m - 1 : CutOut(w, m, j)[i] = IF i < j THEN w[i] ELSE w[i + 1]
         /\ Listed(CutOut(w, m, j), m - 1) = Listed(w, m) \ {w[j]}
<1> DEFINE q == CutOut(w, m, j)
<1>1. m - 1 \in Nat /\ q \in [1 .. m - 1 -> Pair]
      /\ \A i \in 1 .. m - 1 : q[i] = IF i < j THEN w[i] ELSE w[i + 1]
  BY DEF CutOut
<1> HIDE DEF q
<1>2. \A i \in 1 .. m - 1 : q[i] \in Listed(w, m) /\ q[i] # w[j]
  BY <1>1 DEF Listed
<1>3. ASSUME NEW i \in 1 .. m, i # j
      PROVE  w[i] \in Listed(q, m - 1)
  <2>1. CASE i < j
    <3>1. i \in 1 .. m - 1 /\ q[i] = w[i]
      BY <1>1, <2>1
    <3> QED BY <3>1 DEF Listed
  <2>2. CASE i > j
    <3>1. i - 1 \in 1 .. m - 1 /\ q[i - 1] = w[i]
      BY <1>1, <2>2
    <3> QED BY <3>1 DEF Listed
  <2> QED BY <1>3, <2>1, <2>2
<1>4. Listed(q, m - 1) = Listed(w, m) \ {w[j]}
  BY <1>2, <1>3 DEF Listed
<1> QED BY <1>1, <1>4 DEF q

CutFrom(q, w, m, j) ==
  m - 1 \in Nat /\ q \in [1 .. m - 1 -> Pair] /\ Listed(q, m - 1) = Listed(w, m) \ {w[j]}

LEMMA CutOutIsCut ==
  ASSUME NEW m \in Nat, NEW w \in [1 .. m -> Pair], NEW j \in 1 .. m, \A i, k \in 1 .. m : w[i] = w[k] => i = k
  PROVE  CutFrom(CutOut(w, m, j), w, m, j)
BY CutOutIs DEF CutFrom

(* The previous pair, or the head, is set to what comes next.              *)
LEMMA CutOutIsChain ==
  ASSUME NEW m \in Nat, NEW w \in [1 .. m -> Pair], NEW j \in 1 .. m, NEW h, NEW P, ChainOf(h, P, w, m),
         NEW h2, h2 = IF j = 1 THEN P[w[j]].next ELSE h, NEW P2,
         \A i \in 1 .. m : P2[w[i]].value = P[w[i]].value,
         \A i \in 1 .. m : P2[w[i]].next = IF i = j - 1 THEN P[w[j]].next ELSE P[w[i]].next
  PROVE  ChainOf(h2, P2, CutOut(w, m, j), m - 1)
<1> DEFINE q == CutOut(w, m, j)
<1>i. \A a, b \in 1 .. m : w[a] = w[b] => a = b
  BY DEF ChainOf
<1>0. m - 1 \in Nat /\ \A i \in 1 .. m - 1 : q[i] = IF i < j THEN w[i] ELSE w[i + 1]
  BY <1>i, CutOutIs
<1>c. /\ \A i, k \in 1 .. m : w[i] = w[k] => i = k
      /\ h = IF m = 0 THEN NoPair ELSE w[1]
      /\ \A i \in 1 .. m : P[w[i]].next = IF i = m THEN NoPair ELSE w[i + 1]
      /\ \A i, k \in 1 .. m : i < k => P[w[i]].value < P[w[k]].value
  BY DEF ChainOf
<1> HIDE DEF q
<1>m. \A i \in 1 .. m - 1 : i \in 1 .. m /\ i + 1 \in 1 .. m
  OBVIOUS
<1>1. \A i, k \in 1 .. m - 1 : q[i] = q[k] => i = k
  BY <1>0, <1>c, <1>m
<1>2. h2 = IF m - 1 = 0 THEN NoPair ELSE q[1]
  <2>1. CASE j = 1
    BY <2>1, <1>0, <1>c
  <2>2. CASE j # 1
    BY <2>2, <1>0, <1>c
  <2> QED BY <2>1, <2>2
<1>3. ASSUME NEW i \in 1 .. m - 1
      PROVE  P2[q[i]].next = IF i = m - 1 THEN NoPair ELSE q[i + 1]
  <2>1. CASE i < j - 1
    <3>1. i \in 1 .. m /\ q[i] = w[i] /\ i # m /\ i # m - 1 /\ i + 1 \in 1 .. m - 1 /\ q[i + 1] = w[i + 1]
      BY <2>1, <1>0
    <3>2. P2[w[i]].next = P[w[i]].next
      BY <3>1, <2>1
    <3> QED BY <3>1, <3>2, <1>c
  <2>2. CASE i = j - 1
    <3>1. i \in 1 .. m /\ q[i] = w[i] /\ P2[w[i]].next = P[w[j]].next /\ (i = m - 1 <=> j = m)
      BY <2>2, <1>0
    <3>2. i # m - 1 => i + 1 \in 1 .. m - 1 /\ q[i + 1] = w[j + 1]
      BY <2>2, <1>0
    <3> QED BY <3>1, <3>2, <1>c
  <2>3. CASE i >= j
    <3>1. i + 1 \in 1 .. m /\ q[i] = w[i + 1] /\ i + 1 # j - 1 /\ (i + 1 = m <=> i = m - 1)
      BY <2>3, <1>0
    <3>2. P2[w[i + 1]].next = P[w[i + 1]].next
      BY <3>1
    <3>3. i # m - 1 => i + 1 \in 1 .. m - 1 /\ q[i + 1] = w[i + 1 + 1]
      BY <2>3, <1>0
    <3> QED BY <3>1, <3>2, <3>3, <1>c
  <2> QED BY <2>1, <2>2, <2>3
<1>4. ASSUME NEW i \in 1 .. m - 1, NEW k \in 1 .. m - 1, i < k
      PROVE  P2[q[i]].value < P2[q[k]].value
  <2> DEFINE a == IF i < j THEN i ELSE i + 1  b == IF k < j THEN k ELSE k + 1
  <2>0. q[i] = w[a] /\ q[k] = w[b]
    BY <1>0
  <2>2. a \in 1 .. m /\ b \in 1 .. m /\ a < b
    BY <1>4
  <2>1. a \in 1 .. m /\ b \in 1 .. m /\ a < b /\ q[i] = w[a] /\ q[k] = w[b]
    BY <2>0, <2>2
  <2> HIDE DEF a, b
  <2> QED BY <2>1, <1>c
<1> QED BY <1>1, <1>2, <1>3, <1>4 DEF ChainOf, q

(* A pair of another key that is ahead of a find stays ahead of it.        *)
LEMMA CutOutKeepsAhead ==
  ASSUME NEW m \in Nat, NEW w \in [1 .. m -> Pair], NEW j \in 1 .. m, NEW h, NEW P, ChainOf(h, P, w, m),
         NEW P2, \A i \in 1 .. m : P2[w[i]].key = P[w[i]].key,
         NEW p, NEW k, P[w[j]].key # k, AheadOf(P, p, k, w, m)
  PROVE  AheadOf(P2, IF p = w[j] THEN P[w[j]].next ELSE p, k, CutOut(w, m, j), m - 1)
<1> DEFINE q == CutOut(w, m, j)  p2 == IF p = w[j] THEN P[w[j]].next ELSE p
<1>i. \A a, b \in 1 .. m : w[a] = w[b] => a = b
  BY DEF ChainOf
<1>0. m - 1 \in Nat /\ \A i \in 1 .. m - 1 : q[i] = IF i < j THEN w[i] ELSE w[i + 1]
  BY <1>i, CutOutIs
<1>p. PICK i \in 1 .. m : P[w[i]].key = k /\ \E g \in 1 .. i : p = w[g]
  BY DEF AheadOf
<1>1. PICK g \in 1 .. i : P[w[i]].key = k /\ p = w[g]
  BY <1>p
<1>2. i # j /\ g \in 1 .. m
  BY <1>1
<1>c. /\ \A a, b \in 1 .. m : w[a] = w[b] => a = b
      /\ \A a \in 1 .. m : P[w[a]].next = IF a = m THEN NoPair ELSE w[a + 1]
  BY DEF ChainOf
<1> DEFINE i2 == IF i < j THEN i ELSE i - 1  g2 == IF g <= j THEN g ELSE g - 1
<1> HIDE DEF q, p2
<1>3. i2 \in 1 .. m - 1 /\ q[i2] = w[i]
  BY <1>0, <1>1, <1>2
<1>4. g2 \in 1 .. i2
  BY <1>1, <1>2
<1>5. p2 = q[g2]
  <2>1. CASE g = j
    <3>1. p2 = P[w[j]].next /\ j # m /\ g2 = j /\ j \in 1 .. m - 1
      BY <2>1, <1>1, <1>2 DEF p2
    <3> QED BY <3>1, <1>0, <1>c
  <2>2. CASE g # j
    <3>1. p2 = w[g]
      BY <2>2, <1>1, <1>2, <1>c DEF p2
    <3>2. g2 \in 1 .. m - 1 /\ q[g2] = w[g]
      BY <2>2, <1>0, <1>1, <1>2
    <3> QED BY <3>1, <3>2
  <2> QED BY <2>1, <2>2
<1>6. P2[q[i2]].key = k
  BY <1>1, <1>3
<1> HIDE DEF i2, g2
<1> QED BY <1>3, <1>4, <1>5, <1>6 DEF AheadOf, q, p2

LEMMA NoPairIsNone == \A p \in Pair : p # NoPair
BY MapAssumption

LEMMA SamePairs ==
  ASSUME NEW m \in Nat, NEW w \in [1 .. m -> Pair], NEW P, NEW P2, \A i \in 1 .. m : P2[w[i]] = P[w[i]]
  PROVE  /\ \A h : ChainOf(h, P, w, m) => ChainOf(h, P2, w, m)
         /\ BackOf(P, w, m) => BackOf(P2, w, m)
         /\ \A p, k : AheadOf(P, p, k, w, m) => AheadOf(P2, p, k, w, m)
<1>1. \A h : ChainOf(h, P, w, m) => ChainOf(h, P2, w, m)
  BY DEF ChainOf
<1>2. BackOf(P, w, m) => BackOf(P2, w, m)
  BY DEF BackOf
<1>3. \A p, k : AheadOf(P, p, k, w, m) => AheadOf(P2, p, k, w, m)
  BY DEF AheadOf
<1> QED BY <1>1, <1>2, <1>3

(* InsertHashMap: a pair is filled in.                                     *)
LEMMA InsertBegins ==
  ASSUME NEW m \in Nat, NEW w \in [1 .. m -> Pair], NEW h, NEW t, NEW P, ChainOf(h, P, w, m), ReadyOf(t, P, w, m),
         NEW c, c \notin Listed(w, m), NEW P2, \A q \in Pair : q # c => P2[q] = P[q],
         P2[c].next = NoPair, P2[c].prev = t, \A i \in 1 .. m : P[w[i]].value < P2[c].value
  PROVE  /\ ChainOf(h, P2, w, m) /\ NewOf(t, P2, c, w, m)
         /\ \A p, k : AheadOf(P, p, k, w, m) => AheadOf(P2, p, k, w, m)
<1>1. \A i \in 1 .. m : P2[w[i]] = P[w[i]]
  BY DEF Listed
<1>2. /\ ChainOf(h, P2, w, m) /\ BackOf(P2, w, m)
      /\ \A p, k : AheadOf(P, p, k, w, m) => AheadOf(P2, p, k, w, m)
  BY <1>1, SamePairs, Zenon DEF ReadyOf
<1> QED BY <1>1, <1>2 DEF NewOf, ReadyOf

(* It becomes the head of an empty list.                                   *)
LEMMA HeadIsSet ==
  ASSUME NEW w, NEW t, NEW P, NEW c \in Pair, NewOf(t, P, c, w, 0), NEW w2, w2 = [i \in 1 .. 1 |-> c]
  PROVE  ChainOf(c, P, w2, 1) /\ t = NoPair /\ w2[1] = c /\ BackOf(P, w2, 1) /\ Listed(w2, 1) = {c}
<1>1. t = NoPair /\ P[c].next = NoPair /\ P[c].prev = NoPair /\ w2[1] = c /\ \A i \in 1 .. 1 : i = 1
  BY DEF NewOf, ReadyOf, EndOf
<1>2. ChainOf(c, P, w2, 1)
  BY <1>1 DEF ChainOf
<1>3. BackOf(P, w2, 1) /\ Listed(w2, 1) = {c}
  BY <1>1 DEF BackOf, Listed
<1> QED BY <1>1, <1>2, <1>3

(* The list with one more pair.                                            *)
Longer(w, m, c) == [i \in 1 .. m + 1 |-> IF i = m + 1 THEN c ELSE w[i]]

LongerBy(q, w, m, c) ==
  /\ q \in [1 .. m + 1 -> Pair] /\ q[m + 1] = c
  /\ \A i \in 1 .. m : q[i] = w[i] /\ i \in 1 .. m + 1
  /\ \A i \in 1 .. m + 1 : i = m + 1 \/ i \in 1 .. m
  /\ Listed(q, m + 1) = Listed(w, m) \cup {c}

LEMMA LongerIs ==
  ASSUME NEW m \in Nat, NEW w \in [1 .. m -> Pair], NEW c \in Pair
  PROVE  LongerBy(Longer(w, m, c), w, m, c)
<1> DEFINE q == Longer(w, m, c)
<1>1. /\ q \in [1 .. m + 1 -> Pair] /\ q[m + 1] = c
      /\ \A i \in 1 .. m : q[i] = w[i] /\ i \in 1 .. m + 1
      /\ \A i \in 1 .. m + 1 : i = m + 1 \/ i \in 1 .. m
      /\ m + 1 \in 1 .. m + 1
  BY DEF Longer
<1> HIDE DEF q
<1>2. Listed(q, m + 1) = Listed(w, m) \cup {c}
  BY <1>1 DEF Listed
<1> QED BY <1>1, <1>2 DEF q, LongerBy

NextSet(P, P2, e, n) ==
  /\ \A q \in Pair : P2[q].key = P[q].key /\ P2[q].value = P[q].value /\ P2[q].prev = P[q].prev
  /\ \A q \in Pair : P2[q].next = IF q = e THEN n ELSE P[q].next

(* It is linked behind the tail.                                           *)
LEMMA PairIsLinked ==
  ASSUME NEW m \in Nat, m # 0, NEW w \in [1 .. m -> Pair], NEW h, NEW t, NEW P, ChainOf(h, P, w, m),
         NEW c \in Pair, NewOf(t, P, c, w, m), NEW P2, NextSet(P, P2, t, c)
  PROVE  LET w2 == Longer(w, m, c) IN
         /\ ChainOf(h, P2, w2, m + 1) /\ BackOf(P2, w2, m + 1)
         /\ \A p, k : AheadOf(P, p, k, w, m) => AheadOf(P2, p, k, w2, m + 1)
<1> DEFINE w2 == Longer(w, m, c)
<1>l. LongerBy(w2, w, m, c)
  BY LongerIs
<1>w. /\ w2 \in [1 .. m + 1 -> Pair] /\ w2[m + 1] = c
      /\ \A i \in 1 .. m : w2[i] = w[i] /\ i \in 1 .. m + 1
      /\ \A i \in 1 .. m + 1 : i = m + 1 \/ i \in 1 .. m
  BY <1>l DEF LongerBy
<1>p. /\ \A q \in Pair : P2[q].key = P[q].key /\ P2[q].value = P[q].value /\ P2[q].prev = P[q].prev
      /\ \A q \in Pair : P2[q].next = IF q = t THEN c ELSE P[q].next
  BY DEF NextSet
<1> HIDE DEF w2
<1>t. t = w[m] /\ m \in 1 .. m /\ 1 \in 1 .. m /\ c # t /\ \A i \in 1 .. m : c # w[i]
  BY DEF NewOf, ReadyOf, EndOf, Listed
<1>1. \A i, j \in 1 .. m + 1 : w2[i] = w2[j] => i = j
  BY <1>w, <1>p, <1>t DEF ChainOf
<1>2. h = IF m + 1 = 0 THEN NoPair ELSE w2[1]
  BY <1>w, <1>p, <1>t DEF ChainOf
<1>3. ASSUME NEW i \in 1 .. m + 1
      PROVE  P2[w2[i]].next = IF i = m + 1 THEN NoPair ELSE w2[i + 1]
  <2>1. CASE i = m + 1
    BY <2>1, <1>w, <1>p, <1>t DEF NewOf
  <2>2. CASE i = m
    BY <2>2, <1>w, <1>p, <1>t
  <2>3. CASE i \in 1 .. m /\ i # m
    <3>1. w[i] # t /\ P[w[i]].next = w[i + 1] /\ i + 1 \in 1 .. m
      BY <2>3, <1>t DEF ChainOf
    <3> QED BY <2>3, <3>1, <1>w, <1>p
  <2> QED BY <2>1, <2>2, <2>3, <1>w, <1>p
<1>4. ASSUME NEW i \in 1 .. m + 1, NEW j \in 1 .. m + 1, i < j
      PROVE  P2[w2[i]].value < P2[w2[j]].value
  <2>1. i \in 1 .. m
    BY <1>4
  <2>2. P2[w2[i]].value = P[w[i]].value
    BY <2>1, <1>w, <1>p
  <2>3. CASE j = m + 1
    BY <2>1, <2>2, <2>3, <1>w, <1>p DEF NewOf
  <2>4. CASE j \in 1 .. m
    BY <2>1, <2>2, <2>4, <1>4, <1>w, <1>p DEF ChainOf
  <2> QED BY <2>3, <2>4, <1>w, <1>p
<1>5. ChainOf(h, P2, w2, m + 1)
  BY <1>1, <1>2, <1>3, <1>4 DEF ChainOf
<1>6. ASSUME NEW i \in 1 .. m + 1
      PROVE  P2[w2[i]].prev = IF i = 1 THEN NoPair ELSE w2[i - 1]
  <2>1. CASE i = m + 1
    BY <2>1, <1>w, <1>p, <1>t DEF NewOf
  <2>2. CASE i \in 1 .. m
    <3>1. P[w[i]].prev = IF i = 1 THEN NoPair ELSE w[i - 1]
      BY <2>2 DEF NewOf, ReadyOf, BackOf
    <3>2. i # 1 => i - 1 \in 1 .. m
      BY <2>2
    <3> QED BY <2>2, <3>1, <3>2, <1>w, <1>p
  <2> QED BY <2>1, <2>2, <1>w, <1>p
<1>7. BackOf(P2, w2, m + 1)
  BY <1>6 DEF BackOf
<1>8. ASSUME NEW p, NEW k, AheadOf(P, p, k, w, m) PROVE AheadOf(P2, p, k, w2, m + 1)
  <2>1. PICK i \in 1 .. m : P[w[i]].key = k /\ \E g \in 1 .. i : p = w[g]
    BY <1>8 DEF AheadOf
  <2>2. PICK g \in 1 .. i : p = w[g]
    BY <2>1
  <2>3. i \in 1 .. m + 1 /\ P2[w2[i]].key = k /\ p = w2[g]
    BY <2>1, <2>2, <1>w, <1>p
  <2> QED BY <2>3 DEF AheadOf
<1> QED BY <1>5, <1>7, <1>8 DEF w2

LEMMA KeysKeepFirst ==
  ASSUME NEW m \in Nat, NEW w \in [1 .. m -> Pair], NEW P, NEW P2, \A q \in Pair : P2[q].key = P[q].key
  PROVE  /\ \A j \in 1 .. m : FirstOf(P, w, j) => FirstOf(P2, w, j)
         /\ \A p, k : AheadOf(P, p, k, w, m) => AheadOf(P2, p, k, w, m)
<1>1. \A i \in 1 .. m : w[i] \in Pair
  OBVIOUS
<1>2. ASSUME NEW j \in 1 .. m, FirstOf(P, w, j) PROVE FirstOf(P2, w, j)
  <2>1. \A i \in 1 .. j - 1 : i \in 1 .. m
    OBVIOUS
  <2> QED BY <1>1, <1>2, <2>1 DEF FirstOf
<1>3. \A p, k : AheadOf(P, p, k, w, m) => AheadOf(P2, p, k, w, m)
  BY <1>1 DEF AheadOf
<1> QED BY <1>2, <1>3

\* The previous pairs once the pair behind pair j points past it.
PastOf(P, w, m, j) ==
  \A i \in 1 .. m : P[w[i]].prev = IF i = 1 \/ (j = 1 /\ i = 2) THEN NoPair
                                   ELSE IF i = j + 1 THEN w[j - 1] ELSE w[i - 1]

(* RemoveHashMap: the next pair is made to point past the removed one.     *)
LEMMA NextIsUnlinked ==
  ASSUME NEW m \in Nat, NEW w \in [1 .. m -> Pair], NEW h, NEW P, ChainOf(h, P, w, m), BackOf(P, w, m),
         NEW j \in 1 .. m, NEW P2,
         \A q \in Pair : P2[q].key = P[q].key /\ P2[q].value = P[q].value /\ P2[q].next = P[q].next,
         \A q \in Pair : P2[q].prev = IF q = P[w[j]].next THEN P[w[j]].prev ELSE P[q].prev
  PROVE  ChainOf(h, P2, w, m) /\ PastOf(P2, w, m, j)
<1>0. \A i \in 1 .. m : w[i] \in Pair
  OBVIOUS
<1>1. ChainOf(h, P2, w, m)
  BY <1>0 DEF ChainOf
<1>n. P[w[j]].next = (IF j = m THEN NoPair ELSE w[j + 1]) /\ P[w[j]].prev = (IF j = 1 THEN NoPair ELSE w[j - 1])
  BY DEF ChainOf, BackOf
<1>2. ASSUME NEW i \in 1 .. m
      PROVE  P2[w[i]].prev = IF i = 1 \/ (j = 1 /\ i = 2) THEN NoPair
                             ELSE IF i = j + 1 THEN w[j - 1] ELSE w[i - 1]
  <2>1. CASE i = j + 1
    <3>1. j # m /\ w[i] = P[w[j]].next
      BY <2>1, <1>n
    <3>2. P2[w[i]].prev = P[w[j]].prev
      BY <3>1, <1>0
    <3> QED BY <3>2, <2>1, <1>n
  <2>2. CASE i # j + 1
    <3>1. w[i] # P[w[j]].next
      <4>1. CASE j = m
        BY <4>1, <1>n, <1>0, NoPairIsNone
      <4>2. CASE j # m
        <5>1. j + 1 \in 1 .. m
          BY <4>2
        <5> QED BY <5>1, <4>2, <2>2, <1>n DEF ChainOf
      <4> QED BY <4>1, <4>2
    <3>2. P2[w[i]].prev = IF i = 1 THEN NoPair ELSE w[i - 1]
      BY <3>1, <1>0 DEF BackOf
    <3> QED BY <3>2, <2>2
  <2> QED BY <2>1, <2>2
<1> QED BY <1>1, <1>2 DEF PastOf

OutOf(h, P, P2, w, m, j) ==
  /\ ChainOf(h, P2, CutOut(w, m, j), m - 1) /\ GoneOf(EndOf(w, m), P2, w[j], CutOut(w, m, j), m - 1)
  /\ P2[w[j]].next = P[w[j]].next

(* The previous pair is made to point past it: it is out of the list.      *)
LEMMA PreviousIsUnlinked ==
  ASSUME NEW m \in Nat, NEW w \in [1 .. m -> Pair], NEW h, NEW P, ChainOf(h, P, w, m),
         NEW j \in 1 .. m, j # 1, PastOf(P, w, m, j),
         NEW P2, NextSet(P, P2, w[j - 1], P[w[j]].next)
  PROVE  OutOf(h, P, P2, w, m, j)
<1> DEFINE q == CutOut(w, m, j)
<1>i. \A a, b \in 1 .. m : w[a] = w[b] => a = b
  BY DEF ChainOf
<1>j. j - 1 \in 1 .. m /\ \A i \in 1 .. m : w[i] \in Pair
  OBVIOUS
<1>0. /\ m - 1 \in Nat /\ \A i \in 1 .. m - 1 : q[i] = IF i < j THEN w[i] ELSE w[i + 1]
      /\ Listed(q, m - 1) = Listed(w, m) \ {w[j]}
  BY <1>i, CutOutIs
<1>1. ChainOf(h, P2, q, m - 1)
  <2>1. \A i \in 1 .. m : P2[w[i]].next = IF i = j - 1 THEN P[w[j]].next ELSE P[w[i]].next
    BY <1>i, <1>j DEF NextSet
  <2>2. \A i \in 1 .. m : P2[w[i]].value = P[w[i]].value
    BY <1>j DEF NextSet
  <2>3. h = IF j = 1 THEN P[w[j]].next ELSE h
    OBVIOUS
  <2> QED BY <2>1, <2>2, <2>3, CutOutIsChain
<1> HIDE DEF q
<1>2. ASSUME NEW i \in 1 .. m - 1
      PROVE  P2[q[i]].prev = IF i = 1 THEN NoPair ELSE q[i - 1]
  <2>1. CASE i < j
    <3>1. i \in 1 .. m /\ q[i] = w[i] /\ (i # 1 => i - 1 \in 1 .. m - 1 /\ q[i - 1] = w[i - 1])
      BY <2>1, <1>0
    <3>2. P2[w[i]].prev = IF i = 1 THEN NoPair ELSE w[i - 1]
      BY <3>1, <2>1, <1>j DEF PastOf, NextSet
    <3> QED BY <3>1, <3>2
  <2>2. CASE i = j
    <3>1. i + 1 \in 1 .. m /\ q[i] = w[i + 1] /\ i - 1 \in 1 .. m - 1 /\ q[i - 1] = w[j - 1]
      BY <2>2, <1>0
    <3>2. P2[w[i + 1]].prev = w[j - 1]
      BY <3>1, <2>2, <1>j DEF PastOf, NextSet
    <3> QED BY <3>1, <3>2, <2>2
  <2>3. CASE i > j
    <3>1. i + 1 \in 1 .. m /\ q[i] = w[i + 1] /\ i - 1 \in 1 .. m - 1 /\ q[i - 1] = w[i]
      BY <2>3, <1>0
    <3>2. P2[w[i + 1]].prev = w[i]
      BY <3>1, <2>3, <1>j DEF PastOf, NextSet
    <3> QED BY <3>1, <3>2, <2>3
  <2> QED BY <2>1, <2>2, <2>3
<1>3. BackOf(P2, q, m - 1) /\ w[j] \notin Listed(q, m - 1)
  BY <1>2, <1>0 DEF BackOf
<1>4. CASE j = m
  <2>1. EndOf(w, m) = w[j] /\ m # 1 /\ EndOf(q, m - 1) = q[m - 1] /\ m - 1 \in 1 .. m - 1
    BY <1>4 DEF EndOf
  <2>2. q[m - 1] = w[j - 1] /\ P2[w[j]].prev = w[j - 1]
    BY <2>1, <1>4, <1>0, <1>j DEF PastOf, NextSet
  <2>3. GoneOf(EndOf(w, m), P2, w[j], q, m - 1)
    BY <2>1, <2>2, <1>3 DEF GoneOf
  <2> QED BY <2>3, <1>1, <1>i, <1>j DEF q, NextSet, OutOf
<1>5. CASE j # m
  <2>1. EndOf(w, m) = w[m] /\ EndOf(q, m - 1) = q[m - 1] /\ m - 1 \in 1 .. m - 1
    BY <1>5 DEF EndOf
  <2>2. q[m - 1] = w[m]
    BY <2>1, <1>5, <1>0
  <2>3. GoneOf(EndOf(w, m), P2, w[j], q, m - 1)
    BY <2>1, <2>2, <1>3 DEF GoneOf
  <2> QED BY <2>3, <1>1, <1>i, <1>j DEF q, NextSet, OutOf
<1> QED BY <1>4, <1>5

(* It was the head, which is made to point past it.                        *)
LEMMA HeadIsUnlinked ==
  ASSUME NEW m \in Nat, m # 0, NEW w \in [1 .. m -> Pair], NEW h, NEW P, ChainOf(h, P, w, m),
         \A i \in 1 .. m : P[w[i]].prev = IF i <= 2 THEN NoPair ELSE w[i - 1]
  PROVE  LET q == CutOut(w, m, 1) IN
         ChainOf(P[w[1]].next, P, q, m - 1) /\ GoneOf(EndOf(w, m), P, w[1], q, m - 1)
<1> DEFINE q == CutOut(w, m, 1)
<1>i. \A a, b \in 1 .. m : w[a] = w[b] => a = b
  BY DEF ChainOf
<1>j. 1 \in 1 .. m
  OBVIOUS
<1>0. /\ m - 1 \in Nat /\ \A i \in 1 .. m - 1 : q[i] = IF i < 1 THEN w[i] ELSE w[i + 1]
      /\ Listed(q, m - 1) = Listed(w, m) \ {w[1]}
  BY <1>i, <1>j, CutOutIs
<1>1. ChainOf(P[w[1]].next, P, q, m - 1)
  <2>1. \A i \in 1 .. m : P[w[i]].next = IF i = 1 - 1 THEN P[w[1]].next ELSE P[w[i]].next
    OBVIOUS
  <2> QED BY <2>1, <1>j, CutOutIsChain
<1> HIDE DEF q
<1>2. ASSUME NEW i \in 1 .. m - 1
      PROVE  P[q[i]].prev = IF i = 1 THEN NoPair ELSE q[i - 1]
  <2>1. i + 1 \in 1 .. m /\ q[i] = w[i + 1] /\ (i # 1 => i - 1 \in 1 .. m - 1 /\ q[i - 1] = w[i])
    BY <1>0
  <2> QED BY <2>1
<1>3. BackOf(P, q, m - 1) /\ w[1] \notin Listed(q, m - 1)
  BY <1>2, <1>0 DEF BackOf
<1>4. CASE m = 1
  <2>1. EndOf(w, m) = w[1] /\ EndOf(q, m - 1) = NoPair /\ P[w[1]].prev = NoPair
    BY <1>4, <1>j DEF EndOf
  <2> QED BY <2>1, <1>1, <1>3 DEF GoneOf, q
<1>5. CASE m # 1
  <2>1. EndOf(w, m) = w[m] /\ EndOf(q, m - 1) = q[m - 1] /\ m - 1 \in 1 .. m - 1
    BY <1>5 DEF EndOf
  <2>2. q[m - 1] = w[m]
    BY <2>1, <1>0
  <2> QED BY <2>1, <2>2, <1>1, <1>3 DEF GoneOf, q
<1> QED BY <1>4, <1>5

\* What a walk gets to see.
Seen(p) == [key |-> p.key, value |-> p.value]
ContentOf(P, w, m) == [i \in 1 .. m |-> Seen(P[w[i]])]
Entries == [key : Key, value : 1 .. MaxInserts]

ListStep(a, b) ==
  \/ b = a
  \/ Len(b) = Len(a) + 1 /\ \E k \in Key, v \in 1 .. MaxInserts : b = Append(a, [key |-> k, value |-> v])
  \/ \E i \in DOMAIN a : (\A j \in 1 .. i - 1 : a[j].key # a[i].key) /\ b = Bucket!Without(a, i)

SameSeen(P, P2) == \A q \in Pair : P2[q].key = P[q].key /\ P2[q].value = P[q].value

LEMMA ContentSame ==
  ASSUME NEW m \in Nat, NEW w \in [1 .. m -> Pair], NEW P, NEW P2, SameSeen(P, P2)
  PROVE  ListStep(ContentOf(P, w, m), ContentOf(P2, w, m))
<1>1. \A i \in 1 .. m : Seen(P2[w[i]]) = Seen(P[w[i]])
  BY DEF Seen, SameSeen
<1>2. ContentOf(P2, w, m) = ContentOf(P, w, m)
  BY <1>1 DEF ContentOf
<1> QED BY <1>2 DEF ListStep

LEMMA ContentLonger ==
  ASSUME NEW m \in Nat, NEW w \in [1 .. m -> Pair], NEW P, NEW P2,
         \A i \in 1 .. m : Seen(P2[w[i]]) = Seen(P[w[i]]) /\ Seen(P[w[i]]) \in Entries,
         NEW c \in Pair, Seen(P2[c]) \in Entries,
         NEW w2 \in [1 .. m + 1 -> Pair], w2[m + 1] = c, \A i \in 1 .. m : w2[i] = w[i]
  PROVE  ListStep(ContentOf(P, w, m), ContentOf(P2, w2, m + 1))
<1> DEFINE a == ContentOf(P, w, m)  e == Seen(P2[c])  b == ContentOf(P2, w2, m + 1)
<1>1. a \in [1 .. m -> Entries] /\ b \in [1 .. m + 1 -> Entries] /\ b[m + 1] = e /\ \A i \in 1 .. m : b[i] = a[i]
  <2>1. \A i \in 1 .. m + 1 : i = m + 1 \/ i \in 1 .. m
    OBVIOUS
  <2>2. \A i \in 1 .. m + 1 : Seen(P2[w2[i]]) \in Entries
    BY <2>1
  <2>3. a \in [1 .. m -> Entries] /\ b \in [1 .. m + 1 -> Entries]
    BY <2>2 DEF ContentOf
  <2>4. m + 1 \in 1 .. m + 1 /\ \A i \in 1 .. m : i \in 1 .. m + 1
    OBVIOUS
  <2> QED BY <2>3, <2>4 DEF ContentOf
<1> HIDE DEF a, b, e
<1>2. a \in Seq(Entries) /\ Len(a) = m /\ b \in Seq(Entries) /\ Len(b) = m + 1
  BY <1>1
<1>3. e \in Entries
  BY DEF e
<1>4. b = Append(a, e)
  BY <1>1, <1>2, <1>3
<1>5. PICK k \in Key, v \in 1 .. MaxInserts : e = [key |-> k, value |-> v]
  BY <1>3 DEF Entries
<1> QED BY <1>2, <1>4, <1>5 DEF ListStep, a, b

LEMMA ContentCutOut ==
  ASSUME NEW m \in Nat, NEW w \in [1 .. m -> Pair], NEW j \in 1 .. m, \A i, k \in 1 .. m : w[i] = w[k] => i = k,
         NEW P, NEW P2, SameSeen(P, P2),
         \A i \in 1 .. m : Seen(P[w[i]]) \in Entries, FirstOf(P, w, j)
  PROVE  ListStep(ContentOf(P, w, m), ContentOf(P2, CutOut(w, m, j), m - 1))
<1> DEFINE q == CutOut(w, m, j)  a == ContentOf(P, w, m)  b == ContentOf(P2, q, m - 1)
<1>0. m - 1 \in Nat /\ q \in [1 .. m - 1 -> Pair] /\ \A i \in 1 .. m - 1 : q[i] = IF i < j THEN w[i] ELSE w[i + 1]
  BY CutOutIs
<1> HIDE DEF q
<1>1. a \in [1 .. m -> Entries] /\ \A i \in 1 .. m : a[i] = Seen(P[w[i]])
  BY DEF ContentOf
<1>s. \A x \in Pair : Seen(P2[x]) = Seen(P[x])
  BY DEF Seen, SameSeen
<1>2. b = [i \in 1 .. m - 1 |-> Seen(P[q[i]])]
  BY <1>s, <1>0 DEF ContentOf
<1> HIDE DEF a, b
<1>3. Len(a) = m /\ DOMAIN a = 1 .. m
  BY <1>1
<1>4. \A i \in 1 .. m - 1 : Seen(P[q[i]]) = IF i < j THEN a[i] ELSE a[i + 1]
  BY <1>0, <1>1
<1>5. b = Bucket!Without(a, j)
  BY <1>2, <1>3, <1>4 DEF Bucket!Without
<1>6. \A i \in 1 .. j - 1 : a[i].key # a[j].key
  <2>1. \A i \in 1 .. j - 1 : i \in 1 .. m
    OBVIOUS
  <2> QED BY <2>1, <1>1 DEF FirstOf, Seen
<1> QED BY <1>3, <1>5, <1>6 DEF ListStep, a, b, q

Finding == [pc : {"idle", "walk", "found"}, key : Key \cup {NoKey}, at : Pair \cup {NoPair}, result : 0 .. MaxInserts,
            sure : BOOLEAN, torn : BOOLEAN]
PairRecord == [key : Key \cup {NoKey}, value : 0 .. MaxInserts, next : Pair \cup {NoPair}, prev : Pair \cup {NoPair}]
Changes == [pc : {"idle", "head", "link", "tail", "before", "after", "unhead", "untail", "free"},
            pair : Pair \cup {NoPair}]

BucketTypes ==
  /\ entry \in [head : Pair \cup {NoPair}, tail : Pair \cup {NoPair}] /\ pair \in [Pair -> PairRecord]
  /\ allocated \subseteq Pair /\ inserts \in 0 .. MaxInserts /\ bucketGone \in BOOLEAN
ChangeTypes == change \in Changes /\ (change.pc # "idle" => change.pair \in Pair)
FinderTypes == finder \in [Finder -> Finding]
FieldsSet == \A p \in allocated : pair[p].key \in Key /\ pair[p].value \in 1 .. inserts
MapTypes == BucketTypes /\ ChangeTypes /\ FinderTypes /\ FieldsSet

LEMMA MapBegins == MapInit => MapTypes
<1> SUFFICES ASSUME MapInit PROVE MapTypes
  OBVIOUS
<1>0. MaxInserts \in Nat /\ 0 \in 0 .. MaxInserts
  BY MapAssumption
<1>1. BucketTypes /\ FieldsSet
  BY <1>0 DEF MapInit, BucketTypes, PairRecord, FieldsSet
<1>2. ChangeTypes
  BY DEF MapInit, ChangeTypes, Changes
<1>3. FinderTypes
  BY <1>0 DEF MapInit, FinderTypes, Finding
<1> QED BY <1>1, <1>2, <1>3 DEF MapTypes

LEMMA ChangesGoOn ==
  ASSUME ChangeTypes, NEW pc \in {"head", "link", "tail", "before", "after", "unhead", "untail", "free"}, At(pc),
         NEW to \in {"link", "tail", "after", "unhead", "untail", "free"}, Goto(to)
  PROVE  ChangeTypes' /\ change.pair \in Pair /\ change'.pair = change.pair /\ change'.pc = to
<1>1. change \in Changes /\ change.pair \in Pair /\ change' = [change EXCEPT !.pc = to]
  BY DEF ChangeTypes, At, Goto
<1> QED BY <1>1 DEF ChangeTypes, Changes

LEMMA TearKeepsTypes == ASSUME FinderTypes, NEW gone, Tear(gone) PROVE FinderTypes'
<1>1. \A f \in Finder : finder[f] \in Finding
  BY DEF FinderTypes
<1>2. ASSUME NEW f \in Finder
      PROVE  (IF finder[f].at \in gone THEN [finder[f] EXCEPT !.torn = TRUE] ELSE finder[f]) \in Finding
  BY <1>1 DEF Finding
<1> QED BY <1>2 DEF Tear, FinderTypes

LEMMA NotSureKeepsTypes == ASSUME FinderTypes, NEW k, NotSure(k) PROVE FinderTypes'
<1>1. \A f \in Finder : finder[f] \in Finding
  BY DEF FinderTypes
<1>2. ASSUME NEW f \in Finder
      PROVE  (IF finder[f].key = k THEN [finder[f] EXCEPT !.sure = FALSE] ELSE finder[f]) \in Finding
  BY <1>1 DEF Finding
<1> QED BY <1>2 DEF NotSure, FinderTypes

LEMMA InsertKeepsTypes ==
  ASSUME MapTypes, NEW k \in Key, NEW p \in Pair, BeginInsert(k, p)
  PROVE  /\ MapTypes' /\ inserts' = inserts + 1 /\ change'.pc = "head" /\ change'.pair = p
         /\ pair'[p] = [key |-> k, value |-> inserts + 1, next |-> NoPair, prev |-> entry.tail]
         /\ \A q \in Pair : q # p => pair'[q] = pair[q]
<1> DEFINE e == [key |-> k, value |-> inserts + 1, next |-> NoPair, prev |-> entry.tail]
<1>0. /\ MaxInserts \in Nat /\ inserts \in Nat /\ inserts + 1 \in 0 .. MaxInserts /\ inserts' = inserts + 1
      /\ \A v \in 1 .. inserts : v \in 1 .. inserts + 1
      /\ inserts + 1 \in 1 .. inserts + 1
  BY MapAssumption DEF BeginInsert, MapTypes, BucketTypes
<1>1. e \in PairRecord /\ e.key = k /\ e.value = inserts + 1
  BY <1>0 DEF PairRecord, MapTypes, BucketTypes
<1> HIDE DEF e
<1>2. /\ pair' = [pair EXCEPT ![p] = e] /\ allocated' = allocated \cup {p} /\ change' = [pc |-> "head", pair |-> p]
      /\ UNCHANGED <<entry, finder, bucketGone>>
  BY DEF BeginInsert, e
<1>3. pair' \in [Pair -> PairRecord] /\ pair'[p] = e /\ \A q \in Pair : q # p => pair'[q] = pair[q]
  BY <1>1, <1>2 DEF MapTypes, BucketTypes
<1>4. BucketTypes'
  BY <1>0, <1>2, <1>3 DEF MapTypes, BucketTypes
<1>5. ChangeTypes' /\ change'.pc = "head" /\ change'.pair = p
  BY <1>2 DEF ChangeTypes, Changes
<1>6. FieldsSet'
  <2>1. ASSUME NEW q \in allocated' PROVE pair'[q].key \in Key /\ pair'[q].value \in 1 .. inserts'
    <3>1. CASE q = p
      BY <3>1, <1>0, <1>1, <1>3
    <3>2. CASE q # p
      <4>1. q \in allocated /\ q \in Pair /\ pair'[q] = pair[q]
        BY <3>2, <1>2, <1>3 DEF MapTypes, BucketTypes
      <4> QED BY <4>1, <1>0 DEF MapTypes, FieldsSet
    <3> QED BY <3>1, <3>2
  <2> QED BY <2>1 DEF FieldsSet
<1> QED BY <1>0, <1>2, <1>3, <1>4, <1>5, <1>6 DEF MapTypes, FinderTypes, e

\* A pointer to the next or the previous pair is changed, or none.
PointerSet(e, n, v) ==
  pair' = IF e = NoPair THEN pair
          ELSE IF n = "next" THEN [pair EXCEPT ![e].next = v] ELSE [pair EXCEPT ![e].prev = v]

LEMMA PointersAre ==
  ASSUME pair \in [Pair -> PairRecord], NEW e \in Pair \cup {NoPair}, NEW n \in {"next", "prev"}, NEW v \in Pair \cup {NoPair},
         PointerSet(e, n, v)
  PROVE  /\ pair' \in [Pair -> PairRecord] /\ SameSeen(pair, pair')
         /\ \A q \in Pair : pair'[q].next = IF n = "next" /\ q = e THEN v ELSE pair[q].next
         /\ \A q \in Pair : pair'[q].prev = IF n = "prev" /\ q = e THEN v ELSE pair[q].prev
<1>1. CASE e = NoPair
  <2>1. pair' = pair /\ \A q \in Pair : q # e
    BY <1>1, NoPairIsNone DEF PointerSet
  <2> QED BY <2>1 DEF SameSeen
<1>2. CASE e # NoPair
  <2>1. e \in Pair /\ pair[e] \in PairRecord
    BY <1>2
  <2>2. CASE n = "next"
    <3>1. pair' = [pair EXCEPT ![e] = [pair[e] EXCEPT !.next = v]]
      BY <1>2, <2>2 DEF PointerSet
    <3>2. [pair[e] EXCEPT !.next = v] \in PairRecord
      BY <2>1 DEF PairRecord
    <3>3. pair' \in [Pair -> PairRecord] /\ pair'[e] = [pair[e] EXCEPT !.next = v] /\ \A q \in Pair : q # e => pair'[q] = pair[q]
      BY <3>1, <3>2, <2>1
    <3>4. pair'[e].next = v /\ pair'[e].prev = pair[e].prev /\ pair'[e].key = pair[e].key /\ pair'[e].value = pair[e].value
      BY <3>3, <2>1 DEF PairRecord
    <3> QED BY <3>3, <3>4, <2>2 DEF SameSeen
  <2>3. CASE n = "prev"
    <3>1. pair' = [pair EXCEPT ![e] = [pair[e] EXCEPT !.prev = v]]
      BY <1>2, <2>3 DEF PointerSet
    <3>2. [pair[e] EXCEPT !.prev = v] \in PairRecord
      BY <2>1 DEF PairRecord
    <3>3. pair' \in [Pair -> PairRecord] /\ pair'[e] = [pair[e] EXCEPT !.prev = v] /\ \A q \in Pair : q # e => pair'[q] = pair[q]
      BY <3>1, <3>2, <2>1
    <3>4. pair'[e].prev = v /\ pair'[e].next = pair[e].next /\ pair'[e].key = pair[e].key /\ pair'[e].value = pair[e].value
      BY <3>3, <2>1 DEF PairRecord
    <3> QED BY <3>3, <3>4, <2>3 DEF SameSeen
  <2> QED BY <2>2, <2>3
<1> QED BY <1>1, <1>2

\* What a step leaves alone that changes a pointer at most.
PointerRest == UNCHANGED <<allocated, inserts, finder, bucketGone>>

LEMMA PointersKeepTypes ==
  ASSUME MapTypes, PointerRest, ChangeTypes', entry' \in [head : Pair \cup {NoPair}, tail : Pair \cup {NoPair}],
         pair' \in [Pair -> PairRecord], SameSeen(pair, pair')
  PROVE  MapTypes'
<1>1. BucketTypes' /\ FinderTypes'
  BY DEF MapTypes, BucketTypes, FinderTypes, PointerRest
<1>2. FieldsSet'
  BY DEF MapTypes, BucketTypes, FieldsSet, PointerRest, SameSeen
<1> QED BY <1>1, <1>2 DEF MapTypes

Seeks(me) == me.pc = "walk" /\ me.sure /\ ~me.torn

\* E head and tail of the bucket, P the pairs, A those in use, C the change under way, F the finders; w is the list,
\* of m pairs.
BucketOf(E, P, A, C, F, w, m) ==
  /\ ChainOf(E.head, P, w, m) /\ ChangingOf(E.tail, P, C.pc, C.pair, w, m)
  /\ A = Listed(w, m) \cup (IF C.pc = "idle" THEN {} ELSE {C.pair})
  /\ \A f \in Finder : Seeks(F[f]) => SureOf(F[f], P, C.pc, C.pair, w, m)

IsNow(w, m) == BucketOf(entry, pair, allocated, change, finder, w, m)
StepsWell(w, m) == \E m2 \in Nat : \E w2 \in [1 .. m2 -> Pair] :
  BucketOf(entry', pair', allocated', change', finder', w2, m2) /\ ListStep(ContentOf(pair, w, m), ContentOf(pair', w2, m2))

LEMMA StepsTo ==
  ASSUME NEW w, NEW m, NEW m2 \in Nat, NEW w2 \in [1 .. m2 -> Pair],
         BucketOf(entry', pair', allocated', change', finder', w2, m2), ListStep(ContentOf(pair, w, m), ContentOf(pair', w2, m2))
  PROVE  StepsWell(w, m)
BY DEF StepsWell

LEMMA SeenAreEntries ==
  ASSUME MapTypes, NEW m \in Nat, NEW w \in [1 .. m -> Pair], Listed(w, m) \subseteq allocated
  PROVE  \A i \in 1 .. m : Seen(pair[w[i]]) \in Entries /\ pair[w[i]].value \in 1 .. inserts
<1>1. \A i \in 1 .. m : w[i] \in allocated
  BY DEF Listed
<1>2. inserts \in Nat /\ MaxInserts \in Nat /\ inserts <= MaxInserts
  BY MapAssumption DEF MapTypes, BucketTypes
<1>3. \A p \in allocated : pair[p].key \in Key /\ pair[p].value \in 1 .. inserts
  BY DEF MapTypes, FieldsSet
<1>4. \A p \in allocated : pair[p].value \in 1 .. MaxInserts
  BY <1>2, <1>3
<1>5. \A p \in allocated : Seen(pair[p]) \in Entries
  BY <1>3, <1>4 DEF Seen, Entries
<1> QED BY <1>1, <1>3, <1>5

LEMMA ListIsShort ==
  ASSUME MapTypes, NEW m \in Nat, NEW w \in [1 .. m -> Pair], Listed(w, m) \subseteq allocated, ChainOf(entry.head, pair, w, m)
  PROVE  m \in 0 .. MaxInserts
<1> DEFINE v == [i \in 1 .. m |-> pair[w[i]].value]
<1>1. \A i \in 1 .. m : v[i] \in 1 .. inserts
  BY SeenAreEntries
<1>2. \A i, j \in 1 .. m : i < j => v[i] < v[j]
  BY DEF ChainOf
<1>3. inserts \in Nat /\ MaxInserts \in Nat /\ inserts <= MaxInserts
  BY MapAssumption DEF MapTypes, BucketTypes
<1> HIDE DEF v
<1>4. m <= inserts
  BY <1>1, <1>2, <1>3, AscendingNumbers
<1> QED BY <1>3, <1>4

LEMMA BeginInsertSteps ==
  ASSUME MapTypes, NEW m \in Nat, NEW w \in [1 .. m -> Pair], IsNow(w, m), NEW k \in Key, NEW p \in Pair, BeginInsert(k, p)
  PROVE  MapTypes' /\ bucketGone' = FALSE /\ StepsWell(w, m)
<1>1. /\ MapTypes' /\ inserts' = inserts + 1 /\ change'.pc = "head" /\ change'.pair = p
      /\ pair'[p] = [key |-> k, value |-> inserts + 1, next |-> NoPair, prev |-> entry.tail]
      /\ \A q \in Pair : q # p => pair'[q] = pair[q]
  BY InsertKeepsTypes
<1>2. ~bucketGone /\ change.pc = "idle" /\ p \notin allocated /\ allocated' = allocated \cup {p}
      /\ UNCHANGED <<entry, finder, bucketGone>>
  BY DEF BeginInsert, At
<1>3. allocated = Listed(w, m) /\ ChainOf(entry.head, pair, w, m) /\ ReadyOf(entry.tail, pair, w, m)
  BY <1>2 DEF IsNow, BucketOf, ChangingOf
<1>4. \A i \in 1 .. m : pair[w[i]].value < pair'[p].value
  <2>1. inserts \in Nat /\ pair'[p].value = inserts + 1
    BY <1>1 DEF MapTypes, BucketTypes
  <2>2. \A i \in 1 .. m : pair[w[i]].value \in 1 .. inserts
    BY <1>3, SeenAreEntries
  <2> QED BY <2>1, <2>2
<1>5. /\ ChainOf(entry.head, pair', w, m) /\ NewOf(entry.tail, pair', p, w, m)
      /\ \A q, j : AheadOf(pair, q, j, w, m) => AheadOf(pair', q, j, w, m)
  <2>1. p \notin Listed(w, m) /\ pair'[p].next = NoPair /\ pair'[p].prev = entry.tail
    BY <1>1, <1>2, <1>3
  <2> QED BY <1>1, <1>3, <1>4, <2>1, InsertBegins
<1>6. ChangingOf(entry.tail, pair', "head", p, w, m)
  BY <1>5 DEF ChangingOf
<1>7. ASSUME NEW f \in Finder, Seeks(finder[f]) PROVE SureOf(finder[f], pair', "head", p, w, m)
  <2>1. AheadOf(pair, finder[f].at, finder[f].key, w, m)
    BY <1>2, <1>7 DEF IsNow, BucketOf, SureOf
  <2> QED BY <2>1, <1>5 DEF SureOf
<1>8. BucketOf(entry', pair', allocated', change', finder', w, m)
  BY <1>1, <1>2, <1>3, <1>5, <1>6, <1>7 DEF BucketOf
<1>9. ListStep(ContentOf(pair, w, m), ContentOf(pair', w, m))
  <2>1. \A i \in 1 .. m : pair'[w[i]] = pair[w[i]]
    BY <1>1, <1>2, <1>3 DEF Listed
  <2>2. ContentOf(pair', w, m) = ContentOf(pair, w, m)
    BY <2>1 DEF ContentOf
  <2> QED BY <2>2 DEF ListStep
<1> QED BY <1>1, <1>2, <1>8, <1>9 DEF StepsWell

\* A step of one change that keeps the list.
LEMMA ListStays ==
  ASSUME MapTypes, MapTypes', NEW m \in Nat, NEW w \in [1 .. m -> Pair], IsNow(w, m), PointerRest, change'.pair = change.pair,
         change.pc # "idle", change'.pc # "idle", SameSeen(pair, pair'),
         ChainOf(entry'.head, pair', w, m), ChangingOf(entry'.tail, pair', change'.pc, change.pair, w, m),
         change'.pc \in {"before", "after", "unhead"} => change.pc \in {"before", "after", "unhead"},
         change.pc \in {"unhead", "untail", "free"} =>
           change'.pc \in {"unhead", "untail", "free"} /\ pair'[change.pair].next = pair[change.pair].next
  PROVE  StepsWell(w, m)
<1>1. \A p, k : AheadOf(pair, p, k, w, m) => AheadOf(pair', p, k, w, m)
  BY KeysKeepFirst DEF SameSeen
<1>2. ASSUME NEW f \in Finder, Seeks(finder[f]) PROVE SureOf(finder[f], pair', change'.pc, change.pair, w, m)
  <2>1. SureOf(finder[f], pair, change.pc, change.pair, w, m)
    BY <1>2 DEF IsNow, BucketOf
  <2>2. change'.pc \in {"before", "after", "unhead"} => pair'[change.pair].key # finder[f].key
    BY <2>1 DEF SureOf, SameSeen, MapTypes, ChangeTypes
  <2> QED BY <1>1, <2>1, <2>2 DEF SureOf
<1>3. BucketOf(entry', pair', allocated', change', finder', w, m)
  <2>1. allocated' = Listed(w, m) \cup {change.pair} /\ finder' = finder
    BY DEF IsNow, BucketOf, PointerRest
  <2> QED BY <1>2, <2>1 DEF BucketOf
<1>4. ListStep(ContentOf(pair, w, m), ContentOf(pair', w, m))
  BY ContentSame
<1> QED BY <1>3, <1>4 DEF StepsWell

LEMMA SetHeadSteps ==
  ASSUME MapTypes, NEW m \in Nat, NEW w \in [1 .. m -> Pair], IsNow(w, m), SetHead
  PROVE  MapTypes' /\ bucketGone' = FALSE /\ StepsWell(w, m)
<1> DEFINE c == change.pair
<1>1. At("head") /\ Goto("link") /\ UNCHANGED <<pair, allocated, inserts, finder, bucketGone>>
  BY DEF SetHead
<1>2. ChangeTypes' /\ c \in Pair /\ change'.pair = c /\ change'.pc = "link" /\ change.pc = "head"
  <2>1. ChangeTypes' /\ c \in Pair /\ change'.pair = c /\ change'.pc = "link"
    BY <1>1, ChangesGoOn DEF MapTypes
  <2> QED BY <2>1, <1>1 DEF At
<1> HIDE DEF c
<1>3. entry \in [head : Pair \cup {NoPair}, tail : Pair \cup {NoPair}] /\ pair \in [Pair -> PairRecord]
  BY DEF MapTypes, BucketTypes
<1>4. entry' \in [head : Pair \cup {NoPair}, tail : Pair \cup {NoPair}]
      /\ entry'.tail = entry.tail /\ entry'.head = IF entry.head = NoPair THEN c ELSE entry.head
  BY <1>2, <1>3 DEF SetHead, c
<1>5. SameSeen(pair, pair') /\ PointerRest /\ ~bucketGone
  BY <1>1 DEF SameSeen, PointerRest, At
<1>6. MapTypes'
  BY <1>1, <1>2, <1>3, <1>4, <1>5, PointersKeepTypes
<1>7. ChainOf(entry.head, pair, w, m) /\ NewOf(entry.tail, pair, c, w, m) /\ allocated = Listed(w, m) \cup {c}
  BY <1>2 DEF IsNow, BucketOf, ChangingOf, c
<1>8. CASE m = 0
  <2> DEFINE w2 == [i \in 1 .. 1 |-> c]
  <2>1. w2 \in [1 .. 1 -> Pair] /\ w2[1] = c /\ \A i \in 1 .. 1 : i = 1
    BY <1>2
  <2>2. entry'.head = c /\ Listed(w, m) = {}
    BY <1>4, <1>7, <1>8 DEF ChainOf, Listed
  <2>3. ChainOf(c, pair, w2, 1) /\ entry.tail = NoPair /\ BackOf(pair, w2, 1) /\ Listed(w2, 1) = {c}
    BY <1>2, <1>7, <1>8, HeadIsSet
  <2> HIDE DEF w2
  <2>4. ChangingOf(entry.tail, pair, "link", c, w2, 1)
    BY <2>1, <2>3 DEF ChangingOf
  <2>5. \A f \in Finder : ~Seeks(finder[f])
    <3>1. ASSUME NEW f \in Finder, Seeks(finder[f]) PROVE AheadOf(pair, finder[f].at, finder[f].key, w, m)
      BY <1>2, <3>1 DEF IsNow, BucketOf, SureOf
    <3>2. \A p, k : ~AheadOf(pair, p, k, w, m)
      BY <1>8 DEF AheadOf
    <3> QED BY <3>1, <3>2
  <2>6. BucketOf(entry', pair', allocated', change', finder', w2, 1)
    BY <1>1, <1>2, <1>4, <1>7, <2>2, <2>3, <2>4, <2>5 DEF BucketOf
  <2>7. ListStep(ContentOf(pair, w, m), ContentOf(pair', w2, 1))
    <3>1. Seen(pair'[c]) \in Entries
      <4>1. c \in allocated /\ MaxInserts \in Nat /\ inserts \in Nat /\ inserts <= MaxInserts
        BY <1>7, MapAssumption DEF MapTypes, BucketTypes
      <4> QED BY <4>1, <1>1 DEF MapTypes, FieldsSet, Seen, Entries
    <3>2. w2 \in [1 .. m + 1 -> Pair] /\ w2[m + 1] = c /\ m + 1 = 1 /\ \A i \in 1 .. m : FALSE
      BY <1>8, <2>1
    <3>3. ListStep(ContentOf(pair, w, m), ContentOf(pair', w2, m + 1))
      BY <1>2, <3>1, <3>2, ContentLonger
    <3> QED BY <3>2, <3>3
  <2>8. StepsWell(w, m)
    <3>1. 1 \in Nat
      OBVIOUS
    <3> QED BY <3>1, <2>1, <2>6, <2>7, StepsTo
  <2> QED BY <1>6, <1>5, <1>1, <2>8
<1>9. CASE m # 0
  <2>1. entry.head \in Pair /\ entry.tail \in Pair
    BY <1>7, <1>9 DEF ChainOf, NewOf, ReadyOf, EndOf
  <2>2. entry.head # NoPair /\ entry.tail # NoPair
    BY <2>1, NoPairIsNone
  <2>3. ChainOf(entry'.head, pair', w, m) /\ ChangingOf(entry'.tail, pair', change'.pc, c, w, m)
    BY <1>1, <1>2, <1>4, <1>7, <1>9, <2>2 DEF ChangingOf
  <2>4. StepsWell(w, m)
    BY <1>2, <1>5, <1>6, <2>3, ListStays DEF c
  <2> QED BY <1>1, <1>5, <1>6, <2>4
<1> QED BY <1>8, <1>9

LEMMA LinkPairSteps ==
  ASSUME MapTypes, NEW m \in Nat, NEW w \in [1 .. m -> Pair], IsNow(w, m), LinkPair
  PROVE  MapTypes' /\ bucketGone' = FALSE /\ StepsWell(w, m)
<1> DEFINE c == change.pair  t == entry.tail
<1>1. At("link") /\ Goto("tail") /\ UNCHANGED <<entry, allocated, inserts, finder, bucketGone>>
  BY DEF LinkPair
<1>2. ChangeTypes' /\ c \in Pair /\ change'.pair = c /\ change'.pc = "tail" /\ change.pc = "link"
  <2>1. ChangeTypes' /\ c \in Pair /\ change'.pair = c /\ change'.pc = "tail"
    BY <1>1, ChangesGoOn DEF MapTypes
  <2> QED BY <2>1, <1>1 DEF At
<1>3. /\ entry \in [head : Pair \cup {NoPair}, tail : Pair \cup {NoPair}] /\ pair \in [Pair -> PairRecord]
      /\ t \in Pair \cup {NoPair}
  BY DEF MapTypes, BucketTypes
<1>4. PointerSet(t, "next", c)
  BY DEF LinkPair, PointerSet
<1> HIDE DEF c, t
<1>5. /\ pair' \in [Pair -> PairRecord] /\ SameSeen(pair, pair')
      /\ \A q \in Pair : pair'[q].next = IF "next" = "next" /\ q = t THEN c ELSE pair[q].next
      /\ \A q \in Pair : pair'[q].prev = IF "next" = "prev" /\ q = t THEN c ELSE pair[q].prev
  <2>1. "next" \in {"next", "prev"} /\ c \in Pair \cup {NoPair}
    BY <1>2
  <2> QED BY <1>3, <1>4, <2>1, PointersAre, Zenon
<1>6. PointerRest /\ ~bucketGone
  BY <1>1 DEF PointerRest, At
<1>7. MapTypes'
  BY <1>1, <1>2, <1>3, <1>5, <1>6, PointersKeepTypes
<1>8. /\ ChainOf(entry.head, pair, w, m) /\ allocated = Listed(w, m) \cup {c}
      /\ \/ t = NoPair /\ m = 1 /\ w[1] = c /\ BackOf(pair, w, m)
         \/ t # NoPair /\ m # 0 /\ NewOf(t, pair, c, w, m)
  BY <1>2 DEF IsNow, BucketOf, ChangingOf, c, t
<1>9. CASE t = NoPair
  <2>1. pair' = pair
    BY <1>4, <1>9 DEF PointerSet
  <2>2. ChainOf(entry'.head, pair', w, m) /\ ChangingOf(entry'.tail, pair', change'.pc, c, w, m)
    BY <1>1, <1>2, <1>8, <1>9, <2>1 DEF ChangingOf
  <2>3. StepsWell(w, m)
    BY <1>2, <1>5, <1>6, <1>7, <2>2, ListStays DEF c
  <2> QED BY <1>1, <1>6, <1>7, <2>3
<1>10. CASE t # NoPair
  <2> DEFINE w2 == Longer(w, m, c)
  <2>1. /\ w2 \in [1 .. m + 1 -> Pair] /\ w2[m + 1] = c /\ m + 1 \in Nat
        /\ \A i \in 1 .. m : w2[i] = w[i]
        /\ Listed(w2, m + 1) = Listed(w, m) \cup {c}
    <3>1. m + 1 \in Nat
      OBVIOUS
    <3>2. LongerBy(w2, w, m, c)
      BY <1>2, LongerIs
    <3> QED BY <3>1, <3>2 DEF LongerBy
  <2>2. m # 0 /\ NewOf(t, pair, c, w, m)
    BY <1>8, <1>10
  <2>3. /\ ChainOf(entry.head, pair', w2, m + 1) /\ BackOf(pair', w2, m + 1)
        /\ \A p, k : AheadOf(pair, p, k, w, m) => AheadOf(pair', p, k, w2, m + 1)
    <3>1. \A q \in Pair : pair'[q].key = pair[q].key /\ pair'[q].value = pair[q].value /\ pair'[q].prev = pair[q].prev
      BY <1>5 DEF SameSeen
    <3>2. \A q \in Pair : pair'[q].next = IF q = t THEN c ELSE pair[q].next
      BY <1>5
    <3>3. NextSet(pair, pair', t, c)
      BY <3>1, <3>2 DEF NextSet
    <3> QED BY <1>2, <1>8, <2>2, <3>3, PairIsLinked
  <2> HIDE DEF w2
  <2>4. ChangingOf(t, pair', "tail", c, w2, m + 1)
    BY <2>1, <2>3 DEF ChangingOf
  <2>5. ASSUME NEW f \in Finder, Seeks(finder[f]) PROVE SureOf(finder[f], pair', "tail", c, w2, m + 1)
    <3>1. AheadOf(pair, finder[f].at, finder[f].key, w, m)
      BY <1>2, <2>5 DEF IsNow, BucketOf, SureOf
    <3> QED BY <3>1, <2>3 DEF SureOf
  <2>6. BucketOf(entry', pair', allocated', change', finder', w2, m + 1)
    BY <1>1, <1>2, <1>8, <2>1, <2>3, <2>4, <2>5 DEF BucketOf, t
  <2>7. ListStep(ContentOf(pair, w, m), ContentOf(pair', w2, m + 1))
    <3>1. \A i \in 1 .. m : Seen(pair[w[i]]) \in Entries
      BY <1>8, SeenAreEntries
    <3>2. \A q \in Pair : Seen(pair'[q]) = Seen(pair[q])
      BY <1>5 DEF SameSeen, Seen
    <3>3. Seen(pair'[c]) \in Entries
      <4>1. c \in allocated /\ MaxInserts \in Nat /\ inserts \in Nat /\ inserts <= MaxInserts
        BY <1>8, MapAssumption DEF MapTypes, BucketTypes
      <4>2. Seen(pair[c]) \in Entries
        BY <4>1 DEF MapTypes, FieldsSet, Seen, Entries
      <4> QED BY <4>2, <3>2, <1>2
    <3>4. \A i \in 1 .. m : Seen(pair'[w[i]]) = Seen(pair[w[i]]) /\ Seen(pair[w[i]]) \in Entries
      BY <3>1, <3>2
    <3> QED BY <1>2, <2>1, <3>3, <3>4, ContentLonger
  <2>8. StepsWell(w, m)
    BY <2>1, <2>6, <2>7, StepsTo
  <2> QED BY <1>7, <1>6, <1>1, <2>8
<1> QED BY <1>9, <1>10

LEMMA SetTailSteps ==
  ASSUME MapTypes, NEW m \in Nat, NEW w \in [1 .. m -> Pair], IsNow(w, m), SetTail
  PROVE  MapTypes' /\ bucketGone' = FALSE /\ StepsWell(w, m)
<1> DEFINE c == change.pair
<1>1. /\ At("tail") /\ change' = [pc |-> "idle", pair |-> NoPair] /\ entry' = [entry EXCEPT !.tail = c]
      /\ UNCHANGED <<pair, allocated, inserts, finder, bucketGone>>
  BY DEF SetTail
<1>2. change.pc = "tail" /\ ~bucketGone /\ c \in Pair
  BY <1>1 DEF At, MapTypes, ChangeTypes
<1> HIDE DEF c
<1>3. ChangeTypes' /\ change'.pc = "idle"
  BY <1>1 DEF ChangeTypes, Changes
<1>4. entry' \in [head : Pair \cup {NoPair}, tail : Pair \cup {NoPair}] /\ entry'.head = entry.head /\ entry'.tail = c
  BY <1>1, <1>2 DEF MapTypes, BucketTypes
<1>5. MapTypes'
  BY <1>1, <1>3, <1>4, PointersKeepTypes DEF PointerRest, SameSeen, MapTypes, BucketTypes
<1>6. /\ ChainOf(entry.head, pair, w, m) /\ m # 0 /\ w[m] = c /\ BackOf(pair, w, m)
      /\ allocated = Listed(w, m) \cup {c}
  BY <1>2 DEF IsNow, BucketOf, ChangingOf, c
<1>7. allocated = Listed(w, m)
  BY <1>6 DEF Listed
<1>8. ChangingOf(c, pair, "idle", NoPair, w, m)
  BY <1>6 DEF ChangingOf, ReadyOf, EndOf
<1>9. ASSUME NEW f \in Finder, Seeks(finder[f]) PROVE SureOf(finder[f], pair, "idle", NoPair, w, m)
  BY <1>2, <1>9 DEF IsNow, BucketOf, SureOf
<1>10. BucketOf(entry', pair', allocated', change', finder', w, m)
  BY <1>1, <1>4, <1>6, <1>7, <1>8, <1>9 DEF BucketOf
<1> QED BY <1>1, <1>2, <1>5, <1>10 DEF StepsWell, ListStep

FirstIn(P, w, k) == CHOOSE i \in DOMAIN w : P[w[i]].key = k /\ \A g \in 1 .. i - 1 : P[w[g]].key # k

LEMMA FirstPair ==
  ASSUME NEW m \in Nat, NEW w \in [1 .. m -> Pair], NEW P, NEW k, \E i \in 1 .. m : P[w[i]].key = k
  PROVE  /\ FirstIn(P, w, k) \in 1 .. m /\ P[w[FirstIn(P, w, k)]].key = k
         /\ FirstOf(P, w, FirstIn(P, w, k))
<1> DEFINE With == {i \in 1 .. m : P[w[i]].key = k}
           IsFirst(i) == P[w[i]].key = k /\ \A g \in 1 .. i - 1 : P[w[g]].key # k
<1>1. With \in SUBSET Nat /\ With # {}
  OBVIOUS
<1>2. PICK i \in With : \A g \in With : i <= g
  BY <1>1, LeastNumber
<1>3. i \in 1 .. m /\ IsFirst(i)
  <2>1. i \in 1 .. m /\ P[w[i]].key = k
    OBVIOUS
  <2>2. ASSUME NEW g \in 1 .. i - 1, P[w[g]].key = k PROVE FALSE
    <3>1. g \in With /\ g < i
      BY <2>1, <2>2
    <3> QED BY <3>1, <1>2, <2>1
  <2> QED BY <2>1, <2>2
<1> HIDE DEF IsFirst
<1>4. DOMAIN w = 1 .. m
  OBVIOUS
<1>5. (CHOOSE i0 \in DOMAIN w : IsFirst(i0)) \in 1 .. m /\ IsFirst(CHOOSE i0 \in DOMAIN w : IsFirst(i0))
  BY <1>3, <1>4
<1>6. FirstIn(P, w, k) \in 1 .. m /\ IsFirst(FirstIn(P, w, k))
  BY <1>5 DEF FirstIn, IsFirst
<1> QED BY <1>6 DEF IsFirst, FirstOf

LEMMA WalkIs ==
  ASSUME MapTypes, NEW m \in Nat, NEW w \in [1 .. m -> Pair], IsNow(w, m)
  PROVE  Walk = w
<1>1. ChainOf(entry.head, pair, w, m) /\ Listed(w, m) \subseteq allocated
  BY DEF IsNow, BucketOf
<1>2. m \in 0 .. MaxInserts
  BY <1>1, ListIsShort
<1>3. WalkOf(entry.head, pair) = w
  BY <1>1, <1>2, WalkFollowsChain
<1> QED BY <1>3, WalkIsWalkOf

LEMMA BeginRemoveSteps ==
  ASSUME MapTypes, NEW m \in Nat, NEW w \in [1 .. m -> Pair], IsNow(w, m), NEW k \in Key, BeginRemove(k)
  PROVE  MapTypes' /\ bucketGone' = FALSE /\ StepsWell(w, m)
<1>1. Walk = w /\ DOMAIN w = 1 .. m
  BY WalkIs
<1> DEFINE j == FirstIn(pair, w, k)
<1>2. /\ At("idle") /\ \E i \in 1 .. m : pair[w[i]].key = k
      /\ change' = [pc |-> "before", pair |-> w[j]]
      /\ NotSure(k) /\ UNCHANGED <<entry, pair, allocated, inserts, bucketGone>>
  BY <1>1 DEF BeginRemove, InList, FirstIn
<1>3. j \in 1 .. m /\ pair[w[j]].key = k /\ FirstOf(pair, w, j)
  <2>1. \E i \in 1 .. m : pair[w[i]].key = k
    BY <1>2
  <2> QED BY <2>1, FirstPair
<1> HIDE DEF j
<1>4. ~bucketGone /\ change.pc = "idle" /\ w[j] \in Pair /\ change'.pc = "before" /\ change'.pair = w[j]
  BY <1>2, <1>3 DEF At
<1>5. ChangeTypes'
  BY <1>2, <1>4 DEF ChangeTypes, Changes
<1>6. MapTypes'
  <2>1. FinderTypes'
    BY <1>2, NotSureKeepsTypes DEF MapTypes
  <2> QED BY <1>2, <1>5, <2>1 DEF MapTypes, BucketTypes, FieldsSet
<1>7. ChainOf(entry.head, pair, w, m) /\ ReadyOf(entry.tail, pair, w, m) /\ allocated = Listed(w, m)
  BY <1>4 DEF IsNow, BucketOf, ChangingOf
<1>8. ChangingOf(entry.tail, pair, "before", w[j], w, m)
  BY <1>3, <1>7 DEF ChangingOf
<1>9. allocated' = Listed(w, m) \cup {w[j]}
  BY <1>2, <1>3, <1>7 DEF Listed
<1>10. ASSUME NEW f \in Finder, Seeks(finder'[f]) PROVE SureOf(finder'[f], pair, "before", w[j], w, m)
  <2>1. finder'[f] = finder[f] /\ finder[f].key # k
    <3>1. finder'[f] = IF finder[f].key = k THEN [finder[f] EXCEPT !.sure = FALSE] ELSE finder[f]
      BY <1>2 DEF NotSure
    <3>2. CASE finder[f].key = k
      <4>1. finder[f] \in Finding /\ finder'[f] = [finder[f] EXCEPT !.sure = FALSE]
        BY <3>1, <3>2 DEF MapTypes, FinderTypes
      <4>2. ~finder'[f].sure
        BY <4>1 DEF Finding
      <4> QED BY <4>2, <1>10 DEF Seeks
    <3> QED BY <3>1, <3>2
  <2>2. AheadOf(pair, finder[f].at, finder[f].key, w, m)
    BY <1>4, <1>10, <2>1 DEF IsNow, BucketOf, SureOf
  <2> QED BY <1>3, <2>1, <2>2 DEF SureOf
<1>11. BucketOf(entry', pair', allocated', change', finder', w, m)
  BY <1>2, <1>4, <1>7, <1>8, <1>9, <1>10 DEF BucketOf
<1>12. ListStep(ContentOf(pair, w, m), ContentOf(pair', w, m))
  BY <1>2 DEF ListStep
<1>13. StepsWell(w, m)
  BY <1>11, <1>12, StepsTo
<1> QED BY <1>2, <1>4, <1>6, <1>13

LEMMA UnlinkNextSteps ==
  ASSUME MapTypes, NEW m \in Nat, NEW w \in [1 .. m -> Pair], IsNow(w, m), UnlinkNext
  PROVE  MapTypes' /\ bucketGone' = FALSE /\ StepsWell(w, m)
<1> DEFINE c == change.pair  e == pair[c].next  v == pair[c].prev
<1>1. At("before") /\ Goto("after") /\ UNCHANGED <<entry, allocated, inserts, finder, bucketGone>>
  BY DEF UnlinkNext
<1>2. ChangeTypes' /\ c \in Pair /\ change'.pair = c /\ change'.pc = "after" /\ change.pc = "before"
  <2>1. ChangeTypes' /\ c \in Pair /\ change'.pair = c /\ change'.pc = "after"
    BY <1>1, ChangesGoOn DEF MapTypes
  <2> QED BY <2>1, <1>1 DEF At
<1>3. entry \in [head : Pair \cup {NoPair}, tail : Pair \cup {NoPair}] /\ pair \in [Pair -> PairRecord]
  BY DEF MapTypes, BucketTypes
<1>4. e \in Pair \cup {NoPair} /\ v \in Pair \cup {NoPair} /\ PointerSet(e, "prev", v)
  <2>1. pair[c] \in PairRecord
    BY <1>2, <1>3
  <2>2. e \in Pair \cup {NoPair} /\ v \in Pair \cup {NoPair}
    BY <2>1 DEF PairRecord
  <2>3. PointerSet(e, "prev", v)
    BY DEF UnlinkNext, PointerSet
  <2> QED BY <2>2, <2>3
<1> HIDE DEF c
<1>5. /\ pair' \in [Pair -> PairRecord] /\ SameSeen(pair, pair')
      /\ \A q \in Pair : pair'[q].next = IF "prev" = "next" /\ q = e THEN v ELSE pair[q].next
      /\ \A q \in Pair : pair'[q].prev = IF "prev" = "prev" /\ q = e THEN v ELSE pair[q].prev
  <2> HIDE DEF e, v
  <2>1. "prev" \in {"next", "prev"}
    OBVIOUS
  <2> QED BY <1>3, <1>4, <2>1, PointersAre, Zenon
<1>6. PointerRest /\ ~bucketGone
  BY <1>1 DEF PointerRest, At
<1>7. MapTypes'
  BY <1>1, <1>2, <1>3, <1>5, <1>6, PointersKeepTypes
<1>8. /\ ChainOf(entry.head, pair, w, m) /\ ReadyOf(entry.tail, pair, w, m)
      /\ \E j \in 1 .. m : w[j] = c /\ FirstOf(pair, w, j)
  BY <1>2 DEF IsNow, BucketOf, ChangingOf, c
<1>9. PICK j \in 1 .. m : w[j] = c /\ FirstOf(pair, w, j)
  BY <1>8
<1>10. ChainOf(entry.head, pair', w, m) /\ PastOf(pair', w, m, j)
  <2>1. \A q \in Pair : pair'[q].key = pair[q].key /\ pair'[q].value = pair[q].value /\ pair'[q].next = pair[q].next
    BY <1>5 DEF SameSeen
  <2>2. \A q \in Pair : pair'[q].prev = IF q = pair[w[j]].next THEN pair[w[j]].prev ELSE pair[q].prev
    BY <1>5, <1>9
  <2>3. BackOf(pair, w, m)
    BY <1>8 DEF ReadyOf
  <2> QED BY <1>8, <2>1, <2>2, <2>3, NextIsUnlinked
<1>11. FirstOf(pair', w, j)
  BY <1>5, <1>9, KeysKeepFirst DEF SameSeen
<1>12. ChangingOf(entry.tail, pair', "after", c, w, m)
  BY <1>8, <1>9, <1>10, <1>11 DEF ChangingOf, ReadyOf, PastOf
<1>13. StepsWell(w, m)
  BY <1>1, <1>2, <1>5, <1>6, <1>7, <1>10, <1>12, ListStays DEF c
<1> QED BY <1>1, <1>6, <1>7, <1>13

LEMMA UnlinkTailSteps ==
  ASSUME MapTypes, NEW m \in Nat, NEW w \in [1 .. m -> Pair], IsNow(w, m), UnlinkTail
  PROVE  MapTypes' /\ bucketGone' = FALSE /\ StepsWell(w, m)
<1> DEFINE c == change.pair  t == entry.tail
<1>1. At("untail") /\ Goto("free") /\ UNCHANGED <<pair, allocated, inserts, finder, bucketGone>>
  BY DEF UnlinkTail
<1>2. ChangeTypes' /\ c \in Pair /\ change'.pair = c /\ change'.pc = "free" /\ change.pc = "untail"
  <2>1. ChangeTypes' /\ c \in Pair /\ change'.pair = c /\ change'.pc = "free"
    BY <1>1, ChangesGoOn DEF MapTypes
  <2> QED BY <2>1, <1>1 DEF At
<1> HIDE DEF c
<1>3. /\ entry \in [head : Pair \cup {NoPair}, tail : Pair \cup {NoPair}] /\ pair \in [Pair -> PairRecord]
      /\ pair[c] \in PairRecord
  BY <1>2 DEF MapTypes, BucketTypes
<1>4. entry' \in [head : Pair \cup {NoPair}, tail : Pair \cup {NoPair}]
      /\ entry'.head = entry.head /\ entry'.tail = IF t = c THEN pair[c].prev ELSE t
  BY <1>3 DEF UnlinkTail, c, PairRecord
<1>5. SameSeen(pair, pair') /\ PointerRest /\ ~bucketGone
  BY <1>1 DEF SameSeen, PointerRest, At
<1>6. MapTypes'
  BY <1>1, <1>2, <1>3, <1>4, <1>5, PointersKeepTypes
<1>7. ChainOf(entry.head, pair, w, m) /\ GoneOf(t, pair, c, w, m)
  BY <1>2 DEF IsNow, BucketOf, ChangingOf, c
<1>8. entry'.tail = EndOf(w, m)
  <2>1. EndOf(w, m) # c
    BY <1>2, <1>7, NoPairIsNone DEF GoneOf, EndOf, Listed
  <2> QED BY <1>4, <1>7, <2>1 DEF GoneOf
<1>9. ChangingOf(entry'.tail, pair', "free", c, w, m)
  BY <1>1, <1>7, <1>8 DEF ChangingOf, GoneOf, ReadyOf
<1>10. StepsWell(w, m)
  BY <1>1, <1>2, <1>4, <1>5, <1>6, <1>7, <1>9, ListStays DEF c
<1> QED BY <1>1, <1>5, <1>6, <1>10

\* A step of a removal that takes the list's pair j out of it.
LEMMA ListLoses ==
  ASSUME MapTypes, NEW m \in Nat, NEW w \in [1 .. m -> Pair], IsNow(w, m), PointerRest, NEW j \in 1 .. m,
         w[j] = change.pair, change'.pair = change.pair, FirstOf(pair, w, j), SameSeen(pair, pair'),
         change.pc \in {"after", "unhead"}, change'.pc \in {"unhead", "untail"},
         pair'[w[j]].next = pair[w[j]].next,
         ChainOf(entry'.head, pair', CutOut(w, m, j), m - 1),
         ChangingOf(entry'.tail, pair', change'.pc, change.pair, CutOut(w, m, j), m - 1)
  PROVE  StepsWell(w, m)
<1> DEFINE q == CutOut(w, m, j)  c == change.pair
<1>1. ChainOf(entry.head, pair, w, m) /\ allocated = Listed(w, m) \cup {c} /\ c = w[j] /\ c \in Pair
  BY DEF IsNow, BucketOf
<1>i. \A a, b \in 1 .. m : w[a] = w[b] => a = b
  BY <1>1 DEF ChainOf
<1>2. m - 1 \in Nat /\ q \in [1 .. m - 1 -> Pair] /\ Listed(q, m - 1) = Listed(w, m) \ {w[j]}
  <2>1. CutFrom(q, w, m, j)
    BY <1>i, CutOutIsCut
  <2> QED BY <2>1 DEF CutFrom
<1>k. \A i \in 1 .. m : pair'[w[i]].key = pair[w[i]].key
  BY DEF SameSeen
<1>3. ASSUME NEW f \in Finder, Seeks(finder[f]) PROVE SureOf(finder[f], pair', change'.pc, c, q, m - 1)
  <2> DEFINE p == finder[f].at  k == finder[f].key
  <2>1. SureOf(finder[f], pair, change.pc, c, w, m)
    BY <1>3 DEF IsNow, BucketOf
  <2>2. pair[c].key # k /\ AheadOf(pair, p, k, w, m)
    <3>1. c \in Listed(w, m)
      BY <1>1 DEF Listed
    <3> QED BY <2>1, <3>1 DEF SureOf
  <2>3. pair'[c].key # k
    BY <2>2, <1>1, <1>k
  <2> HIDE DEF p, k
  <2>4. AheadOf(pair', IF p = w[j] THEN pair[w[j]].next ELSE p, k, q, m - 1)
    <3>1. pair[w[j]].key # k
      BY <2>2, <1>1
    <3> QED BY <1>1, <1>k, <2>2, <3>1, CutOutKeepsAhead
  <2> HIDE DEF q
  <2>5. CASE p = w[j]
    <3>1. AheadOf(pair', pair'[c].next, k, q, m - 1) /\ p = c /\ c \notin Listed(q, m - 1)
      BY <1>1, <1>2, <2>4, <2>5
    <3> QED BY <2>3, <3>1 DEF SureOf, p, k
  <2>6. CASE p # w[j]
    <3>1. AheadOf(pair', p, k, q, m - 1)
      BY <2>4, <2>6
    <3> QED BY <2>3, <3>1 DEF SureOf, p, k
  <2> QED BY <2>5, <2>6
<1>4. BucketOf(entry', pair', allocated', change', finder', q, m - 1)
  <2>1. allocated' = Listed(q, m - 1) \cup {c} /\ finder' = finder
    BY <1>1, <1>2 DEF PointerRest, Listed
  <2> HIDE DEF q
  <2>2. ChainOf(entry'.head, pair', q, m - 1) /\ ChangingOf(entry'.tail, pair', change'.pc, c, q, m - 1)
    BY DEF q
  <2> QED BY <1>3, <2>1, <2>2 DEF BucketOf
<1>5. ListStep(ContentOf(pair, w, m), ContentOf(pair', q, m - 1))
  <2>1. \A i \in 1 .. m : Seen(pair[w[i]]) \in Entries
    BY <1>1, SeenAreEntries
  <2> QED BY <1>i, <2>1, ContentCutOut
<1> HIDE DEF q
<1> QED BY <1>2, <1>4, <1>5, StepsTo

LEMMA UnlinkPreviousSteps ==
  ASSUME MapTypes, NEW m \in Nat, NEW w \in [1 .. m -> Pair], IsNow(w, m), UnlinkPrevious
  PROVE  MapTypes' /\ bucketGone' = FALSE /\ StepsWell(w, m)
<1> DEFINE c == change.pair  e == pair[c].prev  v == pair[c].next
<1>1. At("after") /\ Goto("unhead") /\ UNCHANGED <<entry, allocated, inserts, finder, bucketGone>>
  BY DEF UnlinkPrevious
<1>2. ChangeTypes' /\ c \in Pair /\ change'.pair = c /\ change'.pc = "unhead" /\ change.pc = "after"
  <2>1. ChangeTypes' /\ c \in Pair /\ change'.pair = c /\ change'.pc = "unhead"
    BY <1>1, ChangesGoOn DEF MapTypes
  <2> QED BY <2>1, <1>1 DEF At
<1>3. entry \in [head : Pair \cup {NoPair}, tail : Pair \cup {NoPair}] /\ pair \in [Pair -> PairRecord]
  BY DEF MapTypes, BucketTypes
<1>4. e \in Pair \cup {NoPair} /\ v \in Pair \cup {NoPair} /\ PointerSet(e, "next", v)
  <2>1. pair[c] \in PairRecord
    BY <1>2, <1>3
  <2>2. e \in Pair \cup {NoPair} /\ v \in Pair \cup {NoPair}
    BY <2>1 DEF PairRecord
  <2>3. PointerSet(e, "next", v)
    BY DEF UnlinkPrevious, PointerSet
  <2> QED BY <2>2, <2>3
<1> HIDE DEF c
<1>5. /\ pair' \in [Pair -> PairRecord] /\ SameSeen(pair, pair')
      /\ \A q \in Pair : pair'[q].next = IF "next" = "next" /\ q = e THEN v ELSE pair[q].next
      /\ \A q \in Pair : pair'[q].prev = IF "next" = "prev" /\ q = e THEN v ELSE pair[q].prev
  <2> HIDE DEF e, v
  <2>1. "next" \in {"next", "prev"}
    OBVIOUS
  <2> QED BY <1>3, <1>4, <2>1, PointersAre, Zenon
<1>6. PointerRest /\ ~bucketGone
  BY <1>1 DEF PointerRest, At
<1>7. MapTypes'
  BY <1>1, <1>2, <1>3, <1>5, <1>6, PointersKeepTypes
<1>8. /\ ChainOf(entry.head, pair, w, m) /\ entry.tail = EndOf(w, m)
      /\ \E j \in 1 .. m : w[j] = c /\ FirstOf(pair, w, j) /\ PastOf(pair, w, m, j)
  BY <1>2 DEF IsNow, BucketOf, ChangingOf, PastOf, c
<1>9. PICK j \in 1 .. m : w[j] = c /\ FirstOf(pair, w, j) /\ PastOf(pair, w, m, j)
  BY <1>8
<1>10. e = IF j = 1 THEN NoPair ELSE w[j - 1]
  BY <1>9 DEF PastOf
<1>11. CASE j = 1
  <2>1. pair' = pair
    BY <1>4, <1>10, <1>11 DEF PointerSet
  <2>2. m # 0 /\ w[1] = c /\ \A i \in 1 .. m : pair[w[i]].prev = IF i <= 2 THEN NoPair ELSE w[i - 1]
    BY <1>9, <1>11 DEF PastOf
  <2>3. ChangingOf(entry.tail, pair, "unhead", c, w, m)
    BY <1>8, <2>2 DEF ChangingOf
  <2>4. StepsWell(w, m)
    BY <1>1, <1>2, <1>5, <1>6, <1>7, <1>8, <2>1, <2>3, ListStays DEF c
  <2> QED BY <1>1, <1>6, <1>7, <2>4
<1>12. CASE j # 1
  <2> DEFINE q == CutOut(w, m, j)
  <2>1. NextSet(pair, pair', w[j - 1], pair[w[j]].next)
    BY <1>5, <1>9, <1>10, <1>12 DEF NextSet, SameSeen
  <2>2. ChainOf(entry.head, pair', q, m - 1) /\ GoneOf(EndOf(w, m), pair', w[j], q, m - 1) /\ pair'[w[j]].next = pair[w[j]].next
    <3>1. ChainOf(entry.head, pair, w, m) /\ PastOf(pair, w, m, j)
      BY <1>8, <1>9
    <3>2. OutOf(entry.head, pair, pair', w, m, j)
      BY <3>1, <1>12, <2>1, PreviousIsUnlinked
    <3> QED BY <3>2 DEF OutOf
  <2> HIDE DEF q
  <2>3. ChangingOf(entry.tail, pair', "unhead", c, q, m - 1)
    BY <1>8, <1>9, <2>2 DEF ChangingOf
  <2>4. /\ w[j] = change.pair /\ change'.pair = change.pair /\ entry' = entry
        /\ change.pc \in {"after", "unhead"} /\ change'.pc \in {"unhead", "untail"}
    BY <1>1, <1>2, <1>9 DEF c
  <2>5. ChainOf(entry'.head, pair', q, m - 1) /\ ChangingOf(entry'.tail, pair', change'.pc, change.pair, q, m - 1)
    BY <1>2, <2>2, <2>3, <2>4 DEF c
  <2>6. StepsWell(w, m)
    BY <1>5, <1>6, <1>9, <2>2, <2>4, <2>5, ListLoses DEF q
  <2> QED BY <1>1, <1>6, <1>7, <2>6
<1> QED BY <1>11, <1>12

LEMMA UnlinkHeadSteps ==
  ASSUME MapTypes, NEW m \in Nat, NEW w \in [1 .. m -> Pair], IsNow(w, m), UnlinkHead
  PROVE  MapTypes' /\ bucketGone' = FALSE /\ StepsWell(w, m)
<1> DEFINE c == change.pair
<1>1. At("unhead") /\ Goto("untail") /\ UNCHANGED <<pair, allocated, inserts, finder, bucketGone>>
  BY DEF UnlinkHead
<1>2. ChangeTypes' /\ c \in Pair /\ change'.pair = c /\ change'.pc = "untail" /\ change.pc = "unhead"
  <2>1. ChangeTypes' /\ c \in Pair /\ change'.pair = c /\ change'.pc = "untail"
    BY <1>1, ChangesGoOn DEF MapTypes
  <2> QED BY <2>1, <1>1 DEF At
<1> HIDE DEF c
<1>3. /\ entry \in [head : Pair \cup {NoPair}, tail : Pair \cup {NoPair}] /\ pair \in [Pair -> PairRecord]
      /\ pair[c] \in PairRecord
  BY <1>2 DEF MapTypes, BucketTypes
<1>4. entry' \in [head : Pair \cup {NoPair}, tail : Pair \cup {NoPair}]
      /\ entry'.tail = entry.tail /\ entry'.head = IF entry.head = c THEN pair[c].next ELSE entry.head
  BY <1>3 DEF UnlinkHead, c, PairRecord
<1>5. SameSeen(pair, pair') /\ PointerRest /\ ~bucketGone
  BY <1>1 DEF SameSeen, PointerRest, At
<1>6. MapTypes'
  BY <1>1, <1>2, <1>3, <1>4, <1>5, PointersKeepTypes
<1>7. /\ ChainOf(entry.head, pair, w, m)
      /\ \/ /\ m # 0 /\ w[1] = c /\ entry.tail = EndOf(w, m)
            /\ \A i \in 1 .. m : pair[w[i]].prev = IF i <= 2 THEN NoPair ELSE w[i - 1]
         \/ GoneOf(entry.tail, pair, c, w, m)
  BY <1>2 DEF IsNow, BucketOf, ChangingOf, c
<1>8. CASE GoneOf(entry.tail, pair, c, w, m)
  <2>1. entry.head # c
    BY <1>2, <1>7, <1>8, NoPairIsNone DEF GoneOf, ChainOf, Listed
  <2>2. ChangingOf(entry.tail, pair, "untail", c, w, m)
    BY <1>8 DEF ChangingOf
  <2>3. StepsWell(w, m)
    BY <1>1, <1>2, <1>4, <1>5, <1>6, <1>7, <2>1, <2>2, ListStays DEF c
  <2> QED BY <1>1, <1>5, <1>6, <2>3
<1>9. CASE /\ m # 0 /\ w[1] = c /\ entry.tail = EndOf(w, m)
           /\ \A i \in 1 .. m : pair[w[i]].prev = IF i <= 2 THEN NoPair ELSE w[i - 1]
  <2> DEFINE q == CutOut(w, m, 1)
  <2>1. entry.head = c /\ 1 \in 1 .. m
    BY <1>7, <1>9 DEF ChainOf
  <2>2. ChainOf(pair[w[1]].next, pair, q, m - 1) /\ GoneOf(EndOf(w, m), pair, w[1], q, m - 1)
    BY <1>7, <1>9, HeadIsUnlinked
  <2> HIDE DEF q
  <2>3. ChangingOf(entry.tail, pair, "untail", c, q, m - 1)
    BY <1>9, <2>2 DEF ChangingOf
  <2>4. /\ w[1] = change.pair /\ change'.pair = change.pair /\ pair' = pair
        /\ change.pc \in {"after", "unhead"} /\ change'.pc \in {"unhead", "untail"}
    BY <1>1, <1>2, <1>9 DEF c
  <2>5. ChainOf(entry'.head, pair', q, m - 1) /\ ChangingOf(entry'.tail, pair', change'.pc, change.pair, q, m - 1)
    BY <1>2, <1>4, <1>9, <2>1, <2>2, <2>3, <2>4 DEF c
  <2>6. FirstOf(pair, w, 1) /\ pair'[w[1]].next = pair[w[1]].next
    BY <2>4 DEF FirstOf
  <2>7. StepsWell(w, m)
    BY <1>5, <2>1, <2>4, <2>5, <2>6, ListLoses DEF q
  <2> QED BY <1>1, <1>5, <1>6, <2>7
<1> QED BY <1>7, <1>8, <1>9

ContentFrom(h, P) == [i \in DOMAIN WalkOf(h, P) |-> Seen(P[WalkOf(h, P)[i]])]

LEMMA ContentIs ==
  /\ Content = IF bucketGone THEN <<>> ELSE ContentFrom(entry.head, pair)
  /\ Content' = IF bucketGone' THEN <<>> ELSE ContentFrom(entry'.head, pair')
BY WalkIsWalkOf DEF Content, ContentFrom, Seen

ValuesUpTo(P, A, n) == n \in 0 .. MaxInserts /\ \A p \in A : P[p].value \in 1 .. n

LEMMA ContentFollowsChain ==
  ASSUME NEW n, NEW A, NEW P, ValuesUpTo(P, A, n),
         NEW m \in Nat, NEW w \in [1 .. m -> Pair], Listed(w, m) \subseteq A, NEW h, ChainOf(h, P, w, m)
  PROVE  ContentFrom(h, P) = ContentOf(P, w, m)
<1> DEFINE v == [i \in 1 .. m |-> P[w[i]].value]
<1>1. \A i \in 1 .. m : w[i] \in A
  BY DEF Listed
<1>2. \A i \in 1 .. m : v[i] \in 1 .. n
  BY <1>1 DEF ValuesUpTo
<1>3. \A i, j \in 1 .. m : i < j => v[i] < v[j]
  BY DEF ChainOf
<1>4. n \in Nat /\ MaxInserts \in Nat /\ n <= MaxInserts
  BY MapAssumption DEF ValuesUpTo
<1> HIDE DEF v
<1>5. m <= n
  BY <1>2, <1>3, <1>4, AscendingNumbers
<1>6. m \in 0 .. MaxInserts
  BY <1>4, <1>5
<1>7. WalkOf(h, P) = w
  BY <1>6, WalkFollowsChain
<1> QED BY <1>7 DEF ContentFrom, ContentOf

GoneWell == change.pc = "idle" /\ allocated = {} /\ \A f \in Finder : ~Seeks(finder[f])
BucketGood == \E m \in Nat : \E w \in [1 .. m -> Pair] : IsNow(w, m)
MapInv == MapTypes /\ FindsWhatIsThere /\ (bucketGone => GoneWell) /\ (~bucketGone => BucketGood)

LEMMA FreePairSteps ==
  ASSUME MapTypes, NEW m \in Nat, NEW w \in [1 .. m -> Pair], IsNow(w, m), FreePair
  PROVE  MapTypes' /\ bucketGone' = FALSE /\ StepsWell(w, m)
<1> DEFINE c == change.pair
<1>1. /\ At("free") /\ change' = [pc |-> "idle", pair |-> NoPair] /\ allocated' = allocated \ {c}
      /\ Tear({c}) /\ UNCHANGED <<entry, pair, inserts, bucketGone>>
  BY DEF FreePair
<1>2. change.pc = "free" /\ ~bucketGone /\ c \in Pair
  BY <1>1 DEF At, MapTypes, ChangeTypes
<1>3. MapTypes'
  <2>1. FinderTypes'
    BY <1>1, TearKeepsTypes DEF MapTypes
  <2>2. ChangeTypes'
    BY <1>1 DEF ChangeTypes, Changes
  <2>3. BucketTypes' /\ FieldsSet'
    BY <1>1 DEF MapTypes, BucketTypes, FieldsSet
  <2> QED BY <2>1, <2>2, <2>3 DEF MapTypes
<1>4. /\ ChainOf(entry.head, pair, w, m) /\ c \notin Listed(w, m) /\ ReadyOf(entry.tail, pair, w, m)
      /\ allocated = Listed(w, m) \cup {c}
  BY <1>2 DEF IsNow, BucketOf, ChangingOf
<1>5. ChangingOf(entry.tail, pair, "idle", NoPair, w, m) /\ allocated' = Listed(w, m) /\ change'.pc = "idle" /\ change'.pair = NoPair
  BY <1>1, <1>4 DEF ChangingOf
<1>6. ASSUME NEW f \in Finder, Seeks(finder'[f]) PROVE SureOf(finder'[f], pair, "idle", NoPair, w, m)
  <2>1. finder'[f] = finder[f] /\ finder[f].at # c
    <3>1. finder'[f] = IF finder[f].at \in {c} THEN [finder[f] EXCEPT !.torn = TRUE] ELSE finder[f]
      BY <1>1 DEF Tear
    <3>2. CASE finder[f].at = c
      <4>1. finder[f] \in Finding /\ finder'[f] = [finder[f] EXCEPT !.torn = TRUE]
        BY <3>1, <3>2 DEF MapTypes, FinderTypes
      <4>2. finder'[f].torn
        BY <4>1 DEF Finding
      <4> QED BY <4>2, <1>6 DEF Seeks
    <3> QED BY <3>1, <3>2
  <2>2. AheadOf(pair, finder[f].at, finder[f].key, w, m)
    BY <1>2, <1>6, <2>1 DEF IsNow, BucketOf, SureOf
  <2> QED BY <2>1, <2>2 DEF SureOf
<1>7. BucketOf(entry', pair', allocated', change', finder', w, m)
  BY <1>1, <1>4, <1>5, <1>6 DEF BucketOf
<1>8. ListStep(ContentOf(pair, w, m), ContentOf(pair', w, m))
  BY <1>1 DEF ListStep
<1>9. StepsWell(w, m)
  BY <1>7, <1>8, StepsTo
<1> QED BY <1>1, <1>2, <1>3, <1>9

LEMMA DestroySteps ==
  ASSUME MapInv, DestroyHashMap
  PROVE  MapTypes' /\ bucketGone' = TRUE /\ GoneWell'
<1>1. /\ ~bucketGone /\ change.pc = "idle" /\ bucketGone' = TRUE /\ allocated' = {} /\ Tear(allocated)
      /\ UNCHANGED <<entry, pair, inserts, change>>
  BY DEF DestroyHashMap, At
<1>2. PICK m \in Nat : \E w \in [1 .. m -> Pair] : IsNow(w, m)
  BY <1>1 DEF MapInv, BucketGood
<1>3. PICK w \in [1 .. m -> Pair] : IsNow(w, m)
  BY <1>2
<1>4. MapTypes'
  <2>1. FinderTypes'
    BY <1>1, TearKeepsTypes DEF MapTypes, MapInv
  <2>2. BucketTypes' /\ FieldsSet' /\ ChangeTypes'
    BY <1>1 DEF MapTypes, BucketTypes, FieldsSet, ChangeTypes, MapInv
  <2> QED BY <2>1, <2>2 DEF MapTypes
<1>5. ASSUME NEW f \in Finder, Seeks(finder'[f]) PROVE FALSE
  <2>1. finder'[f] = IF finder[f].at \in allocated THEN [finder[f] EXCEPT !.torn = TRUE] ELSE finder[f]
    BY <1>1 DEF Tear
  <2>2. CASE finder[f].at \in allocated
    <3>1. finder[f] \in Finding /\ finder'[f] = [finder[f] EXCEPT !.torn = TRUE]
      BY <2>1, <2>2 DEF MapTypes, FinderTypes, MapInv
    <3>2. finder'[f].torn
      BY <3>1 DEF Finding
    <3> QED BY <3>2, <1>5 DEF Seeks
  <2>3. CASE finder[f].at \notin allocated
    <3>1. AheadOf(pair, finder[f].at, finder[f].key, w, m) /\ allocated = Listed(w, m)
      BY <1>1, <1>3, <1>5, <2>1, <2>3 DEF IsNow, BucketOf, SureOf
    <3>2. PICK i \in 1 .. m : \E g \in 1 .. i : finder[f].at = w[g]
      BY <3>1 DEF AheadOf
    <3>3. PICK g \in 1 .. m : finder[f].at = w[g]
      BY <3>2
    <3> QED BY <3>1, <3>3, <2>3 DEF Listed
  <2> QED BY <2>2, <2>3
<1> QED BY <1>1, <1>4, <1>5 DEF GoneWell

\* A finder goes on.
LEMMA FinderGoesOn ==
  ASSUME MapInv, NEW f \in Finder, NEW to \in Finding, Finds(f, to), FindRest,
         to.pc = "found" /\ to.sure /\ ~to.torn => to.result # 0,
         bucketGone => ~Seeks(to),
         \A m \in Nat : \A w \in [1 .. m -> Pair] :
           IsNow(w, m) /\ Seeks(to) /\ ~bucketGone => SureOf(to, pair, change.pc, change.pair, w, m)
  PROVE  MapInv'
<1>1. UNCHANGED <<entry, pair, allocated, inserts, change, bucketGone>>
  BY DEF FindRest
<1>2. finder \in [Finder -> Finding] /\ finder' \in [Finder -> Finding]
      /\ \A g \in Finder : finder'[g] = IF g = f THEN to ELSE finder[g]
  BY DEF MapInv, MapTypes, FinderTypes, Finds
<1>3. MapTypes'
  BY <1>1, <1>2 DEF MapInv, MapTypes, BucketTypes, ChangeTypes, FinderTypes, FieldsSet
<1>4. FindsWhatIsThere'
  BY <1>2 DEF MapInv, FindsWhatIsThere
<1>5. bucketGone' => GoneWell'
  BY <1>1, <1>2 DEF MapInv, GoneWell
<1>6. ASSUME ~bucketGone' PROVE BucketGood'
  <2>1. PICK m \in Nat : \E w \in [1 .. m -> Pair] : IsNow(w, m)
    BY <1>1, <1>6 DEF MapInv, BucketGood
  <2>2. PICK w \in [1 .. m -> Pair] : IsNow(w, m)
    BY <2>1
  <2>3. Seeks(to) => SureOf(to, pair, change.pc, change.pair, w, m)
    BY <1>1, <1>6, <2>2
  <2>4. \A g \in Finder : Seeks(finder'[g]) => SureOf(finder'[g], pair, change.pc, change.pair, w, m)
    BY <1>2, <2>2, <2>3 DEF IsNow, BucketOf
  <2>5. BucketOf(entry', pair', allocated', change', finder', w, m)
    BY <1>1, <2>2, <2>4 DEF IsNow, BucketOf
  <2> QED BY <2>5 DEF BucketGood, IsNow
<1> QED BY <1>3, <1>4, <1>5, <1>6 DEF MapInv

LEMMA BeginFindSteps == ASSUME MapInv, NEW f \in Finder, NEW k \in Key, BeginFind(f, k) PROVE MapInv'
<1> DEFINE s == InList(k) /\ ~(change.pc \in {"before", "after", "unhead"} /\ pair[change.pair].key = k)
           to == [pc |-> "walk", key |-> k, at |-> entry.head, result |-> 0, torn |-> FALSE, sure |-> s]
<1>1. ~bucketGone /\ Finds(f, to) /\ FindRest
  BY DEF BeginFind
<1>2. to \in Finding /\ to.key = k /\ to.at = entry.head /\ to.sure = s /\ to.pc = "walk"
  <2>1. s \in BOOLEAN /\ entry.head \in Pair \cup {NoPair} /\ 0 \in 0 .. MaxInserts
    BY MapAssumption DEF MapInv, MapTypes, BucketTypes
  <2> HIDE DEF s
  <2> QED BY <2>1 DEF Finding
<1> HIDE DEF to
<1>3. ASSUME NEW m \in Nat, NEW w \in [1 .. m -> Pair], IsNow(w, m), Seeks(to)
      PROVE  SureOf(to, pair, change.pc, change.pair, w, m)
  <2>1. s
    BY <1>2, <1>3, Zenon DEF Seeks
  <2>2. Walk = w /\ DOMAIN w = 1 .. m
    BY <1>3, WalkIs DEF MapInv
  <2>3. PICK i \in 1 .. m : pair[w[i]].key = k
    BY <2>1, <2>2 DEF InList
  <2>4. entry.head = w[1] /\ 1 \in 1 .. i
    BY <1>3, <2>3 DEF IsNow, BucketOf, ChainOf
  <2>5. AheadOf(pair, entry.head, k, w, m)
    BY <2>3, <2>4 DEF AheadOf
  <2>6. change.pc \in {"before", "after", "unhead"} => pair[change.pair].key # k
    BY <2>1
  <2> HIDE DEF s
  <2> QED BY <1>2, <2>5, <2>6 DEF SureOf
<1> HIDE DEF s
<1>4. to.pc # "found"
  BY <1>2
<1> QED BY <1>1, <1>2, <1>3, <1>4, FinderGoesOn

LEMMA FindStepSteps == ASSUME MapInv, NEW f \in Finder, FindStep(f) PROVE MapInv'
<1> DEFINE me == finder[f]
<1>1. /\ me.pc = "walk" /\ me.at # NoPair /\ ~me.torn /\ FindRest
      /\ IF pair[me.at].key = me.key
         THEN Finds(f, [me EXCEPT !.pc = "found", !.result = pair[me.at].value])
         ELSE Finds(f, [me EXCEPT !.at = pair[me.at].next])
  BY DEF FindStep
<1>2. me \in Finding /\ pair \in [Pair -> PairRecord]
  BY DEF MapInv, MapTypes, FinderTypes, BucketTypes
<1> HIDE DEF me
<1>3. me.at \in Pair /\ pair[me.at] \in PairRecord
  BY <1>1, <1>2 DEF Finding
\* A find that is sure to get its pair stands on a pair in use.
<1>4. ASSUME Seeks(me)
      PROVE  ~bucketGone /\ me.at \in allocated
  <2>1. ~bucketGone
    BY <1>4 DEF MapInv, GoneWell, me
  <2>2. PICK m \in Nat : \E w \in [1 .. m -> Pair] : IsNow(w, m)
    BY <2>1 DEF MapInv, BucketGood
  <2>3. PICK w \in [1 .. m -> Pair] : IsNow(w, m)
    BY <2>2
  <2>4. SureOf(me, pair, change.pc, change.pair, w, m)
    BY <1>4, <2>3 DEF IsNow, BucketOf, me
  <2>5. CASE AheadOf(pair, me.at, me.key, w, m)
    <3>1. me.at \in Listed(w, m)
      BY <2>5 DEF AheadOf, Listed
    <3> QED BY <2>1, <2>3, <3>1 DEF IsNow, BucketOf
  <2>6. CASE change.pc \in {"unhead", "untail", "free"} /\ me.at = change.pair
    BY <2>1, <2>3, <2>6 DEF IsNow, BucketOf
  <2> QED BY <2>4, <2>5, <2>6 DEF SureOf
<1>5. CASE pair[me.at].key = me.key
  <2> DEFINE to == [me EXCEPT !.pc = "found", !.result = pair[me.at].value]
  <2>1. to \in Finding /\ to.pc = "found" /\ to.sure = me.sure /\ to.torn = me.torn /\ to.result = pair[me.at].value
    BY <1>2, <1>3 DEF Finding, PairRecord
  <2>2. Finds(f, to) /\ FindRest
    BY <1>1, <1>5
  <2> HIDE DEF to
  <2>3. to.sure /\ ~to.torn => to.result # 0
    <3>1. ASSUME me.sure, ~me.torn PROVE pair[me.at].value # 0
      <4>1. me.at \in allocated
        BY <1>1, <1>4, <3>1 DEF Seeks
      <4>2. pair[me.at].value \in 1 .. inserts
        BY <4>1 DEF MapInv, MapTypes, FieldsSet
      <4> QED BY <4>2
    <3>2. CASE me.sure /\ ~me.torn
      BY <3>1, <3>2, <2>1
    <3>3. CASE ~(me.sure /\ ~me.torn)
      BY <3>3, <2>1, Zenon
    <3> QED BY <3>2, <3>3
  <2>4. ~Seeks(to)
    BY <2>1 DEF Seeks
  <2> QED BY <2>1, <2>2, <2>3, <2>4, FinderGoesOn
<1>6. CASE pair[me.at].key # me.key
  <2> DEFINE to == [me EXCEPT !.at = pair[me.at].next]
  <2>1. /\ to \in Finding /\ to.pc = "walk" /\ to.sure = me.sure /\ to.torn = me.torn /\ to.key = me.key
        /\ to.at = pair[me.at].next
    BY <1>1, <1>2, <1>3 DEF Finding, PairRecord
  <2>2. Finds(f, to) /\ FindRest
    BY <1>1, <1>6
  <2> HIDE DEF to
  <2>3. Seeks(to) => Seeks(me)
    BY <1>1, <2>1, Zenon DEF Seeks
  <2>4. ASSUME NEW m \in Nat, NEW w \in [1 .. m -> Pair], IsNow(w, m), Seeks(to)
        PROVE  SureOf(to, pair, change.pc, change.pair, w, m)
    <3>1. SureOf(me, pair, change.pc, change.pair, w, m)
      BY <2>3, <2>4 DEF IsNow, BucketOf, me
    <3>2. AheadOf(pair, pair[me.at].next, me.key, w, m)
      <4>1. CASE AheadOf(pair, me.at, me.key, w, m)
        <5>1. PICK i \in 1 .. m : pair[w[i]].key = me.key /\ \E g \in 1 .. i : me.at = w[g]
          BY <4>1 DEF AheadOf
        <5>2. PICK g \in 1 .. i : me.at = w[g]
          BY <5>1
        <5>3. g # i
          BY <1>6, <5>1, <5>2
        <5>4. g \in 1 .. m /\ g # m /\ g + 1 \in 1 .. i
          BY <5>3
        <5>5. pair[me.at].next = w[g + 1]
          BY <2>4, <5>2, <5>4 DEF IsNow, BucketOf, ChainOf
        <5> QED BY <5>1, <5>4, <5>5 DEF AheadOf
      <4>2. CASE me.at = change.pair /\ AheadOf(pair, pair[change.pair].next, me.key, w, m)
        BY <4>2
      <4> QED BY <3>1, <4>1, <4>2 DEF SureOf
    <3> QED BY <2>1, <3>1, <3>2 DEF SureOf
  <2>5. bucketGone => ~Seeks(to)
    BY <1>4, <2>3
  <2>6. to.pc # "found"
    BY <2>1
  <2> QED BY <2>1, <2>2, <2>4, <2>5, <2>6, FinderGoesOn
<1> QED BY <1>5, <1>6

LEMMA FindNothingSteps == ASSUME MapInv, NEW f \in Finder, FindNothing(f) PROVE MapInv'
<1> DEFINE me == finder[f]  to == [me EXCEPT !.pc = "found"]
<1>1. me.pc = "walk" /\ me.at = NoPair /\ FindRest /\ Finds(f, to)
  BY DEF FindNothing
<1>2. me \in Finding
  BY DEF MapInv, MapTypes, FinderTypes
<1> HIDE DEF me
<1>3. to \in Finding /\ to.pc = "found" /\ to.sure = me.sure /\ to.torn = me.torn
  BY <1>2 DEF Finding
<1> HIDE DEF to
<1>4. ~Seeks(me)
  <2> SUFFICES ASSUME Seeks(me) PROVE FALSE
    OBVIOUS
  <2>1. ~bucketGone
    BY DEF MapInv, GoneWell, me
  <2>2. PICK m \in Nat : \E w \in [1 .. m -> Pair] : IsNow(w, m)
    BY <2>1 DEF MapInv, BucketGood
  <2>3. PICK w \in [1 .. m -> Pair] : IsNow(w, m)
    BY <2>2
  <2>4. SureOf(me, pair, change.pc, change.pair, w, m)
    BY <2>3 DEF IsNow, BucketOf, me
  <2>5. ~AheadOf(pair, NoPair, me.key, w, m)
    BY NoPairIsNone DEF AheadOf
  <2>6. change.pc # "idle" => change.pair # NoPair
    BY NoPairIsNone DEF MapInv, MapTypes, ChangeTypes
  <2> QED BY <1>1, <2>4, <2>5, <2>6 DEF SureOf
<1>5. ~(to.sure /\ ~to.torn)
  BY <1>1, <1>3, <1>4, Zenon DEF Seeks
<1>6. ~Seeks(to)
  BY <1>5 DEF Seeks
<1> QED BY <1>1, <1>3, <1>5, <1>6, FinderGoesOn

LEMMA EndFindSteps == ASSUME MapInv, NEW f \in Finder, EndFind(f) PROVE MapInv'
<1> DEFINE to == [pc |-> "idle", key |-> NoKey, at |-> NoPair, result |-> 0, sure |-> FALSE, torn |-> FALSE]
<1>1. Finds(f, to) /\ FindRest
  BY DEF EndFind
<1>2. to \in Finding /\ ~Seeks(to) /\ to.pc # "found"
  BY MapAssumption DEF Finding, Seeks
<1> HIDE DEF to
<1> QED BY <1>1, <1>2, FinderGoesOn

LEMMA FoundStays ==
  ASSUME FinderTypes, FindsWhatIsThere,
         UNCHANGED finder \/ (\E k : NotSure(k)) \/ (\E gone : Tear(gone))
  PROVE  FindsWhatIsThere'
<1>0. \A f \in Finder : finder[f] \in Finding
  BY DEF FinderTypes
<1>1. CASE UNCHANGED finder
  BY <1>1 DEF FindsWhatIsThere
<1>2. ASSUME NEW k, NotSure(k) PROVE FindsWhatIsThere'
  <2>1. ASSUME NEW f \in Finder
        PROVE  /\ finder'[f].pc = finder[f].pc /\ finder'[f].result = finder[f].result /\ finder'[f].torn = finder[f].torn
               /\ finder'[f].sure => finder[f].sure
    <3>1. finder'[f] = IF finder[f].key = k THEN [finder[f] EXCEPT !.sure = FALSE] ELSE finder[f]
      BY <1>2 DEF NotSure
    <3> QED BY <3>1, <1>0 DEF Finding
  <2> QED BY <2>1, Zenon DEF FindsWhatIsThere
<1>3. ASSUME NEW gone, Tear(gone) PROVE FindsWhatIsThere'
  <2>1. ASSUME NEW f \in Finder
        PROVE  /\ finder'[f].pc = finder[f].pc /\ finder'[f].result = finder[f].result /\ finder'[f].sure = finder[f].sure
               /\ finder[f].torn => finder'[f].torn
    <3>1. finder'[f] = IF finder[f].at \in gone THEN [finder[f] EXCEPT !.torn = TRUE] ELSE finder[f]
      BY <1>3 DEF Tear
    <3> QED BY <3>1, <1>0 DEF Finding
  <2> QED BY <2>1, Zenon DEF FindsWhatIsThere
<1> QED BY <1>1, <1>2, <1>3

LEMMA ListFollows ==
  ASSUME MapInv, ~bucketGone, NEW m \in Nat, NEW w \in [1 .. m -> Pair], IsNow(w, m), MapTypes', bucketGone' = FALSE,
         StepsWell(w, m), FindsWhatIsThere'
  PROVE  MapInv' /\ ListStep(Content, Content')
<1>1. PICK m2 \in Nat : \E w2 \in [1 .. m2 -> Pair] :
        BucketOf(entry', pair', allocated', change', finder', w2, m2) /\ ListStep(ContentOf(pair, w, m), ContentOf(pair', w2, m2))
  BY DEF StepsWell
<1>2. PICK w2 \in [1 .. m2 -> Pair] :
        BucketOf(entry', pair', allocated', change', finder', w2, m2) /\ ListStep(ContentOf(pair, w, m), ContentOf(pair', w2, m2))
  BY <1>1
<1>3. MapInv'
  BY <1>2 DEF MapInv, BucketGood, IsNow
<1>4. Content = ContentOf(pair, w, m)
  <2>1. /\ ChainOf(entry.head, pair, w, m) /\ Listed(w, m) \subseteq allocated
        /\ ValuesUpTo(pair, allocated, inserts)
    BY DEF IsNow, BucketOf, MapInv, MapTypes, BucketTypes, FieldsSet, ValuesUpTo
  <2>2. ContentFrom(entry.head, pair) = ContentOf(pair, w, m)
    BY <2>1, ContentFollowsChain
  <2> QED BY <2>2, ContentIs
<1>5. Content' = ContentOf(pair', w2, m2)
  <2>1. /\ ChainOf(entry'.head, pair', w2, m2) /\ Listed(w2, m2) \subseteq allocated'
        /\ ValuesUpTo(pair', allocated', inserts')
    BY <1>2 DEF BucketOf, MapTypes, BucketTypes, FieldsSet, ValuesUpTo
  <2>2. ContentFrom(entry'.head, pair') = ContentOf(pair', w2, m2)
    BY <2>1, ContentFollowsChain
  <2> QED BY <2>2, ContentIs
<1> QED BY <1>2, <1>3, <1>4, <1>5

\* The steps of the processor that changes the list, but the last one.
ListChanges ==
  \/ \E k \in Key : BeginRemove(k) \/ \E p \in Pair : BeginInsert(k, p)
  \/ SetHead \/ LinkPair \/ SetTail
  \/ UnlinkNext \/ UnlinkPrevious \/ UnlinkHead \/ UnlinkTail \/ FreePair

LEMMA ListChangesFollow == ASSUME MapInv, ListChanges PROVE MapInv' /\ ListStep(Content, Content')
<1>1. ~bucketGone
  BY DEF ListChanges, At, BeginRemove, BeginInsert, SetHead, LinkPair, SetTail, UnlinkNext, UnlinkPrevious, UnlinkHead,
         UnlinkTail, FreePair
<1>2. PICK m \in Nat : \E w \in [1 .. m -> Pair] : IsNow(w, m)
  BY <1>1 DEF MapInv, BucketGood
<1>3. PICK w \in [1 .. m -> Pair] : IsNow(w, m)
  BY <1>2
<1>4. MapTypes
  BY DEF MapInv
<1>5. MapTypes' /\ bucketGone' = FALSE /\ StepsWell(w, m)
  <2>1. ASSUME NEW k \in Key, BeginRemove(k) PROVE MapTypes' /\ bucketGone' = FALSE /\ StepsWell(w, m)
    BY <1>3, <1>4, <2>1, BeginRemoveSteps
  <2>2. ASSUME NEW k \in Key, NEW p \in Pair, BeginInsert(k, p)
        PROVE  MapTypes' /\ bucketGone' = FALSE /\ StepsWell(w, m)
    BY <1>3, <1>4, <2>2, BeginInsertSteps
  <2>3. CASE SetHead
    BY <1>3, <1>4, <2>3, SetHeadSteps
  <2>4. CASE LinkPair
    BY <1>3, <1>4, <2>4, LinkPairSteps
  <2>5. CASE SetTail
    BY <1>3, <1>4, <2>5, SetTailSteps
  <2>6. CASE UnlinkNext
    BY <1>3, <1>4, <2>6, UnlinkNextSteps
  <2>7. CASE UnlinkPrevious
    BY <1>3, <1>4, <2>7, UnlinkPreviousSteps
  <2>8. CASE UnlinkHead
    BY <1>3, <1>4, <2>8, UnlinkHeadSteps
  <2>9. CASE UnlinkTail
    BY <1>3, <1>4, <2>9, UnlinkTailSteps
  <2>10. CASE FreePair
    BY <1>3, <1>4, <2>10, FreePairSteps
  <2> QED BY <2>1, <2>2, <2>3, <2>4, <2>5, <2>6, <2>7, <2>8, <2>9, <2>10, Zenon DEF ListChanges
<1>6. UNCHANGED finder \/ (\E k : NotSure(k)) \/ (\E gone : Tear(gone))
  BY DEF ListChanges, BeginRemove, BeginInsert, SetHead, LinkPair, SetTail, UnlinkNext, UnlinkPrevious, UnlinkHead,
         UnlinkTail, FreePair
<1>7. FindsWhatIsThere'
  BY <1>6, FoundStays DEF MapInv, MapTypes
<1> QED BY <1>1, <1>3, <1>5, <1>7, ListFollows

\* What a step does to the bucket as a list.
BucketStep == [Bucket!ListInsert \/ Bucket!ListRemove \/ Bucket!ListClear]_Content

LEMMA ListStepIsBucketStep == ListStep(Content, Content') => BucketStep
BY DEF ListStep, BucketStep, Bucket!ListInsert, Bucket!ListRemove

LEMMA MapStepIsListStep == ASSUME MapInv, [MapNext]_mapVars PROVE MapInv' /\ BucketStep
<1>1. CASE ListChanges
  BY <1>1, ListChangesFollow, ListStepIsBucketStep
<1>2. CASE DestroyHashMap
  <2>1. MapTypes' /\ bucketGone' = TRUE /\ GoneWell'
    BY <1>2, DestroySteps
  <2>2. FindsWhatIsThere'
    <3>1. \E gone : Tear(gone)
      BY <1>2 DEF DestroyHashMap
    <3> QED BY <3>1, FoundStays DEF MapInv, MapTypes
  <2>3. Content' = <<>>
    BY <2>1, ContentIs
  <2> QED BY <2>1, <2>2, <2>3 DEF MapInv, BucketStep, Bucket!ListClear
<1>3. ASSUME NEW f \in Finder, FindStep(f) \/ FindNothing(f) \/ EndFind(f) \/ \E k \in Key : BeginFind(f, k)
      PROVE  MapInv' /\ BucketStep
  <2>1. MapInv'
    BY <1>3, FindStepSteps, FindNothingSteps, EndFindSteps, BeginFindSteps, Zenon
  <2>2. UNCHANGED <<entry, pair, bucketGone>>
    BY <1>3 DEF FindStep, FindNothing, EndFind, BeginFind, FindRest
  <2>3. Content' = Content
    BY <2>2, ContentIs
  <2> QED BY <2>1, <2>3 DEF BucketStep
<1>4. CASE UNCHANGED mapVars
  <2>1. UNCHANGED <<entry, pair, allocated, inserts, change, finder, bucketGone>>
    BY <1>4 DEF mapVars
  <2>2. Content' = Content
    BY <2>1, ContentIs
  <2>3. MapInv'
    BY <2>1 DEF MapInv, MapTypes, BucketTypes, ChangeTypes, FinderTypes, FieldsSet, FindsWhatIsThere, GoneWell,
                BucketGood, IsNow
  <2> QED BY <2>2, <2>3 DEF BucketStep
<1> QED BY <1>1, <1>2, <1>3, <1>4, Zenon DEF MapNext, ListChanges

LEMMA MapInvBegins == MapInit => MapInv /\ Bucket!ListInit
<1> SUFFICES ASSUME MapInit PROVE MapInv /\ Bucket!ListInit
  OBVIOUS
<1> DEFINE w == [i \in 1 .. 0 |-> NoPair]
<1>1. MapTypes
  BY MapBegins
<1>2. /\ entry.head = NoPair /\ entry.tail = NoPair /\ allocated = {} /\ inserts = 0 /\ bucketGone = FALSE
      /\ change.pc = "idle" /\ \A f \in Finder : finder[f].pc = "idle"
  BY DEF MapInit
<1>3. w \in [1 .. 0 -> Pair] /\ 0 \in Nat /\ Listed(w, 0) = {} /\ \A i \in 1 .. 0 : FALSE
  BY DEF Listed
<1> HIDE DEF w
<1>4. ChainOf(entry.head, pair, w, 0)
  BY <1>2, <1>3 DEF ChainOf
<1>5. IsNow(w, 0)
  <2>1. ChangingOf(entry.tail, pair, change.pc, change.pair, w, 0)
    BY <1>2, <1>3 DEF ChangingOf, ReadyOf, BackOf, EndOf
  <2> QED BY <1>2, <1>3, <1>4, <2>1 DEF IsNow, BucketOf, Seeks
<1>6. MapInv
  <2>1. BucketGood
    BY <1>3, <1>5 DEF BucketGood
  <2> QED BY <1>1, <1>2, <2>1 DEF MapInv, FindsWhatIsThere
<1>7. Content = <<>>
  <2>1. ValuesUpTo(pair, allocated, inserts)
    BY <1>1, <1>2 DEF MapTypes, BucketTypes, ValuesUpTo
  <2>2. ContentFrom(entry.head, pair) = ContentOf(pair, w, 0)
    BY <1>2, <1>3, <1>4, <2>1, ContentFollowsChain
  <2>3. ContentOf(pair, w, 0) = <<>>
    BY <1>3 DEF ContentOf
  <2> QED BY <1>2, <2>2, <2>3, ContentIs
<1> QED BY <1>6, <1>7 DEF Bucket!ListInit

(* InsertHashMap and RemoveHashMap, one pointer at a time, implement the   *)
(* list of KeyedList: to a walk from the head a pair is appended in one    *)
(* step and taken in one step, whatever is going on; FindHashMap, between  *)
(* their steps, finds the pair of a key which is there from the beginning  *)
(* to the end of its walk, if no pair it stands on is freed.               *)
THEOREM MapBucketIsAList == MapSpec => BucketIsAList
<1>1. MapInit => MapInv /\ Bucket!ListInit
  BY MapInvBegins
<1>2. MapInv /\ [MapNext]_mapVars => MapInv' /\ BucketStep
  BY MapStepIsListStep
<1>3. MapInv => FindsWhatIsThere
  BY DEF MapInv
<1>4. BucketStep => [Bucket!ListInsert \/ Bucket!ListRemove \/ Bucket!ListClear]_Content
  BY DEF BucketStep
<1> QED BY <1>1, <1>2, <1>3, <1>4, PTL DEF MapSpec, BucketIsAList, Bucket!ListSpec

(* The types of a bucket of InitialiseHashMap, its pairs and its changes.  *)
THEOREM MapTypeCorrect == MapSpec => []MapTypeOK
<1>1. MapInit => MapInv
  BY MapInvBegins
<1>2. MapInv /\ [MapNext]_mapVars => MapInv'
  BY MapStepIsListStep
<1>3. MapInv => MapTypeOK
  BY DEF MapInv, MapTypes, BucketTypes, ChangeTypes, MapTypeOK, PairRecord, Changes
<1> QED BY <1>1, <1>2, <1>3, PTL DEF MapSpec
-----------------------------------------------------------------------------
(* The drivers together.                                                   *)

(* The types of the process driver and its analyzer.                       *)
LEMMA ProcessTypeCorrect == ProcessSpec => []ProcessTypeOK
<1>1. ProcessInv => ProcessTypeOK
  BY DEF ProcessInv
<1> QED BY ProcessInitInv, ProcessStepInv, <1>1, PTL DEF ProcessSpec

(* The types of the shared event list.                                     *)
LEMMA SharedTypeCorrect == SharedSpec => []SharedTypeOK
<1>1. SharedTypes => SharedTypeOK
  BY DEF SharedTypes, BitTypes, EndTypes, ContextTypes, ContextStates, SemaphoreTypes, ReaderTypes, Reader, SharedTypeOK
<1> QED BY SharedTypesHold, <1>1, PTL

(* A behaviour of the drivers together is one of each of them: a driver    *)
(* stutters unless it is the one whose steps are taken.                    *)
LEMMA DriversAreTheirParts ==
  DriversSpec => QueueSpec /\ FileSpec /\ ProcessSpec /\ TdiSpec /\ HandlersSpec /\ MapSpec /\ SharedSpec
<1>1. DriversInit => QueueInit /\ FileInit /\ ProcessInit /\ TdiInit /\ HandlersInit /\ MapInit /\ SharedInit
  BY DEF DriversInit
<1>2. ASSUME [DriversNext]_driverVars
      PROVE  /\ [QueueNext]_queueVars /\ [FileNext]_fileVars /\ [ProcessNext]_processVars /\ [TdiNext]_tdiVars
             /\ [HandlersNext]_handlerVars /\ [MapNext]_mapVars /\ [SharedNext]_sharedVars
  <2>1. CASE DriversNext
    BY <2>1, Zenon DEF DriversNext, OnQueue
  <2>2. CASE UNCHANGED driverVars
    BY <2>2 DEF driverVars
  <2> QED BY <1>2, <2>1, <2>2
<1>3. [DriversNext]_driverVars =>
        /\ [QueueNext]_queueVars /\ [FileNext]_fileVars /\ [ProcessNext]_processVars /\ [TdiNext]_tdiVars
        /\ [HandlersNext]_handlerVars /\ [MapNext]_mapVars /\ [SharedNext]_sharedVars
  BY <1>2
<1>4. DriversSpec => DriversInit /\ [][DriversNext]_driverVars
  BY PTL DEF DriversSpec
<1> QED BY <1>1, <1>3, <1>4, PTL DEF QueueSpec, FileSpec, ProcessSpec, TdiSpec, HandlersSpec, MapSpec, SharedSpec

(* The types of the variables of the drivers as MCDrivers puts them        *)
(* together: each runs after its DriverEntry, and the drivers share no     *)
(* state.                                                                  *)
THEOREM DriversTypeCorrect == DriversSpec => []DriversTypeOK
<1>1. /\ QueueTypeOK /\ FileTypeOK /\ ProcessTypeOK /\ TdiTypeOK /\ SharedTypeOK /\ HandlersTypeOK /\ MapTypeOK
      => DriversTypeOK
  BY DEF DriversTypeOK
<1> QED BY <1>1, DriversAreTheirParts, QueueTypeCorrect, FileTypeCorrect, ProcessTypeCorrect, TdiTypeCorrect,
           SharedTypeCorrect, HandlersTypeCorrect, MapTypeCorrect, PTL

(* The drivers keep in MCDrivers, which the run checks on one instance,    *)
(* what each is proved to keep for itself, for every instance:             *)
(* their queues are emptied when they are unloaded, file events have an    *)
(* owner, process events arrive, the connections that are referred to are  *)
(* there, the client gets what the handlers enqueue, unloading restores    *)
(* the handlers, queue and file driver are channels, deleted files were    *)
(* copied, and the bucket of the connection map is a list.                 *)
THEOREM DriversKeepTheirPromises ==
  DriversSpec =>
    /\ []UnloadFreesEverything /\ []EveryFileEventHasAnOwner /\ []NoProcessEventIsLost /\ []ReferencesAreAlive
    /\ []EventsReachTheClient /\ []UnloadRestores
    /\ DriversAreChannels /\ DeletedFileWasCopied /\ BucketIsAList
<1>1. ImplementsChannel /\ FileDriverIsAChannel => DriversAreChannels
  BY Zenon DEF DriversAreChannels
<1> QED BY <1>1, DriversAreTheirParts, UnloadFrees, FileEventsAreOwned, ProcessEventsArrive, ReferencesStayAlive,
           EventsReach, UnloadRestoresHandlers, DriverImplementsChannel, FileDriverImplementsChannel,
           DeletedFilesAreCopied, MapBucketIsAList, PTL
=============================================================================
