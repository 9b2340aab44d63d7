-------------------------- MODULE ClientVisitProofs --------------------------
(***************************************************************************)
(* Proofs about ClientVisit, for any groups, group sizes, error codes and  *)
(* numbers of worker threads and monitors: type correctness, that nothing  *)
(* a worker thread still needs is deleted, and that no wake-up of the      *)
(* visitor is lost.                                                        *)
(***************************************************************************)
EXTENDS ClientVisit, FiniteSets, FiniteSetTheorems, TLAPS

\* The workers with a URL, with an event to set, and with an event set.  They
\* hold the URLs that were given out and not counted; a worker may be in all
\* three sets, with three URLs.
Busy(wk)      == {w \in Worker : wk[w].busy}
Signalling(wk) == {w \in Worker : wk[w].pc = "signal"}
Finished(wk)  == {w \in Worker : wk[w].finished}
Pending(wk) ==
  Cardinality(Busy(wk)) + Cardinality(Signalling(wk)) + Cardinality(Finished(wk))

InPlugin == visitor.pc \in {"assign", "join", "close"}

\* A worker that is going to visit, or visits, is busy.
WorkerInv ==
  \A w \in Worker :
    /\ worker[w].hasData => worker[w].busy /\ worker[w].pc # "visit"
    /\ worker[w].pc = "visit" => worker[w].busy

\* No more is pending than was given out and not counted.
CountInv ==
  IF InPlugin
  THEN /\ visitor.visited + Pending(worker) <= visitor.next
       /\ visitor.next <= Size[visitor.group]
       /\ At("close") <=> visitor.visited = Size[visitor.group]
       /\ Len(code) = Size[visitor.group]
  ELSE Pending(worker) = 0

\* Each URL that was given out was visited, or is with a worker.
GivenInv ==
  InPlugin =>
    \A u \in 1 .. visitor.next :
      \/ code[u] # "none"
      \/ \E w \in Worker :
           /\ worker[w].busy
           /\ \/ worker[w].hasData /\ worker[w].data = u
              \/ worker[w].pc = "visit" /\ worker[w].url = u

Answering == {"stop", "answer"}

\* The queue has one group at most, one that has not been visited, and exactly
\* one thing is under way that makes the visitor take it.
QueueInv ==
  /\ toVisit = <<>> => receiver = "idle" /\ ~queueNotEmpty /\ ~At("pop")
  /\ toVisit # <<>> =>
       /\ Tail(toVisit) = <<>> /\ Head(toVisit) \in received
       /\ report[Head(toVisit)].answers = 0
       /\ visitor.pc \notin VisitPc \union Answering
       /\ \/ receiver = "pushed" /\ ~queueNotEmpty /\ ~At("pop")
          \/ receiver = "idle" /\ queueNotEmpty /\ ~At("pop")
          \/ receiver = "idle" /\ ~queueNotEmpty /\ At("pop")

\* Before its first answer, and between the two that an exception brings, the
\* group that is visited keeps the server from sending another one.
VisitInv ==
  /\ \A g \in Groups \ received : report[g].answers = 0
  /\ visitor.pc \in VisitPc \union Answering => visitor.group \in received
  /\ visitor.pc \in VisitPc => report[visitor.group].answers = 0
  /\ visitor.pc \in Answering =>
       \/ report[visitor.group].answers = 0
       \/ /\ report[visitor.group].answers = 1
          /\ report[visitor.group].notice = "EXCEPTION"
          /\ visitor.notice # "EXCEPTION"

IInv == TypeOK /\ WorkerInv /\ CountInv /\ GivenInv /\ QueueInv /\ VisitInv

WorkerRecord == [pc : {"wait", "visit", "signal"}, busy : BOOLEAN, data : Nat,
                 url : Nat, hasData : BOOLEAN, finished : BOOLEAN]

-----------------------------------------------------------------------------
(* The counters of the workers                                             *)

LEMMA PendingType ==
  ASSUME NEW wk
  PROVE  /\ IsFiniteSet(Busy(wk)) /\ Cardinality(Busy(wk)) \in Nat
         /\ IsFiniteSet(Signalling(wk)) /\ Cardinality(Signalling(wk)) \in Nat
         /\ IsFiniteSet(Finished(wk)) /\ Cardinality(Finished(wk)) \in Nat
         /\ Pending(wk) \in Nat
<1>1. IsFiniteSet(Worker)
  BY ClientAssumption, FS_Interval DEF Worker
<1>2. /\ Busy(wk) \in SUBSET Worker
      /\ Signalling(wk) \in SUBSET Worker
      /\ Finished(wk) \in SUBSET Worker
  BY DEF Busy, Signalling, Finished
<1>3. IsFiniteSet(Busy(wk)) /\ IsFiniteSet(Signalling(wk)) /\ IsFiniteSet(Finished(wk))
  BY <1>1, <1>2, FS_Subset
<1> QED BY <1>3, FS_CardinalityType DEF Pending

LEMMA GrowOrShrink ==
  ASSUME NEW S, IsFiniteSet(S), NEW x
  PROVE  /\ Cardinality(S \cup {x}) <= Cardinality(S) + 1
         /\ Cardinality(S \ {x}) <= Cardinality(S)
<1>1. Cardinality(S) \in Nat
  BY FS_CardinalityType
<1>2. Cardinality(S \cup {x}) \in {Cardinality(S), Cardinality(S) + 1}
  BY FS_AddElement
<1>3. Cardinality(S \ {x}) \in {Cardinality(S), Cardinality(S) - 1}
  BY FS_RemoveElement
<1> QED BY <1>1, <1>2, <1>3

LEMMA PendingZero ==
  ASSUME NEW wk
  PROVE  Pending(wk) = 0 <=> \A w \in Worker : /\ ~wk[w].busy /\ ~wk[w].finished
                                               /\ wk[w].pc # "signal"
<1>1. Pending(wk) = 0 <=> /\ Cardinality(Busy(wk)) = 0
                          /\ Cardinality(Signalling(wk)) = 0
                          /\ Cardinality(Finished(wk)) = 0
  BY PendingType DEF Pending
<1>2. Pending(wk) = 0 <=> Busy(wk) = {} /\ Signalling(wk) = {} /\ Finished(wk) = {}
  BY <1>1, PendingType, FS_EmptySet
<1> QED BY <1>2 DEF Busy, Signalling, Finished

\* What changes of the three counts mean for their sum.
LEMMA PendingSums ==
  ASSUME NEW wk, NEW new
  PROVE  LET b == Cardinality(Busy(wk))   s == Cardinality(Signalling(wk))
             f == Cardinality(Finished(wk))
             b2 == Cardinality(Busy(new)) s2 == Cardinality(Signalling(new))
             f2 == Cardinality(Finished(new))
         IN  /\ b2 = b + 1 /\ s2 = s /\ f2 = f => Pending(new) = Pending(wk) + 1
             /\ b2 = b - 1 /\ s2 <= s + 1 /\ f2 = f => Pending(new) <= Pending(wk)
             /\ b2 = b /\ s2 = s - 1 /\ f2 <= f + 1 => Pending(new) <= Pending(wk)
             /\ b2 = b /\ s2 = s /\ f2 = f - 1 => Pending(new) = Pending(wk) - 1
<1> DEFINE b == Cardinality(Busy(wk))
           s == Cardinality(Signalling(wk))
           f == Cardinality(Finished(wk))
           b2 == Cardinality(Busy(new))
           s2 == Cardinality(Signalling(new))
           f2 == Cardinality(Finished(new))
<1>1. b \in Nat /\ s \in Nat /\ f \in Nat /\ b2 \in Nat /\ s2 \in Nat /\ f2 \in Nat
  BY PendingType, Zenon
<1>2. Pending(wk) = b + s + f /\ Pending(new) = b2 + s2 + f2
  BY DEF Pending
<1> HIDE DEF b, s, f, b2, s2, f2
<1>3. /\ b2 = b + 1 /\ s2 = s /\ f2 = f => Pending(new) = Pending(wk) + 1
      /\ b2 = b - 1 /\ s2 <= s + 1 /\ f2 = f => Pending(new) <= Pending(wk)
      /\ b2 = b /\ s2 = s - 1 /\ f2 <= f + 1 => Pending(new) <= Pending(wk)
      /\ b2 = b /\ s2 = s /\ f2 = f - 1 => Pending(new) = Pending(wk) - 1
  BY <1>1, <1>2
<1> QED BY <1>3 DEF b, s, f, b2, s2, f2

\* Only the flags count.
LEMMA PendingSame ==
  ASSUME NEW wk, NEW new,
         \A w \in Worker : /\ new[w].busy = wk[w].busy
                           /\ (new[w].pc = "signal") = (wk[w].pc = "signal")
                           /\ new[w].finished = wk[w].finished
  PROVE  Pending(new) = Pending(wk)
<1>1. Busy(new) = Busy(wk)
  BY DEF Busy
<1>2. Signalling(new) = Signalling(wk)
  BY DEF Signalling
<1>3. Finished(new) = Finished(wk)
  BY DEF Finished
<1> QED BY <1>1, <1>2, <1>3 DEF Pending

\* A worker that gets a URL adds one.
LEMMA PendingAssign ==
  ASSUME NEW wk \in [Worker -> WorkerRecord], NEW w \in Worker, ~wk[w].busy,
         NEW r \in WorkerRecord, r.busy, r.pc = wk[w].pc, r.finished = wk[w].finished
  PROVE  Pending([wk EXCEPT ![w] = r]) = Pending(wk) + 1
<1> DEFINE new == [wk EXCEPT ![w] = r]
<1>f. IsFiniteSet(Busy(wk)) /\ IsFiniteSet(Signalling(wk)) /\ IsFiniteSet(Finished(wk))
  BY PendingType
<1>1. Busy(new) = Busy(wk) \cup {w} /\ w \notin Busy(wk)
  BY DEF Busy
<1>2. Signalling(new) = Signalling(wk) /\ Finished(new) = Finished(wk)
  BY DEF Signalling, Finished
<1> HIDE DEF new
<1>3. Cardinality(Busy(new)) = Cardinality(Busy(wk)) + 1
  BY <1>1, <1>f, FS_AddElement
<1>4. Pending(new) = Pending(wk) + 1
  BY <1>2, <1>3, PendingSums, Zenon
<1> QED BY <1>4 DEF new

\* One that has visited it is to signal instead.
LEMMA PendingBrowse ==
  ASSUME NEW wk \in [Worker -> WorkerRecord], NEW w \in Worker, wk[w].busy,
         NEW r \in WorkerRecord, ~r.busy, r.pc = "signal", r.finished = wk[w].finished
  PROVE  Pending([wk EXCEPT ![w] = r]) <= Pending(wk)
<1> DEFINE new == [wk EXCEPT ![w] = r]
<1>f. IsFiniteSet(Busy(wk)) /\ IsFiniteSet(Signalling(wk)) /\ IsFiniteSet(Finished(wk))
  BY PendingType
<1>1. Busy(new) = Busy(wk) \ {w} /\ w \in Busy(wk)
  BY DEF Busy
<1>2. Signalling(new) = Signalling(wk) \cup {w}
  BY DEF Signalling
<1>3. Finished(new) = Finished(wk)
  BY DEF Finished
<1> HIDE DEF new
<1>4. Cardinality(Busy(new)) = Cardinality(Busy(wk)) - 1
  BY <1>1, <1>f, FS_RemoveElement
<1>5. Cardinality(Signalling(new)) <= Cardinality(Signalling(wk)) + 1
  BY <1>2, <1>f, GrowOrShrink
<1>6. Pending(new) <= Pending(wk)
  BY <1>3, <1>4, <1>5, PendingSums, Zenon
<1> QED BY <1>6 DEF new

\* An event that is set twice counts once.
LEMMA PendingSignal ==
  ASSUME NEW wk \in [Worker -> WorkerRecord], NEW w \in Worker, wk[w].pc = "signal",
         NEW r \in WorkerRecord, r.busy = wk[w].busy, r.pc = "wait"
  PROVE  Pending([wk EXCEPT ![w] = r]) <= Pending(wk)
<1> DEFINE new == [wk EXCEPT ![w] = r]
<1>f. IsFiniteSet(Busy(wk)) /\ IsFiniteSet(Signalling(wk)) /\ IsFiniteSet(Finished(wk))
  BY PendingType
<1>1. Busy(new) = Busy(wk)
  BY DEF Busy
<1>2. Signalling(new) = Signalling(wk) \ {w} /\ w \in Signalling(wk)
  BY DEF Signalling
<1>3. CASE r.finished
  <2>1. Finished(new) = Finished(wk) \cup {w}
    BY <1>3 DEF Finished
  <2> HIDE DEF new
  <2>2. Cardinality(Signalling(new)) = Cardinality(Signalling(wk)) - 1
    BY <1>2, <1>f, FS_RemoveElement
  <2>3. Cardinality(Finished(new)) <= Cardinality(Finished(wk)) + 1
    BY <2>1, <1>f, GrowOrShrink
  <2>4. Pending(new) <= Pending(wk)
    BY <1>1, <2>2, <2>3, PendingSums, Zenon
  <2> QED BY <2>4 DEF new
<1>4. CASE ~r.finished
  <2>1. Finished(new) = Finished(wk) \ {w}
    BY <1>4 DEF Finished, WorkerRecord
  <2> HIDE DEF new
  <2>2. Cardinality(Signalling(new)) = Cardinality(Signalling(wk)) - 1
    BY <1>2, <1>f, FS_RemoveElement
  <2>3. Cardinality(Finished(new)) <= Cardinality(Finished(wk)) + 1
    <3> DEFINE f == Cardinality(Finished(wk))
               f2 == Cardinality(Finished(new))
    <3>1. f2 <= f
      BY <2>1, <1>f, GrowOrShrink
    <3>2. f \in Nat /\ f2 \in Nat
      BY PendingType, Zenon
    <3> HIDE DEF f, f2
    <3>3. f2 <= f + 1
      BY <3>1, <3>2
    <3> QED BY <3>3 DEF f, f2
  <2>4. Pending(new) <= Pending(wk)
    BY <1>1, <2>2, <2>3, PendingSums, Zenon
  <2> QED BY <2>4 DEF new
<1> QED BY <1>3, <1>4

\* The wait of visitGroup takes one away.
LEMMA PendingJoin ==
  ASSUME NEW wk \in [Worker -> WorkerRecord], NEW w \in Worker, wk[w].finished,
         NEW r \in WorkerRecord, r.busy = wk[w].busy, r.pc = wk[w].pc, ~r.finished
  PROVE  Pending([wk EXCEPT ![w] = r]) = Pending(wk) - 1
<1> DEFINE new == [wk EXCEPT ![w] = r]
<1>f. IsFiniteSet(Busy(wk)) /\ IsFiniteSet(Signalling(wk)) /\ IsFiniteSet(Finished(wk))
  BY PendingType
<1>1. Busy(new) = Busy(wk) /\ Signalling(new) = Signalling(wk)
  BY DEF Busy, Signalling
<1>2. Finished(new) = Finished(wk) \ {w} /\ w \in Finished(wk)
  BY DEF Finished
<1> HIDE DEF new
<1>3. Cardinality(Finished(new)) = Cardinality(Finished(wk)) - 1
  BY <1>2, <1>f, FS_RemoveElement
<1>4. Pending(new) = Pending(wk) - 1
  BY <1>1, <1>3, PendingSums, Zenon
<1> QED BY <1>4 DEF new

LEMMA CodeSet ==
  ASSUME NEW S, NEW q \in Seq(S), NEW u, NEW c \in S
  PROVE  /\ [q EXCEPT ![u] = c] \in Seq(S)
         /\ Len([q EXCEPT ![u] = c]) = Len(q)
         /\ \A v \in 1 .. Len(q) :
              [q EXCEPT ![u] = c][v] = IF v = u THEN c ELSE q[v]
<1>1. Len(q) \in Nat /\ DOMAIN q = 1 .. Len(q) /\ \A v \in 1 .. Len(q) : q[v] \in S
  OBVIOUS
<1> DEFINE new == [v \in 1 .. Len(q) |-> IF v = u THEN c ELSE q[v]]
<1>2. [q EXCEPT ![u] = c] = new
  BY <1>1
<1>3. new \in Seq(S) /\ Len(new) = Len(q)
  BY <1>1
<1> QED BY <1>2, <1>3

-----------------------------------------------------------------------------
(* The receiver thread                                                     *)

LEMMA InitIInv == Init => IInv
<1> SUFFICES ASSUME Init PROVE IInv
  OBVIOUS
<1>1. TypeOK
  <2>1. PICK g \in Groups :
          /\ visitor = [pc |-> "wait", group |-> g, next |-> 0, visited |-> 0,
                        i |-> 0, notice |-> "OK"]
          /\ monitor = [m \in Monitors |-> [pc |-> "idle", visit |-> g]]
    BY DEF Init
  <2>2. visitor \in [pc : VisitPc \union {"wait", "pop", "stop", "answer", "post"},
                     group : Groups, next : Nat, visited : Nat,
                     i : 0 .. MaxWorkerThreads, notice : Notices]
    BY <2>1, ClientAssumption DEF Notices
  <2>3. monitor \in [Monitors -> [pc : {"idle", "called", "flagged"}, visit : Groups]]
    BY <2>1
  <2>4. worker \in [Worker -> WorkerRecord]
    BY DEF Init, IdleWorker, WorkerRecord
  <2>5. report \in [Groups -> [started : BOOLEAN, answers : 0 .. 2, event : BOOLEAN,
                               malicious : BOOLEAN, notice : Notices]]
    BY DEF Init, Notices
  <2>6. code \in Seq(UrlCodes \union {"none"})
    BY DEF Init
  <2>7. /\ toVisit = <<>> /\ queueNotEmpty = FALSE /\ receiver = "idle"
        /\ received = {} /\ analyzer = [connected |-> FALSE, malicious |-> FALSE]
    BY DEF Init
  <2>8. toVisit \in Seq(Groups)
    BY <2>7
  <2>9. queueNotEmpty \in BOOLEAN /\ receiver \in {"idle", "pushed"}
    BY <2>7
  <2>10. received \subseteq Groups
    BY <2>7
  <2>11. analyzer \in [connected : BOOLEAN, malicious : BOOLEAN]
    BY <2>7
  <2> QED BY <2>2, <2>3, <2>4, <2>5, <2>6, <2>8, <2>9, <2>10, <2>11 DEF TypeOK, WorkerRecord
<1>2. WorkerInv
  BY DEF Init, WorkerInv, IdleWorker
<1>3. Pending(worker) = 0
  BY PendingZero DEF Init, IdleWorker
<1>4. CountInv /\ GivenInv
  BY <1>3 DEF Init, CountInv, GivenInv, InPlugin
<1>5. QueueInv /\ VisitInv
  BY DEF Init, QueueInv, VisitInv, At, VisitPc, Answering
<1> QED BY <1>1, <1>2, <1>4, <1>5 DEF IInv

\* A step that leaves the workers, the codes and the counters alone.
LEMMA CountFrame ==
  ASSUME CountInv, GivenInv, WorkerInv, UNCHANGED <<worker, code>>,
         \/ UNCHANGED visitor
         \/ ~InPlugin /\ ~InPlugin'
  PROVE  CountInv' /\ GivenInv' /\ WorkerInv'
<1>1. WorkerInv'
  BY DEF WorkerInv
<1>2. CASE UNCHANGED visitor
  BY <1>1, <1>2 DEF CountInv, GivenInv, InPlugin, At
<1>3. CASE ~InPlugin /\ ~InPlugin'
  BY <1>1, <1>3 DEF CountInv, GivenInv
<1> QED BY <1>2, <1>3

LEMMA ReceiveIInv == ASSUME IInv, NEW g \in Groups, Receive(g) PROVE IInv'
<1> USE DEF IInv
<1>1. TypeOK'
  BY DEF TypeOK, Receive
<1>2. CountInv' /\ GivenInv' /\ WorkerInv'
  BY CountFrame DEF Receive
<1>3. visitor.pc \notin VisitPc \union Answering
  BY ClientAssumption DEF VisitInv, Receive, ServerGoesOn
<1>4. toVisit = <<>>
  BY DEF QueueInv, Receive, ServerGoesOn, TypeOK
<1>5. visitor.pc # "pop" /\ ~queueNotEmpty
  BY <1>4 DEF QueueInv, At
<1>6. toVisit' # <<>> /\ Head(toVisit') = g /\ Tail(toVisit') = <<>>
  BY <1>4 DEF Receive
<1>7. report[g].answers = 0
  BY DEF VisitInv, Receive
<1>8. QueueInv'
  BY <1>3, <1>5, <1>6, <1>7 DEF QueueInv, Receive, At
<1>9. VisitInv'
  BY <1>3 DEF VisitInv, Receive
<1> QED BY <1>1, <1>2, <1>8, <1>9

LEMMA WakeVisitorIInv == ASSUME IInv, WakeVisitor PROVE IInv'
<1> USE DEF IInv
<1>1. TypeOK'
  BY DEF TypeOK, WakeVisitor
<1>2. CountInv' /\ GivenInv' /\ WorkerInv'
  BY CountFrame DEF WakeVisitor
<1>3. QueueInv'
  BY DEF QueueInv, WakeVisitor, At
<1>4. VisitInv'
  BY DEF VisitInv, WakeVisitor
<1> QED BY <1>1, <1>2, <1>3, <1>4

-----------------------------------------------------------------------------
(* The visitor thread                                                      *)

VisitorRecord == [pc : VisitPc \union {"wait", "pop", "stop", "answer", "post"},
                  group : Groups, next : Nat, visited : Nat,
                  i : 0 .. MaxWorkerThreads, notice : Notices]

LEMMA WaitIInv == ASSUME IInv, Wait PROVE IInv'
<1> USE DEF IInv
<1>1. visitor \in VisitorRecord /\ visitor' = [visitor EXCEPT !.pc = "pop"]
  BY DEF Wait, Goto, TypeOK, VisitorRecord
<1>2. visitor.pc = "wait" /\ visitor'.pc = "pop"
  BY <1>1 DEF Wait, At, VisitorRecord
<1>3. TypeOK'
  BY <1>1 DEF TypeOK, Wait, VisitorRecord
<1>4. CountInv' /\ GivenInv' /\ WorkerInv'
  BY <1>2, CountFrame DEF Wait, InPlugin
<1>5. QueueInv'
  BY <1>2 DEF QueueInv, Wait, At, VisitPc, Answering
<1>6. VisitInv'
  BY <1>2 DEF VisitInv, Wait, VisitPc, Answering
<1> QED BY <1>3, <1>4, <1>5, <1>6

LEMMA PopIInv == ASSUME IInv, Pop PROVE IInv'
<1> USE DEF IInv
<1>1. visitor.pc = "pop" /\ toVisit # <<>>
  BY DEF Pop, At
<1>2. /\ toVisit' = <<>> /\ receiver = "idle" /\ ~queueNotEmpty
      /\ Head(toVisit) \in received /\ report[Head(toVisit)].answers = 0
  BY <1>1 DEF QueueInv, Pop, At
<1>3. Head(toVisit) \in Groups
  BY <1>1 DEF TypeOK
<1>4. /\ visitor' \in VisitorRecord /\ visitor'.group = Head(toVisit)
      /\ visitor'.pc \in {"prestart", "wait"}
  BY <1>3 DEF TypeOK, Pop, VisitorRecord, VisitPc, Notices
<1>5. TypeOK'
  BY <1>2, <1>4 DEF TypeOK, Pop, VisitorRecord
<1>6. CountInv' /\ GivenInv' /\ WorkerInv'
  BY <1>1, <1>4, CountFrame DEF Pop, InPlugin
<1>7. QueueInv'
  BY <1>2, <1>4 DEF QueueInv, Pop, At
<1>8. VisitInv'
  BY <1>2, <1>4 DEF VisitInv, Pop, VisitPc, Answering
<1> QED BY <1>5, <1>6, <1>7, <1>8

\* A step from one part of the visit before the plug-in, or after it, to the
\* next one
LEMMA GotoIInv ==
  ASSUME IInv, NEW pc \in {"connect", "start", "alloc", "answer"}, Goto(pc),
         \/ pc # "answer" /\ visitor.pc \in {"prestart", "connect", "start"}
         \/ pc = "answer" /\ visitor.pc = "stop",
         UNCHANGED <<toVisit, queueNotEmpty, receiver, received, worker, code, monitor>>,
         analyzer' \in [connected : BOOLEAN, malicious : BOOLEAN],
         report' \in [Groups -> [started : BOOLEAN, answers : 0 .. 2, event : BOOLEAN,
                                 malicious : BOOLEAN, notice : Notices]],
         \A g \in Groups : /\ report'[g].answers = report[g].answers
                           /\ report'[g].notice = report[g].notice
  PROVE  IInv'
<1> USE DEF IInv
<1>1. visitor \in VisitorRecord /\ visitor' = [visitor EXCEPT !.pc = pc]
  BY DEF Goto, TypeOK, VisitorRecord
<1>2. /\ visitor'.pc = pc /\ visitor'.group = visitor.group
      /\ visitor'.notice = visitor.notice /\ visitor.group \in Groups
      /\ visitor' \in VisitorRecord
  BY <1>1 DEF VisitorRecord, VisitPc
<1>3. TypeOK'
  BY <1>2 DEF TypeOK, VisitorRecord
<1>4. CountInv' /\ GivenInv' /\ WorkerInv'
  BY <1>2, CountFrame DEF InPlugin
<1>5. toVisit = <<>>
  BY DEF QueueInv, VisitPc, Answering
<1>6. QueueInv'
  BY <1>2, <1>5 DEF QueueInv, At
<1>7. VisitInv'
  BY <1>2 DEF VisitInv, VisitPc, Answering, TypeOK
<1> QED BY <1>3, <1>4, <1>6, <1>7

ReportRecord == [started : BOOLEAN, answers : 0 .. 2, event : BOOLEAN,
                 malicious : BOOLEAN, notice : Notices]

\* A report that keeps its answers and its notice.
LEMMA ReportUpdate ==
  ASSUME NEW rep \in [Groups -> ReportRecord], NEW g \in Groups, NEW r \in ReportRecord,
         r.answers = rep[g].answers, r.notice = rep[g].notice
  PROVE  /\ [rep EXCEPT ![g] = r] \in [Groups -> ReportRecord]
         /\ \A h \in Groups : /\ [rep EXCEPT ![g] = r][h].answers = rep[h].answers
                              /\ [rep EXCEPT ![g] = r][h].notice = rep[h].notice
<1> DEFINE new == [rep EXCEPT ![g] = r]
<1>1. new \in [Groups -> ReportRecord] /\ new[g] = r /\ \A h \in Groups \ {g} : new[h] = rep[h]
  OBVIOUS
<1> HIDE DEF new
<1>2. \A h \in Groups : new[h].answers = rep[h].answers /\ new[h].notice = rep[h].notice
  BY <1>1
<1> QED BY <1>1, <1>2 DEF new

LEMMA StartingIInv ==
  ASSUME IInv, PreStart \/ Connect \/ Start \/ Stop
  PROVE  IInv'
<1>1. TypeOK /\ visitor.group \in Groups
  BY DEF IInv, TypeOK
<1>2. CASE PreStart
  BY <1>1, <1>2, GotoIInv DEF PreStart, At, TypeOK
<1>3. CASE Connect
  BY <1>1, <1>3, GotoIInv DEF Connect, At, TypeOK
<1>4. CASE Start
  <2>1. /\ report' \in [Groups -> [started : BOOLEAN, answers : 0 .. 2, event : BOOLEAN,
                                   malicious : BOOLEAN, notice : Notices]]
        /\ \A g \in Groups : /\ report'[g].answers = report[g].answers
                             /\ report'[g].notice = report[g].notice
    <3> DEFINE r == [report[visitor.group] EXCEPT !.started = TRUE]
    <3>1. report \in [Groups -> ReportRecord]
      BY <1>1 DEF TypeOK, ReportRecord
    <3>2. report[visitor.group] \in ReportRecord
      BY <1>1, <3>1
    <3>3. /\ r \in ReportRecord /\ r.answers = report[visitor.group].answers
          /\ r.notice = report[visitor.group].notice
      BY <3>2 DEF ReportRecord
    <3>4. report' = [report EXCEPT ![visitor.group] = r]
      BY <1>4 DEF Start
    <3> HIDE DEF r
    <3> QED BY <1>1, <3>1, <3>3, <3>4, ReportUpdate DEF ReportRecord
  <2> QED BY <1>1, <1>4, <2>1, GotoIInv DEF Start, At, TypeOK
<1>5. CASE Stop
  BY <1>1, <1>5, GotoIInv DEF Stop, At, TypeOK
<1> QED BY <1>2, <1>3, <1>4, <1>5

\* Inside a visit the queue is empty and the answer is to come.
LEMMA InsideVisit ==
  ASSUME QueueInv, VisitInv, visitor.pc \in VisitPc,
         visitor'.pc \in VisitPc \union {"stop"}, visitor'.group = visitor.group,
         UNCHANGED <<toVisit, queueNotEmpty, receiver, received, report>>
  PROVE  QueueInv' /\ VisitInv'
<1>1. toVisit = <<>>
  BY DEF QueueInv
<1>2. QueueInv'
  BY <1>1 DEF QueueInv, At, VisitPc
<1>3. VisitInv'
  BY DEF VisitInv, VisitPc, Answering
<1> QED BY <1>2, <1>3

LEMMA AllocateIInv == ASSUME IInv, Allocate PROVE IInv'
<1> USE DEF IInv
<1>1. visitor \in VisitorRecord /\ visitor.pc = "alloc"
  BY DEF Allocate, At, TypeOK, VisitorRecord
<1> DEFINE N == Size[visitor.group]
<1>2. N \in Nat /\ N > 0
  BY <1>1, ClientAssumption DEF VisitorRecord
<1>3. code' \in Seq(UrlCodes \union {"none"}) /\ Len(code') = N
  BY <1>2 DEF Allocate
<1>4. Pending(worker) = 0
  BY <1>1 DEF CountInv, InPlugin
<1>5. WorkerInv'
  BY DEF WorkerInv, Allocate
<1>6. CASE visitor' = [visitor EXCEPT !.pc = "stop", !.notice = "EXCEPTION"]
  <2>1. /\ visitor' \in VisitorRecord /\ visitor'.pc = "stop"
        /\ visitor'.group = visitor.group
    BY <1>1, <1>6 DEF VisitorRecord, Notices
  <2>2. TypeOK'
    BY <1>3, <2>1 DEF TypeOK, Allocate, VisitorRecord
  <2>3. CountInv' /\ GivenInv'
    BY <1>4, <2>1 DEF CountInv, GivenInv, InPlugin, Allocate
  <2>4. QueueInv' /\ VisitInv'
    BY <1>1, <2>1, InsideVisit DEF Allocate, VisitPc
  <2> QED BY <1>5, <2>2, <2>3, <2>4
<1>7. CASE visitor' = [visitor EXCEPT !.pc = "assign", !.next = 0, !.visited = 0, !.i = 0]
  <2> 0 \in 0 .. MaxWorkerThreads /\ "assign" \in VisitPc
    BY ClientAssumption DEF VisitPc
  <2>1. /\ visitor' \in VisitorRecord /\ visitor'.pc = "assign"
        /\ visitor'.group = visitor.group /\ visitor'.next = 0 /\ visitor'.visited = 0
    BY <1>1, <1>7 DEF VisitorRecord
  <2>2. TypeOK'
    BY <1>3, <2>1 DEF TypeOK, Allocate, VisitorRecord
  <2>3. CountInv'
    BY <1>2, <1>3, <1>4, <2>1 DEF CountInv, InPlugin, Allocate, At
  <2>4. GivenInv'
    BY <2>1 DEF GivenInv
  <2>5. QueueInv' /\ VisitInv'
    BY <1>1, <2>1, InsideVisit DEF Allocate, VisitPc
  <2> QED BY <1>5, <2>2, <2>3, <2>4, <2>5
<1> QED BY <1>6, <1>7 DEF Allocate

\* What the steps of one visit have in common
LEMMA PluginFacts ==
  ASSUME IInv, InPlugin
  PROVE  /\ visitor \in VisitorRecord /\ worker \in [Worker -> WorkerRecord]
         /\ visitor.pc \in VisitPc /\ visitor.group \in Groups
         /\ Size[visitor.group] \in Nat /\ Pending(worker) \in Nat
         /\ visitor.next \in Nat /\ visitor.visited \in Nat
<1>1. visitor \in VisitorRecord /\ worker \in [Worker -> WorkerRecord]
  BY DEF IInv, TypeOK, VisitorRecord, WorkerRecord
<1>2. visitor.group \in Groups /\ visitor.next \in Nat /\ visitor.visited \in Nat
  BY <1>1 DEF VisitorRecord
<1>3. Size[visitor.group] \in Nat
  BY <1>2, ClientAssumption
<1> QED BY <1>1, <1>2, <1>3, PendingType DEF InPlugin, VisitPc

LEMMA AssignIInv == ASSUME IInv, Assign PROVE IInv'
<1> USE DEF IInv
<1>1. InPlugin /\ visitor.pc = "assign"
  BY DEF Assign, At, InPlugin
<1>2. /\ visitor \in VisitorRecord /\ worker \in [Worker -> WorkerRecord]
      /\ Size[visitor.group] \in Nat /\ Pending(worker) \in Nat
      /\ visitor.next \in Nat /\ visitor.visited \in Nat
  BY <1>1, PluginFacts
<1>w. PICK w \in Worker : w = visitor.i /\ w + 1 \in 0 .. MaxWorkerThreads
  BY <1>2, ClientAssumption DEF Assign, Worker, VisitorRecord
<1>3. \/ /\ ~worker[w].busy /\ visitor.next < Size[visitor.group]
         /\ visitor' = [visitor EXCEPT !.i = w + 1, !.next = @ + 1]
         /\ worker' = [worker EXCEPT ![w].data = visitor.next + 1,
                          ![w].busy = TRUE, ![w].hasData = TRUE]
      \/ visitor' = [visitor EXCEPT !.i = w + 1] /\ UNCHANGED worker
  BY <1>w DEF Assign
<1>4. CASE /\ ~worker[w].busy /\ visitor.next < Size[visitor.group]
           /\ visitor' = [visitor EXCEPT !.i = w + 1, !.next = @ + 1]
           /\ worker' = [worker EXCEPT ![w].data = visitor.next + 1,
                            ![w].busy = TRUE, ![w].hasData = TRUE]
  <2> DEFINE r == [worker[w] EXCEPT !.data = visitor.next + 1, !.busy = TRUE,
                                    !.hasData = TRUE]
  <2>1. worker[w] \in WorkerRecord /\ visitor.next + 1 \in Nat
    BY <1>2
  <2>2. /\ r \in WorkerRecord /\ r.busy = TRUE /\ r.pc = worker[w].pc
        /\ r.hasData = TRUE /\ r.finished = worker[w].finished
        /\ r.data = visitor.next + 1
    BY <2>1 DEF WorkerRecord
  <2>3. worker' = [worker EXCEPT ![w] = r]
    BY <1>2, <1>4
  <2> HIDE DEF r
  <2>4. /\ worker' \in [Worker -> WorkerRecord] /\ worker'[w] = r
        /\ \A v \in Worker \ {w} : worker'[v] = worker[v]
    BY <1>2, <2>2, <2>3
  <2>5. Pending(worker') = Pending(worker) + 1
    <3>1. Pending([worker EXCEPT ![w] = r]) = Pending(worker) + 1
      BY <1>2, <1>4, <2>2, PendingAssign
    <3> QED BY <2>3, <3>1
  <2> "assign" \in VisitPc
    BY DEF VisitPc
  <2>6. /\ visitor' \in VisitorRecord /\ visitor'.pc = "assign"
        /\ visitor'.group = visitor.group /\ visitor'.visited = visitor.visited
        /\ visitor'.next = visitor.next + 1
    <3> DEFINE s == [visitor EXCEPT !.i = w + 1, !.next = visitor.next + 1]
    <3>1. visitor' = s
      BY <1>4
    <3>2. s \in VisitorRecord
      BY <1>2, <1>w, <2>1 DEF VisitorRecord
    <3>3. /\ s.pc = visitor.pc /\ s.group = visitor.group /\ s.visited = visitor.visited
          /\ s.next = visitor.next + 1
      BY <1>2 DEF VisitorRecord
    <3> HIDE DEF s
    <3> QED BY <1>1, <3>1, <3>2, <3>3
  <2>7. TypeOK'
    BY <2>4, <2>6 DEF TypeOK, Assign, VisitorRecord, WorkerRecord
  <2>8. WorkerInv'
    <3>1. worker[w].pc # "visit"
      BY <1>4 DEF WorkerInv
    <3> QED BY <2>2, <2>4, <3>1 DEF WorkerInv
  <2>9. CountInv'
    <3> DEFINE p == Pending(worker)
               q == Pending(worker')
    <3>1. /\ visitor.visited + p <= visitor.next /\ visitor.next < Size[visitor.group]
          /\ visitor.visited \in Nat /\ visitor.next \in Nat /\ Size[visitor.group] \in Nat
          /\ p \in Nat /\ q = p + 1
      BY <1>1, <1>2, <1>4, <2>5 DEF CountInv
    <3> HIDE DEF p, q
    <3>2. /\ visitor.visited + q <= visitor.next + 1
          /\ visitor.next + 1 <= Size[visitor.group]
      BY <3>1
    <3>3. /\ Len(code) = Size[visitor.group] /\ code' = code
          /\ visitor.visited # Size[visitor.group]
      BY <1>1 DEF CountInv, At, Assign
    <3> QED BY <2>6, <3>2, <3>3 DEF CountInv, InPlugin, At, q
  <2>10. GivenInv'
    <3> SUFFICES ASSUME NEW u \in 1 .. visitor.next + 1
                 PROVE  \/ code[u] # "none"
                        \/ \E v \in Worker :
                             /\ worker'[v].busy
                             /\ \/ worker'[v].hasData /\ worker'[v].data = u
                                \/ worker'[v].pc = "visit" /\ worker'[v].url = u
      BY <2>6 DEF GivenInv, Assign
    <3>1. CASE u = visitor.next + 1
      BY <2>2, <2>4, <3>1
    <3>2. CASE u \in 1 .. visitor.next
      BY <1>1, <1>4, <2>4, <3>2 DEF GivenInv
    <3> QED BY <1>2, <3>1, <3>2
  <2>11. QueueInv' /\ VisitInv'
    BY <1>1, <2>6, InsideVisit DEF Assign, VisitPc
  <2> QED BY <2>7, <2>8, <2>9, <2>10, <2>11
<1>5. CASE visitor' = [visitor EXCEPT !.i = w + 1] /\ UNCHANGED worker
  <2>1. /\ visitor' \in VisitorRecord /\ visitor'.pc = "assign"
        /\ visitor'.group = visitor.group /\ visitor'.visited = visitor.visited
        /\ visitor'.next = visitor.next
    BY <1>1, <1>2, <1>w, <1>5 DEF VisitorRecord
  <2>2. TypeOK'
    BY <1>5, <2>1 DEF TypeOK, Assign, VisitorRecord
  <2>3. WorkerInv' /\ CountInv' /\ GivenInv'
    BY <1>1, <1>5, <2>1 DEF WorkerInv, CountInv, GivenInv, InPlugin, At, Assign
  <2>4. QueueInv' /\ VisitInv'
    BY <1>1, <2>1, InsideVisit DEF Assign, VisitPc
  <2> QED BY <2>2, <2>3, <2>4
<1> QED BY <1>3, <1>4, <1>5

LEMMA EndAssignIInv == ASSUME IInv, EndAssign PROVE IInv'
<1> USE DEF IInv
<1>1. InPlugin /\ visitor.pc = "assign"
  BY DEF EndAssign, At, InPlugin
<1>2. visitor \in VisitorRecord /\ "join" \in VisitPc
  BY <1>1, PluginFacts DEF VisitPc
<1>3. /\ visitor' \in VisitorRecord /\ visitor'.pc = "join"
      /\ visitor'.group = visitor.group /\ visitor'.visited = visitor.visited
      /\ visitor'.next = visitor.next
  BY <1>2 DEF EndAssign, Goto, VisitorRecord
<1>4. TypeOK'
  BY <1>3 DEF TypeOK, EndAssign, VisitorRecord
<1>5. WorkerInv' /\ CountInv' /\ GivenInv'
  BY <1>1, <1>3 DEF WorkerInv, CountInv, GivenInv, InPlugin, At, EndAssign
<1>6. QueueInv' /\ VisitInv'
  BY <1>1, <1>3, InsideVisit DEF EndAssign, VisitPc
<1> QED BY <1>4, <1>5, <1>6

\* The end of the loop's body, once n URLs are counted
LEMMA LoopFacts ==
  ASSUME IInv, At("join"), NEW n \in Nat, n <= Size[visitor.group], Loop(n)
  PROVE  /\ visitor' \in VisitorRecord /\ visitor'.pc \in {"assign", "close"}
         /\ visitor'.pc = "close" <=> n = Size[visitor.group]
         /\ visitor'.visited = n /\ visitor'.next = visitor.next
         /\ visitor'.group = visitor.group
<1>1. InPlugin
  BY DEF At, InPlugin
<1>2. visitor \in VisitorRecord /\ Size[visitor.group] \in Nat
  BY <1>1, PluginFacts
<1>3. 0 \in 0 .. MaxWorkerThreads /\ "assign" \in VisitPc /\ "close" \in VisitPc
  BY ClientAssumption DEF VisitPc
<1>4. CASE n < Size[visitor.group]
  <2>1. visitor' = [visitor EXCEPT !.visited = n, !.i = 0, !.pc = "assign"]
    BY <1>4 DEF Loop
  <2>2. visitor' \in VisitorRecord
    BY <1>2, <1>3, <2>1 DEF VisitorRecord
  <2>3. /\ visitor'.pc = "assign" /\ visitor'.visited = n
        /\ visitor'.next = visitor.next /\ visitor'.group = visitor.group
    BY <1>2, <2>1 DEF VisitorRecord
  <2> QED BY <1>2, <1>4, <2>2, <2>3
<1>5. CASE ~(n < Size[visitor.group])
  <2>1. visitor' = [visitor EXCEPT !.visited = n, !.i = 0, !.pc = "close"]
    BY <1>5 DEF Loop
  <2>2. visitor' \in VisitorRecord
    BY <1>2, <1>3, <2>1 DEF VisitorRecord
  <2>3. /\ visitor'.pc = "close" /\ visitor'.visited = n
        /\ visitor'.next = visitor.next /\ visitor'.group = visitor.group
    BY <1>2, <2>1 DEF VisitorRecord
  <2> QED BY <1>2, <1>5, <2>2, <2>3
<1> QED BY <1>4, <1>5

LEMMA JoinIInv == ASSUME IInv, Join PROVE IInv'
<1> USE DEF IInv
<1>1. InPlugin /\ visitor.pc = "join"
  BY DEF Join, At, InPlugin
<1>2. /\ worker \in [Worker -> WorkerRecord] /\ Size[visitor.group] \in Nat
      /\ Pending(worker) \in Nat /\ visitor.next \in Nat /\ visitor.visited \in Nat
  BY <1>1, PluginFacts
<1>3. PICK w \in Worker :
        /\ worker[w].finished
        /\ worker' = [worker EXCEPT ![w].finished = FALSE]
        /\ Loop(IF worker[w].busy THEN visitor.visited ELSE visitor.visited + 1)
  BY DEF Join
<1> DEFINE r == [worker[w] EXCEPT !.finished = FALSE]
           n == IF worker[w].busy THEN visitor.visited ELSE visitor.visited + 1
<1>4. worker[w] \in WorkerRecord
  BY <1>2
<1>5. /\ r \in WorkerRecord /\ r.busy = worker[w].busy /\ r.pc = worker[w].pc
      /\ ~r.finished /\ r.data = worker[w].data /\ r.url = worker[w].url
      /\ r.hasData = worker[w].hasData
  BY <1>4 DEF WorkerRecord
<1>6. worker' = [worker EXCEPT ![w] = r]
  BY <1>2, <1>3
<1> HIDE DEF r
<1>7. /\ worker' \in [Worker -> WorkerRecord] /\ worker'[w] = r
      /\ \A v \in Worker \ {w} : worker'[v] = worker[v]
  BY <1>2, <1>5, <1>6
<1>8. Pending(worker') = Pending(worker) - 1
  <2>1. Pending([worker EXCEPT ![w] = r]) = Pending(worker) - 1
    BY <1>2, <1>3, <1>5, PendingJoin
  <2> QED BY <1>6, <2>1
<1>9. Pending(worker') \in Nat
  BY PendingType
<1>10. n \in Nat /\ n + Pending(worker') <= visitor.next /\ n <= Size[visitor.group]
  <2> DEFINE p == Pending(worker)
             q == Pending(worker')
  <2>1. /\ visitor.visited + p <= visitor.next /\ visitor.next <= Size[visitor.group]
        /\ visitor.visited \in Nat /\ visitor.next \in Nat /\ Size[visitor.group] \in Nat
        /\ p \in Nat /\ q \in Nat /\ q = p - 1
    BY <1>1, <1>2, <1>8, <1>9 DEF CountInv
  <2>2. n \in {visitor.visited, visitor.visited + 1}
    OBVIOUS
  <2> HIDE DEF p, q, n
  <2>3. n \in Nat /\ n + q <= visitor.next /\ n <= Size[visitor.group]
    BY <2>1, <2>2
  <2> QED BY <2>3 DEF q
<1>11. /\ visitor' \in VisitorRecord /\ visitor'.pc \in {"assign", "close"}
       /\ visitor'.pc = "close" <=> n = Size[visitor.group]
       /\ visitor'.visited = n /\ visitor'.next = visitor.next
       /\ visitor'.group = visitor.group
  BY <1>1, <1>3, <1>10, LoopFacts DEF At
<1> HIDE DEF n
<1>12. TypeOK'
  BY <1>7, <1>11 DEF TypeOK, Join, VisitorRecord, WorkerRecord
<1>13. WorkerInv'
  BY <1>5, <1>7 DEF WorkerInv
<1>14. CountInv'
  BY <1>1, <1>2, <1>10, <1>11 DEF CountInv, InPlugin, At, Join
<1>15. GivenInv'
  BY <1>1, <1>5, <1>7, <1>11 DEF GivenInv, Join
<1>16. QueueInv' /\ VisitInv'
  BY <1>1, <1>11, InsideVisit DEF Join, VisitPc
<1> QED BY <1>12, <1>13, <1>14, <1>15, <1>16

LEMMA JoinTimeoutIInv == ASSUME IInv, JoinTimeout PROVE IInv'
<1> USE DEF IInv
<1>1. InPlugin /\ visitor.pc = "join"
  BY DEF JoinTimeout, At, InPlugin
<1>2. /\ Size[visitor.group] \in Nat /\ Pending(worker) \in Nat
      /\ visitor.next \in Nat /\ visitor.visited \in Nat
  BY <1>1, PluginFacts
<1>3. visitor.visited <= Size[visitor.group]
  BY <1>1, <1>2 DEF CountInv
<1>4. /\ visitor' \in VisitorRecord /\ visitor'.pc \in {"assign", "close"}
      /\ visitor'.pc = "close" <=> visitor.visited = Size[visitor.group]
      /\ visitor'.visited = visitor.visited /\ visitor'.next = visitor.next
      /\ visitor'.group = visitor.group
  BY <1>2, <1>3, LoopFacts DEF JoinTimeout
<1>5. TypeOK'
  BY <1>4 DEF TypeOK, JoinTimeout, VisitorRecord
<1>6. WorkerInv' /\ CountInv' /\ GivenInv'
  BY <1>1, <1>4 DEF WorkerInv, CountInv, GivenInv, InPlugin, At, JoinTimeout
<1>7. QueueInv' /\ VisitInv'
  BY <1>1, <1>4, InsideVisit DEF JoinTimeout, VisitPc
<1> QED BY <1>5, <1>6, <1>7

\* When all URLs are counted none is pending, and so each one was visited.
LEMMA CloseFacts ==
  ASSUME IInv, At("close")
  PROVE  /\ Pending(worker) = 0 /\ Len(code) = Size[visitor.group]
         /\ \A w \in Worker : /\ ~worker[w].busy /\ ~worker[w].hasData
                              /\ worker[w].pc # "visit"
         /\ \A u \in 1 .. Size[visitor.group] : code[u] # "none"
<1>1. InPlugin
  BY DEF At, InPlugin
<1>2. /\ Size[visitor.group] \in Nat /\ Pending(worker) \in Nat
      /\ visitor.next \in Nat /\ visitor.visited \in Nat
  BY <1>1, PluginFacts
<1>3. /\ Pending(worker) = 0 /\ visitor.next = Size[visitor.group]
      /\ Len(code) = Size[visitor.group]
  BY <1>1, <1>2 DEF IInv, CountInv
<1>4. \A w \in Worker : ~worker[w].busy
  BY <1>3, PendingZero
<1>5. \A w \in Worker : ~worker[w].hasData /\ worker[w].pc # "visit"
  BY <1>4 DEF IInv, WorkerInv
<1>6. \A u \in 1 .. Size[visitor.group] : code[u] # "none"
  BY <1>1, <1>3, <1>4 DEF IInv, GivenInv
<1> QED BY <1>3, <1>4, <1>5, <1>6

LEMMA CloseIInv == ASSUME IInv, Close PROVE IInv'
<1> USE DEF IInv
<1>1. InPlugin /\ visitor.pc = "close"
  BY DEF Close, At, InPlugin
<1>2. visitor \in VisitorRecord /\ Size[visitor.group] \in Nat
  BY <1>1, PluginFacts
<1>3. /\ Pending(worker) = 0 /\ Len(code) = Size[visitor.group]
      /\ \A u \in 1 .. Size[visitor.group] : code[u] # "none"
  BY CloseFacts DEF Close
<1>4. \A u \in 1 .. Len(code) : code[u] \in UrlCodes
  BY <1>3 DEF TypeOK
<1>5. JointCode(code) \in Notices
  <2>1. Size[visitor.group] > 0
    BY <1>2, ClientAssumption DEF VisitorRecord
  <2>2. Len(code) \in 1 .. Len(code)
    BY <1>2, <1>3, <2>1
  <2>3. code[Len(code)] \in Notices
    BY <1>4, <2>2 DEF UrlCodes, Notices
  <2> QED BY <2>3 DEF JointCode, Notices
<1>6. SetErrorCode(JointCode(code), "WARNING") \in Notices
  BY DEF SetErrorCode, Notices
<1>7. PICK n \in Notices : visitor' = [visitor EXCEPT !.pc = "stop", !.notice = n]
  BY <1>5, <1>6 DEF Close
<1>8. /\ visitor' \in VisitorRecord /\ visitor'.pc = "stop"
      /\ visitor'.group = visitor.group
  BY <1>2, <1>7 DEF VisitorRecord
<1>9. TypeOK'
  BY <1>8 DEF TypeOK, Close, VisitorRecord
<1>10. WorkerInv' /\ CountInv' /\ GivenInv'
  BY <1>3, <1>8 DEF WorkerInv, CountInv, GivenInv, InPlugin, Close
<1>11. QueueInv' /\ VisitInv'
  BY <1>1, <1>8, InsideVisit DEF Close, VisitPc
<1> QED BY <1>9, <1>10, <1>11

LEMMA AnswerIInv == ASSUME IInv, Answer PROVE IInv'
<1> USE DEF IInv
<1>1. visitor \in VisitorRecord /\ visitor.pc = "answer" /\ visitor.group \in Groups
  BY DEF Answer, At, TypeOK, VisitorRecord
<1> DEFINE g == visitor.group
<1>2. g \in received /\ toVisit = <<>>
  BY <1>1 DEF VisitInv, QueueInv, Answering
<1>3. report[g].answers \in {0, 1}
  BY <1>1 DEF VisitInv, Answering
<1>4. visitor.notice = "EXCEPTION" => report[g].answers = 0
  BY <1>1 DEF VisitInv, Answering
<1> DEFINE r == [report[g] EXCEPT !.answers = @ + 1, !.malicious = analyzer.malicious,
                                  !.notice = visitor.notice]
           Report == [started : BOOLEAN, answers : 0 .. 2, event : BOOLEAN,
                      malicious : BOOLEAN, notice : Notices]
<1>5. report \in [Groups -> Report] /\ report[g] \in Report
  BY <1>1 DEF TypeOK
<1>6. /\ r \in Report /\ r.answers = report[g].answers + 1
      /\ r.notice = visitor.notice
  <2>1. report[g].answers + 1 \in 0 .. 2
    BY <1>3
  <2>2. analyzer.malicious \in BOOLEAN /\ visitor.notice \in Notices
    BY <1>1 DEF TypeOK, VisitorRecord
  <2> QED BY <1>5, <2>1, <2>2
<1>7. report' = [report EXCEPT ![g] = r]
  BY <1>5 DEF Answer
<1> HIDE DEF r, Report
<1>8. /\ report' \in [Groups -> Report] /\ report'[g] = r
      /\ \A h \in Groups \ {g} : report'[h] = report[h]
  BY <1>1, <1>5, <1>6, <1>7
<1>9. /\ visitor' \in VisitorRecord /\ visitor'.group = g /\ visitor'.notice = "OK"
      /\ visitor'.pc = IF visitor.notice = "EXCEPTION" THEN "stop" ELSE "post"
  BY <1>1 DEF Answer, VisitorRecord, Notices
<1>10. TypeOK'
  BY <1>8, <1>9 DEF TypeOK, Answer, VisitorRecord, Report
<1>11. CountInv' /\ GivenInv' /\ WorkerInv'
  BY <1>1, <1>9, CountFrame DEF Answer, InPlugin
<1>12. QueueInv'
  BY <1>1, <1>2, <1>9 DEF QueueInv, Answer, At
<1>13. VisitInv'
  <2>1. \A h \in Groups \ received' : report'[h].answers = 0
    BY <1>2, <1>8 DEF VisitInv, Answer
  <2>2. visitor'.pc \notin VisitPc /\ (visitor'.pc = "stop" => visitor.notice = "EXCEPTION")
    BY <1>9 DEF VisitPc
  <2>3. visitor'.pc = "stop" =>
          report'[g].answers = 1 /\ report'[g].notice = "EXCEPTION"
    BY <1>4, <1>6, <1>8, <2>2
  <2>4. visitor'.pc \in Answering => visitor'.pc = "stop"
    BY <1>9 DEF Answering
  <2>5. visitor'.group \in received'
    BY <1>2, <1>9 DEF Answer
  <2> QED BY <1>9, <2>1, <2>2, <2>3, <2>4, <2>5 DEF VisitInv
<1> QED BY <1>10, <1>11, <1>12, <1>13

LEMMA PostFinishIInv == ASSUME IInv, PostFinish PROVE IInv'
<1> USE DEF IInv
<1>1. visitor \in VisitorRecord /\ visitor.pc = "post"
  BY DEF PostFinish, At, TypeOK, VisitorRecord
<1>2. visitor' \in VisitorRecord /\ visitor'.pc = "wait"
  BY <1>1 DEF PostFinish, Goto, VisitorRecord
<1>3. TypeOK'
  BY <1>2 DEF TypeOK, PostFinish, VisitorRecord
<1>4. CountInv' /\ GivenInv' /\ WorkerInv'
  BY <1>1, <1>2, CountFrame DEF PostFinish, InPlugin
<1>5. QueueInv'
  BY <1>1, <1>2 DEF QueueInv, PostFinish, At, VisitPc, Answering
<1>6. VisitInv'
  BY <1>2 DEF VisitInv, PostFinish, VisitPc, Answering
<1> QED BY <1>3, <1>4, <1>5, <1>6

-----------------------------------------------------------------------------
(* The worker threads and the monitors                                     *)

\* The steps of a worker leave the queue and the answers alone.
LEMMA WorkerFrame ==
  ASSUME QueueInv, VisitInv,
         UNCHANGED <<toVisit, queueNotEmpty, receiver, received, visitor, report>>
  PROVE  QueueInv' /\ VisitInv'
<1>1. QueueInv'
  BY DEF QueueInv, At
<1>2. VisitInv'
  BY DEF VisitInv
<1> QED BY <1>1, <1>2

LEMMA TakeIInv == ASSUME IInv, NEW w \in Worker, Take(w) PROVE IInv'
<1> USE DEF IInv
<1> DEFINE r == [worker[w] EXCEPT !.pc = "visit", !.hasData = FALSE,
                                  !.url = worker[w].data]
<1>1. worker \in [Worker -> WorkerRecord] /\ worker[w] \in WorkerRecord
  BY DEF TypeOK, WorkerRecord
<1>2. /\ worker[w].pc = "wait" /\ worker[w].hasData /\ worker[w].busy
  BY DEF Take, WorkerInv
<1>3. /\ r \in WorkerRecord /\ r.pc = "visit" /\ ~r.hasData
      /\ r.busy = worker[w].busy /\ r.finished = worker[w].finished
      /\ r.url = worker[w].data
  BY <1>1 DEF WorkerRecord
<1>4. worker' = [worker EXCEPT ![w] = r]
  BY <1>1 DEF Take
<1> HIDE DEF r
<1>5. /\ worker' \in [Worker -> WorkerRecord] /\ worker'[w] = r
      /\ \A v \in Worker \ {w} : worker'[v] = worker[v]
  BY <1>1, <1>3, <1>4
<1>6. Pending(worker') = Pending(worker)
  <2>1. \A v \in Worker : /\ worker'[v].busy = worker[v].busy
                          /\ (worker'[v].pc = "signal") = (worker[v].pc = "signal")
                          /\ worker'[v].finished = worker[v].finished
    BY <1>2, <1>3, <1>5
  <2> QED BY <2>1, PendingSame
<1>7. TypeOK'
  BY <1>5 DEF TypeOK, Take, WorkerRecord
<1>8. WorkerInv'
  BY <1>2, <1>3, <1>5 DEF WorkerInv
<1>9. CountInv'
  BY <1>6 DEF CountInv, InPlugin, At, Take
<1>10. GivenInv'
  <2> SUFFICES ASSUME InPlugin, NEW u \in 1 .. visitor.next, code[u] = "none"
               PROVE  \E v \in Worker :
                        /\ worker'[v].busy
                        /\ \/ worker'[v].hasData /\ worker'[v].data = u
                           \/ worker'[v].pc = "visit" /\ worker'[v].url = u
    BY DEF GivenInv, InPlugin, Take
  <2>1. PICK v \in Worker :
          /\ worker[v].busy
          /\ \/ worker[v].hasData /\ worker[v].data = u
             \/ worker[v].pc = "visit" /\ worker[v].url = u
    BY DEF GivenInv
  <2>2. CASE v = w
    BY <1>2, <1>3, <1>5, <2>1, <2>2
  <2>3. CASE v # w
    BY <1>5, <2>1, <2>3
  <2> QED BY <2>2, <2>3
<1>11. QueueInv' /\ VisitInv'
  BY WorkerFrame DEF Take
<1> QED BY <1>7, <1>8, <1>9, <1>10, <1>11

LEMMA BrowseIInv == ASSUME IInv, NEW w \in Worker, Browse(w) PROVE IInv'
<1> USE DEF IInv
<1> DEFINE r == [worker[w] EXCEPT !.pc = "signal", !.busy = FALSE]
<1>1. worker \in [Worker -> WorkerRecord] /\ worker[w] \in WorkerRecord
  BY DEF TypeOK, WorkerRecord
<1>2. worker[w].pc = "visit" /\ worker[w].busy /\ ~worker[w].hasData
  BY DEF Browse, WorkerInv
<1>3. /\ r \in WorkerRecord /\ r.pc = "signal" /\ ~r.busy
      /\ r.hasData = worker[w].hasData /\ r.finished = worker[w].finished
  BY <1>1 DEF WorkerRecord
<1>4. worker' = [worker EXCEPT ![w] = r]
  BY <1>1 DEF Browse
<1> HIDE DEF r
<1>5. /\ worker' \in [Worker -> WorkerRecord] /\ worker'[w] = r
      /\ \A v \in Worker \ {w} : worker'[v] = worker[v]
  BY <1>1, <1>3, <1>4
<1>6. Pending(worker') <= Pending(worker)
  <2>1. Pending([worker EXCEPT ![w] = r]) <= Pending(worker)
    BY <1>1, <1>2, <1>3, PendingBrowse
  <2> QED BY <1>4, <2>1
<1>7. PICK c \in UrlCodes : code' = [code EXCEPT ![worker[w].url] = c]
  BY DEF Browse
<1>8. /\ code' \in Seq(UrlCodes \union {"none"}) /\ Len(code') = Len(code)
      /\ \A u \in 1 .. Len(code) : code'[u] = IF u = worker[w].url THEN c ELSE code[u]
  <2>1. code \in Seq(UrlCodes \union {"none"})
    BY DEF TypeOK
  <2>2. c \in UrlCodes \union {"none"}
    BY <1>7
  <2> DEFINE u == worker[w].url
             S == UrlCodes \union {"none"}
  <2>3. code' = [code EXCEPT ![u] = c]
    BY <1>7
  <2> HIDE DEF u, S
  <2>4. code \in Seq(S) /\ c \in S
    BY <2>1, <2>2 DEF S
  <2> DEFINE new == [code EXCEPT ![u] = c]
  <2>n. /\ new \in Seq(S) /\ Len(new) = Len(code)
        /\ \A v \in 1 .. Len(code) : new[v] = IF v = u THEN c ELSE code[v]
    BY <2>4, CodeSet
  <2> HIDE DEF new
  <2>5. /\ code' \in Seq(S) /\ Len(code') = Len(code)
        /\ \A v \in 1 .. Len(code) : code'[v] = IF v = u THEN c ELSE code[v]
    BY <2>3, <2>n DEF new
  <2> QED BY <2>5 DEF u, S
<1>9. TypeOK'
  BY <1>5, <1>8 DEF TypeOK, Browse, WorkerRecord
<1>10. WorkerInv'
  BY <1>2, <1>3, <1>5 DEF WorkerInv
<1>11. Pending(worker') \in Nat /\ Pending(worker) \in Nat
  BY PendingType
<1>12. InPlugin
  <2>1. Pending(worker) # 0
    BY <1>2, PendingZero
  <2> QED BY <2>1 DEF CountInv
<1>13. /\ Size[visitor.group] \in Nat /\ visitor.next \in Nat
       /\ visitor.visited \in Nat
  BY <1>12, PluginFacts
<1>14. CountInv'
  BY <1>6, <1>8, <1>11, <1>12, <1>13 DEF CountInv, InPlugin, At, Browse
<1>15. GivenInv'
  <2> SUFFICES ASSUME NEW u \in 1 .. visitor.next, code'[u] = "none"
               PROVE  \E v \in Worker :
                        /\ worker'[v].busy
                        /\ \/ worker'[v].hasData /\ worker'[v].data = u
                           \/ worker'[v].pc = "visit" /\ worker'[v].url = u
    BY DEF GivenInv, InPlugin, Browse
  <2>1. u \in 1 .. Len(code)
    BY <1>12, <1>13 DEF CountInv
  <2>2. c # "none"
    BY ClientAssumption DEF UrlCodes
  <2>3. u # worker[w].url /\ code[u] = "none"
    BY <1>8, <2>1, <2>2
  <2>4. PICK v \in Worker :
          /\ worker[v].busy
          /\ \/ worker[v].hasData /\ worker[v].data = u
             \/ worker[v].pc = "visit" /\ worker[v].url = u
    BY <1>12, <2>3 DEF GivenInv
  <2>5. v # w
    BY <1>2, <2>3, <2>4
  <2> QED BY <1>5, <2>4, <2>5
<1>16. QueueInv' /\ VisitInv'
  BY WorkerFrame DEF Browse
<1> QED BY <1>9, <1>10, <1>14, <1>15, <1>16

LEMMA SignalIInv == ASSUME IInv, NEW w \in Worker, Signal(w) PROVE IInv'
<1> USE DEF IInv
<1> DEFINE r == [worker[w] EXCEPT !.pc = "wait", !.finished = TRUE]
<1>1. worker \in [Worker -> WorkerRecord] /\ worker[w] \in WorkerRecord
  BY DEF TypeOK, WorkerRecord
<1>2. worker[w].pc = "signal"
  BY DEF Signal
<1>3. /\ r \in WorkerRecord /\ r.pc = "wait" /\ r.busy = worker[w].busy
      /\ r.hasData = worker[w].hasData /\ r.data = worker[w].data
  BY <1>1 DEF WorkerRecord
<1>4. worker' = [worker EXCEPT ![w] = r]
  BY <1>1 DEF Signal
<1> HIDE DEF r
<1>5. /\ worker' \in [Worker -> WorkerRecord] /\ worker'[w] = r
      /\ \A v \in Worker \ {w} : worker'[v] = worker[v]
  BY <1>1, <1>3, <1>4
<1>6. Pending(worker') <= Pending(worker)
  <2>1. Pending([worker EXCEPT ![w] = r]) <= Pending(worker)
    BY <1>1, <1>2, <1>3, PendingSignal
  <2> QED BY <1>4, <2>1
<1>7. Pending(worker') \in Nat /\ Pending(worker) \in Nat
  BY PendingType
<1>8. InPlugin
  <2>1. Pending(worker) # 0
    BY <1>2, PendingZero
  <2> QED BY <2>1 DEF CountInv
<1>9. /\ Size[visitor.group] \in Nat /\ visitor.next \in Nat
      /\ visitor.visited \in Nat
  BY <1>8, PluginFacts
<1>10. TypeOK'
  BY <1>5 DEF TypeOK, Signal, WorkerRecord
<1>11. WorkerInv'
  BY <1>2, <1>3, <1>5 DEF WorkerInv
<1>12. CountInv'
  BY <1>6, <1>7, <1>8, <1>9 DEF CountInv, InPlugin, At, Signal
<1>13. GivenInv'
  <2> SUFFICES ASSUME NEW u \in 1 .. visitor.next, code[u] = "none"
               PROVE  \E v \in Worker :
                        /\ worker'[v].busy
                        /\ \/ worker'[v].hasData /\ worker'[v].data = u
                           \/ worker'[v].pc = "visit" /\ worker'[v].url = u
    BY DEF GivenInv, InPlugin, Signal
  <2>1. PICK v \in Worker :
          /\ worker[v].busy
          /\ \/ worker[v].hasData /\ worker[v].data = u
             \/ worker[v].pc = "visit" /\ worker[v].url = u
    BY <1>8 DEF GivenInv
  <2>2. CASE v = w
    BY <1>2, <1>3, <1>5, <2>1, <2>2
  <2>3. CASE v # w
    BY <1>5, <2>1, <2>3
  <2> QED BY <2>2, <2>3
<1>14. QueueInv' /\ VisitInv'
  BY WorkerFrame DEF Signal
<1> QED BY <1>10, <1>11, <1>12, <1>13, <1>14

LEMMA MonitorIInv == ASSUME IInv, NEW m \in Monitors, MonitorStep(m) PROVE IInv'
<1> USE DEF IInv
<1>1. /\ UNCHANGED <<toVisit, queueNotEmpty, receiver, received, visitor, worker, code>>
      /\ analyzer' \in [connected : BOOLEAN, malicious : BOOLEAN]
      /\ monitor' \in [Monitors -> [pc : {"idle", "called", "flagged"}, visit : Groups]]
  <2> DEFINE M == [pc : {"idle", "called", "flagged"}, visit : Groups]
  <2>m. monitor \in [Monitors -> M] /\ monitor[m] \in M /\ visitor.group \in Groups
    BY DEF TypeOK
  <2>u. ASSUME NEW r \in M, monitor' = [monitor EXCEPT ![m] = r]
        PROVE  monitor' \in [Monitors -> M]
    <3> HIDE DEF M
    <3> QED BY <2>m, <2>u
  <2>1. CASE Event(m)
    <3>1. [pc |-> "called", visit |-> visitor.group] \in M
      BY <2>m
    <3>2. monitor' \in [Monitors -> M]
      BY <2>1, <3>1, <2>u DEF Event
    <3> QED BY <2>1, <3>2 DEF Event, TypeOK
  <2>2. CASE Flag(m)
    <3>1. [monitor[m] EXCEPT !.pc = "flagged"] \in M
      BY <2>m
    <3>2. monitor' = [monitor EXCEPT ![m] = [monitor[m] EXCEPT !.pc = "flagged"]]
      BY <2>2 DEF Flag
    <3>3. monitor' \in [Monitors -> M]
      BY <3>1, <3>2, <2>u
    <3> QED BY <2>2, <3>3 DEF Flag, TypeOK
  <2>3. CASE SendEvent(m)
    <3>1. [monitor[m] EXCEPT !.pc = "idle"] \in M
      BY <2>m
    <3>2. monitor' = [monitor EXCEPT ![m] = [monitor[m] EXCEPT !.pc = "idle"]]
      BY <2>3 DEF SendEvent
    <3>3. monitor' \in [Monitors -> M]
      BY <3>1, <3>2, <2>u
    <3> QED BY <2>3, <3>3 DEF SendEvent, TypeOK
  <2> QED BY <2>1, <2>2, <2>3 DEF MonitorStep
<1>2. /\ report' \in [Groups -> [started : BOOLEAN, answers : 0 .. 2, event : BOOLEAN,
                                malicious : BOOLEAN, notice : Notices]]
      /\ \A g \in Groups : /\ report'[g].answers = report[g].answers
                           /\ report'[g].notice = report[g].notice
  <2>1. CASE report' = report
    BY <2>1 DEF TypeOK
  <2>2. CASE report' = [report EXCEPT ![visitor.group].event = TRUE]
    <3> DEFINE r == [report[visitor.group] EXCEPT !.event = TRUE]
    <3>1. report \in [Groups -> ReportRecord] /\ visitor.group \in Groups
      BY DEF TypeOK, ReportRecord
    <3>2. report[visitor.group] \in ReportRecord
      BY <3>1
    <3>3. /\ r \in ReportRecord /\ r.answers = report[visitor.group].answers
          /\ r.notice = report[visitor.group].notice
      BY <3>2 DEF ReportRecord
    <3>4. report' = [report EXCEPT ![visitor.group] = r]
      BY <2>2
    <3> HIDE DEF r
    <3> QED BY <3>1, <3>3, <3>4, ReportUpdate DEF ReportRecord
  <2> QED BY <2>1, <2>2 DEF MonitorStep, Event, Flag, SendEvent
<1>3. TypeOK'
  BY <1>1, <1>2 DEF TypeOK
<1>4. CountInv' /\ GivenInv' /\ WorkerInv'
  BY <1>1, CountFrame
<1>5. toVisit # <<>> => Head(toVisit) \in Groups
  BY DEF TypeOK
<1>6. QueueInv'
  BY <1>1, <1>2, <1>5 DEF QueueInv, At
<1>7. visitor.group \in Groups
  BY DEF TypeOK
<1>8. VisitInv'
  BY <1>1, <1>2, <1>7 DEF VisitInv
<1> QED BY <1>3, <1>4, <1>6, <1>8

-----------------------------------------------------------------------------
(* The events and the verdict                                              *)

Calling(m) == monitor[m].pc # "idle"
Fresh(g) == ~report[g].event /\ \A m \in Monitors : Calling(m) => monitor[m].visit # g

\* What an event of this visit does before it is sent
Covered ==
  \/ analyzer.malicious
  \/ /\ ~report[visitor.group].event
     /\ \A m \in Monitors :
          monitor[m].pc = "flagged" => monitor[m].visit # visitor.group

Listening == (VisitPc \ {"prestart", "connect"}) \union {"stop"}

\* Analyzer.start forgets the last visit before the callbacks of the next one
\* are connected, and no callback can belong to a visit that has not begun.
EventInv ==
  /\ analyzer.connected => visitor.pc \in Listening
  /\ \A m \in Monitors : Calling(m) => monitor[m].visit \in received
  /\ \A g \in Groups \ received : ~report[g].event
  /\ toVisit # <<>> => Fresh(Head(toVisit))
  /\ visitor.pc \in {"prestart", "connect"} => Fresh(visitor.group)
  /\ visitor.pc \in VisitPc \union Answering => Covered
  /\ VerdictCoversEvents

LEMMA InitEventInv == Init => EventInv
<1> SUFFICES ASSUME Init PROVE EventInv
  OBVIOUS
<1>1. /\ analyzer.connected = FALSE /\ toVisit = <<>> /\ visitor.pc = "wait"
      /\ \A m \in Monitors : monitor[m].pc = "idle"
      /\ \A g \in Groups : report[g].event = FALSE
  BY DEF Init
<1> QED BY <1>1 DEF EventInv, Calling, VerdictCoversEvents, VisitPc, Answering

\* The steps of the plug-in and of its worker threads
LEMMA EventFrame ==
  ASSUME EventInv, UNCHANGED <<toVisit, received, analyzer, monitor, report>>,
         visitor'.group = visitor.group,
         \/ visitor'.pc = visitor.pc
         \/ visitor.pc \in Listening /\ visitor'.pc \in Listening
         \/ visitor'.pc \in {"wait", "pop"} /\ ~analyzer.connected
  PROVE  EventInv'
<1>1. visitor.pc \in Listening => visitor.pc \in VisitPc \union Answering
  BY DEF Listening, Answering
<1>2. Covered => Covered'
  BY DEF Covered
<1>3. \A g \in Groups : Fresh(g)' = Fresh(g)
  BY DEF Fresh, Calling
<1>4. VerdictCoversEvents'
  BY DEF EventInv, VerdictCoversEvents
<1>5. visitor'.pc \in {"prestart", "connect"} => visitor.pc = visitor'.pc
  BY DEF Listening
<1>6. visitor'.pc \in VisitPc \union Answering => visitor.pc \in VisitPc \union Answering
  BY <1>1 DEF VisitPc, Answering
<1>7. (toVisit # <<>> => Fresh(Head(toVisit)))'
  BY DEF EventInv, Fresh, Calling
<1>8. (visitor.pc \in {"prestart", "connect"} => Fresh(visitor.group))'
  BY <1>5 DEF EventInv, Fresh, Calling
<1>9. (analyzer.connected => visitor.pc \in Listening)'
  BY DEF EventInv
<1> QED BY <1>2, <1>4, <1>6, <1>7, <1>8, <1>9 DEF EventInv, Calling

LEMMA ReceiveEvent ==
  ASSUME IInv, EventInv, NEW g \in Groups, Receive(g) PROVE EventInv'
<1>1. toVisit = <<>>
  BY DEF IInv, QueueInv, Receive, ServerGoesOn, TypeOK
<1>2. toVisit' # <<>> /\ Head(toVisit') = g
  BY <1>1 DEF Receive
<1>3. Fresh(g)
  BY DEF Receive, EventInv, Fresh
<1>4. VerdictCoversEvents'
  BY DEF EventInv, VerdictCoversEvents, Receive
<1> QED BY <1>2, <1>3, <1>4 DEF EventInv, Receive, Fresh, Calling, Covered

LEMMA PopEvent == ASSUME IInv, EventInv, Pop PROVE EventInv'
<1>1. visitor.pc = "pop" /\ toVisit # <<>>
  BY DEF Pop, At
<1>2. toVisit' = <<>> /\ Head(toVisit) \in Groups
  BY <1>1 DEF IInv, TypeOK, QueueInv, Pop
<1>3. /\ visitor'.group = Head(toVisit) /\ visitor'.pc \in {"prestart", "wait"}
  BY DEF Pop, IInv, TypeOK
<1>4. Fresh(Head(toVisit)) /\ ~analyzer.connected
  BY <1>1 DEF EventInv, Listening, VisitPc
<1>5. Fresh(visitor.group)' /\ Covered'
  BY <1>3, <1>4 DEF Fresh, Covered, Calling, Pop
<1>6. VerdictCoversEvents'
  BY DEF EventInv, VerdictCoversEvents, Pop
<1> QED BY <1>2, <1>4, <1>5, <1>6 DEF EventInv, Pop, Calling

\* Nothing has happened yet that the start could forget.
LEMMA StartEvent ==
  ASSUME IInv, EventInv, PreStart \/ Connect \/ Start PROVE EventInv'
<1>1. visitor \in VisitorRecord /\ visitor.group \in Groups
  BY DEF IInv, TypeOK, VisitorRecord
<1>2. CASE PreStart
  <2>1. visitor.pc = "prestart" /\ visitor'.pc = "connect" /\ visitor'.group = visitor.group
    BY <1>1, <1>2 DEF PreStart, At, Goto, VisitorRecord
  <2>2. analyzer'.connected = analyzer.connected /\ ~analyzer.connected
    BY <1>2, <2>1 DEF PreStart, IInv, TypeOK, EventInv, Listening, VisitPc
  <2>3. Fresh(visitor.group)
    BY <2>1 DEF EventInv
  <2>4. Fresh(visitor.group)' /\ Covered'
    BY <1>2, <2>1, <2>3 DEF Fresh, Covered, Calling, PreStart
  <2>5. VerdictCoversEvents'
    BY <1>2 DEF EventInv, VerdictCoversEvents, PreStart
  <2>6. (toVisit # <<>> => Fresh(Head(toVisit)))'
    BY <1>2 DEF EventInv, Fresh, Calling, PreStart
  <2> QED BY <1>2, <2>2, <2>4, <2>5, <2>6 DEF EventInv, PreStart, Calling
<1>3. CASE Connect
  <2>1. visitor.pc = "connect" /\ visitor'.pc = "start" /\ visitor'.group = visitor.group
    BY <1>1, <1>3 DEF Connect, At, Goto, VisitorRecord
  <2>2. visitor.pc \in VisitPc /\ visitor'.pc \in Listening
    BY <2>1 DEF Listening, VisitPc
  <2>3. analyzer'.malicious = analyzer.malicious
    BY <1>3 DEF Connect, IInv, TypeOK
  <2>4. Covered'
    BY <1>3, <2>1, <2>2, <2>3 DEF EventInv, Covered, Connect
  <2>5. VerdictCoversEvents'
    BY <1>3 DEF EventInv, VerdictCoversEvents, Connect
  <2>6. (toVisit # <<>> => Fresh(Head(toVisit)))'
    BY <1>3 DEF EventInv, Fresh, Calling, Connect
  <2> QED BY <1>3, <2>1, <2>2, <2>4, <2>5, <2>6 DEF EventInv, Connect, Calling
<1>4. CASE Start
  <2>1. visitor.pc = "start" /\ visitor'.pc = "alloc" /\ visitor'.group = visitor.group
    BY <1>1, <1>4 DEF Start, At, Goto, VisitorRecord
  <2>2. visitor.pc \in VisitPc /\ visitor'.pc \in Listening
    BY <2>1 DEF Listening, VisitPc
  <2>3. \A g \in Groups : /\ report'[g].event = report[g].event
                          /\ report'[g].answers = report[g].answers
                          /\ report'[g].malicious = report[g].malicious
    BY <1>4 DEF Start, IInv, TypeOK
  <2>4. Covered'
    BY <1>1, <1>4, <2>1, <2>2, <2>3 DEF EventInv, Covered, Start
  <2>5. VerdictCoversEvents'
    BY <2>3 DEF EventInv, VerdictCoversEvents
  <2>6. toVisit # <<>> => Head(toVisit) \in Groups
    BY DEF IInv, TypeOK
  <2>7. (toVisit # <<>> => Fresh(Head(toVisit)))'
    BY <1>4, <2>3, <2>6 DEF EventInv, Fresh, Calling, Start
  <2> QED BY <1>4, <2>1, <2>2, <2>3, <2>4, <2>5, <2>7 DEF EventInv, Start, Calling
<1> QED BY <1>2, <1>3, <1>4

LEMMA StopEvent == ASSUME IInv, EventInv, Stop PROVE EventInv'
<1>1. visitor \in VisitorRecord /\ analyzer \in [connected : BOOLEAN, malicious : BOOLEAN]
  BY DEF IInv, TypeOK, VisitorRecord
<1>2. /\ visitor.pc = "stop" /\ visitor'.pc = "answer" /\ visitor'.group = visitor.group
      /\ analyzer'.connected = FALSE /\ analyzer'.malicious = analyzer.malicious
  BY <1>1 DEF Stop, At, Goto, VisitorRecord
<1>3. Covered'
  BY <1>2 DEF EventInv, Covered, Stop, Answering
<1>4. VerdictCoversEvents'
  BY DEF EventInv, VerdictCoversEvents, Stop
<1>5. (toVisit # <<>> => Fresh(Head(toVisit)))'
  BY DEF EventInv, Fresh, Calling, Stop
<1> QED BY <1>2, <1>3, <1>4, <1>5 DEF EventInv, Stop, Calling

LEMMA AnswerEvent == ASSUME IInv, EventInv, Answer PROVE EventInv'
<1>1. visitor \in VisitorRecord /\ visitor.pc = "answer" /\ visitor.group \in Groups
  BY DEF Answer, At, IInv, TypeOK, VisitorRecord
<1>2. toVisit = <<>> /\ ~analyzer.connected
  BY <1>1 DEF IInv, QueueInv, EventInv, Listening, VisitPc, Answering
<1>3. Covered
  BY <1>1 DEF EventInv, Answering
<1>4. visitor'.pc \in {"stop", "post"} /\ visitor'.group = visitor.group
  BY <1>1 DEF Answer, VisitorRecord
<1>5. /\ \A g \in Groups : report'[g].event = report[g].event
      /\ \A g \in Groups \ {visitor.group} : report'[g] = report[g]
      /\ report'[visitor.group].malicious = analyzer.malicious
  BY <1>1 DEF Answer, IInv, TypeOK
<1>6. Covered'
  BY <1>1, <1>3, <1>4, <1>5 DEF Covered, Answer
<1>7. VerdictCoversEvents'
  <2> SUFFICES ASSUME NEW g \in Groups, report'[g].answers > 0, report'[g].event
               PROVE  report'[g].malicious
    BY DEF VerdictCoversEvents
  <2>1. CASE g = visitor.group
    BY <1>3, <1>5, <2>1 DEF Covered
  <2>2. CASE g # visitor.group
    BY <1>5, <2>2 DEF EventInv, VerdictCoversEvents
  <2> QED BY <2>1, <2>2
<1> QED BY <1>2, <1>4, <1>5, <1>6, <1>7 DEF EventInv, Answer, Calling

\* A callback that is about to begin, or has begun, in a visit
LEMMA EventEvent ==
  ASSUME IInv, EventInv, NEW m \in Monitors, Event(m) PROVE EventInv'
<1>1. visitor.pc \in Listening /\ visitor.group \in received /\ toVisit = <<>>
  BY DEF Event, EventInv, Listening, IInv, VisitInv, QueueInv, VisitPc, Answering
<1>2. /\ monitor'[m].pc = "called" /\ monitor'[m].visit = visitor.group
      /\ \A n \in Monitors \ {m} : monitor'[n] = monitor[n]
  BY DEF Event, IInv, TypeOK
<1>3. Covered'
  <2>1. visitor.pc \in VisitPc \union Answering
    BY <1>1 DEF Listening, Answering
  <2> QED BY <1>2, <2>1 DEF EventInv, Covered, Event
<1>4. VerdictCoversEvents'
  BY DEF EventInv, VerdictCoversEvents, Event
<1>5. \A n \in Monitors : Calling(n)' => monitor'[n].visit \in received
  BY <1>1, <1>2 DEF EventInv, Calling
<1>6. visitor.pc \notin {"prestart", "connect"}
  BY <1>1 DEF Listening
<1> QED BY <1>1, <1>3, <1>4, <1>5, <1>6 DEF EventInv, Event

LEMMA FlagEvent ==
  ASSUME IInv, EventInv, NEW m \in Monitors, Flag(m) PROVE EventInv'
<1>1. /\ monitor[m].pc = "called" /\ monitor'[m].pc = "flagged"
      /\ \A n \in Monitors : monitor'[n].visit = monitor[n].visit
      /\ \A n \in Monitors \ {m} : monitor'[n].pc = monitor[n].pc
  BY DEF Flag, IInv, TypeOK
<1>2. \A n \in Monitors : Calling(n)' <=> Calling(n)
  BY <1>1 DEF Calling
<1>3. analyzer'.connected = analyzer.connected /\ analyzer'.malicious = TRUE
  BY DEF Flag, IInv, TypeOK
<1>4. Covered'
  BY <1>3 DEF Covered
<1>5. VerdictCoversEvents'
  BY DEF EventInv, VerdictCoversEvents, Flag
<1>6. /\ (toVisit # <<>> => Fresh(Head(toVisit)))'
      /\ (visitor.pc \in {"prestart", "connect"} => Fresh(visitor.group))'
  BY <1>1, <1>2 DEF EventInv, Fresh, Flag
<1>7. \A n \in Monitors : Calling(n)' => monitor'[n].visit \in received
  BY <1>1, <1>2 DEF EventInv
<1> QED BY <1>3, <1>4, <1>5, <1>6, <1>7 DEF EventInv, Flag

LEMMA SendEventEvent ==
  ASSUME IInv, EventInv, NEW m \in Monitors, SendEvent(m) PROVE EventInv'
<1> DEFINE g == visitor.group
<1>1. /\ monitor[m].pc = "flagged" /\ monitor'[m].pc = "idle"
      /\ \A n \in Monitors : monitor'[n].visit = monitor[n].visit
      /\ \A n \in Monitors \ {m} : monitor'[n].pc = monitor[n].pc
  BY DEF SendEvent, IInv, TypeOK
<1>2. \A n \in Monitors : (Calling(n)' => Calling(n)) /\
                          (monitor'[n].pc = "flagged" => monitor[n].pc = "flagged")
  BY <1>1 DEF Calling
<1>3. \A n \in Monitors : Calling(n)' => monitor'[n].visit \in received
  BY <1>1, <1>2 DEF EventInv
<1>4. CASE monitor[m].visit = g /\ report[g].answers = 0
  <2>1. g \in Groups
    BY DEF IInv, TypeOK
  <2>2. /\ report'[g].answers = report[g].answers
        /\ \A h \in Groups \ {g} : report'[h] = report[h]
    BY <1>4, <2>1 DEF SendEvent, IInv, TypeOK
  <2>3. g \in received /\ visitor.pc \notin {"prestart", "connect"}
    BY <1>1, <1>4 DEF EventInv, Calling, Fresh
  <2>4. toVisit # <<>> => Head(toVisit) # g /\ Head(toVisit) \in Groups
    BY <1>1, <1>4 DEF EventInv, Calling, Fresh, IInv, TypeOK
  <2>5. (toVisit # <<>> => Fresh(Head(toVisit)))'
    BY <1>1, <1>2, <2>2, <2>4 DEF EventInv, Fresh, SendEvent
  <2>6. (visitor.pc \in VisitPc \union Answering => Covered)'
    BY <1>1, <1>4 DEF EventInv, Covered, SendEvent
  <2>7. VerdictCoversEvents'
    BY <1>4, <2>1, <2>2 DEF EventInv, VerdictCoversEvents
  <2>8. \A h \in Groups \ received : ~report'[h].event
    BY <2>2, <2>3 DEF EventInv
  <2> QED BY <1>3, <2>3, <2>5, <2>6, <2>7, <2>8 DEF EventInv, SendEvent
<1>5. CASE ~(monitor[m].visit = g /\ report[g].answers = 0)
  <2>1. report' = report
    BY <1>5 DEF SendEvent
  <2>2. VerdictCoversEvents'
    BY <2>1 DEF EventInv, VerdictCoversEvents
  <2>3. /\ (toVisit # <<>> => Fresh(Head(toVisit)))'
        /\ (visitor.pc \in {"prestart", "connect"} => Fresh(visitor.group))'
    BY <1>1, <1>2, <2>1 DEF EventInv, Fresh, SendEvent
  <2>4. (visitor.pc \in VisitPc \union Answering => Covered)'
    BY <1>1, <1>2, <2>1 DEF EventInv, Covered, SendEvent
  <2> QED BY <1>3, <2>1, <2>2, <2>3, <2>4 DEF EventInv, SendEvent
<1> QED BY <1>4, <1>5

LEMMA NextEventInv == IInv /\ EventInv /\ [Next]_vars => EventInv'
<1> SUFFICES ASSUME IInv, EventInv, [Next]_vars PROVE EventInv'
  OBVIOUS
<1>0. visitor \in VisitorRecord
  BY DEF IInv, TypeOK, VisitorRecord
<1>1. ASSUME NEW g \in Groups, Receive(g) PROVE EventInv'
  BY <1>1, ReceiveEvent
<1>2. CASE WakeVisitor
  BY <1>2, EventFrame DEF WakeVisitor
<1>3. CASE Visitor
  <2>1. CASE Wait \/ PostFinish
    <3>1. /\ visitor.pc \in {"wait", "post"} /\ visitor'.pc \in {"wait", "pop"}
          /\ visitor'.group = visitor.group
      BY <1>0, <2>1 DEF Wait, PostFinish, At, Goto, VisitorRecord
    <3>2. ~analyzer.connected
      BY <3>1 DEF EventInv, Listening, VisitPc
    <3> QED BY <2>1, <3>1, <3>2, EventFrame DEF Wait, PostFinish
  <2>2. CASE Allocate \/ Assign \/ EndAssign \/ Join \/ JoinTimeout \/ Close
    <3>1. visitor.pc \in Listening
      BY <2>2 DEF Allocate, Assign, EndAssign, Join, JoinTimeout, Close, At, Listening,
         VisitPc
    <3>2. visitor'.group = visitor.group
      BY <1>0, <2>2 DEF Allocate, Assign, EndAssign, Join, JoinTimeout, Close, Goto,
         Loop, VisitorRecord
    <3>3. visitor'.pc \in {"stop", "assign", "join", "close"}
      BY <1>0, <2>2 DEF Allocate, Assign, EndAssign, Join, JoinTimeout, Close, At, Goto,
         Loop, VisitorRecord
    <3>4. visitor'.pc \in Listening
      BY <3>3 DEF Listening, VisitPc
    <3>5. UNCHANGED <<toVisit, received, analyzer, monitor, report>>
      BY <2>2 DEF Allocate, Assign, EndAssign, Join, JoinTimeout, Close
    <3> QED BY <3>1, <3>2, <3>4, <3>5, EventFrame
  <2> QED BY <1>3, <2>1, <2>2, PopEvent, StartEvent, StopEvent, AnswerEvent DEF Visitor
<1>4. ASSUME NEW w \in Worker, WorkerStep(w) PROVE EventInv'
  BY <1>4, EventFrame DEF WorkerStep, Take, Browse, Signal
<1>5. ASSUME NEW m \in Monitors, MonitorStep(m) PROVE EventInv'
  BY <1>5, EventEvent, FlagEvent, SendEventEvent DEF MonitorStep
<1>6. CASE UNCHANGED vars
  BY <1>6, EventFrame DEF vars
<1> QED BY <1>1, <1>2, <1>3, <1>4, <1>5, <1>6 DEF Next

-----------------------------------------------------------------------------
(* The theorems                                                            *)

LEMMA NextIInv == IInv /\ [Next]_vars => IInv'
<1> SUFFICES ASSUME IInv, [Next]_vars PROVE IInv'
  OBVIOUS
<1>1. ASSUME NEW g \in Groups, Receive(g) PROVE IInv'
  BY <1>1, ReceiveIInv
<1>2. CASE WakeVisitor
  BY <1>2, WakeVisitorIInv
<1>3. CASE Visitor
  BY <1>3, WaitIInv, PopIInv, StartingIInv, AllocateIInv, AssignIInv, EndAssignIInv,
     JoinIInv, JoinTimeoutIInv, CloseIInv, AnswerIInv, PostFinishIInv DEF Visitor
<1>4. ASSUME NEW w \in Worker, WorkerStep(w) PROVE IInv'
  BY <1>4, TakeIInv, BrowseIInv, SignalIInv DEF WorkerStep
<1>5. ASSUME NEW m \in Monitors, MonitorStep(m) PROVE IInv'
  BY <1>5, MonitorIInv
<1>6. CASE UNCHANGED vars
  <2>1. UNCHANGED <<toVisit, queueNotEmpty, receiver, received, visitor, worker, code,
                    analyzer, monitor, report>>
    BY <1>6 DEF vars
  <2>2. TypeOK'
    BY <2>1 DEF IInv, TypeOK
  <2>3. CountInv' /\ GivenInv' /\ WorkerInv'
    BY <2>1, CountFrame DEF IInv
  <2>4. QueueInv' /\ VisitInv'
    BY <2>1, WorkerFrame DEF IInv
  <2> QED BY <2>2, <2>3, <2>4 DEF IInv
<1> QED BY <1>1, <1>2, <1>3, <1>4, <1>5, <1>6 DEF Next

LEMMA SpecIInv == Spec => []IInv
BY InitIInv, NextIInv, PTL DEF Spec

\* Every variable keeps its type; among others, no group is answered more than
\* twice (Analyzer.onVisitEvent) and no URL beyond the group is given out.
THEOREM ClientTypeCorrect == Spec => []TypeOK
<1>1. IInv => TypeOK
  BY DEF IInv
<1> QED BY <1>1, SpecIInv, PTL

\* The auto-reset event of the visitor is enough: Visitor.run never pops an
\* empty queue, and never waits for ever with a group in it.
THEOREM NoWakeUpIsLost == Spec => []NoLostWakeUp
<1>1. IInv => NoLostWakeUp
  <2> SUFFICES ASSUME QueueInv PROVE NoLostWakeUp
    BY DEF IInv
  <2>1. At("pop") => toVisit # <<>>
    BY DEF QueueInv
  <2>2. At("wait") /\ toVisit # <<>> => queueNotEmpty \/ receiver = "pushed"
    BY DEF QueueInv, At
  <2> QED BY <2>1, <2>2 DEF NoLostWakeUp
<1> QED BY <1>1, SpecIInv, PTL

\* When visitGroup deletes its browser instances every URL of the group was
\* visited and no worker thread needs one of them, whatever the number of URLs
\* and of workers.
THEOREM JoinCompletes == Spec => []JoinIsComplete
<1>1. IInv => JoinIsComplete
  BY CloseFacts DEF JoinIsComplete
<1> QED BY <1>1, SpecIInv, PTL

\* The verdict of a visit agrees with its events: an answer the server has got
\* says malicious if any event that began in the visit was sent before it.
THEOREM EventsDecideTheVerdict == Spec => []VerdictCoversEvents
<1>1. EventInv => VerdictCoversEvents
  BY DEF EventInv
<1> QED BY <1>1, SpecIInv, InitEventInv, NextEventInv, PTL DEF Spec

=============================================================================
