------------------------------ MODULE UrlGroups ------------------------------
(***************************************************************************)
(* The life of URLs and URL groups inside the Capture server: the queues   *)
(* of UrlsController and UrlGroupsController, the state every Url and      *)
(* UrlGroup object keeps, the verdict logs, divide-and-conquer splitting   *)
(* and the retry of failed groups.                                         *)
(*                                                                         *)
(* The threads that use these objects appear only as sessions.  A session  *)
(* is what one Client object does with one group: its retriever thread     *)
(* takes it, its receiver thread reports the visit.  Errors are the        *)
(* exception: several threads put a group into the ERROR state while its   *)
(* session still works with it (state checker, disconnect, failed send),   *)
(* and they may even come when the session is over (MarkLate).  What this  *)
(* module asks of a session is only that it never abandons a group that    *)
(* was not marked on its behalf (GiveUp).                                  *)
(***************************************************************************)
EXTENDS Naturals, FiniteSets, Sequences

CONSTANTS
  Urls,         \* the Url objects that may be put into the input queue
  Group,        \* identities of UrlGroup objects; a finite set bounds them
  Session,      \* places for Client objects that exist at the same time
  NoGroup,      \* null reference
  GroupSize,    \* option group_size
  Algorithms,   \* the visitation algorithms of the client plug-ins in use
  Codes,        \* error codes other than OK
  OK,           \* ERROR_CODES.OK
  LateErrors,   \* a thread may mark a group that its session completed
  ErrorCap      \* bound: errorCount is counted up to here

ASSUME ConstantsAssumption ==
  /\ GroupSize \in Nat \ {0}
  /\ ErrorCap \in Nat /\ ErrorCap >= 2
  /\ LateErrors \in BOOLEAN
  /\ Algorithms \subseteq {"dac", "bulk", "seq"}
  /\ NoGroup \notin Group
  /\ OK \notin Codes
  /\ IsFiniteSet(Urls)

VARIABLES
  known,        \* history: the Url objects addUrl accepted
  urlQueue,     \* UrlsController.urlQueue: URLs waiting for a first visit
  url,          \* Url objects: state, major error code, malicious
  log,          \* safe.log, malicious.log and error.log
  group,        \* UrlGroup objects
  groupQueue,   \* UrlGroupsController.urlGroupQueue, head first
  visiting,     \* UrlGroupsController.visitingList: occurrences of a group
  session,      \* what each Client does with the group it took
  handed        \* history: how often a group was handed to a session

vars == <<known, urlQueue, url, log, group, groupQueue, visiting, session, handed>>

UrlState   == {"NONE", "VISITING", "VISITED", "ERROR"}
GroupState == {"NONE", "VISITING", "VISITED", "ERROR"}

UrlRecord == [state : UrlState, code : Codes \cup {OK},
              malicious : {"null", "true", "false"}]

GroupRecord == [urls : SUBSET Urls, state : GroupState, errorCount : Nat,
                code : Codes \cup {OK}, malicious : BOOLEAN,
                algorithm : Algorithms \cup {"none"}]

(* pc: "idle"     the client waits for a group                             *)
(*     "fill"     its retriever collects `want` URLs, `got` so far         *)
(*     "pop"      its retriever saw a group in the deque and will pop it   *)
(*     "held"     the group is the client's visitingUrlGroup               *)
(*     "visiting" the remote client reported the start of the visit        *)
(*     "deaf"     the client has a group, its receiver thread ended        *)
(*     "broken"   its retriever died of a NoSuchElementException           *)
(* dirty is the malicious flag of the remote Analyzer, events the URLs for *)
(* which the StateChangeHandler holds changes.  marked (history): a thread *)
(* failed the group on behalf of this client since the session took or     *)
(* started it.                                                             *)
SessionRecord == [pc : {"idle", "fill", "pop", "held", "visiting", "deaf", "broken"},
                  want : Nat, got : SUBSET Urls, group : Group \cup {NoGroup},
                  dirty : BOOLEAN, events : SUBSET Urls, marked : BOOLEAN]

TypeOK ==
  /\ known \in SUBSET Urls
  /\ urlQueue \in SUBSET Urls
  /\ url \in [Urls -> UrlRecord]
  /\ log \in [safe : SUBSET Urls, malicious : SUBSET Urls, error : SUBSET Urls]
  /\ group \in [Group -> GroupRecord]
  /\ groupQueue \in Seq(Group)
  /\ visiting \in [Group -> Nat]
  /\ session \in [Session -> SessionRecord]
  /\ handed \in [Group -> Nat]

NewUrl   == [state |-> "NONE", code |-> OK, malicious |-> "null"]

NewGroup(us) == [urls |-> us, state |-> "NONE", errorCount |-> 0, code |-> OK,
                 malicious |-> FALSE, algorithm |-> "none"]

IdleSession == [pc |-> "idle", want |-> 0, got |-> {}, group |-> NoGroup,
                dirty |-> FALSE, events |-> {}, marked |-> FALSE]

\* A group without URLs is one that was not constructed yet.  Constructors
\* use up the identities one after the other.
Unused(g) == group[g].urls = {}
Fresh == CHOOSE g \in Group : Unused(g)

Init ==
  /\ known = {}
  /\ urlQueue = {}
  /\ url = [u \in Urls |-> NewUrl]
  /\ log = [safe |-> {}, malicious |-> {}, error |-> {}]
  /\ group = [g \in Group |-> NewGroup({})]
  /\ groupQueue = <<>>
  /\ visiting = [g \in Group |-> 0]
  /\ session = [s \in Session |-> IdleSession]
  /\ handed = [g \in Group |-> 0]

-----------------------------------------------------------------------------
(* Url and UrlGroup methods as functions of the url map `us` and of a      *)
(* group record `gr`.                                                      *)

\* Url.setUrlState for the URLs in DOMAIN target; a URL already in that
\* state is left alone.  Writes the verdict and error logs.
SetUrlStates(us, target) ==
  LET moved == {u \in DOMAIN target : us[u].state # target[u]}
  IN /\ url' = [u \in Urls |-> IF u \in DOMAIN target
                               THEN [us[u] EXCEPT !.state = target[u]]
                               ELSE us[u]]
     /\ log' = [safe |-> log.safe \cup
                  {u \in moved : target[u] = "VISITED" /\ us[u].malicious = "false"},
                malicious |-> log.malicious \cup
                  {u \in moved : target[u] \in {"VISITED", "ERROR"}
                                 /\ us[u].malicious = "true"},
                error |-> log.error \cup {u \in moved : target[u] = "ERROR"}]

\* UrlGroup.setMalicious: what it does to the URLs.  csv is the set of URLs
\* with a non-empty entry in the map of state changes; noMap stands for null.
SetMalicious(us, gr, alg, mal, noMap, csv) ==
  LET verdict(u) ==
        IF alg = "bulk"
        THEN IF (IF noMap THEN mal ELSE u \in csv) THEN "true" ELSE "false"
        ELSE IF ~mal THEN "false"
        ELSE IF Cardinality(gr.urls) = 1 THEN "true" ELSE us[u].malicious
  IN [u \in Urls |-> IF u \in gr.urls
                     THEN [us[u] EXCEPT !.malicious = verdict(u)]
                     ELSE us[u]]

SetCodes(us, bad, code) ==
  [u \in Urls |-> IF u \in bad THEN [us[u] EXCEPT !.code = code] ELSE us[u]]

\* visit-event "error" tells the code of every URL, OK included: bad has c.
ReportedCodes(urls, bad, c) == SetCodes(SetCodes(url, urls, OK), bad, c)

Least(a, b) == IF a < b THEN a ELSE b

Splits(gr) == gr.algorithm = "dac" /\ gr.malicious /\ Cardinality(gr.urls) > 1

Push(g, queue) == <<g>> \o queue

\* Seeded fault: the group is pushed again as a whole.
PushHalves_WholeGroup(g, groups) ==
  \E g1 \in {x \in Group : Unused(x)} :
    /\ g1 = Fresh
    /\ group' = [groups EXCEPT ![g1] = NewGroup(groups[g].urls)]
    /\ groupQueue' = Push(g1, groupQueue)

\* The two halves of a split group become groups of their own, the second
\* one in front.  groups is the group map after the state change.
PushHalves(g, groups) ==
  \E first \in SUBSET groups[g].urls, g1, g2 \in {x \in Group : Unused(x)} :
    /\ Cardinality(first) = Cardinality(groups[g].urls) \div 2
    /\ g1 # g2
    /\ g1 = Fresh
    /\ g2 = CHOOSE x \in Group \ {Fresh} : Unused(x)
    /\ group' = [groups EXCEPT ![g1] = NewGroup(first),
                               ![g2] = NewGroup(groups[g].urls \ first)]
    /\ groupQueue' = Push(g2, Push(g1, groupQueue))

\* Seeded fault: a count that does not look whether g is in the list.
RemoveVisiting_NoCheck(g) == visiting' = [visiting EXCEPT ![g] = @ - 1]

RemoveVisiting(g) ==
  visiting' = [visiting EXCEPT ![g] = IF @ = 0 THEN 0 ELSE @ - 1]

\* setUrlGroupState(VISITED) on group g, whose record is gr, and the update
\* of the UrlGroupsController that observes it.
BecomeVisited(g, gr, us) ==
  LET groups == [group EXCEPT ![g] = [gr EXCEPT !.state = "VISITED"]]
  IN /\ SetUrlStates(us, [u \in gr.urls |->
                            IF us[u].code = OK THEN "VISITED" ELSE "ERROR"])
     /\ RemoveVisiting(g)
     /\ \/ /\ Splits(gr)
           /\ PushHalves(g, groups)
        \/ /\ ~Splits(gr)
           /\ group' = groups
           /\ UNCHANGED groupQueue

\* Seeded fault: off by one in the test of the error count.
BecomeError_RetryAlways(g, gr, us) ==
  LET errors == Least(gr.errorCount + 1, ErrorCap)
      groups == [group EXCEPT ![g] = [gr EXCEPT !.state = "ERROR",
                                                !.errorCount = errors]]
  IN /\ SetUrlStates(SetCodes(us, gr.urls, gr.code), [u \in gr.urls |-> "ERROR"])
     /\ RemoveVisiting(g)
     /\ group' = groups
     /\ groupQueue' = IF errors <= 2 THEN Push(g, groupQueue) ELSE groupQueue

\* Seeded fault: a group that is not in the list of visits is not retried.
BecomeError_OnlyVisited(g, gr, us) ==
  LET errors == Least(gr.errorCount + 1, ErrorCap)
      groups == [group EXCEPT ![g] = [gr EXCEPT !.state = "ERROR",
                                                !.errorCount = errors]]
  IN /\ SetUrlStates(SetCodes(us, gr.urls, gr.code), [u \in gr.urls |-> "ERROR"])
     /\ RemoveVisiting(g)
     /\ group' = groups
     /\ groupQueue' = IF errors <= 1 /\ visiting[g] > 0
                      THEN Push(g, groupQueue) ELSE groupQueue

\* setUrlGroupState(ERROR) and the update that follows: split, or push the
\* group once more if this was its first error.  Its URLs get its code, also
\* if that is OK and they had one of their own.  The code only asks whether
\* errorCount <= 1, so counting up to ErrorCap >= 2 loses nothing.
BecomeError(g, gr, us) ==
  LET errors == Least(gr.errorCount + 1, ErrorCap)
      groups == [group EXCEPT ![g] = [gr EXCEPT !.state = "ERROR",
                                                !.errorCount = errors]]
  IN /\ SetUrlStates(SetCodes(us, gr.urls, gr.code), [u \in gr.urls |-> "ERROR"])
     /\ RemoveVisiting(g)
     /\ \/ /\ Splits(gr)
           /\ PushHalves(g, groups)
        \/ /\ ~Splits(gr)
           /\ group' = groups
           /\ groupQueue' = IF errors <= 1 THEN Push(g, groupQueue) ELSE groupQueue

-----------------------------------------------------------------------------
(* UrlsController and UrlGroupsController.takeUrlGroup                     *)

Queued(g) == \E i \in DOMAIN groupQueue : groupQueue[i] = g

\* addUrl accepts a new Url object.  (One object is made per input line; a
\* line equal to a URL that is still queued is dropped.)
AddUrl(u) ==
  /\ u \notin known
  /\ known' = known \cup {u}
  /\ urlQueue' = urlQueue \cup {u}
  /\ UNCHANGED <<url, log, group, groupQueue, visiting, session, handed>>

\* takeUrlGroup looks at the size of the deque, and of the URL queue, once.
BeginTake(s) ==
  /\ session[s].pc = "idle"
  /\ \/ /\ groupQueue = <<>>
        /\ LET n == Least(GroupSize, Cardinality(urlQueue))
           IN session' = [session EXCEPT ![s].pc = "fill", ![s].got = {},
                            ![s].want = IF n = 0 THEN 1 ELSE n]
     \/ /\ groupQueue # <<>>
        /\ session' = [session EXCEPT ![s].pc = "pop"]
  /\ UNCHANGED <<known, urlQueue, url, log, group, groupQueue, visiting, handed>>

\* One blocking take from the URL queue; the last one completes the group.
TakeUrl(s, u) ==
  /\ session[s].pc = "fill"
  /\ u \in urlQueue
  /\ urlQueue' = urlQueue \ {u}
  /\ LET got == session[s].got \cup {u}
     IN \/ /\ Cardinality(got) < session[s].want
           /\ session' = [session EXCEPT ![s].got = got]
           /\ UNCHANGED <<group, handed>>
        \/ /\ Cardinality(got) >= session[s].want
           /\ \E g \in Group :
                /\ Unused(g) /\ g = Fresh
                /\ group' = [group EXCEPT ![g] = NewGroup(got)]
                /\ handed' = [handed EXCEPT ![g] = @ + 1]
                /\ session' = [session EXCEPT ![s] =
                                 [IdleSession EXCEPT !.pc = "held", !.group = g]]
  /\ UNCHANGED <<known, url, log, groupQueue, visiting>>

\* Seeded fault: returns one end of the deque and removes the other.
PopGroup_WrongEnd(s) ==
  /\ session[s].pc = "pop"
  /\ groupQueue # <<>>
  /\ groupQueue' = SubSeq(groupQueue, 1, Len(groupQueue) - 1)
  /\ handed' = [handed EXCEPT ![Head(groupQueue)] = @ + 1]
  /\ session' = [session EXCEPT ![s] =
                   [IdleSession EXCEPT !.pc = "held", !.group = Head(groupQueue)]]
  /\ UNCHANGED <<known, urlQueue, url, log, group, visiting>>

\* pop() does not block: on an empty deque it throws, and nothing catches it.
PopGroup(s) ==
  /\ session[s].pc = "pop"
  /\ \/ /\ groupQueue = <<>>
        /\ session' = [session EXCEPT ![s].pc = "broken"]
        /\ UNCHANGED <<groupQueue, handed>>
     \/ /\ groupQueue # <<>>
        /\ groupQueue' = Tail(groupQueue)
        /\ handed' = [handed EXCEPT ![Head(groupQueue)] = @ + 1]
        /\ session' = [session EXCEPT ![s] =
                         [IdleSession EXCEPT !.pc = "held", !.group = Head(groupQueue)]]
  /\ UNCHANGED <<known, urlQueue, url, log, group, visiting>>

-----------------------------------------------------------------------------
(* What the receiver thread of a session does with its group               *)

\* visit-event "start"
Start(s, alg) ==
  /\ session[s].pc = "held"
  /\ LET g  == session[s].group
         gr == group[g]
     IN /\ group' = [group EXCEPT ![g].algorithm = alg, ![g].state = "VISITING"]
        /\ visiting' = [visiting EXCEPT ![g] = @ + 1]
        /\ SetUrlStates(url, [u \in gr.urls |-> "VISITING"])
        /\ session' = [session EXCEPT ![s].pc = "visiting", ![s].marked = FALSE]
  /\ UNCHANGED <<known, urlQueue, groupQueue, handed>>

\* A monitor reports a change before the server put the client into the
\* VISITING state: the client remembers it, parseEvent ignores it.
IgnoredEvent(s) ==
  /\ session[s].pc \in {"held", "visiting"}
  /\ session' = [session EXCEPT ![s].dirty = TRUE]
  /\ UNCHANGED <<known, urlQueue, url, log, group, groupQueue, visiting, handed>>

\* system-event, the branches of parseEvent: a bulk group only collects the
\* change (of a URL of the group, or of none), a divide-and-conquer group is
\* done at once, and everything else is recorded as malicious.
BulkEvent(s) ==
  /\ session[s].pc = "visiting"
  /\ LET gr == group[session[s].group]
     IN /\ gr.algorithm = "bulk" /\ Cardinality(gr.urls) > 1
        /\ \E found \in SUBSET gr.urls :
             /\ Cardinality(found) <= 1
             /\ session' = [session EXCEPT ![s].dirty = TRUE,
                                           ![s].events = @ \cup found]
  /\ UNCHANGED <<known, urlQueue, url, log, group, groupQueue, visiting, handed>>

DacEvent(s) ==
  /\ session[s].pc = "visiting"
  /\ LET g  == session[s].group
         gr == group[g]
     IN /\ gr.algorithm = "dac" /\ Cardinality(gr.urls) > 1
        /\ BecomeVisited(g, [gr EXCEPT !.malicious = TRUE],
                         SetMalicious(url, gr, "dac", TRUE, TRUE, {}))
        /\ session' = [session EXCEPT ![s] = IdleSession]
  /\ UNCHANGED <<known, urlQueue, handed>>

PlainEvent(s) ==
  /\ session[s].pc = "visiting"
  /\ LET g  == session[s].group
         gr == group[g]
     IN /\ gr.algorithm = "seq" \/ Cardinality(gr.urls) = 1
        /\ group' = [group EXCEPT ![g].malicious = TRUE]
        /\ url' = SetMalicious(url, gr, gr.algorithm, TRUE, TRUE, {})
        /\ session' = [session EXCEPT ![s].dirty = TRUE]
  /\ UNCHANGED <<known, urlQueue, log, groupQueue, visiting, handed>>

\* Seeded fault: the changes of the visit are not looked up.
Complete_NoMap(s, mal, us) ==
  LET g  == session[s].group
      gr == group[g]
  IN /\ BecomeVisited(g, [gr EXCEPT !.malicious = mal],
                      SetMalicious(us, gr, gr.algorithm, mal, FALSE, {}))
     /\ session' = [session EXCEPT ![s] = IdleSession]
     /\ UNCHANGED <<known, urlQueue, handed>>

\* The group is complete: verdict mal, us the URLs with their codes.
Complete(s, mal, us) ==
  LET g  == session[s].group
      gr == group[g]
  IN /\ BecomeVisited(g, [gr EXCEPT !.malicious = mal],
                      SetMalicious(us, gr, gr.algorithm, mal, FALSE,
                                   session[s].events))
     /\ session' = [session EXCEPT ![s] = IdleSession]
     /\ UNCHANGED <<known, urlQueue, handed>>

\* Seeded fault: only the server's own flag decides.
Finish_ForgetClientFlag(s, bad, c) ==
  /\ session[s].pc = "visiting"
  /\ bad \subseteq group[session[s].group].urls
  /\ Complete(s, group[session[s].group].malicious, SetCodes(url, bad, c))

\* visit-event "finish".  The malicious attribute is the flag the client's
\* Analyzer sets with the first event of the visit.  Only codes other than OK
\* are taken over.
Finish(s, bad, c) ==
  /\ session[s].pc = "visiting"
  /\ bad \subseteq group[session[s].group].urls
  /\ Complete(s, group[session[s].group].malicious \/ session[s].dirty,
              SetCodes(url, bad, c))

\* visit-event "error" with a code that is not retried
FinishWithWarning(s, bad, c) ==
  /\ session[s].pc = "visiting"
  /\ bad \subseteq group[session[s].group].urls
  /\ Complete(s, session[s].dirty,
              ReportedCodes(group[session[s].group].urls, bad, c))

\* visit-event "error" with a code to retry: update replaces the codes of the
\* URLs by the group's.
FinishWithError(s, c) ==
  /\ session[s].pc = "visiting"
  /\ LET g   == session[s].group
         gr  == group[g]
         mal == session[s].dirty
     IN /\ BecomeError(g, [gr EXCEPT !.malicious = mal, !.code = c],
                       SetMalicious(url, gr, gr.algorithm, mal, FALSE,
                                    session[s].events))
        /\ session' = [session EXCEPT ![s] = IdleSession]
  /\ UNCHANGED <<known, urlQueue, handed>>

-----------------------------------------------------------------------------
(* Errors from outside the visit                                           *)

\* The connection breaks or ends, or a message is one the receiver chokes on:
\* run leaves its loop, in most cases with a new code for the group.
ReceiverEnds(s, c) ==
  /\ session[s].pc \in {"held", "visiting"}
  /\ group' = [group EXCEPT ![session[s].group].code = c]
  /\ session' = [session EXCEPT ![s].pc = "deaf"]
  /\ UNCHANGED <<known, urlQueue, url, log, groupQueue, visiting, handed>>

\* A group goes into the ERROR state, with a new code or the one it has (first
\* half of disconnect).  clear: the second half of disconnect resets the verdict
\* of a group that is not malicious.
FailGroup(g, c, clear) ==
  LET gr == group[g]
  IN /\ BecomeError(g, [gr EXCEPT !.code = c],
                    IF clear /\ ~gr.malicious
                    THEN SetMalicious(url, gr, "dac", FALSE, TRUE, {})
                    ELSE url)
     /\ UNCHANGED <<known, urlQueue, handed>>

\* A thread does this to the group of a client: the state checker, disconnect
\* or a failed send.
MarkError(s, c, clear) ==
  /\ session[s].group # NoGroup
  /\ FailGroup(session[s].group, c, clear)
  /\ session' = [session EXCEPT ![s].marked = TRUE]

\* It read the reference to the group without a lock, and by now the client is
\* done with the group.
MarkLate(g, c, clear) ==
  /\ LateErrors /\ handed[g] > 0
  /\ FailGroup(g, c, clear)
  /\ UNCHANGED session

\* Seeded fault: a client may go away without an error for its group.
GiveUp_Unmarked(s) ==
  /\ session[s].pc \in {"held", "visiting", "deaf", "broken"}
  /\ session' = [session EXCEPT ![s] = IdleSession]
  /\ UNCHANGED <<known, urlQueue, url, log, group, groupQueue, visiting, handed>>

\* A session ends without an answer from the remote client; the group it
\* holds has been marked.
GiveUp(s) ==
  /\ \/ session[s].pc = "broken"
     \/ session[s].pc \in {"held", "visiting", "deaf"} /\ session[s].marked
  /\ session' = [session EXCEPT ![s] = IdleSession]
  /\ UNCHANGED <<known, urlQueue, url, log, group, groupQueue, visiting, handed>>

-----------------------------------------------------------------------------
Visit(s) ==
  \/ \E alg \in Algorithms : Start(s, alg)
  \/ BulkEvent(s)
  \/ DacEvent(s)
  \/ PlainEvent(s)
  \/ \E bad \in SUBSET Urls, c \in Codes :
       Finish(s, bad, c) \/ FinishWithWarning(s, bad, c)
  \/ \E c \in Codes : FinishWithError(s, c)

Next ==
  \/ \E u \in Urls : AddUrl(u)
  \/ \E s \in Session : BeginTake(s)
  \/ \E s \in Session, u \in Urls : TakeUrl(s, u)
  \/ \E s \in Session : PopGroup(s)
  \/ \E s \in Session : Visit(s)
  \/ \E s \in Session : IgnoredEvent(s)
  \/ \E s \in Session, c \in Codes, clear \in BOOLEAN : MarkError(s, c, clear)
  \/ \E s \in Session : MarkError(s, group[session[s].group].code, FALSE)
  \/ \E g \in Group, c \in Codes, clear \in BOOLEAN : MarkLate(g, c, clear)
  \/ \E g \in Group : MarkLate(g, group[g].code, FALSE)
  \/ \E s \in Session, c \in Codes :
       ReceiverEnds(s, c) \/ ReceiverEnds(s, group[session[s].group].code)
  \/ \E s \in Session : GiveUp(s)

Spec == Init /\ [][Next]_vars
-----------------------------------------------------------------------------
(* Properties                                                              *)

Holds(s, g) == session[s].group = g /\ ~session[s].marked

Final(u) == url[u].state \in {"VISITED", "ERROR"}

\* update() pushes a failed group only while getErrorCount() <= 1, although
\* one failure may set ERROR up to three times and from several threads: no
\* group is ever visited more than twice.
HandedOutAtMostTwice == \A g \in Group : handed[g] <= 2

\* A group sits in the deque at most once, so that pop never gives the same
\* group to two sessions one after the other without an error in between.
DequeHasNoDuplicates ==
  \A i, j \in DOMAIN groupQueue : groupQueue[i] = groupQueue[j] => i = j

\* A group that failed is visited once more, unless divide and conquer
\* already replaced it: a retry is not forgotten, whichever threads mark the
\* group and however often, and whichever clients go away.
FailedGroupIsRetried ==
  \A g \in Group : group[g].errorCount >= 1 =>
    Queued(g) \/ handed[g] >= 2 \/ Splits(group[g])

\* Between the priority queue, the retrievers' local lists, the deque, the
\* clients and the logs no URL disappears: until it has a verdict or an error
\* somebody has it who is going to visit it, and no verdict is swallowed by
\* a split, a retry or a race of two sessions.
NoUrlLost ==
  \A u \in known :
    \/ u \in urlQueue
    \/ \E s \in Session : u \in session[s].got
    \/ \E g \in Group : /\ u \in group[g].urls
                        /\ Queued(g) \/ \E s \in Session : Holds(s, g)
    \/ u \in log.safe \cup log.malicious
    \/ url[u].state = "ERROR"

\* Divide and conquer: a malicious group of several URLs that was visited
\* leaves each of them to a strictly smaller group.
MaliciousGroupIsNarrowed ==
  \A g \in Group :
    group[g].state = "VISITED" /\ Splits(group[g]) =>
      \A u \in group[g].urls : \E h \in Group :
        /\ u \in group[h].urls
        /\ Cardinality(group[h].urls) < Cardinality(group[g].urls)

\* u enters safe.log at the end of a visit in which its client saw no change,
\* or of one whose changes are attributed to single URLs.
CleanVisitOf(u) ==
  \E s \in Session : /\ session[s].pc = "visiting" /\ session'[s].pc = "idle"
                     /\ u \in group[session[s].group].urls
                     /\ ~session[s].dirty

BulkVisitOf(u) ==
  \E s \in Session : /\ session[s].pc = "visiting" /\ session'[s].pc = "idle"
                     /\ u \in group[session[s].group].urls
                     /\ group[session[s].group].algorithm = "bulk"

\* Safe means that the client saw nothing: a URL that has not failed before
\* enters safe.log only at the end of a visit during which its client saw no
\* state change at all, be it one the server ignored because it came too early.
\* (In bulk visits the changes that were attributed count.)
FirstVerdictIsSound ==
  [][\A u \in (log'.safe \ log.safe) \ log.error : CleanVisitOf(u) \/ BulkVisitOf(u)]_vars

\* Bulk: every URL to which the StateChangeHandler attributed a change is
\* malicious when its visit ends, whichever message ends it.
AttributedChangesDecide ==
  [][\A s \in Session :
       session[s].pc = "visiting" /\ session'[s].pc = "idle" /\ ~session[s].marked =>
         \A u \in session[s].events : url'[u].malicious = "true"]_vars

-----------------------------------------------------------------------------
(* What the documentation says and the code does not do                    *)

\* Readme.txt, safe.log: the URLs that were visited and are deemed benign.  A
\* visit that ends without an error and without a change puts its URLs there.
\* (The error code of a failed first attempt is never taken back.)
BenignVisitIsLoggedSafe ==
  [][\A s \in Session, c \in Codes :
       LET gr == group[session[s].group]
       IN /\ ~session[s].marked /\ Finish(s, {}, c)
          /\ ~gr.malicious /\ ~session[s].dirty
          => gr.urls \subseteq log'.safe]_vars

\* Readme.txt, safe.log, for all attempts.  (A group of one URL visited by the
\* bulk algorithm is judged by an empty list of changes; and the verdict of a
\* failed attempt survives a malicious second one of a group of several URLs,
\* where a warning also takes back the error code that would keep it out.)
SafeLogIsSound ==
  [][\A u \in log'.safe \ log.safe : CleanVisitOf(u)]_vars
=============================================================================
