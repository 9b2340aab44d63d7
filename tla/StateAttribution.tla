-------------------------- MODULE StateAttribution --------------------------
(***************************************************************************)
(* Which URL of a bulk group is blamed for a state change: the trees of    *)
(* processes that StateChangeHandler builds from the events of a visit, in *)
(* whatever order the monitors' threads sent them, and what it returns for *)
(* the browser process of a URL at the end.                                *)
(*                                                                         *)
(* A node is its path: the number of its tree and the places of its        *)
(* ancestors and itself among their siblings, so that the recursive search *)
(* finds the least path first.  Process ids are not reused in a visit.     *)
(***************************************************************************)
EXTENDS Naturals, Sequences, FiniteSets

CONSTANTS
  BulkUrl,     \* URLs of the group
  Proc,        \* processes, by their id, that run in the visit
  MaxWrites,   \* bound: changes that are not processes
  CaptureClient \* the process of the client

ASSUME AttributionAssumption ==
  /\ 0 \notin Proc /\ CaptureClient \notin Proc /\ MaxWrites \in Nat
  /\ "unstarted" \notin BulkUrl

Unstarted == "unstarted"

VARIABLES
  mainPid,    \* the process id the client reports for a URL, 0 when it has none
  family,     \* history: the URL a process belongs to
  permitted,  \* processes whose creation an exclusion list permits
  inFlight,   \* events on their way
  writes,     \* history: changes that are not processes so far
  forest      \* processTrees: path -> node

attributionVars == <<mainPid, family, permitted, inFlight, writes, forest>>

AttributionInit ==
  /\ mainPid = [u \in BulkUrl |-> 0]
  /\ family = [p \in Proc |-> Unstarted]
  /\ permitted \in SUBSET Proc
  /\ inFlight = {} /\ writes = 0 /\ forest = <<>>

Report(p, e) == inFlight' = IF p \in permitted THEN inFlight ELSE inFlight \cup {e}

(* The client starts a browser for a URL.                                  *)
StartBrowser(u, p) ==
  /\ mainPid[u] = 0 /\ family[p] = Unstarted
  /\ mainPid' = [mainPid EXCEPT ![u] = p]
  /\ family' = [family EXCEPT ![p] = u]
  /\ Report(p, [type |-> "process", pid |-> p, parent |-> CaptureClient])
  /\ UNCHANGED <<permitted, writes, forest>>

Spawn(q, p) ==
  /\ family[q] # Unstarted /\ family[p] = Unstarted
  /\ family' = [family EXCEPT ![p] = family[q]]
  /\ Report(p, [type |-> "process", pid |-> p, parent |-> q])
  /\ UNCHANGED <<mainPid, permitted, writes, forest>>

Write(p) ==
  /\ family[p] # Unstarted /\ writes < MaxWrites
  /\ writes' = writes + 1
  /\ inFlight' = inFlight \cup {[type |-> "object", pid |-> p, n |-> writes]}
  /\ UNCHANGED <<mainPid, family, permitted, forest>>

(* The order in which the recursion visits the nodes.                      *)
Before(a, b) ==
  \/ \E i \in 1..Len(a) : i <= Len(b) /\ a[i] < b[i] /\ SubSeq(a, 1, i - 1) = SubSeq(b, 1, i - 1)
  \/ Len(a) < Len(b) /\ a = SubSeq(b, 1, Len(a))

FirstOf(paths) == CHOOSE a \in paths : \A b \in paths : a = b \/ Before(a, b)

NodesOf(pid) == {a \in DOMAIN forest : forest[a].pid = pid}
Roots == {a \in DOMAIN forest : Len(a) = 1}
NewRoot == <<Cardinality(Roots) + 1>>
NewChild(a) == Append(a, Cardinality({b \in DOMAIN forest :
                 Len(b) = Len(a) + 1 /\ SubSeq(b, 1, Len(a)) = a}) + 1)

WithTree(a, node) == [b \in DOMAIN forest \cup {a} |-> IF b = a THEN node ELSE forest[b]]

(* ProcessStateChange: below the process that created it, or a new tree.   *)
AddProcess(e) == LET node == [pid |-> e.pid, parent |-> e.parent, changes |-> {}] IN
  /\ e.type = "process"
  /\ forest' = WithTree(IF NodesOf(e.parent) = {} THEN NewRoot
                        ELSE NewChild(FirstOf(NodesOf(e.parent))), node)

(* ObjectStateChange: at its process, or at the root of a new tree, with 0 *)
(* for the parent.                                                         *)
AddObject(e) == LET a == FirstOf(NodesOf(e.pid)) IN
  /\ e.type = "object"
  /\ forest' = IF NodesOf(e.pid) = {}
               THEN WithTree(NewRoot, [pid |-> e.pid, parent |-> 0, changes |-> {e}])
               ELSE [forest EXCEPT ![a].changes = forest[a].changes \cup {e}]

AddStateChange(e) ==
  /\ AddProcess(e) \/ AddObject(e)
  /\ inFlight' = inFlight \ {e}
  /\ UNCHANGED <<mainPid, family, permitted, writes>>

AttributionNext ==
  \/ \E u \in BulkUrl, p \in Proc : StartBrowser(u, p)
  \/ \E q, p \in Proc : Spawn(q, p)
  \/ \E p \in Proc : Write(p)
  \/ \E e \in inFlight : AddStateChange(e)

AttributionSpec == AttributionInit /\ [][AttributionNext]_attributionVars
-----------------------------------------------------------------------------
(* Seeded fault: only the process with the URL's own id is looked at.      *)
TreesOf_PidOnly(pid) == {a \in Roots : forest[a].pid = pid}

(* getStateChangesCSV: the nodes of the first tree of the process or of a  *)
(* child of it; id 0 gets the only tree there is.                          *)
TreesOf(pid) == {a \in Roots : forest[a].pid = pid \/ forest[a].parent = pid}

Blamed(pid) ==
  IF TreesOf(pid) # {}
  THEN {b \in DOMAIN forest : b[1] = FirstOf(TreesOf(pid))[1]}
  ELSE IF Cardinality(Roots) = 1 /\ pid = 0 THEN DOMAIN forest ELSE {}

AttributionTypeOK ==
  /\ family \in [Proc -> BulkUrl \cup {Unstarted}]
  /\ \A a \in DOMAIN forest : Len(a) > 1 => SubSeq(a, 1, Len(a) - 1) \in DOMAIN forest
  /\ \A a \in DOMAIN forest : forest[a].pid \in Proc

(* "State changes can be mapped to the responsible URL": in any order of   *)
(* the events, the changes listed for a URL were made by processes of its  *)
(* browser; and once all events are in, a URL with changes is not passed   *)
(* over, unless a process its browser started is on an exclusion list and  *)
(* the handler does not know where it belongs.                             *)
BlameIsRight == \A u \in BulkUrl : LET b == mainPid[u] IN
  b # 0 =>
    /\ \A a \in Blamed(b) : family[forest[a].pid] = u
    /\ (/\ inFlight = {} /\ \E a \in DOMAIN forest : family[forest[a].pid] = u
        /\ \A p \in permitted : family[p] = u => p = b)
       => Blamed(b) # {}
=============================================================================
