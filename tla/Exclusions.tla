----------------------------- MODULE Exclusions -----------------------------
(***************************************************************************)
(* The exclusion lists of a monitor of the client.  The thread of the      *)
(* monitor walks the list of an event type for every event, while the      *)
(* receiver thread clears it and adds what the server sends, without a     *)
(* lock.  A rule matches a set of events (subject and object); there is    *)
(* one event type, the lists of the others being separate.                 *)
(*                                                                         *)
(* The server of the repository sends its lists without the option that    *)
(* clears the local ones; Analyzer has the handler of it all the same.     *)
(***************************************************************************)
EXTENDS Naturals, Sequences, SequencesExt

CONSTANTS
  Matter,     \* what events are about, subject and object
  Own,        \* that about the client's own log and temporary files
  LocalLine,  \* lines of the local file: [mark, matches, good]
  RemoteLine, \* the same for lines the server sends
  MaxLines,   \* bound: lines of the local file that make a permission
  MaxRules,   \* bound: permissions of a list in all
  NoMatter    \* null

ASSUME ExclusionsAssumption ==
  /\ MaxLines \in Nat /\ MaxRules \in Nat /\ Own \in Matter /\ NoMatter \notin Matter
  /\ \A line \in LocalLine \cup RemoteLine : line.matches \subseteq Matter

Kind == {"file", "registry", "process", "network"}

VARIABLES
  monitor,   \* the kind of monitor, fixed
  list,      \* permissionMap, its only list
  nodes,     \* list nodes allocated so far
  receiver,  \* the receiver thread
  checker,   \* the thread of the monitor in isEventAllowed
  lives,     \* the client has not crashed
  verdicts,  \* history: what the list said of the event since the check began
  torn       \* history: the check read a freed node

exclusionVars == <<monitor, list, nodes, receiver, checker, lives, verdicts, torn>>
-----------------------------------------------------------------------------
(* Permissions                                                             *)

\* "+" or "yes", "-" or "no"; any other mark leaves the field as it was in
\* the memory of the new permission.
Allows(mark) == CASE mark = "+" -> {TRUE} [] mark = "-" -> {FALSE} [] OTHER -> BOOLEAN

\* What a list says of an event: some rule allows it and none disallows it.
Says(l, e) ==
  /\ \E i \in DOMAIN l : e \in l[i].matches /\ l[i].allow
  /\ \A i \in DOMAIN l : e \in l[i].matches => l[i].allow

NewPermission(line, allow, permanent, node) ==
  [matches |-> line.matches, allow |-> allow, permanent |-> permanent, node |-> node]

\* Lines with no mark, the wrong number of words or a wrong expression are
\* passed over.
Accepted == {line \in LocalLine : line.good /\ line.mark \in {"+", "-"}}

LoadExclusionList(lines) ==
  [i \in 1 .. Len(lines) |-> NewPermission(lines[i], lines[i].mark = "+", FALSE, i)]

\* The file monitor excludes the client's own logs and temporary files, last.
OwnFiles(l) ==
  <<NewPermission([matches |-> {Own}], TRUE, TRUE, Len(l) + 1)>>

ExclusionsInit ==
  /\ monitor \in Kind
  /\ \E lines \in SeqOf(Accepted, MaxLines) : LET local == LoadExclusionList(lines) IN
       list = IF monitor = "file" THEN local \o OwnFiles(local) ELSE local
  /\ nodes = Len(list)
  /\ receiver = [pc |-> "option", at |-> 1]
  /\ checker = [pc |-> "idle", about |-> NoMatter, node |-> 0, excluded |-> "unmatched"]
  /\ lives = TRUE /\ verdicts = {} /\ torn = FALSE
-----------------------------------------------------------------------------
(* The receiver thread                                                     *)

Remembers(l) == verdicts' = IF checker.pc = "idle" THEN {}
                            ELSE verdicts \cup {Says(l, checker.about)}

\* An option of another name than send-exclusion-lists, or "false".
OnOtherOption ==
  /\ lives /\ receiver.pc = "option"
  /\ receiver' = [receiver EXCEPT !.pc = "lists"]
  /\ UNCHANGED <<monitor, list, nodes, checker, lives, verdicts, torn>>

OnSendExclusionLists ==
  /\ lives /\ receiver.pc = "option"
  /\ receiver' = [pc |-> "clear", at |-> 1]
  /\ UNCHANGED <<monitor, list, nodes, checker, lives, verdicts, torn>>

\* A permission that is not permanent is removed with its node, on which the
\* iterator stands: it goes on, or the client crashes.
ClearExclusion ==
  /\ lives /\ receiver.pc = "clear" /\ receiver.at <= Len(list)
  /\ IF list[receiver.at].permanent
     THEN /\ receiver' = [receiver EXCEPT !.at = receiver.at + 1]
          /\ UNCHANGED <<list, lives, verdicts>>
     ELSE /\ list' = RemoveAt(list, receiver.at)
          /\ lives' \in BOOLEAN
          /\ Remembers(list')
          /\ UNCHANGED receiver
  /\ UNCHANGED <<monitor, nodes, checker, torn>>

EndClear ==
  /\ lives /\ receiver.pc = "clear" /\ receiver.at > Len(list)
  /\ receiver' = [pc |-> "lists", at |-> 1]
  /\ UNCHANGED <<monitor, list, nodes, checker, lives, verdicts, torn>>

\* addExclusion throws on a wrong expression; nobody in the receiver thread
\* catches it.
AddExclusion(line) ==
  /\ lives /\ receiver.pc = "lists" /\ nodes < MaxRules
  /\ \/ /\ line.good
        /\ \E allow \in Allows(line.mark) :
             list' = Append(list, NewPermission(line, allow, FALSE, nodes + 1))
        /\ nodes' = nodes + 1
        /\ Remembers(list')
        /\ UNCHANGED lives
     \/ /\ ~line.good
        /\ lives' = FALSE
        /\ UNCHANGED <<list, nodes, verdicts>>
  /\ UNCHANGED <<monitor, receiver, checker, torn>>

OnFileExclusionReceived(line) == monitor = "file" /\ AddExclusion(line)
OnRegistryExclusionReceived(line) == monitor = "registry" /\ AddExclusion(line)
OnProcessExclusionReceived(line) == monitor = "process" /\ AddExclusion(line)
-----------------------------------------------------------------------------
(* The thread of the monitor                                               *)

\* The node of a position, 0 for the end.
NodeAt(i) == IF i <= Len(list) THEN list[i].node ELSE 0

BeginCheck(e) ==
  /\ lives /\ checker.pc = "idle"
  /\ checker' = [pc |-> "check", about |-> e, node |-> NodeAt(1), excluded |-> "unmatched"]
  /\ verdicts' = {Says(list, e)} /\ torn' = FALSE
  /\ UNCHANGED <<monitor, list, nodes, receiver, lives>>

\* Seeded fault: the first rule that matches decides.
Combine_First(excluded, allow) ==
  IF excluded # "unmatched" THEN excluded
  ELSE IF allow THEN "allowed" ELSE "disallowed"

\* A rule that disallows is not outdone by another.
Combine(excluded, allow) ==
  IF allow THEN IF excluded = "disallowed" THEN excluded ELSE "allowed"
  ELSE "disallowed"

\* One rule is tried and the iterator moves on.
CheckNode ==
  /\ lives /\ checker.pc = "check"
  /\ \E i \in DOMAIN list :
       /\ list[i].node = checker.node
       /\ checker' = [checker EXCEPT
            !.node = NodeAt(i + 1),
            !.excluded = IF checker.about \in list[i].matches
                         THEN Combine(checker.excluded, list[i].allow) ELSE checker.excluded]
  /\ UNCHANGED <<monitor, list, nodes, receiver, lives, verdicts, torn>>

\* The node under the iterator was freed: a crash, or any verdict.
CheckFreedNode ==
  /\ lives /\ checker.pc = "check" /\ checker.node # 0
  /\ \A i \in DOMAIN list : list[i].node # checker.node
  /\ \/ lives' = FALSE /\ UNCHANGED checker
     \/ /\ \E x \in {"unmatched", "allowed", "disallowed"} :
             checker' = [checker EXCEPT !.excluded = x, !.node = 0]
        /\ UNCHANGED lives
  /\ torn' = TRUE
  /\ UNCHANGED <<monitor, list, nodes, receiver, verdicts>>

Allowed == checker.excluded = "allowed"

\* The verdict is used; an event that is not allowed is reported.
EndCheck ==
  /\ lives /\ checker.pc = "check" /\ checker.node = 0
  /\ checker' = [checker EXCEPT !.pc = "idle", !.about = NoMatter, !.excluded = "unmatched"]
  /\ verdicts' = {} /\ torn' = FALSE
  /\ UNCHANGED <<monitor, list, nodes, receiver, lives>>
-----------------------------------------------------------------------------
ExclusionsNext ==
  \/ OnOtherOption \/ OnSendExclusionLists \/ ClearExclusion \/ EndClear
  \/ \E line \in RemoteLine : \/ OnFileExclusionReceived(line)
                              \/ OnRegistryExclusionReceived(line)
                              \/ OnProcessExclusionReceived(line)
  \/ \E e \in Matter : BeginCheck(e)
  \/ CheckNode \/ CheckFreedNode \/ EndCheck

ExclusionsSpec == ExclusionsInit /\ [][ExclusionsNext]_exclusionVars
-----------------------------------------------------------------------------
Permission == [matches : SUBSET Matter, allow : BOOLEAN, permanent : BOOLEAN, node : Nat]

ExclusionsTypeOK ==
  /\ monitor \in Kind /\ list \in Seq(Permission) /\ nodes \in Nat
  /\ receiver \in [pc : {"option", "clear", "lists"}, at : Nat]
  /\ checker \in [pc : {"idle", "check"}, about : Matter \cup {NoMatter}, node : Nat,
                  excluded : {"unmatched", "allowed", "disallowed"}]
  /\ lives \in BOOLEAN /\ verdicts \subseteq BOOLEAN /\ torn \in BOOLEAN

(* The verdict of Monitor::isEventAllowed is that of the list as it was at  *)
(* some moment of the check, though another thread clears the list and     *)
(* appends to it meanwhile: never one put together from rules that were    *)
(* not in it at once.  (A check that met a freed node is left out.)        *)
VerdictHasAReason ==
  lives /\ checker.pc = "check" /\ checker.node = 0 /\ ~torn => Allowed \in verdicts
=============================================================================
