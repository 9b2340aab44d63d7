-------------------------- MODULE ClientPartsProofs --------------------------
(***************************************************************************)
(* Proofs about four parts of the client that share no state: exclusion    *)
(* lists (Exclusions), monitors and their threads (SystemMonitors), the    *)
(* browsers (Browsers) and the packet capture (PacketCapture); and what is *)
(* proved of these and of other parts holds of MCParts, their composition. *)
(***************************************************************************)
EXTENDS MCParts, ServerPartsProofs, FileUploadProofs,
        SequenceTheorems, FiniteSetTheorems, TLAPS

-----------------------------------------------------------------------------
(***************************************************************************)
(* Exclusion lists, for every set of rules and events.  The invariant says *)
(* what the rules behind the iterator have to do with the verdict so far,  *)
(* by the nodes of the rules: the clearing takes them off the front.       *)
(***************************************************************************)

\* The rules have nodes of their own, in the order they were added.
RuleNodesInv ==
  /\ \A i \in 1 .. Len(list) : list[i].node \in 1 .. nodes
  /\ \A i, j \in 1 .. Len(list) : i < j => list[i].node < list[j].node

\* Until the clearing is over only the last rule is permanent, so that it
\* removes the first rule, again and again, and stops.
ClearInv ==
  /\ receiver.pc \in {"option", "clear"} =>
       \A i \in 1 .. Len(list) : i < Len(list) => ~list[i].permanent
  /\ receiver.pc = "clear" => receiver.at = 1 \/ receiver.at > Len(list)

Matches(i) == checker.about \in list[i].matches

\* The iterator is at rule i: the rules before it are tried.  If one that
\* allows was removed since, then the list as it was allowed the event, or a
\* rule that disallows it is still to come.
TriedInv(i) ==
  /\ checker.excluded = "unmatched" => \A j \in 1 .. Len(list) : j < i => ~Matches(j)
  /\ checker.excluded = "disallowed" => FALSE \in verdicts
  /\ checker.excluded = "allowed" =>
       /\ \A j \in 1 .. Len(list) : j < i /\ Matches(j) => list[j].allow
       /\ \/ TRUE \in verdicts
          \/ \E j \in 1 .. Len(list) : j < i /\ Matches(j) /\ list[j].allow
          \/ \E j \in 1 .. Len(list) : i <= j /\ Matches(j) /\ ~list[j].allow

CheckInv ==
  checker.pc = "check" =>
    /\ Says(list, checker.about) \in verdicts
    /\ checker.node = 0 /\ ~torn => Allowed \in verdicts
    /\ checker.node <= nodes
    /\ \A i \in 1 .. Len(list) : list[i].node = checker.node => TriedInv(i)

ExclusionsInv == ExclusionsTypeOK /\ RuleNodesInv /\ ClearInv /\ CheckInv

\* What the list says, with its domain written out.
LEMMA SaysOfList ==
  ASSUME NEW l \in Seq(Permission), NEW e
  PROVE  /\ Says(l, e) \in BOOLEAN
         /\ Says(l, e) <=>
             /\ \E i \in 1 .. Len(l) : e \in l[i].matches /\ l[i].allow
             /\ \A i \in 1 .. Len(l) : e \in l[i].matches => l[i].allow
BY DEF Says

LEMMA NewRule ==
  ASSUME NEW line, line.matches \subseteq Matter, NEW allow \in BOOLEAN, NEW node \in Nat
  PROVE  /\ NewPermission(line, allow, FALSE, node) \in Permission
         /\ NewPermission(line, allow, FALSE, node).node = node
         /\ ~NewPermission(line, allow, FALSE, node).permanent
BY DEF NewPermission, Permission

LEMMA OwnRule ==
  ASSUME NEW node \in Nat
  PROVE  /\ NewPermission([matches |-> {Own}], TRUE, TRUE, node) \in Permission
         /\ NewPermission([matches |-> {Own}], TRUE, TRUE, node).node = node
<1>1. {Own} \subseteq Matter
  BY ExclusionsAssumption
<1> QED BY <1>1 DEF NewPermission, Permission

\* One sequence after another, and a rule at the end.
LEMMA RulesJoined ==
  ASSUME NEW l \in Seq(Permission), NEW k \in Seq(Permission)
  PROVE  /\ l \o k \in Seq(Permission) /\ Len(l \o k) = Len(l) + Len(k)
         /\ \A i \in 1 .. Len(l) : (l \o k)[i] = l[i]
         /\ \A i \in 1 .. Len(k) : (l \o k)[Len(l) + i] = k[i]
<1>1. Len(l) \in Nat /\ Len(k) \in Nat
  BY LenProperties
<1>2. /\ l \o k \in Seq(Permission) /\ Len(l \o k) = Len(l) + Len(k)
      /\ \A i \in 1 .. Len(l) + Len(k) : (l \o k)[i] = IF i <= Len(l) THEN l[i] ELSE k[i - Len(l)]
  BY ConcatProperties
<1> QED BY <1>1, <1>2

LEMMA RuleAppended ==
  ASSUME NEW l \in Seq(Permission), NEW rule \in Permission
  PROVE  /\ Append(l, rule) \in Seq(Permission) /\ Len(Append(l, rule)) = Len(l) + 1
         /\ \A i \in 1 .. Len(l) : Append(l, rule)[i] = l[i]
         /\ Append(l, rule)[Len(l) + 1] = rule
BY AppendProperties, LenProperties

\* A function on 1 .. n is a sequence.
LEMMA RulesInOrder ==
  ASSUME NEW n \in Nat, NEW l \in [1 .. n -> Permission]
  PROVE  l \in Seq(Permission) /\ Len(l) = n
<1>1. l \in Seq(Permission)
  BY SeqDef
<1>2. Len(l) \in Nat /\ 1 .. Len(l) = 1 .. n
  BY <1>1, LenProperties
<1> QED BY <1>1, <1>2

LEMMA RuleTyped ==
  ASSUME NEW l \in Seq(Permission), NEW i \in 1 .. Len(l)
  PROVE  l[i] \in Permission /\ l[i].allow \in BOOLEAN
<1>1. l[i] \in Permission
  BY ElementOfSeq
<1> QED BY <1>1 DEF Permission

CheckerType == [pc : {"idle", "check"}, about : Matter \cup {NoMatter}, node : Nat,
                excluded : {"unmatched", "allowed", "disallowed"}]

LEMMA TypesOfExclusions ==
  ASSUME ExclusionsTypeOK
  PROVE  /\ monitor \in Kind /\ list \in Seq(Permission) /\ Len(list) \in Nat /\ nodes \in Nat
         /\ checker \in CheckerType
BY LenProperties DEF ExclusionsTypeOK, CheckerType

LEMMA ExclusionsStart == ExclusionsInit => ExclusionsInv
<1> SUFFICES ASSUME ExclusionsInit PROVE ExclusionsInv
  OBVIOUS
<1>1. PICK lines \in SeqOf(Accepted, MaxLines) :
         list = IF monitor = "file"
                THEN LoadExclusionList(lines) \o OwnFiles(LoadExclusionList(lines))
                ELSE LoadExclusionList(lines)
  BY DEF ExclusionsInit
<1> DEFINE n == Len(lines)
           local == LoadExclusionList(lines)
<1>2. n \in Nat /\ \A i \in 1 .. n : lines[i] \in Accepted
  BY <1>1, ExclusionsAssumption DEF SeqOf
<1>3. /\ local \in Seq(Permission) /\ Len(local) = n
      /\ \A i \in 1 .. n : local[i] \in Permission /\ local[i].node = i /\ ~local[i].permanent
  <2>1. local = [i \in 1 .. n |-> NewPermission(lines[i], lines[i].mark = "+", FALSE, i)]
    BY DEF LoadExclusionList
  <2>2. ASSUME NEW i \in 1 .. n
        PROVE  local[i] \in Permission /\ local[i].node = i /\ ~local[i].permanent
    <3>1. lines[i].matches \subseteq Matter
      BY <1>2, ExclusionsAssumption DEF Accepted
    <3>2. PICK allow \in BOOLEAN : allow = (lines[i].mark = "+")
      OBVIOUS
    <3>3. local[i] = NewPermission(lines[i], allow, FALSE, i)
      BY <2>1, <3>2
    <3>4. i \in Nat
      BY <1>2
    <3>5. /\ NewPermission(lines[i], allow, FALSE, i) \in Permission
          /\ NewPermission(lines[i], allow, FALSE, i).node = i
          /\ ~NewPermission(lines[i], allow, FALSE, i).permanent
      BY <3>1, <3>4, NewRule, Zenon
    <3> HIDE DEF local, n
    <3> QED BY <3>3, <3>5, Zenon
  <2>3. \A i \in 1 .. n : local[i] \in Permission
    BY <2>2
  <2>4. local \in [1 .. n -> Permission]
    BY <2>1, <2>2
  <2> HIDE DEF local, n
  <2> QED BY <1>2, <2>2, <2>3, <2>4, RulesInOrder
<1> HIDE DEF n, local
<1>4. /\ OwnFiles(local) \in Seq(Permission) /\ Len(OwnFiles(local)) = 1
      /\ OwnFiles(local)[1].node = n + 1
  <2> DEFINE own == NewPermission([matches |-> {Own}], TRUE, TRUE, n + 1)
  <2>1. own \in Permission /\ own.node = n + 1
    <3>1. n + 1 \in Nat
      BY <1>2
    <3> QED BY <3>1, OwnRule, Zenon
  <2>2. OwnFiles(local) = <<own>>
    BY <1>3 DEF OwnFiles
  <2> HIDE DEF own
  <2> QED BY <2>1, <2>2
<1>5. /\ list \in Seq(Permission) /\ Len(list) \in {n, n + 1}
      /\ \A i \in 1 .. Len(list) : list[i].node = i /\ (i < Len(list) => ~list[i].permanent)
  <2>1. CASE monitor # "file"
    <3>1. list = local
      BY <1>1, <2>1 DEF local
    <3> QED BY <1>2, <1>3, <3>1
  <2>2. CASE monitor = "file"
    <3>1. list = local \o OwnFiles(local)
      BY <1>1, <2>2 DEF local
    <3>2. /\ list \in Seq(Permission) /\ Len(list) = n + 1
          /\ \A i \in 1 .. n : list[i] = local[i]
          /\ list[n + 1] = OwnFiles(local)[1]
      <4>1. /\ list \in Seq(Permission) /\ Len(list) = Len(local) + Len(OwnFiles(local))
            /\ \A i \in 1 .. Len(local) : list[i] = local[i]
            /\ \A i \in 1 .. Len(OwnFiles(local)) : list[Len(local) + i] = OwnFiles(local)[i]
        BY <1>3, <1>4, <3>1, RulesJoined
      <4>2. Len(local) = n /\ 1 .. Len(OwnFiles(local)) = {1}
        BY <1>3, <1>4
      <4> QED BY <1>4, <4>1, <4>2
    <3> QED BY <1>2, <1>3, <1>4, <3>2
  <2> QED BY <2>1, <2>2
<1>6. /\ nodes = Len(list) /\ receiver = [pc |-> "option", at |-> 1] /\ monitor \in Kind
      /\ checker = [pc |-> "idle", about |-> NoMatter, node |-> 0, excluded |-> "unmatched"]
      /\ lives = TRUE /\ verdicts = {} /\ torn = FALSE
  BY DEF ExclusionsInit
<1>7. RuleNodesInv /\ ClearInv
  BY <1>2, <1>5, <1>6 DEF RuleNodesInv, ClearInv
<1>8. CheckInv
  BY <1>6 DEF CheckInv
<1>9. ExclusionsTypeOK
  <2>1. checker \in CheckerType
    BY <1>6 DEF CheckerType
  <2>2. receiver \in [pc : {"option", "clear", "lists"}, at : Nat]
    BY <1>6
  <2>3. nodes \in Nat /\ list \in Seq(Permission) /\ monitor \in Kind
    BY <1>2, <1>5, <1>6
  <2>4. lives \in BOOLEAN /\ verdicts \subseteq BOOLEAN /\ torn \in BOOLEAN
    BY <1>6, Zenon
  <2> QED BY <2>1, <2>2, <2>3, <2>4, Zenon DEF ExclusionsTypeOK, CheckerType
<1> QED BY <1>7, <1>8, <1>9 DEF ExclusionsInv

\* The first rule is removed: the others move up.
LEMMA FirstRemoved ==
  ASSUME NEW l \in Seq(Permission), l # <<>>
  PROVE  /\ RemoveAt(l, 1) \in Seq(Permission)
         /\ Len(RemoveAt(l, 1)) = Len(l) - 1
         /\ \A i \in 1 .. Len(l) - 1 : RemoveAt(l, 1)[i] = l[i + 1]
<1>1. Len(l) \in Nat \ {0}
  BY EmptySeq
<1>2. SubSeq(l, 1, 1 - 1) = <<>>
  BY <1>1
<1>3. /\ SubSeq(l, 1 + 1, Len(l)) \in Seq(Permission)
      /\ Len(SubSeq(l, 1 + 1, Len(l))) = Len(l) - 1
      /\ \A i \in 1 .. Len(l) - 1 : SubSeq(l, 1 + 1, Len(l))[i] = l[i + 1]
  <2>1. \A i \in 1 + 1 .. Len(l) : l[i] \in Permission
    BY <1>1, ElementOfSeq
  <2>2. /\ SubSeq(l, 1 + 1, Len(l)) \in Seq(Permission)
        /\ Len(SubSeq(l, 1 + 1, Len(l))) =
             IF 1 + 1 <= Len(l) THEN Len(l) - (1 + 1) + 1 ELSE 0
        /\ \A i \in 1 .. Len(l) - (1 + 1) + 1 : SubSeq(l, 1 + 1, Len(l))[i] = l[1 + 1 + i - 1]
    <3>1. 1 + 1 \in Int /\ Len(l) \in Int
      BY <1>1
    <3> QED BY <2>1, <3>1, SubSeqProperties
  <2> HIDE DEF Permission
  <2>3. \A i \in 1 .. Len(l) - 1 : i \in 1 .. Len(l) - (1 + 1) + 1 /\ 1 + 1 + i - 1 = i + 1
    BY <1>1
  <2>4. Len(SubSeq(l, 1 + 1, Len(l))) = Len(l) - 1
    <3>1. PICK m : m = Len(l)
      OBVIOUS
    <3>2. (IF 1 + 1 <= m THEN m - (1 + 1) + 1 ELSE 0) = m - 1
      BY <1>1, <3>1
    <3>3. Len(SubSeq(l, 1 + 1, Len(l))) = IF 1 + 1 <= Len(l) THEN Len(l) - (1 + 1) + 1 ELSE 0
      BY <2>2
    <3> QED BY <3>1, <3>2, <3>3
  <2>5. \A i \in 1 .. Len(l) - 1 : SubSeq(l, 1 + 1, Len(l))[i] = l[i + 1]
    BY <2>2, <2>3
  <2> QED BY <2>2, <2>4, <2>5
<1>4. RemoveAt(l, 1) = SubSeq(l, 1 + 1, Len(l))
  BY <1>2, <1>3, ConcatEmptySeq DEF RemoveAt
<1> QED BY <1>3, <1>4

LEMMA ClearKeeps == ASSUME ExclusionsInv, ClearExclusion PROVE ExclusionsInv'
<1>1. /\ receiver.pc = "clear" /\ receiver.at <= Len(list) /\ receiver.at = 1
      /\ list \in Seq(Permission) /\ Len(list) \in Nat \ {0} /\ list # <<>>
      /\ UNCHANGED <<monitor, nodes, checker, torn>>
  <2>1. /\ receiver.pc = "clear" /\ receiver.at <= Len(list)
        /\ UNCHANGED <<monitor, nodes, checker, torn>> /\ receiver.at \in Nat
    BY DEF ClearExclusion, ExclusionsInv, ExclusionsTypeOK
  <2>2. list \in Seq(Permission) /\ Len(list) \in Nat
    BY TypesOfExclusions DEF ExclusionsInv
  <2>3. receiver.at = 1 /\ Len(list) # 0
    BY <2>1, <2>2 DEF ExclusionsInv, ClearInv
  <2> QED BY <2>1, <2>2, <2>3
<1>2. CASE list[1].permanent
  <2>1. /\ receiver' = [receiver EXCEPT !.at = 2] /\ UNCHANGED <<list, lives, verdicts>>
    BY <1>1, <1>2 DEF ClearExclusion
  <2>2. Len(list) = 1
    <3>1. 1 \in 1 .. Len(list)
      BY <1>1
    <3>2. ~(1 < Len(list))
      <4>1. \A i \in 1 .. Len(list) : i < Len(list) => ~list[i].permanent
        <5>1. ClearInv
          BY DEF ExclusionsInv
        <5>2. receiver.pc \in {"option", "clear"}
          BY <1>1
        <5>3. receiver.pc \in {"option", "clear"} =>
                 \A i \in 1 .. Len(list) : i < Len(list) => ~list[i].permanent
          BY <5>1 DEF ClearInv
        <5> QED BY <5>2, <5>3
      <4> QED BY <1>2, <3>1, <4>1, Zenon
    <3>3. PICK m \in Nat \ {0} : m = Len(list)
      BY <1>1
    <3> QED BY <3>2, <3>3
  <2>3. /\ receiver' \in [pc : {"option", "clear", "lists"}, at : Nat]
        /\ receiver'.pc = "clear" /\ receiver'.at = 2
    BY <1>1, <2>1 DEF ExclusionsInv, ExclusionsTypeOK
  <2>4. ExclusionsTypeOK' /\ RuleNodesInv'
    BY <1>1, <2>1, <2>3 DEF ExclusionsInv, ExclusionsTypeOK, RuleNodesInv
  <2>5. ClearInv'
    BY <2>1, <2>2, <2>3 DEF ClearInv
  <2>6. CheckInv'
    BY <1>1, <2>1 DEF ExclusionsInv, CheckInv, TriedInv, Matches, Allowed
  <2> QED BY <2>4, <2>5, <2>6 DEF ExclusionsInv
<1>3. CASE ~list[1].permanent
  <2>1. /\ list' = RemoveAt(list, 1) /\ lives' \in BOOLEAN /\ Remembers(list')
        /\ UNCHANGED receiver
    BY <1>1, <1>3 DEF ClearExclusion
  <2>2. /\ list' \in Seq(Permission) /\ Len(list') = Len(list) - 1
        /\ \A i \in 1 .. Len(list') : list'[i] = list[i + 1]
    BY <1>1, <2>1, FirstRemoved
  <2>3. verdicts' = IF checker.pc = "idle" THEN {} ELSE verdicts \cup {Says(list', checker.about)}
    BY <2>1 DEF Remembers
  <2>4. ExclusionsTypeOK'
    <3>1. Says(list', checker.about) \in BOOLEAN
      BY <2>2, SaysOfList
    <3> QED BY <1>1, <2>1, <2>2, <2>3, <3>1 DEF ExclusionsInv, ExclusionsTypeOK
  <2>5. RuleNodesInv'
    <3>1. \A i \in 1 .. Len(list') : i + 1 \in 1 .. Len(list) /\ list'[i] = list[i + 1]
      BY <1>1, <2>2
    <3>2. \A i \in 1 .. Len(list') : list'[i].node \in 1 .. nodes
      BY <3>1 DEF ExclusionsInv, RuleNodesInv
    <3>3. \A i, j \in 1 .. Len(list') : i < j => i + 1 < j + 1
      BY <1>1, <2>2
    <3>4. \A i, j \in 1 .. Len(list') : i < j => list'[i].node < list'[j].node
      BY <3>1, <3>3 DEF ExclusionsInv, RuleNodesInv
    <3> QED BY <1>1, <3>2, <3>4 DEF RuleNodesInv
  <2>6. ClearInv'
    BY <1>1, <2>1, <2>2 DEF ExclusionsInv, ClearInv
  <2>7. CheckInv'
    <3> SUFFICES ASSUME checker.pc = "check"
                 PROVE  /\ Says(list', checker.about) \in verdicts'
                        /\ checker.node = 0 /\ ~torn => Allowed \in verdicts'
                        /\ checker.node <= nodes
                        /\ \A i \in 1 .. Len(list') : list'[i].node = checker.node => TriedInv(i)'
      BY <1>1 DEF CheckInv, Allowed
    <3>1. verdicts' = verdicts \cup {Says(list', checker.about)}
      BY <2>3
    <3>2. ASSUME NEW i \in 1 .. Len(list'), list'[i].node = checker.node
          PROVE  TriedInv(i)'
      <4>1. /\ i + 1 \in 1 .. Len(list) /\ list[i + 1].node = checker.node
        BY <1>1, <2>2, <3>2
      <4>2. TriedInv(i + 1)
        BY <4>1 DEF ExclusionsInv, CheckInv
      <4>3. \A j \in 1 .. Len(list') : j + 1 \in 1 .. Len(list) /\ (Matches(j)' <=> Matches(j + 1))
                                        /\ list'[j] = list[j + 1]
        BY <1>1, <2>2 DEF Matches
      <4>4. checker.excluded = "unmatched" => \A j \in 1 .. Len(list') : j < i => ~Matches(j)'
        BY <4>2, <4>3 DEF TriedInv
      <4>5. checker.excluded = "disallowed" => FALSE \in verdicts'
        BY <3>1, <4>2 DEF TriedInv
      <4>6. ASSUME checker.excluded = "allowed"
            PROVE  /\ \A j \in 1 .. Len(list') : j < i /\ Matches(j)' => list'[j].allow
                   /\ \/ TRUE \in verdicts'
                      \/ \E j \in 1 .. Len(list') : i <= j /\ Matches(j)' /\ ~list'[j].allow
        <5>1. \A j \in 1 .. Len(list') : j < i /\ Matches(j)' => list'[j].allow
          BY <4>2, <4>3, <4>6 DEF TriedInv
        <5>2. CASE \E j \in 1 .. Len(list) : i + 1 <= j /\ Matches(j) /\ ~list[j].allow
          <6>1. PICK j \in 1 .. Len(list) : i + 1 <= j /\ Matches(j) /\ ~list[j].allow
            BY <5>2
          <6>2. j - 1 \in 1 .. Len(list') /\ i <= j - 1 /\ (j - 1) + 1 = j
            BY <1>1, <2>2, <6>1
          <6> QED BY <4>3, <5>1, <6>1, <6>2
        <5>3. CASE ~ \E j \in 1 .. Len(list) : i + 1 <= j /\ Matches(j) /\ ~list[j].allow
          <6>1. \A j \in 1 .. Len(list) : Matches(j) => list[j].allow
            BY <1>1, <2>2, <4>2, <4>6, <5>3 DEF TriedInv
          <6>2. TRUE \in verdicts \/ \E j \in 1 .. Len(list) : Matches(j) /\ list[j].allow
            BY <4>2, <4>6, <5>3 DEF TriedInv
          <6>3. TRUE \in verdicts \/ Says(list, checker.about)
            BY <1>1, <6>1, <6>2, SaysOfList DEF Matches
          <6>4. Says(list, checker.about) \in verdicts /\ Says(list, checker.about) \in BOOLEAN
            BY <1>1, SaysOfList DEF ExclusionsInv, CheckInv
          <6>5. TRUE \in verdicts
            BY <6>3, <6>4
          <6> QED BY <3>1, <5>1, <6>5
        <5> QED BY <5>2, <5>3
      <4> QED BY <1>1, <4>4, <4>5, <4>6 DEF TriedInv
    <3>3. /\ checker.node = 0 /\ ~torn => Allowed \in verdicts'
          /\ checker.node <= nodes
      BY <3>1 DEF ExclusionsInv, CheckInv
    <3> QED BY <3>1, <3>2, <3>3
  <2> QED BY <2>4, <2>5, <2>6, <2>7 DEF ExclusionsInv
<1> QED BY <1>2, <1>3

LEMMA AddKeeps ==
  ASSUME ExclusionsInv, NEW line \in RemoteLine, AddExclusion(line)
  PROVE  ExclusionsInv'
<1>1. /\ receiver.pc = "lists" /\ UNCHANGED <<monitor, receiver, checker, torn>>
      /\ list \in Seq(Permission) /\ Len(list) \in Nat /\ nodes \in Nat
  BY DEF AddExclusion, ExclusionsInv, ExclusionsTypeOK
<1>2. CASE ~line.good
  <2>1. UNCHANGED <<list, nodes, verdicts>> /\ lives' = FALSE
    BY <1>2 DEF AddExclusion
  <2> QED
    BY <1>1, <2>1 DEF ExclusionsInv, ExclusionsTypeOK, RuleNodesInv, ClearInv, CheckInv, TriedInv,
                      Matches, Allowed
<1>3. CASE line.good
  <2>1. PICK allow \in Allows(line.mark) :
           list' = Append(list, NewPermission(line, allow, FALSE, nodes + 1))
    BY <1>3 DEF AddExclusion
  <2>2. nodes' = nodes + 1 /\ Remembers(list') /\ UNCHANGED lives
    BY <1>3 DEF AddExclusion
  <2> DEFINE rule == NewPermission(line, allow, FALSE, nodes + 1)
  <2>3. rule \in Permission /\ rule.node = nodes + 1
    <3>1. allow \in BOOLEAN
      BY <2>1 DEF Allows
    <3>2. line.matches \subseteq Matter
      BY ExclusionsAssumption
    <3>3. rule \in Permission
      <4>1. nodes + 1 \in Nat /\ FALSE \in BOOLEAN
        BY <1>1
      <4> QED BY <3>1, <3>2, <4>1, NewRule, Zenon DEF rule
    <3>4. rule.node = nodes + 1
      <4>1. nodes + 1 \in Nat
        BY <1>1
      <4> QED BY <3>1, <3>2, <4>1, NewRule, Zenon DEF rule
    <3> QED BY <3>3, <3>4
  <2> HIDE DEF rule
  <2>4. /\ list' \in Seq(Permission) /\ Len(list') = Len(list) + 1
        /\ \A i \in 1 .. Len(list) : list'[i] = list[i]
        /\ list'[Len(list) + 1] = rule
    <3>1. list' = Append(list, rule)
      BY <2>1 DEF rule
    <3> QED BY <1>1, <2>3, <3>1, RuleAppended
  <2>5. verdicts' = IF checker.pc = "idle" THEN {} ELSE verdicts \cup {Says(list', checker.about)}
    BY <2>2 DEF Remembers
  <2>6. ExclusionsTypeOK'
    <3>1. Says(list', checker.about) \in BOOLEAN
      BY <2>4, SaysOfList
    <3> QED BY <1>1, <2>2, <2>4, <2>5, <3>1 DEF ExclusionsInv, ExclusionsTypeOK
  <2>7. RuleNodesInv'
    <3>1. \A i \in 1 .. Len(list') : i \in 1 .. Len(list) \/ (i = Len(list) + 1 /\ list'[i] = rule)
      BY <1>1, <2>4
    <3>2. \A i \in 1 .. Len(list) : list[i].node \in 1 .. nodes /\ list'[i] = list[i]
      BY <2>4 DEF ExclusionsInv, RuleNodesInv
    <3>3. \A i, j \in 1 .. Len(list) : i < j => list[i].node < list[j].node
      BY DEF ExclusionsInv, RuleNodesInv
    <3>4. nodes \in Nat /\ nodes' = nodes + 1 /\ rule.node = nodes + 1
      BY <1>1, <2>2, <2>3
    <3>5. \A i \in 1 .. Len(list') : list'[i].node \in 1 .. nodes'
      BY <3>1, <3>2, <3>4
    <3>6. ASSUME NEW i \in 1 .. Len(list'), NEW j \in 1 .. Len(list'), i < j
          PROVE  list'[i].node < list'[j].node
      <4>1. i \in 1 .. Len(list)
        BY <1>1, <2>4, <3>6
      <4>2. CASE j \in 1 .. Len(list)
        BY <3>2, <3>3, <3>6, <4>1, <4>2
      <4>3. CASE j = Len(list) + 1 /\ list'[j] = rule
        BY <3>2, <3>4, <4>1, <4>3
      <4> QED BY <3>1, <4>2, <4>3
    <3> QED BY <3>5, <3>6 DEF RuleNodesInv
  <2>8. ClearInv'
    BY <1>1 DEF ClearInv
  <2>9. CheckInv'
    <3> SUFFICES ASSUME checker.pc = "check"
                 PROVE  /\ Says(list', checker.about) \in verdicts'
                        /\ checker.node = 0 /\ ~torn => Allowed \in verdicts'
                        /\ checker.node <= nodes'
                        /\ \A i \in 1 .. Len(list') : list'[i].node = checker.node => TriedInv(i)'
      BY <1>1 DEF CheckInv, Allowed
    <3>1. verdicts' = verdicts \cup {Says(list', checker.about)}
      BY <2>5
    <3>2. /\ checker.node = 0 /\ ~torn => Allowed \in verdicts'
          /\ checker.node <= nodes /\ checker.node \in Nat
      BY <3>1 DEF ExclusionsInv, CheckInv, ExclusionsTypeOK
    <3>3. ASSUME NEW i \in 1 .. Len(list'), list'[i].node = checker.node
          PROVE  TriedInv(i)'
      <4>1. i \in 1 .. Len(list) /\ list[i].node = checker.node
        BY <1>1, <2>3, <2>4, <3>2, <3>3
      <4>2. TriedInv(i)
        BY <4>1 DEF ExclusionsInv, CheckInv
      <4>3. \A j \in 1 .. Len(list) : j \in 1 .. Len(list') /\ (Matches(j)' <=> Matches(j))
                                       /\ list'[j] = list[j]
        BY <1>1, <2>4 DEF Matches
      <4>4. \A j \in 1 .. Len(list') : j < i => j \in 1 .. Len(list)
        BY <1>1, <2>4, <4>1
      <4> QED BY <1>1, <3>1, <4>2, <4>3, <4>4 DEF TriedInv
    <3> QED BY <1>1, <2>2, <3>1, <3>2, <3>3
  <2> QED BY <2>6, <2>7, <2>8, <2>9 DEF ExclusionsInv
<1> QED BY <1>2, <1>3

\* Where the iterator stands after it moved to position i.
LEMMA NodeIsThere ==
  ASSUME ExclusionsInv, NEW i \in 1 .. Len(list) + 1
  PROVE  /\ NodeAt(i) \in 0 .. nodes
         /\ NodeAt(i) = 0 => i = Len(list) + 1
         /\ \A k \in 1 .. Len(list) : list[k].node = NodeAt(i) => k = i
<1>1. Len(list) \in Nat /\ nodes \in Nat
  BY DEF ExclusionsInv, ExclusionsTypeOK
<1>2. CASE i = Len(list) + 1
  BY <1>1, <1>2 DEF NodeAt, ExclusionsInv, RuleNodesInv
<1>3. CASE i \in 1 .. Len(list)
  <2>1. NodeAt(i) = list[i].node
    BY <1>1, <1>3 DEF NodeAt
  <2>2. ASSUME NEW k \in 1 .. Len(list), k # i PROVE list[k].node # list[i].node
    BY <1>1, <1>3, <2>2 DEF ExclusionsInv, RuleNodesInv
  <2> QED BY <1>1, <1>3, <2>1, <2>2 DEF ExclusionsInv, RuleNodesInv
<1> QED BY <1>1, <1>2, <1>3

LEMMA BeginKeeps ==
  ASSUME ExclusionsInv, NEW e \in Matter, BeginCheck(e)
  PROVE  ExclusionsInv'
<1>1. /\ checker' = [pc |-> "check", about |-> e, node |-> NodeAt(1), excluded |-> "unmatched"]
      /\ verdicts' = {Says(list, e)} /\ torn' = FALSE
      /\ UNCHANGED <<monitor, list, nodes, receiver, lives>>
      /\ list \in Seq(Permission) /\ Len(list) \in Nat /\ nodes \in Nat
  BY DEF BeginCheck, ExclusionsInv, ExclusionsTypeOK
<1>2. /\ NodeAt(1) \in 0 .. nodes /\ (NodeAt(1) = 0 => Len(list) = 0)
      /\ \A k \in 1 .. Len(list) : list[k].node = NodeAt(1) => k = 1
  BY <1>1, NodeIsThere
<1>3. Says(list, e) \in BOOLEAN /\ (Len(list) = 0 => ~Says(list, e))
  BY <1>1, SaysOfList
<1>4. ExclusionsTypeOK'
  <2>1. checker' \in CheckerType
    <3>1. NodeAt(1) \in Nat
      BY <1>1, <1>2
    <3> QED BY <1>1, <3>1 DEF CheckerType
  <2>2. verdicts' \subseteq BOOLEAN
    BY <1>1, <1>3
  <2>3. lives \in BOOLEAN /\ monitor \in Kind
           /\ receiver \in [pc : {"option", "clear", "lists"}, at : Nat]
    BY DEF ExclusionsInv, ExclusionsTypeOK
  <2> QED BY <1>1, <2>1, <2>2, <2>3 DEF ExclusionsTypeOK, CheckerType
<1>5. RuleNodesInv' /\ ClearInv'
  BY <1>1 DEF ExclusionsInv, RuleNodesInv, ClearInv
<1>6. CheckInv'
  <2>1. ~Allowed'
    BY <1>1 DEF Allowed
  <2>2. ASSUME NEW i \in 1 .. Len(list), list[i].node = NodeAt(1) PROVE TriedInv(i)'
    BY <1>1, <1>2, <2>2 DEF TriedInv
  <2>3. /\ checker'.node = NodeAt(1) /\ checker'.about = e
    BY <1>1
  <2>4. NodeAt(1) = 0 => Allowed' \in verdicts'
    <3>1. NodeAt(1) = 0 => ~Says(list, e)
      BY <1>2, <1>3
    <3>2. NodeAt(1) = 0 => Allowed' = Says(list, e)
      BY <1>3, <2>1, <3>1 DEF Allowed
    <3> QED BY <1>1, <3>2
  <2> QED BY <1>1, <1>2, <2>2, <2>3, <2>4 DEF CheckInv
<1> QED BY <1>4, <1>5, <1>6 DEF ExclusionsInv

LEMMA TryKeeps == ASSUME ExclusionsInv, CheckNode PROVE ExclusionsInv'
<1>1. PICK i \in DOMAIN list :
         /\ list[i].node = checker.node
         /\ checker' = [checker EXCEPT
              !.node = NodeAt(i + 1),
              !.excluded = IF checker.about \in list[i].matches
                           THEN Combine(checker.excluded, list[i].allow) ELSE checker.excluded]
  BY DEF CheckNode
<1>2. /\ checker.pc = "check" /\ UNCHANGED <<monitor, list, nodes, receiver, lives, verdicts, torn>>
      /\ list \in Seq(Permission) /\ Len(list) \in Nat /\ nodes \in Nat /\ i \in 1 .. Len(list)
      /\ list[i] \in Permission /\ list[i].allow \in BOOLEAN
      /\ checker \in CheckerType
  <2>1. list \in Seq(Permission) /\ i \in 1 .. Len(list)
    BY <1>1, LenProperties DEF ExclusionsInv, ExclusionsTypeOK
  <2>2. list[i] \in Permission /\ list[i].allow \in BOOLEAN
    BY <2>1, RuleTyped
  <2> QED BY <2>1, <2>2, TypesOfExclusions DEF CheckNode, ExclusionsInv
<1>3. TriedInv(i) /\ Says(list, checker.about) \in verdicts
  BY <1>1, <1>2 DEF ExclusionsInv, CheckInv
<1>4. /\ NodeAt(i + 1) \in 0 .. nodes /\ (NodeAt(i + 1) = 0 => i = Len(list))
      /\ \A k \in 1 .. Len(list) : list[k].node = NodeAt(i + 1) => k = i + 1
  BY <1>2, NodeIsThere
<1> DEFINE x == IF Matches(i) THEN Combine(checker.excluded, list[i].allow) ELSE checker.excluded
<1>5. /\ checker'.pc = "check" /\ checker'.about = checker.about
      /\ checker'.node = NodeAt(i + 1) /\ checker'.excluded = x
      /\ x \in {"unmatched", "allowed", "disallowed"}
  BY <1>1, <1>2 DEF Matches, Combine, CheckerType
<1>6. ExclusionsTypeOK'
  <2>1. checker' = [checker EXCEPT !.node = NodeAt(i + 1), !.excluded = x]
    BY <1>1 DEF Matches
  <2>2. NodeAt(i + 1) \in Nat
    BY <1>2, <1>4
  <2> HIDE DEF x
  <2>4. checker' \in CheckerType
    BY <1>2, <1>5, <2>1, <2>2 DEF CheckerType
  <2> QED BY <1>2, <2>4 DEF ExclusionsInv, ExclusionsTypeOK, CheckerType
<1>7. RuleNodesInv' /\ ClearInv'
  BY <1>2 DEF ExclusionsInv, RuleNodesInv, ClearInv
<1>8. \A j \in 1 .. Len(list) : Matches(j)' <=> Matches(j)
  BY <1>2, <1>5 DEF Matches
<1>9. Says(list, checker.about) <=>
        /\ \E j \in 1 .. Len(list) : Matches(j) /\ list[j].allow
        /\ \A j \in 1 .. Len(list) : Matches(j) => list[j].allow
  BY <1>2, SaysOfList DEF Matches
<1>10. Says(list, checker.about) \in BOOLEAN
  BY <1>2, SaysOfList
<1>11. /\ x = "unmatched" => \A j \in 1 .. Len(list) : j < i + 1 => ~Matches(j)
       /\ x = "disallowed" => FALSE \in verdicts
       /\ x = "allowed" =>
            /\ \A j \in 1 .. Len(list) : j < i + 1 /\ Matches(j) => list[j].allow
            /\ \/ TRUE \in verdicts
               \/ \E j \in 1 .. Len(list) : j < i + 1 /\ Matches(j) /\ list[j].allow
               \/ \E j \in 1 .. Len(list) : i + 1 <= j /\ Matches(j) /\ ~list[j].allow
  <2>1. \A j \in 1 .. Len(list) : j < i + 1 => j < i \/ j = i
    BY <1>2
  <2>2. \A j \in 1 .. Len(list) : i <= j => j = i \/ i + 1 <= j
    BY <1>2
  <2>3. i < i + 1 /\ i \in 1 .. Len(list) /\ \A j \in 1 .. Len(list) : j < i => j < i + 1
    BY <1>2
  <2>4. CASE ~Matches(i)
    <3>1. x = checker.excluded
      BY <2>4
    <3> HIDE DEF x
    <3> QED BY <1>3, <2>1, <2>2, <2>3, <2>4, <3>1 DEF TriedInv
  <2>5. CASE Matches(i) /\ list[i].allow
    <3>1. x = IF checker.excluded = "disallowed" THEN checker.excluded ELSE "allowed"
      BY <2>5 DEF Combine
    <3>2. x = "disallowed" => FALSE \in verdicts
      BY <1>3, <3>1 DEF TriedInv
    <3>3. x = "allowed" => \A j \in 1 .. Len(list) : j < i /\ Matches(j) => list[j].allow
      <4>1. checker.excluded \in {"unmatched", "allowed", "disallowed"}
        BY <1>2 DEF CheckerType
      <4>2. x = "allowed" => checker.excluded \in {"unmatched", "allowed"}
        BY <3>1, <4>1
      <4> HIDE DEF x
      <4> QED BY <1>3, <4>2 DEF TriedInv
    <3>4. x # "unmatched"
      BY <3>1
    <3> HIDE DEF x
    <3> QED BY <2>1, <2>3, <2>5, <3>2, <3>3, <3>4
  <2>6. CASE Matches(i) /\ ~list[i].allow
    <3>1. x = "disallowed"
      BY <2>6 DEF Combine
    <3>2. ~Says(list, checker.about)
      BY <1>2, <1>9, <2>6
    <3>3. FALSE \in verdicts
      BY <1>3, <1>10, <3>2
    <3> QED BY <3>1, <3>3
  <2> QED BY <2>4, <2>5, <2>6
<1> HIDE DEF x
<1>12. ASSUME NodeAt(i + 1) = 0 PROVE (x = "allowed") \in verdicts
  <2>1. i = Len(list) /\ \A j \in 1 .. Len(list) : j < i + 1 /\ ~(i + 1 <= j)
    BY <1>2, <1>4, <1>12
  <2>2. CASE x = "unmatched"
    <3>1. ~Says(list, checker.about)
      BY <1>9, <1>11, <2>1, <2>2
    <3> QED BY <1>3, <1>10, <2>2, <3>1
  <2>3. CASE x = "disallowed"
    BY <1>11, <2>3
  <2>4. CASE x = "allowed"
    <3>1. TRUE \in verdicts \/ Says(list, checker.about)
      BY <1>9, <1>11, <2>1, <2>4
    <3>2. TRUE \in verdicts
      BY <1>3, <1>10, <3>1
    <3> QED BY <2>4, <3>2
  <2> QED BY <1>5, <2>2, <2>3, <2>4
<1>13. CheckInv'
  <2>1. Allowed' = (x = "allowed")
    BY <1>5 DEF Allowed
  <2>2. TriedInv(i + 1)'
    BY <1>2, <1>5, <1>8, <1>11 DEF TriedInv
  <2>3. \A k \in 1 .. Len(list) : list[k].node = NodeAt(i + 1) => TriedInv(k)'
    BY <1>4, <2>2
  <2>4. NodeAt(i + 1) = 0 => Allowed' \in verdicts
    BY <1>12, <2>1
  <2> QED BY <1>2, <1>3, <1>4, <1>5, <2>3, <2>4 DEF CheckInv
<1> QED BY <1>6, <1>7, <1>13 DEF ExclusionsInv

LEMMA FreedKeeps == ASSUME ExclusionsInv, CheckFreedNode PROVE ExclusionsInv'
<1>1. /\ checker.pc = "check" /\ torn' = TRUE
      /\ \A i \in DOMAIN list : list[i].node # checker.node
      /\ UNCHANGED <<monitor, list, nodes, receiver, verdicts>>
      /\ list \in Seq(Permission) /\ nodes \in Nat
      /\ checker \in CheckerType
  BY TypesOfExclusions DEF CheckFreedNode, ExclusionsInv
<1>2. \/ lives' = FALSE /\ checker' = checker
      \/ /\ \E x \in {"unmatched", "allowed", "disallowed"} :
              checker' = [checker EXCEPT !.excluded = x, !.node = 0]
         /\ lives' = lives
  BY DEF CheckFreedNode
<1>3. /\ checker' \in CheckerType
      /\ checker'.pc = "check" /\ checker'.about = checker.about
      /\ checker'.node = checker.node \/ checker'.node = 0
      /\ lives' \in BOOLEAN
  <2>1. CASE lives' = FALSE /\ checker' = checker
    BY <1>1, <2>1
  <2>2. ASSUME NEW x \in {"unmatched", "allowed", "disallowed"}, lives' = lives,
               checker' = [checker EXCEPT !.excluded = x, !.node = 0]
        PROVE  <1>3
    <3>2. checker' \in CheckerType
      BY <1>1, <2>2 DEF CheckerType
    <3>3. checker'.pc = "check" /\ checker'.about = checker.about /\ checker'.node = 0
      BY <1>1, <2>2 DEF CheckerType
    <3> QED BY <2>2, <3>2, <3>3 DEF ExclusionsInv, ExclusionsTypeOK
  <2> QED BY <1>2, <2>1, <2>2
<1>4. ExclusionsTypeOK' /\ RuleNodesInv' /\ ClearInv'
  BY <1>1, <1>3 DEF ExclusionsInv, ExclusionsTypeOK, RuleNodesInv, ClearInv, CheckerType
<1>5. \A i \in 1 .. Len(list) : list[i].node # checker'.node
  BY <1>1, <1>3 DEF ExclusionsInv, RuleNodesInv
<1>6. CheckInv'
  BY <1>1, <1>3, <1>5 DEF ExclusionsInv, CheckInv
<1> QED BY <1>4, <1>6 DEF ExclusionsInv

LEMMA ExclusionsStep == ExclusionsInv /\ [ExclusionsNext]_exclusionVars => ExclusionsInv'
<1> SUFFICES ASSUME ExclusionsInv, [ExclusionsNext]_exclusionVars PROVE ExclusionsInv'
  OBVIOUS
<1> DEFINE SameList == UNCHANGED <<monitor, list, nodes, checker, verdicts, torn>>
<1>1. CASE OnOtherOption \/ OnSendExclusionLists \/ EndClear
  <2>1. SameList /\ UNCHANGED lives
    BY <1>1 DEF OnOtherOption, OnSendExclusionLists, EndClear
  <2>2. /\ receiver' \in [pc : {"option", "clear", "lists"}, at : Nat]
        /\ \/ receiver'.pc = "lists"
           \/ receiver'.pc = "clear" /\ receiver'.at = 1 /\ receiver.pc = "option"
    BY <1>1
    DEF OnOtherOption, OnSendExclusionLists, EndClear, ExclusionsInv, ExclusionsTypeOK
  <2>3. ExclusionsTypeOK' /\ RuleNodesInv' /\ ClearInv'
    BY <2>1, <2>2 DEF ExclusionsInv, ExclusionsTypeOK, RuleNodesInv, ClearInv
  <2>4. CheckInv'
    BY <2>1 DEF ExclusionsInv, CheckInv, TriedInv, Matches, Allowed
  <2> QED BY <2>3, <2>4 DEF ExclusionsInv
<1>2. CASE ClearExclusion
  BY <1>2, ClearKeeps
<1>3. ASSUME NEW line \in RemoteLine,
             OnFileExclusionReceived(line) \/ OnRegistryExclusionReceived(line)
               \/ OnProcessExclusionReceived(line)
      PROVE  ExclusionsInv'
  BY <1>3, AddKeeps
  DEF OnFileExclusionReceived, OnRegistryExclusionReceived, OnProcessExclusionReceived
<1>4. ASSUME NEW e \in Matter, BeginCheck(e) PROVE ExclusionsInv'
  BY <1>4, BeginKeeps
<1>5. CASE CheckNode
  BY <1>5, TryKeeps
<1>6. CASE CheckFreedNode
  BY <1>6, FreedKeeps
<1>7. CASE EndCheck
  <2>1. /\ checker' = [checker EXCEPT !.pc = "idle", !.about = NoMatter, !.excluded = "unmatched"]
        /\ verdicts' = {} /\ torn' = FALSE
        /\ UNCHANGED <<monitor, list, nodes, receiver, lives>>
    BY <1>7 DEF EndCheck
  <2>2. checker'.pc = "idle" /\ ExclusionsTypeOK'
    BY <2>1 DEF ExclusionsInv, ExclusionsTypeOK
  <2> QED BY <2>1, <2>2 DEF ExclusionsInv, RuleNodesInv, ClearInv, CheckInv
<1>8. CASE UNCHANGED exclusionVars
  BY <1>8 DEF exclusionVars, ExclusionsInv, ExclusionsTypeOK, RuleNodesInv, ClearInv, CheckInv,
              TriedInv, Matches, Allowed
<1> QED BY <1>1, <1>2, <1>3, <1>4, <1>5, <1>6, <1>7, <1>8 DEF ExclusionsNext

(* The inductive invariant of the exclusion lists holds in every reachable  *)
(* state.                                                                   *)
THEOREM ExclusionsInvariance == ExclusionsSpec => []ExclusionsInv
BY ExclusionsStart, ExclusionsStep, PTL DEF ExclusionsSpec

(* The type invariant of a monitor's exclusion list.                        *)
THEOREM ExclusionsTypeCorrect == ExclusionsSpec => []ExclusionsTypeOK
<1>1. ExclusionsInv => ExclusionsTypeOK
  BY DEF ExclusionsInv
<1> QED BY <1>1, ExclusionsInvariance, PTL

(* The verdict of Monitor::isEventAllowed is that of the list at some       *)
(* moment of the check, for all rules and events: the clearing takes rules  *)
(* off the front, so that a check that is not torn has tried all of what    *)
(* was there when it began or has been added since.                         *)
THEOREM VerdictsHaveReasons == ExclusionsSpec => []VerdictHasAReason
<1>1. ExclusionsInv => VerdictHasAReason
  BY DEF ExclusionsInv, CheckInv, VerdictHasAReason
<1> QED BY <1>1, ExclusionsInvariance, PTL

-----------------------------------------------------------------------------
(***************************************************************************)
(* Monitors, for every set of loadable drivers, number of visits and       *)
(* events: the thread of a monitor that is deleted is gone.                *)
(***************************************************************************)

Active == {"loop", "check", "collect", "signal"}

ThreadTypes ==
  /\ installed \subseteq Monitor /\ deleted \subseteq Monitor
  /\ started \in [Monitor -> BOOLEAN]
  /\ thread \in [Monitor -> {"none", "created", "ended", "killed"} \cup Active]
  /\ quitting \in [pc : {"no", "wait", "quit"}, monitor : Monitor \cup {"none"}]
  /\ quitting.pc = "wait" => quitting.monitor \in installed
  /\ analyzer \in [pc : {"load", "start", "idle", "connect", "on", "visiting", "disconnect",
                         "off", "copy", "clear"}, at : 1 .. 4]

\* The main thread stops nothing before it has started everything.
StartUpInv == analyzer.pc \in {"load", "start"} => deleted = {} /\ quitting.pc = "no"

\* A thread that has begun to run is one that stop waits for, until it does.
RunningInv ==
  \A m \in Monitor :
    /\ thread[m] # "none" => m \in installed
    /\ thread[m] \in Active /\ m \notin deleted =>
         started[m] \/ (quitting.pc = "wait" /\ quitting.monitor = m)

MonitorsInv == ThreadTypes /\ StartUpInv /\ RunningInv /\ StoppedThreadsAreGone

\* The order of deletion names a monitor as long as one is left.
LEMMA NextIsMonitor ==
  ASSUME deleted \subseteq Monitor, Monitor # deleted
  PROVE  NextToDelete \in Monitor
<1>1. IsFiniteSet(Monitor) /\ Cardinality(Monitor) = 4
  <2>1. IsFiniteSet({}) /\ Cardinality({}) = 0
    BY FS_EmptySet
  <2>2. IsFiniteSet({"registry"}) /\ Cardinality({"registry"}) = 1
    BY FS_Singleton
  <2>3. IsFiniteSet({"registry", "process"}) /\ Cardinality({"registry", "process"}) = 2
    <3>1. {"registry", "process"} = {"registry"} \cup {"process"} /\ "process" \notin {"registry"}
      OBVIOUS
    <3> QED BY <2>2, <3>1, FS_AddElement
  <2>4. /\ IsFiniteSet({"registry", "process", "file"})
        /\ Cardinality({"registry", "process", "file"}) = 3
    <3>1. /\ {"registry", "process", "file"} = {"registry", "process"} \cup {"file"}
          /\ "file" \notin {"registry", "process"}
      OBVIOUS
    <3> QED BY <2>3, <3>1, FS_AddElement
  <2>5. /\ Monitor = {"registry", "process", "file"} \cup {"network"}
        /\ "network" \notin {"registry", "process", "file"}
    BY DEF Monitor
  <2> QED BY <2>4, <2>5, FS_AddElement
<1>2. /\ Cardinality(deleted) \in Nat /\ Cardinality(deleted) <= 4
      /\ Cardinality(deleted) # 4
  BY <1>1, FS_Subset, FS_CardinalityType
<1>3. Cardinality(deleted) + 1 \in 1 .. 4
  BY <1>2
<1> QED BY <1>3 DEF NextToDelete, DeleteOrder, Monitor

\* Steps that leave the threads and who waits for them alone.
LEMMA SameThreads ==
  ASSUME MonitorsInv, UNCHANGED <<installed, started, thread, deleted, quitting>>,
         analyzer' \in [pc : {"load", "start", "idle", "connect", "on", "visiting", "disconnect",
                              "off", "copy", "clear"}, at : 1 .. 4],
         analyzer'.pc \in {"load", "start"} => analyzer.pc \in {"load", "start"}
  PROVE  MonitorsInv'
BY DEF MonitorsInv, ThreadTypes, StartUpInv, RunningInv, StoppedThreadsAreGone

\* The thread of a monitor that is not deleted moves.
LEMMA ThreadMoves ==
  ASSUME MonitorsInv, NEW m \in Monitor, m \notin deleted, thread[m] \in Active \cup {"created"},
         NEW to \in Active \cup {"ended"}, thread' = [thread EXCEPT ![m] = to],
         UNCHANGED <<installed, deleted, quitting, analyzer>>,
         \/ started' = started /\ (thread[m] \in Active \/ to = "ended")
         \/ started' = [started EXCEPT ![m] = TRUE]
         \/ started' = [started EXCEPT ![m] = FALSE] /\ to = "ended"
  PROVE  MonitorsInv'
<1> USE DEF MonitorsInv
<1>1. \A n \in Monitor : /\ thread'[n] = IF n = m THEN to ELSE thread[n]
                         /\ n # m => started'[n] = started[n]
                         /\ n = m /\ to # "ended" => started'[n] \/ started'[n] = started[n]
  BY DEF ThreadTypes
<1>2. ThreadTypes'
  BY DEF ThreadTypes
<1>3. StartUpInv'
  BY DEF StartUpInv
<1>4. RunningInv'
  <2> SUFFICES ASSUME NEW n \in Monitor
               PROVE  /\ thread'[n] # "none" => n \in installed
                      /\ thread'[n] \in Active /\ n \notin deleted =>
                           started'[n] \/ (quitting.pc = "wait" /\ quitting.monitor = n)
    BY DEF RunningInv
  <2>1. CASE n # m
    BY <1>1, <2>1 DEF RunningInv
  <2>2. CASE n = m
    <3>1. n \in installed
      BY <2>2 DEF RunningInv, Active
    <3>2. CASE to = "ended"
      BY <1>1, <2>2, <3>1, <3>2 DEF Active
    <3>3. CASE started' = [started EXCEPT ![m] = TRUE]
      BY <2>2, <3>1, <3>3 DEF ThreadTypes
    <3>4. CASE started' = started /\ thread[m] \in Active
      BY <2>2, <3>1, <3>4 DEF RunningInv
    <3> QED BY <3>2, <3>3, <3>4
  <2> QED BY <2>1, <2>2
<1>5. StoppedThreadsAreGone'
  BY <1>1 DEF StoppedThreadsAreGone, ThreadTypes
<1> QED BY <1>2, <1>3, <1>4, <1>5

LEMMA MonitorsStart == MonitorsInit => MonitorsInv
BY DEF MonitorsInit, MonitorsInv, ThreadTypes, StartUpInv, RunningInv, StoppedThreadsAreGone, Active

\* After one event the thread goes on with the next or asks for more.
LEMMA DropMoves ==
  ASSUME NEW m \in Monitor, Drop(m)
  PROVE  \E to \in Active : thread' = [thread EXCEPT ![m] = to]
BY DEF Drop, Active

LEMMA ThreadKeeps == ASSUME MonitorsInv, NEW m \in Monitor, MonitorThread(m) PROVE MonitorsInv'
<1>1. CASE EnterThread(m)
  <2>1. /\ m \notin deleted /\ thread[m] = "created" /\ thread' = [thread EXCEPT ![m] = "loop"]
        /\ started' = [started EXCEPT ![m] = TRUE]
        /\ UNCHANGED <<installed, deleted, quitting, analyzer>>
    BY <1>1 DEF EnterThread, Alive, visitVars
  <2>2. "loop" \in Active
    BY DEF Active
  <2> QED BY <2>1, <2>2, ThreadMoves
<1>2. CASE LeaveThread(m)
  <2>1. /\ m \notin deleted /\ thread[m] \in Active /\ thread' = [thread EXCEPT ![m] = "ended"]
        /\ started' = started \/ started' = [started EXCEPT ![m] = FALSE]
        /\ UNCHANGED <<installed, deleted, quitting, analyzer>>
    BY <1>2 DEF LeaveThread, Alive, visitVars, Active
  <2> QED BY <2>1, ThreadMoves
<1>3. CASE CheckEvent(m)
  <2>1. /\ m \notin deleted /\ thread[m] \in Active
        /\ UNCHANGED <<installed, started, deleted, quitting, analyzer>>
    BY <1>3 DEF CheckEvent, Alive, visitVars, Active
  <2>2. \E to \in Active : thread' = [thread EXCEPT ![m] = to]
    BY <1>3, DropMoves DEF CheckEvent, AfterCheck, Active
  <2> QED BY <2>1, <2>2, ThreadMoves
<1>4. CASE SignalEvent(m)
  <2>1. /\ m \notin deleted /\ thread[m] \in Active
        /\ UNCHANGED <<installed, started, deleted, quitting, analyzer>>
    BY <1>4 DEF SignalEvent, Alive, visitVars, Active
  <2>2. \E to \in Active : thread' = [thread EXCEPT ![m] = to]
    BY <1>4, DropMoves DEF SignalEvent
  <2> QED BY <2>1, <2>2, ThreadMoves
<1> QED BY <1>1, <1>2, <1>3, <1>4 DEF MonitorThread

LEMMA GetKeeps == ASSUME MonitorsInv, NEW m \in Monitor, NEW k, GetEvents(m, k) PROVE MonitorsInv'
<1>1. /\ m \notin deleted /\ thread[m] \in Active /\ thread' = [thread EXCEPT ![m] = "check"]
      /\ UNCHANGED <<installed, started, deleted, quitting, analyzer>>
  BY DEF GetEvents, Alive, visitVars, Active
<1>2. "check" \in Active
  BY DEF Active
<1> QED BY <1>1, <1>2, ThreadMoves

\* The visitor thread goes from one stage to the next.
LEMMA VisitorKeeps == ASSUME MonitorsInv, VisitorThread PROVE MonitorsInv'
<1>1. UNCHANGED <<installed, started, thread, deleted, quitting>>
  BY DEF VisitorThread, OnOptionChanged, BeginTour, ConnectSlot, StartCollecting, DisconnectSlot,
         EndCollecting, CopyCreatedFiles, ClearModifiedFiles, VisitRest, threadingVars
<1>2. analyzer.at \in 1 .. 4 /\ analyzer = [pc |-> analyzer.pc, at |-> analyzer.at]
  BY DEF MonitorsInv, ThreadTypes
<1>3. /\ analyzer'.pc \notin {"load", "start"}
      /\ analyzer' \in [pc : {"load", "start", "idle", "connect", "on", "visiting", "disconnect",
                              "off", "copy", "clear"}, at : 1 .. 4]
  BY <1>2 DEF VisitorThread, OnOptionChanged, BeginTour, ConnectSlot, StartCollecting,
         DisconnectSlot, AfterDisconnect, EndCollecting, CopyCreatedFiles, ClearModifiedFiles,
         Visits
<1> QED BY <1>1, <1>3, SameThreads

LEMMA LoadKeeps == ASSUME MonitorsInv, LoadDriver PROVE MonitorsInv'
<1> USE DEF MonitorsInv
<1>1. /\ analyzer.pc = "load" /\ analyzer' = NextAt
      /\ \E m \in Monitor : installed' = installed \cup {m} \/ installed' = installed
      /\ UNCHANGED <<thread, started, deleted, quitting>>
  BY DEF LoadDriver, StartUpRest, ThreadTypes, LoadOrder, Monitor
<1>2. /\ analyzer' \in [pc : {"load", "start", "idle", "connect", "on", "visiting", "disconnect",
                              "off", "copy", "clear"}, at : 1 .. 4]
  BY <1>1 DEF NextAt, ThreadTypes
<1>3. installed' \subseteq Monitor /\ installed \subseteq installed'
  BY <1>1 DEF ThreadTypes
<1> QED BY <1>1, <1>2, <1>3 DEF ThreadTypes, StartUpInv, RunningInv, StoppedThreadsAreGone

LEMMA MonitorsStartKeeps == ASSUME MonitorsInv, StartMonitor PROVE MonitorsInv'
<1> USE DEF MonitorsInv
<1> DEFINE m == StartOrder[analyzer.at]
<1>1. /\ analyzer.pc = "start" /\ analyzer' = NextAt
      /\ thread' = [thread EXCEPT ![m] = IF m \in installed THEN "created" ELSE "none"]
      /\ UNCHANGED <<installed, started, deleted, quitting>>
  BY DEF StartMonitor, StartUpRest
<1>2. m \in Monitor
  BY DEF ThreadTypes, StartOrder, Monitor
<1>3. /\ analyzer' \in [pc : {"load", "start", "idle", "connect", "on", "visiting", "disconnect",
                              "off", "copy", "clear"}, at : 1 .. 4]
  BY <1>1 DEF NextAt, ThreadTypes
<1>4. deleted = {} /\ quitting.pc = "no"
  BY <1>1 DEF StartUpInv
<1>5. ThreadTypes' /\ StartUpInv' /\ StoppedThreadsAreGone'
  BY <1>1, <1>2, <1>3, <1>4 DEF ThreadTypes, StartUpInv, StoppedThreadsAreGone
<1>6. \A n \in Monitor : thread'[n] = IF n # m THEN thread[n]
                                      ELSE IF m \in installed THEN "created" ELSE "none"
  BY <1>1, <1>2 DEF ThreadTypes
<1> HIDE DEF m
<1>7. RunningInv'
  BY <1>1, <1>6 DEF RunningInv, Active
<1> QED BY <1>5, <1>7

LEMMA StopKeeps == ASSUME MonitorsInv, BeginStop PROVE MonitorsInv'
<1> USE DEF MonitorsInv
<1> DEFINE m == NextToDelete
<1>1. m \in Monitor
  BY NextIsMonitor DEF BeginStop, ThreadTypes
<1>2. /\ analyzer.pc = "idle" /\ quitting.pc # "wait"
      /\ UNCHANGED <<installed, thread, analyzer>>
  BY DEF BeginStop, QuitRest, visitVars
<1>3. CASE started[m] /\ m \in installed
  <2>1. /\ started' = [started EXCEPT ![m] = FALSE]
        /\ quitting' = [pc |-> "wait", monitor |-> m] /\ deleted' = deleted
    BY <1>3 DEF BeginStop
  <2> HIDE DEF m
  <2> QED
    BY <1>1, <1>2, <1>3, <2>1 DEF ThreadTypes, StartUpInv, RunningInv, StoppedThreadsAreGone
<1>4. CASE ~(started[m] /\ m \in installed)
  <2>1. /\ started' = started
        /\ quitting' = [pc |-> "quit", monitor |-> "none"] /\ deleted' = deleted \cup {m}
    BY <1>4 DEF BeginStop
  <2>2. m \notin deleted => thread[m] \notin Active
    BY <1>1, <1>2, <1>4 DEF RunningInv, Active
  <2> HIDE DEF m
  <2> QED
    BY <1>1, <1>2, <2>1, <2>2 DEF ThreadTypes, StartUpInv, RunningInv, StoppedThreadsAreGone
<1> QED BY <1>3, <1>4

LEMMA EndKeeps == ASSUME MonitorsInv, EndStop PROVE MonitorsInv'
<1> USE DEF MonitorsInv
<1> DEFINE m == quitting.monitor
<1>1. /\ quitting.pc = "wait" /\ quitting.monitor = m /\ m \in Monitor
      /\ deleted' = deleted \cup {m} /\ quitting' = [pc |-> "quit", monitor |-> "none"]
      /\ UNCHANGED <<installed, started, analyzer>>
      /\ thread' = IF thread[m] = "ended" \/ m = "network" THEN thread
                   ELSE [thread EXCEPT ![m] = "killed"]
  BY DEF EndStop, QuitRest, visitVars, ThreadTypes
<1>2. analyzer.pc \notin {"load", "start"}
  BY <1>1 DEF StartUpInv
<1>3. ThreadTypes' /\ StartUpInv'
  BY <1>1, <1>2 DEF ThreadTypes, StartUpInv
<1>4. \A n \in Monitor : n # m => thread'[n] = thread[n]
  BY <1>1 DEF ThreadTypes
<1>5. m # "network" => thread'[m] \in {"ended", "killed"}
  BY <1>1 DEF ThreadTypes
<1>6. m \in installed
  BY <1>1 DEF ThreadTypes
<1> HIDE DEF m
<1>7. RunningInv'
  BY <1>1, <1>4, <1>6 DEF RunningInv
<1>8. StoppedThreadsAreGone'
  BY <1>1, <1>4, <1>5 DEF StoppedThreadsAreGone, ThreadTypes
<1> QED BY <1>3, <1>7, <1>8

LEMMA MonitorsStep == MonitorsInv /\ [MonitorsNext]_monitoringVars => MonitorsInv'
<1> SUFFICES ASSUME MonitorsInv, [MonitorsNext]_monitoringVars PROVE MonitorsInv'
  OBVIOUS
<1>0. ThreadTypes
  BY DEF MonitorsInv
<1>1. ASSUME NEW m \in Monitor, MonitorThread(m) PROVE MonitorsInv'
  BY <1>1, ThreadKeeps
<1>2. ASSUME NEW m \in Monitor, NEW kind \in EventKind, NEW p \in Path, Happens(m, kind, p)
      PROVE  MonitorsInv'
  <2>1. UNCHANGED <<installed, started, thread, deleted, quitting, analyzer>>
    BY <1>2 DEF Happens, visitVars
  <2> QED BY <1>0, <2>1, SameThreads DEF ThreadTypes
<1>3. CASE LoadDriver
  BY <1>3, LoadKeeps
<1>4. CASE StartMonitor
  BY <1>4, MonitorsStartKeeps
<1>5. CASE GetFileEvents \/ GetRegistryEvents \/ GetProcessEvent \/ GetConnectionEvent
  <2>1. \E m \in Monitor : \E k : GetEvents(m, k)
    BY <1>5 DEF GetFileEvents, GetRegistryEvents, GetProcessEvent, GetConnectionEvent, Monitor
  <2> QED BY <2>1, GetKeeps
<1>6. CASE CollectFile
  <2>1. /\ "file" \in Monitor /\ "signal" \in Active
        /\ "file" \notin deleted /\ thread["file"] \in Active
        /\ thread' = [thread EXCEPT !["file"] = "signal"]
        /\ UNCHANGED <<installed, started, deleted, quitting, analyzer>>
    BY <1>6 DEF CollectFile, Alive, Monitor, Active
  <2> QED BY <2>1, ThreadMoves
<1>7. CASE VisitorThread
  BY <1>7, VisitorKeeps
<1>8. CASE BeginStop
  BY <1>8, StopKeeps
<1>9. CASE EndStop
  BY <1>9, EndKeeps
<1>10. CASE UNCHANGED monitoringVars
  BY <1>0, <1>10, SameThreads DEF monitoringVars, ThreadTypes
<1> QED
  BY <1>1, <1>2, <1>3, <1>4, <1>5, <1>6, <1>7, <1>8, <1>9, <1>10 DEF MonitorsNext

(* When a monitor is deleted its thread has ended, was never begun or is    *)
(* terminated, the network monitor's excepted (stop of the monitors and the *)
(* destructor of Analyzer).                                                 *)
THEOREM DeletedMonitorsAreQuiet == MonitorsSpec => []StoppedThreadsAreGone
<1>1. MonitorsInv => StoppedThreadsAreGone
  BY DEF MonitorsInv
<1> QED BY <1>1, MonitorsStart, MonitorsStep, PTL DEF MonitorsSpec

-----------------------------------------------------------------------------
(***************************************************************************)
(* Files a visit modified, for every number of visits and events: what was *)
(* reported is copied.  The file monitor's events are ordered by the       *)
(* report, its buffer and its driver, and the visit under way decides what *)
(* of the one it has in hand is collected.                                 *)
(***************************************************************************)

FileEvents == {buffer["file"][i] : i \in DOMAIN buffer["file"]}
FileReports == {r \in reports : r.by = "file"}

QueuesType ==
  /\ slots \subseteq Monitor /\ runs \in [Monitor -> BOOLEAN]
  /\ queue \in [Monitor -> Seq(MonitorEvent)] /\ buffer \in [Monitor -> Seq(MonitorEvent)]
  /\ collectOption \in BOOLEAN /\ modifiedOn \in BOOLEAN /\ crashed \in BOOLEAN
  /\ modifiedFiles \subseteq Path /\ tour \in 0 .. MaxTours /\ happens \in 0 .. MaxEvents
  /\ reports \subseteq [by : Monitor, event : MonitorEvent, tour : 0 .. MaxTours]
  /\ archive \in [1 .. MaxTours -> SUBSET Path]

\* Events come to the thread in the order of their numbers.
EventsInOrder(s) == \A i, j \in DOMAIN s : i < j => s[i].n < s[j].n

OrderInv ==
  /\ \A i \in DOMAIN queue["file"] : queue["file"][i].n <= happens
  /\ EventsInOrder(queue["file"]) /\ EventsInOrder(buffer["file"])
  /\ \A e \in FileEvents :
       e.n <= happens /\ \A j \in DOMAIN queue["file"] : e.n < queue["file"][j].n
  /\ \A r \in FileReports :
       /\ r.event.n <= happens
       /\ \A j \in DOMAIN queue["file"] : r.event.n < queue["file"][j].n
       /\ \A e \in FileEvents : r.event.n < e.n
       /\ r.event.path \notin Excluded

\* No event belongs to a visit that has not begun.
Young(t) == t < tour \/ (t = tour /\ analyzer.pc \notin {"connect", "on"})

TourInv ==
  /\ \A i \in DOMAIN queue["file"] : Young(queue["file"][i].tour)
  /\ \A e \in FileEvents : Young(e.tour)
  /\ \A r \in FileReports : Young(r.event.tour)
  /\ analyzer.pc \in {"load", "start"} => tour = 0
  /\ analyzer.pc \notin {"load", "start", "idle"} => tour > 0

\* The analyzer listens to the file monitor until it has stopped it.
SlotInv ==
  /\ "file" \in slots => analyzer.pc \in {"connect", "on", "visiting", "disconnect"}
  /\ analyzer.pc = "visiting" => analyzer.at = 1
  /\ "file" \in slots /\ analyzer.pc = "disconnect" => analyzer.at < 4
  /\ collectOption /\ analyzer.pc \in {"visiting", "disconnect"} => modifiedOn

\* A thread in its loop has nothing in hand; else it has its first event.
InHandInv ==
  /\ analyzer.pc = "load" \/ (analyzer.pc = "start" /\ analyzer.at <= 3) => thread["file"] = "none"
  /\ thread["file"] \in {"none", "created", "loop"} => buffer["file"] = <<>>
  /\ thread["file"] \in {"check", "collect", "signal"} => buffer["file"] # <<>>
  /\ thread["file"] \in {"collect", "signal"} => buffer["file"][1].path \notin Excluded

\* An event of this visit that makes its file one to copy.
Modifies(e) == e.tour = tour /\ e.kind # "delete" /\ e.path \notin Directories

DeletedLater(e) == \E d \in SeenDeletions : d.path = e.path /\ d.n > e.n

\* What is being told to the analyzer has been collected before.
SignalInv ==
  collectOption /\ analyzer.pc \in {"visiting", "disconnect"} /\ thread["file"] = "signal"
    /\ Modifies(buffer["file"][1])
  => buffer["file"][1].path \in modifiedFiles

KeptInv == \A r \in FileReports :
  collectOption /\ tour > 0 /\ r.tour = tour /\ Modifies(r.event) =>
    \/ DeletedLater(r.event)
    \/ analyzer.pc \in {"visiting", "disconnect", "off", "copy"} /\ r.event.path \in modifiedFiles
    \/ analyzer.pc \in {"clear", "idle"} /\ r.event.path \in archive[tour]

FilesInv == QueuesType /\ OrderInv /\ TourInv /\ SlotInv /\ InHandInv /\ SignalInv /\ KeptInv

LEMMA DeletionsSeen ==
  \A d : d \in SeenDeletions <=>
           d.kind = "delete" /\ (d \in FileEvents \/ \E r \in reports : d = r.event)
BY DEF SeenDeletions, FileEvents

LEMMA EventsAreEvents ==
  ASSUME QueuesType
  PROVE  /\ queue["file"] \in Seq(MonitorEvent) /\ buffer["file"] \in Seq(MonitorEvent)
         /\ \A i \in DOMAIN queue["file"] : queue["file"][i] \in MonitorEvent
         /\ \A e \in FileEvents : e \in MonitorEvent
         /\ \A r \in reports : r.event \in MonitorEvent /\ r.tour \in Nat
         /\ \A e \in MonitorEvent : e.n \in Nat /\ e.tour \in Nat /\ e.path \in Path
<1>1. "file" \in Monitor
  BY DEF Monitor
<1>2. queue["file"] \in Seq(MonitorEvent) /\ buffer["file"] \in Seq(MonitorEvent)
  BY <1>1 DEF QueuesType
<1>3. \A i \in DOMAIN queue["file"] : queue["file"][i] \in MonitorEvent
  BY <1>2, LenProperties, ElementOfSeq
<1>4. \A i \in DOMAIN buffer["file"] : buffer["file"][i] \in MonitorEvent
  BY <1>2, LenProperties, ElementOfSeq
<1>5. \A r \in reports : r.event \in MonitorEvent /\ r.tour \in Nat
  BY DEF QueuesType
<1>6. \A e \in MonitorEvent : e.n \in Nat /\ e.tour \in Nat /\ e.path \in Path
  BY MonitorsAssumption DEF MonitorEvent
<1> QED BY <1>2, <1>3, <1>4, <1>5, <1>6 DEF FileEvents

\* The events in hand without the first one.
LEMMA RestOfEvents ==
  ASSUME NEW s \in Seq(MonitorEvent), s # <<>>, EventsInOrder(s)
  PROVE  /\ s[1] = Head(s) /\ 1 \in DOMAIN s /\ s[1] \in MonitorEvent
         /\ Tail(s) \in Seq(MonitorEvent) /\ EventsInOrder(Tail(s))
         /\ \A i \in DOMAIN Tail(s) : i + 1 \in DOMAIN s /\ Tail(s)[i] = s[i + 1]
                                      /\ s[1].n < Tail(s)[i].n
         /\ \A j \in DOMAIN s : j = 1 \/ (j - 1 \in DOMAIN Tail(s) /\ Tail(s)[j - 1] = s[j])
         /\ (Len(s) = 1 <=> Tail(s) = <<>>)
<1> PICK m \in Nat : m = Len(s)
  BY LenProperties
<1>1. m # 0 /\ DOMAIN s = 1 .. m /\ \A i \in 1 .. m : s[i] \in MonitorEvent
  BY EmptySeq, ElementOfSeq, LenProperties
<1> DEFINE t == Tail(s)
<1>2. s[1] = Head(s) /\ t \in Seq(MonitorEvent) /\ Len(t) = m - 1
      /\ \A i \in 1 .. Len(t) : t[i] = s[i + 1]
  BY HeadTailProperties
<1>3. DOMAIN t = 1 .. m - 1
  BY <1>2, LenProperties
<1> HIDE DEF t
<1>4. EventsInOrder(t)
  <2> SUFFICES ASSUME NEW i \in 1 .. m - 1, NEW j \in 1 .. m - 1, i < j PROVE t[i].n < t[j].n
    BY <1>3 DEF EventsInOrder
  <2>1. i + 1 \in 1 .. m /\ j + 1 \in 1 .. m /\ i + 1 < j + 1
    OBVIOUS
  <2> QED BY <1>1, <1>2, <2>1 DEF EventsInOrder
<1>5. ASSUME NEW i \in 1 .. m - 1
      PROVE  i + 1 \in 1 .. m /\ t[i] = s[i + 1] /\ s[1].n < t[i].n
  <2>1. i + 1 \in 1 .. m /\ 1 \in 1 .. m /\ 1 < i + 1
    OBVIOUS
  <2> QED BY <1>1, <1>2, <2>1 DEF EventsInOrder
<1>6. ASSUME NEW j \in 1 .. m PROVE j = 1 \/ (j - 1 \in 1 .. m - 1 /\ t[j - 1] = s[j])
  <2>1. CASE j # 1
    <3>1. j - 1 \in 1 .. m - 1 /\ j - 1 + 1 = j
      BY <2>1
    <3> QED BY <1>2, <3>1
  <2> QED BY <2>1
<1>7. m = 1 <=> t = <<>>
  BY <1>1, <1>2, EmptySeq
<1> QED BY <1>1, <1>2, <1>3, <1>4, <1>5, <1>6, <1>7 DEF t

\* Later deletions stay seen.
LEMMA DeletionsStay ==
  ASSUME NEW e, DeletedLater(e),
         \A d \in SeenDeletions : d.path = e.path => d \in SeenDeletions'
  PROVE  DeletedLater(e)'
BY DEF DeletedLater

\* Steps that do not touch the file monitor's events.
LEMMA SameFiles ==
  ASSUME FilesInv, QueuesType', queue'["file"] = queue["file"], buffer'["file"] = buffer["file"],
         \/ thread'["file"] = thread["file"]
         \/ thread'["file"] \in {"ended", "killed"}
            /\ (thread["file"] # "none" \/ analyzer.pc \notin {"load", "start"})
         \/ thread["file"] = "created" /\ thread'["file"] = "loop",
         happens' >= happens, FileReports' = FileReports, reports \subseteq reports',
         UNCHANGED <<analyzer, tour, slots, collectOption, modifiedOn, modifiedFiles, archive>>
  PROVE  FilesInv'
<1> USE DEF FilesInv
<1>1. FileEvents' = FileEvents
  BY DEF FileEvents
<1>2. happens \in Nat /\ happens' \in Nat
  BY DEF QueuesType
<1>3. OrderInv'
  <2>1. \A i \in DOMAIN queue["file"] : queue["file"][i].n \in Nat
    BY EventsAreEvents
  <2>2. \A e \in FileEvents : e.n \in Nat
    BY EventsAreEvents
  <2>3. \A r \in FileReports : r.event.n \in Nat
    BY EventsAreEvents DEF FileReports
  <2>4. \A k \in Nat : k <= happens => k <= happens'
    BY <1>2
  <2> QED BY <1>1, <2>1, <2>2, <2>3, <2>4 DEF OrderInv
<1>4. TourInv' /\ SlotInv'
  BY <1>1 DEF TourInv, SlotInv, Young
<1>5. InHandInv'
  BY DEF InHandInv
<1>6. SignalInv'
  BY DEF SignalInv, Modifies
<1>7. SeenDeletions \subseteq SeenDeletions'
  BY <1>1 DEF SeenDeletions, FileEvents
<1>8. KeptInv'
  <2>1. \A e : DeletedLater(e) => DeletedLater(e)'
    BY <1>7 DEF DeletedLater
  <2> QED BY <2>1 DEF KeptInv, Modifies
<1> QED BY <1>3, <1>4, <1>5, <1>6, <1>8

\* A numbered event is put at the end of the list of the driver.
LEMMA FileHappens ==
  ASSUME FilesInv, QueuesType', NEW e \in MonitorEvent, e.n = happens + 1, Young(e.tour),
         queue'["file"] = Append(queue["file"], e), happens' = happens + 1,
         UNCHANGED <<buffer, thread, reports, analyzer, tour, slots, collectOption, modifiedOn,
                     modifiedFiles, archive>>
  PROVE  FilesInv'
<1> USE DEF FilesInv
<1> PICK q \in Seq(MonitorEvent) : q = queue["file"]
  BY EventsAreEvents
<1> PICK m \in Nat : m = Len(q)
  BY LenProperties
<1>1. FileEvents' = FileEvents /\ FileReports' = FileReports /\ SeenDeletions' = SeenDeletions
  BY DEF FileEvents, FileReports, SeenDeletions
<1>2. /\ DOMAIN q = 1 .. m /\ DOMAIN queue'["file"] = 1 .. m + 1
      /\ \A i \in 1 .. m : queue'["file"][i] = q[i]
      /\ queue'["file"][m + 1] = e
  BY AppendProperties, LenProperties
<1>3. \A i \in 1 .. m + 1 : i \in 1 .. m \/ i = m + 1
  OBVIOUS
<1>4. happens \in Nat /\ happens' = happens + 1
  BY DEF QueuesType
<1>5. OrderInv'
  <2>1. /\ \A i \in 1 .. m : q[i].n \in Nat /\ q[i].n <= happens
        /\ \A d \in FileEvents : d.n \in Nat /\ d.n <= happens
        /\ \A r \in FileReports : r.event.n \in Nat /\ r.event.n <= happens
    BY <1>2, EventsAreEvents DEF OrderInv, FileReports
  <2>2. \A k \in Nat : k <= happens => k <= happens' /\ k < e.n
    BY <1>4
  <2>3. \A i \in DOMAIN queue'["file"] : queue'["file"][i].n <= happens'
    BY <1>2, <1>3, <1>4, <2>1, <2>2
  <2>4. EventsInOrder(queue["file"])'
    <3> SUFFICES ASSUME NEW i \in 1 .. m + 1, NEW j \in 1 .. m + 1, i < j
                 PROVE  queue'["file"][i].n < queue'["file"][j].n
      BY <1>2 DEF EventsInOrder
    <3>1. i \in 1 .. m
      OBVIOUS
    <3>2. CASE j \in 1 .. m
      BY <1>2, <3>1, <3>2 DEF OrderInv, EventsInOrder
    <3>3. CASE j = m + 1
      BY <1>2, <2>1, <2>2, <3>1, <3>3
    <3> QED BY <1>3, <3>2, <3>3
  <2>5. EventsInOrder(buffer["file"])'
    BY DEF OrderInv, EventsInOrder
  <2>6. ASSUME NEW k \in Nat, k <= happens, \A j \in DOMAIN q : k < q[j].n
        PROVE  \A j \in DOMAIN queue'["file"] : k < queue'["file"][j].n
    BY <1>2, <1>3, <2>2, <2>6
  <2>7. /\ \A d \in FileEvents : \A j \in DOMAIN q : d.n < q[j].n
        /\ \A r \in FileReports :
             /\ \A j \in DOMAIN q : r.event.n < q[j].n
             /\ \A d \in FileEvents : r.event.n < d.n
             /\ r.event.path \notin Excluded
    BY DEF OrderInv
  <2> QED BY <1>1, <2>1, <2>2, <2>3, <2>4, <2>5, <2>6, <2>7 DEF OrderInv
<1>6. TourInv'
  <2>1. \A i \in DOMAIN queue'["file"] : Young(queue'["file"][i].tour)
    BY <1>2, <1>3 DEF TourInv
  <2> QED BY <1>1, <2>1 DEF TourInv, Young
<1>7. SlotInv' /\ InHandInv' /\ SignalInv'
  BY DEF SlotInv, InHandInv, SignalInv, Modifies
<1>8. KeptInv'
  BY <1>1 DEF KeptInv, Modifies, DeletedLater
<1> QED BY <1>5, <1>6, <1>7, <1>8

\* The thread takes over all the driver has.
LEMMA FilesTaken ==
  ASSUME FilesInv, QueuesType', thread["file"] = "loop", thread'["file"] = "check",
         queue["file"] # <<>>, buffer'["file"] = queue["file"], queue'["file"] = <<>>,
         UNCHANGED <<happens, reports, analyzer, tour, slots, collectOption, modifiedOn,
                     modifiedFiles, archive>>
  PROVE  FilesInv'
<1> USE DEF FilesInv
<1>1. FileEvents = {} /\ DOMAIN queue'["file"] = {}
  <2>1. buffer["file"] = <<>>
    BY DEF InHandInv
  <2> QED BY <2>1 DEF FileEvents
<1>2. FileEvents' = {queue["file"][i] : i \in DOMAIN queue["file"]}
  BY DEF FileEvents
<1>3. FileReports' = FileReports
  BY DEF FileReports
<1>4. OrderInv'
  BY <1>1, <1>2, <1>3 DEF OrderInv, EventsInOrder
<1>5. TourInv'
  BY <1>1, <1>2, <1>3 DEF TourInv, Young
<1>6. SlotInv' /\ InHandInv' /\ SignalInv'
  BY DEF SlotInv, InHandInv, SignalInv
<1>7. KeptInv'
  <2>1. SeenDeletions \subseteq SeenDeletions'
    BY <1>1, DeletionsSeen DEF SeenDeletions, FileEvents
  <2>2. \A e : DeletedLater(e) => DeletedLater(e)'
    BY <2>1 DEF DeletedLater
  <2> QED BY <1>3, <2>2 DEF KeptInv, Modifies
<1> QED BY <1>4, <1>5, <1>6, <1>7

\* The thread is done with the first event it has; r is the report of it.
LEMMA FileDropped ==
  ASSUME FilesInv, QueuesType', buffer["file"] # <<>>, buffer'["file"] = Tail(buffer["file"]),
         thread'["file"] = IF Len(buffer["file"]) = 1 THEN "loop" ELSE "check",
         UNCHANGED <<queue, happens, analyzer, tour, slots, collectOption, modifiedOn,
                     modifiedFiles, archive>>,
         thread["file"] \in {"check", "signal"},
         \/ /\ reports' = reports
            /\ buffer["file"][1].path \in Excluded \/ buffer["file"][1].kind # "delete"
         \/ \E t : /\ reports' = reports \cup {[by |-> "file", event |-> buffer["file"][1], tour |-> t]}
                   /\ buffer["file"][1].path \notin Excluded
                   /\ collectOption /\ tour > 0 /\ t = tour /\ Modifies(buffer["file"][1]) =>
                        /\ analyzer.pc \in {"visiting", "disconnect", "off", "copy"}
                        /\ buffer["file"][1].path \in modifiedFiles
  PROVE  FilesInv'
<1> USE DEF FilesInv
<1> PICK b \in Seq(MonitorEvent) : b = buffer["file"]
  BY EventsAreEvents
<1> PICK e \in MonitorEvent : e = b[1]
  BY RestOfEvents DEF OrderInv
<1>1. /\ b[1] = e /\ 1 \in DOMAIN b /\ EventsInOrder(Tail(b))
      /\ \A i \in DOMAIN Tail(b) : i + 1 \in DOMAIN b /\ Tail(b)[i] = b[i + 1] /\ e.n < Tail(b)[i].n
      /\ \A j \in DOMAIN b : j = 1 \/ (j - 1 \in DOMAIN Tail(b) /\ Tail(b)[j - 1] = b[j])
      /\ (Len(b) = 1 <=> Tail(b) = <<>>)
  BY RestOfEvents DEF OrderInv
<1>2. buffer'["file"] = Tail(b)
  OBVIOUS
<1>3. /\ FileEvents' \subseteq FileEvents /\ FileEvents \subseteq FileEvents' \cup {e}
      /\ e \in FileEvents /\ \A d \in FileEvents' : e.n < d.n
  <2>1. FileEvents = {b[i] : i \in DOMAIN b} /\ FileEvents' = {Tail(b)[i] : i \in DOMAIN Tail(b)}
    BY <1>2 DEF FileEvents
  <2>2. ASSUME NEW d \in FileEvents' PROVE d \in FileEvents /\ e.n < d.n
    <3>1. PICK i \in DOMAIN Tail(b) : d = Tail(b)[i]
      BY <2>1
    <3> QED BY <1>1, <2>1, <3>1
  <2>3. ASSUME NEW d \in FileEvents PROVE d = e \/ d \in FileEvents'
    <3>1. PICK j \in DOMAIN b : d = b[j]
      BY <2>1
    <3> QED BY <1>1, <2>1, <3>1
  <2>4. e \in FileEvents
    BY <1>1, <2>1
  <2> QED BY <2>2, <2>3, <2>4
<1>4. \/ reports' = reports /\ (e.path \in Excluded \/ e.kind # "delete")
      \/ \E t : reports' = reports \cup {[by |-> "file", event |-> e, tour |-> t]}
  OBVIOUS
<1>5. \A r \in FileReports' : r \in FileReports \/ (r.event = e /\ e.path \notin Excluded)
  BY DEF FileReports
<1>6. OrderInv'
  <2>1. EventsInOrder(buffer["file"])'
    BY <1>1, <1>2 DEF EventsInOrder
  <2>2. ASSUME NEW r \in FileReports'
        PROVE  /\ r.event.n <= happens
               /\ \A j \in DOMAIN queue["file"] : r.event.n < queue["file"][j].n
               /\ \A d \in FileEvents' : r.event.n < d.n
               /\ r.event.path \notin Excluded
    <3>1. CASE r \in FileReports
      BY <1>3, <3>1 DEF OrderInv
    <3>2. CASE r.event = e /\ e.path \notin Excluded
      BY <1>3, <3>2 DEF OrderInv
    <3> QED BY <1>5, <3>1, <3>2
  <2> QED BY <1>3, <2>1, <2>2 DEF OrderInv, EventsInOrder
<1>7. TourInv'
  <2>1. ASSUME NEW r \in FileReports' PROVE Young(r.event.tour)
    BY <1>3, <1>5 DEF TourInv
  <2>2. \A d \in FileEvents' : Young(d.tour)
    BY <1>3 DEF TourInv
  <2>3. \A i \in DOMAIN queue["file"] : Young(queue["file"][i].tour)
    BY DEF TourInv
  <2> QED BY <2>1, <2>2, <2>3 DEF TourInv, Young
<1>8. SlotInv' /\ SignalInv'
  BY DEF SlotInv, SignalInv
<1>9. InHandInv'
  BY <1>1, <1>2 DEF InHandInv
<1>10. KeptInv'
  <2>1. ASSUME NEW x, x.path \notin Excluded, DeletedLater(x) PROVE DeletedLater(x)'
    <3>1. PICK d \in SeenDeletions : d.path = x.path /\ d.n > x.n
      BY <2>1 DEF DeletedLater
    <3>2. d.kind = "delete" /\ (d \in FileEvents \/ \E r \in reports : d = r.event)
      BY <3>1, DeletionsSeen
    <3>3. d \in FileEvents' \/ \E r \in reports' : d = r.event
      <4>1. CASE \E r \in reports : d = r.event
        BY <4>1
      <4>2. CASE d = e
        <5>1. \E t : reports' = reports \cup {[by |-> "file", event |-> e, tour |-> t]}
          <6>1. e.path \notin Excluded
            BY <2>1, <3>1, <4>2
          <6>2. e.kind = "delete"
            BY <3>2, <4>2
          <6> QED BY <1>4, <6>1, <6>2
        <5>2. \E r \in reports' : e = r.event
          <6>1. PICK t : reports' = reports \cup {[by |-> "file", event |-> e, tour |-> t]}
            BY <5>1
          <6> DEFINE r == [by |-> "file", event |-> e, tour |-> t]
          <6>2. r \in reports' /\ r.event = e
            BY <6>1
          <6> HIDE DEF r
          <6> QED BY <6>2
        <5> QED BY <4>2, <5>2
      <4>3. CASE d \in FileEvents /\ d # e
        BY <1>3, <4>3
      <4> QED BY <3>2, <4>1, <4>2, <4>3
    <3>4. d \in SeenDeletions'
      BY <3>2, <3>3 DEF SeenDeletions, FileEvents
    <3> QED BY <3>1, <3>4 DEF DeletedLater
  <2> SUFFICES ASSUME NEW r \in FileReports', collectOption, tour > 0, r.tour = tour,
                      Modifies(r.event)
               PROVE  \/ DeletedLater(r.event)'
                      \/ /\ analyzer.pc \in {"visiting", "disconnect", "off", "copy"}
                         /\ r.event.path \in modifiedFiles
                      \/ analyzer.pc \in {"clear", "idle"} /\ r.event.path \in archive[tour]
    BY DEF KeptInv, Modifies
  <2>2. CASE r \in FileReports
    <3>1. r.event.path \notin Excluded
      BY <2>2 DEF OrderInv
    <3> QED BY <2>1, <2>2, <3>1 DEF KeptInv
  <2>3. CASE r \notin FileReports
    BY <2>3 DEF FileReports
  <2> QED BY <2>2, <2>3
<1> QED BY <1>6, <1>7, <1>8, <1>9, <1>10

\* An event is to be told; one of the visit under way is collected first.
LEMMA FilePasses ==
  ASSUME FilesInv, QueuesType', buffer["file"] # <<>>, buffer["file"][1].path \notin Excluded,
         thread["file"] = "check",
         thread'["file"] = IF modifiedOn /\ buffer["file"][1].path \notin Directories
                           THEN "collect" ELSE "signal",
         UNCHANGED <<queue, buffer, happens, reports, analyzer, tour, slots, collectOption,
                     modifiedOn, modifiedFiles, archive>>
  PROVE  FilesInv'
<1> USE DEF FilesInv
<1>1. FileEvents' = FileEvents /\ FileReports' = FileReports /\ SeenDeletions' = SeenDeletions
  BY DEF FileEvents, FileReports, SeenDeletions
<1>2. OrderInv' /\ TourInv' /\ SlotInv'
  BY <1>1 DEF OrderInv, EventsInOrder, TourInv, Young, SlotInv
<1>3. InHandInv'
  BY DEF InHandInv
<1>4. SignalInv'
  BY DEF SignalInv, SlotInv, Modifies
<1>5. KeptInv'
  BY <1>1 DEF KeptInv, Modifies, DeletedLater
<1> QED BY <1>2, <1>3, <1>4, <1>5

\* A file is collected, or no longer when it is deleted.
LEMMA FileCollected ==
  ASSUME FilesInv, QueuesType', thread["file"] = "collect", thread'["file"] = "signal",
         modifiedFiles' = Collected(buffer["file"][1]),
         UNCHANGED <<queue, buffer, happens, reports, analyzer, tour, slots, collectOption,
                     modifiedOn, archive>>
  PROVE  FilesInv'
<1> USE DEF FilesInv
<1> PICK e : e = buffer["file"][1]
  OBVIOUS
<1>1. e \in FileEvents
  <2>1. buffer["file"] # <<>> /\ buffer["file"] \in Seq(MonitorEvent)
    BY EventsAreEvents DEF InHandInv
  <2>2. 1 \in DOMAIN buffer["file"]
    BY <2>1, RestOfEvents DEF OrderInv
  <2> QED BY <2>2 DEF FileEvents
<1>2. FileEvents' = FileEvents /\ FileReports' = FileReports /\ SeenDeletions' = SeenDeletions
  BY DEF FileEvents, FileReports, SeenDeletions
<1>3. OrderInv' /\ TourInv' /\ SlotInv'
  BY <1>2 DEF OrderInv, EventsInOrder, TourInv, Young, SlotInv
<1>4. InHandInv'
  BY DEF InHandInv
<1>5. SignalInv'
  BY DEF SignalInv, Modifies, Collected
<1>6. KeptInv'
  <2> SUFFICES ASSUME NEW r \in FileReports, collectOption, tour > 0, r.tour = tour,
                      Modifies(r.event)
               PROVE  \/ DeletedLater(r.event)
                      \/ /\ analyzer.pc \in {"visiting", "disconnect", "off", "copy"}
                         /\ r.event.path \in modifiedFiles'
                      \/ analyzer.pc \in {"clear", "idle"} /\ r.event.path \in archive[tour]
    BY <1>2 DEF KeptInv, Modifies, DeletedLater
  <2>1. CASE r.event.path \in modifiedFiles'
    BY <2>1 DEF KeptInv
  <2>2. CASE r.event.path \in modifiedFiles /\ r.event.path \notin modifiedFiles'
    <3>1. e.kind = "delete" /\ e.path = r.event.path
      BY <2>2 DEF Collected
    <3>2. e \in SeenDeletions
      BY <1>1, <3>1, DeletionsSeen
    <3>3. e.n > r.event.n
      <4>1. r.event.n < e.n
        BY <1>1 DEF OrderInv
      <4>2. r.event.n \in Nat /\ e.n \in Nat
        BY <1>1, EventsAreEvents DEF FileReports
      <4> QED BY <4>1, <4>2
    <3> QED BY <3>1, <3>2, <3>3 DEF DeletedLater
  <2>3. CASE r.event.path \notin modifiedFiles
    BY <2>3 DEF KeptInv
  <2> QED BY <2>1, <2>2, <2>3
<1> QED BY <1>3, <1>4, <1>5, <1>6

\* What the visitor thread leaves alone.
LEMMA SameEvents ==
  ASSUME UNCHANGED <<threadingVars, crashed, happens, reports>>
  PROVE  /\ thread' = thread /\ queue' = queue /\ buffer' = buffer
         /\ FileEvents' = FileEvents /\ FileReports' = FileReports
         /\ SeenDeletions' = SeenDeletions
         /\ OrderInv => OrderInv'
         /\ \A e : DeletedLater(e)' <=> DeletedLater(e)
<1>1. thread' = thread /\ queue' = queue /\ buffer' = buffer /\ reports' = reports
      /\ happens' = happens
  BY DEF threadingVars
<1>2. /\ FileEvents' = FileEvents /\ FileReports' = FileReports
      /\ SeenDeletions' = SeenDeletions
  BY <1>1 DEF FileEvents, FileReports, SeenDeletions
<1>3. \A e : DeletedLater(e)' <=> DeletedLater(e)
  BY <1>2 DEF DeletedLater
<1>4. OrderInv => OrderInv'
  BY <1>1, <1>2 DEF OrderInv, EventsInOrder
<1> QED BY <1>1, <1>2, <1>3, <1>4

Stages == {"load", "start", "idle", "connect", "on", "visiting", "disconnect", "off", "copy",
           "clear"}

\* Another stage of the same visit.
LEMMA NextStage ==
  ASSUME FilesInv, QueuesType', UNCHANGED <<threadingVars, crashed, happens, reports>>,
         analyzer.pc \in Stages \ {"load", "start"},
         analyzer'.pc \in Stages \ {"load", "start"}, tour' = tour,
         analyzer.pc = "idle" => tour = 0,
         analyzer'.pc \in {"connect", "on"} => analyzer.pc \in {"connect", "on"},
         analyzer'.pc # "idle" => analyzer.pc # "idle",
         SlotInv',
         collectOption' => collectOption \/ tour = 0,
         SignalInv',
         collectOption /\ tour > 0 =>
           \/ /\ {analyzer.pc, analyzer'.pc} \subseteq {"visiting", "disconnect", "off", "copy"}
              /\ modifiedFiles' = modifiedFiles
           \/ /\ {analyzer.pc, analyzer'.pc} \subseteq {"clear", "idle"} /\ archive' = archive
           \/ /\ analyzer.pc = "copy" /\ analyzer'.pc = "clear"
              /\ archive'[tour] = modifiedFiles
           \/ analyzer.pc \in {"connect", "on"}
  PROVE  FilesInv'
<1> USE DEF FilesInv
<1>1. /\ thread' = thread /\ queue' = queue /\ buffer' = buffer
      /\ FileEvents' = FileEvents /\ FileReports' = FileReports /\ OrderInv'
      /\ \A e : DeletedLater(e) => DeletedLater(e)'
  BY SameEvents
<1>2. TourInv'
  <2>1. \A t : Young(t) => Young(t)'
    BY DEF Young
  <2>2. analyzer'.pc # "idle" => tour > 0
    BY DEF TourInv
  <2> QED BY <1>1, <2>1, <2>2 DEF TourInv
<1>3. InHandInv'
  BY <1>1 DEF InHandInv
<1>4. KeptInv'
  <2> SUFFICES ASSUME NEW r \in FileReports, collectOption', tour > 0, r.tour = tour,
                      Modifies(r.event), ~DeletedLater(r.event)
               PROVE  \/ /\ analyzer'.pc \in {"visiting", "disconnect", "off", "copy"}
                         /\ r.event.path \in modifiedFiles'
                      \/ analyzer'.pc \in {"clear", "idle"} /\ r.event.path \in archive'[tour]
    BY <1>1 DEF KeptInv, Modifies
  <2>1. collectOption
    <3>1. tour # 0
      BY DEF QueuesType
    <3> QED BY <3>1
  <2>2. \/ /\ analyzer.pc \in {"visiting", "disconnect", "off", "copy"}
           /\ r.event.path \in modifiedFiles
        \/ analyzer.pc \in {"clear", "idle"} /\ r.event.path \in archive[tour]
    BY <2>1 DEF KeptInv
  <2>3. analyzer.pc \notin {"connect", "on"}
    BY <2>2
  <2> QED BY <2>1, <2>2, <2>3
<1> QED BY <1>1, <1>2, <1>3, <1>4

\* An event of the visit that begins is none of those that wait.
LEMMA FilesBegin ==
  ASSUME FilesInv, QueuesType', BeginTour
  PROVE  FilesInv'
<1> USE DEF FilesInv
<1>1. /\ analyzer.pc = "idle" /\ tour' = tour + 1 /\ analyzer'.pc = "connect"
      /\ UNCHANGED <<collectOption, modifiedOn, modifiedFiles, archive, slots>>
      /\ UNCHANGED <<threadingVars, crashed, happens, reports>>
  BY DEF BeginTour, Visits, VisitRest
<1>2. /\ thread' = thread /\ queue' = queue /\ buffer' = buffer
      /\ FileEvents' = FileEvents /\ FileReports' = FileReports /\ OrderInv'
  BY <1>1, SameEvents
<1>3. tour \in Nat /\ tour' > 0
  BY <1>1, MonitorsAssumption DEF QueuesType
<1>4. ASSUME NEW t \in Nat, Young(t) PROVE Young(t)' /\ t # tour'
  BY <1>1, <1>3, <1>4 DEF Young
<1>5. /\ \A i \in DOMAIN queue["file"] : queue["file"][i].tour \in Nat
      /\ \A e \in FileEvents : e.tour \in Nat
      /\ \A r \in FileReports : r.event.tour \in Nat
  BY EventsAreEvents DEF FileReports
<1>6. TourInv'
  BY <1>1, <1>2, <1>3, <1>4, <1>5 DEF TourInv
<1>7. SlotInv' /\ InHandInv' /\ SignalInv'
  BY <1>1, <1>2 DEF SlotInv, InHandInv, SignalInv
<1>8. KeptInv'
  <2>1. \A r \in FileReports : r.event.tour # tour'
    BY <1>4, <1>5 DEF TourInv
  <2> QED BY <1>2, <2>1 DEF KeptInv, Modifies
<1> QED BY <1>2, <1>6, <1>7, <1>8

\* The visitor thread, stage by stage.
LEMMA VisitorFiles ==
  ASSUME FilesInv, QueuesType', ThreadTypes, VisitorThread
  PROVE  FilesInv'
<1> USE DEF FilesInv
<1>0. /\ UNCHANGED <<threadingVars, crashed, happens, reports>> /\ ~crashed
      /\ thread' = thread /\ buffer' = buffer /\ analyzer.at \in 1 .. 4
  BY SameEvents DEF VisitorThread, OnOptionChanged, BeginTour, ConnectSlot, StartCollecting,
     DisconnectSlot, EndCollecting, CopyCreatedFiles, ClearModifiedFiles, VisitRest, Visits,
     ThreadTypes
<1>1. ASSUME NEW value \in BOOLEAN, OnOptionChanged(value) PROVE FilesInv'
  <2>1. /\ analyzer.pc = "idle" /\ tour = 0 /\ analyzer' = analyzer /\ tour' = tour
        /\ UNCHANGED <<modifiedFiles, archive, slots>>
    BY <1>1 DEF OnOptionChanged, Visits
  <2>2. SlotInv' /\ SignalInv'
    BY <2>1 DEF SlotInv, SignalInv
  <2> QED BY <1>0, <2>1, <2>2, NextStage DEF Stages
<1>2. CASE BeginTour
  BY <1>2, FilesBegin
<1>3. CASE ConnectSlot
  <2>1. /\ analyzer.pc = "connect" /\ analyzer'.pc \in {"connect", "on"}
        /\ UNCHANGED <<collectOption, modifiedOn, modifiedFiles, tour, archive>>
    BY <1>3 DEF ConnectSlot, Visits
  <2>2. SlotInv' /\ SignalInv'
    BY <2>1 DEF SlotInv, SignalInv
  <2> QED BY <1>0, <2>1, <2>2, NextStage DEF Stages
<1>4. CASE StartCollecting
  <2>1. /\ analyzer.pc = "on" /\ analyzer'.pc = "visiting" /\ analyzer'.at = 1
        /\ modifiedOn' = (collectOption \/ modifiedOn)
        /\ UNCHANGED <<collectOption, modifiedFiles, tour, archive, slots>>
    BY <1>4 DEF StartCollecting, Visits
  <2>2. SlotInv'
    BY <2>1 DEF SlotInv, QueuesType
  <2>3. SignalInv'
    <3>1. thread["file"] = "signal" => buffer["file"][1] \in FileEvents
      <4> SUFFICES ASSUME thread["file"] = "signal" PROVE buffer["file"][1] \in FileEvents
        OBVIOUS
      <4>1. buffer["file"] # <<>> /\ buffer["file"] \in Seq(MonitorEvent)
        BY EventsAreEvents DEF InHandInv
      <4>2. 1 \in DOMAIN buffer["file"]
        BY <4>1, RestOfEvents DEF OrderInv
      <4> QED BY <4>2 DEF FileEvents
    <3>2. \A e \in FileEvents : e.tour # tour
      <4>1. \A e \in FileEvents : e.tour < tour /\ e.tour \in Nat
        BY <2>1, EventsAreEvents DEF TourInv, Young
      <4>2. tour \in Nat
        BY MonitorsAssumption DEF QueuesType
      <4> QED BY <4>1, <4>2
    <3> QED BY <1>0, <2>1, <3>1, <3>2 DEF SignalInv, Modifies
  <2> QED BY <1>0, <2>1, <2>2, <2>3, NextStage DEF Stages
<1>5. CASE DisconnectSlot
  <2>1. /\ analyzer.pc \in {"visiting", "disconnect"} /\ analyzer' = AfterDisconnect
        /\ slots' = slots \ {StartOrder[analyzer.at]}
        /\ UNCHANGED <<collectOption, modifiedOn, modifiedFiles, tour, archive>>
    BY <1>5 DEF DisconnectSlot, Visits
  <2>2. /\ analyzer'.pc \in {"disconnect", "off", "idle"}
        /\ analyzer'.pc = "idle" => ~collectOption
        /\ analyzer'.pc = "disconnect" => analyzer'.at = analyzer.at + 1 /\ analyzer.at < 4
        /\ analyzer'.pc # "disconnect" => analyzer.at >= 4
    BY <1>0, <2>1 DEF AfterDisconnect
  <2>3. SlotInv'
    <3>1. "file" \in slots' => analyzer.at # 3 /\ "file" \in slots
      BY <2>1 DEF StartOrder
    <3>2. "file" \in slots => analyzer.at < 4
      BY <2>1 DEF SlotInv
    <3>3. "file" \in slots' => analyzer'.pc = "disconnect" /\ analyzer'.at < 4
      BY <1>0, <2>2, <3>1, <3>2
    <3> QED BY <2>1, <2>2, <3>3 DEF SlotInv
  <2>4. SignalInv'
    BY <1>0, <2>1 DEF SignalInv, Modifies
  <2> QED BY <1>0, <2>1, <2>2, <2>3, <2>4, NextStage DEF Stages
<1>6. CASE EndCollecting
  <2>1. /\ analyzer.pc = "off" /\ analyzer'.pc = "copy"
        /\ UNCHANGED <<collectOption, modifiedFiles, tour, archive, slots>>
    BY <1>6 DEF EndCollecting, Visits
  <2>2. SlotInv' /\ SignalInv'
    BY <2>1 DEF SlotInv, SignalInv
  <2> QED BY <1>0, <2>1, <2>2, NextStage DEF Stages
<1>7. CASE CopyCreatedFiles
  <2>1. /\ analyzer.pc = "copy" /\ analyzer'.pc = "clear"
        /\ archive' = [archive EXCEPT ![tour] = modifiedFiles]
        /\ UNCHANGED <<collectOption, modifiedOn, modifiedFiles, tour, slots>>
    BY <1>7 DEF CopyCreatedFiles, Visits
  <2>2. SlotInv' /\ SignalInv'
    BY <2>1 DEF SlotInv, SignalInv
  <2>3. archive'[tour] = modifiedFiles
    <3>1. tour \in 1 .. MaxTours
      BY <2>1, MonitorsAssumption DEF TourInv, QueuesType
    <3> QED BY <2>1, <3>1 DEF QueuesType
  <2> QED BY <1>0, <2>1, <2>2, <2>3, NextStage DEF Stages
<1>8. CASE ClearModifiedFiles
  <2>1. /\ analyzer.pc = "clear" /\ analyzer'.pc = "idle"
        /\ UNCHANGED <<collectOption, modifiedOn, tour, archive, slots>>
    BY <1>8 DEF ClearModifiedFiles, Visits
  <2>2. SlotInv' /\ SignalInv'
    BY <2>1 DEF SlotInv, SignalInv
  <2> QED BY <1>0, <2>1, <2>2, NextStage DEF Stages
<1> QED BY <1>1, <1>2, <1>3, <1>4, <1>5, <1>6, <1>7, <1>8 DEF VisitorThread

\* A thread that is past its loop has an event in hand.
HandsInv == \A m \in Monitor : thread[m] \in {"check", "collect", "signal"} => buffer[m] # <<>>

\* The first part of a list, and the rest.
LEMMA SplitList ==
  ASSUME NEW s \in Seq(MonitorEvent), s # <<>>, NEW k \in Nat, k = 1 \/ k = Len(s)
  PROVE  /\ SubSeq(s, 1, k) \in Seq(MonitorEvent) /\ SubSeq(s, 1, k) # <<>>
         /\ SubSeq(s, k + 1, Len(s)) \in Seq(MonitorEvent)
<1> PICK m \in Nat : m = Len(s)
  BY LenProperties
<1>1. m # 0 /\ \A i \in 1 .. m : s[i] \in MonitorEvent
  BY EmptySeq, ElementOfSeq
<1>2. 1 <= k /\ k <= m /\ 1 \in Int /\ k \in Int /\ k + 1 \in Int /\ m \in Int
  BY <1>1
<1>3. /\ SubSeq(s, 1, k) \in Seq(MonitorEvent)
      /\ Len(SubSeq(s, 1, k)) = IF 1 <= k THEN k - 1 + 1 ELSE 0
  <2>1. \A i \in 1 .. k : s[i] \in MonitorEvent
    BY <1>1, <1>2
  <2> QED BY <1>2, <2>1, SubSeqProperties
<1>4. SubSeq(s, k + 1, m) \in Seq(MonitorEvent)
  <2>1. \A i \in k + 1 .. m : s[i] \in MonitorEvent
    BY <1>1, <1>2
  <2> QED BY <1>2, <2>1, SubSeqProperties
<1>5. SubSeq(s, 1, k) # <<>>
  <2>1. Len(SubSeq(s, 1, k)) # 0
    BY <1>2, <1>3
  <2> QED BY <2>1, EmptySeq
<1> QED BY <1>3, <1>4, <1>5

\* The first event in hand, and the others.
LEMMA SplitHand ==
  ASSUME NEW s \in Seq(MonitorEvent), s # <<>>
  PROVE  /\ Head(s) \in MonitorEvent /\ Head(s) = s[1] /\ Tail(s) \in Seq(MonitorEvent)
         /\ (Len(s) # 1 => Tail(s) # <<>>)
<1>1. Head(s) \in MonitorEvent /\ Head(s) = s[1] /\ Tail(s) \in Seq(MonitorEvent)
      /\ Len(Tail(s)) = Len(s) - 1
  BY HeadTailProperties, ElementOfSeq, EmptySeq, LenProperties
<1>2. Len(s) # 1 => Len(Tail(s)) # 0
  BY <1>1, LenProperties
<1> QED BY <1>1, <1>2, EmptySeq

LEMMA QueuesStart == MonitorsInit => QueuesType /\ HandsInv
<1> SUFFICES ASSUME MonitorsInit PROVE QueuesType /\ HandsInv
  OBVIOUS
<1>1. <<>> \in Seq(MonitorEvent)
  BY EmptySeq
<1>2. 0 \in 0 .. MaxTours /\ 0 \in 0 .. MaxEvents
  BY MonitorsAssumption
<1> QED BY <1>1, <1>2 DEF MonitorsInit, QueuesType, HandsInv

\* The steps that do not concern the lists.
LEMMA QueuesRest ==
  ASSUME QueuesType, HandsInv, UNCHANGED <<queue, buffer>>,
         slots' \subseteq Monitor, runs' \in [Monitor -> BOOLEAN],
         collectOption' \in BOOLEAN, modifiedOn' \in BOOLEAN, crashed' \in BOOLEAN,
         modifiedFiles' \subseteq Path, tour' \in 0 .. MaxTours, UNCHANGED <<happens, reports>>,
         archive' \in [1 .. MaxTours -> SUBSET Path],
         \A m \in Monitor : thread'[m] \in {"check", "collect", "signal"} =>
           thread[m] \in {"check", "collect", "signal"}
  PROVE  QueuesType' /\ HandsInv'
BY DEF QueuesType, HandsInv

LEMMA VisitorQueues ==
  ASSUME QueuesType, HandsInv, ThreadTypes, VisitorThread
  PROVE  QueuesType' /\ HandsInv'
<1> USE DEF QueuesType
<1>1. UNCHANGED <<queue, buffer, runs, thread, crashed, happens, reports>>
  BY DEF VisitorThread, OnOptionChanged, BeginTour, ConnectSlot, StartCollecting, DisconnectSlot,
         EndCollecting, CopyCreatedFiles, ClearModifiedFiles, VisitRest, threadingVars
<1>2. slots' \subseteq Monitor
  <2>1. StartOrder[analyzer.at] \in Monitor
    BY DEF ThreadTypes, StartOrder, Monitor
  <2> QED BY <2>1 DEF VisitorThread, OnOptionChanged, BeginTour, ConnectSlot, StartCollecting,
         DisconnectSlot, EndCollecting, CopyCreatedFiles, ClearModifiedFiles
<1>3. collectOption' \in BOOLEAN /\ modifiedOn' \in BOOLEAN
  BY DEF VisitorThread, OnOptionChanged, BeginTour, ConnectSlot, StartCollecting, DisconnectSlot,
         EndCollecting, CopyCreatedFiles, ClearModifiedFiles
<1>4. modifiedFiles' \subseteq Path
  BY DEF VisitorThread, OnOptionChanged, BeginTour, ConnectSlot, StartCollecting, DisconnectSlot,
         EndCollecting, CopyCreatedFiles, ClearModifiedFiles
<1>5. tour' \in 0 .. MaxTours
  <2>1. tour < MaxTours => tour + 1 \in 0 .. MaxTours
    BY MonitorsAssumption
  <2> QED BY <2>1 DEF VisitorThread, OnOptionChanged, BeginTour, ConnectSlot, StartCollecting,
         DisconnectSlot, EndCollecting, CopyCreatedFiles, ClearModifiedFiles
<1>6. archive' \in [1 .. MaxTours -> SUBSET Path]
  BY DEF VisitorThread, OnOptionChanged, BeginTour, ConnectSlot, StartCollecting, DisconnectSlot,
         EndCollecting, CopyCreatedFiles, ClearModifiedFiles
<1> QED BY <1>1, <1>2, <1>3, <1>4, <1>5, <1>6, QueuesRest

LEMMA HappensQueues ==
  ASSUME QueuesType, HandsInv, NEW m \in Monitor, NEW kind \in EventKind, NEW p \in Path,
         Happens(m, kind, p)
  PROVE  /\ QueuesType' /\ HandsInv' /\ happens' = happens + 1
         /\ \E e \in MonitorEvent :
              /\ e.n = happens + 1 /\ e.tour = (IF analyzer.pc = "visiting" THEN tour ELSE 0)
              /\ queue' = [queue EXCEPT ![m] = Append(queue[m], e)]
<1> DEFINE e == [n |-> happens + 1, kind |-> kind, path |-> p,
                 tour |-> IF analyzer.pc = "visiting" THEN tour ELSE 0]
<1>1. /\ happens < MaxEvents /\ happens' = happens + 1
      /\ queue' = [queue EXCEPT ![m] = Append(queue[m], e)]
      /\ UNCHANGED <<runs, thread, buffer, visitVars, crashed, reports>>
  BY DEF Happens
<1>2. happens + 1 \in 1 .. MaxEvents /\ happens + 1 \in 0 .. MaxEvents
  BY <1>1, MonitorsAssumption DEF QueuesType
<1>3. e \in MonitorEvent /\ e.n = happens + 1
      /\ e.tour = (IF analyzer.pc = "visiting" THEN tour ELSE 0)
  <2>1. (IF analyzer.pc = "visiting" THEN tour ELSE 0) \in 0 .. MaxTours
    BY MonitorsAssumption DEF QueuesType
  <2> QED BY <1>2, <2>1 DEF MonitorEvent
<1> HIDE DEF e
<1>4. queue' \in [Monitor -> Seq(MonitorEvent)]
  <2>1. Append(queue[m], e) \in Seq(MonitorEvent)
    BY <1>3, AppendProperties DEF QueuesType
  <2> QED BY <1>1, <2>1 DEF QueuesType
<1>5. QueuesType' /\ HandsInv'
  BY <1>1, <1>2, <1>4 DEF QueuesType, HandsInv, visitVars
<1> QED BY <1>1, <1>3, <1>5

LEMMA GetQueues ==
  ASSUME QueuesType, HandsInv, ThreadTypes, NEW m \in Monitor, NEW k \in Nat,
         k = 1 \/ k = Len(queue[m]), GetEvents(m, k)
  PROVE  QueuesType' /\ HandsInv'
<1>1. /\ queue[m] # <<>>
      /\ buffer' = [buffer EXCEPT ![m] = SubSeq(queue[m], 1, k)]
      /\ queue' = [queue EXCEPT ![m] = SubSeq(queue[m], k + 1, Len(queue[m]))]
      /\ thread' = [thread EXCEPT ![m] = "check"]
      /\ UNCHANGED <<runs, visitVars, crashed, happens, reports>>
  BY DEF GetEvents
<1>2. /\ SubSeq(queue[m], 1, k) \in Seq(MonitorEvent) /\ SubSeq(queue[m], 1, k) # <<>>
      /\ SubSeq(queue[m], k + 1, Len(queue[m])) \in Seq(MonitorEvent)
  BY <1>1, SplitList DEF QueuesType
<1>3. /\ buffer' \in [Monitor -> Seq(MonitorEvent)] /\ queue' \in [Monitor -> Seq(MonitorEvent)]
      /\ buffer'[m] # <<>>
      /\ \A n \in Monitor : n # m => buffer'[n] = buffer[n] /\ thread'[n] = thread[n]
  BY <1>1, <1>2 DEF QueuesType, ThreadTypes
<1>4. QueuesType'
  BY <1>1, <1>3 DEF QueuesType, visitVars
<1>5. HandsInv'
  BY <1>3 DEF HandsInv
<1> QED BY <1>4, <1>5

LEMMA DropQueues ==
  ASSUME QueuesType, HandsInv, ThreadTypes, NEW m \in Monitor, thread[m] \in {"check", "signal"},
         Drop(m), UNCHANGED <<runs, queue, visitVars, crashed, happens>>,
         reports' = reports
           \/ \E t \in 0 .. MaxTours :
                reports' = reports \cup {[by |-> m, event |-> Head(buffer[m]), tour |-> t]}
  PROVE  QueuesType' /\ HandsInv'
<1>1. /\ Head(buffer[m]) \in MonitorEvent /\ Tail(buffer[m]) \in Seq(MonitorEvent)
      /\ Len(buffer[m]) # 1 => Tail(buffer[m]) # <<>>
  BY SplitHand DEF QueuesType, HandsInv
<1>2. /\ buffer' \in [Monitor -> Seq(MonitorEvent)]
      /\ buffer'[m] = Tail(buffer[m])
      /\ thread'[m] = IF Len(buffer[m]) = 1 THEN "loop" ELSE "check"
      /\ \A n \in Monitor : n # m => buffer'[n] = buffer[n] /\ thread'[n] = thread[n]
  BY <1>1 DEF Drop, QueuesType, ThreadTypes
<1>3. reports' \subseteq [by : Monitor, event : MonitorEvent, tour : 0 .. MaxTours]
  BY <1>1 DEF QueuesType
<1>4. QueuesType'
  BY <1>2, <1>3 DEF QueuesType, visitVars
<1>5. HandsInv'
  BY <1>1, <1>2 DEF HandsInv
<1> QED BY <1>4, <1>5

CopyInv == MonitorsInv /\ FilesInv /\ HandsInv

LEMMA FilesStart == MonitorsInit => FilesInv /\ HandsInv
<1> SUFFICES ASSUME MonitorsInit PROVE FilesInv /\ HandsInv
  OBVIOUS
<1>1. QueuesType /\ HandsInv
  BY QueuesStart
<1>2. FileEvents = {} /\ FileReports = {} /\ queue["file"] = <<>> /\ buffer["file"] = <<>>
      /\ thread["file"] = "none" /\ analyzer.pc = "load" /\ tour = 0 /\ slots = {}
      /\ collectOption = FALSE
  BY DEF MonitorsInit, FileEvents, FileReports, Monitor
<1>3. DOMAIN queue["file"] = {} /\ DOMAIN buffer["file"] = {}
  BY <1>2
<1>4. OrderInv
  BY <1>2, <1>3 DEF OrderInv, EventsInOrder
<1>5. TourInv /\ SlotInv /\ InHandInv /\ SignalInv /\ KeptInv
  BY <1>2, <1>3 DEF TourInv, SlotInv, InHandInv, SignalInv, KeptInv
<1> QED BY <1>1, <1>4, <1>5 DEF FilesInv

\* Monitors are constructed and started while nothing is visited.
LEMMA StartUpFiles ==
  ASSUME CopyInv, LoadDriver \/ StartMonitor
  PROVE  FilesInv' /\ HandsInv'
<1> USE DEF CopyInv, FilesInv
<1>1. ThreadTypes /\ analyzer.at \in 1 .. 4
  BY DEF MonitorsInv, ThreadTypes
<1>2. /\ analyzer.pc \in {"load", "start"} /\ analyzer' = NextAt
      /\ UNCHANGED <<started, runs, queue, buffer, collectOption, modifiedOn, modifiedFiles, tour,
                     archive, slots, crashed, happens, reports>>
  BY DEF LoadDriver, StartMonitor, StartUpRest
<1>3. \/ analyzer.pc = "load" /\ thread' = thread
      \/ /\ analyzer.pc = "start"
         /\ thread' = [thread EXCEPT ![StartOrder[analyzer.at]] =
                         IF StartOrder[analyzer.at] \in installed THEN "created" ELSE "none"]
  BY DEF LoadDriver, StartMonitor
<1>4. /\ "file" \in Monitor /\ (StartOrder[analyzer.at] = "file" <=> analyzer.at = 3)
      /\ StartOrder[analyzer.at] \in Monitor
  BY <1>1 DEF StartOrder, Monitor
<1>5. \/ thread'["file"] = thread["file"] /\ (analyzer.pc = "load" \/ analyzer.at # 3)
      \/ /\ thread'["file"] \in {"created", "none"}
         /\ analyzer.pc = "start" /\ analyzer.at = 3
  BY <1>3, <1>4 DEF ThreadTypes, MonitorsInv
<1>6. QueuesType' /\ HandsInv'
  <2>1. \A m \in Monitor : thread'[m] \in {"check", "collect", "signal"} =>
          thread[m] \in {"check", "collect", "signal"}
    BY <1>1, <1>3, <1>4 DEF ThreadTypes
  <2> QED BY <1>2, <2>1, QueuesRest DEF QueuesType
<1>7. /\ FileEvents' = FileEvents /\ FileReports' = FileReports
      /\ analyzer'.pc \in {"load", "start", "idle"} /\ tour = 0
  <2>1. analyzer'.pc \in {"load", "start", "idle"}
    BY <1>1, <1>2 DEF NextAt, ThreadTypes
  <2> QED BY <1>2, <2>1 DEF FileEvents, FileReports, TourInv
<1>8. OrderInv'
  BY <1>2, <1>7 DEF OrderInv, EventsInOrder
<1>9. TourInv'
  BY <1>2, <1>7 DEF TourInv, Young
<1>10. SlotInv' /\ KeptInv'
  BY <1>2, <1>7 DEF SlotInv, KeptInv, QueuesType
<1>11. SignalInv'
  BY <1>7 DEF SignalInv
<1>12. InHandInv'
  <2>1. analyzer'.pc = "load" \/ (analyzer'.pc = "start" /\ analyzer'.at <= 3) =>
          /\ thread["file"] = "none" /\ thread'["file"] = thread["file"]
    <3>1. CASE analyzer.pc = "load"
      BY <1>5, <3>1 DEF InHandInv
    <3>2. CASE analyzer.pc = "start" /\ analyzer.at < 3
      BY <1>5, <1>1, <3>2 DEF InHandInv
    <3>3. CASE analyzer.pc = "start" /\ analyzer.at >= 3
      <4>1. analyzer'.pc = "idle" \/ (analyzer'.pc = "start" /\ analyzer'.at = 4)
        <5>1. CASE analyzer.at < 4
          <6>1. analyzer' = [analyzer EXCEPT !.at = analyzer.at + 1]
            BY <1>2, <5>1 DEF NextAt
          <6>2. analyzer'.pc = analyzer.pc /\ analyzer'.at = analyzer.at + 1
            BY <1>1, <6>1 DEF ThreadTypes
          <6> QED BY <1>1, <3>3, <5>1, <6>2
        <5>2. CASE ~(analyzer.at < 4)
          BY <1>2, <3>3, <5>2 DEF NextAt
        <5> QED BY <5>1, <5>2
      <4> QED BY <4>1
    <3> QED BY <1>1, <1>2, <3>1, <3>2, <3>3
  <2>2. buffer' = buffer /\ (thread'["file"] = thread["file"]
          \/ (thread["file"] = "none" /\ thread'["file"] \in {"created", "none"}))
    BY <1>2, <1>5 DEF InHandInv
  <2> QED BY <2>1, <2>2 DEF InHandInv
<1> QED BY <1>6, <1>8, <1>9, <1>10, <1>11, <1>12

\* The thread of a monitor, the file monitor's or another one's.
LEMMA ThreadFiles ==
  ASSUME CopyInv, NEW m \in Monitor, MonitorThread(m)
  PROVE  FilesInv' /\ HandsInv'
<1> USE DEF CopyInv
<1>1. ThreadTypes /\ QueuesType /\ "file" \in Monitor
  BY DEF MonitorsInv, FilesInv, Monitor
<1>2. happens' = happens /\ happens' >= happens
      /\ UNCHANGED <<queue, analyzer, tour, slots, collectOption, modifiedOn, modifiedFiles, archive>>
  <2>1. happens \in Nat
    BY <1>1 DEF QueuesType
  <2>2. UNCHANGED <<queue, happens, visitVars>>
    BY DEF MonitorThread, EnterThread, LeaveThread, CheckEvent, SignalEvent
  <2> QED BY <2>1, <2>2 DEF visitVars
<1>3. CASE EnterThread(m)
  <2>1. /\ thread[m] = "created" /\ runs' = [runs EXCEPT ![m] = TRUE]
        /\ thread' = [thread EXCEPT ![m] = "loop"]
        /\ UNCHANGED <<buffer, crashed, reports>>
    BY <1>3 DEF EnterThread, Alive
  <2>2. QueuesType' /\ HandsInv'
    BY <1>1, <1>2, <2>1, QueuesRest DEF QueuesType, ThreadTypes
  <2>3. thread'["file"] = thread["file"] \/ (thread["file"] = "created" /\ thread'["file"] = "loop")
    BY <1>1, <2>1 DEF ThreadTypes
  <2> QED BY <1>2, <2>1, <2>2, <2>3, SameFiles DEF FileReports
<1>4. CASE LeaveThread(m)
  <2>1. /\ thread[m] = "loop" /\ thread' = [thread EXCEPT ![m] = "ended"]
        /\ UNCHANGED <<runs, buffer, crashed, reports>>
    BY <1>4 DEF LeaveThread, Alive
  <2>2. QueuesType' /\ HandsInv'
    BY <1>1, <1>2, <2>1, QueuesRest DEF QueuesType, ThreadTypes
  <2>3. thread'["file"] = thread["file"] \/ (thread["file"] = "loop" /\ thread'["file"] = "ended")
    BY <1>1, <2>1 DEF ThreadTypes
  <2> QED BY <1>2, <2>1, <2>2, <2>3, SameFiles DEF FileReports
<1>5. CASE CheckEvent(m)
  <2>1. /\ thread[m] = "check" /\ buffer[m] # <<>>
        /\ UNCHANGED <<runs, crashed, reports, happens, queue, visitVars>>
    BY <1>5 DEF CheckEvent, Alive, HandsInv
  <2>2. Head(buffer[m]) = buffer[m][1]
    BY <1>1, <2>1, SplitHand DEF QueuesType
  <2>3. CASE Drop(m) /\ (Head(buffer[m]).path \in Excluded \/ ~HasName(Head(buffer[m])))
    <3>1. QueuesType' /\ HandsInv'
      BY <1>1, <2>1, <2>3, DropQueues
    <3>2. CASE m = "file"
      <4>1. buffer[m][1].path \in Excluded \/ buffer[m][1].kind # "delete"
        BY <2>2, <2>3 DEF HasName
      <4>2. /\ buffer'["file"] = Tail(buffer["file"])
            /\ thread'["file"] = IF Len(buffer["file"]) = 1 THEN "loop" ELSE "check"
        BY <1>1, <2>3, <3>2 DEF Drop, QueuesType, ThreadTypes
      <4> QED BY <1>2, <2>1, <3>1, <3>2, <4>1, <4>2, FileDropped
    <3>3. CASE m # "file"
      <4>1. buffer'["file"] = buffer["file"] /\ thread'["file"] = thread["file"]
        BY <1>1, <2>3, <3>3 DEF Drop, QueuesType, ThreadTypes
      <4> QED BY <1>2, <2>1, <3>1, <4>1, SameFiles DEF FileReports
    <3> QED BY <3>2, <3>3
  <2>4. CASE /\ Head(buffer[m]).path \notin Excluded /\ HasName(Head(buffer[m]))
             /\ thread' = [thread EXCEPT ![m] = AfterCheck(m)] /\ buffer' = buffer
    <3>1. QueuesType' /\ HandsInv'
      <4>1. \A n \in Monitor : thread'[n] \in {"check", "collect", "signal"} =>
              thread[n] \in {"check", "collect", "signal"}
        BY <1>1, <2>1, <2>4 DEF ThreadTypes
      <4> QED BY <1>1, <1>2, <2>1, <2>4, <4>1, QueuesRest DEF QueuesType
    <3>2. CASE m = "file"
      <4>1. thread'["file"] = IF modifiedOn /\ buffer["file"][1].path \notin Directories
                              THEN "collect" ELSE "signal"
        BY <1>1, <2>2, <2>4, <3>2 DEF AfterCheck, ThreadTypes
      <4> QED BY <1>2, <2>1, <2>2, <2>4, <3>1, <3>2, <4>1, FilePasses
    <3>3. CASE m # "file"
      <4>1. thread'["file"] = thread["file"]
        BY <1>1, <2>4, <3>3 DEF ThreadTypes
      <4> QED BY <1>2, <2>1, <2>4, <3>1, <4>1, SameFiles DEF FileReports
    <3> QED BY <3>2, <3>3
  <2> QED BY <1>5, <2>3, <2>4 DEF CheckEvent
<1>6. CASE SignalEvent(m)
  <2> PICK t : t = IF m \in slots THEN tour ELSE 0
    OBVIOUS
  <2>1. /\ thread[m] = "signal" /\ buffer[m] # <<>> /\ Drop(m)
        /\ reports' = reports \cup {[by |-> m, event |-> Head(buffer[m]), tour |-> t]}
        /\ UNCHANGED <<runs, crashed, happens, queue, visitVars>>
    BY <1>6 DEF SignalEvent, Alive, HandsInv
  <2>2. Head(buffer[m]) = buffer[m][1] /\ buffer[m][1] \in MonitorEvent
    BY <1>1, <2>1, SplitHand DEF QueuesType
  <2>3. t \in 0 .. MaxTours
    BY <1>1, MonitorsAssumption DEF QueuesType
  <2>4. m = "file" /\ t = tour /\ tour > 0 => "file" \in slots
    BY <1>1 DEF QueuesType
  <2>5. QueuesType' /\ HandsInv'
    BY <1>1, <2>1, <2>3, DropQueues
  <2>6. CASE m = "file"
    <3>1. /\ buffer'["file"] = Tail(buffer["file"])
          /\ thread'["file"] = IF Len(buffer["file"]) = 1 THEN "loop" ELSE "check"
      BY <1>1, <2>1, <2>6 DEF Drop, QueuesType, ThreadTypes
    <3>2. buffer["file"][1].path \notin Excluded
      BY <2>1, <2>6 DEF FilesInv, InHandInv
    <3>3. ASSUME collectOption, tour > 0, t = tour, Modifies(buffer["file"][1])
          PROVE  /\ analyzer.pc \in {"visiting", "disconnect", "off", "copy"}
                 /\ buffer["file"][1].path \in modifiedFiles
      <4>1. analyzer.pc \in {"connect", "on", "visiting", "disconnect"}
        BY <2>4, <2>6, <3>3 DEF FilesInv, SlotInv
      <4>2. buffer["file"][1] \in FileEvents
        <5>1. 1 \in DOMAIN buffer["file"]
          BY <1>1, <2>1, <2>6, RestOfEvents DEF QueuesType, FilesInv, OrderInv
        <5> QED BY <5>1 DEF FileEvents
      <4>3. Young(tour)
        BY <3>3, <4>2 DEF FilesInv, TourInv, Modifies
      <4>4. analyzer.pc \notin {"connect", "on"}
        <5>1. tour \in Nat /\ ~(tour < tour)
          BY <1>1 DEF QueuesType
        <5> QED BY <4>3, <5>1 DEF Young
      <4> QED BY <2>1, <2>6, <3>3, <4>1, <4>4 DEF FilesInv, SignalInv
    <3>4. reports' = reports \cup {[by |-> "file", event |-> buffer["file"][1], tour |-> t]}
      BY <2>1, <2>2, <2>6
    <3>5. \E u : /\ reports' = reports \cup {[by |-> "file", event |-> buffer["file"][1], tour |-> u]}
                 /\ buffer["file"][1].path \notin Excluded
                 /\ collectOption /\ tour > 0 /\ u = tour /\ Modifies(buffer["file"][1]) =>
                      /\ analyzer.pc \in {"visiting", "disconnect", "off", "copy"}
                      /\ buffer["file"][1].path \in modifiedFiles
      BY <3>2, <3>3, <3>4
    <3>6. thread["file"] \in {"check", "signal"} /\ buffer["file"] # <<>> /\ QueuesType'
      BY <2>1, <2>5, <2>6
    <3>7. UNCHANGED <<queue, happens, analyzer, tour, slots, collectOption, modifiedOn,
                      modifiedFiles, archive>>
      BY <2>1 DEF visitVars
    <3>8. FilesInv'
      BY <1>2, <3>1, <3>5, <3>6, <3>7, FileDropped
    <3> QED BY <2>5, <3>8
  <2>7. CASE m # "file"
    <3>1. buffer'["file"] = buffer["file"] /\ thread'["file"] = thread["file"]
      BY <1>1, <2>1, <2>7 DEF Drop, QueuesType, ThreadTypes
    <3>2. FileReports' = FileReports /\ reports \subseteq reports'
      <4> DEFINE r == [by |-> m, event |-> Head(buffer[m]), tour |-> t]
      <4>1. reports' = reports \cup {r} /\ r.by # "file"
        BY <2>1, <2>7
      <4> HIDE DEF r
      <4> QED BY <4>1 DEF FileReports
    <3> QED BY <1>2, <2>5, <3>1, <3>2, SameFiles
  <2> QED BY <2>6, <2>7
<1> QED BY <1>3, <1>4, <1>5, <1>6 DEF MonitorThread

LEMMA FilesStep ==
  CopyInv /\ MonitorsInv' /\ [MonitorsNext]_monitoringVars => FilesInv' /\ HandsInv'
<1> SUFFICES ASSUME CopyInv, MonitorsInv', [MonitorsNext]_monitoringVars
             PROVE  FilesInv' /\ HandsInv'
  OBVIOUS
<1> USE DEF CopyInv
<1>1. ThreadTypes /\ QueuesType /\ "file" \in Monitor /\ happens \in Nat
  BY DEF MonitorsInv, FilesInv, QueuesType, Monitor
<1>2. ASSUME NEW m \in Monitor, MonitorThread(m) PROVE FilesInv' /\ HandsInv'
  BY <1>2, ThreadFiles
<1>3. ASSUME NEW m \in Monitor, NEW kind \in EventKind, NEW p \in Path, Happens(m, kind, p)
      PROVE  FilesInv' /\ HandsInv'
  <2>1. /\ UNCHANGED <<thread, buffer, reports, analyzer, tour, slots, collectOption, modifiedOn,
                       modifiedFiles, archive>>
    BY <1>3 DEF Happens, visitVars
  <2>2. QueuesType' /\ HandsInv' /\ happens' = happens + 1 /\ happens' >= happens
    BY <1>1, <1>3, HappensQueues
  <2>3. PICK e \in MonitorEvent :
          /\ e.n = happens + 1 /\ e.tour = (IF analyzer.pc = "visiting" THEN tour ELSE 0)
          /\ queue' = [queue EXCEPT ![m] = Append(queue[m], e)]
    BY <1>1, <1>3, HappensQueues
  <2>4. CASE m = "file"
    <3>1. queue'["file"] = Append(queue["file"], e)
      BY <1>1, <2>3, <2>4 DEF QueuesType
    <3>2. Young(e.tour)
      BY <1>1, <2>3 DEF Young, QueuesType, FilesInv, TourInv
    <3> QED BY <2>1, <2>2, <2>3, <3>1, <3>2, FileHappens
  <2>5. CASE m # "file"
    <3>1. queue'["file"] = queue["file"]
      BY <1>1, <2>3, <2>5 DEF QueuesType
    <3> QED BY <2>1, <2>2, <3>1, SameFiles DEF FileReports
  <2> QED BY <2>4, <2>5
<1>4. CASE LoadDriver \/ StartMonitor
  BY <1>4, StartUpFiles
<1>5. ASSUME NEW m \in Monitor, NEW k \in Nat, k = 1 \/ k = Len(queue[m]), GetEvents(m, k),
             m = "file" => k = Len(queue[m])
      PROVE  FilesInv' /\ HandsInv'
  <2>1. QueuesType' /\ HandsInv'
    BY <1>1, <1>5, GetQueues
  <2>2. /\ thread[m] = "loop" /\ queue[m] # <<>>
        /\ buffer' = [buffer EXCEPT ![m] = SubSeq(queue[m], 1, k)]
        /\ queue' = [queue EXCEPT ![m] = SubSeq(queue[m], k + 1, Len(queue[m]))]
        /\ thread' = [thread EXCEPT ![m] = "check"]
        /\ UNCHANGED <<happens, reports, analyzer, tour, slots, collectOption, modifiedOn,
                       modifiedFiles, archive>>
    BY <1>5 DEF GetEvents, Alive, visitVars
  <2>3. CASE m = "file"
    <3>1. queue["file"] \in Seq(MonitorEvent)
      BY <1>1 DEF QueuesType
    <3>2. /\ SubSeq(queue["file"], 1, Len(queue["file"])) = queue["file"]
          /\ SubSeq(queue["file"], Len(queue["file"]) + 1, Len(queue["file"])) = <<>>
      <4>1. Len(queue["file"]) \in Int /\ Len(queue["file"]) + 1 \in Int
            /\ Len(queue["file"]) < Len(queue["file"]) + 1
        BY <3>1, LenProperties
      <4> QED BY <3>1, <4>1, SubSeqFull, SubSeqEmpty
    <3>3. /\ buffer'["file"] = queue["file"] /\ queue'["file"] = <<>>
          /\ thread'["file"] = "check"
      BY <1>1, <1>5, <2>2, <2>3, <3>2 DEF QueuesType, ThreadTypes
    <3> QED BY <2>1, <2>2, <2>3, <3>3, FilesTaken
  <2>4. CASE m # "file"
    <3>1. /\ buffer'["file"] = buffer["file"] /\ queue'["file"] = queue["file"]
          /\ thread'["file"] = thread["file"]
      BY <1>1, <2>2, <2>4 DEF QueuesType, ThreadTypes
    <3>2. happens' >= happens
      BY <1>1, <2>2
    <3> QED BY <2>1, <2>2, <3>1, <3>2, SameFiles DEF FileReports
  <2> QED BY <2>3, <2>4
<1>6. CASE GetFileEvents \/ GetRegistryEvents \/ GetProcessEvent \/ GetConnectionEvent
  <2>1. \A m \in Monitor : Len(queue[m]) \in Nat
    BY <1>1, LenProperties DEF QueuesType
  <2>2. \E m \in Monitor : \E k \in Nat :
          (k = 1 \/ k = Len(queue[m])) /\ GetEvents(m, k) /\ (m = "file" => k = Len(queue[m]))
    <3>1. CASE GetFileEvents
      BY <2>1, <3>1 DEF GetFileEvents, Monitor
    <3>2. CASE GetRegistryEvents
      BY <2>1, <3>2 DEF GetRegistryEvents, Monitor
    <3>3. CASE GetProcessEvent
      BY <3>3 DEF GetProcessEvent, Monitor
    <3>4. CASE GetConnectionEvent
      BY <3>4 DEF GetConnectionEvent, Monitor
    <3> QED BY <1>6, <3>1, <3>2, <3>3, <3>4
  <2> QED BY <1>5, <2>2
<1>7. CASE CollectFile
  <2>1. /\ thread["file"] = "collect" /\ buffer["file"] # <<>>
        /\ modifiedFiles' = Collected(Head(buffer["file"]))
        /\ thread' = [thread EXCEPT !["file"] = "signal"] /\ crashed' \in BOOLEAN
        /\ UNCHANGED <<runs, queue, buffer, happens, reports, analyzer, tour, slots,
                       collectOption, modifiedOn, archive>>
    BY <1>1, <1>7 DEF CollectFile, Alive, HandsInv
  <2>2. Head(buffer["file"]) \in MonitorEvent /\ Head(buffer["file"]) = buffer["file"][1]
    BY <1>1, <2>1, SplitHand DEF QueuesType
  <2>3. modifiedFiles' \subseteq Path
    BY <1>1, <2>1, <2>2 DEF Collected, MonitorEvent, QueuesType
  <2>4. QueuesType' /\ HandsInv'
    BY <1>1, <2>1, <2>3, QueuesRest DEF QueuesType, ThreadTypes
  <2>5. thread'["file"] = "signal"
    BY <1>1, <2>1 DEF ThreadTypes
  <2> QED BY <2>1, <2>2, <2>4, <2>5, FileCollected
<1>8. CASE VisitorThread
  BY <1>1, <1>8, VisitorQueues, VisitorFiles
<1>9. CASE BeginStop \/ EndStop
  <2>1. UNCHANGED <<queue, buffer, slots, collectOption, modifiedOn, modifiedFiles, analyzer, tour,
                    archive, crashed, happens, reports>>
    BY <1>9 DEF BeginStop, EndStop, QuitRest, visitVars
  <2>2. runs' \in [Monitor -> BOOLEAN]
    BY <1>1, <1>9 DEF BeginStop, EndStop, QueuesType
  <2>3. \A m \in Monitor : thread'[m] \in {thread[m], "killed"}
    <3>1. CASE BeginStop
      BY <3>1 DEF BeginStop
    <3>2. CASE EndStop
      <4>1. quitting.pc = "wait" /\ quitting.monitor \in Monitor
        BY <1>1, <3>2 DEF EndStop, ThreadTypes
      <4>2. thread' = thread \/ thread' = [thread EXCEPT ![quitting.monitor] = "killed"]
        BY <3>2 DEF EndStop
      <4> QED BY <1>1, <4>1, <4>2 DEF ThreadTypes
    <3> QED BY <1>9, <3>1, <3>2
  <2>4. QueuesType' /\ HandsInv'
    BY <1>1, <2>1, <2>2, <2>3, QueuesRest DEF QueuesType
  <2>5. happens' >= happens
    BY <1>1, <2>1
  <2>6. analyzer.pc \notin {"load", "start"}
    BY <1>9 DEF BeginStop, EndStop, MonitorsInv, StartUpInv
  <2> QED BY <1>1, <2>1, <2>3, <2>4, <2>5, <2>6, SameFiles DEF FileReports
<1>10. CASE UNCHANGED monitoringVars
  <2>1. /\ UNCHANGED <<thread, queue, buffer, runs, slots, collectOption, modifiedOn,
                       modifiedFiles, analyzer, tour, archive, crashed, happens, reports>>
    BY <1>10 DEF monitoringVars
  <2>2. QueuesType' /\ HandsInv'
    BY <1>1, <2>1, QueuesRest DEF QueuesType
  <2>3. happens' >= happens
    BY <1>1, <2>1
  <2> QED BY <2>1, <2>2, <2>3, SameFiles DEF FileReports
<1> QED
  BY <1>2, <1>3, <1>4, <1>6, <1>7, <1>8, <1>9, <1>10 DEF MonitorsNext

(* The monitors, their events and the files they collect agree in every    *)
(* reachable state (CopyInv): threads of the monitors, Analyzer, drivers.   *)
THEOREM MonitorsInvariance == MonitorsSpec => []CopyInv
<1>1. MonitorsInit => CopyInv
  BY MonitorsStart, FilesStart DEF CopyInv
<1>2. CopyInv /\ [MonitorsNext]_monitoringVars => CopyInv'
  BY MonitorsStep, FilesStep DEF CopyInv
<1> QED BY <1>1, <1>2, PTL DEF MonitorsSpec

(* The type invariant of the monitors of the client and their threads.     *)
THEOREM MonitorsTypeCorrect == MonitorsSpec => []MonitorsTypeOK
<1>1. CopyInv => MonitorsTypeOK
  BY DEF CopyInv, MonitorsInv, ThreadTypes, FilesInv, QueuesType, MonitorsTypeOK, Active
<1> QED BY <1>1, MonitorsInvariance, PTL

(* A file that was modified during a visit and reported for it is copied at *)
(* its end, or was seen to be deleted since: the thread of FileMonitor     *)
(* collects before it signals, and Analyzer.stop disconnects before it     *)
(* copies.                                                                  *)
THEOREM ReportedFilesKept == MonitorsSpec => []ReportedFilesAreCopied
<1>1. CopyInv => ReportedFilesAreCopied
  <2> SUFFICES ASSUME CopyInv, collectOption, tour > 0, analyzer.pc \in {"idle", "clear"},
                      NEW r \in reports, r.by = "file", r.tour = tour, Modifies(r.event)
               PROVE  \/ r.event.path \in archive[tour]
                      \/ DeletedLater(r.event)
    BY DEF ReportedFilesAreCopied, Modifies, DeletedLater
  <2>1. r \in FileReports
    BY DEF FileReports
  <2> QED BY <2>1 DEF CopyInv, FilesInv, KeptInv
<1> QED BY <1>1, MonitorsInvariance, PTL

-----------------------------------------------------------------------------
(***************************************************************************)
(* Browsers, for every number of instances and visits: the workers of a    *)
(* visit are over before the next one begins, and no browser stays open.   *)
(***************************************************************************)

\* What an event of a browser carries.
CallInv ==
  call \in [BrowserUrl -> {NoCall} \cup Calls \cup {<<"status", s>> : s \in {"wininet", "http"}}]

\* The group is over when all its workers are done, and stays so.
WorkersInv == group.pc # "visiting" => \A u \in BrowserUrl : visit[u] = "done"

BrowsersInv == BrowsersTypeOK /\ CallInv /\ WorkersInv /\ NoBrowserOutlivesTheVisit

\* What a call can be, without its tuple.
LEMMA CallCases ==
  ASSUME CallInv, NEW u \in BrowserUrl
  PROVE  /\ call[u][1] = "before" => call[u][2] \in Pages
         /\ call[u][1] = "error" => call[u][3] \in {"wininet", "http"}
         /\ call[u][1] = "status" => call[u][2] \in {"wininet", "http"}
<1>1. call[u] \in {NoCall} \cup Calls \cup {<<"status", s>> : s \in {"wininet", "http"}}
  BY DEF CallInv
<1>2. CASE call[u] = NoCall
  BY <1>2 DEF NoCall
<1>3. CASE call[u] \in Calls
  BY <1>3 DEF Calls
<1>4. CASE call[u] \in {<<"status", s>> : s \in {"wininet", "http"}}
  BY <1>4
<1> QED BY <1>1, <1>2, <1>3, <1>4

Instance == [handle : Handle \cup {NoHandle}, main : {"empty"} \cup Pages,
             major : {"OK", "NETWORK_ERROR"}, minor : {"none", "wininet", "http"},
             pid : BrowserPid \cup {NoPid}]

\* One field of an instance is set.
LEMMA InstanceFields ==
  ASSUME NEW i \in Instance
  PROVE  /\ \A h \in Handle : [i EXCEPT !.handle = h] \in Instance
         /\ \A m \in Pages : [i EXCEPT !.main = m] \in Instance
         /\ [i EXCEPT !.major = "NETWORK_ERROR"] \in Instance
         /\ \A m \in {"wininet", "http"} : [i EXCEPT !.minor = m] \in Instance
         /\ \A p \in BrowserPid : [i EXCEPT !.pid = p] \in Instance
<1>1. \A h \in Handle : [i EXCEPT !.handle = h] \in Instance
  BY DEF Instance
<1>2. \A m \in Pages : [i EXCEPT !.main = m] \in Instance
  BY DEF Instance
<1>3. [i EXCEPT !.major = "NETWORK_ERROR"] \in Instance
  BY DEF Instance
<1>4. \A m \in {"wininet", "http"} : [i EXCEPT !.minor = m] \in Instance
  BY DEF Instance
<1>5. \A p \in BrowserPid : [i EXCEPT !.pid = p] \in Instance
  BY DEF Instance
<1> QED BY <1>1, <1>2, <1>3, <1>4, <1>5

LEMMA InstancesTyped == BrowsersTypeOK => instance \in [BrowserUrl -> Instance]
BY DEF BrowsersTypeOK, Instance

\* One instance is set.
LEMMA InstanceSet ==
  ASSUME BrowsersTypeOK, NEW u \in BrowserUrl, NEW i \in Instance,
         instance' = [instance EXCEPT ![u] = i]
  PROVE  instance' \in [BrowserUrl -> Instance]
BY InstancesTyped

LEMMA BrowsersStart == BrowsersInit => BrowsersInv
<1> SUFFICES ASSUME BrowsersInit PROVE BrowsersInv
  OBVIOUS
<1>1. BrowsersTypeOK
  BY DEF BrowsersInit, BrowsersTypeOK
<1>2. CallInv
  BY DEF BrowsersInit, CallInv
<1>3. WorkersInv /\ NoBrowserOutlivesTheVisit
  BY DEF BrowsersInit, WorkersInv, NoBrowserOutlivesTheVisit
<1> QED BY <1>1, <1>2, <1>3 DEF BrowsersInv

\* While the group is visited nothing is promised of its browsers.
LEMMA StillVisiting ==
  ASSUME group.pc = "visiting", group' = group
  PROVE  WorkersInv' /\ NoBrowserOutlivesTheVisit'
BY DEF WorkersInv, NoBrowserOutlivesTheVisit

\* A worker has something to do only while the group is visited.
LEMMA WorkerKeeps ==
  ASSUME BrowsersInv, NEW u \in BrowserUrl, WorkerStep(u)
  PROVE  BrowsersInv'
<1> USE DEF BrowsersInv
<1>1. \E from, to : Goes(u, from, to) /\ from # "done"
                      /\ to \in {"todo", "start", "attach", "wait", "close", "free", "done"}
  <2>1. CASE BeginVisit(u) \/ Navigate(u) \/ VisitEnds(u) \/ VisitTimesOut(u) \/ CloseProcess(u)
               \/ QuitWindow(u) \/ FreeHandle(u) \/ CreateInstance(u)
    BY <2>1 DEF BeginVisit, Navigate, VisitEnds, VisitTimesOut, CloseProcess, QuitWindow, FreeHandle,
                CreateInstance
  <2>2. CASE CannotStart(u)
    BY <2>2 DEF CannotStart
  <2>3. CASE ExecuteProcess(u)
    BY <2>3 DEF ExecuteProcess
  <2>4. CASE CannotListen(u)
    BY <2>4 DEF CannotListen
  <2> QED BY <2>1, <2>2, <2>3, <2>4 DEF WorkerStep
<1>2. /\ UNCHANGED <<plugin, call, group>>
  BY DEF WorkerStep, BeginVisit, Navigate, VisitEnds, VisitTimesOut, CloseProcess, QuitWindow,
         FreeHandle, CreateInstance, CannotStart, ExecuteProcess, CannotListen
<1>3. visit[u] # "done"
         /\ visit' \in [BrowserUrl -> {"todo", "start", "attach", "wait", "close", "free", "done"}]
  BY <1>1 DEF Goes, BrowsersTypeOK
<1>4. group.pc = "visiting"
  BY <1>3 DEF WorkersInv
<1>5. browser' \in [BrowserUrl -> {"none", "open", "ended"}]
  BY DEF WorkerStep, BeginVisit, Navigate, VisitEnds, VisitTimesOut, CloseProcess, QuitWindow,
         FreeHandle, CreateInstance, CannotStart, ExecuteProcess, CannotListen, BrowsersTypeOK
<1>6. page' \in [BrowserUrl -> {"deaf", "blank", "home", "target"}]
  BY DEF WorkerStep, BeginVisit, Navigate, VisitEnds, VisitTimesOut, CloseProcess, QuitWindow,
         FreeHandle, CreateInstance, CannotStart, ExecuteProcess, CannotListen, BrowsersTypeOK
<1>7. event' \in [Handle -> {"closed", "unset"} \cup BrowserUrl]
  BY DEF WorkerStep, BeginVisit, Navigate, VisitEnds, VisitTimesOut, CloseProcess, QuitWindow,
         FreeHandle, CreateInstance, CannotStart, ExecuteProcess, CannotListen, BrowsersTypeOK
<1>8. processHandles' \subseteq BrowserPid
  BY DEF WorkerStep, BeginVisit, Navigate, VisitEnds, VisitTimesOut, CloseProcess, QuitWindow,
         FreeHandle, CreateInstance, CannotStart, ExecuteProcess, CannotListen, BrowsersTypeOK
<1>9. instance' \in [BrowserUrl -> Instance]
  <2>1. \/ instance' = instance
        \/ \E i \in Instance : instance' = [instance EXCEPT ![u] = i]
    <3>1. \/ instance' = instance
          \/ \E h \in Handle : instance' = [instance EXCEPT ![u].handle = h]
          \/ \E p \in BrowserPid : instance' = [instance EXCEPT ![u].pid = p]
      BY DEF WorkerStep, BeginVisit, Navigate, VisitEnds, VisitTimesOut, CloseProcess, QuitWindow,
             FreeHandle, CreateInstance, CannotStart, ExecuteProcess, CannotListen
    <3>2. instance[u] \in Instance
      BY InstancesTyped
    <3> QED BY <3>1, <3>2, InstanceFields
  <2> QED BY <2>1, InstanceSet, InstancesTyped
<1>10. BrowsersTypeOK'
  BY <1>2, <1>3, <1>5, <1>6, <1>7, <1>8, <1>9 DEF BrowsersTypeOK, Instance
<1>11. CallInv'
  BY <1>2 DEF CallInv
<1> QED BY <1>2, <1>4, <1>10, <1>11, StillVisiting

\* A browser only ends by itself.
LEMMA FewerOpen ==
  ASSUME BrowsersInv, UNCHANGED <<visit, group>>,
         browser' = browser \/ \E u \in BrowserUrl : browser' = [browser EXCEPT ![u] = "ended"]
  PROVE  /\ WorkersInv' /\ NoBrowserOutlivesTheVisit'
         /\ browser' \in [BrowserUrl -> {"none", "open", "ended"}]
<1>1. browser' \in [BrowserUrl -> {"none", "open", "ended"}]
  BY DEF BrowsersInv, BrowsersTypeOK
<1>2. Open' \subseteq Open
  BY DEF Open, BrowsersInv, BrowsersTypeOK
<1> QED BY <1>1, <1>2 DEF BrowsersInv, WorkersInv, NoBrowserOutlivesTheVisit

LEMMA CallsKeep ==
  ASSUME BrowsersInv, NEW u \in BrowserUrl, NEW c \in Calls, BrowserCalls(u, c)
  PROVE  BrowsersInv'
<1>1. /\ UNCHANGED <<plugin, visit, instance, event, processHandles, group>>
      /\ browser' = browser \/ browser' = [browser EXCEPT ![u] = "ended"]
      /\ call' = [call EXCEPT ![u] = c]
      /\ page' = page \/ (c[1] = "before" /\ c[2] # "frame" /\ page' = [page EXCEPT ![u] = c[2]])
  BY DEF BrowserCalls
<1>2. c[1] = "before" => c[2] \in Pages
  BY DEF Calls
<1>3. page' \in [BrowserUrl -> {"deaf", "blank", "home", "target"}]
  BY <1>1, <1>2 DEF Pages, BrowsersInv, BrowsersTypeOK
<1>4. CallInv'
  BY <1>1 DEF BrowsersInv, CallInv
<1>5. /\ WorkersInv' /\ NoBrowserOutlivesTheVisit'
      /\ browser' \in [BrowserUrl -> {"none", "open", "ended"}]
  BY <1>1, FewerOpen
<1>6. BrowsersTypeOK'
  BY <1>1, <1>3, <1>5 DEF BrowsersInv, BrowsersTypeOK
<1> QED BY <1>4, <1>5, <1>6 DEF BrowsersInv

LEMMA CrashKeeps ==
  ASSUME BrowsersInv, NEW u \in BrowserUrl, BrowserCrashes(u)
  PROVE  BrowsersInv'
<1>1. /\ UNCHANGED <<plugin, visit, instance, page, call, event, processHandles, group>>
      /\ browser' = [browser EXCEPT ![u] = "ended"]
  BY DEF BrowserCrashes
<1>2. /\ WorkersInv' /\ NoBrowserOutlivesTheVisit'
      /\ browser' \in [BrowserUrl -> {"none", "open", "ended"}]
  BY <1>1, FewerOpen
<1> QED BY <1>1, <1>2 DEF BrowsersInv, BrowsersTypeOK, CallInv

LEMMA InvokeKeeps ==
  ASSUME BrowsersInv, NEW u \in BrowserUrl, Invoke(u)
  PROVE  BrowsersInv'
<1>1. /\ UNCHANGED <<plugin, visit, browser, page, processHandles, group>>
  BY DEF Invoke
<1>2. /\ \/ instance' = instance
         \/ \E m \in Pages : instance' = [instance EXCEPT ![u].main = IF @ = "empty" THEN m ELSE @]
         \/ instance' = [instance EXCEPT ![u].major = "NETWORK_ERROR"]
         \/ \E m \in {"wininet", "http"} : instance' = [instance EXCEPT ![u].minor = m]
      /\ \/ call' = [call EXCEPT ![u] = NoCall]
         \/ \E s \in {"wininet", "http"} : call' = [call EXCEPT ![u] = <<"status", s>>]
      /\ event' = event \/ Signal(u)
  BY CallCases DEF Invoke, BrowsersInv
<1>3. CallInv'
  BY <1>2 DEF CallInv, BrowsersInv
<1>4. event' \in [Handle -> {"closed", "unset"} \cup BrowserUrl]
  BY <1>2 DEF Signal, BrowsersInv, BrowsersTypeOK
<1>5. instance' \in [BrowserUrl -> Instance]
  <2>1. instance[u] \in Instance /\ BrowsersTypeOK
    BY InstancesTyped DEF BrowsersInv
  <2>2. \/ instance' = instance
        \/ \E i \in Instance : instance' = [instance EXCEPT ![u] = i]
    <3>1. CASE \E m \in Pages : instance' = [instance EXCEPT ![u].main = IF @ = "empty" THEN m ELSE @]
      <4>1. PICK m \in Pages : instance' = [instance EXCEPT ![u].main = IF @ = "empty" THEN m ELSE @]
        BY <3>1
      <4>2. CASE instance[u].main = "empty"
        <5>1. instance' = [instance EXCEPT ![u] = [instance[u] EXCEPT !.main = m]]
          BY <4>1, <4>2
        <5> QED BY <2>1, <5>1, InstanceFields
      <4>3. CASE instance[u].main # "empty"
        <5>1. instance' = [instance EXCEPT ![u] = [instance[u] EXCEPT !.main = instance[u].main]]
          BY <4>1, <4>3
        <5>2. [instance[u] EXCEPT !.main = instance[u].main] \in Instance
          BY <2>1 DEF Instance
        <5> QED BY <5>1, <5>2
      <4> QED BY <4>2, <4>3
    <3>2. CASE instance' = [instance EXCEPT ![u].major = "NETWORK_ERROR"]
      BY <2>1, <3>2, InstanceFields
    <3>3. CASE \E m \in {"wininet", "http"} : instance' = [instance EXCEPT ![u].minor = m]
      BY <2>1, <3>3, InstanceFields
    <3> QED BY <1>2, <3>1, <3>2, <3>3
  <2> QED BY <2>1, <2>2, InstanceSet, InstancesTyped
<1>6. BrowsersTypeOK'
  BY <1>1, <1>4, <1>5 DEF BrowsersInv, BrowsersTypeOK, Instance
<1>7. WorkersInv' /\ NoBrowserOutlivesTheVisit'
  BY <1>1, FewerOpen
<1> QED BY <1>3, <1>6, <1>7 DEF BrowsersInv

\* All browsers that were open are ended, or there is a warning.
LEMMA TerminationKeeps ==
  ASSUME BrowsersInv, Terminated(Open), \A u \in BrowserUrl : visit[u] = "done",
         UNCHANGED <<plugin, visit, instance, page, call, event, processHandles>>
  PROVE  BrowsersInv'
<1>1. PICK left \in SUBSET Open, warned \in BOOLEAN :
         /\ left # {} => warned
         /\ browser' = [u \in BrowserUrl |-> IF u \in Open \ left THEN "ended" ELSE browser[u]]
         /\ group' = [pc |-> "closed", warned |-> warned]
  BY DEF Terminated
<1>2. /\ browser' \in [BrowserUrl -> {"none", "open", "ended"}]
      /\ group' \in [pc : {"visiting", "closed", "done"}, warned : BOOLEAN]
  BY <1>1 DEF BrowsersInv, BrowsersTypeOK
<1>3. Open' \subseteq left
  BY <1>1 DEF Open, BrowsersInv, BrowsersTypeOK
<1>4. NoBrowserOutlivesTheVisit'
  BY <1>1, <1>3 DEF NoBrowserOutlivesTheVisit
<1>5. WorkersInv'
  BY DEF WorkersInv
<1> QED BY <1>2, <1>4, <1>5 DEF BrowsersInv, BrowsersTypeOK, CallInv

LEMMA DeletionKeeps == ASSUME BrowsersInv, DeleteInstances PROVE BrowsersInv'
<1>1. /\ UNCHANGED <<plugin, visit, instance, browser, page, call, event>>
      /\ group.pc = "closed" /\ group' = [group EXCEPT !.pc = "done"] /\ processHandles' = {}
  BY DEF DeleteInstances
<1>2. /\ group' \in [pc : {"visiting", "closed", "done"}, warned : BOOLEAN]
      /\ group'.warned = group.warned
  BY <1>1 DEF BrowsersInv, BrowsersTypeOK
<1>3. Open' = Open
  BY <1>1 DEF Open
<1> QED
  BY <1>1, <1>2, <1>3
  DEF BrowsersInv, BrowsersTypeOK, CallInv, WorkersInv, NoBrowserOutlivesTheVisit

LEMMA BrowsersStep == BrowsersInv /\ [BrowsersNext]_browserVars => BrowsersInv'
<1> SUFFICES ASSUME BrowsersInv, [BrowsersNext]_browserVars PROVE BrowsersInv'
  OBVIOUS
<1>1. ASSUME NEW u \in BrowserUrl, WorkerStep(u) PROVE BrowsersInv'
  BY <1>1, WorkerKeeps
<1>2. ASSUME NEW u \in BrowserUrl, Invoke(u) PROVE BrowsersInv'
  BY <1>2, InvokeKeeps
<1>3. ASSUME NEW u \in BrowserUrl, BrowserCrashes(u) PROVE BrowsersInv'
  BY <1>3, CrashKeeps
<1>4. ASSUME NEW u \in BrowserUrl, NEW c \in Calls, BrowserCalls(u, c) PROVE BrowsersInv'
  BY <1>4, CallsKeep
<1>5. CASE CloseAllProcesses \/ CloseAllWindows
  BY <1>5, TerminationKeeps DEF CloseAllProcesses, CloseAllWindows
<1>6. CASE DeleteInstances
  BY <1>6, DeletionKeeps
<1>7. CASE UNCHANGED browserVars
  BY <1>7
  DEF browserVars, BrowsersInv, BrowsersTypeOK, CallInv, WorkersInv, NoBrowserOutlivesTheVisit, Open
<1> QED BY <1>1, <1>2, <1>3, <1>4, <1>5, <1>6, <1>7 DEF BrowsersNext

(* The inductive invariant of the plug-ins holds in every reachable state.  *)
THEOREM BrowsersInvariance == BrowsersSpec => []BrowsersInv
BY BrowsersStart, BrowsersStep, PTL DEF BrowsersSpec

(* The type invariant of the two Internet Explorer plug-ins.                *)
THEOREM BrowsersTypeCorrect == BrowsersSpec => []BrowsersTypeOK
<1>1. BrowsersInv => BrowsersTypeOK
  BY DEF BrowsersInv
<1> QED BY <1>1, BrowsersInvariance, PTL

(* Whatever a worker left behind - a process without a window, a browser    *)
(* nobody listens to - is terminated at the end of visitGroup, or the       *)
(* answer to the server has a warning (closeAllInternetExplorers).          *)
THEOREM BrowsersAreClosed == BrowsersSpec => []NoBrowserOutlivesTheVisit
<1>1. BrowsersInv => NoBrowserOutlivesTheVisit
  BY DEF BrowsersInv
<1> QED BY <1>1, BrowsersInvariance, PTL

-----------------------------------------------------------------------------
(***************************************************************************)
(* Packet capture: the archive of a visit agrees with the verdict that is  *)
(* sent with it, and the thread that captures always has an open file.     *)
(***************************************************************************)

\* An operator of its own, which the provers need not look into.
PacketsWanted == options[IF verdict THEN "malicious" ELSE "benign"]

\* Packets come from captures, and for capturing there is a dumper.
DumperInv ==
  /\ options.malicious \/ options.benign => capturing
  /\ stage = "open" => capturing
  /\ "packets" \in logs \cup had => capturing

\* Nothing is sent of a visit before the analyzer decides to.
BeforeArchive == {"open", "running", "connect", "visiting", "exit", "close", "copy", "decide",
                  "malicious", "benign", "modified", "archive"}

ZipInv == stage \in BeforeArchive => zip = NoArchive

\* What the tests made so far have left of the logs.
LogsInv ==
  ~late =>
    /\ stage = "malicious" => logs = had
    /\ stage = "benign" =>
         logs = IF verdict /\ ~options.malicious /\ dumper THEN had \ {"packets"} ELSE had
    /\ stage = "modified" => logs = IF ~PacketsWanted /\ dumper THEN had \ {"packets"} ELSE had
    /\ stage = "archive" =>
         logs = {x \in had : IF x = "packets" THEN PacketsWanted ELSE verdict}
    /\ stage \in {"clean", "report"} =>
         /\ zip.sent <=> PacketsWanted \/ (verdict /\ options.collect)
         /\ zip.sent => zip.content = {x \in had : IF x = "packets" THEN PacketsWanted ELSE verdict}

\* Before a dump file is closed the thread that writes to it is gone.
ThreadInv ==
  /\ adapter.thread \notin {"none", "ended"} => dumpFile = "open"
  /\ stage = "close" => adapter.thread = "none"

CaptureInv == CaptureTypeOK /\ DumperInv /\ ZipInv /\ LogsInv /\ ThreadInv

LEMMA CaptureStart == CaptureInit => CaptureInv
<1> SUFFICES ASSUME CaptureInit PROVE CaptureInv
  OBVIOUS
<1>1. CaptureTypeOK
  BY DEF CaptureInit, CaptureTypeOK, NoArchive
<1>2. DumperInv /\ ZipInv /\ LogsInv /\ ThreadInv
  BY DEF CaptureInit, DumperInv, ZipInv, BeforeArchive, LogsInv, ThreadInv
<1> QED BY <1>1, <1>2 DEF CaptureInv

\* An option or the end of a callback while the analyzer decides makes it late.
LEMMA OptionKeeps ==
  ASSUME CaptureInv, NEW o \in DOMAIN options, NEW v \in BOOLEAN, CaptureOptionChanged(o, v)
  PROVE  CaptureInv'
<1> USE DEF CaptureInv, CaptureOptionChanged
<1>1. o \in {"malicious", "benign", "collect"}
  BY DEF CaptureTypeOK
<1>2. CaptureTypeOK'
  BY <1>1, ZenonT(60) DEF CaptureTypeOK, Verdicts
<1>3. DumperInv'
  <2>1. CASE o = "collect"
    BY <2>1, ZenonT(60) DEF CaptureTypeOK, DumperInv, Verdicts
  <2>2. CASE o = "malicious"
    BY <2>2, ZenonT(60) DEF CaptureTypeOK, DumperInv, Verdicts
  <2>3. CASE o = "benign"
    BY <2>3, ZenonT(60) DEF CaptureTypeOK, DumperInv, Verdicts
  <2> QED BY <1>1, <2>1, <2>2, <2>3
<1>4. ZipInv' /\ ThreadInv'
  BY DEF ZipInv, ThreadInv
<1>5. LogsInv'
  BY DEF LogsInv, Deciding
<1> QED BY <1>2, <1>3, <1>4, <1>5

LEMMA CaptureStep == CaptureInv /\ [CaptureNext]_captureVars => CaptureInv'
<1> SUFFICES ASSUME CaptureInv, [CaptureNext]_captureVars PROVE CaptureInv'
  OBVIOUS
<1> USE DEF CaptureInv, From
<1>1. ASSUME NEW o \in DOMAIN options, NEW v \in BOOLEAN, CaptureOptionChanged(o, v)
      PROVE  CaptureInv'
  BY <1>1, OptionKeeps
<1>2. CASE BeginCallback
  <2>1. CaptureTypeOK'
    BY <1>2 DEF BeginCallback, CaptureTypeOK
  <2>2. DumperInv'
    BY <1>2 DEF BeginCallback, CaptureTypeOK, DumperInv
  <2>3. ZipInv'
    BY <1>2 DEF BeginCallback, ZipInv
  <2>4. LogsInv'
    BY <1>2 DEF BeginCallback, LogsInv, PacketsWanted
  <2>5. ThreadInv'
    BY <1>2 DEF BeginCallback, ThreadInv
  <2> QED BY <2>1, <2>2, <2>3, <2>4, <2>5
<1>3. CASE EndCallback
  <2>1. CaptureTypeOK'
    BY <1>3, ZenonT(60) DEF EndCallback, CaptureTypeOK
  <2>2. DumperInv'
    BY <1>3 DEF EndCallback, CaptureTypeOK, DumperInv
  <2>3. ZipInv'
    BY <1>3 DEF EndCallback, ZipInv
  <2>4. LogsInv'
    BY <1>3 DEF EndCallback, LogsInv, PacketsWanted
  <2>5. ThreadInv'
    BY <1>3 DEF EndCallback, ThreadInv
  <2> QED BY <2>1, <2>2, <2>3, <2>4, <2>5
<1>4. CASE TestRunning
  <2>1. CaptureTypeOK'
    BY <1>4 DEF TestRunning, ThreadRest, CaptureTypeOK
  <2>2. DumperInv'
    BY <1>4 DEF TestRunning, ThreadRest, DumperInv
  <2>3. ZipInv'
    BY <1>4 DEF TestRunning, ThreadRest, ZipInv
  <2>4. LogsInv'
    BY <1>4 DEF TestRunning, ThreadRest, LogsInv, PacketsWanted
  <2>5. ThreadInv'
    BY <1>4 DEF TestRunning, ThreadRest, CaptureTypeOK, ThreadInv
  <2> QED BY <2>1, <2>2, <2>3, <2>4, <2>5
<1>5. CASE GetPacket \/ DumpPacket
  <2>1. CASE GetPacket
    <3>1. CaptureTypeOK'
      BY <2>1 DEF GetPacket, ThreadRest, CaptureTypeOK
    <3>2. DumperInv'
      BY <2>1 DEF GetPacket, ThreadRest, CaptureTypeOK, DumperInv, ThreadInv
    <3>3. ZipInv'
      BY <2>1 DEF GetPacket, ThreadRest, ZipInv
    <3>4. LogsInv'
      BY <2>1 DEF GetPacket, ThreadRest, CaptureTypeOK, LogsInv, PacketsWanted
    <3>5. ThreadInv'
      BY <2>1 DEF GetPacket, ThreadRest, CaptureTypeOK, ThreadInv
    <3> QED BY <3>1, <3>2, <3>3, <3>4, <3>5
  <2>2. CASE DumpPacket
    <3>1. CaptureTypeOK'
      BY <2>2 DEF DumpPacket, ThreadRest, CaptureTypeOK
    <3>2. DumperInv'
      BY <2>2 DEF DumpPacket, ThreadRest, CaptureTypeOK, DumperInv, ThreadInv
    <3>3. ZipInv'
      BY <2>2 DEF DumpPacket, ThreadRest, ZipInv
    <3>4. LogsInv'
      BY <2>2 DEF DumpPacket, ThreadRest, CaptureTypeOK, LogsInv, PacketsWanted
    <3>5. ThreadInv'
      BY <2>2 DEF DumpPacket, ThreadRest, CaptureTypeOK, ThreadInv
    <3> QED BY <3>1, <3>2, <3>3, <3>4, <3>5
  <2> QED BY <1>5, <2>1, <2>2
<1>6. CASE StartAnalyzer
  <2>1. CaptureTypeOK'
    BY <1>6, ZenonT(60) DEF StartAnalyzer, NoArchive, CaptureTypeOK
  <2>2. DumperInv'
    BY <1>6 DEF StartAnalyzer, CaptureTypeOK, DumperInv
  <2>3. ZipInv'
    BY <1>6 DEF StartAnalyzer, ZipInv
  <2>4. LogsInv'
    BY <1>6 DEF StartAnalyzer, LogsInv
  <2>5. ThreadInv'
    BY <1>6 DEF StartAnalyzer, ThreadInv
  <2> QED BY <2>1, <2>2, <2>3, <2>4, <2>5
<1>7. CASE OpenDump
  <2>1. CaptureTypeOK'
    BY <1>7 DEF OpenDump, CaptureTypeOK
  <2>2. DumperInv' /\ ZipInv' /\ LogsInv' /\ ThreadInv'
    BY <1>7 DEF OpenDump, CaptureTypeOK, DumperInv, ZipInv, BeforeArchive, LogsInv, ThreadInv
  <2> QED BY <2>1, <2>2
<1>8. CASE SetRunning
  BY <1>8, ZenonT(60) DEF SetRunning, CaptureTypeOK, DumperInv, ZipInv, BeforeArchive, LogsInv, ThreadInv
<1>9. CASE ConnectCallbacks
  BY <1>9 DEF ConnectCallbacks, CaptureTypeOK, DumperInv, ZipInv, BeforeArchive, LogsInv, ThreadInv
<1>10. CASE StopAnalyzer
  BY <1>10 DEF StopAnalyzer, CaptureTypeOK, DumperInv, ZipInv, BeforeArchive, LogsInv, ThreadInv
<1>11. CASE ExitThread
  BY <1>11 DEF ExitThread, CaptureTypeOK, DumperInv, ZipInv, BeforeArchive, LogsInv, ThreadInv
<1>12. CASE CloseDump
  BY <1>12, ZenonT(60)
  DEF CloseDump, CaptureTypeOK, DumperInv, ZipInv, BeforeArchive, LogsInv, ThreadInv
<1>13. CASE CopyModified
  BY <1>13 DEF CopyModified, Decision, CaptureTypeOK, DumperInv, ZipInv, BeforeArchive, LogsInv,
               ThreadInv
<1>14. CASE Decide
  <2>1. CaptureTypeOK' /\ DumperInv' /\ ThreadInv'
    BY <1>14 DEF Decide, CaptureTypeOK, DumperInv, ThreadInv
  <2>2. ZipInv' /\ zip' = NoArchive
    BY <1>14 DEF Decide, ZipInv, BeforeArchive
  <2>3. LogsInv'
    BY <1>14, <2>2 DEF Decide, LogsInv, PacketsWanted, NoArchive, DumperInv, CaptureTypeOK
  <2> QED BY <2>1, <2>2, <2>3
<1>15. CASE DeleteIfMalicious
  <2>1. CaptureTypeOK' /\ DumperInv' /\ ThreadInv' /\ ZipInv'
    BY <1>15 DEF DeleteIfMalicious, Decision, CaptureTypeOK, DumperInv, ThreadInv, ZipInv,
                 BeforeArchive
  <2>2. LogsInv'
    BY <1>15 DEF DeleteIfMalicious, Decision, LogsInv
  <2> QED BY <2>1, <2>2
<1>16. CASE DeleteIfBenign
  <2>1. CaptureTypeOK' /\ DumperInv' /\ ThreadInv' /\ ZipInv'
    BY <1>16 DEF DeleteIfBenign, Decision, CaptureTypeOK, DumperInv, ThreadInv, ZipInv,
                 BeforeArchive
  <2>2. LogsInv'
    BY <1>16 DEF DeleteIfBenign, Decision, LogsInv, PacketsWanted, CaptureTypeOK
  <2> QED BY <2>1, <2>2
<1>17. CASE DeleteModified
  <2>1. CaptureTypeOK' /\ DumperInv' /\ ThreadInv' /\ ZipInv'
    BY <1>17 DEF DeleteModified, Decision, CaptureTypeOK, DumperInv, ThreadInv, ZipInv,
                 BeforeArchive
  <2>2. "packets" \in had => dumper
    BY DEF DumperInv, CaptureTypeOK
  <2>3. LogsInv'
    BY <1>17, <2>2, ZenonT(60) DEF DeleteModified, Decision, LogsInv, PacketsWanted, CaptureTypeOK
  <2> QED BY <2>1, <2>3
<1>18. CASE SendArchive
  <2>1. /\ zip'.sent = (PacketsWanted \/ (verdict /\ options.collect))
        /\ zip'.sent => zip'.content = logs
    BY <1>18 DEF SendArchive, NoArchive, PacketsWanted, CaptureTypeOK
  <2>2. CaptureTypeOK'
    BY <1>18 DEF SendArchive, NoArchive, CaptureTypeOK
  <2>3. DumperInv' /\ ThreadInv' /\ ZipInv'
    BY <1>18 DEF SendArchive, DumperInv, ThreadInv, ZipInv, BeforeArchive
  <2>4. LogsInv'
    BY <1>18, <2>1 DEF SendArchive, LogsInv, PacketsWanted
  <2> QED BY <2>2, <2>3, <2>4
<1>19. CASE DeleteLogs
  BY <1>19 DEF DeleteLogs, Decision, CaptureTypeOK, DumperInv, ZipInv, BeforeArchive, LogsInv,
               PacketsWanted, ThreadInv
<1>20. CASE ReportVerdict
  BY <1>20 DEF ReportVerdict, CaptureTypeOK, DumperInv, ZipInv, BeforeArchive, LogsInv, ThreadInv
<1>21. CASE StopAgain
  BY <1>21 DEF StopAgain, NoArchive, CaptureTypeOK, DumperInv, ZipInv, LogsInv, ThreadInv
<1>22. CASE UNCHANGED captureVars
  BY <1>22 DEF captureVars, CaptureTypeOK, DumperInv, ZipInv, LogsInv, PacketsWanted, ThreadInv
<1> QED
  BY <1>1, <1>2, <1>3, <1>4, <1>5, <1>6, <1>7, <1>8, <1>9, <1>10, <1>11, <1>12, <1>13, <1>14,
     <1>15, <1>16, <1>17, <1>18, <1>19, <1>20, <1>21, <1>22 DEF CaptureNext

LEMMA CaptureInvariance == CaptureSpec => []CaptureInv
BY CaptureStart, CaptureStep, PTL DEF CaptureSpec

(* What is sent of a visit follows its verdict and the options, however    *)
(* events, options, the capturing thread and Analyzer.stop interleave.     *)
THEOREM ArchiveIsRight == CaptureSpec => []ArchiveFollowsVerdict
<1>1. CaptureInv => ArchiveFollowsVerdict
  BY DEF CaptureInv, LogsInv, PacketsWanted, ArchiveFollowsVerdict
<1> QED BY <1>1, CaptureInvariance, PTL

(* The thread that captures never has a packet for a closed dump file.     *)
THEOREM PacketsHaveAFile == CaptureSpec => []DumpIsOpenForPackets
<1>1. CaptureInv => DumpIsOpenForPackets
  BY DEF CaptureInv, ThreadInv, DumpIsOpenForPackets
<1> QED BY <1>1, CaptureInvariance, PTL
-----------------------------------------------------------------------------
(* The parts together.                                                     *)

(* The types of the options, the capturing thread and the archive.         *)
LEMMA CaptureTypeCorrect == CaptureSpec => []CaptureTypeOK
<1>1. CaptureInv => CaptureTypeOK
  BY DEF CaptureInv
<1> QED BY <1>1, CaptureInvariance, PTL

(* A behaviour of the parts together is one of each of them: a part        *)
(* stutters unless it is the one whose steps are taken.                    *)
LEMMA PartsAreThemselves ==
  PartsSpec => /\ AttributionSpec /\ DatabaseSpec /\ UploadSpec /\ ExclusionsSpec
               /\ MonitorsSpec /\ BrowsersSpec /\ CaptureSpec
<1>1. PartsInit => /\ AttributionInit /\ DatabaseInit /\ UploadInit /\ ExclusionsInit
                   /\ MonitorsInit /\ BrowsersInit /\ CaptureInit
  BY DEF PartsInit
<1>2. ASSUME [PartsNext]_partsVars
      PROVE  /\ [AttributionNext]_attributionVars /\ [DatabaseNext]_databaseVars /\ [UploadNext]_uploadVars
             /\ [ExclusionsNext]_exclusionVars /\ [MonitorsNext]_monitoringVars
             /\ [BrowsersNext]_browserVars /\ [CaptureNext]_captureVars
  <2>1. CASE PartsNext
    <3>1. hostVars' = hostVars => attributionVars' = attributionVars /\ databaseVars' = databaseVars
      BY DEF hostVars
    <3>2. guestVars' = guestVars => /\ uploadVars' = uploadVars /\ exclusionVars' = exclusionVars
                                    /\ monitoringVars' = monitoringVars /\ browserVars' = browserVars
                                    /\ captureVars' = captureVars
      BY DEF guestVars
    <3> QED BY <2>1, <3>1, <3>2, Zenon DEF PartsNext, OnServer, OnClient
  <2>2. CASE UNCHANGED partsVars
    BY <2>2 DEF partsVars, hostVars, guestVars
  <2> QED BY <1>2, <2>1, <2>2
<1>3. [PartsNext]_partsVars =>
        /\ [AttributionNext]_attributionVars /\ [DatabaseNext]_databaseVars /\ [UploadNext]_uploadVars
        /\ [ExclusionsNext]_exclusionVars /\ [MonitorsNext]_monitoringVars
        /\ [BrowsersNext]_browserVars /\ [CaptureNext]_captureVars
  BY <1>2
<1> QED BY <1>1, <1>3, PTL DEF PartsSpec, AttributionSpec, DatabaseSpec, UploadSpec, ExclusionsSpec, MonitorsSpec,
                               BrowsersSpec, CaptureSpec

(* The types of the variables of the parts as MCParts puts them together:  *)
(* each is started as in the code, and they share no state.                *)
THEOREM PartsTypeCorrect == PartsSpec => []PartsTypeOK
<1>1. /\ AttributionTypeOK /\ DatabaseTypeOK /\ UploadTypeOK /\ ExclusionsTypeOK /\ MonitorsTypeOK
      /\ BrowsersTypeOK /\ CaptureTypeOK
      => PartsTypeOK
  BY DEF PartsTypeOK
<1> QED BY <1>1, PartsAreThemselves, AttributionTypeCorrect, DatabaseTypeCorrect, UploadsTypeCorrect,
           ExclusionsTypeCorrect, MonitorsTypeCorrect, BrowsersTypeCorrect, CaptureTypeCorrect, PTL

(* The parts keep in MCParts, which the run checks on one instance, what   *)
(* each is proved to keep for itself, for every instance: the blame is     *)
(* with the right URL, no job is forgotten and no verdict withdrawn,       *)
(* uploads arrive whole, verdicts on events have a reason, reported files  *)
(* are copied, threads of deleted monitors and browsers of visits are      *)
(* gone, and the archive follows the verdict.                              *)
THEOREM PartsKeepTheirPromises ==
  PartsSpec =>
    /\ []BlameIsRight /\ []NoJobIsForgotten /\ []UploadsAreWhole /\ []VerdictHasAReason
    /\ []ReportedFilesAreCopied /\ []StoppedThreadsAreGone /\ []NoBrowserOutlivesTheVisit
    /\ []ArchiveFollowsVerdict /\ VerdictsAreKept
BY PartsAreThemselves, BlameIsAlwaysRight, JobsAreNotForgotten, UploadsArriveWhole, VerdictsHaveReasons,
   ReportedFilesKept, DeletedMonitorsAreQuiet, BrowsersAreClosed, ArchiveIsRight, StatusesAreKept, PTL
=============================================================================
