--------------------------- MODULE UrlGroupsProofs ---------------------------
(***************************************************************************)
(* Proofs about UrlGroups, for every number of URLs, groups and sessions:  *)
(* type correctness, that a group sits in the deque at most once and is    *)
(* handed out at most twice, that a failed group is visited again unless   *)
(* it was split, that a split leaves every URL to a smaller group, that no *)
(* URL is lost, and that the verdicts say what the clients saw.            *)
(***************************************************************************)
EXTENDS UrlGroups, FiniteSetTheorems, TLAPS

-----------------------------------------------------------------------------
(* Sequences used as a stack                                               *)

Elems(q) == {q[i] : i \in DOMAIN q}

NoDuplicates(q) == \A i, j \in DOMAIN q : q[i] = q[j] => i = j

LEMMA PushElems ==
  ASSUME NEW S, NEW q \in Seq(S), NEW x \in S
  PROVE  /\ Push(x, q) \in Seq(S)
         /\ Elems(Push(x, q)) = Elems(q) \cup {x}
         /\ NoDuplicates(q) /\ x \notin Elems(q) => NoDuplicates(Push(x, q))
<1> DEFINE p == Push(x, q)
<1>1. /\ p \in Seq(S) /\ Len(p) = Len(q) + 1 /\ p[1] = x
      /\ \A i \in 1 .. Len(q) : p[i + 1] = q[i]
  BY DEF Push
<1>2. DOMAIN q = 1 .. Len(q) /\ DOMAIN p = 1 .. Len(q) + 1 /\ Len(q) \in Nat
  BY <1>1
<1>3. \A i \in DOMAIN p : i = 1 \/ (i - 1 \in DOMAIN q /\ p[i] = q[i - 1])
  BY <1>1, <1>2
<1> HIDE DEF p
<1>4. Elems(p) = Elems(q) \cup {x}
  <2>1. \A e \in Elems(p) : e \in Elems(q) \cup {x}
    BY <1>1, <1>3 DEF Elems
  <2>2. x \in Elems(p)
    BY <1>1, <1>2 DEF Elems
  <2>3. \A e \in Elems(q) : e \in Elems(p)
    BY <1>1, <1>2 DEF Elems
  <2> QED BY <2>1, <2>2, <2>3
<1>5. ASSUME NoDuplicates(q), x \notin Elems(q), NEW i \in DOMAIN p,
             NEW j \in DOMAIN p, p[i] = p[j]
      PROVE  i = j
  <2>1. \A k \in DOMAIN q : q[k] # x
    BY <1>5 DEF Elems
  <2>2. CASE i = 1 \/ j = 1
    BY <2>1, <2>2, <1>1, <1>3, <1>5
  <2>3. CASE i # 1 /\ j # 1
    <3>1. i - 1 \in DOMAIN q /\ j - 1 \in DOMAIN q /\ q[i - 1] = q[j - 1]
      BY <2>3, <1>3, <1>5
    <3>2. i - 1 = j - 1
      BY <3>1, <1>5 DEF NoDuplicates
    <3> QED BY <3>2, <1>2
  <2> QED BY <2>2, <2>3
<1> QED BY <1>1, <1>4, <1>5 DEF p, NoDuplicates

LEMMA TailElems ==
  ASSUME NEW S, NEW q \in Seq(S), q # <<>>, NoDuplicates(q)
  PROVE  /\ Head(q) \in S /\ Head(q) \in Elems(q)
         /\ Tail(q) \in Seq(S)
         /\ NoDuplicates(Tail(q))
         /\ Elems(Tail(q)) = Elems(q) \ {Head(q)}
<1> DEFINE t == Tail(q)
<1>1. /\ t \in Seq(S) /\ Len(t) = Len(q) - 1 /\ Head(q) = q[1] /\ Len(q) \in Nat \ {0}
      /\ \A i \in 1 .. Len(t) : t[i] = q[i + 1]
  OBVIOUS
<1>2. DOMAIN q = 1 .. Len(q) /\ DOMAIN t = 1 .. Len(t) /\ 1 \in DOMAIN q
  BY <1>1
<1> HIDE DEF t
<1>3. \A i \in DOMAIN t : i + 1 \in DOMAIN q /\ t[i] = q[i + 1] /\ i + 1 # 1
  BY <1>1, <1>2
<1>4. \A i \in DOMAIN q : i = 1 \/ (i - 1 \in DOMAIN t /\ t[i - 1] = q[i])
  BY <1>1, <1>2
<1>5. Head(q) \in S /\ Head(q) \in Elems(q)
  BY <1>1, <1>2 DEF Elems
<1>6. NoDuplicates(t)
  <2> SUFFICES ASSUME NEW i \in DOMAIN t, NEW j \in DOMAIN t, t[i] = t[j]
               PROVE  i = j
    BY DEF NoDuplicates
  <2>1. i + 1 = j + 1
    BY <1>3 DEF NoDuplicates
  <2> QED BY <2>1, <1>2
<1>7. \A e \in Elems(t) : e \in Elems(q) /\ e # Head(q)
  <2> SUFFICES ASSUME NEW i \in DOMAIN t
               PROVE  t[i] \in Elems(q) /\ t[i] # Head(q)
    BY DEF Elems
  <2>1. i + 1 \in DOMAIN q /\ t[i] = q[i + 1] /\ i + 1 # 1
    BY <1>3
  <2>2. q[i + 1] # q[1]
    BY <2>1, <1>2 DEF NoDuplicates
  <2> QED BY <2>1, <2>2, <1>1 DEF Elems
<1>8. \A e \in Elems(q) : e # Head(q) => e \in Elems(t)
  BY <1>1, <1>4 DEF Elems
<1> QED BY <1>1, <1>5, <1>6, <1>7, <1>8 DEF t

-----------------------------------------------------------------------------
(* The inductive invariant                                                 *)

\* A group that never failed is handed out once, any other group twice.
Turns(g) == IF group[g].errorCount = 0 THEN 1 ELSE 2

\* A group in the deque has a turn left, a failed one has had its first, and
\* an identity that is not in use has had none.
GroupTurns(g) ==
  /\ handed[g] <= Turns(g)
  /\ g \in Elems(groupQueue) => handed[g] < Turns(g)
  /\ group[g].errorCount > 0 => handed[g] > 0
  /\ Unused(g) => handed[g] = 0 /\ group[g].errorCount = 0 /\ g \notin Elems(groupQueue)

QueueInv == NoDuplicates(groupQueue) /\ \A g \in Group : GroupTurns(g)

\* The group of a session has been handed out.
SessionInv ==
  \A s \in Session :
    /\ session[s].pc \in {"held", "visiting", "deaf"} => session[s].group \in Group
    /\ session[s].group \in Group => handed[session[s].group] > 0

IInv == TypeOK /\ QueueInv /\ SessionInv

-----------------------------------------------------------------------------
(* The operators of Url and UrlGroup keep the types                        *)

LEMMA SetUrlStatesType ==
  ASSUME TypeOK, NEW us \in [Urls -> UrlRecord],
         NEW D \in SUBSET Urls, NEW target \in [D -> UrlState],
         SetUrlStates(us, target)
  PROVE  /\ url' \in [Urls -> UrlRecord]
         /\ log' \in [safe : SUBSET Urls, malicious : SUBSET Urls, error : SUBSET Urls]
<1>1. \A u \in Urls : us[u] \in UrlRecord
  OBVIOUS
<1>2. \A u \in D : [us[u] EXCEPT !.state = target[u]] \in UrlRecord
  BY <1>1 DEF UrlRecord
<1>3. url' \in [Urls -> UrlRecord]
  BY <1>1, <1>2 DEF SetUrlStates
<1>4. log' \in [safe : SUBSET Urls, malicious : SUBSET Urls, error : SUBSET Urls]
  BY DEF SetUrlStates, TypeOK
<1> QED BY <1>3, <1>4

LEMMA SetMaliciousType ==
  ASSUME NEW us \in [Urls -> UrlRecord], NEW gr, NEW alg, NEW mal, NEW noMap, NEW csv
  PROVE  SetMalicious(us, gr, alg, mal, noMap, csv) \in [Urls -> UrlRecord]
<1>1. \A u \in Urls : \A v \in {us[u].malicious, "true", "false"} :
        [us[u] EXCEPT !.malicious = v] \in UrlRecord
  BY DEF UrlRecord
<1> QED BY <1>1 DEF SetMalicious

LEMMA SetCodesType ==
  ASSUME NEW us \in [Urls -> UrlRecord], NEW bad, NEW code \in Codes \cup {OK}
  PROVE  SetCodes(us, bad, code) \in [Urls -> UrlRecord]
<1>1. \A u \in Urls : [us[u] EXCEPT !.code = code] \in UrlRecord
  BY DEF UrlRecord
<1> QED BY <1>1 DEF SetCodes

LEMMA ReportedCodesType ==
  ASSUME url \in [Urls -> UrlRecord], NEW urls, NEW bad, NEW c \in Codes
  PROVE  ReportedCodes(urls, bad, c) \in [Urls -> UrlRecord]
BY SetCodesType DEF ReportedCodes

\* Both halves of a group of several URLs have URLs.
LEMMA Halves ==
  ASSUME NEW us \in SUBSET Urls, Cardinality(us) > 1,
         NEW first \in SUBSET us, Cardinality(first) = Cardinality(us) \div 2
  PROVE  first # {} /\ us \ first # {}
<1>1. IsFiniteSet(us) /\ IsFiniteSet(first)
  BY ConstantsAssumption, FS_Subset
<1>2. Cardinality(us) \in Nat /\ Cardinality({}) = 0
  BY <1>1, FS_CardinalityType, FS_EmptySet
<1>3. Cardinality(us) \div 2 # 0 /\ Cardinality(us) \div 2 # Cardinality(us)
  BY <1>2
<1>4. first # {}
  BY <1>2, <1>3
<1>5. first # us
  BY <1>3
<1> QED BY <1>4, <1>5

-----------------------------------------------------------------------------
(* The two ways a group's turn ends                                        *)

\* What setUrlGroupState needs of the group and of the record it is given.
GivenGroup(g, gr) ==
  /\ g \in Group /\ handed[g] > 0
  /\ gr \in GroupRecord
  /\ gr.urls = group[g].urls /\ gr.errorCount = group[g].errorCount

\* The part of the invariant that the state of a group is about.
GroupInv ==
  /\ url \in [Urls -> UrlRecord]
  /\ log \in [safe : SUBSET Urls, malicious : SUBSET Urls, error : SUBSET Urls]
  /\ group \in [Group -> GroupRecord]
  /\ groupQueue \in Seq(Group)
  /\ visiting \in [Group -> Nat]
  /\ QueueInv

LEMMA PushHalvesKeeps ==
  ASSUME TypeOK, QueueInv, NEW g, NEW groups,
         g \in Group, handed[g] > 0,
         groups \in [Group -> GroupRecord],
         \A h \in Group \ {g} : groups[h] = group[h],
         groups[g].urls = group[g].urls,
         group[g].errorCount > 0 => groups[g].errorCount > 0,
         Cardinality(groups[g].urls) > 1,
         PushHalves(g, groups), handed' = handed
  PROVE  /\ group' \in [Group -> GroupRecord]
         /\ groupQueue' \in Seq(Group)
         /\ QueueInv'
<1>1. PICK first \in SUBSET groups[g].urls, g1 \in {x \in Group : Unused(x)},
           g2 \in {x \in Group : Unused(x)} :
        /\ Cardinality(first) = Cardinality(groups[g].urls) \div 2
        /\ g1 # g2
        /\ group' = [groups EXCEPT ![g1] = NewGroup(first),
                                   ![g2] = NewGroup(groups[g].urls \ first)]
        /\ groupQueue' = Push(g2, Push(g1, groupQueue))
  BY DEF PushHalves
<1>2. groups[g].urls \in SUBSET Urls
  BY DEF GroupRecord
<1>3. first # {} /\ groups[g].urls \ first # {}
  BY <1>1, <1>2, Halves
<1>4. g # g1 /\ g # g2
  BY DEF QueueInv, GroupTurns
<1>5. /\ g1 \in Group /\ g1 \notin Elems(groupQueue) /\ handed[g1] = 0
      /\ g2 \in Group /\ g2 \notin Elems(groupQueue) /\ handed[g2] = 0
  BY DEF QueueInv, GroupTurns
<1>6. NewGroup(first) \in GroupRecord /\ NewGroup(groups[g].urls \ first) \in GroupRecord
  BY <1>2 DEF NewGroup, GroupRecord, GroupState
<1>7. group' \in [Group -> GroupRecord]
  BY <1>1, <1>6
<1>8. /\ group'[g1] = NewGroup(first) /\ group'[g2] = NewGroup(groups[g].urls \ first)
      /\ group'[g] = groups[g]
      /\ \A h \in Group \ {g, g1, g2} : group'[h] = group[h]
  BY <1>1, <1>4, <1>5
<1>9. groupQueue \in Seq(Group)
  BY DEF TypeOK
<1> DEFINE q1 == Push(g1, groupQueue)
<1>10. q1 \in Seq(Group) /\ Elems(q1) = Elems(groupQueue) \cup {g1} /\ NoDuplicates(q1)
  BY <1>5, <1>9, PushElems DEF QueueInv
<1>11. /\ groupQueue' \in Seq(Group)
       /\ Elems(groupQueue') = Elems(groupQueue) \cup {g1, g2}
       /\ NoDuplicates(groupQueue')
  <2>1. groupQueue' = Push(g2, q1) /\ g1 # g2 /\ g2 \in Group
    BY <1>1, <1>5
  <2> HIDE DEF q1
  <2>2. g2 \notin Elems(q1)
    BY <1>5, <1>10, <2>1
  <2>3. /\ Push(g2, q1) \in Seq(Group)
        /\ Elems(Push(g2, q1)) = Elems(q1) \cup {g2}
        /\ NoDuplicates(Push(g2, q1))
    <3>1. q1 \in Seq(Group) /\ g2 \in Group
      BY <1>10, <2>1
    <3>2. NoDuplicates(q1) /\ g2 \notin Elems(q1)
      BY <1>10, <2>2
    <3> QED BY <3>1, <3>2, PushElems
  <2> QED BY <1>10, <2>1, <2>3
<1>12. ASSUME NEW h \in Group PROVE GroupTurns(h)'
  <2>1. GroupTurns(h) /\ handed[h] \in Nat /\ group[h].errorCount \in Nat
    BY DEF QueueInv, TypeOK, GroupRecord
  <2>2. CASE h = g1 \/ h = g2
    <3>1. group'[h].urls # {} /\ group'[h].errorCount = 0 /\ handed'[h] = 0
      BY <2>2, <1>3, <1>5, <1>8 DEF NewGroup
    <3> QED BY <3>1 DEF GroupTurns, Turns, Unused
  <2>3. CASE h = g
    <3>1. group'[h].urls = group[h].urls /\ group'[h].errorCount \in Nat
          /\ (group[h].errorCount > 0 => group'[h].errorCount > 0)
      BY <2>3, <1>8 DEF GroupRecord
    <3>2. h \in Elems(groupQueue') => h \in Elems(groupQueue)
      BY <2>3, <1>4, <1>11
    <3>3. ~Unused(h)
      BY <2>1, <2>3 DEF GroupTurns
    <3> QED BY <2>1, <2>3, <3>1, <3>2, <3>3 DEF GroupTurns, Turns, Unused
  <2>4. CASE h \notin {g, g1, g2}
    BY <2>1, <2>4, <1>8, <1>11 DEF GroupTurns, Turns, Unused
  <2> QED BY <2>2, <2>3, <2>4
<1> QED BY <1>7, <1>11, <1>12 DEF QueueInv

LEMMA RemoveVisitingType ==
  ASSUME NEW g \in Group, visiting \in [Group -> Nat], RemoveVisiting(g)
  PROVE  visiting' \in [Group -> Nat]
<1>1. \A n \in Nat : (IF n = 0 THEN 0 ELSE n - 1) \in Nat
  OBVIOUS
<1> QED BY <1>1 DEF RemoveVisiting

LEMMA BecomeVisitedKeeps ==
  ASSUME TypeOK, QueueInv, NEW g, NEW gr, NEW us \in [Urls -> UrlRecord],
         GivenGroup(g, gr), BecomeVisited(g, gr, us), handed' = handed
  PROVE  GroupInv'
<1> DEFINE groups == [group EXCEPT ![g] = [gr EXCEPT !.state = "VISITED"]]
           target == [u \in gr.urls |-> IF us[u].code = OK THEN "VISITED" ELSE "ERROR"]
<1>1. gr.urls \in SUBSET Urls /\ target \in [gr.urls -> UrlState]
  BY DEF GivenGroup, GroupRecord, UrlState
<1>2. SetUrlStates(us, target) /\ RemoveVisiting(g)
  BY DEF BecomeVisited
<1>3. /\ url' \in [Urls -> UrlRecord]
      /\ log' \in [safe : SUBSET Urls, malicious : SUBSET Urls, error : SUBSET Urls]
  <2> HIDE DEF target
  <2> QED BY <1>1, <1>2, SetUrlStatesType
<1>4. visiting' \in [Group -> Nat]
  BY <1>2, RemoveVisitingType DEF GivenGroup, TypeOK
<1>5. [gr EXCEPT !.state = "VISITED"] \in GroupRecord
  BY DEF GivenGroup, GroupRecord, GroupState
<1>6. /\ groups \in [Group -> GroupRecord]
      /\ \A h \in Group \ {g} : groups[h] = group[h]
      /\ groups[g].urls = gr.urls /\ groups[g].errorCount = gr.errorCount
  BY <1>5 DEF GivenGroup, TypeOK, GroupRecord
<1>7. group' \in [Group -> GroupRecord] /\ groupQueue' \in Seq(Group) /\ QueueInv'
  <2>1. CASE Splits(gr) /\ PushHalves(g, groups)
    <3>1. Cardinality(groups[g].urls) > 1
      BY <2>1, <1>6 DEF Splits
    <3>2. gr.errorCount = group[g].errorCount /\ gr.urls = group[g].urls
      BY DEF GivenGroup
    <3> HIDE DEF groups
    <3> QED BY <2>1, <3>1, <3>2, <1>6, PushHalvesKeeps DEF GivenGroup
  <2>2. CASE group' = groups /\ groupQueue' = groupQueue
    <3>1. \A h \in Group : group'[h].urls = group[h].urls
                           /\ group'[h].errorCount = group[h].errorCount
      BY <2>2, <1>6 DEF GivenGroup
    <3>2. \A h \in Group : GroupTurns(h)'
      BY <2>2, <3>1 DEF QueueInv, GroupTurns, Turns, Unused
    <3> QED BY <2>2, <3>2, <1>6 DEF TypeOK, QueueInv
  <2> QED BY <2>1, <2>2 DEF BecomeVisited
<1> QED BY <1>3, <1>4, <1>7 DEF GroupInv

LEMMA BecomeErrorKeeps ==
  ASSUME TypeOK, QueueInv, NEW g, NEW gr, NEW us \in [Urls -> UrlRecord],
         GivenGroup(g, gr), BecomeError(g, gr, us), handed' = handed
  PROVE  GroupInv'
<1> DEFINE errors == Least(gr.errorCount + 1, ErrorCap)
           groups == [group EXCEPT ![g] = [gr EXCEPT !.state = "ERROR",
                                                     !.errorCount = errors]]
           target == [u \in gr.urls |-> "ERROR"]
<1>1. gr.urls \in SUBSET Urls /\ gr.code \in Codes \cup {OK} /\ gr.errorCount \in Nat
      /\ target \in [gr.urls -> UrlState]
  BY DEF GivenGroup, GroupRecord, UrlState
<1>2. SetUrlStates(SetCodes(us, gr.urls, gr.code), target) /\ RemoveVisiting(g)
  BY DEF BecomeError
<1>3. /\ url' \in [Urls -> UrlRecord]
      /\ log' \in [safe : SUBSET Urls, malicious : SUBSET Urls, error : SUBSET Urls]
  <2>1. SetCodes(us, gr.urls, gr.code) \in [Urls -> UrlRecord]
    BY <1>1, SetCodesType
  <2> HIDE DEF target
  <2> QED BY <1>1, <1>2, <2>1, SetUrlStatesType
<1>4. visiting' \in [Group -> Nat]
  BY <1>2, RemoveVisitingType DEF GivenGroup, TypeOK
<1>5. errors \in Nat /\ errors >= 1 /\ (errors <= 1 => gr.errorCount = 0)
  BY <1>1, ConstantsAssumption DEF Least
<1>7. [gr EXCEPT !.state = "ERROR", !.errorCount = errors] \in GroupRecord
  <2> HIDE DEF errors
  <2> QED BY <1>5 DEF GivenGroup, GroupRecord, GroupState
<1>8. /\ groups \in [Group -> GroupRecord]
      /\ \A h \in Group \ {g} : groups[h] = group[h]
      /\ groups[g].urls = gr.urls /\ groups[g].errorCount = errors
  <2> HIDE DEF errors
  <2> QED BY <1>7 DEF GivenGroup, TypeOK, GroupRecord
<1>9. group' \in [Group -> GroupRecord] /\ groupQueue' \in Seq(Group) /\ QueueInv'
  <2>0. gr.urls = group[g].urls /\ gr.errorCount = group[g].errorCount /\ g \in Group
    BY DEF GivenGroup
  <2>1. CASE Splits(gr) /\ PushHalves(g, groups)
    <3>1. Cardinality(groups[g].urls) > 1
      BY <2>1, <1>8 DEF Splits
    <3>2. groups[g].errorCount > 0
      BY <1>5, <1>8
    <3> HIDE DEF groups, errors
    <3> QED BY <2>0, <2>1, <3>1, <3>2, <1>8, PushHalvesKeeps DEF GivenGroup
  <2>2. CASE group' = groups /\ groupQueue' = IF errors <= 1 THEN Push(g, groupQueue)
                                                             ELSE groupQueue
    <3> HIDE DEF groups, errors
    <3>1. /\ \A h \in Group : group'[h].urls = group[h].urls
          /\ \A h \in Group \ {g} : group'[h] = group[h]
          /\ group'[g].errorCount = errors
      BY <2>0, <2>2, <1>8
    <3>2. \A h \in Group : GroupTurns(h) /\ handed[h] \in Nat
      BY DEF QueueInv, TypeOK
    <3>3. ~Unused(g) /\ handed[g] > 0
      BY <2>0, <3>2 DEF GivenGroup, GroupTurns
    <3>4. CASE errors <= 1
      <4>1. group[g].errorCount = 0 /\ handed[g] = 1 /\ g \notin Elems(groupQueue)
        BY <3>2, <3>3, <3>4, <2>0, <1>5 DEF GroupTurns, Turns
      <4>2. groupQueue' = Push(g, groupQueue) /\ groupQueue \in Seq(Group)
        BY <3>4, <2>2 DEF TypeOK
      <4>3. /\ groupQueue' \in Seq(Group)
            /\ Elems(groupQueue') = Elems(groupQueue) \cup {g}
            /\ NoDuplicates(groupQueue')
        BY <4>1, <4>2, <2>0, PushElems DEF QueueInv
      <4>4. \A h \in Group \ {g} : GroupTurns(h)'
        BY <3>1, <3>2, <4>3 DEF GroupTurns, Turns, Unused
      <4>5. GroupTurns(g)'
        BY <3>1, <3>3, <4>1, <2>0, <1>5 DEF GroupTurns, Turns, Unused
      <4> QED BY <4>3, <4>4, <4>5, <2>2, <1>8 DEF QueueInv
    <3>5. CASE ~(errors <= 1)
      <4>1. groupQueue' = groupQueue /\ groupQueue \in Seq(Group)
        BY <3>5, <2>2 DEF TypeOK
      <4>2. \A h \in Group \ {g} : GroupTurns(h)'
        BY <3>1, <3>2, <4>1 DEF GroupTurns, Turns, Unused
      <4>3. GroupTurns(g)'
        <5>1. handed[g] <= 2 /\ (g \in Elems(groupQueue) => handed[g] < 2)
          BY <3>2, <2>0 DEF GroupTurns, Turns
        <5>2. Turns(g)' = 2 /\ ~Unused(g)'
          BY <3>1, <3>3, <1>5, <2>0 DEF Turns, Unused
        <5> QED BY <5>1, <5>2, <4>1, <3>3 DEF GroupTurns
      <4> QED BY <4>1, <4>2, <4>3, <2>2, <1>8 DEF QueueInv
    <3> QED BY <3>4, <3>5
  <2> QED BY <2>1, <2>2 DEF BecomeError
<1> QED BY <1>3, <1>4, <1>9 DEF GroupInv

-----------------------------------------------------------------------------
(* Init and the steps                                                      *)

LEMMA InitInv == Init => IInv
<1> SUFFICES ASSUME Init PROVE IInv
  OBVIOUS
<1>1. NewUrl \in UrlRecord /\ NewGroup({}) \in GroupRecord /\ IdleSession \in SessionRecord
  BY DEF NewUrl, NewGroup, IdleSession, UrlRecord, GroupRecord, SessionRecord,
         UrlState, GroupState
<1>2. TypeOK
  BY <1>1 DEF Init, TypeOK
<1>3. QueueInv
  BY DEF Init, QueueInv, GroupTurns, Turns, Unused, NewGroup, NoDuplicates, Elems
<1>4. SessionInv
  BY ConstantsAssumption DEF Init, SessionInv, IdleSession
<1> QED BY <1>2, <1>3, <1>4 DEF IInv

\* Steps that leave the groups and the deque alone keep QueueInv.
LEMMA QueueInvUnchanged ==
  ASSUME QueueInv, UNCHANGED <<group, groupQueue, handed>>
  PROVE  QueueInv'
BY DEF QueueInv, GroupTurns, Turns, Unused, NoDuplicates, Elems

\* Steps that only give a group another code, verdict, algorithm or state.
LEMMA QueueInvSameTurns ==
  ASSUME QueueInv, UNCHANGED <<groupQueue, handed>>,
         \A h \in Group : group'[h].urls = group[h].urls
                          /\ group'[h].errorCount = group[h].errorCount
  PROVE  QueueInv'
<1>1. \A h \in Group : GroupTurns(h)'
  BY DEF QueueInv, GroupTurns, Turns, Unused, Elems
<1> QED BY <1>1 DEF QueueInv, NoDuplicates

LEMMA AddUrlKeeps == ASSUME IInv, NEW u \in Urls, AddUrl(u) PROVE IInv'
<1>1. TypeOK'
  BY DEF IInv, AddUrl, TypeOK
<1>2. QueueInv' /\ SessionInv'
  BY QueueInvUnchanged DEF IInv, AddUrl, SessionInv
<1> QED BY <1>1, <1>2 DEF IInv

\* A step that changes only the session of s, which keeps its group or its pc
\* says that it has none.
LEMMA SessionOnly ==
  ASSUME IInv, NEW s \in Session, NEW new \in SessionRecord,
         session' = [session EXCEPT ![s] = new],
         UNCHANGED <<known, urlQueue, url, log, group, groupQueue, visiting, handed>>,
         \/ new.group = session[s].group
            /\ (new.pc \in {"held", "visiting", "deaf"} => new.group \in Group)
         \/ new.group = NoGroup /\ new.pc \notin {"held", "visiting", "deaf"}
  PROVE  IInv'
<1>1. TypeOK'
  BY DEF IInv, TypeOK
<1>2. QueueInv'
  BY QueueInvUnchanged DEF IInv
<1>3. SessionInv'
  BY ConstantsAssumption DEF IInv, SessionInv, TypeOK
<1> QED BY <1>1, <1>2, <1>3 DEF IInv

LEMMA BeginTakeKeeps == ASSUME IInv, NEW s \in Session, BeginTake(s) PROVE IInv'
<1> DEFINE n == Least(GroupSize, Cardinality(urlQueue))
<1>1. n \in Nat
  <2>1. urlQueue \in SUBSET Urls
    BY DEF IInv, TypeOK
  <2>2. Cardinality(urlQueue) \in Nat
    BY <2>1, ConstantsAssumption, FS_Subset, FS_CardinalityType
  <2> QED BY <2>2, ConstantsAssumption DEF Least
<1>2. session[s] \in SessionRecord
  BY DEF IInv, TypeOK
<1> HIDE DEF n
<1>3. CASE session' = [session EXCEPT ![s].pc = "fill", ![s].got = {},
                         ![s].want = IF n = 0 THEN 1 ELSE n]
  <2> DEFINE new == [session[s] EXCEPT !.pc = "fill", !.got = {},
                       !.want = IF n = 0 THEN 1 ELSE n]
  <2>1. new \in SessionRecord /\ new.group = session[s].group /\ new.pc = "fill"
    BY <1>1, <1>2 DEF SessionRecord
  <2>2. session' = [session EXCEPT ![s] = new]
    BY <1>3
  <2> HIDE DEF new
  <2> QED BY <2>1, <2>2, SessionOnly DEF BeginTake
<1>4. CASE session' = [session EXCEPT ![s].pc = "pop"]
  <2> DEFINE new == [session[s] EXCEPT !.pc = "pop"]
  <2>1. new \in SessionRecord /\ new.group = session[s].group /\ new.pc = "pop"
    BY <1>2 DEF SessionRecord
  <2>2. session' = [session EXCEPT ![s] = new]
    BY <1>4
  <2> HIDE DEF new
  <2> QED BY <2>1, <2>2, SessionOnly DEF BeginTake
<1> QED BY <1>3, <1>4 DEF BeginTake, n

LEMMA TakeUrlKeeps ==
  ASSUME IInv, NEW s \in Session, NEW u \in Urls, TakeUrl(s, u) PROVE IInv'
<1> DEFINE got == session[s].got \cup {u}
<1>1. /\ session[s] \in SessionRecord /\ got \in SUBSET Urls /\ got # {}
      /\ urlQueue' \in SUBSET Urls
  BY DEF IInv, TypeOK, SessionRecord, TakeUrl
<1>0. UNCHANGED <<known, url, log, groupQueue, visiting>>
  BY DEF TakeUrl
<1> HIDE DEF got
<1>2. CASE session' = [session EXCEPT ![s].got = got] /\ UNCHANGED <<group, handed>>
  <2> DEFINE new == [session[s] EXCEPT !.got = got]
  <2>1. /\ new \in SessionRecord /\ new.group = session[s].group /\ new.pc = session[s].pc
        /\ session' = [session EXCEPT ![s] = new]
    BY <1>1, <1>2 DEF SessionRecord
  <2> HIDE DEF new
  <2>2. TypeOK'
    BY <1>0, <1>1, <1>2, <2>1 DEF IInv, TypeOK
  <2>3. QueueInv'
    BY <1>2, QueueInvUnchanged DEF IInv, TakeUrl
  <2>4. SessionInv'
    BY <1>2, <2>1 DEF IInv, SessionInv, TypeOK
  <2> QED BY <2>2, <2>3, <2>4 DEF IInv
<1>3. ASSUME NEW g \in Group, Unused(g),
             group' = [group EXCEPT ![g] = NewGroup(got)],
             handed' = [handed EXCEPT ![g] = @ + 1],
             session' = [session EXCEPT ![s] = [IdleSession EXCEPT !.pc = "held", !.group = g]]
      PROVE  IInv'
  <2> DEFINE new == [IdleSession EXCEPT !.pc = "held", !.group = g]
  <2>1. new \in SessionRecord /\ new.group = g /\ new.pc = "held"
    BY DEF IdleSession, SessionRecord
  <2>2. /\ NewGroup(got) \in GroupRecord
        /\ NewGroup(got).urls = got /\ NewGroup(got).errorCount = 0
    BY <1>1 DEF NewGroup, GroupRecord, GroupState
  <2>3. session' = [session EXCEPT ![s] = new]
    BY <1>3
  <2> HIDE DEF new
  <2>4. \A h \in Group : GroupTurns(h) /\ handed[h] \in Nat
    BY DEF IInv, QueueInv, TypeOK
  <2>5. handed[g] = 0 /\ g \notin Elems(groupQueue)
    BY <1>3, <2>4 DEF GroupTurns
  <2>6. TypeOK'
    BY <1>0, <1>1, <1>3, <2>1, <2>2, <2>3 DEF IInv, TypeOK
  <2>7. group'[g].urls # {} /\ group'[g].errorCount = 0 /\ handed'[g] = 1
    BY <1>1, <1>3, <2>2, <2>5 DEF IInv, TypeOK
  <2>8. \A h \in Group \ {g} : group'[h] = group[h] /\ handed'[h] = handed[h]
    BY <1>3 DEF IInv, TypeOK
  <2>9. groupQueue' = groupQueue
    BY DEF TakeUrl
  <2>10. GroupTurns(g)'
    BY <2>5, <2>7, <2>9 DEF GroupTurns, Turns, Unused
  <2>11. \A h \in Group \ {g} : GroupTurns(h)'
    BY <2>4, <2>8, <2>9 DEF GroupTurns, Turns, Unused
  <2>12. QueueInv'
    BY <2>9, <2>10, <2>11 DEF IInv, QueueInv, NoDuplicates
  <2>13. SessionInv'
    BY <2>1, <2>3, <2>7, <2>8 DEF IInv, SessionInv, TypeOK
  <2> QED BY <2>6, <2>12, <2>13 DEF IInv
<1> QED BY <1>2, <1>3 DEF TakeUrl, got

LEMMA PopGroupKeeps == ASSUME IInv, NEW s \in Session, PopGroup(s) PROVE IInv'
<1>1. session[s] \in SessionRecord
  BY DEF IInv, TypeOK
<1>2. CASE groupQueue = <<>> /\ session' = [session EXCEPT ![s].pc = "broken"]
           /\ UNCHANGED <<groupQueue, handed>>
  <2> DEFINE new == [session[s] EXCEPT !.pc = "broken"]
  <2>1. /\ new \in SessionRecord /\ new.group = session[s].group /\ new.pc = "broken"
        /\ session' = [session EXCEPT ![s] = new]
    BY <1>1, <1>2 DEF SessionRecord
  <2> HIDE DEF new
  <2> QED BY <1>2, <2>1, SessionOnly DEF PopGroup
<1>3. ASSUME NEW g, g = Head(groupQueue),
             groupQueue # <<>>, groupQueue' = Tail(groupQueue),
             handed' = [handed EXCEPT ![g] = @ + 1],
             session' = [session EXCEPT ![s] =
                           [IdleSession EXCEPT !.pc = "held", !.group = g]]
      PROVE  IInv'
  <2> DEFINE new == [IdleSession EXCEPT !.pc = "held", !.group = g]
  <2>1. groupQueue \in Seq(Group) /\ NoDuplicates(groupQueue)
    BY DEF IInv, TypeOK, QueueInv
  <2>0. UNCHANGED <<known, urlQueue, url, log, group, visiting>>
    BY DEF PopGroup
  <2>2. /\ g \in Group /\ g \in Elems(groupQueue)
        /\ groupQueue' \in Seq(Group) /\ NoDuplicates(groupQueue')
        /\ Elems(groupQueue') = Elems(groupQueue) \ {g}
    BY <2>1, <1>3, TailElems
  <2>3. handed' = [handed EXCEPT ![g] = @ + 1] /\ session' = [session EXCEPT ![s] = new]
    BY <1>3
  <2>4. new \in SessionRecord /\ new.group = g /\ new.pc = "held"
    BY <2>2 DEF IdleSession, SessionRecord
  <2> HIDE DEF new
  <2>5. TypeOK'
    BY <2>0, <2>2, <2>3, <2>4 DEF IInv, TypeOK
  <2>6. /\ handed'[g] = handed[g] + 1 /\ group' = group
        /\ \A h \in Group \ {g} : handed'[h] = handed[h]
    BY <2>0, <2>2, <2>3 DEF IInv, TypeOK
  <2>7. \A h \in Group : GroupTurns(h) /\ handed[h] \in Nat
    BY DEF IInv, QueueInv, TypeOK
  <2>8. Turns(g) \in Nat /\ Turns(g)' = Turns(g)
    BY <2>6 DEF Turns
  <2>9. GroupTurns(g)'
    BY <2>2, <2>6, <2>7, <2>8 DEF GroupTurns, Unused
  <2>10. \A h \in Group \ {g} : GroupTurns(h)'
    BY <2>2, <2>6, <2>7 DEF GroupTurns, Turns, Unused
  <2>11. SessionInv'
    BY <2>2, <2>3, <2>4, <2>6, <2>7 DEF IInv, SessionInv, TypeOK
  <2> QED BY <2>2, <2>5, <2>9, <2>10, <2>11 DEF IInv, QueueInv
<1> QED BY <1>2, <1>3 DEF PopGroup

-----------------------------------------------------------------------------
(* Steps of a visit and errors from outside it                             *)

HasGroup == {"held", "visiting", "deaf"}

\* A step on the groups after which every session is idle or has what it had.
LEMMA GroupStep ==
  ASSUME IInv, GroupInv', UNCHANGED <<known, urlQueue, handed>>,
         session' \in [Session -> SessionRecord],
         \A t \in Session :
           \/ session'[t] = IdleSession
           \/ /\ session'[t].group = session[t].group
              /\ session'[t].pc \in HasGroup => session[t].pc \in HasGroup
  PROVE  IInv'
<1>1. TypeOK'
  BY DEF IInv, TypeOK, GroupInv
<1>2. SessionInv'
  <2> SUFFICES ASSUME NEW t \in Session
               PROVE  /\ session'[t].pc \in HasGroup => session'[t].group \in Group
                      /\ session'[t].group \in Group => handed[session'[t].group] > 0
    BY DEF SessionInv, HasGroup
  <2>1. CASE session'[t] = IdleSession
    BY <2>1, ConstantsAssumption DEF IdleSession, HasGroup
  <2>2. CASE /\ session'[t].group = session[t].group
             /\ session'[t].pc \in HasGroup => session[t].pc \in HasGroup
    BY <2>2 DEF IInv, SessionInv, HasGroup
  <2> QED BY <2>1, <2>2
<1>3. QueueInv'
  BY DEF GroupInv
<1> QED BY <1>1, <1>2, <1>3 DEF IInv

\* The same for a step that changes session s only.
LEMMA GroupStepOf ==
  ASSUME IInv, GroupInv', UNCHANGED <<known, urlQueue, handed>>,
         NEW s \in Session, NEW new \in SessionRecord,
         session' = [session EXCEPT ![s] = new],
         \/ new = IdleSession
         \/ /\ new.group = session[s].group
            /\ new.pc \in HasGroup => session[s].pc \in HasGroup
  PROVE  IInv'
<1>1. session \in [Session -> SessionRecord]
  BY DEF IInv, TypeOK
<1>2. session'[s] = new /\ \A t \in Session \ {s} : session'[t] = session[t]
  BY <1>1
<1>3. session' \in [Session -> SessionRecord]
  BY <1>1
<1> QED BY <1>2, <1>3, GroupStep

\* The group of a session that has one.
LEMMA SessionGroup ==
  ASSUME IInv, NEW s \in Session, session[s].pc \in HasGroup
  PROVE  /\ session[s] \in SessionRecord
         /\ session[s].group \in Group /\ handed[session[s].group] > 0
         /\ group[session[s].group] \in GroupRecord
BY DEF IInv, TypeOK, SessionInv, HasGroup

LEMMA IdleSessionType == IdleSession \in SessionRecord
BY DEF IdleSession, SessionRecord

\* Steps that give a group another code, verdict, algorithm or state.
LEMMA SameTurnsStep ==
  ASSUME IInv, NEW g \in Group, NEW gr \in GroupRecord,
         gr.urls = group[g].urls, gr.errorCount = group[g].errorCount,
         group' = [group EXCEPT ![g] = gr], UNCHANGED <<groupQueue, handed>>,
         url' \in [Urls -> UrlRecord],
         log' \in [safe : SUBSET Urls, malicious : SUBSET Urls, error : SUBSET Urls],
         visiting' \in [Group -> Nat]
  PROVE  GroupInv'
<1>1. \A h \in Group : group'[h].urls = group[h].urls
                       /\ group'[h].errorCount = group[h].errorCount
  BY DEF IInv, TypeOK
<1>2. QueueInv'
  BY <1>1, QueueInvSameTurns DEF IInv
<1>3. group' \in [Group -> GroupRecord] /\ groupQueue' \in Seq(Group)
  BY DEF IInv, TypeOK
<1> QED BY <1>2, <1>3 DEF GroupInv

LEMMA StartKeeps ==
  ASSUME IInv, NEW s \in Session, NEW alg \in Algorithms, Start(s, alg) PROVE IInv'
<1>1. SUFFICES ASSUME NEW g, g = session[s].group PROVE IInv'
  OBVIOUS
<1>2. /\ session[s] \in SessionRecord /\ session[s].pc = "held"
      /\ g \in Group /\ group[g] \in GroupRecord
  BY <1>1, SessionGroup DEF Start, HasGroup
<1> DEFINE gr     == [group[g] EXCEPT !.algorithm = alg, !.state = "VISITING"]
           new    == [session[s] EXCEPT !.pc = "visiting", !.marked = FALSE]
           target == [u \in group[g].urls |-> "VISITING"]
<1>3. /\ group' = [group EXCEPT ![g] = gr] /\ session' = [session EXCEPT ![s] = new]
      /\ visiting' = [visiting EXCEPT ![g] = @ + 1]
      /\ SetUrlStates(url, target)
      /\ UNCHANGED <<known, urlQueue, groupQueue, handed>>
  BY <1>1 DEF Start
<1>4. /\ gr \in GroupRecord /\ gr.urls = group[g].urls
      /\ gr.errorCount = group[g].errorCount
  BY <1>2 DEF GroupRecord, GroupState
<1>5. new \in SessionRecord /\ new.group = session[s].group /\ new.pc = "visiting"
  BY <1>2 DEF SessionRecord
<1>6. group[g].urls \in SUBSET Urls /\ target \in [group[g].urls -> UrlState]
  BY <1>2 DEF GroupRecord, UrlState
<1> HIDE DEF gr, new, target
<1>7. /\ url' \in [Urls -> UrlRecord]
      /\ log' \in [safe : SUBSET Urls, malicious : SUBSET Urls, error : SUBSET Urls]
  <2>1. TypeOK /\ url \in [Urls -> UrlRecord]
    BY DEF IInv, TypeOK
  <2> QED BY <2>1, <1>3, <1>6, SetUrlStatesType
<1>8. visiting' \in [Group -> Nat]
  <2>1. visiting \in [Group -> Nat]
    BY DEF IInv, TypeOK
  <2> QED BY <2>1, <1>2, <1>3
<1>9. GroupInv'
  BY <1>2, <1>3, <1>4, <1>7, <1>8, SameTurnsStep
<1> QED BY <1>2, <1>3, <1>5, <1>9, GroupStepOf DEF HasGroup

\* A step that only changes fields of the session other than group and pc.
LEMMA SessionFieldKeeps ==
  ASSUME IInv, NEW s \in Session, session[s].pc \in HasGroup,
         NEW new \in SessionRecord, new.group = session[s].group,
         session' = [session EXCEPT ![s] = new],
         UNCHANGED <<known, urlQueue, url, log, group, groupQueue, visiting, handed>>
  PROVE  IInv'
BY SessionOnly, SessionGroup

LEMMA IgnoredEventKeeps ==
  ASSUME IInv, NEW s \in Session, IgnoredEvent(s) PROVE IInv'
<1> DEFINE new == [session[s] EXCEPT !.dirty = TRUE]
<1>1. session[s].pc \in HasGroup
  BY DEF IgnoredEvent, HasGroup
<1>2. /\ new \in SessionRecord /\ new.group = session[s].group
      /\ session' = [session EXCEPT ![s] = new]
  BY <1>1, SessionGroup DEF SessionRecord, IgnoredEvent
<1> HIDE DEF new
<1> QED BY <1>1, <1>2, SessionFieldKeeps DEF IgnoredEvent

LEMMA BulkEventKeeps ==
  ASSUME IInv, NEW s \in Session, BulkEvent(s) PROVE IInv'
<1>1. session[s].pc \in HasGroup
  BY DEF BulkEvent, HasGroup
<1>2. PICK found \in SUBSET group[session[s].group].urls :
        session' = [session EXCEPT ![s].dirty = TRUE, ![s].events = @ \cup found]
  BY DEF BulkEvent
<1> DEFINE new == [session[s] EXCEPT !.dirty = TRUE, !.events = @ \cup found]
<1>3. found \in SUBSET Urls
  BY <1>1, SessionGroup DEF GroupRecord
<1>4. /\ new \in SessionRecord /\ new.group = session[s].group
      /\ session' = [session EXCEPT ![s] = new]
  BY <1>1, <1>2, <1>3, SessionGroup DEF SessionRecord
<1> HIDE DEF new
<1> QED BY <1>1, <1>4, SessionFieldKeeps DEF BulkEvent

LEMMA DacEventKeeps ==
  ASSUME IInv, NEW s \in Session, DacEvent(s) PROVE IInv'
<1>1. SUFFICES ASSUME NEW g, g = session[s].group PROVE IInv'
  OBVIOUS
<1>2. g \in Group /\ group[g] \in GroupRecord /\ handed[g] > 0
  BY <1>1, SessionGroup DEF DacEvent, HasGroup
<1> DEFINE gr == [group[g] EXCEPT !.malicious = TRUE]
           us == SetMalicious(url, group[g], "dac", TRUE, TRUE, {})
<1>3. /\ BecomeVisited(g, gr, us) /\ UNCHANGED <<known, urlQueue, handed>>
      /\ session' = [session EXCEPT ![s] = IdleSession]
  BY <1>1 DEF DacEvent
<1>4. TypeOK /\ QueueInv /\ url \in [Urls -> UrlRecord]
  BY DEF IInv, TypeOK
<1>5. us \in [Urls -> UrlRecord]
  BY <1>4, SetMaliciousType
<1>6. GivenGroup(g, gr)
  BY <1>2 DEF GivenGroup, GroupRecord
<1> HIDE DEF gr, us
<1>7. GroupInv'
  BY <1>3, <1>4, <1>5, <1>6, BecomeVisitedKeeps
<1> QED BY <1>3, <1>7, GroupStepOf, IdleSessionType

LEMMA PlainEventKeeps ==
  ASSUME IInv, NEW s \in Session, PlainEvent(s) PROVE IInv'
<1>1. SUFFICES ASSUME NEW g, g = session[s].group PROVE IInv'
  OBVIOUS
<1>2. /\ g \in Group /\ group[g] \in GroupRecord
      /\ session[s] \in SessionRecord /\ session[s].pc = "visiting"
  BY <1>1, SessionGroup DEF PlainEvent, HasGroup
<1> DEFINE gr  == [group[g] EXCEPT !.malicious = TRUE]
           new == [session[s] EXCEPT !.dirty = TRUE]
<1>3. /\ group' = [group EXCEPT ![g] = gr] /\ session' = [session EXCEPT ![s] = new]
      /\ url' = SetMalicious(url, group[g], group[g].algorithm, TRUE, TRUE, {})
      /\ UNCHANGED <<known, urlQueue, log, groupQueue, visiting, handed>>
  BY <1>1 DEF PlainEvent
<1>4. /\ gr \in GroupRecord /\ gr.urls = group[g].urls
      /\ gr.errorCount = group[g].errorCount
  BY <1>2 DEF GroupRecord
<1>5. new \in SessionRecord /\ new.group = session[s].group /\ new.pc = "visiting"
  BY <1>2 DEF SessionRecord
<1>6. /\ url \in [Urls -> UrlRecord] /\ visiting' \in [Group -> Nat]
      /\ log' \in [safe : SUBSET Urls, malicious : SUBSET Urls, error : SUBSET Urls]
  BY <1>3 DEF IInv, TypeOK
<1>7. url' \in [Urls -> UrlRecord]
  BY <1>3, <1>6, SetMaliciousType
<1> HIDE DEF gr, new
<1>8. GroupInv'
  BY <1>2, <1>3, <1>4, <1>6, <1>7, SameTurnsStep
<1> QED BY <1>2, <1>3, <1>5, <1>8, GroupStepOf DEF HasGroup

LEMMA CompleteKeeps ==
  ASSUME IInv, NEW s \in Session, session[s].pc = "visiting",
         NEW mal \in BOOLEAN, NEW codes \in [Urls -> UrlRecord],
         Complete(s, mal, codes)
  PROVE  IInv'
<1>1. SUFFICES ASSUME NEW g, g = session[s].group PROVE IInv'
  OBVIOUS
<1>2. g \in Group /\ group[g] \in GroupRecord /\ handed[g] > 0
  BY <1>1, SessionGroup DEF HasGroup
<1> DEFINE gr == [group[g] EXCEPT !.malicious = mal]
           us == SetMalicious(codes, group[g], group[g].algorithm, mal,
                              FALSE, session[s].events)
<1>3. /\ BecomeVisited(g, gr, us) /\ UNCHANGED <<known, urlQueue, handed>>
      /\ session' = [session EXCEPT ![s] = IdleSession]
  BY <1>1 DEF Complete
<1>4. TypeOK /\ QueueInv /\ url \in [Urls -> UrlRecord]
  BY DEF IInv, TypeOK
<1>5. us \in [Urls -> UrlRecord]
  BY SetMaliciousType
<1>6. GivenGroup(g, gr)
  BY <1>2 DEF GivenGroup, GroupRecord
<1> HIDE DEF gr, us
<1>7. GroupInv'
  BY <1>3, <1>4, <1>5, <1>6, BecomeVisitedKeeps
<1> QED BY <1>3, <1>7, GroupStepOf, IdleSessionType

LEMMA FinishKeeps ==
  ASSUME IInv, NEW s \in Session, NEW bad, NEW c \in Codes,
         Finish(s, bad, c) \/ FinishWithWarning(s, bad, c)
  PROVE  IInv'
<1>1. session[s].pc = "visiting"
  BY DEF Finish, FinishWithWarning
<1>2. /\ session[s].dirty \in BOOLEAN
      /\ (group[session[s].group].malicious \/ session[s].dirty) \in BOOLEAN
  BY <1>1, SessionGroup DEF HasGroup, SessionRecord
<1>3. url \in [Urls -> UrlRecord]
  BY DEF IInv, TypeOK
<1>4. SetCodes(url, bad, c) \in [Urls -> UrlRecord]
  BY <1>3, SetCodesType
<1>5. ReportedCodes(group[session[s].group].urls, bad, c) \in [Urls -> UrlRecord]
  BY <1>3, ReportedCodesType
<1> QED BY <1>1, <1>2, <1>4, <1>5, CompleteKeeps DEF Finish, FinishWithWarning

LEMMA FinishWithErrorKeeps ==
  ASSUME IInv, NEW s \in Session, NEW c \in Codes, FinishWithError(s, c) PROVE IInv'
<1>1. SUFFICES ASSUME NEW g, g = session[s].group PROVE IInv'
  OBVIOUS
<1>2. /\ g \in Group /\ group[g] \in GroupRecord /\ handed[g] > 0
      /\ session[s].dirty \in BOOLEAN
  BY <1>1, SessionGroup DEF FinishWithError, HasGroup, SessionRecord
<1> DEFINE gr == [group[g] EXCEPT !.malicious = session[s].dirty, !.code = c]
           us == SetMalicious(url, group[g], group[g].algorithm, session[s].dirty,
                              FALSE, session[s].events)
<1>3. /\ BecomeError(g, gr, us) /\ UNCHANGED <<known, urlQueue, handed>>
      /\ session' = [session EXCEPT ![s] = IdleSession]
  BY <1>1 DEF FinishWithError
<1>4. TypeOK /\ QueueInv /\ url \in [Urls -> UrlRecord]
  BY DEF IInv, TypeOK
<1>5. us \in [Urls -> UrlRecord]
  BY <1>4, SetMaliciousType
<1>6. GivenGroup(g, gr)
  BY <1>2 DEF GivenGroup, GroupRecord
<1> HIDE DEF gr, us
<1>7. GroupInv'
  BY <1>3, <1>4, <1>5, <1>6, BecomeErrorKeeps
<1> QED BY <1>3, <1>7, GroupStepOf, IdleSessionType

LEMMA ReceiverEndsKeeps ==
  ASSUME IInv, NEW s \in Session, NEW c,
         session[s].pc \in HasGroup => c \in Codes \cup {OK}, ReceiverEnds(s, c)
  PROVE  IInv'
<1>1. SUFFICES ASSUME NEW g, g = session[s].group PROVE IInv'
  OBVIOUS
<1>2. /\ session[s].pc \in HasGroup
      /\ g \in Group /\ group[g] \in GroupRecord /\ session[s] \in SessionRecord
  BY <1>1, SessionGroup DEF ReceiverEnds, HasGroup
<1> DEFINE gr  == [group[g] EXCEPT !.code = c]
           new == [session[s] EXCEPT !.pc = "deaf"]
<1>3. /\ group' = [group EXCEPT ![g] = gr] /\ session' = [session EXCEPT ![s] = new]
      /\ UNCHANGED <<known, urlQueue, url, log, groupQueue, visiting, handed>>
  BY <1>1 DEF ReceiverEnds
<1>4. /\ gr \in GroupRecord /\ gr.urls = group[g].urls
      /\ gr.errorCount = group[g].errorCount
  BY <1>2 DEF GroupRecord
<1>5. new \in SessionRecord /\ new.group = session[s].group /\ new.pc = "deaf"
  BY <1>2 DEF SessionRecord
<1>6. /\ url' \in [Urls -> UrlRecord] /\ visiting' \in [Group -> Nat]
      /\ log' \in [safe : SUBSET Urls, malicious : SUBSET Urls, error : SUBSET Urls]
  BY <1>3 DEF IInv, TypeOK
<1> HIDE DEF gr, new
<1>7. GroupInv'
  BY <1>2, <1>3, <1>4, <1>6, SameTurnsStep
<1> QED BY <1>2, <1>3, <1>5, <1>7, GroupStepOf

LEMMA FailGroupKeeps ==
  ASSUME IInv, NEW g \in Group, handed[g] > 0, NEW c \in Codes \cup {OK}, NEW clear,
         FailGroup(g, c, clear)
  PROVE  GroupInv' /\ UNCHANGED <<known, urlQueue, handed>>
<1> DEFINE gr == [group[g] EXCEPT !.code = c]
           us == IF clear /\ ~group[g].malicious
                 THEN SetMalicious(url, group[g], "dac", FALSE, TRUE, {})
                 ELSE url
<1>1. BecomeError(g, gr, us) /\ UNCHANGED <<known, urlQueue, handed>>
  BY DEF FailGroup
<1>2. TypeOK /\ QueueInv /\ url \in [Urls -> UrlRecord] /\ group[g] \in GroupRecord
  BY DEF IInv, TypeOK
<1>3. us \in [Urls -> UrlRecord]
  BY <1>2, SetMaliciousType
<1>4. GivenGroup(g, gr)
  BY <1>2 DEF GivenGroup, GroupRecord
<1> HIDE DEF gr, us
<1> QED BY <1>1, <1>2, <1>3, <1>4, BecomeErrorKeeps

LEMMA MarkErrorKeeps ==
  ASSUME IInv, NEW s \in Session, NEW c, NEW clear, MarkError(s, c, clear),
         session[s].group \in Group => c \in Codes \cup {OK}
  PROVE  IInv'
<1> DEFINE new == [session[s] EXCEPT !.marked = TRUE]
<1>1. session[s] \in SessionRecord /\ session[s].group # NoGroup
  BY DEF MarkError, IInv, TypeOK
<1>2. session[s].group \in Group /\ handed[session[s].group] > 0
  BY <1>1 DEF SessionRecord, IInv, SessionInv
<1>3. GroupInv' /\ UNCHANGED <<known, urlQueue, handed>>
  BY <1>2, FailGroupKeeps DEF MarkError
<1>4. session' = [session EXCEPT ![s] = new]
  BY DEF MarkError
<1>5. new \in SessionRecord /\ new.group = session[s].group /\ new.pc = session[s].pc
  BY <1>1 DEF SessionRecord
<1> QED BY <1>3, <1>4, <1>5, GroupStepOf

LEMMA MarkLateKeeps ==
  ASSUME IInv, NEW g \in Group, NEW c \in Codes \cup {OK}, NEW clear,
         MarkLate(g, c, clear)
  PROVE  IInv'
<1>1. handed[g] > 0 /\ FailGroup(g, c, clear) /\ session' = session
  BY DEF MarkLate
<1>2. GroupInv' /\ UNCHANGED <<known, urlQueue, handed>>
  BY <1>1, FailGroupKeeps
<1>3. session' \in [Session -> SessionRecord]
  BY <1>1 DEF IInv, TypeOK
<1> QED BY <1>1, <1>2, <1>3, GroupStep

LEMMA GiveUpKeeps ==
  ASSUME IInv, NEW s \in Session, GiveUp(s) PROVE IInv'
<1>1. IdleSession.group = NoGroup /\ IdleSession.pc = "idle"
  BY DEF IdleSession
<1> QED BY <1>1, IdleSessionType, SessionOnly DEF GiveUp

-----------------------------------------------------------------------------
(* The theorems                                                            *)

LEMMA NextInv == IInv /\ [Next]_vars => IInv'
<1> SUFFICES ASSUME IInv, [Next]_vars PROVE IInv'
  OBVIOUS
<1>1. CASE \E u \in Urls : AddUrl(u)
  BY <1>1, AddUrlKeeps
<1>2. CASE \E s \in Session : BeginTake(s)
  BY <1>2, BeginTakeKeeps
<1>3. CASE \E s \in Session, u \in Urls : TakeUrl(s, u)
  BY <1>3, TakeUrlKeeps
<1>4. CASE \E s \in Session : PopGroup(s)
  BY <1>4, PopGroupKeeps
<1>5. ASSUME NEW s \in Session, Visit(s) PROVE IInv'
  <2>1. CASE \E alg \in Algorithms : Start(s, alg)
    BY <2>1, StartKeeps
  <2>2. CASE BulkEvent(s)
    BY <2>2, BulkEventKeeps
  <2>3. CASE DacEvent(s)
    BY <2>3, DacEventKeeps
  <2>4. CASE PlainEvent(s)
    BY <2>4, PlainEventKeeps
  <2>5. CASE \E bad \in SUBSET Urls, c \in Codes :
               Finish(s, bad, c) \/ FinishWithWarning(s, bad, c)
    BY <2>5, FinishKeeps
  <2>6. CASE \E c \in Codes : FinishWithError(s, c)
    BY <2>6, FinishWithErrorKeeps
  <2> QED BY <1>5, <2>1, <2>2, <2>3, <2>4, <2>5, <2>6 DEF Visit
<1>6. CASE \E s \in Session : IgnoredEvent(s)
  BY <1>6, IgnoredEventKeeps
<1>7. CASE \/ \E s \in Session, c \in Codes, clear \in BOOLEAN : MarkError(s, c, clear)
           \/ \E s \in Session : MarkError(s, group[session[s].group].code, FALSE)
  <2>1. \A g \in Group : group[g].code \in Codes \cup {OK}
    BY DEF IInv, TypeOK, GroupRecord
  <2> QED BY <1>7, <2>1, MarkErrorKeeps
<1>11. CASE \/ \E g \in Group, c \in Codes, clear \in BOOLEAN : MarkLate(g, c, clear)
            \/ \E g \in Group : MarkLate(g, group[g].code, FALSE)
  <2>1. \A g \in Group : group[g].code \in Codes \cup {OK}
    BY DEF IInv, TypeOK, GroupRecord
  <2> QED BY <1>11, <2>1, MarkLateKeeps
<1>8. CASE \E s \in Session, c \in Codes :
             ReceiverEnds(s, c) \/ ReceiverEnds(s, group[session[s].group].code)
  <2>1. \A s \in Session : session[s].pc \in HasGroup =>
          group[session[s].group].code \in Codes \cup {OK}
    BY SessionGroup DEF GroupRecord
  <2> QED BY <1>8, <2>1, ReceiverEndsKeeps
<1>9. CASE \E s \in Session : GiveUp(s)
  BY <1>9, GiveUpKeeps
<1>10. CASE UNCHANGED vars
  <2>1. TypeOK'
    BY <1>10 DEF vars, IInv, TypeOK
  <2>2. QueueInv'
    BY <1>10, QueueInvUnchanged DEF vars, IInv
  <2>3. SessionInv'
    BY <1>10 DEF vars, IInv, SessionInv
  <2> QED BY <2>1, <2>2, <2>3 DEF IInv
<1> QED
  BY <1>1, <1>2, <1>3, <1>4, <1>5, <1>6, <1>7, <1>8, <1>9, <1>10,
     <1>11 DEF Next

LEMMA Invariance == Spec => []IInv
BY InitInv, NextInv, PTL DEF Spec

\* Every variable keeps its type, for any number of URLs, groups and
\* sessions, also when a group leaves the list of visits more often than it
\* entered it.
THEOREM TypeCorrect == Spec => []TypeOK
<1>1. IInv => TypeOK
  BY DEF IInv
<1> QED BY <1>1, Invariance, PTL

\* UrlGroupsController.update pushes a failed group at most once more, however
\* many threads put it into the ERROR state: nobody ever gets it a third time.
THEOREM AtMostTwice == Spec => []HandedOutAtMostTwice
<1>1. IInv => HandedOutAtMostTwice
  BY DEF IInv, TypeOK, QueueInv, GroupTurns, Turns, HandedOutAtMostTwice
<1> QED BY <1>1, Invariance, PTL

\* The deque of takeUrlGroup never holds the same group twice.
THEOREM DequeIsASet == Spec => []DequeHasNoDuplicates
<1>1. IInv => DequeHasNoDuplicates
  BY DEF IInv, QueueInv, NoDuplicates, DequeHasNoDuplicates
<1> QED BY <1>1, Invariance, PTL

-----------------------------------------------------------------------------
(* What becomes of a group that failed or was found malicious              *)

Works(s, g) == session[s].pc \in {"held", "visiting"} /\ session[s].group = g

\* During its first turn a group has one session, and while that one works it
\* does not split: its verdict comes with the end of the visit.  So whoever
\* fails the group then decides its fate for good.
FateInv(g) ==
  /\ handed[g] = 0 => group[g].algorithm = "none" /\ ~group[g].malicious
  /\ handed[g] <= 1 =>
       \A s \in Session : Works(s, g) =>
         /\ ~Splits(group[g])
         /\ session[s].pc = "held" => ~group[g].malicious
         /\ \A t \in Session : Works(t, g) => t = s
  /\ group[g].errorCount >= 1 =>
       g \in Elems(groupQueue) \/ handed[g] >= 2 \/ Splits(group[g])

FInv == IInv /\ (\A g \in Group : FateInv(g)) /\ MaliciousGroupIsNarrowed

\* Each URL of the group is in a smaller one.
Narrowed(g) ==
  \A u \in group[g].urls : \E h \in Group :
    /\ u \in group[h].urls
    /\ Cardinality(group[h].urls) < Cardinality(group[g].urls)

\* What a step does to the groups that gives g the record gr, up to its state,
\* code and error count.
Outcome(g, gr) ==
  /\ \A h \in Group \ {g} : \/ group'[h] = group[h]
                            \/ Unused(h) /\ \E us : group'[h] = NewGroup(us)
  /\ gr.urls = group[g].urls
  /\ group'[g].urls = gr.urls /\ group'[g].algorithm = gr.algorithm
  /\ group'[g].malicious = gr.malicious
  /\ Elems(groupQueue) \subseteq Elems(groupQueue')
  /\ group'[g].errorCount >= 1 =>
       group[g].errorCount >= 1 \/ g \in Elems(groupQueue') \/ Splits(gr)
  /\ group'[g].state = "VISITED" /\ Splits(gr) =>
       Narrowed(g)' \/ (group[g].state = "VISITED" /\ Splits(group[g]))

\* Both halves of a group of several URLs are smaller.
LEMMA SmallerHalves ==
  ASSUME NEW us \in SUBSET Urls, Cardinality(us) > 1,
         NEW first \in SUBSET us, Cardinality(first) = Cardinality(us) \div 2
  PROVE  /\ Cardinality(first) < Cardinality(us)
         /\ Cardinality(us \ first) < Cardinality(us)
<1>1. first # {} /\ us \ first # {}
  BY Halves
<1>2. IsFiniteSet(us)
  BY ConstantsAssumption, FS_Subset
<1>3. ASSUME NEW part \in SUBSET us, part # us
      PROVE  Cardinality(part) < Cardinality(us)
  <2>1. /\ IsFiniteSet(part) /\ Cardinality(part) <= Cardinality(us)
        /\ Cardinality(us) # Cardinality(part)
    BY <1>2, <1>3, FS_Subset
  <2>2. Cardinality(us) \in Nat /\ Cardinality(part) \in Nat
    BY <1>2, <2>1, FS_CardinalityType
  <2> QED BY <2>1, <2>2
<1>4. first # us /\ us \ first # us /\ us \ first \in SUBSET us
  BY <1>1
<1> QED BY <1>3, <1>4

LEMMA PushHalvesOutcome ==
  ASSUME TypeOK, QueueInv, NEW g \in Group, NEW groups, handed[g] > 0,
         groups \in [Group -> GroupRecord],
         \A h \in Group \ {g} : groups[h] = group[h],
         groups[g].urls = group[g].urls, Cardinality(groups[g].urls) > 1,
         PushHalves(g, groups)
  PROVE  /\ group'[g] = groups[g]
         /\ \A h \in Group \ {g} : \/ group'[h] = group[h]
                                   \/ Unused(h) /\ \E us : group'[h] = NewGroup(us)
         /\ Elems(groupQueue) \subseteq Elems(groupQueue')
         /\ Narrowed(g)'
<1>1. PICK first \in SUBSET groups[g].urls, g1 \in {x \in Group : Unused(x)},
           g2 \in {x \in Group : Unused(x)} :
        /\ Cardinality(first) = Cardinality(groups[g].urls) \div 2
        /\ g1 # g2
        /\ group' = [groups EXCEPT ![g1] = NewGroup(first),
                                   ![g2] = NewGroup(groups[g].urls \ first)]
        /\ groupQueue' = Push(g2, Push(g1, groupQueue))
  BY DEF PushHalves
<1>2. g1 \in Group /\ g2 \in Group /\ g # g1 /\ g # g2
  BY DEF QueueInv, GroupTurns
<1>3. /\ group'[g1] = NewGroup(first) /\ group'[g2] = NewGroup(groups[g].urls \ first)
      /\ group'[g] = groups[g]
      /\ \A h \in Group \ {g, g1, g2} : group'[h] = group[h]
  BY <1>1, <1>2
<1>4. Elems(groupQueue) \subseteq Elems(groupQueue')
  <2>1. groupQueue \in Seq(Group)
    BY DEF TypeOK
  <2> DEFINE q1 == Push(g1, groupQueue)
  <2>2. q1 \in Seq(Group) /\ Elems(q1) = Elems(groupQueue) \cup {g1}
    BY <1>2, <2>1, PushElems
  <2>3. groupQueue' = Push(g2, q1)
    BY <1>1
  <2> HIDE DEF q1
  <2>4. Elems(groupQueue') = Elems(q1) \cup {g2}
    <3>1. q1 \in Seq(Group) /\ g2 \in Group
      BY <1>2, <2>2
    <3>2. Elems(Push(g2, q1)) = Elems(q1) \cup {g2}
      BY <3>1, PushElems
    <3> QED BY <2>3, <3>2
  <2> QED BY <2>2, <2>4
<1>5. groups[g].urls \in SUBSET Urls
  BY DEF GroupRecord
<1>6. /\ Cardinality(first) < Cardinality(groups[g].urls)
      /\ Cardinality(groups[g].urls \ first) < Cardinality(groups[g].urls)
  BY <1>1, <1>5, SmallerHalves
<1>7. Narrowed(g)'
  <2>1. /\ group'[g].urls = groups[g].urls /\ group'[g1].urls = first
        /\ group'[g2].urls = groups[g].urls \ first
    BY <1>3 DEF NewGroup
  <2> SUFFICES ASSUME NEW u \in groups[g].urls
               PROVE  \E h \in Group :
                        /\ u \in group'[h].urls
                        /\ Cardinality(group'[h].urls) < Cardinality(groups[g].urls)
    BY <2>1 DEF Narrowed
  <2>2. CASE u \in first
    BY <1>2, <1>6, <2>1, <2>2
  <2>3. CASE u \notin first
    BY <1>2, <1>6, <2>1, <2>3
  <2> QED BY <2>2, <2>3
<1> QED BY <1>1, <1>3, <1>4, <1>7

LEMMA VisitedOutcome ==
  ASSUME TypeOK, QueueInv, NEW g, NEW gr, NEW us,
         GivenGroup(g, gr), BecomeVisited(g, gr, us)
  PROVE  Outcome(g, gr)
<1> DEFINE groups == [group EXCEPT ![g] = [gr EXCEPT !.state = "VISITED"]]
<1>1. /\ g \in Group /\ handed[g] > 0 /\ gr \in GroupRecord
      /\ gr.urls = group[g].urls /\ gr.errorCount = group[g].errorCount
  BY DEF GivenGroup
<1>2. [gr EXCEPT !.state = "VISITED"] \in GroupRecord
  BY <1>1 DEF GroupRecord, GroupState
<1>3. /\ groups \in [Group -> GroupRecord]
      /\ \A h \in Group \ {g} : groups[h] = group[h]
      /\ groups[g].urls = gr.urls /\ groups[g].algorithm = gr.algorithm
      /\ groups[g].malicious = gr.malicious
      /\ groups[g].errorCount = gr.errorCount
  BY <1>1, <1>2 DEF TypeOK, GroupRecord
<1>4. CASE Splits(gr) /\ PushHalves(g, groups)
  <2>1. Cardinality(groups[g].urls) > 1 /\ groups[g].urls = group[g].urls
    BY <1>1, <1>3, <1>4 DEF Splits
  <2> HIDE DEF groups
  <2>2. /\ group'[g] = groups[g]
        /\ \A h \in Group \ {g} : \/ group'[h] = group[h]
                                  \/ Unused(h) /\ \E x : group'[h] = NewGroup(x)
        /\ Elems(groupQueue) \subseteq Elems(groupQueue')
        /\ Narrowed(g)'
    BY <1>1, <1>3, <1>4, <2>1, PushHalvesOutcome
  <2> QED BY <1>1, <1>3, <2>2, <1>4 DEF Outcome
<1>5. CASE ~Splits(gr) /\ group' = groups /\ UNCHANGED groupQueue
  <2> HIDE DEF groups
  <2> QED BY <1>1, <1>3, <1>5 DEF Outcome, Elems
<1> QED BY <1>4, <1>5 DEF BecomeVisited

LEMMA ErrorOutcome ==
  ASSUME TypeOK, QueueInv, NEW g, NEW gr, NEW us,
         GivenGroup(g, gr), BecomeError(g, gr, us)
  PROVE  Outcome(g, gr)
<1> DEFINE errors == Least(gr.errorCount + 1, ErrorCap)
           groups == [group EXCEPT ![g] = [gr EXCEPT !.state = "ERROR",
                                                     !.errorCount = errors]]
<1>1. /\ g \in Group /\ handed[g] > 0 /\ gr \in GroupRecord
      /\ gr.urls = group[g].urls /\ gr.errorCount = group[g].errorCount
      /\ gr.errorCount \in Nat
  BY DEF GivenGroup, GroupRecord
<1>2. errors \in Nat /\ (gr.errorCount = 0 => errors <= 1)
  BY <1>1, ConstantsAssumption DEF Least
<1>3. BecomeError(g, gr, us) =>
        \/ Splits(gr) /\ PushHalves(g, groups)
        \/ /\ ~Splits(gr) /\ group' = groups
           /\ groupQueue' = IF errors <= 1 THEN Push(g, groupQueue) ELSE groupQueue
  BY DEF BecomeError
<1>4. [gr EXCEPT !.state = "ERROR", !.errorCount = errors] \in GroupRecord
  <2> HIDE DEF errors
  <2> QED BY <1>1, <1>2 DEF GroupRecord, GroupState
<1>5. /\ groups \in [Group -> GroupRecord]
      /\ \A h \in Group \ {g} : groups[h] = group[h]
      /\ groups[g].urls = gr.urls /\ groups[g].algorithm = gr.algorithm
      /\ groups[g].malicious = gr.malicious /\ groups[g].state = "ERROR"
      /\ groups[g].errorCount = errors
  <2> HIDE DEF errors
  <2> QED BY <1>1, <1>4 DEF TypeOK, GroupRecord
<1> HIDE DEF groups, errors
<1>6. CASE Splits(gr) /\ PushHalves(g, groups)
  <2>1. Cardinality(groups[g].urls) > 1 /\ groups[g].urls = group[g].urls
    BY <1>1, <1>5, <1>6 DEF Splits
  <2>2. /\ group'[g] = groups[g]
        /\ \A h \in Group \ {g} : \/ group'[h] = group[h]
                                  \/ Unused(h) /\ \E x : group'[h] = NewGroup(x)
        /\ Elems(groupQueue) \subseteq Elems(groupQueue')
    BY <1>1, <1>5, <1>6, <2>1, PushHalvesOutcome
  <2> QED BY <1>1, <1>5, <2>2, <1>6 DEF Outcome
<1>7. CASE /\ ~Splits(gr) /\ group' = groups
           /\ groupQueue' = IF errors <= 1 THEN Push(g, groupQueue) ELSE groupQueue
  <2>1. groupQueue \in Seq(Group) /\ group[g].errorCount \in Nat
    BY <1>1 DEF TypeOK
  <2>2. Elems(groupQueue) \subseteq Elems(groupQueue')
        /\ (errors <= 1 => g \in Elems(groupQueue'))
    BY <1>1, <1>7, <2>1, PushElems
  <2>3. group[g].errorCount >= 1 \/ g \in Elems(groupQueue')
    BY <1>1, <1>2, <2>1, <2>2
  <2> QED BY <1>1, <1>5, <1>7, <2>2, <2>3 DEF Outcome
<1> QED BY <1>3, <1>6, <1>7

\* Steps that give a group another code, verdict, algorithm or state.
LEMMA SameTurnsOutcome ==
  ASSUME IInv, NEW g \in Group, NEW gr \in GroupRecord,
         gr.urls = group[g].urls, gr.errorCount = group[g].errorCount,
         group' = [group EXCEPT ![g] = gr], UNCHANGED groupQueue,
         gr.state = "VISITED" /\ Splits(gr) =>
           group[g].state = "VISITED" /\ Splits(group[g])
  PROVE  Outcome(g, gr)
<1>1. group'[g] = gr /\ \A h \in Group \ {g} : group'[h] = group[h]
  BY DEF IInv, TypeOK
<1> QED BY <1>1 DEF Outcome, Elems

\* A group that has URLs keeps them, so that what is narrowed stays so.
LEMMA NarrowedStays ==
  ASSUME NEW g \in Group, Narrowed(g),
         \A h \in Group : group[h].urls # {} => group'[h].urls = group[h].urls,
         group'[g].urls = group[g].urls
  PROVE  Narrowed(g)'
<1> SUFFICES ASSUME NEW u \in group[g].urls
             PROVE  \E h \in Group :
                      /\ u \in group'[h].urls
                      /\ Cardinality(group'[h].urls) < Cardinality(group[g].urls)
  BY DEF Narrowed
<1>1. PICK h \in Group : /\ u \in group[h].urls
                         /\ Cardinality(group[h].urls) < Cardinality(group[g].urls)
  BY DEF Narrowed
<1>2. group'[h].urls = group[h].urls
  BY <1>1
<1> QED BY <1>1, <1>2

\* Sessions that work on a group after the step did so before it.
NoNewWorker ==
  \A t \in Session : session'[t].pc \in {"held", "visiting"} =>
    /\ session[t].pc \in {"held", "visiting"}
    /\ session'[t].group = session[t].group
    /\ session'[t].pc = "held" => session[t].pc = "held"

LEMMA OutcomeKeeps ==
  ASSUME FInv, IInv', NEW g \in Group, handed[g] > 0, NEW gr, Outcome(g, gr),
         handed' = handed, NoNewWorker,
         handed[g] <= 1 /\ Splits(group[g]) => Splits(gr),
         handed[g] <= 1 => \A s \in Session : Works(s, g)' =>
                             /\ ~Splits(gr)
                             /\ session'[s].pc = "held" => ~gr.malicious
  PROVE  FInv'
<1>1. ASSUME NEW t \in Session, NEW h \in Group, Works(t, h)'
      PROVE  Works(t, h) /\ (session'[t].pc = "held" => session[t].pc = "held")
  BY <1>1 DEF NoNewWorker, Works
<1>2. Splits(group'[g]) <=> Splits(gr)
  BY DEF Outcome, Splits
<1>3. \A h \in Group : group[h].urls # {} => group'[h].urls = group[h].urls
  BY DEF Outcome, Unused
<1>4. \A h \in Group : FateInv(h) /\ GroupTurns(h) /\ handed[h] \in Nat
  BY DEF FInv, IInv, TypeOK, QueueInv
<1>5. FateInv(g)'
  <2>1. group[g].errorCount >= 1 =>
          g \in Elems(groupQueue) \/ handed[g] >= 2 \/ Splits(group[g])
    BY <1>4 DEF FateInv
  <2>2. handed[g] >= 2 \/ handed[g] <= 1
    BY <1>4
  <2>3. group'[g].errorCount >= 1 =>
          g \in Elems(groupQueue') \/ handed[g] >= 2 \/ Splits(group'[g])
    BY <1>2, <2>1, <2>2 DEF Outcome
  <2>4. ASSUME handed[g] <= 1, NEW s \in Session, Works(s, g)'
        PROVE  /\ ~Splits(group'[g])
               /\ session'[s].pc = "held" => ~group'[g].malicious
               /\ \A t \in Session : Works(t, g)' => t = s
    <3>1. \A t \in Session : Works(t, g)' => t = s
      BY <1>1, <1>4, <2>4 DEF FateInv
    <3> QED BY <1>2, <2>4, <3>1 DEF Outcome
  <2> QED BY <2>3, <2>4, <1>4 DEF FateInv
<1>6. ASSUME NEW h \in Group, h # g
      PROVE  /\ FateInv(h)'
             /\ group'[h].state = "VISITED" /\ Splits(group'[h]) => Narrowed(h)'
  <2>1. CASE group'[h] = group[h]
    <3>1. h \in Elems(groupQueue) => h \in Elems(groupQueue')
      BY DEF Outcome
    <3>2. FateInv(h)'
      BY <1>1, <1>4, <2>1, <3>1 DEF FateInv
    <3>3. group[h].state = "VISITED" /\ Splits(group[h]) => Narrowed(h)
      BY DEF FInv, MaliciousGroupIsNarrowed, Narrowed
    <3> QED BY <2>1, <3>2, <3>3, <1>3, NarrowedStays
  <2>2. CASE Unused(h) /\ \E us : group'[h] = NewGroup(us)
    <3>1. /\ group'[h].algorithm = "none" /\ ~group'[h].malicious
          /\ group'[h].errorCount = 0 /\ group'[h].state = "NONE"
      BY <2>2 DEF NewGroup
    <3>2. handed[h] = 0
      BY <1>4, <2>2 DEF GroupTurns
    <3>3. \A s \in Session : ~Works(s, h)'
      BY <3>2 DEF IInv, SessionInv, Works
    <3> QED BY <3>1, <3>3 DEF FateInv
  <2> QED BY <1>6, <2>1, <2>2 DEF Outcome
<1>7. group'[g].state = "VISITED" /\ Splits(group'[g]) => Narrowed(g)'
  <2>1. CASE group[g].state = "VISITED" /\ Splits(group[g])
    <3>1. Narrowed(g)
      BY <2>1 DEF FInv, MaliciousGroupIsNarrowed, Narrowed
    <3> QED BY <3>1, <1>3, NarrowedStays DEF Outcome
  <2> QED BY <2>1, <1>2 DEF Outcome
<1>8. MaliciousGroupIsNarrowed'
  BY <1>6, <1>7 DEF MaliciousGroupIsNarrowed, Narrowed
<1> QED BY <1>5, <1>6, <1>8 DEF FInv

\* Steps that leave the groups and the deque alone.
LEMMA QuietKeeps ==
  ASSUME FInv, IInv', UNCHANGED <<group, groupQueue, handed>>, NoNewWorker
  PROVE  FInv'
<1>1. ASSUME NEW t \in Session, NEW h \in Group, Works(t, h)'
      PROVE  Works(t, h) /\ (session'[t].pc = "held" => session[t].pc = "held")
  BY <1>1 DEF NoNewWorker, Works
<1>2. ASSUME NEW h \in Group PROVE FateInv(h)'
  <2>1. FateInv(h)
    BY DEF FInv
  <2> QED BY <1>1, <2>1 DEF FateInv, Elems
<1>3. MaliciousGroupIsNarrowed'
  BY DEF FInv, MaliciousGroupIsNarrowed
<1> QED BY <1>2, <1>3 DEF FInv

\* A session is given group g.
LEMMA HandOutKeeps ==
  ASSUME FInv, IInv', NEW s \in Session, NEW g \in Group,
         NEW new, new.pc = "held", new.group = g,
         session' = [session EXCEPT ![s] = new],
         handed' = [handed EXCEPT ![g] = @ + 1],
         \A h \in Group \ {g} : group'[h] = group[h],
         \/ group'[g] = group[g]
         \/ Unused(g) /\ \E us : group'[g] = NewGroup(us),
         Elems(groupQueue) \ {g} \subseteq Elems(groupQueue')
  PROVE  FInv'
<1>1. /\ session'[s].group = g /\ session'[s].pc = "held"
      /\ \A t \in Session \ {s} : session'[t] = session[t]
  BY DEF FInv, IInv, TypeOK
<1>2. /\ handed'[g] = handed[g] + 1
      /\ \A h \in Group \ {g} : handed'[h] = handed[h]
      /\ \A h \in Group : FateInv(h) /\ GroupTurns(h) /\ handed[h] \in Nat
                          /\ group[h].errorCount \in Nat
  BY DEF FInv, IInv, TypeOK, QueueInv, GroupRecord
<1>3. \A h \in Group : group[h].urls # {} => group'[h].urls = group[h].urls
  BY DEF Unused
<1>4. FateInv(g)'
  <2>1. CASE handed[g] = 0
    <3>1. /\ group'[g].algorithm = "none" /\ ~group'[g].malicious
          /\ group'[g].errorCount = 0
      <4>1. group[g].algorithm = "none" /\ ~group[g].malicious
        BY <2>1, <1>2 DEF FateInv
      <4>2. group[g].errorCount = 0
        BY <2>1, <1>2 DEF GroupTurns
      <4>3. ASSUME NEW us, group'[g] = NewGroup(us)
            PROVE  /\ group'[g].algorithm = "none" /\ ~group'[g].malicious
                   /\ group'[g].errorCount = 0
        BY <4>3 DEF NewGroup
      <4> QED BY <4>1, <4>2, <4>3
    <3>2. \A t \in Session : Works(t, g)' => t = s
      <4>1. \A t \in Session : ~Works(t, g)
        BY <2>1, <1>2 DEF FInv, IInv, SessionInv, Works
      <4> QED BY <4>1, <1>1 DEF Works
    <3> QED BY <3>1, <3>2 DEF FateInv, Splits
  <2>2. CASE handed[g] # 0
    <3>1. handed'[g] >= 2
      BY <2>2, <1>2
    <3> QED BY <3>1, <2>2, <1>2 DEF FateInv
  <2> QED BY <2>1, <2>2
<1>5. ASSUME NEW h \in Group, h # g PROVE FateInv(h)'
  <2>1. ASSUME NEW t \in Session, Works(t, h)'
        PROVE  Works(t, h) /\ session'[t].pc = session[t].pc
    BY <1>1, <1>5, <2>1 DEF Works
  <2>2. /\ group'[h] = group[h] /\ handed'[h] = handed[h] /\ FateInv(h)
        /\ h \in Elems(groupQueue) => h \in Elems(groupQueue')
    BY <1>2, <1>5
  <2> QED BY <2>1, <2>2 DEF FateInv
<1>6. ASSUME NEW h \in Group, group'[h].state = "VISITED", Splits(group'[h])
      PROVE  Narrowed(h)'
  <2>1. group'[h] = group[h]
    <3>1. ASSUME NEW us, group'[h] = NewGroup(us) PROVE FALSE
      BY <1>6, <3>1 DEF NewGroup
    <3> QED BY <3>1
  <2>2. Narrowed(h)
    BY <1>6, <2>1 DEF FInv, MaliciousGroupIsNarrowed, Narrowed
  <2> QED BY <2>1, <2>2, <1>3, NarrowedStays
<1>7. MaliciousGroupIsNarrowed'
  BY <1>6 DEF MaliciousGroupIsNarrowed, Narrowed
<1> QED BY <1>4, <1>5, <1>7 DEF FInv

\* A step of session s alone makes nobody else work on a group.
LEMMA OneSession ==
  ASSUME IInv, NEW s \in Session, NEW new, session' = [session EXCEPT ![s] = new],
         new.pc \in {"held", "visiting"} =>
           /\ session[s].pc \in {"held", "visiting"} /\ new.group = session[s].group
           /\ new.pc = "held" => session[s].pc = "held"
  PROVE  /\ NoNewWorker
         /\ \A t \in Session, g \in Group : Works(t, g)' =>
              Works(t, g) /\ (t = s => new.pc \in {"held", "visiting"})
         /\ session'[s] = new
<1>1. session'[s] = new /\ \A t \in Session \ {s} : session'[t] = session[t]
  BY DEF IInv, TypeOK
<1>2. NoNewWorker
  BY <1>1 DEF NoNewWorker
<1> QED BY <1>1, <1>2 DEF NoNewWorker, Works

\* What a session knows of the group it works on.
LEMMA WorkersGroup ==
  ASSUME FInv, NEW s \in Session, session[s].pc \in {"held", "visiting"},
         NEW g, g = session[s].group
  PROVE  /\ g \in Group /\ handed[g] > 0 /\ group[g] \in GroupRecord
         /\ handed[g] <= 1 => /\ ~Splits(group[g])
                              /\ session[s].pc = "held" => ~group[g].malicious
                              /\ \A t \in Session : Works(t, g) => t = s
<1>1. g \in Group /\ handed[g] > 0 /\ group[g] \in GroupRecord
  BY SessionGroup DEF FInv, HasGroup
<1> QED BY <1>1 DEF FInv, FateInv, Works

\* The visit of session s is over.
LEMMA LastStep ==
  ASSUME FInv, IInv', NEW s \in Session, session[s].pc \in {"held", "visiting"},
         session' = [session EXCEPT ![s] = IdleSession],
         NEW gr, Outcome(session[s].group, gr), handed' = handed
  PROVE  FInv'
<1>1. PICK g \in Group : g = session[s].group /\ handed[g] > 0
  BY WorkersGroup
<1>2. NoNewWorker /\ \A t \in Session, h \in Group : Works(t, h)' => Works(t, h) /\ t # s
  <2> DEFINE new == IdleSession
  <2>1. new.pc \notin {"held", "visiting"}
    BY DEF IdleSession
  <2>2. IInv /\ session' = [session EXCEPT ![s] = new]
    BY DEF FInv
  <2> HIDE DEF new
  <2> QED BY <2>1, <2>2, OneSession
<1>3. handed[g] <= 1 => ~Splits(group[g]) /\ \A t \in Session : ~Works(t, g)'
  BY <1>1, <1>2, WorkersGroup
<1> QED BY <1>1, <1>2, <1>3, OutcomeKeeps

LEMMA StartFate ==
  ASSUME FInv, IInv', NEW s \in Session, NEW alg \in Algorithms, Start(s, alg)
  PROVE  FInv'
<1>1. /\ session[s].pc = "held"
      /\ session' = [session EXCEPT ![s] = [session[s] EXCEPT !.pc = "visiting",
                                                              !.marked = FALSE]]
      /\ handed' = handed /\ groupQueue' = groupQueue
  BY DEF Start
<1>2. PICK g \in Group : g = session[s].group /\ handed[g] > 0 /\ group[g] \in GroupRecord
  BY <1>1, WorkersGroup
<1> DEFINE gr  == [group[g] EXCEPT !.algorithm = alg, !.state = "VISITING"]
           new == [session[s] EXCEPT !.pc = "visiting", !.marked = FALSE]
<1>3. /\ new.pc = "visiting" /\ new.group = session[s].group
      /\ session' = [session EXCEPT ![s] = new]
  <2>1. session[s] \in SessionRecord
    BY DEF FInv, IInv, TypeOK
  <2> QED BY <1>1, <2>1 DEF SessionRecord
<1>4. /\ gr \in GroupRecord /\ gr.urls = group[g].urls /\ gr.state = "VISITING"
      /\ gr.errorCount = group[g].errorCount /\ gr.malicious = group[g].malicious
      /\ group' = [group EXCEPT ![g] = gr]
  BY <1>2 DEF GroupRecord, GroupState, Start
<1> HIDE DEF gr, new
<1>5. Outcome(g, gr)
  BY <1>1, <1>4, SameTurnsOutcome DEF FInv
<1>6. /\ NoNewWorker /\ session'[s] = new
      /\ \A t \in Session, h \in Group : Works(t, h)' => Works(t, h)
  BY <1>1, <1>3, OneSession DEF FInv
<1>7. handed[g] <= 1 =>
        /\ ~Splits(group[g]) /\ ~gr.malicious
        /\ \A t \in Session : Works(t, g)' => t = s
  BY <1>1, <1>2, <1>4, <1>6, WorkersGroup
<1>8. handed[g] <= 1 => ~Splits(gr)
  BY <1>7 DEF Splits
<1> QED BY <1>1, <1>2, <1>3, <1>5, <1>6, <1>7, <1>8, OutcomeKeeps

LEMMA PlainEventFate ==
  ASSUME FInv, IInv', NEW s \in Session, PlainEvent(s)
  PROVE  FInv'
<1>1. /\ session[s].pc = "visiting" /\ handed' = handed /\ groupQueue' = groupQueue
      /\ session' = [session EXCEPT ![s] = [session[s] EXCEPT !.dirty = TRUE]]
  BY DEF PlainEvent
<1>2. PICK g \in Group : g = session[s].group /\ handed[g] > 0 /\ group[g] \in GroupRecord
  BY <1>1, WorkersGroup
<1> DEFINE gr  == [group[g] EXCEPT !.malicious = TRUE]
           new == [session[s] EXCEPT !.dirty = TRUE]
<1>3. /\ new.pc = "visiting" /\ new.group = session[s].group
      /\ session' = [session EXCEPT ![s] = new]
  <2>1. session[s] \in SessionRecord
    BY DEF FInv, IInv, TypeOK
  <2> QED BY <1>1, <2>1 DEF SessionRecord
<1>4. /\ gr \in GroupRecord /\ gr.urls = group[g].urls
      /\ gr.errorCount = group[g].errorCount /\ gr.algorithm = group[g].algorithm
      /\ group' = [group EXCEPT ![g] = gr]
      /\ group[g].algorithm = "seq" \/ Cardinality(group[g].urls) = 1
  BY <1>2 DEF GroupRecord, PlainEvent
<1> HIDE DEF gr, new
<1>5. ~Splits(gr)
  BY <1>4 DEF Splits
<1>6. Outcome(g, gr)
  BY <1>1, <1>4, <1>5, SameTurnsOutcome DEF FInv
<1>7. /\ NoNewWorker /\ session'[s] = new
      /\ \A t \in Session, h \in Group : Works(t, h)' => Works(t, h)
  BY <1>1, <1>3, OneSession DEF FInv
<1>8. handed[g] <= 1 => ~Splits(group[g]) /\ \A t \in Session : Works(t, g)' => t = s
  BY <1>1, <1>2, <1>7, WorkersGroup
<1> QED BY <1>1, <1>2, <1>3, <1>5, <1>6, <1>7, <1>8, OutcomeKeeps

LEMMA CompleteFate ==
  ASSUME FInv, IInv', NEW s \in Session, session[s].pc = "visiting",
         NEW mal \in BOOLEAN, NEW us, Complete(s, mal, us)
  PROVE  FInv'
<1>1. PICK g \in Group : g = session[s].group /\ handed[g] > 0 /\ group[g] \in GroupRecord
  BY WorkersGroup
<1> DEFINE gr == [group[g] EXCEPT !.malicious = mal]
<1>2. TypeOK /\ QueueInv
  BY DEF FInv, IInv
<1>3. GivenGroup(g, gr)
  BY <1>1 DEF GivenGroup, GroupRecord
<1>4. /\ \E x : BecomeVisited(g, gr, x)
      /\ session' = [session EXCEPT ![s] = IdleSession] /\ handed' = handed
  BY <1>1 DEF Complete
<1> HIDE DEF gr
<1>5. Outcome(g, gr)
  BY <1>2, <1>3, <1>4, VisitedOutcome
<1> QED BY <1>1, <1>4, <1>5, LastStep

LEMMA FinishFate ==
  ASSUME FInv, IInv', NEW s \in Session, NEW bad, NEW c \in Codes,
         Finish(s, bad, c) \/ FinishWithWarning(s, bad, c)
  PROVE  FInv'
<1>1. session[s].pc = "visiting"
  BY DEF Finish, FinishWithWarning
<1>2. /\ session[s].dirty \in BOOLEAN
      /\ (group[session[s].group].malicious \/ session[s].dirty) \in BOOLEAN
  BY <1>1, SessionGroup DEF HasGroup, SessionRecord, FInv
<1> QED BY <1>1, <1>2, CompleteFate DEF Finish, FinishWithWarning

LEMMA DacEventFate ==
  ASSUME FInv, IInv', NEW s \in Session, DacEvent(s)
  PROVE  FInv'
<1>1. session[s].pc = "visiting" /\ TypeOK /\ QueueInv
  BY DEF DacEvent, FInv, IInv
<1>2. PICK g \in Group : g = session[s].group /\ handed[g] > 0 /\ group[g] \in GroupRecord
  BY <1>1, WorkersGroup
<1> DEFINE gr == [group[g] EXCEPT !.malicious = TRUE]
<1>3. GivenGroup(g, gr)
  BY <1>2 DEF GivenGroup, GroupRecord
<1>4. /\ \E x : BecomeVisited(g, gr, x)
      /\ session' = [session EXCEPT ![s] = IdleSession] /\ handed' = handed
  BY <1>2 DEF DacEvent
<1> HIDE DEF gr
<1>5. Outcome(g, gr)
  BY <1>1, <1>3, <1>4, VisitedOutcome
<1> QED BY <1>1, <1>2, <1>4, <1>5, LastStep

LEMMA FinishWithErrorFate ==
  ASSUME FInv, IInv', NEW s \in Session, NEW c \in Codes, FinishWithError(s, c)
  PROVE  FInv'
<1>1. session[s].pc = "visiting" /\ TypeOK /\ QueueInv
  BY DEF FinishWithError, FInv, IInv
<1>2. PICK g \in Group : g = session[s].group /\ handed[g] > 0 /\ group[g] \in GroupRecord
  BY <1>1, WorkersGroup
<1> DEFINE gr == [group[g] EXCEPT !.malicious = session[s].dirty, !.code = c]
           us == SetMalicious(url, group[g], group[g].algorithm, session[s].dirty,
                              FALSE, session[s].events)
<1>3. session[s].dirty \in BOOLEAN
  BY <1>1 DEF TypeOK, SessionRecord
<1>4. GivenGroup(g, gr)
  BY <1>2, <1>3 DEF GivenGroup, GroupRecord
<1>5. /\ BecomeError(g, gr, us)
      /\ session' = [session EXCEPT ![s] = IdleSession] /\ handed' = handed
  BY <1>2 DEF FinishWithError
<1> HIDE DEF gr, us
<1>6. Outcome(g, gr)
  BY <1>1, <1>4, <1>5, ErrorOutcome
<1> QED BY <1>1, <1>2, <1>5, <1>6, LastStep

\* Steps that leave verdict and algorithm of group g alone.
LEMMA SameVerdictKeeps ==
  ASSUME FInv, IInv', NEW g \in Group, handed[g] > 0, NEW gr, Outcome(g, gr),
         gr.algorithm = group[g].algorithm, gr.malicious = group[g].malicious,
         handed' = handed, NoNewWorker
  PROVE  FInv'
<1>1. Splits(gr) <=> Splits(group[g])
  BY DEF Outcome, Splits
<1>2. \A t \in Session : Works(t, g)' =>
        Works(t, g) /\ (session'[t].pc = "held" => session[t].pc = "held")
  BY DEF NoNewWorker, Works
<1>3. handed[g] <= 1 => \A t \in Session : Works(t, g)' =>
        /\ ~Splits(gr)
        /\ session'[t].pc = "held" => ~gr.malicious
  BY <1>1, <1>2 DEF FInv, FateInv
<1> QED BY <1>1, <1>3, OutcomeKeeps

LEMMA FailGroupFate ==
  ASSUME FInv, IInv', NEW g \in Group, handed[g] > 0, NEW c \in Codes \cup {OK},
         NEW clear, FailGroup(g, c, clear), NoNewWorker
  PROVE  FInv'
<1> DEFINE gr == [group[g] EXCEPT !.code = c]
<1>1. TypeOK /\ QueueInv /\ group[g] \in GroupRecord
  BY DEF FInv, IInv, TypeOK
<1>2. /\ GivenGroup(g, gr) /\ gr.algorithm = group[g].algorithm
      /\ gr.malicious = group[g].malicious
  BY <1>1 DEF GivenGroup, GroupRecord
<1>3. (\E us : BecomeError(g, gr, us)) /\ handed' = handed
  BY DEF FailGroup
<1> HIDE DEF gr
<1>4. Outcome(g, gr)
  BY <1>1, <1>2, <1>3, ErrorOutcome
<1> QED BY <1>2, <1>3, <1>4, SameVerdictKeeps

LEMMA MarkErrorFate ==
  ASSUME FInv, IInv', NEW s \in Session, NEW c, NEW clear, MarkError(s, c, clear),
         session[s].group \in Group => c \in Codes \cup {OK}
  PROVE  FInv'
<1> DEFINE new == [session[s] EXCEPT !.marked = TRUE]
<1>1. session[s] \in SessionRecord /\ session[s].group # NoGroup
  BY DEF MarkError, FInv, IInv, TypeOK
<1>2. session[s].group \in Group /\ handed[session[s].group] > 0
  BY <1>1 DEF SessionRecord, FInv, IInv, SessionInv
<1>3. /\ new.group = session[s].group /\ new.pc = session[s].pc
      /\ session' = [session EXCEPT ![s] = new]
  BY <1>1 DEF SessionRecord, MarkError
<1> HIDE DEF new
<1>4. NoNewWorker
  BY <1>3, OneSession DEF FInv
<1> QED BY <1>2, <1>4, FailGroupFate DEF MarkError

LEMMA ReceiverEndsFate ==
  ASSUME FInv, IInv', NEW s \in Session, NEW c \in Codes \cup {OK}, ReceiverEnds(s, c)
  PROVE  FInv'
<1>1. /\ session[s].pc \in {"held", "visiting"} /\ handed' = handed
      /\ groupQueue' = groupQueue
      /\ session' = [session EXCEPT ![s] = [session[s] EXCEPT !.pc = "deaf"]]
  BY DEF ReceiverEnds
<1>2. PICK g \in Group : g = session[s].group /\ handed[g] > 0 /\ group[g] \in GroupRecord
  BY <1>1, WorkersGroup
<1> DEFINE gr  == [group[g] EXCEPT !.code = c]
           new == [session[s] EXCEPT !.pc = "deaf"]
<1>3. /\ gr \in GroupRecord /\ gr.urls = group[g].urls /\ gr.state = group[g].state
      /\ gr.errorCount = group[g].errorCount /\ gr.algorithm = group[g].algorithm
      /\ gr.malicious = group[g].malicious
      /\ group' = [group EXCEPT ![g] = gr]
  BY <1>2 DEF GroupRecord, ReceiverEnds
<1>4. new.pc = "deaf" /\ session' = [session EXCEPT ![s] = new]
  <2>1. session[s] \in SessionRecord
    BY DEF FInv, IInv, TypeOK
  <2> QED BY <1>1, <2>1 DEF SessionRecord
<1> HIDE DEF gr, new
<1>5. Splits(gr) <=> Splits(group[g])
  BY <1>3 DEF Splits
<1>6. Outcome(g, gr)
  BY <1>1, <1>3, <1>5, SameTurnsOutcome DEF FInv
<1>7. NoNewWorker
  BY <1>4, OneSession DEF FInv
<1> QED BY <1>1, <1>2, <1>3, <1>6, <1>7, SameVerdictKeeps

\* A step of a session that works on nothing and goes on so.
LEMMA IdleStep ==
  ASSUME FInv, IInv', NEW s \in Session, NEW new, new.pc \notin {"held", "visiting"},
         session' = [session EXCEPT ![s] = new],
         UNCHANGED <<group, groupQueue, handed>>
  PROVE  FInv'
<1>1. NoNewWorker
  BY OneSession DEF FInv
<1> QED BY <1>1, QuietKeeps

LEMMA BeginTakeFate ==
  ASSUME FInv, IInv', NEW s \in Session, BeginTake(s)
  PROVE  FInv'
<1> DEFINE n   == Least(GroupSize, Cardinality(urlQueue))
           new == [session[s] EXCEPT !.pc = "fill", !.got = {},
                     !.want = IF n = 0 THEN 1 ELSE n]
           pop == [session[s] EXCEPT !.pc = "pop"]
<1>1. session[s] \in SessionRecord
  BY DEF FInv, IInv, TypeOK
<1>2. new.pc = "fill" /\ pop.pc = "pop"
  <2> HIDE DEF n
  <2> QED BY <1>1 DEF SessionRecord
<1>3. /\ \/ session' = [session EXCEPT ![s] = new]
         \/ session' = [session EXCEPT ![s] = pop]
      /\ UNCHANGED <<group, groupQueue, handed>>
  BY DEF BeginTake
<1> HIDE DEF new, pop
<1> QED BY <1>2, <1>3, IdleStep

LEMMA PopGroupFate ==
  ASSUME FInv, NEW s \in Session, PopGroup(s)
  PROVE  FInv'
<1>0. IInv'
  BY PopGroupKeeps DEF FInv
<1>1. CASE groupQueue = <<>> /\ session' = [session EXCEPT ![s].pc = "broken"]
           /\ UNCHANGED <<groupQueue, handed>>
  <2> DEFINE new == [session[s] EXCEPT !.pc = "broken"]
  <2>1. session[s] \in SessionRecord
    BY DEF FInv, IInv, TypeOK
  <2>2. new.pc = "broken" /\ session' = [session EXCEPT ![s] = new]
    BY <1>1, <2>1 DEF SessionRecord
  <2> HIDE DEF new
  <2> QED BY <1>0, <1>1, <2>2, IdleStep DEF PopGroup
<1>2. ASSUME NEW g, g = Head(groupQueue),
             groupQueue # <<>>, groupQueue' = Tail(groupQueue),
             handed' = [handed EXCEPT ![g] = @ + 1],
             session' = [session EXCEPT ![s] =
                           [IdleSession EXCEPT !.pc = "held", !.group = g]]
      PROVE  FInv'
  <2>1. groupQueue \in Seq(Group) /\ NoDuplicates(groupQueue)
    BY DEF FInv, IInv, TypeOK, QueueInv
  <2>2. g \in Group /\ Elems(groupQueue') = Elems(groupQueue) \ {g}
    BY <2>1, <1>2, TailElems
  <2>3. group' = group
    BY DEF PopGroup
  <2>4. /\ \A h \in Group \ {g} : group'[h] = group[h]
        /\ group'[g] = group[g]
        /\ Elems(groupQueue) \ {g} \subseteq Elems(groupQueue')
    BY <2>2, <2>3
  <2> DEFINE new == [IdleSession EXCEPT !.pc = "held", !.group = g]
  <2>5. /\ new.pc = "held" /\ new.group = g
        /\ session' = [session EXCEPT ![s] = new]
    BY <1>2 DEF IdleSession
  <2> HIDE DEF new
  <2> QED BY <1>0, <1>2, <2>2, <2>4, <2>5, HandOutKeeps
<1> QED BY <1>1, <1>2 DEF PopGroup

LEMMA TakeUrlFate ==
  ASSUME FInv, NEW s \in Session, NEW u \in Urls, TakeUrl(s, u)
  PROVE  FInv'
<1>0. IInv'
  BY TakeUrlKeeps DEF FInv
<1> DEFINE got == session[s].got \cup {u}
<1>1. session[s].pc = "fill" /\ groupQueue' = groupQueue /\ session[s] \in SessionRecord
  <2>1. session[s].pc = "fill" /\ groupQueue' = groupQueue
    BY DEF TakeUrl
  <2> QED BY <2>1 DEF FInv, IInv, TypeOK
<1> HIDE DEF got
<1>2. CASE session' = [session EXCEPT ![s].got = got] /\ UNCHANGED <<group, handed>>
  <2> DEFINE new == [session[s] EXCEPT !.got = got]
  <2>1. new.pc = "fill" /\ session' = [session EXCEPT ![s] = new]
    BY <1>1, <1>2 DEF SessionRecord
  <2> HIDE DEF new
  <2> QED BY <1>0, <1>1, <1>2, <2>1, IdleStep
<1>3. ASSUME NEW g \in Group, Unused(g),
             group' = [group EXCEPT ![g] = NewGroup(got)],
             handed' = [handed EXCEPT ![g] = @ + 1],
             session' = [session EXCEPT ![s] = [IdleSession EXCEPT !.pc = "held", !.group = g]]
      PROVE  FInv'
  <2>1. group'[g] = NewGroup(got) /\ \A h \in Group \ {g} : group'[h] = group[h]
    BY <1>3 DEF FInv, IInv, TypeOK
  <2>2. \E us : group'[g] = NewGroup(us)
    BY <2>1
  <2>3. Elems(groupQueue) \ {g} \subseteq Elems(groupQueue')
    BY <1>1
  <2> DEFINE new == [IdleSession EXCEPT !.pc = "held", !.group = g]
  <2>4. /\ new.pc = "held" /\ new.group = g
        /\ session' = [session EXCEPT ![s] = new]
    BY <1>3 DEF IdleSession
  <2> HIDE DEF new
  <2>5. Unused(g) /\ handed' = [handed EXCEPT ![g] = @ + 1]
    BY <1>3
  <2> QED BY <1>0, <2>1, <2>2, <2>3, <2>4, <2>5, HandOutKeeps
<1> QED BY <1>2, <1>3 DEF TakeUrl, got

\* A session remembers a change.
LEMMA MemoryStep ==
  ASSUME FInv, IInv', NEW s \in Session, NEW new,
         new.pc = session[s].pc, new.group = session[s].group,
         session' = [session EXCEPT ![s] = new],
         UNCHANGED <<group, groupQueue, handed>>
  PROVE  FInv'
<1>1. NoNewWorker
  BY OneSession DEF FInv
<1> QED BY <1>1, QuietKeeps

LEMMA IgnoredEventFate ==
  ASSUME FInv, IInv', NEW s \in Session, IgnoredEvent(s) PROVE FInv'
<1> DEFINE new == [session[s] EXCEPT !.dirty = TRUE]
<1>1. session[s] \in SessionRecord
  BY DEF FInv, IInv, TypeOK
<1>2. /\ new.pc = session[s].pc /\ new.group = session[s].group
      /\ session' = [session EXCEPT ![s] = new]
      /\ UNCHANGED <<group, groupQueue, handed>>
  BY <1>1 DEF IgnoredEvent, SessionRecord
<1> HIDE DEF new
<1> QED BY <1>2, MemoryStep

LEMMA BulkEventFate ==
  ASSUME FInv, IInv', NEW s \in Session, BulkEvent(s) PROVE FInv'
<1>1. session[s] \in SessionRecord
  BY DEF FInv, IInv, TypeOK
<1>2. PICK found : session' = [session EXCEPT ![s].dirty = TRUE, ![s].events = @ \cup found]
  BY DEF BulkEvent
<1> DEFINE new == [session[s] EXCEPT !.dirty = TRUE, !.events = @ \cup found]
<1>3. /\ new.pc = session[s].pc /\ new.group = session[s].group
      /\ session' = [session EXCEPT ![s] = new]
  BY <1>1, <1>2 DEF SessionRecord
<1>4. UNCHANGED <<group, groupQueue, handed>>
  BY DEF BulkEvent
<1> HIDE DEF new
<1> QED BY <1>3, <1>4, MemoryStep

LEMMA GiveUpFate ==
  ASSUME FInv, IInv', NEW s \in Session, GiveUp(s) PROVE FInv'
<1> DEFINE new == IdleSession
<1>1. /\ new.pc \notin {"held", "visiting"} /\ session' = [session EXCEPT ![s] = new]
      /\ UNCHANGED <<group, groupQueue, handed>>
  BY DEF GiveUp, IdleSession
<1> HIDE DEF new
<1> QED BY <1>1, IdleStep

LEMMA InitFate == Init => FInv
<1> SUFFICES ASSUME Init PROVE FInv
  OBVIOUS
<1>1. IInv
  BY InitInv
<1>2. \A g \in Group : /\ group[g] = NewGroup({}) /\ handed[g] = 0
  BY DEF Init
<1>3. \A s \in Session : session[s].pc = "idle"
  BY DEF Init, IdleSession
<1>4. \A g \in Group : FateInv(g)
  BY <1>2, <1>3 DEF FateInv, NewGroup, Works
<1>5. MaliciousGroupIsNarrowed
  BY <1>2 DEF MaliciousGroupIsNarrowed, NewGroup
<1> QED BY <1>1, <1>4, <1>5 DEF FInv

LEMMA NextFate == FInv /\ [Next]_vars => FInv'
<1> SUFFICES ASSUME FInv, [Next]_vars PROVE FInv'
  OBVIOUS
<1>1. IInv'
  BY NextInv DEF FInv
<1>2. CASE \/ \E u \in Urls : AddUrl(u)
           \/ UNCHANGED vars
  <2>1. UNCHANGED <<group, groupQueue, handed, session>>
    BY <1>2 DEF AddUrl, vars
  <2>2. NoNewWorker
    BY <2>1 DEF NoNewWorker
  <2> QED BY <1>1, <2>1, <2>2, QuietKeeps
<1>3. CASE \E s \in Session : IgnoredEvent(s) \/ GiveUp(s)
  BY <1>1, <1>3, IgnoredEventFate, GiveUpFate
<1>4. CASE \E s \in Session : \/ BeginTake(s) \/ PopGroup(s)
                             \/ \E u \in Urls : TakeUrl(s, u)
  BY <1>1, <1>4, BeginTakeFate, PopGroupFate, TakeUrlFate
<1>5. ASSUME NEW s \in Session, Visit(s) PROVE FInv'
  <2>1. CASE \E alg \in Algorithms : Start(s, alg)
    BY <1>1, <2>1, StartFate
  <2>2. CASE BulkEvent(s)
    BY <1>1, <2>2, BulkEventFate
  <2>3. CASE PlainEvent(s)
    BY <1>1, <2>3, PlainEventFate
  <2>4. CASE DacEvent(s)
    BY <1>1, <2>4, DacEventFate
  <2>5. CASE \E bad \in SUBSET Urls, c \in Codes :
               Finish(s, bad, c) \/ FinishWithWarning(s, bad, c)
    BY <1>1, <2>5, FinishFate
  <2>6. CASE \E c \in Codes : FinishWithError(s, c)
    BY <1>1, <2>6, FinishWithErrorFate
  <2> QED BY <1>5, <2>1, <2>2, <2>3, <2>4, <2>5, <2>6 DEF Visit
<1>6. \A g \in Group : group[g].code \in Codes \cup {OK}
  BY DEF FInv, IInv, TypeOK, GroupRecord
<1>7. CASE \/ \E s \in Session, c \in Codes, clear \in BOOLEAN : MarkError(s, c, clear)
           \/ \E s \in Session : MarkError(s, group[session[s].group].code, FALSE)
  BY <1>1, <1>6, <1>7, MarkErrorFate
<1>8. CASE \/ \E g \in Group, c \in Codes, clear \in BOOLEAN : MarkLate(g, c, clear)
           \/ \E g \in Group : MarkLate(g, group[g].code, FALSE)
  <2>1. PICK g \in Group, c \in Codes \cup {OK}, clear \in BOOLEAN : MarkLate(g, c, clear)
    BY <1>6, <1>8
  <2>2. handed[g] > 0 /\ FailGroup(g, c, clear) /\ session' = session
    BY <2>1 DEF MarkLate
  <2>3. NoNewWorker
    BY <2>2 DEF NoNewWorker
  <2> QED BY <1>1, <2>2, <2>3, FailGroupFate
<1>9. CASE \E s \in Session, c \in Codes :
             ReceiverEnds(s, c) \/ ReceiverEnds(s, group[session[s].group].code)
  <2>1. \A s \in Session : session[s].pc \in {"held", "visiting"} =>
          group[session[s].group].code \in Codes \cup {OK}
    BY <1>6, WorkersGroup
  <2>2. PICK s \in Session, c \in Codes \cup {OK} : ReceiverEnds(s, c)
    BY <1>9, <2>1 DEF ReceiverEnds
  <2> QED BY <1>1, <2>2, ReceiverEndsFate
<1> QED
  BY <1>2, <1>3, <1>4, <1>5, <1>7, <1>8, <1>9 DEF Next

\* UrlGroupsController.update: a group that failed, by whichever threads and
\* however often, is pushed again, was visited a second time, or was split.
THEOREM RetryIsNotForgotten == Spec => []FailedGroupIsRetried
<1>1. FInv => FailedGroupIsRetried
  BY DEF FInv, FateInv, FailedGroupIsRetried, Queued, Elems
<1> QED BY <1>1, InitFate, NextFate, PTL DEF Spec

\* Divide and conquer ends: a malicious group of several URLs leaves each of
\* its URLs to a strictly smaller group, whatever the other sessions do.
THEOREM SplitIsComplete == Spec => []MaliciousGroupIsNarrowed
<1>1. FInv => MaliciousGroupIsNarrowed
  BY DEF FInv
<1> QED BY <1>1, InitFate, NextFate, PTL DEF Spec

-----------------------------------------------------------------------------
(* No URL is lost                                                          *)

\* Every visit without an error gives its URLs a verdict or splits the group:
\* the sequential algorithm does so for groups of one URL only, to which the
\* documentation restricts it (Readme.txt:37-41).
EveryVisitDecides == "seq" \notin Algorithms \/ GroupSize = 1

Logged(u) == u \in log.safe \cup log.malicious

\* A group in the deque, or that of a client which is to be marked if it gives
\* up and is in one of the states P, contains u.
InCustody(u, P) ==
  \E g \in Group : /\ u \in group[g].urls
                   /\ \/ g \in Elems(groupQueue)
                      \/ \E s \in Session : Holds(s, g) /\ session[s].pc \in P

\* While a URL is VISITED without a verdict in the logs, its next visit has
\* not begun yet: it is somebody's who will put it into VISITING.
CustodyInv(u) ==
  /\ u \in known =>
       \/ u \in urlQueue
       \/ \E s \in Session : u \in session[s].got
       \/ Logged(u) \/ url[u].state = "ERROR" \/ InCustody(u, HasGroup)
  /\ url[u].state = "VISITED" => Logged(u) \/ InCustody(u, {"held", "deaf"})

\* What a client has fits its pc.
SessionUse(s) ==
  /\ session[s].pc # "fill" => session[s].got = {}
  /\ session[s].pc \notin HasGroup => session[s].group = NoGroup
  /\ session[s].pc = "visiting" => group[session[s].group].algorithm # "none"

\* Groups of one URL stay such.
SingleInv ==
  GroupSize = 1 =>
    /\ \A g \in Group : Cardinality(group[g].urls) <= 1
    /\ \A s \in Session : session[s].pc = "fill" =>
         session[s].got = {} /\ session[s].want = 1

LInv == /\ IInv
        /\ \A s \in Session : SessionUse(s)
        /\ SingleInv
        /\ \A u \in Urls : CustodyInv(u)

\* Client t keeps the group it has on behalf of u, if any.
Keeps(t, u, P) ==
  session[t].pc \in P /\ ~session[t].marked /\ u \in group[session[t].group].urls =>
    /\ session'[t].group = session[t].group
    /\ session'[t].pc \in P /\ ~session'[t].marked

LEMMA CustodyStays ==
  ASSUME NEW u, NEW P, InCustody(u, P),
         \A h \in Group : u \in group[h].urls => u \in group'[h].urls,
         \A h \in Group : h \in Elems(groupQueue) => h \in Elems(groupQueue'),
         \A t \in Session : Keeps(t, u, P)
  PROVE  InCustody(u, P)'
<1>1. PICK g \in Group : /\ u \in group[g].urls
                         /\ \/ g \in Elems(groupQueue)
                            \/ \E s \in Session : Holds(s, g) /\ session[s].pc \in P
  BY Zenon DEF InCustody
<1>2. u \in group'[g].urls
  BY Zenon, <1>1
<1>3. CASE g \in Elems(groupQueue)
  <2>1. g \in Elems(groupQueue')
    BY Zenon, <1>3
  <2> QED BY Zenon, <1>2, <2>1 DEF InCustody
<1>4. ASSUME NEW s \in Session, Holds(s, g), session[s].pc \in P
      PROVE  InCustody(u, P)'
  <2>1. session[s].group = g /\ ~session[s].marked
    BY Zenon, <1>4 DEF Holds
  <2>2. session'[s].group = g /\ session'[s].pc \in P /\ ~session'[s].marked
    BY Zenon, <1>1, <1>4, <2>1 DEF Keeps
  <2>3. Holds(s, g)'
    BY Zenon, <2>2 DEF Holds
  <2> QED BY Zenon, <1>2, <2>2, <2>3 DEF InCustody
<1> QED BY Zenon, <1>1, <1>3, <1>4

\* A URL whose state does not change stays where it was.
LEMMA CustodyInvStays ==
  ASSUME NEW u, CustodyInv(u),
         u \in known' => u \in known,
         u \in urlQueue => u \in urlQueue',
         \A t \in Session : u \in session[t].got => u \in session'[t].got,
         Logged(u) => Logged(u)',
         url'[u].state = url[u].state,
         InCustody(u, HasGroup) => InCustody(u, HasGroup)',
         InCustody(u, {"held", "deaf"}) => InCustody(u, {"held", "deaf"})'
  PROVE  CustodyInv(u)'
BY Zenon DEF CustodyInv

-----------------------------------------------------------------------------
(* The verdicts of a visit                                                 *)

\* What the end of a turn does to the URLs of group g.
LEMMA VisitedUrls ==
  ASSUME TypeOK, NEW g, NEW gr, NEW us \in [Urls -> UrlRecord],
         GivenGroup(g, gr), BecomeVisited(g, gr, us)
  PROVE  /\ \A u \in Urls : Logged(u) => Logged(u)'
         /\ \A u \in Urls \ gr.urls : url'[u] = us[u]
         /\ \A u \in gr.urls :
              \/ url'[u].state = "ERROR"
              \/ us[u].state # "VISITED" /\ us[u].malicious \in {"true", "false"}
                   => Logged(u)'
<1> DEFINE target == [u \in gr.urls |-> IF us[u].code = OK THEN "VISITED" ELSE "ERROR"]
<1>1. SetUrlStates(us, target) /\ DOMAIN target = gr.urls /\ gr.urls \in SUBSET Urls
  BY DEF BecomeVisited, GivenGroup, GroupRecord
<1>2. \A u \in gr.urls : target[u] = "VISITED" \/ target[u] = "ERROR"
  OBVIOUS
<1> HIDE DEF target
<1>3. \A u \in Urls : Logged(u) => Logged(u)'
  BY <1>1 DEF SetUrlStates, Logged
<1>4. \A u \in Urls \ gr.urls : url'[u] = us[u]
  BY <1>1 DEF SetUrlStates
<1>5. \A u \in gr.urls : us[u] \in UrlRecord
  BY <1>1
<1>6. \A u \in gr.urls : url'[u].state = target[u]
  BY <1>1, <1>5 DEF SetUrlStates, UrlRecord
<1>7. ASSUME NEW u \in gr.urls, target[u] = "VISITED", us[u].state # "VISITED",
             us[u].malicious \in {"true", "false"}
      PROVE  Logged(u)'
  BY <1>1, <1>7 DEF SetUrlStates, Logged
<1> QED BY <1>2, <1>3, <1>4, <1>6, <1>7

LEMMA FailedUrls ==
  ASSUME TypeOK, NEW g, NEW gr, NEW us \in [Urls -> UrlRecord],
         GivenGroup(g, gr), BecomeError(g, gr, us)
  PROVE  /\ \A u \in Urls : Logged(u) => Logged(u)'
         /\ \A u \in Urls \ gr.urls : url'[u] = us[u]
         /\ \A u \in gr.urls : url'[u].state = "ERROR"
<1> DEFINE target == [u \in gr.urls |-> "ERROR"]
           bad    == SetCodes(us, gr.urls, gr.code)
<1>1. /\ SetUrlStates(bad, target) /\ DOMAIN target = gr.urls
      /\ gr.urls \in SUBSET Urls /\ gr.code \in Codes \cup {OK}
  BY DEF BecomeError, GivenGroup, GroupRecord
<1>2. \A u \in gr.urls : target[u] = "ERROR"
  OBVIOUS
<1>3. bad \in [Urls -> UrlRecord]
  BY <1>1, SetCodesType
<1>4. \A u \in Urls \ gr.urls : bad[u] = us[u]
  BY DEF SetCodes
<1> HIDE DEF target, bad
<1>5. \A u \in Urls : Logged(u) => Logged(u)'
  BY <1>1 DEF SetUrlStates, Logged
<1>6. \A u \in Urls \ gr.urls : url'[u] = us[u]
  BY <1>1, <1>4 DEF SetUrlStates
<1>7. \A u \in gr.urls : bad[u] \in UrlRecord
  BY <1>1, <1>3
<1>8. \A u \in gr.urls : url'[u].state = "ERROR"
  BY <1>1, <1>2, <1>7 DEF SetUrlStates, UrlRecord
<1> QED BY <1>5, <1>6, <1>8

LEMMA SetMaliciousState ==
  ASSUME NEW us \in [Urls -> UrlRecord], NEW gr, NEW alg, NEW mal, NEW noMap, NEW csv
  PROVE  \A u \in Urls : SetMalicious(us, gr, alg, mal, noMap, csv)[u].state = us[u].state
<1>1. \A u \in Urls : \A v : [us[u] EXCEPT !.malicious = v].state = us[u].state
  BY DEF UrlRecord
<1> QED BY <1>1 DEF SetMalicious

\* The verdict every URL of a group gets that is not split.
LEMMA VerdictOfVisit ==
  ASSUME NEW us \in [Urls -> UrlRecord], NEW gr, NEW alg, NEW mal \in BOOLEAN,
         NEW noMap, NEW csv,
         gr.urls \in SUBSET Urls,
         alg = "bulk" \/ ~mal \/ Cardinality(gr.urls) = 1
  PROVE  \A u \in gr.urls :
           SetMalicious(us, gr, alg, mal, noMap, csv)[u].malicious \in {"true", "false"}
<1>1. \A u \in Urls : us[u] \in UrlRecord
  OBVIOUS
<1> QED BY <1>1 DEF SetMalicious, UrlRecord

\* A group that splits leaves every URL to a group in the deque.
LEMMA SplitQueues ==
  ASSUME TypeOK, QueueInv, NEW g \in Group, NEW groups, handed[g] > 0,
         groups \in [Group -> GroupRecord], PushHalves(g, groups)
  PROVE  \A u \in groups[g].urls : \E h \in Group :
           u \in group'[h].urls /\ h \in Elems(groupQueue')
<1>1. PICK first \in SUBSET groups[g].urls, g1 \in {x \in Group : Unused(x)},
           g2 \in {x \in Group : Unused(x)} :
        /\ g1 # g2
        /\ group' = [groups EXCEPT ![g1] = NewGroup(first),
                                   ![g2] = NewGroup(groups[g].urls \ first)]
        /\ groupQueue' = Push(g2, Push(g1, groupQueue))
  BY DEF PushHalves
<1>2. /\ g1 \in Group /\ g2 \in Group
      /\ group'[g1].urls = first /\ group'[g2].urls = groups[g].urls \ first
  BY <1>1 DEF NewGroup
<1>3. g1 \in Elems(groupQueue') /\ g2 \in Elems(groupQueue')
  <2>1. groupQueue \in Seq(Group)
    BY DEF TypeOK
  <2> DEFINE q1 == Push(g1, groupQueue)
  <2>2. q1 \in Seq(Group) /\ Elems(q1) = Elems(groupQueue) \cup {g1}
    BY <1>2, <2>1, PushElems
  <2>3. groupQueue' = Push(g2, q1)
    BY <1>1
  <2> HIDE DEF q1
  <2>4. q1 \in Seq(Group) /\ g2 \in Group
    BY <1>2, <2>2
  <2>5. Elems(Push(g2, q1)) = Elems(q1) \cup {g2}
    BY <2>4, PushElems
  <2> QED BY <2>2, <2>3, <2>5
<1>4. ASSUME NEW u \in groups[g].urls
      PROVE  \E h \in Group : u \in group'[h].urls /\ h \in Elems(groupQueue')
  <2>1. u \in group'[g1].urls \/ u \in group'[g2].urls
    BY <1>2
  <2> QED BY Zenon, <1>2, <1>3, <2>1
<1> QED BY Zenon, <1>4

\* Groups of one URL are not split.
LEMMA NoSplit ==
  ASSUME LInv, NEW g, NEW gr, GivenGroup(g, gr),
         (\E us : BecomeVisited(g, gr, us)) \/ (\E us : BecomeError(g, gr, us)),
         GroupSize = 1
  PROVE  \A h \in Group : group'[h].urls = group[h].urls
<1>1. g \in Group /\ gr.urls = group[g].urls
  BY DEF GivenGroup
<1>2. Cardinality(gr.urls) <= 1
  BY <1>1 DEF LInv, SingleInv
<1>3. IsFiniteSet(gr.urls)
  <2>1. gr.urls \in SUBSET Urls
    BY DEF GivenGroup, GroupRecord
  <2> QED BY <2>1, ConstantsAssumption, FS_Subset
<1>4. ~Splits(gr)
  BY <1>2, <1>3, FS_CardinalityType DEF Splits
<1>5. \E st, ec : group' = [group EXCEPT ![g] = [gr EXCEPT !.state = st, !.errorCount = ec]]
                 \/ group' = [group EXCEPT ![g] = [gr EXCEPT !.state = st]]
  BY <1>4 DEF BecomeVisited, BecomeError
<1>6. group \in [Group -> GroupRecord] /\ gr \in GroupRecord
  BY DEF LInv, IInv, TypeOK, GivenGroup
<1> QED BY <1>1, <1>5, <1>6 DEF GroupRecord

\* A session that has a group has one that is in use.
LEMMA GroupInUse ==
  ASSUME LInv, NEW t \in Session, session[t].group \in Group
  PROVE  /\ session[t].pc \in HasGroup /\ session[t].got = {}
         /\ handed[session[t].group] > 0 /\ ~Unused(session[t].group)
<1>1. session[t].pc \in HasGroup
  BY ConstantsAssumption DEF LInv, SessionUse
<1>2. handed[session[t].group] > 0
  BY DEF LInv, IInv, SessionInv
<1>3. ~Unused(session[t].group)
  BY <1>2 DEF LInv, IInv, QueueInv, GroupTurns
<1>4. session[t].got = {}
  BY <1>1 DEF LInv, SessionUse, HasGroup
<1> QED BY <1>1, <1>2, <1>3, <1>4

\* A step on group g, taken by a thread of session s or of nobody.
LEMMA TurnStep ==
  ASSUME LInv, IInv', NEW g \in Group, NEW gr, Outcome(g, gr),
         gr.algorithm = group[g].algorithm \/ gr.algorithm # "none",
         GroupSize = 1 => \A h \in Group : group'[h].urls = group[h].urls,
         UNCHANGED <<known, urlQueue>>,
         \A u \in Urls : Logged(u) => Logged(u)',
         \A u \in Urls \ group[g].urls : url'[u].state = url[u].state,
         NEW s, \A t \in Session \ {s} : session'[t] = session[t],
         s \in Session => session[s].group = g /\ SessionUse(s)' /\ session'[s].pc # "fill",
         \A u \in group[g].urls : CustodyInv(u)'
  PROVE  LInv'
<1>1. \A h \in Group : ~Unused(h) => group'[h].urls = group[h].urls
  BY DEF Outcome, Unused
<1>2. \A h \in Group \ {g} : ~Unused(h) => group'[h] = group[h]
  BY DEF Outcome
<1>3. group'[g].algorithm = gr.algorithm
  BY DEF Outcome
<1>4. \A t \in Session : SessionUse(t)'
  <2> SUFFICES ASSUME NEW t \in Session, t # s PROVE SessionUse(t)'
    BY Zenon
  <2>1. session'[t] = session[t] /\ SessionUse(t)
    BY Zenon DEF LInv
  <2>2. ASSUME session[t].pc = "visiting"
        PROVE  group'[session[t].group].algorithm # "none"
    <3>1. session[t].group \in Group
      BY <2>2 DEF LInv, IInv, SessionInv
    <3>2. ~Unused(session[t].group)
      BY <3>1, GroupInUse
    <3>3. group[session[t].group].algorithm # "none"
      BY Zenon, <2>1, <2>2 DEF SessionUse
    <3> QED BY Zenon, <3>1, <3>2, <3>3, <1>2, <1>3
  <2> QED BY Zenon, <2>1, <2>2 DEF SessionUse
<1>5. SingleInv'
  <2> SUFFICES ASSUME GroupSize = 1
               PROVE  /\ \A h \in Group : Cardinality(group'[h].urls) <= 1
                      /\ \A t \in Session : session'[t].pc = "fill" =>
                           session'[t].got = {} /\ session'[t].want = 1
    BY Zenon DEF SingleInv
  <2>1. \A h \in Group : group'[h].urls = group[h].urls
    BY Zenon
  <2>2. SingleInv
    BY DEF LInv
  <2> QED BY Zenon, <2>1, <2>2 DEF SingleInv
<1>6. ASSUME NEW u \in Urls, u \notin group[g].urls PROVE CustodyInv(u)'
  <2>1. \A h \in Group : u \in group[h].urls => u \in group'[h].urls
    BY <1>1 DEF Unused
  <2>2. \A h \in Group : h \in Elems(groupQueue) => h \in Elems(groupQueue')
    BY DEF Outcome
  <2>3. ASSUME NEW P, NEW t \in Session PROVE Keeps(t, u, P)
    BY Zenon, <1>6 DEF Keeps
  <2>4. InCustody(u, HasGroup) => InCustody(u, HasGroup)'
    BY Zenon, <2>1, <2>2, <2>3, CustodyStays
  <2>5. InCustody(u, {"held", "deaf"}) => InCustody(u, {"held", "deaf"})'
    BY Zenon, <2>1, <2>2, <2>3, CustodyStays
  <2>6. \A t \in Session : u \in session[t].got => u \in session'[t].got
    <3>1. s \in Session => session[s].got = {}
      BY GroupInUse
    <3> QED BY <3>1
  <2>7. CustodyInv(u) /\ (u \in known' => u \in known) /\ (u \in urlQueue => u \in urlQueue')
    BY DEF LInv
  <2>8. url'[u].state = url[u].state /\ (Logged(u) => Logged(u)')
    BY <1>6
  <2> QED BY Zenon, <2>4, <2>5, <2>6, <2>7, <2>8, CustodyInvStays
<1> QED BY Zenon, <1>4, <1>5, <1>6 DEF LInv

-----------------------------------------------------------------------------
(* The steps on a group                                                    *)

LEMMA FailedCustody ==
  ASSUME NEW u, url'[u].state = "ERROR"
  PROVE  CustodyInv(u)'
BY DEF CustodyInv

LEMMA LoggedCustody ==
  ASSUME NEW u, Logged(u)'
  PROVE  CustodyInv(u)'
BY Zenon DEF CustodyInv

LEMMA QueuedCustody ==
  ASSUME NEW u, NEW h \in Group, u \in group'[h].urls, h \in Elems(groupQueue')
  PROVE  CustodyInv(u)'
<1>1. \A P : InCustody(u, P)'
  BY Zenon DEF InCustody
<1> QED BY Zenon, <1>1 DEF CustodyInv

\* A step after which session s has no group.
LEMMA IdleUse ==
  ASSUME LInv, NEW s \in Session, session' = [session EXCEPT ![s] = IdleSession]
  PROVE  /\ SessionUse(s)' /\ session'[s].pc # "fill"
         /\ \A t \in Session \ {s} : session'[t] = session[t]
<1>1. /\ session'[s] = IdleSession
      /\ \A t \in Session \ {s} : session'[t] = session[t]
  BY DEF LInv, IInv, TypeOK
<1> QED BY <1>1 DEF SessionUse, IdleSession, HasGroup

LEMMA OneUrl ==
  ASSUME NEW us \in SUBSET Urls, us # {}
  PROVE  Cardinality(us) \in Nat /\ (Cardinality(us) > 1 \/ Cardinality(us) = 1)
<1>1. IsFiniteSet(us)
  BY ConstantsAssumption, FS_Subset
<1>2. Cardinality(us) \in Nat /\ Cardinality(us) # 0
  BY <1>1, FS_CardinalityType, FS_EmptySet
<1> QED BY <1>2

\* A group with a verdict.
LEMMA WithVerdict ==
  ASSUME NEW g \in Group, group[g] \in GroupRecord, handed[g] > 0,
         NEW mal \in BOOLEAN, NEW gr, gr = [group[g] EXCEPT !.malicious = mal]
  PROVE  /\ gr \in GroupRecord /\ gr.urls = group[g].urls /\ gr.malicious = mal
         /\ gr.algorithm = group[g].algorithm /\ GivenGroup(g, gr)
<1>1. /\ gr \in GroupRecord /\ gr.urls = group[g].urls /\ gr.malicious = mal
      /\ gr.algorithm = group[g].algorithm /\ gr.errorCount = group[g].errorCount
  BY DEF GroupRecord
<1> QED BY Zenon, <1>1 DEF GivenGroup

\* The visit of session s ends without an error.
LEMMA EndOfVisit ==
  ASSUME EveryVisitDecides, LInv, IInv', NEW s \in Session, session[s].pc = "visiting",
         NEW g, g = session[s].group,
         NEW mal \in BOOLEAN, NEW codes \in [Urls -> UrlRecord],
         \A u \in Urls : codes[u].state = url[u].state,
         NEW noMap, NEW csv,
         BecomeVisited(g, [group[g] EXCEPT !.malicious = mal],
                       SetMalicious(codes, group[g], group[g].algorithm, mal, noMap, csv)),
         session' = [session EXCEPT ![s] = IdleSession],
         UNCHANGED <<known, urlQueue, handed>>
  PROVE  LInv'
<1>1. /\ g \in Group /\ group[g] \in GroupRecord /\ handed[g] > 0 /\ ~Unused(g)
      /\ group[g].algorithm # "none" /\ TypeOK /\ QueueInv
  <2>1. g \in Group /\ group[g] \in GroupRecord /\ handed[g] > 0
    BY SessionGroup DEF HasGroup, LInv
  <2>2. ~Unused(g) /\ group[g].algorithm # "none"
    BY <2>1, GroupInUse DEF LInv, SessionUse
  <2> QED BY <2>1, <2>2 DEF LInv, IInv
<1> DEFINE gr == [group[g] EXCEPT !.malicious = mal]
           us == SetMalicious(codes, group[g], group[g].algorithm, mal, noMap, csv)
           groups == [group EXCEPT ![g] = [gr EXCEPT !.state = "VISITED"]]
<1>2. /\ gr \in GroupRecord /\ gr.urls = group[g].urls /\ gr.malicious = mal
      /\ gr.algorithm = group[g].algorithm /\ GivenGroup(g, gr)
  BY <1>1, WithVerdict
<1>3. us \in [Urls -> UrlRecord] /\ \A u \in Urls : us[u].state = url[u].state
  <2>1. us \in [Urls -> UrlRecord]
    BY Zenon, SetMaliciousType
  <2>2. \A u \in Urls : us[u].state = codes[u].state
    BY SetMaliciousState
  <2> QED BY Zenon, <2>1, <2>2
<1>4. /\ BecomeVisited(g, gr, us)
      /\ Splits(gr) => PushHalves(g, groups)
  BY DEF BecomeVisited
<1>5. groups \in [Group -> GroupRecord] /\ groups[g].urls = group[g].urls
  <2>1. [gr EXCEPT !.state = "VISITED"] \in GroupRecord
    BY <1>2 DEF GroupRecord, GroupState
  <2>2. [gr EXCEPT !.state = "VISITED"].urls = group[g].urls
    BY <1>2 DEF GroupRecord
  <2> HIDE DEF gr
  <2> QED BY <1>1, <2>1, <2>2 DEF TypeOK
<1>6. ~Splits(gr) => \A u \in group[g].urls : us[u].malicious \in {"true", "false"}
  <2> SUFFICES ASSUME ~Splits(gr)
               PROVE  \A u \in group[g].urls : us[u].malicious \in {"true", "false"}
    OBVIOUS
  <2>1. ~(group[g].algorithm = "dac" /\ mal /\ Cardinality(group[g].urls) > 1)
    BY <1>2 DEF Splits
  <2>2. group[g].urls # {} /\ group[g].urls \in SUBSET Urls
    BY <1>1 DEF Unused, GroupRecord
  <2>3. /\ Cardinality(group[g].urls) \in Nat
        /\ Cardinality(group[g].urls) > 1 \/ Cardinality(group[g].urls) = 1
    BY <2>2, OneUrl
  <2>4. group[g].algorithm \in {"dac", "bulk"} \/ Cardinality(group[g].urls) = 1
    <3>1. group[g].algorithm \in Algorithms
      BY <1>1 DEF GroupRecord
    <3>2. CASE "seq" \notin Algorithms
      BY <3>1, <3>2, ConstantsAssumption
    <3>3. CASE GroupSize = 1
      <4>1. Cardinality(group[g].urls) <= 1
        BY <1>1, <3>3 DEF LInv, SingleInv
      <4> QED BY <2>3, <4>1
    <3> QED BY <3>2, <3>3 DEF EveryVisitDecides
  <2>5. group[g].algorithm = "bulk" \/ ~mal \/ Cardinality(group[g].urls) = 1
    BY <2>1, <2>3, <2>4
  <2> QED BY <2>2, <2>5, VerdictOfVisit
<1> HIDE DEF gr, us, groups
<1>7. Outcome(g, gr)
  BY <1>1, <1>2, <1>4, VisitedOutcome
<1>8. /\ \A u \in Urls : Logged(u) => Logged(u)'
      /\ \A u \in Urls \ gr.urls : url'[u] = us[u]
      /\ \A u \in gr.urls :
           \/ url'[u].state = "ERROR"
           \/ us[u].state # "VISITED" /\ us[u].malicious \in {"true", "false"}
                => Logged(u)'
  BY <1>1, <1>2, <1>3, <1>4, VisitedUrls
<1>9. GroupSize = 1 => \A h \in Group : group'[h].urls = group[h].urls
  BY <1>2, <1>4, NoSplit
<1>10. /\ SessionUse(s)' /\ session'[s].pc # "fill"
       /\ \A t \in Session \ {s} : session'[t] = session[t]
  BY IdleUse
<1>11. ASSUME NEW u \in group[g].urls PROVE CustodyInv(u)'
  <2>0. u \in Urls
    BY <1>1 DEF GroupRecord
  <2>1. CASE Splits(gr)
    <3>1. PICK h \in Group : u \in group'[h].urls /\ h \in Elems(groupQueue')
      BY <1>1, <1>4, <1>5, <2>1, SplitQueues
    <3> QED BY <3>1, QueuedCustody
  <2>2. CASE url'[u].state = "ERROR"
    BY <2>2, FailedCustody
  <2>3. CASE ~Splits(gr) /\ us[u].state # "VISITED" /\ url'[u].state # "ERROR"
    <3>1. Logged(u)'
      BY <1>2, <1>6, <1>8, <2>3
    <3> QED BY <3>1, LoggedCustody
  <2>4. CASE us[u].state = "VISITED"
    <3>1. Logged(u) \/ InCustody(u, {"held", "deaf"})
      BY <1>3, <2>0, <2>4 DEF LInv, CustodyInv
    <3>2. CASE Logged(u)
      BY <1>8, <2>0, <3>2, LoggedCustody
    <3>3. CASE InCustody(u, {"held", "deaf"})
      <4>1. \A h \in Group : u \in group[h].urls => u \in group'[h].urls
        BY <1>7 DEF Outcome, Unused
      <4>2. \A h \in Group : h \in Elems(groupQueue) => h \in Elems(groupQueue')
        BY <1>7 DEF Outcome
      <4>3. \A t \in Session : Keeps(t, u, {"held", "deaf"})
        BY <1>10 DEF Keeps
      <4>4. InCustody(u, {"held", "deaf"})'
        BY Zenon, <3>3, <4>1, <4>2, <4>3, CustodyStays
      <4>5. InCustody(u, HasGroup)'
        BY <4>4 DEF InCustody, HasGroup
      <4> QED BY Zenon, <4>4, <4>5 DEF CustodyInv
    <3> QED BY <3>1, <3>2, <3>3
  <2> QED BY <2>1, <2>2, <2>3, <2>4
<1>12. \A u \in Urls \ group[g].urls : url'[u].state = url[u].state
  BY <1>2, <1>3, <1>8
<1>13. UNCHANGED <<known, urlQueue>>
  OBVIOUS
<1>14. gr.algorithm = group[g].algorithm
  BY <1>2
<1> QED BY <1>1, <1>7, <1>8, <1>9, <1>10, <1>11, <1>12, <1>13, <1>14, TurnStep

\* A group fails.
LEMMA GroupFails ==
  ASSUME LInv, IInv', NEW g \in Group, NEW gr, NEW us \in [Urls -> UrlRecord],
         \A u \in Urls : us[u].state = url[u].state,
         GivenGroup(g, gr), gr.algorithm = group[g].algorithm,
         BecomeError(g, gr, us), UNCHANGED <<known, urlQueue, handed>>,
         NEW s, \A t \in Session \ {s} : session'[t] = session[t],
         s \in Session => session[s].group = g /\ SessionUse(s)' /\ session'[s].pc # "fill"
  PROVE  LInv'
<1>1. TypeOK /\ QueueInv /\ gr.urls = group[g].urls
  BY DEF LInv, IInv, GivenGroup
<1>2. Outcome(g, gr)
  BY <1>1, ErrorOutcome
<1>3. /\ \A u \in Urls : Logged(u) => Logged(u)'
      /\ \A u \in Urls \ gr.urls : url'[u] = us[u]
      /\ \A u \in gr.urls : url'[u].state = "ERROR"
  BY <1>1, FailedUrls
<1>4. GroupSize = 1 => \A h \in Group : group'[h].urls = group[h].urls
  BY NoSplit
<1>5. \A u \in group[g].urls : CustodyInv(u)'
  BY <1>1, <1>3, FailedCustody
<1>6. \A u \in Urls \ group[g].urls : url'[u].state = url[u].state
  BY <1>1, <1>3
<1>7. UNCHANGED <<known, urlQueue>>
  OBVIOUS
<1> QED BY <1>2, <1>3, <1>4, <1>5, <1>6, <1>7, TurnStep

LEMMA CompleteCustody ==
  ASSUME EveryVisitDecides, LInv, IInv', NEW s \in Session, session[s].pc = "visiting",
         NEW mal \in BOOLEAN, NEW codes \in [Urls -> UrlRecord],
         \A u \in Urls : codes[u].state = url[u].state,
         Complete(s, mal, codes)
  PROVE  LInv'
<1>1. PICK g : g = session[s].group
  OBVIOUS
<1>2. /\ BecomeVisited(g, [group[g] EXCEPT !.malicious = mal],
                       SetMalicious(codes, group[g], group[g].algorithm, mal, FALSE,
                                    session[s].events))
      /\ session' = [session EXCEPT ![s] = IdleSession]
      /\ UNCHANGED <<known, urlQueue, handed>>
  BY <1>1 DEF Complete
<1> QED BY <1>1, <1>2, EndOfVisit

LEMMA SetCodesState ==
  ASSUME NEW us \in [Urls -> UrlRecord], NEW bad, NEW code \in Codes \cup {OK}
  PROVE  \A u \in Urls : SetCodes(us, bad, code)[u].state = us[u].state
<1>1. \A u \in Urls : [us[u] EXCEPT !.code = code].state = us[u].state
  BY DEF UrlRecord
<1> QED BY <1>1 DEF SetCodes

LEMMA FinishCustody ==
  ASSUME EveryVisitDecides, LInv, IInv', NEW s \in Session, NEW bad, NEW c \in Codes,
         Finish(s, bad, c) \/ FinishWithWarning(s, bad, c)
  PROVE  LInv'
<1>1. session[s].pc = "visiting"
  BY DEF Finish, FinishWithWarning
<1>2. /\ session[s].dirty \in BOOLEAN
      /\ (group[session[s].group].malicious \/ session[s].dirty) \in BOOLEAN
  BY <1>1, SessionGroup DEF HasGroup, SessionRecord, LInv
<1>3. url \in [Urls -> UrlRecord]
  BY DEF LInv, IInv, TypeOK
<1>4. /\ SetCodes(url, bad, c) \in [Urls -> UrlRecord]
      /\ \A u \in Urls : SetCodes(url, bad, c)[u].state = url[u].state
  BY <1>3, SetCodesType, SetCodesState
<1> DEFINE urls == group[session[s].group].urls
           ok   == SetCodes(url, urls, OK)
<1>5. ok \in [Urls -> UrlRecord] /\ \A u \in Urls : ok[u].state = url[u].state
  BY <1>3, SetCodesType, SetCodesState
<1>6. ReportedCodes(urls, bad, c) = SetCodes(ok, bad, c)
  BY DEF ReportedCodes
<1> HIDE DEF urls, ok
<1>7. /\ ReportedCodes(urls, bad, c) \in [Urls -> UrlRecord]
      /\ \A u \in Urls : ReportedCodes(urls, bad, c)[u].state = url[u].state
  <2>1. SetCodes(ok, bad, c) \in [Urls -> UrlRecord]
    BY <1>5, SetCodesType
  <2>2. \A u \in Urls : SetCodes(ok, bad, c)[u].state = ok[u].state
    BY <1>5, SetCodesState
  <2> QED BY <1>5, <1>6, <2>1, <2>2
<1>8. CASE Finish(s, bad, c)
  <2>1. Complete(s, group[session[s].group].malicious \/ session[s].dirty,
                 SetCodes(url, bad, c))
    BY <1>8 DEF Finish
  <2> QED BY <1>1, <1>2, <1>4, <2>1, CompleteCustody
<1>9. CASE FinishWithWarning(s, bad, c)
  <2>1. Complete(s, session[s].dirty, ReportedCodes(urls, bad, c))
    BY <1>9 DEF FinishWithWarning, urls
  <2> QED BY <1>1, <1>2, <1>7, <2>1, CompleteCustody
<1> QED BY <1>8, <1>9

LEMMA DacEventCustody ==
  ASSUME EveryVisitDecides, LInv, IInv', NEW s \in Session, DacEvent(s)
  PROVE  LInv'
<1>1. PICK g : g = session[s].group
  OBVIOUS
<1>2. /\ session[s].pc = "visiting" /\ group[g].algorithm = "dac"
      /\ BecomeVisited(g, [group[g] EXCEPT !.malicious = TRUE],
                       SetMalicious(url, group[g], group[g].algorithm, TRUE, TRUE, {}))
      /\ session' = [session EXCEPT ![s] = IdleSession]
      /\ UNCHANGED <<known, urlQueue, handed>>
  BY <1>1 DEF DacEvent
<1>3. url \in [Urls -> UrlRecord]
  BY DEF LInv, IInv, TypeOK
<1> QED BY <1>1, <1>2, <1>3, EndOfVisit

LEMMA FinishWithErrorCustody ==
  ASSUME LInv, IInv', NEW s \in Session, NEW c \in Codes, FinishWithError(s, c)
  PROVE  LInv'
<1>1. PICK g : g = session[s].group
  OBVIOUS
<1>2. session[s].pc = "visiting" /\ url \in [Urls -> UrlRecord]
  BY DEF FinishWithError, LInv, IInv, TypeOK
<1>3. /\ g \in Group /\ group[g] \in GroupRecord /\ handed[g] > 0
      /\ session[s].dirty \in BOOLEAN
  BY <1>1, <1>2, SessionGroup DEF HasGroup, SessionRecord, LInv
<1> DEFINE gr == [group[g] EXCEPT !.malicious = session[s].dirty, !.code = c]
           us == SetMalicious(url, group[g], group[g].algorithm, session[s].dirty,
                              FALSE, session[s].events)
<1>4. /\ BecomeError(g, gr, us) /\ UNCHANGED <<known, urlQueue, handed>>
      /\ session' = [session EXCEPT ![s] = IdleSession]
  BY <1>1 DEF FinishWithError
<1>5. us \in [Urls -> UrlRecord] /\ \A u \in Urls : us[u].state = url[u].state
  <2>1. us \in [Urls -> UrlRecord]
    BY <1>2, SetMaliciousType
  <2>2. \A u \in Urls : us[u].state = url[u].state
    BY <1>2 DEF SetMalicious, UrlRecord
  <2> QED BY <2>1, <2>2
<1>6. GivenGroup(g, gr) /\ gr.algorithm = group[g].algorithm
  <2>1. GivenGroup(g, gr)
    BY <1>3 DEF GivenGroup, GroupRecord
  <2>2. gr.algorithm = group[g].algorithm
    BY <1>3 DEF GroupRecord
  <2> QED BY <2>1, <2>2
<1> HIDE DEF gr, us
<1>7. /\ SessionUse(s)' /\ session'[s].pc # "fill"
      /\ \A t \in Session \ {s} : session'[t] = session[t]
  BY <1>4, IdleUse
<1> QED BY <1>1, <1>3, <1>4, <1>5, <1>6, <1>7, GroupFails

LEMMA FailGroupCustody ==
  ASSUME LInv, IInv', NEW g \in Group, handed[g] > 0, NEW c \in Codes \cup {OK}, NEW clear,
         FailGroup(g, c, clear),
         NEW s, \A t \in Session \ {s} : session'[t] = session[t],
         s \in Session => session[s].group = g /\ SessionUse(s)' /\ session'[s].pc # "fill"
  PROVE  LInv'
<1> DEFINE gr == [group[g] EXCEPT !.code = c]
           us == IF clear /\ ~group[g].malicious
                 THEN SetMalicious(url, group[g], "dac", FALSE, TRUE, {})
                 ELSE url
<1>1. BecomeError(g, gr, us) /\ UNCHANGED <<known, urlQueue, handed>>
  BY DEF FailGroup
<1>2. url \in [Urls -> UrlRecord] /\ group[g] \in GroupRecord
  BY DEF LInv, IInv, TypeOK
<1>3. us \in [Urls -> UrlRecord] /\ \A u \in Urls : us[u].state = url[u].state
  <2> DEFINE cleared == SetMalicious(url, group[g], "dac", FALSE, TRUE, {})
  <2>1. cleared \in [Urls -> UrlRecord] /\ \A u \in Urls : cleared[u].state = url[u].state
    <3>1. cleared \in [Urls -> UrlRecord]
      BY <1>2, SetMaliciousType
    <3>2. \A u \in Urls : cleared[u].state = url[u].state
      BY <1>2 DEF SetMalicious, UrlRecord
    <3> QED BY <3>1, <3>2
  <2>2. us = cleared \/ us = url
    OBVIOUS
  <2> HIDE DEF cleared, us
  <2> QED BY <1>2, <2>1, <2>2
<1>4. GivenGroup(g, gr) /\ gr.algorithm = group[g].algorithm
  BY <1>2 DEF GivenGroup, GroupRecord
<1> HIDE DEF gr, us
<1> QED BY <1>1, <1>3, <1>4, GroupFails

LEMMA MarkErrorCustody ==
  ASSUME LInv, IInv', NEW s \in Session, NEW c, NEW clear, MarkError(s, c, clear),
         session[s].group \in Group => c \in Codes \cup {OK}
  PROVE  LInv'
<1> DEFINE new == [session[s] EXCEPT !.marked = TRUE]
<1>1. session[s] \in SessionRecord /\ session[s].group # NoGroup
  BY DEF MarkError, LInv, IInv, TypeOK
<1>2. /\ session[s].group \in Group /\ handed[session[s].group] > 0
      /\ session[s].pc \in HasGroup /\ session[s].got = {}
  BY <1>1, GroupInUse DEF SessionRecord
<1>3. /\ new.group = session[s].group /\ new.pc = session[s].pc /\ new.got = session[s].got
      /\ session' = [session EXCEPT ![s] = new]
      /\ FailGroup(session[s].group, c, clear)
  BY <1>1 DEF SessionRecord, MarkError
<1> HIDE DEF new
<1>4. session'[s] = new /\ \A t \in Session \ {s} : session'[t] = session[t]
  BY <1>3 DEF LInv, IInv, TypeOK
<1>5. TypeOK /\ QueueInv /\ group \in [Group -> GroupRecord]
  BY DEF LInv, IInv, TypeOK
<1>6. group'[session[s].group].algorithm = group[session[s].group].algorithm
  <2> DEFINE gr == [group[session[s].group] EXCEPT !.code = c]
  <2>1. GivenGroup(session[s].group, gr) /\ gr.algorithm = group[session[s].group].algorithm
    BY <1>2, <1>5 DEF GivenGroup, GroupRecord
  <2>2. \E us : BecomeError(session[s].group, gr, us)
    BY <1>3 DEF FailGroup
  <2> HIDE DEF gr
  <2>3. Outcome(session[s].group, gr)
    BY <1>5, <2>1, <2>2, ErrorOutcome
  <2> QED BY <2>1, <2>3 DEF Outcome
<1>7. SessionUse(s)
  BY DEF LInv
<1>8. SessionUse(s)' /\ session'[s].pc # "fill"
  BY <1>2, <1>3, <1>4, <1>6, <1>7 DEF SessionUse, HasGroup
<1> QED BY <1>2, <1>3, <1>4, <1>8, FailGroupCustody

LEMMA MarkLateCustody ==
  ASSUME LInv, IInv', NEW g \in Group, NEW c \in Codes \cup {OK}, NEW clear,
         MarkLate(g, c, clear)
  PROVE  LInv'
<1>1. handed[g] > 0 /\ FailGroup(g, c, clear) /\ session' = session
  BY DEF MarkLate
<1>2. PICK s : s \notin Session
  BY NoSetContainsEverything
<1>3. \A t \in Session \ {s} : session'[t] = session[t]
  BY <1>1
<1> QED BY <1>1, <1>2, <1>3, FailGroupCustody

\* Steps that leave the state and the logs of every URL alone.
LEMMA SameStates ==
  ASSUME LInv, UNCHANGED <<known, urlQueue, log>>,
         \A u \in Urls : url'[u].state = url[u].state,
         \A h \in Group : group[h].urls # {} => group'[h].urls = group[h].urls,
         \A h \in Group : h \in Elems(groupQueue) => h \in Elems(groupQueue'),
         \A t \in Session : session[t].got \subseteq session'[t].got,
         \A t \in Session : session[t].pc \in HasGroup /\ ~session[t].marked =>
           /\ session'[t].group = session[t].group /\ ~session'[t].marked
           /\ session'[t].pc = session[t].pc \/ session'[t].pc = "deaf"
  PROVE  \A u \in Urls : CustodyInv(u)'
<1> SUFFICES ASSUME NEW u \in Urls PROVE CustodyInv(u)'
  OBVIOUS
<1>1. \A h \in Group : u \in group[h].urls => u \in group'[h].urls
  OBVIOUS
<1>2. \A t \in Session : Keeps(t, u, HasGroup) /\ Keeps(t, u, {"held", "deaf"})
  BY DEF Keeps, HasGroup
<1>3. /\ InCustody(u, HasGroup) => InCustody(u, HasGroup)'
      /\ InCustody(u, {"held", "deaf"}) => InCustody(u, {"held", "deaf"})'
  BY Zenon, <1>1, <1>2, CustodyStays
<1>4. CustodyInv(u) /\ (Logged(u) => Logged(u)')
  BY DEF LInv, Logged
<1>5. /\ u \in known' => u \in known
      /\ u \in urlQueue => u \in urlQueue'
      /\ \A t \in Session : u \in session[t].got => u \in session'[t].got
      /\ url'[u].state = url[u].state
  OBVIOUS
<1> QED BY Zenon, <1>3, <1>4, <1>5, CustodyInvStays

LEMMA StartCustody ==
  ASSUME LInv, IInv', NEW s \in Session, NEW alg \in Algorithms, Start(s, alg)
  PROVE  LInv'
<1>1. PICK g : g = session[s].group
  OBVIOUS
<1>2. /\ session[s] \in SessionRecord /\ session[s].pc = "held" /\ SessionUse(s)
      /\ g \in Group /\ group[g] \in GroupRecord /\ TypeOK
  BY <1>1, SessionGroup DEF Start, HasGroup, LInv, IInv
<1> DEFINE gr     == [group[g] EXCEPT !.algorithm = alg, !.state = "VISITING"]
           new    == [session[s] EXCEPT !.pc = "visiting", !.marked = FALSE]
           target == [u \in group[g].urls |-> "VISITING"]
<1>3. /\ group' = [group EXCEPT ![g] = gr] /\ session' = [session EXCEPT ![s] = new]
      /\ SetUrlStates(url, target)
      /\ UNCHANGED <<known, urlQueue, groupQueue, handed>>
  BY <1>1 DEF Start
<1>4. /\ gr \in GroupRecord /\ gr.urls = group[g].urls /\ gr.state = "VISITING"
      /\ gr.errorCount = group[g].errorCount /\ gr.algorithm = alg
  BY <1>2 DEF GroupRecord, GroupState
<1>5. /\ new.group = g /\ new.pc = "visiting" /\ ~new.marked /\ new.got = session[s].got
  BY <1>1, <1>2 DEF SessionRecord
<1>6. /\ \A u \in Urls : Logged(u) => Logged(u)'
      /\ \A u \in Urls \ group[g].urls : url'[u].state = url[u].state
      /\ \A u \in group[g].urls : url'[u].state = "VISITING"
  <2>1. DOMAIN target = group[g].urls /\ \A u \in group[g].urls : target[u] = "VISITING"
    OBVIOUS
  <2>2. url \in [Urls -> UrlRecord] /\ group[g].urls \in SUBSET Urls
    BY <1>2 DEF TypeOK, GroupRecord
  <2> HIDE DEF target
  <2>3. \A u \in Urls : Logged(u) => Logged(u)'
    BY <1>3 DEF SetUrlStates, Logged
  <2>4. \A u \in Urls \ group[g].urls : url'[u] = url[u]
    BY <1>3, <2>1 DEF SetUrlStates
  <2>5. \A u \in group[g].urls : url[u] \in UrlRecord
    BY <2>2
  <2>6. \A u \in group[g].urls : url'[u].state = "VISITING"
    BY <1>3, <2>1, <2>2, <2>5 DEF SetUrlStates, UrlRecord
  <2> QED BY <2>3, <2>4, <2>6
<1> HIDE DEF gr, new, target
<1>7. Outcome(g, gr)
  BY <1>2, <1>3, <1>4, SameTurnsOutcome DEF LInv
<1>8. /\ session'[s] = new /\ \A t \in Session \ {s} : session'[t] = session[t]
      /\ group'[g] = gr
  BY <1>2, <1>3 DEF TypeOK
<1>9. alg # "none"
  BY ConstantsAssumption
<1>10. SessionUse(s)' /\ session'[s].pc # "fill"
  BY <1>2, <1>4, <1>5, <1>8, <1>9 DEF SessionUse, HasGroup
<1>11. ASSUME NEW u \in group[g].urls PROVE CustodyInv(u)'
  <2>1. Holds(s, g)' /\ session'[s].pc \in HasGroup
    BY <1>5, <1>8 DEF Holds, HasGroup
  <2>2. u \in group'[g].urls
    BY <1>4, <1>8
  <2>3. InCustody(u, HasGroup)'
    BY <1>2, <2>1, <2>2 DEF InCustody
  <2>4. url'[u].state = "VISITING"
    BY <1>6
  <2> QED BY <2>3, <2>4 DEF CustodyInv
<1>12. \A h \in Group : group'[h].urls = group[h].urls
  BY <1>3, <1>4, <1>8 DEF LInv, IInv, TypeOK
<1>13. UNCHANGED <<known, urlQueue>>
  BY <1>3
<1> QED BY <1>1, <1>2, <1>4, <1>6, <1>7, <1>8, <1>9, <1>10, <1>11, <1>12, <1>13, TurnStep

\* Steps that give the group of session s another code or verdict.
LEMMA SameStatesStep ==
  ASSUME LInv, IInv', NEW s \in Session, NEW new, session' = [session EXCEPT ![s] = new],
         NEW g, g = session[s].group, session[s].pc \in HasGroup,
         NEW gr \in GroupRecord, group' = [group EXCEPT ![g] = gr],
         gr.urls = group[g].urls, gr.errorCount = group[g].errorCount,
         gr.algorithm = group[g].algorithm,
         gr.state = "VISITED" /\ Splits(gr) => group[g].state = "VISITED" /\ Splits(group[g]),
         new.group = g, new.got = session[s].got, new.marked = session[s].marked,
         new.pc = session[s].pc \/ new.pc = "deaf",
         \A u \in Urls : url'[u].state = url[u].state,
         UNCHANGED <<known, urlQueue, log, groupQueue, handed>>
  PROVE  LInv'
<1>1. g \in Group /\ IInv /\ SessionUse(s)
  BY SessionGroup DEF LInv
<1>2. Outcome(g, gr)
  BY <1>1, SameTurnsOutcome
<1>3. /\ session'[s] = new /\ \A t \in Session \ {s} : session'[t] = session[t]
      /\ group'[g] = gr /\ \A h \in Group \ {g} : group'[h] = group[h]
  BY <1>1 DEF IInv, TypeOK
<1>4. \A h \in Group : group'[h].urls = group[h].urls
  BY <1>3
<1>5. \A u \in Urls : CustodyInv(u)'
  <2>1. \A t \in Session : session[t].got \subseteq session'[t].got
    BY <1>3
  <2>2. \A t \in Session : session[t].pc \in HasGroup /\ ~session[t].marked =>
          /\ session'[t].group = session[t].group /\ ~session'[t].marked
          /\ session'[t].pc = session[t].pc \/ session'[t].pc = "deaf"
    BY <1>3
  <2> QED BY <1>4, <2>1, <2>2, SameStates
<1>6. SessionUse(s)' /\ session'[s].pc # "fill"
  BY <1>1, <1>3 DEF SessionUse, HasGroup
<1>7. \A u \in Urls : Logged(u) => Logged(u)'
  BY DEF Logged
<1>8. \A u \in group[g].urls : CustodyInv(u)'
  BY <1>1, <1>5 DEF IInv, TypeOK, GroupRecord
<1>9. \A u \in Urls \ group[g].urls : url'[u].state = url[u].state
  OBVIOUS
<1>10. UNCHANGED <<known, urlQueue>>
  OBVIOUS
<1>11. session[s].group = g
  OBVIOUS
<1> QED BY Zenon, <1>1, <1>2, <1>3, <1>4, <1>6, <1>7, <1>8, <1>9, <1>10, <1>11, TurnStep

LEMMA PlainEventCustody ==
  ASSUME LInv, IInv', NEW s \in Session, PlainEvent(s) PROVE LInv'
<1>1. PICK g : g = session[s].group
  OBVIOUS
<1>2. /\ g \in Group /\ group[g] \in GroupRecord
      /\ session[s] \in SessionRecord /\ session[s].pc = "visiting"
  BY <1>1, SessionGroup DEF PlainEvent, HasGroup, LInv
<1> DEFINE gr  == [group[g] EXCEPT !.malicious = TRUE]
           new == [session[s] EXCEPT !.dirty = TRUE]
<1>3. /\ group' = [group EXCEPT ![g] = gr] /\ session' = [session EXCEPT ![s] = new]
      /\ url' = SetMalicious(url, group[g], group[g].algorithm, TRUE, TRUE, {})
      /\ UNCHANGED <<known, urlQueue, log, groupQueue, visiting, handed>>
      /\ group[g].algorithm = "seq" \/ Cardinality(group[g].urls) = 1
  BY <1>1 DEF PlainEvent
<1>4. /\ gr \in GroupRecord /\ gr.urls = group[g].urls
      /\ gr.errorCount = group[g].errorCount /\ gr.algorithm = group[g].algorithm
  BY <1>2 DEF GroupRecord
<1>5. /\ new.group = g /\ new.got = session[s].got /\ new.marked = session[s].marked
      /\ new.pc = session[s].pc
  BY <1>1, <1>2 DEF SessionRecord
<1> HIDE DEF gr, new
<1>6. ~Splits(gr)
  BY <1>3, <1>4 DEF Splits
<1>7. \A u \in Urls : url'[u].state = url[u].state
  <2>1. url \in [Urls -> UrlRecord]
    BY DEF LInv, IInv, TypeOK
  <2> QED BY <1>3, <2>1 DEF SetMalicious, UrlRecord
<1>8. session[s].pc \in HasGroup
  BY <1>2 DEF HasGroup
<1> QED BY <1>1, <1>3, <1>4, <1>5, <1>6, <1>7, <1>8, SameStatesStep

LEMMA ReceiverEndsCustody ==
  ASSUME LInv, IInv', NEW s \in Session, NEW c \in Codes \cup {OK}, ReceiverEnds(s, c)
  PROVE  LInv'
<1>1. PICK g : g = session[s].group
  OBVIOUS
<1>2. /\ session[s].pc \in HasGroup
      /\ g \in Group /\ group[g] \in GroupRecord /\ session[s] \in SessionRecord
  BY <1>1, SessionGroup DEF ReceiverEnds, HasGroup, LInv
<1> DEFINE gr  == [group[g] EXCEPT !.code = c]
           new == [session[s] EXCEPT !.pc = "deaf"]
<1>3. /\ group' = [group EXCEPT ![g] = gr] /\ session' = [session EXCEPT ![s] = new]
      /\ UNCHANGED <<known, urlQueue, url, log, groupQueue, visiting, handed>>
  BY <1>1 DEF ReceiverEnds
<1>4. /\ gr \in GroupRecord /\ gr.urls = group[g].urls
      /\ gr.errorCount = group[g].errorCount /\ gr.algorithm = group[g].algorithm
      /\ gr.malicious = group[g].malicious /\ gr.state = group[g].state
  BY <1>2 DEF GroupRecord
<1>5. /\ new.group = g /\ new.got = session[s].got /\ new.marked = session[s].marked
      /\ new.pc = "deaf"
  BY <1>1, <1>2 DEF SessionRecord
<1> HIDE DEF gr, new
<1>6. Splits(gr) <=> Splits(group[g])
  BY <1>4 DEF Splits
<1>7. \A u \in Urls : url'[u].state = url[u].state
  BY <1>3
<1> QED BY <1>1, <1>2, <1>3, <1>4, <1>5, <1>6, <1>7, SameStatesStep

\* Steps of a session that leave groups and URLs alone.
LEMMA QuietStep ==
  ASSUME LInv, IInv', NEW s \in Session, NEW new, session' = [session EXCEPT ![s] = new],
         UNCHANGED <<known, urlQueue, url, log, group, groupQueue>>,
         session[s].got \subseteq new.got,
         session[s].pc \in HasGroup /\ ~session[s].marked =>
           new.group = session[s].group /\ ~new.marked /\ new.pc = session[s].pc,
         new.pc # "fill" => new.got = {},
         new.pc \notin HasGroup => new.group = NoGroup,
         new.pc = "visiting" => session[s].pc = "visiting" /\ new.group = session[s].group,
         GroupSize = 1 /\ new.pc = "fill" => new.got = {} /\ new.want = 1
  PROVE  LInv'
<1>1. session'[s] = new /\ \A t \in Session \ {s} : session'[t] = session[t]
  BY DEF LInv, IInv, TypeOK
<1>2. \A t \in Session : SessionUse(t)'
  BY <1>1 DEF LInv, SessionUse
<1>3. SingleInv'
  BY <1>1 DEF LInv, SingleInv
<1>4. \A t \in Session : session[t].got \subseteq session'[t].got
  BY <1>1
<1>5. \A t \in Session : session[t].pc \in HasGroup /\ ~session[t].marked =>
        /\ session'[t].group = session[t].group /\ ~session'[t].marked
        /\ session'[t].pc = session[t].pc \/ session'[t].pc = "deaf"
  BY <1>1
<1>6. \A u \in Urls : CustodyInv(u)'
  BY <1>4, <1>5, SameStates
<1> QED BY <1>2, <1>3, <1>6 DEF LInv

LEMMA IgnoredEventCustody ==
  ASSUME LInv, IInv', NEW s \in Session, IgnoredEvent(s) PROVE LInv'
<1> DEFINE new == [session[s] EXCEPT !.dirty = TRUE]
<1>1. session[s] \in SessionRecord /\ session[s].pc \in HasGroup /\ SessionUse(s)
  BY DEF LInv, IInv, TypeOK, IgnoredEvent, HasGroup
<1>2. /\ new.pc = session[s].pc /\ new.group = session[s].group
      /\ new.got = session[s].got /\ new.marked = session[s].marked
      /\ session' = [session EXCEPT ![s] = new]
      /\ UNCHANGED <<known, urlQueue, url, log, group, groupQueue>>
  BY <1>1 DEF IgnoredEvent, SessionRecord
<1> HIDE DEF new
<1>3. new.pc # "fill" /\ new.got = {}
  BY <1>1, <1>2 DEF HasGroup, SessionUse
<1> QED BY <1>1, <1>2, <1>3, QuietStep

LEMMA BulkEventCustody ==
  ASSUME LInv, IInv', NEW s \in Session, BulkEvent(s) PROVE LInv'
<1>1. session[s] \in SessionRecord /\ session[s].pc \in HasGroup /\ SessionUse(s)
  BY DEF LInv, IInv, TypeOK, BulkEvent, HasGroup
<1>2. PICK found : session' = [session EXCEPT ![s].dirty = TRUE, ![s].events = @ \cup found]
  BY DEF BulkEvent
<1> DEFINE new == [session[s] EXCEPT !.dirty = TRUE, !.events = @ \cup found]
<1>3. /\ new.pc = session[s].pc /\ new.group = session[s].group
      /\ new.got = session[s].got /\ new.marked = session[s].marked
      /\ session' = [session EXCEPT ![s] = new]
  BY <1>1, <1>2 DEF SessionRecord
<1>4. UNCHANGED <<known, urlQueue, url, log, group, groupQueue>>
  BY DEF BulkEvent
<1> HIDE DEF new
<1>5. new.pc # "fill" /\ new.got = {}
  BY <1>1, <1>3 DEF HasGroup, SessionUse
<1> QED BY <1>1, <1>3, <1>4, <1>5, QuietStep

LEMMA GiveUpCustody ==
  ASSUME LInv, IInv', NEW s \in Session, GiveUp(s) PROVE LInv'
<1> DEFINE new == IdleSession
<1>1. /\ new.pc = "idle" /\ new.group = NoGroup /\ new.got = {}
      /\ session' = [session EXCEPT ![s] = new]
      /\ UNCHANGED <<known, urlQueue, url, log, group, groupQueue>>
  BY DEF GiveUp, IdleSession
<1> HIDE DEF new
<1>2. session[s].pc # "fill" /\ ~(session[s].pc \in HasGroup /\ ~session[s].marked)
  BY DEF GiveUp, HasGroup
<1>3. session[s].got = {}
  BY <1>2 DEF LInv, SessionUse
<1>4. new.pc # "fill" /\ new.pc # "visiting"
  BY <1>1
<1> QED BY <1>1, <1>2, <1>3, <1>4, QuietStep

LEMMA BeginTakeCustody ==
  ASSUME LInv, IInv', NEW s \in Session, BeginTake(s) PROVE LInv'
<1> DEFINE n    == Least(GroupSize, Cardinality(urlQueue))
           want == IF n = 0 THEN 1 ELSE n
           fill == [session[s] EXCEPT !.pc = "fill", !.got = {}, !.want = want]
           pop  == [session[s] EXCEPT !.pc = "pop"]
<1>1. /\ session[s] \in SessionRecord /\ session[s].pc = "idle"
      /\ session[s].group = NoGroup /\ session[s].got = {}
  BY DEF LInv, IInv, TypeOK, BeginTake, SessionUse, HasGroup
<1>2. GroupSize = 1 => want = 1
  <2>1. urlQueue \in SUBSET Urls
    BY DEF LInv, IInv, TypeOK
  <2>2. Cardinality(urlQueue) \in Nat
    BY <2>1, ConstantsAssumption, FS_Subset, FS_CardinalityType
  <2> QED BY <2>2 DEF Least
<1>3. \/ session' = [session EXCEPT ![s] = fill]
      \/ session' = [session EXCEPT ![s] = pop]
  BY DEF BeginTake
<1> HIDE DEF n, want
<1>4. /\ fill.pc = "fill" /\ fill.group = NoGroup /\ fill.got = {} /\ fill.want = want
      /\ pop.pc = "pop" /\ pop.group = NoGroup /\ pop.got = {}
  BY <1>1 DEF SessionRecord
<1> HIDE DEF fill, pop
<1>5. UNCHANGED <<known, urlQueue, url, log, group, groupQueue>>
  BY DEF BeginTake
<1>6. session[s].pc \notin HasGroup /\ "fill" \notin HasGroup /\ "pop" \notin HasGroup
  BY <1>1 DEF HasGroup
<1>7. CASE session' = [session EXCEPT ![s] = fill]
  BY <1>1, <1>2, <1>4, <1>5, <1>6, <1>7, QuietStep
<1>8. CASE session' = [session EXCEPT ![s] = pop]
  BY <1>1, <1>4, <1>5, <1>6, <1>8, QuietStep
<1> QED BY <1>3, <1>7, <1>8

LEMMA AddUrlCustody ==
  ASSUME LInv, IInv', NEW u \in Urls, AddUrl(u) PROVE LInv'
<1>1. /\ known' = known \cup {u} /\ urlQueue' = urlQueue \cup {u}
      /\ UNCHANGED <<url, log, group, groupQueue, session>>
  BY DEF AddUrl
<1>2. (\A s \in Session : SessionUse(s)') /\ SingleInv'
  BY <1>1 DEF LInv, SessionUse, SingleInv
<1>3. \A v \in Urls : CustodyInv(v)'
  BY <1>1 DEF LInv, CustodyInv, Logged, InCustody, Holds, Elems
<1> QED BY <1>2, <1>3 DEF LInv

LEMMA StutterCustody ==
  ASSUME LInv, IInv', UNCHANGED vars PROVE LInv'
<1>1. UNCHANGED <<known, urlQueue, url, log, group, groupQueue, session>>
  BY DEF vars
<1>2. (\A s \in Session : SessionUse(s)') /\ SingleInv'
  BY <1>1 DEF LInv, SessionUse, SingleInv
<1>3. \A v \in Urls : CustodyInv(v)'
  BY <1>1 DEF LInv, CustodyInv, Logged, InCustody, Holds, Elems
<1> QED BY <1>2, <1>3 DEF LInv

\* Session s is given group g.
LEMMA GivenTo ==
  ASSUME LInv, IInv', NEW s \in Session, NEW g \in Group,
         session[s].pc \notin HasGroup,
         session' = [session EXCEPT ![s] = [IdleSession EXCEPT !.pc = "held", !.group = g]],
         \A h \in Group \ {g} : group'[h] = group[h],
         \/ group'[g] = group[g]
         \/ Unused(g) /\ (GroupSize = 1 => Cardinality(group'[g].urls) <= 1),
         UNCHANGED <<known, url, log>>,
         urlQueue \subseteq urlQueue' \cup group'[g].urls,
         session[s].got \subseteq group'[g].urls,
         \A h \in Group \ {g} : h \in Elems(groupQueue) => h \in Elems(groupQueue')
  PROVE  LInv'
<1> DEFINE new == [IdleSession EXCEPT !.pc = "held", !.group = g]
<1>1. /\ new.pc = "held" /\ new.group = g /\ new.got = {} /\ ~new.marked
      /\ session' = [session EXCEPT ![s] = new]
  BY DEF IdleSession
<1> HIDE DEF new
<1>2. session'[s] = new /\ \A t \in Session \ {s} : session'[t] = session[t]
  BY <1>1 DEF LInv, IInv, TypeOK
<1>3. \A t \in Session : SessionUse(t)'
  <2>1. SessionUse(s)'
    BY <1>1, <1>2 DEF SessionUse, HasGroup
  <2>2. ASSUME NEW t \in Session, t # s PROVE SessionUse(t)'
    <3>1. session'[t] = session[t] /\ SessionUse(t)
      BY <1>2, <2>2 DEF LInv
    <3>2. ASSUME session[t].pc = "visiting"
          PROVE  group'[session[t].group] = group[session[t].group]
      <4>1. session[t].group \in Group
        BY <3>2 DEF LInv, IInv, SessionInv
      <4>2. ~Unused(session[t].group)
        BY <4>1, GroupInUse
      <4> QED BY <4>1, <4>2
    <3> QED BY <3>1, <3>2 DEF SessionUse
  <2> QED BY <2>1, <2>2
<1>4. SingleInv'
  <2> SUFFICES ASSUME GroupSize = 1
               PROVE  /\ \A h \in Group : Cardinality(group'[h].urls) <= 1
                      /\ \A t \in Session : session'[t].pc = "fill" =>
                           session'[t].got = {} /\ session'[t].want = 1
    BY DEF SingleInv
  <2> QED BY <1>1, <1>2 DEF LInv, SingleInv
<1>5. ASSUME NEW u \in Urls PROVE CustodyInv(u)'
  <2>1. CASE u \in group'[g].urls
    <3>1. Holds(s, g)' /\ session'[s].pc = "held"
      BY <1>1, <1>2 DEF Holds
    <3>2. InCustody(u, HasGroup)' /\ InCustody(u, {"held", "deaf"})'
      BY <2>1, <3>1 DEF InCustody, HasGroup
    <3> QED BY <3>2 DEF CustodyInv
  <2>2. CASE u \notin group'[g].urls
    <3>1. u \notin group[g].urls
      BY <2>2 DEF Unused
    <3>2. \A P : InCustody(u, P) /\ P \subseteq HasGroup => InCustody(u, P)'
      <4> SUFFICES ASSUME NEW P, InCustody(u, P), P \subseteq HasGroup
                   PROVE  InCustody(u, P)'
        OBVIOUS
      <4>1. PICK h \in Group : /\ u \in group[h].urls
                               /\ \/ h \in Elems(groupQueue)
                                  \/ \E t \in Session : Holds(t, h) /\ session[t].pc \in P
        BY Zenon DEF InCustody
      <4>2. h # g /\ u \in group'[h].urls
        BY <3>1, <4>1
      <4>3. CASE h \in Elems(groupQueue)
        BY <4>2, <4>3 DEF InCustody
      <4>4. ASSUME NEW t \in Session, Holds(t, h), session[t].pc \in P
            PROVE  InCustody(u, P)'
        <5>1. session'[t] = session[t]
          BY <1>2, <4>4
        <5>2. Holds(t, h)' /\ session'[t].pc \in P
          BY <4>4, <5>1 DEF Holds
        <5> QED BY Zenon, <4>2, <5>2 DEF InCustody
      <4> QED BY <4>1, <4>3, <4>4
    <3>3. /\ InCustody(u, HasGroup) => InCustody(u, HasGroup)'
          /\ InCustody(u, {"held", "deaf"}) => InCustody(u, {"held", "deaf"})'
      BY <3>2 DEF HasGroup
    <3>4. /\ u \in urlQueue => u \in urlQueue'
          /\ \A t \in Session : u \in session[t].got => u \in session'[t].got
      BY <1>2, <2>2
    <3>5. CustodyInv(u) /\ (u \in known' => u \in known) /\ (Logged(u) => Logged(u)')
          /\ url'[u].state = url[u].state
      BY DEF LInv, Logged
    <3> QED BY Zenon, <3>3, <3>4, <3>5, CustodyInvStays
  <2> QED BY <2>1, <2>2
<1> QED BY <1>3, <1>4, <1>5 DEF LInv

LEMMA TakeUrlCustody ==
  ASSUME LInv, NEW s \in Session, NEW u \in Urls, TakeUrl(s, u) PROVE LInv'
<1>0. IInv'
  BY TakeUrlKeeps DEF LInv
<1> DEFINE got == session[s].got \cup {u}
<1>1. /\ session[s].pc = "fill" /\ session[s] \in SessionRecord
      /\ session[s].group = NoGroup /\ session[s].pc \notin HasGroup
      /\ u \in urlQueue /\ urlQueue' = urlQueue \ {u}
      /\ UNCHANGED <<known, url, log, groupQueue>>
  <2>1. session[s].pc = "fill"
    BY DEF TakeUrl
  <2>2. u \in urlQueue /\ urlQueue' = urlQueue \ {u} /\ UNCHANGED <<known, url, log, groupQueue>>
    BY DEF TakeUrl
  <2> QED BY <2>1, <2>2 DEF LInv, IInv, TypeOK, SessionUse, HasGroup
<1>2. GroupSize = 1 => Cardinality(got) <= 1 /\ session[s].want = 1
  <2>1. GroupSize = 1 => got = {u} /\ session[s].want = 1
    BY <1>1 DEF LInv, SingleInv
  <2>2. Cardinality({u}) = 1
    BY FS_Singleton
  <2> QED BY <2>1, <2>2
<1>3. CASE /\ Cardinality(got) < session[s].want
           /\ session' = [session EXCEPT ![s].got = got] /\ UNCHANGED <<group, handed>>
  <2> DEFINE new == [session[s] EXCEPT !.got = got]
  <2>1. new.pc = "fill" /\ new.group = NoGroup /\ new.got = got
    BY <1>1 DEF SessionRecord
  <2>2. /\ session' = [session EXCEPT ![s] = new]
        /\ GroupSize # 1 /\ UNCHANGED <<group>>
    <3>1. Cardinality({u}) = 1 /\ (GroupSize = 1 => got = {u} /\ session[s].want = 1)
      BY <1>1, FS_Singleton DEF LInv, SingleInv
    <3> QED BY <1>3, <3>1
  <2>3. u \in got /\ session[s].got \subseteq got
    OBVIOUS
  <2> HIDE DEF new, got
  <2>4. session'[s] = new /\ \A t \in Session \ {s} : session'[t] = session[t]
    BY <2>2 DEF LInv, IInv, TypeOK
  <2>5. \A t \in Session : SessionUse(t)'
    BY <2>1, <2>2, <2>4 DEF LInv, SessionUse, HasGroup
  <2>6. SingleInv'
    BY <2>2 DEF SingleInv
  <2>7. ASSUME NEW v \in Urls PROVE CustodyInv(v)'
    <3>1. \A t \in Session : Keeps(t, v, HasGroup) /\ Keeps(t, v, {"held", "deaf"})
      BY <1>1, <2>4 DEF Keeps
    <3>2. /\ \A h \in Group : v \in group[h].urls => v \in group'[h].urls
          /\ \A h \in Group : h \in Elems(groupQueue) => h \in Elems(groupQueue')
      BY <1>1, <2>2
    <3>3. /\ InCustody(v, HasGroup) => InCustody(v, HasGroup)'
          /\ InCustody(v, {"held", "deaf"}) => InCustody(v, {"held", "deaf"})'
      BY Zenon, <3>1, <3>2, CustodyStays
    <3>4. v \in urlQueue => v \in urlQueue' \/ v \in session'[s].got
      BY <1>1, <2>1, <2>3, <2>4
    <3>5. \A t \in Session : v \in session[t].got => v \in session'[t].got
      BY <2>1, <2>3, <2>4
    <3>6. CustodyInv(v) /\ (v \in known' => v \in known) /\ (Logged(v) => Logged(v)')
          /\ url'[v].state = url[v].state
      BY <1>1 DEF LInv, Logged
    <3> QED BY Zenon, <3>3, <3>4, <3>5, <3>6 DEF CustodyInv
  <2> QED BY <1>0, <2>5, <2>6, <2>7 DEF LInv
<1>4. ASSUME NEW g \in Group, Unused(g),
             group' = [group EXCEPT ![g] = NewGroup(got)],
             session' = [session EXCEPT ![s] = [IdleSession EXCEPT !.pc = "held", !.group = g]]
      PROVE  LInv'
  <2>1. /\ group'[g] = NewGroup(got) /\ \A h \in Group \ {g} : group'[h] = group[h]
    BY <1>4 DEF LInv, IInv, TypeOK
  <2>2. group'[g].urls = got
    BY <2>1 DEF NewGroup
  <2>3. u \in got /\ session[s].got \subseteq got
    OBVIOUS
  <2> HIDE DEF got
  <2>4. Unused(g) /\ (GroupSize = 1 => Cardinality(group'[g].urls) <= 1)
    BY <1>2, <1>4, <2>2
  <2>5. /\ urlQueue \subseteq urlQueue' \cup group'[g].urls
        /\ session[s].got \subseteq group'[g].urls
    BY <1>1, <2>2, <2>3
  <2>6. UNCHANGED <<known, url, log>>
        /\ \A h \in Group \ {g} : h \in Elems(groupQueue) => h \in Elems(groupQueue')
    BY <1>1
  <2> QED BY <1>0, <1>1, <1>4, <2>1, <2>4, <2>5, <2>6, GivenTo
<1> QED BY <1>3, <1>4 DEF TakeUrl, got

LEMMA PopGroupCustody ==
  ASSUME LInv, NEW s \in Session, PopGroup(s) PROVE LInv'
<1>0. IInv'
  BY PopGroupKeeps DEF LInv
<1>1. /\ session[s].pc = "pop" /\ session[s] \in SessionRecord
      /\ session[s].group = NoGroup /\ session[s].got = {}
      /\ session[s].pc \notin HasGroup
      /\ UNCHANGED <<known, urlQueue, url, log, group>>
  <2>1. session[s].pc = "pop"
    BY DEF PopGroup
  <2>2. UNCHANGED <<known, urlQueue, url, log, group>>
    BY DEF PopGroup
  <2> QED BY <2>1, <2>2 DEF LInv, IInv, TypeOK, SessionUse, HasGroup
<1>2. CASE groupQueue = <<>> /\ session' = [session EXCEPT ![s].pc = "broken"]
           /\ UNCHANGED <<groupQueue, handed>>
  <2> DEFINE new == [session[s] EXCEPT !.pc = "broken"]
  <2>1. /\ new.pc = "broken" /\ new.group = NoGroup /\ new.got = {}
        /\ session' = [session EXCEPT ![s] = new]
    BY <1>1, <1>2 DEF SessionRecord
  <2> HIDE DEF new
  <2>2. new.pc # "fill" /\ new.pc # "visiting" /\ UNCHANGED groupQueue
    BY <1>2, <2>1
  <2> QED BY <1>0, <1>1, <2>1, <2>2, QuietStep
<1>3. ASSUME NEW g, g = Head(groupQueue),
             groupQueue # <<>>, groupQueue' = Tail(groupQueue),
             session' = [session EXCEPT ![s] =
                           [IdleSession EXCEPT !.pc = "held", !.group = g]]
      PROVE  LInv'
  <2>1. groupQueue \in Seq(Group) /\ NoDuplicates(groupQueue)
    BY DEF LInv, IInv, TypeOK, QueueInv
  <2>2. g \in Group /\ Elems(groupQueue') = Elems(groupQueue) \ {g}
    BY <2>1, <1>3, TailElems
  <2>3. /\ \A h \in Group \ {g} : group'[h] = group[h]
        /\ group'[g] = group[g]
        /\ \A h \in Group \ {g} : h \in Elems(groupQueue) => h \in Elems(groupQueue')
    BY <1>1, <2>2
  <2>4. /\ urlQueue \subseteq urlQueue' \cup group'[g].urls
        /\ session[s].got \subseteq group'[g].urls
        /\ UNCHANGED <<known, url, log>>
    BY <1>1
  <2> QED BY <1>0, <1>1, <1>3, <2>2, <2>3, <2>4, GivenTo
<1> QED BY <1>2, <1>3 DEF PopGroup

LEMMA InitCustody == Init => LInv
<1> SUFFICES ASSUME Init PROVE LInv
  OBVIOUS
<1>1. IInv
  BY InitInv
<1>2. \A s \in Session : SessionUse(s)
  BY DEF Init, SessionUse, IdleSession, HasGroup
<1>3. SingleInv
  <2>1. /\ \A g \in Group : group[g].urls = {}
        /\ \A s \in Session : session[s].pc # "fill"
    BY DEF Init, NewGroup, IdleSession
  <2>2. Cardinality({}) = 0
    BY FS_EmptySet
  <2>3. ASSUME NEW g \in Group PROVE Cardinality(group[g].urls) <= 1
    <3>1. group[g].urls = {}
      BY <2>1
    <3> QED BY <2>2, <3>1
  <2> QED BY <2>1, <2>3 DEF SingleInv
<1>4. \A u \in Urls : CustodyInv(u)
  BY DEF Init, CustodyInv, NewUrl
<1> QED BY <1>1, <1>2, <1>3, <1>4 DEF LInv

LEMMA NextCustody == EveryVisitDecides /\ LInv /\ [Next]_vars => LInv'
<1> SUFFICES ASSUME EveryVisitDecides, LInv, [Next]_vars PROVE LInv'
  OBVIOUS
<1>1. IInv'
  BY NextInv DEF LInv
<1>2. CASE UNCHANGED vars
  BY <1>1, <1>2, StutterCustody
<1>3. CASE \E u \in Urls : AddUrl(u)
  BY <1>1, <1>3, AddUrlCustody
<1>4. CASE \E s \in Session : IgnoredEvent(s) \/ GiveUp(s)
  BY <1>1, <1>4, IgnoredEventCustody, GiveUpCustody
<1>5. CASE \E s \in Session : \/ BeginTake(s) \/ PopGroup(s)
                             \/ \E u \in Urls : TakeUrl(s, u)
  BY <1>1, <1>5, BeginTakeCustody, PopGroupCustody, TakeUrlCustody
<1>6. ASSUME NEW s \in Session, Visit(s) PROVE LInv'
  <2>1. CASE \E alg \in Algorithms : Start(s, alg)
    BY <1>1, <2>1, StartCustody
  <2>2. CASE BulkEvent(s)
    BY <1>1, <2>2, BulkEventCustody
  <2>3. CASE PlainEvent(s)
    BY <1>1, <2>3, PlainEventCustody
  <2>4. CASE DacEvent(s)
    BY <1>1, <2>4, DacEventCustody
  <2>5. CASE \E bad \in SUBSET Urls, c \in Codes :
               Finish(s, bad, c) \/ FinishWithWarning(s, bad, c)
    BY <1>1, <2>5, FinishCustody
  <2>6. CASE \E c \in Codes : FinishWithError(s, c)
    BY <1>1, <2>6, FinishWithErrorCustody
  <2> QED BY <1>6, <2>1, <2>2, <2>3, <2>4, <2>5, <2>6 DEF Visit
<1>7. \A g \in Group : group[g].code \in Codes \cup {OK}
  BY DEF LInv, IInv, TypeOK, GroupRecord
<1>8. CASE \/ \E s \in Session, c \in Codes, clear \in BOOLEAN : MarkError(s, c, clear)
           \/ \E s \in Session : MarkError(s, group[session[s].group].code, FALSE)
  BY <1>1, <1>7, <1>8, MarkErrorCustody
<1>9. CASE \/ \E g \in Group, c \in Codes, clear \in BOOLEAN : MarkLate(g, c, clear)
           \/ \E g \in Group : MarkLate(g, group[g].code, FALSE)
  BY <1>1, <1>7, <1>9, MarkLateCustody
<1>10. CASE \E s \in Session, c \in Codes :
              ReceiverEnds(s, c) \/ ReceiverEnds(s, group[session[s].group].code)
  <2>1. \A s \in Session : session[s].pc \in HasGroup =>
          group[session[s].group].code \in Codes \cup {OK}
    BY <1>7 DEF LInv, IInv, SessionInv, HasGroup
  <2>2. \A s \in Session : \A c : ReceiverEnds(s, c) => session[s].pc \in HasGroup
    BY DEF ReceiverEnds, HasGroup
  <2>3. PICK s \in Session, c \in Codes \cup {OK} : ReceiverEnds(s, c)
    BY <1>10, <2>1, <2>2
  <2> QED BY <1>1, <2>3, ReceiverEndsCustody
<1> QED
  BY <1>2, <1>3, <1>4, <1>5, <1>6, <1>8, <1>9, <1>10 DEF Next

\* Between the queues of UrlsController and UrlGroupsController, the clients and
\* the logs no URL disappears, however sessions, errors, retries and splits
\* interleave.
THEOREM NoUrlIsLost == EveryVisitDecides => (Spec => []NoUrlLost)
<1>1. LInv => NoUrlLost
  <2> SUFFICES ASSUME LInv PROVE NoUrlLost
    OBVIOUS
  <2>1. ASSUME NEW u \in known
        PROVE  \/ u \in urlQueue
               \/ \E s \in Session : u \in session[s].got
               \/ Logged(u) \/ url[u].state = "ERROR" \/ InCustody(u, HasGroup)
    <3>1. u \in Urls
      BY DEF LInv, IInv, TypeOK
    <3> QED BY <3>1 DEF LInv, CustodyInv
  <2>2. \A g \in Group : g \in Elems(groupQueue) => Queued(g)
    BY DEF Elems, Queued
  <2>3. ASSUME NEW u \in known, InCustody(u, HasGroup)
        PROVE  \E g \in Group : /\ u \in group[g].urls
                                /\ Queued(g) \/ \E s \in Session : Holds(s, g)
    BY Zenon, <2>2, <2>3 DEF InCustody
  <2> QED BY <2>1, <2>3 DEF NoUrlLost, Logged
<1>2. ASSUME EveryVisitDecides PROVE LInv /\ [Next]_vars => LInv'
  BY <1>2, NextCustody
<1>3. EveryVisitDecides => (Spec => []LInv)
  <2> SUFFICES ASSUME EveryVisitDecides PROVE Spec => []LInv
    OBVIOUS
  <2>1. LInv /\ [Next]_vars => LInv'
    BY <1>2
  <2> QED BY <2>1, InitCustody, PTL DEF Spec
<1> QED BY <1>1, <1>3, PTL

-----------------------------------------------------------------------------
(* A first verdict is sound                                                *)

\* Session s is at work on u: its retriever took it or its group contains it.
Place(u, s) ==
  \/ u \in session[s].got
  \/ session[s].group \in Group /\ u \in group[session[s].group].urls

QueuedIn(g, u) == g \in Elems(groupQueue) /\ u \in group[g].urls

\* u is in one place at most: in the URL queue, in one group of the deque or
\* with one session.
OnePlace(u) ==
  /\ u \notin known => /\ u \notin urlQueue
                       /\ \A s \in Session : ~Place(u, s)
                       /\ \A g \in Group : ~QueuedIn(g, u)
  /\ u \in urlQueue => /\ \A s \in Session : ~Place(u, s)
                       /\ \A g \in Group : ~QueuedIn(g, u)
  /\ \A g \in Group : QueuedIn(g, u) =>
       /\ \A s \in Session : ~Place(u, s)
       /\ \A h \in Group : QueuedIn(h, u) => h = g
  /\ \A s, t \in Session : Place(u, s) /\ Place(u, t) => s = t

Visits(s, u) == session[s].pc = "visiting" /\ u \in group[session[s].group].urls

\* Until it fails for the first time, a URL is in one place, nobody but its
\* visitor changes its state, and who found it benign has logged it.
VerdictInv(u) ==
  /\ url[u].state = "ERROR" => u \in log.error
  /\ url[u].malicious = "false" => u \in log.safe \cup log.error
  /\ u \notin log.error =>
       OnePlace(u) /\ \A s \in Session : Visits(s, u) => url[u].state = "VISITING"

VInv == IInv /\ \A u \in Urls : VerdictInv(u)

LEMMA FailedVerdict ==
  ASSUME NEW u, u \in log'.error
  PROVE  VerdictInv(u)'
BY DEF VerdictInv

\* What session t has after the step it had before.
Shrinks(t) ==
  /\ session'[t].got \subseteq session[t].got
  /\ session'[t].group = session[t].group \/ session'[t].group = NoGroup

LEMMA UsedGroup ==
  ASSUME IInv, NEW t \in Session, session[t].group \in Group
  PROVE  ~Unused(session[t].group) /\ handed[session[t].group] > 0
<1>1. handed[session[t].group] > 0
  BY DEF IInv, SessionInv
<1> QED BY <1>1 DEF IInv, QueueInv, GroupTurns

LEMMA PlaceStays ==
  ASSUME IInv, NEW t \in Session, Shrinks(t), NEW u,
         \A h \in Group : ~Unused(h) => group'[h].urls = group[h].urls
  PROVE  Place(u, t)' => Place(u, t)
<1>1. session'[t].group \in Group =>
        /\ session'[t].group = session[t].group
        /\ group'[session[t].group].urls = group[session[t].group].urls
  BY UsedGroup, ConstantsAssumption DEF Shrinks
<1> QED BY <1>1 DEF Place, Shrinks

LEMMA OnePlaceStays ==
  ASSUME NEW u, OnePlace(u), u \in known => u \in known', u \in urlQueue' => u \in urlQueue,
         \A t \in Session : Place(u, t)' => Place(u, t),
         \A h \in Group : QueuedIn(h, u)' => QueuedIn(h, u)
  PROVE  OnePlace(u)'
BY Zenon DEF OnePlace

\* A step that neither begins nor ends the visit of u.
LEMMA VerdictStays ==
  ASSUME VInv, NEW u \in Urls, UNCHANGED <<known, urlQueue>>,
         \A h \in Group : ~Unused(h) => group'[h].urls = group[h].urls,
         u \in log.safe => u \in log'.safe, u \in log.error => u \in log'.error,
         \A h \in Group : QueuedIn(h, u)' => QueuedIn(h, u),
         \A t \in Session : Shrinks(t),
         \A t \in Session : session'[t].pc = "visiting" =>
           session[t].pc = "visiting" \/ u \notin group[session[t].group].urls,
         url'[u].state = url[u].state,
         url'[u].malicious = "false" => url[u].malicious = "false",
         IInv'
  PROVE  VerdictInv(u)'
<1>1. VerdictInv(u) /\ IInv
  BY DEF VInv
<1>2. url'[u].state = "ERROR" => u \in log'.error
  BY <1>1 DEF VerdictInv
<1>3. url'[u].malicious = "false" => u \in log'.safe \cup log'.error
  BY <1>1 DEF VerdictInv
<1>4. ASSUME u \notin log'.error PROVE OnePlace(u)'
  <2>1. OnePlace(u)
    BY <1>1, <1>4 DEF VerdictInv
  <2>2. \A t \in Session : Place(u, t)' => Place(u, t)
    BY <1>1, PlaceStays
  <2> QED BY <2>1, <2>2, OnePlaceStays
<1>5. ASSUME u \notin log'.error, NEW t \in Session, Visits(t, u)'
      PROVE  url'[u].state = "VISITING"
  <2>1. session'[t].pc = "visiting" /\ session'[t].group \in Group
    BY <1>5 DEF Visits, IInv, SessionInv
  <2>2. /\ session'[t].group = session[t].group
        /\ group'[session[t].group].urls = group[session[t].group].urls
    BY <1>1, <2>1, UsedGroup, ConstantsAssumption DEF Shrinks
  <2>3. Visits(t, u)
    BY <1>5, <2>1, <2>2 DEF Visits
  <2> QED BY <1>1, <1>5, <2>3 DEF VerdictInv
<1> QED BY <1>2, <1>3, <1>4, <1>5 DEF VerdictInv

-----------------------------------------------------------------------------
(* Where the halves of a group are                                         *)

LEMMA HalvesPlaces ==
  ASSUME TypeOK, QueueInv, NEW g \in Group, NEW groups, handed[g] > 0,
         groups \in [Group -> GroupRecord],
         \A h \in Group : groups[h].urls = group[h].urls, PushHalves(g, groups)
  PROVE  /\ \A h \in Group, u \in Urls : QueuedIn(h, u)' =>
              QueuedIn(h, u) \/ u \in group[g].urls
         /\ \A h, k \in Group, u \in Urls :
              QueuedIn(h, u)' /\ QueuedIn(k, u)' /\ ~QueuedIn(h, u) /\ ~QueuedIn(k, u) => h = k
<1>1. PICK first \in SUBSET groups[g].urls, g1 \in {x \in Group : Unused(x)},
           g2 \in {x \in Group : Unused(x)} :
        /\ g1 # g2
        /\ group' = [groups EXCEPT ![g1] = NewGroup(first),
                                   ![g2] = NewGroup(groups[g].urls \ first)]
        /\ groupQueue' = Push(g2, Push(g1, groupQueue))
  BY DEF PushHalves
<1>2. /\ g1 \in Group /\ g2 \in Group /\ g1 # g2
      /\ group'[g1].urls = first /\ group'[g2].urls = groups[g].urls \ first
      /\ \A h \in Group \ {g1, g2} : group'[h].urls = group[h].urls
  BY <1>1 DEF NewGroup
<1>3. Elems(groupQueue') = Elems(groupQueue) \cup {g1, g2}
  <2>1. groupQueue \in Seq(Group)
    BY DEF TypeOK
  <2> DEFINE q1 == Push(g1, groupQueue)
  <2>2. q1 \in Seq(Group) /\ Elems(q1) = Elems(groupQueue) \cup {g1}
    BY <1>2, <2>1, PushElems
  <2>3. groupQueue' = Push(g2, q1)
    BY <1>1
  <2> HIDE DEF q1
  <2>4. q1 \in Seq(Group) /\ g2 \in Group
    BY <1>2, <2>2
  <2>5. Elems(Push(g2, q1)) = Elems(q1) \cup {g2}
    BY <2>4, PushElems
  <2> QED BY <2>2, <2>3, <2>5
<1>4. first \subseteq group[g].urls /\ groups[g].urls = group[g].urls
  OBVIOUS
<1>5. ASSUME NEW h \in Group, NEW u \in Urls, QueuedIn(h, u)', ~QueuedIn(h, u)
      PROVE  /\ u \in group[g].urls
             /\ (h = g1 /\ u \in first) \/ (h = g2 /\ u \notin first)
  <2>1. h \in Elems(groupQueue') /\ u \in group'[h].urls
    BY <1>5 DEF QueuedIn
  <2>2. CASE h = g1
    BY <1>2, <1>4, <2>1, <2>2
  <2>3. CASE h = g2
    BY <1>2, <1>4, <2>1, <2>3
  <2>4. CASE h # g1 /\ h # g2
    <3>1. group'[h].urls = group[h].urls /\ h \in Elems(groupQueue)
      BY <1>2, <1>3, <2>1, <2>4
    <3> QED BY <1>5, <2>1, <3>1 DEF QueuedIn
  <2> QED BY <2>2, <2>3, <2>4
<1> QED BY <1>2, <1>5

LEMMA VisitedPlaces ==
  ASSUME TypeOK, QueueInv, NEW g, NEW gr, NEW us,
         GivenGroup(g, gr), BecomeVisited(g, gr, us)
  PROVE  /\ \A h \in Group, u \in Urls : QueuedIn(h, u)' =>
              QueuedIn(h, u) \/ u \in group[g].urls
         /\ \A h, k \in Group, u \in Urls :
              QueuedIn(h, u)' /\ QueuedIn(k, u)' /\ ~QueuedIn(h, u) /\ ~QueuedIn(k, u) => h = k
<1> DEFINE groups == [group EXCEPT ![g] = [gr EXCEPT !.state = "VISITED"]]
<1>1. g \in Group /\ handed[g] > 0 /\ gr \in GroupRecord /\ gr.urls = group[g].urls
  BY DEF GivenGroup
<1>2. groups \in [Group -> GroupRecord] /\ \A h \in Group : groups[h].urls = group[h].urls
  <2>1. /\ [gr EXCEPT !.state = "VISITED"] \in GroupRecord
        /\ [gr EXCEPT !.state = "VISITED"].urls = group[g].urls
    BY <1>1 DEF GroupRecord, GroupState
  <2> QED BY <1>1, <2>1 DEF TypeOK
<1>3. CASE PushHalves(g, groups)
  <2> HIDE DEF groups
  <2> QED BY <1>1, <1>2, <1>3, HalvesPlaces
<1>4. CASE group' = groups /\ UNCHANGED groupQueue
  <2> HIDE DEF groups
  <2>1. \A h \in Group, u \in Urls : QueuedIn(h, u)' => QueuedIn(h, u)
    BY <1>2, <1>4 DEF QueuedIn
  <2> QED BY Zenon, <2>1
<1> QED BY <1>3, <1>4 DEF BecomeVisited

LEMMA FailedPlaces ==
  ASSUME TypeOK, QueueInv, NEW g, NEW gr, NEW us,
         GivenGroup(g, gr), BecomeError(g, gr, us)
  PROVE  \A h \in Group, u \in Urls : QueuedIn(h, u)' => QueuedIn(h, u) \/ u \in group[g].urls
<1> DEFINE errors == Least(gr.errorCount + 1, ErrorCap)
           new    == [gr EXCEPT !.state = "ERROR", !.errorCount = errors]
           groups == [group EXCEPT ![g] = new]
<1>1. /\ g \in Group /\ handed[g] > 0 /\ gr \in GroupRecord /\ gr.urls = group[g].urls
      /\ gr.errorCount \in Nat
  BY DEF GivenGroup, GroupRecord
<1>2. groups \in [Group -> GroupRecord] /\ \A h \in Group : groups[h].urls = group[h].urls
  <2>1. errors \in Nat
    BY <1>1, ConstantsAssumption DEF Least
  <2> HIDE DEF errors
  <2>2. new \in GroupRecord /\ new.urls = group[g].urls
    BY <1>1, <2>1 DEF GroupRecord, GroupState
  <2> HIDE DEF new
  <2> QED BY <1>1, <2>2 DEF TypeOK
<1>3. \/ PushHalves(g, groups)
      \/ /\ group' = groups
         /\ groupQueue' = Push(g, groupQueue) \/ groupQueue' = groupQueue
  BY DEF BecomeError
<1> HIDE DEF groups
<1>4. CASE PushHalves(g, groups)
  BY <1>1, <1>2, <1>4, HalvesPlaces
<1>5. CASE /\ group' = groups
           /\ groupQueue' = Push(g, groupQueue) \/ groupQueue' = groupQueue
  <2>1. groupQueue \in Seq(Group)
    BY DEF TypeOK
  <2>2. Elems(Push(g, groupQueue)) = Elems(groupQueue) \cup {g}
    BY <1>1, <2>1, PushElems
  <2>3. Elems(groupQueue') \subseteq Elems(groupQueue) \cup {g}
    BY <1>5, <2>2
  <2> QED BY <1>2, <1>5, <2>3 DEF QueuedIn
<1> QED BY <1>3, <1>4, <1>5

-----------------------------------------------------------------------------
(* The verdict of a visit                                                  *)

LEMMA VisitedVerdicts ==
  ASSUME TypeOK, NEW g, NEW gr, NEW us \in [Urls -> UrlRecord],
         GivenGroup(g, gr), BecomeVisited(g, gr, us)
  PROVE  /\ log.safe \subseteq log'.safe /\ log.error \subseteq log'.error
         /\ \A u \in Urls \ gr.urls : url'[u] = us[u]
         /\ \A u \in gr.urls : us[u].state = "VISITING" =>
              /\ url'[u].state = "ERROR" => u \in log'.error
              /\ url'[u].malicious = "false" => u \in log'.safe \cup log'.error
         /\ \A u \in log'.safe \ log.safe : u \in gr.urls /\ us[u].malicious = "false"
<1> DEFINE target == [u \in gr.urls |-> IF us[u].code = OK THEN "VISITED" ELSE "ERROR"]
<1>1. SetUrlStates(us, target) /\ DOMAIN target = gr.urls /\ gr.urls \in SUBSET Urls
  BY DEF BecomeVisited, GivenGroup, GroupRecord
<1>2. \A u \in gr.urls : target[u] = "VISITED" \/ target[u] = "ERROR"
  OBVIOUS
<1> HIDE DEF target
<1>3. log.safe \subseteq log'.safe /\ log.error \subseteq log'.error
  BY <1>1 DEF SetUrlStates
<1>4. \A u \in Urls \ gr.urls : url'[u] = us[u]
  BY <1>1 DEF SetUrlStates
<1>5. ASSUME NEW u \in log'.safe \ log.safe
      PROVE  u \in gr.urls /\ us[u].malicious = "false"
  BY <1>1 DEF SetUrlStates
<1>6. ASSUME NEW u \in gr.urls, us[u].state = "VISITING"
      PROVE  /\ url'[u].state = "ERROR" => u \in log'.error
             /\ url'[u].malicious = "false" => u \in log'.safe \cup log'.error
  <2>1. us[u] \in UrlRecord
    BY <1>1
  <2>2. url'[u].state = target[u] /\ url'[u].malicious = us[u].malicious
    BY <1>1, <2>1 DEF SetUrlStates, UrlRecord
  <2>3. us[u].state # target[u]
    BY <1>2, <1>6
  <2>4. target[u] = "ERROR" => u \in log'.error
    BY <1>1, <2>3 DEF SetUrlStates
  <2>5. target[u] = "VISITED" /\ us[u].malicious = "false" => u \in log'.safe
    BY <1>1, <2>3 DEF SetUrlStates
  <2> QED BY <1>2, <2>2, <2>4, <2>5
<1> QED BY <1>3, <1>4, <1>5, <1>6

LEMMA FailedVerdicts ==
  ASSUME TypeOK, NEW g, NEW gr, NEW us \in [Urls -> UrlRecord],
         GivenGroup(g, gr), BecomeError(g, gr, us)
  PROVE  /\ log'.safe = log.safe /\ log.error \subseteq log'.error
         /\ \A u \in Urls \ gr.urls : url'[u] = us[u]
         /\ \A u \in gr.urls : us[u].state # "ERROR" => u \in log'.error
<1> DEFINE target == [u \in gr.urls |-> "ERROR"]
           bad    == SetCodes(us, gr.urls, gr.code)
<1>1. /\ SetUrlStates(bad, target) /\ DOMAIN target = gr.urls
      /\ gr.urls \in SUBSET Urls /\ gr.code \in Codes \cup {OK}
  BY DEF BecomeError, GivenGroup, GroupRecord
<1>2. \A u \in gr.urls : target[u] = "ERROR"
  OBVIOUS
<1>3. \A u \in Urls : bad[u].state = us[u].state
  BY <1>1, SetCodesState
<1>4. \A u \in Urls \ gr.urls : bad[u] = us[u]
  BY DEF SetCodes
<1> HIDE DEF target, bad
<1>5. log'.safe = log.safe /\ log.error \subseteq log'.error
  BY <1>1, <1>2 DEF SetUrlStates, TypeOK
<1>6. \A u \in Urls \ gr.urls : url'[u] = us[u]
  BY <1>1, <1>4 DEF SetUrlStates
<1>7. ASSUME NEW u \in gr.urls, us[u].state # "ERROR" PROVE u \in log'.error
  <2>1. bad[u].state # target[u] /\ target[u] = "ERROR"
    BY <1>1, <1>2, <1>3, <1>7
  <2> QED BY <1>1, <2>1 DEF SetUrlStates
<1> QED BY <1>5, <1>6, <1>7

\* What setMalicious leaves alone.
LEMMA MaliciousFrame ==
  ASSUME NEW us \in [Urls -> UrlRecord], NEW gr, NEW alg, NEW mal \in BOOLEAN,
         NEW noMap, NEW csv
  PROVE  /\ \A u \in Urls : SetMalicious(us, gr, alg, mal, noMap, csv)[u].state = us[u].state
         /\ \A u \in Urls \ gr.urls : SetMalicious(us, gr, alg, mal, noMap, csv)[u] = us[u]
         /\ \A u \in Urls : SetMalicious(us, gr, alg, mal, noMap, csv)[u].malicious = "false" =>
              us[u].malicious = "false" \/ ~mal \/ alg = "bulk"
<1>1. \A u \in Urls : us[u] \in UrlRecord
  OBVIOUS
<1>2. \A u \in Urls : SetMalicious(us, gr, alg, mal, noMap, csv)[u].state = us[u].state
  BY SetMaliciousState
<1>3. \A u \in Urls \ gr.urls : SetMalicious(us, gr, alg, mal, noMap, csv)[u] = us[u]
  BY DEF SetMalicious
<1>4. \A u \in Urls : SetMalicious(us, gr, alg, mal, noMap, csv)[u].malicious = "false" =>
              us[u].malicious = "false" \/ ~mal \/ alg = "bulk"
  BY <1>1 DEF SetMalicious, UrlRecord
<1> QED BY <1>2, <1>3, <1>4

\* u, which session s visited alone, is nowhere but in the deque, if there.
LEMMA LeftPlace ==
  ASSUME VInv, NEW u \in Urls, u \notin log.error, NEW s \in Session, Place(u, s),
         UNCHANGED <<known, urlQueue>>,
         \A h \in Group : ~Unused(h) => group'[h].urls = group[h].urls,
         \A t \in Session \ {s} : session'[t] = session[t],
         session'[s] = IdleSession,
         \A h, k \in Group :
           QueuedIn(h, u)' /\ QueuedIn(k, u)' /\ ~QueuedIn(h, u) /\ ~QueuedIn(k, u) => h = k
  PROVE  OnePlace(u)' /\ \A t \in Session : ~Place(u, t)'
<1>1. OnePlace(u) /\ IInv
  BY DEF VInv, VerdictInv
<1>2. u \in known /\ u \notin urlQueue /\ \A h \in Group : ~QueuedIn(h, u)
  BY Zenon, <1>1 DEF OnePlace
<1>3. ASSUME NEW t \in Session PROVE ~Place(u, t)'
  <2>1. CASE t = s
    BY <2>1, ConstantsAssumption DEF Place, IdleSession
  <2>2. CASE t # s
    <3>1. ~Place(u, t)
      BY Zenon, <1>1, <2>2 DEF OnePlace
    <3>2. Shrinks(t)
      BY <2>2 DEF Shrinks
    <3>3. Place(u, t)' => Place(u, t)
      BY <1>1, <3>2, PlaceStays
    <3> QED BY <3>1, <3>3
  <2> QED BY <2>1, <2>2
<1>4. \A h, k \in Group : QueuedIn(h, u)' /\ QueuedIn(k, u)' => h = k
  BY Zenon, <1>2
<1>5. u \in known' /\ u \notin urlQueue'
  BY <1>2
<1>6. OnePlace(u)'
  BY Zenon, <1>3, <1>4, <1>5 DEF OnePlace
<1> QED BY <1>3, <1>6

\* The visit of session s ends without an error.
LEMMA VisitVerdict ==
  ASSUME VInv, IInv', NEW s \in Session, session[s].pc = "visiting",
         NEW g, g = session[s].group,
         NEW mal \in BOOLEAN, NEW codes \in [Urls -> UrlRecord],
         \A u \in Urls : codes[u].state = url[u].state
                         /\ codes[u].malicious = url[u].malicious,
         NEW noMap, NEW csv,
         BecomeVisited(g, [group[g] EXCEPT !.malicious = mal],
                       SetMalicious(codes, group[g], group[g].algorithm, mal, noMap, csv)),
         session' = [session EXCEPT ![s] = IdleSession],
         UNCHANGED <<known, urlQueue, handed>>
  PROVE  /\ VInv'
         /\ \A u \in (log'.safe \ log.safe) \ log.error :
              u \in group[g].urls /\ (group[g].algorithm = "bulk" \/ ~mal)
<1>1. /\ g \in Group /\ group[g] \in GroupRecord /\ handed[g] > 0
      /\ TypeOK /\ QueueInv /\ IInv
  BY SessionGroup DEF HasGroup, VInv, IInv
<1> DEFINE gr == [group[g] EXCEPT !.malicious = mal]
           us == SetMalicious(codes, group[g], group[g].algorithm, mal, noMap, csv)
<1>2. gr.urls = group[g].urls /\ GivenGroup(g, gr)
  BY <1>1, WithVerdict
<1>3. /\ us \in [Urls -> UrlRecord]
      /\ \A u \in Urls : us[u].state = codes[u].state
      /\ \A u \in Urls \ group[g].urls : us[u] = codes[u]
      /\ \A u \in Urls : us[u].malicious = "false" =>
           codes[u].malicious = "false" \/ ~mal \/ group[g].algorithm = "bulk"
  BY SetMaliciousType, MaliciousFrame
<1>4. BecomeVisited(g, gr, us)
  OBVIOUS
<1> HIDE DEF gr, us
<1>5. /\ log.safe \subseteq log'.safe /\ log.error \subseteq log'.error
      /\ \A u \in Urls \ gr.urls : url'[u] = us[u]
      /\ \A u \in gr.urls : us[u].state = "VISITING" =>
           /\ url'[u].state = "ERROR" => u \in log'.error
           /\ url'[u].malicious = "false" => u \in log'.safe \cup log'.error
      /\ \A u \in log'.safe \ log.safe : u \in gr.urls /\ us[u].malicious = "false"
  BY <1>1, <1>2, <1>3, <1>4, VisitedVerdicts
<1>6. /\ \A h \in Group, u \in Urls : QueuedIn(h, u)' =>
           QueuedIn(h, u) \/ u \in group[g].urls
      /\ \A h, k \in Group, u \in Urls :
           QueuedIn(h, u)' /\ QueuedIn(k, u)' /\ ~QueuedIn(h, u) /\ ~QueuedIn(k, u) => h = k
  BY <1>1, <1>2, <1>4, VisitedPlaces
<1>7. \A h \in Group : ~Unused(h) => group'[h].urls = group[h].urls
  <2>1. Outcome(g, gr)
    BY <1>1, <1>2, <1>4, VisitedOutcome
  <2> QED BY <2>1 DEF Outcome, Unused
<1>8. session'[s] = IdleSession /\ \A t \in Session \ {s} : session'[t] = session[t]
  BY <1>1 DEF TypeOK
<1>9. group[g].urls \in SUBSET Urls
  BY <1>1 DEF GroupRecord
<1>10. ASSUME NEW u \in group[g].urls PROVE VerdictInv(u)'
  <2>1. CASE u \in log.error
    BY <1>5, <2>1, FailedVerdict
  <2>2. CASE u \notin log.error
    <3>1. u \in Urls /\ VerdictInv(u)
      BY <1>9 DEF VInv
    <3>2. Visits(s, u) /\ Place(u, s)
      BY <1>1 DEF Visits, Place
    <3>3. url[u].state = "VISITING"
      BY Zenon, <2>2, <3>1, <3>2 DEF VerdictInv
    <3>4. /\ url'[u].state = "ERROR" => u \in log'.error
          /\ url'[u].malicious = "false" => u \in log'.safe \cup log'.error
      BY <1>2, <1>3, <1>5, <3>1, <3>3
    <3>5. OnePlace(u)' /\ \A t \in Session : ~Place(u, t)'
      <4>1. \A h, k \in Group :
              QueuedIn(h, u)' /\ QueuedIn(k, u)' /\ ~QueuedIn(h, u) /\ ~QueuedIn(k, u) => h = k
        BY Zenon, <1>6, <3>1
      <4>2. UNCHANGED <<known, urlQueue>>
        OBVIOUS
      <4> QED BY <1>7, <1>8, <2>2, <3>1, <3>2, <4>1, <4>2, LeftPlace
    <3>6. \A t \in Session : ~Visits(t, u)'
      BY <3>5 DEF Visits, Place, IInv, SessionInv
    <3> QED BY <3>4, <3>5, <3>6 DEF VerdictInv
  <2> QED BY <2>1, <2>2
<1>11. ASSUME NEW u \in Urls, u \notin group[g].urls PROVE VerdictInv(u)'
  <2>1. \A h \in Group : QueuedIn(h, u)' => QueuedIn(h, u)
    BY <1>6, <1>11
  <2>2. \A t \in Session : Shrinks(t)
    BY <1>8 DEF Shrinks, IdleSession
  <2>3. \A t \in Session : session'[t].pc = "visiting" => session[t].pc = "visiting"
    BY <1>8 DEF IdleSession
  <2>4. url'[u].state = url[u].state /\ url'[u].malicious = url[u].malicious
    BY <1>2, <1>3, <1>5, <1>11
  <2>5. UNCHANGED <<known, urlQueue>> /\ (u \in log.safe => u \in log'.safe)
        /\ (u \in log.error => u \in log'.error)
    BY <1>5
  <2> QED BY <1>7, <2>1, <2>2, <2>3, <2>4, <2>5, VerdictStays
<1>12. VInv'
  BY <1>10, <1>11 DEF VInv
<1>13. ASSUME NEW u \in (log'.safe \ log.safe) \ log.error
       PROVE  u \in group[g].urls /\ (group[g].algorithm = "bulk" \/ ~mal)
  <2>1. u \in group[g].urls /\ us[u].malicious = "false"
    BY <1>2, <1>5, <1>13
  <2>2. u \in Urls /\ VerdictInv(u)
    BY <1>9, <2>1 DEF VInv
  <2>3. url[u].malicious # "false"
    BY <1>13, <2>2 DEF VerdictInv
  <2> QED BY <1>3, <2>1, <2>2, <2>3
<1> QED BY <1>12, <1>13

SafeStep ==
  \A u \in (log'.safe \ log.safe) \ log.error : CleanVisitOf(u) \/ BulkVisitOf(u)

LEMMA NothingSafe ==
  ASSUME log'.safe = log.safe
  PROVE  SafeStep
BY DEF SafeStep

\* A visit that found every URL or some URL benign.
LEMMA SafeVisit ==
  ASSUME VInv, NEW s \in Session, session[s].pc = "visiting",
         session' = [session EXCEPT ![s] = IdleSession],
         NEW g, g = session[s].group, NEW mal, ~mal => ~session[s].dirty,
         \A u \in (log'.safe \ log.safe) \ log.error :
           u \in group[g].urls /\ (group[g].algorithm = "bulk" \/ ~mal)
  PROVE  SafeStep
<1>1. session'[s].pc = "idle"
  BY DEF VInv, IInv, TypeOK, IdleSession
<1> QED BY <1>1 DEF SafeStep, CleanVisitOf, BulkVisitOf

LEMMA CompleteVerdict ==
  ASSUME VInv, IInv', NEW s \in Session, session[s].pc = "visiting",
         NEW mal \in BOOLEAN, ~mal => ~session[s].dirty, NEW codes \in [Urls -> UrlRecord],
         \A u \in Urls : codes[u].state = url[u].state
                         /\ codes[u].malicious = url[u].malicious,
         Complete(s, mal, codes)
  PROVE  VInv' /\ SafeStep
<1>1. PICK g : g = session[s].group
  OBVIOUS
<1>2. /\ BecomeVisited(g, [group[g] EXCEPT !.malicious = mal],
                       SetMalicious(codes, group[g], group[g].algorithm, mal, FALSE,
                                    session[s].events))
      /\ session' = [session EXCEPT ![s] = IdleSession]
      /\ UNCHANGED <<known, urlQueue, handed>>
  BY <1>1 DEF Complete
<1>3. /\ VInv'
      /\ \A u \in (log'.safe \ log.safe) \ log.error :
           u \in group[g].urls /\ (group[g].algorithm = "bulk" \/ ~mal)
  BY <1>1, <1>2, VisitVerdict
<1>4. SafeStep
  BY <1>1, <1>2, <1>3, SafeVisit
<1> QED BY <1>3, <1>4

LEMMA SetCodesFrame ==
  ASSUME NEW us \in [Urls -> UrlRecord], NEW bad, NEW code \in Codes \cup {OK}
  PROVE  /\ SetCodes(us, bad, code) \in [Urls -> UrlRecord]
         /\ \A u \in Urls : SetCodes(us, bad, code)[u].state = us[u].state
                            /\ SetCodes(us, bad, code)[u].malicious = us[u].malicious
<1>1. \A u \in Urls : /\ [us[u] EXCEPT !.code = code].state = us[u].state
                      /\ [us[u] EXCEPT !.code = code].malicious = us[u].malicious
  BY DEF UrlRecord
<1> QED BY <1>1, SetCodesType DEF SetCodes

LEMMA FinishVerdict ==
  ASSUME VInv, IInv', NEW s \in Session, NEW bad, NEW c \in Codes,
         Finish(s, bad, c) \/ FinishWithWarning(s, bad, c)
  PROVE  VInv' /\ SafeStep
<1>1. session[s].pc = "visiting"
  BY DEF Finish, FinishWithWarning
<1>2. /\ session[s].dirty \in BOOLEAN
      /\ (group[session[s].group].malicious \/ session[s].dirty) \in BOOLEAN
  BY <1>1, SessionGroup DEF HasGroup, SessionRecord, VInv
<1>3. url \in [Urls -> UrlRecord]
  BY DEF VInv, IInv, TypeOK
<1> DEFINE urls == group[session[s].group].urls
           ok   == SetCodes(url, urls, OK)
           new  == SetCodes(url, bad, c)
<1>4. /\ new \in [Urls -> UrlRecord]
      /\ \A u \in Urls : new[u].state = url[u].state /\ new[u].malicious = url[u].malicious
  BY <1>3, SetCodesFrame
<1>5. /\ ok \in [Urls -> UrlRecord]
      /\ \A u \in Urls : ok[u].state = url[u].state /\ ok[u].malicious = url[u].malicious
  BY <1>3, SetCodesFrame
<1>6. ReportedCodes(urls, bad, c) = SetCodes(ok, bad, c)
  BY DEF ReportedCodes
<1>7. CASE Finish(s, bad, c)
  <2>1. Complete(s, group[session[s].group].malicious \/ session[s].dirty, new)
    BY <1>7 DEF Finish
  <2> HIDE DEF new
  <2> QED BY <1>1, <1>2, <1>4, <2>1, CompleteVerdict
<1>8. CASE FinishWithWarning(s, bad, c)
  <2>1. Complete(s, session[s].dirty, SetCodes(ok, bad, c))
    BY <1>6, <1>8 DEF FinishWithWarning
  <2> HIDE DEF ok
  <2>2. SetCodes(ok, bad, c) \in [Urls -> UrlRecord]
    BY <1>5, SetCodesFrame
  <2>3. \A u \in Urls : SetCodes(ok, bad, c)[u].state = ok[u].state
                        /\ SetCodes(ok, bad, c)[u].malicious = ok[u].malicious
    BY <1>5, SetCodesFrame
  <2>4. \A u \in Urls : SetCodes(ok, bad, c)[u].state = url[u].state
                        /\ SetCodes(ok, bad, c)[u].malicious = url[u].malicious
    BY <1>5, <2>3
  <2> QED BY <1>1, <1>2, <2>1, <2>2, <2>4, CompleteVerdict
<1> QED BY <1>7, <1>8

LEMMA DacEventVerdict ==
  ASSUME VInv, IInv', NEW s \in Session, DacEvent(s)
  PROVE  VInv' /\ SafeStep
<1>1. PICK g : g = session[s].group
  OBVIOUS
<1>2. /\ session[s].pc = "visiting"
      /\ BecomeVisited(g, [group[g] EXCEPT !.malicious = TRUE],
                       SetMalicious(url, group[g], group[g].algorithm, TRUE, TRUE, {}))
      /\ session' = [session EXCEPT ![s] = IdleSession]
      /\ UNCHANGED <<known, urlQueue, handed>>
  BY <1>1 DEF DacEvent
<1>3. url \in [Urls -> UrlRecord]
  BY DEF VInv, IInv, TypeOK
<1>4. /\ VInv'
      /\ \A u \in (log'.safe \ log.safe) \ log.error :
           u \in group[g].urls /\ (group[g].algorithm = "bulk" \/ ~TRUE)
  BY <1>1, <1>2, <1>3, VisitVerdict
<1>5. SafeStep
  BY <1>1, <1>2, <1>4, SafeVisit
<1> QED BY <1>4, <1>5

\* A group fails.
LEMMA FailedGroupVerdict ==
  ASSUME VInv, IInv', NEW g \in Group, NEW gr, NEW us \in [Urls -> UrlRecord],
         \A u \in Urls : us[u].state = url[u].state,
         \A u \in Urls \ group[g].urls : us[u] = url[u],
         GivenGroup(g, gr), BecomeError(g, gr, us), UNCHANGED <<known, urlQueue, handed>>,
         \A t \in Session : Shrinks(t),
         \A t \in Session : session'[t].pc = "visiting" => session[t].pc = "visiting"
  PROVE  VInv' /\ SafeStep
<1>1. TypeOK /\ QueueInv /\ gr.urls = group[g].urls /\ group[g].urls \in SUBSET Urls
  BY DEF VInv, IInv, GivenGroup, TypeOK, GroupRecord
<1>2. /\ log'.safe = log.safe /\ log.error \subseteq log'.error
      /\ \A u \in Urls \ gr.urls : url'[u] = us[u]
      /\ \A u \in gr.urls : us[u].state # "ERROR" => u \in log'.error
  BY <1>1, FailedVerdicts
<1>3. \A h \in Group, u \in Urls : QueuedIn(h, u)' => QueuedIn(h, u) \/ u \in group[g].urls
  BY <1>1, FailedPlaces
<1>4. \A h \in Group : ~Unused(h) => group'[h].urls = group[h].urls
  <2>1. Outcome(g, gr)
    BY <1>1, ErrorOutcome
  <2> QED BY <2>1 DEF Outcome, Unused
<1>5. ASSUME NEW u \in group[g].urls PROVE VerdictInv(u)'
  <2>1. u \in Urls /\ VerdictInv(u)
    BY <1>1 DEF VInv
  <2>2. url[u].state = "ERROR" => u \in log.error
    BY <2>1 DEF VerdictInv
  <2>3. u \in log'.error
    BY <1>1, <1>2, <2>1, <2>2
  <2> QED BY <2>3, FailedVerdict
<1>6. ASSUME NEW u \in Urls, u \notin group[g].urls PROVE VerdictInv(u)'
  <2>1. \A h \in Group : QueuedIn(h, u)' => QueuedIn(h, u)
    BY <1>3, <1>6
  <2>2. url'[u].state = url[u].state /\ url'[u].malicious = url[u].malicious
    BY <1>1, <1>2, <1>6
  <2>3. UNCHANGED <<known, urlQueue>> /\ (u \in log.safe => u \in log'.safe)
        /\ (u \in log.error => u \in log'.error)
    BY <1>2
  <2> QED BY <1>4, <2>1, <2>2, <2>3, VerdictStays
<1>7. VInv'
  BY <1>5, <1>6 DEF VInv
<1> QED BY <1>2, <1>7, NothingSafe

LEMMA FinishWithErrorVerdict ==
  ASSUME VInv, IInv', NEW s \in Session, NEW c \in Codes, FinishWithError(s, c)
  PROVE  VInv' /\ SafeStep
<1>1. PICK g : g = session[s].group
  OBVIOUS
<1>2. session[s].pc = "visiting" /\ url \in [Urls -> UrlRecord]
  BY DEF FinishWithError, VInv, IInv, TypeOK
<1>3. /\ g \in Group /\ group[g] \in GroupRecord /\ handed[g] > 0
      /\ session[s].dirty \in BOOLEAN
  BY <1>1, <1>2, SessionGroup DEF HasGroup, SessionRecord, VInv
<1> DEFINE gr == [group[g] EXCEPT !.malicious = session[s].dirty, !.code = c]
           us == SetMalicious(url, group[g], group[g].algorithm, session[s].dirty,
                              FALSE, session[s].events)
<1>4. /\ BecomeError(g, gr, us) /\ UNCHANGED <<known, urlQueue, handed>>
      /\ session' = [session EXCEPT ![s] = IdleSession]
  BY <1>1 DEF FinishWithError
<1>5. us \in [Urls -> UrlRecord]
  BY <1>2, SetMaliciousType
<1>6. \A u \in Urls : us[u].state = url[u].state
  BY <1>2 DEF SetMalicious, UrlRecord
<1>7. \A u \in Urls \ group[g].urls : us[u] = url[u]
  BY DEF SetMalicious
<1>8. GivenGroup(g, gr)
  BY <1>3 DEF GivenGroup, GroupRecord
<1> HIDE DEF gr, us
<1>9. session'[s] = IdleSession /\ \A t \in Session \ {s} : session'[t] = session[t]
  BY <1>4 DEF VInv, IInv, TypeOK
<1>10. \A t \in Session : Shrinks(t)
  BY <1>9 DEF Shrinks, IdleSession
<1>11. \A t \in Session : session'[t].pc = "visiting" => session[t].pc = "visiting"
  BY <1>9 DEF IdleSession
<1> QED BY <1>3, <1>4, <1>5, <1>6, <1>7, <1>8, <1>10, <1>11, FailedGroupVerdict

LEMMA FailGroupVerdict ==
  ASSUME VInv, IInv', NEW g \in Group, handed[g] > 0, NEW c \in Codes \cup {OK}, NEW clear,
         FailGroup(g, c, clear),
         \A t \in Session : Shrinks(t),
         \A t \in Session : session'[t].pc = "visiting" => session[t].pc = "visiting"
  PROVE  VInv' /\ SafeStep
<1> DEFINE gr == [group[g] EXCEPT !.code = c]
           cleared == SetMalicious(url, group[g], "dac", FALSE, TRUE, {})
           us == IF clear /\ ~group[g].malicious THEN cleared ELSE url
<1>1. BecomeError(g, gr, us) /\ UNCHANGED <<known, urlQueue, handed>>
  BY DEF FailGroup
<1>2. url \in [Urls -> UrlRecord] /\ group[g] \in GroupRecord
  BY DEF VInv, IInv, TypeOK
<1>3. cleared \in [Urls -> UrlRecord]
  BY <1>2, SetMaliciousType
<1>4. \A u \in Urls : cleared[u].state = url[u].state
  BY <1>2 DEF SetMalicious, UrlRecord
<1>5. \A u \in Urls \ group[g].urls : cleared[u] = url[u]
  BY DEF SetMalicious
<1>6. GivenGroup(g, gr)
  BY <1>2 DEF GivenGroup, GroupRecord
<1>7. us = cleared \/ us = url
  OBVIOUS
<1> HIDE DEF gr, us, cleared
<1>8. /\ us \in [Urls -> UrlRecord]
      /\ \A u \in Urls : us[u].state = url[u].state
      /\ \A u \in Urls \ group[g].urls : us[u] = url[u]
  BY <1>2, <1>3, <1>4, <1>5, <1>7
<1> QED BY <1>1, <1>6, <1>8, FailedGroupVerdict

LEMMA MarkErrorVerdict ==
  ASSUME VInv, IInv', NEW s \in Session, NEW c, NEW clear, MarkError(s, c, clear),
         session[s].group \in Group => c \in Codes \cup {OK}
  PROVE  VInv' /\ SafeStep
<1> DEFINE new == [session[s] EXCEPT !.marked = TRUE]
<1>1. session[s] \in SessionRecord /\ session[s].group # NoGroup
  BY DEF MarkError, VInv, IInv, TypeOK
<1>2. session[s].group \in Group /\ handed[session[s].group] > 0
  BY <1>1, UsedGroup DEF SessionRecord, VInv
<1>3. /\ new.group = session[s].group /\ new.pc = session[s].pc /\ new.got = session[s].got
      /\ session' = [session EXCEPT ![s] = new]
      /\ FailGroup(session[s].group, c, clear)
  BY <1>1 DEF SessionRecord, MarkError
<1> HIDE DEF new
<1>4. session'[s] = new /\ \A t \in Session \ {s} : session'[t] = session[t]
  BY <1>3 DEF VInv, IInv, TypeOK
<1>5. \A t \in Session : Shrinks(t)
  BY <1>3, <1>4 DEF Shrinks
<1>6. \A t \in Session : session'[t].pc = "visiting" => session[t].pc = "visiting"
  BY <1>3, <1>4
<1> QED BY <1>2, <1>3, <1>5, <1>6, FailGroupVerdict

LEMMA MarkLateVerdict ==
  ASSUME VInv, IInv', NEW g \in Group, NEW c \in Codes \cup {OK}, NEW clear,
         MarkLate(g, c, clear)
  PROVE  VInv' /\ SafeStep
<1>1. handed[g] > 0 /\ FailGroup(g, c, clear) /\ session' = session
  BY DEF MarkLate
<1>2. \A t \in Session : Shrinks(t)
  BY <1>1 DEF Shrinks
<1>3. \A t \in Session : session'[t].pc = "visiting" => session[t].pc = "visiting"
  BY <1>1
<1> QED BY <1>1, <1>2, <1>3, FailGroupVerdict

\* Steps that leave places and states alone.
LEMMA CalmVerdict ==
  ASSUME VInv, IInv', UNCHANGED <<known, urlQueue, log, groupQueue>>,
         \A h \in Group : group'[h].urls = group[h].urls,
         \A t \in Session : Shrinks(t),
         \A t \in Session : session'[t].pc = "visiting" => session[t].pc = "visiting",
         \A u \in Urls : url'[u].state = url[u].state,
         \A u \in Urls : url'[u].malicious = "false" => url[u].malicious = "false"
  PROVE  VInv' /\ SafeStep
<1>1. ASSUME NEW u \in Urls PROVE VerdictInv(u)'
  <2>1. \A h \in Group : QueuedIn(h, u)' => QueuedIn(h, u)
    BY DEF QueuedIn
  <2>2. UNCHANGED <<known, urlQueue>> /\ (u \in log.safe => u \in log'.safe)
        /\ (u \in log.error => u \in log'.error)
    OBVIOUS
  <2> QED BY <2>1, <2>2, VerdictStays
<1>2. VInv'
  BY <1>1 DEF VInv
<1> QED BY <1>2, NothingSafe

\* The same for a step that changes fields of session s.
LEMMA CalmStep ==
  ASSUME VInv, IInv', UNCHANGED <<known, urlQueue, url, log, group, groupQueue>>,
         NEW s \in Session, NEW new, session' = [session EXCEPT ![s] = new],
         new.got \subseteq session[s].got,
         new.group = session[s].group \/ new.group = NoGroup,
         new.pc = "visiting" => session[s].pc = "visiting"
  PROVE  VInv' /\ SafeStep
<1>1. session'[s] = new /\ \A t \in Session \ {s} : session'[t] = session[t]
  BY DEF VInv, IInv, TypeOK
<1>2. \A t \in Session : Shrinks(t)
  BY <1>1 DEF Shrinks
<1>3. \A t \in Session : session'[t].pc = "visiting" => session[t].pc = "visiting"
  BY <1>1
<1> QED BY <1>2, <1>3, CalmVerdict

LEMMA StutterVerdict == ASSUME VInv, IInv', UNCHANGED vars PROVE VInv' /\ SafeStep
<1>1. UNCHANGED <<known, urlQueue, url, log, group, groupQueue, session>>
  BY DEF vars
<1>2. \A t \in Session : Shrinks(t)
  BY <1>1 DEF Shrinks
<1> QED BY <1>1, <1>2, CalmVerdict

LEMMA IgnoredEventVerdict ==
  ASSUME VInv, IInv', NEW s \in Session, IgnoredEvent(s) PROVE VInv' /\ SafeStep
<1> DEFINE new == [session[s] EXCEPT !.dirty = TRUE]
<1>1. session[s] \in SessionRecord
  BY DEF VInv, IInv, TypeOK
<1>2. /\ new.pc = session[s].pc /\ new.group = session[s].group
      /\ new.got = session[s].got /\ session' = [session EXCEPT ![s] = new]
      /\ UNCHANGED <<known, urlQueue, url, log, group, groupQueue>>
  BY <1>1 DEF IgnoredEvent, SessionRecord
<1> HIDE DEF new
<1> QED BY <1>2, CalmStep

LEMMA BulkEventVerdict ==
  ASSUME VInv, IInv', NEW s \in Session, BulkEvent(s) PROVE VInv' /\ SafeStep
<1>1. session[s] \in SessionRecord
  BY DEF VInv, IInv, TypeOK
<1>2. PICK found : session' = [session EXCEPT ![s].dirty = TRUE, ![s].events = @ \cup found]
  BY DEF BulkEvent
<1> DEFINE new == [session[s] EXCEPT !.dirty = TRUE, !.events = @ \cup found]
<1>3. /\ new.pc = session[s].pc /\ new.group = session[s].group
      /\ new.got = session[s].got /\ session' = [session EXCEPT ![s] = new]
  BY <1>1, <1>2 DEF SessionRecord
<1>4. UNCHANGED <<known, urlQueue, url, log, group, groupQueue>>
  BY DEF BulkEvent
<1> HIDE DEF new
<1> QED BY <1>3, <1>4, CalmStep

LEMMA GiveUpVerdict ==
  ASSUME VInv, IInv', NEW s \in Session, GiveUp(s) PROVE VInv' /\ SafeStep
<1> DEFINE new == IdleSession
<1>1. /\ new.pc = "idle" /\ new.group = NoGroup /\ new.got = {}
      /\ session' = [session EXCEPT ![s] = new]
      /\ UNCHANGED <<known, urlQueue, url, log, group, groupQueue>>
  BY DEF GiveUp, IdleSession
<1> HIDE DEF new
<1>2. new.pc # "visiting"
  BY <1>1
<1> QED BY <1>1, <1>2, CalmStep

LEMMA BeginTakeVerdict ==
  ASSUME VInv, IInv', NEW s \in Session, BeginTake(s) PROVE VInv' /\ SafeStep
<1> DEFINE n    == Least(GroupSize, Cardinality(urlQueue))
           want == IF n = 0 THEN 1 ELSE n
           fill == [session[s] EXCEPT !.pc = "fill", !.got = {}, !.want = want]
           pop  == [session[s] EXCEPT !.pc = "pop"]
<1>1. session[s] \in SessionRecord
  BY DEF VInv, IInv, TypeOK
<1>2. \/ session' = [session EXCEPT ![s] = fill]
      \/ session' = [session EXCEPT ![s] = pop]
  BY DEF BeginTake
<1> HIDE DEF n, want
<1>3. /\ fill.pc = "fill" /\ fill.group = session[s].group /\ fill.got = {}
      /\ pop.pc = "pop" /\ pop.group = session[s].group /\ pop.got = session[s].got
  BY <1>1 DEF SessionRecord
<1> HIDE DEF fill, pop
<1>4. UNCHANGED <<known, urlQueue, url, log, group, groupQueue>>
  BY DEF BeginTake
<1>5. /\ fill.pc # "visiting" /\ pop.pc # "visiting"
      /\ fill.got \subseteq session[s].got /\ pop.got \subseteq session[s].got
  BY <1>3
<1>6. CASE session' = [session EXCEPT ![s] = fill]
  BY <1>3, <1>4, <1>5, <1>6, CalmStep
<1>7. CASE session' = [session EXCEPT ![s] = pop]
  BY <1>3, <1>4, <1>5, <1>7, CalmStep
<1> QED BY <1>2, <1>6, <1>7

LEMMA ReceiverEndsVerdict ==
  ASSUME VInv, IInv', NEW s \in Session, NEW c \in Codes \cup {OK}, ReceiverEnds(s, c)
  PROVE  VInv' /\ SafeStep
<1> DEFINE new == [session[s] EXCEPT !.pc = "deaf"]
<1>1. session[s] \in SessionRecord
  BY DEF VInv, IInv, TypeOK
<1>2. /\ new.pc = "deaf" /\ new.group = session[s].group /\ new.got = session[s].got
      /\ session' = [session EXCEPT ![s] = new]
      /\ UNCHANGED <<known, urlQueue, url, log, groupQueue>>
  BY <1>1 DEF ReceiverEnds, SessionRecord
<1> HIDE DEF new
<1>3. \A h \in Group : group'[h].urls = group[h].urls
  BY DEF ReceiverEnds, VInv, IInv, TypeOK, GroupRecord
<1>4. session'[s] = new /\ \A t \in Session \ {s} : session'[t] = session[t]
  BY <1>2 DEF VInv, IInv, TypeOK
<1>5. \A t \in Session : Shrinks(t)
  BY <1>2, <1>4 DEF Shrinks
<1>6. \A t \in Session : session'[t].pc = "visiting" => session[t].pc = "visiting"
  BY <1>2, <1>4
<1> QED BY <1>2, <1>3, <1>5, <1>6, CalmVerdict

LEMMA PlainEventVerdict ==
  ASSUME VInv, IInv', NEW s \in Session, PlainEvent(s) PROVE VInv' /\ SafeStep
<1>1. PICK g : g = session[s].group
  OBVIOUS
<1>2. /\ g \in Group /\ group[g] \in GroupRecord /\ session[s] \in SessionRecord
      /\ url \in [Urls -> UrlRecord] /\ group \in [Group -> GroupRecord]
  BY <1>1, SessionGroup DEF PlainEvent, HasGroup, VInv, IInv, TypeOK
<1> DEFINE gr  == [group[g] EXCEPT !.malicious = TRUE]
           new == [session[s] EXCEPT !.dirty = TRUE]
<1>3. /\ group' = [group EXCEPT ![g] = gr] /\ session' = [session EXCEPT ![s] = new]
      /\ url' = SetMalicious(url, group[g], group[g].algorithm, TRUE, TRUE, {})
      /\ UNCHANGED <<known, urlQueue, log, groupQueue>>
  BY <1>1 DEF PlainEvent
<1>4. gr.urls = group[g].urls
  BY <1>2 DEF GroupRecord
<1>5. new.pc = session[s].pc /\ new.group = session[s].group /\ new.got = session[s].got
  BY <1>2 DEF SessionRecord
<1> HIDE DEF gr, new
<1>6. \A h \in Group : group'[h].urls = group[h].urls
  BY <1>2, <1>3, <1>4
<1>7. session'[s] = new /\ \A t \in Session \ {s} : session'[t] = session[t]
  BY <1>3 DEF VInv, IInv, TypeOK
<1>8. \A t \in Session : Shrinks(t)
  BY <1>5, <1>7 DEF Shrinks
<1>9. \A t \in Session : session'[t].pc = "visiting" => session[t].pc = "visiting"
  BY <1>5, <1>7
<1>10. \A u \in Urls : url'[u].state = url[u].state
  BY <1>2, <1>3 DEF SetMalicious, UrlRecord
<1>11. \A u \in Urls : url'[u].malicious = "false" => url[u].malicious = "false"
  BY <1>2, <1>3 DEF SetMalicious, UrlRecord
<1> QED BY <1>3, <1>6, <1>8, <1>9, <1>10, <1>11, CalmVerdict

LEMMA StartVerdict ==
  ASSUME VInv, IInv', NEW s \in Session, NEW alg \in Algorithms, Start(s, alg)
  PROVE  VInv' /\ SafeStep
<1>1. PICK g : g = session[s].group
  OBVIOUS
<1>2. /\ session[s] \in SessionRecord
      /\ g \in Group /\ group[g] \in GroupRecord /\ TypeOK
  BY <1>1, SessionGroup DEF Start, HasGroup, VInv, IInv
<1> DEFINE gr     == [group[g] EXCEPT !.algorithm = alg, !.state = "VISITING"]
           new    == [session[s] EXCEPT !.pc = "visiting", !.marked = FALSE]
           target == [u \in group[g].urls |-> "VISITING"]
<1>3. /\ group' = [group EXCEPT ![g] = gr] /\ session' = [session EXCEPT ![s] = new]
      /\ SetUrlStates(url, target)
      /\ UNCHANGED <<known, urlQueue, groupQueue, handed>>
  BY <1>1 DEF Start
<1>4. gr.urls = group[g].urls
  BY <1>2 DEF GroupRecord
<1>5. new.group = g /\ new.got = session[s].got
  BY <1>1, <1>2 DEF SessionRecord
<1>6. /\ log'.safe = log.safe /\ log'.error = log.error
      /\ \A u \in Urls \ group[g].urls : url'[u] = url[u]
      /\ \A u \in group[g].urls :
           url'[u].state = "VISITING" /\ url'[u].malicious = url[u].malicious
  <2>1. DOMAIN target = group[g].urls /\ \A u \in group[g].urls : target[u] = "VISITING"
    OBVIOUS
  <2>2. url \in [Urls -> UrlRecord] /\ group[g].urls \in SUBSET Urls
    BY <1>2 DEF TypeOK, GroupRecord
  <2> HIDE DEF target
  <2>3. log'.safe = log.safe /\ log'.error = log.error
    BY <1>2, <1>3, <2>1 DEF SetUrlStates, TypeOK
  <2>4. \A u \in Urls \ group[g].urls : url'[u] = url[u]
    BY <1>3, <2>1 DEF SetUrlStates
  <2>5. \A u \in group[g].urls : url[u] \in UrlRecord
    BY <2>2
  <2>6. \A u \in group[g].urls :
          url'[u].state = "VISITING" /\ url'[u].malicious = url[u].malicious
    BY <1>3, <2>1, <2>2, <2>5 DEF SetUrlStates, UrlRecord
  <2> QED BY <2>3, <2>4, <2>6
<1> HIDE DEF gr, new, target
<1>7. /\ session'[s] = new /\ \A t \in Session \ {s} : session'[t] = session[t]
      /\ \A h \in Group : group'[h].urls = group[h].urls
  BY <1>2, <1>3, <1>4 DEF TypeOK
<1>8. \A t \in Session : Shrinks(t)
  BY <1>1, <1>5, <1>7 DEF Shrinks
<1>9. \A u \in Urls, h \in Group : QueuedIn(h, u)' => QueuedIn(h, u)
  BY <1>3, <1>7 DEF QueuedIn
<1>10. ASSUME NEW u \in group[g].urls PROVE VerdictInv(u)'
  <2>1. u \in Urls /\ VerdictInv(u) /\ IInv
    BY <1>2 DEF VInv, GroupRecord
  <2>2. url'[u].state = "VISITING" /\ url'[u].malicious = url[u].malicious
    BY <1>6
  <2>3. ASSUME u \notin log.error PROVE OnePlace(u)'
    <3>1. OnePlace(u)
      BY <2>1, <2>3 DEF VerdictInv
    <3>2. \A t \in Session : Place(u, t)' => Place(u, t)
      BY <1>7, <1>8, <2>1, PlaceStays
    <3>3. \A h \in Group : QueuedIn(h, u)' => QueuedIn(h, u)
      BY <1>9, <2>1
    <3>4. UNCHANGED <<known, urlQueue>>
      BY <1>3
    <3> QED BY <3>1, <3>2, <3>3, <3>4, OnePlaceStays
  <2> QED BY <1>6, <2>1, <2>2, <2>3 DEF VerdictInv
<1>11. ASSUME NEW u \in Urls, u \notin group[g].urls PROVE VerdictInv(u)'
  <2>1. \A h \in Group : QueuedIn(h, u)' => QueuedIn(h, u)
    BY <1>9
  <2>2. \A t \in Session : session'[t].pc = "visiting" =>
          session[t].pc = "visiting" \/ u \notin group[session[t].group].urls
    BY <1>1, <1>7, <1>11
  <2>3. url'[u] = url[u] /\ UNCHANGED <<known, urlQueue>>
        /\ (u \in log.safe => u \in log'.safe) /\ (u \in log.error => u \in log'.error)
    BY <1>3, <1>6, <1>11
  <2> QED BY <1>7, <1>8, <2>1, <2>2, <2>3, VerdictStays
<1>12. VInv'
  BY <1>10, <1>11 DEF VInv
<1> QED BY <1>6, <1>12, NothingSafe

LEMMA AddUrlVerdict ==
  ASSUME VInv, IInv', NEW u \in Urls, AddUrl(u) PROVE VInv' /\ SafeStep
<1>1. /\ u \notin known /\ known' = known \cup {u} /\ urlQueue' = urlQueue \cup {u}
      /\ UNCHANGED <<url, log, group, groupQueue, session>>
  BY DEF AddUrl
<1>2. ASSUME NEW v \in Urls PROVE VerdictInv(v)'
  <2>1. VerdictInv(v)
    BY DEF VInv
  <2>2. /\ \A t \in Session : Place(v, t)' <=> Place(v, t)
        /\ \A h \in Group : QueuedIn(h, v)' <=> QueuedIn(h, v)
    BY <1>1 DEF Place, QueuedIn
  <2>3. \A t \in Session : Visits(t, v)' <=> Visits(t, v)
    BY <1>1 DEF Visits
  <2>4. ASSUME OnePlace(v) PROVE OnePlace(v)'
    <3>1. CASE v = u
      BY Zenon, <1>1, <2>2, <2>4, <3>1 DEF OnePlace
    <3>2. CASE v # u
      <4>1. (v \in known => v \in known') /\ (v \in urlQueue' => v \in urlQueue)
        BY <1>1, <3>2
      <4> QED BY Zenon, <2>2, <2>4, <4>1, OnePlaceStays
    <3> QED BY <3>1, <3>2
  <2>5. url' = url /\ log' = log
    BY <1>1
  <2> QED BY <2>1, <2>3, <2>4, <2>5 DEF VerdictInv
<1>3. VInv'
  BY <1>2 DEF VInv
<1> QED BY <1>1, <1>3, NothingSafe

\* Client s gets URLs that were in a queue until now.
LEMMA GivenVerdict ==
  ASSUME VInv, IInv', UNCHANGED <<known, url, log>>, urlQueue' \subseteq urlQueue,
         NEW s \in Session, NEW new, session' = [session EXCEPT ![s] = new],
         new.pc # "visiting",
         \A h \in Group : ~Unused(h) => group'[h].urls = group[h].urls,
         \A h \in Group, v \in Urls : QueuedIn(h, v)' => QueuedIn(h, v),
         \A v \in Urls : OnePlace(v) /\ Place(v, s)' /\ ~Place(v, s) =>
           /\ v \in known /\ v \notin urlQueue'
           /\ \A h \in Group : ~QueuedIn(h, v)'
           /\ \A t \in Session : ~Place(v, t)
  PROVE  VInv' /\ SafeStep
<1>1. session'[s] = new /\ \A t \in Session \ {s} : session'[t] = session[t]
  BY DEF VInv, IInv, TypeOK
<1>2. \A t \in Session \ {s} : Shrinks(t)
  BY <1>1 DEF Shrinks
<1>3. ASSUME NEW v \in Urls, NEW t \in Session, t # s PROVE Place(v, t)' => Place(v, t)
  <2>1. IInv /\ Shrinks(t)
    BY <1>2, <1>3 DEF VInv
  <2> QED BY <2>1, PlaceStays
<1>4. ASSUME NEW v \in Urls, OnePlace(v) PROVE OnePlace(v)'
  <2>1. CASE Place(v, s)' /\ ~Place(v, s)
    <3>1. /\ v \in known' /\ v \notin urlQueue'
          /\ \A h \in Group : ~QueuedIn(h, v)'
          /\ \A t \in Session : Place(v, t)' => t = s
      BY <1>3, <1>4, <2>1
    <3> QED BY Zenon, <3>1 DEF OnePlace
  <2>2. CASE Place(v, s)' => Place(v, s)
    <3>1. \A t \in Session : Place(v, t)' => Place(v, t)
      BY Zenon, <1>3, <2>2
    <3>2. \A h \in Group : QueuedIn(h, v)' => QueuedIn(h, v)
      OBVIOUS
    <3>3. (v \in known => v \in known') /\ (v \in urlQueue' => v \in urlQueue)
      OBVIOUS
    <3> QED BY Zenon, <1>4, <3>1, <3>2, <3>3, OnePlaceStays
  <2> QED BY <2>1, <2>2
<1>5. ASSUME NEW v \in Urls, NEW t \in Session, Visits(t, v)' PROVE Visits(t, v)
  <2>1. session'[t].pc = "visiting" /\ t # s /\ session'[t] = session[t]
    BY <1>1, <1>5 DEF Visits
  <2>2. session[t].group \in Group /\ IInv
    BY <2>1 DEF VInv, IInv, SessionInv
  <2>3. group'[session[t].group].urls = group[session[t].group].urls
    BY <2>2, UsedGroup
  <2> QED BY <1>5, <2>1, <2>3 DEF Visits
<1>6. ASSUME NEW v \in Urls PROVE VerdictInv(v)'
  <2>1. VerdictInv(v) /\ url'[v] = url[v] /\ log' = log
    BY DEF VInv
  <2> QED BY <1>4, <1>5, <2>1 DEF VerdictInv
<1>7. VInv'
  BY <1>6 DEF VInv
<1> QED BY <1>7, NothingSafe

LEMMA TakeUrlVerdict ==
  ASSUME VInv, IInv', NEW s \in Session, NEW u \in Urls, TakeUrl(s, u)
  PROVE  VInv' /\ SafeStep
<1> DEFINE got == session[s].got \cup {u}
<1>1. /\ session[s].pc = "fill" /\ session[s] \in SessionRecord
      /\ u \in urlQueue /\ urlQueue' = urlQueue \ {u}
      /\ UNCHANGED <<known, url, log, groupQueue>>
  BY DEF TakeUrl, VInv, IInv, TypeOK
<1>2. ASSUME NEW v \in Urls, OnePlace(v), v = u
      PROVE  /\ v \in known /\ v \notin urlQueue'
             /\ \A h \in Group : ~QueuedIn(h, v)
             /\ \A t \in Session : ~Place(v, t)
  BY <1>1, <1>2 DEF OnePlace
<1>3. CASE session' = [session EXCEPT ![s].got = got] /\ UNCHANGED <<group, handed>>
  <2> DEFINE new == [session[s] EXCEPT !.got = got]
  <2>1. /\ new.pc = "fill" /\ new.group = session[s].group /\ new.got = got
        /\ session' = [session EXCEPT ![s] = new]
    BY <1>1, <1>3 DEF SessionRecord
  <2> HIDE DEF new
  <2>2. session'[s] = new
    BY <2>1 DEF VInv, IInv, TypeOK
  <2>3. \A v \in Urls : Place(v, s)' /\ ~Place(v, s) => v = u
    BY <1>3, <2>1, <2>2 DEF Place
  <2>4. /\ \A h \in Group : group'[h].urls = group[h].urls
        /\ \A h \in Group, v \in Urls : QueuedIn(h, v)' <=> QueuedIn(h, v)
    BY <1>1, <1>3 DEF QueuedIn
  <2>5. \A v \in Urls : OnePlace(v) /\ Place(v, s)' /\ ~Place(v, s) =>
          /\ v \in known /\ v \notin urlQueue'
          /\ \A h \in Group : ~QueuedIn(h, v)'
          /\ \A t \in Session : ~Place(v, t)
    BY <1>2, <2>3, <2>4
  <2>6. new.pc # "visiting" /\ urlQueue' \subseteq urlQueue
    BY <1>1, <2>1
  <2> QED BY <1>1, <2>1, <2>4, <2>5, <2>6, GivenVerdict
<1>4. ASSUME NEW g \in Group, Unused(g),
             group' = [group EXCEPT ![g] = NewGroup(got)],
             session' = [session EXCEPT ![s] = [IdleSession EXCEPT !.pc = "held", !.group = g]]
      PROVE  VInv' /\ SafeStep
  <2> DEFINE new == [IdleSession EXCEPT !.pc = "held", !.group = g]
  <2>1. /\ new.pc = "held" /\ new.group = g /\ new.got = {}
        /\ session' = [session EXCEPT ![s] = new]
    BY <1>4 DEF IdleSession
  <2> HIDE DEF new
  <2>2. session'[s] = new
    BY <2>1 DEF VInv, IInv, TypeOK
  <2>3. group'[g].urls = got /\ \A h \in Group \ {g} : group'[h] = group[h]
    BY <1>4 DEF VInv, IInv, TypeOK, NewGroup
  <2>4. \A v \in Urls : Place(v, s)' /\ ~Place(v, s) => v = u
    BY <2>1, <2>2, <2>3 DEF Place
  <2>5. g \notin Elems(groupQueue)
    BY <1>4 DEF VInv, IInv, QueueInv, GroupTurns
  <2>6. \A h \in Group, v \in Urls : QueuedIn(h, v)' => QueuedIn(h, v)
    BY <1>1, <2>3, <2>5 DEF QueuedIn
  <2>7. \A h \in Group : ~Unused(h) => group'[h].urls = group[h].urls
    BY <1>4, <2>3
  <2>8. \A v \in Urls : OnePlace(v) /\ Place(v, s)' /\ ~Place(v, s) =>
          /\ v \in known /\ v \notin urlQueue'
          /\ \A h \in Group : ~QueuedIn(h, v)'
          /\ \A t \in Session : ~Place(v, t)
    BY <1>2, <2>4, <2>6
  <2>9. new.pc # "visiting" /\ urlQueue' \subseteq urlQueue
    BY <1>1, <2>1
  <2> QED BY <1>1, <2>1, <2>6, <2>7, <2>8, <2>9, GivenVerdict
<1> QED BY <1>3, <1>4 DEF TakeUrl, got

LEMMA PopGroupVerdict ==
  ASSUME VInv, IInv', NEW s \in Session, PopGroup(s) PROVE VInv' /\ SafeStep
<1>1. /\ session[s].pc = "pop" /\ session[s] \in SessionRecord
      /\ UNCHANGED <<known, urlQueue, url, log, group>>
  BY DEF PopGroup, VInv, IInv, TypeOK
<1>2. CASE groupQueue = <<>> /\ session' = [session EXCEPT ![s].pc = "broken"]
           /\ UNCHANGED <<groupQueue, handed>>
  <2> DEFINE new == [session[s] EXCEPT !.pc = "broken"]
  <2>1. /\ new.pc = "broken" /\ new.group = session[s].group /\ new.got = session[s].got
        /\ session' = [session EXCEPT ![s] = new]
    BY <1>1, <1>2 DEF SessionRecord
  <2> HIDE DEF new
  <2>2. new.pc # "visiting" /\ new.got \subseteq session[s].got /\ UNCHANGED groupQueue
    BY <1>2, <2>1
  <2> QED BY <1>1, <2>1, <2>2, CalmStep
<1>3. ASSUME NEW g, g = Head(groupQueue),
             groupQueue # <<>>, groupQueue' = Tail(groupQueue),
             session' = [session EXCEPT ![s] =
                           [IdleSession EXCEPT !.pc = "held", !.group = g]]
      PROVE  VInv' /\ SafeStep
  <2> DEFINE new == [IdleSession EXCEPT !.pc = "held", !.group = g]
  <2>1. groupQueue \in Seq(Group) /\ NoDuplicates(groupQueue)
    BY DEF VInv, IInv, TypeOK, QueueInv
  <2>2. /\ g \in Group /\ g \in Elems(groupQueue)
        /\ Elems(groupQueue') = Elems(groupQueue) \ {g}
    BY <2>1, <1>3, TailElems
  <2>3. /\ new.pc = "held" /\ new.group = g /\ new.got = {}
        /\ session' = [session EXCEPT ![s] = new]
    BY <1>3 DEF IdleSession
  <2> HIDE DEF new
  <2>4. session'[s] = new
    BY <2>3 DEF VInv, IInv, TypeOK
  <2>5. \A v \in Urls : Place(v, s)' => QueuedIn(g, v)
    BY <1>1, <2>2, <2>3, <2>4 DEF Place, QueuedIn
  <2>6. \A h \in Group, v \in Urls : QueuedIn(h, v)' => QueuedIn(h, v) /\ h # g
    BY <1>1, <2>2 DEF QueuedIn
  <2>7. ASSUME NEW v \in Urls, OnePlace(v), Place(v, s)'
        PROVE  /\ v \in known /\ v \notin urlQueue'
               /\ \A h \in Group : ~QueuedIn(h, v)'
               /\ \A t \in Session : ~Place(v, t)
    <3>1. g \in Group /\ QueuedIn(g, v) /\ urlQueue' = urlQueue
      BY <1>1, <2>2, <2>5, <2>7
    <3>2. /\ v \in known /\ v \notin urlQueue
          /\ \A t \in Session : ~Place(v, t)
          /\ \A h \in Group : QueuedIn(h, v) => h = g
      BY <2>7, <3>1 DEF OnePlace
    <3> QED BY <2>6, <3>1, <3>2
  <2>8. /\ new.pc # "visiting" /\ urlQueue' \subseteq urlQueue
        /\ \A h \in Group : group'[h].urls = group[h].urls
    BY <1>1, <2>3
  <2> QED BY <1>1, <2>3, <2>6, <2>7, <2>8, GivenVerdict
<1> QED BY <1>2, <1>3 DEF PopGroup

LEMMA InitVerdict == Init => VInv
<1> SUFFICES ASSUME Init PROVE VInv
  OBVIOUS
<1>1. /\ known = {} /\ urlQueue = {} /\ groupQueue = <<>>
      /\ \A u \in Urls : url[u].state = "NONE" /\ url[u].malicious = "null"
      /\ \A s \in Session : session[s].got = {} /\ session[s].group = NoGroup
                            /\ session[s].pc = "idle"
  BY DEF Init, NewUrl, IdleSession
<1>2. ASSUME NEW u \in Urls PROVE VerdictInv(u)
  <2>1. /\ \A s \in Session : ~Place(u, s) /\ ~Visits(s, u)
        /\ \A g \in Group : ~QueuedIn(g, u)
    BY <1>1, ConstantsAssumption DEF Place, Visits, QueuedIn, Elems
  <2> QED BY <1>1, <1>2, <2>1 DEF VerdictInv, OnePlace
<1> QED BY <1>2, InitInv DEF VInv

LEMMA NextVerdict == VInv /\ [Next]_vars => VInv' /\ SafeStep
<1> SUFFICES ASSUME VInv, [Next]_vars PROVE VInv' /\ SafeStep
  OBVIOUS
<1>1. IInv'
  BY NextInv DEF VInv
<1>2. CASE UNCHANGED vars
  BY <1>1, <1>2, StutterVerdict
<1>3. CASE \E u \in Urls : AddUrl(u)
  BY <1>1, <1>3, AddUrlVerdict
<1>4. CASE \E s \in Session : IgnoredEvent(s) \/ GiveUp(s)
  BY <1>1, <1>4, IgnoredEventVerdict, GiveUpVerdict
<1>5. CASE \E s \in Session : \/ BeginTake(s) \/ PopGroup(s)
                             \/ \E u \in Urls : TakeUrl(s, u)
  BY <1>1, <1>5, BeginTakeVerdict, PopGroupVerdict, TakeUrlVerdict
<1>6. ASSUME NEW s \in Session, Visit(s) PROVE VInv' /\ SafeStep
  <2>1. CASE \E alg \in Algorithms : Start(s, alg)
    BY <1>1, <2>1, StartVerdict
  <2>2. CASE BulkEvent(s)
    BY <1>1, <2>2, BulkEventVerdict
  <2>3. CASE PlainEvent(s)
    BY <1>1, <2>3, PlainEventVerdict
  <2>4. CASE DacEvent(s)
    BY <1>1, <2>4, DacEventVerdict
  <2>5. CASE \E bad \in SUBSET Urls, c \in Codes :
               Finish(s, bad, c) \/ FinishWithWarning(s, bad, c)
    BY <1>1, <2>5, FinishVerdict
  <2>6. CASE \E c \in Codes : FinishWithError(s, c)
    BY <1>1, <2>6, FinishWithErrorVerdict
  <2> QED BY <1>6, <2>1, <2>2, <2>3, <2>4, <2>5, <2>6 DEF Visit
<1>7. \A g \in Group : group[g].code \in Codes \cup {OK}
  BY DEF VInv, IInv, TypeOK, GroupRecord
<1>8. CASE \/ \E s \in Session, c \in Codes, clear \in BOOLEAN : MarkError(s, c, clear)
           \/ \E s \in Session : MarkError(s, group[session[s].group].code, FALSE)
  BY <1>1, <1>7, <1>8, MarkErrorVerdict
<1>9. CASE \/ \E g \in Group, c \in Codes, clear \in BOOLEAN : MarkLate(g, c, clear)
           \/ \E g \in Group : MarkLate(g, group[g].code, FALSE)
  BY <1>1, <1>7, <1>9, MarkLateVerdict
<1>10. CASE \E s \in Session, c \in Codes :
              ReceiverEnds(s, c) \/ ReceiverEnds(s, group[session[s].group].code)
  <2>1. \A s \in Session : session[s].pc \in HasGroup =>
          group[session[s].group].code \in Codes \cup {OK}
    BY <1>7 DEF VInv, IInv, SessionInv, HasGroup
  <2>2. \A s \in Session : \A c : ReceiverEnds(s, c) => session[s].pc \in HasGroup
    BY DEF ReceiverEnds, HasGroup
  <2>3. PICK s \in Session, c \in Codes \cup {OK} : ReceiverEnds(s, c)
    BY <1>10, <2>1, <2>2
  <2> QED BY <1>1, <2>3, ReceiverEndsVerdict
<1> QED
  BY <1>2, <1>3, <1>4, <1>5, <1>6, <1>8, <1>9, <1>10 DEF Next

\* The URLs that enter safe.log at the end of their first attempt are those
\* whose client saw nothing, or which a bulk visit judged one by one: no event
\* of another session, no late error and no retry gets in between.
THEOREM FirstVerdictHolds == Spec => FirstVerdictIsSound
<1>1. VInv /\ [Next]_vars =>
        [\A u \in (log'.safe \ log.safe) \ log.error : CleanVisitOf(u) \/ BulkVisitOf(u)]_vars
  BY NextVerdict DEF SafeStep
<1>2. VInv /\ [Next]_vars => VInv'
  BY NextVerdict
<1>3. Spec => []VInv
  BY <1>2, InitVerdict, PTL DEF Spec
<1> QED BY <1>1, <1>3, PTL DEF Spec, FirstVerdictIsSound

-----------------------------------------------------------------------------
(* Changes attributed to a URL decide its verdict                          *)

\* Clients that visit in bulk have no group of another algorithm.
BulkAlone == "bulk" \in Algorithms => Algorithms = {"bulk"}

\* The changes a client holds are those of URLs of its group, and it holds some
\* only if it visits in bulk.
ChangesInv(s) ==
  /\ session[s].events # {} => /\ "bulk" \in Algorithms
                               /\ session[s].group \in Group
                               /\ session[s].events \subseteq group[session[s].group].urls
  /\ session[s].pc = "visiting" => group[session[s].group].algorithm # "none"

EInv == IInv /\ \A s \in Session : ChangesInv(s)

DecideStep ==
  \A s \in Session :
    session[s].pc = "visiting" /\ session'[s].pc = "idle" /\ ~session[s].marked =>
      \A u \in session[s].events : url'[u].malicious = "true"

\* A group that was handed out keeps its URLs and stays one that was started.
UsedStays ==
  \A h \in Group : ~Unused(h) =>
    /\ group'[h].urls = group[h].urls
    /\ group[h].algorithm # "none" => group'[h].algorithm # "none"

LEMMA OutcomeUsed ==
  ASSUME NEW g \in Group, NEW gr, gr.algorithm = group[g].algorithm, Outcome(g, gr)
  PROVE  UsedStays
BY DEF Outcome, UsedStays

LEMMA ChangesStay ==
  ASSUME EInv, UsedStays, NEW t \in Session,
         session'[t].events \subseteq session[t].events,
         session'[t].events # {} \/ session'[t].pc = "visiting" =>
           session'[t].group = session[t].group,
         session'[t].pc = "visiting" => session[t].pc = "visiting"
  PROVE  ChangesInv(t)'
<1>1. ChangesInv(t) /\ IInv
  BY DEF EInv
<1>2. ASSUME session'[t].events # {}
      PROVE  /\ "bulk" \in Algorithms
             /\ session'[t].group \in Group
             /\ session'[t].events \subseteq group'[session'[t].group].urls
  <2>1. /\ "bulk" \in Algorithms
        /\ session[t].group \in Group
        /\ session[t].events \subseteq group[session[t].group].urls
    BY <1>1, <1>2 DEF ChangesInv
  <2>2. group'[session[t].group].urls = group[session[t].group].urls
    BY <1>1, <2>1, UsedGroup DEF UsedStays
  <2> QED BY <1>2, <2>1, <2>2
<1>3. ASSUME session'[t].pc = "visiting"
      PROVE  group'[session'[t].group].algorithm # "none"
  <2>1. session[t].group \in Group /\ group[session[t].group].algorithm # "none"
    BY <1>1, <1>3 DEF ChangesInv, IInv, SessionInv
  <2>2. group'[session[t].group].algorithm # "none"
    BY <1>1, <2>1, UsedGroup DEF UsedStays
  <2> QED BY <1>3, <2>2
<1> QED BY <1>2, <1>3 DEF ChangesInv

\* Steps that add no changes and begin no visit.
LEMMA CalmChanges ==
  ASSUME EInv, IInv', UsedStays, NEW s \in Session, NEW new,
         session' = [session EXCEPT ![s] = new],
         new.events \subseteq session[s].events,
         new.events # {} \/ new.pc = "visiting" => new.group = session[s].group,
         new.pc = "visiting" => session[s].pc = "visiting",
         session[s].pc = "visiting" /\ new.pc = "idle" /\ ~session[s].marked =>
           \A u \in session[s].events : url'[u].malicious = "true"
  PROVE  EInv' /\ DecideStep
<1>1. session'[s] = new /\ \A t \in Session \ {s} : session'[t] = session[t]
  BY DEF EInv, IInv, TypeOK
<1>2. \A t \in Session : ChangesInv(t)'
  BY <1>1, ChangesStay
<1>3. DecideStep
  BY <1>1 DEF DecideStep
<1> QED BY <1>2, <1>3 DEF EInv

LEMMA SameSessions ==
  ASSUME EInv, IInv', UsedStays, session' = session PROVE EInv' /\ DecideStep
<1>1. \A t \in Session : ChangesInv(t)'
  BY ChangesStay
<1> QED BY <1>1 DEF EInv, DecideStep

LEMMA SameGroups == ASSUME group' = group PROVE UsedStays
BY DEF UsedStays

-----------------------------------------------------------------------------
(* Steps of clients and their retrievers                                   *)

LEMMA IgnoredEventChanges ==
  ASSUME EInv, IInv', NEW s \in Session, IgnoredEvent(s) PROVE EInv' /\ DecideStep
<1> DEFINE new == [session[s] EXCEPT !.dirty = TRUE]
<1>1. session[s] \in SessionRecord
  BY DEF EInv, IInv, TypeOK
<1>2. /\ new.pc = session[s].pc /\ new.group = session[s].group
      /\ new.events = session[s].events /\ session' = [session EXCEPT ![s] = new]
      /\ group' = group /\ session[s].pc # "idle"
  BY <1>1 DEF IgnoredEvent, SessionRecord
<1> HIDE DEF new
<1>3. new.events \subseteq session[s].events /\ new.pc # "idle" /\ UsedStays
  BY <1>2, SameGroups
<1> QED BY <1>2, <1>3, CalmChanges

LEMMA GiveUpChanges ==
  ASSUME EInv, IInv', NEW s \in Session, GiveUp(s) PROVE EInv' /\ DecideStep
<1> DEFINE new == IdleSession
<1>1. /\ new.pc = "idle" /\ new.events = {}
      /\ session' = [session EXCEPT ![s] = new] /\ group' = group
      /\ session[s].pc = "broken" \/ session[s].marked
  BY DEF GiveUp, IdleSession
<1> HIDE DEF new
<1>2. new.pc # "visiting" /\ new.events \subseteq session[s].events /\ UsedStays
  BY <1>1, SameGroups
<1> QED BY <1>1, <1>2, CalmChanges

LEMMA BeginTakeChanges ==
  ASSUME EInv, IInv', NEW s \in Session, BeginTake(s) PROVE EInv' /\ DecideStep
<1> DEFINE n    == Least(GroupSize, Cardinality(urlQueue))
           want == IF n = 0 THEN 1 ELSE n
           fill == [session[s] EXCEPT !.pc = "fill", !.got = {}, !.want = want]
           pop  == [session[s] EXCEPT !.pc = "pop"]
<1>1. session[s] \in SessionRecord
  BY DEF EInv, IInv, TypeOK
<1>2. \/ session' = [session EXCEPT ![s] = fill]
      \/ session' = [session EXCEPT ![s] = pop]
  BY DEF BeginTake
<1> HIDE DEF n, want
<1>3. /\ fill.pc = "fill" /\ fill.group = session[s].group
      /\ fill.events = session[s].events
      /\ pop.pc = "pop" /\ pop.group = session[s].group /\ pop.events = session[s].events
  BY <1>1 DEF SessionRecord
<1> HIDE DEF fill, pop
<1>4. UsedStays
  BY SameGroups DEF BeginTake
<1>5. PICK x \in {fill, pop} : session' = [session EXCEPT ![s] = x]
  BY <1>2
<1>6. /\ x.pc # "visiting" /\ x.pc # "idle" /\ x.group = session[s].group
      /\ x.events \subseteq session[s].events
  BY <1>3
<1> QED BY <1>4, <1>5, <1>6, CalmChanges

LEMMA TakeUrlChanges ==
  ASSUME EInv, IInv', NEW s \in Session, NEW u \in Urls, TakeUrl(s, u)
  PROVE  EInv' /\ DecideStep
<1> DEFINE got == session[s].got \cup {u}
<1>1. session[s].pc = "fill" /\ session[s] \in SessionRecord
  BY DEF TakeUrl, EInv, IInv, TypeOK
<1>2. CASE session' = [session EXCEPT ![s].got = got] /\ UNCHANGED <<group, handed>>
  <2> DEFINE new == [session[s] EXCEPT !.got = got]
  <2>1. /\ new.pc = "fill" /\ new.group = session[s].group
        /\ new.events = session[s].events /\ session' = [session EXCEPT ![s] = new]
    BY <1>1, <1>2 DEF SessionRecord
  <2> HIDE DEF new
  <2>2. /\ new.pc # "visiting" /\ new.pc # "idle" /\ new.events \subseteq session[s].events
        /\ UsedStays
    BY <1>2, <2>1, SameGroups
  <2> QED BY <2>1, <2>2, CalmChanges
<1>3. ASSUME NEW g \in Group, Unused(g),
             group' = [group EXCEPT ![g] = NewGroup(got)],
             session' = [session EXCEPT ![s] = [IdleSession EXCEPT !.pc = "held", !.group = g]]
      PROVE  EInv' /\ DecideStep
  <2> DEFINE new == [IdleSession EXCEPT !.pc = "held", !.group = g]
  <2>1. /\ new.pc = "held" /\ new.events = {}
        /\ session' = [session EXCEPT ![s] = new]
    BY <1>3 DEF IdleSession
  <2> HIDE DEF new, got
  <2>2. \A h \in Group \ {g} : group'[h] = group[h]
    BY <1>3 DEF EInv, IInv, TypeOK
  <2>3. UsedStays
    BY <1>3, <2>2 DEF UsedStays
  <2>4. new.pc # "visiting" /\ new.pc # "idle" /\ new.events \subseteq session[s].events
    BY <2>1
  <2> QED BY <2>1, <2>3, <2>4, CalmChanges
<1> QED BY <1>2, <1>3 DEF TakeUrl, got

LEMMA PopGroupChanges ==
  ASSUME EInv, IInv', NEW s \in Session, PopGroup(s) PROVE EInv' /\ DecideStep
<1>1. session[s].pc = "pop" /\ session[s] \in SessionRecord /\ group' = group
  BY DEF PopGroup, EInv, IInv, TypeOK
<1> DEFINE broken == [session[s] EXCEPT !.pc = "broken"]
           held   == [IdleSession EXCEPT !.pc = "held", !.group = Head(groupQueue)]
<1>2. \/ session' = [session EXCEPT ![s] = broken]
      \/ session' = [session EXCEPT ![s] = held]
  BY DEF PopGroup
<1>3. /\ broken.pc = "broken" /\ broken.group = session[s].group
      /\ broken.events = session[s].events
      /\ held.pc = "held" /\ held.events = {}
  BY <1>1 DEF SessionRecord, IdleSession
<1> HIDE DEF broken, held
<1>4. PICK x \in {broken, held} : session' = [session EXCEPT ![s] = x]
  BY <1>2
<1>5. /\ x.pc # "visiting" /\ x.pc # "idle" /\ x.events \subseteq session[s].events
      /\ x.events # {} => x.group = session[s].group
  BY <1>3
<1> QED BY <1>1, <1>4, <1>5, SameGroups, CalmChanges

LEMMA ReceiverEndsChanges ==
  ASSUME EInv, IInv', NEW s \in Session, NEW c \in Codes \cup {OK}, ReceiverEnds(s, c)
  PROVE  EInv' /\ DecideStep
<1> DEFINE new == [session[s] EXCEPT !.pc = "deaf"]
<1>1. session[s] \in SessionRecord
  BY DEF EInv, IInv, TypeOK
<1>2. /\ new.pc = "deaf" /\ new.group = session[s].group
      /\ new.events = session[s].events /\ session' = [session EXCEPT ![s] = new]
  BY <1>1 DEF ReceiverEnds, SessionRecord
<1> HIDE DEF new
<1>3. UsedStays
  BY DEF ReceiverEnds, UsedStays, EInv, IInv, TypeOK, GroupRecord
<1>4. new.pc # "visiting" /\ new.pc # "idle" /\ new.events \subseteq session[s].events
  BY <1>2
<1> QED BY <1>2, <1>3, <1>4, CalmChanges

-----------------------------------------------------------------------------
(* Steps of a visit                                                        *)

LEMMA StartChanges ==
  ASSUME EInv, IInv', NEW s \in Session, NEW alg \in Algorithms, Start(s, alg)
  PROVE  EInv' /\ DecideStep
<1>1. PICK g : g = session[s].group
  OBVIOUS
<1>2. /\ session[s] \in SessionRecord /\ session[s].pc = "held"
      /\ g \in Group /\ group[g] \in GroupRecord /\ alg # "none"
  BY <1>1, SessionGroup, ConstantsAssumption DEF Start, HasGroup, EInv
<1> DEFINE gr  == [group[g] EXCEPT !.algorithm = alg, !.state = "VISITING"]
           new == [session[s] EXCEPT !.pc = "visiting", !.marked = FALSE]
<1>3. group' = [group EXCEPT ![g] = gr] /\ session' = [session EXCEPT ![s] = new]
  BY <1>1 DEF Start
<1>4. gr.urls = group[g].urls /\ gr.algorithm # "none"
  BY <1>2 DEF GroupRecord
<1>5. /\ new.pc = "visiting" /\ new.group = g /\ new.events = session[s].events
  BY <1>1, <1>2 DEF SessionRecord
<1> HIDE DEF gr, new
<1>6. group'[g] = gr /\ \A h \in Group \ {g} : group'[h] = group[h]
  BY <1>2, <1>3 DEF EInv, IInv, TypeOK
<1>7. UsedStays
  BY <1>4, <1>6 DEF UsedStays
<1>8. session'[s] = new /\ \A t \in Session \ {s} : session'[t] = session[t]
  BY <1>3 DEF EInv, IInv, TypeOK
<1>9. ASSUME NEW t \in Session, t # s PROVE ChangesInv(t)'
  BY <1>7, <1>8, <1>9, ChangesStay
<1>10. ChangesInv(s)'
  BY <1>1, <1>4, <1>5, <1>6, <1>8 DEF EInv, ChangesInv
<1>11. DecideStep
  BY <1>5, <1>8 DEF DecideStep
<1> QED BY <1>9, <1>10, <1>11 DEF EInv

LEMMA BulkEventChanges ==
  ASSUME EInv, IInv', NEW s \in Session, BulkEvent(s) PROVE EInv' /\ DecideStep
<1>1. PICK g : g = session[s].group
  OBVIOUS
<1>2. /\ session[s] \in SessionRecord /\ session[s].pc = "visiting"
      /\ g \in Group /\ group[g] \in GroupRecord
      /\ group[g].algorithm = "bulk" /\ group' = group
  BY <1>1, SessionGroup DEF BulkEvent, HasGroup, EInv
<1>3. PICK found \in SUBSET group[g].urls :
        session' = [session EXCEPT ![s].dirty = TRUE, ![s].events = @ \cup found]
  BY <1>1 DEF BulkEvent
<1> DEFINE new == [session[s] EXCEPT !.dirty = TRUE, !.events = @ \cup found]
<1>4. /\ new.pc = "visiting" /\ new.group = g /\ new.events = session[s].events \cup found
      /\ session' = [session EXCEPT ![s] = new]
  BY <1>1, <1>2, <1>3 DEF SessionRecord
<1> HIDE DEF new
<1>5. session'[s] = new /\ \A t \in Session \ {s} : session'[t] = session[t]
  BY <1>4 DEF EInv, IInv, TypeOK
<1>6. "bulk" \in Algorithms
  BY <1>2 DEF GroupRecord
<1>7. ASSUME NEW t \in Session, t # s PROVE ChangesInv(t)'
  BY <1>2, <1>5, <1>7, SameGroups, ChangesStay
<1>8. ChangesInv(s)'
  BY <1>1, <1>2, <1>4, <1>5, <1>6 DEF EInv, ChangesInv
<1>9. DecideStep
  BY <1>4, <1>5 DEF DecideStep
<1> QED BY <1>7, <1>8, <1>9 DEF EInv

LEMMA PlainEventChanges ==
  ASSUME EInv, IInv', NEW s \in Session, PlainEvent(s) PROVE EInv' /\ DecideStep
<1> DEFINE new == [session[s] EXCEPT !.dirty = TRUE]
<1>1. session[s] \in SessionRecord /\ session[s].pc = "visiting"
  BY DEF EInv, IInv, TypeOK, PlainEvent
<1>2. /\ new.pc = "visiting" /\ new.group = session[s].group
      /\ new.events = session[s].events /\ session' = [session EXCEPT ![s] = new]
  BY <1>1 DEF PlainEvent, SessionRecord
<1> HIDE DEF new
<1>3. UsedStays
  BY DEF PlainEvent, UsedStays, EInv, IInv, TypeOK, GroupRecord
<1>4. new.pc # "idle" /\ new.events \subseteq session[s].events
  BY <1>2
<1> QED BY <1>1, <1>2, <1>3, <1>4, CalmChanges

-----------------------------------------------------------------------------
(* The ends of a visit                                                     *)

LEMMA StatesKeepVerdicts ==
  ASSUME NEW us \in [Urls -> UrlRecord], NEW target, SetUrlStates(us, target)
  PROVE  \A u \in Urls : url'[u].malicious = us[u].malicious
<1>1. \A u \in Urls : us[u] \in UrlRecord
  OBVIOUS
<1> QED BY <1>1 DEF SetUrlStates, UrlRecord

\* A client's group at the end of a visit with changes is a bulk group.
LEMMA BulkVisit ==
  ASSUME BulkAlone, EInv, NEW s \in Session, session[s].pc = "visiting",
         session[s].events # {}
  PROVE  /\ group[session[s].group].algorithm = "bulk"
         /\ session[s].events \subseteq group[session[s].group].urls
<1>1. /\ session[s].group \in Group /\ "bulk" \in Algorithms
      /\ session[s].events \subseteq group[session[s].group].urls
      /\ group[session[s].group].algorithm # "none"
  BY DEF EInv, ChangesInv
<1>2. group[session[s].group].algorithm \in Algorithms \cup {"none"}
  BY <1>1 DEF EInv, IInv, TypeOK, GroupRecord
<1> QED BY <1>1, <1>2 DEF BulkAlone

\* A visit ends: the verdicts us of its URLs are final.
LEMMA EndDecides ==
  ASSUME EInv, IInv', NEW s \in Session, session[s].pc = "visiting",
         session' = [session EXCEPT ![s] = IdleSession],
         NEW g, g = session[s].group, NEW gr, GivenGroup(g, gr),
         gr.algorithm = group[g].algorithm, NEW us,
         BecomeVisited(g, gr, us) \/ BecomeError(g, gr, us),
         \A u \in session[s].events : url'[u].malicious = "true"
  PROVE  EInv' /\ DecideStep
<1>1. TypeOK /\ QueueInv /\ g \in Group
  BY DEF EInv, IInv, GivenGroup
<1>2. Outcome(g, gr)
  BY <1>1, VisitedOutcome, ErrorOutcome
<1>3. UsedStays
  BY <1>1, <1>2, OutcomeUsed
<1> DEFINE new == IdleSession
<1>4. new.pc = "idle" /\ new.events = {} /\ session' = [session EXCEPT ![s] = new]
  BY DEF IdleSession
<1> HIDE DEF new
<1>5. new.pc # "visiting" /\ new.events \subseteq session[s].events
  BY <1>4
<1> QED BY <1>3, <1>4, <1>5, CalmChanges

LEMMA CompleteChanges ==
  ASSUME BulkAlone, EInv, IInv', NEW s \in Session, session[s].pc = "visiting",
         NEW mal \in BOOLEAN, NEW codes \in [Urls -> UrlRecord], Complete(s, mal, codes)
  PROVE  EInv' /\ DecideStep
<1>1. PICK g : g = session[s].group
  OBVIOUS
<1> DEFINE gr == [group[g] EXCEPT !.malicious = mal]
           us == SetMalicious(codes, group[g], group[g].algorithm, mal, FALSE,
                              session[s].events)
<1>2. BecomeVisited(g, gr, us) /\ session' = [session EXCEPT ![s] = IdleSession]
  BY <1>1 DEF Complete
<1>3. /\ g \in Group /\ group[g] \in GroupRecord /\ handed[g] > 0
      /\ group[g].urls \subseteq Urls
  BY <1>1, SessionGroup DEF HasGroup, EInv, GroupRecord
<1>4. GivenGroup(g, gr) /\ gr.algorithm = group[g].algorithm
  BY <1>3 DEF GivenGroup, GroupRecord
<1>5. us \in [Urls -> UrlRecord]
  BY SetMaliciousType
<1>6. ASSUME NEW u \in session[s].events PROVE url'[u].malicious = "true"
  <2>1. /\ group[g].algorithm = "bulk" /\ session[s].events \subseteq group[g].urls
    BY <1>1, <1>6, BulkVisit
  <2>2. u \in Urls /\ u \in group[g].urls
    BY <1>3, <1>6, <2>1
  <2>3. us[u].malicious = "true"
    BY <1>6, <2>1, <2>2 DEF SetMalicious, UrlRecord
  <2>4. \E target : SetUrlStates(us, target)
    BY <1>2 DEF BecomeVisited
  <2> HIDE DEF us
  <2> QED BY <1>5, <2>2, <2>3, <2>4, StatesKeepVerdicts
<1> HIDE DEF gr, us
<1> QED BY <1>1, <1>2, <1>4, <1>6, EndDecides

LEMMA FinishChanges ==
  ASSUME BulkAlone, EInv, IInv', NEW s \in Session, NEW bad, NEW c \in Codes,
         Finish(s, bad, c) \/ FinishWithWarning(s, bad, c)
  PROVE  EInv' /\ DecideStep
<1>1. session[s].pc = "visiting"
  BY DEF Finish, FinishWithWarning
<1>2. /\ session[s].dirty \in BOOLEAN
      /\ (group[session[s].group].malicious \/ session[s].dirty) \in BOOLEAN
  BY <1>1, SessionGroup DEF HasGroup, SessionRecord, EInv
<1>3. url \in [Urls -> UrlRecord]
  BY DEF EInv, IInv, TypeOK
<1>4. SetCodes(url, bad, c) \in [Urls -> UrlRecord]
  BY <1>3, SetCodesType
<1>5. ReportedCodes(group[session[s].group].urls, bad, c) \in [Urls -> UrlRecord]
  BY <1>3, ReportedCodesType
<1>6. CASE Finish(s, bad, c)
  BY <1>1, <1>2, <1>4, <1>6, CompleteChanges DEF Finish
<1>7. CASE FinishWithWarning(s, bad, c)
  BY <1>1, <1>2, <1>5, <1>7, CompleteChanges DEF FinishWithWarning
<1> QED BY <1>6, <1>7

LEMMA DacEventChanges ==
  ASSUME BulkAlone, EInv, IInv', NEW s \in Session, DacEvent(s)
  PROVE  EInv' /\ DecideStep
<1>1. PICK g : g = session[s].group
  OBVIOUS
<1> DEFINE gr == [group[g] EXCEPT !.malicious = TRUE]
           us == SetMalicious(url, group[g], "dac", TRUE, TRUE, {})
<1>2. /\ session[s].pc = "visiting" /\ group[g].algorithm = "dac"
      /\ BecomeVisited(g, gr, us) /\ session' = [session EXCEPT ![s] = IdleSession]
  BY <1>1 DEF DacEvent
<1>3. g \in Group /\ group[g] \in GroupRecord /\ handed[g] > 0
  BY <1>1, <1>2, SessionGroup DEF HasGroup, EInv
<1>4. GivenGroup(g, gr) /\ gr.algorithm = group[g].algorithm
  BY <1>3 DEF GivenGroup, GroupRecord
<1>5. session[s].events = {}
  BY <1>1, <1>2, BulkVisit
<1> HIDE DEF gr, us
<1> QED BY <1>1, <1>2, <1>4, <1>5, EndDecides

LEMMA FinishWithErrorChanges ==
  ASSUME BulkAlone, EInv, IInv', NEW s \in Session, NEW c \in Codes, FinishWithError(s, c)
  PROVE  EInv' /\ DecideStep
<1>1. PICK g : g = session[s].group
  OBVIOUS
<1>2. session[s].pc = "visiting" /\ url \in [Urls -> UrlRecord]
  BY DEF FinishWithError, EInv, IInv, TypeOK
<1>3. /\ g \in Group /\ group[g] \in GroupRecord /\ handed[g] > 0
      /\ session[s].dirty \in BOOLEAN /\ group[g].urls \subseteq Urls
  BY <1>1, <1>2, SessionGroup DEF HasGroup, SessionRecord, EInv, GroupRecord
<1> DEFINE gr == [group[g] EXCEPT !.malicious = session[s].dirty, !.code = c]
           us == SetMalicious(url, group[g], group[g].algorithm, session[s].dirty,
                              FALSE, session[s].events)
<1>4. BecomeError(g, gr, us) /\ session' = [session EXCEPT ![s] = IdleSession]
  BY <1>1 DEF FinishWithError
<1>5. us \in [Urls -> UrlRecord]
  BY <1>2, SetMaliciousType
<1>6. GivenGroup(g, gr) /\ gr.algorithm = group[g].algorithm /\ gr.code = c
      /\ gr.urls = group[g].urls
  BY <1>3 DEF GivenGroup, GroupRecord
<1>7. ASSUME NEW u \in session[s].events PROVE url'[u].malicious = "true"
  <2>1. /\ group[g].algorithm = "bulk" /\ session[s].events \subseteq group[g].urls
    BY <1>1, <1>2, <1>7, BulkVisit
  <2>2. u \in Urls /\ u \in group[g].urls
    BY <1>3, <1>7, <2>1
  <2>3. us[u].malicious = "true"
    BY <1>2, <1>7, <2>1, <2>2 DEF SetMalicious, UrlRecord
  <2> HIDE DEF us, gr
  <2> DEFINE coded == SetCodes(us, gr.urls, gr.code)
  <2>4. coded \in [Urls -> UrlRecord] /\ coded[u].malicious = "true"
    BY <1>5, <1>6, <2>2, <2>3, SetCodesFrame
  <2>5. \E target : SetUrlStates(coded, target)
    BY <1>4 DEF BecomeError
  <2> HIDE DEF coded
  <2> QED BY <2>2, <2>4, <2>5, StatesKeepVerdicts
<1> HIDE DEF gr, us
<1> QED BY <1>1, <1>2, <1>4, <1>6, <1>7, EndDecides

-----------------------------------------------------------------------------
(* Errors from outside the visit                                           *)

LEMMA FailGroupUsed ==
  ASSUME EInv, NEW g \in Group, handed[g] > 0, NEW c \in Codes \cup {OK}, NEW clear,
         FailGroup(g, c, clear)
  PROVE  UsedStays
<1> DEFINE gr == [group[g] EXCEPT !.code = c]
<1>1. TypeOK /\ QueueInv /\ group[g] \in GroupRecord
  BY DEF EInv, IInv, TypeOK
<1>2. GivenGroup(g, gr) /\ gr.algorithm = group[g].algorithm
  BY <1>1 DEF GivenGroup, GroupRecord
<1>3. \E us : BecomeError(g, gr, us)
  BY DEF FailGroup
<1> HIDE DEF gr
<1>4. Outcome(g, gr)
  BY <1>1, <1>2, <1>3, ErrorOutcome
<1> QED BY <1>2, <1>4, OutcomeUsed

LEMMA MarkErrorChanges ==
  ASSUME EInv, IInv', NEW s \in Session, NEW c, NEW clear, MarkError(s, c, clear),
         session[s].group \in Group => c \in Codes \cup {OK}
  PROVE  EInv' /\ DecideStep
<1> DEFINE new == [session[s] EXCEPT !.marked = TRUE]
<1>1. session[s] \in SessionRecord /\ session[s].group # NoGroup /\ IInv
  BY DEF MarkError, EInv, IInv, TypeOK
<1>2. session[s].group \in Group /\ handed[session[s].group] > 0
  BY <1>1, UsedGroup DEF SessionRecord
<1>3. /\ new.group = session[s].group /\ new.pc = session[s].pc
      /\ new.events = session[s].events
      /\ session' = [session EXCEPT ![s] = new]
      /\ FailGroup(session[s].group, c, clear)
  BY <1>1 DEF SessionRecord, MarkError
<1> HIDE DEF new
<1>4. UsedStays
  BY <1>2, <1>3, FailGroupUsed
<1>5. new.events \subseteq session[s].events
      /\ ~(session[s].pc = "visiting" /\ new.pc = "idle")
  BY <1>3
<1> QED BY <1>3, <1>4, <1>5, CalmChanges

LEMMA MarkLateChanges ==
  ASSUME EInv, IInv', NEW g \in Group, NEW c \in Codes \cup {OK}, NEW clear,
         MarkLate(g, c, clear)
  PROVE  EInv' /\ DecideStep
<1>1. UsedStays /\ session' = session
  BY FailGroupUsed DEF MarkLate
<1> QED BY <1>1, SameSessions

LEMMA InitChanges == Init => EInv
<1> SUFFICES ASSUME Init PROVE EInv
  OBVIOUS
<1>1. \A s \in Session : session[s].events = {} /\ session[s].pc = "idle"
  BY DEF Init, IdleSession
<1> QED BY <1>1, InitInv DEF EInv, ChangesInv

LEMMA NextChanges == BulkAlone /\ EInv /\ [Next]_vars => EInv' /\ DecideStep
<1> SUFFICES ASSUME BulkAlone, EInv, [Next]_vars PROVE EInv' /\ DecideStep
  OBVIOUS
<1>1. IInv'
  BY NextInv DEF EInv
<1>2. CASE UNCHANGED vars
  BY <1>1, <1>2, SameGroups, SameSessions DEF vars
<1>3. CASE \E u \in Urls : AddUrl(u)
  BY <1>1, <1>3, SameGroups, SameSessions DEF AddUrl
<1>4. CASE \E s \in Session : IgnoredEvent(s) \/ GiveUp(s)
  BY <1>1, <1>4, IgnoredEventChanges, GiveUpChanges
<1>5. CASE \E s \in Session : \/ BeginTake(s) \/ PopGroup(s)
                             \/ \E u \in Urls : TakeUrl(s, u)
  BY <1>1, <1>5, BeginTakeChanges, PopGroupChanges, TakeUrlChanges
<1>6. ASSUME NEW s \in Session, Visit(s) PROVE EInv' /\ DecideStep
  <2>1. CASE \E alg \in Algorithms : Start(s, alg)
    BY <1>1, <2>1, StartChanges
  <2>2. CASE BulkEvent(s)
    BY <1>1, <2>2, BulkEventChanges
  <2>3. CASE PlainEvent(s)
    BY <1>1, <2>3, PlainEventChanges
  <2>4. CASE DacEvent(s)
    BY <1>1, <2>4, DacEventChanges
  <2>5. CASE \E bad \in SUBSET Urls, c \in Codes :
               Finish(s, bad, c) \/ FinishWithWarning(s, bad, c)
    BY <1>1, <2>5, FinishChanges
  <2>6. CASE \E c \in Codes : FinishWithError(s, c)
    BY <1>1, <2>6, FinishWithErrorChanges
  <2> QED BY <1>6, <2>1, <2>2, <2>3, <2>4, <2>5, <2>6 DEF Visit
<1>7. \A g \in Group : group[g].code \in Codes \cup {OK}
  BY DEF EInv, IInv, TypeOK, GroupRecord
<1>8. CASE \/ \E s \in Session, c \in Codes, clear \in BOOLEAN : MarkError(s, c, clear)
           \/ \E s \in Session : MarkError(s, group[session[s].group].code, FALSE)
  BY <1>1, <1>7, <1>8, MarkErrorChanges
<1>9. CASE \/ \E g \in Group, c \in Codes, clear \in BOOLEAN : MarkLate(g, c, clear)
           \/ \E g \in Group : MarkLate(g, group[g].code, FALSE)
  BY <1>1, <1>7, <1>9, MarkLateChanges
<1>10. CASE \E s \in Session, c \in Codes :
              ReceiverEnds(s, c) \/ ReceiverEnds(s, group[session[s].group].code)
  <2>1. \A s \in Session : session[s].pc \in HasGroup =>
          group[session[s].group].code \in Codes \cup {OK}
    BY <1>7 DEF EInv, IInv, SessionInv, HasGroup
  <2>2. \A s \in Session : \A c : ReceiverEnds(s, c) => session[s].pc \in HasGroup
    BY DEF ReceiverEnds, HasGroup
  <2>3. PICK s \in Session, c \in Codes \cup {OK} : ReceiverEnds(s, c)
    BY <1>10, <2>1, <2>2
  <2> QED BY <1>1, <2>3, ReceiverEndsChanges
<1> QED
  BY <1>2, <1>3, <1>4, <1>5, <1>6, <1>8, <1>9, <1>10 DEF Next

\* Whichever message ends a bulk visit, the URLs to which the StateChangeHandler
\* attributed changes come out of it malicious.  (With clients of several
\* algorithms a retry could turn a bulk group into one of another algorithm
\* before the first client is done with it.)
THEOREM AttributedChangesCount == BulkAlone => (Spec => AttributedChangesDecide)
<1> SUFFICES ASSUME BulkAlone PROVE Spec => AttributedChangesDecide
  OBVIOUS
<1>1. EInv /\ [Next]_vars =>
        [\A s \in Session :
           session[s].pc = "visiting" /\ session'[s].pc = "idle" /\ ~session[s].marked =>
             \A u \in session[s].events : url'[u].malicious = "true"]_vars
  BY NextChanges DEF DecideStep
<1>2. EInv /\ [Next]_vars => EInv'
  BY NextChanges
<1>3. Spec => []EInv
  BY <1>2, InitChanges, PTL DEF Spec
<1> QED BY <1>1, <1>3, PTL DEF Spec, AttributedChangesDecide
=============================================================================
