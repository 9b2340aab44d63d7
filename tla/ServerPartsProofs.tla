-------------------------- MODULE ServerPartsProofs --------------------------
(***************************************************************************)
(* Proofs about three parts of the server.  The database of URLs           *)
(* (UrlDatabase), for every input file and number of runs: a job that was  *)
(* not visited is always somewhere, and a status that was stored stays.    *)
(* The invariant says for every Url object what the status of its job can  *)
(* be, and for the loader that what it has left is new to the operation,   *)
(* or waits for it.  Attribution (StateAttribution), for any processes and *)
(* any order of their events: no URL is blamed for another one's changes.  *)
(* The threads of the server (ClientLocks), for any clients and machines:  *)
(* no notification of a retriever is lost.                                 *)
(***************************************************************************)
EXTENDS ClientLocks, UrlDatabase, StateAttribution, SequenceTheorems, FiniteSetTheorems, TLAPS

-----------------------------------------------------------------------------
(* Numbers in order                                                        *)

Rank(S, x) == Cardinality({y \in S : y < x})

\* Of two numbers the greater has more below it.
LEMMA RankRises ==
  ASSUME NEW S \in SUBSET Nat, IsFiniteSet(S), NEW x \in S, NEW z \in S, x < z
  PROVE  Rank(S, x) \in Nat /\ Rank(S, z) \in Nat /\ Rank(S, x) < Rank(S, z)
<1> DEFINE X == {y \in S : y < x}
           Z == {y \in S : y < z}
<1>1. X \in SUBSET Z /\ x \in Z /\ x \notin X /\ Z \in SUBSET S
  <2>1. \A y \in S : y < x => y < z
    <3>1. x \in Nat /\ z \in Nat /\ \A y \in S : y \in Nat
      OBVIOUS
    <3> QED BY <3>1
  <2>2. ~(x < x)
    OBVIOUS
  <2> QED BY <2>1, <2>2
<1>2. IsFiniteSet(Z) /\ Cardinality(Z) \in Nat
  BY <1>1, FS_Subset, FS_CardinalityType
<1>3. IsFiniteSet(X) /\ Cardinality(X) \in Nat
  BY <1>1, <1>2, FS_Subset, FS_CardinalityType
<1>4. Cardinality(X) <= Cardinality(Z) /\ (Cardinality(Z) = Cardinality(X) => Z = X)
  BY <1>1, <1>2, FS_Subset
<1>5. Z # X
  BY <1>1
<1>6. Rank(S, x) = Cardinality(X) /\ Rank(S, z) = Cardinality(Z)
  BY DEF Rank
<1> HIDE DEF X, Z
<1> QED BY <1>2, <1>3, <1>4, <1>5, <1>6

\* The ranks of a set are the numbers below its cardinality.
LEMMA RanksAreAll ==
  ASSUME NEW S \in SUBSET Nat, IsFiniteSet(S)
  PROVE  /\ Cardinality(S) \in Nat
         /\ \A x \in S : Rank(S, x) \in 0 .. Cardinality(S) - 1
         /\ \A x, z \in S : x # z => Rank(S, x) # Rank(S, z)
         /\ \A i \in 0 .. Cardinality(S) - 1 : \E x \in S : Rank(S, x) = i
<1> DEFINE n == Cardinality(S)
           f == [x \in S |-> Rank(S, x)]
<1>1. n \in Nat
  BY FS_CardinalityType
<1>2. ASSUME NEW x \in S PROVE Rank(S, x) \in 0 .. n - 1
  <2> DEFINE X == {y \in S : y < x}
  <2>1. X \in SUBSET S /\ X # S
    OBVIOUS
  <2>2. IsFiniteSet(X) /\ Cardinality(X) <= n /\ Cardinality(X) # n
    BY <2>1, FS_Subset
  <2>3. Cardinality(X) \in Nat
    BY <2>2, FS_CardinalityType
  <2>4. Rank(S, x) = Cardinality(X)
    BY DEF Rank
  <2> HIDE DEF X, n
  <2> QED BY <1>1, <2>2, <2>3, <2>4
<1>3. ASSUME NEW x \in S, NEW z \in S, x # z PROVE Rank(S, x) # Rank(S, z)
  <2>1. x < z \/ z < x
    BY <1>3
  <2> QED BY <2>1, RankRises
<1>4. IsFiniteSet(0 .. n - 1) /\ Cardinality(0 .. n - 1) = n
  <2>1. 0 \in Int /\ n - 1 \in Int
    BY <1>1
  <2>2. /\ IsFiniteSet(0 .. n - 1)
        /\ Cardinality(0 .. n - 1) = IF 0 > n - 1 THEN 0 ELSE n - 1 - 0 + 1
    BY <2>1, FS_Interval
  <2> HIDE DEF n
  <2>3. (IF 0 > n - 1 THEN 0 ELSE n - 1 - 0 + 1) = n
    BY <1>1
  <2> QED BY <2>2, <2>3
<1>5. f \in Injection(S, 0 .. n - 1)
  <2>1. f \in [S -> 0 .. n - 1]
    BY <1>2
  <2>2. \A x, z \in S : f[x] = f[z] => x = z
    BY <1>3
  <2> HIDE DEF f, n
  <2> QED BY <2>1, <2>2 DEF Injection, IsInjective
<1>6. f \in Surjection(S, 0 .. n - 1)
  BY <1>4, <1>5, FS_Injection
<1>7. \A i \in 0 .. n - 1 : \E x \in S : f[x] = i
  BY <1>6 DEF Surjection
<1> QED BY <1>1, <1>2, <1>3, <1>7

\* InOrder lists every member of a finite set of numbers once.
LEMMA InOrderListsAll ==
  ASSUME NEW S \in SUBSET Nat, IsFiniteSet(S)
  PROVE  /\ InOrder(S) \in Seq(Nat)
         /\ \A k \in 1 .. Len(InOrder(S)) : InOrder(S)[k] \in S
         /\ \A k, l \in 1 .. Len(InOrder(S)) : k # l => InOrder(S)[k] # InOrder(S)[l]
         /\ \A x \in S : \E k \in 1 .. Len(InOrder(S)) : InOrder(S)[k] = x
<1> DEFINE n == Cardinality(S)
           s == InOrder(S)
<1>1. n \in Nat
  BY RanksAreAll
<1>2. s = [i \in 1 .. n |-> CHOOSE x \in S : Rank(S, x) = i - 1]
  BY DEF InOrder, Rank
<1>3. ASSUME NEW i \in 1 .. n
      PROVE  s[i] \in S /\ Rank(S, s[i]) = i - 1
  <2>1. i - 1 \in 0 .. n - 1
    BY <1>1
  <2>2. \E x \in S : Rank(S, x) = i - 1
    BY <2>1, RanksAreAll
  <2>3. s[i] = CHOOSE x \in S : Rank(S, x) = i - 1
    BY <1>2
  <2> HIDE DEF s, n
  <2> QED BY <2>2, <2>3
<1> HIDE DEF s
<1>4. s \in [1 .. n -> Nat]
  BY <1>2, <1>3
<1>5. s \in Seq(Nat) /\ Len(s) = n
  <2>1. s \in Seq(Nat)
    BY <1>1, <1>4, SeqDef
  <2>2. Len(s) \in Nat /\ 1 .. Len(s) = 1 .. n
    BY <1>2, <2>1, LenProperties
  <2> QED BY <1>1, <2>1, <2>2
<1>6. ASSUME NEW k \in 1 .. n, NEW l \in 1 .. n, k # l PROVE s[k] # s[l]
  BY <1>1, <1>3, <1>6
<1>7. ASSUME NEW x \in S PROVE \E k \in 1 .. n : s[k] = x
  <2>1. Rank(S, x) \in 0 .. n - 1
    BY RanksAreAll
  <2>2. PICK k \in 1 .. n : k - 1 = Rank(S, x)
    <3>1. PICK r \in 0 .. n - 1 : r = Rank(S, x)
      BY <2>1
    <3>2. r + 1 \in 1 .. n /\ (r + 1) - 1 = r
      BY <1>1
    <3> QED BY <3>1, <3>2
  <2>3. s[k] \in S /\ Rank(S, s[k]) = Rank(S, x)
    BY <1>3, <2>2
  <2>4. s[k] = x
    <3>1. \A z \in S : x # z => Rank(S, x) # Rank(S, z)
      BY RanksAreAll
    <3> QED BY <2>3, <3>1
  <2> QED BY <2>4
<1> HIDE DEF n
<1> QED BY <1>3, <1>5, <1>6, <1>7 DEF s

LEMMA GreatestIsThere ==
  ASSUME NEW S \in SUBSET Nat, IsFiniteSet(S), S # {}
  PROVE  Greatest(S) \in S /\ \A j \in S : j <= Greatest(S)
<1> DEFINE n == Cardinality(S)
<1>1. n \in Nat /\ n # 0
  BY FS_CardinalityType, FS_EmptySet
<1>2. n - 1 \in 0 .. n - 1
  BY <1>1
<1>3. PICK x \in S : Rank(S, x) = n - 1
  BY <1>2, RanksAreAll
<1>4. ASSUME NEW z \in S PROVE z <= x
  <2>1. CASE x < z
    <3>1. Rank(S, x) < Rank(S, z) /\ Rank(S, z) \in 0 .. n - 1
      BY <2>1, RankRises, RanksAreAll
    <3> QED BY <1>1, <1>3, <3>1
  <2> QED BY <2>1
<1> QED BY <1>3, <1>4 DEF Greatest

LEMMA LeastIsThere ==
  ASSUME NEW S \in SUBSET Nat, IsFiniteSet(S), S # {}
  PROVE  Least(S) \in S /\ \A j \in S : Least(S) <= j
<1> DEFINE n == Cardinality(S)
<1>1. n \in Nat /\ n # 0
  BY FS_CardinalityType, FS_EmptySet
<1>2. 0 \in 0 .. n - 1
  BY <1>1
<1>3. PICK x \in S : Rank(S, x) = 0
  BY <1>2, RanksAreAll
<1>4. ASSUME NEW z \in S PROVE x <= z
  <2>1. CASE z < x
    <3>1. Rank(S, z) < Rank(S, x) /\ Rank(S, z) \in Nat
      BY <2>1, RankRises
    <3>2. \A r \in Nat : ~(r < 0)
      OBVIOUS
    <3> QED BY <1>3, <3>1, <3>2
  <2> QED BY <2>1
<1> QED BY <1>3, <1>4 DEF Least
-----------------------------------------------------------------------------
(* The invariant                                                           *)

Address == {InputFile[i] : i \in DOMAIN InputFile}
Row == [url : Address, status : Status \cup {Null}, operation : Nat \cup {Null}]
UrlObject == [state : {"queued", "taken", "visiting", "judged", "done", "broken"}, attempt : 0 .. 2,
              timed : BOOLEAN, verdict : Status \cup {Null}, failed : BOOLEAN]

TablesInv ==
  /\ urlTable \in Seq(Row) /\ Len(urlTable) <= MaxRows
  /\ operations \in Seq(BOOLEAN) /\ Len(operations) <= MaxOperations
  /\ DOMAIN urlOperation \subseteq (1 .. Len(urlTable)) \X (1 .. Len(operations))
  /\ \A j \in DOMAIN urlOperation : urlOperation[j] \in Status \cup {Null}
  /\ currentOperation \in 1 .. Len(operations) \cup {Null}

\* A Url object and the status of its job: there is none before the first
\* visit has been stored, and there is one once a visit has been.
Fits(url, status) ==
  /\ url \in UrlObject
  /\ url.state = "queued" => ~url.timed /\ url.attempt = 0
  /\ url.state = "judged" => url.verdict \in Status
  /\ url.state = "done" \/ (url.state = "taken" /\ url.timed) => status # Null
  /\ url.attempt < 2 /\ url.state \notin {"done", "broken"} => status = Null

ObjectsInv ==
  /\ DOMAIN urlObjects \subseteq 1 .. Len(urlTable)
  /\ \A i \in DOMAIN urlObjects :
       Job(i) \in DOMAIN urlOperation /\ Fits(urlObjects[i], urlOperation[Job(i)])

\* The ids, or the lines, that the loader still has.
Rest(todo) == {todo[k] : k \in 1 .. Len(todo)}
Distinct(todo) == \A k, l \in 1 .. Len(todo) : k # l => todo[k] # todo[l]

\* A job that has no status and no Url object.
Waits(i) == Job(i) \in DOMAIN urlOperation /\ urlOperation[Job(i)] = Null /\ i \notin DOMAIN urlObjects

LoaderInv ==
  /\ loader \in [pc : {"down", "next", "job", "notify"},
                 source : {"none", "file", "database", "resume"}, check : BOOLEAN,
                 todo : Seq(Address) \cup Seq(Nat), id : Nat \cup {Null}]
  /\ loader.pc = "down" => DOMAIN urlObjects = {} /\ currentOperation = Null /\ loader.source = "none"
  /\ loader.pc # "down" => loader.source # "none"
  /\ loader.source \in {"file", "database"} => currentOperation # Null
  /\ loader.source = "file" => loader.todo \in Seq(Address)
  /\ loader.source \in {"database", "resume"} =>
       /\ loader.todo \in Seq(Nat) /\ Distinct(loader.todo)
       /\ Rest(loader.todo) \subseteq 1 .. Len(urlTable)
  /\ loader.source = "database" =>
       /\ ~loader.check
       /\ \A i \in Rest(loader.todo) : Job(i) \notin DOMAIN urlOperation
  /\ loader.source = "resume" => \A i \in Rest(loader.todo) : Waits(i)
  /\ loader.pc \in {"job", "notify"} =>
       /\ loader.id \in 1 .. Len(urlTable)
       /\ loader.source # "file" => loader.id \notin Rest(loader.todo)
  /\ loader.pc = "job" =>
       /\ loader.source # "resume"
       /\ ~loader.check => Job(loader.id) \notin DOMAIN urlOperation
  /\ loader.pc = "notify" => Waits(loader.id)

\* NoJobIsForgotten: what the loader holds counts only on its way to the queue.
JobsInv == \A j \in DOMAIN urlOperation :
  urlOperation[j] = Null /\ j[2] = currentOperation /\ j \notin refused =>
    \/ loader.source = "resume" /\ j[1] \in Rest(loader.todo)
    \/ loader.pc = "notify" /\ j[1] = loader.id
    \/ j[1] \in DOMAIN urlObjects /\ urlObjects[j[1]].state # "done"

DatabaseInv == TablesInv /\ ObjectsInv /\ LoaderInv /\ JobsInv

\* A function on 1 .. n is a sequence.
LEMMA SeqOfLength ==
  ASSUME NEW S, NEW n \in Nat, NEW s \in [1 .. n -> S]
  PROVE  s \in Seq(S) /\ Len(s) = n
<1>1. s \in Seq(S)
  BY SeqDef
<1>2. Len(s) \in Nat /\ 1 .. Len(s) = 1 .. n
  BY <1>1, LenProperties
<1> QED BY <1>1, <1>2

\* What the first of a list and the others have to do with the list.
LEMMA TakeFirst ==
  ASSUME NEW S, NEW todo \in Seq(S), todo # <<>>
  PROVE  /\ Head(todo) \in Rest(todo) /\ Head(todo) \in S /\ Tail(todo) \in Seq(S)
         /\ Rest(todo) = Rest(Tail(todo)) \cup {Head(todo)}
         /\ Distinct(todo) => Distinct(Tail(todo)) /\ Head(todo) \notin Rest(Tail(todo))
<1>1. /\ Head(todo) \in S /\ Tail(todo) \in Seq(S) /\ Len(Tail(todo)) = Len(todo) - 1
      /\ \A k \in 1 .. Len(Tail(todo)) : Tail(todo)[k] = todo[k + 1]
  BY HeadTailProperties
<1>2. Head(todo) = todo[1] /\ Len(todo) \in Nat /\ Len(todo) # 0
  BY EmptySeq, LenProperties
<1>3. 1 \in 1 .. Len(todo) /\ \A k \in 1 .. Len(Tail(todo)) : k + 1 \in 1 .. Len(todo)
  BY <1>1, <1>2
<1>4. \A k \in 1 .. Len(todo) : k # 1 => k - 1 \in 1 .. Len(Tail(todo)) /\ Tail(todo)[k - 1] = todo[k]
  BY <1>1, <1>2
<1>5. Head(todo) \in Rest(todo)
  BY <1>2, <1>3 DEF Rest
<1>6. Rest(todo) = Rest(Tail(todo)) \cup {Head(todo)}
  <2>1. ASSUME NEW k \in 1 .. Len(todo) PROVE todo[k] \in Rest(Tail(todo)) \cup {Head(todo)}
    BY <1>2, <1>4 DEF Rest
  <2>2. ASSUME NEW k \in 1 .. Len(Tail(todo)) PROVE Tail(todo)[k] \in Rest(todo)
    BY <1>1, <1>3 DEF Rest
  <2>3. Rest(todo) \subseteq Rest(Tail(todo)) \cup {Head(todo)}
    BY <2>1 DEF Rest
  <2>4. Rest(Tail(todo)) \subseteq Rest(todo)
    BY <2>2 DEF Rest
  <2> QED BY <1>5, <2>3, <2>4
<1>7. ASSUME Distinct(todo) PROVE Distinct(Tail(todo)) /\ Head(todo) \notin Rest(Tail(todo))
  <2>1. ASSUME NEW k \in 1 .. Len(Tail(todo)), NEW l \in 1 .. Len(Tail(todo)), k # l
        PROVE  Tail(todo)[k] # Tail(todo)[l]
    <3>1. k + 1 # l + 1 /\ Tail(todo)[k] = todo[k + 1] /\ Tail(todo)[l] = todo[l + 1]
      BY <1>1, <2>1
    <3> QED BY <1>3, <1>7, <3>1 DEF Distinct
  <2>2. ASSUME NEW k \in 1 .. Len(Tail(todo)) PROVE Tail(todo)[k] # Head(todo)
    <3>1. k + 1 # 1 /\ Tail(todo)[k] = todo[k + 1]
      BY <1>1
    <3> QED BY <1>2, <1>3, <1>7, <3>1 DEF Distinct
  <2> QED BY <2>1, <2>2 DEF Distinct, Rest
<1> QED BY <1>1, <1>5, <1>6, <1>7

LEMMA DatabaseStart == DatabaseInit => DatabaseInv
<1> SUFFICES ASSUME DatabaseInit PROVE DatabaseInv
  OBVIOUS
<1>1. /\ urlTable \in Seq(Row) /\ Len(urlTable) = 0 /\ operations \in Seq(BOOLEAN)
      /\ Len(operations) = 0 /\ DOMAIN urlOperation = {} /\ DOMAIN urlObjects = {}
      /\ currentOperation = Null
  BY DEF DatabaseInit
<1>2. /\ loader = [pc |-> "down", source |-> "none", check |-> FALSE, todo |-> <<>>, id |-> Null]
      /\ <<>> \in Seq(Nat)
  BY DEF DatabaseInit, NotRunning
<1>3. TablesInv
  BY <1>1, DatabaseAssumption DEF TablesInv
<1>4. ObjectsInv /\ JobsInv
  BY <1>1 DEF ObjectsInv, JobsInv
<1>5. LoaderInv
  BY <1>1, <1>2 DEF LoaderInv
<1> QED BY <1>3, <1>4, <1>5 DEF DatabaseInv

\* A row more: all that is known of the others remains.
LEMMA RowAdded ==
  ASSUME TablesInv, NEW address \in Address, InsertUrl(address)
  PROVE  /\ urlTable' \in Seq(Row) /\ Len(urlTable') <= MaxRows
         /\ Len(urlTable') = Len(urlTable) + 1 /\ Len(urlTable) \in Nat
<1>1. [url |-> address, status |-> Null, operation |-> Null] \in Row
  BY DEF Row
<1>2. /\ Len(urlTable) < MaxRows
      /\ urlTable' = Append(urlTable, [url |-> address, status |-> Null, operation |-> Null])
  BY DEF InsertUrl
<1>3. urlTable \in Seq(Row)
  BY DEF TablesInv
<1>4. urlTable' \in Seq(Row) /\ Len(urlTable') = Len(urlTable) + 1 /\ Len(urlTable) \in Nat
  BY <1>1, <1>2, <1>3, AppendProperties, LenProperties
<1> QED BY <1>2, <1>4, DatabaseAssumption

LEMMA LineHasAddress == \A i \in 1 .. Len(InputFile) : InputFile[i] \in Address
BY DatabaseAssumption DEF Address

\* More rows, everything else as it was.
LEMMA MoreRows ==
  ASSUME DatabaseInv, urlTable' \in Seq(Row), Len(urlTable') <= MaxRows,
         Len(urlTable) \in Nat, Len(urlTable') \in Nat, Len(urlTable) <= Len(urlTable'),
         UNCHANGED <<urlOperation, operations, currentOperation, urlObjects, refused>>
  PROVE  /\ TablesInv' /\ ObjectsInv' /\ \A i : Job(i)' = Job(i) /\ (Waits(i)' <=> Waits(i))
         /\ UNCHANGED loader => DatabaseInv'
<1>1. 1 .. Len(urlTable) \subseteq 1 .. Len(urlTable')
  OBVIOUS
<1>2. TablesInv'
  BY <1>1 DEF DatabaseInv, TablesInv
<1>3. \A i : Job(i)' = Job(i) /\ (Waits(i)' <=> Waits(i))
  BY DEF Job, Waits
<1>4. ObjectsInv'
  BY <1>1, <1>3 DEF DatabaseInv, ObjectsInv
<1>5. ASSUME UNCHANGED loader PROVE LoaderInv' /\ JobsInv'
  <2>1. LoaderInv
    BY DEF DatabaseInv
  <2>2. LoaderInv'
    BY <1>1, <1>3, <1>5, <2>1 DEF LoaderInv
  <2>3. JobsInv'
    BY <1>5 DEF DatabaseInv, JobsInv
  <2> QED BY <2>2, <2>3
<1> QED BY <1>2, <1>3, <1>4, <1>5 DEF DatabaseInv

LEMMA ImportKeeps == ASSUME DatabaseInv, NEW check, ImportUrl(check) PROVE DatabaseInv'
<1>1. PICK i \in 1 .. Len(InputFile) : InsertUrl(InputFile[i])
  BY DEF ImportUrl
<1>2. /\ urlTable' \in Seq(Row) /\ Len(urlTable') <= MaxRows
      /\ Len(urlTable') = Len(urlTable) + 1 /\ Len(urlTable) \in Nat
  BY <1>1, RowAdded, LineHasAddress DEF DatabaseInv
<1>3. UNCHANGED <<urlOperation, operations, currentOperation, urlObjects, refused, loader>>
  BY DEF ImportUrl
<1>4. Len(urlTable') \in Nat /\ Len(urlTable) <= Len(urlTable')
  BY <1>2
<1> QED BY <1>2, <1>3, <1>4, MoreRows

\* A server that is not running has no operation and no Url objects.
LEMMA NothingIsDown ==
  ASSUME DatabaseInv, loader.pc = "down"
  PROVE  DOMAIN urlObjects = {} /\ currentOperation = Null
BY DEF DatabaseInv, LoaderInv

\* The operation of a start is new.
LEMMA StartsNew ==
  ASSUME DatabaseInv, NEW source \in {"file", "database"}, NEW check \in BOOLEAN, NEW todo,
         StartLoading(source, check, todo), NewOperation,
         source = "file" => todo \in Seq(Address),
         source = "database" =>
           ~check /\ todo \in Seq(Nat) /\ Distinct(todo) /\ Rest(todo) \subseteq 1 .. Len(urlTable)
  PROVE  DatabaseInv'
<1>1. /\ loader.pc = "down" /\ DOMAIN urlObjects = {}
      /\ loader' = [pc |-> "next", source |-> source, check |-> check, todo |-> todo, id |-> Null]
      /\ UNCHANGED <<urlTable, urlOperation, urlObjects, refused, ends>>
  BY NothingIsDown DEF StartLoading
<1>2. /\ operations' = Append(operations, FALSE) /\ currentOperation' = Len(operations) + 1
      /\ Len(operations) < MaxOperations
  BY DEF NewOperation
<1>3. TablesInv
  BY DEF DatabaseInv
<1>4. operations' \in Seq(BOOLEAN) /\ Len(operations') = Len(operations) + 1 /\ Len(operations) \in Nat
  BY <1>2, <1>3, AppendProperties, LenProperties DEF TablesInv
<1>5. \A j \in DOMAIN urlOperation : j \in (1 .. Len(urlTable)) \X (1 .. Len(operations))
                                     /\ j[2] # currentOperation'
  <2>1. \A j \in DOMAIN urlOperation : j \in (1 .. Len(urlTable)) \X (1 .. Len(operations))
    BY <1>3 DEF TablesInv
  <2>2. \A k \in 1 .. Len(operations) : k # currentOperation'
    BY <1>2, <1>4
  <2> QED BY <2>1, <2>2
<1>6. TablesInv'
  <2>1. 1 .. Len(operations) \subseteq 1 .. Len(operations')
    BY <1>4
  <2>2. Len(operations') <= MaxOperations /\ currentOperation' \in 1 .. Len(operations')
    BY <1>2, <1>4, DatabaseAssumption
  <2> QED BY <1>1, <1>3, <1>4, <2>1, <2>2 DEF TablesInv
<1>7. ObjectsInv'
  BY <1>1 DEF ObjectsInv
<1>8. JobsInv'
  BY <1>1, <1>5 DEF JobsInv
<1>9. LoaderInv'
  <2>1. /\ loader'.pc = "next" /\ loader'.source = source /\ loader'.check = check
        /\ loader'.todo = todo /\ loader'.id = Null
    BY <1>1
  <2>2. loader' \in [pc : {"down", "next", "job", "notify"},
                 source : {"none", "file", "database", "resume"}, check : BOOLEAN,
                 todo : Seq(Address) \cup Seq(Nat), id : Nat \cup {Null}]
    BY <1>1
  <2>3. \A i : Job(i)' \notin DOMAIN urlOperation'
    <3>1. \A i : Job(i)'[2] = currentOperation'
      BY DEF Job
    <3> QED BY <1>1, <1>5, <3>1
  <2>4. currentOperation' # Null
    <3>1. currentOperation' \in Nat
      BY <1>2, <1>4
    <3> QED BY <3>1, DatabaseAssumption
  <2> QED BY <1>1, <2>1, <2>2, <2>3, <2>4 DEF LoaderInv
<1> QED BY <1>6, <1>7, <1>8, <1>9 DEF DatabaseInv

LEMMA FileKeeps == ASSUME DatabaseInv, NEW check \in BOOLEAN, LoadInputUrlFromFile(check)
                   PROVE  DatabaseInv'
<1>1. StartLoading("file", check, InputFile) /\ NewOperation
  BY DEF LoadInputUrlFromFile
<1>2. InputFile \in Seq(Address)
  BY DatabaseAssumption DEF Address
<1> QED BY <1>1, <1>2, StartsNew

\* A finite set of ids, in order.
LEMMA IdsInOrder ==
  ASSUME NEW n \in Nat, NEW S \in SUBSET (1 .. n)
  PROVE  /\ InOrder(S) \in Seq(Nat) /\ Distinct(InOrder(S)) /\ Rest(InOrder(S)) = S
<1>1. S \in SUBSET Nat
  OBVIOUS
<1>2. IsFiniteSet(1 .. n)
  <2>1. 1 \in Int /\ n \in Int
    OBVIOUS
  <2> QED BY <2>1, FS_Interval
<1>3. IsFiniteSet(S)
  BY <1>2, FS_Subset
<1>4. /\ InOrder(S) \in Seq(Nat)
      /\ \A k \in 1 .. Len(InOrder(S)) : InOrder(S)[k] \in S
      /\ \A k, l \in 1 .. Len(InOrder(S)) : k # l => InOrder(S)[k] # InOrder(S)[l]
      /\ \A x \in S : \E k \in 1 .. Len(InOrder(S)) : InOrder(S)[k] = x
  BY <1>1, <1>3, InOrderListsAll
<1> QED BY <1>4 DEF Distinct, Rest

LEMMA RowsKeep == ASSUME DatabaseInv, LoadInputUrlFromDatabase PROVE DatabaseInv'
<1>1. StartLoading("database", FALSE, InOrder(Ids)) /\ NewOperation
  BY DEF LoadInputUrlFromDatabase
<1>2. Ids = 1 .. Len(urlTable) /\ Len(urlTable) \in Nat
  BY LenProperties DEF DatabaseInv, TablesInv, Ids
<1>3. Ids \in SUBSET (1 .. Len(urlTable))
  BY <1>2
<1>4. InOrder(Ids) \in Seq(Nat) /\ Distinct(InOrder(Ids)) /\ Rest(InOrder(Ids)) = Ids
  BY <1>2, <1>3, IdsInOrder
<1> QED BY <1>1, <1>2, <1>4, StartsNew

LEMMA ResumeKeeps == ASSUME DatabaseInv, ResumeLastOperation PROVE DatabaseInv'
<1>1. loader.pc = "down" /\ DOMAIN urlObjects = {} /\ currentOperation = Null
  <2>1. loader.pc = "down"
    BY DEF ResumeLastOperation, StartLoading
  <2> QED BY <2>1, NothingIsDown
<1>2. UNCHANGED <<urlTable, urlOperation, operations, urlObjects, refused>>
  BY DEF ResumeLastOperation, StartLoading
<1>3. TablesInv
  BY DEF DatabaseInv
<1>4. Len(urlTable) \in Nat /\ Len(operations) \in Nat
  BY <1>3, LenProperties DEF TablesInv
<1>5. ObjectsInv'
  BY <1>1, <1>2 DEF ObjectsInv
<1>6. CASE Unvisited = {}
  <2>1. /\ loader' = [pc |-> "next", source |-> "resume", check |-> FALSE, todo |-> <<>>, id |-> Null]
        /\ currentOperation' = currentOperation
    BY <1>6 DEF ResumeLastOperation, StartLoading
  <2>2. TablesInv'
    BY <1>2, <1>3, <2>1 DEF TablesInv
  <2>3. LoaderInv'
    <3>1. <<>> \in Seq(Nat) /\ Rest(<<>>) = {} /\ Distinct(<<>>)
      BY DEF Rest, Distinct
    <3>2. /\ loader'.pc = "next" /\ loader'.source = "resume" /\ loader'.check = FALSE
          /\ loader'.todo = <<>> /\ loader'.id = Null
      BY <2>1
    <3>3. loader' \in [pc : {"down", "next", "job", "notify"},
                 source : {"none", "file", "database", "resume"}, check : BOOLEAN,
                 todo : Seq(Address) \cup Seq(Nat), id : Nat \cup {Null}]
      BY <2>1, <3>1
    <3> QED BY <1>2, <3>1, <3>2, <3>3 DEF LoaderInv
  <2>4. JobsInv'
    BY <1>2, <1>6 DEF JobsInv, Unvisited
  <2> QED BY <1>5, <2>2, <2>3, <2>4 DEF DatabaseInv
<1>7. CASE Unvisited # {}
  <2>1. PICK last : last = Greatest({j[2] : j \in Unvisited})
    OBVIOUS
  <2>2. PICK S : S = {j[1] : j \in {k \in Unvisited : k[2] = last}}
    OBVIOUS
  <2>3. /\ loader' = [pc |-> "next", source |-> "resume", check |-> FALSE, todo |-> InOrder(S), id |-> Null]
        /\ currentOperation' = last
    BY <1>7, <2>1, <2>2 DEF ResumeLastOperation, StartLoading
  <2>4. Unvisited \subseteq (1 .. Len(urlTable)) \X (1 .. Len(operations))
    BY <1>3 DEF TablesInv, Unvisited
  <2>5. last \in 1 .. Len(operations)
    <3> DEFINE T == {j[2] : j \in Unvisited}
    <3>1. T \in SUBSET (1 .. Len(operations)) /\ T # {}
      BY <1>7, <2>4
    <3>2. T \in SUBSET Nat
      BY <3>1
    <3>3. IsFiniteSet(1 .. Len(operations))
      <4>1. 1 \in Int /\ Len(operations) \in Int
        BY <1>4
      <4> QED BY <4>1, FS_Interval
    <3>4. IsFiniteSet(T)
      BY <3>1, <3>3, FS_Subset
    <3> HIDE DEF T
    <3>5. Greatest(T) \in T
      BY <3>1, <3>2, <3>4, GreatestIsThere
    <3> QED BY <2>1, <3>1, <3>5 DEF T
  <2>6. S \in SUBSET (1 .. Len(urlTable))
    BY <2>2, <2>4
  <2>7. InOrder(S) \in Seq(Nat) /\ Distinct(InOrder(S)) /\ Rest(InOrder(S)) = S
    BY <1>4, <2>6, IdsInOrder
  <2>8. TablesInv'
    BY <1>2, <1>3, <2>3, <2>5 DEF TablesInv
  <2>9. /\ loader'.pc = "next" /\ loader'.source = "resume" /\ loader'.check = FALSE
        /\ loader'.todo = InOrder(S) /\ loader'.id = Null
    BY <2>3
  <2>10. \A i \in S : Waits(i)'
    <3>1. ASSUME NEW i \in S PROVE Job(i)' \in Unvisited
      <4>1. PICK j \in Unvisited : j[2] = last /\ i = j[1]
        BY <2>2
      <4>2. j = <<j[1], j[2]>>
        BY <2>4
      <4> QED BY <2>3, <4>1, <4>2 DEF Job
    <3> QED BY <1>1, <1>2, <3>1 DEF Waits, Unvisited
  <2>11. LoaderInv'
    <3>1. loader' \in [pc : {"down", "next", "job", "notify"},
                 source : {"none", "file", "database", "resume"}, check : BOOLEAN,
                 todo : Seq(Address) \cup Seq(Nat), id : Nat \cup {Null}]
      BY <2>3, <2>7
    <3> QED BY <1>2, <2>6, <2>7, <2>9, <2>10, <3>1 DEF LoaderInv
  <2>12. JobsInv'
    <3>1. ASSUME NEW j \in DOMAIN urlOperation, urlOperation[j] = Null, j[2] = last
          PROVE  j[1] \in S
      BY <2>2, <3>1 DEF Unvisited
    <3> QED BY <1>2, <2>3, <2>7, <2>9, <3>1 DEF JobsInv
  <2> QED BY <1>5, <2>8, <2>11, <2>12 DEF DatabaseInv
<1> QED BY <1>6, <1>7


\* What Continue does to the loader.
LEMMA Continued ==
  ASSUME LoaderInv, NEW pc \in {"next", "job", "notify"}, NEW id \in Nat \cup {Null},
         NEW todo \in Seq(Address) \cup Seq(Nat), Continue(pc, id, todo)
  PROVE  /\ loader' \in [pc : {"down", "next", "job", "notify"},
                 source : {"none", "file", "database", "resume"}, check : BOOLEAN,
                 todo : Seq(Address) \cup Seq(Nat), id : Nat \cup {Null}]
         /\ loader'.pc = pc /\ loader'.id = id /\ loader'.todo = todo
         /\ loader'.source = loader.source /\ loader'.check = loader.check
BY DEF LoaderInv, Continue

LEMMA LineKeeps == ASSUME DatabaseInv, NextLine PROVE DatabaseInv'
<1> DEFINE found == IdsOf(Head(loader.todo))
<1>1. /\ loader.pc = "next" /\ loader.source = "file" /\ loader.todo # <<>>
      /\ UNCHANGED <<urlOperation, operations, currentOperation, urlObjects, refused>>
  BY DEF NextLine
<1>2. LoaderInv /\ TablesInv /\ JobsInv
  BY DEF DatabaseInv
<1>3. loader.todo \in Seq(Address)
  BY <1>1, <1>2 DEF LoaderInv
<1>4. Head(loader.todo) \in Address /\ Tail(loader.todo) \in Seq(Address)
  BY <1>1, <1>3, TakeFirst
<1>5. Len(urlTable) \in Nat /\ Ids = 1 .. Len(urlTable)
  BY <1>2, LenProperties DEF TablesInv, Ids
<1>6. PICK id \in Nat :
        /\ Continue("job", id, Tail(loader.todo))
        /\ urlTable' \in Seq(Row) /\ Len(urlTable') <= MaxRows
        /\ Len(urlTable') \in Nat /\ Len(urlTable) <= Len(urlTable')
        /\ id \in 1 .. Len(urlTable')
        /\ loader.check \/ id = Len(urlTable) + 1
  <2>1. CASE loader.check /\ found # {}
    <3>1. Continue("job", Least(found), Tail(loader.todo)) /\ UNCHANGED urlTable
      BY <2>1 DEF NextLine
    <3>2. found \in SUBSET (1 .. Len(urlTable)) /\ found \in SUBSET Nat
      BY <1>5 DEF IdsOf
    <3>3. IsFiniteSet(1 .. Len(urlTable))
      <4>1. 1 \in Int /\ Len(urlTable) \in Int
        BY <1>5
      <4> QED BY <4>1, FS_Interval
    <3>4. IsFiniteSet(found)
      BY <3>2, <3>3, FS_Subset
    <3> HIDE DEF found
    <3>5. Least(found) \in found
      BY <2>1, <3>2, <3>4, LeastIsThere
    <3>6. Least(found) \in Nat /\ Least(found) \in 1 .. Len(urlTable)
      BY <3>2, <3>5
    <3>7. urlTable \in Seq(Row) /\ Len(urlTable) <= MaxRows
      BY <1>2 DEF TablesInv
    <3> QED BY <1>5, <2>1, <3>1, <3>6, <3>7
  <2>2. CASE ~(loader.check /\ found # {})
    <3>1. Continue("job", Len(urlTable) + 1, Tail(loader.todo)) /\ InsertUrl(Head(loader.todo))
      BY <2>2 DEF NextLine
    <3>2. /\ urlTable' \in Seq(Row) /\ Len(urlTable') <= MaxRows
          /\ Len(urlTable') = Len(urlTable) + 1
      BY <1>2, <1>4, <3>1, RowAdded
    <3> QED BY <1>5, <3>1, <3>2
  <2> QED BY <2>1, <2>2
<1>7. TablesInv' /\ ObjectsInv' /\ \A i : Job(i)' = Job(i)
  BY <1>1, <1>5, <1>6, MoreRows
<1>8. /\ loader' \in [pc : {"down", "next", "job", "notify"},
                 source : {"none", "file", "database", "resume"}, check : BOOLEAN,
                 todo : Seq(Address) \cup Seq(Nat), id : Nat \cup {Null}]
      /\ loader'.pc = "job" /\ loader'.id = id /\ loader'.todo = Tail(loader.todo)
      /\ loader'.source = "file" /\ loader'.check = loader.check
  <2>1. "job" \in {"next", "job", "notify"} /\ id \in Nat \cup {Null}
        /\ Tail(loader.todo) \in Seq(Address) \cup Seq(Nat)
    BY <1>4
  <2> QED BY <1>1, <1>2, <1>6, <2>1, Continued
<1>9. LoaderInv'
  <2>1. ~loader.check => Job(id) \notin DOMAIN urlOperation
    <3>1. Job(id)[1] = id
      BY DEF Job
    <3>2. Len(urlTable) + 1 \notin 1 .. Len(urlTable)
      BY <1>5
    <3> QED BY <1>2, <1>6, <3>1, <3>2 DEF TablesInv
  <2>2. currentOperation' # Null
    BY <1>1, <1>2 DEF LoaderInv
  <2> QED BY <1>1, <1>4, <1>6, <1>7, <1>8, <2>1, <2>2 DEF LoaderInv
<1>10. JobsInv'
  BY <1>1, <1>2, <1>8 DEF JobsInv
<1> QED BY <1>7, <1>9, <1>10 DEF DatabaseInv

LEMMA RowKeeps == ASSUME DatabaseInv, NextRow PROVE DatabaseInv'
<1> DEFINE todo == loader.todo
           to == IF loader.source = "database" THEN "job" ELSE "notify"
<1>1. /\ loader.pc = "next" /\ loader.source # "file" /\ todo # <<>>
      /\ Continue(to, Head(todo), Tail(todo))
      /\ UNCHANGED <<urlTable, urlOperation, operations, currentOperation, urlObjects, refused>>
  BY DEF NextRow
<1>2. LoaderInv /\ TablesInv /\ JobsInv /\ ObjectsInv
  BY DEF DatabaseInv
<1>3. loader.source \in {"database", "resume"}
  BY <1>1, <1>2 DEF LoaderInv
<1>4. todo \in Seq(Nat) /\ Distinct(todo) /\ Rest(todo) \subseteq 1 .. Len(urlTable)
  BY <1>2, <1>3 DEF LoaderInv
<1>5. /\ Head(todo) \in Rest(todo) /\ Head(todo) \in Nat /\ Tail(todo) \in Seq(Nat)
      /\ Rest(todo) = Rest(Tail(todo)) \cup {Head(todo)}
      /\ Distinct(Tail(todo)) /\ Head(todo) \notin Rest(Tail(todo))
  BY <1>1, <1>4, TakeFirst
<1>6. /\ loader' \in [pc : {"down", "next", "job", "notify"},
                 source : {"none", "file", "database", "resume"}, check : BOOLEAN,
                 todo : Seq(Address) \cup Seq(Nat), id : Nat \cup {Null}]
      /\ loader'.pc = to /\ loader'.id = Head(todo) /\ loader'.todo = Tail(todo)
      /\ loader'.source = loader.source /\ loader'.check = loader.check
  <2>1. to \in {"next", "job", "notify"} /\ Head(todo) \in Nat \cup {Null}
        /\ Tail(todo) \in Seq(Address) \cup Seq(Nat)
    BY <1>5
  <2> QED BY <1>1, <1>2, <2>1, Continued
<1>7. \A i : Job(i)' = Job(i) /\ (Waits(i)' <=> Waits(i))
  BY <1>1 DEF Job, Waits
<1>8. TablesInv' /\ ObjectsInv'
  BY <1>1, <1>2, <1>7 DEF TablesInv, ObjectsInv
<1>9. to = "job" => ~loader.check /\ Job(Head(todo)) \notin DOMAIN urlOperation
  BY <1>2, <1>5 DEF LoaderInv
<1>10. to = "notify" => Waits(Head(todo)) /\ loader.source = "resume"
  BY <1>2, <1>3, <1>5 DEF LoaderInv
<1>11. /\ loader.source = "database" =>
            ~loader.check /\ \A i \in Rest(Tail(todo)) : Job(i) \notin DOMAIN urlOperation
       /\ loader.source = "resume" => \A i \in Rest(Tail(todo)) : Waits(i)
       /\ loader.source = "database" => currentOperation # Null
  BY <1>2, <1>5 DEF LoaderInv
<1>12. to \in {"job", "notify"} /\ (to = "job" => loader.source = "database")
  OBVIOUS
<1> HIDE DEF to, todo
<1>13. LoaderInv'
  BY <1>1, <1>3, <1>4, <1>5, <1>6, <1>7, <1>9, <1>10, <1>11, <1>12 DEF LoaderInv
<1>14. JobsInv'
  <2>1. ASSUME NEW j \in DOMAIN urlOperation, urlOperation[j] = Null, j[2] = currentOperation,
               j \notin refused
        PROVE  \/ loader.source = "resume" /\ j[1] \in Rest(Tail(todo))
               \/ to = "notify" /\ j[1] = Head(todo)
               \/ j[1] \in DOMAIN urlObjects /\ urlObjects[j[1]].state # "done"
    <3>1. \/ loader.source = "resume" /\ j[1] \in Rest(todo)
          \/ j[1] \in DOMAIN urlObjects /\ urlObjects[j[1]].state # "done"
      BY <1>1, <1>2, <2>1 DEF JobsInv, todo
    <3>2. loader.source = "resume" => to = "notify"
      BY DEF to
    <3> QED BY <1>5, <3>1, <3>2
  <2> QED BY <1>1, <1>6, <2>1 DEF JobsInv
<1> QED BY <1>8, <1>13, <1>14 DEF DatabaseInv

LEMMA JobKeeps == ASSUME DatabaseInv, InsertJob PROVE DatabaseInv'
<1> DEFINE id == loader.id
<1>1. /\ loader.pc = "job"
      /\ UNCHANGED <<urlTable, operations, currentOperation, urlObjects, refused>>
  BY DEF InsertJob
<1>2. LoaderInv /\ TablesInv /\ JobsInv /\ ObjectsInv
  BY DEF DatabaseInv
<1>3. /\ loader.source \in {"file", "database"} /\ id \in 1 .. Len(urlTable)
      /\ loader.source # "file" => id \notin Rest(loader.todo)
      /\ ~loader.check => Job(id) \notin DOMAIN urlOperation
      /\ currentOperation # Null
      /\ loader.todo \in Seq(Address) \cup Seq(Nat)
      /\ id \in Nat \cup {Null}
  BY <1>1, <1>2 DEF LoaderInv
<1>4. \A i : Job(i)' = Job(i) /\ Job(i)[1] = i /\ Job(i)[2] = currentOperation
  BY <1>1 DEF Job
<1>5. CASE loader.check /\ Job(id) \in DOMAIN urlOperation
  <2>1. Continue("next", Null, loader.todo) /\ UNCHANGED urlOperation
    BY <1>5 DEF InsertJob
  <2>2. /\ loader' \in [pc : {"down", "next", "job", "notify"},
                 source : {"none", "file", "database", "resume"}, check : BOOLEAN,
                 todo : Seq(Address) \cup Seq(Nat), id : Nat \cup {Null}]
        /\ loader'.pc = "next" /\ loader'.id = Null /\ loader'.todo = loader.todo
        /\ loader'.source = loader.source /\ loader'.check = loader.check
    <3>1. "next" \in {"next", "job", "notify"} /\ Null \in Nat \cup {Null}
      OBVIOUS
    <3> QED BY <1>2, <1>3, <2>1, <3>1, Continued
  <2>3. \A i : Waits(i)' <=> Waits(i)
    BY <1>1, <2>1 DEF Job, Waits
  <2>4. TablesInv' /\ ObjectsInv'
    BY <1>1, <1>2, <1>4, <2>1 DEF TablesInv, ObjectsInv
  <2>5. LoaderInv'
    BY <1>1, <1>2, <1>3, <1>4, <2>1, <2>2, <2>3 DEF LoaderInv
  <2>6. JobsInv'
    BY <1>1, <1>2, <2>1, <2>2 DEF JobsInv
  <2> QED BY <2>4, <2>5, <2>6 DEF DatabaseInv
<1>6. CASE ~(loader.check /\ Job(id) \in DOMAIN urlOperation)
  <2>1. /\ Continue("notify", id, loader.todo)
        /\ urlOperation' = With(urlOperation, Job(id), Null)
    BY <1>6 DEF InsertJob
  <2>2. Job(id) \notin DOMAIN urlOperation
    BY <1>3, <1>6
  <2>3. /\ DOMAIN urlOperation' = DOMAIN urlOperation \cup {Job(id)}
        /\ urlOperation'[Job(id)] = Null
        /\ \A j \in DOMAIN urlOperation : urlOperation'[j] = urlOperation[j]
    <3>1. PICK job : job = Job(id)
      OBVIOUS
    <3>2. /\ DOMAIN With(urlOperation, job, Null) = DOMAIN urlOperation \cup {job}
          /\ With(urlOperation, job, Null)[job] = Null
          /\ \A j \in DOMAIN urlOperation : j # job => With(urlOperation, job, Null)[j] = urlOperation[j]
      BY DEF With
    <3>3. urlOperation' = With(urlOperation, job, Null) /\ job \notin DOMAIN urlOperation
      BY <2>1, <2>2, <3>1
    <3> HIDE DEF id
    <3> QED BY <3>1, <3>2, <3>3
  <2>4. /\ loader' \in [pc : {"down", "next", "job", "notify"},
                 source : {"none", "file", "database", "resume"}, check : BOOLEAN,
                 todo : Seq(Address) \cup Seq(Nat), id : Nat \cup {Null}]
        /\ loader'.pc = "notify" /\ loader'.id = id /\ loader'.todo = loader.todo
        /\ loader'.source = loader.source /\ loader'.check = loader.check
    <3>1. "notify" \in {"next", "job", "notify"}
      OBVIOUS
    <3> QED BY <1>2, <1>3, <2>1, <3>1, Continued
  <2>5. Job(id) \in (1 .. Len(urlTable)) \X (1 .. Len(operations))
    BY <1>2, <1>3 DEF TablesInv, Job
  <2> HIDE DEF id
  <2>6. TablesInv'
    BY <1>1, <1>2, <2>3, <2>5 DEF TablesInv
  <2>7. ObjectsInv'
    BY <1>1, <1>2, <1>4, <2>3 DEF ObjectsInv
  <2>8. Waits(id)'
    <3>1. id \notin DOMAIN urlObjects
      BY <1>2, <2>2 DEF ObjectsInv
    <3>2. id' = id
      BY <2>4 DEF id
    <3> QED BY <1>1, <1>4, <2>3, <3>1, <3>2 DEF Waits
  <2>9. LoaderInv'
    <3>1. loader.source = "database" => \A i \in Rest(loader.todo) : Job(i)' \notin DOMAIN urlOperation'
      <4>1. ASSUME loader.source = "database", NEW i \in Rest(loader.todo)
            PROVE  Job(i) \notin DOMAIN urlOperation /\ Job(i) # Job(id)
        BY <1>2, <1>3, <1>4, <4>1 DEF LoaderInv
      <4> QED BY <1>4, <2>3, <4>1
    <3>2. loader'.id = id /\ Waits(loader.id)'
      BY <2>4, <2>8 DEF id
    <3>3. loader.source = "database" => ~loader.check
      BY <1>2 DEF LoaderInv
    <3>4. /\ loader.source = "file" => loader.todo \in Seq(Address)
          /\ loader.source = "database" =>
               /\ loader.todo \in Seq(Nat) /\ Distinct(loader.todo)
               /\ Rest(loader.todo) \subseteq 1 .. Len(urlTable)
      BY <1>2 DEF LoaderInv
    <3> QED BY <1>1, <1>3, <2>4, <3>1, <3>2, <3>3, <3>4 DEF LoaderInv
  <2>10. JobsInv'
    <3>1. ASSUME NEW j \in DOMAIN urlOperation, urlOperation[j] = Null, j[2] = currentOperation,
                 j \notin refused
          PROVE  j[1] \in DOMAIN urlObjects /\ urlObjects[j[1]].state # "done"
      BY <1>1, <1>2, <1>3, <3>1 DEF JobsInv
    <3> QED BY <1>1, <1>4, <2>3, <2>4, <3>1 DEF JobsInv
  <2> QED BY <2>6, <2>7, <2>9, <2>10 DEF DatabaseInv
<1> QED BY <1>5, <1>6

LEMMA NotifyKeeps == ASSUME DatabaseInv, NotifyUrl PROVE DatabaseInv'
<1> DEFINE id == loader.id
<1>1. /\ loader.pc = "notify" /\ Continue("next", Null, loader.todo)
      /\ UNCHANGED <<urlTable, urlOperation, operations, currentOperation>>
      /\ \/ refused' = refused \cup {Job(id)} /\ UNCHANGED urlObjects
         \/ urlObjects' = With(urlObjects, id, NewUrl) /\ UNCHANGED refused
  BY DEF NotifyUrl
<1>2. LoaderInv /\ TablesInv /\ JobsInv /\ ObjectsInv
  BY DEF DatabaseInv
<1>3. /\ id \in 1 .. Len(urlTable) /\ Waits(id)
      /\ loader.source # "file" => id \notin Rest(loader.todo)
      /\ loader.todo \in Seq(Address) \cup Seq(Nat)
  BY <1>1, <1>2 DEF LoaderInv
<1>4. \A i : Job(i)' = Job(i)
  BY <1>1 DEF Job
<1>5. /\ loader' \in [pc : {"down", "next", "job", "notify"},
                 source : {"none", "file", "database", "resume"}, check : BOOLEAN,
                 todo : Seq(Address) \cup Seq(Nat), id : Nat \cup {Null}]
      /\ loader'.pc = "next" /\ loader'.id = Null /\ loader'.todo = loader.todo
      /\ loader'.source = loader.source /\ loader'.check = loader.check
  <2>1. "next" \in {"next", "job", "notify"} /\ Null \in Nat \cup {Null}
    OBVIOUS
  <2> QED BY <1>1, <1>2, <1>3, <2>1, Continued
<1>6. TablesInv'
  BY <1>1, <1>2 DEF TablesInv
<1>7. ASSUME NEW j \in DOMAIN urlOperation, j[1] = id, j[2] = currentOperation PROVE j = Job(id)
  BY <1>2, <1>7 DEF TablesInv, Job
<1> HIDE DEF id
<1>8. CASE refused' = refused \cup {Job(id)} /\ UNCHANGED urlObjects
  <2>1. ObjectsInv'
    BY <1>1, <1>2, <1>4, <1>8 DEF ObjectsInv
  <2>2. \A i : Waits(i)' <=> Waits(i)
    BY <1>1, <1>4, <1>8 DEF Waits
  <2>3. LoaderInv'
    BY <1>1, <1>2, <1>4, <1>5, <2>2 DEF LoaderInv
  <2>4. JobsInv'
    BY <1>1, <1>2, <1>5, <1>7, <1>8 DEF JobsInv, id
  <2> QED BY <1>6, <2>1, <2>3, <2>4 DEF DatabaseInv
<1>9. CASE urlObjects' = With(urlObjects, id, NewUrl) /\ UNCHANGED refused
  <2>1. /\ DOMAIN urlObjects' = DOMAIN urlObjects \cup {id} /\ urlObjects'[id] = NewUrl
        /\ \A i \in DOMAIN urlObjects : urlObjects'[i] = urlObjects[i]
    <3>1. /\ DOMAIN With(urlObjects, id, NewUrl) = DOMAIN urlObjects \cup {id}
          /\ With(urlObjects, id, NewUrl)[id] = NewUrl
          /\ \A i \in DOMAIN urlObjects : i # id => With(urlObjects, id, NewUrl)[i] = urlObjects[i]
      BY DEF With
    <3>2. id \notin DOMAIN urlObjects
      BY <1>3 DEF Waits
    <3> QED BY <1>9, <3>1, <3>2
  <2>2. Fits(NewUrl, Null) /\ NewUrl.state = "queued"
    BY DEF NewUrl, Fits, UrlObject
  <2>3. ObjectsInv'
    BY <1>1, <1>2, <1>3, <1>4, <2>1, <2>2 DEF ObjectsInv, Waits
  <2>4. \A i : i # id => (Waits(i)' <=> Waits(i))
    BY <1>1, <1>4, <2>1 DEF Waits
  <2>5. LoaderInv'
    BY <1>1, <1>2, <1>3, <1>4, <1>5, <2>4 DEF LoaderInv
  <2>6. JobsInv'
    BY <1>1, <1>2, <1>5, <2>1, <2>2 DEF JobsInv, id
  <2> QED BY <1>6, <2>3, <2>5, <2>6 DEF DatabaseInv
<1> QED BY <1>1, <1>8, <1>9

\* A Url object changes, nothing in the database.
LEMMA UrlMoves ==
  ASSUME DatabaseInv, NEW id \in DOMAIN urlObjects, NEW url, Become(id, url),
         UNCHANGED <<urlTable, urlOperation, operations>>,
         Fits(url, urlOperation[Job(id)])
  PROVE  DatabaseInv'
<1>1. /\ DOMAIN urlObjects' = DOMAIN urlObjects /\ urlObjects'[id] = url
      /\ \A i \in DOMAIN urlObjects : i # id => urlObjects'[i] = urlObjects[i]
      /\ UNCHANGED <<currentOperation, loader, refused>>
  BY DEF Become
<1>2. LoaderInv /\ TablesInv /\ JobsInv /\ ObjectsInv
  BY DEF DatabaseInv
<1>3. \A i : Job(i)' = Job(i) /\ (Waits(i)' <=> Waits(i))
  BY <1>1 DEF Job, Waits
<1>4. TablesInv'
  BY <1>1, <1>2 DEF TablesInv
<1>5. ObjectsInv'
  BY <1>1, <1>2, <1>3 DEF ObjectsInv
<1>6. LoaderInv'
  BY <1>1, <1>2, <1>3 DEF LoaderInv
<1>7. JobsInv'
  <2>1. ASSUME NEW j \in DOMAIN urlOperation, urlOperation[j] = Null, j[2] = currentOperation,
               j[1] = id
        PROVE  url.state # "done"
    <3>1. j = Job(id)
      BY <1>2, <2>1 DEF TablesInv, Job
    <3> QED BY <2>1, <3>1 DEF Fits
  <2> QED BY <1>1, <1>2, <2>1 DEF JobsInv
<1> QED BY <1>4, <1>5, <1>6, <1>7 DEF DatabaseInv

LEMMA ObjectFits ==
  ASSUME DatabaseInv, NEW id \in DOMAIN urlObjects
  PROVE  Fits(urlObjects[id], urlOperation[Job(id)]) /\ Job(id) \in DOMAIN urlOperation
         /\ urlObjects[id] \in UrlObject
BY DEF DatabaseInv, ObjectsInv, Fits

LEMMA UrlsKeep ==
  ASSUME DatabaseInv, NEW id \in DOMAIN urlObjects,
         TakeUrl(id) \/ VisitStarts(id) \/ Judge(id) \/ FailUnstarted(id)
  PROVE  DatabaseInv'
<1> DEFINE url == urlObjects[id]
<1>1. Fits(url, urlOperation[Job(id)]) /\ url \in UrlObject
  BY ObjectFits
<1>2. CASE TakeUrl(id)
  <2>1. /\ url.state = "queued" /\ Become(id, [url EXCEPT !.state = "taken", !.attempt = 1])
        /\ UNCHANGED <<urlTable, urlOperation, operations>>
    BY <1>2 DEF TakeUrl
  <2>2. Fits([url EXCEPT !.state = "taken", !.attempt = 1], urlOperation[Job(id)])
    <3>1. PICK new : new = [url EXCEPT !.state = "taken", !.attempt = 1]
      OBVIOUS
    <3>2. /\ new \in UrlObject
          /\ new.state = "taken" /\ new.attempt = 1 /\ new.timed = url.timed
      <4> HIDE DEF url
      <4>1. /\ url = [state |-> url.state, attempt |-> url.attempt, timed |-> url.timed,
                      verdict |-> url.verdict, failed |-> url.failed]
            /\ url.timed \in BOOLEAN /\ url.verdict \in Status \cup {Null}
            /\ url.failed \in BOOLEAN
        BY <1>1 DEF UrlObject
      <4>2. new = [state |-> "taken", attempt |-> 1, timed |-> url.timed,
                   verdict |-> url.verdict, failed |-> url.failed]
        BY <3>1, <4>1
      <4> QED BY <4>1, <4>2 DEF UrlObject
    <3> HIDE DEF url
    <3> QED BY <1>1, <2>1, <3>1, <3>2 DEF Fits
  <2> QED BY <2>1, <2>2, UrlMoves
<1>3. CASE VisitStarts(id)
  <2>1. /\ url.state = "taken" /\ Become(id, [url EXCEPT !.state = "visiting", !.timed = TRUE])
        /\ UNCHANGED <<urlTable, urlOperation, operations>>
    BY <1>3 DEF VisitStarts
  <2>2. Fits([url EXCEPT !.state = "visiting", !.timed = TRUE], urlOperation[Job(id)])
    <3>1. PICK new : new = [url EXCEPT !.state = "visiting", !.timed = TRUE]
      OBVIOUS
    <3>2. /\ new \in UrlObject
          /\ new.state = "visiting" /\ new.attempt = url.attempt
      <4> HIDE DEF url
      <4> QED BY <1>1, <2>1, <3>1 DEF UrlObject
    <3> HIDE DEF url
    <3> QED BY <1>1, <2>1, <3>1, <3>2 DEF Fits
  <2> QED BY <2>1, <2>2, UrlMoves
<1>4. CASE Judge(id)
  <2>1. PICK s \in Status, failed \in BOOLEAN :
          /\ url.state = "visiting"
          /\ Become(id, [url EXCEPT !.state = "judged", !.verdict = s, !.failed = failed])
          /\ UNCHANGED <<urlTable, urlOperation, operations>>
    BY <1>4 DEF Judge
  <2>2. Fits([url EXCEPT !.state = "judged", !.verdict = s, !.failed = failed], urlOperation[Job(id)])
    <3>1. PICK new : new = [url EXCEPT !.state = "judged", !.verdict = s, !.failed = failed]
      OBVIOUS
    <3>2. /\ new \in UrlObject
          /\ new.state = "judged" /\ new.attempt = url.attempt /\ new.verdict = s
      <4> HIDE DEF url
      <4> QED BY <1>1, <2>1, <3>1 DEF UrlObject
    <3> HIDE DEF url
    <3> QED BY <1>1, <2>1, <3>1, <3>2 DEF Fits
  <2> QED BY <2>1, <2>2, UrlMoves
<1>5. CASE FailUnstarted(id)
  <2>1. /\ url.state = "taken"
        /\ Become(id, [url EXCEPT !.state = IF url.timed THEN "done" ELSE "broken"])
        /\ UNCHANGED <<urlTable, urlOperation, operations>>
    BY <1>5 DEF FailUnstarted
  <2>2. Fits([url EXCEPT !.state = IF url.timed THEN "done" ELSE "broken"], urlOperation[Job(id)])
    <3>1. PICK new : new = [url EXCEPT !.state = IF url.timed THEN "done" ELSE "broken"]
      OBVIOUS
    <3>2. /\ new \in UrlObject
          /\ new.state = (IF url.timed THEN "done" ELSE "broken") /\ new.attempt = url.attempt
      <4> HIDE DEF url
      <4> QED BY <1>1, <2>1, <3>1 DEF UrlObject
    <3> HIDE DEF url
    <3> QED BY <1>1, <2>1, <3>1, <3>2 DEF Fits
  <2> QED BY <2>1, <2>2, UrlMoves
<1> QED BY <1>2, <1>3, <1>4, <1>5

\* The status of a job is stored, and nothing else of the table.
LEMMA StatusStored ==
  ASSUME DatabaseInv, NEW id \in DOMAIN urlObjects, SetStatus(id)
  PROVE  /\ DOMAIN urlOperation' = DOMAIN urlOperation
         /\ urlOperation'[Job(id)] = urlObjects[id].verdict /\ urlObjects[id].verdict \in Status
         /\ urlObjects[id].state = "judged"
         /\ \A j \in DOMAIN urlOperation : j # Job(id) => urlOperation'[j] = urlOperation[j]
<1>1. Job(id) \in DOMAIN urlOperation
  BY ObjectFits
<1>2. urlObjects[id].state = "judged" /\ urlOperation' = Stored(id)
  BY DEF SetStatus
<1>3. urlObjects[id].verdict \in Status
  BY <1>2, ObjectFits DEF Fits
<1>4. PICK job : job = Job(id)
  OBVIOUS
<1>5. urlOperation' = With(urlOperation, job, urlObjects[id].verdict)
  BY <1>1, <1>2, <1>4 DEF Stored
<1>6. /\ DOMAIN urlOperation' = DOMAIN urlOperation
      /\ urlOperation'[job] = urlObjects[id].verdict
      /\ \A j \in DOMAIN urlOperation : j # job => urlOperation'[j] = urlOperation[j]
  BY <1>1, <1>4, <1>5 DEF With
<1> QED BY <1>2, <1>3, <1>4, <1>6

LEMMA StatusKeeps == ASSUME DatabaseInv, NEW id \in DOMAIN urlObjects, SetStatus(id)
                     PROVE  DatabaseInv'
<1> DEFINE url == urlObjects[id]
           after == IF url.failed /\ url.attempt = 1
                    THEN [url EXCEPT !.state = "taken", !.attempt = 2]
                    ELSE [url EXCEPT !.state = "done"]
<1>1. /\ urlTable' = [urlTable EXCEPT ![id].status = url.verdict, ![id].operation = currentOperation]
      /\ Become(id, after) /\ UNCHANGED operations
  BY DEF SetStatus
<1>2. LoaderInv /\ TablesInv /\ JobsInv /\ ObjectsInv
  BY DEF DatabaseInv
<1>3. /\ DOMAIN urlOperation' = DOMAIN urlOperation
      /\ urlOperation'[Job(id)] = url.verdict /\ url.verdict \in Status
      /\ url.state = "judged"
      /\ \A j \in DOMAIN urlOperation : j # Job(id) => urlOperation'[j] = urlOperation[j]
  BY StatusStored
<1>4. Fits(url, urlOperation[Job(id)]) /\ Job(id) \in DOMAIN urlOperation /\ url \in UrlObject
  BY ObjectFits
<1>5. /\ DOMAIN urlObjects' = DOMAIN urlObjects /\ urlObjects'[id] = after
      /\ \A i \in DOMAIN urlObjects : i # id => urlObjects'[i] = urlObjects[i]
      /\ UNCHANGED <<currentOperation, loader, refused>>
  BY <1>1 DEF Become
<1>6. Fits(after, url.verdict)
  <2>1. url.verdict # Null
    BY <1>3, DatabaseAssumption
  <2>2. CASE url.failed /\ url.attempt = 1
    <3>1. PICK new : new = [url EXCEPT !.state = "taken", !.attempt = 2]
      OBVIOUS
    <3>2. new \in UrlObject /\ new.state = "taken" /\ new.attempt = 2
      <4> HIDE DEF url
      <4>1. /\ url = [state |-> url.state, attempt |-> url.attempt, timed |-> url.timed,
                      verdict |-> url.verdict, failed |-> url.failed]
            /\ url.timed \in BOOLEAN /\ url.verdict \in Status \cup {Null}
            /\ url.failed \in BOOLEAN
        BY <1>4 DEF UrlObject
      <4>2. new = [state |-> "taken", attempt |-> 2, timed |-> url.timed,
                   verdict |-> url.verdict, failed |-> url.failed]
        BY <3>1, <4>1
      <4> QED BY <4>1, <4>2 DEF UrlObject
    <3>3. after = new
      BY <2>2, <3>1
    <3> HIDE DEF after, url
    <3> QED BY <2>1, <3>2, <3>3 DEF Fits
  <2>3. CASE ~(url.failed /\ url.attempt = 1)
    <3>1. PICK new : new = [url EXCEPT !.state = "done"]
      OBVIOUS
    <3>2. new \in UrlObject /\ new.state = "done"
      <4> HIDE DEF url
      <4> QED BY <1>4, <3>1 DEF UrlObject
    <3>3. after = new
      BY <2>3, <3>1
    <3> HIDE DEF after, url
    <3> QED BY <2>1, <3>2, <3>3 DEF Fits
  <2> QED BY <2>2, <2>3
<1>7. \A i : Job(i)' = Job(i) /\ Job(i)[1] = i
  BY <1>5 DEF Job
<1>8. urlTable' \in Seq(Row) /\ Len(urlTable') = Len(urlTable)
  <2>1. urlTable \in [1 .. Len(urlTable) -> Row] /\ Len(urlTable) \in Nat /\ id \in 1 .. Len(urlTable)
    BY <1>2, LenProperties DEF TablesInv, ObjectsInv
  <2>2. PICK verdict \in Status : verdict = url.verdict
    BY <1>3
  <2>3. currentOperation \in Nat \cup {Null}
    <3>1. Len(operations) \in Nat
      BY <1>2, LenProperties DEF TablesInv
    <3> QED BY <1>2, <3>1 DEF TablesInv
  <2>4. [urlTable[id] EXCEPT !.status = verdict, !.operation = currentOperation] \in Row
    BY <2>1, <2>3 DEF Row
  <2>5. urlTable' = [urlTable EXCEPT ![id] =
                       [urlTable[id] EXCEPT !.status = verdict, !.operation = currentOperation]]
    <3> HIDE DEF url, after
    <3> QED BY <1>1, <2>1, <2>2
  <2>6. urlTable' \in [1 .. Len(urlTable) -> Row]
    BY <2>1, <2>4, <2>5
  <2>7. PICK rows \in [1 .. Len(urlTable) -> Row] : rows = urlTable'
    BY <2>6
  <2> QED BY <2>1, <2>7, SeqOfLength
<1> HIDE DEF after, url
<1>9. TablesInv'
  BY <1>1, <1>2, <1>3, <1>5, <1>8 DEF TablesInv
<1>10. ObjectsInv'
  <2>1. ASSUME NEW i \in DOMAIN urlObjects
        PROVE  Job(i) \in DOMAIN urlOperation /\ Fits(urlObjects'[i], urlOperation'[Job(i)])
    <3>1. CASE i = id
      BY <1>3, <1>4, <1>5, <1>6, <3>1
    <3>2. CASE i # id
      BY <1>2, <1>3, <1>5, <1>7, <3>2 DEF ObjectsInv
    <3> QED BY <3>1, <3>2
  <2> QED BY <1>2, <1>3, <1>5, <1>7, <1>8, <2>1 DEF ObjectsInv
<1>11. \A i : Waits(i) => Waits(i)'
  BY <1>3, <1>5, <1>7 DEF Waits
<1>12. LoaderInv'
  BY <1>2, <1>3, <1>5, <1>7, <1>8, <1>11 DEF LoaderInv
<1>13. JobsInv'
  <2>1. url.verdict # Null
    BY <1>3, DatabaseAssumption
  <2>2. \A j \in DOMAIN urlOperation : urlOperation'[j] = Null => urlOperation[j] = Null /\ j # Job(id)
    BY <1>3, <2>1
  <2>3. \A j \in DOMAIN urlOperation : j[2] = currentOperation /\ j # Job(id) => j[1] # id
    BY <1>2 DEF TablesInv, Job
  <2> QED BY <1>2, <1>3, <1>5, <2>2, <2>3 DEF JobsInv
<1> QED BY <1>9, <1>10, <1>12, <1>13 DEF DatabaseInv

\* The process is gone; what it had in memory is not in the database.
LEMMA EndKeepsTables ==
  ASSUME DatabaseInv, End, operations' \in Seq(BOOLEAN), Len(operations') = Len(operations)
  PROVE  DatabaseInv'
<1>1. /\ loader' = NotRunning /\ DOMAIN urlObjects' = {} /\ currentOperation' = Null
      /\ UNCHANGED <<urlTable, urlOperation>>
  BY DEF End
<1>2. TablesInv
  BY DEF DatabaseInv
<1>3. TablesInv'
  BY <1>1, <1>2 DEF TablesInv
<1>4. ObjectsInv'
  BY <1>1 DEF ObjectsInv
<1>5. LoaderInv'
  <2>1. /\ loader' = [pc |-> "down", source |-> "none", check |-> FALSE, todo |-> <<>>, id |-> Null]
        /\ <<>> \in Seq(Nat)
    BY <1>1 DEF NotRunning
  <2> QED BY <1>1, <2>1 DEF LoaderInv
<1>6. JobsInv'
  <2>1. \A j \in DOMAIN urlOperation : j[2] # Null
    <3>1. Len(operations) \in Nat
      BY <1>2, LenProperties DEF TablesInv
    <3>2. \A j \in DOMAIN urlOperation : j[2] \in Nat
      BY <1>2, <3>1 DEF TablesInv
    <3> QED BY <3>2, DatabaseAssumption
  <2> QED BY <1>1, <2>1 DEF JobsInv
<1> QED BY <1>3, <1>4, <1>5, <1>6 DEF DatabaseInv

LEMMA EndsKeep == ASSUME DatabaseInv, Crash \/ FinishOperation \/ Stop PROVE DatabaseInv'
<1>1. End
  BY DEF Crash, FinishOperation, Stop
<1>2. operations \in Seq(BOOLEAN) /\ currentOperation \in 1 .. Len(operations) \cup {Null}
  BY DEF DatabaseInv, TablesInv
<1>3. CASE operations' = operations
  <2>1. operations' \in Seq(BOOLEAN) /\ Len(operations') = Len(operations)
    BY <1>2, <1>3
  <2> QED BY <1>1, <2>1, EndKeepsTables
<1>4. CASE operations' = [operations EXCEPT ![currentOperation] = TRUE] /\ currentOperation # Null
  <2>1. operations \in [1 .. Len(operations) -> BOOLEAN] /\ Len(operations) \in Nat
    BY <1>2, LenProperties
  <2>2. operations' \in [1 .. Len(operations) -> BOOLEAN]
    BY <1>4, <2>1
  <2>3. PICK rows \in [1 .. Len(operations) -> BOOLEAN] : rows = operations'
    BY <2>2
  <2>4. operations' \in Seq(BOOLEAN) /\ Len(operations') = Len(operations)
    BY <2>1, <2>3, SeqOfLength
  <2> QED BY <1>1, <2>4, EndKeepsTables
<1> QED BY <1>3, <1>4 DEF Crash, FinishOperation, Stop

LEMMA DatabaseStep == DatabaseInv /\ [DatabaseNext]_databaseVars => DatabaseInv'
<1> SUFFICES ASSUME DatabaseInv, [DatabaseNext]_databaseVars PROVE DatabaseInv'
  OBVIOUS
<1>1. ASSUME NEW check \in BOOLEAN, ImportUrl(check) \/ LoadInputUrlFromFile(check)
      PROVE  DatabaseInv'
  BY <1>1, ImportKeeps, FileKeeps
<1>2. CASE LoadInputUrlFromDatabase \/ ResumeLastOperation
  BY <1>2, RowsKeep, ResumeKeeps
<1>3. CASE NextLine \/ NextRow
  BY <1>3, LineKeeps, RowKeeps
<1>4. CASE InsertJob \/ NotifyUrl
  BY <1>4, JobKeeps, NotifyKeeps
<1>5. ASSUME NEW id \in DOMAIN urlObjects,
             TakeUrl(id) \/ VisitStarts(id) \/ Judge(id) \/ FailUnstarted(id) \/ SetStatus(id)
      PROVE  DatabaseInv'
  BY <1>5, UrlsKeep, StatusKeeps
<1>6. CASE Crash \/ FinishOperation \/ Stop
  BY <1>6, EndsKeep
<1>7. CASE StopCommand \/ UNCHANGED databaseVars
  <2>1. /\ UNCHANGED <<urlTable, urlOperation, operations, currentOperation, loader>>
        /\ UNCHANGED <<urlObjects, refused>>
    BY <1>7 DEF StopCommand, databaseVars
  <2>2. \A i : Job(i)' = Job(i) /\ (Waits(i)' <=> Waits(i))
    BY <2>1 DEF Job, Waits
  <2>3. TablesInv' /\ ObjectsInv' /\ JobsInv'
    BY <2>1, <2>2 DEF DatabaseInv, TablesInv, ObjectsInv, JobsInv
  <2>4. LoaderInv'
    BY <2>1, <2>2 DEF DatabaseInv, LoaderInv
  <2> QED BY <2>3, <2>4 DEF DatabaseInv
<1> QED BY <1>1, <1>2, <1>3, <1>4, <1>5, <1>6, <1>7 DEF DatabaseNext

(* The tables, the loader and the Url objects of the server agree in every  *)
(* reachable state, for every input file and number of runs of the server.  *)
THEOREM DatabaseInvariance == DatabaseSpec => []DatabaseInv
BY DatabaseStart, DatabaseStep, PTL DEF DatabaseSpec

(* The type invariant of the database and the server that fills it.         *)
THEOREM DatabaseTypeCorrect == DatabaseSpec => []DatabaseTypeOK
<1>1. ASSUME DatabaseInv PROVE DatabaseTypeOK
  <2>1. TablesInv /\ ObjectsInv
    BY <1>1 DEF DatabaseInv
  <2>2. Len(urlTable) \in Nat /\ Len(operations) \in Nat /\ Ids = 1 .. Len(urlTable)
    BY <2>1, LenProperties DEF TablesInv, Ids
  <2>3. 1 .. Len(urlTable) \subseteq 1 .. MaxRows /\ 1 .. Len(operations) \subseteq 1 .. MaxOperations
    BY <2>1, <2>2, DatabaseAssumption DEF TablesInv
  <2> QED BY <2>1, <2>2, <2>3 DEF TablesInv, ObjectsInv, DatabaseTypeOK
<1> QED BY <1>1, DatabaseInvariance, PTL

(* A job of the current operation that has no status is on its way through  *)
(* the server, or the loader that resumes the operation still has it, for   *)
(* every number of runs that end, crash or are stopped at any point.        *)
THEOREM JobsAreNotForgotten == DatabaseSpec => []NoJobIsForgotten
<1>1. DatabaseInv => NoJobIsForgotten
  BY DEF DatabaseInv, JobsInv, NoJobIsForgotten, Unvisited, ToBeLoaded, Rest
<1> QED BY <1>1, DatabaseInvariance, PTL

(* A status that was stored is only overwritten by the second visit of the  *)
(* same operation to a URL whose first visit failed.                        *)
THEOREM StatusesAreKept == DatabaseSpec => VerdictsAreKept
<1> DEFINE Kept == \A j \in DOMAIN urlOperation : urlOperation[j] # Null =>
                     \/ urlOperation'[j] = urlOperation[j]
                     \/ /\ j[2] = currentOperation /\ j[1] \in DOMAIN urlObjects
                        /\ urlObjects[j[1]].attempt = 2
<1>1. ASSUME DatabaseInv, [DatabaseNext]_databaseVars PROVE Kept
  <2>1. CASE UNCHANGED urlOperation
    BY <2>1
  <2>2. CASE InsertJob
    <3>1. CASE urlOperation' = urlOperation
      BY <3>1
    <3>2. CASE urlOperation' = With(urlOperation, Job(loader.id), Null)
               /\ ~(loader.check /\ Job(loader.id) \in DOMAIN urlOperation)
      <4>1. Job(loader.id) \notin DOMAIN urlOperation
        BY <1>1, <2>2, <3>2 DEF InsertJob, DatabaseInv, LoaderInv
      <4> QED BY <3>2, <4>1 DEF With
    <3> QED BY <2>2, <3>1, <3>2 DEF InsertJob
  <2>3. ASSUME NEW id \in DOMAIN urlObjects, SetStatus(id) PROVE Kept
    <3>1. \A j \in DOMAIN urlOperation : j # Job(id) => urlOperation'[j] = urlOperation[j]
      BY <1>1, <2>3, StatusStored
    <3>2. Fits(urlObjects[id], urlOperation[Job(id)]) /\ urlObjects[id].state = "judged"
          /\ urlObjects[id] \in UrlObject
      BY <1>1, <2>3, ObjectFits, StatusStored
    <3>3. urlOperation[Job(id)] # Null => urlObjects[id].attempt = 2
      BY <3>2 DEF Fits, UrlObject
    <3>4. Job(id)[1] = id /\ Job(id)[2] = currentOperation
      BY DEF Job
    <3>5. urlOperation[Job(id)] # Null =>
            /\ Job(id)[2] = currentOperation /\ Job(id)[1] \in DOMAIN urlObjects
            /\ urlObjects[Job(id)[1]].attempt = 2
      BY Zenon, <2>3, <3>3, <3>4
    <3>6. PICK job : job = Job(id)
      BY Zenon
    <3> QED BY Zenon, <3>1, <3>5, <3>6
  <2>4. \/ UNCHANGED urlOperation \/ InsertJob
        \/ \E id \in DOMAIN urlObjects : SetStatus(id)
    BY Zenon, <1>1 DEF DatabaseNext, databaseVars, ImportUrl, LoadInputUrlFromFile,
       LoadInputUrlFromDatabase, ResumeLastOperation, StartLoading, NextLine, NextRow,
       NotifyUrl, TakeUrl, VisitStarts, Judge, FailUnstarted, Crash, FinishOperation, Stop,
       End, StopCommand
  <2> QED BY <2>1, <2>2, <2>3, <2>4
<1>2. DatabaseInv /\ [DatabaseNext]_databaseVars => [Kept]_databaseVars
  BY <1>1
<1> QED BY <1>2, DatabaseInvariance, PTL DEF DatabaseSpec, VerdictsAreKept

-----------------------------------------------------------------------------
(***************************************************************************)
(* Attribution of changes: the invariant.  A process is started once and   *)
(* reported at most once, its nodes are few, and all nodes of a tree       *)
(* belong to processes of one URL.                                         *)
(***************************************************************************)

ProcessEvent == [type : {"process"}, pid : Proc, parent : Proc \cup {CaptureClient}]
ObjectEvent == [type : {"object"}, pid : Proc, n : Nat]
Node == [pid : Proc, parent : Proc \cup {0, CaptureClient}, changes : SUBSET ObjectEvent]

\* The processes and events a state can have.
AttributionTypes ==
  /\ mainPid \in [BulkUrl -> Proc \cup {0}]
  /\ family \in [Proc -> BulkUrl \cup {Unstarted}]
  /\ permitted \subseteq Proc
  /\ inFlight \subseteq ProcessEvent \cup ObjectEvent
  /\ writes \in Nat

\* A URL whose browser was started has a process, and only such a URL.
BrowserInv ==
  /\ \A u \in BulkUrl : mainPid[u] # 0 => family[mainPid[u]] = u
  /\ \A p \in Proc : family[p] # Unstarted => mainPid[family[p]] # 0

\* Parents are of the same family; a browser's parent is the client.
InFlightInv == \A e \in inFlight :
  /\ family[e.pid] # Unstarted
  /\ e.type = "process" =>
       /\ e.parent \in Proc => family[e.parent] = family[e.pid]
       /\ \A u \in BulkUrl : e.pid = mainPid[u] => e.parent = CaptureClient
       /\ \A d \in inFlight : d.type = "process" /\ d.pid = e.pid => d = e

\* The trees are numbered from 1, and every node is in one of them.
PathsInv ==
  /\ IsFiniteSet(DOMAIN forest)
  /\ Roots = {<<k>> : k \in 1 .. Cardinality(Roots)}
  /\ \A a \in DOMAIN forest :
       /\ a \in Seq(Nat) /\ Len(a) >= 1 /\ <<a[1]>> \in DOMAIN forest
       /\ forest[a] \in Node

TreesInv ==
  /\ \A a \in DOMAIN forest :
       /\ family[forest[a].pid] # Unstarted
       /\ forest[a].parent \in Proc => family[forest[a].parent] = family[forest[a].pid]
       /\ \A u \in BulkUrl : forest[a].pid = mainPid[u] => Len(a) = 1
  /\ \A a, b \in DOMAIN forest : a[1] = b[1] => family[forest[a].pid] = family[forest[b].pid]

\* A process has at most two nodes, and the first of them is a root: it came
\* with a change, before the event of the process itself.
NodesInv == \A p \in Proc :
  /\ \A a, b, c \in NodesOf(p) : a = b \/ a = c \/ b = c
  /\ \A a, b \in NodesOf(p) : a = b \/ Len(a) = 1 \/ Len(b) = 1
  /\ \A e \in inFlight : e.type = "process" /\ e.pid = p =>
       \A a, b \in NodesOf(p) : a = b /\ Len(a) = 1

\* A browser the handler has been told of, or is about to be.
Heard(b) ==
  \/ TreesOf(b) # {}
  \/ \E e \in inFlight : e.type = "process" /\ (e.pid = b \/ e.parent = b)

HeardInv == \A u \in BulkUrl : LET b == mainPid[u] IN
  /\ b # 0 /\ \A p \in permitted : family[p] = u => p = b
  /\ b \notin permitted \/ \E p \in Proc : p # b /\ family[p] = u
  => Heard(b)

AttributionInv ==
  /\ AttributionTypes /\ AttributionTypeOK
  /\ BrowserInv /\ InFlightInv /\ PathsInv /\ TreesInv /\ NodesInv /\ HeardInv

-----------------------------------------------------------------------------
(* The first node in the order of the recursion                            *)

\* A root is comparable with every node.
LEMMA RootsCompare ==
  ASSUME NEW a \in Seq(Nat), NEW b \in Seq(Nat), Len(a) = 1, Len(b) >= 1
  PROVE  a = b \/ Before(a, b) \/ Before(b, a)
<1>1. 1 \in 1 .. Len(a) /\ 1 \in 1 .. Len(b) /\ 1 <= Len(a) /\ 1 <= Len(b)
  BY LenProperties
<1>2. SubSeq(a, 1, 1 - 1) = SubSeq(b, 1, 1 - 1)
  BY SubSeqEmpty
<1>3. a[1] \in Nat /\ b[1] \in Nat
  BY <1>1, ElementOfSeq
<1>4. CASE a[1] # b[1]
  <2>1. a[1] < b[1] \/ b[1] < a[1]
    BY <1>3, <1>4
  <2> QED BY <1>1, <1>2, <2>1 DEF Before
<1>5. CASE a[1] = b[1]
  <2>1. CASE Len(b) = 1
    <3>1. a = b
      BY <1>5, <2>1, SeqEqual
    <3> QED BY <3>1
  <2>2. CASE Len(b) # 1
    <3>1. Len(a) < Len(b)
      BY <2>2, LenProperties
    <3>2. SubSeq(b, 1, Len(a)) = <<b[1]>>
      <4> DEFINE s == SubSeq(b, 1, 1)
      <4>1. s \in Seq(Nat) /\ Len(s) = 1 /\ s[1] = b[1]
        <5>1. \A i \in 1 .. 1 : b[i] \in Nat
          BY <1>3
        <5>2. /\ s \in Seq(Nat) /\ Len(s) = IF 1 <= 1 THEN 1 - 1 + 1 ELSE 0
              /\ \A i \in 1 .. 1 - 1 + 1 : s[i] = b[1 + i - 1]
          BY <5>1, SubSeqProperties
        <5> HIDE DEF s
        <5> QED BY <5>2
      <4> HIDE DEF s
      <4>2. s = <<b[1]>>
        BY <4>1
      <4> QED BY <4>2 DEF s
    <3>3. a = <<a[1]>>
      OBVIOUS
    <3> QED BY <1>5, <3>1, <3>2, <3>3 DEF Before
  <2> QED BY <2>1, <2>2
<1> QED BY <1>4, <1>5

\* The node that is chosen is one of them, if any comes before the others.
LEMMA FirstIsChosen ==
  ASSUME NEW S, \E a \in S : \A b \in S : a = b \/ Before(a, b)
  PROVE  FirstOf(S) \in S
BY DEF FirstOf

\* A set of roots has a first one.
LEMMA FirstRoot ==
  ASSUME NEW n \in Nat, NEW S, S # {}, \A a \in S : \E k \in 1 .. n : a = <<k>>
  PROVE  FirstOf(S) \in S
<1> DEFINE K == {k \in 1 .. n : <<k>> \in S}
<1>1. K \in SUBSET Nat /\ K # {}
  OBVIOUS
<1>2. IsFiniteSet(K)
  <2>1. K \in SUBSET (1 .. n)
    OBVIOUS
  <2>2. IsFiniteSet(1 .. n)
    BY 1 \in Int, n \in Int, FS_Interval
  <2> HIDE DEF K
  <2> QED BY <2>1, <2>2, FS_Subset
<1> HIDE DEF K
<1>3. PICK k \in K : \A j \in K : k <= j
  BY <1>1, <1>2, LeastIsThere
<1>4. <<k>> \in S /\ k \in Nat
  BY <1>1 DEF K
<1>5. ASSUME NEW b \in S PROVE <<k>> = b \/ Before(<<k>>, b)
  <2>1. PICK j \in 1 .. n : b = <<j>>
    OBVIOUS
  <2>2. j \in K /\ j \in Nat
    BY <2>1 DEF K
  <2>3. k <= j
    BY <1>3, <2>2
  <2>4. CASE k < j
    <3>1. <<k>>[1] < <<j>>[1] /\ 1 \in 1 .. Len(<<k>>) /\ 1 <= Len(<<j>>)
      BY <2>4
    <3>2. SubSeq(<<k>>, 1, 1 - 1) = SubSeq(<<j>>, 1, 1 - 1)
      BY <1>4, <2>2
    <3> QED BY <2>1, <3>1, <3>2 DEF Before
  <2> QED BY <1>4, <2>1, <2>2, <2>3, <2>4
<1> QED BY <1>4, <1>5, FirstIsChosen

-----------------------------------------------------------------------------
(* Growing trees                                                           *)

\* What remains of the nodes when one is put at r.
GrownBy(r, node) ==
  /\ r \in DOMAIN forest' /\ forest'[r] = node
  /\ DOMAIN forest' = DOMAIN forest \cup {r}
  /\ \A a \in DOMAIN forest : a # r => forest'[a] = forest[a]

LEMMA TreePut ==
  ASSUME NEW r, NEW node, forest' = WithTree(r, node)
  PROVE  GrownBy(r, node)
BY DEF GrownBy, WithTree

LEMMA SingleElement ==
  ASSUME NEW k \in Nat
  PROVE  <<k>> \in Seq(Nat) /\ Len(<<k>>) = 1 /\ <<k>>[1] = k
OBVIOUS

\* A new tree has a number of its own.
LEMMA NewTree ==
  ASSUME PathsInv, NEW node \in Node, forest' = WithTree(NewRoot, node)
  PROVE  \E k \in Nat : LET r == <<k>> IN
           /\ r \notin DOMAIN forest /\ GrownBy(r, node) /\ PathsInv'
           /\ \A a \in DOMAIN forest : a[1] # r[1]
           /\ Roots' = Roots \cup {r}
<1> DEFINE n == Cardinality(Roots)
           r == <<n + 1>>
<1>1. IsFiniteSet(Roots)
  <2>1. Roots \in SUBSET DOMAIN forest
    BY DEF Roots
  <2> QED BY <2>1, FS_Subset DEF PathsInv
<1>2. n \in Nat /\ n + 1 \in Nat
  BY <1>1, FS_CardinalityType
<1>3. NewRoot = r
  BY DEF NewRoot
<1>4. Roots = {<<k>> : k \in 1 .. n}
  BY DEF PathsInv
<1> HIDE DEF n
<1>5. GrownBy(r, node)
  BY <1>3, TreePut
<1>6. r \in Seq(Nat) /\ Len(r) = 1 /\ r[1] = n + 1
  BY <1>2, SingleElement
<1> HIDE DEF r
<1>7. \A a \in DOMAIN forest : a[1] # r[1]
  <2> SUFFICES ASSUME NEW a \in DOMAIN forest, a[1] = n + 1 PROVE FALSE
    BY <1>6
  <2>1. <<a[1]>> \in Roots
    BY SingleElement, <1>2 DEF PathsInv, Roots
  <2>2. PICK k \in 1 .. n : <<a[1]>> = <<k>>
    BY <1>4, <2>1
  <2>3. k = n + 1
    BY <2>2
  <2> QED BY <1>2, <2>3
<1>8. r \notin DOMAIN forest
  BY <1>7
<1>9. Roots' = Roots \cup {r}
  BY <1>5, <1>6 DEF Roots, GrownBy
<1>10. PathsInv'
  <2>1. IsFiniteSet(DOMAIN forest')
    BY <1>5, FS_AddElement DEF PathsInv, GrownBy
  <2>2. Cardinality(Roots') = n + 1
    <3>1. r \notin Roots
      BY <1>8 DEF Roots
    <3> QED BY <1>1, <1>9, <3>1, FS_AddElement DEF n
  <2>3. Roots' = {<<k>> : k \in 1 .. n + 1}
    <3>1. Roots' = {<<k>> : k \in 1 .. n} \cup {<<n + 1>>}
      BY <1>4, <1>9 DEF r
    <3>2. 1 .. n + 1 = (1 .. n) \cup {n + 1}
      BY <1>2
    <3> QED BY <3>1, <3>2
  <2>4. ASSUME NEW a \in DOMAIN forest'
        PROVE  /\ a \in Seq(Nat) /\ Len(a) >= 1 /\ <<a[1]>> \in DOMAIN forest'
               /\ forest'[a] \in Node
    <3>1. CASE a = r
      <4>1. <<a[1]>> = r
        BY <1>6, <3>1 DEF r
      <4> QED BY <1>5, <1>6, <3>1, <4>1 DEF GrownBy
    <3>2. CASE a # r
      <4>1. a \in DOMAIN forest /\ forest'[a] = forest[a] /\ DOMAIN forest \subseteq DOMAIN forest'
        BY <1>5, <3>2 DEF GrownBy
      <4> QED BY <4>1 DEF PathsInv
    <3> QED BY <3>1, <3>2
  <2> QED BY <2>1, <2>2, <2>3, <2>4 DEF PathsInv
<1> QED BY <1>2, <1>5, <1>7, <1>8, <1>9, <1>10 DEF r

\* A child is in the tree of its parent, and no root.
LEMMA NewNode ==
  ASSUME PathsInv, NEW a \in DOMAIN forest, NEW node \in Node,
         forest' = WithTree(NewChild(a), node)
  PROVE  \E c \in Seq(Nat) :
           /\ Len(c) = Len(a) + 1 /\ c[1] = a[1] /\ SubSeq(c, 1, Len(a)) = a
           /\ GrownBy(c, node) /\ PathsInv' /\ Roots' = Roots
<1> DEFINE B == {b \in DOMAIN forest : Len(b) = Len(a) + 1 /\ SubSeq(b, 1, Len(a)) = a}
           m == Cardinality(B) + 1
           c == Append(a, m)
<1>1. a \in Seq(Nat) /\ Len(a) >= 1 /\ Len(a) \in Nat
  BY LenProperties DEF PathsInv
<1>2. m \in Nat
  <2>1. B \in SUBSET DOMAIN forest
    OBVIOUS
  <2>2. IsFiniteSet(B)
    BY <2>1, FS_Subset DEF PathsInv
  <2>3. Cardinality(B) \in Nat
    BY <2>2, FS_CardinalityType
  <2> HIDE DEF B
  <2> QED BY <2>3
<1>3. NewChild(a) = c
  BY DEF NewChild
<1> HIDE DEF B, m
<1>4. c \in Seq(Nat) /\ Len(c) = Len(a) + 1 /\ \A i \in 1 .. Len(a) : c[i] = a[i]
  BY <1>1, <1>2, AppendProperties
<1> HIDE DEF c
<1>5. c[1] = a[1] /\ Len(c) >= 1 /\ Len(c) # 1
  BY <1>1, <1>4
<1>6. SubSeq(c, 1, Len(a)) = a
  <2> DEFINE s == SubSeq(c, 1, Len(a))
             l == Len(a)
  <2>1. \A i \in 1 .. l : c[i] \in Nat
    BY <1>1, <1>4, ElementOfSeq
  <2>2. /\ s \in Seq(Nat) /\ Len(s) = IF 1 <= l THEN l - 1 + 1 ELSE 0
        /\ \A i \in 1 .. l - 1 + 1 : s[i] = c[1 + i - 1]
    <3>1. l \in Int /\ 1 \in Int
      BY <1>1
    <3> QED BY <2>1, <3>1, SubSeqProperties
  <2>3. l \in Nat /\ l >= 1 /\ \A i \in 1 .. l : c[i] = a[i]
    BY <1>1, <1>4
  <2>4. Len(a) = l
    OBVIOUS
  <2> HIDE DEF s, l
  <2>5. Len(s) = l /\ \A i \in 1 .. l : s[i] = a[i]
    <3>1. ASSUME NEW i \in 1 .. l PROVE s[i] = a[i]
      <4>1. i \in 1 .. l - 1 + 1 /\ 1 + i - 1 = i
        BY <2>3
      <4> QED BY <2>2, <2>3, <4>1
    <3> QED BY <2>2, <2>3, <3>1
  <2>6. s = a
    BY <1>1, <2>2, <2>4, <2>5, SeqEqual
  <2> QED BY <2>6 DEF s
<1>7. GrownBy(c, node)
  BY <1>3, TreePut
<1>8. Roots' = Roots
  <2>1. \A b \in DOMAIN forest' : Len(b) = 1 <=> b \in DOMAIN forest /\ Len(b) = 1
    BY <1>5, <1>7 DEF GrownBy
  <2>2. DOMAIN forest \subseteq DOMAIN forest'
    BY <1>7 DEF GrownBy
  <2> QED BY <2>1, <2>2 DEF Roots
<1>9. PathsInv'
  <2>1. IsFiniteSet(DOMAIN forest')
    BY <1>7, FS_AddElement DEF PathsInv, GrownBy
  <2>2. Roots' = {<<k>> : k \in 1 .. Cardinality(Roots')}
    BY <1>8 DEF PathsInv
  <2>3. ASSUME NEW b \in DOMAIN forest'
        PROVE  /\ b \in Seq(Nat) /\ Len(b) >= 1 /\ <<b[1]>> \in DOMAIN forest'
               /\ forest'[b] \in Node
    <3>1. CASE b = c
      <4>1. <<a[1]>> \in DOMAIN forest'
        BY <1>7 DEF PathsInv, GrownBy
      <4> QED BY <1>4, <1>5, <1>7, <3>1, <4>1 DEF GrownBy
    <3>2. CASE b # c
      <4>1. b \in DOMAIN forest /\ forest'[b] = forest[b] /\ DOMAIN forest \subseteq DOMAIN forest'
        BY <1>7, <3>2 DEF GrownBy
      <4> QED BY <4>1 DEF PathsInv
    <3> QED BY <3>1, <3>2
  <2> QED BY <2>1, <2>2, <2>3 DEF PathsInv
<1> QED BY <1>4, <1>5, <1>6, <1>7, <1>8, <1>9

-----------------------------------------------------------------------------
(* Where a change goes                                                     *)

\* The recursive search finds a node of the process.
LEMMA FirstNode ==
  ASSUME PathsInv, NodesInv, NEW p \in Proc, NodesOf(p) # {}
  PROVE  FirstOf(NodesOf(p)) \in NodesOf(p)
<1> PICK a \in NodesOf(p) : TRUE
  OBVIOUS
<1>1. ASSUME NEW x \in NodesOf(p) PROVE x \in Seq(Nat) /\ Len(x) >= 1
  BY DEF NodesOf, PathsInv
<1>2. CASE \A b \in NodesOf(p) : a = b
  BY <1>2, FirstIsChosen
<1>3. CASE \E b \in NodesOf(p) : a # b
  <2>1. PICK b \in NodesOf(p) : a # b
    BY <1>3
  <2>2. \A c \in NodesOf(p) : c = a \/ c = b
    BY <2>1 DEF NodesInv
  <2>3. Len(a) = 1 \/ Len(b) = 1
    BY <2>1 DEF NodesInv
  <2>4. Before(a, b) \/ Before(b, a)
    BY <1>1, <2>1, <2>3, RootsCompare
  <2>5. \E x \in NodesOf(p) : \A y \in NodesOf(p) : x = y \/ Before(x, y)
    BY <2>2, <2>4
  <2> QED BY <2>5, FirstIsChosen
<1> QED BY <1>2, <1>3

\* What has become of the nodes and the event after a step of the handler.
LEMMA NodeAdded ==
  ASSUME AttributionInv, NEW e \in inFlight, NEW r \in Seq(Nat), NEW node \in Node,
         inFlight' = inFlight \ {e}, UNCHANGED <<mainPid, family, permitted, writes>>,
         node.pid = e.pid, node.parent \in Proc => family[node.parent] = family[e.pid],
         GrownBy(r, node), PathsInv', Roots \subseteq Roots', r \notin Roots,
         Len(r) > 1 => SubSeq(r, 1, Len(r) - 1) \in DOMAIN forest,
         \A a \in DOMAIN forest : a[1] = r[1] => family[forest[a].pid] = family[e.pid],
         \A u \in BulkUrl : e.pid = mainPid[u] => Len(r) = 1,
         e.type = "process" \/ (NodesOf(e.pid) = {} /\ Len(r) = 1),
         \A u \in BulkUrl : e.type = "process" /\ mainPid[u] # 0
                            /\ (e.pid = mainPid[u] \/ e.parent = mainPid[u])
           => TreesOf(mainPid[u])' # {}
  PROVE  AttributionInv'
<1> USE DEF AttributionInv
<1>1. e.pid \in Proc /\ family[e.pid] # Unstarted
  BY DEF AttributionTypes, InFlightInv, ProcessEvent, ObjectEvent
<1>2. ASSUME NEW a \in DOMAIN forest', a # r
      PROVE  a \in DOMAIN forest /\ forest'[a] = forest[a]
  BY <1>2 DEF GrownBy
<1>3. r \in DOMAIN forest' /\ forest'[r] = node /\ DOMAIN forest \subseteq DOMAIN forest'
  BY DEF GrownBy
<1>4. AttributionTypes'
  BY DEF AttributionTypes
<1>5. AttributionTypeOK'
  <2>1. ASSUME NEW a \in DOMAIN forest'
        PROVE  /\ Len(a) > 1 => SubSeq(a, 1, Len(a) - 1) \in DOMAIN forest'
               /\ forest'[a].pid \in Proc
    <3>1. CASE a = r
      BY <1>1, <1>3, <3>1
    <3>2. CASE a # r
      BY <1>2, <1>3, <3>2 DEF AttributionTypeOK
    <3> QED BY <3>1, <3>2
  <2>2. (family \in [Proc -> BulkUrl \cup {Unstarted}])'
    BY DEF AttributionTypes
  <2> QED BY <2>1, <2>2 DEF AttributionTypeOK
<1>6. BrowserInv'
  BY DEF BrowserInv
<1>7. InFlightInv'
  BY DEF InFlightInv
<1>8. TreesInv'
  <2>1. ASSUME NEW a \in DOMAIN forest'
        PROVE  /\ family[forest'[a].pid] # Unstarted
               /\ forest'[a].parent \in Proc =>
                    family[forest'[a].parent] = family[forest'[a].pid]
               /\ \A u \in BulkUrl : forest'[a].pid = mainPid[u] => Len(a) = 1
    <3>1. CASE a = r
      BY <1>1, <1>3, <3>1
    <3>2. CASE a # r
      BY <1>2, <3>2 DEF TreesInv
    <3> QED BY <3>1, <3>2
  <2>2. ASSUME NEW a \in DOMAIN forest', NEW b \in DOMAIN forest', a[1] = b[1]
        PROVE  family[forest'[a].pid] = family[forest'[b].pid]
    <3>1. CASE a = r /\ b = r
      BY <3>1
    <3>2. CASE a = r /\ b # r
      BY <1>2, <1>3, <2>2, <3>2
    <3>3. CASE a # r /\ b = r
      BY <1>2, <1>3, <2>2, <3>3
    <3>4. CASE a # r /\ b # r
      BY <1>2, <2>2, <3>4 DEF TreesInv
    <3> QED BY <3>1, <3>2, <3>3, <3>4
  <2> QED BY <2>1, <2>2 DEF TreesInv
<1>9. NodesInv'
  <2> SUFFICES ASSUME NEW p \in Proc
               PROVE  /\ \A a, b, c \in NodesOf(p)' : a = b \/ a = c \/ b = c
                      /\ \A a, b \in NodesOf(p)' : a = b \/ Len(a) = 1 \/ Len(b) = 1
                      /\ \A d \in inFlight' : d.type = "process" /\ d.pid = p =>
                           \A a, b \in NodesOf(p)' : a = b /\ Len(a) = 1
    BY DEF NodesInv
  <2>1. CASE p # e.pid
    <3>1. NodesOf(p)' \subseteq NodesOf(p)
      BY <1>2, <1>3, <2>1 DEF NodesOf
    <3> QED BY <3>1 DEF NodesInv
  <2>2. CASE p = e.pid
    <3>1. NodesOf(p)' \subseteq NodesOf(p) \cup {r}
      BY <1>2 DEF NodesOf
    <3>2. CASE e.type = "process"
      <4>1. \A a, b \in NodesOf(p) : a = b /\ Len(a) = 1
        BY <2>2, <3>2 DEF NodesInv
      <4>2. \A d \in inFlight' : ~(d.type = "process" /\ d.pid = p)
        BY <2>2, <3>2 DEF InFlightInv
      <4> QED BY <3>1, <4>1, <4>2
    <3>3. CASE NodesOf(e.pid) = {} /\ Len(r) = 1
      <4>1. \A a \in NodesOf(p)' : a = r
        BY <2>2, <3>1, <3>3
      <4> QED BY <3>3, <4>1
    <3> QED BY <3>2, <3>3
  <2> QED BY <2>1, <2>2
<1>10. HeardInv'
  <2> SUFFICES ASSUME NEW u \in BulkUrl, mainPid[u] # 0,
                      \A p \in permitted : family[p] = u => p = mainPid[u],
                      \/ mainPid[u] \notin permitted
                      \/ \E p \in Proc : p # mainPid[u] /\ family[p] = u
               PROVE  Heard(mainPid[u])'
    BY DEF HeardInv
  <2>1. Heard(mainPid[u])
    BY DEF HeardInv
  <2>2. CASE TreesOf(mainPid[u]) # {}
    <3>1. PICK a \in TreesOf(mainPid[u]) : TRUE
      BY <2>2
    <3>2. a \in Roots /\ (forest[a].pid = mainPid[u] \/ forest[a].parent = mainPid[u])
      BY <3>1 DEF TreesOf
    <3>3. a \in Roots' /\ a # r /\ a \in DOMAIN forest'
      BY <1>3, <3>2 DEF Roots
    <3>4. a \in TreesOf(mainPid[u])'
      BY <1>2, <3>2, <3>3 DEF TreesOf
    <3> QED BY <3>4 DEF Heard
  <2>3. CASE \E d \in inFlight : d.type = "process" /\ (d.pid = mainPid[u] \/ d.parent = mainPid[u])
    <3>1. PICK d \in inFlight : d.type = "process" /\ (d.pid = mainPid[u] \/ d.parent = mainPid[u])
      BY <2>3
    <3>2. CASE d = e
      <4>1. TreesOf(mainPid[u])' # {}
        BY <3>1, <3>2
      <4> QED BY <4>1 DEF Heard
    <3>3. CASE d # e
      <4>1. d \in inFlight' /\ mainPid' = mainPid
        BY <3>3
      <4> QED BY <3>1, <4>1 DEF Heard
    <3> QED BY <3>2, <3>3
  <2> QED BY <2>1, <2>2, <2>3 DEF Heard
<1> QED BY <1>4, <1>5, <1>6, <1>7, <1>8, <1>9, <1>10

-----------------------------------------------------------------------------
(* The steps                                                               *)

LEMMA AttributionStart == AttributionInit => AttributionInv
<1> SUFFICES ASSUME AttributionInit PROVE AttributionInv
  OBVIOUS
<1>1. DOMAIN forest = {} /\ Roots = {}
  BY DEF AttributionInit, Roots
<1>2. Cardinality(Roots) = 0 /\ IsFiniteSet(DOMAIN forest)
  BY <1>1, FS_EmptySet
<1>3. PathsInv
  <2>1. {<<k>> : k \in 1 .. 0} = {}
    OBVIOUS
  <2> QED BY <1>1, <1>2, <2>1 DEF PathsInv
<1>4. AttributionTypes /\ AttributionTypeOK
  BY <1>1 DEF AttributionTypes, AttributionTypeOK, AttributionInit
<1>5. BrowserInv /\ InFlightInv
  BY DEF BrowserInv, InFlightInv, AttributionInit
<1>6. TreesInv /\ NodesInv
  BY <1>1 DEF TreesInv, NodesInv, NodesOf
<1>7. HeardInv
  BY DEF HeardInv, AttributionInit
<1> QED BY <1>3, <1>4, <1>5, <1>6, <1>7 DEF AttributionInv

\* The event of a process goes below a node of its parent, or to a new tree.
LEMMA ProcessAdded ==
  ASSUME AttributionInv, NEW e \in inFlight, AddProcess(e), inFlight' = inFlight \ {e},
         UNCHANGED <<mainPid, family, permitted, writes>>
  PROVE  AttributionInv'
<1> DEFINE node == [pid |-> e.pid, parent |-> e.parent, changes |-> {}]
<1>1. AttributionTypes /\ PathsInv /\ TreesInv /\ NodesInv
  BY DEF AttributionInv
<1>2. e \in ProcessEvent /\ e.type = "process"
  BY <1>1 DEF AttributionTypes, ObjectEvent, AddProcess
<1>3. e.pid \in Proc /\ e.parent \in Proc \cup {CaptureClient} /\ CaptureClient \notin Proc
  BY <1>2, AttributionAssumption DEF ProcessEvent
<1>4. node \in Node /\ node.pid = e.pid /\ node.parent = e.parent
  BY <1>3 DEF Node
<1>5. /\ e.parent \in Proc => family[e.parent] = family[e.pid]
      /\ \A u \in BulkUrl : e.pid = mainPid[u] => e.parent = CaptureClient
  BY <1>2 DEF AttributionInv, InFlightInv
<1>6. forest' = WithTree(IF NodesOf(e.parent) = {} THEN NewRoot
                         ELSE NewChild(FirstOf(NodesOf(e.parent))), node)
  BY DEF AddProcess
<1> HIDE DEF node
<1>7. CASE NodesOf(e.parent) = {}
  <2>1. PICK k \in Nat : LET r == <<k>> IN
           /\ r \notin DOMAIN forest /\ GrownBy(r, node) /\ PathsInv'
           /\ \A a \in DOMAIN forest : a[1] # r[1]
           /\ Roots' = Roots \cup {r}
    BY <1>1, <1>4, <1>6, <1>7, NewTree
  <2> DEFINE r == <<k>>
  <2>2. r \in Seq(Nat) /\ Len(r) = 1 /\ ~(Len(r) > 1)
    BY SingleElement
  <2>3. /\ r \notin DOMAIN forest /\ GrownBy(r, node) /\ PathsInv'
        /\ \A a \in DOMAIN forest : a[1] # r[1]
        /\ Roots' = Roots \cup {r} /\ r \notin Roots
    BY <2>1 DEF Roots
  <2> HIDE DEF r
  <2>4. ASSUME NEW u \in BulkUrl, e.pid = mainPid[u] \/ e.parent = mainPid[u]
        PROVE  TreesOf(mainPid[u])' # {}
    <3>1. r \in Roots' /\ forest'[r] = node
      BY <2>3 DEF GrownBy
    <3>2. r \in TreesOf(mainPid[u])'
      BY <1>4, <2>4, <3>1 DEF TreesOf
    <3> QED BY <3>2
  <2> QED BY <1>2, <1>4, <1>5, <2>2, <2>3, <2>4, NodeAdded
<1>8. CASE NodesOf(e.parent) # {}
  <2> DEFINE a == FirstOf(NodesOf(e.parent))
  <2>1. e.parent \in Proc
    BY <1>1, <1>3, <1>8 DEF NodesOf, PathsInv, Node
  <2>2. a \in NodesOf(e.parent)
    BY <1>1, <1>8, <2>1, FirstNode
  <2> HIDE DEF a
  <2>3. a \in DOMAIN forest /\ forest[a].pid = e.parent /\ Len(a) >= 1 /\ Len(a) \in Nat
    BY <1>1, <2>2, LenProperties DEF NodesOf, PathsInv
  <2>4. forest' = WithTree(NewChild(a), node)
    BY <1>6, <1>8 DEF a
  <2>5. PICK c \in Seq(Nat) :
           /\ Len(c) = Len(a) + 1 /\ c[1] = a[1] /\ SubSeq(c, 1, Len(a)) = a
           /\ GrownBy(c, node) /\ PathsInv' /\ Roots' = Roots
    BY <1>1, <1>4, <2>3, <2>4, NewNode
  <2>6. Len(c) - 1 = Len(a) /\ Len(c) # 1
    BY <2>3, <2>5
  <2>7. c \notin Roots /\ SubSeq(c, 1, Len(c) - 1) \in DOMAIN forest
    BY <2>3, <2>5, <2>6 DEF Roots
  <2>8. ASSUME NEW x \in DOMAIN forest, x[1] = c[1]
        PROVE  family[forest[x].pid] = family[e.pid]
    <3>1. family[forest[x].pid] = family[forest[a].pid]
      BY <1>1, <2>3, <2>5, <2>8 DEF TreesInv
    <3> QED BY <1>5, <2>1, <2>3, <3>1
  <2>9. ASSUME NEW u \in BulkUrl PROVE e.pid # mainPid[u]
    BY <1>3, <1>5, <2>1
  <2>10. ASSUME NEW u \in BulkUrl, e.parent = mainPid[u] PROVE TreesOf(mainPid[u])' # {}
    <3>1. Len(a) = 1
      BY <1>1, <2>3, <2>10 DEF TreesInv
    <3>2. a \in Roots' /\ a # c
      BY <2>3, <2>5, <2>6, <3>1 DEF Roots
    <3>3. forest'[a].pid = mainPid[u]
      BY <2>3, <2>5, <2>10, <3>2 DEF GrownBy
    <3>4. a \in TreesOf(mainPid[u])'
      BY <3>2, <3>3 DEF TreesOf
    <3> QED BY <3>4
  <2>11. GrownBy(c, node) /\ PathsInv' /\ Roots \subseteq Roots'
    BY <2>5
  <2> QED BY <1>2, <1>4, <1>5, <2>7, <2>8, <2>9, <2>10, <2>11, NodeAdded
<1> QED BY <1>7, <1>8

\* The change of an object goes to a node of its process, or to a new tree.
LEMMA ObjectAdded ==
  ASSUME AttributionInv, NEW e \in inFlight, AddObject(e), inFlight' = inFlight \ {e},
         UNCHANGED <<mainPid, family, permitted, writes>>
  PROVE  AttributionInv'
<1> DEFINE a == FirstOf(NodesOf(e.pid))
           node == [pid |-> e.pid, parent |-> 0, changes |-> {e}]
<1>1. AttributionTypes /\ PathsInv /\ TreesInv /\ NodesInv
  BY DEF AttributionInv
<1>2. e \in ObjectEvent /\ e.type = "object"
  BY <1>1 DEF AttributionTypes, ProcessEvent, AddObject
<1>3. e.pid \in Proc
  BY <1>2 DEF ObjectEvent
<1>4. forest' = IF NodesOf(e.pid) = {} THEN WithTree(NewRoot, node)
                ELSE [forest EXCEPT ![a].changes = forest[a].changes \cup {e}]
  BY DEF AddObject
<1>5. node \in Node /\ node.pid = e.pid /\ node.parent = 0
  BY <1>2, <1>3 DEF Node
<1>6. 0 \notin Proc
  BY AttributionAssumption
<1> HIDE DEF a, node
<1>7. CASE NodesOf(e.pid) = {}
  <2>1. PICK k \in Nat : LET r == <<k>> IN
           /\ r \notin DOMAIN forest /\ GrownBy(r, node) /\ PathsInv'
           /\ \A b \in DOMAIN forest : b[1] # r[1]
           /\ Roots' = Roots \cup {r}
    BY <1>1, <1>4, <1>5, <1>7, NewTree
  <2> DEFINE r == <<k>>
  <2>2. r \in Seq(Nat) /\ Len(r) = 1 /\ ~(Len(r) > 1)
    BY SingleElement
  <2>3. /\ r \notin DOMAIN forest /\ GrownBy(r, node) /\ PathsInv'
        /\ \A b \in DOMAIN forest : b[1] # r[1]
        /\ Roots \subseteq Roots' /\ r \notin Roots
    BY <2>1 DEF Roots
  <2> HIDE DEF r
  <2>4. e.type # "process" /\ node.parent \notin Proc
    BY <1>2, <1>5, <1>6
  <2> QED BY <1>5, <1>7, <2>2, <2>3, <2>4, NodeAdded
<1>8. CASE NodesOf(e.pid) # {}
  <2>1. a \in DOMAIN forest
    BY <1>1, <1>3, <1>8, FirstNode DEF a, NodesOf
  <2>2. forest' = [forest EXCEPT ![a].changes = forest[a].changes \cup {e}]
    BY <1>4, <1>8
  <2>3. DOMAIN forest' = DOMAIN forest
    BY <2>2
  <2>4. forest[a] \in Node
    BY <1>1, <2>1 DEF PathsInv
  <2>5. ASSUME NEW x \in DOMAIN forest
        PROVE  /\ forest'[x].pid = forest[x].pid /\ forest'[x].parent = forest[x].parent
               /\ forest'[x] \in Node
    <3>1. CASE x = a
      <4>1. forest'[a] = [forest[a] EXCEPT !.changes = forest[a].changes \cup {e}]
        BY <2>1, <2>2
      <4>2. forest'[a] = [pid |-> forest[a].pid, parent |-> forest[a].parent,
                          changes |-> forest[a].changes \cup {e}]
        BY <2>4, <4>1 DEF Node
      <4>3. forest[a].changes \cup {e} \in SUBSET ObjectEvent
        BY <1>2, <2>4 DEF Node
      <4>4. forest[a].pid \in Proc /\ forest[a].parent \in Proc \cup {0, CaptureClient}
        BY <2>4 DEF Node
      <4> QED BY <3>1, <4>2, <4>3, <4>4 DEF Node
    <3>2. CASE x # a
      <4>1. forest'[x] = forest[x]
        BY <2>2, <3>2
      <4> QED BY <1>1, <4>1 DEF PathsInv
    <3> QED BY <3>1, <3>2
  <2>6. Roots' = Roots /\ \A p : NodesOf(p)' = NodesOf(p) /\ TreesOf(p)' = TreesOf(p)
    <3>1. Roots' = Roots
      BY <2>3 DEF Roots
    <3>2. ASSUME NEW p PROVE NodesOf(p)' = NodesOf(p)
      BY <2>3, <2>5 DEF NodesOf
    <3>3. ASSUME NEW p PROVE TreesOf(p)' = TreesOf(p)
      <4>1. \A x \in Roots : forest'[x].pid = forest[x].pid /\ forest'[x].parent = forest[x].parent
        BY <2>5 DEF Roots
      <4> QED BY <3>1, <4>1 DEF TreesOf
    <3> QED BY <3>1, <3>2, <3>3
  <2>7. PathsInv'
    BY <1>1, <2>3, <2>5, <2>6 DEF PathsInv
  <2>8. TreesInv'
    BY <1>1, <2>3, <2>5 DEF TreesInv
  <2>9. NodesInv'
    BY <1>1, <2>6 DEF NodesInv
  <2>10. AttributionTypes' /\ AttributionTypeOK'
    <3>1. AttributionTypes'
      BY <1>1 DEF AttributionTypes
    <3>2. AttributionTypeOK'
      BY <2>3, <2>5 DEF AttributionInv, AttributionTypeOK
    <3> QED BY <3>1, <3>2
  <2>11. BrowserInv' /\ InFlightInv'
    BY DEF AttributionInv, BrowserInv, InFlightInv
  <2>12. HeardInv'
    <3>1. \A b : Heard(b) => Heard(b)'
      BY <1>2, <2>6 DEF Heard
    <3>2. HeardInv /\ mainPid' = mainPid /\ family' = family /\ permitted' = permitted
      BY DEF AttributionInv
    <3> QED BY <3>1, <3>2 DEF HeardInv
  <2> QED BY <2>7, <2>8, <2>9, <2>10, <2>11, <2>12 DEF AttributionInv
<1> QED BY <1>7, <1>8

\* The forest and what was read from it stay as they are.
LEMMA ForestUntouched ==
  ASSUME forest' = forest
  PROVE  /\ PathsInv => PathsInv'
         /\ \A p : NodesOf(p)' = NodesOf(p) /\ TreesOf(p)' = TreesOf(p)
BY DEF PathsInv, Roots, NodesOf, TreesOf, Node, ObjectEvent

\* A process has begun, of a family that had begun or begins with it.
LEMMA ProcessBegun ==
  ASSUME AttributionInv, NEW p \in Proc, NEW u \in BulkUrl, NEW e \in ProcessEvent,
         family[p] = Unstarted, family' = [family EXCEPT ![p] = u],
         e.pid = p, Report(p, e), UNCHANGED <<permitted, writes, forest>>,
         mainPid' \in [BulkUrl -> Proc \cup {0}],
         \A v \in BulkUrl : v # u => mainPid'[v] = mainPid[v],
         \/ /\ mainPid[u] = 0 /\ mainPid'[u] = p /\ e.parent = CaptureClient
         \/ /\ mainPid[u] # 0 /\ mainPid' = mainPid
            /\ e.parent \in Proc /\ family[e.parent] = u
  PROVE  AttributionInv'
<1>1. AttributionTypes /\ PathsInv /\ TreesInv /\ NodesInv /\ BrowserInv /\ InFlightInv
      /\ AttributionTypeOK /\ HeardInv
  BY DEF AttributionInv
<1>2. /\ family \in [Proc -> BulkUrl \cup {Unstarted}] /\ mainPid \in [BulkUrl -> Proc \cup {0}]
      /\ Unstarted \notin BulkUrl /\ 0 \notin Proc /\ CaptureClient \notin Proc
  BY <1>1, AttributionAssumption DEF AttributionTypes, Unstarted
<1>3. /\ family' \in [Proc -> BulkUrl \cup {Unstarted}] /\ family'[p] = u
      /\ \A q \in Proc : q # p => family'[q] = family[q]
      /\ \A q \in Proc : family[q] # Unstarted => q # p /\ family'[q] = family[q]
  BY <1>2
<1>4. inFlight' \subseteq inFlight \cup {e} /\ (p \notin permitted => e \in inFlight')
      /\ inFlight \subseteq inFlight'
  BY DEF Report
<1>5. e.type = "process" /\ p # 0
  BY <1>2 DEF ProcessEvent
<1>6. ASSUME NEW v \in BulkUrl PROVE mainPid[v] # p
  <2>1. mainPid[v] # 0 => family[mainPid[v]] # Unstarted
    BY <1>1, <1>2 DEF BrowserInv
  <2> QED BY <1>5, <2>1
<1>7. /\ \A a \in DOMAIN forest : forest[a].pid \in Proc /\ forest[a].pid # p
      /\ \A a \in DOMAIN forest : forest[a].parent # p
      /\ \A d \in inFlight : d.pid \in Proc /\ d.pid # p /\ (d.type = "process" => d.parent # p)
  <2>1. ASSUME NEW a \in DOMAIN forest
        PROVE  forest[a].pid \in Proc /\ forest[a].pid # p /\ forest[a].parent # p
    <3>1. forest[a].pid \in Proc
      BY <1>1 DEF PathsInv, Node
    <3>2. /\ family[forest[a].pid] # Unstarted
          /\ forest[a].parent \in Proc => family[forest[a].parent] = family[forest[a].pid]
      BY <1>1 DEF TreesInv
    <3> QED BY <3>1, <3>2
  <2>2. ASSUME NEW d \in inFlight
        PROVE  d.pid \in Proc /\ d.pid # p /\ (d.type = "process" => d.parent # p)
    BY <1>1 DEF InFlightInv, AttributionTypes, ProcessEvent, ObjectEvent
  <2> QED BY <2>1, <2>2
<1>8. PathsInv' /\ \A b : NodesOf(b)' = NodesOf(b) /\ TreesOf(b)' = TreesOf(b)
  BY <1>1, ForestUntouched
<1>9. AttributionTypes' /\ AttributionTypeOK'
  <2>1. inFlight' \subseteq ProcessEvent \cup ObjectEvent
    BY <1>1, <1>4 DEF AttributionTypes
  <2>2. AttributionTypes'
    BY <1>1, <1>3, <2>1 DEF AttributionTypes, ProcessEvent, ObjectEvent
  <2>3. AttributionTypeOK'
    BY <1>1, <1>3 DEF AttributionTypeOK
  <2> QED BY <2>2, <2>3
<1>10. BrowserInv'
  <2>1. ASSUME NEW v \in BulkUrl, mainPid'[v] # 0 PROVE family'[mainPid'[v]] = v
    <3>1. CASE mainPid'[v] = p
      <4>1. v = u
        BY <1>6, <3>1
      <4> QED BY <1>3, <3>1, <4>1
    <3>2. CASE mainPid'[v] # p
      <4>1. mainPid'[v] = mainPid[v]
        BY <3>2
      <4>2. mainPid[v] \in Proc /\ family[mainPid[v]] = v
        BY <1>1, <1>2, <2>1, <4>1 DEF BrowserInv
      <4> QED BY <1>2, <1>3, <4>1, <4>2
    <3> QED BY <3>1, <3>2
  <2>2. ASSUME NEW q \in Proc, family'[q] # Unstarted PROVE mainPid'[family'[q]] # 0
    <3>1. mainPid'[u] # 0
      BY <1>5
    <3>2. CASE family'[q] = u
      BY <3>1, <3>2
    <3>3. CASE family'[q] # u
      <4>1. q # p /\ family'[q] = family[q]
        BY <1>3, <3>3
      <4>2. family[q] \in BulkUrl
        BY <1>2, <2>2, <4>1
      <4> QED BY <1>1, <2>2, <3>3, <4>1, <4>2 DEF BrowserInv
    <3> QED BY <3>2, <3>3
  <2> QED BY <2>1, <2>2 DEF BrowserInv
<1>11. InFlightInv'
  <2> SUFFICES ASSUME NEW d \in inFlight'
               PROVE  /\ family'[d.pid] # Unstarted
                      /\ d.type = "process" =>
                           /\ d.parent \in Proc => family'[d.parent] = family'[d.pid]
                           /\ \A v \in BulkUrl : d.pid = mainPid'[v] => d.parent = CaptureClient
                           /\ \A f \in inFlight' : f.type = "process" /\ f.pid = d.pid => f = d
    BY DEF InFlightInv
  <2>1. CASE d = e
    <3>1. family'[d.pid] # Unstarted
      BY <1>2, <1>3, <2>1
    <3>2. d.parent \in Proc => family'[d.parent] = family'[d.pid]
      BY <1>2, <1>3, <2>1
    <3>3. \A v \in BulkUrl : d.pid = mainPid'[v] => d.parent = CaptureClient
      BY <1>6, <2>1
    <3>4. \A f \in inFlight' : f.type = "process" /\ f.pid = d.pid => f = d
      BY <1>4, <1>7, <2>1
    <3> QED BY <3>1, <3>2, <3>3, <3>4
  <2>2. CASE d # e
    <3>1. d \in inFlight /\ d.pid \in Proc /\ d.pid # p /\ family'[d.pid] = family[d.pid]
      BY <1>3, <1>4, <1>7, <2>2
    <3>2. family'[d.pid] # Unstarted
      BY <1>1, <3>1 DEF InFlightInv
    <3>3. ASSUME d.type = "process", d.parent \in Proc PROVE family'[d.parent] = family'[d.pid]
      <4>1. d.parent # p /\ family'[d.parent] = family[d.parent]
        BY <1>3, <1>7, <3>1, <3>3
      <4> QED BY <1>1, <3>1, <3>3, <4>1 DEF InFlightInv
    <3>4. ASSUME d.type = "process", NEW v \in BulkUrl, d.pid = mainPid'[v]
          PROVE  d.parent = CaptureClient
      <4>1. mainPid'[v] = mainPid[v]
        BY <3>1, <3>4
      <4> QED BY <1>1, <3>1, <3>4, <4>1 DEF InFlightInv
    <3>5. ASSUME d.type = "process", NEW f \in inFlight', f.type = "process", f.pid = d.pid
          PROVE  f = d
      <4>1. f # e /\ f \in inFlight
        BY <1>4, <3>1, <3>5
      <4> QED BY <1>1, <3>1, <3>5, <4>1 DEF InFlightInv
    <3> QED BY <3>2, <3>3, <3>4, <3>5
  <2> QED BY <2>1, <2>2
<1>12. TreesInv'
  <2>1. ASSUME NEW a \in DOMAIN forest
        PROVE  /\ family'[forest[a].pid] = family[forest[a].pid]
               /\ family'[forest[a].pid] # Unstarted
               /\ forest[a].parent \in Proc => family'[forest[a].parent] = family'[forest[a].pid]
               /\ \A v \in BulkUrl : forest[a].pid = mainPid'[v] => Len(a) = 1
    <3>1. /\ family'[forest[a].pid] = family[forest[a].pid]
          /\ forest[a].parent \in Proc => family'[forest[a].parent] = family[forest[a].parent]
      BY <1>3, <1>7
    <3>2. \A v \in BulkUrl : forest[a].pid = mainPid'[v] => forest[a].pid = mainPid[v]
      BY <1>7
    <3> QED BY <1>1, <3>1, <3>2 DEF TreesInv
  <2> QED BY <1>1, <2>1 DEF TreesInv
<1>13. NodesInv'
  <2> SUFFICES ASSUME NEW q \in Proc
               PROVE  /\ \A a, b, c \in NodesOf(q) : a = b \/ a = c \/ b = c
                      /\ \A a, b \in NodesOf(q) : a = b \/ Len(a) = 1 \/ Len(b) = 1
                      /\ \A d \in inFlight' : d.type = "process" /\ d.pid = q =>
                           \A a, b \in NodesOf(q) : a = b /\ Len(a) = 1
    BY <1>8 DEF NodesInv
  <2>1. CASE q = p
    <3>1. NodesOf(q) = {}
      BY <1>7, <2>1 DEF NodesOf
    <3> QED BY <3>1
  <2>2. CASE q # p
    <3>1. \A d \in inFlight' : d.pid = q => d \in inFlight
      BY <1>4, <2>2
    <3> QED BY <1>1, <3>1 DEF NodesInv
  <2> QED BY <2>1, <2>2
<1>14. HeardInv'
  <2>1. ASSUME NEW b, Heard(b) PROVE Heard(b)'
    BY <1>4, <1>8, <2>1 DEF Heard
  <2>2. ASSUME e \in inFlight', NEW b, e.pid = b \/ e.parent = b PROVE Heard(b)'
    BY <1>5, <2>2 DEF Heard
  <2> SUFFICES ASSUME NEW v \in BulkUrl, mainPid'[v] # 0,
                      \A q \in permitted : family'[q] = v => q = mainPid'[v],
                      \/ mainPid'[v] \notin permitted
                      \/ \E q \in Proc : q # mainPid'[v] /\ family'[q] = v
               PROVE  Heard(mainPid[v])'
    BY DEF HeardInv
  <2>3. ASSUME v = u, mainPid[u] = 0, mainPid'[u] = p PROVE Heard(mainPid[v])'
    <3>1. ~ \E q \in Proc : q # p /\ family'[q] = u
      BY <1>1, <1>2, <1>3, <2>3 DEF BrowserInv
    <3>2. p \notin permitted
      BY <2>3, <3>1
    <3> QED BY <1>4, <2>2, <2>3, <3>2
  <2>4. ASSUME mainPid'[v] = mainPid[v], v = u => e.parent \in Proc /\ family[e.parent] = u
        PROVE  Heard(mainPid[v])'
    <3>1. \A q \in permitted : family[q] = v => q = mainPid[v]
      <4>1. \A q \in permitted : family[q] = v => family'[q] = v
        BY <1>1, <1>2, <1>3 DEF AttributionTypes, Unstarted
      <4> QED BY <2>4, <4>1
    <3>2. CASE mainPid[v] \notin permitted \/ \E q \in Proc : q # mainPid[v] /\ family[q] = v
      BY <1>1, <2>1, <2>4, <3>1, <3>2 DEF HeardInv
    <3>3. CASE mainPid[v] \in permitted /\ \A q \in Proc : q # mainPid[v] => family[q] # v
      <4>1. PICK q \in Proc : q # mainPid'[v] /\ family'[q] = v
        BY <2>4, <3>3
      <4>2. q = p /\ v = u
        BY <1>3, <2>4, <3>3, <4>1
      <4>3. e.parent = mainPid[v]
        BY <2>4, <3>3, <4>2
      <4>4. p \notin permitted
        BY <4>1, <4>2
      <4> QED BY <1>4, <2>2, <2>4, <4>3, <4>4
    <3> QED BY <3>2, <3>3
  <2> QED BY <2>3, <2>4
<1> QED BY <1>8, <1>9, <1>10, <1>11, <1>12, <1>13, <1>14 DEF AttributionInv

LEMMA BrowserStarted ==
  ASSUME AttributionInv, NEW u \in BulkUrl, NEW p \in Proc, StartBrowser(u, p)
  PROVE  AttributionInv'
<1> DEFINE e == [type |-> "process", pid |-> p, parent |-> CaptureClient]
<1>1. mainPid \in [BulkUrl -> Proc \cup {0}]
  BY DEF AttributionInv, AttributionTypes
<1>2. /\ mainPid[u] = 0 /\ family[p] = Unstarted /\ mainPid' = [mainPid EXCEPT ![u] = p]
      /\ family' = [family EXCEPT ![p] = u] /\ Report(p, e)
      /\ UNCHANGED <<permitted, writes, forest>>
  BY DEF StartBrowser
<1>3. e \in ProcessEvent /\ e.pid = p /\ e.parent = CaptureClient
  BY DEF ProcessEvent
<1>4. mainPid' \in [BulkUrl -> Proc \cup {0}] /\ mainPid'[u] = p
      /\ \A v \in BulkUrl : v # u => mainPid'[v] = mainPid[v]
  BY <1>1, <1>2
<1> HIDE DEF e
<1> QED BY <1>2, <1>3, <1>4, ProcessBegun

LEMMA ProcessSpawned ==
  ASSUME AttributionInv, NEW q \in Proc, NEW p \in Proc, Spawn(q, p)
  PROVE  AttributionInv'
<1> DEFINE e == [type |-> "process", pid |-> p, parent |-> q]
           u == family[q]
<1>1. /\ mainPid \in [BulkUrl -> Proc \cup {0}]
      /\ family \in [Proc -> BulkUrl \cup {Unstarted}]
      /\ \A x \in Proc : family[x] # Unstarted => mainPid[family[x]] # 0
  BY DEF AttributionInv, AttributionTypes, BrowserInv
<1>2. /\ u # Unstarted /\ family[p] = Unstarted
      /\ family' = [family EXCEPT ![p] = u] /\ Report(p, e)
      /\ mainPid' = mainPid /\ UNCHANGED <<permitted, writes, forest>>
  BY DEF Spawn
<1>3. e \in ProcessEvent /\ e.pid = p /\ e.parent = q
  BY DEF ProcessEvent
<1>4. u \in BulkUrl /\ mainPid[u] # 0 /\ mainPid' \in [BulkUrl -> Proc \cup {0}]
  BY <1>1, <1>2
<1>5. e.parent \in Proc /\ family[e.parent] = u
  BY <1>3
<1> HIDE DEF e, u
<1> QED BY <1>2, <1>3, <1>4, <1>5, ProcessBegun

LEMMA ObjectWritten ==
  ASSUME AttributionInv, NEW p \in Proc, Write(p)
  PROVE  AttributionInv'
<1> DEFINE e == [type |-> "object", pid |-> p, n |-> writes]
<1>1. AttributionTypes /\ PathsInv /\ TreesInv /\ NodesInv /\ BrowserInv /\ InFlightInv
      /\ AttributionTypeOK /\ HeardInv
  BY DEF AttributionInv
<1>2. /\ family[p] # Unstarted /\ writes' = writes + 1 /\ inFlight' = inFlight \cup {e}
      /\ UNCHANGED <<mainPid, family, permitted, forest>>
  BY DEF Write
<1>3. e \in ObjectEvent /\ e.type # "process" /\ e.pid = p
  BY <1>1 DEF ObjectEvent, AttributionTypes
<1> HIDE DEF e
<1>4. PathsInv' /\ \A b : NodesOf(b)' = NodesOf(b) /\ TreesOf(b)' = TreesOf(b)
  BY <1>1, <1>2, ForestUntouched
<1>5. AttributionTypes' /\ AttributionTypeOK'
  BY <1>1, <1>2, <1>3
  DEF AttributionTypes, AttributionTypeOK, ProcessEvent, ObjectEvent
<1>6. BrowserInv' /\ TreesInv'
  BY <1>1, <1>2 DEF BrowserInv, TreesInv
<1>7. InFlightInv'
  BY <1>1, <1>2, <1>3 DEF InFlightInv
<1>8. NodesInv'
  BY <1>1, <1>2, <1>3, <1>4 DEF NodesInv
<1>9. HeardInv'
  <2>1. ASSUME NEW b, Heard(b) PROVE Heard(b)'
    BY <1>2, <1>4, <2>1 DEF Heard
  <2> QED BY <1>1, <1>2, <2>1 DEF HeardInv
<1> QED BY <1>4, <1>5, <1>6, <1>7, <1>8, <1>9 DEF AttributionInv

LEMMA AttributionStep == AttributionInv /\ [AttributionNext]_attributionVars => AttributionInv'
<1> SUFFICES ASSUME AttributionInv, [AttributionNext]_attributionVars PROVE AttributionInv'
  OBVIOUS
<1>1. ASSUME NEW u \in BulkUrl, NEW p \in Proc, StartBrowser(u, p) PROVE AttributionInv'
  BY <1>1, BrowserStarted
<1>2. ASSUME NEW q \in Proc, NEW p \in Proc, Spawn(q, p) PROVE AttributionInv'
  BY <1>2, ProcessSpawned
<1>3. ASSUME NEW p \in Proc, Write(p) PROVE AttributionInv'
  BY <1>3, ObjectWritten
<1>4. ASSUME NEW e \in inFlight, AddStateChange(e) PROVE AttributionInv'
  BY <1>4, ProcessAdded, ObjectAdded DEF AddStateChange
<1>5. CASE UNCHANGED attributionVars
  <2>1. /\ mainPid' = mainPid /\ family' = family /\ permitted' = permitted
        /\ inFlight' = inFlight /\ writes' = writes /\ forest' = forest
    BY <1>5 DEF attributionVars
  <2>2. PathsInv' /\ \A b : NodesOf(b)' = NodesOf(b) /\ TreesOf(b)' = TreesOf(b)
    BY <2>1, ForestUntouched DEF AttributionInv
  <2>3. \A b : Heard(b) => Heard(b)'
    BY <2>1, <2>2 DEF Heard
  <2>4. AttributionTypes' /\ AttributionTypeOK' /\ BrowserInv' /\ InFlightInv' /\ TreesInv'
    BY <2>1 DEF AttributionInv, AttributionTypes, AttributionTypeOK, BrowserInv, InFlightInv,
                TreesInv, ProcessEvent, ObjectEvent
  <2>5. NodesInv' /\ HeardInv'
    BY <2>1, <2>2, <2>3 DEF AttributionInv, NodesInv, HeardInv
  <2> QED BY <2>2, <2>4, <2>5 DEF AttributionInv
<1> QED BY <1>1, <1>2, <1>3, <1>4, <1>5 DEF AttributionNext

\* A tree of a browser's process, or of its child, has only nodes of its URL.
LEMMA BlameFollows ==
  ASSUME AttributionInv
  PROVE  BlameIsRight
<1>1. AttributionTypes /\ PathsInv /\ TreesInv /\ BrowserInv /\ HeardInv
  BY DEF AttributionInv
<1> SUFFICES ASSUME NEW u \in BulkUrl, NEW b, b = mainPid[u], b # 0
             PROVE  /\ \A a \in Blamed(b) : family[forest[a].pid] = u
                    /\ inFlight = {} /\ (\E a \in DOMAIN forest : family[forest[a].pid] = u)
                       /\ (\A p \in permitted : family[p] = u => p = b)
                       => Blamed(b) # {}
  BY DEF BlameIsRight
<1>2. b \in Proc /\ family[b] = u
  BY <1>1 DEF AttributionTypes, BrowserInv
<1>3. ASSUME TreesOf(b) # {}
      PROVE  FirstOf(TreesOf(b)) \in TreesOf(b)
  <2>1. Cardinality(Roots) \in Nat
    <3>1. Roots \in SUBSET DOMAIN forest
      BY DEF Roots
    <3>2. IsFiniteSet(Roots)
      BY <1>1, <3>1, FS_Subset DEF PathsInv
    <3> QED BY <3>2, FS_CardinalityType
  <2>2. \A a \in TreesOf(b) : \E k \in 1 .. Cardinality(Roots) : a = <<k>>
    BY <1>1 DEF TreesOf, PathsInv
  <2> QED BY <1>3, <2>1, <2>2, FirstRoot
<1>4. ASSUME NEW a \in Blamed(b) PROVE family[forest[a].pid] = u
  <2>1. TreesOf(b) # {}
    BY <1>4 DEF Blamed
  <2> DEFINE r == FirstOf(TreesOf(b))
  <2>2. r \in TreesOf(b) /\ a \in DOMAIN forest /\ a[1] = r[1]
    BY <1>3, <1>4, <2>1 DEF Blamed
  <2> HIDE DEF r
  <2>3. r \in DOMAIN forest /\ (forest[r].pid = b \/ forest[r].parent = b)
    BY <2>2 DEF TreesOf, Roots
  <2>4. family[forest[r].pid] = u
    BY <1>1, <1>2, <2>3 DEF TreesInv
  <2> QED BY <1>1, <2>2, <2>3, <2>4 DEF TreesInv
<1>5. ASSUME inFlight = {}, NEW a \in DOMAIN forest, family[forest[a].pid] = u,
             \A p \in permitted : family[p] = u => p = b
      PROVE  Blamed(b) # {}
  <2>1. TreesOf(b) # {}
    <3>1. CASE forest[a].pid = b
      <4>1. Len(a) = 1
        BY <1>1, <3>1 DEF TreesInv
      <4>2. a \in TreesOf(b)
        BY <3>1, <4>1 DEF TreesOf, Roots
      <4> QED BY <4>2
    <3>2. CASE forest[a].pid # b
      <4>1. forest[a].pid \in Proc
        BY <1>1 DEF PathsInv, Node
      <4>2. Heard(b)
        BY <1>1, <1>5, <3>2, <4>1 DEF HeardInv
      <4> QED BY <1>5, <4>2 DEF Heard
    <3> QED BY <3>1, <3>2
  <2>2. FirstOf(TreesOf(b)) \in DOMAIN forest
    BY <1>3, <2>1 DEF TreesOf, Roots
  <2> QED BY <2>1, <2>2 DEF Blamed
<1> QED BY <1>4, <1>5

\* The processes, their events and the trees the handler builds of them
\* agree (AttributionInv), in whatever order the events arrive.
THEOREM AttributionInvariance == AttributionSpec => []AttributionInv
BY AttributionStart, AttributionStep, PTL DEF AttributionSpec

\* For any URLs and processes, in any order of the events, the handler
\* (StateChangeHandler) blames a URL for changes of its own processes only,
\* and passes over no URL whose processes it knows.
THEOREM BlameIsAlwaysRight == AttributionSpec => []BlameIsRight
BY AttributionInvariance, BlameFollows, PTL

\* Type correctness of the processes of a visit and their trees.
THEOREM AttributionTypeCorrect == AttributionSpec => []AttributionTypeOK
<1>1. AttributionInv => AttributionTypeOK
  BY DEF AttributionInv
<1> QED BY <1>1, AttributionInvariance, PTL
-----------------------------------------------------------------------------
(***************************************************************************)
(* Notifications (ClientLocks), for every number of clients, machines,     *)
(* groups and reverts: a retriever that sleeps while its client waits for  *)
(* a group is about to be notified.  Only the receiver thread of a client  *)
(* sets it WAITING, and the notification it owes is next on its stack but  *)
(* for one call; nobody notifies while the retriever is inside its monitor.*)
(***************************************************************************)

\* What any thread may have on its stack.
PlainCall ==
  {Leave(VmLock(v)) : v \in Machine}
    \cup {SetVmState(v, s) : v \in Machine, s \in {"RUNNING", "WAITING_TO_BE_REVERTED"}}
    \cup {SetClientState(c, s) : c \in Client, s \in ClientStates \ {"NEW"}}
    \cup {Call(n, c) : n \in {"disconnect", "testGroup", "useGroup", "send", "notifyAll",
                              "notifyPinger"}, c \in Client}
    \cup {Call(n, v) : n \in {"notifyVm", "reverted"}, v \in Machine}
    \cup {Call("dead", NoOne)}

\* What only the retriever of client c has.
InsideCall(c) == {Call(n, c) : n \in {"take", "sendVisit", "overwrite"}}
OwnCall(c) == InsideCall(c) \cup {Call("awake", c), Call("wait", c)}
AnyCall == PlainCall \cup UNION {OwnCall(c) : c \in Client}

StackInv ==
  /\ calls \in [Threads -> Seq(AnyCall)]
  /\ \A t \in Threads : \A i \in DOMAIN calls[t] :
       /\ \A c \in Client : calls[t][i] \in OwnCall(c) => t = Retriever(c)
       /\ \A c \in Client : calls[t][i] = SetClientState(c, "WAITING") => t = Receiver(c)

\* The stacks of a retriever: about to look, or inside its monitor with the
\* wait to come.
RetrieverInv == \A c \in Client : LET q == calls[Retriever(c)] IN
  /\ \A i \in DOMAIN q :
       /\ q[i] = Call("wait", c) => i = Len(q)
       /\ q[i] = Call("awake", c) => i = 1 /\ Len(q) = 1
       /\ q[i] \in InsideCall(c) => i = 1 /\ Len(q) = 2 /\ q[2] = Call("wait", c)
  /\ c \in asleep => q = <<Call("awake", c)>>
  /\ clientState[c] = "NEW" => q = <<>>

Inside(c) == LET q == calls[Retriever(c)] IN q # <<>> /\ q[Len(q)] = Call("wait", c)

MonitorInv == \A c \in Client :
  /\ owner[RetrieverLock(c)].depth = IF Inside(c) THEN 1 ELSE 0
  /\ Inside(c) => owner[RetrieverLock(c)].by = Retriever(c)

\* A retriever that is to wait without a look at the state it has now.
Leaving(c) == LET q == calls[Retriever(c)] IN
  /\ Inside(c) /\ q[1] \notin InsideCall(c)
  /\ ~(Len(q) = 2 /\ q[1] = SetClientState(c, "DISCONNECTED"))

Noticed(c) == LET q == calls[Receiver(c)] IN
  /\ q # <<>>
  /\ \/ q[1] = Call("notifyAll", c)
     \/ /\ Len(q) > 1 /\ q[2] = Call("notifyAll", c)
        /\ \E v \in Machine : q[1] = SetVmState(v, "RUNNING") \/ q[1] = Call("notifyVm", v)

NoticeInv == \A c \in Client :
  clientState[c] = "WAITING" /\ (c \in asleep \/ Leaving(c)) => Noticed(c)

LocksInv ==
  /\ LocksTypeOK /\ machineOf \in [Client -> Machine]
  /\ owner \in [Locks -> [by : Threads \cup {NoOne}, depth : Int]]
  /\ StackInv /\ RetrieverInv /\ MonitorInv /\ NoticeInv

LEMMA ThreadsDiffer ==
  /\ Checker \in Threads /\ Pinger \in Threads
  /\ \A v \in Machine : Worker(v) \in Threads
  /\ \A c \in Client :
       /\ Receiver(c) \in Threads /\ Retriever(c) \in Threads
       /\ Retriever(c) # Checker /\ Retriever(c) # Pinger
       /\ Receiver(c) # Checker /\ Receiver(c) # Pinger
       /\ \A v \in Machine : Retriever(c) # Worker(v) /\ Receiver(c) # Worker(v)
       /\ \A d \in Client :
            /\ Retriever(c) # Receiver(d)
            /\ Retriever(c) = Retriever(d) => c = d
            /\ Receiver(c) = Receiver(d) => c = d
<1>1. /\ Checker[1] = "checker" /\ Pinger[1] = "pinger"
      /\ \A v \in Machine : Worker(v)[1] = "worker"
      /\ \A c \in Client : /\ Receiver(c)[1] = "receiver" /\ Receiver(c)[2] = c
                           /\ Retriever(c)[1] = "retriever" /\ Retriever(c)[2] = c
  BY DEF Checker, Pinger, Worker, Receiver, Retriever
<1>2. /\ Checker \in Threads /\ Pinger \in Threads
      /\ \A v \in Machine : Worker(v) \in Threads
      /\ \A c \in Client : Receiver(c) \in Threads /\ Retriever(c) \in Threads
  BY DEF Threads
<1> QED BY <1>1, <1>2

LEMMA LocksDiffer ==
  ASSUME NEW c \in Client
  PROVE  /\ RetrieverLock(c) \in Locks
         /\ \A v : RetrieverLock(c) # VmLock(v)
         /\ \A d : RetrieverLock(c) # ClientLock(d)
         /\ \A d : RetrieverLock(c) = RetrieverLock(d) => c = d
<1>1. RetrieverLock(c)[1] = "urlRetriever" /\ RetrieverLock(c)[2] = c
  BY DEF RetrieverLock
<1>2. \A v : VmLock(v)[1] = "vm" /\ ClientLock(v)[1] = "client" /\ RetrieverLock(v)[2] = v
  BY DEF VmLock, ClientLock, RetrieverLock
<1>3. RetrieverLock(c) \in Locks
  BY DEF Locks
<1> QED BY <1>1, <1>2, <1>3

\* What a call is, from its name.
Names(k) ==
  /\ k[1] = "leave" => \E v \in Machine : k = Leave(VmLock(v))
  /\ k[1] = "VirtualMachine.setState" =>
       \E v \in Machine, s \in {"RUNNING", "WAITING_TO_BE_REVERTED"} : k = SetVmState(v, s)
  /\ k[1] = "setClientState" =>
       \E c \in Client, s \in ClientStates \ {"NEW"} : k = SetClientState(c, s)
  /\ k[1] \in {"notifyVm", "reverted"} => \E v \in Machine : k = Call(k[1], v)
  /\ k[1] \in {"disconnect", "testGroup", "useGroup", "send", "notifyAll", "notifyPinger"} =>
       k \in PlainCall /\ \E c \in Client : k = Call(k[1], c)
  /\ k[1] \in {"leave", "VirtualMachine.setState", "setClientState", "notifyVm", "reverted"} =>
       k \in PlainCall
  /\ k[1] \in {"take", "sendVisit", "overwrite"} => \E c \in Client : k \in InsideCall(c)
  /\ k[1] \in {"take", "sendVisit", "overwrite", "awake", "wait"} =>
       k \notin PlainCall /\ \E c \in Client : k = Call(k[1], c) /\ k \in OwnCall(c)

LEMMA OwnCallsAreNamed ==
  ASSUME NEW c \in Client, NEW k \in OwnCall(c)
  PROVE  /\ k[1] \in {"take", "sendVisit", "overwrite", "awake", "wait"} /\ k[2] = c
         /\ k = Call(k[1], c)
         /\ k[1] \in {"take", "sendVisit", "overwrite"} => k \in InsideCall(c)
<1>1. PICK n \in {"take", "sendVisit", "overwrite", "awake", "wait"} : k = Call(n, c)
  BY DEF OwnCall, InsideCall
<1>2. k[1] = n /\ k[2] = c
  BY <1>1 DEF Call
<1> QED BY <1>1, <1>2 DEF InsideCall

LEMMA PlainCallsAreNamed ==
  ASSUME NEW k \in PlainCall
  PROVE  /\ k[1] \notin {"take", "sendVisit", "overwrite", "awake", "wait"}
         /\ Names(k)
         /\ \A c \in Client : k \notin OwnCall(c)
<1>1. CASE \E v \in Machine : k = Leave(VmLock(v))
  <2>1. k[1] = "leave"
    BY <1>1 DEF Leave
  <2> QED BY <1>1, <2>1, OwnCallsAreNamed DEF Names
<1>2. CASE \E v \in Machine, s \in {"RUNNING", "WAITING_TO_BE_REVERTED"} : k = SetVmState(v, s)
  <2>1. k[1] = "VirtualMachine.setState"
    BY <1>2 DEF SetVmState
  <2> QED BY <1>2, <2>1, OwnCallsAreNamed DEF Names
<1>3. CASE \E c \in Client, s \in ClientStates \ {"NEW"} : k = SetClientState(c, s)
  <2>1. k[1] = "setClientState"
    BY <1>3 DEF SetClientState
  <2> QED BY <1>3, <2>1, OwnCallsAreNamed DEF Names
<1>4. ASSUME NEW n \in {"disconnect", "testGroup", "useGroup", "send", "notifyAll",
                        "notifyPinger"}, NEW c \in Client, k = Call(n, c)
      PROVE  /\ k[1] \notin {"take", "sendVisit", "overwrite", "awake", "wait"}
             /\ Names(k) /\ \A d \in Client : k \notin OwnCall(d)
  <2>1. k[1] = n
    BY <1>4 DEF Call
  <2> QED BY <1>4, <2>1, OwnCallsAreNamed DEF Names
<1>5. ASSUME NEW n \in {"notifyVm", "reverted"}, NEW v \in Machine, k = Call(n, v)
      PROVE  /\ k[1] \notin {"take", "sendVisit", "overwrite", "awake", "wait"}
             /\ Names(k) /\ \A d \in Client : k \notin OwnCall(d)
  <2>1. k[1] = n
    BY <1>5 DEF Call
  <2> QED BY <1>5, <2>1, OwnCallsAreNamed DEF Names
<1>6. CASE k = Call("dead", NoOne)
  <2>1. k[1] = "dead"
    BY <1>6 DEF Call
  <2> QED BY <2>1, OwnCallsAreNamed DEF Names
<1> QED BY <1>1, <1>2, <1>3, <1>4, <1>5, <1>6 DEF PlainCall

LEMMA CallsAreNamed ==
  ASSUME NEW k \in AnyCall
  PROVE  Names(k)
<1>1. CASE k \in PlainCall
  BY <1>1, PlainCallsAreNamed
<1>2. ASSUME NEW c \in Client, k \in OwnCall(c) PROVE Names(k)
  <2>1. k \notin PlainCall
    BY <1>2, PlainCallsAreNamed
  <2> QED BY <1>2, <2>1, OwnCallsAreNamed DEF Names
<1> QED BY <1>1, <1>2 DEF AnyCall

LEMMA Stacked ==
  ASSUME NEW S, NEW q \in Seq(S), q # <<>>, NEW m \in Seq(S), NEW r, r = m \o Tail(q)
  PROVE  /\ r \in Seq(S) /\ Len(q) \in Nat /\ Len(m) \in Nat /\ Len(q) > 0
         /\ Len(r) = Len(m) + Len(q) - 1
         /\ \A i \in 1 .. Len(m) : r[i] = m[i]
         /\ \A i \in Len(m) + 1 .. Len(r) : r[i] = q[i - Len(m) + 1]
         /\ \A i \in Len(m) + 1 .. Len(r) : i - Len(m) + 1 \in 2 .. Len(q)
<1>1. Len(q) \in Nat /\ Len(m) \in Nat /\ Len(q) > 0
  BY EmptySeq, LenProperties
<1>2. Tail(q) \in Seq(S) /\ Len(Tail(q)) = Len(q) - 1
      /\ \A i \in 1 .. Len(Tail(q)) : Tail(q)[i] = q[i + 1]
  BY HeadTailProperties
<1>3. r \in Seq(S) /\ Len(r) = Len(m) + Len(Tail(q))
      /\ \A i \in 1 .. Len(r) : r[i] = IF i <= Len(m) THEN m[i] ELSE Tail(q)[i - Len(m)]
  BY <1>2, ConcatProperties
<1> QED BY <1>1, <1>2, <1>3

\* Calls that do not announce that a client waits.
Quiet(m) == /\ m \in Seq(PlainCall)
            /\ \A i \in DOMAIN m : \A c \in Client : m[i] # SetClientState(c, "WAITING")

\* Nor do these, but for the receiver of that client.
QuietFor(t, m) ==
  /\ m \in Seq(PlainCall)
  /\ \A i \in DOMAIN m : \A c \in Client : m[i] = SetClientState(c, "WAITING") => t = Receiver(c)

LEMMA QuietStacks ==
  ASSUME StackInv, NEW t \in Threads, NEW m, QuietFor(t, m), NEW r,
         calls' = [calls EXCEPT ![t] = r],
         \/ r = m
         \/ calls[t] # <<>> /\ r = m \o Tail(calls[t])
  PROVE  StackInv' /\ calls'[t] = r /\ \A u \in Threads : u # t => calls'[u] = calls[u]
<1>1. m \in Seq(AnyCall) /\ calls[t] \in Seq(AnyCall)
  BY DEF QuietFor, StackInv, AnyCall
<1>2. /\ r \in Seq(AnyCall)
      /\ \A i \in DOMAIN r : (\E j \in DOMAIN m : r[i] = m[j])
                             \/ \E j \in DOMAIN calls[t] : r[i] = calls[t][j]
  <2>1. CASE r = m
    BY <1>1, <2>1
  <2>2. CASE calls[t] # <<>> /\ r = m \o Tail(calls[t])
    <3> PICK q : q = calls[t]
      OBVIOUS
    <3>1. /\ r \in Seq(AnyCall) /\ Len(m) \in Nat /\ Len(q) \in Nat /\ Len(r) = Len(m) + Len(q) - 1
          /\ \A i \in 1 .. Len(m) : r[i] = m[i]
          /\ \A i \in Len(m) + 1 .. Len(r) : r[i] = q[i - Len(m) + 1]
          /\ \A i \in Len(m) + 1 .. Len(r) : i - Len(m) + 1 \in 2 .. Len(q)
      BY <1>1, <2>2, Stacked
    <3>2. DOMAIN r = 1 .. Len(r) /\ DOMAIN m = 1 .. Len(m) /\ DOMAIN q = 1 .. Len(q)
      BY <1>1, <3>1, LenProperties
    <3>3. ASSUME NEW i \in DOMAIN r
          PROVE  (\E j \in DOMAIN m : r[i] = m[j]) \/ \E j \in DOMAIN q : r[i] = q[j]
      <4>1. CASE i <= Len(m)
        BY <3>1, <3>2, <4>1
      <4>2. CASE i > Len(m)
        <5>1. Len(m) \in Nat /\ Len(r) \in Int /\ i \in 1 .. Len(r)
          BY <3>1, <3>2
        <5>2. i \in Len(m) + 1 .. Len(r)
          BY <4>2, <5>1
        <5> PICK j : j = i - Len(m) + 1
          OBVIOUS
        <5>3. r[i] = q[j] /\ j \in 2 .. Len(q)
          BY Zenon, <3>1, <5>2
        <5>4. j \in DOMAIN q
          BY <3>1, <3>2, <5>3
        <5> QED BY Zenon, <5>3, <5>4
      <4> QED BY <3>1, <3>2, <4>1, <4>2
    <3> QED BY <3>1, <3>3
  <2> QED BY <2>1, <2>2
<1>3. calls \in [Threads -> Seq(AnyCall)]
  BY DEF StackInv
<1>4. calls' \in [Threads -> Seq(AnyCall)] /\ calls'[t] = r
      /\ \A u \in Threads : u # t => calls'[u] = calls[u]
  BY <1>2, <1>3
<1>5. ASSUME NEW u \in Threads, NEW i \in DOMAIN calls'[u], NEW c \in Client
      PROVE  /\ calls'[u][i] \in OwnCall(c) => u = Retriever(c)
             /\ calls'[u][i] = SetClientState(c, "WAITING") => u = Receiver(c)
  <2>1. CASE u # t
    BY <1>4, <2>1 DEF StackInv
  <2>2. CASE u = t
    <3>1. ASSUME NEW j \in DOMAIN m, r[i] = m[j]
          PROVE  r[i] \notin OwnCall(c) /\ (r[i] = SetClientState(c, "WAITING") => t = Receiver(c))
      <4>1. m[j] \in PlainCall
        BY DEF QuietFor
      <4> QED BY <3>1, <4>1, PlainCallsAreNamed DEF QuietFor
    <3>2. ASSUME NEW j \in DOMAIN calls[t], r[i] = calls[t][j]
          PROVE  /\ r[i] \in OwnCall(c) => t = Retriever(c)
                 /\ r[i] = SetClientState(c, "WAITING") => t = Receiver(c)
      BY <3>2 DEF StackInv
    <3> QED BY <1>2, <1>4, <2>2, <3>1, <3>2
  <2> QED BY <2>1, <2>2
<1>6. StackInv'
  BY <1>4, <1>5 DEF StackInv
<1> QED BY <1>4, <1>6

LEMMA LastIsShifted ==
  ASSUME NEW a \in Nat, NEW b \in Nat, b # 1, b > 0, NEW n, n = a + b - 1
  PROVE  n \in a + 1 .. n /\ n - a + 1 = b /\ n > 0
OBVIOUS

\* The retrievers' stacks after a step that pushes quiet calls.
LEMMA QuietRetrievers ==
  ASSUME LocksInv, NEW t \in Threads, NEW m, Quiet(m),
         calls[t] # <<>>, calls[t][1] \in PlainCall, Then(t, m), asleep' \subseteq asleep,
         \A c \in Client : clientState'[c] = "NEW" => clientState[c] = "NEW"
  PROVE  /\ StackInv' /\ RetrieverInv'
         /\ \A u \in Threads : u # t => calls'[u] = calls[u]
         /\ \A c \in Client : Inside(c)' <=> Inside(c)
         /\ \A c \in Client :
              Leaving(c)' => Leaving(c) \/ calls[t][1] = SetClientState(c, "DISCONNECTED")
<1> PICK r : r = m \o Tail(calls[t])
  OBVIOUS
<1> PICK q : q = calls[t]
  OBVIOUS
<1>1. calls' = [calls EXCEPT ![t] = r]
  BY DEF Then
<1>2. StackInv /\ RetrieverInv
  BY DEF LocksInv
<1>3. StackInv' /\ calls'[t] = r /\ \A u \in Threads : u # t => calls'[u] = calls[u]
  <2>1. QuietFor(t, m)
    BY Zenon DEF Quiet, QuietFor
  <2> QED BY Zenon, <1>1, <1>2, <2>1, QuietStacks
<1>4. q \in Seq(AnyCall) /\ m \in Seq(AnyCall) /\ q # <<>>
  BY <1>2 DEF Quiet, StackInv, AnyCall
<1>5. /\ r \in Seq(AnyCall) /\ Len(m) \in Nat /\ Len(q) \in Nat /\ Len(q) > 0
      /\ Len(r) = Len(m) + Len(q) - 1
      /\ \A i \in 1 .. Len(m) : r[i] = m[i]
      /\ \A i \in Len(m) + 1 .. Len(r) : r[i] = q[i - Len(m) + 1]
      /\ \A i \in Len(m) + 1 .. Len(r) : i - Len(m) + 1 \in 2 .. Len(q)
  BY <1>4, Stacked
<1>6. DOMAIN r = 1 .. Len(r) /\ DOMAIN m = 1 .. Len(m) /\ DOMAIN q = 1 .. Len(q)
  BY <1>4, <1>5, LenProperties
<1>7. ASSUME NEW i \in DOMAIN m, NEW c \in Client PROVE m[i] \notin OwnCall(c)
  <2>1. m[i] \in PlainCall
    BY <1>6 DEF Quiet
  <2> QED BY <2>1, PlainCallsAreNamed
<1>8. ASSUME NEW c \in Client PROVE q[1] \notin OwnCall(c)
  BY PlainCallsAreNamed
<1>9. ASSUME NEW c \in Client, t = Retriever(c)
      PROVE  /\ \A i \in DOMAIN r : /\ r[i] = Call("wait", c) => i = Len(r)
                                    /\ r[i] # Call("awake", c) /\ r[i] \notin InsideCall(c)
             /\ c \notin asleep /\ clientState'[c] # "NEW"
             /\ r # <<>> /\ r[Len(r)] = Call("wait", c) <=> Inside(c)
  <2> DEFINE wait == Call("wait", c)
             awake == Call("awake", c)
  <2>1. /\ \A i \in DOMAIN q : /\ q[i] = wait => i = Len(q)
                               /\ q[i] = awake => i = 1
                               /\ q[i] \in InsideCall(c) => i = 1
        /\ c \in asleep => q = <<awake>>
        /\ clientState[c] = "NEW" => q = <<>>
    BY <1>2, <1>9 DEF RetrieverInv
  <2>2. wait \in OwnCall(c) /\ awake \in OwnCall(c) /\ InsideCall(c) \subseteq OwnCall(c)
    BY DEF OwnCall
  <2>3. Inside(c) <=> q # <<>> /\ q[Len(q)] = wait
    BY <1>9 DEF Inside
  <2> HIDE DEF wait, awake
  <2>4. c \notin asleep /\ clientState'[c] # "NEW"
    <3>1. <<awake>>[1] = awake
      OBVIOUS
    <3> QED BY <1>4, <1>8, <2>1, <2>2, <3>1
  <2>5. ASSUME NEW i \in DOMAIN r
        PROVE  /\ r[i] = wait => i = Len(r) /\ q[Len(q)] = wait /\ Len(q) > 1
               /\ r[i] # awake /\ r[i] \notin InsideCall(c)
    <3>1. CASE i \in 1 .. Len(m)
      BY <1>5, <1>6, <1>7, <2>2, <3>1
    <3>2. CASE i \in Len(m) + 1 .. Len(r)
      <4> PICK j : j = i - Len(m) + 1
        OBVIOUS
      <4>1. j \in 2 .. Len(q) /\ r[i] = q[j]
        BY Zenon, <1>5, <3>2
      <4>2. j \in DOMAIN q /\ j # 1
        BY <1>5, <1>6, <4>1
      <4>3. r[i] = wait => j = Len(q)
        BY <2>1, <4>1, <4>2
      <4>4. j = Len(q) => i = Len(r) /\ Len(q) > 1
        BY <1>5, <3>2, <4>1
      <4>5. r[i] # awake /\ r[i] \notin InsideCall(c)
        BY <2>1, <4>1, <4>2
      <4> QED BY Zenon, <4>1, <4>3, <4>4, <4>5
    <3>3. i \in 1 .. Len(m) \/ i \in Len(m) + 1 .. Len(r)
      BY <1>5, <1>6
    <3> QED BY Zenon, <3>1, <3>2, <3>3
  <2>6. ASSUME q[Len(q)] = wait PROVE r # <<>> /\ r[Len(r)] = wait
    <3>1. Len(q) # 1
      BY <1>8, <2>2, <2>6
    <3>2. Len(m) \in Nat /\ Len(q) \in Nat /\ Len(q) > 0 /\ Len(r) = Len(m) + Len(q) - 1
      BY <1>5
    <3>3. Len(r) \in Len(m) + 1 .. Len(r) /\ Len(r) - Len(m) + 1 = Len(q) /\ Len(r) > 0
      BY Zenon, <3>1, <3>2, LastIsShifted
    <3>4. r # <<>>
      BY <3>3
    <3>5. r[Len(r)] = q[Len(r) - Len(m) + 1]
      BY Zenon, <1>5, <3>3
    <3> QED BY <2>6, <3>3, <3>4, <3>5
  <2>7. ASSUME r # <<>>, r[Len(r)] = wait PROVE q[Len(q)] = wait
    <3>1. Len(r) \in DOMAIN r
      BY <1>5, <1>6, <2>7, EmptySeq, LenProperties
    <3> QED BY <2>5, <2>7, <3>1
  <2> QED BY Zenon, <1>4, <2>3, <2>4, <2>5, <2>6, <2>7 DEF wait, awake
<1>10. ASSUME NEW c \in Client, t # Retriever(c) PROVE calls'[Retriever(c)] = calls[Retriever(c)]
  BY <1>3, <1>10, ThreadsDiffer
<1>11. ASSUME NEW c \in Client
       PROVE  /\ Inside(c)' <=> Inside(c)
              /\ Leaving(c)' => Leaving(c) \/ calls[t][1] = SetClientState(c, "DISCONNECTED")
  <2>1. CASE t # Retriever(c)
    <3>1. calls'[Retriever(c)] = calls[Retriever(c)]
      BY <1>10, <2>1
    <3>2. Inside(c)' <=> Inside(c)
      BY Zenon, <3>1 DEF Inside
    <3> QED BY Zenon, <3>1, <3>2 DEF Leaving
  <2>2. CASE t = Retriever(c)
    <3>1. Inside(c)' <=> Inside(c)
      BY <1>3, <1>9, <2>2 DEF Inside
    <3>2. q[1] \notin InsideCall(c)
      BY <1>8 DEF OwnCall
    <3> QED BY <2>2, <3>1, <3>2 DEF Leaving
  <2> QED BY <2>1, <2>2
<1>12. RetrieverInv'
  <2> SUFFICES ASSUME NEW c \in Client
               PROVE  LET p == calls'[Retriever(c)] IN
                      /\ \A i \in DOMAIN p :
                           /\ p[i] = Call("wait", c) => i = Len(p)
                           /\ p[i] = Call("awake", c) => i = 1 /\ Len(p) = 1
                           /\ p[i] \in InsideCall(c) => i = 1 /\ Len(p) = 2 /\ p[2] = Call("wait", c)
                      /\ c \in asleep' => p = <<Call("awake", c)>>
                      /\ clientState'[c] = "NEW" => p = <<>>
    BY DEF RetrieverInv, InsideCall
  <2>1. CASE t # Retriever(c)
    BY <1>2, <1>10, <2>1 DEF RetrieverInv
  <2>2. CASE t = Retriever(c)
    BY <1>3, <1>9, <2>2
  <2> QED BY <2>1, <2>2
<1> QED BY <1>3, <1>11, <1>12

StacksInv == StackInv /\ RetrieverInv /\ MonitorInv /\ NoticeInv

LEMMA QuietStep ==
  ASSUME LocksInv, NEW t \in Threads, NEW m, Quiet(m),
         calls[t] # <<>>, calls[t][1] \in PlainCall, Then(t, m), asleep' \subseteq asleep,
         \A c \in Client : owner'[RetrieverLock(c)] = owner[RetrieverLock(c)],
         \A c \in Client : clientState'[c] = "NEW" => clientState[c] = "NEW",
         \A c \in Client : clientState'[c] = "WAITING" => clientState[c] = "WAITING" \/ Noticed(c)',
         \A c \in Client :
           calls[t][1] = SetClientState(c, "DISCONNECTED") => clientState'[c] # "WAITING",
         \A c \in Client : t = Receiver(c) /\ Noticed(c) =>
           Noticed(c)' \/ (c \notin asleep' /\ ~Leaving(c))
  PROVE  StacksInv'
<1>1. /\ StackInv' /\ RetrieverInv'
      /\ \A u \in Threads : u # t => calls'[u] = calls[u]
      /\ \A c \in Client : Inside(c)' <=> Inside(c)
      /\ \A c \in Client :
           Leaving(c)' => Leaving(c) \/ calls[t][1] = SetClientState(c, "DISCONNECTED")
  BY Zenon, QuietRetrievers
<1>2. MonitorInv /\ NoticeInv
  BY DEF LocksInv
<1>3. MonitorInv'
  <2> SUFFICES ASSUME NEW c \in Client
               PROVE  /\ owner'[RetrieverLock(c)].depth = IF Inside(c)' THEN 1 ELSE 0
                      /\ Inside(c)' => owner'[RetrieverLock(c)].by = Retriever(c)
    BY DEF MonitorInv
  <2>1. owner'[RetrieverLock(c)] = owner[RetrieverLock(c)] /\ (Inside(c)' <=> Inside(c))
    BY <1>1
  <2>2. /\ owner[RetrieverLock(c)].depth = IF Inside(c) THEN 1 ELSE 0
        /\ Inside(c) => owner[RetrieverLock(c)].by = Retriever(c)
    BY <1>2 DEF MonitorInv
  <2> QED BY Zenon, <2>1, <2>2
<1>4. NoticeInv'
  <2> SUFFICES ASSUME NEW c \in Client, clientState'[c] = "WAITING",
                      c \in asleep' \/ Leaving(c)'
               PROVE  Noticed(c)'
    BY DEF NoticeInv
  <2>1. CASE Noticed(c)'
    BY <2>1
  <2>2. CASE clientState[c] = "WAITING"
    <3>1. c \in asleep' \/ Leaving(c)
      BY <1>1
    <3>2. Noticed(c)
      BY <1>2, <2>2, <3>1 DEF NoticeInv
    <3>3. CASE t = Receiver(c)
      BY <3>1, <3>2, <3>3
    <3>4. CASE t # Receiver(c)
      <4>1. calls'[Receiver(c)] = calls[Receiver(c)]
        BY Zenon, <1>1, <3>4, ThreadsDiffer
      <4> QED BY Zenon, <3>2, <4>1 DEF Noticed
    <3> QED BY <3>3, <3>4
  <2> QED BY <2>1, <2>2
<1> QED BY <1>1, <1>3, <1>4 DEF StacksInv

\* Threads that begin with quiet calls, or that an exception ends.
LEMMA QuietBegin ==
  ASSUME LocksInv, NEW t \in Threads, NEW m, QuietFor(t, m), calls' = [calls EXCEPT ![t] = m],
         \/ calls[t] = <<>> /\ \A c \in Client : t # Retriever(c)
         \/ calls[t] # <<>> /\ calls[t][1][1] = "useGroup",
         asleep' = asleep, clientState' = clientState,
         \A c \in Client :
           owner'[RetrieverLock(c)] = IF calls[t] # <<>> /\ owner[RetrieverLock(c)].by = t
                                      THEN [by |-> NoOne, depth |-> 0]
                                      ELSE owner[RetrieverLock(c)]
  PROVE  StacksInv'
<1>1. StackInv /\ RetrieverInv /\ MonitorInv /\ NoticeInv
  BY DEF LocksInv
<1>2. StackInv' /\ calls'[t] = m /\ \A u \in Threads : u # t => calls'[u] = calls[u]
  BY <1>1, QuietStacks
<1>3. m \in Seq(PlainCall) /\ \A i \in DOMAIN m : \A c \in Client : m[i] \notin OwnCall(c)
  <2>1. m \in Seq(PlainCall)
    BY DEF QuietFor
  <2>2. ASSUME NEW i \in DOMAIN m PROVE m[i] \in PlainCall
    BY <2>1
  <2> QED BY <2>1, <2>2, PlainCallsAreNamed
<1>4. ASSUME NEW c \in Client, t # Retriever(c)
      PROVE  calls'[Retriever(c)] = calls[Retriever(c)]
  BY Zenon, <1>2, <1>4, ThreadsDiffer
<1>5. ASSUME NEW c \in Client, t = Retriever(c)
      PROVE  c \notin asleep /\ clientState[c] # "NEW" /\ ~Inside(c)'
  <2>1. calls[t] # <<>> /\ calls[t][1][1] = "useGroup"
    BY <1>5
  <2>2. clientState[c] # "NEW"
    BY <1>1, <1>5, <2>1 DEF RetrieverInv
  <2>3. c \notin asleep
    <3>1. <<Call("awake", c)>>[1][1] = "awake"
      BY DEF Call
    <3> QED BY <1>1, <1>5, <2>1, <3>1 DEF RetrieverInv
  <2>4. m = <<>> \/ m[Len(m)] # Call("wait", c)
    <3>1. m # <<>> => Len(m) \in DOMAIN m
      BY <1>3, EmptySeq, LenProperties
    <3> QED BY <1>3, <3>1 DEF OwnCall
  <2> QED BY <1>2, <1>5, <2>2, <2>3, <2>4 DEF Inside
<1>6. RetrieverInv'
  <2> SUFFICES ASSUME NEW c \in Client
               PROVE  LET p == calls'[Retriever(c)] IN
                      /\ \A i \in DOMAIN p :
                           /\ p[i] = Call("wait", c) => i = Len(p)
                           /\ p[i] = Call("awake", c) => i = 1 /\ Len(p) = 1
                           /\ p[i] \in InsideCall(c) => i = 1 /\ Len(p) = 2 /\ p[2] = Call("wait", c)
                      /\ c \in asleep' => p = <<Call("awake", c)>>
                      /\ clientState'[c] = "NEW" => p = <<>>
    BY DEF RetrieverInv, InsideCall
  <2>1. CASE t # Retriever(c)
    BY <1>1, <1>4, <2>1 DEF RetrieverInv
  <2>2. CASE t = Retriever(c)
    <3>1. c \notin asleep' /\ clientState'[c] # "NEW"
      BY <1>5, <2>2
    <3>2. \A i \in DOMAIN m : /\ m[i] # Call("wait", c) /\ m[i] # Call("awake", c)
                              /\ m[i] \notin InsideCall(c)
      BY <1>3 DEF OwnCall
    <3> QED BY Zenon, <1>2, <2>2, <3>1, <3>2
  <2> QED BY <2>1, <2>2
<1>7. MonitorInv'
  <2> SUFFICES ASSUME NEW c \in Client
               PROVE  /\ owner'[RetrieverLock(c)].depth = IF Inside(c)' THEN 1 ELSE 0
                      /\ Inside(c)' => owner'[RetrieverLock(c)].by = Retriever(c)
    BY DEF MonitorInv
  <2>1. /\ owner[RetrieverLock(c)].depth = IF Inside(c) THEN 1 ELSE 0
        /\ Inside(c) => owner[RetrieverLock(c)].by = Retriever(c)
    BY <1>1 DEF MonitorInv
  <2>2. CASE t # Retriever(c)
    <3>1. Inside(c)' <=> Inside(c)
      BY Zenon, <1>4, <2>2 DEF Inside
    <3>2. CASE owner'[RetrieverLock(c)] = owner[RetrieverLock(c)]
      BY Zenon, <2>1, <3>1, <3>2
    <3>3. CASE /\ owner[RetrieverLock(c)].by = t
               /\ owner'[RetrieverLock(c)] = [by |-> NoOne, depth |-> 0]
      <4>1. ~Inside(c)
        BY <2>1, <2>2, <3>3
      <4> QED BY <3>1, <3>3, <4>1
    <3> QED BY <3>2, <3>3
  <2>3. CASE t = Retriever(c)
    <3>1. ~Inside(c)'
      BY <1>5, <2>3
    <3>2. CASE owner'[RetrieverLock(c)] = [by |-> NoOne, depth |-> 0]
      BY <3>1, <3>2
    <3>3. CASE owner'[RetrieverLock(c)] = owner[RetrieverLock(c)] /\ ~Inside(c)
      BY <2>1, <3>1, <3>3
    <3>4. calls[t] # <<>>
      BY Zenon, <2>3
    <3> QED BY Zenon, <2>1, <2>3, <3>2, <3>3, <3>4
  <2> QED BY <2>2, <2>3
<1>8. NoticeInv'
  <2> SUFFICES ASSUME NEW c \in Client, clientState'[c] = "WAITING",
                      c \in asleep' \/ Leaving(c)'
               PROVE  Noticed(c)'
    BY DEF NoticeInv
  <2>1. t # Retriever(c)
    BY <1>5 DEF Leaving
  <2>2. c \in asleep \/ Leaving(c)
    <3>1. Inside(c)' <=> Inside(c)
      BY Zenon, <1>4, <2>1 DEF Inside
    <3>2. Leaving(c)' => Leaving(c)
      BY Zenon, <1>4, <2>1, <3>1 DEF Leaving
    <3> QED BY <3>2
  <2>3. Noticed(c)
    BY <1>1, <2>2 DEF NoticeInv
  <2>4. t # Receiver(c)
    <3>1. calls[Receiver(c)] # <<>>
      BY Zenon, <2>3 DEF Noticed
    <3>2. calls[Receiver(c)][1][1] # "useGroup"
      BY <2>3 DEF Noticed, Call, SetVmState
    <3> QED BY <3>1, <3>2
  <2> QED BY Zenon, <1>2, <2>3, <2>4, ThreadsDiffer DEF Noticed
<1> QED BY <1>2, <1>6, <1>7, <1>8 DEF StacksInv

\* Calls that may change a state or fulfil a notification.
Changing(k) == k[1] \in {"notifyAll", "VirtualMachine.setState", "notifyVm", "setClientState"}

LEMMA PlainNameStep ==
  ASSUME LocksInv, NEW t \in Threads, NEW m, Quiet(m), calls[t] # <<>>, calls[t][1] \in PlainCall,
         ~Changing(calls[t][1]), Then(t, m), clientState' = clientState, asleep' = asleep,
         \A c \in Client : owner'[RetrieverLock(c)] = owner[RetrieverLock(c)]
  PROVE  StacksInv'
<1>1. ASSUME NEW c \in Client PROVE calls[t][1] # SetClientState(c, "DISCONNECTED")
  BY DEF SetClientState, Changing
<1>2. ASSUME NEW c \in Client, t = Receiver(c) PROVE ~Noticed(c)
  BY <1>2 DEF Noticed, Call, SetVmState, Changing
<1>3. asleep' \subseteq asleep /\ \A c \in Client : clientState'[c] = clientState[c]
  OBVIOUS
<1> QED BY Zenon, <1>1, <1>2, <1>3, QuietStep

QuietCall == {k \in PlainCall : \A c \in Client : k # SetClientState(c, "WAITING")}

LEMMA QuietLists ==
  /\ Quiet(<<>>)
  /\ \A i \in QuietCall : Quiet(<<i>>)
  /\ \A i, j \in QuietCall : Quiet(<<i, j>>)
  /\ \A i, j, k \in QuietCall : Quiet(<<i, j, k>>)
BY DEF Quiet, QuietCall

LEMMA QuietCalls ==
  /\ \A v \in Machine : /\ Leave(VmLock(v)) \in QuietCall
                        /\ SetVmState(v, "RUNNING") \in QuietCall
                        /\ SetVmState(v, "WAITING_TO_BE_REVERTED") \in QuietCall
                        /\ Call("notifyVm", v) \in QuietCall /\ Call("reverted", v) \in QuietCall
  /\ \A c \in Client : /\ SetClientState(c, "DISCONNECTED") \in QuietCall
                       /\ SetClientState(c, "CONNECTED") \in QuietCall
                       /\ SetClientState(c, "VISITING") \in QuietCall
                       /\ Call("disconnect", c) \in QuietCall /\ Call("testGroup", c) \in QuietCall
                       /\ Call("useGroup", c) \in QuietCall /\ Call("send", c) \in QuietCall
                       /\ Call("notifyAll", c) \in QuietCall
                       /\ Call("notifyPinger", c) \in QuietCall
  /\ Call("dead", NoOne) \in QuietCall
<1>1. \A c, s : /\ SetClientState(c, s)[1] = "setClientState"
                /\ SetClientState(c, s)[3] = s
  BY DEF SetClientState
<1>2. ASSUME NEW v \in Machine
      PROVE  /\ Leave(VmLock(v)) \in QuietCall
             /\ SetVmState(v, "RUNNING") \in QuietCall
             /\ SetVmState(v, "WAITING_TO_BE_REVERTED") \in QuietCall
             /\ Call("notifyVm", v) \in QuietCall /\ Call("reverted", v) \in QuietCall
  <2>1. /\ Leave(VmLock(v)) \in PlainCall /\ SetVmState(v, "RUNNING") \in PlainCall
        /\ SetVmState(v, "WAITING_TO_BE_REVERTED") \in PlainCall
        /\ Call("notifyVm", v) \in PlainCall /\ Call("reverted", v) \in PlainCall
    BY DEF PlainCall
  <2>2. /\ Leave(VmLock(v))[1] = "leave" /\ Call("notifyVm", v)[1] = "notifyVm"
        /\ Call("reverted", v)[1] = "reverted"
        /\ SetVmState(v, "RUNNING")[1] = "VirtualMachine.setState"
        /\ SetVmState(v, "WAITING_TO_BE_REVERTED")[1] = "VirtualMachine.setState"
    BY DEF Leave, Call, SetVmState
  <2> QED BY <1>1, <2>1, <2>2 DEF QuietCall
<1>3. ASSUME NEW c \in Client, NEW s \in {"DISCONNECTED", "CONNECTED", "VISITING"}
      PROVE  SetClientState(c, s) \in QuietCall
  <2>1. SetClientState(c, s) \in PlainCall
    BY DEF PlainCall, ClientStates
  <2> QED BY <1>1, <2>1 DEF QuietCall
<1>4. ASSUME NEW c \in Client,
             NEW n \in {"disconnect", "testGroup", "useGroup", "send", "notifyAll", "notifyPinger"}
      PROVE  Call(n, c) \in QuietCall
  <2>1. Call(n, c) \in PlainCall /\ Call(n, c)[1] = n
    BY DEF PlainCall, Call
  <2> QED BY <1>1, <2>1 DEF QuietCall
<1>5. Call("dead", NoOne) \in QuietCall
  <2>1. Call("dead", NoOne) \in PlainCall /\ Call("dead", NoOne)[1] = "dead"
    BY DEF PlainCall, Call
  <2> QED BY <1>1, <2>1 DEF QuietCall
<1> QED BY <1>2, <1>3, <1>4, <1>5

LEMMA HeadCall ==
  ASSUME StackInv, NEW t \in Threads, calls[t] # <<>>
  PROVE  /\ Head(calls[t]) = calls[t][1] /\ calls[t][1] \in AnyCall /\ Names(calls[t][1])
         /\ calls[t] \in Seq(AnyCall)
<1>1. calls[t] \in Seq(AnyCall)
  BY DEF StackInv
<1>2. Head(calls[t]) = calls[t][1] /\ calls[t][1] \in AnyCall
  BY <1>1, EmptySeq, LenProperties
<1> QED BY <1>1, <1>2, CallsAreNamed

OwnerOK(o) ==
  /\ o \in [Locks -> [by : Threads \cup {NoOne}, depth : Int]]
  /\ \A l \in Locks : o[l].depth > 0 => o[l].by \in Threads

LEMMA Monitors ==
  ASSUME OwnerOK(owner), NEW t \in Threads
  PROVE  /\ OwnerOK(WithoutOwner(t))
         /\ \A l \in Locks : WithoutOwner(t)[l] =
              IF owner[l].by = t THEN [by |-> NoOne, depth |-> 0] ELSE owner[l]
         /\ \A l \in Locks :
              /\ OwnerOK(Entered(t, l)) /\ OwnerOK(Left(l))
              /\ Entered(t, l)[l] = [by |-> t, depth |-> owner[l].depth + 1]
              /\ Left(l)[l] = [by |-> owner[l].by, depth |-> owner[l].depth - 1]
              /\ \A k \in Locks : k # l => Entered(t, l)[k] = owner[k] /\ Left(l)[k] = owner[k]
<1>1. OwnerOK(WithoutOwner(t))
  BY DEF WithoutOwner, OwnerOK
<1>2. ASSUME NEW l \in Locks
      PROVE  OwnerOK(Entered(t, l)) /\ Entered(t, l)[l] = [by |-> t, depth |-> owner[l].depth + 1]
  BY DEF Entered, OwnerOK
<1>3. ASSUME NEW l \in Locks
      PROVE  OwnerOK(Left(l)) /\ Left(l)[l] = [by |-> owner[l].by, depth |-> owner[l].depth - 1]
  BY DEF Left, OwnerOK
<1>4. ASSUME NEW l \in Locks, NEW k \in Locks, k # l
      PROVE  Entered(t, l)[k] = owner[k] /\ Left(l)[k] = owner[k]
  BY <1>4 DEF Entered, Left, OwnerOK
<1>5. \A l \in Locks : WithoutOwner(t)[l] =
        IF owner[l].by = t THEN [by |-> NoOne, depth |-> 0] ELSE owner[l]
  BY DEF WithoutOwner
<1> QED BY <1>1, <1>2, <1>3, <1>4, <1>5

TypesOK ==
  /\ LocksTypeOK /\ machineOf \in [Client -> Machine] /\ OwnerOK(owner)

LEMMA LocksParts ==
  /\ LocksInv => TypesOK /\ StacksInv
  /\ TypesOK' /\ StacksInv' => LocksInv'
BY DEF LocksInv, TypesOK, StacksInv, LocksTypeOK, OwnerOK

LEMMA OtherMonitors ==
  ASSUME OwnerOK(owner), NEW t \in Threads, NEW l \in Locks, owner' = Entered(t, l) \/ owner' = Left(l)
  PROVE  OwnerOK(owner') /\ \A k \in Locks : k # l => owner'[k] = owner[k]
<1>1. /\ OwnerOK(Entered(t, l)) /\ OwnerOK(Left(l))
      /\ \A k \in Locks : k # l => Entered(t, l)[k] = owner[k] /\ Left(l)[k] = owner[k]
  BY Zenon, Monitors
<1>2. CASE owner' = Entered(t, l)
  BY Zenon, <1>1, <1>2
<1>3. CASE owner' = Left(l)
  BY Zenon, <1>1, <1>3
<1> QED BY Zenon, <1>2, <1>3

\* A thread that makes a call.
LEMMA HeadIsPlain ==
  ASSUME LocksInv, NEW t \in Threads, NEW n, Calling(t, n),
         n \in {"leave", "VirtualMachine.setState", "setClientState", "notifyVm", "reverted",
                "disconnect", "testGroup", "useGroup", "send", "notifyAll", "notifyPinger"}
  PROVE  /\ calls[t] # <<>> /\ Head(calls[t]) = calls[t][1] /\ calls[t][1] \in PlainCall
         /\ calls[t][1][1] = n /\ Names(calls[t][1]) /\ calls[t] \in Seq(AnyCall)
<1>1. calls[t] # <<>> /\ Head(calls[t])[1] = n /\ StackInv
  BY DEF Calling, LocksInv
<1>2. Head(calls[t]) = calls[t][1] /\ Names(calls[t][1]) /\ calls[t] \in Seq(AnyCall)
  BY Zenon, <1>1, HeadCall
<1>3. calls[t][1] \in PlainCall
  BY <1>1, <1>2 DEF Names
<1> QED BY <1>1, <1>2, <1>3

LEMMA LeaveKeeps == ASSUME LocksInv, NEW t \in Threads, LeaveStep(t) PROVE LocksInv'
<1> PICK l : l = Head(calls[t])[2]
  OBVIOUS
<1>1. /\ Calling(t, "leave") /\ owner' = Left(l) /\ Then(t, <<>>)
      /\ UNCHANGED <<machineVars, clientVars, asleep, pingVars>>
  BY Zenon DEF LeaveStep
<1>2. /\ calls[t] # <<>> /\ Head(calls[t]) = calls[t][1] /\ calls[t][1] \in PlainCall
      /\ calls[t][1][1] = "leave" /\ Names(calls[t][1])
  BY Zenon, <1>1, HeadIsPlain
<1>3. PICK v \in Machine : l = VmLock(v)
  <2>1. PICK v \in Machine : calls[t][1] = Leave(VmLock(v))
    BY <1>2 DEF Names
  <2> QED BY <1>2, <2>1 DEF Leave
<1>4. TypesOK /\ l \in Locks
  BY <1>3, LocksParts DEF Locks
<1>5. \A c \in Client : owner'[RetrieverLock(c)] = owner[RetrieverLock(c)]
  <2> SUFFICES ASSUME NEW c \in Client
               PROVE  owner'[RetrieverLock(c)] = owner[RetrieverLock(c)]
    OBVIOUS
  <2>1. RetrieverLock(c) \in Locks /\ RetrieverLock(c) # l
    BY <1>3, LocksDiffer
  <2>2. OwnerOK(owner)
    BY <1>4 DEF TypesOK
  <2> QED BY Zenon, <1>1, <1>4, <2>1, <2>2, OtherMonitors
<1>6. TypesOK'
  <2>1. OwnerOK(owner')
    BY <1>1, <1>4, Monitors DEF TypesOK
  <2> QED BY <1>1, <1>4, <2>1 DEF TypesOK, LocksTypeOK, OwnerOK, machineVars, clientVars, pingVars
<1>7. StacksInv'
  <2>1. Quiet(<<>>) /\ clientState' = clientState /\ asleep' = asleep
    BY <1>1, QuietLists DEF clientVars
  <2>2. ~Changing(calls[t][1])
    BY <1>2 DEF Changing
  <2> QED BY Zenon, <1>1, <1>2, <1>5, <2>1, <2>2, PlainNameStep
<1> QED BY <1>6, <1>7, LocksParts

LEMMA DisconnectKeeps == ASSUME LocksInv, NEW t \in Threads, DisconnectStep(t) PROVE LocksInv'
<1> PICK c : c = Head(calls[t])[2]
  OBVIOUS
<1>1. /\ Calling(t, "disconnect") /\ vmClient' = [vmClient EXCEPT ![machineOf[c]] = NoOne]
      /\ Then(t, <<SetVmState(machineOf[c], "WAITING_TO_BE_REVERTED"), Call("testGroup", c)>>)
      /\ UNCHANGED <<machineOf, vmState, requested, reverts, clientVars, owner, asleep, pingVars>>
  BY Zenon DEF DisconnectStep
<1>2. /\ calls[t] # <<>> /\ Head(calls[t]) = calls[t][1] /\ calls[t][1] \in PlainCall
      /\ calls[t][1][1] = "disconnect" /\ Names(calls[t][1])
  BY Zenon, <1>1, HeadIsPlain
<1>3. c \in Client
  BY <1>2 DEF Names, Call
<1>4. TypesOK /\ machineOf[c] \in Machine
  BY <1>3, LocksParts DEF TypesOK
<1>5. TypesOK'
  BY <1>1, <1>4 DEF TypesOK, LocksTypeOK, OwnerOK, clientVars, pingVars
<1>6. StacksInv'
  <2>1. /\ SetVmState(machineOf[c], "WAITING_TO_BE_REVERTED") \in QuietCall
        /\ Call("testGroup", c) \in QuietCall
    BY <1>3, <1>4, QuietCalls
  <2>2. Quiet(<<SetVmState(machineOf[c], "WAITING_TO_BE_REVERTED"), Call("testGroup", c)>>)
    BY Zenon, <2>1, QuietLists
  <2>3. clientState' = clientState /\ asleep' = asleep
        /\ \A d \in Client : owner'[RetrieverLock(d)] = owner[RetrieverLock(d)]
    BY <1>1 DEF clientVars
  <2>4. ~Changing(calls[t][1])
    BY <1>2 DEF Changing
  <2> QED BY Zenon, <1>1, <1>2, <2>2, <2>3, <2>4, PlainNameStep
<1> QED BY <1>5, <1>6, LocksParts

LEMMA TestGroupKeeps == ASSUME LocksInv, NEW t \in Threads, TestGroupStep(t) PROVE LocksInv'
<1> PICK c : c = Head(calls[t])[2]
  OBVIOUS
<1> PICK m : m = IF hasGroup[c] THEN <<Call("useGroup", c)>> ELSE <<SetClientState(c, "DISCONNECTED")>>
  OBVIOUS
<1>1. /\ Calling(t, "testGroup") /\ Then(t, m)
      /\ UNCHANGED <<machineVars, clientVars, owner, asleep, pingVars>>
  BY Zenon DEF TestGroupStep
<1>2. /\ calls[t] # <<>> /\ Head(calls[t]) = calls[t][1] /\ calls[t][1] \in PlainCall
      /\ calls[t][1][1] = "testGroup" /\ Names(calls[t][1])
  BY Zenon, <1>1, HeadIsPlain
<1>3. c \in Client
  BY <1>2 DEF Names, Call
<1>4. TypesOK'
  BY <1>1, LocksParts DEF TypesOK, LocksTypeOK, OwnerOK, machineVars, clientVars, pingVars
<1>5. StacksInv'
  <2>1. Call("useGroup", c) \in QuietCall /\ SetClientState(c, "DISCONNECTED") \in QuietCall
    BY <1>3, QuietCalls
  <2>2. Quiet(m)
    BY Zenon, <2>1, QuietLists
  <2>3. clientState' = clientState /\ asleep' = asleep
        /\ \A d \in Client : owner'[RetrieverLock(d)] = owner[RetrieverLock(d)]
    BY <1>1 DEF clientVars
  <2>4. ~Changing(calls[t][1])
    BY <1>2 DEF Changing
  <2> QED BY Zenon, <1>1, <1>2, <2>2, <2>3, <2>4, PlainNameStep
<1> QED BY <1>4, <1>5, LocksParts

LEMMA UseGroupKeeps == ASSUME LocksInv, NEW t \in Threads, UseGroupStep(t) PROVE LocksInv'
<1> PICK c : c = Head(calls[t])[2]
  OBVIOUS
<1>1. /\ Calling(t, "useGroup")
      /\ \/ Then(t, <<SetClientState(c, "DISCONNECTED")>>) /\ UNCHANGED <<owner, pinger>>
         \/ /\ Ended(t) /\ owner' = WithoutOwner(t)
            /\ pinger' = IF t = Pinger THEN "dead" ELSE pinger
      /\ UNCHANGED <<machineVars, clientVars, asleep, pinged, pings>>
  BY Zenon DEF UseGroupStep
<1>2. /\ calls[t] # <<>> /\ Head(calls[t]) = calls[t][1] /\ calls[t][1] \in PlainCall
      /\ calls[t][1][1] = "useGroup" /\ Names(calls[t][1])
  BY Zenon, <1>1, HeadIsPlain
<1>3. c \in Client
  BY <1>2 DEF Names, Call
<1>4. clientState' = clientState /\ asleep' = asleep
  BY <1>1 DEF clientVars
<1>5. TypesOK
  BY LocksParts
<1>6. CASE Then(t, <<SetClientState(c, "DISCONNECTED")>>) /\ UNCHANGED <<owner, pinger>>
  <2>1. TypesOK'
    BY <1>1, <1>5, <1>6 DEF TypesOK, LocksTypeOK, OwnerOK, machineVars, clientVars, pingVars
  <2>2. SetClientState(c, "DISCONNECTED") \in QuietCall
    BY <1>3, QuietCalls
  <2>3. Quiet(<<SetClientState(c, "DISCONNECTED")>>)
    BY Zenon, <2>2, QuietLists
  <2>4. \A d \in Client : owner'[RetrieverLock(d)] = owner[RetrieverLock(d)]
    BY <1>6
  <2>5. ~Changing(calls[t][1])
    BY <1>2 DEF Changing
  <2>6. StacksInv'
    BY Zenon, <1>2, <1>4, <1>6, <2>3, <2>4, <2>5, PlainNameStep
  <2> QED BY <2>1, <2>6, LocksParts
<1>7. CASE Ended(t) /\ owner' = WithoutOwner(t)
  <2> PICK m : m = IF t = Checker THEN <<>> ELSE <<Call("dead", NoOne)>>
    OBVIOUS
  <2>1. calls' = [calls EXCEPT ![t] = m]
    BY Zenon, <1>7 DEF Ended
  <2>2. QuietFor(t, m)
    <3>1. Quiet(m)
      BY Zenon, QuietCalls, QuietLists
    <3> QED BY Zenon, <3>1 DEF Quiet, QuietFor
  <2>3. OwnerOK(owner)
    BY <1>5 DEF TypesOK
  <2>4. \A d \in Client :
          owner'[RetrieverLock(d)] = IF calls[t] # <<>> /\ owner[RetrieverLock(d)].by = t
                                     THEN [by |-> NoOne, depth |-> 0]
                                     ELSE owner[RetrieverLock(d)]
    BY Zenon, <1>2, <1>7, <2>3, LocksDiffer, Monitors
  <2>5. StacksInv'
    BY Zenon, <1>2, <1>4, <2>1, <2>2, <2>4, QuietBegin
  <2>6. OwnerOK(owner')
    BY Zenon, <1>7, <2>3, Monitors
  <2>7. TypesOK'
    BY <1>1, <1>5, <2>6 DEF TypesOK, LocksTypeOK, OwnerOK, machineVars, clientVars
  <2> QED BY <2>5, <2>7, LocksParts
<1> QED BY <1>1, <1>6, <1>7

\* A ping or the greeting; the visit of a group is sent by its retriever.
LEMMA SendKeeps ==
  ASSUME LocksInv, NEW t \in Threads, SendStep(t), Calling(t, "send") PROVE LocksInv'
<1> PICK c : c = Head(calls[t])[2]
  OBVIOUS
<1>1. /\ calls[t] # <<>> /\ Head(calls[t]) = calls[t][1] /\ calls[t][1] \in PlainCall
      /\ calls[t][1][1] = "send" /\ Names(calls[t][1])
  BY Zenon, HeadIsPlain
<1>2. c \in Client
  BY <1>1 DEF Names, Call
<1>3. /\ Then(t, <<>>) \/ Then(t, <<SetClientState(c, "DISCONNECTED")>>)
      /\ UNCHANGED <<machineVars, clientState, hasGroup, urls, owner, asleep, pingVars>>
  <2>1. calls[t][1][1] # "sendVisit"
    BY <1>1
  <2> QED BY Zenon, <2>1 DEF SendStep
<1>4. TypesOK'
  BY <1>3, LocksParts DEF TypesOK, LocksTypeOK, OwnerOK, machineVars, pingVars
<1>5. StacksInv'
  <2>1. SetClientState(c, "DISCONNECTED") \in QuietCall
    BY <1>2, QuietCalls
  <2>2. Quiet(<<>>) /\ Quiet(<<SetClientState(c, "DISCONNECTED")>>)
    BY Zenon, <2>1, QuietLists
  <2>3. PICK m : Quiet(m) /\ Then(t, m)
    BY Zenon, <1>3, <2>2
  <2>4. \A d \in Client : owner'[RetrieverLock(d)] = owner[RetrieverLock(d)]
    BY <1>3
  <2>5. ~Changing(calls[t][1]) /\ clientState' = clientState /\ asleep' = asleep
    BY <1>1, <1>3 DEF Changing
  <2> QED BY Zenon, <1>1, <2>3, <2>4, <2>5, PlainNameStep
<1> QED BY <1>4, <1>5, LocksParts

LEMMA NotifyPingerKeeps ==
  ASSUME LocksInv, NEW t \in Threads, NotifyPingerStep(t) PROVE LocksInv'
<1> PICK c : c = Head(calls[t])[2]
  OBVIOUS
<1>1. /\ Calling(t, "notifyPinger") /\ Then(t, <<>>)
      /\ \/ pinged' = WithoutClient(c)
         \/ SameMachine(c) = {} /\ pinged' = pinged \cup {c}
         \/ pinged' = pinged
      /\ owner' = Left(ClientLock(c))
      /\ UNCHANGED <<machineVars, clientVars, asleep, pings>>
  BY Zenon DEF NotifyPingerStep
<1>2. /\ calls[t] # <<>> /\ Head(calls[t]) = calls[t][1] /\ calls[t][1] \in PlainCall
      /\ calls[t][1][1] = "notifyPinger" /\ Names(calls[t][1])
  BY Zenon, <1>1, HeadIsPlain
<1>3. c \in Client /\ ClientLock(c) \in Locks
  <2>1. c \in Client
    BY <1>2 DEF Names, Call
  <2> QED BY <2>1 DEF Locks
<1>4. TypesOK /\ OwnerOK(owner)
  BY LocksParts DEF TypesOK
<1>5. \A d \in Client : owner'[RetrieverLock(d)] = owner[RetrieverLock(d)]
  <2> SUFFICES ASSUME NEW d \in Client
               PROVE  owner'[RetrieverLock(d)] = owner[RetrieverLock(d)]
    OBVIOUS
  <2>1. RetrieverLock(d) \in Locks /\ RetrieverLock(d) # ClientLock(c)
    BY LocksDiffer
  <2>2. \A k \in Locks : k # ClientLock(c) => owner'[k] = owner[k]
    BY Zenon, <1>1, <1>3, <1>4, OtherMonitors
  <2> QED BY Zenon, <2>1, <2>2
<1>6. TypesOK'
  <2>1. OwnerOK(owner')
    BY Zenon, <1>1, <1>3, <1>4, Monitors
  <2>2. pinged' \subseteq Client /\ \A a, b \in pinged' : machineOf[a] = machineOf[b] => a = b
    <3>1. pinged \subseteq Client /\ \A a, b \in pinged : machineOf[a] = machineOf[b] => a = b
      BY <1>4 DEF TypesOK, LocksTypeOK
    <3> QED BY <1>1, <1>3, <3>1 DEF WithoutClient, SameMachine
  <2> QED BY <1>1, <1>4, <2>1, <2>2 DEF TypesOK, LocksTypeOK, OwnerOK, machineVars, clientVars
<1>7. StacksInv'
  <2>1. Quiet(<<>>) /\ clientState' = clientState /\ asleep' = asleep
    BY <1>1, QuietLists DEF clientVars
  <2>2. ~Changing(calls[t][1])
    BY <1>2 DEF Changing
  <2> QED BY Zenon, <1>1, <1>2, <1>5, <2>1, <2>2, PlainNameStep
<1> QED BY <1>6, <1>7, LocksParts

LEMMA SecondOfTail ==
  ASSUME NEW S, NEW q \in Seq(S), Len(q) > 1
  PROVE  Tail(q)[1] = q[2] /\ Tail(q) # <<>>
<1>1. q # <<>> /\ Len(q) \in Nat
  BY LenProperties
<1>2. Len(Tail(q)) = Len(q) - 1 /\ \A i \in 1 .. Len(Tail(q)) : Tail(q)[i] = q[i + 1]
  BY <1>1, HeadTailProperties
<1>3. 1 \in 1 .. Len(Tail(q)) /\ Tail(q) # <<>>
  <2>1. Len(Tail(q)) # 0 /\ 1 \in 1 .. Len(Tail(q))
    BY <1>1, <1>2
  <2>2. Tail(q) # <<>>
    BY Zenon, <1>1, <2>1, EmptySeq, HeadTailProperties
  <2> QED BY <2>1, <2>2
<1>4. ASSUME NEW i \in 1 .. Len(Tail(q)), i = 1 PROVE Tail(q)[i] = q[2]
  <2>1. Tail(q)[i] = q[i + 1]
    BY Zenon, <1>2
  <2>2. i + 1 = 2
    BY <1>4
  <2> QED BY Zenon, <2>1, <2>2
<1> QED BY Zenon, <1>3, <1>4

\* The notification a receiver owes comes closer.
LEMMA NoticeStays ==
  ASSUME LocksInv, NEW t \in Threads, NEW c \in Client, t = Receiver(c), Noticed(c), NEW m, Then(t, m),
         calls[t][1] # Call("notifyAll", c),
         m = <<>> \/ \E v \in Machine : m = <<Call("notifyVm", v)>>
  PROVE  Noticed(c)'
<1> PICK q : q = calls[t]
  OBVIOUS
<1>1. q \in Seq(AnyCall) /\ calls \in [Threads -> Seq(AnyCall)]
  BY DEF LocksInv, StackInv
<1>2. q # <<>> /\ Len(q) > 1 /\ q[2] = Call("notifyAll", c)
  BY DEF Noticed
<1>3. calls'[Receiver(c)] = m \o Tail(q)
  BY <1>1 DEF Then
<1>4. Tail(q) \in Seq(AnyCall) /\ Len(Tail(q)) = Len(q) - 1 /\ Len(q) \in Nat
  BY <1>1, <1>2, HeadTailProperties, LenProperties
<1>5. Tail(q)[1] = q[2] /\ Tail(q) # <<>>
  BY Zenon, <1>1, <1>2, SecondOfTail
<1>6. CASE m = <<>>
  <2>1. calls'[Receiver(c)] = Tail(q)
    BY Zenon, <1>3, <1>4, <1>6, ConcatEmptySeq
  <2> QED BY <1>2, <1>5, <2>1 DEF Noticed
<1>7. ASSUME NEW v \in Machine, m = <<Call("notifyVm", v)>> PROVE Noticed(c)'
  <2> PICK s : s = Tail(q)
    OBVIOUS
  <2> PICK k : k = Call("notifyVm", v)
    OBVIOUS
  <2>1. s \in Seq(AnyCall) /\ Len(s) \in Nat /\ Len(s) > 0 /\ s[1] = Call("notifyAll", c)
    BY <1>2, <1>4, <1>5
  <2>2. k \in AnyCall
    BY QuietCalls DEF QuietCall, AnyCall
  <2>3. LET r == <<k>> \o s IN r # <<>> /\ Len(r) > 1 /\ r[1] = k /\ r[2] = s[1]
    <3> HIDE DEF Call
    <3>1. <<k>> \in Seq(AnyCall) /\ Len(<<k>>) = 1 /\ <<k>>[1] = k
      BY <2>2
    <3> PICK o : o = <<k>>
      OBVIOUS
    <3>2. LET r == o \o s IN
            /\ r \in Seq(AnyCall) /\ Len(r) = 1 + Len(s)
            /\ \A i \in 1 .. Len(o) + Len(s) : r[i] = IF i <= Len(o) THEN o[i] ELSE s[i - Len(o)]
      BY <2>1, <3>1, ConcatProperties
    <3>3. o[1] = k /\ Len(o) = 1
      BY <3>1
    <3>4. LET r == o \o s IN r[1] = k /\ r[2] = s[1] /\ Len(r) > 1 /\ r # <<>>
      BY <2>1, <3>2, <3>3
    <3> QED BY <3>4
  <2>4. calls'[Receiver(c)] = <<k>> \o s
    BY <1>3, <1>7
  <2>5. LET p == calls'[Receiver(c)] IN
          p # <<>> /\ Len(p) > 1 /\ p[1] = Call("notifyVm", v) /\ p[2] = Call("notifyAll", c)
    BY <2>1, <2>3, <2>4
  <2> QED BY Zenon, <2>5 DEF Noticed
<1> QED BY <1>6, <1>7

LEMMA NotifyVmKeeps == ASSUME LocksInv, NEW t \in Threads, NotifyVmStep(t) PROVE LocksInv'
<1>1. /\ Calling(t, "notifyVm") /\ Then(t, <<>>)
      /\ UNCHANGED <<machineOf, vmState, vmClient, reverts, clientVars, owner, asleep, pingVars>>
  BY Zenon DEF NotifyVmStep
<1>2. /\ calls[t] # <<>> /\ calls[t][1] \in PlainCall /\ calls[t][1][1] = "notifyVm"
  BY Zenon, <1>1, HeadIsPlain
<1>3. TypesOK'
  BY <1>1, LocksParts DEF TypesOK, LocksTypeOK, OwnerOK, clientVars, pingVars
<1>4. clientState' = clientState /\ asleep' = asleep
      /\ \A c \in Client : owner'[RetrieverLock(c)] = owner[RetrieverLock(c)]
  BY <1>1 DEF clientVars
<1>5. ASSUME NEW c \in Client
      PROVE  /\ calls[t][1] # SetClientState(c, "DISCONNECTED")
             /\ calls[t][1] # Call("notifyAll", c)
  BY <1>2 DEF SetClientState, Call
<1>6. Quiet(<<>>)
  BY QuietLists
<1>7. ASSUME NEW c \in Client, t = Receiver(c), Noticed(c) PROVE Noticed(c)'
  BY Zenon, <1>1, <1>5, <1>7, NoticeStays
<1>8. asleep' \subseteq asleep /\ \A c \in Client : clientState'[c] = clientState[c]
  BY <1>4
<1>9. StacksInv'
  BY Zenon, <1>1, <1>2, <1>4, <1>5, <1>6, <1>7, <1>8, QuietStep
<1> QED BY <1>3, <1>9, LocksParts

LEMMA NotifyAllKeeps == ASSUME LocksInv, NEW t \in Threads, NotifyAllStep(t) PROVE LocksInv'
<1> PICK d : d = Head(calls[t])[2]
  OBVIOUS
<1>1. /\ Calling(t, "notifyAll") /\ MayEnter(t, RetrieverLock(d)) /\ Then(t, <<>>)
      /\ asleep' = asleep \ {d}
      /\ UNCHANGED <<machineVars, clientVars, owner, pingVars>>
  BY Zenon DEF NotifyAllStep
<1>2. /\ calls[t] # <<>> /\ calls[t][1] \in PlainCall /\ calls[t][1][1] = "notifyAll"
      /\ Head(calls[t]) = calls[t][1]
  BY Zenon, <1>1, HeadIsPlain
<1>3. TypesOK'
  BY <1>1, LocksParts DEF TypesOK, LocksTypeOK, OwnerOK, machineVars, clientVars, pingVars
<1>4. /\ \A c \in Client : clientState'[c] = clientState[c]
      /\ \A c \in Client : owner'[RetrieverLock(c)] = owner[RetrieverLock(c)]
      /\ asleep' \subseteq asleep
  BY <1>1 DEF clientVars
<1>5. ASSUME NEW c \in Client PROVE calls[t][1] # SetClientState(c, "DISCONNECTED")
  BY <1>2 DEF SetClientState
<1>6. Quiet(<<>>)
  BY QuietLists
<1>7. ASSUME NEW c \in Client, t = Receiver(c), Noticed(c) PROVE c \notin asleep' /\ ~Leaving(c)
  <2>1. calls[t][1] = Call("notifyAll", c)
    <3>1. \A v \in Machine : calls[t][1] # SetVmState(v, "RUNNING") /\ calls[t][1] # Call("notifyVm", v)
      BY <1>2 DEF SetVmState, Call
    <3> QED BY <1>7, <3>1 DEF Noticed
  <2>2. d = c
    BY <1>2, <2>1 DEF Call
  <2>3. ~Inside(c)
    <3>1. MonitorInv
      BY DEF LocksInv
    <3>2. t # Retriever(c)
      BY Zenon, <1>7, ThreadsDiffer
    <3>3. owner[RetrieverLock(c)].depth = 0 \/ owner[RetrieverLock(c)].by = t
      BY <1>1, <2>2 DEF MayEnter
    <3> QED BY <3>1, <3>2, <3>3 DEF MonitorInv
  <2> QED BY <1>1, <2>2, <2>3 DEF Leaving
<1>8. StacksInv'
  BY Zenon, <1>1, <1>2, <1>4, <1>5, <1>6, <1>7, QuietStep
<1> QED BY <1>3, <1>8, LocksParts

LEMMA VmStateKeeps == ASSUME LocksInv, NEW t \in Threads, VmStateStep(t) PROVE LocksInv'
<1> PICK v : v = Head(calls[t])[2]
  OBVIOUS
<1> PICK s : s = Head(calls[t])[3]
  OBVIOUS
<1> PICK c : c = vmClient[v]
  OBVIOUS
<1>1. /\ Calling(t, "VirtualMachine.setState") /\ vmState' = [vmState EXCEPT ![v] = s]
      /\ \/ /\ s = "WAITING_TO_BE_REVERTED" /\ c # NoOne
            /\ owner' = Entered(t, VmLock(v))
            /\ Then(t, <<SetClientState(c, "DISCONNECTED"), Leave(VmLock(v)), Call("notifyVm", v)>>)
         \/ /\ Then(t, <<>>) \/ Then(t, <<Call("notifyVm", v)>>)
            /\ owner' = owner
      /\ UNCHANGED <<machineOf, vmClient, requested, reverts, clientVars, asleep, pingVars>>
  BY Zenon DEF VmStateStep
<1>2. /\ calls[t] # <<>> /\ calls[t][1] \in PlainCall /\ Head(calls[t]) = calls[t][1]
      /\ calls[t][1][1] = "VirtualMachine.setState" /\ Names(calls[t][1])
  BY Zenon, <1>1, HeadIsPlain
<1>3. v \in Machine /\ s \in {"RUNNING", "WAITING_TO_BE_REVERTED"}
      /\ calls[t][1] = SetVmState(v, s)
  <2>1. PICK a \in Machine, b \in {"RUNNING", "WAITING_TO_BE_REVERTED"} :
          calls[t][1] = SetVmState(a, b)
    BY <1>2 DEF Names
  <2>2. v = a /\ s = b
    BY <1>2, <2>1 DEF SetVmState
  <2> QED BY <2>1, <2>2
<1>4. TypesOK /\ OwnerOK(owner) /\ VmLock(v) \in Locks /\ c \in Client \cup {NoOne}
  BY <1>3, LocksParts DEF TypesOK, LocksTypeOK, Locks
<1>5. owner' = Entered(t, VmLock(v)) \/ owner' = owner
  BY Zenon, <1>1
<1>6. OwnerOK(owner') /\ \A d \in Client : owner'[RetrieverLock(d)] = owner[RetrieverLock(d)]
  <2>1. CASE owner' = Entered(t, VmLock(v))
    <3>1. OwnerOK(owner')
      BY Zenon, <1>4, <2>1, Monitors
    <3>2. ASSUME NEW d \in Client PROVE owner'[RetrieverLock(d)] = owner[RetrieverLock(d)]
      <4>1. RetrieverLock(d) \in Locks /\ RetrieverLock(d) # VmLock(v)
        BY LocksDiffer
      <4>2. \A k \in Locks : k # VmLock(v) => owner'[k] = owner[k]
        BY Zenon, <1>4, <2>1, OtherMonitors
      <4> QED BY Zenon, <4>1, <4>2
    <3> QED BY <3>1, <3>2
  <2>2. CASE owner' = owner
    BY <1>4, <2>2
  <2> QED BY <1>5, <2>1, <2>2
<1>7. TypesOK'
  BY <1>1, <1>3, <1>4, <1>6 DEF TypesOK, LocksTypeOK, OwnerOK, clientVars, pingVars
<1>8. clientState' = clientState /\ asleep' \subseteq asleep
      /\ \A d \in Client : clientState'[d] = clientState[d]
  BY <1>1 DEF clientVars
<1>9. ASSUME NEW d \in Client
      PROVE  /\ calls[t][1] # SetClientState(d, "DISCONNECTED")
             /\ calls[t][1] # Call("notifyAll", d)
  BY <1>2 DEF SetClientState, Call
<1>10. CASE /\ s = "WAITING_TO_BE_REVERTED" /\ c # NoOne
            /\ Then(t, <<SetClientState(c, "DISCONNECTED"), Leave(VmLock(v)), Call("notifyVm", v)>>)
  <2>1. /\ SetClientState(c, "DISCONNECTED") \in QuietCall /\ Leave(VmLock(v)) \in QuietCall
        /\ Call("notifyVm", v) \in QuietCall
    BY <1>3, <1>4, <1>10, QuietCalls
  <2>2. Quiet(<<SetClientState(c, "DISCONNECTED"), Leave(VmLock(v)), Call("notifyVm", v)>>)
    BY Zenon, <2>1, QuietLists
  <2>3. ASSUME NEW d \in Client, t = Receiver(d) PROVE ~Noticed(d)
    <3>1. calls[t][1][3] = "WAITING_TO_BE_REVERTED"
      BY <1>3, <1>10 DEF SetVmState
    <3>2. \A w \in Machine : calls[t][1] # SetVmState(w, "RUNNING")
      BY <3>1 DEF SetVmState
    <3>3. \A w \in Machine : calls[t][1] # Call("notifyVm", w)
      BY <1>2 DEF Call
    <3> QED BY Zenon, <1>9, <2>3, <3>2, <3>3 DEF Noticed
  <2>4. StacksInv'
    BY Zenon, <1>2, <1>6, <1>8, <1>9, <1>10, <2>2, <2>3, QuietStep
  <2> QED BY <1>7, <2>4, LocksParts
<1>11. CASE Then(t, <<>>) \/ Then(t, <<Call("notifyVm", v)>>)
  <2>1. Call("notifyVm", v) \in QuietCall
    BY <1>3, QuietCalls
  <2>2. PICK m : Quiet(m) /\ Then(t, m) /\ (m = <<>> \/ \E w \in Machine : m = <<Call("notifyVm", w)>>)
    BY Zenon, <1>3, <1>11, <2>1, QuietLists
  <2>3. ASSUME NEW d \in Client, t = Receiver(d), Noticed(d) PROVE Noticed(d)'
    BY Zenon, <1>9, <2>2, <2>3, NoticeStays
  <2>4. StacksInv'
    BY Zenon, <1>2, <1>6, <1>8, <1>9, <2>2, <2>3, QuietStep
  <2> QED BY <1>7, <2>4, LocksParts
<1> QED BY Zenon, <1>1, <1>10, <1>11

LEMMA Joined ==
  ASSUME NEW i, NEW j, NEW k
  PROVE  <<>> \o <<k>> = <<k>> /\ <<i>> \o <<k>> = <<i, k>> /\ <<i, j>> \o <<k>> = <<i, j, k>>
<1> PICK S : S = {i, j, k}
  OBVIOUS
<1>1. /\ <<k>> \in Seq(S) /\ Len(<<k>>) = 1 /\ <<k>>[1] = k
      /\ <<i>> \in Seq(S) /\ Len(<<i>>) = 1 /\ <<i>>[1] = i
      /\ <<i, k>> \in Seq(S) /\ Len(<<i, k>>) = 2 /\ <<i, k>>[1] = i /\ <<i, k>>[2] = k
  OBVIOUS
<1>2. /\ <<i, j>> \in Seq(S) /\ Len(<<i, j>>) = 2 /\ <<i, j>>[1] = i /\ <<i, j>>[2] = j
      /\ <<i, j, k>> \in Seq(S) /\ Len(<<i, j, k>>) = 3
      /\ <<i, j, k>>[1] = i /\ <<i, j, k>>[2] = j /\ <<i, j, k>>[3] = k
  OBVIOUS
<1>3. <<>> \o <<k>> = <<k>>
  OBVIOUS
<1>4. ASSUME NEW a, NEW b, NEW r, a = <<i>>, b = <<k>>, r = <<i, k>> PROVE a \o b = r
  <2>1. /\ a \o b \in Seq(S) /\ Len(a \o b) = Len(a) + Len(b)
        /\ \A n \in 1 .. Len(a) + Len(b) : (a \o b)[n] = IF n <= Len(a) THEN a[n] ELSE b[n - Len(a)]
    <3>1. a \in Seq(S) /\ b \in Seq(S)
      BY <1>1, <1>4
    <3> QED BY Zenon, <3>1, ConcatProperties
  <2>2. /\ r \in Seq(S) /\ Len(r) = 2 /\ Len(a) = 1 /\ Len(b) = 1
        /\ r[1] = a[1] /\ r[2] = b[1]
    BY <1>1, <1>4
  <2>3. Len(a \o b) = Len(r) /\ \A n \in 1 .. Len(a \o b) : (a \o b)[n] = r[n]
    BY <2>1, <2>2
  <2> QED BY Zenon, <2>1, <2>2, <2>3, SeqEqual
<1>5. ASSUME NEW a, NEW b, NEW r, a = <<i, j>>, b = <<k>>, r = <<i, j, k>> PROVE a \o b = r
  <2>1. /\ a \o b \in Seq(S) /\ Len(a \o b) = Len(a) + Len(b)
        /\ \A n \in 1 .. Len(a) + Len(b) : (a \o b)[n] = IF n <= Len(a) THEN a[n] ELSE b[n - Len(a)]
    <3>1. a \in Seq(S) /\ b \in Seq(S)
      BY <1>1, <1>2, <1>5
    <3> QED BY Zenon, <3>1, ConcatProperties
  <2>2. /\ r \in Seq(S) /\ Len(r) = 3 /\ Len(a) = 2 /\ Len(b) = 1
        /\ r[1] = a[1] /\ r[2] = a[2] /\ r[3] = b[1]
    BY <1>1, <1>2, <1>5
  <2>3. Len(a \o b) = Len(r) /\ \A n \in 1 .. Len(a \o b) : (a \o b)[n] = r[n]
    BY <2>1, <2>2
  <2> QED BY Zenon, <2>1, <2>2, <2>3, SeqEqual
<1> QED BY <1>3, <1>4, <1>5

LEMMA AfterClientStateIs ==
  ASSUME NEW c \in Client, NEW s \in ClientStates \ {"NEW"}, machineOf[c] \in Machine
  PROVE  /\ Quiet(AfterClientState(c, s))
         /\ s = "WAITING" => AfterClientState(c, s) =
              <<SetVmState(machineOf[c], "RUNNING"), Call("notifyAll", c), Call("notifyPinger", c)>>
<1> DEFINE vm == SetVmState(machineOf[c], "RUNNING")
           dis == Call("disconnect", c)
           all == Call("notifyAll", c)
           ping == Call("notifyPinger", c)
           send == Call("send", c)
<1>1. /\ vm \in QuietCall /\ dis \in QuietCall /\ all \in QuietCall /\ ping \in QuietCall
      /\ send \in QuietCall
  BY QuietCalls
<1>2. AfterClientState(c, s) =
        (CASE s = "WAITING" -> <<vm, all>> [] s = "DISCONNECTED" -> <<dis, all>>
           [] s = "CONNECTED" -> <<send>> [] OTHER -> <<>>) \o <<ping>>
  BY DEF AfterClientState
<1> HIDE DEF vm, dis, all, ping, send
<1>3. CASE s = "WAITING"
  <2>1. AfterClientState(c, s) = <<vm, all>> \o <<ping>>
    BY <1>2, <1>3
  <2>2. AfterClientState(c, s) = <<vm, all, ping>>
    BY Zenon, <2>1, Joined
  <2>3. Quiet(<<vm, all, ping>>)
    BY Zenon, <1>1, QuietLists
  <2> QED BY <2>2, <2>3 DEF vm, all, ping
<1>4. CASE s = "DISCONNECTED"
  <2>1. AfterClientState(c, s) = <<dis, all>> \o <<ping>>
    BY <1>2, <1>4
  <2>2. AfterClientState(c, s) = <<dis, all, ping>>
    BY Zenon, <2>1, Joined
  <2>3. Quiet(<<dis, all, ping>>)
    BY Zenon, <1>1, QuietLists
  <2> QED BY <1>4, <2>2, <2>3
<1>5. CASE s = "CONNECTED"
  <2>1. AfterClientState(c, s) = <<send>> \o <<ping>>
    BY <1>2, <1>5
  <2>2. AfterClientState(c, s) = <<send, ping>>
    BY Zenon, <2>1, Joined
  <2>3. Quiet(<<send, ping>>)
    BY Zenon, <1>1, QuietLists
  <2> QED BY <1>5, <2>2, <2>3
<1>6. CASE s \notin {"WAITING", "DISCONNECTED", "CONNECTED"}
  <2>1. AfterClientState(c, s) = <<>> \o <<ping>>
    BY <1>2, <1>6
  <2>2. AfterClientState(c, s) = <<ping>>
    BY Zenon, <2>1, Joined
  <2>3. Quiet(<<ping>>)
    BY Zenon, <1>1, QuietLists
  <2> QED BY <1>6, <2>2, <2>3
<1> QED BY <1>3, <1>4, <1>5, <1>6

\* A client that waits has its notification next on the receiver's stack.
LEMMA NoticeBegins ==
  ASSUME LocksInv, NEW c \in Client, NEW v \in Machine, calls[Receiver(c)] # <<>>,
         Then(Receiver(c), <<SetVmState(v, "RUNNING"), Call("notifyAll", c),
                             Call("notifyPinger", c)>>)
  PROVE  Noticed(c)'
<1> PICK q : q = calls[Receiver(c)]
  OBVIOUS
<1> PICK i : i = SetVmState(v, "RUNNING")
  OBVIOUS
<1> PICK j : j = Call("notifyAll", c)
  OBVIOUS
<1> PICK k : k = Call("notifyPinger", c)
  OBVIOUS
<1> PICK m : m = <<i, j, k>>
  OBVIOUS
<1>1. Receiver(c) \in Threads
  BY ThreadsDiffer
<1>2. calls \in [Threads -> Seq(AnyCall)] /\ q \in Seq(AnyCall) /\ q # <<>>
  BY <1>1 DEF LocksInv, StackInv
<1>3. i \in AnyCall /\ j \in AnyCall /\ k \in AnyCall
  BY QuietCalls DEF QuietCall, AnyCall
<1>4. m \in Seq(AnyCall) /\ Len(m) = 3 /\ m[1] = i /\ m[2] = j
  BY <1>3
<1>5. PICK r : r = m \o Tail(q) /\ calls'[Receiver(c)] = r
  BY Zenon, <1>1, <1>2 DEF Then
<1>6. /\ Len(r) = Len(m) + Len(q) - 1 /\ Len(q) \in Nat /\ Len(q) > 0 /\ r \in Seq(AnyCall)
      /\ \A n \in 1 .. Len(m) : r[n] = m[n]
  BY <1>2, <1>4, <1>5, Stacked
<1>7. Len(r) > 1 /\ r # <<>>
  <2>1. Len(r) > 1
    BY <1>4, <1>6
  <2> QED BY <2>1
<1>8. r[1] = i /\ r[2] = j
  <2>1. 1 \in 1 .. Len(m) /\ 2 \in 1 .. Len(m)
    BY <1>4
  <2> QED BY Zenon, <1>4, <1>6, <2>1
<1> QED BY Zenon, <1>5, <1>7, <1>8 DEF Noticed

LEMMA ClientStateKeeps == ASSUME LocksInv, NEW t \in Threads, ClientStateStep(t) PROVE LocksInv'
<1> PICK c : c = Head(calls[t])[2]
  OBVIOUS
<1> PICK s : s = Head(calls[t])[3]
  OBVIOUS
<1>1. /\ Calling(t, "setClientState")
      /\ \/ clientState[c] = s /\ Then(t, <<>>) /\ UNCHANGED <<clientState, owner>>
         \/ /\ clientState' = [clientState EXCEPT ![c] = s]
            /\ owner' = Entered(t, ClientLock(c)) /\ Then(t, AfterClientState(c, s))
      /\ UNCHANGED <<machineVars, hasGroup, wire, urls, asleep, pingVars>>
  BY Zenon DEF ClientStateStep
<1>2. /\ calls[t] # <<>> /\ calls[t][1] \in PlainCall /\ Head(calls[t]) = calls[t][1]
      /\ calls[t][1][1] = "setClientState" /\ Names(calls[t][1]) /\ calls[t] \in Seq(AnyCall)
  BY Zenon, <1>1, HeadIsPlain
<1>3. /\ c \in Client /\ s \in ClientStates \ {"NEW"} /\ calls[t][1] = SetClientState(c, s)
      /\ \A d, r : calls[t][1] = SetClientState(d, r) => d = c /\ r = s
  <2>1. PICK a \in Client, b \in ClientStates \ {"NEW"} : calls[t][1] = SetClientState(a, b)
    BY <1>2 DEF Names
  <2>2. \A d, r : SetClientState(d, r)[2] = d /\ SetClientState(d, r)[3] = r
    BY DEF SetClientState
  <2>3. c = a /\ s = b
    BY <1>2, <2>1, <2>2
  <2>4. ASSUME NEW d, NEW r, calls[t][1] = SetClientState(d, r) PROVE d = c /\ r = s
    BY <1>2, <2>2, <2>4
  <2> QED BY <2>1, <2>3, <2>4
<1>4. TypesOK /\ OwnerOK(owner) /\ ClientLock(c) \in Locks /\ machineOf[c] \in Machine
      /\ clientState \in [Client -> ClientStates]
  BY <1>3, LocksParts DEF TypesOK, LocksTypeOK, Locks
<1>5. ASSUME NEW d \in Client, t = Receiver(d) PROVE ~Noticed(d)
  <2>1. /\ \A v \in Machine : /\ calls[t][1] # SetVmState(v, "RUNNING")
                              /\ calls[t][1] # Call("notifyVm", v)
        /\ calls[t][1] # Call("notifyAll", d)
    BY <1>2 DEF SetVmState, Call
  <2> QED BY Zenon, <1>5, <2>1 DEF Noticed
<1>6. asleep' \subseteq asleep
  BY <1>1
<1>7. CASE clientState[c] = s /\ Then(t, <<>>) /\ UNCHANGED <<clientState, owner>>
  <2>1. TypesOK'
    BY <1>1, <1>4, <1>7 DEF TypesOK, LocksTypeOK, OwnerOK, machineVars, pingVars
  <2>2. ASSUME NEW d \in Client
        PROVE  /\ owner'[RetrieverLock(d)] = owner[RetrieverLock(d)]
               /\ clientState'[d] = clientState[d]
               /\ calls[t][1] = SetClientState(d, "DISCONNECTED") => clientState'[d] # "WAITING"
    <3>1. calls[t][1] = SetClientState(d, "DISCONNECTED") => clientState[d] = "DISCONNECTED"
      BY Zenon, <1>3, <1>7
    <3> QED BY <1>7, <3>1
  <2>3. StacksInv'
    BY Zenon, <1>2, <1>5, <1>6, <1>7, <2>2, QuietLists, QuietStep
  <2> QED BY <2>1, <2>3, LocksParts
<1>8. CASE /\ clientState' = [clientState EXCEPT ![c] = s]
           /\ owner' = Entered(t, ClientLock(c)) /\ Then(t, AfterClientState(c, s))
  <2>1. OwnerOK(owner')
    BY Zenon, <1>4, <1>8, OtherMonitors
  <2>2. TypesOK'
    BY <1>1, <1>3, <1>4, <1>8, <2>1 DEF TypesOK, LocksTypeOK, OwnerOK, machineVars, pingVars
  <2>3. ASSUME NEW d \in Client PROVE owner'[RetrieverLock(d)] = owner[RetrieverLock(d)]
    <3>1. RetrieverLock(d) \in Locks /\ RetrieverLock(d) # ClientLock(c)
      BY LocksDiffer
    <3>2. \A k \in Locks : k # ClientLock(c) => owner'[k] = owner[k]
      BY Zenon, <1>4, <1>8, OtherMonitors
    <3> QED BY Zenon, <3>1, <3>2
  <2>4. clientState'[c] = s /\ \A d \in Client : d # c => clientState'[d] = clientState[d]
    BY <1>3, <1>4, <1>8
  <2>5. ASSUME NEW d \in Client
        PROVE  /\ clientState'[d] = "NEW" => clientState[d] = "NEW"
               /\ calls[t][1] = SetClientState(d, "DISCONNECTED") => clientState'[d] # "WAITING"
    <3>1. calls[t][1] = SetClientState(d, "DISCONNECTED") => d = c /\ s = "DISCONNECTED"
      BY Zenon, <1>3
    <3> QED BY <1>3, <2>4, <3>1
  <2>6. Quiet(AfterClientState(c, s))
    BY Zenon, <1>3, <1>4, AfterClientStateIs
  <2>7. ASSUME NEW d \in Client, clientState'[d] = "WAITING"
        PROVE  clientState[d] = "WAITING" \/ Noticed(d)'
    <3>1. CASE d # c
      BY <2>4, <2>7, <3>1
    <3>2. CASE d = c
      <4>1. s = "WAITING"
        BY <2>4, <2>7, <3>2
      <4>2. t = Receiver(c)
        <5>1. 1 \in DOMAIN calls[t]
          BY <1>2, EmptySeq, LenProperties
        <5>2. calls[t][1] = SetClientState(c, "WAITING")
          BY Zenon, <1>3, <4>1
        <5> QED BY Zenon, <1>3, <5>1, <5>2 DEF LocksInv, StackInv
      <4>3. Then(t, <<SetVmState(machineOf[c], "RUNNING"), Call("notifyAll", c),
                      Call("notifyPinger", c)>>)
        BY Zenon, <1>3, <1>4, <1>8, <4>1, AfterClientStateIs
      <4> QED BY Zenon, <1>2, <1>3, <1>4, <3>2, <4>2, <4>3, NoticeBegins
    <3> QED BY <3>1, <3>2
  <2>8. StacksInv'
    BY Zenon, <1>2, <1>5, <1>6, <1>8, <2>3, <2>5, <2>6, <2>7, QuietStep
  <2> QED BY <2>2, <2>8, LocksParts
<1> QED BY Zenon, <1>1, <1>7, <1>8

\* Threads that start something.
LEMMA EndRevertKeeps == ASSUME LocksInv, NEW v \in Machine, EndRevert(v) PROVE LocksInv'
<1> PICK t : t = Worker(v)
  OBVIOUS
<1>1. /\ Calling(t, "reverted") /\ vmState' = [vmState EXCEPT ![v] = "RUNNING"]
      /\ Then(t, <<Leave(VmLock(v))>>)
      /\ UNCHANGED <<machineOf, vmClient, clientVars, owner, asleep, pingVars>>
  BY Zenon DEF EndRevert
<1>2. t \in Threads
  BY ThreadsDiffer
<1>3. calls[t] # <<>> /\ calls[t][1] \in PlainCall /\ calls[t][1][1] = "reverted"
  BY Zenon, <1>1, <1>2, HeadIsPlain
<1>4. TypesOK'
  BY <1>1, LocksParts DEF TypesOK, LocksTypeOK, OwnerOK, clientVars, pingVars
<1>5. StacksInv'
  <2>1. Quiet(<<Leave(VmLock(v))>>)
    BY Zenon, QuietCalls, QuietLists
  <2>2. ~Changing(calls[t][1]) /\ clientState' = clientState /\ asleep' = asleep
        /\ \A c \in Client : owner'[RetrieverLock(c)] = owner[RetrieverLock(c)]
    BY <1>1, <1>3 DEF Changing, clientVars
  <2> QED BY Zenon, <1>1, <1>2, <1>3, <2>1, <2>2, PlainNameStep
<1> QED BY <1>4, <1>5, LocksParts

LEMMA BeginRevertKeeps == ASSUME LocksInv, NEW v \in Machine, BeginRevert(v) PROVE LocksInv'
<1> PICK t : t = Worker(v)
  OBVIOUS
<1>1. /\ calls[t] = <<>> /\ owner' = Entered(t, VmLock(v))
      /\ vmState' = [vmState EXCEPT ![v] = "REVERTING"]
      /\ calls' = [calls EXCEPT ![t] = <<Call("reverted", v)>>]
      /\ UNCHANGED <<machineOf, vmClient, requested, reverts, clientVars, asleep, pingVars>>
  BY Zenon DEF BeginRevert
<1>2. t \in Threads /\ \A c \in Client : t # Retriever(c)
  BY ThreadsDiffer
<1>3. TypesOK /\ OwnerOK(owner) /\ VmLock(v) \in Locks
  BY LocksParts DEF TypesOK, Locks
<1>4. OwnerOK(owner')
  BY Zenon, <1>1, <1>2, <1>3, OtherMonitors
<1>5. TypesOK'
  BY <1>1, <1>3, <1>4 DEF TypesOK, LocksTypeOK, OwnerOK, clientVars, pingVars
<1>6. ASSUME NEW c \in Client
      PROVE  owner'[RetrieverLock(c)] = IF calls[t] # <<>> /\ owner[RetrieverLock(c)].by = t
                                        THEN [by |-> NoOne, depth |-> 0]
                                        ELSE owner[RetrieverLock(c)]
  <2>1. RetrieverLock(c) \in Locks /\ RetrieverLock(c) # VmLock(v)
    BY LocksDiffer
  <2>2. \A k \in Locks : k # VmLock(v) => owner'[k] = owner[k]
    BY Zenon, <1>1, <1>2, <1>3, OtherMonitors
  <2>3. owner'[RetrieverLock(c)] = owner[RetrieverLock(c)]
    BY Zenon, <2>1, <2>2
  <2> QED BY Zenon, <1>1, <2>3
<1>7. StacksInv'
  <2>1. Quiet(<<Call("reverted", v)>>)
    BY Zenon, QuietCalls, QuietLists
  <2>2. QuietFor(t, <<Call("reverted", v)>>)
    BY Zenon, <2>1 DEF Quiet, QuietFor
  <2>3. clientState' = clientState /\ asleep' = asleep
    BY <1>1 DEF clientVars
  <2> QED BY Zenon, <1>1, <1>2, <1>6, <2>2, <2>3, QuietBegin
<1> QED BY <1>5, <1>7, LocksParts

\* A thread without a stack that gets one and changes no state.
LEMMA StartKeeps ==
  ASSUME LocksInv, NEW t \in Threads, NEW m, QuietFor(t, m), calls[t] = <<>>,
         \A c \in Client : t # Retriever(c), calls' = [calls EXCEPT ![t] = m],
         UNCHANGED <<machineVars, clientState, owner, asleep, pinged>>, pings' \subseteq Client
  PROVE  LocksInv'
<1>1. TypesOK'
  BY LocksParts DEF TypesOK, LocksTypeOK, OwnerOK, machineVars
<1>2. \A c \in Client :
        owner'[RetrieverLock(c)] = IF calls[t] # <<>> /\ owner[RetrieverLock(c)].by = t
                                   THEN [by |-> NoOne, depth |-> 0]
                                   ELSE owner[RetrieverLock(c)]
  OBVIOUS
<1>3. clientState' = clientState /\ asleep' = asleep
  OBVIOUS
<1>4. StacksInv'
  BY Zenon, <1>2, <1>3, QuietBegin
<1> QED BY <1>1, <1>4, LocksParts

LEMMA ReceiverBegins ==
  ASSUME LocksInv, NEW c \in Client, NEW s \in ClientStates \ {"NEW"}
  PROVE  QuietFor(Receiver(c), <<SetClientState(c, s)>>)
<1> PICK k : k = SetClientState(c, s)
  OBVIOUS
<1>1. k \in PlainCall
  BY DEF PlainCall
<1>2. ASSUME NEW d \in Client, k = SetClientState(d, "WAITING") PROVE d = c
  BY <1>2 DEF SetClientState
<1>3. \A i \in DOMAIN <<k>> : <<k>>[i] = k
  OBVIOUS
<1> QED BY <1>1, <1>2, <1>3 DEF QuietFor

LEMMA StartsKeep ==
  ASSUME LocksInv,
         \/ \E c \in Client : ReceiveStart(c) \/ ReceiveEnd(c) \/ Ping(c)
         \/ \E v \in Machine : CheckMachine(v)
         \/ BeginPings
  PROVE  LocksInv'
<1>1. ASSUME NEW c \in Client, ReceiveStart(c) \/ ReceiveEnd(c) PROVE LocksInv'
  <2>1. PICK s \in {"VISITING", "WAITING", "DISCONNECTED"} :
          calls' = [calls EXCEPT ![Receiver(c)] = <<SetClientState(c, s)>>]
    BY Zenon, <1>1 DEF ReceiveStart, ReceiveEnd
  <2>2. /\ calls[Receiver(c)] = <<>>
        /\ UNCHANGED <<machineVars, clientState, owner, asleep, pingVars>>
    BY Zenon, <1>1 DEF ReceiveStart, ReceiveEnd
  <2>3. QuietFor(Receiver(c), <<SetClientState(c, s)>>)
    <3>1. s \in ClientStates \ {"NEW"}
      BY DEF ClientStates
    <3> QED BY Zenon, <3>1, ReceiverBegins
  <2>4. Receiver(c) \in Threads /\ \A d \in Client : Receiver(c) # Retriever(d)
    BY ThreadsDiffer
  <2>5. UNCHANGED <<machineVars, clientState, owner, asleep, pinged>> /\ pings' \subseteq Client
    BY <2>2, LocksParts DEF pingVars, TypesOK, LocksTypeOK
  <2> QED BY Zenon, <2>1, <2>2, <2>3, <2>4, <2>5, StartKeeps
<1>2. ASSUME NEW v \in Machine, CheckMachine(v) PROVE LocksInv'
  <2>1. /\ calls' = [calls EXCEPT ![Checker] = <<SetVmState(v, "WAITING_TO_BE_REVERTED")>>]
        /\ calls[Checker] = <<>> /\ UNCHANGED <<machineVars, clientVars, owner, asleep, pingVars>>
    BY Zenon, <1>2 DEF CheckMachine
  <2>2. Quiet(<<SetVmState(v, "WAITING_TO_BE_REVERTED")>>)
    BY Zenon, QuietCalls, QuietLists
  <2>3. QuietFor(Checker, <<SetVmState(v, "WAITING_TO_BE_REVERTED")>>)
    BY Zenon, <2>2 DEF Quiet, QuietFor
  <2>4. Checker \in Threads /\ \A d \in Client : Checker # Retriever(d)
    BY ThreadsDiffer
  <2>5. UNCHANGED <<machineVars, clientState, owner, asleep, pinged>> /\ pings' \subseteq Client
    BY <2>1, LocksParts DEF pingVars, clientVars, TypesOK, LocksTypeOK
  <2> QED BY Zenon, <2>1, <2>3, <2>4, <2>5, StartKeeps
<1>3. ASSUME UNCHANGED <<machineVars, clientVars, threadVars, pinged>>, pings' \subseteq Client
      PROVE  LocksInv'
  <2>1. TypesOK'
    BY <1>3, LocksParts DEF TypesOK, LocksTypeOK, OwnerOK, machineVars, clientVars, threadVars
  <2>2. StacksInv'
    <3>1. calls' = calls /\ owner' = owner /\ asleep' = asleep /\ clientState' = clientState
      BY <1>3 DEF threadVars, clientVars
    <3>2. \A c \in Client : /\ Inside(c)' <=> Inside(c)
                            /\ Leaving(c)' <=> Leaving(c)
                            /\ Noticed(c)' <=> Noticed(c)
      BY Zenon, <3>1 DEF Inside, Leaving, Noticed
    <3>3. StackInv' /\ RetrieverInv'
      <4>1. StackInv'
        BY Zenon, <3>1 DEF LocksInv, StackInv
      <4>2. RetrieverInv'
        BY Zenon, <3>1 DEF LocksInv, RetrieverInv
      <4> QED BY <4>1, <4>2
    <3>4. MonitorInv'
      BY Zenon, <3>1, <3>2 DEF LocksInv, MonitorInv
    <3>5. NoticeInv'
      BY Zenon, <3>1, <3>2 DEF LocksInv, NoticeInv
    <3> QED BY <3>3, <3>4, <3>5 DEF StacksInv
  <2> QED BY <2>1, <2>2, LocksParts
<1>4. ASSUME NEW c \in Client, Ping(c) PROVE LocksInv'
  <2>1. pings \subseteq Client
    BY LocksParts DEF TypesOK, LocksTypeOK
  <2>2. CASE /\ calls[Pinger] = <<>> /\ calls' = [calls EXCEPT ![Pinger] = <<Call("send", c)>>]
             /\ pings' = pings \ {c}
    <3>1. Quiet(<<Call("send", c)>>)
      BY Zenon, QuietCalls, QuietLists
    <3>2. QuietFor(Pinger, <<Call("send", c)>>)
      BY Zenon, <3>1 DEF Quiet, QuietFor
    <3>3. Pinger \in Threads /\ \A d \in Client : Pinger # Retriever(d)
      BY ThreadsDiffer
    <3>4. UNCHANGED <<machineVars, clientState, owner, asleep, pinged>> /\ pings' \subseteq Client
      BY <1>4, <2>1, <2>2 DEF Ping, clientVars
    <3> QED BY Zenon, <2>2, <3>2, <3>3, <3>4, StartKeeps
  <2>3. CASE pings' = {} /\ UNCHANGED calls
    BY <1>3, <1>4, <2>3 DEF Ping, threadVars
  <2> QED BY Zenon, <1>4, <2>2, <2>3 DEF Ping
<1>5. CASE BeginPings
  BY <1>3, <1>5, LocksParts DEF BeginPings, TypesOK, LocksTypeOK
<1> QED BY <1>1, <1>2, <1>4, <1>5

LEMMA Singleton ==
  ASSUME NEW S, NEW s \in Seq(S), Len(s) = 1
  PROVE  s = <<s[1]>>
<1>1. 1 \in 1 .. Len(s)
  OBVIOUS
<1>2. s[1] \in S
  BY <1>1, ElementOfSeq
<1>3. <<s[1]>> \in Seq(S) /\ Len(<<s[1]>>) = 1 /\ <<s[1]>>[1] = s[1]
  BY <1>2
<1>4. \A i \in 1 .. Len(s) : s[i] = <<s[1]>>[i]
  BY <1>3
<1> QED BY <1>3, <1>4, SeqEqual

\* The stack of a retriever that makes a call of its own.
LEMMA RetrieverAt ==
  ASSUME LocksInv, NEW t \in Threads, NEW n \in {"take", "sendVisit", "overwrite", "awake", "wait"},
         Calling(t, n)
  PROVE  \E c \in Client :
           /\ t = Retriever(c) /\ Head(calls[t])[2] = c /\ calls[t] # <<>>
           /\ calls[t][1] = Call(n, c) /\ clientState[c] # "NEW"
           /\ n \in {"take", "sendVisit", "overwrite"} => Tail(calls[t]) = <<Call("wait", c)>> /\ Inside(c)
           /\ n = "wait" => Inside(c)
           /\ n \in {"awake", "wait"} => Tail(calls[t]) = <<>>
           /\ n = "awake" => ~Inside(c)
<1> PICK q : q = calls[t]
  OBVIOUS
<1>1. q # <<>> /\ Head(q)[1] = n /\ StackInv /\ RetrieverInv
  BY DEF Calling, LocksInv
<1>2. Head(q) = q[1] /\ Names(q[1]) /\ q \in Seq(AnyCall)
  BY Zenon, <1>1, HeadCall
<1>3. PICK c \in Client : q[1] = Call(n, c) /\ q[1] \in OwnCall(c)
  BY <1>1, <1>2 DEF Names
<1>4. Len(q) \in Nat /\ Len(q) > 0 /\ 1 \in DOMAIN q
  BY <1>1, <1>2, EmptySeq, LenProperties
<1>5. t = Retriever(c)
  BY Zenon, <1>1, <1>3, <1>4 DEF StackInv
<1>6. Head(q)[2] = c
  BY <1>2, <1>3 DEF Call
<1>7. /\ q[1] = Call("wait", c) => 1 = Len(q)
      /\ q[1] = Call("awake", c) => Len(q) = 1
      /\ q[1] \in InsideCall(c) => Len(q) = 2 /\ q[2] = Call("wait", c)
      /\ clientState[c] # "NEW"
  BY Zenon, <1>1, <1>4, <1>5 DEF RetrieverInv
<1>8. Inside(c) <=> q[Len(q)] = Call("wait", c)
  BY Zenon, <1>1, <1>5 DEF Inside
<1>9. n \in {"take", "sendVisit", "overwrite"} => Tail(q) = <<Call("wait", c)>> /\ Inside(c)
  <2> SUFFICES ASSUME n \in {"take", "sendVisit", "overwrite"}
               PROVE  Tail(q) = <<Call("wait", c)>> /\ Inside(c)
    OBVIOUS
  <2>1. q[1] \in InsideCall(c)
    BY <1>3 DEF InsideCall
  <2>2. Len(q) = 2 /\ q[2] = Call("wait", c)
    BY <1>7, <2>1
  <2>3. Tail(q) \in Seq(AnyCall) /\ Len(Tail(q)) = Len(q) - 1
    BY Zenon, <1>1, <1>2, HeadTailProperties
  <2>4. Tail(q)[1] = q[2]
    <3>1. Len(q) > 1
      BY <2>2
    <3> QED BY Zenon, <1>2, <3>1, SecondOfTail
  <2>5. Tail(q) = <<Call("wait", c)>>
    <3>1. Len(Tail(q)) = 1
      BY <2>2, <2>3
    <3> QED BY Zenon, <2>2, <2>3, <2>4, <3>1, Singleton
  <2> QED BY Zenon, <1>8, <2>2, <2>5
<1>10. n \in {"awake", "wait"} => Tail(q) = <<>>
  <2> SUFFICES ASSUME n \in {"awake", "wait"} PROVE Tail(q) = <<>>
    OBVIOUS
  <2>1. Len(q) = 1
    BY <1>3, <1>7
  <2>2. Tail(q) \in Seq(AnyCall) /\ Len(Tail(q)) = Len(q) - 1
    BY Zenon, <1>1, <1>2, HeadTailProperties
  <2>3. Len(Tail(q)) = 0
    BY <2>1, <2>2
  <2> QED BY Zenon, <2>2, <2>3, EmptySeq
<1>11. n = "awake" => ~Inside(c)
  <2> SUFFICES ASSUME n = "awake" PROVE ~Inside(c)
    OBVIOUS
  <2>1. Len(q) = 1 /\ q[1] = Call("awake", c)
    BY Zenon, <1>3, <1>7
  <2>2. Call("awake", c)[1] = "awake" /\ Call("wait", c)[1] = "wait"
    BY DEF Call
  <2> QED BY <1>8, <2>1, <2>2
<1>12. n = "wait" => Inside(c)
  BY Zenon, <1>3, <1>7, <1>8
<1> QED BY Zenon, <1>1, <1>3, <1>5, <1>6, <1>7, <1>9, <1>10, <1>11, <1>12

\* The stacks a retriever gives itself.
Sleepy(c) == <<Call("wait", c)>>
OwnStack(c) ==
  {<<>>, <<Call("awake", c)>>, Sleepy(c)}
    \cup {<<k, Call("wait", c)>> : k \in InsideCall(c) \cup {SetClientState(c, "DISCONNECTED")}}

\* The part of RetrieverInv about one stack.
Shaped(c, q) == \A i \in DOMAIN q :
  /\ q[i] = Call("wait", c) => i = Len(q)
  /\ q[i] = Call("awake", c) => i = 1 /\ Len(q) = 1
  /\ q[i] \in InsideCall(c) => i = 1 /\ Len(q) = 2 /\ q[2] = Call("wait", c)

LEMMA OwnStacks ==
  ASSUME NEW c \in Client, NEW r \in OwnStack(c)
  PROVE  /\ r \in Seq(AnyCall) /\ Shaped(c, r)
         /\ \A i \in DOMAIN r : r[i] \in OwnCall(c) \/ r[i] \in QuietCall
<1> DEFINE w == Call("wait", c)
           a == Call("awake", c)
           dis == SetClientState(c, "DISCONNECTED")
<1>1. /\ w \in OwnCall(c) /\ a \in OwnCall(c) /\ InsideCall(c) \subseteq OwnCall(c)
      /\ OwnCall(c) \subseteq AnyCall
  BY DEF OwnCall, AnyCall
<1>2. dis \in QuietCall /\ dis \in AnyCall
  BY QuietCalls DEF QuietCall, AnyCall
<1>3. w # a /\ w \notin InsideCall(c) /\ a \notin InsideCall(c)
  <2>1. /\ w[1] = "wait" /\ a[1] = "awake"
        /\ \A k \in InsideCall(c) : k[1] \in {"take", "sendVisit", "overwrite"}
    BY DEF Call, InsideCall
  <2> QED BY <2>1
<1>4. dis # w /\ dis # a /\ dis \notin InsideCall(c)
  <2>1. dis \in PlainCall
    BY <1>2 DEF QuietCall
  <2> QED BY <1>1, <2>1, PlainCallsAreNamed
<1>5. \/ r = <<>> \/ r = <<a>> \/ r = <<w>>
      \/ \E k \in InsideCall(c) \cup {dis} : r = <<k, w>>
  BY DEF OwnStack, Sleepy
<1> HIDE DEF w, a, dis
<1>6. ASSUME NEW k \in InsideCall(c) \cup {dis}, r = <<k, w>>
      PROVE  /\ r \in Seq(AnyCall)
             /\ \A i \in DOMAIN r : /\ r[i] \in OwnCall(c) \/ r[i] \in QuietCall
                                    /\ r[i] = w => i = Len(r)
                                    /\ r[i] # a
                                    /\ r[i] \in InsideCall(c) => i = 1 /\ Len(r) = 2 /\ r[2] = w
  <2>1. k \in AnyCall /\ w \in AnyCall /\ k # w /\ k # a
    BY <1>1, <1>2, <1>3, <1>4
  <2>2. r \in Seq(AnyCall) /\ Len(r) = 2 /\ r[1] = k /\ r[2] = w
    BY <1>6, <2>1
  <2>3. \A i \in DOMAIN r : i = 1 \/ i = 2
    BY <1>6
  <2> QED BY <1>1, <1>2, <1>3, <2>1, <2>2, <2>3
<1>7. ASSUME NEW k \in {a, w}, r = <<k>>
      PROVE  /\ r \in Seq(AnyCall) /\ Len(r) = 1
             /\ \A i \in DOMAIN r : i = 1 /\ r[i] \in OwnCall(c) /\ r[i] \notin InsideCall(c)
  BY <1>1, <1>3, <1>7
<1>8. CASE r = <<>>
  BY <1>8 DEF Shaped
<1>9. CASE r = <<a>> \/ r = <<w>>
  <2>1. Shaped(c, r)
    BY <1>7, <1>9 DEF Shaped
  <2> QED BY <1>7, <1>9, <2>1
<1>10. CASE \E k \in InsideCall(c) \cup {dis} : r = <<k, w>>
  <2>1. Shaped(c, r)
    BY <1>6, <1>10 DEF Shaped, w, a
  <2> QED BY <1>6, <1>10, <2>1
<1> QED BY <1>5, <1>8, <1>9, <1>10

LEMMA RetrieverMoves ==
  ASSUME LocksInv, NEW c \in Client, NEW r \in OwnStack(c),
         calls' = [calls EXCEPT ![Retriever(c)] = r],
         \A d \in Client : d # c =>
           /\ clientState'[d] = clientState[d] /\ owner'[RetrieverLock(d)] = owner[RetrieverLock(d)]
           /\ d \in asleep' => d \in asleep,
         c \in asleep' => r = <<Call("awake", c)>>,
         clientState'[c] # "NEW",
         owner'[RetrieverLock(c)].depth = IF Inside(c)' THEN 1 ELSE 0,
         Inside(c)' => owner'[RetrieverLock(c)].by = Retriever(c),
         clientState'[c] = "WAITING" /\ (c \in asleep' \/ Leaving(c)') => Noticed(c)
  PROVE  StacksInv'
<1> PICK t : t = Retriever(c)
  OBVIOUS
<1>1. StackInv /\ RetrieverInv /\ MonitorInv /\ NoticeInv
  BY DEF LocksInv
<1>2. t \in Threads /\ \A d \in Client : /\ Receiver(d) # t /\ Receiver(d) \in Threads
                                         /\ Retriever(d) \in Threads
                                         /\ d # c => Retriever(d) # t
  BY ThreadsDiffer
<1>3. /\ r \in Seq(AnyCall) /\ Shaped(c, r)
      /\ \A i \in DOMAIN r : r[i] \in OwnCall(c) \/ r[i] \in QuietCall
  BY OwnStacks
<1>4. calls \in [Threads -> Seq(AnyCall)]
  BY <1>1 DEF StackInv
<1>5. calls' \in [Threads -> Seq(AnyCall)] /\ calls'[t] = r
      /\ \A u \in Threads : u # t => calls'[u] = calls[u]
  BY <1>2, <1>3, <1>4
<1>6. ASSUME NEW u \in Threads, NEW i \in DOMAIN calls'[u], NEW d \in Client
      PROVE  /\ calls'[u][i] \in OwnCall(d) => u = Retriever(d)
             /\ calls'[u][i] = SetClientState(d, "WAITING") => u = Receiver(d)
  <2>1. CASE u # t
    BY <1>1, <1>5, <2>1 DEF StackInv
  <2>2. CASE u = t /\ r[i] \in OwnCall(c)
    <3>1. r[i] \in OwnCall(d) => d = c
      BY <2>2, OwnCallsAreNamed
    <3>2. r[i] # SetClientState(d, "WAITING")
      <4>1. r[i][1] # "setClientState"
        BY <2>2, OwnCallsAreNamed
      <4> QED BY <4>1 DEF SetClientState
    <3> QED BY <1>5, <2>2, <3>1, <3>2
  <2>3. CASE u = t /\ r[i] \in QuietCall
    <3>1. r[i] \notin OwnCall(d)
      BY <2>3, PlainCallsAreNamed DEF QuietCall
    <3>2. r[i] # SetClientState(d, "WAITING")
      BY <2>3 DEF QuietCall
    <3> QED BY <1>5, <2>3, <3>1, <3>2
  <2> QED BY <1>3, <1>5, <2>1, <2>2, <2>3
<1>7. StackInv'
  BY <1>5, <1>6 DEF StackInv
<1>8. ASSUME NEW d \in Client, d # c
      PROVE  calls'[Retriever(d)] = calls[Retriever(d)] /\ calls'[Receiver(d)] = calls[Receiver(d)]
             /\ (Inside(d)' <=> Inside(d)) /\ (Leaving(d)' <=> Leaving(d))
  <2>1. calls'[Retriever(d)] = calls[Retriever(d)] /\ calls'[Receiver(d)] = calls[Receiver(d)]
    BY Zenon, <1>2, <1>5, <1>8
  <2>2. Inside(d)' <=> Inside(d)
    BY Zenon, <2>1 DEF Inside
  <2>3. Leaving(d)' <=> Leaving(d)
    BY Zenon, <2>1, <2>2 DEF Leaving
  <2> QED BY <2>1, <2>2, <2>3
<1>9. ASSUME NEW d \in Client
      PROVE  /\ Shaped(d, calls'[Retriever(d)])
             /\ d \in asleep' => calls'[Retriever(d)] = <<Call("awake", d)>>
             /\ clientState'[d] = "NEW" => calls'[Retriever(d)] = <<>>
  <2>1. CASE d = c
    BY <1>3, <1>5, <2>1
  <2>2. CASE d # c
    <3>1. /\ Shaped(d, calls[Retriever(d)])
          /\ d \in asleep => calls[Retriever(d)] = <<Call("awake", d)>>
          /\ clientState[d] = "NEW" => calls[Retriever(d)] = <<>>
      BY Zenon, <1>1 DEF RetrieverInv, Shaped
    <3> QED BY Zenon, <1>8, <2>2, <3>1
  <2> QED BY <2>1, <2>2
<1>10. RetrieverInv'
  BY Zenon, <1>9 DEF RetrieverInv, Shaped, InsideCall
<1>11. MonitorInv'
  <2> SUFFICES ASSUME NEW d \in Client
               PROVE  /\ owner'[RetrieverLock(d)].depth = IF Inside(d)' THEN 1 ELSE 0
                      /\ Inside(d)' => owner'[RetrieverLock(d)].by = Retriever(d)
    BY DEF MonitorInv
  <2>1. CASE d = c
    BY <2>1
  <2>2. CASE d # c
    <3>1. /\ owner[RetrieverLock(d)].depth = IF Inside(d) THEN 1 ELSE 0
          /\ Inside(d) => owner[RetrieverLock(d)].by = Retriever(d)
      BY Zenon, <1>1 DEF MonitorInv
    <3> QED BY Zenon, <1>8, <2>2, <3>1
  <2> QED BY <2>1, <2>2
<1>12. NoticeInv'
  <2> SUFFICES ASSUME NEW d \in Client, clientState'[d] = "WAITING", d \in asleep' \/ Leaving(d)'
               PROVE  Noticed(d)'
    BY DEF NoticeInv
  <2>1. calls'[Receiver(d)] = calls[Receiver(d)]
    BY Zenon, <1>2, <1>5
  <2>2. Noticed(d)
    <3>1. CASE d = c
      BY Zenon, <3>1
    <3>2. CASE d # c
      BY Zenon, <1>1, <1>8, <3>2 DEF NoticeInv
    <3> QED BY <3>1, <3>2
  <2> QED BY Zenon, <2>1, <2>2 DEF Noticed
<1> QED BY <1>7, <1>10, <1>11, <1>12 DEF StacksInv

\* What the stacks a retriever gives itself say of its monitor.
LEMMA OwnStackIs ==
  ASSUME LocksInv, NEW c \in Client, NEW r \in OwnStack(c),
         calls' = [calls EXCEPT ![Retriever(c)] = r]
  PROVE  /\ r = <<>> \/ r = <<Call("awake", c)>> => ~Inside(c)'
         /\ r = Sleepy(c) => Inside(c)'
         /\ \A k \in InsideCall(c) \cup {SetClientState(c, "DISCONNECTED")} :
              r = <<k, Call("wait", c)>> => Inside(c)' /\ ~Leaving(c)'
<1> PICK w : w = Call("wait", c)
  OBVIOUS
<1> PICK a : a = Call("awake", c)
  OBVIOUS
<1>1. a # w
  <2>1. a[1] = "awake" /\ w[1] = "wait"
    BY DEF Call
  <2> QED BY <2>1
<1>2. calls'[Retriever(c)] = r
  <2>1. calls \in [Threads -> Seq(AnyCall)]
    BY Zenon DEF LocksInv, StackInv
  <2> QED BY <2>1, ThreadsDiffer
<1>3. Inside(c)' <=> r # <<>> /\ r[Len(r)] = w
  BY Zenon, <1>2 DEF Inside
<1>4. r = <<>> => ~Inside(c)'
  BY Zenon, <1>3
<1>5. r = <<a>> => ~Inside(c)'
  BY <1>1, <1>3
<1>6. r = <<w>> => Inside(c)'
  BY <1>3
<1>7. ASSUME NEW k \in InsideCall(c) \cup {SetClientState(c, "DISCONNECTED")}, r = <<k, w>>
      PROVE  Inside(c)' /\ ~Leaving(c)'
  <2>1. r # <<>> /\ Len(r) = 2 /\ r[1] = k /\ r[2] = w
    BY <1>7
  <2>2. Inside(c)'
    BY <1>3, <2>1
  <2>3. ~(r[1] \notin InsideCall(c) /\ ~(Len(r) = 2 /\ r[1] = SetClientState(c, "DISCONNECTED")))
    BY Zenon, <1>7, <2>1
  <2>4. Leaving(c)' => /\ r[1] \notin InsideCall(c)
                       /\ ~(Len(r) = 2 /\ r[1] = SetClientState(c, "DISCONNECTED"))
    BY Zenon, <1>2 DEF Leaving, InsideCall
  <2> QED BY <2>2, <2>3, <2>4
<1> QED BY Zenon, <1>4, <1>5, <1>6, <1>7 DEF Sleepy

LEMMA OwnStackBy ==
  ASSUME NEW c \in Client
  PROVE  /\ <<>> \in OwnStack(c) /\ <<Call("awake", c)>> \in OwnStack(c) /\ Sleepy(c) \in OwnStack(c)
         /\ \A n \in {"take", "sendVisit", "overwrite"} :
              /\ <<Call(n, c), Call("wait", c)>> \in OwnStack(c)
              /\ Call(n, c) \in InsideCall(c)
         /\ <<SetClientState(c, "DISCONNECTED"), Call("wait", c)>> \in OwnStack(c)
BY DEF OwnStack, InsideCall

\* Steps of a retriever inside its monitor, which it does not leave.
LEMMA InsideMoves ==
  ASSUME LocksInv, NEW c \in Client, Inside(c), NEW r \in OwnStack(c) \ {<<>>, <<Call("awake", c)>>},
         calls' = [calls EXCEPT ![Retriever(c)] = r],
         \A d \in Client : d # c => clientState'[d] = clientState[d],
         clientState'[c] # "NEW", r = Sleepy(c) => clientState'[c] # "WAITING",
         owner' = owner, asleep' = asleep
  PROVE  StacksInv'
<1>1. MonitorInv /\ RetrieverInv
  BY DEF LocksInv
<1>2. Inside(c)' /\ (r = Sleepy(c) \/ ~Leaving(c)')
  <2>1. r = Sleepy(c) \/ \E k \in InsideCall(c) \cup {SetClientState(c, "DISCONNECTED")} :
          r = <<k, Call("wait", c)>>
    BY Zenon DEF OwnStack
  <2> QED BY Zenon, <2>1, OwnStackIs
<1>3. owner'[RetrieverLock(c)].depth = 1 /\ owner'[RetrieverLock(c)].by = Retriever(c)
  BY <1>1 DEF MonitorInv
<1>4. c \notin asleep
  <2>1. <<Call("awake", c)>>[Len(<<Call("awake", c)>>)][1] = "awake" /\ Call("wait", c)[1] = "wait"
    BY DEF Call
  <2>2. c \in asleep => calls[Retriever(c)] = <<Call("awake", c)>>
    BY Zenon, <1>1 DEF RetrieverInv
  <2>3. calls[Retriever(c)][Len(calls[Retriever(c)])] = Call("wait", c)
    BY Zenon DEF Inside
  <2> QED BY Zenon, <2>1, <2>2, <2>3
<1>5. owner'[RetrieverLock(c)].depth = IF Inside(c)' THEN 1 ELSE 0
  BY <1>2, <1>3
<1>6. clientState'[c] = "WAITING" /\ (c \in asleep' \/ Leaving(c)') => Noticed(c)
  BY Zenon, <1>2, <1>4
<1>7. \A d \in Client : d # c => 
        /\ clientState'[d] = clientState[d] /\ owner'[RetrieverLock(d)] = owner[RetrieverLock(d)]
        /\ d \in asleep' => d \in asleep
  BY Zenon
<1>8. c \in asleep' => r = <<Call("awake", c)>>
  BY Zenon, <1>4
<1> QED BY Zenon, <1>3, <1>5, <1>6, <1>7, <1>8, RetrieverMoves

LEMMA TakeKeeps == ASSUME LocksInv, NEW d \in Client, TakeStep(d) PROVE LocksInv'
<1> PICK t : t = Retriever(d)
  OBVIOUS
<1>1. /\ Calling(t, "take") /\ Then(t, <<Call("sendVisit", d)>>)
      /\ UNCHANGED <<machineVars, clientState, wire, owner, asleep, pingVars>>
  BY Zenon DEF TakeStep
<1>2. t \in Threads
  BY ThreadsDiffer
<1>3. PICK c \in Client : /\ t = Retriever(c) /\ clientState[c] # "NEW" /\ Inside(c)
                          /\ Tail(calls[t]) = <<Call("wait", c)>>
  BY Zenon, <1>1, <1>2, RetrieverAt
<1>4. c = d
  BY Zenon, <1>3, ThreadsDiffer
<1> PICK r : r = <<Call("sendVisit", c), Call("wait", c)>>
  OBVIOUS
<1>5. calls' = [calls EXCEPT ![Retriever(c)] = r]
  BY Zenon, <1>1, <1>3, <1>4, Joined DEF Then
<1>6. r \in OwnStack(c) /\ r # <<>> /\ Len(r) = 2 /\ Call("sendVisit", c) \in InsideCall(c)
  BY OwnStackBy
<1>7. r \notin {<<>>, <<Call("awake", c)>>, Sleepy(c)}
  BY <1>6 DEF Sleepy
<1>8. TypesOK'
  BY <1>1, LocksParts DEF TypesOK, LocksTypeOK, OwnerOK, machineVars, pingVars
<1>9. clientState' = clientState /\ owner' = owner /\ asleep' = asleep
  BY <1>1
<1>10. StacksInv'
  BY Zenon, <1>3, <1>5, <1>6, <1>7, <1>9, InsideMoves
<1> QED BY <1>8, <1>10, LocksParts

LEMMA SendVisitKeeps ==
  ASSUME LocksInv, NEW t \in Threads, SendStep(t), Calling(t, "sendVisit") PROVE LocksInv'
<1>1. PICK c \in Client : /\ t = Retriever(c) /\ Head(calls[t])[2] = c /\ clientState[c] # "NEW"
                          /\ Inside(c) /\ calls[t][1] = Call("sendVisit", c)
                          /\ Tail(calls[t]) = <<Call("wait", c)>>
  BY Zenon, RetrieverAt
<1>2. calls[t][1][1] = "sendVisit"
  BY <1>1 DEF Call
<1>3. PICK m \in {<<>>, <<Call("overwrite", c)>>, <<SetClientState(c, "DISCONNECTED")>>} :
        Then(t, m) /\ (m = <<>> => clientState[c] = "DISCONNECTED")
  BY Zenon, <1>1, <1>2 DEF SendStep
<1>4. UNCHANGED <<machineVars, clientState, hasGroup, urls, owner, asleep, pingVars>>
  BY Zenon DEF SendStep
<1> PICK r : r = m \o <<Call("wait", c)>>
  OBVIOUS
<1>5. calls' = [calls EXCEPT ![Retriever(c)] = r]
  BY Zenon, <1>1, <1>3 DEF Then
<1>6. /\ r \in OwnStack(c) /\ r \notin {<<>>, <<Call("awake", c)>>}
      /\ r = Sleepy(c) => clientState[c] = "DISCONNECTED"
  <2>1. /\ <<>> \o <<Call("wait", c)>> = Sleepy(c)
        /\ \A k : <<k>> \o <<Call("wait", c)>> = <<k, Call("wait", c)>>
    BY Zenon, Joined DEF Sleepy
  <2>2. Call("wait", c)[1] = "wait" /\ Call("awake", c)[1] = "awake"
    BY DEF Call
  <2>3. /\ Sleepy(c) # <<>> /\ Sleepy(c) # <<Call("awake", c)>>
    BY <2>2 DEF Sleepy
  <2>4. \A k, w, x : <<k, w>> # <<x>> /\ <<k, w>> # <<>>
    OBVIOUS
  <2>5. CASE m = <<>>
    BY <1>3, <2>1, <2>3, <2>5, OwnStackBy
  <2>6. CASE m = <<Call("overwrite", c)>>
    BY Zenon, <2>1, <2>4, <2>6, OwnStackBy DEF Sleepy
  <2>7. CASE m = <<SetClientState(c, "DISCONNECTED")>>
    BY Zenon, <2>1, <2>4, <2>7, OwnStackBy DEF Sleepy
  <2> QED BY <2>5, <2>6, <2>7
<1>7. TypesOK'
  BY <1>4, LocksParts DEF TypesOK, LocksTypeOK, OwnerOK, machineVars, pingVars
<1>8. clientState' = clientState /\ owner' = owner /\ asleep' = asleep
  BY <1>4
<1>9. r = Sleepy(c) => clientState'[c] # "WAITING"
  BY <1>6, <1>8
<1>10. StacksInv'
  BY Zenon, <1>1, <1>5, <1>6, <1>8, <1>9, InsideMoves
<1> QED BY <1>7, <1>10, LocksParts

LEMMA OverwriteKeeps == ASSUME LocksInv, NEW d \in Client, OverwriteStep(d) PROVE LocksInv'
<1> PICK t : t = Retriever(d)
  OBVIOUS
<1>1. /\ Calling(t, "overwrite") /\ Then(t, <<>>)
      /\ clientState' = [clientState EXCEPT ![d] = "AWAITING_VISITING"]
      /\ UNCHANGED <<machineVars, hasGroup, wire, urls, owner, asleep, pingVars>>
  BY Zenon DEF OverwriteStep
<1>2. t \in Threads
  BY ThreadsDiffer
<1>3. PICK c \in Client : /\ t = Retriever(c) /\ Inside(c) /\ Tail(calls[t]) = <<Call("wait", c)>>
  BY Zenon, <1>1, <1>2, RetrieverAt
<1>4. c = d
  BY Zenon, <1>3, ThreadsDiffer
<1>5. calls' = [calls EXCEPT ![Retriever(c)] = Sleepy(c)]
  BY Zenon, <1>1, <1>3, <1>4, Joined DEF Then, Sleepy
<1>6. Sleepy(c) \in OwnStack(c) \ {<<>>, <<Call("awake", c)>>}
  <2>1. Call("wait", c)[1] = "wait" /\ Call("awake", c)[1] = "awake"
    BY DEF Call
  <2>2. /\ Sleepy(c) # <<>> /\ Sleepy(c) # <<Call("awake", c)>>
    BY <2>1 DEF Sleepy
  <2> QED BY <2>2, OwnStackBy
<1>7. TypesOK
  BY LocksParts
<1>8. TypesOK' /\ clientState'[c] = "AWAITING_VISITING"
      /\ \A e \in Client : e # c => clientState'[e] = clientState[e]
  BY <1>1, <1>4, <1>7 DEF TypesOK, LocksTypeOK, OwnerOK, ClientStates, machineVars, pingVars
<1>9. owner' = owner /\ asleep' = asleep /\ clientState'[c] # "NEW" /\ clientState'[c] # "WAITING"
  BY <1>1, <1>8
<1>10. StacksInv'
  BY Zenon, <1>3, <1>5, <1>6, <1>8, <1>9, InsideMoves
<1> QED BY <1>8, <1>10, LocksParts

LEMMA OtherRetrievers ==
  ASSUME OwnerOK(owner), NEW t \in Threads, NEW c \in Client,
         owner' = Entered(t, RetrieverLock(c)) \/ owner' = Left(RetrieverLock(c))
  PROVE  \A d \in Client : d # c => owner'[RetrieverLock(d)] = owner[RetrieverLock(d)]
<1> PICK l : l = RetrieverLock(c)
  OBVIOUS
<1>1. l \in Locks /\ \A d \in Client : d # c => RetrieverLock(d) \in Locks /\ RetrieverLock(d) # l
  BY LocksDiffer
<1>2. \A k \in Locks : k # l => Entered(t, l)[k] = owner[k] /\ Left(l)[k] = owner[k]
  BY Zenon, <1>1, Monitors
<1>3. CASE owner' = Entered(t, l)
  BY Zenon, <1>1, <1>2, <1>3
<1>4. CASE owner' = Left(l)
  BY Zenon, <1>1, <1>2, <1>4
<1> QED BY Zenon, <1>3, <1>4

LEMMA WaitKeeps == ASSUME LocksInv, NEW d \in Client, WaitStep(d) PROVE LocksInv'
<1> PICK t : t = Retriever(d)
  OBVIOUS
<1>1. /\ Calling(t, "wait") /\ owner' = Left(RetrieverLock(d)) /\ asleep' = asleep \cup {d}
      /\ Then(t, <<Call("awake", d)>>) /\ UNCHANGED <<machineVars, clientVars, pingVars>>
  BY Zenon DEF WaitStep
<1>2. t \in Threads
  BY ThreadsDiffer
<1>3. PICK c \in Client : /\ t = Retriever(c) /\ Inside(c) /\ Tail(calls[t]) = <<>>
                          /\ calls[t][1] = Call("wait", c) /\ calls[t] # <<>> /\ clientState[c] # "NEW"
  BY Zenon, <1>1, <1>2, RetrieverAt
<1>4. c = d
  BY Zenon, <1>3, ThreadsDiffer
<1> PICK r : r = <<Call("awake", c)>>
  OBVIOUS
<1>5. calls' = [calls EXCEPT ![Retriever(c)] = r]
  <2>1. r \o <<>> = r
    OBVIOUS
  <2> QED BY Zenon, <1>1, <1>3, <1>4, <2>1 DEF Then
<1>6. r \in OwnStack(c) /\ ~Inside(c)'
  BY Zenon, <1>5, OwnStackBy, OwnStackIs
<1>7. TypesOK /\ OwnerOK(owner) /\ RetrieverLock(c) \in Locks /\ MonitorInv /\ NoticeInv
  BY LocksDiffer, LocksParts DEF TypesOK, LocksInv
<1>8. OwnerOK(owner') /\ owner'[RetrieverLock(c)].depth = 0
      /\ \A e \in Client : e # c => owner'[RetrieverLock(e)] = owner[RetrieverLock(e)]
  <2>1. /\ OwnerOK(owner')
        /\ owner'[RetrieverLock(c)] = [by |-> owner[RetrieverLock(c)].by,
                                       depth |-> owner[RetrieverLock(c)].depth - 1]
    BY Zenon, <1>1, <1>2, <1>4, <1>7, Monitors
  <2>2. owner[RetrieverLock(c)].depth = 1
    BY <1>3, <1>7 DEF MonitorInv
  <2>3. \A e \in Client : e # c => owner'[RetrieverLock(e)] = owner[RetrieverLock(e)]
    BY Zenon, <1>1, <1>2, <1>4, <1>7, OtherRetrievers
  <2> QED BY <2>1, <2>2, <2>3
<1>9. TypesOK'
  BY <1>1, <1>7, <1>8 DEF TypesOK, LocksTypeOK, OwnerOK, machineVars, clientVars, pingVars
<1>10. clientState'[c] = "WAITING" /\ (c \in asleep' \/ Leaving(c)') => Noticed(c)
  <2> SUFFICES ASSUME clientState'[c] = "WAITING" PROVE Noticed(c)
    OBVIOUS
  <2>1. clientState[c] = "WAITING"
    BY <1>1 DEF clientVars
  <2>2. Leaving(c)
    <3>1. calls[t][1] \notin InsideCall(c)
      <4>1. calls[t][1][1] = "wait" /\ \A k \in InsideCall(c) : k[1] # "wait"
        BY <1>3 DEF Call, InsideCall
      <4> QED BY Zenon, <4>1
    <3>2. calls[t][1] # SetClientState(c, "DISCONNECTED")
      BY <1>3 DEF Call, SetClientState
    <3> QED BY Zenon, <1>3, <3>1, <3>2 DEF Leaving
  <2> QED BY Zenon, <1>7, <2>1, <2>2 DEF NoticeInv
<1>11. clientState' = clientState
  BY <1>1 DEF clientVars
<1>12. \A e \in Client : e # c => (e \in asleep' => e \in asleep)
  BY <1>1, <1>4
<1>13. owner'[RetrieverLock(c)].depth = IF Inside(c)' THEN 1 ELSE 0
  BY <1>6, <1>8
<1>14. StacksInv'
  BY Zenon, <1>3, <1>5, <1>6, <1>8, <1>10, <1>11, <1>12, <1>13, RetrieverMoves
<1> QED BY <1>9, <1>14, LocksParts

LEMMA WakeKeeps == ASSUME LocksInv, NEW d \in Client, WakeStep(d) PROVE LocksInv'
<1> PICK t : t = Retriever(d)
  OBVIOUS
<1>1. /\ Calling(t, "awake") /\ d \notin asleep /\ UNCHANGED <<machineVars, clientVars, pingVars>>
      /\ \/ clientState[d] = "DISCONNECTED" /\ Then(t, <<>>) /\ UNCHANGED <<owner, asleep>>
         \/ /\ owner' = Entered(t, RetrieverLock(d))
            /\ Then(t, <<Call("take", d), Call("wait", d)>>) /\ UNCHANGED asleep
         \/ /\ clientState[d] # "WAITING" /\ asleep' = asleep \cup {d}
            /\ UNCHANGED <<calls, owner>>
  BY Zenon DEF WakeStep
<1>2. t \in Threads
  BY ThreadsDiffer
<1>3. PICK c \in Client : /\ t = Retriever(c) /\ Tail(calls[t]) = <<>> /\ clientState[c] # "NEW"
                          /\ calls[t][1] = Call("awake", c) /\ calls[t] # <<>> /\ ~Inside(c)
  BY Zenon, <1>1, <1>2, RetrieverAt
<1>4. c = d
  BY Zenon, <1>3, ThreadsDiffer
<1>5. TypesOK /\ OwnerOK(owner) /\ RetrieverLock(c) \in Locks /\ MonitorInv /\ StackInv
  BY LocksDiffer, LocksParts DEF TypesOK, LocksInv
<1>6. owner[RetrieverLock(c)].depth = 0
  BY <1>3, <1>5 DEF MonitorInv
<1>7. clientState' = clientState
  BY <1>1 DEF clientVars
<1>8. CASE clientState[d] = "DISCONNECTED" /\ Then(t, <<>>) /\ UNCHANGED <<owner, asleep>>
  <2>1. calls' = [calls EXCEPT ![Retriever(c)] = <<>>]
    <3>1. <<>> \o <<>> = <<>>
      OBVIOUS
    <3> QED BY Zenon, <1>3, <1>8, <3>1 DEF Then
  <2>2. <<>> \in OwnStack(c) /\ ~Inside(c)'
    BY Zenon, <2>1, OwnStackBy, OwnStackIs
  <2>3. owner' = owner /\ asleep' = asleep /\ c \notin asleep' /\ clientState'[c] # "WAITING"
    BY <1>1, <1>4, <1>7, <1>8
  <2>4. owner'[RetrieverLock(c)].depth = IF Inside(c)' THEN 1 ELSE 0
    BY <1>6, <2>2, <2>3
  <2>5. StacksInv'
    BY Zenon, <1>3, <1>7, <2>1, <2>2, <2>3, <2>4, RetrieverMoves
  <2>6. TypesOK'
    BY <1>1, <1>5, <2>3 DEF TypesOK, LocksTypeOK, OwnerOK, machineVars, clientVars, pingVars
  <2> QED BY <2>5, <2>6, LocksParts
<1>9. CASE /\ owner' = Entered(t, RetrieverLock(d))
           /\ Then(t, <<Call("take", d), Call("wait", d)>>) /\ UNCHANGED asleep
  <2> PICK r : r = <<Call("take", c), Call("wait", c)>>
    OBVIOUS
  <2>1. calls' = [calls EXCEPT ![Retriever(c)] = r]
    <3>1. r \o <<>> = r
      OBVIOUS
    <3> QED BY Zenon, <1>3, <1>4, <1>9, <3>1 DEF Then
  <2>2. r \in OwnStack(c) /\ Inside(c)' /\ ~Leaving(c)'
    <3>1. r \in OwnStack(c) /\ Call("take", c) \in InsideCall(c) \cup {SetClientState(c, "DISCONNECTED")}
      BY OwnStackBy
    <3> QED BY Zenon, <2>1, <3>1, OwnStackIs
  <2>3. /\ OwnerOK(owner')
        /\ owner'[RetrieverLock(c)] = [by |-> t, depth |-> owner[RetrieverLock(c)].depth + 1]
    BY Zenon, <1>2, <1>4, <1>5, <1>9, Monitors
  <2>4. \A e \in Client : e # c => owner'[RetrieverLock(e)] = owner[RetrieverLock(e)]
    BY Zenon, <1>2, <1>4, <1>5, <1>9, OtherRetrievers
  <2>5. owner'[RetrieverLock(c)].depth = 1 /\ owner'[RetrieverLock(c)].by = Retriever(c)
    BY <1>3, <1>6, <2>3
  <2>6. owner'[RetrieverLock(c)].depth = IF Inside(c)' THEN 1 ELSE 0
    BY <2>2, <2>5
  <2>7. asleep' = asleep /\ c \notin asleep'
    BY <1>1, <1>4, <1>9
  <2>8. StacksInv'
    BY Zenon, <1>3, <1>7, <2>1, <2>2, <2>4, <2>5, <2>6, <2>7, RetrieverMoves
  <2>9. TypesOK'
    BY <1>1, <1>5, <2>3, <2>7 DEF TypesOK, LocksTypeOK, OwnerOK, machineVars, clientVars, pingVars
  <2> QED BY <2>8, <2>9, LocksParts
<1>10. CASE clientState[d] # "WAITING" /\ asleep' = asleep \cup {d} /\ UNCHANGED <<calls, owner>>
  <2>1. calls[t] = <<Call("awake", c)>>
    <3>1. calls[t] \in Seq(AnyCall)
      BY <1>2, <1>5 DEF StackInv
    <3>2. Len(calls[t]) = 1
      <4>1. /\ Tail(calls[t]) \in Seq(AnyCall) /\ Len(calls[t]) \in Nat
            /\ Len(Tail(calls[t])) = Len(calls[t]) - 1
        BY Zenon, <1>3, <3>1, HeadTailProperties, LenProperties
      <4>2. Len(Tail(calls[t])) = 0
        BY Zenon, <1>3, <4>1, EmptySeq
      <4> QED BY <4>1, <4>2
    <3> QED BY Zenon, <1>3, <3>1, <3>2, Singleton
  <2>2. calls' = [calls EXCEPT ![Retriever(c)] = <<Call("awake", c)>>]
    <3>1. calls \in [Threads -> Seq(AnyCall)]
      BY <1>5 DEF StackInv
    <3> QED BY <1>3, <1>10, <2>1, <3>1
  <2>3. <<Call("awake", c)>> \in OwnStack(c) /\ ~Inside(c)'
    BY Zenon, <2>2, OwnStackBy, OwnStackIs
  <2>4. owner' = owner /\ clientState'[c] # "WAITING"
        /\ \A e \in Client : e # c => (e \in asleep' => e \in asleep)
    BY <1>4, <1>7, <1>10
  <2>5. owner'[RetrieverLock(c)].depth = IF Inside(c)' THEN 1 ELSE 0
    BY <1>6, <2>3, <2>4
  <2>6. StacksInv'
    BY Zenon, <1>3, <1>7, <2>2, <2>3, <2>4, <2>5, RetrieverMoves
  <2>7. TypesOK'
    BY <1>1, <1>5, <1>10 DEF TypesOK, LocksTypeOK, OwnerOK, machineVars, clientVars, pingVars
  <2> QED BY <2>6, <2>7, LocksParts
<1> QED BY <1>1, <1>8, <1>9, <1>10

LEMMA ConnectKeeps == ASSUME LocksInv, NEW c \in Client, ConnectClient(c) PROVE LocksInv'
<1> PICK k : k = SetClientState(c, "CONNECTED")
  OBVIOUS
<1> PICK w : w = SetClientState(c, "WAITING")
  OBVIOUS
<1> PICK r : r = <<Call("awake", c)>>
  OBVIOUS
<1>1. /\ clientState[c] = "NEW" /\ calls[Receiver(c)] = <<>>
      /\ clientState' = [clientState EXCEPT ![c] = "CONNECTING"]
      /\ vmClient' = [vmClient EXCEPT ![machineOf[c]] = c]
      /\ calls' = [calls EXCEPT ![Receiver(c)] = <<k, w>>, ![Retriever(c)] = r]
      /\ UNCHANGED <<machineOf, vmState, requested, reverts, hasGroup, wire, urls, owner, asleep,
                     pingVars>>
  BY Zenon DEF ConnectClient
<1>2. TypesOK /\ OwnerOK(owner) /\ MonitorInv /\ StackInv /\ RetrieverInv /\ NoticeInv
  BY LocksParts DEF TypesOK, LocksInv
<1>3. /\ \A d \in Client : d # c => clientState'[d] = clientState[d]
      /\ clientState'[c] = "CONNECTING" /\ owner' = owner /\ asleep' = asleep
  BY <1>1, <1>2 DEF TypesOK, LocksTypeOK
<1>4. TypesOK'
  BY <1>1, <1>2 DEF TypesOK, LocksTypeOK, OwnerOK, ClientStates, pingVars
<1>5. /\ k \in QuietCall /\ w \in PlainCall
      /\ \A d \in Client : /\ k \notin OwnCall(d) /\ w \notin OwnCall(d)
                           /\ k # SetClientState(d, "WAITING")
                           /\ w = SetClientState(d, "WAITING") => d = c
  <2>1. k \in QuietCall
    BY QuietCalls
  <2>2. w \in PlainCall
    BY DEF PlainCall, ClientStates
  <2>3. \A d \in Client : k \notin OwnCall(d) /\ w \notin OwnCall(d)
    BY <2>1, <2>2, PlainCallsAreNamed DEF QuietCall
  <2>4. \A d \in Client : w = SetClientState(d, "WAITING") => d = c
    BY DEF SetClientState
  <2> QED BY <2>1, <2>2, <2>3, <2>4 DEF QuietCall
<1>6. /\ r \in Seq(AnyCall) /\ Shaped(c, r)
      /\ \A i \in DOMAIN r : r[i] \in OwnCall(c)
  <2>1. r \in Seq(AnyCall) /\ Shaped(c, r)
    <3>1. r \in OwnStack(c)
      BY OwnStackBy
    <3> QED BY Zenon, <3>1, OwnStacks
  <2>2. Call("awake", c) \in OwnCall(c)
    BY DEF OwnCall
  <2> QED BY <2>1, <2>2
<1>7. <<k, w>> \in Seq(AnyCall)
      /\ \A i \in DOMAIN <<k, w>> : <<k, w>>[i] = k \/ <<k, w>>[i] = w
  BY <1>5 DEF QuietCall, AnyCall
<1>8. /\ calls' \in [Threads -> Seq(AnyCall)]
      /\ calls'[Receiver(c)] = <<k, w>> /\ calls'[Retriever(c)] = r
      /\ \A u \in Threads : u # Receiver(c) /\ u # Retriever(c) => calls'[u] = calls[u]
  <2>1. calls \in [Threads -> Seq(AnyCall)]
    BY <1>2 DEF StackInv
  <2>2. Receiver(c) \in Threads /\ Retriever(c) \in Threads /\ Receiver(c) # Retriever(c)
    BY ThreadsDiffer
  <2> QED BY <1>1, <1>6, <1>7, <2>1, <2>2
<1>9. StackInv'
  <2>1. ASSUME NEW u \in Threads, NEW i \in DOMAIN calls'[u], NEW d \in Client
        PROVE  /\ calls'[u][i] \in OwnCall(d) => u = Retriever(d)
               /\ calls'[u][i] = SetClientState(d, "WAITING") => u = Receiver(d)
    <3>1. CASE u # Receiver(c) /\ u # Retriever(c)
      BY <1>2, <1>8, <2>1, <3>1 DEF StackInv
    <3>2. CASE u = Receiver(c)
      <4>1. calls'[u][i] = k \/ calls'[u][i] = w
        BY Zenon, <1>7, <1>8, <2>1, <3>2
      <4> QED BY Zenon, <1>5, <3>2, <4>1
    <3>3. CASE u = Retriever(c)
      <4>1. calls'[u][i] \in OwnCall(c)
        BY Zenon, <1>6, <1>8, <2>1, <3>3
      <4>2. calls'[u][i] \in OwnCall(d) => d = c
        BY <4>1, OwnCallsAreNamed
      <4>3. calls'[u][i] # SetClientState(d, "WAITING")
        <5>1. calls'[u][i][1] # "setClientState"
          BY <4>1, OwnCallsAreNamed
        <5> QED BY <5>1 DEF SetClientState
      <4> QED BY Zenon, <3>3, <4>2, <4>3
    <3> QED BY <3>1, <3>2, <3>3
  <2> QED BY <1>8, <2>1 DEF StackInv
<1>10. ASSUME NEW d \in Client, d # c
       PROVE  /\ calls'[Retriever(d)] = calls[Retriever(d)] /\ calls'[Receiver(d)] = calls[Receiver(d)]
              /\ (Inside(d)' <=> Inside(d)) /\ (Leaving(d)' <=> Leaving(d))
              /\ (Noticed(d)' <=> Noticed(d))
  <2>1. calls'[Retriever(d)] = calls[Retriever(d)] /\ calls'[Receiver(d)] = calls[Receiver(d)]
    <3>1. /\ Retriever(d) \in Threads /\ Retriever(d) # Receiver(c) /\ Retriever(d) # Retriever(c)
          /\ Receiver(d) \in Threads /\ Receiver(d) # Receiver(c) /\ Receiver(d) # Retriever(c)
      BY Zenon, <1>10, ThreadsDiffer
    <3> QED BY Zenon, <1>8, <3>1
  <2>2. Inside(d)' <=> Inside(d)
    BY Zenon, <2>1 DEF Inside
  <2>3. Leaving(d)' <=> Leaving(d)
    BY Zenon, <2>1, <2>2 DEF Leaving
  <2>4. Noticed(d)' <=> Noticed(d)
    BY Zenon, <2>1 DEF Noticed
  <2> QED BY <2>1, <2>2, <2>3, <2>4
<1>11. RetrieverInv'
  <2>1. ASSUME NEW d \in Client
        PROVE  /\ Shaped(d, calls'[Retriever(d)])
               /\ d \in asleep' => calls'[Retriever(d)] = <<Call("awake", d)>>
               /\ clientState'[d] = "NEW" => calls'[Retriever(d)] = <<>>
    <3>1. CASE d = c
      BY <1>3, <1>6, <1>8, <3>1
    <3>2. CASE d # c
      <4>1. /\ Shaped(d, calls[Retriever(d)])
            /\ d \in asleep => calls[Retriever(d)] = <<Call("awake", d)>>
            /\ clientState[d] = "NEW" => calls[Retriever(d)] = <<>>
        BY Zenon, <1>2 DEF RetrieverInv, Shaped
      <4> QED BY Zenon, <1>3, <1>10, <3>2, <4>1
    <3> QED BY <3>1, <3>2
  <2> QED BY Zenon, <2>1 DEF RetrieverInv, Shaped, InsideCall
<1>12. MonitorInv'
  <2>1. ~Inside(c)
    BY <1>1, <1>2 DEF RetrieverInv, Inside
  <2>2. ~Inside(c)'
    <3>1. r[Len(r)] # Call("wait", c)
      <4>1. r[Len(r)][1] = "awake" /\ Call("wait", c)[1] = "wait"
        BY DEF Call
      <4> QED BY Zenon, <4>1
    <3> QED BY Zenon, <1>8, <3>1 DEF Inside
  <2> SUFFICES ASSUME NEW d \in Client
               PROVE  /\ owner'[RetrieverLock(d)].depth = IF Inside(d)' THEN 1 ELSE 0
                      /\ Inside(d)' => owner'[RetrieverLock(d)].by = Retriever(d)
    BY DEF MonitorInv
  <2>3. /\ owner[RetrieverLock(d)].depth = IF Inside(d) THEN 1 ELSE 0
        /\ Inside(d) => owner[RetrieverLock(d)].by = Retriever(d)
    BY Zenon, <1>2 DEF MonitorInv
  <2>4. Inside(d)' <=> Inside(d)
    BY Zenon, <1>10, <2>1, <2>2
  <2> QED BY Zenon, <1>3, <2>3, <2>4
<1>13. NoticeInv'
  <2> SUFFICES ASSUME NEW d \in Client, clientState'[d] = "WAITING", d \in asleep' \/ Leaving(d)'
               PROVE  Noticed(d)'
    BY DEF NoticeInv
  <2>1. d # c
    BY <1>3
  <2> QED BY Zenon, <1>2, <1>3, <1>10, <2>1 DEF NoticeInv
<1>14. StacksInv'
  BY <1>9, <1>11, <1>12, <1>13 DEF StacksInv
<1> QED BY <1>4, <1>14, LocksParts

LEMMA LocksBegin == LocksInit => LocksInv
<1> SUFFICES ASSUME LocksInit PROVE LocksInv
  OBVIOUS
<1>1. calls \in [Threads -> Seq(AnyCall)] /\ \A t \in Threads : calls[t] = <<>>
  BY DEF LocksInit
<1>2. OwnerOK(owner) /\ \A l \in Locks : owner[l].depth = 0
  BY DEF LocksInit, OwnerOK
<1>3. TypesOK
  BY <1>2, LocksAssumption DEF LocksInit, TypesOK, LocksTypeOK, ClientStates, OwnerOK
<1>4. \A c \in Client : /\ calls[Retriever(c)] = <<>> /\ ~Inside(c)
                        /\ owner[RetrieverLock(c)].depth = 0
  BY <1>1, <1>2, ThreadsDiffer, LocksDiffer DEF Inside
<1>5. asleep = {} /\ clientState \in [Client -> {"NEW"}]
  BY DEF LocksInit
<1>6. StackInv
  BY <1>1 DEF StackInv
<1>7. RetrieverInv
  BY <1>4, <1>5 DEF RetrieverInv
<1>8. MonitorInv
  BY <1>4 DEF MonitorInv
<1>9. NoticeInv
  BY <1>5 DEF NoticeInv
<1> QED BY <1>3, <1>6, <1>7, <1>8, <1>9 DEF LocksInv, TypesOK, OwnerOK

LEMMA LocksStep == LocksInv /\ [LocksNext]_lockVars => LocksInv'
<1> SUFFICES ASSUME LocksInv, [LocksNext]_lockVars PROVE LocksInv'
  OBVIOUS
<1>1. ASSUME NEW t \in Threads, CallStep(t) PROVE LocksInv'
  <2>1. ASSUME SendStep(t) PROVE LocksInv'
    <3>1. Calling(t, "send") \/ Calling(t, "sendVisit")
      BY Zenon, <2>1 DEF SendStep
    <3> QED BY Zenon, <2>1, <3>1, SendKeeps, SendVisitKeeps
  <2> QED BY Zenon, <1>1, <2>1, LeaveKeeps, VmStateKeeps, NotifyVmKeeps, ClientStateKeeps,
             DisconnectKeeps, TestGroupKeeps, UseGroupKeeps, NotifyAllKeeps, NotifyPingerKeeps
          DEF CallStep
<1>2. ASSUME NEW c \in Client, RetrieverStep(c) PROVE LocksInv'
  BY Zenon, <1>2, TakeKeeps, OverwriteKeeps, WaitKeeps, WakeKeeps DEF RetrieverStep
<1>3. CASE Working
  BY Zenon, <1>1, <1>2, <1>3, EndRevertKeeps DEF Working
<1>4. CASE UNCHANGED lockVars
  <2>1. UNCHANGED <<machineVars, clientVars, threadVars, pingVars>>
    BY <1>4 DEF lockVars
  <2>2. TypesOK'
    BY <2>1, LocksParts
       DEF TypesOK, LocksTypeOK, OwnerOK, machineVars, clientVars, threadVars, pingVars
  <2>3. calls' = calls /\ owner' = owner /\ asleep' = asleep /\ clientState' = clientState
    BY <2>1 DEF threadVars, clientVars
  <2>4. \A c \in Client : /\ Inside(c)' <=> Inside(c)
                          /\ Leaving(c)' <=> Leaving(c)
                          /\ Noticed(c)' <=> Noticed(c)
    BY Zenon, <2>3 DEF Inside, Leaving, Noticed
  <2>5. StackInv'
    BY Zenon, <2>3 DEF LocksInv, StackInv
  <2>6. RetrieverInv'
    BY Zenon, <2>3 DEF LocksInv, RetrieverInv
  <2>7. MonitorInv'
    BY Zenon, <2>3, <2>4 DEF LocksInv, MonitorInv
  <2>8. NoticeInv'
    BY Zenon, <2>3, <2>4 DEF LocksInv, NoticeInv
  <2>9. StacksInv'
    BY <2>5, <2>6, <2>7, <2>8 DEF StacksInv
  <2> QED BY <2>2, <2>9, LocksParts
<1> QED BY Zenon, <1>3, <1>4, ConnectKeeps, BeginRevertKeeps, StartsKeep DEF LocksNext

\* The locks, the stacks and the notifications of the server's threads fit
\* together in every reachable state: a retriever owns its monitor exactly
\* from its look at the state to its wait (Client.run), and the thread that
\* set its client WAITING has the notifyAll next on its stack but for the
\* running machine's own call (Client.setClientState).
THEOREM LocksInvariant == LocksSpec => []LocksInv
<1>1. LocksInit => LocksInv
  BY LocksBegin
<1>2. LocksInv /\ [LocksNext]_lockVars => LocksInv'
  BY LocksStep
<1> QED BY <1>1, <1>2, PTL DEF LocksSpec

\* The state of the clients, the machines and their monitors stays well
\* formed: a monitor that is entered has an owner, and the pinger has one
\* client of a machine at most (ClientsPinger's set is ordered by machine).
THEOREM LocksTypeCorrect == LocksSpec => []LocksTypeOK
<1>1. LocksInv => LocksTypeOK
  BY DEF LocksInv
<1> QED BY <1>1, LocksInvariant, PTL

LEMMA NoticedIsOwed == LocksInv => NoNotifyIsLost
<1> SUFFICES ASSUME LocksInv, NEW c \in asleep, clientState[c] = "WAITING"
             PROVE  \E t \in Threads : \E i \in 1..Len(calls[t]) : calls[t][i] = Call("notifyAll", c)
  BY DEF NoNotifyIsLost
<1> PICK t : t = Receiver(c)
  OBVIOUS
<1>1. c \in Client /\ NoticeInv /\ StackInv
  BY DEF LocksInv, LocksTypeOK
<1>2. Noticed(c) /\ t \in Threads /\ calls[t] \in Seq(AnyCall)
  BY <1>1, ThreadsDiffer DEF NoticeInv, StackInv
<1>3. \/ calls[t] # <<>> /\ calls[t][1] = Call("notifyAll", c)
      \/ Len(calls[t]) > 1 /\ calls[t][2] = Call("notifyAll", c)
  BY Zenon, <1>2 DEF Noticed
<1>4. Len(calls[t]) \in Nat /\ (calls[t] # <<>> => Len(calls[t]) > 0)
  BY <1>2, EmptySeq, LenProperties
<1>5. CASE calls[t] # <<>> /\ calls[t][1] = Call("notifyAll", c)
  <2>1. 1 \in 1..Len(calls[t])
    BY <1>4, <1>5
  <2> QED BY Zenon, <1>2, <1>5, <2>1
<1>6. CASE Len(calls[t]) > 1 /\ calls[t][2] = Call("notifyAll", c)
  <2>1. 2 \in 1..Len(calls[t])
    BY <1>4, <1>6
  <2> QED BY Zenon, <1>2, <1>6, <2>1
<1> QED BY <1>3, <1>5, <1>6

\* No wake-up is lost between Client.setClientState and Client.run: whenever
\* the retriever sleeps although its client waits for a group, the notifyAll
\* that wakes it is still to come.
THEOREM NotifiesAreNotLost == LocksSpec => []NoNotifyIsLost
BY NoticedIsOwed, LocksInvariant, PTL
=============================================================================
