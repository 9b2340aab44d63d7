------------------------------ MODULE HashMap -------------------------------
(***************************************************************************)
(* One bucket of the connection monitor's hash map: a doubly linked list   *)
(* of pairs that one processor changes, pointer by pointer, while others   *)
(* walk through it.  The map takes no lock ("TODO Lock me real hard");     *)
(* that two processors do not change it at the same time is assumed here,  *)
(* and nothing in the driver provides for it.                              *)
(*                                                                         *)
(* The memory of a removed pair is given out again.                        *)
(***************************************************************************)
EXTENDS Naturals, Sequences

CONSTANTS
  Key,          \* keys, the file objects, of one bucket
  Pair,         \* the memory there is for pairs
  Finder,       \* processors that look for a key
  MaxInserts,   \* bound: insertions
  NoPair, NoKey \* null

ASSUME MapAssumption ==
  MaxInserts \in Nat /\ NoPair \notin Pair /\ NoKey \notin Key

VARIABLES
  entry,      \* head and tail of the bucket
  pair,       \* pair[p]: its fields, whatever they are while it is free
  allocated,  \* pairs in use
  inserts,    \* insertions so far
  change,     \* where the processor is that inserts or removes, and its pair
  finder,     \* where the others are
  bucketGone  \* DestroyHashMap has run

mapVars == <<entry, pair, allocated, inserts, change, finder, bucketGone>>

\* InitialiseHashMap, and the entry of the bucket's first insertion.
MapInit ==
  /\ entry = [head |-> NoPair, tail |-> NoPair]
  /\ pair = [p \in Pair |-> [key |-> NoKey, value |-> 0, next |-> NoPair, prev |-> NoPair]]
  /\ allocated = {} /\ inserts = 0 /\ bucketGone = FALSE
  /\ change = [pc |-> "idle", pair |-> NoPair]
  /\ finder = [f \in Finder |-> [pc |-> "idle", key |-> NoKey, at |-> NoPair, result |-> 0,
                                 sure |-> FALSE, torn |-> FALSE]]
-----------------------------------------------------------------------------
(* The list as it is read from the head on                                 *)

NextOf(p) == IF p = NoPair THEN NoPair ELSE pair[p].next

\* The pair after n steps, none behind the end of the list.
Reached[n \in 0 .. MaxInserts] == IF n = 0 THEN entry.head ELSE NextOf(Reached[n - 1])

\* One pair too many when it does not end.
Walk == [i \in {n \in 1 .. MaxInserts + 1 : Reached[n - 1] # NoPair} |-> Reached[i - 1]]

InList(k) == \E i \in DOMAIN Walk : pair[Walk[i]].key = k
-----------------------------------------------------------------------------
(* The processor that changes the list                                     *)

At(pc) == ~bucketGone /\ change.pc = pc
Goto(pc) == change' = [change EXCEPT !.pc = pc]

\* A find whose key is in the list until it ends is sure to get it.
NotSure(k) == finder' = [f \in Finder |->
  IF finder[f].key = k THEN [finder[f] EXCEPT !.sure = FALSE] ELSE finder[f]]

\* A pair is allocated and filled in.
BeginInsert(k, p) ==
  /\ At("idle") /\ inserts < MaxInserts /\ p \notin allocated
  /\ allocated' = allocated \cup {p} /\ inserts' = inserts + 1
  /\ pair' = [pair EXCEPT ![p] = [key |-> k, value |-> inserts + 1, next |-> NoPair,
                                  prev |-> entry.tail]]
  /\ change' = [pc |-> "head", pair |-> p]
  /\ UNCHANGED <<entry, finder, bucketGone>>

SetHead ==
  /\ At("head") /\ Goto("link")
  /\ entry' = IF entry.head = NoPair THEN [entry EXCEPT !.head = change.pair] ELSE entry
  /\ UNCHANGED <<pair, allocated, inserts, finder, bucketGone>>

LinkPair ==
  /\ At("link") /\ Goto("tail")
  /\ pair' = IF entry.tail = NoPair THEN pair
             ELSE [pair EXCEPT ![entry.tail].next = change.pair]
  /\ UNCHANGED <<entry, allocated, inserts, finder, bucketGone>>

SetTail ==
  /\ At("tail") /\ change' = [pc |-> "idle", pair |-> NoPair]
  /\ entry' = [entry EXCEPT !.tail = change.pair]
  /\ UNCHANGED <<pair, allocated, inserts, finder, bucketGone>>

\* RemoveHashMap takes the first pair of the key.
BeginRemove(k) ==
  /\ At("idle") /\ InList(k)
  /\ LET first == CHOOSE i \in DOMAIN Walk :
                    /\ pair[Walk[i]].key = k
                    /\ \A j \in 1 .. i - 1 : pair[Walk[j]].key # k
     IN  change' = [pc |-> "before", pair |-> Walk[first]]
  /\ NotSure(k)
  /\ UNCHANGED <<entry, pair, allocated, inserts, bucketGone>>

UnlinkNext == LET p == pair[change.pair] IN
  /\ At("before") /\ Goto("after")
  /\ pair' = IF p.next = NoPair THEN pair ELSE [pair EXCEPT ![p.next].prev = p.prev]
  /\ UNCHANGED <<entry, allocated, inserts, finder, bucketGone>>

UnlinkPrevious == LET p == pair[change.pair] IN
  /\ At("after") /\ Goto("unhead")
  /\ pair' = IF p.prev = NoPair THEN pair ELSE [pair EXCEPT ![p.prev].next = p.next]
  /\ UNCHANGED <<entry, allocated, inserts, finder, bucketGone>>

\* Seeded fault: the tail is forgotten.
UnlinkHead_Only ==
  /\ At("unhead") /\ Goto("free")
  /\ entry' = IF entry.head = change.pair
              THEN [entry EXCEPT !.head = pair[change.pair].next] ELSE entry
  /\ UNCHANGED <<pair, allocated, inserts, finder, bucketGone>>

UnlinkHead ==
  /\ At("unhead") /\ Goto("untail")
  /\ entry' = IF entry.head = change.pair
              THEN [entry EXCEPT !.head = pair[change.pair].next] ELSE entry
  /\ UNCHANGED <<pair, allocated, inserts, finder, bucketGone>>

UnlinkTail ==
  /\ At("untail") /\ Goto("free")
  /\ entry' = IF entry.tail = change.pair
              THEN [entry EXCEPT !.tail = pair[change.pair].prev] ELSE entry
  /\ UNCHANGED <<pair, allocated, inserts, finder, bucketGone>>

\* Who stands on the pair reads freed memory from here on.
Tear(gone) == finder' = [f \in Finder |->
  IF finder[f].at \in gone THEN [finder[f] EXCEPT !.torn = TRUE] ELSE finder[f]]

FreePair ==
  /\ At("free") /\ change' = [pc |-> "idle", pair |-> NoPair]
  /\ allocated' = allocated \ {change.pair}
  /\ Tear({change.pair})
  /\ UNCHANGED <<entry, pair, inserts, bucketGone>>

\* DestroyHashMap, when the driver is unloaded.
DestroyHashMap ==
  /\ At("idle") /\ bucketGone' = TRUE
  /\ allocated' = {} /\ Tear(allocated)
  /\ UNCHANGED <<entry, pair, inserts, change>>
-----------------------------------------------------------------------------
(* FindHashMap on another processor                                        *)

Finds(f, to) == finder' = [finder EXCEPT ![f] = to]
FindRest == UNCHANGED <<entry, pair, allocated, inserts, change, bucketGone>>

BeginFind(f, k) ==
  /\ ~bucketGone /\ finder[f].pc = "idle"
  /\ Finds(f, [pc |-> "walk", key |-> k, at |-> entry.head, result |-> 0, torn |-> FALSE,
               sure |-> InList(k) /\ ~(change.pc \in {"before", "after", "unhead"}
                                         /\ pair[change.pair].key = k)])
  /\ FindRest

FindStep(f) == LET me == finder[f] IN
  /\ me.pc = "walk" /\ me.at # NoPair /\ ~me.torn
  /\ IF pair[me.at].key = me.key
     THEN Finds(f, [me EXCEPT !.pc = "found", !.result = pair[me.at].value])
     ELSE Finds(f, [me EXCEPT !.at = pair[me.at].next])
  /\ FindRest

FindNothing(f) == LET me == finder[f] IN
  /\ me.pc = "walk" /\ me.at = NoPair
  /\ Finds(f, [me EXCEPT !.pc = "found"])
  /\ FindRest

\* The pair it stands on was freed: a crash, or anything at all.
EndFind(f) ==
  /\ finder[f].pc = "found" \/ finder[f].torn
  /\ Finds(f, [pc |-> "idle", key |-> NoKey, at |-> NoPair, result |-> 0, sure |-> FALSE,
               torn |-> FALSE])
  /\ FindRest
-----------------------------------------------------------------------------
MapNext ==
  \/ \E k \in Key : BeginRemove(k) \/ \E p \in Pair : BeginInsert(k, p)
  \/ SetHead \/ LinkPair \/ SetTail
  \/ UnlinkNext \/ UnlinkPrevious \/ UnlinkHead \/ UnlinkTail \/ FreePair \/ DestroyHashMap
  \/ \E f \in Finder : FindStep(f) \/ FindNothing(f) \/ EndFind(f) \/ \E k \in Key : BeginFind(f, k)

MapSpec == MapInit /\ [][MapNext]_mapVars
-----------------------------------------------------------------------------
MapTypeOK ==
  /\ entry \in [head : Pair \cup {NoPair}, tail : Pair \cup {NoPair}]
  /\ pair \in [Pair -> [key : Key \cup {NoKey}, value : 0 .. MaxInserts,
                        next : Pair \cup {NoPair}, prev : Pair \cup {NoPair}]]
  /\ allocated \subseteq Pair /\ bucketGone \in BOOLEAN
  /\ change \in [pc : {"idle", "head", "link", "tail", "before", "after", "unhead", "untail",
                       "free"}, pair : Pair \cup {NoPair}]

\* The bucket as a list, nothing once it is destroyed.
Content == IF bucketGone THEN <<>>
           ELSE LET w == Walk IN
                [i \in DOMAIN w |-> [key |-> pair[w[i]].key, value |-> pair[w[i]].value]]

Bucket == INSTANCE KeyedList WITH
          ListKey <- Key, ListValue <- 1 .. MaxInserts, content <- Content

(* FindHashMap on one processor gets a pair of a key that is in the bucket  *)
(* from the beginning of the walk to its end, whatever is inserted and      *)
(* removed around it meanwhile - if no pair is freed under its feet.        *)
FindsWhatIsThere ==
  \A f \in Finder : finder[f].pc = "found" /\ finder[f].sure /\ ~finder[f].torn =>
    finder[f].result # 0

(* However the pointers are changed one after the other, a reader sees a    *)
(* list to which a pair is appended in one step or from which one is        *)
(* taken in one step: pairs are neither lost nor doubled, and freed ones    *)
(* are out of reach (InsertHashMap, RemoveHashMap) of a walk that is not    *)
(* inside one, which finds what it should.                                  *)
BucketIsAList == Bucket!ListSpec /\ []FindsWhatIsThere
=============================================================================
