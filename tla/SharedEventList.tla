-------------------------- MODULE SharedEventList ---------------------------
(***************************************************************************)
(* The lists of connection events in memory that the network driver shares *)
(* with the client, one for TCP and one for UDP: threads of the kernel     *)
(* reserve blocks of a buffer, fill them and append the event under a spin *)
(* lock; the thread of the network monitor, which cannot take that lock,   *)
(* removes the head and clears the blocks' bits.  A semaphore for each     *)
(* list wakes it up.                                                       *)
(*                                                                         *)
(* An event is two blocks, its own and one for its data.  As on one        *)
(* processor, the driver's locked sections and the clearing of a block are *)
(* one step each.  Offset 0 is NULL.                                       *)
(***************************************************************************)
EXTENDS Naturals, Sequences, FiniteSets

CONSTANTS
  Context,        \* threads of the kernel that report state changes
  Blocks,         \* size of a buffer
  MaxReports,     \* bound: events of a list
  SemaphoreLimit  \* 65355 in the code

ASSUME SharedListAssumption ==
  Blocks \in Nat \ {0} /\ MaxReports \in Nat /\ SemaphoreLimit \in Nat \ {0}

List == 1..2      \* TCP and UDP
Block == 1..Blocks
NULL == 0

VARIABLES
  bits,      \* blocks that are in use
  hint,      \* bitmap_hint_index
  head,
  tail,
  block,     \* memory: [event, next, data] of a block
  context,   \* what a thread of the kernel is doing
  attached,  \* the driver has the semaphore of the list
  semaphore, \* its count
  listReader,    \* the thread of the network monitor
  inserted,  \* history: events in the order of their insertion
  received,  \* history: events in the order in which the monitor read them
  skipped,   \* history: events that were inserted while the head was replaced
  stopped    \* the system has stopped with an error

sharedVars == <<bits, hint, head, tail, block, context, attached, semaphore, listReader,
                inserted, received, skipped, stopped>>

Idle == [pc |-> "idle", list |-> 1, at |-> NULL]
Waiting == [pc |-> "wait", list |-> 1, at |-> NULL, next |-> NULL, woken |-> NULL]

SharedInit ==
  /\ bits = [l \in List |-> {}] /\ hint = [l \in List |-> 1]
  /\ head = [l \in List |-> NULL] /\ tail = [l \in List |-> NULL]
  /\ block = [l \in List |-> [b \in Block |-> [event |-> 0, next |-> NULL, data |-> NULL]]]
  /\ context = [t \in Context |-> Idle]
  /\ attached = [l \in List |-> FALSE] /\ semaphore = [l \in List |-> 0]
  /\ listReader = Waiting
  /\ inserted = [l \in List |-> <<>>] /\ received = [l \in List |-> <<>>]
  /\ skipped = [l \in List |-> {}]
  /\ stopped = FALSE

(* RtlFindClearBitsAndSet: the first clear bit from the hint on, else the  *)
(* first of all.                                                           *)
ClearBits(l) == Block \ bits[l]
FoundBit(l) == LET after == {b \in ClearBits(l) : b >= hint[l]}
                   from == IF after = {} THEN ClearBits(l) ELSE after
               IN CHOOSE b \in from : \A c \in from : b <= c

ReserveSpace(l) ==
  /\ bits' = [bits EXCEPT ![l] = bits[l] \cup {FoundBit(l)}]
  /\ hint' = [hint EXCEPT ![l] = FoundBit(l)]

Reports(l) == Len(inserted[l])
  + Cardinality({t \in Context : context[t].pc # "idle" /\ context[t].list = l})

(* SetConnectionState uses the event whether or not there was room for it. *)
CreateEvent(t, l) ==
  /\ ~stopped /\ context[t].pc = "idle" /\ Reports(l) < MaxReports
  /\ IF ClearBits(l) = {}
     THEN stopped' = TRUE /\ UNCHANGED <<bits, hint, block, context>>
     ELSE /\ ReserveSpace(l)
          /\ block' = [block EXCEPT ![l][FoundBit(l)] = [event |-> 0, next |-> NULL, data |-> NULL]]
          /\ context' = [context EXCEPT ![t] = [pc |-> "data", list |-> l, at |-> FoundBit(l)]]
          /\ UNCHANGED stopped
  /\ UNCHANGED <<head, tail, attached, semaphore, listReader, inserted, received,
                 skipped>>

(* Without room the event has no data.                                     *)
AddEventData(t) == LET l == context[t].list IN
  /\ ~stopped /\ context[t].pc = "data"
  /\ IF ClearBits(l) = {}
     THEN context' = [context EXCEPT ![t].pc = "insert"] /\ UNCHANGED <<bits, hint,
                                                                        block>>
     ELSE /\ ReserveSpace(l)
          /\ block' = [block EXCEPT ![l][context[t].at].data = FoundBit(l),
                                    ![l][FoundBit(l)] = [event |-> 0, next |-> NULL, data |-> NULL]]
          /\ context' = [context EXCEPT ![t].pc = "insert"]
  /\ UNCHANGED <<head, tail, attached, semaphore, listReader, inserted, received,
                 skipped, stopped>>

(* The monitor has read that there is no next event, and is about to make  *)
(* the list empty.                                                         *)
HeadIsBeingReplaced(l) == listReader.pc = "store" /\ listReader.list = l /\ listReader.next = NULL

Numbered(l, e) == [block[l] EXCEPT ![e].event = Len(inserted[l]) + 1]

(* Seeded fault: the last event is not linked to the new one.            *)
Linked_NoLink(l, e) == Numbered(l, e)

Linked(l, e) == IF tail[l] = NULL THEN Numbered(l, e)
                ELSE [Numbered(l, e) EXCEPT ![tail[l]].next = e]

(* The semaphore is released only when there is one; beyond its limit the  *)
(* release raises an exception.                                            *)
InsertEvent(t) == LET l == context[t].list  e == context[t].at IN
  /\ ~stopped /\ context[t].pc = "insert"
  /\ head' = IF head[l] = NULL THEN [head EXCEPT ![l] = e] ELSE head
  /\ block' = [block EXCEPT ![l] = Linked(l, e)]
  /\ tail' = [tail EXCEPT ![l] = e]
  /\ semaphore' = IF attached[l] /\ semaphore[l] < SemaphoreLimit
                  THEN [semaphore EXCEPT ![l] = semaphore[l] + 1] ELSE semaphore
  /\ stopped' = (attached[l] /\ semaphore[l] = SemaphoreLimit)
  /\ inserted' = [inserted EXCEPT ![l] = Append(inserted[l], Len(inserted[l]) + 1)]
  /\ skipped' = IF HeadIsBeingReplaced(l)
                THEN [skipped EXCEPT ![l] = skipped[l] \cup {Len(inserted[l]) + 1}] ELSE skipped
  /\ context' = [context EXCEPT ![t] = Idle]
  /\ UNCHANGED <<bits, hint, attached, listReader, received>>

(* GET_SHARED_EVENT_LIST_IOCTL, first for one list and then for the other. *)
GetSharedEventList(l) ==
  /\ ~stopped /\ ~attached[l] /\ \A k \in List : k < l => attached[k]
  /\ attached' = [attached EXCEPT ![l] = TRUE]
  /\ UNCHANGED <<bits, hint, head, tail, block, context, semaphore, listReader,
                 inserted,
                 received, skipped, stopped>>

(* One wake-up looks at both lists, and takes one event from each.         *)
WakeUp(l) ==
  /\ ~stopped /\ \A k \in List : attached[k]
  /\ listReader.pc = "wait" /\ semaphore[l] > 0 /\ \A k \in List : k < l => semaphore[k] = 0
  /\ semaphore' = [semaphore EXCEPT ![l] = semaphore[l] - 1]
  /\ listReader' = [Waiting EXCEPT !.pc = "head", !.woken = l]
  /\ UNCHANGED <<bits, hint, head, tail, block, context, attached, inserted, received,
                 skipped, stopped>>

ReaderUnchanged == UNCHANGED <<hint, tail, block, context, attached, semaphore, inserted,
                               skipped, stopped>>

AfterList == IF listReader.list = 1 THEN [listReader EXCEPT !.pc = "head", !.list = 2] ELSE Waiting

ReadHead == LET h == head[listReader.list] IN
  /\ ~stopped /\ listReader.pc = "head"
  /\ listReader' = IF h = NULL THEN AfterList ELSE [listReader EXCEPT !.pc = "data", !.at = h]
  /\ UNCHANGED <<bits, head, received>> /\ ReaderUnchanged

ReadData == LET l == listReader.list  node == block[l][listReader.at] IN
  /\ ~stopped /\ listReader.pc = "data"
  /\ bits' = [bits EXCEPT ![l] = bits[l] \ {node.data}]
  /\ received' = [received EXCEPT ![l] = Append(received[l], node.event)]
  /\ listReader' = [listReader EXCEPT !.pc = "next"]
  /\ UNCHANGED head /\ ReaderUnchanged

ReadNext ==
  /\ ~stopped /\ listReader.pc = "next"
  /\ listReader' = [listReader EXCEPT !.pc = "store",
                                       !.next = block[listReader.list][listReader.at].next]
  /\ UNCHANGED <<bits, head, received>> /\ ReaderUnchanged

StoreHead ==
  /\ ~stopped /\ listReader.pc = "store"
  /\ head' = [head EXCEPT ![listReader.list] = listReader.next]
  /\ listReader' = [listReader EXCEPT !.pc = "clear"]
  /\ UNCHANGED <<bits, received>> /\ ReaderUnchanged

ClearEvent ==
  /\ ~stopped /\ listReader.pc = "clear"
  /\ bits' = [bits EXCEPT ![listReader.list] = bits[listReader.list] \ {listReader.at}]
  /\ listReader' = AfterList
  /\ UNCHANGED <<head, received>> /\ ReaderUnchanged

SharedNext ==
  \/ \E t \in Context : AddEventData(t) \/ InsertEvent(t) \/ \E l \in List : CreateEvent(t, l)
  \/ \E l \in List : GetSharedEventList(l) \/ WakeUp(l)
  \/ ReadHead \/ ReadData \/ ReadNext \/ StoreHead \/ ClearEvent

SharedSpec == SharedInit /\ [][SharedNext]_sharedVars
-----------------------------------------------------------------------------
SharedTypeOK ==
  /\ bits \in [List -> SUBSET Block] /\ hint \in [List -> Block]
  /\ head \in [List -> Block \cup {NULL}] /\ tail \in [List -> Block \cup {NULL}]
  /\ context \in [Context -> [pc : {"idle", "data", "insert"}, list : List,
                              at : Block \cup {NULL}]]
  /\ semaphore \in [List -> 0..SemaphoreLimit]
  /\ listReader.pc \in {"wait", "head", "data", "next", "store", "clear"}

Received(l) == {received[l][i] : i \in DOMAIN received[l]}

(* Though only one side takes the lock, the monitor reads the events in    *)
(* the order of their insertion, none twice, and misses only those that    *)
(* come between its reading that there is no next event and its emptying   *)
(* of the list.  The events are numbered as they are inserted.             *)
EventsAreReadInOrder == \A l \in List :
  /\ \A i, j \in DOMAIN received[l] : i < j => received[l][i] < received[l][j]
  /\ Received(l) \subseteq 1 .. Len(inserted[l]) \ skipped[l]
  /\ \A n \in Received(l) : 1 .. n \subseteq Received(l) \cup skipped[l]

=============================================================================
