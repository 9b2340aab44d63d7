----------------------------- MODULE FileDriver -----------------------------
(***************************************************************************)
(* The file system filter driver: operations of monitored threads with     *)
(* their pre- and post-operation callbacks, the copy of a file that is     *)
(* about to be deleted, and the port through which the client reads the    *)
(* events and says where copies go.                                        *)
(*                                                                         *)
(* The list of events is the channel of EventChannel, which MonitorQueue   *)
(* shows the loops of such a driver to implement.  Every FILE_EVENT has an *)
(* identity, so that what becomes of it can be followed.  Paths are        *)
(* sequences of names.                                                     *)
(***************************************************************************)
EXTENDS Naturals, Sequences, FiniteSets

CONSTANTS
  Worker,         \* threads with file operations
  File,           \* files: [volume |-> v, dirs |-> names, name |-> n]
  DosDrive,       \* DosDrive[v]: the letter of the volume, or its share, as a path
  MaxOperations,  \* bound: operations of a thread
  MaxVersion,     \* bound: how often a file is written anew
  NoFileOp        \* null

ASSUME FileDriverAssumption ==
  MaxOperations \in Nat /\ MaxVersion \in Nat \ {0}

FileEvent == [by : Worker, n : 1..MaxOperations]

(* What the callbacks tell apart in an operation: the list of callbacks is *)
(* the same pair for every kind of operation.                              *)
FileOperation == [file : File, kind : {"other", "write", "delete", "shutdown"},
                  named : {"normalized", "no"}]

(* The stages of an operation, its event's context and the log directory   *)
(* it was given for the copy.                                              *)
RunningOperation ==
  [pc : {"pre", "copy", "allocate", "below", "post"}, what : FileOperation, event : BOOLEAN,
   dir : 0..2, covered : BOOLEAN, spoilt : BOOLEAN]

ASSUME NoFileOpAssumption == NoFileOp \notin RunningOperation

VARIABLES
  filtering,    \* the filter is registered
  client,       \* pClientPort is not NULL
  heard,        \* lastContactTime is recent
  collecting,   \* bCollectDeletedFiles
  directory,    \* logDirectory: 0 for a NULL buffer, else the number of the buffer
  op,           \* what a thread is doing
  count,        \* operations of a thread so far
  fileQueue,    \* lQueuedFileEvents
  reported,     \* events the client received
  pool,         \* allocated FILE_EVENTs
  version,      \* contents of a file, 0 when there is none
  folders,      \* directories below the log directory
  copies        \* copies of deleted files: path -> version

fileVars == <<filtering, client, heard, collecting, directory, op, count, fileQueue,
              reported, pool, version, folders, copies>>

Target(f) == DosDrive[f.volume] \o f.dirs \o <<f.name>>
Folder(f) == DosDrive[f.volume] \o f.dirs

FileInit ==
  /\ filtering = TRUE /\ client = FALSE /\ heard = TRUE
  /\ collecting = FALSE /\ directory = 0
  /\ op = [t \in Worker |-> NoFileOp] /\ count = [t \in Worker |-> 0]
  /\ fileQueue = <<>> /\ reported = <<>> /\ pool = {}
  /\ version = [f \in File |-> 1]
  /\ folders = {<<>>} /\ copies = <<>>

(* A thread starts an operation.  covered is a history variable: deleted   *)
(* files have been collected ever since.                                   *)
StartOperation(t) == \E o \in FileOperation :
  /\ op[t] = NoFileOp /\ count[t] < MaxOperations
  /\ o.kind = "delete" => version[o.file] # 0
  /\ o.kind = "write" => version[o.file] < MaxVersion
  /\ op' = [op EXCEPT ![t] = [pc |-> IF filtering THEN "pre" ELSE "below", what |-> o,
                              event |-> FALSE, dir |-> 0, covered |-> collecting,
                              spoilt |-> FALSE]]
  /\ count' = [count EXCEPT ![t] = count[t] + 1]
  /\ UNCHANGED <<filtering, client, heard, collecting, directory, fileQueue, reported,
                 pool, version, folders, copies>>

EventOf(t) == [by |-> t, n |-> count[t]]

(* Seeded fault: a file is copied when the client was heard of lately.     *)
Name_OnlyHeard(t) ==
  /\ op[t] # NoFileOp /\ op[t].pc = "pre"
  /\ \/ op' = [op EXCEPT ![t].pc = IF /\ op[t].what.kind = "delete"
                                      /\ op[t].what.named = "normalized"
                                      /\ collecting /\ heard
                                   THEN "copy" ELSE "allocate",
                         ![t].spoilt = op[t].what.named = "no",
                         ![t].dir = directory]
     \/ op' = [op EXCEPT ![t].pc = "below", ![t].spoilt = TRUE]
  /\ UNCHANGED <<filtering, client, heard, collecting, directory, count, fileQueue,
                 reported, pool, version, folders, copies>>

(* The name is asked for and a file that is to be deleted is copied when   *)
(* the client wants it; without a normalized name the copier gets an       *)
(* uninitialised pointer, and fails at best.  Without memory for the 64 KB *)
(* of a path the operation is let through at once.                         *)
Name(t) ==
  /\ op[t] # NoFileOp /\ op[t].pc = "pre"
  /\ \/ op' = [op EXCEPT ![t].pc = IF /\ op[t].what.kind = "delete"
                                      /\ op[t].what.named = "normalized"
                                      /\ collecting
                                   THEN "copy" ELSE "allocate",
                         ![t].spoilt = op[t].what.named = "no",
                         ![t].dir = directory]
     \/ op' = [op EXCEPT ![t].pc = "below", ![t].spoilt = TRUE]
  /\ UNCHANGED <<filtering, client, heard, collecting, directory, count, fileQueue,
                 reported, pool, version, folders, copies>>

(* The directories are created from the root down: one that exists is a    *)
(* name collision and is passed over.                                      *)
AllDirectories(f) == {SubSeq(Folder(f), 1, i) : i \in 0..Len(Folder(f))}

(* FILE_CREATE does not replace the copy of an earlier file of that name.  *)
WithCopy(f) ==
  IF Target(f) \in DOMAIN copies THEN copies
  ELSE [p \in DOMAIN copies \cup {Target(f)} |->
          IF p = Target(f) THEN version[f] ELSE copies[p]]

(* The path was built from a buffer that may be gone by now; what happens  *)
(* then is undefined and at best no copy is made.                          *)
CopyFileIfBeingDeleted(t) == LET f == op[t].what.file IN
  /\ op[t] # NoFileOp /\ op[t].pc = "copy"
  /\ \/ /\ directory = op[t].dir
        /\ folders' = folders \cup AllDirectories(f)
        /\ copies' = WithCopy(f)
        /\ op' = [op EXCEPT ![t].pc = "allocate"]
     \/ /\ op' = [op EXCEPT ![t].pc = "allocate", ![t].spoilt = TRUE]
        /\ folders' \in {folders, folders \cup AllDirectories(f)}
        /\ UNCHANGED copies
  /\ UNCHANGED <<filtering, client, heard, collecting, directory, count, fileQueue,
                 reported, pool, version>>

(* The event is allocated and waits for the operation to end; without      *)
(* memory the operation has no post callback.                              *)
Allocate(t) ==
  /\ op[t] # NoFileOp /\ op[t].pc = "allocate"
  /\ \/ /\ pool' = pool \cup {EventOf(t)}
        /\ op' = [op EXCEPT ![t].event = TRUE,
                            ![t].pc = IF op[t].what.kind = "shutdown" THEN "post" ELSE "below"]
     \/ /\ op' = [op EXCEPT ![t].pc = "below"]
        /\ UNCHANGED pool
  /\ UNCHANGED <<filtering, client, heard, collecting, directory, count, fileQueue,
                 reported, version, folders, copies>>

(* The file system executes the operation, or refuses to.                  *)
Below(t) == LET o == op[t].what IN
  /\ op[t] # NoFileOp /\ op[t].pc = "below"
  /\ version' \in {version, [version EXCEPT ![o.file] =
       CASE o.kind = "delete" -> 0
         [] o.kind = "write" /\ version[o.file] < MaxVersion -> MaxVersion
         [] OTHER -> version[o.file]]}
  /\ op' = [op EXCEPT ![t] = IF op[t].event THEN [op[t] EXCEPT !.pc = "post"] ELSE NoFileOp]
  /\ UNCHANGED <<filtering, client, heard, collecting, directory, count, fileQueue,
                 reported, pool, folders, copies>>

FreeEvents(events) == pool' = pool \ events

(* QueueFileEvent, or the event is freed: nobody listens, or there is no   *)
(* memory for the list element.                                            *)
QueueFileEvent(e) ==
  \/ /\ heard
     /\ fileQueue' = Append(fileQueue, e)
     /\ UNCHANGED pool
  \/ /\ FreeEvents({e})
     /\ UNCHANGED fileQueue

(* A shutdown is passed on after its event was queued, without a callback. *)
PostFileOperation(t) ==
  /\ op[t] # NoFileOp /\ op[t].pc = "post"
  /\ QueueFileEvent(EventOf(t))
  /\ op' = [op EXCEPT ![t] = IF op[t].what.kind = "shutdown"
                             THEN [op[t] EXCEPT !.pc = "below", !.event = FALSE]
                             ELSE NoFileOp]
  /\ UNCHANGED <<filtering, client, heard, collecting, directory, count, reported,
                 version, folders, copies>>

Queued(q) == {q[i] : i \in 1..Len(q)}

(* What FreeQueuedEvents leaves of the list: the timer routine, a          *)
(* disconnection and the unloading of the driver all call it.              *)
FreeQueuedEvents ==
  /\ fileQueue' = <<>>
  /\ FreeEvents(Queued(fileQueue))

ConnectionChecker ==
  /\ filtering /\ ~heard
  /\ FreeQueuedEvents
  /\ UNCHANGED <<filtering, client, heard, collecting, directory, op, count, reported,
                 version, folders, copies>>

TimePasses ==
  /\ heard /\ heard' = FALSE
  /\ UNCHANGED <<filtering, client, collecting, directory, op, count, fileQueue,
                 reported, pool, version, folders, copies>>

(* MessageCallback, GetFileEvents: as many events as fit.                  *)
GetFileEvents == \E k \in 0..Len(fileQueue) :
  /\ client
  /\ heard' = TRUE
  /\ reported' = reported \o SubSeq(fileQueue, 1, k)
  /\ fileQueue' = SubSeq(fileQueue, k + 1, Len(fileQueue))
  /\ FreeEvents(Queued(SubSeq(fileQueue, 1, k)))
  /\ UNCHANGED <<filtering, client, collecting, directory, op, count, version,
                 folders, copies>>

NotCovered == [t \in Worker |->
  IF op[t] = NoFileOp THEN NoFileOp ELSE [op[t] EXCEPT !.covered = FALSE]]

(* MessageCallback, SetupMonitor: the old buffer is freed before the new   *)
(* one is asked for, and the flag is left alone when there is none.        *)
SetupMonitor(wanted) ==
  /\ client
  /\ IF wanted
     THEN \/ /\ directory' = IF directory = 1 THEN 2 ELSE 1
             /\ collecting' = TRUE
          \/ directory' = 0 /\ UNCHANGED collecting
     ELSE collecting' = FALSE /\ directory' = 0
  /\ op' = IF collecting /\ directory' # 0 /\ directory = 0 THEN op ELSE NotCovered
  /\ UNCHANGED <<filtering, client, heard, count, fileQueue, reported, pool, version,
                 folders, copies>>

ConnectCallback ==
  /\ filtering /\ ~client
  /\ client' = TRUE
  /\ UNCHANGED <<filtering, heard, collecting, directory, op, count, fileQueue,
                 reported,
                 pool, version, folders, copies>>

StopCollecting ==
  /\ directory' = 0 /\ collecting' = FALSE

DisconnectCallback ==
  /\ client
  /\ client' = FALSE
  /\ FreeQueuedEvents /\ StopCollecting
  /\ op' = NotCovered
  /\ UNCHANGED <<filtering, heard, count, reported, version, folders, copies>>

(* Seeded fault: DRAINING does not free the event of a callback.           *)
FilterUnload_KeepsContexts ==
  /\ filtering /\ ~client
  /\ \A t \in Worker : op[t] # NoFileOp => op[t].pc = "below"
  /\ filtering' = FALSE
  /\ op' = [t \in Worker |->
       IF op[t] = NoFileOp THEN NoFileOp ELSE [op[t] EXCEPT !.event = FALSE, !.covered = FALSE]]
  /\ FreeEvents(Queued(fileQueue))
  /\ fileQueue' = <<>> /\ StopCollecting
  /\ UNCHANGED <<client, heard, count, reported, version, folders, copies>>

(* FltUnregisterFilter waits for the callbacks that run and calls the      *)
(* pending post-operation callbacks with the flag DRAINING, which frees    *)
(* their events; then the rest is freed.                                   *)
FilterUnload ==
  /\ filtering /\ ~client
  /\ \A t \in Worker : op[t] # NoFileOp => op[t].pc = "below"
  /\ filtering' = FALSE
  /\ op' = [t \in Worker |->
       IF op[t] = NoFileOp THEN NoFileOp ELSE [op[t] EXCEPT !.event = FALSE, !.covered = FALSE]]
  /\ FreeEvents(Queued(fileQueue) \cup {EventOf(t) : t \in {u \in Worker :
                                           op[u] # NoFileOp /\ op[u].event}})
  /\ fileQueue' = <<>> /\ StopCollecting
  /\ UNCHANGED <<client, heard, count, reported, version, folders, copies>>

DriverEntry ==
  /\ ~filtering
  /\ filtering' = TRUE /\ heard' = TRUE
  /\ UNCHANGED <<client, collecting, directory, op, count, fileQueue, reported, pool,
                 version, folders, copies>>

FileNext ==
  \/ \E t \in Worker : \/ StartOperation(t) \/ Name(t) \/ CopyFileIfBeingDeleted(t)
                       \/ Allocate(t) \/ Below(t) \/ PostFileOperation(t)
  \/ ConnectionChecker \/ TimePasses
  \/ GetFileEvents \/ \E wanted \in BOOLEAN : SetupMonitor(wanted)
  \/ ConnectCallback \/ DisconnectCallback \/ FilterUnload \/ DriverEntry

FileSpec == FileInit /\ [][FileNext]_fileVars
-----------------------------------------------------------------------------
FileTypeOK ==
  /\ filtering \in BOOLEAN /\ client \in BOOLEAN /\ heard \in BOOLEAN
  /\ collecting \in BOOLEAN /\ directory \in 0..2
  /\ op \in [Worker -> RunningOperation \cup {NoFileOp}]
  /\ count \in [Worker -> 0..MaxOperations]
  /\ fileQueue \in Seq(FileEvent) /\ reported \in Seq(FileEvent)
  /\ pool \subseteq FileEvent
  /\ version \in [File -> 0..MaxVersion]

(* Every allocated event has one owner: the context of an operation, which *)
(* relies on "the post op callback (which should always get called)", or   *)
(* the list.  None is freed twice, none leaks.                             *)
EveryFileEventHasAnOwner ==
  LET contexts == {EventOf(t) : t \in {u \in Worker : op[u] # NoFileOp /\ op[u].event}} IN
  /\ pool = contexts \cup Queued(fileQueue)
  /\ contexts \cap Queued(fileQueue) = {}
  /\ Cardinality(Queued(fileQueue)) = Len(fileQueue)

(* A driver that was unloaded has freed its events, its log directory and  *)
(* the setting, whatever operations were under way.                        *)
UnloadedDriverIsClean ==
  ~filtering => pool = {} /\ directory = 0 /\ ~collecting

(* CopyFileIfBeingDeleted comes before the deletion: a file that disappears *)
(* while the client collects deleted files, by an operation with a name,    *)
(* has a copy, unless copying it failed.                                    *)
DeletedFileWasCopied ==
  [][\A t \in Worker :
       LET o == op[t] IN
       (o # NoFileOp /\ o.pc = "below" /\ o.what.kind = "delete" /\ o.covered /\ ~o.spoilt
          /\ version'[o.what.file] = 0)
       => Target(o.what.file) \in DOMAIN copies]_fileVars

FileChannel == INSTANCE EventChannel WITH Event <- FileEvent, pending <- fileQueue,
                                          delivered <- reported

(* The file driver implements the channel.                                 *)
FileDriverIsAChannel == FileChannel!ChannelSpec
=============================================================================
