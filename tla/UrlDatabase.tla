---------------------------- MODULE UrlDatabase -----------------------------
(***************************************************************************)
(* The database of URLs: how a run of the server enters the URLs of an     *)
(* operation, stores what their visits find, and how the next run resumes  *)
(* the operation when the first one ended, crashed or was stopped, at any  *)
(* point.  Each SQL statement is committed by itself but for the two of    *)
(* setStatus, which are one transaction.                                   *)
(*                                                                         *)
(* A group is one URL here, whose failed visit is repeated once.  Left     *)
(* out: the tables of events, errors and files, the honeypots of other     *)
(* servers, URLs that do not parse, and failing statements.                *)
(***************************************************************************)
EXTENDS Naturals, Sequences, FiniteSets

CONSTANTS
  InputFile,      \* lines of the input file
  MaxOperations,  \* bound: rows of the table operation
  MaxRows,        \* bound: rows of the table url
  MaxEnds,        \* bound: ends of the server
  Null            \* NULL

Status == {"benign", "malicious", "error"}

ASSUME DatabaseAssumption ==
  /\ MaxOperations \in Nat /\ MaxRows \in Nat /\ MaxEnds \in Nat
  /\ Null \notin Status \cup Nat
  /\ InputFile \in Seq({InputFile[i] : i \in DOMAIN InputFile})

VARIABLES
  urlTable,         \* url: id -> address, current status and its operation
  urlOperation,     \* url_operation: <<id, operation>> -> status
  operations,       \* operation: whether it has a finish time
  honeypot,         \* the status column: FALSE asks the server to stop
  currentOperation, \* of the server, Null when it has none
  loader,           \* the main thread of the server
  urlObjects,             \* Url objects of the server: id -> state
  refused,          \* history: jobs whose URL was in the queue already
  ends              \* ends of the server so far

databaseVars == <<urlTable, urlOperation, operations, honeypot, currentOperation, loader,
                  urlObjects, refused, ends>>

NotRunning == [pc |-> "down", source |-> "none", check |-> FALSE, todo |-> <<>>, id |-> Null]

DatabaseInit ==
  /\ urlTable = <<>> /\ urlOperation = <<>> /\ operations = <<>> /\ honeypot = FALSE
  /\ currentOperation = Null /\ loader = NotRunning /\ urlObjects = <<>>
  /\ refused = {} /\ ends = 0

With(f, x, y) == [z \in DOMAIN f \cup {x} |-> IF z = x THEN y ELSE f[z]]

Ids == DOMAIN urlTable
IdsOf(address) == {i \in Ids : urlTable[i].url = address}
Least(S) == CHOOSE i \in S : \A j \in S : i <= j
Greatest(S) == CHOOSE i \in S : \A j \in S : j <= i
InOrder(S) == [i \in 1..Cardinality(S) |-> CHOOSE x \in S : Cardinality({y \in S : y < x}) = i - 1]

InsertUrl(address) ==
  /\ Len(urlTable) < MaxRows
  /\ urlTable' = Append(urlTable, [url |-> address, status |-> Null, operation |-> Null])

(* importUrlFromFile, another program run, line by line; the server may be *)
(* running.  The check and the insertion it guards are one step.           *)
ImportUrl(check) == \E i \in 1..Len(InputFile) :
  /\ ~check \/ IdsOf(InputFile[i]) = {}
  /\ InsertUrl(InputFile[i])
  /\ UNCHANGED <<urlOperation, operations, honeypot, currentOperation, loader,
                 urlObjects, refused, ends>>

(* Seeded fault: the new operation does not become the current one.      *)
NewOperation_NotCurrent ==
  /\ Len(operations) < MaxOperations
  /\ operations' = Append(operations, FALSE)
  /\ currentOperation' = currentOperation

NewOperation ==
  /\ Len(operations) < MaxOperations
  /\ operations' = Append(operations, FALSE)
  /\ currentOperation' = Len(operations) + 1

StartLoading(source, check, todo) ==
  /\ loader.pc = "down"
  /\ loader' = [pc |-> "next", source |-> source, check |-> check, todo |-> todo, id |-> Null]
  /\ UNCHANGED <<urlTable, urlOperation, urlObjects, refused, ends>>

LoadInputUrlFromFile(check) ==
  StartLoading("file", check, InputFile) /\ NewOperation /\ honeypot' = TRUE

LoadInputUrlFromDatabase ==
  StartLoading("database", FALSE, InOrder(Ids)) /\ NewOperation /\ honeypot' = TRUE

(* The last operation with unvisited URLs, and those URLs.                 *)
Unvisited == {j \in DOMAIN urlOperation : urlOperation[j] = Null}

ResumeLastOperation == LET last == Greatest({j[2] : j \in Unvisited}) IN
  /\ IF Unvisited = {}
     THEN StartLoading("resume", FALSE, <<>>) /\ UNCHANGED <<honeypot,
                                          currentOperation>>
     ELSE /\ StartLoading("resume", FALSE, InOrder({j[1] : j \in {k \in Unvisited : k[2] = last}}))
          /\ honeypot' = TRUE /\ currentOperation' = last
  /\ UNCHANGED operations

Continue(pc, id, todo) == loader' = [loader EXCEPT !.pc = pc, !.id = id, !.todo = todo]

(* The row of a line: the one that is there when that is checked, or a new *)
(* one.                                                                    *)
NextLine == LET found == IdsOf(Head(loader.todo)) IN
  /\ loader.pc = "next" /\ loader.source = "file" /\ loader.todo # <<>>
  /\ IF loader.check /\ found # {}
     THEN Continue("job", Least(found), Tail(loader.todo)) /\ UNCHANGED urlTable
     ELSE Continue("job", Len(urlTable) + 1, Tail(loader.todo)) /\ InsertUrl(Head(loader.todo))
  /\ UNCHANGED <<urlOperation, operations, honeypot, currentOperation, urlObjects,
                 refused, ends>>

NextRow ==
  /\ loader.pc = "next" /\ loader.source # "file" /\ loader.todo # <<>>
  /\ Continue(IF loader.source = "database" THEN "job" ELSE "notify",
              Head(loader.todo), Tail(loader.todo))
  /\ UNCHANGED <<urlTable, urlOperation, operations, honeypot, currentOperation,
                 urlObjects, refused, ends>>

Job(id) == <<id, currentOperation>>

(* Seeded fault: observers are told of a job that was there only.        *)
InsertJob_Skips ==
  /\ loader.pc = "job"
  /\ IF Job(loader.id) \in DOMAIN urlOperation
     THEN Continue("notify", loader.id, loader.todo) /\ UNCHANGED urlOperation
     ELSE /\ Continue("next", Null, loader.todo)
          /\ urlOperation' = With(urlOperation, Job(loader.id), Null)
  /\ UNCHANGED <<urlTable, operations, honeypot, currentOperation, urlObjects, refused, ends>>

InsertJob ==
  /\ loader.pc = "job"
  /\ IF loader.check /\ Job(loader.id) \in DOMAIN urlOperation
     THEN Continue("next", Null, loader.todo) /\ UNCHANGED urlOperation
     ELSE /\ Continue("notify", loader.id, loader.todo)
          /\ urlOperation' = With(urlOperation, Job(loader.id), Null)
  /\ UNCHANGED <<urlTable, operations, honeypot, currentOperation, urlObjects,
                 refused, ends>>

NewUrl == [state |-> "queued", attempt |-> 0, timed |-> FALSE, verdict |-> Null, failed |-> FALSE]

(* The event reaches UrlsController, which refuses an address that is in   *)
(* its queue.                                                              *)
NotifyUrl == LET queued == {i \in DOMAIN urlObjects : urlObjects[i].state = "queued"} IN
  /\ loader.pc = "notify"
  /\ Continue("next", Null, loader.todo)
  /\ IF \E i \in queued : urlTable[i].url = urlTable[loader.id].url
     THEN refused' = refused \cup {Job(loader.id)} /\ UNCHANGED urlObjects
     ELSE urlObjects' = With(urlObjects, loader.id, NewUrl) /\ UNCHANGED refused
  /\ UNCHANGED <<urlTable, urlOperation, operations, honeypot, currentOperation, ends>>

Become(id, url) ==
  /\ urlObjects' = [urlObjects EXCEPT ![id] = url]
  /\ UNCHANGED <<honeypot, currentOperation, loader, refused, ends>>

TakeUrl(id) ==
  /\ urlObjects[id].state = "queued"
  /\ Become(id, [urlObjects[id] EXCEPT !.state = "taken", !.attempt = 1])
  /\ UNCHANGED <<urlTable, urlOperation, operations>>

VisitStarts(id) ==
  /\ urlObjects[id].state = "taken"
  /\ Become(id, [urlObjects[id] EXCEPT !.state = "visiting", !.timed = TRUE])
  /\ UNCHANGED <<urlTable, urlOperation, operations>>

(* A URL whose visit failed can be malicious nevertheless.                 *)
Judge(id) == \E s \in Status, failed \in BOOLEAN :
  /\ urlObjects[id].state = "visiting" /\ (s = "error" => failed) /\ (s = "benign" => ~failed)
  /\ Become(id, [urlObjects[id] EXCEPT !.state = "judged", !.verdict = s, !.failed = failed])
  /\ UNCHANGED <<urlTable, urlOperation, operations>>

(* Without a start time there is an exception before anything is stored,   *)
(* and the group is not retried; at a retry the state is the same as       *)
(* before, and nothing happens.                                            *)
FailUnstarted(id) ==
  /\ urlObjects[id].state = "taken"
  /\ Become(id, [urlObjects[id] EXCEPT !.state = IF urlObjects[id].timed THEN "done" ELSE "broken"])
  /\ UNCHANGED <<urlTable, urlOperation, operations>>

(* Seeded fault: the update is not limited to the current operation.     *)
Stored_Everywhere(id) ==
  [j \in DOMAIN urlOperation |-> IF j[1] = id THEN urlObjects[id].verdict ELSE urlOperation[j]]

Stored(id) ==
  IF Job(id) \in DOMAIN urlOperation THEN With(urlOperation, Job(id), urlObjects[id].verdict)
                                     ELSE urlOperation

(* setStatus: both rows in one transaction.  Then a failed group is queued *)
(* once more.                                                              *)
SetStatus(id) == LET url == urlObjects[id] IN
  /\ url.state = "judged"
  /\ urlOperation' = Stored(id)
  /\ urlTable' = [urlTable EXCEPT ![id].status = url.verdict, ![id].operation = currentOperation]
  /\ Become(id, IF url.failed /\ url.attempt = 1
                THEN [url EXCEPT !.state = "taken", !.attempt = 2]
                ELSE [url EXCEPT !.state = "done"])
  /\ UNCHANGED operations

(* The process is gone, with what it had in memory.                        *)
End ==
  /\ loader.pc # "down" /\ ends < MaxEnds
  /\ ends' = ends + 1
  /\ loader' = NotRunning /\ urlObjects' = <<>> /\ currentOperation' = Null
  /\ UNCHANGED <<urlTable, urlOperation, honeypot, refused>>

Crash == End /\ UNCHANGED operations

(* The queue monitor has found its lists empty, twice; groups on their way *)
(* to a client are in none.                                                *)
FinishOperation ==
  /\ \A i \in DOMAIN urlObjects : urlObjects[i].state \in {"taken", "done", "broken"}
  /\ operations' = IF currentOperation = Null THEN operations
                   ELSE [operations EXCEPT ![currentOperation] = TRUE]
  /\ End

StopCommand ==
  /\ honeypot /\ honeypot' = FALSE
  /\ UNCHANGED <<urlTable, urlOperation, operations, currentOperation, loader,
                 urlObjects, refused, ends>>

Stop == ~honeypot /\ End /\ UNCHANGED operations

DatabaseNext ==
  \/ \E check \in BOOLEAN : ImportUrl(check) \/ LoadInputUrlFromFile(check)
  \/ LoadInputUrlFromDatabase \/ ResumeLastOperation
  \/ NextLine \/ NextRow \/ InsertJob \/ NotifyUrl
  \/ \E id \in DOMAIN urlObjects : \/ TakeUrl(id) \/ VisitStarts(id) \/ Judge(id)
                             \/ FailUnstarted(id) \/ SetStatus(id)
  \/ Crash \/ FinishOperation \/ StopCommand \/ Stop

DatabaseSpec == DatabaseInit /\ [][DatabaseNext]_databaseVars
-----------------------------------------------------------------------------
DatabaseTypeOK ==
  /\ Len(urlTable) <= MaxRows /\ Len(operations) <= MaxOperations
  /\ \A j \in DOMAIN urlOperation :
       j \in (1..MaxRows) \X (1..MaxOperations) /\ urlOperation[j] \in Status \cup {Null}
  /\ currentOperation \in 1..Len(operations) \cup {Null}
  /\ DOMAIN urlObjects \subseteq Ids

(* "With resume option: Capture will get all unvisited urls from last            *)
(* operation": a job without a status is on its way through the server or  *)
(* will be read by its loader, unless its address was refused or its visit *)
(* failed before it began; in the middle of the loading, too, when URLs    *)
(* are visited already.                                                    *)
ToBeLoaded == IF loader.source = "resume" THEN {loader.todo[k] : k \in 1..Len(loader.todo)} ELSE {}

NoJobIsForgotten == \A j \in Unvisited :
  j[2] = currentOperation /\ j \notin refused =>
    \/ j[1] \in ToBeLoaded \cup {loader.id}
    \/ j[1] \in DOMAIN urlObjects /\ urlObjects[j[1]].state # "done"

(* What an operation found stays in the database: a status changes only    *)
(* when the same operation visits the URL again because it failed.         *)
VerdictsAreKept ==
  [][\A j \in DOMAIN urlOperation : urlOperation[j] # Null =>
       \/ urlOperation'[j] = urlOperation[j]
       \/ /\ j[2] = currentOperation /\ j[1] \in DOMAIN urlObjects
          /\ urlObjects[j[1]].attempt = 2]_databaseVars
=============================================================================
