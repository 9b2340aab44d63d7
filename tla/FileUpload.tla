----------------------------- MODULE FileUpload -----------------------------
(***************************************************************************)
(* The client's connection to the server and the upload of the archive of  *)
(* a visit over it: the visitor thread that sends, the receiver thread     *)
(* that hears the acceptance and reconnects, and on the server a           *)
(* ClientEventController per connection that writes the parts to a file.   *)
(*                                                                         *)
(* Connections are numbered in the order they are made.  A connection      *)
(* breaks at any time; bytes on it arrive in order until then.  A document *)
(* arrives in one piece.  Visits are numbered; the name of an archive is   *)
(* the minute it was made in, so two visits may share one.                 *)
(***************************************************************************)
EXTENDS Naturals, Sequences

CONSTANTS
  Archive,     \* names of archives
  Parts,       \* bound: parts (of 8192 bytes) of an archive
  MaxVisits,   \* bound: visits
  MaxSockets   \* bound: connections

ASSUME UploadAssumption ==
  Parts \in Nat \ {0} /\ MaxVisits \in Nat \ {0} /\ MaxSockets \in Nat \ {0}

Socket == 1 .. MaxSockets
Visit == 1 .. MaxVisits

(* What a controller's map has for a name: no receiver, one whose file     *)
(* could not be opened, or one that writes the file named for a visit, or, *)
(* when the Client visits nothing, one with the name the client gave.      *)
NoReceiver == 0
NoStream == MaxVisits + 1
Unnamed == MaxVisits + 2
FileName == Visit \cup {Unnamed}
Stream == FileName \cup {NoReceiver, NoStream}

VARIABLES
  connected,   \* Server.connected
  socket,      \* Server.serverSocket, 0 for one that is not connected
  sockets,     \* connections so far
  listener,    \* the receiver thread of the client
  uploader,    \* the visitor thread in Analyzer.stop and FileUploader.sendFile
  up, down,    \* documents under way on a connection
  broken,      \* connections that fail
  closed,      \* connections the server closed
  controller,  \* ClientEventController of a connection
  route,       \* the connection of the machine's Client on the server, 0 for null
  visiting,    \* the Client's visitingUrlGroup, 0 for null
  visits,      \* visits so far
  file,        \* file[v]: what was written to the file named for visit v
  stored,      \* history: the files that were closed
  gaveUp,      \* history: names of uploads that were not accepted in time
  spoilt       \* history: parts the parser delivered in several pieces

uploadVars == <<connected, socket, sockets, listener, uploader, up, down, broken,
                closed, controller, route, visiting, visits, file, stored, gaveUp, spoilt>>

serverSide == <<closed, controller, route, visiting, file, stored, spoilt>>

Chunk == [visit : Visit, part : 1 .. Parts]
Upward == [kind : {"file", "finished", "finish"}, name : Archive, visit : Visit]
            \cup [kind : {"part"}, name : Archive, chunk : Chunk]
            \cup [kind : {"reconnect"}]

UploadInit ==
  /\ connected = TRUE /\ socket = 1 /\ sockets = 1 /\ listener = "recv"
  /\ \E n \in Archive :
       uploader = [pc |-> "idle", name |-> n, part |-> 1, accepted |-> FALSE,
                   acknowledged |-> FALSE, failed |-> FALSE]
  /\ up = [s \in Socket |-> <<>>] /\ down = [s \in Socket |-> <<>>]
  /\ broken = {} /\ closed = {}
  /\ controller = [s \in Socket |-> [reads |-> TRUE, client |-> s = 1,
                                     receiver |-> [n \in Archive |-> NoReceiver]]]
  /\ route = 1 /\ visiting = 0 /\ visits = 0
  /\ file = [p \in FileName |-> <<>>] /\ stored = {} /\ gaveUp = {} /\ spoilt = {}
-----------------------------------------------------------------------------
(* The network                                                             *)

Usable(s) == s \in Socket \ (broken \cup closed)

\* What is under way on a connection that breaks may be lost, from some
\* document on.
Break(s) ==
  /\ s \in 1 .. sockets /\ s \notin broken
  /\ broken' = broken \cup {s}
  /\ \E k \in 0 .. Len(up[s]), j \in 0 .. Len(down[s]) :
       /\ up' = [up EXCEPT ![s] = SubSeq(up[s], 1, k)]
       /\ down' = [down EXCEPT ![s] = SubSeq(down[s], 1, j)]
  /\ UNCHANGED <<connected, socket, sockets, listener, uploader, visits, gaveUp, serverSide>>
-----------------------------------------------------------------------------
(* The visitor thread                                                      *)

(* sendMessage: not connected, sent, or lost on a connection that failed,  *)
(* with or without an error.  setConnected(false) follows as a step of its *)
(* own, which the receiver thread may be faster than.                      *)
Sends(m, next) ==
  \/ /\ ~connected
     /\ uploader' = next /\ UNCHANGED up
  \/ /\ connected /\ Usable(socket)
     /\ up' = [up EXCEPT ![socket] = Append(up[socket], m)]
     /\ uploader' = next
  \/ /\ connected /\ ~Usable(socket)
     /\ \E failed \in BOOLEAN : uploader' = [next EXCEPT !.failed = failed]
     /\ UNCHANGED up

Message(kind) == [kind |-> kind, name |-> uploader.name, visit |-> visits]

SetConnectedFalse ==
  /\ uploader.failed
  /\ connected' = FALSE
  /\ uploader' = [uploader EXCEPT !.failed = FALSE]
  /\ UNCHANGED <<socket, sockets, listener, up, down, broken, visits, gaveUp, serverSide>>

At(pc) == uploader.pc = pc /\ ~uploader.failed

(* A visit ends: its archive gets a name and an uploader that listens.     *)
EndVisit(n) ==
  /\ At("idle") /\ visits < MaxVisits /\ visiting = 0
  /\ connected /\ Usable(socket) /\ route = socket
  /\ visits' = visits + 1 /\ visiting' = visits + 1
  /\ uploader' = [uploader EXCEPT !.pc = "request", !.name = n, !.part = 1,
                                  !.accepted = FALSE, !.acknowledged = FALSE]
  /\ UNCHANGED <<connected, socket, sockets, listener, up, down, broken, closed, controller,
                 route, file, stored, gaveUp, spoilt>>

ClientRest == UNCHANGED <<connected, socket, sockets, listener, down, broken, visits, serverSide>>

\* Not when the client is not connected, or the archive cannot be opened.
RequestFile ==
  /\ At("request")
  /\ \/ /\ connected
        /\ Sends(Message("file"), [uploader EXCEPT !.pc = "wait"])
     \/ /\ uploader' = [uploader EXCEPT !.pc = "report"]
        /\ UNCHANGED up
  /\ ClientRest /\ UNCHANGED gaveUp

\* WaitForSingleObject: the event is reset, or five seconds have passed.
AwaitAcceptance ==
  /\ At("wait")
  /\ \/ /\ uploader.acknowledged
        /\ uploader' = [uploader EXCEPT !.acknowledged = FALSE,
                          !.pc = IF uploader.accepted THEN "part" ELSE "report"]
        /\ UNCHANGED gaveUp
     \/ /\ ~uploader.acknowledged
        /\ uploader' = [uploader EXCEPT !.pc = "report"]
        /\ gaveUp' = gaveUp \cup {uploader.name}
  /\ UNCHANGED up /\ ClientRest

SendFilePart ==
  /\ At("part")
  /\ Sends([kind |-> "part", name |-> uploader.name,
            chunk |-> [visit |-> visits, part |-> uploader.part]],
           [uploader EXCEPT
              !.part = IF uploader.part = Parts THEN 1 ELSE uploader.part + 1,
              !.pc = IF uploader.part = Parts THEN "end" ELSE "part"])
  /\ ClientRest /\ UNCHANGED gaveUp

FinishFile ==
  /\ At("end")
  /\ Sends(Message("finished"), [uploader EXCEPT !.pc = "report"])
  /\ ClientRest /\ UNCHANGED gaveUp

\* The analyzer reports the visit after the upload.
ReportVisit ==
  /\ At("report")
  /\ Sends(Message("finish"), [uploader EXCEPT !.pc = "idle"])
  /\ ClientRest /\ UNCHANGED gaveUp
-----------------------------------------------------------------------------
(* The receiver thread of the client                                       *)

ListenerRest == UNCHANGED <<broken, visits, gaveUp, serverSide>>

\* The outer loop: a client that is not connected never listens again.
ListenOn ==
  /\ listener = "loop"
  /\ listener' = IF connected THEN "recv" ELSE "ended"
  /\ UNCHANGED <<connected, socket, sockets, uploader, up, down>> /\ ListenerRest

(* A document: the greeting of the server, which a client that reconnected *)
(* answers with reconnect, or the acceptance of a file, which goes to the  *)
(* uploader of the moment, whatever file it names.                         *)
Hear ==
  /\ listener = "recv" /\ socket # 0 /\ down[socket] # <<>>
  /\ down' = [down EXCEPT ![socket] = Tail(down[socket])]
  /\ \/ /\ Head(down[socket]) = "connect"
        /\ up' = IF connected /\ Usable(socket)
                 THEN [up EXCEPT ![socket] = Append(up[socket], [kind |-> "reconnect"])]
                 ELSE up
        /\ connected' \in IF Usable(socket) THEN {connected} ELSE {connected, FALSE}
        /\ UNCHANGED uploader
     \/ /\ Head(down[socket]) = "file-accept"
        /\ uploader' = IF uploader.pc \in {"idle", "report"} THEN uploader
                       ELSE [uploader EXCEPT !.accepted = TRUE, !.acknowledged = TRUE]
        /\ UNCHANGED <<connected, up>>
  /\ UNCHANGED <<socket, sockets, listener>> /\ ListenerRest

\* recv returns 0: the server closed the connection, which is not an error.
HearNothing ==
  /\ listener = "recv" /\ socket \in closed /\ down[socket] = <<>>
  /\ listener' = "loop"
  /\ UNCHANGED <<connected, socket, sockets, uploader, up, down>> /\ ListenerRest

\* recv returns an error: reconnect drops the connection, ...
FailToHear ==
  /\ listener = "recv" /\ socket \in broken \cup {0}
  /\ listener' = "reconnect" /\ connected' = FALSE
  /\ UNCHANGED <<socket, sockets, uploader, up, down>> /\ ListenerRest

\* ... and makes a new one, or has failed to ten times: connected all the same.
Reconnect ==
  /\ listener = "reconnect"
  /\ \/ /\ sockets < MaxSockets
        /\ sockets' = sockets + 1 /\ socket' = sockets + 1
        /\ down' = [down EXCEPT ![sockets + 1] = <<"connect">>]
     \/ socket' = 0 /\ UNCHANGED <<sockets, down>>
  /\ connected' = TRUE /\ listener' = "loop"
  /\ UNCHANGED <<uploader, up>> /\ ListenerRest
-----------------------------------------------------------------------------
(* The server: the controller of a connection handles one document         *)

ServerRest == UNCHANGED <<connected, socket, sockets, listener, uploader, broken,
                          visits, gaveUp>>

\* Takes the head off the documents of a connection.
Reads(s) ==
  /\ controller[s].reads /\ s \notin closed /\ up[s] # <<>>
  /\ up' = [up EXCEPT ![s] = Tail(up[s])]

IsHead(s, kind) == up[s] # <<>> /\ Head(up[s]).kind = kind

\* Seeded fault: the receivers of the old connection are taken over.
ParseReconnect_KeepsReceivers(s) ==
  /\ IsHead(s, "reconnect") /\ Reads(s)
  /\ \/ /\ route # 0
        /\ closed' = closed \cup {route} /\ route' = s
        /\ controller' = [controller EXCEPT ![s].client = TRUE,
                             ![s].receiver = controller[route].receiver]
     \/ /\ route = 0
        /\ UNCHANGED <<closed, route, controller>>
  /\ UNCHANGED <<down, visiting, file, stored, spoilt>> /\ ServerRest

\* The machine's Client, if it has one, moves to this connection and its old
\* one is closed.
ParseReconnect(s) ==
  /\ IsHead(s, "reconnect") /\ Reads(s)
  /\ \/ /\ route # 0
        /\ closed' = closed \cup {route} /\ route' = s
        /\ controller' = [controller EXCEPT ![s].client = TRUE]
     \/ /\ route = 0
        /\ UNCHANGED <<closed, route, controller>>
  /\ UNCHANGED <<down, visiting, file, stored, spoilt>> /\ ServerRest

\* A second receiver of a name is not put in the map.
PutReceiver(s, n, stream) ==
  controller' = [controller EXCEPT ![s].receiver[n] =
                   IF controller[s].receiver[n] = NoReceiver THEN stream
                   ELSE controller[s].receiver[n]]

\* The file of a new receiver.
Named == IF visiting = 0 THEN Unnamed ELSE visiting

(* A new ClientFileReceiver empties the file it is named for and accepts,  *)
(* whether or not it gets into the map.  Without a client, or when the     *)
(* file cannot be opened, it has no stream and there is no answer.         *)
ReceiveFile(s) ==
  /\ IsHead(s, "file") /\ Reads(s)
  /\ \/ /\ controller[s].client
        /\ PutReceiver(s, Head(up[s]).name, Named)
        /\ file' = [file EXCEPT ![Named] = <<>>]
        /\ down' = IF Usable(route)
                   THEN [down EXCEPT ![route] = Append(down[route], "file-accept")]
                   ELSE down
     \/ /\ PutReceiver(s, Head(up[s]).name, NoStream)
        /\ UNCHANGED <<file, down>>
  /\ UNCHANGED <<closed, route, visiting, stored, spoilt>> /\ ServerRest

\* A part without a receiver is dropped, as is one whose text the parser
\* delivered in several pieces: characters keeps the last, which is too short.
\* Without a stream it is a NullPointerException, which ends the reading.
ReceiveFilePart(s) ==
  LET part == Head(up[s])  stream == controller[s].receiver[part.name] IN
  /\ IsHead(s, "part") /\ Reads(s)
  /\ \/ /\ file' = IF stream \in FileName
                    THEN [file EXCEPT ![stream] = Append(file[stream], part.chunk)]
                    ELSE file
        /\ controller' = [controller EXCEPT ![s].reads = stream # NoStream]
        /\ UNCHANGED spoilt
     \/ /\ stream # NoReceiver
        /\ spoilt' = spoilt \cup {part.chunk}
        /\ UNCHANGED <<file, controller>>
  /\ UNCHANGED <<closed, down, route, visiting, stored>> /\ ServerRest

ReceiveFileEnd(s) == LET n == Head(up[s]).name  stream == controller[s].receiver[n] IN
  /\ IsHead(s, "finished") /\ Reads(s)
  /\ IF stream \in FileName
     THEN /\ stored' = stored \cup {[path |-> stream, name |-> n, content |-> file[stream]]}
          /\ controller' = [controller EXCEPT ![s].receiver[n] = NoReceiver]
     ELSE /\ controller' = [controller EXCEPT ![s].reads = stream # NoStream]
          /\ UNCHANGED stored
  /\ UNCHANGED <<closed, down, route, visiting, file, spoilt>> /\ ServerRest

ParseVisitEvent(s) ==
  /\ IsHead(s, "finish") /\ Reads(s)
  /\ visiting' = IF controller[s].client THEN 0 ELSE visiting
  /\ UNCHANGED <<closed, down, controller, route, file, stored, spoilt>> /\ ServerRest

\* Client.disconnect: the machine is to be reverted, and has no Client.
Disconnect ==
  /\ route # 0
  /\ closed' = closed \cup {route} /\ route' = 0
  /\ UNCHANGED <<up, down, controller, visiting, file, stored, spoilt>> /\ ServerRest

Controller(s) ==
  ParseReconnect(s) \/ ReceiveFile(s) \/ ReceiveFilePart(s) \/ ReceiveFileEnd(s)
    \/ ParseVisitEvent(s)
-----------------------------------------------------------------------------
UploadNext ==
  \/ \E s \in Socket : Break(s) \/ Controller(s)
  \/ Disconnect \/ SetConnectedFalse \/ \E n \in Archive : EndVisit(n)
  \/ RequestFile \/ AwaitAcceptance \/ SendFilePart \/ FinishFile \/ ReportVisit
  \/ ListenOn \/ Hear \/ HearNothing \/ FailToHear \/ Reconnect

UploadSpec == UploadInit /\ [][UploadNext]_uploadVars
-----------------------------------------------------------------------------
UploadTypeOK ==
  /\ connected \in BOOLEAN /\ socket \in {0} \cup Socket /\ sockets \in Socket
  /\ listener \in {"recv", "loop", "reconnect", "ended"}
  /\ uploader \in [pc : {"idle", "request", "wait", "part", "end", "report"},
                   name : Archive, part : 1 .. Parts, accepted : BOOLEAN,
                   acknowledged : BOOLEAN, failed : BOOLEAN]
  /\ up \in [Socket -> Seq(Upward)]
  /\ down \in [Socket -> Seq({"connect", "file-accept"})]
  /\ broken \subseteq Socket /\ closed \subseteq Socket
  /\ controller \in [Socket -> [reads : BOOLEAN, client : BOOLEAN,
                                receiver : [Archive -> Stream]]]
  /\ route \in {0} \cup Socket /\ visiting \in {0} \cup Visit /\ visits \in {0} \cup Visit
  /\ file \in [FileName -> Seq(Chunk)]
  /\ stored \subseteq [path : FileName, name : Archive, content : Seq(Chunk)]
  /\ gaveUp \subseteq Archive /\ spoilt \subseteq Chunk

\* A file has the parts of visit v before part p, but for those that were
\* spoilt, each once and in order.
Lists(content, v, p) ==
  /\ \A i, j \in DOMAIN content : i < j => content[i].part < content[j].part
  /\ {content[i] : i \in DOMAIN content} = [visit : {v}, part : 1 .. p - 1] \ spoilt

(* A file the server closed as finished (ClientFileReceiver.receiveFileEnd) *)
(* holds the archive of one visit, each part once and in order, however     *)
(* connections broke in between, but for parts the parser spoilt; and it is *)
(* that of the visit it is named for, unless an upload was given up before: *)
(* its receiver is still in the map then, or its acceptance is taken for    *)
(* another's.                                                               *)
UploadsAreWhole ==
  \A f \in stored : \E v \in Visit :
    /\ Lists(f.content, v, Parts + 1)
    /\ f.path = v \/ gaveUp # {}
=============================================================================
