---------------------------- MODULE EventHandlers ---------------------------
(***************************************************************************)
(* The connection monitor's event handler manager.  A client of the        *)
(* transport (\Device\Tcp) sets a handler for a type of event on a file;   *)
(* the driver, on the way of the request, keeps the client's handler in a  *)
(* slot of the file's node and puts its own in the request, with the slot  *)
(* as context.  When it is unloaded it sets the clients' handlers back.    *)
(*                                                                         *)
(* The address of a file object is given out again after a close, and the  *)
(* node is found by that address.  A node is never given back:             *)
(* num_handlers starts at 0 and is only counted down.  The transport       *)
(* carries out every request that reaches it; a client has one request for *)
(* a file on its way at a time.                                            *)
(***************************************************************************)
EXTENDS Naturals, FiniteSets

CONSTANTS
  EventType,     \* types of events
  Table,         \* those the driver has a handler for (TdiEventHandlers)
  Connecting,    \* those whose handlers look at the connections
  FileObject,       \* addresses of file objects
  Handler,       \* handlers of the clients
  NodeBlock,         \* memory for nodes
  MaxRequests,   \* bound: requests to set or remove a handler
  NoHandler,     \* null
  NoBlock        \* no node

ASSUME HandlersAssumption ==
  /\ Connecting \subseteq Table /\ Table \subseteq EventType
  /\ NoHandler \notin Handler \cup NodeBlock /\ Handler \cap NodeBlock = {}
  /\ NoBlock \notin NodeBlock /\ "none" \notin EventType
  /\ MaxRequests \in Nat

VARIABLES
  openFiles,     \* files that are open
  known,      \* open files the driver saw being openFiles
  transport,  \* transport[f][t]: a client's handler, or the driver's with a node's slot
  blocks,     \* blocks[b][t]: the original handler in the slot
  taken,      \* blocks that are nodes
  nodeOf,     \* the hash map from files to nodes
  request,    \* request[f]: what is on its way to the transport
  requests,   \* requests so far
  phase,      \* of the driver: loaded, restoring, unloaded
  toRestore,  \* slots the visitor has not come to yet
  crash,      \* why the system crashed
  wanted,     \* history: wanted[f][t], the handler the client set last
  excused     \* history: slots that the unloading is known to miss, <<file, type>>

handlerVars == <<openFiles, known, transport, blocks, taken, nodeOf, request, requests, phase,
                 toRestore, crash, wanted, excused>>

Unset == [t \in EventType |-> NoHandler]
NothingSent == [type |-> "none", to |-> NoHandler]
NoCrash == [why |-> "none", at |-> <<>>]

\* The driver is loaded while files may be open already.
HandlersInit ==
  /\ openFiles \in SUBSET FileObject /\ known = {}
  /\ transport = [f \in FileObject |-> Unset] /\ wanted = transport
  /\ blocks = [b \in NodeBlock |-> Unset] /\ taken = {}
  /\ nodeOf = [f \in FileObject |-> NoBlock]
  /\ request = [f \in FileObject |-> NothingSent] /\ requests = 0
  /\ phase = "loaded" /\ toRestore = {} /\ crash = NoCrash /\ excused = {}
-----------------------------------------------------------------------------
Works == crash = NoCrash
Slot(f, t) == blocks[nodeOf[f]][t]

OpenFile(f) ==
  /\ Works /\ f \notin openFiles /\ openFiles' = openFiles \cup {f}
  /\ known' = IF phase = "loaded" THEN known \cup {f} ELSE known
  /\ UNCHANGED <<transport, blocks, taken, nodeOf, request, requests, phase, toRestore, crash,
                 wanted, excused>>

\* Nothing is done about the node of the file: its slots keep the handlers.
CloseFile(f) ==
  /\ Works /\ f \in openFiles /\ request[f] = NothingSent
  /\ openFiles' = openFiles \ {f} /\ known' = known \ {f}
  /\ transport' = [transport EXCEPT ![f] = Unset]
  /\ wanted' = [wanted EXCEPT ![f] = Unset]
  /\ excused' = IF nodeOf[f] = NoBlock THEN excused
                ELSE excused \cup ({f} \X {t \in EventType : Slot(f, t) # NoHandler})
  /\ UNCHANGED <<blocks, taken, nodeOf, request, requests, phase, toRestore, crash>>

\* A request of the client, before the driver has seen it.
Asks(f, t, h) ==
  /\ Works /\ f \in openFiles /\ request[f] = NothingSent /\ requests < MaxRequests
  /\ requests' = requests + 1
  /\ wanted' = [wanted EXCEPT ![f][t] = h]

Forward(f, t, x) == request' = [request EXCEPT ![f] = [type |-> t, to |-> x]]

\* CreateNodeEventHandler: there may be no memory, or none for the map, which is
\* not noticed.
Nodes(f) ==
  IF nodeOf[f] # NoBlock THEN {[node |-> nodeOf[f], mapped |-> TRUE]}
  ELSE [node : NodeBlock \ taken, mapped : BOOLEAN] \cup {[node |-> NoBlock, mapped |-> FALSE]}

\* Seeded fault: a slot that is in use is left as it is.
SetEventHandler_KeepsFirst(f, t, h, n) ==
  /\ blocks' = IF n.node = NoBlock \/ (n.node \in taken /\ blocks[n.node][t] # NoHandler)
               THEN blocks ELSE [blocks EXCEPT ![n.node][t] = h]
  /\ Forward(f, t, IF n.node = NoBlock THEN h ELSE n.node)

SetEventHandler(f, t, h, n) ==
  /\ blocks' = IF n.node = NoBlock THEN blocks ELSE [blocks EXCEPT ![n.node][t] = h]
  /\ Forward(f, t, IF n.node = NoBlock THEN h ELSE n.node)

\* TdiSetEventHandler with a handler.
SetEvent(f, t, h) ==
  /\ Asks(f, t, h) /\ phase = "loaded" /\ t \in Table
  /\ ~(t \in Connecting /\ f \notin known)
  /\ \E n \in Nodes(f) :
       /\ SetEventHandler(f, t, h, n)
       /\ taken' = taken \cup ({n.node} \ {NoBlock})
       /\ nodeOf' = IF n.mapped THEN [nodeOf EXCEPT ![f] = n.node] ELSE nodeOf
       /\ excused' = IF n.mapped \/ n.node = NoBlock THEN excused \ {<<f, t>>}
                     ELSE excused \cup {<<f, t>>}
  /\ UNCHANGED <<openFiles, known, transport, phase, toRestore, crash>>

\* A file that was open before the driver was loaded has no connection node.
ListenOnUnknown(f, t, h) ==
  /\ Asks(f, t, h) /\ phase = "loaded" /\ t \in Connecting /\ f \notin known
  /\ Forward(f, t, h) /\ crash' = [why |-> "no connection node", at |-> <<f, t>>]
  /\ UNCHANGED <<openFiles, known, transport, blocks, taken, nodeOf, phase, toRestore, excused>>

\* TdiSetEventHandler without: RemoveEventHandler clears the slot before the
\* transport knows.
RemoveEvent(f, t) ==
  /\ Asks(f, t, NoHandler) /\ phase = "loaded" /\ t \in Table
  /\ blocks' = IF nodeOf[f] = NoBlock THEN blocks
               ELSE [blocks EXCEPT ![nodeOf[f]][t] = NoHandler]
  /\ excused' = excused \ {<<f, t>>}
  /\ Forward(f, t, NoHandler)
  /\ UNCHANGED <<openFiles, known, transport, taken, nodeOf, phase, toRestore, crash>>

\* A type the driver has no handler for, or a driver that is detached.
SetDirectly(f, t, h) ==
  /\ phase # "loaded" \/ t \notin Table
  /\ Asks(f, t, h) /\ Forward(f, t, h)
  /\ excused' = IF <<f, t>> \in toRestore THEN excused \cup {<<f, t>>} ELSE excused
  /\ UNCHANGED <<openFiles, known, transport, blocks, taken, nodeOf, phase, toRestore, crash>>

\* The request reaches the transport.
Deliver(f) ==
  /\ Works /\ request[f] # NothingSent
  /\ transport' = [transport EXCEPT ![f][request[f].type] = request[f].to]
  /\ request' = [request EXCEPT ![f] = NothingSent]
  /\ UNCHANGED <<openFiles, known, blocks, taken, nodeOf, requests, phase, toRestore, crash,
                 wanted, excused>>
-----------------------------------------------------------------------------
\* The transport reports an event to the driver, which calls the slot's handler.
\* The connections are gone when the clients' handlers are being restored.
Indicate(f, t) ==
  /\ Works /\ f \in openFiles /\ transport[f][t] \in NodeBlock
  /\ \/ phase = "unloaded" /\ crash' = [why |-> "driver gone", at |-> <<f, t>>]
     \/ /\ phase = "restoring" /\ t \in Connecting
        /\ crash' = [why |-> "connections gone", at |-> <<f, t>>]
     \/ /\ phase # "unloaded" /\ blocks[transport[f][t]][t] = NoHandler
        /\ crash' = [why |-> "no handler", at |-> <<f, t>>]
  /\ UNCHANGED <<openFiles, known, transport, blocks, taken, nodeOf, request, requests, phase,
                 toRestore, wanted, excused>>
-----------------------------------------------------------------------------
\* UnloadDriver: the device is detached, the connections are destroyed, and
\* DestroyEventHandlerManager goes through the map.
UnloadDriver ==
  /\ Works /\ phase = "loaded" /\ phase' = "restoring"
  /\ toRestore' = {s \in FileObject \X EventType :
                     nodeOf[s[1]] # NoBlock /\ Slot(s[1], s[2]) # NoHandler}
  /\ excused' = excused \cup {<<f, request[f].type>> :
                               f \in {g \in FileObject : request[g] # NothingSent}}
  /\ UNCHANGED <<openFiles, known, transport, blocks, taken, nodeOf, request, requests, crash,
                 wanted>>

\* Seeded fault: without memory for a request the visitor leaves the node.
NoMemoryToRestore_Returns(f, t) ==
  /\ Works /\ <<f, t>> \in toRestore /\ excused' = excused \cup {<<f, t>>}
  /\ toRestore' = {s \in toRestore : s[1] # f}
  /\ UNCHANGED <<openFiles, known, transport, blocks, taken, nodeOf, request, requests, phase,
                 crash, wanted>>

\* DestroyNodeEventHandlerVisitor, a slot it cannot build a request for.
NoMemoryToRestore(f, t) ==
  /\ Works /\ <<f, t>> \in toRestore /\ excused' = excused \cup {<<f, t>>}
  /\ toRestore' = toRestore \ {<<f, t>>}
  /\ UNCHANGED <<openFiles, known, transport, blocks, taken, nodeOf, request, requests, phase,
                 crash, wanted>>

\* The request goes to the file of that address, whichever it is now.
Restore(f, t) ==
  /\ Works /\ <<f, t>> \in toRestore /\ f \in openFiles
  /\ toRestore' = toRestore \ {<<f, t>>}
  /\ transport' = [transport EXCEPT ![f][t] = Slot(f, t)]
  /\ UNCHANGED <<openFiles, known, blocks, taken, nodeOf, request, requests, phase, crash, wanted,
                 excused>>

\* There is none: the request names a file object that is gone.
RestoreClosed(f, t) ==
  /\ Works /\ <<f, t>> \in toRestore /\ f \notin openFiles
  /\ toRestore' = toRestore \ {<<f, t>>}
  /\ crash' \in {NoCrash, [why |-> "file gone", at |-> <<f, t>>]}
  /\ UNCHANGED <<openFiles, known, transport, blocks, taken, nodeOf, request, requests, phase,
                 wanted, excused>>

EndUnload ==
  /\ Works /\ phase = "restoring" /\ toRestore = {} /\ phase' = "unloaded"
  /\ UNCHANGED <<openFiles, known, transport, blocks, taken, nodeOf, request, requests, toRestore,
                 crash, wanted, excused>>

HandlersNext ==
  \/ UnloadDriver \/ EndUnload
  \/ \E f \in FileObject : OpenFile(f) \/ CloseFile(f) \/ Deliver(f)
  \/ \E f \in FileObject, t \in EventType :
       \/ RemoveEvent(f, t) \/ SetDirectly(f, t, NoHandler) \/ Indicate(f, t)
       \/ NoMemoryToRestore(f, t) \/ Restore(f, t) \/ RestoreClosed(f, t)
       \/ \E h \in Handler : SetEvent(f, t, h) \/ ListenOnUnknown(f, t, h) \/ SetDirectly(f, t, h)

HandlersSpec == HandlersInit /\ [][HandlersNext]_handlerVars
-----------------------------------------------------------------------------
HandlersTypeOK ==
  /\ known \subseteq openFiles /\ openFiles \subseteq FileObject /\ taken \subseteq NodeBlock
  /\ transport \in [FileObject -> [EventType -> Handler \cup NodeBlock \cup {NoHandler}]]
  /\ blocks \in [NodeBlock -> [EventType -> Handler \cup {NoHandler}]]
  /\ nodeOf \in [FileObject -> taken \cup {NoBlock}]
  /\ phase \in {"loaded", "restoring", "unloaded"}

\* Who gets an event, through the driver or not.
Receiver(f, t) ==
  IF transport[f][t] \in NodeBlock THEN blocks[transport[f][t]][t] ELSE transport[f][t]

(* While the driver is loaded, an event goes to the handler the client set *)
(* last, hooked or not, also for a file whose address had a node before;   *)
(* only while a request for its type is on its way it may be otherwise,    *)
(* and only then a handler of the driver's can find its slot empty         *)
(* (SetEventHandler, RemoveEventHandler, the Tdi...EventHandlers).         *)
EventsReachTheClient ==
  /\ phase = "loaded" => \A f \in openFiles, t \in EventType :
       request[f].type = t \/ Receiver(f, t) = wanted[f][t]
  /\ crash.why = "no handler" => request[crash.at[1]].type = crash.at[2]

(* Once it is unloaded the transport has the clients' own handlers again   *)
(* (DestroyEventHandlerManager), but for the slots it misses: no memory    *)
(* for the request or, earlier, for the map; a request that overtakes it,  *)
(* before or while it restores; a file whose address another one had.      *)
UnloadRestores ==
  phase = "unloaded" => \A f \in openFiles, t \in EventType :
    \/ <<f, t>> \in excused \/ request[f].type = t
    \/ transport[f][t] = wanted[f][t]
=============================================================================
