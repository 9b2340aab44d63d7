--------------------------- MODULE TdiConnections ---------------------------
(***************************************************************************)
(* The connection monitor in the stack of the TCP and UDP devices: the     *)
(* table of file objects ("nodes"), the connections it makes up for them   *)
(* from the requests it sees on their way down and from their completions, *)
(* and the state changes it puts into the list of events.                  *)
(*                                                                         *)
(* The clients of the transport keep its rules: an endpoint is associated, *)
(* connected and disassociated in turns, and a file is closed when none of *)
(* its requests is pending.  Addresses are left out.                       *)
(***************************************************************************)
EXTENDS Naturals, Sequences, FiniteSets

CONSTANTS
  Address,     \* TCP address files
  Endpoint,    \* TCP connection files
  UdpFile,     \* UDP address files
  Process,     \* processes of the transport's clients
  MaxConns,    \* bound: connections allocated
  MaxChanges,  \* bound: state changes
  NoConn       \* null

ASSUME TdiAssumption ==
  /\ MaxConns \in Nat /\ MaxChanges \in Nat
  /\ Address \cap Endpoint = {} /\ Address \cap UdpFile = {} /\ Endpoint \cap UdpFile = {}
  /\ NoConn \notin Nat

TdiFile == Address \cup Endpoint \cup UdpFile
Conn == 1..MaxConns

ConnectionState ==
  {"CLOSED", "LISTEN", "SYN_SENT", "SYN_RCVD", "ESTABLISHED", "FIN_WAIT_1", "TIME_WAIT",
   "CLOSE_WAIT", "LAST_ACK", "UDP_CONNECT", "UDP_ESTABLISHED", "UDP_SEND_DATAGRAM"}

VARIABLES
  opened,   \* file objects that are open
  table,    \* connections: file object in the table -> its connection
  conns,    \* memory of the connections: Conn -> record, as far as it was allocated
  freed,    \* connections that were given back
  irps,     \* requests below this driver whose completion it wants to see
  changes   \* what was put into the list of events

tdiVars == <<opened, table, conns, freed, irps, changes>>

TdiInit ==
  /\ opened = {} /\ table = <<>> /\ conns = <<>> /\ freed = {} /\ irps = {}
  /\ changes = <<>>

(* FindHashMapValue and GetConnection.                                     *)
GetConnection(f) == IF f \in DOMAIN table THEN table[f] ELSE NoConn

(* AddConnectionNode: the file enters the table, unless it is in it.       *)
WithNode(f) == IF f \in DOMAIN table THEN table
               ELSE [g \in DOMAIN table \cup {f} |-> IF g = f THEN NoConn ELSE table[g]]

MayAllocate == Len(conns) < MaxConns
NewConn == Len(conns) + 1

(* CreateConnection; the memory is not cleared, so the process id of a     *)
(* connection is any until it is set.                                      *)
FreshConnection(state, process) == [state |-> state, process |-> process]

(* SetConnectionState, and the event about it.                             *)
SetConnectionState(memory, c, state) ==
  /\ Len(changes) < MaxChanges
  /\ conns' = [memory EXCEPT ![c].state = state]
  /\ changes' = Append(changes, [conn |-> c, state |-> state, process |-> memory[c].process])

HasRequest(f) == \E r \in irps : r.file = f

(* TdiCreateHandler, while the request goes down; without memory the file  *)
(* is not in the table.                                                    *)
Create(f) ==
  /\ f \notin opened
  /\ opened' = opened \cup {f}
  /\ table' \in {table, WithNode(f)}
  /\ UNCHANGED <<conns, freed, irps, changes>>

(* Seeded fault: the address refers to the connection as well.           *)
Associate_Address(e, a, p) ==
  /\ e \in opened /\ a \in opened /\ MayAllocate /\ GetConnection(e) = NoConn
  /\ conns' = Append(conns, FreshConnection("CLOSED", p))
  /\ IF e \in DOMAIN table /\ a \in DOMAIN table
     THEN table' = [table EXCEPT ![e] = NewConn, ![a] = NewConn]
     ELSE UNCHANGED table
  /\ UNCHANGED <<opened, freed, irps, changes>>

(* TdiAssociateAddressHandler.  An address can be used by many endpoints,  *)
(* so only the endpoint refers to the connection; a file that is not in    *)
(* the table leaves the new connection to nobody.                          *)
Associate(e, a, p) ==
  /\ e \in opened /\ a \in opened /\ MayAllocate /\ GetConnection(e) = NoConn
  /\ conns' = Append(conns, FreshConnection("CLOSED", p))
  /\ IF e \in DOMAIN table /\ a \in DOMAIN table
     THEN table' = [table EXCEPT ![e] = NewConn]
     ELSE UNCHANGED table
  /\ UNCHANGED <<opened, freed, irps, changes>>

FreeConnection(c) == freed' = IF c = NoConn THEN freed ELSE freed \cup {c}

(* TdiDisassociateAddressHandler.                                          *)
Disassociate(e) ==
  /\ e \in opened /\ ~HasRequest(e) /\ GetConnection(e) # NoConn
  /\ table' = [table EXCEPT ![e] = NoConn]
  /\ FreeConnection(GetConnection(e))
  /\ UNCHANGED <<opened, conns, irps, changes>>

(* The request goes down with a completion routine, in its own stack       *)
(* location or in a new request when it has none left.                     *)
Send(f, kind, c) == irps' = irps \cup {[file |-> f, kind |-> kind, conn |-> c]}

(* TdiConnectHandler for an endpoint.                                      *)
Connect(e) == LET c == GetConnection(e) IN
  /\ e \in opened /\ ~HasRequest(e) /\ c # NoConn
  /\ SetConnectionState(conns, c, "SYN_SENT")
  /\ Send(e, "connect", c)
  /\ UNCHANGED <<opened, table, freed>>

(* TdiConnectHandler on the UDP device: a new connection each time.        *)
ConnectUdp(u, p) ==
  /\ u \in DOMAIN table /\ ~HasRequest(u) /\ MayAllocate
  /\ table' = [table EXCEPT ![u] = NewConn]
  /\ SetConnectionState(Append(conns, FreshConnection("CLOSED", p)), NewConn, "UDP_CONNECT")
  /\ Send(u, "connect", NewConn)
  /\ UNCHANGED <<opened, freed>>

(* TdiConnectEventHandler: the transport has a client for address a, whose *)
(* handler accepts it with an endpoint.                                    *)
Accept(e) == LET c == GetConnection(e) IN
  /\ e \in opened /\ ~HasRequest(e) /\ c # NoConn
  /\ SetConnectionState(conns, c, "SYN_RCVD")
  /\ Send(e, "accept", c)
  /\ UNCHANGED <<opened, table, freed>>

(* TdiConnectHandlerComplete and TdiConnectEventHandlerComplete.           *)
CompleteRequest(r, success) ==
  /\ irps' = irps \ {r}
  /\ IF success \/ r.kind = "accept"
     THEN SetConnectionState(conns, r.conn,
            CASE ~success -> "FIN_WAIT_1"
              [] r.file \in UdpFile -> "UDP_ESTABLISHED"
              [] OTHER -> "ESTABLISHED")
     ELSE UNCHANGED <<conns, changes>>
  /\ UNCHANGED <<opened, table, freed>>

(* TdiDisconnectHandler and TdiDisconnectEventHandler: the first looks at  *)
(* the endpoint, the second at the address the handler was set for.        *)
AfterDisconnect(state, requested, abort) ==
  CASE abort -> "CLOSED"
    [] ~abort /\ requested /\ state = "CLOSE_WAIT" -> "LAST_ACK"
    [] ~abort /\ ~requested /\ state = "FIN_WAIT_1" -> "TIME_WAIT"
    [] ~abort /\ ~requested /\ state = "ESTABLISHED" -> "CLOSE_WAIT"
    [] OTHER -> state

Disconnect(f, requested, abort) == LET c == GetConnection(f) IN
  /\ f \in opened /\ c # NoConn
  /\ f \in IF requested THEN Endpoint ELSE Endpoint \cup Address
  /\ IF AfterDisconnect(conns[c].state, requested, abort) # conns[c].state \/ abort
     THEN SetConnectionState(conns, c, AfterDisconnect(conns[c].state, requested, abort))
     ELSE UNCHANGED <<conns, changes>>
  /\ UNCHANGED <<opened, table, freed, irps>>

(* TdiSetEventHandler for connect events: the address listens.             *)
Listen(a) == \E garbage \in Process :
  /\ a \in DOMAIN table /\ a \in opened /\ MayAllocate
  /\ table' = [table EXCEPT ![a] = NewConn]
  /\ SetConnectionState(Append(conns, FreshConnection("CLOSED", garbage)), NewConn, "LISTEN")
  /\ UNCHANGED <<opened, freed, irps>>

(* TdiSendDatagramHandler: the connection of the file names the process    *)
(* that sent first.                                                        *)
SendDatagram(u, p) == LET c == GetConnection(u) IN
  /\ u \in DOMAIN table /\ u \in opened
  /\ c = NoConn => MayAllocate
  /\ SetConnectionState(IF c = NoConn THEN Append(conns, FreshConnection("CLOSED", p)) ELSE conns,
                        IF c = NoConn THEN NewConn ELSE c, "UDP_SEND_DATAGRAM")
  /\ table' = IF c = NoConn THEN [table EXCEPT ![u] = NewConn] ELSE table
  /\ UNCHANGED <<opened, freed, irps>>

(* Seeded fault: the file stays in the table.                            *)
Close_KeepsNode(f) ==
  /\ f \in opened /\ ~HasRequest(f)
  /\ opened' = opened \ {f}
  /\ FreeConnection(GetConnection(f))
  /\ UNCHANGED <<table, conns, irps, changes>>

(* TdiCloseHandler: RemoveConnectionNode.                                  *)
Close(f) ==
  /\ f \in opened /\ ~HasRequest(f)
  /\ opened' = opened \ {f}
  /\ table' = [g \in DOMAIN table \ {f} |-> table[g]]
  /\ FreeConnection(GetConnection(f))
  /\ UNCHANGED <<conns, irps, changes>>

TdiNext ==
  \/ \E f \in TdiFile : Create(f) \/ Close(f)
  \/ \E e \in Endpoint : \/ \E a \in Address, p \in Process : Associate(e, a, p)
                         \/ Disassociate(e) \/ Connect(e) \/ Accept(e)
  \/ \E u \in UdpFile, p \in Process : ConnectUdp(u, p) \/ SendDatagram(u, p)
  \/ \E a \in Address : Listen(a)
  \/ \E r \in irps, success \in BOOLEAN : CompleteRequest(r, success)
  \/ \E f \in TdiFile, requested, abort \in BOOLEAN : Disconnect(f, requested, abort)

TdiSpec == TdiInit /\ [][TdiNext]_tdiVars
-----------------------------------------------------------------------------
TdiTypeOK ==
  /\ opened \subseteq TdiFile /\ DOMAIN table \subseteq opened
  /\ \A f \in DOMAIN table : table[f] \in 1..Len(conns) \cup {NoConn}
  /\ \A c \in 1..Len(conns) : conns[c] \in [state : ConnectionState, process : Process]
  /\ freed \subseteq 1..Len(conns)
  /\ \A r \in irps : r.file \in opened /\ r.conn \in 1..Len(conns)

(* No file of the table and no pending completion refers to a connection   *)
(* that was freed, and no two files to the same one, so that none is freed *)
(* twice: "One local can be used in many connection".                      *)
ReferencesAreAlive ==
  /\ \A f \in DOMAIN table : table[f] \notin freed
  /\ \A r \in irps : r.conn \notin freed
  /\ \A f, g \in DOMAIN table : table[f] = table[g] /\ table[f] # NoConn => f = g

=============================================================================
