------------------------------- MODULE MCParts ------------------------------
(***************************************************************************)
(* Instances for TLC of the parts of the server and of the client that     *)
(* share no state with each other.  A behaviour is one of the part it      *)
(* picks in its first state, and the others keep one initial state.        *)
(***************************************************************************)
EXTENDS StateAttribution, UrlDatabase, FileUpload, Exclusions, SystemMonitors,
        Browsers, PacketCapture, TLC

VARIABLE which   \* the part this behaviour is about

\* A list with the same address twice.
Lines == <<"a", "a", "b">>

\* Lines of exclusion lists: events excluded or not, an own rule, a line that
\* makes no permission and one whose expression is no good.
Rule(mark, matches) == [mark |-> mark, matches |-> matches, good |-> TRUE]
LocalLines == {Rule(mark, matches) : mark \in {"+", "-"}, matches \in {{"a"}, {"a", "own"}}}
                \cup {Rule("?", {"a"})}
RemoteLines == {Rule("+", {"a"}), Rule("-", {"a", "own"}), Rule("?", {"own"}),
                [mark |-> "+", matches |-> {"a"}, good |-> FALSE]}

\* The drivers that are loaded, one at a time: the monitors share only the order
\* in which they are started and deleted.
Loads == {{"file"}, {"network"}, {"registry"}, {"process"}}

hostVars == <<attributionVars, databaseVars>>
guestVars == <<uploadVars, exclusionVars, monitoringVars, browserVars, captureVars>>
partsVars == <<which, hostVars, guestVars>>

PartsInit ==
  /\ which \in {"attribution", "database", "upload", "exclusions", "monitors",
                "browsers", "capture"}
  /\ AttributionInit /\ DatabaseInit
  /\ UploadInit /\ ExclusionsInit /\ MonitorsInit /\ BrowsersInit /\ CaptureInit
  /\ which # "attribution" => permitted = {}
  /\ which # "exclusions" => monitor = "network" /\ list = <<>>
  /\ which # "browsers" => plugin = "bulk"
  /\ which # "capture" => ~capturing

OnServer(part, A) == which = part /\ A /\ UNCHANGED <<which, guestVars>>
OnClient(part, A) == which = part /\ A /\ UNCHANGED <<which, hostVars>>

PartsNext ==
  \/ OnServer("attribution", AttributionNext /\ UNCHANGED databaseVars)
  \/ OnServer("database", DatabaseNext /\ UNCHANGED attributionVars)
  \/ OnClient("upload", UploadNext
       /\ UNCHANGED <<exclusionVars, monitoringVars, browserVars, captureVars>>)
  \/ OnClient("exclusions", ExclusionsNext
       /\ UNCHANGED <<uploadVars, monitoringVars, browserVars, captureVars>>)
  \/ OnClient("monitors", MonitorsNext
       /\ UNCHANGED <<uploadVars, exclusionVars, browserVars, captureVars>>)
  \/ OnClient("browsers", BrowsersNext
       /\ UNCHANGED <<uploadVars, exclusionVars, monitoringVars, captureVars>>)
  \/ OnClient("capture", CaptureNext
       /\ UNCHANGED <<uploadVars, exclusionVars, monitoringVars, browserVars>>)

PartsSpec == PartsInit /\ [][PartsNext]_partsVars

\* The type invariants.
PartsTypeOK ==
  /\ AttributionTypeOK /\ DatabaseTypeOK
  /\ UploadTypeOK /\ ExclusionsTypeOK /\ MonitorsTypeOK /\ BrowsersTypeOK /\ CaptureTypeOK
=============================================================================
