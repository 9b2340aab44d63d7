---------------------------- MODULE PacketCapture ---------------------------
(***************************************************************************)
(* The client's logs of a visit: network packets, which a thread of the    *)
(* network adapter writes to a dump file, and copies of modified files.    *)
(* Analyzer.stop decides from the verdict and from the options what of     *)
(* them is put into the archive that goes to the server; it reads both     *)
(* several times, while a callback that is still at work may set the       *)
(* verdict and the thread that receives from the server the options.       *)
(*                                                                         *)
(* One adapter; packets are not told apart.  The client runs with a        *)
(* server.                                                                 *)
(***************************************************************************)
EXTENDS Naturals, FiniteSets

CONSTANTS
  MaxCaptures,  \* bound: visits
  MaxOptions    \* bound: options that arrive

ASSUME CaptureAssumption == MaxCaptures \in Nat /\ MaxOptions \in Nat

Verdicts == {"malicious", "benign"}

VARIABLES
  options,    \* capture-network-packets-malicious and -benign, collect-modified-files
  capturing,  \* captureNetworkPackets
  dumper,     \* whether there is a networkPacketDumper
  stage,      \* where the analyzer is in start or stop
  verdict,    \* malicious
  callback,   \* an event's callback is at work
  adapter,    \* NetworkAdapter.running, and the thread that captures
  dumpFile,   \* none, open, closed
  logs,       \* what is in the directory of the logs
  zip,        \* what was sent, with whether anything was
  captures,   \* visits so far
  arrived,    \* options so far
  had,        \* history: the logs before the analyzer decides
  late        \* history: the verdict or an option changed during the stop

captureVars == <<options, capturing, dumper, stage, verdict, callback, adapter, dumpFile, logs,
                 zip, captures, arrived, had, late>>

NoArchive == [sent |-> FALSE, content |-> {}]

\* CaptureClient's defaults, with or without -n; connect_onOptionChanged tells the
\* analyzer of them.
CaptureInit ==
  /\ options = [malicious |-> FALSE, benign |-> FALSE, collect |-> FALSE]
  /\ capturing \in BOOLEAN /\ dumper = capturing
  /\ stage = "idle" /\ verdict = FALSE /\ callback = FALSE
  /\ adapter = [running |-> FALSE, thread |-> "none"] /\ dumpFile = "none"
  /\ logs = {} /\ zip = NoArchive /\ captures = 0 /\ arrived = 0
  /\ had = {} /\ late = FALSE
-----------------------------------------------------------------------------
(* Options and events                                                      *)

\* Stages in which the analyzer decides.
Deciding == {"copy", "decide", "malicious", "benign", "modified", "archive", "clean", "report"}

\* Once captureNetworkPackets is true it stays true.
CaptureOptionChanged(o, v) ==
  /\ arrived < MaxOptions /\ arrived' = arrived + 1
  /\ options' = [options EXCEPT ![o] = v]
  /\ capturing' = (capturing \/ (o \in Verdicts /\ v))
  /\ dumper' = IF o \in Verdicts /\ ~v /\ ~capturing /\ ~options'.malicious /\ ~options'.benign
               THEN FALSE ELSE dumper \/ (o \in Verdicts /\ v)
  /\ late' = (late \/ stage \in Deciding)
  /\ UNCHANGED <<stage, verdict, callback, adapter, dumpFile, logs, zip, captures, had>>

BeginCallback ==
  /\ stage = "visiting" /\ ~callback /\ callback' = TRUE
  /\ UNCHANGED <<options, capturing, dumper, stage, verdict, adapter, dumpFile, logs, zip,
                 captures, arrived, had, late>>

\* onProcessEvent and the others; disconnecting does not wait for it.
EndCallback ==
  /\ callback /\ callback' = FALSE /\ verdict' = TRUE
  /\ late' = (late \/ stage # "visiting")
  /\ UNCHANGED <<options, capturing, dumper, stage, adapter, dumpFile, logs, zip, captures,
                 arrived, had>>
-----------------------------------------------------------------------------
(* Analyzer.start                                                          *)

From(s, to) == stage = s /\ stage' = to

StartAnalyzer ==
  /\ captures < MaxCaptures /\ captures' = captures + 1
  /\ From("idle", IF capturing THEN "open" ELSE "connect")
  /\ verdict' = FALSE /\ late' = callback /\ zip' = NoArchive
  /\ UNCHANGED <<options, capturing, dumper, callback, adapter, dumpFile, logs, arrived, had>>

\* NetworkPacketDumper.start and NetworkAdapter.start: the thread runs before
\* running is set.
OpenDump ==
  /\ From("open", IF adapter.running THEN "connect" ELSE "running")
  /\ IF adapter.running THEN UNCHANGED <<adapter, dumpFile, logs>>
     ELSE /\ dumpFile' = "open" /\ logs' = logs \cup {"packets"}
          /\ adapter' = [adapter EXCEPT !.thread = "created"]
  /\ UNCHANGED <<options, capturing, dumper, verdict, callback, zip, captures, arrived, had,
                 late>>

SetRunning ==
  /\ From("running", "connect")
  /\ adapter' = [adapter EXCEPT !.running = TRUE]
  /\ UNCHANGED <<options, capturing, dumper, verdict, callback, dumpFile, logs, zip, captures,
                 arrived, had, late>>

ConnectCallbacks ==
  /\ From("connect", "visiting")
  /\ UNCHANGED <<options, capturing, dumper, verdict, callback, adapter, dumpFile, logs, zip,
                 captures, arrived, had, late>>
-----------------------------------------------------------------------------
(* NetworkAdapter.run                                                      *)

ThreadRest == UNCHANGED <<options, capturing, dumper, stage, verdict, callback, dumpFile, logs,
                          zip, captures, arrived, had, late>>

\* Before the first packet, and after each.
TestRunning ==
  /\ adapter.thread \in {"created", "dumped"}
  /\ adapter' = [adapter EXCEPT !.thread = IF adapter.running THEN "waiting" ELSE "ended"]
  /\ ThreadRest

GetPacket ==
  /\ adapter.thread = "waiting" /\ adapter' = [adapter EXCEPT !.thread = "got"] /\ ThreadRest

DumpPacket ==
  /\ adapter.thread = "got" /\ adapter' = [adapter EXCEPT !.thread = "dumped"] /\ ThreadRest
-----------------------------------------------------------------------------
(* Analyzer.stop                                                           *)

\* The callbacks are disconnected.
StopAnalyzer ==
  /\ From("visiting", IF capturing /\ adapter.running THEN "exit" ELSE "copy")
  /\ UNCHANGED <<options, capturing, dumper, verdict, callback, adapter, dumpFile, logs, zip,
                 captures, arrived, had, late>>

\* Thread.exit waits in vain, and terminates the thread wherever it is.
ExitThread ==
  /\ From("exit", "close") /\ adapter' = [adapter EXCEPT !.thread = "none"]
  /\ UNCHANGED <<options, capturing, dumper, verdict, callback, dumpFile, logs, zip, captures,
                 arrived, had, late>>

CloseDump ==
  /\ From("close", "copy") /\ dumpFile' = "closed"
  /\ adapter' = [adapter EXCEPT !.running = FALSE]
  /\ UNCHANGED <<options, capturing, dumper, verdict, callback, logs, zip, captures, arrived,
                 had, late>>

\* What the analyzer does to the logs at stage s.
Decision(s, to, kept) ==
  /\ From(s, to) /\ logs' = kept
  /\ UNCHANGED <<options, capturing, dumper, verdict, callback, adapter, dumpFile, zip,
                 captures, arrived, had, late>>

\* copyCreatedFiles, if any were modified.
CopyModified == \E new \in SUBSET {"modified"} :
  Decision("copy", "decide", IF options.collect THEN logs \cup new ELSE logs)

Decide ==
  /\ From("decide", IF options.collect \/ capturing THEN "malicious" ELSE "clean")
  /\ had' = logs
  /\ UNCHANGED <<options, capturing, dumper, verdict, callback, adapter, dumpFile, logs, zip,
                 captures, arrived, late>>

DeleteIfMalicious == Decision("malicious", "benign",
  IF verdict /\ ~options.malicious /\ dumper THEN logs \ {"packets"} ELSE logs)

DeleteIfBenign == Decision("benign", "modified",
  IF ~verdict /\ ~options.benign /\ dumper THEN logs \ {"packets"} ELSE logs)

DeleteModified == Decision("modified", "archive",
  IF verdict THEN logs ELSE logs \ {"modified"})

\* Seeded fault: collected files alone are not worth an archive.
SendArchive_PacketsOnly ==
  /\ From("archive", "clean")
  /\ zip' = IF options[IF verdict THEN "malicious" ELSE "benign"]
                THEN [sent |-> TRUE, content |-> logs] ELSE NoArchive
  /\ UNCHANGED <<options, capturing, dumper, verdict, callback, adapter, dumpFile, logs, captures,
                 arrived, had, late>>

SendArchive ==
  /\ From("archive", "clean")
  /\ zip' = IF \/ verdict /\ options.collect
               \/ options[IF verdict THEN "malicious" ELSE "benign"]
            THEN [sent |-> TRUE, content |-> logs] ELSE NoArchive
  /\ UNCHANGED <<options, capturing, dumper, verdict, callback, adapter, dumpFile, logs, captures,
                 arrived, had, late>>

DeleteLogs == Decision("clean", "report", {})

\* update sends the verdict; after an exception in a plug-in it stops once more.
ReportVerdict ==
  /\ stage = "report" /\ stage' \in {"idle", "again"}
  /\ UNCHANGED <<options, capturing, dumper, verdict, callback, adapter, dumpFile, logs, zip,
                 captures, arrived, had, late>>

StopAgain ==
  /\ From("again", IF capturing /\ adapter.running THEN "exit" ELSE "copy")
  /\ zip' = NoArchive
  /\ UNCHANGED <<options, capturing, dumper, verdict, callback, adapter, dumpFile, logs, captures,
                 arrived, had, late>>

CaptureNext ==
  \/ \E o \in DOMAIN options, v \in BOOLEAN : CaptureOptionChanged(o, v)
  \/ BeginCallback \/ EndCallback \/ TestRunning \/ GetPacket \/ DumpPacket
  \/ StartAnalyzer \/ OpenDump \/ SetRunning \/ ConnectCallbacks
  \/ StopAnalyzer \/ ExitThread \/ CloseDump \/ CopyModified \/ Decide
  \/ DeleteIfMalicious \/ DeleteIfBenign \/ DeleteModified \/ SendArchive \/ DeleteLogs
  \/ ReportVerdict \/ StopAgain

CaptureSpec == CaptureInit /\ [][CaptureNext]_captureVars
-----------------------------------------------------------------------------
CaptureTypeOK ==
  /\ options \in [malicious : BOOLEAN, benign : BOOLEAN, collect : BOOLEAN]
  /\ capturing \in BOOLEAN /\ dumper \in BOOLEAN /\ (capturing => dumper)
  /\ verdict \in BOOLEAN /\ callback \in BOOLEAN /\ late \in BOOLEAN
  /\ adapter \in [running : BOOLEAN,
                  thread : {"none", "created", "waiting", "got", "dumped", "ended"}]
  /\ dumpFile \in {"none", "open", "closed"}
  /\ logs \subseteq {"packets", "modified"} /\ had \subseteq {"packets", "modified"}
  /\ zip \in [sent : BOOLEAN, content : SUBSET {"packets", "modified"}]

(* The thread that captures never has a packet for a dump file that is      *)
(* closed, though it never learns that it is to stop and though each visit  *)
(* has a thread of its own (Thread.exit, NetworkAdapter.stop and run).      *)
DumpIsOpenForPackets ==
  adapter.thread \in {"waiting", "got", "dumped"} => dumpFile = "open"

(* What goes to the server follows the verdict that is reported with it:    *)
(* an archive if its packets are wanted or files were collected from a      *)
(* malicious visit, with the packets only if they are wanted and modified   *)
(* files only if it was malicious - unless an event's callback or an option *)
(* comes after the visit ended (the five tests of Analyzer.stop).           *)
ArchiveFollowsVerdict ==
  LET wanted == options[IF verdict THEN "malicious" ELSE "benign"]
  IN  stage = "report" /\ ~late =>
        /\ zip.sent <=> wanted \/ (verdict /\ options.collect)
        /\ zip.sent =>
             zip.content = {x \in had : IF x = "packets" THEN wanted ELSE verdict}
=============================================================================
