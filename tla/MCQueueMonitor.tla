--------------------------- MODULE MCQueueMonitor ---------------------------
(* Instances of QueueMonitor for TLC: the values are in the cfg files.     *)
EXTENDS QueueMonitor, TLC
=============================================================================
