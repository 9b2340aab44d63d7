----------------------------- MODULE MCUrlGroups -----------------------------
(* Instances of UrlGroups for TLC.                                         *)
EXTENDS UrlGroups, TLC

VARIABLE algorithm   \* of the plug-in that all groups are visited with

OneAlgorithmInit == Init /\ algorithm \in Algorithms

OneAlgorithmNext ==
  /\ Next
  /\ \A g \in Group : group'[g].algorithm \in {algorithm, "none"}
  /\ UNCHANGED algorithm

OneAlgorithmSpec == OneAlgorithmInit /\ [][OneAlgorithmNext]_<<vars, algorithm>>

\* Bounds of the large instance: one group fails; bulk, which does not split,
\* has two groups.
FewFailures ==
  /\ \A g, h \in Group : group[g].errorCount > 0 /\ group[h].errorCount > 0 => g = h
  /\ algorithm = "bulk" => Cardinality({g \in Group : ~Unused(g)}) <= 2

Symmetry == Permutations(Urls) \cup Permutations(Session)
=============================================================================
