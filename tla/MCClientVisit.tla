---------------------------- MODULE MCClientVisit ----------------------------
(* Instances of ClientVisit for TLC: two worker threads stand for the 60.  *)
EXTENDS ClientVisit, SequencesExt

CONSTANTS g1, g2, g3, m1

\* The larger group needs one worker thread twice.
SmallAndLarge == (g1 :> 2) @@ (g2 :> 3) @@ (g3 :> 1)
LargeOnly == g1 :> 3

\* JointCode is what the loop of visitGroup computes.
ASSUME JointCodeIsTheLoop ==
  \A codes \in BoundedSeq(UrlCodes, 4) :
    JointCode(codes) = FoldLeft(SetErrorCode, "OK", codes)
=============================================================================
