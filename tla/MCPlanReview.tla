---------------------------- MODULE MCPlanReview ----------------------------
(***************************************************************************)
(* Small instances of PlanReview: a review, the curation of what it finds, *)
(* and a revision.  Workers are interchangeable.                           *)
(***************************************************************************)
EXTENDS PlanReview, TLC

CONSTANTS rev, cur, sug, hermesA, hermesB

AllJobs == {rev, cur, sug}
AllKinds == rev :> "review" @@ cur :> "curate" @@ sug :> "revise"
CurationTwice == rev :> 1 @@ cur :> 2 @@ sug :> 1

WorkerSymmetry == Permutations(Holders)
=============================================================================
