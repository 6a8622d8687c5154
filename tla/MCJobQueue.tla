----------------------------- MODULE MCJobQueue -----------------------------
(***************************************************************************)
(* Small instances of JobQueue: two jobs, two worker processes.            *)
(***************************************************************************)
EXTENDS JobQueue, TLC

CONSTANTS j1, j2, w1, w2, hermesA, hermesB

OneJob == {j1}
TwoJobs == {j1, j2}
TwoWorkers == {w1, w2}

DistinctWorkerId == w1 :> hermesA @@ w2 :> hermesB

\* w2 takes only j1, as a worker with a narrower HERMES_JOB_TYPES does.
AcceptSplit == w1 :> {j1, j2} @@ w2 :> {j1}

ReplayLast == j1 :> 3 @@ j2 :> 5

OneAndTwoAttempts == j1 :> 2 @@ j2 :> 1
=============================================================================
