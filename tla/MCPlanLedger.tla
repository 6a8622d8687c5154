---------------------------- MODULE MCPlanLedger ----------------------------
(***************************************************************************)
(* Small instances of PlanLedger: two signals of one market.               *)
(***************************************************************************)
EXTENDS PlanLedger, TLC

CONSTANTS s1, s2, hermesA, hermesB

TwoSignals == {s1, s2}
OneStrong == {s1}
TwoAttempts == [s \in Jobs |-> 2]
TwoAndOneAttempts == s1 :> 2 @@ s2 :> 1

(* An armed plan and the end of a plan. *)
ArmOrEnd ==
  {[action |-> "patch", state |-> "armed"], [action |-> "terminate", state |-> "expired"]}

WorkerSymmetry == Permutations(Holders)
=============================================================================
