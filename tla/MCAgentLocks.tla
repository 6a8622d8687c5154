---------------------------- MODULE MCAgentLocks -----------------------------
(***************************************************************************)
(* Every client has an owner id of its own: here, itself.                  *)
(***************************************************************************)
EXTENDS AgentLocks, TLC

OwnId == [c \in Clients |-> c]

ClientSymmetry == Permutations(Clients)
=============================================================================
