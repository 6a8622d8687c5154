---------------------------- MODULE MCOrderDesk -----------------------------
(***************************************************************************)
(* Small instances of OrderDesk.  Requests are interchangeable.            *)
(***************************************************************************)
EXTENDS OrderDesk, TLC

RequestSymmetry == Permutations(Requests)
=============================================================================
