--------------------------- MODULE MCSignalIntake ---------------------------
(***************************************************************************)
(* Small instances of SignalIntake: two payloads of one bar's signal and a *)
(* snapshot of the bar before it.                                          *)
(***************************************************************************)
EXTENDS SignalIntake, TLC

CONSTANTS a, b, c, r1, r2, hermesA, hermesB

ThreePayloads == {a, b, c}
TwoSignals == {a, b}

\* a and b are different payloads for the signal of bar 2, c is of bar 1.
TwoBars == a :> 2 @@ b :> 2 @@ c :> 1
TwoAttempts == [j \in Jobs |-> 2]

\* Requests are interchangeable, and so are workers.
ActorSymmetry == Permutations(Requests) \union Permutations(Holders)
=============================================================================
