------------------------------- MODULE MCLogger -------------------------------
(***************************************************************************)
(* Small instances of the logger for TLC.                                  *)
(***************************************************************************)
EXTENDS Logger, TLC

CONSTANTS main, other, third

OneThread == {main}
ThreeThreads == {main, other, third}
OthersSymmetry == Permutations({other, third})
=============================================================================
