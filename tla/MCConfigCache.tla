--------------------------- MODULE MCConfigCache ---------------------------
(***************************************************************************)
(* Instances of ConfigCache for TLC.                                       *)
(***************************************************************************)
EXTENDS ConfigCache, TLC

CONSTANTS p1, p2, p3

\* Goroutines are interchangeable.
ProcSymmetry == Permutations(Proc)
=============================================================================
