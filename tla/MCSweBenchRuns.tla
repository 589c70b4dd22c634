--------------------------- MODULE MCSweBenchRuns ---------------------------
(***************************************************************************)
(* SweBenchRuns with interchangeable new runs.                             *)
(***************************************************************************)
EXTENDS SweBenchRuns, TLC

RunSymmetry == Permutations(Runs \ Old)

=============================================================================
