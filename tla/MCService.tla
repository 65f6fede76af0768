----------------------------- MODULE MCService -----------------------------
(***************************************************************************)
(* Small instances of the service for TLC.                                 *)
(***************************************************************************)
EXTENDS OptimizationService, TLC

\* Threads are interchangeable in every safety property.
ThreadSymmetry == Permutations(Threads)

=============================================================================
