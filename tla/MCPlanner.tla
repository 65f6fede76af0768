------------------------------ MODULE MCPlanner ------------------------------
(***************************************************************************)
(* Small instances of the page for TLC.                                    *)
(***************************************************************************)
EXTENDS Planner

=============================================================================
