----------------------------- MODULE MCForgetful -----------------------------
(***************************************************************************)
(* A small instance of the service over a Redis that restarts, for TLC.    *)
(***************************************************************************)
EXTENDS ForgetfulService, TLC

=============================================================================
