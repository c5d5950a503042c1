------------------------------ MODULE MCRoute ------------------------------
(***************************************************************************)
(* ApplyRoute with the values of MCRemediation, for TLC.                   *)
(***************************************************************************)
EXTENDS MCRemediation, ApplyRoute
=============================================================================
