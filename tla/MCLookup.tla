------------------------------ MODULE MCLookup ------------------------------
(***************************************************************************)
(* RemediationLookup with the values of MCRemediation, for TLC.            *)
(***************************************************************************)
EXTENDS MCRemediation, RemediationLookup
=============================================================================
