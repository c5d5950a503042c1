------------------------------- MODULE MCRuns -------------------------------
(***************************************************************************)
(* RemediationRuns and its clock, for TLC.                                 *)
(***************************************************************************)
EXTENDS LeaseClock, TLC

(* Proposals and tokens are interchangeable.                                *)
Interchangeable == Permutations(Proposals) \cup Permutations(Tokens)
=============================================================================
