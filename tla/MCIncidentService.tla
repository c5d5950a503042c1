------------------------- MODULE MCIncidentService -------------------------
(***************************************************************************)
(* IncidentService for TLC.                                                *)
(***************************************************************************)
EXTENDS IncidentService, TLC

(* Threads and snapshots are interchangeable.                               *)
Interchangeable == Permutations(Threads) \cup Permutations(Snapshots)
=============================================================================
