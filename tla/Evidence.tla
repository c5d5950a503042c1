------------------------------ MODULE Evidence ------------------------------
(***************************************************************************)
(* What the rest of the Doctor may rely on about dry runs and approvals,   *)
(* whatever IncidentService (app/services/incidents.py) does inside with   *)
(* its caches, its SQLite rows and its request threads.                    *)
(*                                                                         *)
(* For each proposal there is the snapshot of the last dry run and the     *)
(* snapshot that a person approved.  Two history variables collect every   *)
(* snapshot that was ever dry-run and every one that was ever approved.    *)
(*                                                                         *)
(* With RacyEvidence = FALSE the requests of one proposal come one at a    *)
(* time.  With TRUE they overlap: a reader may be shown an older snapshot, *)
(* and a write may be saved late, over a newer one.  Module                *)
(* IncidentService is the implementation.                                  *)
(***************************************************************************)
CONSTANTS
  Proposals,      \* proposal ids
  Snapshots,      \* versionId and snapshot_fingerprint of a workflow
  None,           \* no record
  RacyEvidence    \* requests of one proposal may overlap

VARIABLES
  dry,        \* the durable dry run of each proposal
  appr,       \* the durable approval of each proposal
  past,       \* snapshots that passed a dry run
  granted     \* snapshots that a person approved

evidenceVars == <<dry, appr, past, granted>>

EvidenceTypeOK ==
  /\ dry \in [Proposals -> Snapshots \cup {None}]
  /\ appr \in [Proposals -> Snapshots \cup {None}]
  /\ past \in [Proposals -> SUBSET Snapshots]
  /\ granted \in [Proposals -> SUBSET Snapshots]

EvidenceInit ==
  /\ dry = [p \in Proposals |-> None]
  /\ appr = [p \in Proposals |-> None]
  /\ past = [p \in Proposals |-> {}]
  /\ granted = [p \in Proposals |-> {}]

(* What get_dry_run and get_approval may return; None: they raise.          *)
DryRunSeen(p)   == {dry[p]} \cup (IF RacyEvidence THEN past[p] ELSE {})
ApprovalSeen(p) == {appr[p]} \cup (IF RacyEvidence THEN granted[p] ELSE {})

(* IncidentService.dry_run: a new dry run takes the approval away.          *)
DryRun(p, s) ==
  /\ dry' = [dry EXCEPT ![p] = s]
  /\ appr' = [appr EXCEPT ![p] = None]
  /\ past' = [past EXCEPT ![p] = @ \cup {s}]
  /\ UNCHANGED granted

(* IncidentService.approve: the approval names the snapshot of the dry run. *)
Approve(p) ==
  /\ dry[p] # None
  /\ appr' = [appr EXCEPT ![p] = dry[p]]
  /\ granted' = [granted EXCEPT ![p] = @ \cup {dry[p]}]
  /\ UNCHANGED <<dry, past>>

(* A dry run or an approval has been made and is not saved yet.  This alone *)
(* changes nothing for readers whose requests do not overlap with it.       *)
DryRunMade(p, s) ==
  /\ past' = [past EXCEPT ![p] = @ \cup {s}]
  /\ UNCHANGED <<dry, appr, granted>>

ApprovalMade(p) ==
  /\ \E s \in past[p] : granted' = [granted EXCEPT ![p] = @ \cup {s}]
  /\ UNCHANGED <<dry, appr, past>>

(* It is saved later, when a newer one may be there already.                *)
DryRunSavedLate(p) ==
  /\ RacyEvidence
  /\ \E s \in past[p] : dry' = [dry EXCEPT ![p] = s]
  /\ appr' = [appr EXCEPT ![p] = None]
  /\ UNCHANGED <<past, granted>>

ApprovalSavedLate(p) ==
  /\ RacyEvidence
  /\ \E s \in granted[p] : appr' = [appr EXCEPT ![p] = s]
  /\ UNCHANGED <<dry, past, granted>>

EvidenceStep(p, presented) ==
  \/ \E s \in presented : DryRun(p, s) \/ DryRunMade(p, s)
  \/ Approve(p)
  \/ ApprovalMade(p)
  \/ DryRunSavedLate(p)
  \/ ApprovalSavedLate(p)

EvidenceNext == \E p \in Proposals : EvidenceStep(p, Snapshots)

EvidenceSpec == EvidenceInit /\ [][EvidenceNext]_evidenceVars
=============================================================================
