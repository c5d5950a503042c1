------------------------ MODULE RemediationLiveness ------------------------
(***************************************************************************)
(* What must happen while remediations run, and the fairness it rests on.  *)
(*                                                                         *)
(* The workflow is approved and nobody dry-runs again; calls may raise,    *)
(* the process may crash and people may edit as long as one more call is   *)
(* left to come.  That call and n8n then get their turn: its thread is     *)
(* scheduled, SQLite has a busy timeout, n8n answers, and the clock passes *)
(* each deadline.  Module RemediationLookup is the system this is said of. *)
(***************************************************************************)
EXTENDS RemediationSafety

Approved ==
  /\ dry = [p \in Proposals |-> workflow]
  /\ appr = dry
  /\ past = [p \in Proposals |-> {workflow}]
  /\ granted = past

CalmInit ==
  /\ N8NInit
  /\ RunsInit
  /\ Approved
  /\ pc = [a \in Attempts |-> "idle"]
  /\ target = [a \in Attempts |-> None]
  /\ local = [a \in Attempts |-> Blank]
  /\ answer = [a \in Attempts |-> None]
  /\ timeline = [p \in Proposals |-> {}]
  /\ gates \in GateSettings

(* Anything else may happen from there, also edits of the workflow.         *)
ApprovedNext ==
  \/ \E a \in Attempts : Call(a) \/ Step(a) \/ Fault(a)
  \/ Crash
  \/ \E p \in Proposals : LeaseExpires(p)
  \/ Environment
  \/ PeopleAct /\ UNCHANGED <<rowVars, recordVars, gates, attemptVars, timeline>>

ApprovedSpec == CalmInit /\ [][ApprovedNext]_vars

OneMoreCall == \E a \in Attempts : pc[a] = "idle"

(* The workflow is neither the one that was approved nor the patched one.   *)
Diverged(p) ==
  /\ workflow # dry[p]
  /\ workflow.def # runs[p].expected

(* README.md:239-240: after any number of failures and crashes the next     *)
(* undisturbed call finishes the remediation, unless a retry may have been  *)
(* requested: then the row says so and waits for a person.  No other stage  *)
(* is a dead end.  An edit stops it only as long as it lasts: once the      *)
(* patched definition is restored a further call goes on from where the row *)
(* is (remediation.py:160-165, 256-261).                                    *)
RecoversOrStops ==
  \A p \in Proposals :
    <>[](Completed(p) \/ runs[p].stage = "retry_starting" \/ Diverged(p))

(* state_store.py:264: a lease never blocks a proposal for good, wherever   *)
(* its owner crashed, raised or failed to release it: the row becomes       *)
(* claimable, or it is completed.                                           *)
LeaseIsFreed ==
  \A p \in Proposals : runs[p].leased ~> (Claimable(p) \/ Completed(p))
=============================================================================
