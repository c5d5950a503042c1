-------------------------- MODULE RemediationRuns --------------------------
(***************************************************************************)
(* The remediation_runs table of SQLiteStateStore                          *)
(* (app/services/state_store.py): one row per proposal that holds the      *)
(* durable stage of its remediation, the lease of the attempt that works   *)
(* on it, and the persisted response.  Every operation is one SQLite       *)
(* transaction, so it is one action here.                                  *)
(*                                                                         *)
(* An owner token is a uuid4 drawn by claim_remediation: no token is       *)
(* issued twice (`issued`).  A lease is a deadline on the wall clock;      *)
(* `leased` says that lease_until is set and still in the future, and      *)
(* LeaseRunsOut that the clock has passed it.                              *)
(***************************************************************************)
EXTENDS Naturals

CONSTANTS
  Proposals,    \* proposal ids
  Tokens,       \* owner tokens
  Prints,       \* values of workflow_definition_fingerprint
  RetryIds,     \* ids of n8n executions
  None          \* SQL NULL

Stages == {"none", "claimed", "workflow_update_starting", "workflow_verified",
           "retry_starting", "retry_started", "completed"}

Responses == [retryId : RetryIds,
              verification : {"success", "failure", "pending"}]

ASSUME RunsAssumption ==
  /\ None \notin Tokens
  /\ None \notin Prints
  /\ None \notin RetryIds
  /\ None \notin Responses

VARIABLES
  runs,     \* the table; stage "none": there is no row
  issued    \* the tokens drawn so far

runsVars == <<runs, issued>>

Rows == [stage : Stages, owner : Tokens \cup {None}, leased : BOOLEAN,
         expected : Prints \cup {None}, retryId : RetryIds \cup {None},
         response : Responses \cup {None}]

RunsTypeOK ==
  /\ runs \in [Proposals -> Rows]
  /\ issued \subseteq Tokens

NoRow == [stage |-> "none", owner |-> None, leased |-> FALSE,
          expected |-> None, retryId |-> None, response |-> None]

RunsInit ==
  /\ runs = [p \in Proposals |-> NoRow]
  /\ issued = {}

(* SQL COALESCE(?, column)                                                  *)
Coalesce(new, old) == IF new = None THEN old ELSE new

Completed(p) == runs[p].response # None

(* Mutants: a lease that still runs is ignored; only a released row is      *)
(* claimed, however old its lease is.                                       *)
IgnoreLease(p) == ~Completed(p)
ClaimReleased(p) == ~Completed(p) /\ runs[p].owner = None

(* claim_remediation takes the row: there is no response, and no lease that *)
(* still runs.                                                              *)
Claimable(p) == ~Completed(p) /\ ~runs[p].leased

(* Mutant: a token is used again.                                           *)
ReuseToken(p, o) ==
  /\ issued' = issued \cup {o}
  /\ runs' = [runs EXCEPT ![p] =
                [runs[p] EXCEPT
                  !.owner = o,
                  !.leased = TRUE,
                  !.stage = IF runs[p].stage = "none" THEN "claimed"
                            ELSE runs[p].stage]]

TakeRow(p, o) ==
  /\ o \in Tokens \ issued
  /\ issued' = issued \cup {o}
  /\ runs' = [runs EXCEPT ![p] =
                [runs[p] EXCEPT
                  !.owner = o,
                  !.leased = TRUE,
                  !.stage = IF runs[p].stage = "none" THEN "claimed"
                            ELSE runs[p].stage]]

Claim(p, o) == Claimable(p) /\ TakeRow(p, o)

(* WHERE proposal_id = ? AND lease_owner = ?                                *)
Owns(p, o) == runs[p].owner = o

(* Mutants: the update does not name the owner; it takes the row back.      *)
SetStageOfAny(p, o, stage, expected, retryId) ==
  /\ runs' = [runs EXCEPT ![p] =
                [runs[p] EXCEPT
                  !.stage = stage,
                  !.expected = Coalesce(expected, runs[p].expected),
                  !.retryId = Coalesce(retryId, runs[p].retryId),
                  !.leased = TRUE]]
  /\ UNCHANGED issued

SetStageAndOwner(p, o, stage, expected, retryId) ==
  /\ o \in issued
  /\ runs' = [runs EXCEPT ![p] =
                [runs[p] EXCEPT
                  !.stage = stage,
                  !.expected = Coalesce(expected, runs[p].expected),
                  !.retryId = Coalesce(retryId, runs[p].retryId),
                  !.owner = o,
                  !.leased = TRUE]]
  /\ UNCHANGED issued

SetStage(p, o, stage, expected, retryId) ==
  /\ Owns(p, o)
  /\ runs' = [runs EXCEPT ![p] =
                [runs[p] EXCEPT
                  !.stage = stage,
                  !.expected = Coalesce(expected, runs[p].expected),
                  !.retryId = Coalesce(retryId, runs[p].retryId),
                  !.leased = TRUE]]
  /\ UNCHANGED issued

Complete(p, o, response) ==
  /\ Owns(p, o)
  /\ runs' = [runs EXCEPT ![p] =
                [runs[p] EXCEPT
                  !.stage = "completed",
                  !.response = response,
                  !.owner = None,
                  !.leased = FALSE]]
  /\ UNCHANGED issued

(* Mutant: the owner is cleared to an empty text and not to NULL.           *)
ReleaseToEmpty(p, o) ==
  /\ runs' = IF Owns(p, o)
             THEN [runs EXCEPT ![p] = [runs[p] EXCEPT !.owner = "", !.leased = FALSE]]
             ELSE runs
  /\ UNCHANGED issued

(* release_remediation: nothing happens if the token does not own the row.  *)
ReleaseRow(p, o) ==
  /\ runs' = IF Owns(p, o)
             THEN [runs EXCEPT ![p] = [runs[p] EXCEPT !.owner = None, !.leased = FALSE]]
             ELSE runs
  /\ UNCHANGED issued

LeaseRunsOut(p) ==
  /\ runs[p].leased
  /\ runs' = [runs EXCEPT ![p].leased = FALSE]
  /\ UNCHANGED issued

-----------------------------------------------------------------------------
(* The table under any client that uses only the tokens it was given.       *)

RunsNext ==
  \E p \in Proposals :
    \/ LeaseRunsOut(p)
    \/ \E o \in Tokens :
         \/ Claim(p, o)
         \/ ReleaseRow(p, o)
         \/ \E response \in Responses : Complete(p, o, response)
         \/ \E stage \in Stages \ {"none", "claimed", "completed"},
               expected \in Prints \cup {None}, retryId \in RetryIds \cup {None} :
              SetStage(p, o, stage, expected, retryId)

RunsSpec == RunsInit /\ [][RunsNext]_runsVars

(* A token that a row has lost never owns that row again, so an attempt     *)
(* whose lease was taken over can never write the row (state_store.py:317,  *)
(* 345, 358: every write names the owner).                                  *)
LostTokenStaysLost ==
  [][\A p \in Proposals, o \in issued :
       runs[p].owner # o => runs'[p].owner # o]_runsVars

(* A token owns at most one row: what one claim returned can never be used  *)
(* to move the remediation of another proposal.                             *)
OneRowPerToken ==
  \A p, q \in Proposals :
    (runs[p].owner = runs[q].owner /\ runs[p].owner # None) => p = q

(* Once a response is persisted the row never changes any more: a replayed  *)
(* request finds exactly what the first one stored (state_store.py:261).    *)
CompletedRowIsFinal ==
  [][\A p \in Proposals : Completed(p) => runs'[p] = runs[p]]_runsVars
============================================================================
