------------------------- MODULE RemediationSafety -------------------------
(***************************************************************************)
(* What must never happen while remediations run.  MCRemediation checks    *)
(* these properties on small instances, RemediationProofs proves some of   *)
(* them for every instance.                                                *)
(***************************************************************************)
EXTENDS Remediation

(* a has asked n8n for a retry: the request is on the wire, or n8n has      *)
(* started the execution.                                                   *)
Requested(a) == (\E m \in posts : m.by = a) \/ (\E x \in execs : x.id = a)

RetryPhase == {"retry_starting", "retry_started", "completed"}

(* README.md:230, remediation.py:271: whatever crashes, times out or loses  *)
(* its lease, at most one retry is ever requested for a proposal.           *)
AtMostOneRetry ==
  \A a, b \in Attempts :
    (Requested(a) /\ Requested(b) /\ target[a] = target[b]) => a = b

(* README.md:238: before a request that changes n8n is on the wire, the     *)
(* row has the stage that makes the next attempt look before it acts, and   *)
(* the timeline has the event (remediation.py:204-226 and 290-301).         *)
RecordedFirst ==
  /\ \A m \in puts :
       LET p == target[m.by] IN
         /\ runs[p].stage \notin {"none", "claimed"}
         /\ "workflow_update_starting" \in timeline[p]
  /\ \A a \in Attempts : Requested(a) =>
       /\ runs[target[a]].stage \in RetryPhase
       /\ "retry_starting" \in timeline[target[a]]

(* README.md:222-225: every update is the proposal's own patch of a         *)
(* snapshot that a person approved after a dry run of it, also when the     *)
(* evidence is read while it changes (remediation.py:140-153, 187-226).     *)
WritesAreApproved ==
  \A m \in puts :
    LET p == target[m.by] IN
      /\ m.base \in granted[p] \cap past[p]
      /\ m.def = Patched(m.base.def, p)

(* README.md:221: both gates are looked at before the first write, so as    *)
(* long as one of them is closed a call sends nothing and moves no stage,   *)
(* also one that resumes what was begun while both were open: no half-done  *)
(* remediation that has patched the workflow and may not retry              *)
(* (remediation.py:145-148).                                                *)
ClosedGateMeansNoRequest ==
  [][gates # {"mutation", "retry"} =>
       /\ puts' \subseteq puts
       /\ posts' \subseteq posts
       /\ \A p \in Proposals : runs'[p].stage \in {runs[p].stage, "claimed"}]_vars

(* The response that is persisted, and replayed from then on, names a real  *)
(* retry of the proposal's own execution, and reports success or failure    *)
(* only if n8n did (remediation.py:327-352).                                *)
ResponseIsTruthful ==
  \A p \in Proposals : Completed(p) =>
    \E x \in RetriesOf(p) :
      /\ x.id = runs[p].response.retryId
      /\ runs[p].response.verification = "success" => x.status = "success"
      /\ runs[p].response.verification = "failure" => x.status = "error"

Rank(stage) ==
  CASE stage = "none"                     -> 0
    [] stage = "claimed"                  -> 1
    [] stage = "workflow_update_starting" -> 2
    [] stage = "workflow_verified"        -> 3
    [] stage = "retry_starting"           -> 4
    [] stage = "retry_started"            -> 5
    [] stage = "completed"                -> 6

(* The durable stage never goes back, although an attempt that lost its     *)
(* lease still runs and still writes (state_store.py:317, 345).             *)
StageNeverRegresses ==
  [][\A p \in Proposals : Rank(runs[p].stage) <= Rank(runs'[p].stage)]_vars

(* state_store.py:264: as long as no call outlives its lease, one attempt   *)
(* at a time works on a proposal.                                           *)
SingleAttempt ==
  \A a, b \in Attempts :
    (Live(a) /\ Live(b) /\ target[a] = target[b]) => a = b

(* README.md:228: when nobody else edits the workflow, the retry executes   *)
(* the approved definition and nothing else (remediation.py:256-261).       *)
RetryRunsApprovedDefinition ==
  \A x \in execs : x.id \in Attempts =>
    LET p == target[x.id] IN
      \E s \in granted[p] : x.def = Patched(s.def, p)

-----------------------------------------------------------------------------
(* Remediation implements AtMostOnce.  A call has asked when its retry is   *)
(* on the wire or known to n8n; the outcome is the persisted response.      *)

Promise ==
  INSTANCE AtMostOnce WITH
    Outcomes <- Responses,
    updating <- [p \in Proposals |-> {a \in Attempts :
                    target[a] = p /\ \E m \in puts : m.by = a}],
    asked    <- [p \in Proposals |-> {a \in Attempts :
                    target[a] = p /\ Requested(a)}],
    outcome  <- [p \in Proposals |-> runs[p].response],
    answers  <- answer

(* README.md:230-241: as long as no call outlives its lease, whatever       *)
(* crashes or times out, the endpoint keeps the promise of AtMostOnce.      *)
KeepsPromise == Promise!AtMostOnceSpec

-----------------------------------------------------------------------------
(* What comments and documents say that the code does not keep.             *)

(* SECURITY.md:49: a lease prevents concurrent apply attempts for the same  *)
(* proposal: two calls are never both between deciding to update the        *)
(* workflow and verifying what was persisted.                               *)
Applying(a) ==
  pc[a] \in {"log_starting", "put", "put_wait", "readback", "save_verified"}

OneApplies ==
  \A a, b \in Attempts :
    (Applying(a) /\ Applying(b) /\ target[a] = target[b]) => a = b

(* README.md:226: changed workflow state fails closed: an update takes      *)
(* effect only over the snapshot that was approved.                         *)
UpdateReplacesApproved ==
  [][\A m \in puts : m \notin puts' => workflow = m.base]_vars
=============================================================================
