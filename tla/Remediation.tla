---------------------------- MODULE Remediation ----------------------------
(***************************************************************************)
(* ControlledRemediationService (app/services/remediation.py): calls of    *)
(* apply_retry_verify that run concurrently in the request threads of the  *)
(* one server process, against the remediation_runs table, the dry-run and *)
(* approval evidence, and n8n.                                             *)
(*                                                                         *)
(* An element of Attempts is one call and also the uuid4 that it claims    *)
(* the row with.  Its program counter stops at every SQLite transaction    *)
(* and at every HTTP exchange, so other calls, people and n8n may act      *)
(* between any two of them.  Any of them may also raise (Break), and the   *)
(* process may die at any point (Crash).                                   *)
(***************************************************************************)
EXTENDS N8N

CONSTANTS
  Proposals,      \* proposal ids; all of them are proposals for one workflow
  None,
  ExecOf,         \* the failed execution a proposal was made for
  PatchOf,        \* what its operations do to the retry settings of the node
  GateSettings,   \* the gates that the server may be started with
  RacyEvidence,   \* dry-run and approve requests overlap (module Evidence)
  SlowAttempts    \* a call may take longer than its lease

ASSUME RemediationAssumption ==
  /\ ExecOf \in [Proposals -> Executions]
  /\ PatchOf \in [Proposals -> [Settings -> Settings]]
  /\ GateSettings \subseteq SUBSET {"mutation", "retry"}
  /\ {RacyEvidence, SlowAttempts} \subseteq BOOLEAN
  /\ None \notin Attempts \cup HumanRetries

VARIABLES
  runs, issued,              \* the table: module RemediationRuns
  dry, appr, past, granted,  \* the evidence: module Evidence
  pc,         \* where each call is
  target,     \* its proposal_id
  local,      \* its local variables
  answer,     \* the response it returned to its caller
  timeline,   \* event types appended to the timeline of each proposal
  gates       \* ALLOW_WORKFLOW_MUTATION and ALLOW_EXECUTION_RETRY

RetryIds == Attempts \cup HumanRetries

INSTANCE RemediationRuns WITH Tokens <- Attempts, Prints <- Definitions
INSTANCE Evidence

ASSUME NoneAssumption == None \notin Responses \cup Definitions

rowVars == <<runs, issued>>
recordVars == <<dry, appr, past, granted>>
attemptVars == <<pc, target, local, answer>>
vars == <<n8nVars, rowVars, recordVars, attemptVars, timeline, gates>>

SavePcs == {"save_recovered", "save_starting", "save_verified", "save_found",
            "save_retry", "save_started", "complete"}

LivePcs == SavePcs \cup
  {"load", "read_dry", "read_approval", "fetch", "log_recovered",
   "log_starting", "put", "put_wait", "readback", "log_verified", "verify",
   "find", "log_found", "log_retry", "post", "post_wait", "log_started",
   "poll", "log_completed", "releasing"}

EndPcs == {"done", "failed", "dead"}

Locals == [stage : Stages, expected : Definitions \cup {None},
           dry : Snapshots \cup {None}, retryId : RetryIds \cup {None},
           response : Responses \cup {None}]

Blank == [stage |-> "none", expected |-> None, dry |-> None,
          retryId |-> None, response |-> None]

Events == {"workflow_update_recovered", "workflow_update_starting",
           "workflow_verified", "retry_recovered", "retry_starting",
           "retry_started", "remediation_completed"}

AttemptsTypeOK ==
  /\ pc \in [Attempts -> {"idle"} \cup LivePcs \cup EndPcs]
  /\ target \in [Attempts -> Proposals \cup {None}]
  /\ local \in [Attempts -> Locals]
  /\ answer \in [Attempts -> Responses \cup {None}]
  /\ timeline \in [Proposals -> SUBSET Events]

TypeOK ==
  /\ N8NTypeOK /\ RunsTypeOK /\ EvidenceTypeOK /\ AttemptsTypeOK
  /\ gates \in GateSettings

Init ==
  /\ N8NInit
  /\ RunsInit
  /\ EvidenceInit
  /\ pc = [a \in Attempts |-> "idle"]
  /\ target = [a \in Attempts |-> None]
  /\ local = [a \in Attempts |-> Blank]
  /\ answer = [a \in Attempts |-> None]
  /\ timeline = [p \in Proposals |-> {}]
  /\ gates \in GateSettings

Live(a) == pc[a] \in LivePcs

(* The patch of proposal p, rebuilt by WorkflowDryRunEngine.dry_run.        *)
Patched(d, p) == [d EXCEPT !.retry = PatchOf[p][d.retry]]

Goto(a, next) == pc' = [pc EXCEPT ![a] = next]

(* An exception: the finally block releases the row.                        *)
Raise(a) ==
  /\ Goto(a, "releasing")
  /\ UNCHANGED <<n8nVars, rowVars, recordVars, gates, target, local, answer, timeline>>

-----------------------------------------------------------------------------
(* Entering: claim_remediation.  While a lease runs the call is answered    *)
(* with RemediationInProgressError and nothing changes.                     *)

Begin(a, p) ==
  /\ pc[a] = "idle"
  /\ Claim(p, a)
  /\ target' = [target EXCEPT ![a] = p]
  /\ Goto(a, "load")
  /\ UNCHANGED <<n8nVars, recordVars, gates, local, answer, timeline>>

(* The response is persisted: it is returned again.                         *)
BeginReplay(a, p) ==
  /\ pc[a] = "idle"
  /\ Completed(p)
  /\ target' = [target EXCEPT ![a] = p]
  /\ answer' = [answer EXCEPT ![a] = runs[p].response]
  /\ Goto(a, "done")
  /\ UNCHANGED <<n8nVars, rowVars, recordVars, gates, local, timeline>>

(* claim_remediation reads the row back in a second transaction.            *)
LoadRow(a) ==
  /\ pc[a] = "load"
  /\ ~Completed(target[a])
  /\ LET row == runs[target[a]] IN
       local' = [local EXCEPT ![a] =
                   [Blank EXCEPT !.stage = row.stage, !.expected = row.expected,
                                 !.retryId = row.retryId]]
  /\ Goto(a, "read_dry")
  /\ UNCHANGED <<n8nVars, rowVars, recordVars, gates, target, answer, timeline>>

LoadReplay(a) ==
  /\ pc[a] = "load"
  /\ Completed(target[a])
  /\ answer' = [answer EXCEPT ![a] = runs[target[a]].response]
  /\ Goto(a, "done")
  /\ UNCHANGED <<n8nVars, rowVars, recordVars, gates, target, local, timeline>>

(* An exception in that second transaction is outside the try block of      *)
(* apply_retry_verify: the row stays leased.                                *)
LoadBreaks(a) ==
  /\ pc[a] = "load"
  /\ Goto(a, "failed")
  /\ UNCHANGED <<n8nVars, rowVars, recordVars, gates, target, local, answer, timeline>>

-----------------------------------------------------------------------------
(* The evidence and the two gates.                                          *)

ReadDryRun(a) ==
  /\ pc[a] = "read_dry"
  /\ \E s \in DryRunSeen(target[a]) \ {None} :
       local' = [local EXCEPT ![a].dry = s]
  /\ Goto(a, "read_approval")
  /\ UNCHANGED <<n8nVars, rowVars, recordVars, gates, target, answer, timeline>>

(* Mutant: the gate of the retry is left to retry_execution.                *)
OnlyMutationGate == "mutation" \in gates

GatesOpen == gates = {"mutation", "retry"}

(* Mutant: any approval of the proposal will do.                            *)
SomeApproval(a) == ApprovalSeen(target[a]) # {None}

BoundApproval(a) == local[a].dry \in ApprovalSeen(target[a])

BeforeVerified == {"claimed", "workflow_update_starting"}

ReadApproval(a) ==
  /\ pc[a] = "read_approval"
  /\ BoundApproval(a)
  /\ GatesOpen
  /\ Goto(a, IF local[a].stage \in BeforeVerified THEN "fetch" ELSE "verify")
  /\ UNCHANGED <<n8nVars, rowVars, recordVars, gates, target, local, answer, timeline>>

-----------------------------------------------------------------------------
(* A transaction that moves the stage, with the lease renewed, and one that *)
(* appends an event.                                                        *)

Save(a, at, stage, expected, retryId, next) ==
  /\ pc[a] = at
  /\ SetStage(target[a], a, stage, expected, retryId)
  /\ local' = [local EXCEPT ![a].stage = stage]
  /\ Goto(a, next)
  /\ UNCHANGED <<n8nVars, recordVars, gates, target, answer, timeline>>

Log(a, at, event, next) ==
  /\ pc[a] = at
  /\ timeline' = [timeline EXCEPT ![target[a]] = @ \cup {event}]
  /\ Goto(a, next)
  /\ UNCHANGED <<n8nVars, rowVars, recordVars, gates, target, local, answer>>

-----------------------------------------------------------------------------
(* The update.                                                              *)

SameStructure(a) ==
  StructureOf[workflow.def.body] = StructureOf[local[a].dry.def.body]

(* Mutant: an update that was started is never recognised.                  *)
NeverRecognised(a) == local[a].stage = "none"

AlreadyPatched(a) ==
  /\ local[a].stage = "workflow_update_starting"
  /\ workflow.def = local[a].expected

FetchPatched(a) ==
  /\ pc[a] = "fetch"
  /\ AlreadyPatched(a)
  /\ SameStructure(a)
  /\ Goto(a, "save_recovered")
  /\ UNCHANGED <<n8nVars, rowVars, recordVars, gates, target, local, answer, timeline>>

(* Mutant: the workflow is written back without the patch.                  *)
ForgetPatch(a) ==
  /\ pc[a] = "fetch"
  /\ ~AlreadyPatched(a)
  /\ workflow = local[a].dry
  /\ local' = [local EXCEPT ![a].stage = "claimed", ![a].expected = workflow.def]
  /\ Goto(a, "save_starting")
  /\ UNCHANGED <<n8nVars, rowVars, recordVars, gates, target, answer, timeline>>

FetchOriginal(a) ==
  /\ pc[a] = "fetch"
  /\ ~AlreadyPatched(a)
  /\ workflow = local[a].dry
  /\ local' = [local EXCEPT ![a].stage = "claimed",
                            ![a].expected = Patched(workflow.def, target[a])]
  /\ Goto(a, "save_starting")
  /\ UNCHANGED <<n8nVars, rowVars, recordVars, gates, target, answer, timeline>>

SaveRecovered(a) == Save(a, "save_recovered", "workflow_verified", None, None, "log_recovered")
LogRecovered(a)  == Log(a, "log_recovered", "workflow_update_recovered", "verify")

SaveStarting(a) ==
  Save(a, "save_starting", "workflow_update_starting", local[a].expected, None, "log_starting")
LogStarting(a) == Log(a, "log_starting", "workflow_update_starting", "put")

SendPut(a) ==
  /\ pc[a] = "put"
  /\ "mutation" \in gates
  /\ puts' = puts \cup {[by |-> a, def |-> local[a].expected, base |-> local[a].dry]}
  /\ Goto(a, "put_wait")
  /\ UNCHANGED <<workflow, posts, execs, rowVars, recordVars, gates, target, local,
                 answer, timeline>>

PutReturns(a) ==
  /\ pc[a] = "put_wait"
  /\ \A m \in puts : m.by # a
  /\ Goto(a, "readback")
  /\ UNCHANGED <<n8nVars, rowVars, recordVars, gates, target, local, answer, timeline>>

(* GET and _verify_persisted.                                               *)
Verified(a) == workflow.def = local[a].expected /\ SameStructure(a)

ReadBack(a) ==
  /\ pc[a] = "readback"
  /\ Verified(a)
  /\ Goto(a, "save_verified")
  /\ UNCHANGED <<n8nVars, rowVars, recordVars, gates, target, local, answer, timeline>>

SaveVerified(a) == Save(a, "save_verified", "workflow_verified", None, None, "log_verified")
LogVerified(a)  == Log(a, "log_verified", "workflow_verified", "verify")

-----------------------------------------------------------------------------
(* The retry.                                                               *)

(* Mutant: a retry that may have been requested is requested again.         *)
RetryAgain(stage) == IF stage = "retry_started" THEN "poll" ELSE "save_retry"

(* Mutant: the retry is requested first and recorded afterwards.            *)
RetryUnrecorded(stage) ==
  CASE stage = "retry_starting" -> "find"
    [] stage = "retry_started"  -> "poll"
    [] OTHER                    -> "post"

AfterVerify(stage) ==
  CASE stage = "retry_starting" -> "find"
    [] stage = "retry_started"  -> "poll"
    [] OTHER                    -> "save_retry"

Verify(a) ==
  /\ pc[a] = "verify"
  /\ Verified(a)
  /\ Goto(a, AfterVerify(local[a].stage))
  /\ UNCHANGED <<n8nVars, rowVars, recordVars, gates, target, local, answer, timeline>>

RetriesOf(p) == {x \in execs : x.of = ExecOf[p]}

Find(a) ==
  /\ pc[a] = "find"
  /\ \E x \in RetriesOf(target[a]) : local' = [local EXCEPT ![a].retryId = x.id]
  /\ Goto(a, "save_found")
  /\ UNCHANGED <<n8nVars, rowVars, recordVars, gates, target, answer, timeline>>

SaveFound(a) ==
  Save(a, "save_found", "retry_started", None, local[a].retryId, "log_found")
LogFound(a) == Log(a, "log_found", "retry_recovered", "poll")

SaveRetry(a) == Save(a, "save_retry", "retry_starting", None, None, "log_retry")
LogRetry(a)  == Log(a, "log_retry", "retry_starting", "post")

SendPost(a) ==
  /\ pc[a] = "post"
  /\ "retry" \in gates
  /\ posts' = posts \cup {[by |-> a, of |-> ExecOf[target[a]]]}
  /\ Goto(a, "post_wait")
  /\ UNCHANGED <<workflow, puts, execs, rowVars, recordVars, gates, target, local,
                 answer, timeline>>

(* Mutant: an answer without an id is stored as the text of None.           *)
StoreMissingId(a) ==
  /\ pc[a] = "post_wait"
  /\ local' = [local EXCEPT ![a].retryId = "None"]
  /\ Goto(a, "save_started")
  /\ UNCHANGED <<n8nVars, rowVars, recordVars, gates, target, answer, timeline>>

PostReturns(a) ==
  /\ pc[a] = "post_wait"
  /\ \E x \in execs : x.id = a
  /\ local' = [local EXCEPT ![a].retryId = a]
  /\ Goto(a, "save_started")
  /\ UNCHANGED <<n8nVars, rowVars, recordVars, gates, target, answer, timeline>>

SaveStarted(a) ==
  Save(a, "save_started", "retry_started", None, local[a].retryId, "log_started")
LogStarted(a) == Log(a, "log_started", "retry_started", "poll")

(* Mutant: what is not a failure is a success.                              *)
OptimisticVerification(status) == IF status = "error" THEN "failure" ELSE "success"

VerificationOf(status) ==
  CASE status = "success" -> "success"
    [] status = "error"   -> "failure"
    [] OTHER              -> "pending"

(* get_execution, and the response built from its status.                   *)
Poll(a) ==
  /\ pc[a] = "poll"
  /\ \E x \in execs :
       /\ x.id = local[a].retryId
       /\ local' = [local EXCEPT ![a].response =
                      [retryId |-> x.id, verification |-> VerificationOf(x.status)]]
  /\ Goto(a, "complete")
  /\ UNCHANGED <<n8nVars, rowVars, recordVars, gates, target, answer, timeline>>

CompleteRun(a) ==
  /\ pc[a] = "complete"
  /\ Complete(target[a], a, local[a].response)
  /\ Goto(a, "log_completed")
  /\ UNCHANGED <<n8nVars, recordVars, gates, target, local, answer, timeline>>

Return(a) ==
  /\ pc[a] = "log_completed"
  /\ timeline' = [timeline EXCEPT ![target[a]] = @ \cup {"remediation_completed"}]
  /\ answer' = [answer EXCEPT ![a] = local[a].response]
  /\ local' = [local EXCEPT ![a] = Blank]
  /\ Goto(a, "done")
  /\ UNCHANGED <<n8nVars, rowVars, recordVars, gates, target>>

-----------------------------------------------------------------------------
(* Giving up.                                                               *)

NoEvidence(a) ==
  \/ pc[a] = "read_dry" /\ None \in DryRunSeen(target[a])
  \/ /\ pc[a] = "read_approval"
     /\ \/ ~GatesOpen
        \/ \E s \in ApprovalSeen(target[a]) : s # local[a].dry

Unverified(a) ==
  \/ pc[a] = "fetch" /\ AlreadyPatched(a) /\ ~SameStructure(a)
  \/ pc[a] \in {"readback", "verify"} /\ ~Verified(a)

Stale(a) == pc[a] = "fetch" /\ ~AlreadyPatched(a) /\ workflow # local[a].dry

(* The lookup may miss a retry that n8n has: module RetryLookup says when.  *)
RetryUnknown(a) == pc[a] = "find"

LeaseLost(a) == pc[a] \in SavePcs /\ ~Owns(target[a], a)

(* The checks of the code raise ...                                         *)
Refuse(a) ==
  /\ \/ NoEvidence(a)
     \/ Unverified(a)
     \/ Stale(a)
     \/ RetryUnknown(a)
     \/ LeaseLost(a)
  /\ Raise(a)

(* ... or SQLite or n8n does: a timeout, an error status, a bad answer.  A  *)
(* request that timed out stays on the wire.                                *)
Break(a) ==
  /\ pc[a] \in LivePcs \ {"load", "releasing"}
  /\ Raise(a)

(* Mutant: a failed attempt starts over from the beginning.                 *)
ReleaseAndReset(a) ==
  /\ pc[a] = "releasing"
  /\ runs' = IF Owns(target[a], a) THEN [runs EXCEPT ![target[a]] = NoRow] ELSE runs
  /\ local' = [local EXCEPT ![a] = Blank]
  /\ Goto(a, "failed")
  /\ UNCHANGED <<n8nVars, issued, recordVars, gates, target, answer, timeline>>

Release(a) ==
  /\ pc[a] = "releasing"
  /\ ReleaseRow(target[a], a)
  /\ local' = [local EXCEPT ![a] = Blank]
  /\ Goto(a, "failed")
  /\ UNCHANGED <<n8nVars, recordVars, gates, target, answer, timeline>>

ReleaseBreaks(a) ==
  /\ pc[a] = "releasing"
  /\ local' = [local EXCEPT ![a] = Blank]
  /\ Goto(a, "failed")
  /\ UNCHANGED <<n8nVars, rowVars, recordVars, gates, target, answer, timeline>>

(* The server process dies or is stopped: every call in it ends where it    *)
(* is.  The next process reads its settings anew.                           *)
Crash ==
  /\ pc' = [a \in Attempts |-> IF Live(a) THEN "dead" ELSE pc[a]]
  /\ local' = [a \in Attempts |-> Blank]
  /\ gates' \in GateSettings
  /\ (\E a \in Attempts : Live(a)) \/ gates' # gates
  /\ UNCHANGED <<n8nVars, rowVars, recordVars, target, answer, timeline>>

LeaseExpires(p) ==
  /\ LeaseRunsOut(p)
  /\ SlowAttempts \/ \A a \in Attempts : Owns(p, a) => ~Live(a)
  /\ UNCHANGED <<n8nVars, recordVars, gates, attemptVars, timeline>>

-----------------------------------------------------------------------------
Step(a) ==
  \/ LoadRow(a) \/ LoadReplay(a) \/ ReadDryRun(a) \/ ReadApproval(a)
  \/ FetchPatched(a) \/ SaveRecovered(a) \/ LogRecovered(a)
  \/ FetchOriginal(a) \/ SaveStarting(a) \/ LogStarting(a)
  \/ SendPut(a) \/ PutReturns(a) \/ ReadBack(a) \/ SaveVerified(a) \/ LogVerified(a)
  \/ Verify(a)
  \/ Find(a) \/ SaveFound(a) \/ LogFound(a)
  \/ SaveRetry(a) \/ LogRetry(a) \/ SendPost(a) \/ PostReturns(a)
  \/ SaveStarted(a) \/ LogStarted(a)
  \/ Poll(a) \/ CompleteRun(a) \/ Return(a)
  \/ Refuse(a) \/ Release(a)

Fault(a) == LoadBreaks(a) \/ Break(a) \/ ReleaseBreaks(a)

Call(a) == \E p \in Proposals : Begin(a, p) \/ BeginReplay(a, p)

Environment == N8NServes /\ UNCHANGED <<rowVars, recordVars, gates, attemptVars, timeline>>

People ==
  \/ PeopleAct /\ UNCHANGED <<rowVars, recordVars, gates, attemptVars, timeline>>
  \/ /\ \E p \in Proposals :
          \/ DryRun(p, workflow)
          \/ Approve(p)
          \/ RacyEvidence /\ EvidenceStep(p, {workflow})
     /\ UNCHANGED <<n8nVars, rowVars, attemptVars, gates, timeline>>

Next ==
  \/ \E a \in Attempts : Call(a) \/ Step(a) \/ Fault(a)
  \/ Crash
  \/ \E p \in Proposals : LeaseExpires(p)
  \/ Environment
  \/ People

Spec == Init /\ [][Next]_vars
=============================================================================
