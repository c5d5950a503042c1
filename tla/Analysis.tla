------------------------------ MODULE Analysis ------------------------------
(***************************************************************************)
(* From what n8n tells of an execution to a dry run.  The routes normalize *)
(* it, IncidentService.analyze composes the diagnosis, the planner and the *)
(* validator; IncidentService.dry_run applies the stored patch to whatever *)
(* snapshot of the workflow the request brings, possibly in a process with *)
(* another limit of operations.  The demo diagnoses and plans only.        *)
(*                                                                         *)
(* Incidents share nothing here, so there is one.  Caches and tables are   *)
(* in IncidentService, and a proposal that was handed out survives there.  *)
(***************************************************************************)
EXTENDS Normalizer, Patches

CONSTANTS
  Executions,  \* what may be ingested
  Failures,    \* what may be reported in the internal form
  Replies,     \* what the provider may answer
  Workflows,   \* what a dry run may be asked for
  Limits,      \* values of MAX_PATCH_OPERATIONS
  NoResult     \* WorkflowDryRunError

IsSequence(s) == s \in Seq(ToSet(s))

(* Names are strings.  runData is a JSON object: a name occurs once.        *)
ASSUME AnalysisAssumption ==
  /\ Limits \subseteq Nat
  /\ \A lines \in Replies : IsSequence(lines)
  /\ \A f \in Failures : IsSequence(f.node)
  /\ \A x \in Executions :
       /\ IsSequence(x.last) /\ IsSequence(x.error.node) /\ IsSequence(x.details.node)
       /\ IsSequence(x.runData)
       /\ \A n \in DOMAIN x.runData :
            /\ IsSequence(x.runData[n].runs)
            /\ \A i \in DOMAIN x.runData[n].runs : IsSequence(x.runData[n].runs[i].node)
            /\ \A k \in DOMAIN x.runData :
                 x.runData[k].node = x.runData[n].node => k = n
  /\ \A w \in Workflows :
       /\ DOMAIN w = {"id", "nodes", "objects"} /\ IsSequence(w.nodes)
       /\ \A i \in DOMAIN w.nodes :
            /\ DOMAIN w.nodes[i] = {"name", "retry"}
            /\ DOMAIN w.nodes[i].retry = Fields

VARIABLES
  limit,      \* of the running process
  execution,  \* what the request in progress has brought
  report,     \* the failure it is about
  reply,      \* what the provider answered to it
  node,       \* failed_node, <<>> if the report has none
  diagnosis,
  patch,      \* the operations of the stored proposal, <<>> if there is none
  preview,    \* those that the demo only shows
  workflow,   \* the snapshot of the last dry run
  result,     \* the patched copy of it, or NoResult
  outcome     \* what the last request was answered with

requestVars == <<execution, report>>
analysisVars == <<node, diagnosis, patch, preview>>
dryRunVars == <<workflow, result>>
vars == <<limit, requestVars, reply, analysisVars, dryRunVars, outcome>>

Init ==
  /\ limit \in Limits
  /\ execution = None
  /\ report = None
  /\ reply = <<>>
  /\ node = <<>>
  /\ diagnosis = None
  /\ patch = <<>>
  /\ preview = <<>>
  /\ workflow = None
  /\ result = NoResult
  /\ outcome = "new"

(* POST /v1/incidents/ingest/n8n, or the execution that n8n answered        *)
(* get_execution with: 422 unless it can be normalized.                     *)
Ingest(x) ==
  /\ outcome = "new"
  /\ execution' = x
  /\ \/ /\ Normalizable(x)
        /\ report' = Normalized(x)
        /\ outcome' = "reported"
     \/ /\ ~Normalizable(x)
        /\ outcome' = "rejected"
        /\ UNCHANGED report
  /\ UNCHANGED <<limit, reply, analysisVars, dryRunVars>>

(* POST /v1/incidents/analyze and /v1/demo/analyze.                         *)
Submit(f) ==
  /\ outcome = "new"
  /\ report' = f
  /\ outcome' = "reported"
  /\ UNCHANGED <<limit, execution, reply, analysisVars, dryRunVars>>

(* The provider is asked for an insight only where the rules are unsure.    *)
Answers == IF ShouldCallAI(Diagnose(report)) THEN Replies ELSE {<<>>}

Closed ==
  /\ execution' = None
  /\ report' = None

(* IncidentService.analyze.                                                 *)
Analyze ==
  /\ report # None
  /\ reply' \in Answers
  /\ LET d == GuardedDiagnosis(report, reply')
         operations == Propose(report.node, d.class)
     IN  \/ /\ operations = <<>> \/ Valid(operations, limit)
            /\ diagnosis' = d
            /\ patch' = operations
            /\ outcome' = "diagnosed"
         \/ /\ operations # <<>> /\ ~Valid(operations, limit)
            /\ outcome' = "patch_error"
            /\ UNCHANGED <<diagnosis, patch>>
  /\ node' = report.node
  /\ Closed
  /\ UNCHANGED <<limit, preview, dryRunVars>>

(* demo_analyze: no validator and no store.  failed_node is required.       *)
DemoAnalyze ==
  /\ report # None /\ execution = None
  /\ report.node # <<>>
  /\ reply' \in Answers
  /\ diagnosis' = GuardedDiagnosis(report, reply')
  /\ preview' = Propose(report.node, diagnosis'.class)
  /\ node' = report.node
  /\ outcome' = "previewed"
  /\ Closed
  /\ UNCHANGED <<limit, patch, dryRunVars>>

(* IncidentService.dry_run: the validator comes first.                      *)
RequestDryRun(w) ==
  /\ patch # <<>>
  /\ workflow' = w
  /\ \/ /\ ~Valid(patch, limit)
        /\ result' = NoResult
        /\ outcome' = "patch_error"
     \/ /\ Valid(patch, limit)
        /\ LET passes == DryRunPasses(w, patch) IN
             /\ result' = IF passes THEN DryRunResult(w, patch) ELSE NoResult
             /\ outcome' = IF passes THEN "passed" ELSE "workflow_error"
  /\ reply' = <<>>
  /\ UNCHANGED <<limit, requestVars, analysisVars>>

(* A process with another MAX_PATCH_OPERATIONS; a request in progress ends. *)
Restart ==
  /\ limit' \in Limits
  /\ outcome' = IF report # None THEN "new" ELSE outcome
  /\ Closed
  /\ UNCHANGED <<reply, analysisVars, dryRunVars>>

Next ==
  \/ \E x \in Executions : Ingest(x)
  \/ \E f \in Failures : Submit(f)
  \/ Analyze
  \/ DemoAnalyze
  \/ \E w \in Workflows : RequestDryRun(w)
  \/ Restart

Spec == Init /\ [][Next]_vars

-----------------------------------------------------------------------------
(* README.md:209: whatever the names of the nodes, a dry run that passes    *)
(* has changed the node that failed, which no other node shares its name    *)
(* with, and of that node only retry settings, to values within the bounds  *)
(* (patcher.py:15, workflow_dry_run.py:135-211).                            *)
OnlyFailedNodeChanges ==
  result # NoResult =>
    \E i \in DOMAIN workflow.nodes :
      LET before == workflow.nodes[i]
          after  == result.nodes[i]
      IN  /\ NodesNamed(workflow.nodes, node) = {i}
          /\ result = [workflow EXCEPT !.nodes[i].retry = after.retry]
          /\ after.retry["retryOnFail"] = TRUE
          /\ after.retry["maxTries"] \in 1..5
          /\ \/ after.retry["waitBetweenTries"] = before.retry["waitBetweenTries"]
             \/ after.retry["waitBetweenTries"] \in Waits

(* README.md:12, 59: the provider cannot decide what is retried: there is a *)
(* proposal, or a preview in the demo, exactly where the rules call a retry *)
(* safe and name a node (ai_diagnoser.py:216-220, patcher.py:31-69).        *)
PatchIffRetrySafe ==
  diagnosis # None =>
    (patch \o preview # <<>> <=> diagnosis.retrySafe /\ node # <<>>)

(* README.md:178-179: advice is the first object of the answer, and that    *)
(* keeps the schema.  An answer with another object gives none, except for  *)
(* what stands in the last line of a fenced answer, which is taken for the  *)
(* closing fence (ai_diagnoser.py:168-190).                                 *)
AdviceIsTheOnlyObject ==
  (diagnosis # None /\ diagnosis.insight # None /\ reply # <<>>) =>
    \E i \in DOMAIN reply :
      /\ reply[i] = diagnosis.insight
      /\ \A j \in DOMAIN reply \ {i} :
           reply[j] \in Objects =>
             reply[1] = "fence" /\ j = Len(reply) /\ i < j

(* All that an error says, or the payload beside it.                        *)
Texts(e) ==
  Words(e.message) \cup Words(e.description) \cup e.stack
    \cup (IF e.code = None THEN {} ELSE e.code.phrases)

(* n8n_normalizer.py:103-117: without a top-level error, a failure is told  *)
(* from the latest failed run of the node that ran last, and is not refused *)
(* if that has a message: neither another node, which a patch of the last   *)
(* node would not help, nor an earlier run is believed.                     *)
EvidenceOfLastRun ==
  (execution # None /\ execution.error = NoError) =>
    \A n \in DOMAIN execution.runData :
      LET entry == execution.runData[n] IN
        \A i \in DOMAIN entry.runs :
          LET run == entry.runs[i] IN
            ( /\ entry.node = execution.last /\ entry.node # <<>>
              /\ run # NoError /\ run.message # None
              /\ \A j \in DOMAIN entry.runs : j > i => entry.runs[j] = NoError
              /\ Failed(execution) /\ execution.ids ) =>
                 /\ outcome = "reported"
                 /\ report.node = entry.node
                 /\ (run.code # None /\ run.code.status \in 100..599) =>
                      report.status = run.code.status
                 /\ Texts(run) \subseteq report.phrases
                 /\ report.phrases \subseteq Texts(run) \cup Texts(execution)

(* The planner and the validator agree: a patch of the planner is refused   *)
(* for nothing but a limit below three operations, neither when it is made  *)
(* nor when it is dry-run after a restart (incidents.py:77,                 *)
(* workflow_dry_run.py:35).                                                 *)
OnlyTheLimitRefuses ==
  [][outcome' = "patch_error" /\ outcome # "patch_error" => limit < 3]_vars

(* A dry run fails for good reasons only: another workflow, a malformed     *)
(* one, or no single node of the failed name (workflow_dry_run.py:114-142). *)
GoodWorkflowPasses ==
  outcome = "workflow_error" =>
    \/ workflow.id \notin {NoId, WorkflowId}
    \/ ~workflow.objects
    \/ \E i \in DOMAIN workflow.nodes : workflow.nodes[i].name = <<>>
    \/ Cardinality({i \in DOMAIN workflow.nodes : workflow.nodes[i].name = node}) # 1
=============================================================================
