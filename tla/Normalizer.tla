----------------------------- MODULE Normalizer -----------------------------
(***************************************************************************)
(* N8NExecutionNormalizer (app/services/n8n_normalizer.py): what n8n tells *)
(* of an execution becomes the failure that is diagnosed.                  *)
(*                                                                         *)
(* A text is the set of the groups of phrases it contains, a name is a     *)
(* sequence and <<>> if missing, a code has its phrases and, if it is one, *)
(* the HTTP status; whatever else is missing is None.                      *)
(***************************************************************************)
EXTENDS Diagnosis, SequencesExt

Given(values, missing) ==
  LET i == SelectInSeq(values, LAMBDA v : v # missing) IN
    IF i = 0 THEN missing ELSE values[i]

Words(text) == IF text = None THEN {} ELSE text

(* The stack stands for all further texts of an error.                      *)
NoError ==
  [node |-> <<>>, kind |-> None, message |-> None, description |-> None,
   stack |-> {}, code |-> None]

(* FAILED_STATUSES; an execution without a status is taken for one.         *)
Failed(x) == x.status \in {None, "error", "crashed"}

LastNode(x) == Given(<<x.last, x.error.node, x.details.node>>, <<>>)

(* Mutant: the first run of the node that failed.                           *)
FirstFailedRun(runs) ==
  LET failed == {i \in DOMAIN runs : runs[i] # NoError} IN
    CHOOSE i \in failed : \A j \in failed : i <= j

LastFailedRun(runs) ==
  LET failed == {i \in DOMAIN runs : runs[i] # NoError} IN
    CHOOSE i \in failed : \A j \in failed : j <= i

(* _find_run_error: runData in the order of its nodes, only the last node   *)
(* if it is known; a run without a name is passed over.                     *)
RunError(x) ==
  LET n == SelectInSeq(x.runData, LAMBDA entry :
             /\ entry.node # <<>> /\ LastNode(x) \in {<<>>, entry.node}
             /\ \E i \in DOMAIN entry.runs : entry.runs[i] # NoError)
  IN  IF n = 0 THEN NoError
      ELSE x.runData[n].runs[LastFailedRun(x.runData[n].runs)]

ErrorOf(x) == IF x.error # NoError THEN x.error ELSE RunError(x)

MessageOf(x) ==
  LET error == ErrorOf(x) IN
    Given(<<error.message, x.message, error.description, x.description>>, None)

(* What normalize raises no error for.                                      *)
Normalizable(x) == Failed(x) /\ x.ids /\ MessageOf(x) # None

(* The first code that is given decides, also if it is no HTTP status.      *)
CodeOf(x) == Given(<<ErrorOf(x).code, x.code>>, None)

StatusCode(x) ==
  IF CodeOf(x) # None /\ CodeOf(x).status \in 100..599 THEN CodeOf(x).status ELSE 0

FailedNode(x) == Given(<<LastNode(x), ErrorOf(x).node>>, <<>>)

KindInWorkflow(x) == IF FailedNode(x) \in x.webhooks THEN "webhook" ELSE None

(* A webhook by its type or, to the diagnoser, by its name.                 *)
IsWebhook(x) ==
  \/ Given(<<ErrorOf(x).kind, x.details.kind, KindInWorkflow(x)>>, None) = "webhook"
  \/ \E i \in DOMAIN FailedNode(x) : FailedNode(x)[i] = "webhook"

Normalized(x) ==
  LET error == ErrorOf(x) IN
    [node |-> FailedNode(x), status |-> StatusCode(x),
     phrases |-> MessageOf(x) \cup Words(error.description) \cup Words(x.description)
                   \cup error.stack \cup x.stack
                   \cup (IF CodeOf(x) = None THEN {} ELSE CodeOf(x).phrases),
     webhookNode |-> IsWebhook(x)]
=============================================================================
