-------------------------------- MODULE N8N --------------------------------
(***************************************************************************)
(* The n8n server as the Doctor sees it through app/services/n8n_client.py: *)
(* one workflow with a version, the update requests (PUT /workflows/{id})   *)
(* and retry requests (POST /executions/{id}/retry) that are on the wire,   *)
(* and the retry executions n8n has started.  n8n is not part of the        *)
(* repository; only the behaviour the client relies on is described.        *)
(*                                                                         *)
(* A request that was sent may take effect at any later time, also after    *)
(* the caller has timed out or died, or never.                              *)
(***************************************************************************)
EXTENDS Naturals

CONSTANTS
  Attempts,       \* calls of apply_retry_verify; also the owner tokens (uuid4)
  Executions,     \* failed executions that a retry may refer to
  HumanRetries,   \* ids of the retries people start in the n8n editor
  Bodies,         \* workflow contents apart from the retry settings of the node
  Structures,     \* values of WorkflowDryRunEngine.structural_fingerprint
  StructureOf,    \* the protected structure of a body
  Settings,       \* values of the three allowlisted retry fields of the node
  Unset,          \* the node has no retry settings
  FirstBody,      \* the body of the workflow at the start
  LossyPersist,   \* TRUE if n8n may drop retry settings when it saves
  MaxVersion      \* people save the workflow only below this version

ASSUME N8NAssumption ==
  /\ Attempts \cap HumanRetries = {}
  /\ FirstBody \in Bodies
  /\ StructureOf \in [Bodies -> Structures]
  /\ Unset \in Settings
  /\ LossyPersist \in BOOLEAN
  /\ MaxVersion \in Nat

VARIABLES
  workflow,   \* what GET /workflows/{id} answers
  puts,       \* update requests on the wire
  posts,      \* retry requests on the wire
  execs       \* retry executions known to n8n

n8nVars == <<workflow, puts, posts, execs>>

(* The writable part of a workflow (serialize_workflow_for_update), whose   *)
(* equality stands for equality of workflow_definition_fingerprint.         *)
Definitions == [body : Bodies, retry : Settings]

(* A whole GET answer; equality stands for equality of versionId and of     *)
(* snapshot_fingerprint.                                                    *)
Snapshots == [version : Nat, def : Definitions]

(* `base` is the snapshot the update was computed from: it is not sent, the *)
(* request carries no precondition.                                         *)
Puts  == [by : Attempts, def : Definitions, base : Snapshots]
Posts == [by : Attempts, of : Executions]
Execs == [id : Attempts \cup HumanRetries, of : Executions,
          def : Definitions, status : {"running", "success", "error"}]

N8NTypeOK ==
  /\ workflow \in Snapshots
  /\ puts \subseteq Puts
  /\ posts \subseteq Posts
  /\ execs \subseteq Execs

N8NInit ==
  /\ workflow = [version |-> 0, def |-> [body |-> FirstBody, retry |-> Unset]]
  /\ puts = {}
  /\ posts = {}
  /\ execs = {}

(* n8n saves an update under a new versionId; what it saves is what it was  *)
(* sent, or that without the retry settings.                                *)
SavedAs(d) == {d} \cup (IF LossyPersist THEN {[d EXCEPT !.retry = Unset]} ELSE {})

LandPut(m) ==
  /\ m \in puts
  /\ puts' = puts \ {m}
  /\ \E d \in SavedAs(m.def) :
       workflow' = [version |-> workflow.version + 1, def |-> d]
  /\ UNCHANGED <<posts, execs>>

(* loadWorkflow = true: the retry runs the workflow as it is saved now.     *)
LandRetry(m) ==
  /\ m \in posts
  /\ posts' = posts \ {m}
  /\ execs' = execs \cup {[id |-> m.by, of |-> m.of,
                           def |-> workflow.def, status |-> "running"]}
  /\ UNCHANGED <<workflow, puts>>

FinishExecution(x) ==
  /\ x \in execs
  /\ x.status = "running"
  /\ \E s \in {"success", "error"} :
       execs' = (execs \ {x}) \cup {[x EXCEPT !.status = s]}
  /\ UNCHANGED <<workflow, puts, posts>>

(* A person saves the workflow in the editor.                               *)
HumanEdit ==
  /\ workflow.version < MaxVersion
  /\ \E d \in Definitions :
       workflow' = [version |-> workflow.version + 1, def |-> d]
  /\ UNCHANGED <<puts, posts, execs>>

(* A person retries a failed execution in the editor.                       *)
HumanRetry(h) ==
  /\ \A x \in execs : x.id # h
  /\ \E e \in Executions :
       execs' = execs \cup {[id |-> h, of |-> e,
                             def |-> workflow.def, status |-> "running"]}
  /\ UNCHANGED <<workflow, puts, posts>>

(* What the Doctor's requests and the executions they start do by themselves. *)
N8NServes ==
  \/ \E m \in puts : LandPut(m)
  \/ \E m \in posts : LandRetry(m)
  \/ \E x \in execs : FinishExecution(x)

PeopleAct ==
  \/ HumanEdit
  \/ \E h \in HumanRetries : HumanRetry(h)
============================================================================
