------------------------------ MODULE Patches ------------------------------
(***************************************************************************)
(* The planner (app/services/patcher.py), the validator (validator.py) and *)
(* the dry-run engine (workflow_dry_run.py).                               *)
(*                                                                         *)
(* A patch is the sequence of its operations.  The path of an operation,   *)
(* "/nodes/<segment>/<field>", is kept as segment and field.  Names and    *)
(* segments are sequences of characters: which node a patch reaches hangs  *)
(* on how a name is escaped.                                               *)
(***************************************************************************)
EXTENDS Integers, SequencesExt

CONSTANTS
  WorkflowId,  \* the workflow the failed execution belongs to
  NoId,        \* a snapshot without an id
  Missing      \* a field the node does not have

Fields == {"retryOnFail", "maxTries", "waitBetweenTries"}

-----------------------------------------------------------------------------
(* escape_path_segment: str.replace, first of "~", then of "/".             *)
Replace(text, char, by) ==
  FlattenSeq([i \in DOMAIN text |-> IF text[i] = char THEN by ELSE <<text[i]>>])

(* Mutant: "/" is replaced first, and its "~" once more.                    *)
EscapeSlashFirst(name) ==
  Replace(Replace(name, "/", <<"~", "1">>), "~", <<"~", "0">>)

(* Mutant: only "~" is escaped.                                             *)
EscapeTilde(name) == Replace(name, "~", <<"~", "0">>)

EscapePathSegment(name) ==
  Replace(Replace(name, "~", <<"~", "0">>), "/", <<"~", "1">>)

(* _unescape_segment: one scan from the left; an unknown escape is an error.*)
WellEscaped(segment) ==
  \A i \in DOMAIN segment :
    segment[i] = "~" => i < Len(segment) /\ segment[i + 1] \in {"0", "1"}

(* Mutant: str.replace in the order of the escaping.                        *)
ReplaceBack(segment) ==
  LET tilde[i \in 1..(Len(segment) + 2)] ==
        CASE i > Len(segment) -> <<>>
          [] i < Len(segment) /\ segment[i] = "~" /\ segment[i + 1] = "0"
               -> <<"~">> \o tilde[i + 2]
          [] OTHER -> <<segment[i]>> \o tilde[i + 1]
      first == tilde[1]
      slash[i \in 1..(Len(first) + 2)] ==
        CASE i > Len(first) -> <<>>
          [] i < Len(first) /\ first[i] = "~" /\ first[i + 1] = "1"
               -> <<"/">> \o slash[i + 2]
          [] OTHER -> <<first[i]>> \o slash[i + 1]
  IN  slash[1]

Unescape(segment) ==
  LET from[i \in 1..(Len(segment) + 1)] ==
        IF i > Len(segment) THEN <<>>
        ELSE IF segment[i] = "~"
             THEN <<IF segment[i + 1] = "0" THEN "~" ELSE "/">> \o from[i + 2]
             ELSE <<segment[i]>> \o from[i + 1]
  IN  from[1]

-----------------------------------------------------------------------------
(* PatchPlanner.propose: <<>> stands for no proposal.                       *)
Add(name, field, value) ==
  [op |-> "add", segment |-> EscapePathSegment(name), field |-> field, value |-> value]

Propose(name, class) ==
  CASE name = <<>> -> <<>>
    [] name # <<>> /\ class = "rate_limit" ->
         << Add(name, "retryOnFail", TRUE),
            Add(name, "maxTries", 3),
            Add(name, "waitBetweenTries", 2000) >>
    [] name # <<>> /\ class \in {"timeout", "network"} ->
         << Add(name, "retryOnFail", TRUE),
            Add(name, "maxTries", 2) >>
    [] OTHER -> <<>>

-----------------------------------------------------------------------------
(* PatchValidator.validate.  The two flags it looks at first have the same  *)
(* value in every proposal of the planner and are left out.                 *)
Waits == 250..60000

ValidValue(field, value) ==
  CASE field = "retryOnFail"      -> value = TRUE
    [] field = "maxTries"         -> value \in 1..5
    [] field = "waitBetweenTries" -> value \in Waits

ValidOperation(operation) ==
  /\ operation.segment # <<>>
  /\ "/" \notin ToSet(operation.segment)
  /\ operation.field \in Fields
  /\ ValidValue(operation.field, operation.value)

Valid(operations, maxOperations) ==
  /\ operations # <<>>
  /\ Len(operations) <= maxOperations
  /\ \A i \in DOMAIN operations : ValidOperation(operations[i])
  /\ \A i, j \in DOMAIN operations : operations[i].segment = operations[j].segment

-----------------------------------------------------------------------------
(* WorkflowDryRunEngine.  A snapshot has an id, nodes, and connections and  *)
(* settings that should be objects; a node has a name (<<>> if it has       *)
(* none), its retry settings, and the rest.                                 *)
WellFormed(workflow) ==
  /\ workflow.objects
  /\ workflow.nodes # <<>>
  /\ workflow.id \in {NoId, WorkflowId}
  /\ \A i \in DOMAIN workflow.nodes : workflow.nodes[i].name # <<>>

NodesNamed(nodes, name) == {i \in DOMAIN nodes : nodes[i].name = name}

Resolves(nodes, operation) ==
  /\ WellEscaped(operation.segment)
  /\ Cardinality(NodesNamed(nodes, Unescape(operation.segment))) = 1

TargetOf(nodes, operation) ==
  CHOOSE i \in NodesNamed(nodes, Unescape(operation.segment)) : TRUE

ApplyField(nodes, operation) ==
  [nodes EXCEPT ![TargetOf(nodes, operation)].retry[operation.field] = operation.value]

Protected(node) == [node EXCEPT !.retry = [field \in Fields |-> Missing]]

(* _assert_protected_invariants and the two comparisons after it.           *)
ProtectedUnchanged(before, after, targets) ==
  /\ Len(before) = Len(after)
  /\ \A i \in DOMAIN before \ targets : after[i] = before[i]
  /\ \A i \in targets : Protected(after[i]) = Protected(before[i])

(* The patched copy of the workflow.                                        *)
DryRunResult(workflow, operations) ==
  [workflow EXCEPT !.nodes = FoldLeft(ApplyField, workflow.nodes, operations)]

(* No check raises.                                                         *)
DryRunPasses(workflow, operations) ==
  LET nodes == workflow.nodes IN
    /\ WellFormed(workflow)
    /\ \A i \in DOMAIN operations : Resolves(nodes, operations[i])
    /\ ProtectedUnchanged(nodes, DryRunResult(workflow, operations).nodes,
         {TargetOf(nodes, operations[i]) : i \in DOMAIN operations})
=============================================================================
