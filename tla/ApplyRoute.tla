----------------------------- MODULE ApplyRoute -----------------------------
(***************************************************************************)
(* POST /v1/patches/{id}/apply-retry (app/api/routes.py:227-264): the      *)
(* exception that a call of Remediation ends with becomes the status that  *)
(* its client sees.                                                        *)
(*                                                                         *)
(* A check of the code raises one of the exceptions that the route maps;   *)
(* SQLite, httpx and what n8n answers raise others, some of which are not  *)
(* mapped, or look like one that is.                                       *)
(***************************************************************************)
EXTENDS RemediationSafety

VARIABLES
  raised,   \* the exception a call is about to end with
  sent      \* the calls that have sent n8n a request that changes it

routeVars == <<vars, raised, sent>>

(* An incomplete workflow in an answer of n8n is a RemediationError.        *)
Conflicts == {"DryRunRequired", "ApprovalRequired", "StaleWorkflow", "NotBound",
              "RetryRecoveryRequired", "IncompleteWorkflow"}

Exceptions == Conflicts \cup
  {"Verification", "Permission", "HTTP", "Key", "Value", "Lease", "SQLite"}

(* Mutant: a lost lease is answered like one that could not be had.         *)
LeaseConflicts(e) ==
  CASE e \in Conflicts \cup {"Lease"} -> 409
    [] e = "Key"                      -> 404
    [] e = "Permission"               -> 403
    [] e \in {"Verification", "HTTP"} -> 502
    [] OTHER                          -> 500

(* RemediationLeaseError, ValueError (no JSON, PatchValidationError) and    *)
(* sqlite3.Error are not mapped: the server answers 500.                    *)
StatusOf(e) ==
  CASE e \in Conflicts                -> 409
    [] e = "Key"                      -> 404
    [] e = "Permission"               -> 403
    [] e \in {"Verification", "HTTP"} -> 502
    [] OTHER                          -> 500

(* get_approval comes before the gates, and these before the binding.       *)
ApprovalRefusal(p) ==
  CASE ApprovalSeen(p) = {None}                 -> "ApprovalRequired"
    [] ApprovalSeen(p) # {None} /\ ~GatesOpen   -> "Permission"
    [] OTHER                                    -> "NotBound"

(* What a check of the code raises.                                         *)
Refusal(a) ==
  CASE Stale(a)        -> "StaleWorkflow"
    [] Unverified(a)   -> "Verification"
    [] RetryUnknown(a) -> "RetryRecoveryRequired"
    [] LeaseLost(a)    -> "Lease"
    [] pc[a] = "read_dry" -> "DryRunRequired"
    [] OTHER              -> ApprovalRefusal(target[a])

(* What n8n and SQLite can make of a step.  A match of the lookup without   *)
(* an id is a KeyError, an answer to a retry without one fails verification. *)
Breakage(a) ==
  CASE pc[a] \in {"fetch", "readback", "verify"} -> {"HTTP", "Value", "IncompleteWorkflow"}
    [] pc[a] = "find"                            -> {"HTTP", "Value", "Key"}
    [] pc[a] = "post_wait"                       -> {"HTTP", "Value", "Verification"}
    [] pc[a] \in {"put", "put_wait", "post", "poll"} -> {"HTTP", "Value"}
    [] OTHER                                     -> {"SQLite"}

Raises(a) ==
  \/ Refuse(a) /\ raised' = [raised EXCEPT ![a] = Refusal(a)]
  \/ Break(a) /\ \E e \in Breakage(a) : raised' = [raised EXCEPT ![a] = e]

RouteNext ==
  /\ \/ \E a \in Attempts : Raises(a)
     \/ /\ Next
        /\ \A a \in Attempts : pc'[a] = "releasing" => pc[a] = "releasing"
        /\ raised' = [a \in Attempts |->
                        IF pc'[a] = "releasing" THEN raised[a] ELSE None]
  /\ sent' = {a \in Attempts :
                /\ pc'[a] \in LivePcs
                /\ a \in sent \/ pc'[a] \in {"put_wait", "post_wait"}}

RouteSpec ==
  /\ Init
  /\ raised = [a \in Attempts |-> None]
  /\ sent = {}
  /\ [][RouteNext]_routeVars

(* routes.py:235-259: a client that is told 403, 404 or 409 may believe     *)
(* that this call changed nothing in n8n, wherever the call was stopped and *)
(* whoever took its lease; only answers of n8n that are not what it should  *)
(* answer - a workflow without its fields, an execution without its id - are *)
(* mistaken for a refusal.                                                  *)
RefusalMeansUntouched ==
  \A a \in Attempts :
    (pc[a] = "releasing" /\ StatusOf(raised[a]) \in {403, 404, 409}) =>
      a \notin sent \/ raised[a] \in {"IncompleteWorkflow", "Key"}
=============================================================================
