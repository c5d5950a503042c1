--------------------------- MODULE MCRemediation ---------------------------
(***************************************************************************)
(* Values for the constants of Remediation, for TLC.                       *)
(***************************************************************************)
EXTENDS RemediationLiveness, TLC

CONSTANTS b1, b2, unset, tuned, e1

(* A body of the same structure differs in node parameters only.            *)
SameShape  == [b \in Bodies |-> "s1"]
OtherShape == [b \in Bodies |-> IF b = b1 THEN "s1" ELSE "s2"]

OneExecution == [p \in Proposals |-> e1]

TunesNode == [p \in Proposals |-> [s \in Settings |-> tuned]]

(* Calls are interchangeable.                                               *)
AnyCall == Permutations(Attempts)
=============================================================================
