----------------------------- MODULE AtMostOnce -----------------------------
(***************************************************************************)
(* What POST /v1/patches/{proposal_id}/apply-retry promises, without       *)
(* leases, stages, crashes or recovery (README.md:230-241): for each       *)
(* proposal at most one retry is ever requested, one outcome is decided,   *)
(* no request is sent after that, and every answer is that outcome.        *)
(***************************************************************************)
CONSTANTS
  Proposals,
  Attempts,     \* calls of the endpoint
  Outcomes,     \* retry execution and what is known of its result
  None

VARIABLES
  updating,     \* calls whose workflow update is on the wire
  asked,        \* calls that have requested the retry
  outcome,      \* the decided outcome
  answers       \* what each call returned

abstractVars == <<updating, asked, outcome, answers>>

AbstractInit ==
  /\ updating = [p \in Proposals |-> {}]
  /\ asked = [p \in Proposals |-> {}]
  /\ outcome = [p \in Proposals |-> None]
  /\ answers = [a \in Attempts |-> None]

Update(p, a) ==
  /\ outcome[p] = None
  /\ updating' = [updating EXCEPT ![p] = @ \cup {a}]
  /\ UNCHANGED <<asked, outcome, answers>>

(* n8n has applied the update.                                              *)
UpdateEnds(p, a) ==
  /\ a \in updating[p]
  /\ updating' = [updating EXCEPT ![p] = @ \ {a}]
  /\ UNCHANGED <<asked, outcome, answers>>

Ask(p, a) ==
  /\ outcome[p] = None
  /\ asked[p] = {}
  /\ asked' = [asked EXCEPT ![p] = {a}]
  /\ UNCHANGED <<updating, outcome, answers>>

Decide(p) ==
  /\ outcome[p] = None
  /\ \E o \in Outcomes : outcome' = [outcome EXCEPT ![p] = o]
  /\ UNCHANGED <<updating, asked, answers>>

Answer(p, a) ==
  /\ outcome[p] # None
  /\ answers[a] = None
  /\ answers' = [answers EXCEPT ![a] = outcome[p]]
  /\ UNCHANGED <<updating, asked, outcome>>

AbstractNext ==
  \E p \in Proposals :
    \/ Decide(p)
    \/ \E a \in Attempts :
         Update(p, a) \/ UpdateEnds(p, a) \/ Ask(p, a) \/ Answer(p, a)

AtMostOnceSpec == AbstractInit /\ [][AbstractNext]_abstractVars
=============================================================================
