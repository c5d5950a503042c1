-------------------------- MODULE RemediationLookup --------------------------
(***************************************************************************)
(* Remediation with the lookup of a retry spelled out: the step Find of a  *)
(* call is the loop of RetryLookup, one exchange with n8n for each page.   *)
(* Other calls, crashes, expiring leases and new executions come between   *)
(* the pages.                                                              *)
(*                                                                         *)
(* Calm: faults, crashes and edits of the workflow come only while one     *)
(* more call is left, which then runs undisturbed.                         *)
(***************************************************************************)
EXTENDS RemediationLiveness

CONSTANTS PageSize, MaxPages, MaxListed

ASSUME LookupAssumption ==
  /\ PageSize \in Nat \ {0}
  /\ MaxPages \in Nat \ {0}
  /\ MaxListed \in Nat

VARIABLES listing, scan

INSTANCE RetryLookup WITH Callers <- Attempts, Ids <- RetryIds

allVars == <<vars, lookupVars>>

(* The ids that n8n reports with retryOf = the execution of the proposal.   *)
Wanted(a) == {x.id : x \in RetriesOf(target[a])}

ForgetPages(a) == scan' = [scan EXCEPT ![a] = FirstPage]

FindOnPage(a) ==
  /\ pc[a] = "find"
  /\ Hits(a, Wanted(a)) # {}
  /\ local' = [local EXCEPT ![a].retryId = Match(a, Wanted(a))]
  /\ Goto(a, "save_found")
  /\ ForgetPages(a)
  /\ UNCHANGED <<n8nVars, rowVars, recordVars, gates, target, answer, timeline, listing>>

(* The page came with the cursor next and has no match.                     *)
NotOnPage(a, next) ==
  /\ pc[a] = "find"
  /\ Hits(a, Wanted(a)) = {}
  /\ \/ GoesOn(a, next) /\ Turn(a, next) /\ UNCHANGED vars
     \/ ~GoesOn(a, next) /\ Raise(a) /\ ForgetPages(a)
  /\ UNCHANGED listing

(* n8n answers with a page that is no list, or repeats or invents a cursor. *)
BadPage(a) ==
  \/ pc[a] = "find" /\ Raise(a) /\ ForgetPages(a) /\ UNCHANGED listing
  \/ \E next \in 0 .. Len(listing) : NotOnPage(a, next)

LookupStep(a) ==
  \/ FindOnPage(a)
  \/ NotOnPage(a, NextCursor(a))

(* A step of Remediation that is not the lookup; n8n lists what it started. *)
Unlooked ==
  /\ LET new == {x.id : x \in execs'} \ {x.id : x \in execs} IN
       listing' = IF new = {} THEN listing
                  ELSE Append(listing, CHOOSE i \in new : TRUE)
  /\ scan' = [a \in Attempts |-> IF pc'[a] = "find" THEN scan[a] ELSE FirstPage]

StepOrLook(a) == LookupStep(a) \/ (pc[a] # "find" /\ Step(a) /\ Unlooked)

(* Tokens are drawn in a fixed order: calls differ in nothing else.  The    *)
(* last call waits for updates that may still land after an edit.           *)
CalmCall(a) ==
  /\ OneMoreCall /\ a = CHOOSE b \in Attempts : pc[b] = "idle"
  /\ Call(a)
  /\ (\A b \in Attempts \ {a} : pc[b] # "idle") =>
       (puts = {} \/ \A p \in Proposals : ~Diverged(p))
  /\ Unlooked

CalmFault ==
  /\ OneMoreCall
  /\ \/ \E a \in Attempts : Fault(a)
     \/ Crash
     \/ HumanEdit /\ UNCHANGED <<rowVars, recordVars, gates, attemptVars, timeline>>
  /\ Unlooked

Serves == Environment /\ Unlooked

Expires(p) == LeaseExpires(p) /\ Unlooked

(* Bound: other executions start only where a lookup can be next.  What is  *)
(* older than the retry is below it on the pages.                           *)
NewerStarts ==
  /\ \E p \in Proposals : runs[p].stage = "retry_starting"
  /\ OtherStarts
  /\ UNCHANGED vars

CalmNext ==
  \/ \E a \in Attempts : CalmCall(a) \/ StepOrLook(a) \/ (OneMoreCall /\ BadPage(a))
  \/ CalmFault
  \/ \E p \in Proposals : Expires(p)
  \/ Serves
  \/ NewerStarts

CalmSpec ==
  /\ CalmInit /\ LookupInit
  /\ [][CalmNext]_allVars
  /\ \A a \in Attempts : WF_allVars(StepOrLook(a)) /\ WF_allVars(CalmCall(a))
  /\ \A p \in Proposals : WF_allVars(Expires(p))
  /\ WF_allVars(Serves)

(* n8n_client.py:64-113: the pages refine the one step of Remediation: what *)
(* the lookup returns is a retry of the very execution, whatever starts     *)
(* between two pages and whatever cursors come back, and a lookup that      *)
(* finds nothing stops the call.                                            *)
LookupImplementsFind == ApprovedSpec

(* Every retry of p has more newer executions than all pages together show. *)
BeyondPages(p) ==
  \A i \in 1 .. Len(listing) :
    listing[i] \in {x.id : x \in RetriesOf(p)} =>
      Len(listing) - i >= MaxPages * PageSize

(* remediation.py:266-287: a call gives up for good reasons only.  If n8n   *)
(* knows the retry and a call is left, the proposal is completed, unless    *)
(* the retry has sunk below the last page or the workflow is another one.   *)
FoundRetryIsUsed ==
  \A p \in Proposals :
    (runs[p].stage = "retry_starting" /\ RetriesOf(p) # {} /\ OneMoreCall)
      ~> (Completed(p) \/ BeyondPages(p) \/ Diverged(p))
=============================================================================
