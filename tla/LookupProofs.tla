---------------------------- MODULE LookupProofs ----------------------------
(***************************************************************************)
(* Theorems about RemediationLookup, for every number and size of pages:   *)
(* the loop over the pages implements the one step Find of Remediation, so *)
(* what a call takes for its retry is a retry of the failed execution, and *)
(* a second one is never asked for.                                        *)
(***************************************************************************)
EXTENDS RemediationLookup, RemediationProofs, WellFoundedInduction

-----------------------------------------------------------------------------
(* The calm system takes no step that the approved one does not.            *)

LEMMA GreatestExists ==
  ASSUME NEW n \in Nat, NEW S, S \subseteq 1 .. n, S # {}
  PROVE  \E i \in S : \A j \in S : j <= i
<1> DEFINE R == OpToRel(<, Nat)
           T == {n - i : i \in S}
<1>1. IsWellFoundedOn(R, Nat)
  BY NatLessThanWellFounded
<1> HIDE DEF R, T
<1>2. T \subseteq Nat /\ T # {}
  <2>1. \A i \in S : n - i \in Nat
    OBVIOUS
  <2> QED
    BY <2>1, Zenon DEF T
<1>3. PICK t \in T : \A u \in T : <<u, t>> \notin R
  BY <1>1, <1>2, WFMin
<1>4. \A u \in T : ~(u < t)
  BY <1>2, <1>3 DEF R, OpToRel
<1>5. PICK i \in S : t = n - i
  BY DEF T
<1>6. \A j \in S : n - j \in T
  BY DEF T
<1> QED
  BY <1>4, <1>5, <1>6

LEMMA MatchIsHit ==
  ASSUME NEW a, NEW wanted, Top(a) \in Nat, Hits(a, wanted) # {}
  PROVE  Match(a, wanted) \in wanted
<1>1. Hits(a, wanted) \subseteq 1 .. Top(a)
  BY DEF Hits, Page
<1>2. PICK i \in Hits(a, wanted) : \A j \in Hits(a, wanted) : j <= i
  BY <1>1, GreatestExists
<1>3. \E k \in Hits(a, wanted) : Match(a, wanted) = listing[k]
  BY <1>2 DEF Match
<1> QED
  BY <1>3 DEF Hits

LEMMA TopIsNat ==
  ASSUME LookupTypeOK, NEW a \in Attempts
  PROVE  Top(a) \in 0 .. Len(listing) /\ Len(listing) \in Nat
  BY DEF LookupTypeOK, Top, NoCursor

LEMMA RaiseIsRefusal ==
  ASSUME NEW a \in Attempts, pc[a] = "find", Raise(a)
  PROVE  Step(a)
  BY DEF Step, Refuse, RetryUnknown

LEMMA FindOnPageFinds ==
  ASSUME LookupTypeOK, NEW a \in Attempts, FindOnPage(a)
  PROVE  Find(a)
<1>1. Match(a, Wanted(a)) \in Wanted(a)
  BY TopIsNat, MatchIsHit DEF FindOnPage
<1>2. PICK x \in RetriesOf(target[a]) : x.id = Match(a, Wanted(a))
  BY <1>1 DEF Wanted
<1> QED
  BY <1>2 DEF FindOnPage, Find

LEMMA PageWithoutMatch ==
  ASSUME NEW a \in Attempts, NEW next, NotOnPage(a, next)
  PROVE  Step(a) \/ UNCHANGED vars
  BY RaiseIsRefusal DEF NotOnPage

LEMMA LookImplements ==
  ASSUME LookupTypeOK, NEW a \in Attempts, StepOrLook(a) \/ BadPage(a)
  PROVE  Step(a) \/ UNCHANGED vars
<1>1. CASE FindOnPage(a)
  BY <1>1, FindOnPageFinds DEF Step
<1>2. ASSUME NEW next, NotOnPage(a, next)
      PROVE  Step(a) \/ UNCHANGED vars
  BY <1>2, PageWithoutMatch
<1> QED
  BY <1>1, <1>2, RaiseIsRefusal DEF StepOrLook, LookupStep, BadPage

LEMMA CalmStepIsApproved ==
  ASSUME LookupTypeOK, [CalmNext]_allVars
  PROVE  [ApprovedNext]_vars
<1>1. ASSUME NEW a \in Attempts, CalmCall(a)
      PROVE  ApprovedNext
  BY <1>1 DEF CalmCall, ApprovedNext
<1>2. ASSUME NEW a \in Attempts, StepOrLook(a) \/ BadPage(a)
      PROVE  ApprovedNext \/ UNCHANGED vars
  BY <1>2, LookImplements DEF ApprovedNext
<1>3. CASE CalmFault
  BY <1>3 DEF CalmFault, ApprovedNext, PeopleAct
<1>4. ASSUME NEW p \in Proposals, Expires(p)
      PROVE  ApprovedNext
  BY <1>4 DEF Expires, ApprovedNext
<1>5. CASE Serves
  BY <1>5 DEF Serves, ApprovedNext
<1>6. CASE NewerStarts \/ UNCHANGED allVars
  BY <1>6 DEF NewerStarts, allVars
<1> QED
  BY <1>1, <1>2, <1>3, <1>4, <1>5, <1>6 DEF CalmNext

LEMMA ApprovedIsNext ==
  ASSUME [ApprovedNext]_vars
  PROVE  [Next]_vars
<1>1. (PeopleAct /\ UNCHANGED <<rowVars, recordVars, gates, attemptVars, timeline>>)
        => Next
  BY DEF People, Next
<1> QED
  BY <1>1 DEF ApprovedNext, Next

-----------------------------------------------------------------------------
(* Types.  What n8n lists is what it knows, so the types of Remediation are *)
(* needed.                                                                  *)

LookupInv == TypeInv /\ LookupTypeOK

ScanRange(n) ==
  [cursor : 0 .. n, seen : SUBSET (1 .. n), pages : 0 .. MaxPages - 1]

LEMMA FirstPageOK ==
  ASSUME NEW n \in Nat
  PROVE  FirstPage \in ScanRange(n)
  BY LookupAssumption DEF FirstPage, NoCursor, ScanRange

LEMMA ScanRangeGrows ==
  ASSUME NEW m \in Nat, NEW n \in Nat, m <= n
  PROVE  ScanRange(m) \subseteq ScanRange(n)
<1>1. 0 .. m \subseteq 0 .. n /\ 1 .. m \subseteq 1 .. n
  OBVIOUS
<1> QED
  BY <1>1 DEF ScanRange

LEMMA NextCursorOK ==
  ASSUME LookupTypeOK, NEW a \in Attempts
  PROVE  NextCursor(a) \in 0 .. Len(listing)
  BY TopIsNat, LookupAssumption DEF NextCursor, NoCursor

LEMMA TurnOK ==
  ASSUME LookupTypeOK, NEW a \in Attempts, NEW next \in 0 .. Len(listing),
         GoesOn(a, next), Turn(a, next), UNCHANGED listing
  PROVE  LookupTypeOK'
<1>1. Len(listing) \in Nat
  BY DEF LookupTypeOK
<1>2. PICK s : s = [cursor |-> next, seen |-> scan[a].seen \cup {next},
                    pages |-> scan[a].pages + 1]
  OBVIOUS
<1>3. s \in ScanRange(Len(listing))
  BY <1>1, <1>2, LookupAssumption DEF LookupTypeOK, GoesOn, NoCursor, ScanRange
<1>4. scan' = [scan EXCEPT ![a] = s]
  BY <1>2 DEF Turn
<1> QED
  BY <1>3, <1>4 DEF LookupTypeOK, ScanRange

LEMMA ForgetPagesOK ==
  ASSUME LookupTypeOK, NEW a \in Attempts, ForgetPages(a), UNCHANGED listing
  PROVE  LookupTypeOK'
<1>1. FirstPage \in ScanRange(Len(listing))
  BY FirstPageOK DEF LookupTypeOK
<1> QED
  BY <1>1 DEF LookupTypeOK, ForgetPages, ScanRange

LEMMA PageOK ==
  ASSUME LookupTypeOK, NEW a \in Attempts, NEW next \in 0 .. Len(listing),
         NotOnPage(a, next)
  PROVE  LookupTypeOK'
  BY TurnOK, ForgetPagesOK DEF NotOnPage

LEMMA UnlookedOK ==
  ASSUME LookupTypeOK, TypeInv', Unlooked
  PROVE  LookupTypeOK'
<1> DEFINE new == {x.id : x \in execs'} \ {x.id : x \in execs}
           id == CHOOSE i \in new : TRUE
<1>1. listing' = IF new = {} THEN listing ELSE Append(listing, id)
  BY DEF Unlooked
<1>2. new \subseteq RetryIds
  BY DEF TypeInv, TypeOK, N8NTypeOK, Execs, RetryIds
<1> HIDE DEF new
<1>3. new # {} => id \in RetryIds
  BY <1>2
<1> HIDE DEF id
<1>4. /\ listing' \in Seq(RetryIds \cup {Other})
      /\ Len(listing) \in Nat /\ Len(listing') \in Nat /\ Len(listing) <= Len(listing')
  BY <1>1, <1>3 DEF LookupTypeOK
<1>5. scan \in [Attempts -> ScanRange(Len(listing'))]
  BY <1>4, ScanRangeGrows DEF LookupTypeOK, ScanRange
<1>6. FirstPage \in ScanRange(Len(listing'))
  BY <1>4, FirstPageOK
<1>7. scan' \in [Attempts -> ScanRange(Len(listing'))]
  BY <1>5, <1>6 DEF Unlooked
<1> QED
  BY <1>4, <1>7 DEF LookupTypeOK, ScanRange

LEMMA OtherStartsOK ==
  ASSUME LookupTypeOK, OtherStarts
  PROVE  LookupTypeOK'
<1>1. /\ listing' \in Seq(RetryIds \cup {Other})
      /\ Len(listing) \in Nat /\ Len(listing') \in Nat /\ Len(listing) <= Len(listing')
  BY DEF LookupTypeOK, OtherStarts
<1>2. scan \in [Attempts -> ScanRange(Len(listing'))]
  BY <1>1, ScanRangeGrows DEF LookupTypeOK, ScanRange
<1> QED
  BY <1>1, <1>2 DEF LookupTypeOK, OtherStarts, ScanRange

LEMMA CalmInitOK == CalmInit /\ LookupInit => LookupInv /\ OneRetry
<1> SUFFICES ASSUME CalmInit, LookupInit
             PROVE  LookupInv /\ OneRetry
  OBVIOUS
<1>1. workflow \in Snapshots
  BY N8NAssumption DEF CalmInit, N8NInit, Snapshots, Definitions
<1>2. N8NTypeOK
  BY <1>1 DEF CalmInit, N8NInit, N8NTypeOK
<1>3. RunsTypeOK
  BY DEF CalmInit, RunsInit, RunsTypeOK, NoRow, Rows, Stages
<1>4. EvidenceTypeOK
  BY <1>1 DEF CalmInit, Approved, EvidenceTypeOK
<1>5. AttemptsTypeOK /\ HasTarget /\ HasRead
  BY BlankOK DEF CalmInit, AttemptsTypeOK, HasTarget, HasRead, Fits
<1>6. TypeInv
  BY <1>2, <1>3, <1>4, <1>5 DEF CalmInit, TypeInv, TypeOK
<1>7. LookupTypeOK
  <2>1. listing \in Seq(RetryIds \cup {Other}) /\ Len(listing) = 1
    BY DEF LookupInit
  <2>2. FirstPage \in ScanRange(Len(listing))
    BY <2>1, FirstPageOK
  <2> QED
    BY <2>1, <2>2 DEF LookupInit, LookupTypeOK, ScanRange
<1>8. OneRetry
  BY RemediationAssumption
     DEF CalmInit, N8NInit, RunsInit, NoRow, OneRetry, Committed, Requested,
         CommittedIsRecorded, OneCommitted, IdleHasNotAsked, StageIsFresh, FreshPcs,
         EarlyCallEarlyRow, EarlyPcs, RowIsSound, Completed
<1> QED
  BY <1>6, <1>7, <1>8 DEF LookupInv

LEMMA CalmStepOK == LookupInv /\ [CalmNext]_allVars => LookupInv'
<1> SUFFICES ASSUME LookupInv, [CalmNext]_allVars
             PROVE  LookupInv'
  OBVIOUS
<1>1. TypeInv'
  BY CalmStepIsApproved, ApprovedIsNext, NextType DEF LookupInv
<1>2. CASE Unlooked
  BY <1>1, <1>2, UnlookedOK DEF LookupInv
<1>3. ASSUME NEW a \in Attempts, LookupStep(a) \/ BadPage(a)
      PROVE  LookupTypeOK'
  <2>1. CASE FindOnPage(a)
    BY <2>1, ForgetPagesOK DEF FindOnPage, LookupInv
  <2>2. ASSUME NEW next \in 0 .. Len(listing), NotOnPage(a, next)
        PROVE  LookupTypeOK'
    BY <2>2, PageOK DEF LookupInv
  <2>3. CASE Raise(a) /\ ForgetPages(a) /\ UNCHANGED listing
    BY <2>3, ForgetPagesOK DEF LookupInv
  <2>4. NextCursor(a) \in 0 .. Len(listing)
    BY NextCursorOK DEF LookupInv
  <2> QED
    BY <1>3, <2>1, <2>2, <2>3, <2>4 DEF LookupStep, BadPage
<1>4. CASE NewerStarts
  BY <1>1, <1>4, OtherStartsOK DEF NewerStarts, LookupInv
<1>5. CASE UNCHANGED allVars
  BY <1>1, <1>5 DEF allVars, lookupVars, LookupInv, LookupTypeOK
<1>6. \/ Unlooked \/ NewerStarts \/ UNCHANGED allVars
      \/ \E a \in Attempts : LookupStep(a) \/ BadPage(a)
  BY DEF CalmNext, CalmCall, StepOrLook, CalmFault, Expires, Serves
<1> QED
  BY <1>1, <1>2, <1>3, <1>4, <1>5, <1>6 DEF LookupInv

(* The types of calls and pages: the cursor of a call points into the list, *)
(* and fewer than MaxPages are read when it goes on (n8n_client.py:89-112). *)
THEOREM LookupInvariant == CalmSpec => []LookupInv
<1>1. CalmInit /\ LookupInit => LookupInv
  BY CalmInitOK
<1>2. LookupInv /\ [CalmNext]_allVars => LookupInv'
  BY CalmStepOK
<1> QED
  BY <1>1, <1>2, PTL DEF CalmSpec

(* Whatever cursor a page comes with, a call stays within the executions    *)
(* that n8n lists and reads fewer than MaxPages pages before its last one   *)
(* (n8n_client.py:74-113).                                                  *)
THEOREM LookupTypeCorrect == CalmSpec => []LookupTypeOK
<1>1. LookupInv => LookupTypeOK
  BY DEF LookupInv
<1> QED
  BY <1>1, LookupInvariant, PTL

(* Page by page, the lookup finds only what Find may find: an execution     *)
(* that retries the very one of the proposal; nothing found stops the call  *)
(* (n8n_client.py:64-113, remediation.py:266-287).                          *)
THEOREM LookupImplementsFindHolds == CalmSpec => LookupImplementsFind
<1>1. LookupInv /\ [CalmNext]_allVars => [ApprovedNext]_vars
  BY CalmStepIsApproved DEF LookupInv
<1> QED
  BY <1>1, LookupInvariant, PTL DEF CalmSpec, LookupImplementsFind, ApprovedSpec

(* So no second retry is asked for where the lookup takes many exchanges    *)
(* and others act between two pages (remediation.py:266-319).               *)
THEOREM LookupAsksOnce == CalmSpec => []AtMostOneRetry
<1>1. CalmInit /\ LookupInit => OneRetry
  BY CalmInitOK
<1>2. LookupInv /\ OneRetry /\ [CalmNext]_allVars => OneRetry'
  BY CalmStepIsApproved, ApprovedIsNext, NextRetry DEF LookupInv
<1>3. LookupInv /\ OneRetry => AtMostOneRetry
  BY RetryInvSuffices DEF LookupInv, RetryInv
<1> QED
  BY <1>1, <1>2, <1>3, LookupInvariant, PTL DEF CalmSpec
=============================================================================
