------------------------- MODULE RemediationProofs -------------------------
(***************************************************************************)
(* Theorems about Remediation, for every set of calls, proposals and       *)
(* workflow contents, also with leases that run out under a slow call: its *)
(* types, what it does to the table, and that it asks for one retry at     *)
(* most.                                                                   *)
(***************************************************************************)
EXTENDS RemediationSafety, TLAPS

-----------------------------------------------------------------------------
(* Types.  TypeOK is not inductive by itself: a call that writes must have  *)
(* read what it writes.                                                     *)

HasTarget == \A a \in Attempts : pc[a] # "idle" => target[a] \in Proposals

Fits(at, l) ==
  /\ at \in {"read_approval", "fetch", "save_starting", "log_starting", "put"}
       => l.dry \in Snapshots
  /\ at \in {"save_starting", "log_starting", "put"} => l.expected \in Definitions
  /\ at \in {"complete", "log_completed"} => l.response \in Responses

HasRead == \A a \in Attempts : Fits(pc[a], local[a])

TypeInv == TypeOK /\ HasTarget /\ HasRead

-----------------------------------------------------------------------------
(* The part of TypeInv that is about calls.                                 *)
CallsOK == AttemptsTypeOK /\ HasTarget /\ HasRead

LEMMA CallMoves ==
  ASSUME CallsOK, NEW a \in Attempts, target[a] \in Proposals,
         NEW next \in LivePcs \cup EndPcs, Goto(a, next),
         UNCHANGED <<target, local, answer, timeline>>,
         Fits(next, local[a])
  PROVE  CallsOK'
<1>1. AttemptsTypeOK'
  BY DEF CallsOK, AttemptsTypeOK, Goto
<1>2. HasTarget'
  BY DEF CallsOK, AttemptsTypeOK, Goto, HasTarget
<1>3. HasRead'
  BY DEF CallsOK, AttemptsTypeOK, Goto, HasRead, Fits
<1> QED
  BY <1>1, <1>2, <1>3 DEF CallsOK

LEMMA CallMovesWith ==
  ASSUME CallsOK, NEW a \in Attempts, target[a] \in Proposals,
         NEW next \in LivePcs \cup EndPcs, Goto(a, next),
         NEW l \in Locals, local' = [local EXCEPT ![a] = l],
         UNCHANGED <<target, answer, timeline>>,
         Fits(next, l)
  PROVE  CallsOK'
<1>1. AttemptsTypeOK'
  BY DEF CallsOK, AttemptsTypeOK, Goto
<1>2. HasTarget'
  BY DEF CallsOK, AttemptsTypeOK, Goto, HasTarget
<1>3. HasRead'
  BY DEF CallsOK, AttemptsTypeOK, Goto, HasRead, Fits
<1> QED
  BY <1>1, <1>2, <1>3 DEF CallsOK

(* Where only the call moves, the rest of TypeInv stays.                    *)
LEMMA OthersUnchanged ==
  ASSUME TypeInv, CallsOK', UNCHANGED <<n8nVars, rowVars, recordVars, gates>>
  PROVE  TypeInv'
  BY DEF TypeInv, TypeOK, CallsOK, n8nVars, rowVars, recordVars, N8NTypeOK,
         RunsTypeOK, EvidenceTypeOK

LEMMA OnlyCallMoves ==
  ASSUME TypeInv, NEW a \in Attempts, target[a] \in Proposals,
         NEW next \in LivePcs \cup EndPcs, Goto(a, next), Fits(next, local[a]),
         UNCHANGED <<n8nVars, rowVars, recordVars, gates, target, local, answer, timeline>>
  PROVE  TypeInv'
<1>1. CallsOK
  BY DEF TypeInv, TypeOK, CallsOK
<1>2. CallsOK'
  BY <1>1, CallMoves
<1> QED
  BY <1>2, OthersUnchanged

LEMMA StartedCall ==
  ASSUME TypeInv, NEW a \in Attempts, pc[a] # "idle"
  PROVE  /\ CallsOK
         /\ target[a] \in Proposals
         /\ local[a] \in Locals
         /\ Fits(pc[a], local[a])
  BY DEF TypeInv, TypeOK, CallsOK, AttemptsTypeOK, HasTarget, HasRead

LEMMA BlankOK == Blank \in Locals
  BY DEF Blank, Locals, Stages

-----------------------------------------------------------------------------
(* One lemma per group of actions.                                          *)

LEMMA BeginType ==
  ASSUME TypeInv, NEW a \in Attempts, NEW p \in Proposals, Begin(a, p)
  PROVE  TypeInv'
<1>1. RunsTypeOK'
  BY ZenonT(60) DEF Begin, Claim, TakeRow, TypeInv, TypeOK, RunsTypeOK, Rows, Stages
<1>2. AttemptsTypeOK'
  BY DEF Begin, Goto, TypeInv, TypeOK, AttemptsTypeOK, LivePcs
<1>3. HasTarget'
  BY DEF Begin, Goto, TypeInv, TypeOK, AttemptsTypeOK, HasTarget
<1>4. HasRead'
  BY DEF Begin, Goto, TypeInv, TypeOK, AttemptsTypeOK, HasRead, Fits
<1>5. N8NTypeOK' /\ EvidenceTypeOK' /\ gates' \in GateSettings
  BY DEF Begin, n8nVars, recordVars, TypeInv, TypeOK, N8NTypeOK, EvidenceTypeOK
<1> QED
  BY <1>1, <1>2, <1>3, <1>4, <1>5 DEF TypeInv, TypeOK

LEMMA BeginReplayType ==
  ASSUME TypeInv, NEW a \in Attempts, NEW p \in Proposals, BeginReplay(a, p)
  PROVE  TypeInv'
<1>1. runs[p].response \in Responses
  BY DEF BeginReplay, Completed, TypeInv, TypeOK, RunsTypeOK, Rows
<1>2. AttemptsTypeOK'
  BY <1>1 DEF BeginReplay, Goto, TypeInv, TypeOK, AttemptsTypeOK, EndPcs
<1>3. HasTarget'
  BY DEF BeginReplay, Goto, TypeInv, TypeOK, AttemptsTypeOK, HasTarget
<1>4. HasRead'
  BY DEF BeginReplay, Goto, TypeInv, TypeOK, AttemptsTypeOK, HasRead, Fits
<1> QED
  BY <1>2, <1>3, <1>4, OthersUnchanged DEF BeginReplay, CallsOK

LEMMA LoadType ==
  ASSUME TypeInv, NEW a \in Attempts,
         LoadRow(a) \/ LoadReplay(a) \/ LoadBreaks(a)
  PROVE  TypeInv'
<1>1. CallsOK /\ target[a] \in Proposals
  BY StartedCall DEF LoadRow, LoadReplay, LoadBreaks
<1>2. CASE LoadRow(a)
  <2> DEFINE row == runs[target[a]]
             l == [Blank EXCEPT !.stage = row.stage, !.expected = row.expected,
                                !.retryId = row.retryId]
  <2>1. l \in Locals
    BY <1>1 DEF Blank, Locals, TypeInv, TypeOK, RunsTypeOK, Rows
  <2>2. Fits("read_dry", l)
    BY DEF Fits
  <2>3. local' = [local EXCEPT ![a] = l]
    BY <1>2 DEF LoadRow
  <2>4. CallsOK'
    BY <1>1, <1>2, <2>1, <2>2, <2>3, CallMovesWith DEF LoadRow, LivePcs
  <2> QED
    BY <1>2, <2>4, OthersUnchanged DEF LoadRow
<1>3. CASE LoadReplay(a)
  <2>1. runs[target[a]].response \in Responses
    BY <1>1, <1>3 DEF LoadReplay, Completed, TypeInv, TypeOK, RunsTypeOK, Rows
  <2>2. AttemptsTypeOK'
    BY <1>3, <2>1 DEF LoadReplay, Goto, TypeInv, TypeOK, AttemptsTypeOK, EndPcs
  <2>3. HasTarget'
    BY <1>1, <1>3 DEF LoadReplay, Goto, TypeInv, TypeOK, AttemptsTypeOK, HasTarget
  <2>4. HasRead'
    BY <1>3 DEF LoadReplay, Goto, TypeInv, TypeOK, AttemptsTypeOK, HasRead, Fits
  <2> QED
    BY <1>3, <2>2, <2>3, <2>4, OthersUnchanged DEF LoadReplay, CallsOK
<1>4. CASE LoadBreaks(a)
  BY <1>1, <1>4, OnlyCallMoves DEF LoadBreaks, EndPcs, Fits
<1> QED
  BY <1>2, <1>3, <1>4

(* Checks that succeed and reads that store nothing.                        *)
LEMMA CheckType ==
  ASSUME TypeInv, NEW a \in Attempts,
         \/ ReadApproval(a) \/ FetchPatched(a) \/ PutReturns(a)
         \/ ReadBack(a) \/ Verify(a)
  PROVE  TypeInv'
<1>1. target[a] \in Proposals /\ Fits(pc[a], local[a])
  BY StartedCall DEF ReadApproval, FetchPatched, PutReturns, ReadBack, Verify
<1>2. CASE ReadApproval(a)
  <2>1. PICK next \in {"fetch", "verify"} : Goto(a, next)
    BY <1>2 DEF ReadApproval
  <2>2. Fits(next, local[a])
    BY <1>1, <1>2, <2>1 DEF ReadApproval, Fits
  <2> QED
    BY <1>1, <1>2, <2>1, <2>2, OnlyCallMoves DEF ReadApproval, LivePcs
<1>3. CASE FetchPatched(a)
  BY <1>1, <1>3, OnlyCallMoves DEF FetchPatched, LivePcs, SavePcs, Fits
<1>4. CASE PutReturns(a)
  BY <1>1, <1>4, OnlyCallMoves DEF PutReturns, LivePcs, Fits
<1>5. CASE ReadBack(a)
  BY <1>1, <1>5, OnlyCallMoves DEF ReadBack, LivePcs, SavePcs, Fits
<1>6. CASE Verify(a)
  <2>1. PICK next \in {"find", "poll", "save_retry"} : Goto(a, next)
    BY <1>6 DEF Verify, AfterVerify
  <2>2. Fits(next, local[a])
    BY <2>1 DEF Fits
  <2> QED
    BY <1>1, <1>6, <2>1, <2>2, OnlyCallMoves DEF Verify, LivePcs, SavePcs
<1> QED
  BY <1>2, <1>3, <1>4, <1>5, <1>6

LEMMA ReadDryRunType ==
  ASSUME TypeInv, NEW a \in Attempts, ReadDryRun(a)
  PROVE  TypeInv'
<1>1. CallsOK /\ target[a] \in Proposals /\ local[a] \in Locals
  BY DEF TypeInv, TypeOK, CallsOK, AttemptsTypeOK, HasTarget, ReadDryRun
<1>2. PICK s \in DryRunSeen(target[a]) \ {None} : local' = [local EXCEPT ![a].dry = s]
  BY DEF ReadDryRun
<1>3. s \in Snapshots
  BY <1>1, <1>2 DEF DryRunSeen, TypeInv, TypeOK, EvidenceTypeOK
<1>4. [local[a] EXCEPT !.dry = s] \in Locals
  BY <1>1, <1>3 DEF Locals
<1>5. Fits("read_approval", [local[a] EXCEPT !.dry = s])
  BY <1>1, <1>3 DEF Fits, Locals
<1>6. local' = [local EXCEPT ![a] = [local[a] EXCEPT !.dry = s]]
  BY <1>2
<1>7. CallsOK'
  BY <1>1, <1>4, <1>5, <1>6, CallMovesWith DEF ReadDryRun, LivePcs
<1> QED
  BY <1>7, OthersUnchanged DEF ReadDryRun

LEMMA FetchOriginalType ==
  ASSUME TypeInv, NEW a \in Attempts, FetchOriginal(a)
  PROVE  TypeInv'
<1> DEFINE patched == Patched(workflow.def, target[a])
           l == [local[a] EXCEPT !.stage = "claimed", !.expected = patched]
<1>1. CallsOK /\ target[a] \in Proposals /\ local[a] \in Locals /\ Fits("fetch", local[a])
  BY StartedCall DEF FetchOriginal
<1>2. patched \in Definitions
  BY <1>1, RemediationAssumption
     DEF Patched, TypeInv, TypeOK, N8NTypeOK, Snapshots, Definitions
<1>3. l \in Locals
  BY <1>1, <1>2 DEF Locals, Stages
<1>4. Fits("save_starting", l)
  BY <1>1, <1>2 DEF Fits, Locals
<1>5. local' = [local EXCEPT ![a] = l]
  BY DEF FetchOriginal
<1>6. CallsOK'
  BY <1>1, <1>3, <1>4, <1>5, CallMovesWith DEF FetchOriginal, LivePcs, SavePcs
<1> QED
  BY <1>6, OthersUnchanged DEF FetchOriginal

LEMMA SaveType ==
  ASSUME TypeInv, NEW a \in Attempts, NEW at \in LivePcs, NEW stage \in Stages,
         NEW expected \in Definitions \cup {None}, NEW retryId \in RetryIds \cup {None},
         NEW next \in LivePcs, Save(a, at, stage, expected, retryId, next),
         Fits(next, [local[a] EXCEPT !.stage = stage])
  PROVE  TypeInv'
<1> DEFINE l == [local[a] EXCEPT !.stage = stage]
<1>0. at # "idle"
  BY DEF LivePcs, SavePcs
<1>1. CallsOK /\ target[a] \in Proposals /\ local[a] \in Locals
  BY <1>0, StartedCall DEF Save
<1>2. l \in Locals
  BY <1>1 DEF Locals
<1>3. local' = [local EXCEPT ![a] = l]
  BY DEF Save
<1>4. CallsOK'
  BY <1>1, <1>2, <1>3, CallMovesWith DEF Save
<1>5. /\ Coalesce(expected, runs[target[a]].expected) \in Definitions \cup {None}
      /\ Coalesce(retryId, runs[target[a]].retryId) \in RetryIds \cup {None}
  BY <1>1 DEF Coalesce, TypeInv, TypeOK, RunsTypeOK, Rows
<1>6. RunsTypeOK'
  BY <1>1, <1>5 DEF Save, SetStage, TypeInv, TypeOK, RunsTypeOK, Rows
<1>7. N8NTypeOK' /\ EvidenceTypeOK' /\ gates' \in GateSettings
  BY DEF Save, n8nVars, recordVars, TypeInv, TypeOK, N8NTypeOK, EvidenceTypeOK
<1> QED
  BY <1>4, <1>6, <1>7 DEF TypeInv, TypeOK, CallsOK

LEMMA LogType ==
  ASSUME TypeInv, NEW a \in Attempts, NEW at \in LivePcs, NEW event \in Events,
         NEW next \in LivePcs, Log(a, at, event, next), Fits(next, local[a])
  PROVE  TypeInv'
<1>0. at # "idle"
  BY DEF LivePcs, SavePcs
<1>1. CallsOK /\ target[a] \in Proposals
  BY <1>0, StartedCall DEF Log
<1>2. AttemptsTypeOK'
  BY <1>1 DEF Log, Goto, CallsOK, AttemptsTypeOK
<1>3. HasTarget'
  BY <1>1 DEF Log, Goto, CallsOK, AttemptsTypeOK, HasTarget
<1>4. HasRead'
  BY <1>1 DEF Log, Goto, CallsOK, AttemptsTypeOK, HasRead, Fits
<1> QED
  BY <1>2, <1>3, <1>4, OthersUnchanged DEF Log, CallsOK

LEMMA RecordType ==
  ASSUME TypeInv, NEW a \in Attempts,
         \/ SaveRecovered(a) \/ LogRecovered(a) \/ SaveStarting(a) \/ LogStarting(a)
         \/ SaveVerified(a) \/ LogVerified(a) \/ SaveFound(a) \/ LogFound(a)
         \/ SaveRetry(a) \/ LogRetry(a) \/ SaveStarted(a) \/ LogStarted(a)
  PROVE  TypeInv'
<1> USE DEF LivePcs, SavePcs
<1>1. CASE SaveRecovered(a)
  BY <1>1, SaveType DEF SaveRecovered, Fits, Stages
<1>2. CASE LogRecovered(a)
  BY <1>2, LogType DEF LogRecovered, Fits, Events
<1>3. CASE SaveStarting(a)
  <2>1. local[a] \in Locals /\ Fits("save_starting", local[a])
    BY <1>3, StartedCall DEF SaveStarting, Save
  <2>2. Fits("log_starting", [local[a] EXCEPT !.stage = "workflow_update_starting"])
    BY <2>1 DEF Fits, Locals
  <2> QED
    BY <1>3, <2>1, <2>2, SaveType DEF SaveStarting, Locals, Stages
<1>4. CASE LogStarting(a)
  <2>1. Fits("log_starting", local[a])
    BY <1>4, StartedCall DEF LogStarting, Log
  <2> QED
    BY <1>4, <2>1, LogType DEF LogStarting, Fits, Events
<1>5. CASE SaveVerified(a)
  BY <1>5, SaveType DEF SaveVerified, Fits, Stages
<1>6. CASE LogVerified(a)
  BY <1>6, LogType DEF LogVerified, Fits, Events
<1>7. CASE SaveFound(a)
  <2>1. local[a] \in Locals
    BY <1>7, StartedCall DEF SaveFound, Save
  <2> QED
    BY <1>7, <2>1, SaveType DEF SaveFound, Fits, Stages, Locals
<1>8. CASE LogFound(a)
  BY <1>8, LogType DEF LogFound, Fits, Events
<1>9. CASE SaveRetry(a)
  BY <1>9, SaveType DEF SaveRetry, Fits, Stages
<1>10. CASE LogRetry(a)
  BY <1>10, LogType DEF LogRetry, Fits, Events
<1>11. CASE SaveStarted(a)
  <2>1. local[a] \in Locals
    BY <1>11, StartedCall DEF SaveStarted, Save
  <2> QED
    BY <1>11, <2>1, SaveType DEF SaveStarted, Fits, Stages, Locals
<1>12. CASE LogStarted(a)
  BY <1>12, LogType DEF LogStarted, Fits, Events
<1> QED
  BY <1>1, <1>2, <1>3, <1>4, <1>5, <1>6, <1>7, <1>8, <1>9, <1>10, <1>11, <1>12

(* The two requests: what is put on the wire has been read before.          *)
LEMMA SendType ==
  ASSUME TypeInv, NEW a \in Attempts, SendPut(a) \/ SendPost(a)
  PROVE  TypeInv'
<1>1. CallsOK /\ target[a] \in Proposals /\ Fits(pc[a], local[a])
  BY StartedCall DEF SendPut, SendPost
<1>2. CASE SendPut(a)
  <2>1. CallsOK'
    BY <1>1, <1>2, CallMoves DEF SendPut, LivePcs, Fits
  <2>2. [by |-> a, def |-> local[a].expected, base |-> local[a].dry] \in Puts
    BY <1>1, <1>2 DEF SendPut, Fits, Puts
  <2>3. N8NTypeOK' /\ RunsTypeOK' /\ EvidenceTypeOK' /\ gates' \in GateSettings
    BY <1>2, <2>2 DEF SendPut, rowVars, recordVars, TypeInv, TypeOK, N8NTypeOK,
                      RunsTypeOK, EvidenceTypeOK
  <2> QED
    BY <2>1, <2>3 DEF TypeInv, TypeOK, CallsOK
<1>3. CASE SendPost(a)
  <2>1. CallsOK'
    BY <1>1, <1>3, CallMoves DEF SendPost, LivePcs, Fits
  <2>2. [by |-> a, of |-> ExecOf[target[a]]] \in Posts
    BY <1>1, RemediationAssumption DEF Posts
  <2>3. N8NTypeOK' /\ RunsTypeOK' /\ EvidenceTypeOK' /\ gates' \in GateSettings
    BY <1>3, <2>2 DEF SendPost, rowVars, recordVars, TypeInv, TypeOK, N8NTypeOK,
                      RunsTypeOK, EvidenceTypeOK
  <2> QED
    BY <2>1, <2>3 DEF TypeInv, TypeOK, CallsOK
<1> QED
  BY <1>2, <1>3

(* Answers of n8n that the call keeps.                                      *)
LEMMA AnswerType ==
  ASSUME TypeInv, NEW a \in Attempts, Find(a) \/ PostReturns(a) \/ Poll(a)
  PROVE  TypeInv'
<1>1. CallsOK /\ target[a] \in Proposals /\ local[a] \in Locals
  BY StartedCall DEF Find, PostReturns, Poll
<1>2. \A x \in execs : x.id \in RetryIds
  BY DEF TypeInv, TypeOK, N8NTypeOK, Execs, RetryIds
<1>3. CASE Find(a)
  <2>1. PICK x \in execs : local' = [local EXCEPT ![a].retryId = x.id]
    BY <1>3 DEF Find, RetriesOf
  <2>2. [local[a] EXCEPT !.retryId = x.id] \in Locals
    BY <1>1, <1>2, <2>1 DEF Locals
  <2>3. local' = [local EXCEPT ![a] = [local[a] EXCEPT !.retryId = x.id]]
    BY <2>1
  <2>4. CallsOK'
    <3>1. Fits("save_found", [local[a] EXCEPT !.retryId = x.id])
      BY DEF Fits
    <3> QED
      BY <1>1, <1>3, <2>2, <2>3, <3>1, CallMovesWith DEF Find, LivePcs, SavePcs
  <2> QED
    BY <1>3, <2>4, OthersUnchanged DEF Find
<1>4. CASE PostReturns(a)
  <2>1. [local[a] EXCEPT !.retryId = a] \in Locals
    BY <1>1 DEF Locals, RetryIds
  <2>2. local' = [local EXCEPT ![a] = [local[a] EXCEPT !.retryId = a]]
    BY <1>4 DEF PostReturns
  <2>3. CallsOK'
    <3>1. Fits("save_started", [local[a] EXCEPT !.retryId = a])
      BY DEF Fits
    <3> QED
      BY <1>1, <1>4, <2>1, <2>2, <3>1, CallMovesWith DEF PostReturns, LivePcs, SavePcs
  <2> QED
    BY <1>4, <2>3, OthersUnchanged DEF PostReturns
<1>5. CASE Poll(a)
  <2>1. PICK x \in execs :
          local' = [local EXCEPT ![a].response =
                      [retryId |-> x.id, verification |-> VerificationOf(x.status)]]
    BY <1>5 DEF Poll
  <2> DEFINE r == [retryId |-> x.id, verification |-> VerificationOf(x.status)]
  <2>2. r \in Responses
    BY <1>2, <2>1 DEF Responses, VerificationOf
  <2>3. [local[a] EXCEPT !.response = r] \in Locals
    BY <1>1, <2>2 DEF Locals
  <2>4. Fits("complete", [local[a] EXCEPT !.response = r])
    BY <1>1, <2>2 DEF Fits, Locals
  <2>5. local' = [local EXCEPT ![a] = [local[a] EXCEPT !.response = r]]
    BY <2>1
  <2>6. CallsOK'
    BY <1>1, <1>5, <2>3, <2>4, <2>5, CallMovesWith DEF Poll, LivePcs, SavePcs
  <2> QED
    BY <1>5, <2>6, OthersUnchanged DEF Poll
<1> QED
  BY <1>3, <1>4, <1>5

LEMMA CompleteType ==
  ASSUME TypeInv, NEW a \in Attempts, CompleteRun(a) \/ Return(a)
  PROVE  TypeInv'
<1>1. CallsOK /\ target[a] \in Proposals /\ Fits(pc[a], local[a])
  BY StartedCall DEF CompleteRun, Return
<1>2. local[a].response \in Responses
  BY <1>1 DEF CompleteRun, Return, Fits
<1>3. CASE CompleteRun(a)
  <2>1. CallsOK'
    BY <1>1, <1>2, <1>3, CallMoves DEF CompleteRun, LivePcs, Fits
  <2>2. RunsTypeOK'
    BY <1>1, <1>2, <1>3
       DEF CompleteRun, Complete, TypeInv, TypeOK, RunsTypeOK, Rows, Stages
  <2>3. N8NTypeOK' /\ EvidenceTypeOK' /\ gates' \in GateSettings
    BY <1>3 DEF CompleteRun, n8nVars, recordVars, TypeInv, TypeOK, N8NTypeOK,
                EvidenceTypeOK
  <2> QED
    BY <2>1, <2>2, <2>3 DEF TypeInv, TypeOK, CallsOK
<1>4. CASE Return(a)
  <2>1. AttemptsTypeOK'
    BY <1>1, <1>2, <1>4, BlankOK
       DEF Return, Goto, CallsOK, AttemptsTypeOK, EndPcs, Events
  <2>2. HasTarget'
    BY <1>1, <1>4 DEF Return, Goto, CallsOK, AttemptsTypeOK, HasTarget
  <2>3. HasRead'
    BY <1>1, <1>4 DEF Return, Goto, CallsOK, AttemptsTypeOK, HasRead, Fits
  <2> QED
    BY <1>4, <2>1, <2>2, <2>3, OthersUnchanged DEF Return, CallsOK
<1> QED
  BY <1>3, <1>4

LEMMA GiveUpType ==
  ASSUME TypeInv, NEW a \in Attempts,
         Refuse(a) \/ Break(a) \/ Release(a) \/ ReleaseBreaks(a)
  PROVE  TypeInv'
<1>1. CASE Refuse(a) \/ Break(a)
  <2>1. pc[a] # "idle" /\ Raise(a)
    BY <1>1 DEF Refuse, Break, NoEvidence, Unverified, Stale, RetryUnknown,
                LeaseLost, LivePcs, SavePcs
  <2>2. target[a] \in Proposals
    BY <2>1, StartedCall
  <2> QED
    BY <2>1, <2>2, OnlyCallMoves DEF Raise, LivePcs, Fits
<1>2. CASE Release(a) \/ ReleaseBreaks(a)
  <2>1. CallsOK /\ target[a] \in Proposals
    BY <1>2, StartedCall DEF Release, ReleaseBreaks
  <2>2. CallsOK'
    <3>1. Fits("failed", Blank)
      BY DEF Fits
    <3>2. /\ Goto(a, "failed") /\ local' = [local EXCEPT ![a] = Blank]
          /\ UNCHANGED <<target, answer, timeline>>
      BY <1>2 DEF Release, ReleaseBreaks
    <3> QED
      BY <2>1, <3>1, <3>2, BlankOK, CallMovesWith DEF EndPcs
  <2>3. RunsTypeOK'
    <3>1. [runs[target[a]] EXCEPT !.owner = None, !.leased = FALSE] \in Rows
      BY <2>1 DEF TypeInv, TypeOK, RunsTypeOK, Rows
    <3>2. CASE Release(a)
      BY <2>1, <3>1, <3>2 DEF Release, ReleaseRow, TypeInv, TypeOK, RunsTypeOK
    <3>3. CASE ReleaseBreaks(a)
      BY <3>3 DEF ReleaseBreaks, rowVars, TypeInv, TypeOK, RunsTypeOK
    <3> QED
      BY <1>2, <3>2, <3>3
  <2>4. N8NTypeOK' /\ EvidenceTypeOK' /\ gates' \in GateSettings
    BY <1>2 DEF Release, ReleaseBreaks, n8nVars, recordVars, TypeInv, TypeOK,
                N8NTypeOK, EvidenceTypeOK
  <2> QED
    BY <2>2, <2>3, <2>4 DEF TypeInv, TypeOK, CallsOK
<1> QED
  BY <1>1, <1>2

LEMMA CrashType ==
  ASSUME TypeInv, Crash
  PROVE  TypeInv'
<1>1. AttemptsTypeOK'
  BY BlankOK DEF Crash, TypeInv, TypeOK, AttemptsTypeOK, EndPcs
<1>2. HasTarget'
  BY DEF Crash, Live, LivePcs, SavePcs, TypeInv, TypeOK, AttemptsTypeOK, HasTarget
<1>3. HasRead'
  BY DEF Crash, Live, TypeInv, TypeOK, AttemptsTypeOK, HasRead, Fits, LivePcs, SavePcs
<1>4. N8NTypeOK' /\ RunsTypeOK' /\ EvidenceTypeOK' /\ gates' \in GateSettings
  BY DEF Crash, n8nVars, rowVars, recordVars, TypeInv, TypeOK, N8NTypeOK,
         RunsTypeOK, EvidenceTypeOK
<1> QED
  BY <1>1, <1>2, <1>3, <1>4 DEF TypeInv, TypeOK

LEMMA LeaseExpiresType ==
  ASSUME TypeInv, NEW p \in Proposals, LeaseExpires(p)
  PROVE  TypeInv'
<1>1. RunsTypeOK'
  BY DEF LeaseExpires, LeaseRunsOut, TypeInv, TypeOK, RunsTypeOK, Rows
<1> QED
  BY <1>1 DEF LeaseExpires, n8nVars, recordVars, attemptVars, TypeInv, TypeOK,
              N8NTypeOK, EvidenceTypeOK, AttemptsTypeOK, HasTarget, HasRead

(* n8n and the people who use it.                                           *)
LEMMA N8NType ==
  ASSUME N8NTypeOK, N8NServes \/ PeopleAct
  PROVE  N8NTypeOK'
<1> USE DEF N8NTypeOK
<1>1. ASSUME NEW m \in puts, LandPut(m)
      PROVE  N8NTypeOK'
  <2>1. PICK d \in SavedAs(m.def) :
          workflow' = [version |-> workflow.version + 1, def |-> d]
    BY <1>1 DEF LandPut
  <2>2. d \in Definitions
    BY <2>1, N8NAssumption DEF SavedAs, Puts, Definitions
  <2>3. workflow' \in Snapshots
    BY <2>1, <2>2 DEF Snapshots
  <2> QED
    BY <1>1, <2>3 DEF LandPut
<1>2. ASSUME NEW m \in posts, LandRetry(m)
      PROVE  N8NTypeOK'
  BY <1>2 DEF LandRetry, Posts, Execs, Snapshots
<1>3. ASSUME NEW x \in execs, FinishExecution(x)
      PROVE  N8NTypeOK'
  <2>1. PICK s \in {"success", "error"} :
          execs' = (execs \ {x}) \cup {[x EXCEPT !.status = s]}
    BY <1>3 DEF FinishExecution
  <2>2. [x EXCEPT !.status = s] \in Execs
    BY DEF Execs
  <2> QED
    BY <1>3, <2>1, <2>2 DEF FinishExecution
<1>4. CASE HumanEdit
  BY <1>4 DEF HumanEdit, Snapshots
<1>5. ASSUME NEW h \in HumanRetries, HumanRetry(h)
      PROVE  N8NTypeOK'
  BY <1>5 DEF HumanRetry, Execs, Snapshots
<1> QED
  BY <1>1, <1>2, <1>3, <1>4, <1>5 DEF N8NServes, PeopleAct

LEMMA EvidenceType ==
  ASSUME EvidenceTypeOK, NEW p \in Proposals, workflow \in Snapshots,
         DryRun(p, workflow) \/ Approve(p) \/ EvidenceStep(p, {workflow})
  PROVE  EvidenceTypeOK'
  BY DEF EvidenceTypeOK, EvidenceStep, DryRun, DryRunMade, Approve, ApprovalMade,
         DryRunSavedLate, ApprovalSavedLate

LEMMA OutsideType ==
  ASSUME TypeInv, Environment \/ People
  PROVE  TypeInv'
<1>1. /\ UNCHANGED <<rowVars, attemptVars, timeline>>
      /\ N8NTypeOK' /\ EvidenceTypeOK' /\ gates' \in GateSettings
  BY N8NType, EvidenceType
     DEF Environment, People, TypeInv, TypeOK, n8nVars, recordVars, N8NTypeOK,
         EvidenceTypeOK
<1> QED
  BY <1>1 DEF rowVars, attemptVars, TypeInv, TypeOK, RunsTypeOK, AttemptsTypeOK,
              HasTarget, HasRead

LEMMA StepType ==
  ASSUME TypeInv, NEW a \in Attempts, Step(a) \/ Fault(a)
  PROVE  TypeInv'
  BY LoadType, ReadDryRunType, CheckType, FetchOriginalType, RecordType, SendType,
     AnswerType, CompleteType, GiveUpType
     DEF Step, Fault

LEMMA NextType == TypeInv /\ [Next]_vars => TypeInv'
<1>1. TypeInv /\ Next => TypeInv'
  BY BeginType, BeginReplayType, StepType, CrashType, LeaseExpiresType, OutsideType
     DEF Next, Call
<1>2. TypeInv /\ UNCHANGED vars => TypeInv'
  BY DEF vars, n8nVars, rowVars, recordVars, attemptVars, TypeInv, TypeOK,
         N8NTypeOK, RunsTypeOK, EvidenceTypeOK, AttemptsTypeOK, HasTarget, HasRead
<1> QED
  BY <1>1, <1>2

(* Every reachable state is well-typed, and a call that sends an update, a  *)
(* stage or a response has read it (remediation.py:133-363).                *)
THEOREM TypeInvariant == Spec => []TypeInv
<1>1. Init => TypeInv
  BY N8NAssumption, BlankOK
     DEF Init, N8NInit, RunsInit, EvidenceInit, TypeInv, TypeOK, N8NTypeOK,
         RunsTypeOK, EvidenceTypeOK, AttemptsTypeOK, HasTarget, HasRead, Fits,
         Snapshots, Definitions, NoRow, Rows, Stages
<1>2. TypeInv /\ [Next]_vars => TypeInv'
  BY NextType
<1> QED
  BY <1>1, <1>2, PTL DEF Spec

(* Every reachable state of calls, rows, n8n and evidence is well-typed     *)
(* (remediation.py:91-363).                                                 *)
THEOREM TypeCorrect == Spec => []TypeOK
<1>1. TypeInv => TypeOK
  BY DEF TypeInv
<1> QED
  BY <1>1, TypeInvariant, PTL

-----------------------------------------------------------------------------
(* Remediation uses the table and the evidence only through what they       *)
(* offer: it implements RunsSpec and EvidenceSpec as they stand.            *)

LEMMA SaveUsesTable ==
  ASSUME TypeInv, NEW a \in Attempts,
         \/ SaveRecovered(a) \/ SaveStarting(a) \/ SaveVerified(a)
         \/ SaveFound(a) \/ SaveRetry(a) \/ SaveStarted(a)
  PROVE  RunsNext /\ UNCHANGED recordVars
<1> DEFINE Moves == Stages \ {"none", "claimed", "completed"}
<1>1. pc[a] # "idle"
  BY DEF SaveRecovered, SaveStarting, SaveVerified, SaveFound, SaveRetry, SaveStarted, Save
<1>2. target[a] \in Proposals /\ local[a] \in Locals
  BY <1>1, StartedCall
<1>3. local[a].expected \in Definitions \cup {None} /\ local[a].retryId \in RetryIds \cup {None}
  BY <1>2 DEF Locals
<1>4. ASSUME NEW stage \in Moves, NEW expected, expected \in Definitions \cup {None},
             NEW retryId, retryId \in RetryIds \cup {None}, NEW at, NEW next,
             Save(a, at, stage, expected, retryId, next)
      PROVE  RunsNext /\ UNCHANGED recordVars
  BY <1>2, <1>4 DEF Save, RunsNext
<1>5. CASE SaveStarting(a)
  <2>1. PICK x : x = local[a].expected
    OBVIOUS
  <2>2. Save(a, "save_starting", "workflow_update_starting", x, None, "log_starting")
    BY <1>5, <2>1 DEF SaveStarting
  <2> QED
    BY <1>3, <1>4, <2>1, <2>2 DEF Stages
<1>6. CASE SaveFound(a) \/ SaveStarted(a)
  <2>1. PICK x : x = local[a].retryId
    OBVIOUS
  <2>2. \E at, next : Save(a, at, "retry_started", None, x, next)
    BY <1>6, <2>1 DEF SaveFound, SaveStarted
  <2> QED
    BY <1>3, <1>4, <2>1, <2>2 DEF Stages
<1>7. CASE SaveRecovered(a) \/ SaveVerified(a)
  BY <1>4, <1>7 DEF SaveRecovered, SaveVerified, Stages
<1>8. CASE SaveRetry(a)
  BY <1>4, <1>8 DEF SaveRetry, Stages
<1> QED
  BY <1>5, <1>6, <1>7, <1>8

LEMMA CallUsesTable ==
  ASSUME TypeInv, NEW a \in Attempts, Call(a) \/ Step(a) \/ Fault(a)
  PROVE  [RunsNext]_runsVars /\ UNCHANGED recordVars
<1>1. CASE Call(a)
  BY <1>1 DEF Call, Begin, BeginReplay, RunsNext, rowVars, runsVars
<1>2. CASE \/ SaveRecovered(a) \/ SaveStarting(a) \/ SaveVerified(a)
           \/ SaveFound(a) \/ SaveRetry(a) \/ SaveStarted(a)
  BY <1>2, SaveUsesTable
<1>3. CASE CompleteRun(a) \/ Release(a)
  <2>1. target[a] \in Proposals /\ (CompleteRun(a) => local[a].response \in Responses)
    BY <1>3, StartedCall DEF CompleteRun, Release, TypeInv, HasRead, Fits
  <2> QED
    BY <1>3, <2>1 DEF CompleteRun, Release, RunsNext
<1>4. CASE \/ LoadRow(a) \/ LoadReplay(a) \/ ReadDryRun(a) \/ ReadApproval(a)
           \/ FetchPatched(a) \/ FetchOriginal(a) \/ SendPut(a) \/ PutReturns(a)
           \/ ReadBack(a) \/ Verify(a) \/ Find(a) \/ SendPost(a) \/ PostReturns(a)
           \/ Poll(a) \/ Return(a)
  BY <1>4 DEF LoadRow, LoadReplay, ReadDryRun, ReadApproval, FetchPatched, FetchOriginal,
              SendPut, PutReturns, ReadBack, Verify, Find, SendPost, PostReturns, Poll,
              Return, rowVars, runsVars
<1>5. CASE \/ LogRecovered(a) \/ LogStarting(a) \/ LogVerified(a) \/ LogFound(a)
           \/ LogRetry(a) \/ LogStarted(a)
  BY <1>5 DEF LogRecovered, LogStarting, LogVerified, LogFound, LogRetry, LogStarted, Log,
              rowVars, runsVars
<1>6. CASE Refuse(a) \/ Fault(a)
  BY <1>6 DEF Refuse, Fault, LoadBreaks, Break, ReleaseBreaks, Raise, rowVars, runsVars
<1> QED
  BY <1>1, <1>2, <1>3, <1>4, <1>5, <1>6 DEF Step

(* state_store.py:250-361: whatever remediations do, crashes included, the  *)
(* table goes through the transactions of RunsSpec, with tokens that are    *)
(* new when they are claimed with: what is proved of the table holds here.  *)
THEOREM RemediationImplementsRuns == Spec => RunsSpec
<1>1. Init => RunsInit
  BY DEF Init
<1>2. TypeInv /\ [Next]_vars => [RunsNext]_runsVars
  <2>1. ASSUME NEW p \in Proposals, LeaseExpires(p)
        PROVE  RunsNext
    BY <2>1 DEF LeaseExpires, RunsNext
  <2>2. Crash \/ Environment \/ People \/ UNCHANGED vars => UNCHANGED runsVars
    BY DEF Crash, Environment, People, vars, rowVars, runsVars
  <2> QED
    BY <2>1, <2>2, CallUsesTable DEF Next
<1> QED
  BY <1>1, <1>2, TypeInvariant, PTL DEF Spec, RunsSpec

-----------------------------------------------------------------------------
(* At most one retry per proposal, with leases that run out under slow     *)
(* calls, with crashes at any point, and with requests that take effect    *)
(* late.  The argument: only the owner writes a row.  A call that owns its *)
(* row and is on its way to the retry knows that the row is in an early    *)
(* stage; a call that is certain to request the retry, or has requested    *)
(* it, has moved the row out of these stages, and nothing moves it back.   *)
(* So the transaction of set_remediation_stage that writes retry_starting  *)
(* finds no other call that has asked.                                     *)

(* A call that is certain to request the retry, or has requested it.        *)
Committed(a) == pc[a] \in {"log_retry", "post"} \/ Requested(a)

CommittedIsRecorded ==
  \A a \in Attempts : Committed(a) => runs[target[a]].stage \in RetryPhase

OneCommitted ==
  \A a, b \in Attempts :
    (Committed(a) /\ Committed(b) /\ target[a] = target[b]) => a = b

IdleHasNotAsked == \A a \in Attempts : pc[a] = "idle" => ~Committed(a)

(* Where the local copy of the stage is up to date, as long as the call     *)
(* owns the row ...                                                         *)
FreshPcs == {"read_dry", "read_approval", "log_recovered", "log_verified", "verify"}

StageIsFresh ==
  \A a \in Attempts :
    (pc[a] \in FreshPcs /\ Owns(target[a], a))
      => local[a].stage = runs[target[a]].stage

(* ... and where the call is on its way to the retry.                       *)
EarlyPcs == {"fetch", "save_recovered", "save_starting", "log_starting", "put",
             "put_wait", "readback", "save_verified", "save_retry"}

EarlyStages == {"claimed", "workflow_update_starting", "workflow_verified"}

EarlyCallEarlyRow ==
  \A a \in Attempts :
    (pc[a] \in EarlyPcs /\ Owns(target[a], a))
      => runs[target[a]].stage \in EarlyStages

RowIsSound ==
  \A p \in Proposals :
    /\ runs[p].owner # None => runs[p].stage \notin {"none", "completed"}
    /\ Completed(p) <=> runs[p].stage = "completed"

(* The inductive part, on top of the types.                                 *)
OneRetry ==
  /\ CommittedIsRecorded
  /\ OneCommitted
  /\ IdleHasNotAsked
  /\ StageIsFresh
  /\ EarlyCallEarlyRow
  /\ RowIsSound

RetryInv == TypeInv /\ OneRetry

LEMMA RetryInvSuffices == RetryInv => AtMostOneRetry
  BY DEF RetryInv, OneRetry, OneCommitted, Committed, AtMostOneRetry

-----------------------------------------------------------------------------
(* Two frame lemmas: a call moves and the table stays; the owner writes its *)
(* row and moves.                                                           *)

LEMMA CallGoesOn ==
  ASSUME RetryInv, NEW a \in Attempts, target[a] \in Proposals,
         NEW next \in LivePcs \cup EndPcs, Goto(a, next),
         UNCHANGED <<runs, target>>,
         \A b \in Attempts \ {a} : local'[b] = local[b],
         \A b \in Attempts : Committed(b)' => Committed(b),
         (next \in FreshPcs /\ Owns(target[a], a))
            => local'[a].stage = runs[target[a]].stage,
         (next \in EarlyPcs /\ Owns(target[a], a))
            => runs[target[a]].stage \in EarlyStages
  PROVE  OneRetry'
<1>1. next # "idle" /\ pc'[a] = next /\ \A b \in Attempts \ {a} : pc'[b] = pc[b]
  BY DEF LivePcs, SavePcs, EndPcs, Goto, RetryInv, TypeInv, TypeOK, AttemptsTypeOK
<1>2. CommittedIsRecorded' /\ OneCommitted'
  BY DEF RetryInv, OneRetry, CommittedIsRecorded, OneCommitted
<1>3. IdleHasNotAsked'
  BY <1>1 DEF RetryInv, OneRetry, IdleHasNotAsked
<1>4. StageIsFresh'
  BY <1>1 DEF RetryInv, OneRetry, StageIsFresh, Owns
<1>5. EarlyCallEarlyRow'
  BY <1>1 DEF RetryInv, OneRetry, EarlyCallEarlyRow, Owns
<1>6. RowIsSound'
  BY DEF RetryInv, OneRetry, RowIsSound, Completed
<1> QED
  BY <1>2, <1>3, <1>4, <1>5, <1>6 DEF OneRetry

LEMMA OwnerWrites ==
  ASSUME RetryInv, NEW a \in Attempts, target[a] \in Proposals,
         Owns(target[a], a),
         NEW next \in LivePcs \cup EndPcs, Goto(a, next),
         UNCHANGED <<target, posts, execs>>,
         \A b \in Attempts \ {a} : local'[b] = local[b],
         \A q \in Proposals \ {target[a]} : runs'[q] = runs[q],
         runs'[target[a]].owner \in {a, None},
         runs'[target[a]].owner # None
            => runs'[target[a]].stage \notin {"none", "completed"},
         runs'[target[a]].response # None <=> runs'[target[a]].stage = "completed",
         runs[target[a]].stage \in RetryPhase => runs'[target[a]].stage \in RetryPhase,
         next \in {"log_retry", "post"}
            => /\ runs'[target[a]].stage \in RetryPhase
               /\ runs[target[a]].stage \in EarlyStages,
         (next \in FreshPcs /\ runs'[target[a]].owner = a)
            => local'[a].stage = runs'[target[a]].stage,
         (next \in EarlyPcs /\ runs'[target[a]].owner = a)
            => runs'[target[a]].stage \in EarlyStages
  PROVE  OneRetry'
<1> DEFINE p == target[a]
<1>0. a # None /\ \A b \in Attempts : b # None
  BY RemediationAssumption
<1>1. next # "idle" /\ pc'[a] = next /\ \A b \in Attempts \ {a} : pc'[b] = pc[b]
  BY DEF LivePcs, SavePcs, EndPcs, Goto, RetryInv, TypeInv, TypeOK, AttemptsTypeOK
<1> DEFINE row == runs'[p]
<1>2. runs'[p] = row /\ \A q \in Proposals \ {p} : runs'[q] = runs[q]
  OBVIOUS
<1>3. \A b \in Attempts \ {a} : Committed(b)' => Committed(b)
  BY <1>1 DEF Committed, Requested
<1>4. Committed(a)' => Committed(a) \/ next \in {"log_retry", "post"}
  BY <1>1 DEF Committed, Requested
<1>5. \A b \in Attempts : Committed(b) => pc[b] # "idle" /\ target[b] \in Proposals
  BY DEF RetryInv, TypeInv, HasTarget, OneRetry, IdleHasNotAsked
<1>6. CommittedIsRecorded'
  <2> SUFFICES ASSUME NEW b \in Attempts, Committed(b)'
               PROVE  runs'[target[b]].stage \in RetryPhase
    BY DEF CommittedIsRecorded
  <2>1. CASE Committed(b)
    BY <1>2, <1>5, <2>1 DEF RetryInv, OneRetry, CommittedIsRecorded
  <2>2. CASE ~Committed(b)
    BY <1>2, <1>3, <1>4, <2>2
  <2> QED
    BY <2>1, <2>2
<1>7. OneCommitted'
  <2>1. ASSUME next \in {"log_retry", "post"}, NEW b \in Attempts, Committed(b)
        PROVE  target[b] # p
    BY <2>1 DEF RetryInv, OneRetry, CommittedIsRecorded, EarlyStages, RetryPhase
  <2> QED
    BY <1>3, <1>4, <2>1 DEF RetryInv, OneRetry, OneCommitted
<1>8. IdleHasNotAsked'
  BY <1>1, <1>3 DEF RetryInv, OneRetry, IdleHasNotAsked
<1>9. \A b \in Attempts \ {a} : Owns(target[b], b)' /\ pc[b] # "idle"
         => target[b] # p /\ Owns(target[b], b)
  BY <1>0, <1>2 DEF Owns, RetryInv, TypeInv, HasTarget
<1>10. StageIsFresh'
  <2> SUFFICES ASSUME NEW b \in Attempts, pc'[b] \in FreshPcs, Owns(target[b], b)'
               PROVE  local'[b].stage = runs'[target[b]].stage
    BY DEF StageIsFresh
  <2>1. CASE b = a
    BY <1>1, <1>2, <2>1 DEF Owns
  <2>2. CASE b # a
    BY <1>1, <1>2, <1>9, <2>2
       DEF RetryInv, TypeInv, HasTarget, OneRetry, StageIsFresh, FreshPcs
  <2> QED
    BY <2>1, <2>2
<1>11. EarlyCallEarlyRow'
  <2> SUFFICES ASSUME NEW b \in Attempts, pc'[b] \in EarlyPcs, Owns(target[b], b)'
               PROVE  runs'[target[b]].stage \in EarlyStages
    BY DEF EarlyCallEarlyRow
  <2>1. CASE b = a
    BY <1>1, <1>2, <2>1 DEF Owns
  <2>2. CASE b # a
    BY <1>1, <1>2, <1>9, <2>2
       DEF RetryInv, TypeInv, HasTarget, OneRetry, EarlyCallEarlyRow, EarlyPcs
  <2> QED
    BY <2>1, <2>2
<1>12. RowIsSound'
  BY <1>2 DEF RetryInv, OneRetry, RowIsSound, Completed
<1> QED
  BY <1>6, <1>7, <1>8, <1>10, <1>11, <1>12 DEF OneRetry

-----------------------------------------------------------------------------
(* One lemma per group of actions.                                          *)

LEMMA BeginRetry ==
  ASSUME RetryInv, NEW a \in Attempts, NEW p \in Proposals,
         Begin(a, p) \/ BeginReplay(a, p)
  PROVE  OneRetry'
<1>0. \A b \in Attempts : b # None
  BY RemediationAssumption
<1>1. /\ pc[a] = "idle" /\ pc'[a] \in {"load", "done"}
      /\ target'[a] = p /\ UNCHANGED <<posts, execs, local>>
      /\ \A b \in Attempts \ {a} : pc'[b] = pc[b] /\ target'[b] = target[b]
  BY DEF Begin, BeginReplay, Goto, n8nVars, RetryInv, TypeInv, TypeOK, AttemptsTypeOK
<1>2. ~Committed(a)'
  BY <1>1 DEF RetryInv, OneRetry, IdleHasNotAsked, Committed, Requested
<1>3. \A b \in Attempts \ {a} : Committed(b)' <=> Committed(b)
  BY <1>1 DEF Committed, Requested
<1>4. \A b \in Attempts : Committed(b) => target[b] \in Proposals
  BY DEF RetryInv, TypeInv, HasTarget, OneRetry, IdleHasNotAsked
<1>5. IdleHasNotAsked' /\ OneCommitted'
  BY <1>1, <1>2, <1>3 DEF RetryInv, OneRetry, IdleHasNotAsked, OneCommitted
<1>6. \A b \in Attempts \ {a} : pc[b] # "idle" => target[b] \in Proposals
  BY DEF RetryInv, TypeInv, HasTarget
<1>7. pc'[a] \notin FreshPcs \cup EarlyPcs
  BY <1>1 DEF FreshPcs, EarlyPcs
<1>8. CASE Begin(a, p)
  <2>1. /\ ~Completed(p)
        /\ runs'[p].owner = a /\ runs'[p].response = runs[p].response
        /\ runs'[p].stage = IF runs[p].stage = "none" THEN "claimed" ELSE runs[p].stage
        /\ \A q \in Proposals \ {p} : runs'[q] = runs[q]
    BY <1>8 DEF Begin, Claim, TakeRow, Claimable, RetryInv, TypeInv, TypeOK, RunsTypeOK, Rows
  <2>2. CommittedIsRecorded'
    BY <1>1, <1>2, <1>3, <1>4, <2>1
       DEF RetryInv, OneRetry, CommittedIsRecorded, RetryPhase
  <2>3. StageIsFresh'
    BY <1>1, <1>6, <1>7, <2>1 DEF RetryInv, OneRetry, StageIsFresh, Owns, FreshPcs
  <2>4. EarlyCallEarlyRow'
    BY <1>1, <1>6, <1>7, <2>1 DEF RetryInv, OneRetry, EarlyCallEarlyRow, Owns, EarlyPcs
  <2>5. RowIsSound'
    BY <1>0, <2>1 DEF RetryInv, OneRetry, RowIsSound, Completed
  <2> QED
    BY <1>5, <2>2, <2>3, <2>4, <2>5 DEF OneRetry
<1>9. CASE BeginReplay(a, p)
  <2>1. UNCHANGED runs
    BY <1>9 DEF BeginReplay, rowVars
  <2>2. CommittedIsRecorded'
    BY <1>1, <1>2, <1>3, <2>1 DEF RetryInv, OneRetry, CommittedIsRecorded
  <2>3. StageIsFresh'
    BY <1>1, <1>7, <2>1 DEF RetryInv, OneRetry, StageIsFresh, Owns
  <2>4. EarlyCallEarlyRow'
    BY <1>1, <1>7, <2>1 DEF RetryInv, OneRetry, EarlyCallEarlyRow, Owns
  <2>5. RowIsSound'
    BY <2>1 DEF RetryInv, OneRetry, RowIsSound, Completed
  <2> QED
    BY <1>5, <2>2, <2>3, <2>4, <2>5 DEF OneRetry
<1> QED
  BY <1>8, <1>9

LEMMA StartedRetry ==
  ASSUME RetryInv, NEW a \in Attempts, pc[a] # "idle"
  PROVE  /\ target[a] \in Proposals
         /\ local[a] \in Locals
         /\ runs[target[a]] \in Rows
         /\ Owns(target[a], a) =>
              /\ runs[target[a]].stage \notin {"none", "completed"}
              /\ runs[target[a]].response = None
         /\ pc[a] \in FreshPcs /\ Owns(target[a], a)
              => local[a].stage = runs[target[a]].stage
         /\ pc[a] \in EarlyPcs /\ Owns(target[a], a)
              => runs[target[a]].stage \in EarlyStages
  BY RemediationAssumption
     DEF RetryInv, OneRetry, TypeInv, TypeOK, AttemptsTypeOK, HasTarget, RunsTypeOK,
         StageIsFresh, EarlyCallEarlyRow, RowIsSound, Completed, Owns

(* A call that reads, checks, logs or gives up, outside the fresh and the   *)
(* early part of the code.                                                  *)
LEMMA CallGoesAway ==
  ASSUME RetryInv, NEW a \in Attempts, pc[a] # "idle",
         NEW next \in LivePcs \cup EndPcs, Goto(a, next),
         UNCHANGED <<runs, target, posts, execs>>,
         \A b \in Attempts \ {a} : local'[b] = local[b],
         next \notin FreshPcs \cup EarlyPcs,
         next \in {"log_retry", "post"} => pc[a] \in {"log_retry", "post"}
  PROVE  OneRetry'
<1>1. target[a] \in Proposals
  BY StartedRetry
<1>2. \A b \in Attempts : Committed(b)' => Committed(b)
  BY DEF Committed, Requested, Goto, RetryInv, TypeInv, TypeOK, AttemptsTypeOK
<1> QED
  BY <1>1, <1>2, CallGoesOn

(* A call that goes on inside it.                                           *)
LEMMA CallStaysInformed ==
  ASSUME RetryInv, NEW a \in Attempts, pc[a] # "idle",
         NEW next \in LivePcs \cup EndPcs, Goto(a, next),
         UNCHANGED <<runs, target, posts, execs>>,
         \A b \in Attempts \ {a} : local'[b] = local[b],
         next \notin {"log_retry", "post"},
         next \in FreshPcs => pc[a] \in FreshPcs /\ local'[a].stage = local[a].stage,
         next \in EarlyPcs =>
           \/ pc[a] \in EarlyPcs
           \/ pc[a] \in FreshPcs /\
                (runs[target[a]].stage \notin {"none", "completed"}
                 /\ local[a].stage = runs[target[a]].stage
                 => local[a].stage \in EarlyStages)
  PROVE  OneRetry'
<1>1. target[a] \in Proposals
  BY StartedRetry
<1>2. \A b \in Attempts : Committed(b)' => Committed(b)
  BY DEF Committed, Requested, Goto, RetryInv, TypeInv, TypeOK, AttemptsTypeOK
<1>3. Owns(target[a], a) /\ next \in FreshPcs => local'[a].stage = runs[target[a]].stage
  BY StartedRetry
<1>4. Owns(target[a], a) /\ next \in EarlyPcs => runs[target[a]].stage \in EarlyStages
  BY StartedRetry
<1> QED
  BY <1>1, <1>2, <1>3, <1>4, CallGoesOn

LEMMA LoadRetry ==
  ASSUME RetryInv, NEW a \in Attempts,
         LoadRow(a) \/ LoadReplay(a) \/ LoadBreaks(a)
  PROVE  OneRetry'
<1> USE DEF LivePcs, EndPcs, FreshPcs, EarlyPcs
<1>1. pc[a] = "load" /\ UNCHANGED <<runs, target, posts, execs>>
  BY DEF LoadRow, LoadReplay, LoadBreaks, rowVars, n8nVars
<1>2. CASE LoadRow(a)
  <2>1. \A b \in Attempts : Committed(b)' => Committed(b)
    BY <1>1, <1>2
       DEF LoadRow, Committed, Requested, Goto, RetryInv, TypeInv, TypeOK, AttemptsTypeOK
  <2>2. local'[a].stage = runs[target[a]].stage
    BY <1>2 DEF LoadRow, Blank, RetryInv, TypeInv, TypeOK, AttemptsTypeOK
  <2>3. \A b \in Attempts \ {a} : local'[b] = local[b]
    BY <1>2 DEF LoadRow, RetryInv, TypeInv, TypeOK, AttemptsTypeOK
  <2> QED
    BY <1>1, <1>2, <2>1, <2>2, <2>3, StartedRetry, CallGoesOn DEF LoadRow
<1>3. CASE LoadReplay(a)
  BY <1>1, <1>3, CallGoesAway DEF LoadReplay
<1>4. CASE LoadBreaks(a)
  BY <1>1, <1>4, CallGoesAway DEF LoadBreaks
<1> QED
  BY <1>2, <1>3, <1>4

LEMMA LocalOfOthers ==
  ASSUME RetryInv, NEW a \in Attempts, NEW l, local' = [local EXCEPT ![a] = l]
  PROVE  local'[a] = l /\ \A b \in Attempts \ {a} : local'[b] = local[b]
  BY DEF RetryInv, TypeInv, TypeOK, AttemptsTypeOK

(* From the evidence to the verified workflow.                              *)
LEMMA UpdateRetry ==
  ASSUME RetryInv, NEW a \in Attempts,
         \/ ReadDryRun(a) \/ ReadApproval(a) \/ FetchPatched(a) \/ FetchOriginal(a)
         \/ SendPut(a) \/ PutReturns(a) \/ ReadBack(a) \/ Verify(a)
  PROVE  OneRetry'
<1> USE DEF LivePcs, SavePcs, EndPcs, FreshPcs, EarlyPcs
<1>1. pc[a] # "idle" /\ UNCHANGED <<runs, target, posts, execs>>
  BY DEF ReadDryRun, ReadApproval, FetchPatched, FetchOriginal, SendPut, PutReturns,
         ReadBack, Verify, rowVars, n8nVars
<1>2. local[a] \in Locals
  BY <1>1, StartedRetry
<1>3. CASE ReadDryRun(a)
  <2>1. PICK s : local' = [local EXCEPT ![a] = [local[a] EXCEPT !.dry = s]]
    BY <1>3 DEF ReadDryRun
  <2>2. local'[a].stage = local[a].stage
    BY <1>2, <2>1, LocalOfOthers DEF Locals
  <2> QED
    BY <1>1, <1>3, <2>1, <2>2, LocalOfOthers, CallStaysInformed DEF ReadDryRun
<1>4. CASE ReadApproval(a)
  <2>1. CASE local[a].stage \in BeforeVerified
    BY <1>1, <1>4, <2>1, CallStaysInformed DEF ReadApproval, BeforeVerified, EarlyStages
  <2>2. CASE local[a].stage \notin BeforeVerified
    BY <1>1, <1>4, <2>2, CallStaysInformed DEF ReadApproval
  <2> QED
    BY <2>1, <2>2
<1>5. CASE FetchPatched(a)
  BY <1>1, <1>5, CallStaysInformed DEF FetchPatched
<1>6. CASE FetchOriginal(a)
  <2>1. PICK l : local' = [local EXCEPT ![a] = l]
    BY <1>6 DEF FetchOriginal
  <2> QED
    BY <1>1, <1>6, <2>1, LocalOfOthers, CallStaysInformed DEF FetchOriginal
<1>7. CASE SendPut(a)
  BY <1>1, <1>7, CallStaysInformed DEF SendPut
<1>8. CASE PutReturns(a)
  BY <1>1, <1>8, CallStaysInformed DEF PutReturns
<1>9. CASE ReadBack(a)
  BY <1>1, <1>9, CallStaysInformed DEF ReadBack
<1>10. CASE Verify(a)
  <2>1. CASE local[a].stage \in {"retry_starting", "retry_started"}
    BY <1>1, <1>10, <2>1, CallStaysInformed DEF Verify, AfterVerify
  <2>2. CASE local[a].stage \notin {"retry_starting", "retry_started"}
    <3>1. Goto(a, "save_retry") /\ UNCHANGED local /\ pc[a] = "verify"
      BY <1>10, <2>2 DEF Verify, AfterVerify
    <3>2. local[a].stage \notin {"none", "completed"} => local[a].stage \in EarlyStages
      BY <1>2, <2>2 DEF Locals, Stages, EarlyStages
    <3> QED
      BY <1>1, <3>1, <3>2, CallStaysInformed
  <2> QED
    BY <2>1, <2>2
<1> QED
  BY <1>3, <1>4, <1>5, <1>6, <1>7, <1>8, <1>9, <1>10

(* Events, answers and the end.                                             *)
LEMMA OtherRetry ==
  ASSUME RetryInv, NEW a \in Attempts,
         \/ LogRecovered(a) \/ LogStarting(a) \/ LogVerified(a)
         \/ LogFound(a) \/ LogRetry(a) \/ LogStarted(a)
         \/ Find(a) \/ PostReturns(a) \/ Poll(a) \/ Return(a)
         \/ Refuse(a) \/ Break(a) \/ ReleaseBreaks(a)
  PROVE  OneRetry'
<1> USE DEF LivePcs, SavePcs, EndPcs, FreshPcs, EarlyPcs
<1>1. CASE LogRecovered(a) \/ LogVerified(a)
  BY <1>1, CallStaysInformed DEF LogRecovered, LogVerified, Log, rowVars, n8nVars
<1>2. CASE LogStarting(a)
  BY <1>2, CallStaysInformed DEF LogStarting, Log, rowVars, n8nVars
<1>3. CASE LogFound(a) \/ LogRetry(a) \/ LogStarted(a)
  BY <1>3, CallGoesAway DEF LogFound, LogRetry, LogStarted, Log, rowVars, n8nVars
<1>4. CASE Find(a) \/ PostReturns(a) \/ Poll(a) \/ Return(a) \/ ReleaseBreaks(a)
  <2>1. PICK next \in {"save_found", "save_started", "complete", "done", "failed"} :
          /\ pc[a] # "idle" /\ Goto(a, next)
          /\ UNCHANGED <<runs, target, posts, execs>>
    BY <1>4 DEF Find, PostReturns, Poll, Return, ReleaseBreaks, rowVars, n8nVars
  <2>2. PICK l : local' = [local EXCEPT ![a] = l]
    BY <1>4 DEF Find, PostReturns, Poll, Return, ReleaseBreaks
  <2> QED
    BY <2>1, <2>2, LocalOfOthers, CallGoesAway
<1>5. CASE Refuse(a) \/ Break(a)
  <2>1. /\ pc[a] # "idle" /\ Goto(a, "releasing")
        /\ UNCHANGED <<runs, target, local, posts, execs>>
    BY <1>5 DEF Refuse, Break, NoEvidence, Unverified, Stale, RetryUnknown,
                LeaseLost, Raise, rowVars, n8nVars
  <2> QED
    BY <2>1, CallGoesAway
<1> QED
  BY <1>1, <1>2, <1>3, <1>4, <1>5

LEMMA SendPostRetry ==
  ASSUME RetryInv, NEW a \in Attempts, SendPost(a)
  PROVE  OneRetry'
<1>1. \A b \in Attempts : Committed(b)' => Committed(b)
  BY DEF SendPost, Committed, Requested, Goto, RetryInv, TypeInv, TypeOK, AttemptsTypeOK
<1> QED
  BY <1>1, StartedRetry, CallGoesOn
     DEF SendPost, rowVars, LivePcs, FreshPcs, EarlyPcs

(* The owner moves the stage.                                               *)
LEMMA SaveRetryInv ==
  ASSUME RetryInv, NEW a \in Attempts, NEW at \in LivePcs,
         NEW stage \in Stages \ {"none", "completed"},
         NEW expected \in Definitions \cup {None}, NEW retryId \in RetryIds \cup {None},
         NEW next \in LivePcs, Save(a, at, stage, expected, retryId, next),
         runs[target[a]].stage \in RetryPhase => stage \in RetryPhase,
         next \notin EarlyPcs \/ stage \in EarlyStages,
         next \in {"log_retry", "post"}
           => stage \in RetryPhase /\ runs[target[a]].stage \in EarlyStages
  PROVE  OneRetry'
<1>1. pc[a] # "idle" /\ Owns(target[a], a)
  BY DEF Save, SetStage, LivePcs, SavePcs
<1>2. /\ target[a] \in Proposals /\ runs[target[a]] \in Rows
      /\ runs[target[a]].response = None /\ local[a] \in Locals
  BY <1>1, StartedRetry
<1>3. /\ runs'[target[a]].stage = stage
      /\ runs'[target[a]].owner = a
      /\ runs'[target[a]].response = None
      /\ \A q \in Proposals \ {target[a]} : runs'[q] = runs[q]
  BY <1>1, <1>2
     DEF Save, SetStage, Owns, Rows, RetryInv, TypeInv, TypeOK, RunsTypeOK
<1>4. local'[a].stage = stage /\ \A b \in Attempts \ {a} : local'[b] = local[b]
  BY <1>2 DEF Save, Locals, RetryInv, TypeInv, TypeOK, AttemptsTypeOK
<1>5. Goto(a, next) /\ UNCHANGED <<target, posts, execs>>
  BY DEF Save, n8nVars
<1> QED
  BY <1>1, <1>2, <1>3, <1>4, <1>5, OwnerWrites

LEMMA RecordRetry ==
  ASSUME RetryInv, NEW a \in Attempts,
         \/ SaveRecovered(a) \/ SaveStarting(a) \/ SaveVerified(a)
         \/ SaveFound(a) \/ SaveRetry(a) \/ SaveStarted(a)
  PROVE  OneRetry'
<1> USE DEF LivePcs, SavePcs, EarlyPcs, EarlyStages, RetryPhase, Stages
<1>1. pc[a] # "idle" /\ Owns(target[a], a) /\ local[a] \in Locals
  BY StartedRetry DEF SaveRecovered, SaveStarting, SaveVerified, SaveFound, SaveRetry,
                      SaveStarted, Save, SetStage
<1>2. CASE SaveRecovered(a)
  BY <1>1, <1>2, StartedRetry, SaveRetryInv DEF SaveRecovered, Save
<1>3. CASE SaveStarting(a)
  BY <1>1, <1>3, StartedRetry, SaveRetryInv DEF SaveStarting, Save, Locals
<1>4. CASE SaveVerified(a)
  BY <1>1, <1>4, StartedRetry, SaveRetryInv DEF SaveVerified, Save
<1>5. CASE SaveFound(a)
  BY <1>1, <1>5, SaveRetryInv DEF SaveFound, Locals
<1>6. CASE SaveRetry(a)
  BY <1>1, <1>6, StartedRetry, SaveRetryInv DEF SaveRetry, Save
<1>7. CASE SaveStarted(a)
  BY <1>1, <1>7, SaveRetryInv DEF SaveStarted, Locals
<1> QED
  BY <1>2, <1>3, <1>4, <1>5, <1>6, <1>7

(* The owner gives the row back.                                            *)
LEMMA EndRetry ==
  ASSUME RetryInv, NEW a \in Attempts, CompleteRun(a) \/ Release(a)
  PROVE  OneRetry'
<1> DEFINE p == target[a]
<1> USE DEF LivePcs, SavePcs, EndPcs, FreshPcs, EarlyPcs
<1>1. /\ pc[a] # "idle" /\ p \in Proposals /\ runs[p] \in Rows
      /\ UNCHANGED <<target, posts, execs>>
  BY StartedRetry DEF CompleteRun, Release, n8nVars
<1>2. CASE CompleteRun(a)
  <2>1. local[a].response # None
    BY <1>2, NoneAssumption DEF CompleteRun, RetryInv, TypeInv, HasRead, Fits
  <2>2. /\ runs'[p].stage = "completed" /\ runs'[p].owner = None
        /\ runs'[p].response # None
        /\ \A q \in Proposals \ {p} : runs'[q] = runs[q]
    BY <1>1, <1>2, <2>1
       DEF CompleteRun, Complete, Rows, RetryInv, TypeInv, TypeOK, RunsTypeOK
  <2>3. Owns(p, a) /\ Goto(a, "log_completed") /\ UNCHANGED local
    BY <1>2 DEF CompleteRun, Complete
  <2> QED
    BY <1>1, <2>2, <2>3, OwnerWrites, RemediationAssumption DEF RetryPhase
<1>3. CASE Release(a) /\ Owns(p, a)
  <2>1. runs[p].response = None /\ runs[p].stage # "completed"
    BY <1>1, <1>3, StartedRetry
  <2>2. /\ runs'[p].stage = runs[p].stage /\ runs'[p].owner = None
        /\ runs'[p].response = None
        /\ \A q \in Proposals \ {p} : runs'[q] = runs[q]
    BY <1>1, <1>3, <2>1
       DEF Release, ReleaseRow, Rows, RetryInv, TypeInv, TypeOK, RunsTypeOK
  <2>3. Goto(a, "failed") /\ \A b \in Attempts \ {a} : local'[b] = local[b]
    BY <1>3, LocalOfOthers DEF Release
  <2> QED
    BY <1>1, <1>3, <2>1, <2>2, <2>3, OwnerWrites, RemediationAssumption
<1>4. CASE Release(a) /\ ~Owns(p, a)
  <2>1. UNCHANGED runs /\ Goto(a, "failed")
    BY <1>4 DEF Release, ReleaseRow
  <2>2. \A b \in Attempts \ {a} : local'[b] = local[b]
    BY <1>4, LocalOfOthers DEF Release
  <2> QED
    BY <1>1, <2>1, <2>2, CallGoesAway
<1> QED
  BY <1>2, <1>3, <1>4

LEMMA StepRetry ==
  ASSUME RetryInv, NEW a \in Attempts, Step(a) \/ Fault(a)
  PROVE  OneRetry'
  BY LoadRetry, UpdateRetry, OtherRetry, SendPostRetry, RecordRetry, EndRetry
     DEF Step, Fault

LEMMA CrashRetry ==
  ASSUME RetryInv, Crash
  PROVE  OneRetry'
<1>1. \A b \in Attempts : (pc'[b] = pc[b] /\ ~Live(b)) \/ pc'[b] = "dead"
  BY DEF Crash
<1>2. \A b \in Attempts : Committed(b)' => Committed(b)
  BY <1>1 DEF Crash, n8nVars, Committed, Requested
<1>3. \A b \in Attempts : pc'[b] \notin FreshPcs \cup EarlyPcs
  BY <1>1 DEF Live, LivePcs, SavePcs, FreshPcs, EarlyPcs
<1> QED
  BY <1>1, <1>2, <1>3
     DEF Crash, rowVars, RetryInv, OneRetry, CommittedIsRecorded, OneCommitted,
         IdleHasNotAsked, StageIsFresh, EarlyCallEarlyRow, RowIsSound, Completed

LEMMA LeaseExpiresRetry ==
  ASSUME RetryInv, NEW p \in Proposals, LeaseExpires(p)
  PROVE  OneRetry'
<1>1. \A q \in Proposals : /\ runs'[q].stage = runs[q].stage
                           /\ runs'[q].owner = runs[q].owner
                           /\ runs'[q].response = runs[q].response
  BY DEF LeaseExpires, LeaseRunsOut, RetryInv, TypeInv, TypeOK, RunsTypeOK, Rows
<1>2. UNCHANGED <<pc, target, local>> /\ \A b \in Attempts : Committed(b)' <=> Committed(b)
  BY DEF LeaseExpires, n8nVars, attemptVars, Committed, Requested
<1>3. \A b \in Attempts : pc[b] # "idle" => target[b] \in Proposals
  BY DEF RetryInv, TypeInv, HasTarget
<1>4. CommittedIsRecorded' /\ OneCommitted' /\ IdleHasNotAsked'
  BY <1>1, <1>2, <1>3 DEF RetryInv, OneRetry, CommittedIsRecorded, OneCommitted,
                          IdleHasNotAsked
<1>5. StageIsFresh' /\ EarlyCallEarlyRow'
  BY <1>1, <1>2, <1>3 DEF RetryInv, OneRetry, StageIsFresh, EarlyCallEarlyRow, Owns,
                          FreshPcs, EarlyPcs
<1>6. RowIsSound'
  BY <1>1 DEF RetryInv, OneRetry, RowIsSound, Completed
<1> QED
  BY <1>4, <1>5, <1>6 DEF OneRetry

(* n8n and people: a retry that is asked for stays asked for, and nobody    *)
(* else asks in the name of a call.                                         *)
LEMMA OutsideAsks ==
  ASSUME TypeInv, NEW a \in Attempts, N8NServes \/ PeopleAct \/ UNCHANGED n8nVars
  PROVE  Requested(a)' => Requested(a)
<1>1. CASE \E m \in puts : LandPut(m)
  BY <1>1 DEF LandPut, Requested
<1>2. CASE \E m \in posts : LandRetry(m)
  BY <1>2 DEF LandRetry, Requested
<1>3. CASE \E x \in execs : FinishExecution(x)
  <2>1. PICK x \in execs, s \in {"success", "error"} :
          execs' = (execs \ {x}) \cup {[x EXCEPT !.status = s]} /\ UNCHANGED posts
    BY <1>3 DEF FinishExecution
  <2>2. [x EXCEPT !.status = s].id = x.id
    BY DEF TypeInv, TypeOK, N8NTypeOK, Execs
  <2> QED
    BY <2>1, <2>2 DEF Requested
<1>4. CASE HumanEdit \/ UNCHANGED n8nVars
  BY <1>4 DEF HumanEdit, n8nVars, Requested
<1>5. CASE \E h \in HumanRetries : HumanRetry(h)
  BY <1>5, N8NAssumption DEF HumanRetry, Requested
<1> QED
  BY <1>1, <1>2, <1>3, <1>4, <1>5 DEF N8NServes, PeopleAct

LEMMA OutsideRetry ==
  ASSUME RetryInv, Environment \/ People \/ UNCHANGED vars
  PROVE  OneRetry'
<1>1. UNCHANGED <<runs, pc, target, local>>
  BY DEF Environment, People, vars, rowVars, attemptVars
<1>2. N8NServes \/ PeopleAct \/ UNCHANGED n8nVars
  BY DEF Environment, People, vars
<1>3. \A b \in Attempts : Committed(b)' => Committed(b)
  BY <1>1, <1>2, OutsideAsks DEF Committed, RetryInv
<1> QED
  BY <1>1, <1>3
     DEF RetryInv, OneRetry, CommittedIsRecorded, OneCommitted, IdleHasNotAsked,
         StageIsFresh, EarlyCallEarlyRow, RowIsSound, Completed, Owns

-----------------------------------------------------------------------------
LEMMA InitRetry == Init => OneRetry
  BY RemediationAssumption
     DEF Init, N8NInit, RunsInit, NoRow, OneRetry, Committed, Requested,
         CommittedIsRecorded, OneCommitted, IdleHasNotAsked, StageIsFresh, FreshPcs,
         EarlyCallEarlyRow, EarlyPcs, RowIsSound, Completed

LEMMA NextRetry == TypeInv /\ OneRetry /\ [Next]_vars => OneRetry'
<1> SUFFICES ASSUME RetryInv, [Next]_vars
             PROVE  OneRetry'
  BY DEF RetryInv
<1>1. ASSUME NEW a \in Attempts, Call(a)
      PROVE  OneRetry'
  BY <1>1, BeginRetry DEF Call
<1>2. ASSUME NEW a \in Attempts, Step(a) \/ Fault(a)
      PROVE  OneRetry'
  BY <1>2, StepRetry
<1>3. CASE Crash
  BY <1>3, CrashRetry
<1>4. ASSUME NEW p \in Proposals, LeaseExpires(p)
      PROVE  OneRetry'
  BY <1>4, LeaseExpiresRetry
<1>5. CASE Environment \/ People \/ UNCHANGED vars
  BY <1>5, OutsideRetry
<1> QED
  BY <1>1, <1>2, <1>3, <1>4, <1>5 DEF Next

(* A call that has requested the retry, or is bound to, has left its row in *)
(* the retry phase; an owner's stage is current (remediation.py:266-319).   *)
THEOREM OneRetryHolds == Spec => []OneRetry
<1>1. Init => OneRetry
  BY InitRetry
<1>2. TypeInv /\ OneRetry /\ [Next]_vars => OneRetry'
  BY NextRetry
<1> QED
  BY <1>1, <1>2, TypeInvariant, PTL DEF Spec

(* Whatever crashes, times out or loses its lease, at most one retry is     *)
(* ever requested for a proposal (remediation.py:266-319).                  *)
THEOREM AtMostOneRetryHolds == Spec => []AtMostOneRetry
<1>1. TypeInv /\ OneRetry => AtMostOneRetry
  BY RetryInvSuffices DEF RetryInv
<1> QED
  BY <1>1, TypeInvariant, OneRetryHolds, PTL
=============================================================================
