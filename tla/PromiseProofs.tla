--------------------------- MODULE PromiseProofs ---------------------------
(***************************************************************************)
(* What the caller of the endpoint is promised, for every instance: the    *)
(* response that is persisted and replayed is true of a retry that n8n has *)
(* (ResponseIsTruthful); and, as long as no call outlives its lease, one   *)
(* call at a time works on a proposal (SingleAttempt) and the remediation  *)
(* implements AtMostOnce (KeepsPromise).                                   *)
(*                                                                         *)
(* The argument for the response.  An id of a retry that a row or a call   *)
(* holds is the id of an execution n8n started for the proposal's own      *)
(* execution; a verdict other than pending was read from an execution that *)
(* has ended, and n8n does not change that one any more.                   *)
(*                                                                         *)
(* The argument for the promise.  Without slow calls a call that runs      *)
(* holds the lease of its row, or the row is completed and the call has    *)
(* nothing to do but to answer: so what it sends it sends before the       *)
(* outcome is decided, and no second call is let in.                       *)
(***************************************************************************)
EXTENDS RecordProofs

(* The table, a call and n8n name retries of the proposal's execution.      *)
IsRetry(p, id) == \E x \in RetriesOf(p) : x.id = id

RowNamesRetry ==
  \A p \in Proposals : runs[p].retryId # None => IsRetry(p, runs[p].retryId)

CallNamesRetry ==
  \A a \in Attempts :
    local[a].retryId # None => pc[a] # "idle" /\ IsRetry(target[a], local[a].retryId)

AsksForOwn ==
  /\ \A m \in posts : m.of = ExecOf[target[m.by]]
  /\ \A x \in execs : x.id \in Attempts => x.of = ExecOf[target[x.id]]

IdNamesExecution == \A x, y \in execs : x.id = y.id => x.of = y.of

(* What a response says of proposal p is true.                              *)
Truthful(p, r) ==
  \E x \in RetriesOf(p) :
    /\ x.id = r.retryId
    /\ r.verification = "success" => x.status = "success"
    /\ r.verification = "failure" => x.status = "error"

CallIsTruthful ==
  \A a \in Attempts : pc[a] = "complete" => Truthful(target[a], local[a].response)

TruthInv ==
  /\ RowNamesRetry
  /\ CallNamesRetry
  /\ AsksForOwn
  /\ IdNamesExecution
  /\ CallIsTruthful
  /\ ResponseIsTruthful

(* Without slow calls.                                                      *)
LiveHolds ==
  \A a \in Attempts : Live(a) =>
    \/ Owns(target[a], a) /\ runs[target[a]].leased
    \/ Completed(target[a]) /\ pc[a] \in {"log_completed", "releasing"}

OnlyDoneAnswered == \A a \in Attempts : answer[a] # None => pc[a] = "done"

AnswersOutcome ==
  \A a \in Attempts :
    pc[a] = "log_completed" => runs[target[a]].response = local[a].response

LeaseInv ==
  /\ LiveHolds
  /\ SingleAttempt
  /\ OnlyDoneAnswered
  /\ AnswersOutcome

-----------------------------------------------------------------------------
(* The response: n8n keeps the retries it has, and their results.           *)

LEMMA RetriesAreKept ==
  ASSUME \A x \in execs : \E y \in execs' :
           /\ y.id = x.id /\ y.of = x.of
           /\ x.status # "running" => y.status = x.status
  PROVE  \A p \in Proposals :
           /\ \A id : IsRetry(p, id) => IsRetry(p, id)'
           /\ \A r : Truthful(p, r) => Truthful(p, r)'
<1> SUFFICES ASSUME NEW p \in Proposals
             PROVE  /\ \A id : IsRetry(p, id) => IsRetry(p, id)'
                    /\ \A r : Truthful(p, r) => Truthful(p, r)'
  OBVIOUS
<1>1. ASSUME NEW id, IsRetry(p, id)
      PROVE  IsRetry(p, id)'
  BY <1>1 DEF IsRetry, RetriesOf
<1>2. ASSUME NEW r, Truthful(p, r)
      PROVE  Truthful(p, r)'
  <2>1. PICK x \in execs :
          /\ x.of = ExecOf[p] /\ x.id = r.retryId
          /\ r.verification = "success" => x.status = "success"
          /\ r.verification = "failure" => x.status = "error"
    BY <1>2 DEF Truthful, RetriesOf
  <2>2. PICK y \in execs' :
          /\ y.id = x.id /\ y.of = x.of
          /\ x.status # "running" => y.status = x.status
    BY <2>1
  <2> QED
    BY <2>1, <2>2 DEF Truthful, RetriesOf
<1> QED
  BY <1>1, <1>2

(* A call moves; n8n does not.                                              *)
LEMMA CallTells ==
  ASSUME RecordInv, TruthInv, NEW a \in Attempts, pc[a] # "idle",
         NEW next \in LivePcs \cup EndPcs, Goto(a, next), UNCHANGED <<target, execs>>,
         \A b \in Attempts \ {a} : local'[b] = local[b],
         \A q \in Proposals \ {target[a]} : runs'[q] = runs[q],
         \A m \in posts' : m \in posts \/ m.of = ExecOf[target[m.by]],
         runs'[target[a]].retryId # None => IsRetry(target[a], runs'[target[a]].retryId),
         runs'[target[a]].response # None => Truthful(target[a], runs'[target[a]].response),
         local'[a].retryId # None => IsRetry(target[a], local'[a].retryId),
         next = "complete" => Truthful(target[a], local'[a].response)
  PROVE  TruthInv'
<1>1. next # "idle" /\ pc'[a] = next /\ \A b \in Attempts \ {a} : pc'[b] = pc[b]
  BY DEF LivePcs, SavePcs, EndPcs, Goto, RecordInv, RetryInv, TypeInv, TypeOK,
         AttemptsTypeOK
<1>2. /\ \A p, id : IsRetry(p, id)' <=> IsRetry(p, id)
      /\ \A p, r : Truthful(p, r)' <=> Truthful(p, r)
  BY DEF IsRetry, Truthful, RetriesOf
<1>3. RowNamesRetry'
  BY <1>2 DEF TruthInv, RowNamesRetry
<1>4. CallNamesRetry'
  BY <1>1, <1>2 DEF TruthInv, CallNamesRetry
<1>5. AsksForOwn' /\ IdNamesExecution'
  BY DEF TruthInv, AsksForOwn, IdNamesExecution
<1>6. CallIsTruthful'
  BY <1>1, <1>2 DEF TruthInv, CallIsTruthful
<1>7. ResponseIsTruthful'
  <2> SUFFICES ASSUME NEW p \in Proposals, Completed(p)'
               PROVE  Truthful(p, runs[p].response)'
    BY DEF ResponseIsTruthful, Truthful
  <2>1. CASE p = target[a]
    BY <2>1 DEF Completed, Truthful, RetriesOf
  <2>2. CASE p # target[a]
    <3>1. runs'[p] = runs[p] /\ runs[p].response # None
      BY <2>2 DEF Completed
    <3> QED
      BY <3>1 DEF TruthInv, ResponseIsTruthful, Truthful, Completed, RetriesOf
  <2> QED
    BY <2>1, <2>2
<1> QED
  BY <1>3, <1>4, <1>5, <1>6, <1>7 DEF TruthInv

LEMMA StartedTruth ==
  ASSUME RecordInv, TruthInv, NEW a \in Attempts, pc[a] # "idle"
  PROVE  /\ target[a] \in Proposals /\ local[a] \in Locals /\ runs[target[a]] \in Rows
         /\ runs[target[a]].retryId # None => IsRetry(target[a], runs[target[a]].retryId)
         /\ runs[target[a]].response # None
              => Truthful(target[a], runs[target[a]].response)
         /\ local[a].retryId # None => IsRetry(target[a], local[a].retryId)
<1>1. target[a] \in Proposals /\ local[a] \in Locals /\ runs[target[a]] \in Rows
  BY StartedRecord
<1>2. runs[target[a]].response # None => Truthful(target[a], runs[target[a]].response)
  BY <1>1 DEF TruthInv, ResponseIsTruthful, Truthful, Completed
<1> QED
  BY <1>1, <1>2 DEF TruthInv, RowNamesRetry, CallNamesRetry

(* A call that only goes on, and forgets or keeps the id it has.            *)
LEMMA CallKeeps ==
  ASSUME RecordInv, TruthInv, NEW a \in Attempts, pc[a] # "idle",
         NEW next \in LivePcs \cup EndPcs, Goto(a, next), next # "complete",
         UNCHANGED <<target, execs, runs, posts>>,
         \A b \in Attempts \ {a} : local'[b] = local[b],
         local'[a].retryId \in {local[a].retryId, None}
  PROVE  TruthInv'
  BY StartedTruth, CallTells

LEMMA WalkTruth ==
  ASSUME RecordInv, TruthInv, NEW a \in Attempts,
         \/ LoadReplay(a) \/ LoadBreaks(a) \/ ReadApproval(a) \/ FetchPatched(a)
         \/ LogRecovered(a) \/ LogStarting(a) \/ SendPut(a) \/ PutReturns(a)
         \/ ReadBack(a) \/ LogVerified(a) \/ Verify(a) \/ LogFound(a) \/ LogRetry(a)
         \/ LogStarted(a) \/ Refuse(a) \/ Break(a)
  PROVE  TruthInv'
<1> USE DEF LivePcs, SavePcs, EndPcs
<1>1. PICK next \in (LivePcs \cup EndPcs) \ {"complete"} :
        /\ pc[a] # "idle" /\ Goto(a, next)
        /\ UNCHANGED <<target, execs, runs, posts, local>>
  <2>1. CASE LoadReplay(a) \/ LoadBreaks(a) \/ ReadApproval(a) \/ FetchPatched(a)
    BY <2>1 DEF LoadReplay, LoadBreaks, ReadApproval, FetchPatched, rowVars, n8nVars
  <2>2. CASE \/ LogRecovered(a) \/ LogStarting(a) \/ LogVerified(a) \/ LogFound(a)
             \/ LogRetry(a) \/ LogStarted(a)
    BY <2>2 DEF LogRecovered, LogStarting, LogVerified, LogFound, LogRetry, LogStarted,
                Log, rowVars, n8nVars
  <2>3. CASE SendPut(a) \/ PutReturns(a) \/ ReadBack(a) \/ Verify(a)
    BY <2>3 DEF SendPut, PutReturns, ReadBack, Verify, AfterVerify, rowVars, n8nVars
  <2>4. CASE Refuse(a) \/ Break(a)
    BY <2>4 DEF Refuse, Break, NoEvidence, Unverified, Stale, RetryUnknown, LeaseLost,
                Raise, rowVars, n8nVars
  <2> QED
    BY <2>1, <2>2, <2>3, <2>4
<1> QED
  BY <1>1, CallKeeps

LEMMA ReadTruth ==
  ASSUME RecordInv, TruthInv, NEW a \in Attempts,
         \/ LoadRow(a) \/ ReadDryRun(a) \/ FetchOriginal(a) \/ Return(a)
         \/ ReleaseBreaks(a)
  PROVE  TruthInv'
<1> USE DEF LivePcs, SavePcs, EndPcs
<1>1. /\ pc[a] # "idle" /\ UNCHANGED <<target, execs, runs, posts>>
      /\ \E next \in (LivePcs \cup EndPcs) \ {"complete"} : Goto(a, next)
  BY DEF LoadRow, ReadDryRun, FetchOriginal, Return, ReleaseBreaks, rowVars, n8nVars
<1>2. local[a] \in Locals /\ runs[target[a]] \in Rows
  BY <1>1, StartedTruth
<1>3. CASE LoadRow(a)
  <2> DEFINE row == runs[target[a]]
             l == [Blank EXCEPT !.stage = row.stage, !.expected = row.expected,
                                !.retryId = row.retryId]
  <2>1. local' = [local EXCEPT ![a] = l] /\ l.retryId = row.retryId
    BY <1>3 DEF LoadRow, Blank
  <2>2. local'[a] = l /\ \A b \in Attempts \ {a} : local'[b] = local[b]
    BY <2>1, LocalOfOthers DEF RecordInv
  <2> QED
    BY <1>1, <1>3, <2>1, <2>2, StartedTruth, CallTells DEF LoadRow
<1>4. CASE ReadDryRun(a) \/ FetchOriginal(a) \/ Return(a) \/ ReleaseBreaks(a)
  <2>1. PICK l : /\ local' = [local EXCEPT ![a] = l]
                 /\ l.retryId \in {local[a].retryId, None}
    <3>1. CASE ReadDryRun(a) \/ FetchOriginal(a)
      BY <1>2, <3>1 DEF ReadDryRun, FetchOriginal, Locals
    <3>2. CASE Return(a) \/ ReleaseBreaks(a)
      BY <3>2 DEF Return, ReleaseBreaks, Blank
    <3> QED
      BY <1>4, <3>1, <3>2
  <2>2. local'[a] = l /\ \A b \in Attempts \ {a} : local'[b] = local[b]
    BY <2>1, LocalOfOthers DEF RecordInv
  <2> QED
    BY <1>1, <2>1, <2>2, CallKeeps
<1> QED
  BY <1>3, <1>4

(* A call takes an id or a verdict from n8n.                                *)
LEMMA LearnTruth ==
  ASSUME RecordInv, TruthInv, NEW a \in Attempts,
         Find(a) \/ PostReturns(a) \/ Poll(a) \/ SendPost(a)
  PROVE  TruthInv'
<1> USE DEF LivePcs, SavePcs, EndPcs
<1>1. pc[a] # "idle" /\ UNCHANGED <<target, execs, runs>>
  BY DEF Find, PostReturns, Poll, SendPost, rowVars, n8nVars
<1>2. local[a] \in Locals /\ target[a] \in Proposals
  BY <1>1, StartedTruth
<1>3. CASE Find(a)
  <2>1. PICK x \in RetriesOf(target[a]) :
          local' = [local EXCEPT ![a] = [local[a] EXCEPT !.retryId = x.id]]
    BY <1>3 DEF Find
  <2>2. /\ local'[a] = [local[a] EXCEPT !.retryId = x.id]
        /\ \A b \in Attempts \ {a} : local'[b] = local[b]
    BY <2>1, LocalOfOthers DEF RecordInv
  <2>3. local'[a].retryId = x.id
    BY <1>2, <2>2 DEF Locals
  <2>4. IsRetry(target[a], x.id)
    BY DEF IsRetry
  <2> QED
    BY <1>1, <1>3, <2>2, <2>3, <2>4, StartedTruth, CallTells DEF Find, n8nVars
<1>4. CASE PostReturns(a)
  <2>1. local' = [local EXCEPT ![a] = [local[a] EXCEPT !.retryId = a]]
    BY <1>4 DEF PostReturns
  <2>2. /\ local'[a] = [local[a] EXCEPT !.retryId = a]
        /\ \A b \in Attempts \ {a} : local'[b] = local[b]
    BY <2>1, LocalOfOthers DEF RecordInv
  <2>3. local'[a].retryId = a
    BY <1>2, <2>2 DEF Locals
  <2>4. IsRetry(target[a], a)
    BY <1>4 DEF PostReturns, TruthInv, AsksForOwn, IsRetry, RetriesOf
  <2> QED
    BY <1>1, <1>4, <2>2, <2>3, <2>4, StartedTruth, CallTells DEF PostReturns, n8nVars
<1>5. CASE Poll(a)
  <2>1. PICK x \in execs :
          /\ x.id = local[a].retryId
          /\ local' = [local EXCEPT ![a] = [local[a] EXCEPT !.response =
                 [retryId |-> x.id, verification |-> VerificationOf(x.status)]]]
    BY <1>5 DEF Poll
  <2> DEFINE r == [retryId |-> x.id, verification |-> VerificationOf(x.status)]
  <2>2. /\ local'[a] = [local[a] EXCEPT !.response = r]
        /\ \A b \in Attempts \ {a} : local'[b] = local[b]
    BY <2>1, LocalOfOthers DEF RecordInv
  <2>3. local'[a].retryId = x.id /\ local'[a].response = r
    BY <1>2, <2>1, <2>2 DEF Locals
  <2>4. x.id # None
    BY RemediationAssumption DEF RecordInv, RetryInv, TypeInv, TypeOK, N8NTypeOK, Execs
  <2>5. x \in RetriesOf(target[a])
    BY <1>1, <2>1, <2>4, StartedTruth DEF IsRetry, RetriesOf, TruthInv, IdNamesExecution
  <2>6. IsRetry(target[a], x.id) /\ Truthful(target[a], r)
    BY <2>5 DEF IsRetry, Truthful, VerificationOf
  <2> QED
    BY <1>1, <1>5, <2>2, <2>3, <2>6, StartedTruth, CallTells DEF Poll, n8nVars
<1>6. CASE SendPost(a)
  BY <1>1, <1>6, StartedTruth, CallTells DEF SendPost
<1> QED
  BY <1>3, <1>4, <1>5, <1>6

(* The owner writes to the row what it has learnt.                          *)
LEMMA SaveTells ==
  ASSUME RecordInv, TruthInv, NEW a \in Attempts, NEW at \in LivePcs,
         NEW stage \in Stages, NEW expected, NEW retryId \in {None, local[a].retryId},
         NEW next \in LivePcs \ {"complete"}, Save(a, at, stage, expected, retryId, next)
  PROVE  TruthInv'
<1>1. pc[a] # "idle" /\ Goto(a, next) /\ UNCHANGED <<target, execs, posts>>
  BY DEF Save, LivePcs, SavePcs, n8nVars
<1>2. target[a] \in Proposals /\ runs[target[a]] \in Rows /\ local[a] \in Locals
  BY <1>1, StartedTruth
<1>3. /\ runs'[target[a]].retryId \in {retryId, runs[target[a]].retryId}
      /\ runs'[target[a]].response = runs[target[a]].response
      /\ \A q \in Proposals \ {target[a]} : runs'[q] = runs[q]
  BY <1>2 DEF Save, SetStage, Coalesce, Rows, RecordInv, RetryInv, TypeInv, TypeOK,
              RunsTypeOK
<1>4. /\ local'[a].retryId = local[a].retryId
      /\ \A b \in Attempts \ {a} : local'[b] = local[b]
  BY <1>2 DEF Save, Locals, RecordInv, RetryInv, TypeInv, TypeOK, AttemptsTypeOK
<1>5. runs'[target[a]].retryId # None => IsRetry(target[a], runs'[target[a]].retryId)
  BY <1>1, <1>3, StartedTruth
<1> QED
  BY <1>1, <1>3, <1>4, <1>5, StartedTruth, CallTells

LEMMA SavesTruth ==
  ASSUME RecordInv, TruthInv, NEW a \in Attempts,
         \/ SaveRecovered(a) \/ SaveStarting(a) \/ SaveVerified(a)
         \/ SaveFound(a) \/ SaveRetry(a) \/ SaveStarted(a)
  PROVE  TruthInv'
  BY SaveTells
     DEF SaveRecovered, SaveStarting, SaveVerified, SaveFound, SaveRetry, SaveStarted,
         LivePcs, SavePcs, Stages

LEMMA EndTruth ==
  ASSUME RecordInv, TruthInv, NEW a \in Attempts, CompleteRun(a) \/ Release(a)
  PROVE  TruthInv'
<1> USE DEF LivePcs, SavePcs, EndPcs
<1>1. pc[a] # "idle" /\ UNCHANGED <<target, execs, posts>>
  BY DEF CompleteRun, Release, n8nVars
<1>2. target[a] \in Proposals /\ runs[target[a]] \in Rows
  BY <1>1, StartedTruth
<1>3. runs \in [Proposals -> Rows]
  BY DEF RecordInv, RetryInv, TypeInv, TypeOK, RunsTypeOK
<1>4. CASE CompleteRun(a)
  <2>1. /\ runs'[target[a]].retryId = runs[target[a]].retryId
        /\ runs'[target[a]].response = local[a].response
        /\ \A q \in Proposals \ {target[a]} : runs'[q] = runs[q]
    BY <1>2, <1>3, <1>4 DEF CompleteRun, Complete, Rows
  <2>2. Truthful(target[a], local[a].response)
    BY <1>4 DEF CompleteRun, TruthInv, CallIsTruthful
  <2> QED
    BY <1>1, <1>4, <2>1, <2>2, StartedTruth, CallTells DEF CompleteRun
<1>5. CASE Release(a)
  <2>1. /\ runs'[target[a]].retryId = runs[target[a]].retryId
        /\ runs'[target[a]].response = runs[target[a]].response
        /\ \A q \in Proposals \ {target[a]} : runs'[q] = runs[q]
    BY <1>2, <1>3, <1>5 DEF Release, ReleaseRow, Rows
  <2>2. local'[a] = Blank /\ \A b \in Attempts \ {a} : local'[b] = local[b]
    BY <1>5, LocalOfOthers DEF Release, RecordInv
  <2>3. local'[a].retryId = None
    BY <2>2 DEF Blank
  <2> QED
    BY <1>1, <1>5, <2>1, <2>2, <2>3, StartedTruth, CallTells DEF Release
<1> QED
  BY <1>4, <1>5

LEMMA StepTruth ==
  ASSUME RecordInv, TruthInv, NEW a \in Attempts, Step(a) \/ Fault(a)
  PROVE  TruthInv'
  BY WalkTruth, ReadTruth, LearnTruth, SavesTruth, EndTruth DEF Step, Fault

-----------------------------------------------------------------------------
(* Steps that are not those of a started call.                              *)
LEMMA BeginTruth ==
  ASSUME RecordInv, TruthInv, NEW a \in Attempts, Call(a)
  PROVE  TruthInv'
<1>1. PICK p \in Proposals : Begin(a, p) \/ BeginReplay(a, p)
  BY DEF Call
<1>2. /\ pc[a] = "idle" /\ pc'[a] \in {"load", "done"} /\ target'[a] = p
      /\ UNCHANGED <<posts, execs, local>>
      /\ \A b \in Attempts \ {a} : pc'[b] = pc[b] /\ target'[b] = target[b]
  BY <1>1 DEF Begin, BeginReplay, Goto, n8nVars, RecordInv, RetryInv, TypeInv, TypeOK,
              AttemptsTypeOK
<1>3. \A q \in Proposals : /\ runs'[q].retryId = runs[q].retryId
                           /\ runs'[q].response = runs[q].response
  <2>1. runs \in [Proposals -> Rows]
    BY DEF RecordInv, RetryInv, TypeInv, TypeOK, RunsTypeOK
  <2>2. CASE Begin(a, p)
    BY <2>1, <2>2 DEF Begin, Claim, TakeRow, Rows
  <2>3. CASE BeginReplay(a, p)
    BY <2>3 DEF BeginReplay, rowVars
  <2> QED
    BY <1>1, <2>2, <2>3
<1>4. (\A m \in posts : m.by \in Attempts \ {a}) /\ \A x \in execs : x.id # a
  BY <1>2 DEF RecordInv, RetryInv, TypeInv, TypeOK, N8NTypeOK, Posts, OneRetry,
              IdleHasNotAsked, Committed, Requested
<1>5. local[a].retryId = None
  BY <1>2 DEF TruthInv, CallNamesRetry
<1>6. /\ \A q, id : IsRetry(q, id)' <=> IsRetry(q, id)
      /\ \A q, r : Truthful(q, r)' <=> Truthful(q, r)
  BY <1>2 DEF IsRetry, Truthful, RetriesOf
<1>7. RowNamesRetry'
  BY <1>3, <1>6 DEF TruthInv, RowNamesRetry
<1>8. CallNamesRetry'
  BY <1>2, <1>5, <1>6 DEF TruthInv, CallNamesRetry
<1>9. AsksForOwn' /\ IdNamesExecution'
  BY <1>2, <1>4 DEF TruthInv, AsksForOwn, IdNamesExecution
<1>10. CallIsTruthful'
  BY <1>2, <1>6 DEF TruthInv, CallIsTruthful
<1>11. ResponseIsTruthful'
  BY <1>2, <1>3 DEF TruthInv, ResponseIsTruthful, Completed, RetriesOf
<1> QED
  BY <1>7, <1>8, <1>9, <1>10, <1>11 DEF TruthInv

LEMMA CrashTruth ==
  ASSUME RecordInv, TruthInv, Crash
  PROVE  TruthInv'
<1>1. /\ \A b \in Attempts : pc'[b] \notin LivePcs /\ local'[b].retryId = None
      /\ UNCHANGED <<runs, target, posts, execs>>
  BY DEF Crash, Live, LivePcs, SavePcs, Blank, rowVars, n8nVars
<1>2. CallNamesRetry' /\ CallIsTruthful'
  BY <1>1 DEF CallNamesRetry, CallIsTruthful, LivePcs, SavePcs
<1>3. RowNamesRetry' /\ AsksForOwn' /\ IdNamesExecution' /\ ResponseIsTruthful'
  BY <1>1 DEF TruthInv, RowNamesRetry, AsksForOwn, IdNamesExecution, ResponseIsTruthful,
              Completed, IsRetry, RetriesOf
<1> QED
  BY <1>2, <1>3 DEF TruthInv

LEMMA LeaseTruth ==
  ASSUME RecordInv, TruthInv, NEW p \in Proposals, LeaseExpires(p)
  PROVE  TruthInv'
<1>1. \A q \in Proposals : /\ runs'[q].retryId = runs[q].retryId
                           /\ runs'[q].response = runs[q].response
  BY DEF LeaseExpires, LeaseRunsOut, RecordInv, RetryInv, TypeInv, TypeOK, RunsTypeOK, Rows
<1>2. UNCHANGED <<pc, target, local, posts, execs>>
  BY DEF LeaseExpires, n8nVars, attemptVars
<1>3. RowNamesRetry' /\ ResponseIsTruthful'
  BY <1>1, <1>2 DEF TruthInv, RowNamesRetry, IsRetry, RetriesOf, ResponseIsTruthful,
                    Completed
<1>4. CallNamesRetry' /\ AsksForOwn' /\ IdNamesExecution' /\ CallIsTruthful'
  BY <1>2 DEF TruthInv, CallNamesRetry, AsksForOwn, IdNamesExecution, CallIsTruthful,
              IsRetry, Truthful, RetriesOf
<1> QED
  BY <1>3, <1>4 DEF TruthInv

(* n8n and people: retries are added and end, under their own ids.          *)
LEMMA OutsideKeeps ==
  ASSUME RecordInv, TruthInv, UNCHANGED <<runs, pc, target, local>>,
         posts' \subseteq posts,
         \A x \in execs : \E y \in execs' :
           /\ y.id = x.id /\ y.of = x.of
           /\ x.status # "running" => y.status = x.status,
         AsksForOwn', IdNamesExecution'
  PROVE  TruthInv'
<1>1. \A p \in Proposals :
        /\ \A id : IsRetry(p, id) => IsRetry(p, id)'
        /\ \A r : Truthful(p, r) => Truthful(p, r)'
  BY RetriesAreKept
<1>2. \A a \in Attempts : pc[a] # "idle" => target[a] \in Proposals
  BY DEF RecordInv, RetryInv, TypeInv, HasTarget
<1>3. RowNamesRetry'
  BY <1>1 DEF TruthInv, RowNamesRetry
<1>4. CallNamesRetry' /\ CallIsTruthful'
  BY <1>1, <1>2 DEF TruthInv, CallNamesRetry, CallIsTruthful
<1>5. ResponseIsTruthful'
  <2> SUFFICES ASSUME NEW p \in Proposals, Completed(p)
               PROVE  Truthful(p, runs[p].response)'
    BY DEF ResponseIsTruthful, Truthful, Completed
  <2>1. Truthful(p, runs[p].response)
    BY DEF TruthInv, ResponseIsTruthful, Truthful
  <2> DEFINE r == runs[p].response
  <2>2. r' = r
    OBVIOUS
  <2> HIDE DEF r
  <2>3. PICK x \in execs :
          /\ x.of = ExecOf[p] /\ x.id = r.retryId
          /\ r.verification = "success" => x.status = "success"
          /\ r.verification = "failure" => x.status = "error"
    BY <2>1 DEF Truthful, RetriesOf, r
  <2>4. PICK y \in execs' :
          /\ y.id = x.id /\ y.of = x.of
          /\ x.status # "running" => y.status = x.status
    OBVIOUS
  <2> QED
    BY <2>2, <2>3, <2>4 DEF Truthful, RetriesOf, r
<1> QED
  BY <1>3, <1>4, <1>5 DEF TruthInv

(* A new retry has an id of its own.                                        *)
LEMMA NewRetryTruth ==
  ASSUME RecordInv, TruthInv, UNCHANGED <<runs, pc, target, local>>,
         posts' \subseteq posts, NEW y, execs' = execs \cup {y},
         y.id \in Attempts => y.of = ExecOf[target[y.id]],
         \A x \in execs : x.id = y.id => x.of = y.of
  PROVE  TruthInv'
<1>1. AsksForOwn' /\ IdNamesExecution'
  BY DEF TruthInv, AsksForOwn, IdNamesExecution
<1> QED
  BY <1>1, OutsideKeeps

LEMMA ServeTruth ==
  ASSUME RecordInv, TruthInv, UNCHANGED <<runs, pc, target, local>>,
         N8NServes \/ PeopleAct \/ UNCHANGED n8nVars
  PROVE  TruthInv'
<1>1. CASE \/ \E m \in puts : LandPut(m)
           \/ HumanEdit
           \/ UNCHANGED n8nVars
  <2>1. UNCHANGED <<posts, execs>>
    BY <1>1 DEF LandPut, HumanEdit, n8nVars
  <2> QED
    BY <2>1, OutsideKeeps DEF TruthInv, AsksForOwn, IdNamesExecution
<1>2. ASSUME NEW m \in posts, LandRetry(m)
      PROVE  TruthInv'
  <2> DEFINE y == [id |-> m.by, of |-> m.of, def |-> workflow.def, status |-> "running"]
  <2>1. execs' = execs \cup {y} /\ posts' \subseteq posts /\ y.id = m.by /\ y.of = m.of
    BY <1>2 DEF LandRetry
  <2>2. m.by \in Attempts /\ m.of = ExecOf[target[m.by]]
    BY DEF TruthInv, AsksForOwn, RecordInv, RetryInv, TypeInv, TypeOK, N8NTypeOK, Posts
  <2>3. \A x \in execs : x.id = y.id => x.of = y.of
    BY <2>1, <2>2 DEF TruthInv, AsksForOwn
  <2> QED
    BY <2>1, <2>2, <2>3, NewRetryTruth
<1>3. ASSUME NEW h \in HumanRetries, HumanRetry(h)
      PROVE  TruthInv'
  <2>1. PICK e \in Executions :
          execs' = execs \cup {[id |-> h, of |-> e, def |-> workflow.def,
                                status |-> "running"]}
    BY <1>3 DEF HumanRetry
  <2> DEFINE y == [id |-> h, of |-> e, def |-> workflow.def, status |-> "running"]
  <2>2. y.id = h /\ h \notin Attempts /\ \A x \in execs : x.id # h
    BY <1>3, N8NAssumption DEF HumanRetry
  <2>3. execs' = execs \cup {y} /\ posts' \subseteq posts
    BY <1>3, <2>1 DEF HumanRetry
  <2> QED
    BY <2>2, <2>3, NewRetryTruth
<1>4. ASSUME NEW x \in execs, FinishExecution(x)
      PROVE  TruthInv'
  <2>1. PICK s \in {"success", "error"} :
          execs' = (execs \ {x}) \cup {[x EXCEPT !.status = s]}
    BY <1>4 DEF FinishExecution
  <2> DEFINE y == [x EXCEPT !.status = s]
  <2>2. x \in Execs
    BY DEF RecordInv, RetryInv, TypeInv, TypeOK, N8NTypeOK
  <2>3. y.id = x.id /\ y.of = x.of
    BY <2>2 DEF Execs
  <2>4. x.status = "running" /\ posts' = posts /\ execs' = (execs \ {x}) \cup {y}
    BY <1>4, <2>1 DEF FinishExecution
  <2> HIDE DEF y
  <2>5. AsksForOwn' /\ IdNamesExecution'
    BY <2>3, <2>4 DEF TruthInv, AsksForOwn, IdNamesExecution
  <2>6. \A z \in execs : \E w \in execs' :
          /\ w.id = z.id /\ w.of = z.of
          /\ z.status # "running" => w.status = z.status
    BY <2>3, <2>4
  <2> QED
    BY <2>4, <2>5, <2>6, OutsideKeeps
<1> QED
  BY <1>1, <1>2, <1>3, <1>4 DEF N8NServes, PeopleAct

LEMMA OutsideTruth ==
  ASSUME RecordInv, TruthInv, Environment \/ People \/ UNCHANGED vars
  PROVE  TruthInv'
  BY ServeTruth DEF Environment, People, vars, rowVars, attemptVars

-----------------------------------------------------------------------------
LEMMA InitTruth == Init => TruthInv
  BY DEF Init, N8NInit, RunsInit, NoRow, Blank, TruthInv, RowNamesRetry, CallNamesRetry,
         AsksForOwn, IdNamesExecution, CallIsTruthful, ResponseIsTruthful, Completed

LEMMA NextTruth == RecordInv /\ TruthInv /\ [Next]_vars => TruthInv'
  BY BeginTruth, StepTruth, CrashTruth, LeaseTruth, OutsideTruth DEF Next

(* The response that is persisted and replayed names a real retry of the    *)
(* proposal's own execution, and reports success or failure only if n8n     *)
(* did, also when people retry executions and calls lose their lease        *)
(* (remediation.py:327-352).                                                *)
THEOREM ResponseIsTruthfulHolds == Spec => []ResponseIsTruthful
<1>1. Init => TruthInv
  BY InitTruth
<1>2. RecordInv /\ TruthInv /\ [Next]_vars => TruthInv'
  BY NextTruth
<1>3. TruthInv => ResponseIsTruthful
  BY DEF TruthInv
<1> QED
  BY <1>1, <1>2, <1>3, RecordedHolds, PTL DEF Spec

-----------------------------------------------------------------------------
(* The promise.  The frame: the one call that works on a proposal moves.    *)
LEMMA CallHolds ==
  ASSUME RecordInv, LeaseInv, NEW a \in Attempts, Live(a),
         NEW next \in LivePcs \cup EndPcs, Goto(a, next), UNCHANGED target,
         \A b \in Attempts \ {a} : local'[b] = local[b] /\ answer'[b] = answer[b],
         \A q \in Proposals \ {target[a]} : runs'[q] = runs[q],
         next \in LivePcs =>
           \/ runs'[target[a]].owner = a /\ runs'[target[a]].leased
           \/ runs'[target[a]].response # None /\ next \in {"log_completed", "releasing"},
         next = "log_completed" => runs'[target[a]].response = local'[a].response,
         answer'[a] # None => next = "done"
  PROVE  LeaseInv'
<1>1. pc'[a] = next /\ \A b \in Attempts \ {a} : pc'[b] = pc[b]
  BY DEF Goto, RecordInv, RetryInv, TypeInv, TypeOK, AttemptsTypeOK
<1>2. \A b \in Attempts : Live(b) => target[b] \in Proposals
  BY DEF Live, LivePcs, SavePcs, RecordInv, RetryInv, TypeInv, HasTarget
<1>3. \A b \in Attempts \ {a} : Live(b)' => Live(b) /\ target[b] # target[a]
  BY <1>1 DEF Live, LeaseInv, SingleAttempt
<1>4. \A b \in Attempts \ {a} : Live(b)' => runs'[target[b]] = runs[target[b]]
  BY <1>2, <1>3
<1>5. LiveHolds'
  <2> SUFFICES ASSUME NEW b \in Attempts, Live(b)'
               PROVE  \/ Owns(target[b], b)' /\ runs'[target[b]].leased
                      \/ Completed(target[b])' /\ pc'[b] \in {"log_completed", "releasing"}
    BY DEF LiveHolds
  <2>1. CASE b = a
    BY <1>1, <2>1 DEF Live, Owns, Completed
  <2>2. CASE b # a
    BY <1>1, <1>3, <1>4, <2>2 DEF LeaseInv, LiveHolds, Owns, Completed
  <2> QED
    BY <2>1, <2>2
<1>6. SingleAttempt'
  BY <1>3 DEF LeaseInv, SingleAttempt
<1>7. OnlyDoneAnswered'
  BY <1>1 DEF LeaseInv, OnlyDoneAnswered
<1>8. AnswersOutcome'
  <2> SUFFICES ASSUME NEW b \in Attempts, pc'[b] = "log_completed"
               PROVE  runs'[target[b]].response = local'[b].response
    BY DEF AnswersOutcome
  <2>1. CASE b = a
    BY <1>1, <2>1
  <2>2. CASE b # a
    BY <1>1, <1>4, <2>2 DEF LeaseInv, AnswersOutcome, Live, LivePcs
  <2> QED
    BY <2>1, <2>2
<1> QED
  BY <1>5, <1>6, <1>7, <1>8 DEF LeaseInv

(* What a call at work may rely on.                                         *)
LEMMA LiveLease ==
  ASSUME RecordInv, LeaseInv, NEW a \in Attempts, Live(a)
  PROVE  /\ target[a] \in Proposals /\ runs[target[a]] \in Rows /\ pc[a] # "idle"
         /\ \/ /\ Owns(target[a], a) /\ runs[target[a]].leased
               /\ ~Completed(target[a]) /\ pc[a] # "log_completed"
            \/ /\ Completed(target[a]) /\ ~Owns(target[a], a)
               /\ pc[a] \in {"log_completed", "releasing"}
         /\ answer[a] = None
<1>1. pc[a] # "idle" /\ pc[a] # "done"
  BY DEF Live, LivePcs, SavePcs
<1>2. target[a] \in Proposals /\ runs[target[a]] \in Rows
  BY <1>1, StartedRecord
<1>3. Owns(target[a], a) => ~Completed(target[a])
  BY <1>1, <1>2, StartedRetry DEF RecordInv, Completed
<1>4. pc[a] = "log_completed" => Completed(target[a])
  BY <1>1, NoneAssumption
     DEF LeaseInv, AnswersOutcome, Completed, RecordInv, RetryInv, TypeInv, HasRead, Fits
<1>5. answer[a] = None
  BY <1>1 DEF LeaseInv, OnlyDoneAnswered
<1> QED
  BY <1>1, <1>2, <1>3, <1>4, <1>5 DEF LeaseInv, LiveHolds

(* A call that leaves the table alone and does not answer.                  *)
LEMMA CallHoldsOn ==
  ASSUME RecordInv, LeaseInv, NEW a \in Attempts, Live(a),
         NEW next \in LivePcs \cup EndPcs, Goto(a, next), next # "log_completed",
         UNCHANGED <<runs, target, answer>>,
         \A b \in Attempts \ {a} : local'[b] = local[b],
         pc[a] \in {"log_completed", "releasing"} => next \in {"releasing"} \cup EndPcs
  PROVE  LeaseInv'
<1>1. EndPcs \cap LivePcs = {}
  BY DEF EndPcs, LivePcs, SavePcs
<1> QED
  BY <1>1, LiveLease, CallHolds DEF Owns, Completed

LEMMA WalkHolds ==
  ASSUME RecordInv, LeaseInv, NEW a \in Attempts,
         \/ LoadBreaks(a) \/ ReadApproval(a) \/ FetchPatched(a)
         \/ LogRecovered(a) \/ LogStarting(a) \/ SendPut(a) \/ PutReturns(a)
         \/ ReadBack(a) \/ LogVerified(a) \/ Verify(a) \/ LogFound(a) \/ LogRetry(a)
         \/ SendPost(a) \/ LogStarted(a) \/ Refuse(a) \/ Break(a)
  PROVE  LeaseInv'
<1> USE DEF Live, LivePcs, SavePcs, EndPcs
<1>1. CASE LoadBreaks(a) \/ ReadApproval(a) \/ FetchPatched(a)
  BY <1>1, CallHoldsOn DEF LoadBreaks, ReadApproval, FetchPatched, rowVars
<1>2. CASE \/ LogRecovered(a) \/ LogStarting(a) \/ LogVerified(a) \/ LogFound(a)
           \/ LogRetry(a) \/ LogStarted(a)
  <2>1. PICK next \in LivePcs \ {"log_completed"} :
          /\ pc[a] \in LivePcs \ {"log_completed", "releasing"} /\ Goto(a, next)
          /\ UNCHANGED <<runs, target, answer, local>>
    BY <1>2 DEF LogRecovered, LogStarting, LogVerified, LogFound, LogRetry, LogStarted,
                Log, rowVars
  <2> QED
    BY <2>1, CallHoldsOn
<1>3. CASE SendPut(a) \/ PutReturns(a) \/ ReadBack(a) \/ Verify(a) \/ SendPost(a)
  <2>1. PICK next \in LivePcs \ {"log_completed"} :
          /\ pc[a] \in LivePcs \ {"log_completed", "releasing"} /\ Goto(a, next)
          /\ UNCHANGED <<runs, target, answer, local>>
    BY <1>3 DEF SendPut, PutReturns, ReadBack, Verify, AfterVerify, SendPost, rowVars
  <2> QED
    BY <2>1, CallHoldsOn
<1>4. CASE Refuse(a) \/ Break(a)
  <2>1. /\ pc[a] \in LivePcs /\ Goto(a, "releasing")
        /\ UNCHANGED <<runs, target, answer, local>>
    BY <1>4 DEF Refuse, Break, NoEvidence, Unverified, Stale, RetryUnknown, LeaseLost,
                Raise, rowVars
  <2> QED
    BY <2>1, CallHoldsOn
<1> QED
  BY <1>1, <1>2, <1>3, <1>4

LEMMA ReadHolds ==
  ASSUME RecordInv, LeaseInv, NEW a \in Attempts,
         \/ LoadRow(a) \/ ReadDryRun(a) \/ FetchOriginal(a) \/ Find(a)
         \/ PostReturns(a) \/ Poll(a) \/ ReleaseBreaks(a)
  PROVE  LeaseInv'
<1> USE DEF Live, LivePcs, SavePcs, EndPcs
<1>1. PICK l : local' = [local EXCEPT ![a] = l]
  BY DEF LoadRow, ReadDryRun, FetchOriginal, Find, PostReturns, Poll, ReleaseBreaks
<1>2. \A b \in Attempts \ {a} : local'[b] = local[b]
  BY <1>1, LocalOfOthers DEF RecordInv
<1>3. PICK next \in (LivePcs \cup EndPcs) \ {"log_completed"} :
        /\ Goto(a, next) /\ UNCHANGED <<runs, target, answer>>
        /\ \/ pc[a] \in LivePcs \ {"log_completed", "releasing"}
           \/ pc[a] = "releasing" /\ next \in EndPcs
  BY DEF LoadRow, ReadDryRun, FetchOriginal, Find, PostReturns, Poll, ReleaseBreaks,
         rowVars
<1> QED
  BY <1>2, <1>3, CallHoldsOn

LEMMA SaveHolds ==
  ASSUME RecordInv, LeaseInv, NEW a \in Attempts, NEW at \in LivePcs,
         NEW stage \in Stages, NEW expected, NEW retryId,
         NEW next \in LivePcs \ {"log_completed"},
         Save(a, at, stage, expected, retryId, next)
  PROVE  LeaseInv'
<1>1. Live(a) /\ Owns(target[a], a) /\ Goto(a, next) /\ UNCHANGED <<target, answer>>
  BY DEF Save, SetStage, Live
<1>2. target[a] \in Proposals /\ runs[target[a]] \in Rows /\ answer[a] = None
  BY <1>1, LiveLease
<1>3. /\ runs'[target[a]].owner = a /\ runs'[target[a]].leased
      /\ \A q \in Proposals \ {target[a]} : runs'[q] = runs[q]
  BY <1>1, <1>2 DEF Save, SetStage, Owns, Rows, RecordInv, RetryInv, TypeInv, TypeOK,
                    RunsTypeOK
<1>4. \A b \in Attempts \ {a} : local'[b] = local[b]
  BY DEF Save, RecordInv, RetryInv, TypeInv, TypeOK, AttemptsTypeOK
<1> QED
  BY <1>1, <1>2, <1>3, <1>4, CallHolds

LEMMA SavesHold ==
  ASSUME RecordInv, LeaseInv, NEW a \in Attempts,
         \/ SaveRecovered(a) \/ SaveStarting(a) \/ SaveVerified(a)
         \/ SaveFound(a) \/ SaveRetry(a) \/ SaveStarted(a)
  PROVE  LeaseInv'
  BY SaveHolds
     DEF SaveRecovered, SaveStarting, SaveVerified, SaveFound, SaveRetry, SaveStarted,
         LivePcs, SavePcs, Stages

(* The call that ends, with an outcome or without one.                      *)
LEMMA EndHolds ==
  ASSUME RecordInv, LeaseInv, NEW a \in Attempts,
         CompleteRun(a) \/ Return(a) \/ Release(a) \/ LoadReplay(a)
  PROVE  LeaseInv'
<1> USE DEF LivePcs, SavePcs, EndPcs
<1>1. Live(a) /\ UNCHANGED target
  BY DEF CompleteRun, Return, Release, LoadReplay, Live
<1>2. target[a] \in Proposals /\ runs[target[a]] \in Rows /\ answer[a] = None
  BY <1>1, LiveLease
<1>3. /\ runs \in [Proposals -> Rows]
      /\ answer \in [Attempts -> Responses \cup {None}]
  BY DEF RecordInv, RetryInv, TypeInv, TypeOK, RunsTypeOK, AttemptsTypeOK
<1>4. CASE CompleteRun(a)
  <2>1. local[a].response # None
    BY <1>4, NoneAssumption
       DEF CompleteRun, RecordInv, RetryInv, TypeInv, HasRead, Fits
  <2>2. /\ runs'[target[a]].response = local[a].response
        /\ \A q \in Proposals \ {target[a]} : runs'[q] = runs[q]
    BY <1>2, <1>3, <1>4 DEF CompleteRun, Complete, Rows
  <2> QED
    BY <1>1, <1>2, <1>4, <2>1, <2>2, CallHolds DEF CompleteRun
<1>5. CASE Return(a) \/ LoadReplay(a)
  <2>1. /\ Goto(a, "done") /\ UNCHANGED runs
        /\ \A b \in Attempts \ {a} : answer'[b] = answer[b]
    BY <1>3, <1>5 DEF Return, LoadReplay, rowVars
  <2>2. \A b \in Attempts \ {a} : local'[b] = local[b]
    BY <1>5, LocalOfOthers DEF Return, LoadReplay, RecordInv
  <2> QED
    BY <1>1, <2>1, <2>2, CallHolds
<1>6. CASE Release(a)
  <2>1. Goto(a, "failed") /\ UNCHANGED answer
        /\ \A q \in Proposals \ {target[a]} : runs'[q] = runs[q]
    BY <1>3, <1>6 DEF Release, ReleaseRow
  <2>2. \A b \in Attempts \ {a} : local'[b] = local[b]
    BY <1>6, LocalOfOthers DEF Release, RecordInv
  <2> QED
    BY <1>1, <1>2, <2>1, <2>2, CallHolds
<1> QED
  BY <1>4, <1>5, <1>6

LEMMA StepHolds ==
  ASSUME RecordInv, LeaseInv, NEW a \in Attempts, Step(a) \/ Fault(a)
  PROVE  LeaseInv'
  BY WalkHolds, ReadHolds, SavesHold, EndHolds DEF Step, Fault

LEMMA BeginHolds ==
  ASSUME RecordInv, LeaseInv, NEW a \in Attempts, Call(a)
  PROVE  LeaseInv'
<1> USE DEF LivePcs, SavePcs
<1>1. PICK p \in Proposals : Begin(a, p) \/ BeginReplay(a, p)
  BY DEF Call
<1>2. /\ pc[a] = "idle" /\ target'[a] = p /\ UNCHANGED local
      /\ \A b \in Attempts \ {a} : pc'[b] = pc[b] /\ target'[b] = target[b]
  BY <1>1 DEF Begin, BeginReplay, Goto, RecordInv, RetryInv, TypeInv, TypeOK,
              AttemptsTypeOK
<1>3. runs \in [Proposals -> Rows] /\ answer \in [Attempts -> Responses \cup {None}]
  BY DEF RecordInv, RetryInv, TypeInv, TypeOK, RunsTypeOK, AttemptsTypeOK
<1>4. CASE Begin(a, p)
  <2>1. /\ pc'[a] = "load" /\ UNCHANGED answer
        /\ runs'[p].owner = a /\ runs'[p].leased
        /\ \A q \in Proposals \ {p} : runs'[q] = runs[q]
    BY <1>2, <1>3, <1>4 DEF Begin, Claim, TakeRow, Rows, Goto, RecordInv, RetryInv,
                            TypeInv, TypeOK, AttemptsTypeOK
  <2>2. \A b \in Attempts \ {a} : Live(b)' => Live(b) /\ target[b] \in Proposals \ {p}
    <3>1. ~Completed(p) /\ ~runs[p].leased
      BY <1>4 DEF Begin, Claim, Claimable
    <3>2. \A b \in Attempts : Live(b) => target[b] \in Proposals \ {p}
      BY <3>1, LiveLease
    <3> QED
      BY <1>2, <3>2 DEF Live
  <2>3. \A b \in Attempts \ {a} : Live(b)' => runs'[target'[b]] = runs[target[b]]
    BY <1>2, <2>1, <2>2
  <2>4. LiveHolds'
    <3> SUFFICES ASSUME NEW b \in Attempts, Live(b)'
                 PROVE  \/ Owns(target[b], b)' /\ runs'[target'[b]].leased
                        \/ /\ Completed(target[b])'
                           /\ pc'[b] \in {"log_completed", "releasing"}
      BY DEF LiveHolds
    <3>1. CASE b = a
      BY <1>2, <2>1, <3>1 DEF Owns
    <3>2. CASE b # a
      BY <1>2, <2>2, <2>3, <3>2 DEF LeaseInv, LiveHolds, Owns, Completed
    <3> QED
      BY <3>1, <3>2
  <2>5. SingleAttempt'
    BY <1>2, <2>2 DEF LeaseInv, SingleAttempt
  <2>6. OnlyDoneAnswered'
    BY <1>2, <2>1 DEF LeaseInv, OnlyDoneAnswered
  <2>7. AnswersOutcome'
    BY <1>2, <2>1, <2>3 DEF LeaseInv, AnswersOutcome, Live
  <2> QED
    BY <2>4, <2>5, <2>6, <2>7 DEF LeaseInv
<1>5. CASE BeginReplay(a, p)
  <2>1. /\ pc'[a] = "done" /\ UNCHANGED runs
        /\ \A b \in Attempts \ {a} : answer'[b] = answer[b]
    BY <1>3, <1>5 DEF BeginReplay, Goto, rowVars, RecordInv, RetryInv, TypeInv, TypeOK,
                      AttemptsTypeOK
  <2>2. \A b \in Attempts : Live(b)' => b # a /\ Live(b)
    BY <1>2, <2>1 DEF Live
  <2>3. LiveHolds' /\ SingleAttempt'
    BY <1>2, <2>1, <2>2 DEF LeaseInv, LiveHolds, SingleAttempt, Owns, Completed
  <2>4. OnlyDoneAnswered' /\ AnswersOutcome'
    BY <1>2, <2>1 DEF LeaseInv, OnlyDoneAnswered, AnswersOutcome
  <2> QED
    BY <2>3, <2>4 DEF LeaseInv
<1> QED
  BY <1>1, <1>4, <1>5

LEMMA CrashHolds ==
  ASSUME RecordInv, LeaseInv, Crash
  PROVE  LeaseInv'
<1>1. \A b \in Attempts : ~Live(b)' /\ (pc'[b] = pc[b] \/ (pc'[b] = "dead" /\ Live(b)))
  BY DEF Crash, Live, LivePcs, SavePcs
<1>2. OnlyDoneAnswered'
  BY <1>1, LiveLease DEF Crash, LeaseInv, OnlyDoneAnswered
<1>3. AnswersOutcome'
  BY <1>1 DEF AnswersOutcome, Live, LivePcs
<1> QED
  BY <1>1, <1>2, <1>3 DEF LeaseInv, LiveHolds, SingleAttempt

(* The one step that the lease of a call at work does not survive, unless   *)
(* no call is slow.                                                         *)
LEMMA LeaseHolds ==
  ASSUME RecordInv, LeaseInv, ~SlowAttempts, NEW p \in Proposals, LeaseExpires(p)
  PROVE  LeaseInv'
<1>1. /\ \A q \in Proposals : /\ runs'[q].owner = runs[q].owner
                              /\ runs'[q].response = runs[q].response
      /\ \A q \in Proposals \ {p} : runs'[q] = runs[q]
  BY DEF LeaseExpires, LeaseRunsOut, RecordInv, RetryInv, TypeInv, TypeOK, RunsTypeOK, Rows
<1>2. UNCHANGED <<pc, target, local, answer>>
  BY DEF LeaseExpires, attemptVars
<1>3. \A b \in Attempts : Live(b) /\ Owns(target[b], b) => target[b] # p
  BY DEF LeaseExpires
<1>4. LiveHolds'
  BY <1>1, <1>2, <1>3, LiveLease DEF LeaseInv, LiveHolds, Live, Owns, Completed
<1>5. AnswersOutcome'
  <2> SUFFICES ASSUME NEW b \in Attempts, pc[b] = "log_completed"
               PROVE  runs'[target[b]].response = local[b].response
    BY <1>2 DEF AnswersOutcome
  <2>1. target[b] \in Proposals
    BY LiveLease DEF Live, LivePcs
  <2> QED
    BY <1>1, <2>1 DEF LeaseInv, AnswersOutcome
<1> QED
  BY <1>2, <1>4, <1>5 DEF LeaseInv, SingleAttempt, OnlyDoneAnswered, Live

LEMMA OutsideHolds ==
  ASSUME RecordInv, LeaseInv, Environment \/ People \/ UNCHANGED vars
  PROVE  LeaseInv'
<1>1. UNCHANGED <<runs, pc, target, local, answer>>
  BY DEF Environment, People, vars, rowVars, attemptVars
<1> QED
  BY <1>1 DEF LeaseInv, LiveHolds, SingleAttempt, OnlyDoneAnswered, AnswersOutcome, Live,
              Owns, Completed

LEMMA InitHolds == Init => LeaseInv
  BY DEF Init, LeaseInv, LiveHolds, SingleAttempt, OnlyDoneAnswered, AnswersOutcome,
         Live, LivePcs, SavePcs

LEMMA NextHolds ==
  ASSUME ~SlowAttempts
  PROVE  RecordInv /\ LeaseInv /\ [Next]_vars => LeaseInv'
  BY BeginHolds, StepHolds, CrashHolds, LeaseHolds, OutsideHolds DEF Next

(* No call slower than its lease: a call that works owns its row, so there  *)
(* is one, and the answer it logs is what the row says                      *)
(* (remediation.py:91-130).                                                 *)
THEOREM LeaseInvariant ==
  ASSUME ~SlowAttempts
  PROVE  Spec => []LeaseInv
<1>1. Init => LeaseInv
  BY InitHolds
<1>2. RecordInv /\ LeaseInv /\ [Next]_vars => LeaseInv'
  BY NextHolds
<1> QED
  BY <1>1, <1>2, RecordedHolds, PTL DEF Spec

(* As long as no call outlives its lease, one call at a time works on a     *)
(* proposal, wherever the calls before it crashed, raised or gave up        *)
(* (state_store.py:264).                                                    *)
THEOREM SingleAttemptHolds ==
  ASSUME ~SlowAttempts
  PROVE  Spec => []SingleAttempt
<1>1. LeaseInv => SingleAttempt
  BY DEF LeaseInv
<1> QED
  BY <1>1, LeaseInvariant, PTL

-----------------------------------------------------------------------------
(* AtMostOnce is implemented: what its variables are here ...               *)

updatingNow == [p \in Proposals |-> {a \in Attempts : target[a] = p /\ Updates(a)}]
askedNow    == [p \in Proposals |-> {a \in Attempts : target[a] = p /\ Requested(a)}]
outcomeNow  == [p \in Proposals |-> runs[p].response]

PromiseStays == UNCHANGED <<updatingNow, askedNow, outcomeNow, answer>>

(* ... and what a step does to them.                                        *)
PromiseStep == [Promise!AbstractNext]_(Promise!abstractVars)

LEMMA StutterKeeps == PromiseStays => PromiseStep
  BY DEF PromiseStays, PromiseStep, updatingNow, askedNow, outcomeNow, Updates,
         Promise!abstractVars

LEMMA RequestsStay ==
  ASSUME \A b \in Attempts :
           /\ Updates(b)' <=> Updates(b)
           /\ Requested(b)' <=> Requested(b)
           /\ Updates(b) \/ Requested(b) => target'[b] = target[b]
  PROVE  UNCHANGED <<updatingNow, askedNow>>
<1>1. \A p, b : b \in Attempts =>
        (target'[b] = p /\ Updates(b)' <=> target[b] = p /\ Updates(b))
  OBVIOUS
<1>2. \A p, b : b \in Attempts =>
        (target'[b] = p /\ Requested(b)' <=> target[b] = p /\ Requested(b))
  OBVIOUS
<1>3. updatingNow' = updatingNow
  BY <1>1 DEF updatingNow
<1>4. askedNow' = askedNow
  BY <1>2 DEF askedNow
<1> QED
  BY <1>3, <1>4

LEMMA OutcomesStay ==
  ASSUME \A p \in Proposals : runs'[p].response = runs[p].response
  PROVE  UNCHANGED outcomeNow
  BY DEF outcomeNow

LEMMA SameTables ==
  ASSUME UNCHANGED <<puts, posts, execs, target>>
  PROVE  UNCHANGED <<updatingNow, askedNow>>
  BY RequestsStay DEF Updates, Requested

(* A step of a call that neither sends, decides nor answers.                *)
LEMMA QuietPromise ==
  ASSUME RecordInv, LeaseInv, NEW a \in Attempts,
         Step(a) \/ Fault(a),
         ~(SendPut(a) \/ SendPost(a) \/ CompleteRun(a) \/ LoadReplay(a) \/ Return(a))
  PROVE  PromiseStep
<1>1. runs \in [Proposals -> Rows]
  BY DEF RecordInv, RetryInv, TypeInv, TypeOK, RunsTypeOK
<1> DEFINE Quiet == /\ UNCHANGED <<puts, posts, execs, target, answer>>
                    /\ \A p \in Proposals : runs'[p].response = runs[p].response
<1>2. ASSUME \/ LoadRow(a) \/ LoadBreaks(a) \/ ReadDryRun(a) \/ ReadApproval(a)
             \/ FetchPatched(a) \/ FetchOriginal(a) \/ PutReturns(a) \/ ReadBack(a)
             \/ Verify(a) \/ Find(a) \/ PostReturns(a) \/ Poll(a) \/ ReleaseBreaks(a)
      PROVE  Quiet
  BY <1>2 DEF LoadRow, LoadBreaks, ReadDryRun, ReadApproval, FetchPatched,
              FetchOriginal, PutReturns, ReadBack, Verify, Find, PostReturns, Poll,
              ReleaseBreaks, rowVars, n8nVars
<1>3. ASSUME \/ LogRecovered(a) \/ LogStarting(a) \/ LogVerified(a) \/ LogFound(a)
             \/ LogRetry(a) \/ LogStarted(a) \/ Refuse(a) \/ Break(a)
      PROVE  Quiet
  BY <1>3 DEF LogRecovered, LogStarting, LogVerified, LogFound, LogRetry, LogStarted,
              Log, Refuse, Break, Raise, rowVars, n8nVars
<1>4. ASSUME \/ SaveRecovered(a) \/ SaveStarting(a) \/ SaveVerified(a)
             \/ SaveFound(a) \/ SaveRetry(a) \/ SaveStarted(a)
      PROVE  Quiet
  <2>1. ASSUME NEW at, NEW stage, NEW expected, NEW retryId, NEW next,
               Save(a, at, stage, expected, retryId, next)
        PROVE  Quiet
    BY <1>1, <2>1 DEF Save, SetStage, Rows, n8nVars
  <2> QED
    BY <1>4, <2>1 DEF SaveRecovered, SaveStarting, SaveVerified, SaveFound, SaveRetry,
                      SaveStarted
<1>5. ASSUME Release(a)
      PROVE  Quiet
  BY <1>1, <1>5 DEF Release, ReleaseRow, Rows, n8nVars
<1>6. Quiet
  BY <1>2, <1>3, <1>4, <1>5 DEF Step, Fault
<1> QED
  BY <1>6, SameTables, OutcomesStay, StutterKeeps DEF PromiseStays

(* An update is sent before the outcome is decided.                         *)
LEMMA PutPromise ==
  ASSUME RecordInv, LeaseInv, NEW a \in Attempts, SendPut(a)
  PROVE  PromiseStep
<1>0. PICK p \in Proposals : p = target[a]
  BY LiveLease DEF SendPut, SendPost, CompleteRun, Live, LivePcs, SavePcs
<1>1. /\ Live(a) /\ pc[a] = "put" /\ UNCHANGED <<posts, execs, runs, target, answer>>
      /\ puts' = puts \cup {[by |-> a, def |-> local[a].expected, base |-> local[a].dry]}
  BY DEF SendPut, Live, LivePcs, rowVars
<1>2. outcomeNow[p] = None
  BY <1>0, <1>1, LiveLease DEF outcomeNow, Completed
<1>3. \A b \in Attempts : Updates(b)' <=> Updates(b) \/ b = a
  <2> DEFINE m == [by |-> a, def |-> local[a].expected, base |-> local[a].dry]
  <2>1. puts' = puts \cup {m} /\ m.by = a
    BY <1>1
  <2> HIDE DEF m
  <2> QED
    BY <2>1 DEF Updates
<1>4. updatingNow' = [updatingNow EXCEPT ![p] = @ \cup {a}]
  BY <1>0, <1>1, <1>3 DEF updatingNow
<1>5. UNCHANGED <<askedNow, outcomeNow, answer>>
  BY <1>1 DEF askedNow, Requested, outcomeNow
<1>6. Promise!Update(p, a)
  BY <1>2, <1>4, <1>5 DEF Promise!Update, updatingNow, askedNow, outcomeNow, Updates
<1> QED
  BY <1>6 DEF PromiseStep, Promise!AbstractNext

(* A retry is requested when nobody else has, and nothing is decided.       *)
LEMMA PostPromise ==
  ASSUME RecordInv, LeaseInv, NEW a \in Attempts, SendPost(a)
  PROVE  PromiseStep
<1>0. PICK p \in Proposals : p = target[a]
  BY LiveLease DEF SendPut, SendPost, CompleteRun, Live, LivePcs, SavePcs
<1>1. /\ Live(a) /\ pc[a] = "post" /\ UNCHANGED <<puts, execs, runs, target, answer>>
      /\ posts' = posts \cup {[by |-> a, of |-> ExecOf[target[a]]]}
  BY DEF SendPost, Live, LivePcs, rowVars
<1>2. outcomeNow[p] = None
  BY <1>0, <1>1, LiveLease DEF outcomeNow, Completed
<1>3. \A b \in Attempts : Requested(b)' <=> Requested(b) \/ b = a
  <2> DEFINE m == [by |-> a, of |-> ExecOf[target[a]]]
  <2>1. posts' = posts \cup {m} /\ m.by = a /\ UNCHANGED execs
    BY <1>1
  <2> HIDE DEF m
  <2> QED
    BY <2>1 DEF Requested
<1>4. \A b \in Attempts : target[b] = p /\ Requested(b) => b = a
  BY <1>0, <1>1 DEF RecordInv, RetryInv, OneRetry, OneCommitted, Committed
<1>5. UNCHANGED <<updatingNow, outcomeNow, answer>>
  BY <1>1 DEF updatingNow, Updates, outcomeNow
<1>6. CASE Requested(a)
  BY <1>1, <1>3, <1>5, <1>6, RequestsStay, StutterKeeps DEF PromiseStays, Updates
<1>7. CASE ~Requested(a)
  <2>1. askedNow[p] = {}
    BY <1>4, <1>7 DEF askedNow
  <2>2. askedNow' = [askedNow EXCEPT ![p] = {a}]
    BY <1>0, <1>1, <1>3, <1>4, <1>7 DEF askedNow
  <2>3. Promise!Ask(p, a)
    BY <1>2, <1>5, <2>1, <2>2 DEF Promise!Ask, updatingNow, askedNow, outcomeNow, Updates
  <2> QED
    BY <2>3 DEF PromiseStep, Promise!AbstractNext
<1> QED
  BY <1>6, <1>7

LEMMA DecidePromise ==
  ASSUME RecordInv, LeaseInv, NEW a \in Attempts, CompleteRun(a)
  PROVE  PromiseStep
<1>0. PICK p \in Proposals : p = target[a]
  BY LiveLease DEF SendPut, SendPost, CompleteRun, Live, LivePcs, SavePcs
<1>1. /\ Live(a) /\ pc[a] = "complete" /\ UNCHANGED <<puts, posts, execs, target, answer>>
  BY DEF CompleteRun, Live, LivePcs, SavePcs, n8nVars
<1>2. outcomeNow[p] = None
  BY <1>0, <1>1, LiveLease DEF outcomeNow, Completed
<1>3. local[a].response \in Responses
  BY <1>1 DEF RecordInv, RetryInv, TypeInv, HasRead, Fits
<1>4. runs \in [Proposals -> Rows]
  BY DEF RecordInv, RetryInv, TypeInv, TypeOK, RunsTypeOK
<1>5. /\ runs'[p].response = local[a].response
      /\ \A q \in Proposals \ {p} : runs'[q] = runs[q]
  BY <1>0, <1>4 DEF CompleteRun, Complete, Rows
<1>6. outcomeNow' = [outcomeNow EXCEPT ![p] = local[a].response]
  BY <1>5 DEF outcomeNow
<1>7. UNCHANGED <<updatingNow, askedNow, answer>>
  BY <1>1, SameTables
<1>8. Promise!Decide(p)
  BY <1>2, <1>3, <1>6, <1>7
     DEF Promise!Decide, updatingNow, askedNow, outcomeNow, Updates
<1> QED
  BY <1>8 DEF PromiseStep, Promise!AbstractNext

(* Whoever is answered is told the outcome.                                 *)
LEMMA AnswerPromise ==
  ASSUME RecordInv, LeaseInv, NEW a \in Attempts,
         NEW p \in Proposals, BeginReplay(a, p) \/ (p = target[a] /\ (LoadReplay(a) \/ Return(a)))
  PROVE  PromiseStep
<1>1. outcomeNow[p] = runs[p].response
  BY DEF outcomeNow
<1>2. Completed(p)
  <2>1. CASE Return(a)
    <3>1. pc[a] = "log_completed"
      BY <2>1 DEF Return
    <3> QED
      BY <3>1, LiveLease DEF Return, BeginReplay, Live, LivePcs
  <2> QED
    BY <2>1 DEF BeginReplay, LoadReplay
<1>3. answer[a] = None
  BY DEF BeginReplay, LoadReplay, Return, LeaseInv, OnlyDoneAnswered
<1>4. answer' = [answer EXCEPT ![a] = runs[p].response]
  BY DEF BeginReplay, LoadReplay, Return, LeaseInv, AnswersOutcome
<1>5. UNCHANGED <<puts, posts, execs, runs>>
  BY DEF BeginReplay, LoadReplay, Return, n8nVars, rowVars
<1>6. \A b \in Attempts : Updates(b) \/ Requested(b) => target'[b] = target[b]
  <2>1. CASE BeginReplay(a, p)
    BY <2>1 DEF BeginReplay, RecordInv, Recorded, IdleHasNotUpdated, RetryInv, OneRetry,
                IdleHasNotAsked, Committed, TypeInv, TypeOK, AttemptsTypeOK
  <2> QED
    BY <2>1 DEF LoadReplay, Return
<1>7. UNCHANGED <<updatingNow, askedNow, outcomeNow>>
  BY <1>5, <1>6, RequestsStay DEF Updates, Requested, outcomeNow
<1>8. outcomeNow[p] # None /\ answer' = [answer EXCEPT ![a] = outcomeNow[p]]
  BY <1>1, <1>2, <1>4 DEF Completed
<1>9. Promise!Answer(p, a)
  BY <1>3, <1>7, <1>8 DEF Promise!Answer, updatingNow, askedNow, outcomeNow, Updates
<1> QED
  BY <1>9 DEF PromiseStep, Promise!AbstractNext

(* Entering sends nothing: a call that begins has no request yet.           *)
LEMMA BeginPromise ==
  ASSUME RecordInv, NEW a \in Attempts, NEW p \in Proposals, Begin(a, p)
  PROVE  PromiseStep
<1>1. /\ pc[a] = "idle" /\ UNCHANGED <<puts, posts, execs, answer>>
      /\ \A b \in Attempts \ {a} : target'[b] = target[b]
  BY DEF Begin, n8nVars, RecordInv, RetryInv, TypeInv, TypeOK, AttemptsTypeOK
<1>2. \A b \in Attempts : Updates(b) \/ Requested(b) => b # a
  BY <1>1 DEF RecordInv, Recorded, IdleHasNotUpdated, RetryInv, OneRetry,
              IdleHasNotAsked, Committed
<1>3. \A q \in Proposals : runs'[q].response = runs[q].response
  BY DEF Begin, Claim, TakeRow, Rows, RecordInv, RetryInv, TypeInv, TypeOK, RunsTypeOK
<1>4. UNCHANGED <<updatingNow, askedNow>>
  BY <1>1, <1>2, RequestsStay DEF Updates, Requested
<1> QED
  BY <1>1, <1>3, <1>4, OutcomesStay, StutterKeeps DEF PromiseStays

(* n8n applies an update: the call has no request on the wire any more.     *)
LEMMA LandPromise ==
  ASSUME RecordInv, NEW m \in puts, LandPut(m), UNCHANGED <<runs, target, answer>>
  PROVE  PromiseStep
<1>1. /\ puts' = puts \ {m} /\ UNCHANGED <<posts, execs>>
  BY DEF LandPut
<1>2. m.by \in Attempts /\ Updates(m.by)
  BY DEF Updates, RecordInv, RetryInv, TypeInv, TypeOK, N8NTypeOK, Puts
<1>3. PICK a \in Attempts : a = m.by
  BY <1>2
<1>4. PICK p \in Proposals : p = target[a]
  BY <1>2, <1>3 DEF RecordInv, Recorded, IdleHasNotUpdated, RetryInv, TypeInv, HasTarget
<1>5. \A b \in Attempts \ {a} : Updates(b)' <=> Updates(b)
  BY <1>1, <1>3 DEF Updates
<1>6. UNCHANGED <<askedNow, outcomeNow, answer>>
  BY <1>1 DEF askedNow, Requested, outcomeNow
<1>7. CASE Updates(a)'
  <2>1. \A b \in Attempts : /\ Updates(b)' <=> Updates(b)
                            /\ Requested(b)' <=> Requested(b)
    BY <1>1, <1>2, <1>3, <1>5, <1>7 DEF Requested
  <2> QED
    BY <1>6, <2>1, RequestsStay, StutterKeeps DEF PromiseStays
<1>8. CASE ~Updates(a)'
  <2>1. a \in updatingNow[p]
    BY <1>2, <1>3, <1>4 DEF updatingNow
  <2>2. updatingNow' = [updatingNow EXCEPT ![p] = @ \ {a}]
    BY <1>4, <1>5, <1>8 DEF updatingNow
  <2>3. Promise!UpdateEnds(p, a)
    BY <1>6, <2>1, <2>2
       DEF Promise!UpdateEnds, updatingNow, askedNow, outcomeNow, Updates
  <2> QED
    BY <2>3 DEF PromiseStep, Promise!AbstractNext
<1> QED
  BY <1>7, <1>8

(* n8n otherwise, and people: what was requested stays requested.           *)
LEMMA ServePromise ==
  ASSUME RecordInv, UNCHANGED <<runs, target, answer>>,
         \/ \E m \in posts : LandRetry(m)
         \/ \E x \in execs : FinishExecution(x)
         \/ PeopleAct
         \/ UNCHANGED n8nVars
  PROVE  PromiseStep
<1>1. UNCHANGED puts
  BY DEF LandRetry, FinishExecution, PeopleAct, HumanEdit, HumanRetry, n8nVars
<1>2. \A b \in Attempts : Requested(b)' => Requested(b)
  BY OutsideAsks DEF N8NServes, RecordInv, RetryInv
<1>3. \A b \in Attempts : Requested(b) => Requested(b)'
  <2>1. ASSUME NEW m \in posts, LandRetry(m), NEW b \in Attempts, Requested(b)
        PROVE  Requested(b)'
    <3> DEFINE y == [id |-> m.by, of |-> m.of, def |-> workflow.def, status |-> "running"]
    <3>1. posts' = posts \ {m} /\ execs' = execs \cup {y} /\ y.id = m.by
      BY <2>1 DEF LandRetry
    <3> HIDE DEF y
    <3> QED
      BY <2>1, <3>1 DEF Requested
  <2>2. ASSUME NEW x \in execs, FinishExecution(x), NEW b \in Attempts, Requested(b)
        PROVE  Requested(b)'
    <3>1. PICK s \in {"success", "error"} :
            execs' = (execs \ {x}) \cup {[x EXCEPT !.status = s]} /\ UNCHANGED posts
      BY <2>2 DEF FinishExecution
    <3> DEFINE y == [x EXCEPT !.status = s]
    <3>2. execs' = (execs \ {x}) \cup {y} /\ y.id = x.id
      BY <3>1 DEF RecordInv, RetryInv, TypeInv, TypeOK, N8NTypeOK, Execs
    <3> HIDE DEF y
    <3> QED
      BY <2>2, <3>1, <3>2 DEF Requested
  <2>3. CASE PeopleAct \/ UNCHANGED n8nVars
    <3>1. UNCHANGED posts /\ execs \subseteq execs'
      BY <2>3 DEF PeopleAct, HumanEdit, HumanRetry, n8nVars
    <3> QED
      BY <3>1 DEF Requested
  <2> QED
    BY <2>1, <2>2, <2>3
<1>4. UNCHANGED <<updatingNow, askedNow>>
  BY <1>1, <1>2, <1>3, RequestsStay DEF Updates
<1> QED
  BY <1>4, StutterKeeps DEF PromiseStays, outcomeNow

LEMMA NextPromise ==
  ASSUME RecordInv, LeaseInv, [Next]_vars
  PROVE  PromiseStep
<1>1. ASSUME NEW a \in Attempts, Call(a)
      PROVE  PromiseStep
  BY <1>1, BeginPromise, AnswerPromise DEF Call
<1>2. ASSUME NEW a \in Attempts, Step(a) \/ Fault(a)
      PROVE  PromiseStep
  <2>1. CASE LoadReplay(a) \/ Return(a)
    <3>1. PICK p \in Proposals : p = target[a]
      BY <2>1, LiveLease DEF LoadReplay, Return, Live, LivePcs
    <3> QED
      BY <2>1, <3>1, AnswerPromise
  <2> QED
    BY <1>2, <2>1, QuietPromise, PutPromise, PostPromise, DecidePromise
<1>3. CASE Crash
  <2>1. UNCHANGED <<puts, posts, execs, target, answer, runs>>
    BY <1>3 DEF Crash, n8nVars, rowVars
  <2> QED
    BY <2>1, SameTables, StutterKeeps DEF PromiseStays, outcomeNow
<1>4. ASSUME NEW p \in Proposals, LeaseExpires(p)
      PROVE  PromiseStep
  <2>1. /\ UNCHANGED <<puts, posts, execs, target, answer>>
        /\ \A q \in Proposals : runs'[q].response = runs[q].response
    BY <1>4 DEF LeaseExpires, LeaseRunsOut, n8nVars, attemptVars, Rows, RecordInv,
                RetryInv, TypeInv, TypeOK, RunsTypeOK
  <2> QED
    BY <2>1, SameTables, OutcomesStay, StutterKeeps DEF PromiseStays
<1>5. CASE Environment \/ People \/ UNCHANGED vars
  <2>1. UNCHANGED <<runs, target, answer>>
    BY <1>5 DEF Environment, People, vars, rowVars, attemptVars
  <2> QED
    BY <1>5, <2>1, LandPromise, ServePromise DEF Environment, People, vars, N8NServes
<1> QED
  BY <1>1, <1>2, <1>3, <1>4, <1>5 DEF Next

(* README.md:230-241: as long as no call outlives its lease, the endpoint   *)
(* implements AtMostOnce, whatever crashes, raises, times out or is applied *)
(* late: one retry, one outcome, nothing sent after it, and every answer is *)
(* that outcome.                                                            *)
THEOREM KeepsPromiseHolds ==
  ASSUME ~SlowAttempts
  PROVE  Spec => KeepsPromise
<1>1. Init => Promise!AbstractInit
  BY DEF Init, N8NInit, RunsInit, NoRow, Promise!AbstractInit, Requested
<1>2. RecordInv /\ LeaseInv /\ [Next]_vars
        => [Promise!AbstractNext]_(Promise!abstractVars)
  BY NextPromise DEF PromiseStep
<1> QED
  BY <1>1, <1>2, RecordedHolds, LeaseInvariant, PTL
     DEF Spec, KeepsPromise, Promise!AtMostOnceSpec
=============================================================================
