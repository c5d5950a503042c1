---------------------------- MODULE RecordProofs ----------------------------
(***************************************************************************)
(* What is recorded and approved when, for every instance.                 *)
(*                                                                         *)
(* Records: the durable stage of a proposal never goes back, and no        *)
(* request that changes n8n is on the wire before the stage and the event  *)
(* that the next attempt looks for.                                        *)
(*                                                                         *)
(* The argument.  While a call owns its row, its place in the code says    *)
(* what the row's stage can be (RowFits), so every transaction of the      *)
(* owner moves the stage forward.  A call that lost its row moves nothing. *)
(* And since no stage goes back, what a call recorded while it was the     *)
(* owner still holds when it sends its request without being it.           *)
(***************************************************************************)
EXTENDS RemediationProofs

UpdatePcs == {"log_starting", "put", "put_wait", "readback", "save_verified"}

RetryPcs == {"find", "save_found", "log_retry", "post", "post_wait", "save_started"}

(* The stage of the row that a call at this place owns.                     *)
RowFits(at, stage) ==
  /\ at \in {"fetch", "save_recovered", "save_starting"} => stage \in BeforeVerified
  /\ at \in UpdatePcs => stage = "workflow_update_starting"
  /\ at \in RetryPcs => stage = "retry_starting"

OwnedRowFits ==
  \A a \in Attempts :
    (pc[a] # "idle" /\ Owns(target[a], a)) => RowFits(pc[a], runs[target[a]].stage)

(* a has an update on the wire.                                             *)
Updates(a) == \E m \in puts : m.by = a

UpdateIsRecorded ==
  \A a \in Attempts :
    (pc[a] \in {"log_starting", "put"} \/ Updates(a))
      => runs[target[a]].stage \notin {"none", "claimed"}

UpdateIsLogged ==
  \A a \in Attempts :
    (pc[a] = "put" \/ Updates(a)) => "workflow_update_starting" \in timeline[target[a]]

RetryIsLogged ==
  \A a \in Attempts :
    (pc[a] = "post" \/ Requested(a)) => "retry_starting" \in timeline[target[a]]

IdleHasNotUpdated == \A a \in Attempts : pc[a] = "idle" => ~Updates(a)

Recorded ==
  /\ OwnedRowFits
  /\ UpdateIsRecorded
  /\ UpdateIsLogged
  /\ RetryIsLogged
  /\ IdleHasNotUpdated

RecordInv == RetryInv /\ Recorded

(* What StageNeverRegresses says of one step.                               *)
StagesGoForward ==
  \A p \in Proposals : Rank(runs[p].stage) <= Rank(runs'[p].stage)

LEMMA RecordedSuffices ==
  ASSUME RecordInv
  PROVE  RecordedFirst
<1>1. \A m \in puts : m.by \in Attempts
  BY DEF RecordInv, RetryInv, TypeInv, TypeOK, N8NTypeOK, Puts
<1>2. ASSUME NEW m \in puts
      PROVE  /\ runs[target[m.by]].stage \notin {"none", "claimed"}
             /\ "workflow_update_starting" \in timeline[target[m.by]]
  BY <1>1 DEF RecordInv, Recorded, UpdateIsRecorded, UpdateIsLogged, Updates
<1>3. ASSUME NEW a \in Attempts, Requested(a)
      PROVE  /\ runs[target[a]].stage \in RetryPhase
             /\ "retry_starting" \in timeline[target[a]]
  BY <1>3 DEF RecordInv, Recorded, RetryIsLogged, RetryInv, OneRetry,
              CommittedIsRecorded, Committed
<1> QED
  BY <1>2, <1>3 DEF RecordedFirst

-----------------------------------------------------------------------------
LEMMA BegunStaysBegun ==
  ASSUME NEW s \in Stages, NEW t \in Stages, Rank(s) <= Rank(t),
         s \notin {"none", "claimed"}
  PROVE  t \notin {"none", "claimed"}
  BY DEF Stages, Rank

LEMMA RankReflexive == \A s \in Stages : Rank(s) <= Rank(s)
  BY DEF Stages, Rank

(* The frame: one call moves, and writes its row only if it owns it.        *)
LEMMA CallRecords ==
  ASSUME RecordInv, NEW a \in Attempts, pc[a] # "idle",
         NEW next \in LivePcs \cup EndPcs, Goto(a, next), UNCHANGED target,
         \A q \in Proposals \ {target[a]} : runs'[q] = runs[q],
         \/ runs'[target[a]] = runs[target[a]]
         \/ Owns(target[a], a) /\ runs'[target[a]].owner \in {a, None},
         runs'[target[a]].stage \in Stages,
         Rank(runs[target[a]].stage) <= Rank(runs'[target[a]].stage),
         \A p \in Proposals : timeline[p] \subseteq timeline'[p],
         \A m \in puts' : m \in puts \/ (m.by = a /\ pc[a] = "put"),
         \A b \in Attempts : Requested(b)' => Requested(b) \/ (b = a /\ pc[a] = "post"),
         runs'[target[a]].owner = a => RowFits(next, runs'[target[a]].stage),
         next \in {"log_starting", "put"}
           => runs'[target[a]].stage \notin {"none", "claimed"},
         next = "put" => "workflow_update_starting" \in timeline'[target[a]],
         next = "post" => "retry_starting" \in timeline'[target[a]]
  PROVE  Recorded' /\ StagesGoForward
<1> DEFINE p == target[a]
<1>1. next # "idle" /\ pc'[a] = next /\ \A b \in Attempts \ {a} : pc'[b] = pc[b]
  BY DEF LivePcs, SavePcs, EndPcs, Goto, RecordInv, RetryInv, TypeInv, TypeOK,
         AttemptsTypeOK
<1>2. /\ p \in Proposals
      /\ \A q \in Proposals : runs[q].stage \in Stages
      /\ \A b \in Attempts : b # None
      /\ \A b \in Attempts : pc[b] # "idle" => target[b] \in Proposals
  BY RemediationAssumption
     DEF RecordInv, RetryInv, TypeInv, TypeOK, RunsTypeOK, Rows, HasTarget
<1>3. \A q \in Proposals : /\ runs'[q].stage \in Stages
                           /\ Rank(runs[q].stage) <= Rank(runs'[q].stage)
  BY <1>2, RankReflexive
<1>4. \A q \in Proposals : runs[q].stage \notin {"none", "claimed"}
                             => runs'[q].stage \notin {"none", "claimed"}
  BY <1>2, <1>3, BegunStaysBegun
<1>5. \A b \in Attempts : Updates(b)' => Updates(b) \/ (b = a /\ pc[a] = "put")
  BY DEF Updates
<1>6. \A b \in Attempts : Updates(b) => pc[b] # "idle"
  BY DEF RecordInv, Recorded, IdleHasNotUpdated
<1>7. \A b \in Attempts : Requested(b) => pc[b] # "idle"
  BY DEF RecordInv, RetryInv, OneRetry, IdleHasNotAsked, Committed
<1>8. OwnedRowFits'
  <2> SUFFICES ASSUME NEW b \in Attempts, pc'[b] # "idle", Owns(target[b], b)'
               PROVE  RowFits(pc'[b], runs'[target[b]].stage)
    BY DEF OwnedRowFits
  <2>1. CASE b = a
    BY <1>1, <2>1 DEF Owns
  <2>2. CASE b # a
    BY <1>1, <1>2, <2>2 DEF RecordInv, Recorded, OwnedRowFits, Owns
  <2> QED
    BY <2>1, <2>2
<1>9. UpdateIsRecorded'
  <2> SUFFICES ASSUME NEW b \in Attempts,
                      pc'[b] \in {"log_starting", "put"} \/ Updates(b)'
               PROVE  runs'[target[b]].stage \notin {"none", "claimed"}
    BY DEF UpdateIsRecorded
  <2>1. CASE pc[b] \in {"log_starting", "put"} \/ Updates(b)
    BY <1>2, <1>4, <1>6, <2>1 DEF RecordInv, Recorded, UpdateIsRecorded
  <2>2. CASE ~(pc[b] \in {"log_starting", "put"} \/ Updates(b))
    BY <1>1, <1>5, <2>2
  <2> QED
    BY <2>1, <2>2
<1>10. UpdateIsLogged'
  <2> SUFFICES ASSUME NEW b \in Attempts, pc'[b] = "put" \/ Updates(b)'
               PROVE  "workflow_update_starting" \in timeline'[target[b]]
    BY DEF UpdateIsLogged
  <2>1. CASE pc[b] = "put" \/ Updates(b)
    BY <1>2, <1>6, <2>1 DEF RecordInv, Recorded, UpdateIsLogged
  <2>2. CASE ~(pc[b] = "put" \/ Updates(b))
    BY <1>1, <1>5, <2>2
  <2> QED
    BY <2>1, <2>2
<1>11. RetryIsLogged'
  <2> SUFFICES ASSUME NEW b \in Attempts, pc'[b] = "post" \/ Requested(b)'
               PROVE  "retry_starting" \in timeline'[target[b]]
    BY DEF RetryIsLogged
  <2>1. CASE pc[b] = "post" \/ Requested(b)
    BY <1>2, <1>7, <2>1 DEF RecordInv, Recorded, RetryIsLogged
  <2>2. CASE ~(pc[b] = "post" \/ Requested(b))
    BY <1>1, <2>2
  <2> QED
    BY <2>1, <2>2
<1>12. IdleHasNotUpdated'
  BY <1>1, <1>5, <1>6 DEF IdleHasNotUpdated
<1> QED
  BY <1>3, <1>8, <1>9, <1>10, <1>11, <1>12 DEF Recorded, StagesGoForward

LEMMA StartedRecord ==
  ASSUME RecordInv, NEW a \in Attempts, pc[a] # "idle"
  PROVE  /\ target[a] \in Proposals
         /\ local[a] \in Locals
         /\ runs[target[a]] \in Rows
         /\ runs[target[a]].stage \in Stages
         /\ Rank(runs[target[a]].stage) <= Rank(runs[target[a]].stage)
         /\ Owns(target[a], a) =>
              /\ runs[target[a]].stage \notin {"none", "completed"}
              /\ RowFits(pc[a], runs[target[a]].stage)
<1>1. target[a] \in Proposals /\ local[a] \in Locals /\ runs[target[a]] \in Rows
  BY StartedRetry DEF RecordInv
<1>2. runs[target[a]].stage \in Stages
  BY <1>1 DEF Rows
<1>3. Owns(target[a], a) => runs[target[a]].stage \notin {"none", "completed"}
  BY StartedRetry DEF RecordInv
<1> QED
  BY <1>1, <1>2, <1>3, RankReflexive DEF RecordInv, Recorded, OwnedRowFits

(* The timeline only grows.                                                 *)
LEMMA TimelineGrows ==
  ASSUME RecordInv, NEW a \in Attempts, NEW event,
         timeline' = [timeline EXCEPT ![target[a]] = @ \cup {event}]
  PROVE  /\ \A p \in Proposals : timeline[p] \subseteq timeline'[p]
         /\ target[a] \in Proposals => event \in timeline'[target[a]]
  BY DEF RecordInv, RetryInv, TypeInv, TypeOK, AttemptsTypeOK

(* A call that reads, checks, logs or waits: the table stays.               *)
LEMMA CallWalks ==
  ASSUME RecordInv, NEW a \in Attempts, pc[a] # "idle",
         NEW next \in LivePcs \cup EndPcs, Goto(a, next),
         UNCHANGED <<runs, target, puts, posts, execs>>,
         \A p \in Proposals : timeline[p] \subseteq timeline'[p],
         Owns(target[a], a) => RowFits(next, runs[target[a]].stage),
         next # "log_starting",
         next = "put" => /\ pc[a] = "log_starting"
                         /\ "workflow_update_starting" \in timeline'[target[a]],
         next = "post" => "retry_starting" \in timeline'[target[a]]
  PROVE  Recorded' /\ StagesGoForward
<1>1. \A b \in Attempts : Requested(b)' => Requested(b)
  BY DEF Requested
<1>2. next = "put" => runs[target[a]].stage \notin {"none", "claimed"}
  BY DEF RecordInv, Recorded, UpdateIsRecorded
<1> QED
  BY <1>1, <1>2, StartedRecord, CallRecords DEF Owns

(* Where the code promises nothing about the row.                           *)
AnyRowPcs == {"read_dry", "read_approval", "verify", "save_retry", "poll", "complete",
              "log_recovered", "log_verified", "log_found", "log_started",
              "releasing", "done", "failed"}

LEMMA CallLeaves ==
  ASSUME RecordInv, NEW a \in Attempts, pc[a] # "idle",
         NEW next \in AnyRowPcs, Goto(a, next),
         UNCHANGED <<runs, target, puts, posts, execs>>,
         \A p \in Proposals : timeline[p] \subseteq timeline'[p]
  PROVE  Recorded' /\ StagesGoForward
<1>1. next \in LivePcs \cup EndPcs
  BY DEF AnyRowPcs, LivePcs, SavePcs, EndPcs
<1>2. next \notin {"log_starting", "put", "post"} /\ RowFits(next, runs[target[a]].stage)
  BY DEF AnyRowPcs, RowFits, UpdatePcs, RetryPcs
<1> QED
  BY <1>1, <1>2, CallWalks

LEMMA QuietRecord ==
  ASSUME RecordInv, NEW a \in Attempts,
         \/ LoadRow(a) \/ LoadReplay(a) \/ LoadBreaks(a) \/ ReadDryRun(a)
         \/ LogRecovered(a) \/ LogVerified(a) \/ LogFound(a) \/ LogStarted(a)
         \/ Poll(a) \/ Return(a) \/ Refuse(a) \/ Break(a) \/ ReleaseBreaks(a)
  PROVE  Recorded' /\ StagesGoForward
<1> USE DEF AnyRowPcs
<1>1. CASE \/ LoadRow(a) \/ LoadReplay(a) \/ LoadBreaks(a) \/ ReadDryRun(a)
           \/ Poll(a) \/ ReleaseBreaks(a)
  <2>1. PICK next \in AnyRowPcs :
          /\ pc[a] # "idle" /\ Goto(a, next)
          /\ UNCHANGED <<runs, target, puts, posts, execs, timeline>>
    BY <1>1 DEF LoadRow, LoadReplay, LoadBreaks, ReadDryRun, Poll, ReleaseBreaks,
                rowVars, n8nVars
  <2> QED
    BY <2>1, CallLeaves
<1>2. CASE Refuse(a) \/ Break(a)
  <2>1. /\ pc[a] # "idle" /\ Goto(a, "releasing")
        /\ UNCHANGED <<runs, target, puts, posts, execs, timeline>>
    BY <1>2 DEF Refuse, Break, NoEvidence, Unverified, Stale, RetryUnknown,
                LeaseLost, Raise, LivePcs, SavePcs, rowVars, n8nVars
  <2> QED
    BY <2>1, CallLeaves
<1>3. CASE LogRecovered(a) \/ LogVerified(a) \/ LogFound(a) \/ LogStarted(a) \/ Return(a)
  <2>1. PICK next \in AnyRowPcs, event \in Events :
          /\ pc[a] # "idle" /\ Goto(a, next)
          /\ timeline' = [timeline EXCEPT ![target[a]] = @ \cup {event}]
          /\ UNCHANGED <<runs, target, puts, posts, execs>>
    BY <1>3 DEF LogRecovered, LogVerified, LogFound, LogStarted, Log, Return, Events,
                rowVars, n8nVars
  <2> QED
    BY <2>1, TimelineGrows, CallLeaves
<1> QED
  BY <1>1, <1>2, <1>3

LEMMA CheckRecord ==
  ASSUME RecordInv, NEW a \in Attempts,
         \/ ReadApproval(a) \/ FetchPatched(a) \/ FetchOriginal(a)
         \/ PutReturns(a) \/ ReadBack(a) \/ Verify(a) \/ Find(a) \/ PostReturns(a)
  PROVE  Recorded' /\ StagesGoForward
<1> USE DEF RowFits, UpdatePcs, RetryPcs, LivePcs, SavePcs
<1>1. /\ pc[a] # "idle"
      /\ UNCHANGED <<runs, target, puts, posts, execs, timeline>>
  BY DEF ReadApproval, FetchPatched, FetchOriginal, PutReturns, ReadBack, Verify, Find,
         PostReturns, rowVars, n8nVars
<1>2. Owns(target[a], a) => RowFits(pc[a], runs[target[a]].stage)
  BY <1>1, StartedRecord
<1>3. CASE ReadApproval(a)
  <2>1. PICK next \in {"fetch", "verify"} :
          Goto(a, next) /\ (next = "fetch" => local[a].stage \in BeforeVerified)
    BY <1>3 DEF ReadApproval
  <2>2. Owns(target[a], a) => local[a].stage = runs[target[a]].stage
    BY <1>3, StartedRetry DEF ReadApproval, FreshPcs, RecordInv
  <2> QED
    BY <1>1, <2>1, <2>2, CallWalks
<1>4. CASE Verify(a)
  <2>1. PICK next \in {"find", "poll", "save_retry"} :
          Goto(a, next) /\ (next = "find" => local[a].stage = "retry_starting")
    BY <1>4 DEF Verify, AfterVerify
  <2>2. Owns(target[a], a) => local[a].stage = runs[target[a]].stage
    BY <1>4, StartedRetry DEF Verify, FreshPcs, RecordInv
  <2> QED
    BY <1>1, <2>1, <2>2, CallWalks
<1>5. CASE FetchPatched(a) \/ FetchOriginal(a)
  <2>1. PICK next \in {"save_recovered", "save_starting"} : Goto(a, next)
    BY <1>5 DEF FetchPatched, FetchOriginal
  <2>2. pc[a] = "fetch"
    BY <1>5 DEF FetchPatched, FetchOriginal
  <2> QED
    BY <1>1, <1>2, <2>1, <2>2, CallWalks
<1>6. CASE PutReturns(a) \/ ReadBack(a)
  <2>1. PICK next \in {"readback", "save_verified"} : Goto(a, next)
    BY <1>6 DEF PutReturns, ReadBack
  <2>2. pc[a] \in UpdatePcs
    BY <1>6 DEF PutReturns, ReadBack
  <2> QED
    BY <1>1, <1>2, <2>1, <2>2, CallWalks
<1>7. CASE Find(a) \/ PostReturns(a)
  <2>1. PICK next \in {"save_found", "save_started"} : Goto(a, next)
    BY <1>7 DEF Find, PostReturns
  <2>2. pc[a] \in RetryPcs
    BY <1>7 DEF Find, PostReturns
  <2> QED
    BY <1>1, <1>2, <2>1, <2>2, CallWalks
<1> QED
  BY <1>3, <1>4, <1>5, <1>6, <1>7

(* The event that announces a request.                                      *)
LEMMA AnnounceRecord ==
  ASSUME RecordInv, NEW a \in Attempts, LogStarting(a) \/ LogRetry(a)
  PROVE  Recorded' /\ StagesGoForward
<1> USE DEF RowFits, UpdatePcs, RetryPcs, LivePcs
<1>1. pc[a] # "idle" /\ UNCHANGED <<runs, target, puts, posts, execs>>
  BY DEF LogStarting, LogRetry, Log, rowVars, n8nVars
<1>2. target[a] \in Proposals
      /\ (Owns(target[a], a) => RowFits(pc[a], runs[target[a]].stage))
  BY <1>1, StartedRecord
<1>3. CASE LogStarting(a)
  BY <1>1, <1>2, <1>3, TimelineGrows, CallWalks DEF LogStarting, Log
<1>4. CASE LogRetry(a)
  BY <1>1, <1>2, <1>4, TimelineGrows, CallWalks DEF LogRetry, Log
<1> QED
  BY <1>3, <1>4

(* The requests themselves.                                                 *)
LEMMA SendRecord ==
  ASSUME RecordInv, NEW a \in Attempts, SendPut(a) \/ SendPost(a)
  PROVE  Recorded' /\ StagesGoForward
<1> USE DEF RowFits, UpdatePcs, RetryPcs, LivePcs
<1>1. pc[a] # "idle" /\ UNCHANGED <<runs, target, execs, timeline>>
  BY DEF SendPut, SendPost, rowVars
<1>2. Owns(target[a], a) => RowFits(pc[a], runs[target[a]].stage)
  BY <1>1, StartedRecord
<1>3. CASE SendPut(a)
  <2>1. \A b \in Attempts : Requested(b)' => Requested(b)
    BY <1>3 DEF SendPut, Requested
  <2>2. \A m \in puts' : m \in puts \/ (m.by = a /\ pc[a] = "put")
    BY <1>3 DEF SendPut
  <2> QED
    BY <1>1, <1>2, <1>3, <2>1, <2>2, StartedRecord, CallRecords DEF SendPut, Owns
<1>4. CASE SendPost(a)
  <2>1. \A b \in Attempts : Requested(b)' => Requested(b) \/ (b = a /\ pc[a] = "post")
    BY <1>4 DEF SendPost, Requested
  <2> QED
    BY <1>1, <1>2, <1>4, <2>1, StartedRecord, CallRecords DEF SendPost, Owns
<1> QED
  BY <1>3, <1>4

-----------------------------------------------------------------------------
(* The owner moves the stage.                                               *)
LEMMA SaveRecords ==
  ASSUME RecordInv, NEW a \in Attempts, NEW at \in LivePcs,
         NEW stage \in Stages \ {"none", "completed"}, NEW expected, NEW retryId,
         NEW next \in LivePcs, Save(a, at, stage, expected, retryId, next),
         Rank(runs[target[a]].stage) <= Rank(stage),
         RowFits(next, stage), next \notin {"put", "post"},
         next = "log_starting" => stage # "claimed"
  PROVE  Recorded' /\ StagesGoForward
<1>1. pc[a] # "idle" /\ Owns(target[a], a)
  BY DEF Save, SetStage, LivePcs, SavePcs
<1>2. target[a] \in Proposals /\ runs[target[a]] \in Rows
  BY <1>1, StartedRecord
<1>3. /\ runs'[target[a]].stage = stage
      /\ runs'[target[a]].owner = a
      /\ \A q \in Proposals \ {target[a]} : runs'[q] = runs[q]
  BY <1>1, <1>2
     DEF Save, SetStage, Owns, Rows, RecordInv, RetryInv, TypeInv, TypeOK, RunsTypeOK
<1>4. Goto(a, next) /\ UNCHANGED <<target, puts, posts, execs, timeline>>
  BY DEF Save, n8nVars
<1>5. \A b \in Attempts : Requested(b)' => Requested(b)
  BY <1>4 DEF Requested
<1> QED
  BY <1>1, <1>2, <1>3, <1>4, <1>5, CallRecords

LEMMA SavesRecord ==
  ASSUME RecordInv, NEW a \in Attempts,
         \/ SaveRecovered(a) \/ SaveStarting(a) \/ SaveVerified(a)
         \/ SaveFound(a) \/ SaveRetry(a) \/ SaveStarted(a)
  PROVE  Recorded' /\ StagesGoForward
<1> DEFINE old == runs[target[a]].stage
<1> USE DEF LivePcs, SavePcs, UpdatePcs, RetryPcs, RowFits, Stages
<1>1. pc[a] # "idle" /\ Owns(target[a], a)
  BY DEF SaveRecovered, SaveStarting, SaveVerified, SaveFound, SaveRetry, SaveStarted,
         Save, SetStage
<1>2. RowFits(pc[a], old)
  BY <1>1, StartedRecord
<1>3. CASE SaveRecovered(a)
  <2>1. Rank(old) <= Rank("workflow_verified")
    BY <1>2, <1>3 DEF SaveRecovered, Save, BeforeVerified, Rank
  <2> QED
    BY SMTT(30), <1>3, <2>1, SaveRecords DEF SaveRecovered
<1>4. CASE SaveStarting(a)
  <2>1. Rank(old) <= Rank("workflow_update_starting")
    BY <1>2, <1>4 DEF SaveStarting, Save, BeforeVerified, Rank
  <2> QED
    BY SMTT(30), <1>4, <2>1, SaveRecords DEF SaveStarting
<1>5. CASE SaveVerified(a)
  <2>1. Rank(old) <= Rank("workflow_verified")
    BY <1>2, <1>5 DEF SaveVerified, Save, Rank
  <2> QED
    BY SMTT(30), <1>5, <2>1, SaveRecords DEF SaveVerified
<1>6. CASE SaveFound(a)
  <2>1. Rank(old) <= Rank("retry_started")
    BY <1>2, <1>6 DEF SaveFound, Save, Rank
  <2> QED
    BY SMTT(30), <1>6, <2>1, SaveRecords DEF SaveFound
<1>7. CASE SaveRetry(a)
  <2>1. old \in EarlyStages
    BY <1>1, <1>7, StartedRetry DEF SaveRetry, Save, EarlyPcs, RecordInv
  <2>2. Rank(old) <= Rank("retry_starting")
    BY <2>1 DEF EarlyStages, Rank
  <2> QED
    BY SMTT(30), <1>7, <2>2, SaveRecords DEF SaveRetry
<1>8. CASE SaveStarted(a)
  <2>1. Rank(old) <= Rank("retry_started")
    BY <1>2, <1>8 DEF SaveStarted, Save, Rank
  <2> QED
    BY SMTT(30), <1>8, <2>1, SaveRecords DEF SaveStarted
<1> QED
  BY <1>3, <1>4, <1>5, <1>6, <1>7, <1>8

(* The owner gives the row back.                                            *)
LEMMA EndRecord ==
  ASSUME RecordInv, NEW a \in Attempts, CompleteRun(a) \/ Release(a)
  PROVE  Recorded' /\ StagesGoForward
<1> USE DEF LivePcs, EndPcs, RowFits, UpdatePcs, RetryPcs
<1>1. pc[a] # "idle" /\ UNCHANGED <<target, puts, posts, execs, timeline>>
  BY DEF CompleteRun, Release, n8nVars
<1>2. /\ target[a] \in Proposals /\ runs[target[a]] \in Rows
      /\ runs[target[a]].stage \in Stages
      /\ Rank(runs[target[a]].stage) <= Rank(runs[target[a]].stage)
  BY <1>1, StartedRecord
<1>3. \A b \in Attempts : Requested(b)' => Requested(b)
  BY <1>1 DEF Requested
<1>4. runs \in [Proposals -> Rows]
  BY DEF RecordInv, RetryInv, TypeInv, TypeOK, RunsTypeOK
<1>5. CASE CompleteRun(a)
  <2>1. /\ Owns(target[a], a) /\ Goto(a, "log_completed")
        /\ runs'[target[a]].stage = "completed" /\ runs'[target[a]].owner = None
        /\ \A q \in Proposals \ {target[a]} : runs'[q] = runs[q]
    BY <1>2, <1>4, <1>5 DEF CompleteRun, Complete, Rows
  <2>2. Rank(runs[target[a]].stage) <= Rank("completed") /\ "completed" \in Stages
    BY <1>2 DEF Stages, Rank
  <2> QED
    BY <1>1, <1>2, <1>3, <2>1, <2>2, CallRecords
<1>6. CASE Release(a) /\ Owns(target[a], a)
  <2>1. /\ Goto(a, "failed")
        /\ runs'[target[a]].stage = runs[target[a]].stage
        /\ runs'[target[a]].owner = None
        /\ \A q \in Proposals \ {target[a]} : runs'[q] = runs[q]
    BY <1>2, <1>4, <1>6 DEF Release, ReleaseRow, Rows
  <2> QED
    BY <1>1, <1>2, <1>3, <1>6, <2>1, CallRecords
<1>7. CASE Release(a) /\ ~Owns(target[a], a)
  BY <1>1, <1>7, CallLeaves DEF Release, ReleaseRow, AnyRowPcs
<1> QED
  BY <1>5, <1>6, <1>7

LEMMA StepRecord ==
  ASSUME RecordInv, NEW a \in Attempts, Step(a) \/ Fault(a)
  PROVE  Recorded' /\ StagesGoForward
  BY QuietRecord, CheckRecord, AnnounceRecord, SendRecord, SavesRecord, EndRecord
     DEF Step, Fault

-----------------------------------------------------------------------------
(* Steps that are not those of a started call.                              *)
LEMMA BeginRecord ==
  ASSUME RecordInv, NEW a \in Attempts, Call(a)
  PROVE  Recorded' /\ StagesGoForward
<1>1. PICK p \in Proposals : Begin(a, p) \/ BeginReplay(a, p)
  BY DEF Call
<1>2. /\ pc[a] = "idle" /\ pc'[a] \in {"load", "done"} /\ target'[a] = p
      /\ UNCHANGED <<puts, posts, execs, timeline>>
      /\ \A b \in Attempts \ {a} : pc'[b] = pc[b] /\ target'[b] = target[b]
  BY <1>1 DEF Begin, BeginReplay, Goto, n8nVars, RecordInv, RetryInv, TypeInv, TypeOK,
              AttemptsTypeOK
<1>3. \A q \in Proposals :
        /\ runs'[q].stage \in {runs[q].stage, "claimed"}
        /\ runs[q].stage # "none" => runs'[q].stage = runs[q].stage
        /\ runs'[q].owner \in {runs[q].owner, a}
  <2>1. runs \in [Proposals -> Rows]
    BY DEF RecordInv, RetryInv, TypeInv, TypeOK, RunsTypeOK
  <2>2. CASE Begin(a, p)
    BY <2>1, <2>2 DEF Begin, Claim, TakeRow, Rows
  <2>3. CASE BeginReplay(a, p)
    BY <2>3 DEF BeginReplay, rowVars
  <2> QED
    BY <1>1, <2>2, <2>3
<1>4. \A q \in Proposals : runs[q].stage \in Stages
  BY DEF RecordInv, RetryInv, TypeInv, TypeOK, RunsTypeOK, Rows
<1>5. \A b \in Attempts : Requested(b)' <=> Requested(b)
  BY <1>2 DEF Requested
<1>6. \A b \in Attempts : (Requested(b) \/ Updates(b)) => b # a
  BY <1>2 DEF RecordInv, RetryInv, OneRetry, IdleHasNotAsked, Committed, Recorded,
              IdleHasNotUpdated
<1>7. \A b \in Attempts : pc[b] # "idle" => target[b] \in Proposals
  BY DEF RecordInv, RetryInv, TypeInv, HasTarget
<1>8. \A b \in Attempts : (Requested(b) \/ Updates(b)) => target[b] \in Proposals
  BY <1>7 DEF RecordInv, RetryInv, OneRetry, IdleHasNotAsked, Committed, Recorded,
              IdleHasNotUpdated
<1>9. OwnedRowFits'
  <2> SUFFICES ASSUME NEW b \in Attempts, pc'[b] # "idle", Owns(target[b], b)'
               PROVE  RowFits(pc'[b], runs'[target'[b]].stage)
    BY DEF OwnedRowFits
  <2>1. CASE b = a
    BY <1>2, <2>1 DEF RowFits, UpdatePcs, RetryPcs
  <2>2. CASE b # a
    <3>1. Owns(target[b], b) /\ runs[target[b]].stage # "none"
      BY <1>2, <1>3, <1>7, <2>2, StartedRecord DEF Owns
    <3> QED
      BY <1>2, <1>3, <1>7, <2>2, <3>1 DEF RecordInv, Recorded, OwnedRowFits
  <2> QED
    BY <2>1, <2>2
<1>10. UpdateIsRecorded'
  BY <1>2, <1>3, <1>6, <1>7, <1>8 DEF RecordInv, Recorded, UpdateIsRecorded, Updates
<1>11. UpdateIsLogged' /\ RetryIsLogged'
  BY <1>2, <1>5, <1>6 DEF RecordInv, Recorded, UpdateIsLogged, RetryIsLogged, Updates
<1>12. IdleHasNotUpdated'
  BY <1>2, <1>6 DEF RecordInv, Recorded, IdleHasNotUpdated, Updates
<1>13. StagesGoForward
  BY <1>3, <1>4 DEF StagesGoForward, Stages, Rank
<1> QED
  BY <1>9, <1>10, <1>11, <1>12, <1>13 DEF Recorded

LEMMA CrashRecord ==
  ASSUME RecordInv, Crash
  PROVE  Recorded' /\ StagesGoForward
<1>1. \A b \in Attempts : (pc'[b] = pc[b] /\ ~Live(b)) \/ pc'[b] = "dead"
  BY DEF Crash
<1>2. UNCHANGED <<runs, target, puts, posts, execs, timeline>>
  BY DEF Crash, rowVars, n8nVars
<1>3. \A b \in Attempts : (Updates(b)' <=> Updates(b)) /\ (Requested(b)' <=> Requested(b))
  BY <1>2 DEF Updates, Requested
<1>4. OwnedRowFits'
  BY <1>1, <1>2
     DEF Live, LivePcs, SavePcs, OwnedRowFits, RowFits, UpdatePcs, RetryPcs, Owns
<1>5. UpdateIsRecorded' /\ UpdateIsLogged' /\ RetryIsLogged'
  BY <1>1, <1>2, <1>3
     DEF RecordInv, Recorded, UpdateIsRecorded, UpdateIsLogged, RetryIsLogged
<1>6. IdleHasNotUpdated'
  BY <1>1, <1>3 DEF RecordInv, Recorded, IdleHasNotUpdated
<1>7. StagesGoForward
  BY <1>2, RankReflexive
     DEF StagesGoForward, RecordInv, RetryInv, TypeInv, TypeOK, RunsTypeOK, Rows
<1> QED
  BY <1>4, <1>5, <1>6, <1>7 DEF Recorded

(* n8n, people and the clock: no call moves, no row changes its stage.      *)
LEMMA OutsideRecord ==
  ASSUME RecordInv,
         \/ \E p \in Proposals : LeaseExpires(p)
         \/ Environment \/ People
         \/ UNCHANGED vars
  PROVE  Recorded' /\ StagesGoForward
<1>1. UNCHANGED <<pc, target, timeline>>
  BY DEF LeaseExpires, Environment, People, vars, attemptVars
<1>2. \A q \in Proposals : /\ runs'[q].stage = runs[q].stage
                           /\ runs'[q].owner = runs[q].owner
  <2>1. runs \in [Proposals -> Rows]
    BY DEF RecordInv, RetryInv, TypeInv, TypeOK, RunsTypeOK
  <2>2. ASSUME NEW p \in Proposals, LeaseExpires(p)
        PROVE  \A q \in Proposals : /\ runs'[q].stage = runs[q].stage
                                    /\ runs'[q].owner = runs[q].owner
    BY <2>1, <2>2 DEF LeaseExpires, LeaseRunsOut, Rows
  <2> QED
    BY <2>2 DEF Environment, People, vars, rowVars
<1>3. N8NServes \/ PeopleAct \/ UNCHANGED n8nVars
  BY DEF LeaseExpires, Environment, People, vars
<1>4. puts' \subseteq puts
  BY <1>3 DEF n8nVars, N8NServes, LandPut, LandRetry, FinishExecution, PeopleAct,
              HumanEdit, HumanRetry
<1>5. \A b \in Attempts : (Updates(b)' => Updates(b)) /\ (Requested(b)' => Requested(b))
  BY <1>3, <1>4, OutsideAsks DEF Updates, RecordInv, RetryInv
<1>6. \A b \in Attempts :
        (pc[b] # "idle" \/ Updates(b) \/ Requested(b)) => target[b] \in Proposals
  BY DEF RecordInv, RetryInv, TypeInv, HasTarget, OneRetry, IdleHasNotAsked, Committed,
         Recorded, IdleHasNotUpdated
<1>7. OwnedRowFits'
  BY <1>1, <1>2, <1>6 DEF RecordInv, Recorded, OwnedRowFits, Owns
<1>8. UpdateIsRecorded' /\ UpdateIsLogged' /\ RetryIsLogged'
  BY <1>1, <1>2, <1>5, <1>6
     DEF RecordInv, Recorded, UpdateIsRecorded, UpdateIsLogged, RetryIsLogged
<1>9. IdleHasNotUpdated'
  BY <1>1, <1>5 DEF RecordInv, Recorded, IdleHasNotUpdated
<1>10. StagesGoForward
  BY <1>2, RankReflexive
     DEF StagesGoForward, RecordInv, RetryInv, TypeInv, TypeOK, RunsTypeOK, Rows
<1> QED
  BY <1>7, <1>8, <1>9, <1>10 DEF Recorded

-----------------------------------------------------------------------------
LEMMA InitRecord == Init => Recorded
  BY DEF Init, N8NInit, Recorded, OwnedRowFits, UpdateIsRecorded, UpdateIsLogged,
         RetryIsLogged, IdleHasNotUpdated, Updates, Requested

LEMMA NextRecord ==
  ASSUME RecordInv, [Next]_vars
  PROVE  Recorded' /\ StagesGoForward
  BY BeginRecord, StepRecord, CrashRecord, OutsideRecord DEF Next

(* The row and the timeline already say what an owner, or a request on its  *)
(* way, is about to do (remediation.py:204-226, 289-301).                   *)
THEOREM RecordedHolds == Spec => []RecordInv
<1>1. Init => Recorded
  BY InitRecord
<1>2. TypeInv /\ OneRetry /\ Recorded /\ [Next]_vars => Recorded'
  BY NextRecord DEF RecordInv, RetryInv
<1>3. TypeInv /\ OneRetry /\ Recorded => RecordInv
  BY DEF RecordInv, RetryInv
<1> QED
  BY <1>1, <1>2, <1>3, TypeInvariant, OneRetryHolds, PTL DEF Spec

(* README.md:238: what a call is about to ask of n8n is in the row and in   *)
(* the timeline before the request is on the wire, whoever owns the row by  *)
(* then (remediation.py:204-226, 290-301).                                  *)
THEOREM RecordedFirstHolds == Spec => []RecordedFirst
<1>1. RecordInv => RecordedFirst
  BY RecordedSuffices
<1> QED
  BY <1>1, RecordedHolds, PTL

(* The durable stage never goes back, also when calls outlive their lease   *)
(* and two of them work on a proposal (state_store.py:317, 345).            *)
THEOREM StageNeverRegressesHolds == Spec => StageNeverRegresses
<1>1. RecordInv /\ [Next]_vars
        => [\A p \in Proposals : Rank(runs[p].stage) <= Rank(runs'[p].stage)]_vars
  BY NextRecord DEF StagesGoForward
<1> QED
  BY <1>1, RecordedHolds, PTL DEF Spec, StageNeverRegresses

-----------------------------------------------------------------------------
(* Every update is the proposal's own patch of a snapshot that was dry-run *)
(* and that a person approved, for every instance, and also when dry runs  *)
(* and approvals change while calls read them.                             *)
(*                                                                         *)
(* The argument.  What a call holds was once dry-run, since records come   *)
(* from nowhere else; what it goes on with was once approved, since it     *)
(* compares the two records; and the history of both only grows, so this   *)
(* stays true however long the call keeps its copy.                        *)

(* What the tables hold has been through a dry run, or been approved.       *)
EvidenceIsHistory ==
  \A p \in Proposals : /\ dry[p] \in past[p] \cup {None}
                       /\ appr[p] \in granted[p] \cup {None}

GrantedPcs == {"fetch", "save_starting", "log_starting", "put"}

(* What a call at this place knows of the snapshot it works on.             *)
Approved(at, l, p) ==
  /\ at \in GrantedPcs \cup {"read_approval"} => l.dry \in past[p] /\ l.dry # None
  /\ at \in GrantedPcs => l.dry \in granted[p]
  /\ at \in GrantedPcs \ {"fetch"} => l.expected = Patched(l.dry.def, p)

CallsAreApproved == \A a \in Attempts : Approved(pc[a], local[a], target[a])

ApprovalPart == EvidenceIsHistory /\ CallsAreApproved /\ WritesAreApproved

ApprovalInv == RecordInv /\ ApprovalPart

-----------------------------------------------------------------------------
(* The frame: a call moves, and an update it sends is what it holds.        *)
LEMMA CallApproves ==
  ASSUME ApprovalInv, NEW a \in Attempts, pc[a] # "idle",
         NEW next \in LivePcs \cup EndPcs, Goto(a, next),
         UNCHANGED <<target, recordVars>>,
         \A b \in Attempts \ {a} : local'[b] = local[b],
         \A m \in puts' :
           \/ m \in puts
           \/ /\ pc[a] = "put" /\ m.by = a
              /\ m.base = local[a].dry /\ m.def = local[a].expected,
         Approved(next, local'[a], target[a])
  PROVE  ApprovalPart'
<1>1. pc'[a] = next /\ \A b \in Attempts \ {a} : pc'[b] = pc[b]
  BY DEF Goto, ApprovalInv, RecordInv, RetryInv, TypeInv, TypeOK, AttemptsTypeOK
<1>2. UNCHANGED <<dry, appr, past, granted, target>>
  BY DEF recordVars
<1>3. EvidenceIsHistory'
  BY <1>2 DEF ApprovalInv, ApprovalPart, EvidenceIsHistory
<1>4. CallsAreApproved'
  BY <1>1, <1>2 DEF ApprovalInv, ApprovalPart, CallsAreApproved, Approved, Patched
<1>5. Approved(pc[a], local[a], target[a])
  BY DEF ApprovalInv, ApprovalPart, CallsAreApproved
<1>6. WritesAreApproved'
  <2> SUFFICES ASSUME NEW m \in puts'
               PROVE  /\ m.base \in granted[target[m.by]] \cap past[target[m.by]]
                      /\ m.def = Patched(m.base.def, target[m.by])
    BY <1>2 DEF WritesAreApproved, Patched
  <2>1. CASE m \in puts
    BY <2>1 DEF ApprovalInv, ApprovalPart, WritesAreApproved
  <2>2. CASE m \notin puts
    BY <1>5, <2>2 DEF Approved, GrantedPcs
  <2> QED
    BY <2>1, <2>2
<1> QED
  BY <1>3, <1>4, <1>6 DEF ApprovalPart

LEMMA CallNeedsNoApproval ==
  ASSUME ApprovalInv, NEW a \in Attempts, pc[a] # "idle",
         NEW next \in LivePcs \cup EndPcs, Goto(a, next),
         next \notin GrantedPcs \cup {"read_approval"},
         UNCHANGED <<target, recordVars, puts>>,
         \A b \in Attempts \ {a} : local'[b] = local[b]
  PROVE  ApprovalPart'
  BY CallApproves DEF Approved

LEMMA LocalOfCaller ==
  ASSUME ApprovalInv, NEW a \in Attempts, NEW l, local' = [local EXCEPT ![a] = l]
  PROVE  local'[a] = l /\ \A b \in Attempts \ {a} : local'[b] = local[b]
  BY LocalOfOthers DEF ApprovalInv, RecordInv

(* The calls that hold a snapshot, or come to hold one.                     *)
LEMMA ReadDryRunApproves ==
  ASSUME ApprovalInv, NEW a \in Attempts, ReadDryRun(a)
  PROVE  ApprovalPart'
<1>1. pc[a] # "idle" /\ target[a] \in Proposals /\ local[a] \in Locals
  BY StartedRecord DEF ReadDryRun, ApprovalInv
<1>2. PICK s \in DryRunSeen(target[a]) \ {None} :
        local' = [local EXCEPT ![a] = [local[a] EXCEPT !.dry = s]]
  BY DEF ReadDryRun
<1>3. s \in past[target[a]] /\ s # None
  BY <1>1, <1>2 DEF DryRunSeen, ApprovalInv, ApprovalPart, EvidenceIsHistory
<1>4. /\ local'[a] = [local[a] EXCEPT !.dry = s]
      /\ \A b \in Attempts \ {a} : local'[b] = local[b]
  BY <1>2, LocalOfCaller
<1>5. local'[a].dry = s
  BY <1>1, <1>4 DEF Locals
<1>6. Approved("read_approval", local'[a], target[a])
  BY <1>3, <1>5 DEF Approved, GrantedPcs
<1> QED
  BY <1>1, <1>4, <1>6, CallApproves DEF ReadDryRun, n8nVars, LivePcs

LEMMA ReadApprovalApproves ==
  ASSUME ApprovalInv, NEW a \in Attempts, ReadApproval(a)
  PROVE  ApprovalPart'
<1>1. pc[a] # "idle" /\ target[a] \in Proposals
  BY StartedRecord DEF ReadApproval, ApprovalInv
<1>2. local[a].dry \in past[target[a]] /\ local[a].dry # None
  BY DEF ReadApproval, ApprovalInv, ApprovalPart, CallsAreApproved, Approved
<1>3. local[a].dry \in granted[target[a]]
  BY <1>1, <1>2
     DEF ReadApproval, BoundApproval, ApprovalSeen, ApprovalInv, ApprovalPart,
         EvidenceIsHistory
<1>4. PICK next \in {"fetch", "verify"} : Goto(a, next)
  BY DEF ReadApproval
<1>5. Approved(next, local[a], target[a])
  BY <1>2, <1>3, <1>4 DEF Approved, GrantedPcs
<1> QED
  BY <1>1, <1>4, <1>5, CallApproves DEF ReadApproval, n8nVars, LivePcs

(* The update is computed from the very snapshot that was read.             *)
LEMMA FetchOriginalApproves ==
  ASSUME ApprovalInv, NEW a \in Attempts, FetchOriginal(a)
  PROVE  ApprovalPart'
<1>1. pc[a] # "idle" /\ target[a] \in Proposals /\ local[a] \in Locals
  BY StartedRecord DEF FetchOriginal, ApprovalInv
<1> DEFINE l == [local[a] EXCEPT !.stage = "claimed",
                                 !.expected = Patched(workflow.def, target[a])]
<1>2. local' = [local EXCEPT ![a] = l]
  BY DEF FetchOriginal
<1>3. local'[a] = l /\ \A b \in Attempts \ {a} : local'[b] = local[b]
  BY <1>2, LocalOfCaller
<1>4. /\ local'[a].dry = local[a].dry
      /\ local'[a].expected = Patched(local[a].dry.def, target[a])
  BY ZenonT(60), <1>1, <1>3 DEF FetchOriginal, Locals
<1>5. Approved("fetch", local[a], target[a])
  BY DEF FetchOriginal, ApprovalInv, ApprovalPart, CallsAreApproved
<1>6. Approved("save_starting", local'[a], target[a])
  BY <1>4, <1>5 DEF Approved, GrantedPcs
<1> QED
  BY <1>1, <1>3, <1>6, CallApproves DEF FetchOriginal, n8nVars, LivePcs, SavePcs

LEMMA StartUpdateApproves ==
  ASSUME ApprovalInv, NEW a \in Attempts,
         SaveStarting(a) \/ LogStarting(a) \/ SendPut(a)
  PROVE  ApprovalPart'
<1> USE DEF LivePcs, SavePcs, GrantedPcs
<1>1. /\ pc[a] # "idle" /\ target[a] \in Proposals /\ local[a] \in Locals
      /\ Approved(pc[a], local[a], target[a])
  BY StartedRecord
     DEF SaveStarting, Save, LogStarting, Log, SendPut, ApprovalInv, ApprovalPart,
         CallsAreApproved
<1>2. CASE SaveStarting(a)
  <2>1. local' = [local EXCEPT ![a] = [local[a] EXCEPT !.stage = "workflow_update_starting"]]
    BY <1>2 DEF SaveStarting, Save
  <2>2. /\ local'[a].dry = local[a].dry /\ local'[a].expected = local[a].expected
        /\ \A b \in Attempts \ {a} : local'[b] = local[b]
    BY <1>1, <2>1, LocalOfCaller DEF Locals
  <2>3. Approved("log_starting", local'[a], target[a])
    BY <1>1, <1>2, <2>2 DEF SaveStarting, Save, Approved
  <2> QED
    BY <1>1, <1>2, <2>2, <2>3, CallApproves DEF SaveStarting, Save, n8nVars
<1>3. CASE LogStarting(a)
  <2>1. Approved("put", local[a], target[a])
    BY <1>1, <1>3 DEF LogStarting, Log, Approved
  <2> QED
    BY <1>1, <1>3, <2>1, CallApproves DEF LogStarting, Log, n8nVars
<1>4. CASE SendPut(a)
  <2>1. Approved("put_wait", local[a], target[a])
    BY DEF Approved
  <2>2. \A m \in puts' :
          \/ m \in puts
          \/ /\ pc[a] = "put" /\ m.by = a
             /\ m.base = local[a].dry /\ m.def = local[a].expected
    BY <1>4 DEF SendPut
  <2> QED
    BY <1>1, <1>4, <2>1, <2>2, CallApproves DEF SendPut
<1> QED
  BY <1>2, <1>3, <1>4

(* The other steps of a call.                                               *)
LEMMA OtherStepsApprove ==
  ASSUME ApprovalInv, NEW a \in Attempts, Step(a) \/ Fault(a),
         ~(\/ ReadDryRun(a) \/ ReadApproval(a) \/ FetchOriginal(a)
           \/ SaveStarting(a) \/ LogStarting(a) \/ SendPut(a))
  PROVE  ApprovalPart'
<1> USE DEF LivePcs, SavePcs, EndPcs, GrantedPcs
<1>1. CASE \/ LoadRow(a) \/ Find(a) \/ PostReturns(a) \/ Poll(a) \/ Return(a)
           \/ Release(a) \/ ReleaseBreaks(a)
  <2>1. PICK next \in (LivePcs \cup EndPcs) \ (GrantedPcs \cup {"read_approval"}) :
          /\ pc[a] # "idle" /\ Goto(a, next) /\ \E l : local' = [local EXCEPT ![a] = l]
          /\ UNCHANGED <<target, recordVars, puts>>
    BY <1>1 DEF LoadRow, Find, PostReturns, Poll, Return, Release, ReleaseBreaks, n8nVars
  <2> QED
    BY <2>1, LocalOfCaller, CallNeedsNoApproval
<1>2. CASE \/ SaveRecovered(a) \/ SaveVerified(a) \/ SaveFound(a)
           \/ SaveRetry(a) \/ SaveStarted(a)
  <2>1. PICK next \in {"log_recovered", "log_verified", "log_found", "log_retry",
                       "log_started"} :
          /\ pc[a] # "idle" /\ Goto(a, next) /\ \E l : local' = [local EXCEPT ![a] = l]
          /\ UNCHANGED <<target, recordVars, puts>>
    BY <1>2 DEF SaveRecovered, SaveVerified, SaveFound, SaveRetry, SaveStarted, Save,
                n8nVars
  <2> QED
    BY <2>1, LocalOfCaller, CallNeedsNoApproval
<1>3. CASE \/ LoadReplay(a) \/ LoadBreaks(a) \/ FetchPatched(a) \/ LogRecovered(a)
           \/ PutReturns(a) \/ ReadBack(a) \/ LogVerified(a) \/ LogFound(a)
           \/ LogRetry(a) \/ SendPost(a) \/ LogStarted(a) \/ CompleteRun(a)
  <2>1. PICK next \in (LivePcs \cup EndPcs) \ (GrantedPcs \cup {"read_approval"}) :
          pc[a] # "idle" /\ Goto(a, next) /\ UNCHANGED <<local, target, recordVars, puts>>
    BY <1>3 DEF LoadReplay, LoadBreaks, FetchPatched, LogRecovered, PutReturns, ReadBack,
                LogVerified, LogFound, LogRetry, SendPost, LogStarted, CompleteRun, Log,
                n8nVars
  <2> QED
    BY <2>1, CallNeedsNoApproval
<1>4. CASE Verify(a)
  BY <1>4, CallNeedsNoApproval DEF Verify, AfterVerify, n8nVars
<1>5. CASE Refuse(a) \/ Break(a)
  <2>1. /\ pc[a] # "idle" /\ Goto(a, "releasing")
        /\ UNCHANGED <<local, target, recordVars, puts>>
    BY <1>5 DEF Refuse, Break, NoEvidence, Unverified, Stale, RetryUnknown, LeaseLost,
                Raise, n8nVars
  <2> QED
    BY <2>1, CallNeedsNoApproval
<1> QED
  BY <1>1, <1>2, <1>3, <1>4, <1>5 DEF Step, Fault

LEMMA StepApproves ==
  ASSUME ApprovalInv, NEW a \in Attempts, Step(a) \/ Fault(a)
  PROVE  ApprovalPart'
  BY ReadDryRunApproves, ReadApprovalApproves, FetchOriginalApproves,
     StartUpdateApproves, OtherStepsApprove

-----------------------------------------------------------------------------
(* Steps that are not those of a started call.                              *)
LEMMA BeginApproves ==
  ASSUME ApprovalInv, NEW a \in Attempts, Call(a)
  PROVE  ApprovalPart'
<1>1. PICK p \in Proposals : Begin(a, p) \/ BeginReplay(a, p)
  BY DEF Call
<1>2. /\ pc[a] = "idle" /\ pc'[a] \in {"load", "done"}
      /\ UNCHANGED <<puts, local, recordVars>>
      /\ \A b \in Attempts \ {a} : pc'[b] = pc[b] /\ target'[b] = target[b]
  BY <1>1 DEF Begin, BeginReplay, Goto, n8nVars, ApprovalInv, RecordInv, RetryInv, TypeInv,
              TypeOK, AttemptsTypeOK
<1>3. EvidenceIsHistory'
  BY <1>2 DEF recordVars, ApprovalInv, ApprovalPart, EvidenceIsHistory
<1>4. CallsAreApproved'
  BY <1>2 DEF recordVars, ApprovalInv, ApprovalPart, CallsAreApproved, Approved,
              GrantedPcs, Patched
<1>5. \A m \in puts : m.by \in Attempts \ {a}
  BY <1>2 DEF ApprovalInv, RecordInv, Recorded, IdleHasNotUpdated, Updates, RetryInv,
              TypeInv, TypeOK, N8NTypeOK, Puts
<1>6. WritesAreApproved'
  BY <1>2, <1>5 DEF recordVars, ApprovalInv, ApprovalPart, WritesAreApproved, Patched
<1> QED
  BY <1>3, <1>4, <1>6 DEF ApprovalPart

LEMMA CrashApproves ==
  ASSUME ApprovalInv, Crash
  PROVE  ApprovalPart'
<1>1. \A b \in Attempts : (pc'[b] = pc[b] /\ ~Live(b)) \/ pc'[b] = "dead"
  BY DEF Crash
<1>2. CallsAreApproved'
  BY <1>1 DEF Live, LivePcs, SavePcs, CallsAreApproved, Approved, GrantedPcs
<1> QED
  BY <1>2 DEF Crash, n8nVars, recordVars, ApprovalInv, ApprovalPart, EvidenceIsHistory,
              WritesAreApproved, Patched

(* Records change while calls hold older ones: the history keeps these.     *)
LEMMA HistoryGrows ==
  ASSUME EvidenceTypeOK, EvidenceIsHistory, NEW p \in Proposals, workflow \in Snapshots,
         DryRun(p, workflow) \/ Approve(p) \/ EvidenceStep(p, {workflow})
  PROVE  /\ EvidenceIsHistory'
         /\ \A q \in Proposals : past[q] \subseteq past'[q] /\ granted[q] \subseteq granted'[q]
  BY DEF EvidenceTypeOK, EvidenceIsHistory, EvidenceStep, DryRun, DryRunMade, Approve,
         ApprovalMade, DryRunSavedLate, ApprovalSavedLate

LEMMA OutsideApproves ==
  ASSUME ApprovalInv,
         \/ \E p \in Proposals : LeaseExpires(p)
         \/ Environment \/ People
         \/ UNCHANGED vars
  PROVE  ApprovalPart'
<1>1. UNCHANGED <<pc, target, local>>
  BY DEF LeaseExpires, Environment, People, vars, attemptVars
<1>2. puts' \subseteq puts
  BY DEF LeaseExpires, Environment, People, vars, n8nVars, N8NServes, LandPut, LandRetry,
         FinishExecution, PeopleAct, HumanEdit, HumanRetry
<1>3. /\ EvidenceIsHistory'
      /\ \A q \in Proposals : past[q] \subseteq past'[q] /\ granted[q] \subseteq granted'[q]
  <2>1. CASE UNCHANGED recordVars
    BY <2>1 DEF recordVars, ApprovalInv, ApprovalPart, EvidenceIsHistory
  <2>2. CASE \E p \in Proposals :
               DryRun(p, workflow) \/ Approve(p) \/ EvidenceStep(p, {workflow})
    BY <2>2, HistoryGrows
       DEF ApprovalInv, ApprovalPart, RecordInv, RetryInv, TypeInv, TypeOK, N8NTypeOK
  <2> QED
    BY <2>1, <2>2 DEF LeaseExpires, Environment, People, vars
<1>4. \A b \in Attempts : pc[b] # "idle" => target[b] \in Proposals
  BY DEF ApprovalInv, RecordInv, RetryInv, TypeInv, HasTarget
<1>5. \A m \in puts : m.by \in Attempts /\ target[m.by] \in Proposals
  BY <1>4 DEF ApprovalInv, RecordInv, Recorded, IdleHasNotUpdated, Updates, RetryInv,
              TypeInv, TypeOK, N8NTypeOK, Puts
<1>6. CallsAreApproved'
  BY <1>1, <1>3, <1>4 DEF ApprovalInv, ApprovalPart, CallsAreApproved, Approved,
                          GrantedPcs, Patched
<1>7. WritesAreApproved'
  BY <1>1, <1>2, <1>3, <1>5 DEF ApprovalInv, ApprovalPart, WritesAreApproved, Patched
<1> QED
  BY <1>3, <1>6, <1>7 DEF ApprovalPart

-----------------------------------------------------------------------------
(* A call past its checks holds a snapshot that a person approved, and the  *)
(* update it sends is made of that (remediation.py:140-157, 187-226).       *)
THEOREM ApprovalHolds == Spec => []ApprovalInv
<1>1. Init => ApprovalPart
  BY DEF Init, N8NInit, EvidenceInit, ApprovalPart, EvidenceIsHistory, CallsAreApproved,
         Approved, GrantedPcs, WritesAreApproved
<1>2. RecordInv /\ ApprovalPart /\ [Next]_vars => ApprovalPart'
  BY BeginApproves, StepApproves, CrashApproves, OutsideApproves DEF Next, ApprovalInv
<1>3. RecordInv /\ ApprovalPart => ApprovalInv
  BY DEF ApprovalInv
<1> QED
  BY <1>1, <1>2, <1>3, RecordedHolds, PTL DEF Spec

(* README.md:222-225: nothing is written to n8n but the proposal's own      *)
(* patch of a snapshot that a person approved after a dry run of it         *)
(* (remediation.py:140-153, 187-226).                                       *)
THEOREM WritesAreApprovedHolds == Spec => []WritesAreApproved
<1>1. ApprovalInv => WritesAreApproved
  BY DEF ApprovalInv, ApprovalPart
<1> QED
  BY <1>1, ApprovalHolds, PTL

-----------------------------------------------------------------------------
(* What the retry executes.  All proposals are for one workflow; when there *)
(* is one proposal, nobody edits the workflow and n8n saves what it is sent *)
(* (README.md:228), whatever is saved after the verification is the patch   *)
(* of an approved snapshot again, also when it is a late update of a call   *)
(* that is gone.                                                            *)
Undisturbed ==
  /\ \E p : Proposals = {p}
  /\ MaxVersion = 0
  /\ ~LossyPersist

IsApproved(p, d) == \E s \in granted[p] : d = Patched(s.def, p)

RowExpectsApproved ==
  \A p \in Proposals : runs[p].expected # None => IsApproved(p, runs[p].expected)

CallExpectsApproved ==
  \A a \in Attempts :
    local[a].expected # None => pc[a] # "idle" /\ IsApproved(target[a], local[a].expected)

(* a has verified the workflow and may ask for the retry, or has asked.     *)
MayAsk(a) == pc[a] \in {"save_retry", "log_retry", "post"} \/ \E m \in posts : m.by = a

AsksForApproved == \A a \in Attempts : MayAsk(a) => IsApproved(target[a], workflow.def)

RetryPart ==
  /\ RowExpectsApproved
  /\ CallExpectsApproved
  /\ AsksForApproved
  /\ RetryRunsApprovedDefinition

(* The frame: a call moves, the workflow and the records stay.              *)
LEMMA CallExpects ==
  ASSUME ApprovalInv, RetryPart, NEW a \in Attempts, pc[a] # "idle",
         NEW next \in LivePcs \cup EndPcs, Goto(a, next),
         UNCHANGED <<target, recordVars, workflow, execs>>,
         \A b \in Attempts \ {a} : local'[b] = local[b],
         \A q \in Proposals \ {target[a]} : runs'[q] = runs[q],
         runs'[target[a]].expected # None
           => IsApproved(target[a], runs'[target[a]].expected),
         local'[a].expected # None => IsApproved(target[a], local'[a].expected),
         next \in {"save_retry", "log_retry", "post"} \/ (\E m \in posts' \ posts : TRUE)
           => IsApproved(target[a], workflow.def),
         \A m \in posts' \ posts : m.by = a
  PROVE  RetryPart'
<1>1. next # "idle" /\ pc'[a] = next /\ \A b \in Attempts \ {a} : pc'[b] = pc[b]
  BY DEF LivePcs, SavePcs, EndPcs, Goto, ApprovalInv, RecordInv, RetryInv, TypeInv,
         TypeOK, AttemptsTypeOK
<1>2. \A p, d : IsApproved(p, d)' <=> IsApproved(p, d)
  BY DEF recordVars, IsApproved, Patched
<1>3. RowExpectsApproved'
  BY <1>2 DEF RetryPart, RowExpectsApproved
<1>4. CallExpectsApproved'
  BY <1>1, <1>2 DEF RetryPart, CallExpectsApproved
<1>5. AsksForApproved'
  <2> SUFFICES ASSUME NEW b \in Attempts, MayAsk(b)'
               PROVE  IsApproved(target[b], workflow.def)
    BY <1>2 DEF AsksForApproved, recordVars, IsApproved, Patched
  <2>1. MayAsk(b) \/ (b = a /\ IsApproved(target[a], workflow.def))
    BY <1>1 DEF MayAsk
  <2> QED
    BY <2>1 DEF RetryPart, AsksForApproved
<1>6. RetryRunsApprovedDefinition'
  BY DEF recordVars, RetryPart, RetryRunsApprovedDefinition, Patched
<1> QED
  BY <1>3, <1>4, <1>5, <1>6 DEF RetryPart

LEMMA StartedExpects ==
  ASSUME ApprovalInv, RetryPart, NEW a \in Attempts, pc[a] # "idle"
  PROVE  /\ target[a] \in Proposals /\ local[a] \in Locals /\ runs[target[a]] \in Rows
         /\ runs[target[a]].expected # None
              => IsApproved(target[a], runs[target[a]].expected)
         /\ local[a].expected # None => IsApproved(target[a], local[a].expected)
         /\ MayAsk(a) => IsApproved(target[a], workflow.def)
         /\ Approved(pc[a], local[a], target[a])
  BY StartedRecord
     DEF ApprovalInv, ApprovalPart, CallsAreApproved, RetryPart, RowExpectsApproved,
         CallExpectsApproved, AsksForApproved

(* A call that does not come nearer to the retry.                           *)
LEMMA CallWandersOff ==
  ASSUME ApprovalInv, RetryPart, NEW a \in Attempts, pc[a] # "idle",
         NEW next \in LivePcs \cup EndPcs, Goto(a, next),
         UNCHANGED <<target, recordVars, workflow, posts, execs, runs>>,
         \A b \in Attempts \ {a} : local'[b] = local[b],
         local'[a].expected \in {local[a].expected, None},
         next \in {"save_retry", "log_retry", "post"} => MayAsk(a)
  PROVE  RetryPart'
  BY StartedExpects, CallExpects

LEMMA WalkRuns ==
  ASSUME ApprovalInv, RetryPart, NEW a \in Attempts,
         \/ LoadReplay(a) \/ LoadBreaks(a) \/ ReadApproval(a) \/ FetchPatched(a)
         \/ LogRecovered(a) \/ LogStarting(a) \/ SendPut(a) \/ PutReturns(a)
         \/ ReadBack(a) \/ LogVerified(a) \/ LogFound(a) \/ LogRetry(a)
         \/ LogStarted(a) \/ Refuse(a) \/ Break(a)
  PROVE  RetryPart'
<1> USE DEF LivePcs, SavePcs, EndPcs
<1>1. PICK next \in LivePcs \cup EndPcs :
        /\ pc[a] # "idle" /\ Goto(a, next)
        /\ UNCHANGED <<target, recordVars, workflow, posts, execs, runs, local>>
        /\ next \in {"save_retry", "log_retry", "post"} => pc[a] = "log_retry"
  <2>1. CASE LoadReplay(a) \/ LoadBreaks(a) \/ ReadApproval(a) \/ FetchPatched(a)
    BY <2>1 DEF LoadReplay, LoadBreaks, ReadApproval, FetchPatched, rowVars, n8nVars
  <2>2. CASE \/ LogRecovered(a) \/ LogStarting(a) \/ LogVerified(a) \/ LogFound(a)
             \/ LogRetry(a) \/ LogStarted(a)
    BY <2>2 DEF LogRecovered, LogStarting, LogVerified, LogFound, LogRetry, LogStarted,
                Log, rowVars, n8nVars
  <2>3. CASE SendPut(a) \/ PutReturns(a) \/ ReadBack(a)
    BY <2>3 DEF SendPut, PutReturns, ReadBack, rowVars, n8nVars
  <2>4. CASE Refuse(a) \/ Break(a)
    BY <2>4 DEF Refuse, Break, NoEvidence, Unverified, Stale, RetryUnknown, LeaseLost,
                Raise, rowVars, n8nVars
  <2> QED
    BY <2>1, <2>2, <2>3, <2>4
<1> QED
  BY <1>1, CallWandersOff DEF MayAsk

(* What is verified is what is expected, and what is expected is approved.  *)
LEMMA VerifyRuns ==
  ASSUME ApprovalInv, RetryPart, NEW a \in Attempts, Verify(a) \/ SendPost(a)
  PROVE  RetryPart'
<1>1. /\ pc[a] # "idle" /\ UNCHANGED <<target, recordVars, workflow, execs, runs, local>>
      /\ \A m \in posts' \ posts : m.by = a
  BY DEF Verify, SendPost, rowVars, n8nVars
<1>2. IsApproved(target[a], workflow.def)
  <2>1. CASE Verify(a)
    <3>1. workflow.def = local[a].expected /\ workflow.def # None
      BY <2>1, NoneAssumption
         DEF Verify, Verified, ApprovalInv, RecordInv, RetryInv, TypeInv, TypeOK,
             N8NTypeOK, Snapshots
    <3> QED
      BY <1>1, <3>1, StartedExpects
  <2>2. CASE SendPost(a)
    BY <1>1, <2>2, StartedExpects DEF SendPost, MayAsk
  <2> QED
    BY <2>1, <2>2
<1>3. \E next \in LivePcs \cup EndPcs : Goto(a, next)
  BY DEF Verify, AfterVerify, SendPost, LivePcs, SavePcs
<1> QED
  BY <1>1, <1>2, <1>3, StartedExpects, CallExpects

LEMMA ReadRuns ==
  ASSUME ApprovalInv, RetryPart, NEW a \in Attempts,
         \/ LoadRow(a) \/ ReadDryRun(a) \/ FetchOriginal(a) \/ Find(a)
         \/ PostReturns(a) \/ Poll(a) \/ Return(a) \/ ReleaseBreaks(a)
  PROVE  RetryPart'
<1> USE DEF LivePcs, SavePcs, EndPcs
<1>1. /\ pc[a] # "idle"
      /\ UNCHANGED <<target, recordVars, workflow, posts, execs, runs>>
      /\ \E next \in (LivePcs \cup EndPcs) \ {"save_retry", "log_retry", "post"} :
           Goto(a, next)
  BY DEF LoadRow, ReadDryRun, FetchOriginal, Find, PostReturns, Poll, Return,
         ReleaseBreaks, rowVars, n8nVars
<1>2. local[a] \in Locals /\ runs[target[a]] \in Rows
  BY <1>1, StartedExpects
<1>3. CASE LoadRow(a)
  <2> DEFINE row == runs[target[a]]
             l == [Blank EXCEPT !.stage = row.stage, !.expected = row.expected,
                                !.retryId = row.retryId]
  <2>1. local' = [local EXCEPT ![a] = l] /\ l.expected = row.expected
    BY <1>3 DEF LoadRow, Blank
  <2>2. local'[a] = l /\ \A b \in Attempts \ {a} : local'[b] = local[b]
    BY <2>1, LocalOfCaller
  <2> QED
    BY <1>1, <2>1, <2>2, StartedExpects, CallExpects
<1>4. CASE FetchOriginal(a)
  <2> DEFINE l == [local[a] EXCEPT !.stage = "claimed",
                                   !.expected = Patched(workflow.def, target[a])]
  <2>1. local' = [local EXCEPT ![a] = l]
    BY <1>4 DEF FetchOriginal
  <2>2. local'[a] = l /\ \A b \in Attempts \ {a} : local'[b] = local[b]
    BY <2>1, LocalOfCaller
  <2>3. l.expected = Patched(local[a].dry.def, target[a])
    BY <1>2, <1>4 DEF FetchOriginal, Locals
  <2>4. local[a].dry \in granted[target[a]]
    BY <1>1, <1>4, StartedExpects DEF FetchOriginal, Approved, GrantedPcs
  <2>5. IsApproved(target[a], l.expected)
    BY <2>3, <2>4 DEF IsApproved
  <2> QED
    BY <1>1, <2>2, <2>5, StartedExpects, CallExpects
<1>5. CASE \/ ReadDryRun(a) \/ Find(a) \/ PostReturns(a) \/ Poll(a) \/ Return(a)
           \/ ReleaseBreaks(a)
  <2>1. PICK l : /\ local' = [local EXCEPT ![a] = l]
                 /\ l.expected \in {local[a].expected, None}
    <3>1. CASE ReadDryRun(a) \/ Find(a) \/ PostReturns(a) \/ Poll(a)
      BY <1>2, <3>1 DEF ReadDryRun, Find, PostReturns, Poll, Locals
    <3>2. CASE Return(a) \/ ReleaseBreaks(a)
      BY <3>2 DEF Return, ReleaseBreaks, Blank
    <3> QED
      BY <1>5, <3>1, <3>2
  <2>2. local'[a] = l /\ \A b \in Attempts \ {a} : local'[b] = local[b]
    BY <2>1, LocalOfCaller
  <2> QED
    BY <1>1, <2>1, <2>2, CallWandersOff
<1> QED
  BY <1>3, <1>4, <1>5

LEMMA SaveRuns ==
  ASSUME ApprovalInv, RetryPart, NEW a \in Attempts, NEW at \in LivePcs,
         NEW stage \in Stages, NEW expected, expected \in {None, local[a].expected},
         NEW retryId,
         NEW next \in LivePcs \ {"save_retry", "post"},
         Save(a, at, stage, expected, retryId, next),
         next = "log_retry" => MayAsk(a)
  PROVE  RetryPart'
<1>1. /\ pc[a] # "idle" /\ Goto(a, next)
      /\ UNCHANGED <<target, recordVars, workflow, posts, execs>>
  BY DEF Save, LivePcs, SavePcs, n8nVars
<1>2. target[a] \in Proposals /\ runs[target[a]] \in Rows /\ local[a] \in Locals
  BY <1>1, StartedExpects
<1>3. /\ runs'[target[a]].expected \in {expected, runs[target[a]].expected}
      /\ \A q \in Proposals \ {target[a]} : runs'[q] = runs[q]
  BY <1>2 DEF Save, SetStage, Coalesce, Rows, ApprovalInv, RecordInv, RetryInv, TypeInv,
              TypeOK, RunsTypeOK
<1>4. /\ local'[a].expected = local[a].expected
      /\ \A b \in Attempts \ {a} : local'[b] = local[b]
  BY <1>2 DEF Save, Locals, ApprovalInv, RecordInv, RetryInv, TypeInv, TypeOK,
              AttemptsTypeOK
<1>5. runs'[target[a]].expected # None
        => IsApproved(target[a], runs'[target[a]].expected)
  BY <1>1, <1>3, StartedExpects
<1> QED
  BY <1>1, <1>3, <1>4, <1>5, StartedExpects, CallExpects

LEMMA WriteRuns ==
  ASSUME ApprovalInv, RetryPart, NEW a \in Attempts,
         \/ SaveRecovered(a) \/ SaveStarting(a) \/ SaveVerified(a)
         \/ SaveFound(a) \/ SaveRetry(a) \/ SaveStarted(a)
         \/ CompleteRun(a) \/ Release(a)
  PROVE  RetryPart'
<1> USE DEF LivePcs, SavePcs, EndPcs
<1>1. CASE \/ SaveRecovered(a) \/ SaveStarting(a) \/ SaveVerified(a)
           \/ SaveFound(a) \/ SaveStarted(a)
  <2>1. CASE SaveStarting(a)
    <3>1. PICK x : x = local[a].expected
      OBVIOUS
    <3>2. Save(a, "save_starting", "workflow_update_starting", x, None, "log_starting")
      BY <2>1, <3>1 DEF SaveStarting
    <3> QED
      BY <3>1, <3>2, SaveRuns DEF Stages
  <2>2. CASE SaveRecovered(a) \/ SaveVerified(a)
    BY <2>2, SaveRuns DEF SaveRecovered, SaveVerified, Stages
  <2>3. CASE SaveFound(a) \/ SaveStarted(a)
    BY <2>3, SaveRuns DEF SaveFound, SaveStarted, Stages
  <2> QED
    BY <1>1, <2>1, <2>2, <2>3
<1>2. CASE SaveRetry(a)
  <2>1. MayAsk(a)
    BY <1>2 DEF SaveRetry, Save, MayAsk
  <2> QED
    BY <1>2, <2>1, SaveRuns DEF SaveRetry, Stages
<1>3. CASE CompleteRun(a) \/ Release(a)
  <2>1. PICK next \in {"log_completed", "failed"} :
          /\ pc[a] # "idle" /\ Goto(a, next)
          /\ UNCHANGED <<target, recordVars, workflow, posts, execs>>
    BY <1>3 DEF CompleteRun, Release, n8nVars
  <2>2. target[a] \in Proposals /\ runs[target[a]] \in Rows
    BY <2>1, StartedExpects
  <2>3. /\ runs'[target[a]].expected = runs[target[a]].expected
        /\ \A q \in Proposals \ {target[a]} : runs'[q] = runs[q]
    BY ZenonT(60), <1>3, <2>2
       DEF CompleteRun, Complete, Release, ReleaseRow, Rows, ApprovalInv, RecordInv,
           RetryInv, TypeInv, TypeOK, RunsTypeOK
  <2>4. CASE UNCHANGED local
    BY <2>1, <2>3, <2>4, StartedExpects, CallExpects
  <2>5. CASE local' = [local EXCEPT ![a] = Blank]
    <3>1. local'[a] = Blank /\ \A b \in Attempts \ {a} : local'[b] = local[b]
      BY <2>5, LocalOfCaller
    <3>2. local'[a].expected = None
      BY <3>1 DEF Blank
    <3> QED
      BY <2>1, <2>3, <3>1, <3>2, StartedExpects, CallExpects
  <2> QED
    BY <1>3, <2>4, <2>5 DEF CompleteRun, Release
<1> QED
  BY <1>1, <1>2, <1>3

LEMMA StepRuns ==
  ASSUME ApprovalInv, RetryPart, NEW a \in Attempts, Step(a) \/ Fault(a)
  PROVE  RetryPart'
  BY WalkRuns, VerifyRuns, ReadRuns, WriteRuns DEF Step, Fault

LEMMA AskedHasStarted ==
  ASSUME ApprovalInv, NEW a \in Attempts,
         pc[a] # "idle" \/ MayAsk(a) \/ Requested(a)
  PROVE  pc[a] # "idle" /\ target[a] \in Proposals
  BY DEF MayAsk, Requested, ApprovalInv, RecordInv, RetryInv, OneRetry, IdleHasNotAsked,
         Committed, TypeInv, HasTarget

LEMMA BeginRuns ==
  ASSUME ApprovalInv, RetryPart, NEW a \in Attempts, Call(a)
  PROVE  RetryPart'
<1>1. PICK p \in Proposals : Begin(a, p) \/ BeginReplay(a, p)
  BY DEF Call
<1>2. /\ pc[a] = "idle" /\ pc'[a] \in {"load", "done"}
      /\ UNCHANGED <<workflow, posts, execs, local, granted>>
      /\ \A b \in Attempts \ {a} : pc'[b] = pc[b] /\ target'[b] = target[b]
  BY <1>1 DEF Begin, BeginReplay, Goto, n8nVars, recordVars, ApprovalInv, RecordInv,
              RetryInv, TypeInv, TypeOK, AttemptsTypeOK
<1>3. \A q, d : IsApproved(q, d)' <=> IsApproved(q, d)
  BY <1>2 DEF IsApproved, Patched
<1>4. \A q \in Proposals : runs'[q].expected = runs[q].expected
  <2>1. CASE Begin(a, p)
    BY <2>1 DEF Begin, Claim, TakeRow, Rows, ApprovalInv, RecordInv, RetryInv, TypeInv,
                TypeOK, RunsTypeOK
  <2>2. CASE BeginReplay(a, p)
    BY <2>2 DEF BeginReplay, rowVars
  <2> QED
    BY <1>1, <2>1, <2>2
<1>5. RowExpectsApproved'
  BY <1>3, <1>4 DEF RetryPart, RowExpectsApproved
<1>6. CallExpectsApproved'
  BY <1>2, <1>3 DEF RetryPart, CallExpectsApproved
<1>7. ~MayAsk(a)'
  BY <1>2 DEF MayAsk, Requested, ApprovalInv, RecordInv, RetryInv, OneRetry,
              IdleHasNotAsked, Committed
<1>8. AsksForApproved'
  <2> SUFFICES ASSUME NEW b \in Attempts, MayAsk(b)'
               PROVE  IsApproved(target'[b], workflow.def)
    BY <1>2 DEF AsksForApproved, IsApproved, Patched
  <2>1. b # a /\ MayAsk(b)
    BY <1>2, <1>7 DEF MayAsk
  <2> QED
    BY <1>2, <2>1 DEF RetryPart, AsksForApproved
<1>9. RetryRunsApprovedDefinition'
  <2>1. \A x \in execs : x.id \in Attempts => x.id # a
    BY <1>2 DEF Requested, ApprovalInv, RecordInv, RetryInv, OneRetry, IdleHasNotAsked,
                Committed
  <2>2. \A x \in execs : x.id \in Attempts => IsApproved(target'[x.id], x.def)
    BY <1>2, <2>1 DEF RetryPart, RetryRunsApprovedDefinition, IsApproved
  <2> QED
    BY <1>2, <2>2 DEF RetryRunsApprovedDefinition, IsApproved, Patched
<1> QED
  BY <1>5, <1>6, <1>8, <1>9 DEF RetryPart

LEMMA CrashRuns ==
  ASSUME ApprovalInv, RetryPart, Crash
  PROVE  RetryPart'
<1>1. UNCHANGED <<runs, target, granted, workflow, posts, execs>>
  BY DEF Crash, n8nVars, rowVars, recordVars
<1>2. \A b \in Attempts : pc'[b] \in {pc[b], "dead"} /\ local'[b].expected = None
  BY DEF Crash, Blank
<1>3. \A b \in Attempts : MayAsk(b)' => MayAsk(b)
  BY <1>1, <1>2 DEF MayAsk
<1> QED
  BY <1>1, <1>2, <1>3 DEF RetryPart, RowExpectsApproved, CallExpectsApproved,
     AsksForApproved, IsApproved, RetryRunsApprovedDefinition, Patched

(* The workflow, the requests and the executions, while people look on.     *)
LEMMA ServeRuns ==
  ASSUME Undisturbed, ApprovalInv, RetryPart, UNCHANGED <<target, pc, granted>>,
         N8NServes \/ PeopleAct
  PROVE  AsksForApproved' /\ RetryRunsApprovedDefinition'
<1> USE AskedHasStarted
<1>1. \A q, d : IsApproved(q, d)' <=> IsApproved(q, d)
  BY DEF IsApproved, Patched
<1>2. /\ workflow.version \in Nat /\ puts \subseteq Puts /\ posts \subseteq Posts
      /\ execs \subseteq Execs
  BY DEF ApprovalInv, RecordInv, RetryInv, TypeInv, TypeOK, N8NTypeOK, Snapshots
<1>3. ASSUME NEW m \in puts, LandPut(m)
      PROVE  AsksForApproved' /\ RetryRunsApprovedDefinition'
  <2>1. /\ posts' = posts /\ execs' = execs
        /\ workflow' = [version |-> workflow.version + 1, def |-> m.def]
    BY <1>3 DEF LandPut, SavedAs, Undisturbed
  <2>2. IsApproved(target[m.by], workflow'.def)
    BY <2>1 DEF IsApproved, ApprovalInv, ApprovalPart, WritesAreApproved
  <2>3. m.by \in Attempts /\ target[m.by] \in Proposals
    BY <1>2 DEF Puts, Updates, ApprovalInv, RecordInv, Recorded, IdleHasNotUpdated,
                RetryInv, TypeInv, HasTarget
  <2>4. \A a \in Attempts : MayAsk(a) => target[a] = target[m.by]
    BY <2>3 DEF Undisturbed
  <2>5. AsksForApproved'
    BY <1>1, <2>1, <2>2, <2>4 DEF AsksForApproved, MayAsk
  <2>6. RetryRunsApprovedDefinition'
    BY <2>1 DEF RetryPart, RetryRunsApprovedDefinition, Patched
  <2> QED
    BY <2>5, <2>6
<1>4. ASSUME NEW m \in posts, LandRetry(m)
      PROVE  AsksForApproved' /\ RetryRunsApprovedDefinition'
  <2> DEFINE x == [id |-> m.by, of |-> m.of, def |-> workflow.def, status |-> "running"]
  <2>1. /\ workflow' = workflow /\ posts' \subseteq posts /\ execs' = execs \cup {x}
        /\ x.id = m.by /\ x.def = workflow.def /\ m.by \in Attempts
    BY <1>2, <1>4 DEF LandRetry, Posts
  <2> HIDE DEF x
  <2>2. IsApproved(target[m.by], workflow.def)
    BY <2>1 DEF RetryPart, AsksForApproved, MayAsk
  <2>3. AsksForApproved'
    BY <1>1, <2>1 DEF RetryPart, AsksForApproved, MayAsk
  <2>4. \A y \in execs' : y.id \in Attempts => IsApproved(target[y.id], y.def)
    BY <2>1, <2>2 DEF IsApproved, RetryPart, RetryRunsApprovedDefinition
  <2> QED
    BY <2>3, <2>4 DEF IsApproved, RetryRunsApprovedDefinition, Patched
<1>5. ASSUME NEW x \in execs, FinishExecution(x)
      PROVE  AsksForApproved' /\ RetryRunsApprovedDefinition'
  <2>1. PICK s \in {"success", "error"} :
          /\ execs' = (execs \ {x}) \cup {[x EXCEPT !.status = s]}
          /\ UNCHANGED <<workflow, posts>>
    BY <1>5 DEF FinishExecution
  <2>2. [x EXCEPT !.status = s].id = x.id /\ [x EXCEPT !.status = s].def = x.def
    BY <1>2 DEF Execs
  <2>3. AsksForApproved'
    BY <1>1, <2>1 DEF RetryPart, AsksForApproved, MayAsk
  <2>4. \A y \in execs' : \E z \in execs : y.id = z.id /\ y.def = z.def
    BY <2>1, <2>2
  <2>5. \A y \in execs' : y.id \in Attempts => IsApproved(target[y.id], y.def)
    <3> SUFFICES ASSUME NEW y \in execs', y.id \in Attempts
                 PROVE  IsApproved(target[y.id], y.def)
      OBVIOUS
    <3>1. PICK z \in execs : y.id = z.id /\ y.def = z.def
      BY <2>4
    <3>2. IsApproved(target[z.id], z.def)
      BY <3>1 DEF RetryPart, RetryRunsApprovedDefinition, IsApproved
    <3> QED
      BY <3>1, <3>2
  <2> QED
    BY <2>3, <2>5 DEF IsApproved, RetryRunsApprovedDefinition, Patched
<1>6. ASSUME NEW h \in HumanRetries, HumanRetry(h)
      PROVE  AsksForApproved' /\ RetryRunsApprovedDefinition'
  <2>1. PICK e : /\ execs' = execs \cup {[id |-> h, of |-> e, def |-> workflow.def,
                                          status |-> "running"]}
                 /\ UNCHANGED <<workflow, posts>>
    BY <1>6 DEF HumanRetry
  <2>2. h \notin Attempts
    BY N8NAssumption
  <2>3. \A y \in execs' : y.id \in Attempts => y \in execs
    BY <2>1, <2>2
  <2> QED
    BY <1>1, <2>1, <2>3
       DEF RetryPart, AsksForApproved, MayAsk, RetryRunsApprovedDefinition, Patched
<1>7. ~HumanEdit
  BY <1>2 DEF HumanEdit, Undisturbed
<1> QED
  BY <1>3, <1>4, <1>5, <1>6, <1>7 DEF N8NServes, PeopleAct

LEMMA OutsideRuns ==
  ASSUME Undisturbed, ApprovalInv, RetryPart,
         \/ \E p \in Proposals : LeaseExpires(p)
         \/ Environment \/ People
         \/ UNCHANGED vars
  PROVE  RetryPart'
<1>1. UNCHANGED <<pc, target, local>>
  BY DEF LeaseExpires, Environment, People, vars, attemptVars
<1>2. \A q \in Proposals : runs'[q].expected = runs[q].expected
  BY DEF LeaseExpires, LeaseRunsOut, Environment, People, vars, rowVars, Rows,
         ApprovalInv, RecordInv, RetryInv, TypeInv, TypeOK, RunsTypeOK
<1>3. \A q \in Proposals : granted[q] \subseteq granted'[q]
  <2>1. CASE UNCHANGED recordVars
    BY <2>1 DEF recordVars
  <2>2. CASE \E p \in Proposals :
               DryRun(p, workflow) \/ Approve(p) \/ EvidenceStep(p, {workflow})
    BY <2>2, HistoryGrows
       DEF ApprovalInv, ApprovalPart, RecordInv, RetryInv, TypeInv, TypeOK, N8NTypeOK
  <2> QED
    BY <2>1, <2>2 DEF LeaseExpires, Environment, People, vars
<1>4. \A q \in Proposals : \A d : IsApproved(q, d) => IsApproved(q, d)'
  BY <1>3 DEF IsApproved, Patched
<1>5. RowExpectsApproved'
  BY <1>2, <1>4 DEF RetryPart, RowExpectsApproved
<1>6. CallExpectsApproved'
  BY <1>1, <1>4, AskedHasStarted DEF RetryPart, CallExpectsApproved
<1>7. AsksForApproved' /\ RetryRunsApprovedDefinition'
  <2>1. CASE (N8NServes \/ PeopleAct) /\ UNCHANGED recordVars
    BY <1>1, <2>1, ServeRuns DEF recordVars
  <2>2. CASE UNCHANGED n8nVars
    <3>1. AsksForApproved'
      BY <1>1, <1>4, <2>2, AskedHasStarted
         DEF n8nVars, RetryPart, AsksForApproved, MayAsk
    <3>2. \A x \in execs : x.id \in Attempts => target[x.id] \in Proposals
      BY AskedHasStarted DEF Requested
    <3>3. RetryRunsApprovedDefinition'
      BY <1>1, <1>3, <2>2, <3>2
         DEF n8nVars, RetryPart, RetryRunsApprovedDefinition, Patched
    <3> QED
      BY <3>1, <3>3
  <2> QED
    BY <2>1, <2>2 DEF LeaseExpires, Environment, People, vars
<1> QED
  BY <1>5, <1>6, <1>7 DEF RetryPart

-----------------------------------------------------------------------------
(* README.md:228: when nobody else edits the workflow and n8n keeps what it *)
(* is sent, the retry executes the definition that was approved, whatever   *)
(* calls crash, overlap or come back late (remediation.py:256-261).         *)
THEOREM RetryRunsApprovedHolds ==
  ASSUME Undisturbed
  PROVE  Spec => []RetryRunsApprovedDefinition
<1>1. Init => RetryPart
  BY DEF Init, N8NInit, RunsInit, NoRow, Blank, RetryPart, RowExpectsApproved,
         CallExpectsApproved, AsksForApproved, MayAsk, RetryRunsApprovedDefinition
<1>2. ApprovalInv /\ RetryPart /\ [Next]_vars => RetryPart'
  BY BeginRuns, StepRuns, CrashRuns, OutsideRuns DEF Next
<1>3. RetryPart => RetryRunsApprovedDefinition
  BY DEF RetryPart
<1> QED
  BY <1>1, <1>2, <1>3, ApprovalHolds, PTL DEF Spec
=============================================================================
