---------------------------- MODULE GateProofs ----------------------------
(***************************************************************************)
(* The two side-effect gates, for every instance and every restart that    *)
(* changes them, and the status with which the route answers a call that   *)
(* failed, for every exception that can end it.                            *)
(***************************************************************************)
EXTENDS RemediationProofs, ApplyRoute

(* Where a call can be that has not passed the gates.                       *)
OutsidePcs == {"idle", "load", "read_dry", "read_approval", "releasing"} \cup EndPcs

(* While a gate is closed nobody is past the two checks: a call that passed *)
(* them ended with the process that had them open.                          *)
NobodyInside == ~GatesOpen => \A a \in Attempts : pc[a] \in OutsidePcs

(* What ClosedGateMeansNoRequest says of one step.                          *)
NothingSent ==
  /\ puts' \subseteq puts
  /\ posts' \subseteq posts
  /\ \A p \in Proposals : runs'[p].stage \in {runs[p].stage, "claimed"}

-----------------------------------------------------------------------------
LEMMA OneCallMoves ==
  ASSUME TypeInv, NobodyInside, NEW a \in Attempts, NEW next \in OutsidePcs,
         Goto(a, next), UNCHANGED gates
  PROVE  NobodyInside'
  BY DEF TypeInv, TypeOK, AttemptsTypeOK, NobodyInside, Goto, GatesOpen

LEMMA EnterGate ==
  ASSUME TypeInv, NobodyInside, NEW a \in Attempts, Call(a)
  PROVE  NobodyInside' /\ NothingSent
<1>1. PICK p \in Proposals : Begin(a, p) \/ BeginReplay(a, p)
  BY DEF Call
<1>2. CASE Begin(a, p)
  <2>1. NobodyInside'
    BY <1>2, OneCallMoves DEF Begin, OutsidePcs
  <2>2. NothingSent
    BY <1>2 DEF Begin, Claim, TakeRow, n8nVars, NothingSent, TypeInv, TypeOK, RunsTypeOK, Rows
  <2> QED
    BY <2>1, <2>2
<1>3. CASE BeginReplay(a, p)
  BY <1>3, OneCallMoves
     DEF BeginReplay, OutsidePcs, EndPcs, n8nVars, rowVars, NothingSent
<1> QED
  BY <1>1, <1>2, <1>3

(* With a closed gate a call has few steps to take.                         *)
LEMMA ClosedStep ==
  ASSUME TypeInv, NobodyInside, ~GatesOpen, NEW a \in Attempts, Step(a) \/ Fault(a)
  PROVE  NobodyInside' /\ NothingSent
<1>1. pc[a] \in OutsidePcs
  BY DEF NobodyInside
<1>2. \/ LoadRow(a) \/ LoadReplay(a) \/ LoadBreaks(a) \/ ReadDryRun(a)
      \/ Refuse(a) \/ Break(a) \/ Release(a) \/ ReleaseBreaks(a)
  BY <1>1
     DEF Step, Fault, OutsidePcs, EndPcs, GatesOpen, ReadApproval, FetchPatched,
         SaveRecovered, LogRecovered, FetchOriginal, SaveStarting, LogStarting,
         SendPut, PutReturns, ReadBack, SaveVerified, LogVerified, Verify, Find,
         SaveFound, LogFound, SaveRetry, LogRetry, SendPost, PostReturns,
         SaveStarted, LogStarted, Poll, CompleteRun, Return, Save, Log
<1>3. UNCHANGED gates /\ puts' = puts /\ posts' = posts
  BY <1>2 DEF LoadRow, LoadReplay, LoadBreaks, ReadDryRun, Refuse, Break, Raise,
              Release, ReleaseBreaks, n8nVars
<1>4. \/ Goto(a, "read_dry") \/ Goto(a, "read_approval") \/ Goto(a, "releasing")
      \/ Goto(a, "done") \/ Goto(a, "failed")
  BY <1>2 DEF LoadRow, LoadReplay, LoadBreaks, ReadDryRun, Refuse, Break, Raise,
              Release, ReleaseBreaks
<1>5. NobodyInside'
  BY <1>3, <1>4, OneCallMoves DEF OutsidePcs, EndPcs
<1>6. UNCHANGED runs \/ ReleaseRow(target[a], a)
  BY <1>2 DEF LoadRow, LoadReplay, LoadBreaks, ReadDryRun, Refuse, Break, Raise,
              Release, ReleaseBreaks, rowVars
<1>7. \A p \in Proposals : runs'[p].stage = runs[p].stage
  <2>1. CASE ReleaseRow(target[a], a) /\ Owns(target[a], a)
    <3> DEFINE row == [runs[target[a]] EXCEPT !.owner = None, !.leased = FALSE]
    <3>1. target[a] \in Proposals
      BY <1>2, <2>1, StartedCall
         DEF LoadRow, LoadReplay, LoadBreaks, ReadDryRun, Refuse, Break, Raise,
             Release, ReleaseBreaks, NoEvidence, Unverified, Stale, RetryUnknown,
             LeaseLost, SavePcs, LivePcs
    <3>2. row.stage = runs[target[a]].stage
      BY <3>1 DEF TypeInv, TypeOK, RunsTypeOK, Rows
    <3>3. runs' = [runs EXCEPT ![target[a]] = row]
      BY <2>1 DEF ReleaseRow
    <3> QED
      BY <3>1, <3>2, <3>3 DEF TypeInv, TypeOK, RunsTypeOK
  <2> QED
    BY <1>6, <2>1 DEF ReleaseRow
<1> QED
  BY <1>3, <1>5, <1>7 DEF NothingSent

(* Steps of nobody's call.                                                  *)
LEMMA OutsideGate ==
  ASSUME TypeInv, NobodyInside,
         \/ Crash
         \/ \E p \in Proposals : LeaseExpires(p)
         \/ Environment \/ People
         \/ UNCHANGED vars
  PROVE  NobodyInside' /\ NothingSent
<1>1. CASE Crash
  <2>1. \A a \in Attempts : pc'[a] \in OutsidePcs
    BY <1>1 DEF Crash, Live, OutsidePcs, EndPcs, TypeInv, TypeOK, AttemptsTypeOK
  <2> QED
    BY <1>1, <2>1 DEF Crash, NobodyInside, NothingSent, n8nVars, rowVars
<1>2. CASE \E p \in Proposals : LeaseExpires(p)
  <2>1. NobodyInside'
    BY <1>2 DEF LeaseExpires, attemptVars, NobodyInside, GatesOpen
  <2>2. NothingSent
    BY <1>2 DEF LeaseExpires, LeaseRunsOut, n8nVars, NothingSent, TypeInv, TypeOK,
                RunsTypeOK, Rows
  <2> QED
    BY <2>1, <2>2
<1>3. CASE Environment \/ People \/ UNCHANGED vars
  <2>1. UNCHANGED <<rowVars, attemptVars, gates>>
    BY <1>3 DEF Environment, People, vars
  <2>2. puts' \subseteq puts /\ posts' \subseteq posts
    BY <1>3 DEF Environment, People, vars, n8nVars, N8NServes, LandPut, LandRetry,
                FinishExecution, PeopleAct, HumanEdit, HumanRetry
  <2> QED
    BY <2>1, <2>2 DEF rowVars, attemptVars, NobodyInside, GatesOpen, NothingSent
<1> QED
  BY <1>1, <1>2, <1>3

(* A call that goes on while both gates are open.                           *)
LEMMA OpenStep ==
  ASSUME GatesOpen, NEW a \in Attempts, Step(a) \/ Fault(a)
  PROVE  GatesOpen'
  BY DEF Step, Fault, GatesOpen, LoadRow, LoadReplay, LoadBreaks, ReadDryRun,
         ReadApproval, FetchPatched, SaveRecovered, LogRecovered, FetchOriginal,
         SaveStarting, LogStarting, SendPut, PutReturns, ReadBack, SaveVerified,
         LogVerified, Verify, Find, SaveFound, LogFound, SaveRetry, LogRetry,
         SendPost, PostReturns, SaveStarted, LogStarted, Poll, CompleteRun, Return,
         Save, Log, Refuse, Break, Raise, Release, ReleaseBreaks

LEMMA NextGate ==
  ASSUME TypeInv, NobodyInside, [Next]_vars
  PROVE  NobodyInside' /\ (~GatesOpen => NothingSent)
<1>1. ASSUME NEW a \in Attempts, Call(a)
      PROVE  NobodyInside' /\ (~GatesOpen => NothingSent)
  BY <1>1, EnterGate
<1>2. ASSUME NEW a \in Attempts, Step(a) \/ Fault(a)
      PROVE  NobodyInside' /\ (~GatesOpen => NothingSent)
  BY <1>2, ClosedStep, OpenStep DEF NobodyInside
<1> QED
  BY <1>1, <1>2, OutsideGate DEF Next

(* README.md:221: while a gate is closed nothing is sent and no stage       *)
(* moves, whatever was begun before a restart closed it                     *)
(* (remediation.py:145-148).                                                *)
THEOREM ClosedGateHolds == Spec => ClosedGateMeansNoRequest
<1>1. Init => NobodyInside
  BY DEF Init, NobodyInside, OutsidePcs
<1>2. TypeInv /\ NobodyInside /\ [Next]_vars => NobodyInside'
  BY NextGate
<1>3. TypeInv /\ NobodyInside /\ [Next]_vars =>
        [gates # {"mutation", "retry"} =>
           /\ puts' \subseteq puts
           /\ posts' \subseteq posts
           /\ \A p \in Proposals : runs'[p].stage \in {runs[p].stage, "claimed"}]_vars
  BY NextGate DEF NothingSent, GatesOpen
<1> QED
  BY <1>1, <1>2, <1>3, TypeInvariant, PTL DEF Spec, ClosedGateMeansNoRequest

-----------------------------------------------------------------------------
(* The answer to a call that failed (module ApplyRoute).                    *)
(*                                                                         *)
(* The argument.  A status that promises that nothing was done comes from a *)
(* check that a call passes before it sends anything, or from the lookup of *)
(* a retry.  A call does not come back to these checks after a request: it  *)
(* verifies once more what it has just written, and then it knows that its  *)
(* stage is workflow_verified, so it goes on to the retry without a lookup. *)

(* Where a call that has not sent anything can be, and only such a call.    *)
UnsentPcs == {"idle", "load", "read_dry", "read_approval", "fetch", "save_starting",
              "log_starting", "put", "save_recovered", "log_recovered", "find",
              "save_found", "log_found"}

UnsentHere == \A a \in Attempts : pc[a] \in UnsentPcs => a \notin sent

SentKnows ==
  \A a \in Attempts :
    (pc[a] \in {"log_verified", "verify"} /\ a \in sent)
      => local[a].stage = "workflow_verified"

RouteInv ==
  /\ raised \in [Attempts -> Exceptions \cup {None}]
  /\ UnsentHere
  /\ SentKnows
  /\ RefusalMeansUntouched

(* What a step of a call does to its place and its stage.                   *)
CallKnows(a) ==
  /\ \A b \in Attempts \ {a} : pc'[b] = pc[b] /\ local'[b] = local[b]
  /\ pc'[a] \in UnsentPcs =>
       \/ pc[a] \in UnsentPcs
       \/ pc[a] = "verify" /\ local[a].stage # "workflow_verified"
  /\ pc'[a] \in {"log_verified", "verify"} =>
       \/ pc[a] \in UnsentPcs
       \/ local'[a].stage = "workflow_verified"
       \/ pc[a] = "log_verified" /\ local'[a] = local[a]

LEMMA CallGoes ==
  ASSUME TypeInv, NEW a \in Attempts, NEW next, Goto(a, next)
  PROVE  pc'[a] = next /\ \A b \in Attempts \ {a} : pc'[b] = pc[b]
  BY DEF TypeInv, TypeOK, AttemptsTypeOK, Goto

LEMMA CallKeeps ==
  ASSUME TypeInv, NEW a \in Attempts, NEW l, local' = [local EXCEPT ![a] = l]
  PROVE  local'[a] = l /\ \A b \in Attempts \ {a} : local'[b] = local[b]
  BY DEF TypeInv, TypeOK, AttemptsTypeOK

(* Before the first request, or on the way to no check at all.              *)
LEMMA EasyKnows ==
  ASSUME TypeInv, NEW a \in Attempts,
         NEW next, Goto(a, next),
         \A b \in Attempts \ {a} : local'[b] = local[b],
         pc[a] \in UnsentPcs \/ next \notin UnsentPcs \cup {"log_verified", "verify"}
  PROVE  CallKnows(a)
  BY CallGoes DEF CallKnows

LEMMA EnterKnows ==
  ASSUME TypeInv, NEW a \in Attempts, Call(a)
  PROVE  CallKnows(a)
<1>1. PICK next : Goto(a, next)
  BY DEF Call, Begin, BeginReplay
<1> QED
  BY <1>1, EasyKnows DEF Call, Begin, BeginReplay, UnsentPcs

LEMMA UpdateKnows ==
  ASSUME TypeInv, NEW a \in Attempts,
         \/ LoadRow(a) \/ LoadReplay(a) \/ LoadBreaks(a) \/ ReadDryRun(a) \/ ReadApproval(a)
         \/ FetchPatched(a) \/ SaveRecovered(a) \/ LogRecovered(a)
         \/ FetchOriginal(a) \/ SaveStarting(a) \/ LogStarting(a) \/ SendPut(a)
         \/ Find(a) \/ SaveFound(a) \/ LogFound(a)
  PROVE  CallKnows(a)
<1>1. pc[a] \in UnsentPcs
  BY DEF UnsentPcs, LoadRow, LoadReplay, LoadBreaks, ReadDryRun, ReadApproval,
         FetchPatched, SaveRecovered, LogRecovered, FetchOriginal, SaveStarting,
         LogStarting, SendPut, Find, SaveFound, LogFound, Save, Log
<1>2. PICK next : Goto(a, next)
  BY DEF LoadRow, LoadReplay, LoadBreaks, ReadDryRun, ReadApproval,
         FetchPatched, SaveRecovered, LogRecovered, FetchOriginal, SaveStarting,
         LogStarting, SendPut, Find, SaveFound, LogFound, Save, Log
<1>3. UNCHANGED local \/ \E l : local' = [local EXCEPT ![a] = l]
  BY DEF LoadRow, LoadReplay, LoadBreaks, ReadDryRun, ReadApproval,
         FetchPatched, SaveRecovered, LogRecovered, FetchOriginal, SaveStarting,
         LogStarting, SendPut, Find, SaveFound, LogFound, Save, Log
<1>4. \A b \in Attempts \ {a} : local'[b] = local[b]
  BY <1>3, CallKeeps
<1> QED
  BY <1>1, <1>2, <1>4, EasyKnows

LEMMA VerifyKnows ==
  ASSUME TypeInv, NEW a \in Attempts,
         SaveVerified(a) \/ LogVerified(a) \/ Verify(a)
  PROVE  CallKnows(a)
<1>1. CASE SaveVerified(a)
  <2>1. local[a] \in Locals
    BY <1>1, StartedCall DEF SaveVerified, Save
  <2>2. local' = [local EXCEPT ![a] = [local[a] EXCEPT !.stage = "workflow_verified"]]
    BY <1>1 DEF SaveVerified, Save
  <2>3. local'[a].stage = "workflow_verified"
    <3>1. local'[a] = [local[a] EXCEPT !.stage = "workflow_verified"]
      BY <2>2, CallKeeps
    <3> QED
      BY <2>1, <3>1 DEF Locals
  <2>4. Goto(a, "log_verified")
    BY <1>1 DEF SaveVerified, Save
  <2> QED
    BY <2>2, <2>3, <2>4, CallKeeps, CallGoes DEF CallKnows, UnsentPcs
<1>2. CASE LogVerified(a)
  BY <1>2, CallGoes DEF LogVerified, Log, CallKnows, UnsentPcs
<1>3. CASE Verify(a)
  <2>1. Goto(a, AfterVerify(local[a].stage)) /\ UNCHANGED local /\ pc[a] = "verify"
    BY <1>3 DEF Verify
  <2>2. AfterVerify(local[a].stage) \in {"find", "poll", "save_retry"}
    BY DEF AfterVerify
  <2>3. AfterVerify(local[a].stage) = "find" => local[a].stage # "workflow_verified"
    BY DEF AfterVerify
  <2> QED
    BY <2>1, <2>2, <2>3, CallGoes DEF CallKnows, UnsentPcs
<1> QED
  BY <1>1, <1>2, <1>3

LEMMA RequestKnows ==
  ASSUME TypeInv, NEW a \in Attempts,
         \/ PutReturns(a) \/ ReadBack(a)
         \/ SaveRetry(a) \/ LogRetry(a) \/ SendPost(a) \/ PostReturns(a)
         \/ SaveStarted(a) \/ LogStarted(a) \/ Poll(a) \/ CompleteRun(a) \/ Return(a)
         \/ Refuse(a) \/ Release(a) \/ Break(a) \/ ReleaseBreaks(a)
  PROVE  CallKnows(a)
<1>1. PICK next : Goto(a, next) /\ next \notin UnsentPcs \cup {"log_verified", "verify"}
  BY DEF PutReturns, ReadBack, SaveRetry, LogRetry, SendPost, PostReturns, SaveStarted,
         LogStarted, Poll, CompleteRun, Return, Refuse, Release, Break, ReleaseBreaks,
         Raise, Save, Log, UnsentPcs
<1>2. UNCHANGED local \/ \E l : local' = [local EXCEPT ![a] = l]
  BY DEF PutReturns, ReadBack, SaveRetry, LogRetry, SendPost, PostReturns, SaveStarted,
         LogStarted, Poll, CompleteRun, Return, Refuse, Release, Break, ReleaseBreaks,
         Raise, Save, Log
<1>3. \A b \in Attempts \ {a} : local'[b] = local[b]
  BY <1>2, CallKeeps
<1> QED
  BY <1>1, <1>3, EasyKnows

LEMMA StepKnows ==
  ASSUME TypeInv, NEW a \in Attempts, Call(a) \/ Step(a) \/ Fault(a)
  PROVE  CallKnows(a)
  BY EnterKnows, UpdateKnows, VerifyKnows, RequestKnows DEF Step, Fault

(* Whatever step is taken, by whomever.                                     *)
Sends == sent' = {a \in Attempts :
                    /\ pc'[a] \in LivePcs
                    /\ a \in sent \/ pc'[a] \in {"put_wait", "post_wait"}}

LEMMA KnowsStays ==
  ASSUME TypeInv, RouteInv, Next, Sends
  PROVE  UnsentHere' /\ SentKnows'
<1>1. \A a \in Attempts : pc'[a] \in UnsentPcs \cup {"log_verified", "verify"}
        => (a \in sent' => a \in sent)
  BY DEF Sends, UnsentPcs
<1>2. ASSUME NEW a \in Attempts, CallKnows(a)
      PROVE  UnsentHere' /\ SentKnows'
  BY <1>1, <1>2 DEF CallKnows, RouteInv, UnsentHere, SentKnows, UnsentPcs
<1>3. CASE Crash
  <2>1. \A a \in Attempts : pc'[a] # "dead" => pc'[a] = pc[a] /\ ~Live(a)
    BY <1>3 DEF Crash
  <2> QED
    BY <1>1, <2>1 DEF RouteInv, UnsentHere, SentKnows, UnsentPcs, Live, LivePcs, SavePcs
<1>4. CASE \/ \E p \in Proposals : LeaseExpires(p)
           \/ Environment \/ People
  <2>1. UNCHANGED <<pc, local>>
    BY <1>4 DEF LeaseExpires, Environment, People, attemptVars
  <2> QED
    BY <1>1, <2>1 DEF RouteInv, UnsentHere, SentKnows
<1> QED
  BY <1>2, <1>3, <1>4, StepKnows DEF Next

LEMMA RaisedStays ==
  ASSUME TypeInv, RouteInv, RouteNext
  PROVE  raised' \in [Attempts -> Exceptions \cup {None}] /\ RefusalMeansUntouched'
<1>1. \A a \in Attempts : pc'[a] = "releasing" => (a \in sent' => a \in sent)
  BY DEF RouteNext
<1>2. ASSUME NEW a \in Attempts, NEW e \in Exceptions,
             Goto(a, "releasing"), raised' = [raised EXCEPT ![a] = e],
             StatusOf(e) \in {403, 404, 409} =>
               a \notin sent \/ e \in {"IncompleteWorkflow", "Key"}
      PROVE  raised' \in [Attempts -> Exceptions \cup {None}] /\ RefusalMeansUntouched'
  BY <1>1, <1>2, CallGoes DEF RouteInv, RefusalMeansUntouched
<1>3. ASSUME NEW a \in Attempts, Refuse(a), raised' = [raised EXCEPT ![a] = Refusal(a)]
      PROVE  raised' \in [Attempts -> Exceptions \cup {None}] /\ RefusalMeansUntouched'
  <2>1. Goto(a, "releasing")
    BY <1>3 DEF Refuse, Raise
  <2>2. Refusal(a) \in Exceptions
    BY DEF Refusal, ApprovalRefusal, Exceptions, Conflicts
  <2>3. CASE pc[a] \in UnsentPcs
    <3>1. a \notin sent
      BY <2>3 DEF RouteInv, UnsentHere
    <3> QED
      BY <1>2, <1>3, <2>1, <2>2, <3>1
  <2>4. CASE pc[a] \notin UnsentPcs
    <3>1. Unverified(a) \/ LeaseLost(a)
      BY <1>3, <2>4 DEF Refuse, NoEvidence, Stale, RetryUnknown, UnsentPcs
    <3>2. Refusal(a) \in {"Verification", "Lease"}
      BY <2>4, <3>1 DEF Refusal, Stale, RetryUnknown, Unverified, LeaseLost, SavePcs, UnsentPcs
    <3>3. StatusOf(Refusal(a)) \notin {403, 404, 409}
      BY <3>2 DEF StatusOf, Conflicts
    <3> QED
      BY <1>2, <1>3, <2>1, <2>2, <3>3
  <2> QED
    BY <2>3, <2>4
<1>4. ASSUME NEW a \in Attempts, Break(a), NEW e \in Breakage(a),
             raised' = [raised EXCEPT ![a] = e]
      PROVE  raised' \in [Attempts -> Exceptions \cup {None}] /\ RefusalMeansUntouched'
  <2>1. e \in {"HTTP", "Value", "Verification", "SQLite", "IncompleteWorkflow", "Key"}
    BY <1>4 DEF Breakage
  <2>2. StatusOf(e) \in {403, 404, 409} => e \in {"IncompleteWorkflow", "Key"}
    BY <2>1 DEF StatusOf, Conflicts
  <2>3. e \in Exceptions /\ Goto(a, "releasing")
    BY <1>4, <2>1 DEF Exceptions, Conflicts, Break, Raise
  <2> QED
    BY <1>2, <1>4, <2>2, <2>3
<1>5. ASSUME Next, \A a \in Attempts : pc'[a] = "releasing" => pc[a] = "releasing",
             raised' = [a \in Attempts |-> IF pc'[a] = "releasing" THEN raised[a] ELSE None]
      PROVE  raised' \in [Attempts -> Exceptions \cup {None}] /\ RefusalMeansUntouched'
  BY <1>1, <1>5 DEF RouteInv, RefusalMeansUntouched
<1> QED
  BY <1>3, <1>4, <1>5 DEF RouteNext, Raises

LEMMA RouteStepIsStep == RouteNext => Next /\ Sends
  BY DEF RouteNext, Raises, Sends, Next, Step, Fault

(* The route adds nothing to what a call does: all that is proved of Spec   *)
(* holds of the specification of the route, too (routes.py:227-264).        *)
THEOREM RouteKeepsSpec == RouteSpec => Spec
<1>1. [RouteNext]_routeVars => [Next]_vars
  BY RouteStepIsStep DEF routeVars
<1> QED
  BY <1>1, PTL DEF RouteSpec, Spec

(* A client that is told 403, 404 or 409 may believe that its call changed  *)
(* nothing in n8n, wherever the call was stopped (routes.py:235-259).       *)
THEOREM RefusalHolds == RouteSpec => []RefusalMeansUntouched
<1>1. Init /\ raised = [a \in Attempts |-> None] /\ sent = {} => RouteInv
  BY DEF Init, RouteInv, UnsentHere, SentKnows, RefusalMeansUntouched
<1>2. TypeInv /\ RouteInv /\ [RouteNext]_routeVars => RouteInv'
  <2>1. TypeInv /\ RouteInv /\ RouteNext => RouteInv'
    BY RouteStepIsStep, KnowsStays, RaisedStays DEF RouteInv
  <2>2. RouteInv /\ UNCHANGED routeVars => RouteInv'
    BY DEF routeVars, vars, attemptVars, RouteInv, UnsentHere, SentKnows,
           RefusalMeansUntouched
  <2> QED
    BY <2>1, <2>2
<1>3. RouteInv => RefusalMeansUntouched
  BY DEF RouteInv
<1> QED
  BY <1>1, <1>2, <1>3, RouteKeepsSpec, TypeInvariant, PTL DEF RouteSpec
=============================================================================
