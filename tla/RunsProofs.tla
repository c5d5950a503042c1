----------------------------- MODULE RunsProofs -----------------------------
(***************************************************************************)
(* Theorems about RemediationRuns, for every set of proposals and tokens,  *)
(* and about LeaseClock, for every length of a lease and of a wait for the *)
(* lock of SQLite.                                                         *)
(***************************************************************************)
EXTENDS LeaseClock, TLAPS

-----------------------------------------------------------------------------
(* Every step of the table keeps its rows well-formed (state_store.py:85).  *)
THEOREM RunsTypeCorrect == RunsSpec => []RunsTypeOK
<1>1. RunsInit => RunsTypeOK
  BY DEF RunsInit, RunsTypeOK, NoRow, Rows, Stages
<1>2. RunsTypeOK /\ [RunsNext]_runsVars => RunsTypeOK'
  <2>1. SUFFICES ASSUME RunsTypeOK, [RunsNext]_runsVars
                 PROVE  RunsTypeOK'
    OBVIOUS
  <2>2. CASE UNCHANGED runsVars
    BY <2>1, <2>2 DEF runsVars, RunsTypeOK
  <2>3. ASSUME NEW p \in Proposals, LeaseRunsOut(p)
        PROVE  RunsTypeOK'
    BY <2>1, <2>3 DEF LeaseRunsOut, RunsTypeOK, Rows
  <2>4. ASSUME NEW p \in Proposals, NEW o \in Tokens, Claim(p, o)
        PROVE  RunsTypeOK'
    BY ZenonT(60), <2>1, <2>4 DEF Claim, TakeRow, RunsTypeOK, Rows, Stages
  <2>5. ASSUME NEW p \in Proposals, NEW o \in Tokens, ReleaseRow(p, o)
        PROVE  RunsTypeOK'
    BY <2>1, <2>5 DEF ReleaseRow, RunsTypeOK, Rows
  <2>6. ASSUME NEW p \in Proposals, NEW o \in Tokens,
               NEW response \in Responses, Complete(p, o, response)
        PROVE  RunsTypeOK'
    BY <2>1, <2>6 DEF Complete, RunsTypeOK, Rows, Stages
  <2>7. ASSUME NEW p \in Proposals, NEW o \in Tokens,
               NEW stage \in Stages \ {"none", "claimed", "completed"},
               NEW expected \in Prints \cup {None},
               NEW retryId \in RetryIds \cup {None},
               SetStage(p, o, stage, expected, retryId)
        PROVE  RunsTypeOK'
    <3>1. /\ Coalesce(expected, runs[p].expected) \in Prints \cup {None}
          /\ Coalesce(retryId, runs[p].retryId) \in RetryIds \cup {None}
      BY <2>1, <2>7 DEF Coalesce, RunsTypeOK, Rows
    <3> QED
      BY <2>1, <2>7, <3>1 DEF SetStage, RunsTypeOK, Rows
  <2> QED
    BY <2>1, <2>2, <2>3, <2>4, <2>5, <2>6, <2>7 DEF RunsNext
<1> QED
  BY <1>1, <1>2, PTL DEF RunsSpec

-----------------------------------------------------------------------------
(* OneRowPerToken is not inductive by itself: a token that is claimed with  *)
(* must be new to the table, and a completed row must be nobody's.          *)
OwnersAreIssued == \A p \in Proposals : runs[p].owner \in issued \cup {None}

CompletedIsReleased ==
  \A p \in Proposals : Completed(p) => runs[p].owner = None /\ ~runs[p].leased

RunsInv == RunsTypeOK /\ OwnersAreIssued /\ OneRowPerToken /\ CompletedIsReleased

(* A table that a step leaves alone keeps the invariant.                    *)
LEMMA RunsInvStutter ==
  ASSUME RunsInv, UNCHANGED runsVars
  PROVE  RunsInv'
  BY DEF RunsInv, runsVars, RunsTypeOK, OwnersAreIssued, OneRowPerToken,
         CompletedIsReleased, Completed

LEMMA ClaimKeepsRunsInv ==
  ASSUME RunsInv, RunsTypeOK', NEW p \in Proposals, NEW o \in Tokens, Claim(p, o)
  PROVE  RunsInv'
<1>1. /\ runs'[p].owner = o
      /\ runs'[p].response = None
      /\ \A q \in Proposals \ {p} : runs'[q] = runs[q]
  BY DEF RunsInv, RunsTypeOK, Rows, Claim, TakeRow, Claimable, Completed
<1>2. o \notin issued /\ issued' = issued \cup {o}
  BY DEF Claim, TakeRow
<1>3. \A q \in Proposals \ {p} : runs[q].owner # o
  BY <1>2, RunsAssumption DEF RunsInv, OwnersAreIssued
<1>4. OwnersAreIssued'
  BY <1>1, <1>2 DEF RunsInv, OwnersAreIssued
<1>5. OneRowPerToken'
  BY <1>1, <1>3 DEF RunsInv, OneRowPerToken
<1>6. CompletedIsReleased'
  BY <1>1 DEF RunsInv, CompletedIsReleased, Completed
<1> QED
  BY <1>4, <1>5, <1>6 DEF RunsInv

(* An owner that writes its row keeps it or gives it up.                    *)
LEMMA OwnerWriteKeepsRunsInv ==
  ASSUME RunsInv, RunsTypeOK', UNCHANGED issued, NEW p \in Proposals,
         \A q \in Proposals \ {p} : runs'[q] = runs[q],
         runs'[p].owner \in {runs[p].owner, None},
         Completed(p)' => runs'[p].owner = None /\ ~runs'[p].leased
  PROVE  RunsInv'
<1>1. OwnersAreIssued'
  BY DEF RunsInv, OwnersAreIssued
<1>2. OneRowPerToken'
  BY DEF RunsInv, OneRowPerToken
<1>3. CompletedIsReleased'
  BY DEF RunsInv, CompletedIsReleased, Completed
<1> QED
  BY <1>1, <1>2, <1>3 DEF RunsInv

LEMMA LeaseRunsOutKeepsRunsInv ==
  ASSUME RunsInv, RunsTypeOK', NEW p \in Proposals, LeaseRunsOut(p)
  PROVE  RunsInv'
<1>1. /\ UNCHANGED issued
      /\ \A q \in Proposals \ {p} : runs'[q] = runs[q]
      /\ runs'[p].owner = runs[p].owner
      /\ runs'[p].leased = FALSE
      /\ runs'[p].response = runs[p].response
  BY DEF RunsInv, RunsTypeOK, Rows, LeaseRunsOut
<1> QED
  BY <1>1, OwnerWriteKeepsRunsInv DEF RunsInv, CompletedIsReleased, Completed

LEMMA ReleaseKeepsRunsInv ==
  ASSUME RunsInv, RunsTypeOK', NEW p \in Proposals, NEW o \in Tokens,
         ReleaseRow(p, o)
  PROVE  RunsInv'
<1>1. /\ UNCHANGED issued
      /\ \A q \in Proposals \ {p} : runs'[q] = runs[q]
      /\ runs'[p].owner \in {runs[p].owner, None}
      /\ runs'[p].leased \in {runs[p].leased, FALSE}
      /\ runs'[p].response = runs[p].response
  BY DEF RunsInv, RunsTypeOK, Rows, ReleaseRow
<1> QED
  BY <1>1, OwnerWriteKeepsRunsInv DEF RunsInv, CompletedIsReleased, Completed

LEMMA CompleteKeepsRunsInv ==
  ASSUME RunsInv, RunsTypeOK', NEW p \in Proposals, NEW o \in Tokens,
         NEW response \in Responses, Complete(p, o, response)
  PROVE  RunsInv'
<1>1. /\ UNCHANGED issued
      /\ \A q \in Proposals \ {p} : runs'[q] = runs[q]
      /\ runs'[p].owner = None
      /\ runs'[p].leased = FALSE
  BY DEF RunsInv, RunsTypeOK, Rows, Complete
<1> QED
  BY <1>1, OwnerWriteKeepsRunsInv

LEMMA SetStageKeepsRunsInv ==
  ASSUME RunsInv, RunsTypeOK', NEW p \in Proposals, NEW o \in Tokens,
         NEW stage, NEW expected, NEW retryId,
         SetStage(p, o, stage, expected, retryId)
  PROVE  RunsInv'
<1>1. /\ UNCHANGED issued
      /\ \A q \in Proposals \ {p} : runs'[q] = runs[q]
      /\ runs'[p].owner = runs[p].owner
      /\ runs'[p].response = runs[p].response
  BY DEF RunsInv, RunsTypeOK, Rows, SetStage
<1>2. runs[p].owner # None
  BY RunsAssumption DEF SetStage, Owns
<1> QED
  BY <1>1, <1>2, OwnerWriteKeepsRunsInv DEF RunsInv, CompletedIsReleased, Completed

(* A token that owns a row was issued by its claim, and a completed row is  *)
(* nobody's (state_store.py:250-361).                                       *)
THEOREM RunsInvariant == RunsSpec => []RunsInv
<1>1. RunsInit => RunsInv
  BY RunsAssumption
     DEF RunsInit, RunsInv, RunsTypeOK, NoRow, Rows, Stages, OwnersAreIssued,
         OneRowPerToken, CompletedIsReleased, Completed
<1>2. RunsInv /\ RunsTypeOK' /\ [RunsNext]_runsVars => RunsInv'
  BY RunsInvStutter, ClaimKeepsRunsInv, LeaseRunsOutKeepsRunsInv,
     ReleaseKeepsRunsInv, CompleteKeepsRunsInv, SetStageKeepsRunsInv
     DEF RunsNext
<1> QED
  BY <1>1, <1>2, RunsTypeCorrect, PTL DEF RunsSpec

(* A token owns at most one row (state_store.py:251).                       *)
THEOREM TokenOwnsOneRow == RunsSpec => []OneRowPerToken
<1>1. RunsInv => OneRowPerToken
  BY DEF RunsInv
<1> QED
  BY <1>1, RunsInvariant, PTL

-----------------------------------------------------------------------------
(* A lost lease is lost for good: every later write with that token meets   *)
(* no row (state_store.py:317, 345, 358).                                   *)
THEOREM LostStaysLost == RunsSpec => LostTokenStaysLost
<1>1. RunsInv /\ [RunsNext]_runsVars
        => [\A p \in Proposals, o \in issued :
              runs[p].owner # o => runs'[p].owner # o]_runsVars
  <2>1. SUFFICES ASSUME RunsInv, RunsNext, NEW q \in Proposals, NEW t \in issued,
                        runs[q].owner # t
                 PROVE  runs'[q].owner # t
    OBVIOUS
  <2>2. t \in Tokens /\ t # None
    BY <2>1, RunsAssumption DEF RunsInv, RunsTypeOK
  <2>3. runs \in [Proposals -> Rows]
    BY <2>1 DEF RunsInv, RunsTypeOK
  <2>4. ASSUME NEW p \in Proposals, LeaseRunsOut(p)
        PROVE  runs'[q].owner # t
    BY <2>1, <2>3, <2>4 DEF Rows, LeaseRunsOut
  <2>5. ASSUME NEW p \in Proposals, NEW o \in Tokens, Claim(p, o)
        PROVE  runs'[q].owner # t
    <3>1. runs'[q].owner \in {runs[q].owner, o} /\ o # t
      BY <2>1, <2>3, <2>5 DEF Rows, Claim, TakeRow
    <3> QED
      BY <2>1, <3>1
  <2>6. ASSUME NEW p \in Proposals, NEW o \in Tokens, ReleaseRow(p, o)
        PROVE  runs'[q].owner # t
    BY <2>1, <2>2, <2>3, <2>6 DEF Rows, ReleaseRow
  <2>7. ASSUME NEW p \in Proposals, NEW o \in Tokens,
               NEW response \in Responses, Complete(p, o, response)
        PROVE  runs'[q].owner # t
    BY <2>1, <2>2, <2>3, <2>7 DEF Rows, Complete
  <2>8. ASSUME NEW p \in Proposals, NEW o \in Tokens, NEW stage, NEW expected,
               NEW retryId, SetStage(p, o, stage, expected, retryId)
        PROVE  runs'[q].owner # t
    BY <2>1, <2>3, <2>8 DEF Rows, SetStage
  <2> QED
    BY <2>1, <2>4, <2>5, <2>6, <2>7, <2>8 DEF RunsNext
<1> QED
  BY <1>1, RunsInvariant, PTL DEF RunsSpec, LostTokenStaysLost

(* A persisted response is final, and so is its row (state_store.py:261).   *)
THEOREM CompletedIsFinal == RunsSpec => CompletedRowIsFinal
<1>1. RunsInv /\ [RunsNext]_runsVars
        => [\A p \in Proposals : Completed(p) => runs'[p] = runs[p]]_runsVars
  <2>1. SUFFICES ASSUME RunsInv, RunsNext, NEW q \in Proposals, Completed(q)
                 PROVE  runs'[q] = runs[q]
    OBVIOUS
  <2>2. /\ runs \in [Proposals -> Rows]
        /\ \A o \in Tokens : ~Owns(q, o)
        /\ ~runs[q].leased
    BY <2>1, RunsAssumption DEF RunsInv, RunsTypeOK, CompletedIsReleased, Owns
  <2> QED
    BY <2>1, <2>2
       DEF RunsNext, LeaseRunsOut, Claim, TakeRow, Claimable, ReleaseRow, Complete, SetStage
<1> QED
  BY <1>1, RunsInvariant, PTL DEF RunsSpec, CompletedRowIsFinal

-----------------------------------------------------------------------------
(* The clock.  A deadline is never further away than a lease, and a write   *)
(* that waits for the lock has read the clock no longer ago than Busy.      *)
ClockTypeOK ==
  /\ now \in Nat
  /\ deadline \in [Proposals -> Nat]
  /\ waiting \in [Tokens -> {NoWrite} \cup [row : Proposals, read : Nat]]

ReadIsRecent ==
  \A o \in Tokens : waiting[o] # NoWrite =>
    waiting[o].read <= now /\ now <= waiting[o].read + Busy

DeadlineIsNear == \A p \in Proposals : deadline[p] <= now + Lease

TimeInv == ClockTypeOK /\ ReadIsRecent /\ DeadlineIsNear

(* A write that has the lock: what it sets the deadline to.                 *)
LEMMA WriterReads ==
  ASSUME TimeInv, NEW p \in Proposals, NEW o \in Tokens, Waits(p, o)
  PROVE  /\ waiting[o] # NoWrite /\ waiting[o].read \in Nat
         /\ LeaseUntil(o) = waiting[o].read + Lease /\ LeaseUntil(o) \in Nat
         /\ waiting[o].read <= now /\ now <= waiting[o].read + Busy
<1>1. waiting[o] # NoWrite
  BY ClockAssumption DEF Waits, NoWrite
<1>2. waiting[o] \in [row : Proposals, read : Nat]
  BY <1>1 DEF TimeInv, ClockTypeOK
<1> QED
  BY <1>1, <1>2, ClockAssumption DEF TimeInv, ReadIsRecent, LeaseUntil

(* Every step of ClockNext is of one of five kinds.                         *)
LEMMA ClockSteps ==
  ASSUME TimeInv, ClockNext
  PROVE  \/ UNCHANGED <<now, deadline, waiting>>
         \/ Tick
         \/ \E o \in Tokens : WriteFails(o)
         \/ \E p \in Proposals, o \in Tokens :
              \/ ReadClock(p, o)
              \/ /\ Waits(p, o) /\ Done(o) /\ now' = now
                 /\ deadline' = [deadline EXCEPT ![p] = LeaseUntil(o)]
              \/ /\ UNCHANGED <<now, waiting>>
                 /\ deadline' = [deadline EXCEPT ![p] = 0]
<1>1. CASE \E p \in Proposals : LeaseEnds(p)
  BY <1>1 DEF LeaseEnds
<1>2. CASE Tick \/ \E o \in Tokens : WriteFails(o)
  BY <1>2
<1>3. ASSUME NEW p \in Proposals, NEW o \in Tokens, ReadClock(p, o)
      PROVE  \E q \in Proposals, t \in Tokens : ReadClock(q, t)
  BY <1>3
<1>4. ASSUME NEW p \in Proposals, NEW o \in Tokens, ClaimCommits(p, o)
      PROVE  /\ Waits(p, o) /\ Done(o) /\ now' = now
             /\ deadline' = [deadline EXCEPT ![p] = LeaseUntil(o)]
  BY <1>4 DEF ClaimCommits
<1>5. ASSUME NEW p \in Proposals, NEW o \in Tokens, NEW stage, NEW expected, NEW retryId,
             StageCommits(p, o, stage, expected, retryId)
      PROVE  /\ Waits(p, o) /\ Done(o) /\ now' = now
             /\ deadline' = [deadline EXCEPT ![p] = LeaseUntil(o)]
  BY <1>5 DEF StageCommits
<1>6. ASSUME NEW p \in Proposals, NEW o \in Tokens, NEW response,
             ClockComplete(p, o, response)
      PROVE  UNCHANGED <<now, waiting>> /\ deadline' = [deadline EXCEPT ![p] = 0]
  BY <1>6 DEF ClockComplete
<1>7. ASSUME NEW p \in Proposals, NEW o \in Tokens, ClockRelease(p, o)
      PROVE  /\ UNCHANGED <<now, waiting>>
             /\ deadline' = deadline \/ deadline' = [deadline EXCEPT ![p] = 0]
  BY <1>7 DEF ClockRelease, TimeInv, ClockTypeOK
<1> QED
  BY <1>1, <1>2, <1>3, <1>4, <1>5, <1>6, <1>7 DEF ClockNext

LEMMA TimeStep ==
  ASSUME TimeInv, [ClockNext]_clockVars
  PROVE  TimeInv'
<1> USE ClockAssumption
<1>1. CASE UNCHANGED <<now, deadline, waiting>>
  BY <1>1 DEF TimeInv, ClockTypeOK, ReadIsRecent, DeadlineIsNear
<1>2. CASE Tick
  <2>1. now' = now + 1 /\ UNCHANGED <<deadline, waiting>>
    BY <1>2 DEF Tick
  <2>2. ClockTypeOK' /\ DeadlineIsNear'
    BY <2>1 DEF TimeInv, ClockTypeOK, DeadlineIsNear
  <2>3. ASSUME NEW o \in Tokens, waiting[o] # NoWrite
        PROVE  waiting[o].read <= now + 1 /\ now + 1 <= waiting[o].read + Busy
    <3>1. waiting[o] \in [row : Proposals, read : Nat]
      BY <2>3 DEF TimeInv, ClockTypeOK
    <3> QED
      BY <1>2, <2>3, <3>1 DEF Tick, TimeInv, ClockTypeOK, ReadIsRecent
  <2> QED
    BY <2>1, <2>2, <2>3 DEF TimeInv, ReadIsRecent
<1>3. CASE \E o \in Tokens : WriteFails(o)
  BY <1>3 DEF WriteFails, Done, TimeInv, ClockTypeOK, ReadIsRecent, DeadlineIsNear
<1>4. ASSUME NEW p \in Proposals, NEW o \in Tokens, ReadClock(p, o)
      PROVE  TimeInv'
  <2> DEFINE w == [row |-> p, read |-> now]
  <2>1. /\ UNCHANGED <<now, deadline>> /\ now \in Nat
        /\ waiting' = [waiting EXCEPT ![o] = w]
    BY <1>4 DEF ReadClock, TimeInv, ClockTypeOK
  <2>2. w \in [row : Proposals, read : Nat] /\ w.read = now
    BY <2>1
  <2> HIDE DEF w
  <2>3. ClockTypeOK' /\ DeadlineIsNear'
    BY <2>1, <2>2 DEF TimeInv, ClockTypeOK, DeadlineIsNear
  <2>4. ReadIsRecent'
    BY <2>1, <2>2 DEF TimeInv, ClockTypeOK, ReadIsRecent
  <2> QED
    BY <2>3, <2>4 DEF TimeInv
<1>5. ASSUME NEW p \in Proposals, NEW o \in Tokens, Waits(p, o), Done(o), now' = now,
             deadline' = [deadline EXCEPT ![p] = LeaseUntil(o)]
      PROVE  TimeInv'
  <2>1. PICK until \in Nat : until = LeaseUntil(o) /\ until <= now + Lease
    BY <1>5, WriterReads DEF TimeInv, ClockTypeOK
  <2>2. deadline' = [deadline EXCEPT ![p] = until]
    BY <1>5, <2>1
  <2>3. ClockTypeOK' /\ DeadlineIsNear'
    BY <1>5, <2>1, <2>2 DEF Done, TimeInv, ClockTypeOK, DeadlineIsNear
  <2>4. ReadIsRecent'
    BY <1>5 DEF Done, TimeInv, ClockTypeOK, ReadIsRecent
  <2> QED
    BY <2>3, <2>4 DEF TimeInv
<1>6. ASSUME NEW p \in Proposals, UNCHANGED <<now, waiting>>,
             deadline' = [deadline EXCEPT ![p] = 0]
      PROVE  TimeInv'
  BY <1>6 DEF TimeInv, ClockTypeOK, ReadIsRecent, DeadlineIsNear
<1> QED
  BY <1>1, <1>2, <1>3, <1>4, <1>5, <1>6, ClockSteps DEF clockVars

(* A clock that waits for the write lock is at most the busy timeout old,   *)
(* and no deadline is further away than a lease (state_store.py:250-330).   *)
THEOREM TimeHolds == ClockSpec => []TimeInv
<1>1. ClockInit => TimeInv
  BY ClockAssumption DEF ClockInit, TimeInv, ClockTypeOK, ReadIsRecent, DeadlineIsNear
<1> QED
  BY <1>1, TimeStep, PTL DEF ClockSpec

-----------------------------------------------------------------------------
(* The decisions of the clock are decisions of the table.                   *)

(* While no lease is due, a row that is free by an old clock is free.       *)
LEMMA FreeIsClaimable ==
  ASSUME TimeInv, NEW p \in Proposals, NEW o \in Tokens, ~Due(p),
         Waits(p, o), FreeFor(p, o)
  PROVE  Claimable(p)
<1>1. runs[p].leased => deadline[p] > now
  BY DEF Due, TimeInv, ClockTypeOK
<1> QED
  BY <1>1, WriterReads DEF FreeFor, Claimable, TimeInv, ClockTypeOK

LEMMA ClockStepIsRunsStep ==
  ASSUME TimeInv, [ClockNext]_clockVars
  PROVE  [RunsNext]_runsVars
<1>1. CASE UNCHANGED runsVars
  BY <1>1
<1>2. CASE \E p \in Proposals : LeaseEnds(p)
  BY <1>2 DEF LeaseEnds, RunsNext
<1>3. ASSUME NEW p \in Proposals, NEW o \in Tokens, ~Due(p), ClaimCommits(p, o)
      PROVE  RunsNext
  BY <1>3, FreeIsClaimable DEF ClaimCommits, Claim, RunsNext
<1>4. CASE Tick \/ \E o \in Tokens : WriteFails(o) \/ \E p \in Proposals : ReadClock(p, o)
  BY <1>4 DEF Tick, WriteFails, ReadClock, runsVars
<1>5. ASSUME NEW p \in Proposals, NEW o \in Tokens,
             \/ ClockRelease(p, o)
             \/ \E response \in Responses : ClockComplete(p, o, response)
             \/ \E stage \in Stages \ {"none", "claimed", "completed"},
                   expected \in Prints \cup {None}, retryId \in RetryIds \cup {None} :
                  StageCommits(p, o, stage, expected, retryId)
      PROVE  RunsNext
  BY <1>5 DEF ClockRelease, ClockComplete, StageCommits, RunsNext
<1> QED
  BY <1>1, <1>2, <1>3, <1>4, <1>5 DEF ClockNext, clockVars, runsVars

(* state_store.py:252-266: although a call decides with a clock that it     *)
(* read before it waited for the lock, the table never does anything that   *)
(* it would not do with the time at which the transaction runs.             *)
THEOREM ClockImplements == ClockSpec => ClockImplementsRuns
<1>1. ClockInit => RunsInit
  BY DEF ClockInit
<1>2. TimeInv /\ [ClockNext]_clockVars => [RunsNext]_runsVars
  BY ClockStepIsRunsStep
<1> QED
  BY <1>1, <1>2, TimeHolds, PTL DEF ClockSpec, ClockImplementsRuns, RunsSpec

-----------------------------------------------------------------------------
(* The lease of an owner that waits to write does not end after the one     *)
(* that this write would give it.                                           *)
OwnerRenews ==
  \A p \in Proposals, o \in Tokens :
    (runs[p].owner = o /\ waiting[o] # NoWrite) => deadline[p] <= waiting[o].read + Lease

LEMMA OwnerRenewsStep ==
  ASSUME TimeInv, TimeInv', RunsInv, OwnerRenews, [ClockNext]_clockVars
  PROVE  OwnerRenews'
<1> USE ClockAssumption, RunsAssumption
<1> SUFFICES ASSUME NEW q \in Proposals, NEW t \in Tokens,
                    runs'[q].owner = t, waiting'[t] # NoWrite
             PROVE  deadline'[q] <= waiting'[t].read + Lease
  BY DEF OwnerRenews
<1>1. /\ runs \in [Proposals -> Rows] /\ runs[q].owner \in issued \cup {None}
      /\ waiting \in [Tokens -> {NoWrite} \cup [row : Proposals, read : Nat]]
      /\ deadline \in [Proposals -> Nat] /\ now \in Nat /\ t # None
  BY DEF RunsInv, RunsTypeOK, OwnersAreIssued, TimeInv, ClockTypeOK
<1>2. (runs[q].owner = t /\ waiting[t] # NoWrite) => deadline[q] <= waiting[t].read + Lease
  BY DEF OwnerRenews
<1>3. CASE UNCHANGED <<deadline, waiting>> /\ runs'[q].owner \in {runs[q].owner, None}
  BY <1>1, <1>2, <1>3
<1>4. CASE \E p \in Proposals : LeaseEnds(p)
  BY <1>1, <1>3, <1>4 DEF LeaseEnds, LeaseRunsOut, Rows
<1>5. CASE Tick
  BY <1>3, <1>5 DEF Tick
<1>6. CASE \E o \in Tokens : WriteFails(o)
  BY <1>1, <1>2, <1>6 DEF WriteFails, Done
<1>7. ASSUME NEW p \in Proposals, NEW o \in Tokens, ReadClock(p, o)
      PROVE  deadline'[q] <= waiting'[t].read + Lease
  <2> DEFINE w == [row |-> p, read |-> now]
  <2>1. /\ UNCHANGED <<runs, deadline>> /\ w.read = now
        /\ waiting' = [waiting EXCEPT ![o] = w]
    BY <1>7 DEF ReadClock
  <2> HIDE DEF w
  <2> QED
    BY <1>1, <1>2, <2>1 DEF TimeInv, DeadlineIsNear
<1>8. ASSUME NEW p \in Proposals, NEW o \in Tokens, runs'[p].owner = o, Done(o),
             \A r \in Proposals \ {p} : runs'[r] = runs[r], NEW until,
             deadline' = [deadline EXCEPT ![p] = until]
      PROVE  deadline'[q] <= waiting'[t].read + Lease
  <2>1. t # o /\ waiting'[t] = waiting[t]
    BY <1>1, <1>8 DEF Done
  <2>2. q # p
    BY <1>8, <2>1
  <2> QED
    BY <1>1, <1>2, <1>8, <2>1, <2>2
<1>9. ASSUME NEW p \in Proposals, NEW o \in Tokens, ClaimCommits(p, o)
      PROVE  deadline'[q] <= waiting'[t].read + Lease
  <2>1. runs'[p].owner = o /\ \A r \in Proposals \ {p} : runs'[r] = runs[r]
    BY <1>1, <1>9 DEF ClaimCommits, TakeRow, Rows
  <2> QED
    BY <1>8, <1>9, <2>1 DEF ClaimCommits
<1>10. ASSUME NEW p \in Proposals, NEW o \in Tokens, NEW stage, NEW expected, NEW retryId,
              StageCommits(p, o, stage, expected, retryId)
       PROVE  deadline'[q] <= waiting'[t].read + Lease
  BY <1>1, <1>8, <1>10 DEF StageCommits, SetStage, Owns, Rows
<1>11. ASSUME NEW p \in Proposals, NEW o \in Tokens,
              ClockRelease(p, o) \/ \E response \in Responses : ClockComplete(p, o, response)
       PROVE  deadline'[q] <= waiting'[t].read + Lease
  <2>1. /\ UNCHANGED waiting /\ runs'[q].owner \in {runs[q].owner, None}
        /\ deadline'[q] \in {0, deadline[q]}
    <3>1. CASE ClockRelease(p, o)
      <4>1. runs'[q].owner \in {runs[q].owner, None}
        BY <1>1, <3>1 DEF ClockRelease, ReleaseRow, Rows
      <4> QED
        BY <1>1, <3>1, <4>1 DEF ClockRelease
    <3>2. CASE \E response \in Responses : ClockComplete(p, o, response)
      BY <1>1, <3>2 DEF ClockComplete, Complete, Rows
    <3> QED
      BY <1>11, <3>1, <3>2
  <2>2. waiting[t] \in [row : Proposals, read : Nat]
    BY <1>1, <2>1
  <2> QED
    BY <1>1, <1>2, <2>1, <2>2
<1> QED
  BY <1>3, <1>4, <1>5, <1>6, <1>7, <1>9, <1>10, <1>11 DEF ClockNext, clockVars

ClockInv == TimeInv /\ RunsInv /\ OwnerRenews

(* The next write of an owner cannot shorten its lease: the clock it has    *)
(* read is late enough (state_store.py:264-330).                            *)
THEOREM ClockInvariant == ClockSpec => []ClockInv
<1>1. RunsInit /\ ClockInit => OwnerRenews
  BY RunsAssumption DEF RunsInit, NoRow, OwnerRenews, ClockInit
<1>2. TimeInv /\ TimeInv' /\ RunsInv /\ OwnerRenews /\ [ClockNext]_clockVars
        => OwnerRenews'
  BY OwnerRenewsStep
<1>3. TimeInv /\ RunsInv /\ OwnerRenews => ClockInv
  BY DEF ClockInv
<1>4. ClockSpec => []RunsInv
  BY ClockImplements, RunsInvariant, PTL DEF ClockImplementsRuns
<1>5. ClockInit => RunsInit
  BY DEF ClockInit
<1> QED
  BY <1>1, <1>2, <1>3, <1>4, <1>5, TimeHolds, PTL DEF ClockSpec

(* What OwnerKeepsLease says of one step and one row.                       *)
LeaseKept(p) ==
  LET old == runs[p].owner
      new == runs'[p].owner
  IN  /\ (old # None /\ new \notin {old, None}) => deadline[p] <= now
      /\ (new # None /\ deadline'[p] # deadline[p]) =>
           deadline'[p] + Busy >= now + Lease
      /\ (new # None /\ new = old) => deadline'[p] >= deadline[p]

LEMMA ClockStepKeepsLease ==
  ASSUME ClockInv, NEW q \in Proposals, ClockNext
  PROVE  LeaseKept(q)
<1> USE ClockAssumption, RunsAssumption
<1>1. /\ runs \in [Proposals -> Rows] /\ runs[q].owner \in issued \cup {None}
      /\ deadline \in [Proposals -> Nat] /\ now \in Nat
  BY DEF ClockInv, RunsInv, RunsTypeOK, OwnersAreIssued, TimeInv, ClockTypeOK
<1>2. CASE deadline'[q] = deadline[q] /\ runs'[q].owner \in {runs[q].owner, None}
  BY <1>1, <1>2 DEF LeaseKept
<1>3. CASE \E p \in Proposals : LeaseEnds(p)
  BY <1>1, <1>2, <1>3 DEF LeaseEnds, LeaseRunsOut, Rows
<1>4. CASE Tick \/ \E o \in Tokens : WriteFails(o) \/ \E p \in Proposals : ReadClock(p, o)
  BY <1>2, <1>4 DEF Tick, WriteFails, ReadClock
<1>5. ASSUME NEW p \in Proposals, NEW o \in Tokens, ClaimCommits(p, o)
      PROVE  LeaseKept(q)
  <2>1. PICK until \in Nat : /\ until = LeaseUntil(o) /\ until + Busy >= now + Lease
                             /\ waiting[o].read <= now /\ waiting[o].read \in Nat
    BY <1>1, <1>5, WriterReads DEF ClaimCommits, ClockInv
  <2>2. deadline' = [deadline EXCEPT ![p] = until] /\ deadline[p] <= now
    BY <1>1, <1>5, <2>1 DEF ClaimCommits, FreeFor
  <2>3. /\ runs'[p].owner = o /\ \A r \in Proposals \ {p} : runs'[r] = runs[r]
        /\ o \notin issued /\ o # None
    BY <1>1, <1>5 DEF ClaimCommits, TakeRow, Rows
  <2>4. CASE q # p
    BY <1>2, <2>2, <2>3, <2>4
  <2>5. CASE q = p
    BY <1>1, <2>1, <2>2, <2>3, <2>5 DEF LeaseKept
  <2> QED
    BY <2>4, <2>5
<1>6. ASSUME NEW p \in Proposals, NEW o \in Tokens, NEW stage, NEW expected, NEW retryId,
             StageCommits(p, o, stage, expected, retryId)
      PROVE  LeaseKept(q)
  <2>1. PICK until \in Nat : /\ until = LeaseUntil(o) /\ until + Busy >= now + Lease
                             /\ until = waiting[o].read + Lease /\ waiting[o] # NoWrite
    BY <1>1, <1>6, WriterReads DEF StageCommits, ClockInv
  <2>2. deadline' = [deadline EXCEPT ![p] = until]
    BY <1>6, <2>1 DEF StageCommits
  <2>3. /\ runs'[p].owner = runs[p].owner /\ runs[p].owner = o
        /\ \A r \in Proposals \ {p} : runs'[r] = runs[r]
    BY <1>1, <1>6 DEF StageCommits, SetStage, Owns, Rows
  <2>4. deadline[p] <= until
    BY <2>1, <2>3 DEF ClockInv, OwnerRenews
  <2>5. CASE q # p
    BY <1>2, <2>2, <2>3, <2>5
  <2>6. CASE q = p
    BY <1>1, <2>1, <2>2, <2>3, <2>4, <2>6 DEF LeaseKept
  <2> QED
    BY <2>5, <2>6
<1>7. ASSUME NEW p \in Proposals, NEW o \in Tokens, ClockRelease(p, o)
      PROVE  LeaseKept(q)
  <2>1. CASE q = p /\ Owns(p, o)
    <3>1. runs'[q].owner = None
      BY <1>1, <1>7, <2>1 DEF ClockRelease, ReleaseRow, Rows
    <3> QED
      BY <3>1 DEF LeaseKept
  <2>2. CASE ~(q = p /\ Owns(p, o))
    BY <1>1, <1>2, <1>7, <2>2 DEF ClockRelease, ReleaseRow
  <2> QED
    BY <2>1, <2>2
<1>8. ASSUME NEW p \in Proposals, NEW o \in Tokens, NEW response,
             ClockComplete(p, o, response)
      PROVE  LeaseKept(q)
  <2>1. CASE q = p
    <3>1. runs'[q].owner = None
      BY <1>1, <1>8, <2>1 DEF ClockComplete, Complete, Rows
    <3> QED
      BY <3>1 DEF LeaseKept
  <2>2. CASE q # p
    BY <1>1, <1>2, <1>8, <2>2 DEF ClockComplete, Complete
  <2> QED
    BY <2>1, <2>2
<1> QED
  BY <1>3, <1>4, <1>5, <1>6, <1>7, <1>8 DEF ClockNext

(* state_store.py:264, 322: nobody else gets the row before the deadline,   *)
(* each write gives its owner all of a lease but the time it waited, and    *)
(* never shortens what is left.                                             *)
THEOREM OwnerKeepsLeaseHolds == ClockSpec => OwnerKeepsLease
<1>1. ClockInv /\ [ClockNext]_clockVars
        => [\A p \in Proposals :
              LET old == runs[p].owner
                  new == runs'[p].owner
              IN  /\ (old # None /\ new \notin {old, None}) => deadline[p] <= now
                  /\ (new # None /\ deadline'[p] # deadline[p]) =>
                       deadline'[p] + Busy >= now + Lease
                  /\ (new # None /\ new = old) => deadline'[p] >= deadline[p]]_clockVars
  BY ClockStepKeepsLease DEF LeaseKept
<1> QED
  BY <1>1, ClockInvariant, PTL DEF ClockSpec, OwnerKeepsLease
=============================================================================
