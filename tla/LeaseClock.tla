----------------------------- MODULE LeaseClock -----------------------------
(***************************************************************************)
(* The remediation_runs table with the wall clock that its leases are      *)
(* measured by.  claim_remediation and set_remediation_stage read          *)
(* time.time() first and then wait for the write lock of SQLite, at most   *)
(* Busy: by the time the transaction runs, the clock it compares and       *)
(* renews with is old.                                                     *)
(*                                                                         *)
(* A row is `leased` until LeaseEnds, which comes as soon as the clock has *)
(* reached the deadline.  The code never reads `leased`, only lease_until. *)
(***************************************************************************)
EXTENDS RemediationRuns

CONSTANTS
  Lease,     \* max(5, lease_seconds)
  Busy,      \* timeout of sqlite3.connect
  MaxTime    \* bound: the clock stops here

ASSUME ClockAssumption ==
  /\ Lease \in Nat /\ Busy \in Nat /\ MaxTime \in Nat
  /\ None \notin Proposals

VARIABLES
  now,        \* time.time()
  deadline,   \* lease_until; 0 for NULL
  waiting     \* per token: the write that waits for the lock, with its clock

clockVars == <<runs, issued, now, deadline, waiting>>

NoWrite == [row |-> None, read |-> 0]

ClockInit ==
  /\ RunsInit
  /\ now = 1
  /\ deadline = [p \in Proposals |-> 0]
  /\ waiting = [o \in Tokens |-> NoWrite]

ReadClock(p, o) ==
  /\ waiting[o] = NoWrite
  /\ waiting' = [waiting EXCEPT ![o] = [row |-> p, read |-> now]]
  /\ UNCHANGED <<runs, issued, now, deadline>>

Waits(p, o) == waiting[o].row = p

Done(o) == waiting' = [waiting EXCEPT ![o] = NoWrite]

(* Mutants: the lease is compared with the end of the new one; a response   *)
(* does not keep the row from being claimed.                                *)
ComparesWithNewEnd(p, o) == ~Completed(p) /\ deadline[p] <= waiting[o].read + Lease
ExpiredOnly(p, o) == deadline[p] <= waiting[o].read

(* The lock is held: the row is free, judged by the clock that was read.    *)
FreeFor(p, o) == ~Completed(p) /\ deadline[p] <= waiting[o].read

LeaseUntil(o) == waiting[o].read + Lease

ClaimCommits(p, o) ==
  /\ Waits(p, o)
  /\ FreeFor(p, o)
  /\ TakeRow(p, o)
  /\ deadline' = [deadline EXCEPT ![p] = LeaseUntil(o)]
  /\ Done(o)
  /\ UNCHANGED now

StageCommits(p, o, stage, expected, retryId) ==
  /\ Waits(p, o)
  /\ SetStage(p, o, stage, expected, retryId)
  /\ deadline' = [deadline EXCEPT ![p] = LeaseUntil(o)]
  /\ Done(o)
  /\ UNCHANGED now

(* The row is not free or not owned, SQLite gives up after the busy timeout, *)
(* or the process dies.                                                     *)
WriteFails(o) ==
  /\ waiting[o] # NoWrite
  /\ Done(o)
  /\ UNCHANGED <<runs, issued, now, deadline>>

ClockComplete(p, o, response) ==
  /\ waiting[o] = NoWrite
  /\ Complete(p, o, response)
  /\ deadline' = [deadline EXCEPT ![p] = 0]
  /\ UNCHANGED <<now, waiting>>

ClockRelease(p, o) ==
  /\ waiting[o] = NoWrite
  /\ ReleaseRow(p, o)
  /\ deadline' = [deadline EXCEPT ![p] = IF Owns(p, o) THEN 0 ELSE @]
  /\ UNCHANGED <<now, waiting>>

Due(p) == runs[p].leased /\ deadline[p] <= now

LeaseEnds(p) ==
  /\ Due(p)
  /\ LeaseRunsOut(p)
  /\ UNCHANGED <<now, deadline, waiting>>

Tick ==
  /\ now < MaxTime
  /\ \A o \in Tokens : waiting[o] # NoWrite => now < waiting[o].read + Busy
  /\ now' = now + 1
  /\ UNCHANGED <<runs, issued, deadline, waiting>>

ClockNext ==
  \/ \E p \in Proposals : LeaseEnds(p)
  \/ /\ \A p \in Proposals : ~Due(p)
     /\ \/ Tick
        \/ \E o \in Tokens :
             \/ WriteFails(o)
             \/ \E p \in Proposals :
                  \/ ReadClock(p, o)
                  \/ ClaimCommits(p, o)
                  \/ ClockRelease(p, o)
                  \/ \E response \in Responses : ClockComplete(p, o, response)
                  \/ \E stage \in Stages \ {"none", "claimed", "completed"},
                        expected \in Prints \cup {None},
                        retryId \in RetryIds \cup {None} :
                       StageCommits(p, o, stage, expected, retryId)

ClockSpec == ClockInit /\ [][ClockNext]_clockVars

(* state_store.py:252-266: what a call decides with an old clock, the table *)
(* would also do with the time at which the transaction runs: no row is     *)
(* claimed whose lease is still running by then.                            *)
ClockImplementsRuns == RunsSpec

(* state_store.py:264, 322: the owner keeps its row for the whole lease,    *)
(* although deadlines are set and compared with clocks that are old by then: *)
(* nobody else gets the row before the deadline, a write of the owner gives *)
(* it all of a lease but the time it may have waited, and never takes away  *)
(* what was left of the last one.                                           *)
OwnerKeepsLease ==
  [][\A p \in Proposals :
       LET old == runs[p].owner
           new == runs'[p].owner
       IN  /\ (old # None /\ new \notin {old, None}) => deadline[p] <= now
           /\ (new # None /\ deadline'[p] # deadline[p]) =>
                deadline'[p] + Busy >= now + Lease
           /\ (new # None /\ new = old) => deadline'[p] >= deadline[p]]_clockVars
=============================================================================
