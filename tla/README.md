# A TLA+ model of AI Automation Doctor

AI Automation Doctor analyses failed n8n executions, proposes a small patch of
the retry settings of one node, and - after a dry run and an explicit human
approval - applies the patch to the workflow in n8n, retries the failed
execution and reports the result. This directory holds TLA+ modules of the part
where that can go wrong, the TLC configurations that check them on small
instances, and theorems with proofs that TLAPS checks for every instance.

- [Inventory](#inventory)
- [Modules](#modules)
- [How the remediation is modelled](#how-the-remediation-is-modelled)
- [How the lookup of a retry is modelled](#how-the-lookup-of-a-retry-is-modelled)
- [How the clock of the leases is modelled](#how-the-clock-of-the-leases-is-modelled)
- [How the answers of the route are modelled](#how-the-answers-of-the-route-are-modelled)
- [How the evidence is modelled](#how-the-evidence-is-modelled)
- [How the analysis is modelled](#how-the-analysis-is-modelled)
- [Runs](#runs)
- [Fairness](#fairness)
- [Theorems](#theorems)
- [Where the code and its documents disagree](#where-the-code-and-its-documents-disagree)
- [What is left out](#what-is-left-out)
- [Plan](#plan)

Paths below are relative to `app/` of the repository.

## Inventory

| Part | State it keeps | Operations | Hard about it |
| --- | --- | --- | --- |
| `services/remediation.py`, `ControlledRemediationService` | none of its own; local variables of each call | `apply_retry_verify` | runs in request threads, several calls for one proposal; every SQLite transaction and HTTP exchange can fail or be the last thing the process does; resumes what an earlier call left |
| `services/state_store.py`, table `remediation_runs` | stage, lease owner and deadline, expected fingerprint, retry id, response | claim, set stage, complete, release | lease on a wall clock; the owner may be dead, or alive and slow; the clock is read before the write lock is had |
| `services/incidents.py`, `IncidentService` | four dictionaries in the process | analyze, dry_run, approve, get_dry_run, get_approval, timeline, stats | each access to a dictionary and to SQLite is a step of its own, and requests run in threads |
| `services/state_store.py`, tables `incidents`, `dry_runs`, `approvals`, `timeline` | rows | save, load, append | `save_dry_run` deletes the approval in the same transaction; caches are written before |
| `services/n8n_client.py`, `N8NClient` | none | get, update, list, find retry, retry | timeouts: a request may have taken effect, may still, or never; the lookup reads five pages of a list that grows meanwhile |
| n8n (not in the repository) | workflow, executions | PUT, POST retry, editor | people edit and retry at the same time |
| `services/workflow_dry_run.py`, `WorkflowDryRunEngine` | none | dry_run, fingerprints | purely functional |
| `services/patcher.py`, `validator.py` | none | propose, validate | must agree with each other and with the engine on how a node name becomes a path and back |
| `services/diagnoser.py`, `ai_diagnoser.py` | none | diagnose | ordered rules; an optional external model that must not decide anything |
| `services/n8n_normalizer.py` | none | normalize | an execution tells its error in several places that need not agree |
| `api/routes.py`, `main.py` | four `lru_cache`d objects | HTTP routes, operator boundary | `lru_cache` holds no lock while it computes, so two service objects are possible; exceptions of all layers become status codes |
| `demo.py`, `core/config.py`, `models/schemas.py` | settings | public demo | nothing is stored |
| `scripts/`, `evals/`, `notebooks/`, `site/` | none | offline evaluation and presentation | not part of the running system |

A remediation goes like this. `analyze` stores an incident and, for some
diagnoses, a proposal. `dry_run` applies the proposal to a copy of the workflow
and stores the snapshot fingerprint it was made for. `approve` stores an
approval bound to that fingerprint. `apply_retry_verify` claims the row of the
proposal in `remediation_runs`, reads both records, compares them with each
other and with the workflow that n8n returns, records what it is about to do,
updates the workflow, verifies what n8n saved, records that it is about to
retry, retries, records the id of the retry, asks for its status and stores the
response. Each record is what the next call starts from when this one does not
finish.

What makes it correct:

- At most one retry is requested for a proposal, whatever happens
  (`AtMostOneRetry`), and exactly the response that was decided is replayed
  (`KeepsPromise`, `CompletedRowIsFinal`).
- Nothing is sent to n8n that was not recorded first (`RecordedFirst`), dry-run
  and approved (`WritesAreApproved`), or while a gate is closed
  (`ClosedGateMeansNoRequest`).
- A client that is told of a refusal may believe that nothing was done
  (`RefusalMeansUntouched`).
- A call that lost its lease can no longer write (`LostTokenStaysLost`,
  `StageNeverRegresses`), and it keeps its row as long as its lease runs, however
  old the clocks are that deadlines are compared with (`OwnerKeepsLease`).
- A failure or a crash never blocks a proposal for good, except to wait for a
  person where a retry may have been requested (`LeaseIsFreed`,
  `RecoversOrStops`); and that retry is found, on whatever page it is
  (`FoundRetryIsUsed`, `LookupImplementsFind`).
- Dry runs and approvals mean the same through caches, SQLite, failures and
  restarts (`ImplementsEvidence`, `ReadsAreAllowed`, `CachesMatchStore`).
- Whatever the names in a workflow, a patch reaches the node that failed and
  nothing but its retry settings (`OnlyFailedNodeChanges`), and there is one
  exactly where the rules call a retry safe (`PatchIffRetrySafe`).
- The failure that is diagnosed is that of the run that failed last
  (`EvidenceOfLastRun`), and advice is what the provider gave as its one answer
  (`AdviceIsTheOnlyObject`).

`PROJECT.json` lists every hazard at its line, with the properties that cover
it or the reason why none does.

## Modules

| Module | What it is |
| --- | --- |
| `N8N` | n8n as the client sees it (external): one workflow, requests on the wire, executions, people |
| `RemediationRuns` | the table `remediation_runs`, one action per transaction |
| `Evidence` | what dry runs and approvals promise to the rest of the system |
| `IncidentService` | how `IncidentService` keeps that promise with caches, SQLite and threads |
| `Remediation` | `ControlledRemediationService`, composed of `N8N`, `RemediationRuns` and `Evidence` |
| `AtMostOnce` | what the endpoint `apply-retry` promises, without leases, stages and recovery |
| `RemediationSafety` | the safety properties, and the mapping of `Remediation` to `AtMostOnce` |
| `RemediationLiveness` | what must happen to a remediation |
| `RetryLookup` | the page and cursor loop of `find_retry_execution`, over a list that grows |
| `RemediationLookup` | `Remediation` with that loop for its step `Find`; the fairness of calls, n8n and the clock |
| `LeaseClock` | `RemediationRuns` with the wall clock and the wait for the write lock |
| `ApplyRoute` | `Remediation` with the exceptions that calls end with and the status codes of the route |
| `Normalizer` | how an n8n execution becomes the failure that is diagnosed, as operators |
| `Diagnosis` | the rules of the diagnoser, the answer of the external model and the guard around it, as operators |
| `Patches` | planner, validator and dry-run engine, as operators |
| `Analysis` | the routes that ingest and analyze, the demo and `dry_run` composed of them, over restarts with another limit |
| `MCRuns`, `MCIncidentService`, `MCRemediation`, `MCRoute`, `MCLookup`, `MCAnalysis` | constants and symmetry for TLC |
| `RunsProofs` | theorems about `RemediationRuns` and `LeaseClock` |
| `RemediationProofs` | theorems about `Remediation`: types, one retry, its use of the table and the evidence |
| `RecordProofs`, `PromiseProofs` | theorems about `RemediationSafety` |
| `GateProofs` | theorems about the gates, and about `ApplyRoute` |
| `LookupProofs` | theorems about `RemediationLookup` |
| `IncidentProofs` | theorems about `IncidentService` |
| `AnalysisProofs` | theorems about `Normalizer`, `Diagnosis`, `Patches` and `Analysis` |

Four layers are refinements. `IncidentService` implements `Evidence`, and
`Remediation` is built on `Evidence`: the races inside the service are checked
once, in a small model, and reach the remediation as the nondeterminism that
`Evidence` allows. In the same way `LeaseClock` implements `RemediationRuns` and
`RemediationLookup` implements `Remediation`: clocks and pages are checked where
they are decided on, and above them a lease is one flag and a lookup one step.
`Remediation` implements `AtMostOnce`.

An operator with the comment "Mutant" is not part of the model. It is a
definition as a plausible bug would change it, and shows that the property it
is listed with in `PROJECT.json` notices that bug.

## How the remediation is modelled

**State.** `runs` is the table: for each proposal the stage, the owner, whether
the lease still runs (`leased`), the expected definition, the retry id and the
response. `pc`, `target`, `local` and `answer` are the calls: where they are,
for which proposal, their local variables, and what they returned. `timeline`
is the set of event types of each proposal. `gates` is the set of side-effect
gates that the running process has open. `workflow`, `puts`, `posts` and
`execs` are n8n. `dry`, `appr`, `past` and `granted` are the evidence.

**Steps.** A call stops at every SQLite transaction and every HTTP exchange;
what lies between two of them is local and belongs to the step before or after.

| Lines of `remediation.py` | Program counter | Actions |
| --- | --- | --- |
| 91-104, `claim_remediation` | `idle`, `load` | `Begin`, `BeginReplay`, `LoadRow`, `LoadReplay`, `LoadBreaks` |
| 140-157 | `read_dry`, `read_approval` | `ReadDryRun`, `ReadApproval` |
| 159-185 | `fetch`, `save_recovered`, `log_recovered` | `FetchPatched`, `SaveRecovered`, `LogRecovered` |
| 187-247 | `fetch` .. `log_verified` | `FetchOriginal`, `SaveStarting`, `LogStarting`, `SendPut`, `PutReturns`, `ReadBack`, `SaveVerified`, `LogVerified` |
| 256-261 | `verify` | `Verify` |
| 266-287 | `find`, `save_found`, `log_found` | `Find`, `SaveFound`, `LogFound` |
| 289-319 | `save_retry` .. `log_started` | `SaveRetry`, `LogRetry`, `SendPost`, `PostReturns`, `SaveStarted`, `LogStarted` |
| 327-363 | `poll` | `Poll` |
| 113-124 | `complete`, `log_completed` | `CompleteRun`, `Return` |
| 125-130 and every `raise` | `releasing` | `Refuse`, `Break`, `Release`, `ReleaseBreaks` |

`Refuse` is a check of the code that raises, `Break` any other exception: SQLite
is locked, n8n times out or answers with an error. Both go to the `finally`
block, which releases the row if the call still owns it. `Crash` ends all calls
at once and leaves SQLite and the wire as they are; the process that starts
after it reads its settings again, so the gates may have changed (this is also
how an operator closes them). A claim that meets a running
lease is answered with an error and changes nothing, so it is no action.

**Requests.** A request that was sent stays in `puts` or `posts` until n8n acts
on it; nothing forces n8n to. The call may give up at any time (a timeout) or
die, so a request may take effect after its caller is gone. The PUT carries no
version, and `base` in the model is a record of what it was computed from, which
n8n never sees. The retry uses `loadWorkflow=true`: it runs what is saved when
n8n starts it.

**Leases.** A deadline is a number in SQLite and the clock is outside, so
`leased` says whether the deadline is in the future. The lease of a dead call
always runs out (`LeaseExpires`). That of a live call does only with
`SlowAttempts`: 30 s of lease against 20 s of timeout for each network operation
of several requests between two renewals.

**Data.** A definition is a body and the value of the three retry fields of the
node; equality stands for equality of `workflow_definition_fingerprint`. A
snapshot adds the version; equality stands for equality of `versionId` and
`snapshot_fingerprint`. `StructureOf` is the structural fingerprint of a body.
The patch of a proposal is a function on the retry settings, because the dry-run
engine changes nothing else.

## How the lookup of a retry is modelled

In `Remediation` the step `Find` returns a retry of the execution or raises.
`RemediationLookup` takes it apart: the call reads a page, looks for the first
execution with the right `retryOf`, and goes on with the cursor of the page if
there is one it has not seen and fewer than `MaxPages` pages were read (`scan`).
`listing` is what n8n lists, oldest first. Retries appear in it when n8n starts
them, and other executions may start between any two pages (`NewerStarts`). A
cursor of n8n names the oldest execution of its page, so what starts later does
not shift the pages below; that is how n8n does it, and the one thing about the
list that is assumed. An answer that is no list, or that comes with a cursor
seen before or made up, is `BadPage`.

`LookupImplementsFind` is the refinement: seen from outside, turning pages is
stuttering, and its end is a step `Find` may take. That covers what `Find` may
do; what it must do is `FoundRetryIsUsed`: if n8n lists the retry within
`MaxPages` pages when an undisturbed call looks, the call uses it.

## How the clock of the leases is modelled

`claim_remediation` and `set_remediation_stage` read `time.time()`, and then wait
for the write lock of SQLite, up to the busy timeout. `LeaseClock` keeps the time
`now`, the deadlines, and for each token the write that is waiting with the time
it has read. A claim compares `lease_until` with that old time and sets a new
deadline counted from it. `leased` in `RemediationRuns` is then what it is said
to be - the deadline is ahead - and `ClockImplementsRuns` shows that no decision
made with an old clock differs from one the table allows at the time it is
carried out. `OwnerKeepsLease` is what owners get: at least `Lease - Busy` from
each renewal. With the real numbers that is 20 of 30 s. A lease of less than 10 s
could be over when it is granted (`max(5, lease_seconds)` permits one), and the
property then promises nothing; the refinement does not need it. The clock is
assumed not to be set back.

## How the answers of the route are modelled

`ApplyRoute` adds to each call the exception it is about to end with, and which
calls have sent n8n a request that changes something. A check of the code raises
one exception (`Refusal`); SQLite, httpx and unexpected answers raise others
(`Breakage`). `StatusOf` is the order of the `except` clauses. A lost lease is
not among them and becomes 500, which is why `RefusalMeansUntouched` holds: to
answer it with 409, as the lease that could not be had in the first place, would
tell clients that have sent an update that they have not.

## How the evidence is modelled

`IncidentService` has the two dictionaries that a remediation reads, the tables,
and threads that take one step per access to a dictionary or to a table. Any
statement on SQLite may raise, in which case what was cached before stays
cached, and the process may restart with empty dictionaries. Two service objects
are possible after a start (`SplitInstances`): `get_incident_service` is cached
by `lru_cache`, which may run the function twice when the first two requests
come together, and `ControlledRemediationService` keeps the one it got.

`past` and `granted` collect every snapshot that was dry-run and every snapshot
that was approved. They let `Evidence` say what a reader may see when requests
overlap: something that was really dry-run or approved, possibly outdated.
Without overlap it is exactly the last one.

A call that has both records ends in `IncidentService` and goes on in
`Remediation`.

## How the analysis is modelled

`Analysis` follows one incident: an execution is normalized or a failure is
taken as it is, `analyze` diagnoses, plans and validates; `dry_run` validates
again and applies the patch to a snapshot, possibly in a process with another
`MAX_PATCH_OPERATIONS`. What is stored in between is the subject of
`IncidentService`, and incidents share nothing here. The demo diagnoses and plans
in the same way, without validating or storing.

An execution is what the normalizer asks of it: its status, whether it has both
ids, the node that ran last, the error of the whole execution, the runs of each
node with their errors, and the fields of the payload that stand in for missing
ones. A field may be missing anywhere, and then the next place decides.

A failure is what the rules ask of it. Each rule that searches the texts of an
execution searches them for a group of phrases, so a text is the set of groups
it contains, and groups may occur together: that is what makes the order of the
rules matter. A node counts as a webhook by its type or name, which is a flag.

Names are sequences of characters, because whether a patch reaches the right
node depends on how `~` and `/` in a name are escaped by the planner and
unescaped by the engine. Whether connections and settings of a snapshot are
objects is one flag. Values of retry fields are themselves, and everything
else of a node is left alone by construction of the engine and compared by it.

The answer of the external model is a sequence of lines: fences, prose, lone
brackets, objects that keep the schema and one that does not. `Insight` is what
becomes of it, or `None` where the code raises; no answer at all is the empty
sequence. `GuardedDiagnosis` attaches it to the diagnosis of the rules.

Flags that
the planner always sets the same way (`requires_human_approval`,
`auto_apply_allowed`) are left out of patches together with the checks of them.

## Runs

All bounds are constants of the configurations. One proposal is enough for
everything but the adoption of another proposal's retry, because the rows of
different proposals share nothing but the workflow and its executions.

| Run | Instance | Checks |
| --- | --- | --- |
| `runs` | 2 proposals, 2 tokens, any client, 7 ticks of a clock with leases of 3 and a busy timeout of 2 | `RunsTypeOK`, `OneRowPerToken`, `ClockImplementsRuns`, `OwnerKeepsLease`, `LostTokenStaysLost`, `CompletedRowIsFinal` |
| `incidents` | 2 threads, 1 proposal, 2 snapshots, failing saves, two services | `TypeOK`, `ReadsAreAllowed`, `HandedOutIsDurable`, `ImplementsEvidence` |
| `incidents_serial` | 1 thread, 2 proposals, restarts | `ReadsAreAllowed`, `CachesMatchStore`, `ApprovalIsForLastDryRun`, `ImplementsEvidence` |
| `overlap` | 2 calls, slow, 1 edit, n8n may drop settings, restarts that open or close the retry gate | `TypeOK`, `AtMostOneRetry`, `RecordedFirst`, `StageNeverRegresses`, `ClosedGateMeansNoRequest`, `RefusalMeansUntouched` |
| `recovery` | 3 calls, not slow, 1 retry by a person, no edits | `SingleAttempt`, `RetryRunsApprovedDefinition`, `KeepsPromise` |
| `racy` | 2 calls, overlapping evidence, 1 edit, 2 bodies of different structure | `WritesAreApproved` |
| `twins` | 2 proposals for one execution, 2 slow calls, 1 retry by a person | `ResponseIsTruthful` |
| `analysis` | 6 names and none, workflows of up to 2 nodes, every combination of phrases, some 4400 executions with up to 2 nodes of up to 2 runs, answers of up to 4 lines, limits 2 and 8, threshold 0.93 | `OnlyFailedNodeChanges`, `PatchIffRetrySafe`, `GoodWorkflowPasses`, `AdviceIsTheOnlyObject`, `EvidenceOfLastRun`, `OnlyTheLimitRefuses` |
| `calm` | 3 calls, failures, crashes and edits in all but the last, 3 pages of 1 execution, a list of up to 5 that others start in | `LookupTypeOK`, `LookupImplementsFind`, `LeaseIsFreed`, `RecoversOrStops`, `FoundRetryIsUsed` |
| `two_attempts` | 2 slow calls | violates `OneApplies` |
| `lost_edit` | 2 calls, 1 edit | violates `UpdateReplacesApproved` |
| `revoked` | 1 thread, two services | violates `RevokedIsNotShown` |

Why these bounds show something. Two calls are what it takes for one to be
overtaken: the second claims, recovers or requests while the first still runs.
With three, a call recovers from a state that was itself recovered. One edit of
the workflow (`MaxVersion = 1`: people save only at version 0, the Doctor's
updates raise the version without a bound but each call sends one) may come
before, between or after the steps of a call. A bad snapshot, a body of another
structure and a dropped setting are each one value of the small sets. In the
runs with `SlowAttempts`, leases run out at any point.

In `analysis` the names are those that a wrong escaping takes for each other:
`~`, `/`, `~1`, `~0`, `/~` and a plain one; two nodes are enough for a patch to
reach the wrong one or for a name to be ambiguous. The limits lie on both sides
of the three operations of the longest patch, and the threshold on one of the
confidences of the rules.

In `runs` the busy timeout is most of a lease, worse than the 10 of 30 s of the
code; 7 ticks let a lease be given, renewed and taken over.

In `calm` three pages are what it takes for a loop to have a first, a middle and
a last turn; a page has one execution, so the order within a page is not
exercised. Up to three others start after the retry, in stage `retry_starting`
only, and can push it below the last page. Calls come in a fixed order, since
they differ in nothing but their token, and the last one comes when no update is
on its way to an edited workflow. People save up to version 3.

In `analysis` an answer of four lines is a fence around two objects. Prose is
left out of the answers, as it is neither a bracket nor a fence.

Calls are interchangeable, so the safety runs use their permutations as
symmetry; `calm` checks liveness and does not.

The system may stop for good - all calls have ended - so the runs of
`MCRemediation`, `MCRoute`, `MCLookup` and `MCRuns` do not check for deadlock.

`RetryRunsApprovedDefinition` and `KeepsPromise` hold under the premises of
`recovery`, and not far beyond. With an edit, or an update that lands late in a
version without its retry settings, the retry may run another definition: the
verification and the request are two exchanges. With slow calls an update may be
sent after another call has completed, against `KeepsPromise`. `StageNeverRegresses` and
`AtMostOneRetry` hold in all these cases.

## Fairness

Safety runs assume none. `calm` assumes weak fairness of the steps of each call,
pages included, of the arrival of calls, of n8n and of the clock. Threads are
scheduled, SQLite statements end by the busy timeout of 10 s, HTTP exchanges by
the timeout of 20 s, so a call either moves on or raises. n8n answers, and the
clock passes every deadline. Nothing is assumed of people or of other
executions. Failures, crashes, bad pages and edits may come at any time and in
any number up to the bounds, as long as one more call is left that is not
disturbed: without that, nothing could be promised to complete.

`RecoversOrStops` says that every proposal ends completed, in stage
`retry_starting`, where the documents ask for manual reconciliation, or with a
workflow that is neither the approved nor the patched one. Every other stage is
therefore recoverable by a further call, also after an edit that is undone.

## Theorems

Every safety invariant, action property and refinement that a passing run
checks is also a theorem, which TLAPS proves for every value of the constants
that satisfies their assumptions:

| Theorems | Say |
| --- | --- |
| `RunsProofs!RunsTypeCorrect`, `TokenOwnsOneRow` | rows of the lease table are well-formed, and a token owns at most one |
| `RunsProofs!LostStaysLost`, `CompletedIsFinal` | a token that lost a row never owns it again; a row with a response never changes |
| `RunsProofs!ClockImplements`, `OwnerKeepsLeaseHolds` | the table with clocks, deadlines and waits for the lock implements the table, and owners keep their rows |
| `RemediationProofs!TypeInvariant`, `TypeCorrect` | types of the whole remediation |
| `RemediationProofs!RemediationImplementsRuns` | the remediation uses the table only as this allows |
| `RemediationProofs!OneRetryHolds`, `AtMostOneRetryHolds` | at most one retry is requested for a proposal |
| `RecordProofs!RecordedFirstHolds`, `StageNeverRegressesHolds` | what is sent was recorded, and no stage goes back |
| `RecordProofs!WritesAreApprovedHolds` | every update is the proposal's patch of an approved snapshot |
| `RecordProofs!RetryRunsApprovedHolds` | undisturbed, the retry executes an approved definition |
| `PromiseProofs!ResponseIsTruthfulHolds` | a response is true of a retry that n8n has |
| `PromiseProofs!SingleAttemptHolds`, `KeepsPromiseHolds` | without slow calls, one call at a time works on a proposal, and `Remediation` implements `AtMostOnce` |
| `GateProofs!ClosedGateHolds` | while a gate is closed nothing is sent and no stage moves on |
| `GateProofs!RouteKeepsSpec`, `RefusalHolds` | a client that is told of a refusal may believe that nothing was done |
| `LookupProofs!LookupTypeCorrect`, `LookupImplementsFindHolds`, `LookupAsksOnce` | page by page, the lookup does only what `Find` may do, so one retry is requested here, too |
| `IncidentProofs!IncidentTypeCorrect`, `ReadsAreAllowedHolds`, `HandedOutHolds`, `EvidenceImplemented` | with overlapping requests, `IncidentService` implements `Evidence` |
| `IncidentProofs!CachesMatchStoreHolds`, `ApprovalIsForLastDryRunHolds`, `SerialReadsHold`, `SerialEvidence` | with one request at a time, caches, tables and readers agree |
| `AnalysisProofs!EvidenceOfLastRunHolds`, `AdviceIsTheOnlyObjectHolds`, `PatchIffRetrySafeHolds` | what is diagnosed, what counts as advice, and when there is a patch |
| `AnalysisProofs!OnlyTheLimitRefusesHolds`, `OnlyFailedNodeChangesHolds`, `GoodWorkflowPassesHolds` | a patch reaches the node that failed and nothing else, whatever its name |

**Assumptions.** `RunsAssumption`, `N8NAssumption`, `RemediationAssumption`,
`NoneAssumption`, `ClockAssumption`, `LookupAssumption`, `IncidentAssumption`,
`DiagnosisAssumption` and `AnalysisAssumption`: constants have the types their
comments say, the ids of calls and of people's retries are disjoint, `None` is
none of the values it stands beside, names are finite sequences, and a name
occurs once among the keys of `runData`. TLC evaluates them in the runs. Nothing
is assumed about the number of calls, proposals, threads, nodes, runs or pages.

Some theorems have a premise, and then it is that of the run which checks the
same property:

| Premise | Meaning | Theorems | Run |
| --- | --- | --- | --- |
| `~SlowAttempts` | no live call outlives its lease | `SingleAttemptHolds`, `KeepsPromiseHolds` | `recovery` |
| `Undisturbed` | one proposal, nobody edits the workflow, n8n keeps what it is sent | `RetryRunsApprovedHolds` | `recovery` |
| `RacyEvidence` | `Evidence` with what overlap may do | `ReadsAreAllowedHolds`, `EvidenceImplemented` | `incidents` |
| `OneAtATime` | one thread, one service, a SQLite that does not raise | the serial theorems of `IncidentProofs` | `incidents_serial` |

`RetryRunsApprovedHolds` does not need `~SlowAttempts`, so it says more than
the run.

**Types.** `TypeOK` is not inductive: a call that sends an update must have a
definition to send. `TypeInv` adds that a started call has a proposal and that
at each program counter the local variables used from there have been read
(`Fits`). The proof has one lemma per group of actions.

**The table.** That a token owns one row needs that a token claimed with is new
to the table (`OwnersAreIssued`) and that a completed row is nobody's.

**The clock.** `TimeInv` bounds what old clocks can do: a write that waits has
read the clock at most `Busy` ago, and no deadline is further away than `Lease`.
For the refinement it matters that an old clock only makes a lease look longer
than it is, so a row that is taken over is one whose lease is over. For
`OwnerKeepsLease` it must also be known that the next write of an owner cannot
shorten its lease: its deadline is no later than the one that the clock it has
read will give it (`OwnerRenews`).

**One retry.** `AtMostOneRetry` speaks of requests, which are on the wire or at
n8n; the code decides on the stage it read when the call began. The invariant
`OneRetry` connects them:

1. A call that is certain to request the retry, or has requested it
   (`Committed`), has left its row in the retry phase (`CommittedIsRecorded`).
2. While a call owns its row, its copy of the stage is current where it is going
   to be used (`StageIsFresh`), because only the owner writes.
3. A call that owns its row and is on its way to the retry has a row in an early
   stage (`EarlyCallEarlyRow`).

A call becomes committed in the transaction that writes `retry_starting`. By 3
the row is then early, so by 1 no other call is committed. No transaction takes
a row from the retry phase back. A call that lost its lease is not the owner and
its transaction fails: 2 and 3 say nothing of it and need not.
`CallGoesOn` and `OwnerWrites` are the two frame lemmas: nearly every action is
an instance of one of them. Each of these conjuncts also held in TLC, on the
instance of `overlap`.

**Records.** `RecordInv` adds where the row of an owner can be at each program
counter (`RowFits`). Every transaction of an owner then moves the stage forward,
which is `StageNeverRegresses`; a call that lost its row moves nothing. Because
no stage goes back and the timeline only grows, what a call recorded as the
owner is still there when it sends its request without being it:
`RecordedFirst`.

**Approvals.** What the tables hold was once dry-run, or approved
(`EvidenceIsHistory`); what a call goes on with was approved, since it compares
the two records (`CallsAreApproved`); and both histories only grow. So
`WritesAreApproved` holds however long a call keeps its copy.

**What the retry executes.** With one proposal and nobody else, whatever is
saved after the verification is again the patch of an approved snapshot, also
when it is the late update of a call that is gone. `RetryPart` says so of the
row, of the calls (`CallExpectsApproved`), and of the workflow from the
verification on (`AsksForApproved`).

**The response.** `TruthInv`: an id of a retry, in a row or in a call, is that
of an execution which n8n started for the proposal's own execution, and a verdict
other than pending was read from an execution that had ended, which n8n does not
change. Twins, people and slow calls do not disturb that.

**The promise.** `LeaseInv`: without slow calls, a call that runs holds the
lease of its row, or the row is completed and the call has only to answer
(`LiveHolds`). Hence no second call is let in, what is sent is sent before the
outcome is decided, and each answer is the outcome. The refinement has one case
per action; all but the requests and `CompleteRun` are stuttering or an answer.

**Gates.** The gates are looked at once, after the approval is read; requests
follow many steps later. The invariant is `NobodyInside`: while a gate is
closed, no call is past that check. Gates change only when a process starts, and
then every call has ended, so a call past the check is always in a process that
had them open when it looked. That the code reads its settings once per process
is what this rests on.

**Refusals.** The route adds variables and no steps (`RouteKeepsSpec`), so the
invariants of `Remediation` hold in it. A status that promises that nothing was
done comes from a check that precedes every request, or from the lookup. Nothing
leads from a request back there: a call that verifies what it has just written
knows that its stage is `workflow_verified` (`SentKnows`), so it goes on without
a lookup.

**The lookup.** `LookupInv` is `TypeInv` and that cursors point into the list.
Each page that ends the loop is a step `Find` may take, every other one
stutters. `LookupAsksOnce` carries `AtMostOneRetry` over.

**The service.** In every interleaving, what a thread carries and what a
dictionary or table holds was dry-run, and approved where it counts as an
approval, before it got there (`ThreadsKnow`, `StoreIsHistory`); so stale copies
are outdated but never invented. With one request at a time a dictionary differs
from its table only while the thread is on its way from the one to the other
(`Agrees`), which is the invariant behind the four serial theorems.

**The analysis.** `AnalysisInv` says that nothing is stored while a request is
in progress, and that what is in progress was ingested. `PatchInv` and
`DryRunInv` say that a stored patch is the planner's for the failed node and
that a passed dry run is that patch applied to its snapshot. What remains are
facts about operators. The one with substance is `EscapeRoundTrip`: unescaping
an escaped name gives the name, for every length and all characters. It needs an
induction, and the induction theorems of the library take an operator, which no
backend here can instantiate; `SetInduction` is told of a *set* of naturals
instead and follows from the least counterexample, and the folds of the model
are unfolded at their last element (`FlattenAppend`, `ReplaceAppend`,
`ScanStep`, `FoldOfThree`).

**Only model-checked.** The liveness properties `LeaseIsFreed`,
`RecoversOrStops` and `FoundRetryIsUsed`: they rest on fairness, and the backends
do not reason about `ENABLED`. And the three disagreements below, which are
counterexamples.

## Where the code and its documents disagree

Three disagreements are runs that TLC ends with a counterexample:

- `two_attempts`. SECURITY.md says that a lease prevents concurrent apply
  attempts for the same proposal. It does so only while calls are faster than
  the lease. The retry is not affected (`AtMostOneRetryHolds`), the update may be
  sent twice.
- `lost_edit`. README.md says that changed workflow state fails closed. An edit
  between the comparison and the PUT is overwritten, because the PUT has no
  precondition.
- `revoked`. README.md says that a new dry run invalidates the previous approval.
  With two service objects, the one that the remediation uses keeps the dry run
  and the approval that an earlier call of apply-retry has read, and a dry run
  through the other one takes neither away. The two records agree, so the next
  call goes on with the revoked approval. Here requests come one at a time; it
  takes two first requests that come together to get two services.

Three more were seen while reading the code and are not runs. An approval that
overlaps with a new dry run may be saved after it, so that the approval in force
is that of the older snapshot, against README.md ("a new dry run invalidates the
previous approval"); `apply_retry_verify` refuses it, since it compares both
records. In one service, too, a reader that has loaded an approval before a dry
run takes it away may put it back into the cache after. And the failure of
`_verify_persisted` says that the retry was not started, also when a call resumes
after one was.

No line of the documents excludes what happens when a save raises: the caches are
written before SQLite, so an approval whose save has failed stays in force until
a restart. `CachesMatchStore` is about saves that do not raise.

## What is left out

- One workflow. Proposals for different workflows share nothing here.
- `versionId` is always there. Without it the fingerprint decides alone.
- Bodies contain the target node, and a dry run of them succeeds. A dry run that
  fails raises before it changes anything.
- Dry runs are made of the workflow that n8n has at that moment. The route that
  takes a workflow from the client can store a snapshot that n8n never had; the
  remediation compares with n8n and refuses it.
- `workflow_version_before`, `last_error`, wording, order and details of events.
- The response is its retry id and verification.
- The branches of lines 249-254 and 321-325, which no state reaches: from stage
  `workflow_update_starting` on the row has an expected fingerprint, from
  `retry_started` on a retry id.
- The dictionaries of proposals and of their execution ids, which `analyze` fills
  before it saves the incident. Nobody has the id by then, and what they hold
  never changes.
- An error object of an execution that has none of the fields that are read. The
  model takes it for no error, the code for an error without a text that hides
  that of the run.
- The words of the phrase groups, and how stacks and messages are formatted.
- The middleware (operator token, demo-only mode), health, readiness and metrics:
  each is a check of one request against settings that do not change. `stats`
  reads five counts in five statements, which need not agree.
- Errors of the other routes. A call for an unknown proposal raises before it
  does anything but leave a row in `remediation_runs`.
- The HTTP exchange with the external model, its prompt and the model server of
  the notebooks, whose locking hangs on a library that is not here.
- Answers of n8n without the fields it promises, except for the status codes they
  lead to.
- Checks of the engine that a patch of the planner cannot fail: paths of another
  shape, operations other than `add`, fields outside the allowlist.
- Components that `PROJECT.json` marks `not_modelled`, with the reasons.

## Plan

The order was: the lease table, n8n, the evidence contract, the remediation on
top of them, then the implementation of the evidence, then proofs, then the
analysis, then what was one step so far: the clock of a lease, the pages of a
lookup, the answer of the route, the normalizer and the answer of the model.
After those came the proofs, component by component, until every safety property
and refinement was a theorem. What follows:

1. The operator boundary of `main.py` and the errors of the routes for dry runs
   and approvals, beside `ApplyRoute`.
2. The two hazards without a property: the row that a call for an unknown
   proposal leaves behind (`state_store.py:277`), and the error of an execution
   that names another node than the one that ran last
   (`n8n_normalizer.py:84`).
3. Whether `KeepsPromise` holds with slow calls in a weaker form, in which an
   update may be sent after the outcome.
