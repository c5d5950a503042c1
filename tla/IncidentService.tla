-------------------------- MODULE IncidentService --------------------------
(***************************************************************************)
(* IncidentService (app/services/incidents.py): the dry runs and approvals *)
(* of proposals, kept in dictionaries of the process and in SQLite.  The   *)
(* routes are synchronous, so requests run in the threads of a pool and    *)
(* may interleave between any two accesses to a dictionary or to SQLite.   *)
(*                                                                         *)
(* get_incident_service is a function under lru_cache, which does not hold *)
(* a lock while it computes: two first requests may each build a service,  *)
(* and ControlledRemediationService keeps the one it was built with.       *)
(***************************************************************************)
EXTENDS Naturals

CONSTANTS
  Proposals,
  Snapshots,        \* versionId and snapshot_fingerprint of a workflow
  None,             \* no entry, no row
  Threads,          \* request threads
  RacyEvidence,     \* requests of one proposal may overlap
  SavesMayFail,     \* SQLite may raise
  SplitInstances    \* two services may be built at start

Requests == {"analyze", "dry_run", "approve", "apply"}

ASSUME IncidentAssumption ==
  /\ None \notin Snapshots \cup Requests
  /\ {RacyEvidence, SavesMayFail, SplitInstances} \subseteq BOOLEAN

VARIABLES
  shared,       \* the routes and the remediation use the same service
  dry_runs,     \* IncidentService.dry_runs, of each service
  approvals,    \* IncidentService.approvals, of each service
  incidents,    \* proposals with a row in table incidents
  handed,       \* proposals whose id was returned to a client
  dry, appr,    \* tables dry_runs and approvals
  timeline,     \* event types in table timeline
  thread,       \* what each thread does
  past,         \* history: snapshots that passed a dry run
  granted       \* history: snapshots that a person approved

caches == <<dry_runs, approvals>>
tables == <<incidents, dry, appr, timeline>>
history == <<past, granted>>
vars == <<shared, caches, tables, handed, thread, history>>

Services == {"routes", "remediation"}

Points == {"idle", "save_incident", "log_diagnosed",
           "cache_dry", "pop_approval", "save_dry", "log_dry",
           "get_dry", "load_dry", "fill_dry",
           "cache_approval", "save_approval", "log_approval",
           "get_approval", "load_approval", "fill_approval"}

Idle == [at |-> "idle", op |-> None, p |-> None, dry |-> None, appr |-> None]

ThreadStates ==
  [at : Points, op : Requests \cup {None},
   p : Proposals \cup {None}, dry : Snapshots \cup {None},
   appr : Snapshots \cup {None}]

TypeOK ==
  /\ shared \in BOOLEAN
  /\ dry_runs \in [Services -> [Proposals -> Snapshots \cup {None}]]
  /\ approvals \in [Services -> [Proposals -> Snapshots \cup {None}]]
  /\ incidents \subseteq Proposals
  /\ handed \subseteq Proposals
  /\ dry \in [Proposals -> Snapshots \cup {None}]
  /\ appr \in [Proposals -> Snapshots \cup {None}]
  /\ timeline \in [Proposals -> SUBSET {"diagnosed", "dry_run_validated", "approved"}]
  /\ thread \in [Threads -> ThreadStates]
  /\ past \in [Proposals -> SUBSET Snapshots]
  /\ granted \in [Proposals -> SUBSET Snapshots]

EmptyCache == [s \in Services |-> [p \in Proposals |-> None]]

Booted(b) == b \/ SplitInstances

Init ==
  /\ shared \in {b \in BOOLEAN : Booted(b)}
  /\ dry_runs = EmptyCache
  /\ approvals = EmptyCache
  /\ incidents = {}
  /\ handed = {}
  /\ dry = [p \in Proposals |-> None]
  /\ appr = [p \in Proposals |-> None]
  /\ timeline = [p \in Proposals |-> {}]
  /\ thread = [t \in Threads |-> Idle]
  /\ past = [p \in Proposals |-> {}]
  /\ granted = [p \in Proposals |-> {}]

At(t, point) == thread[t].at = point
Op(t) == thread[t].op
P(t)  == thread[t].p

(* The service whose dictionaries the thread uses.                          *)
Service(t) == IF Op(t) = "apply" /\ ~shared THEN "remediation" ELSE "routes"

Goto(t, point) == thread' = [thread EXCEPT ![t].at = point]
Finish(t) == thread' = [thread EXCEPT ![t] = Idle]

Start(t, op, p, point) ==
  /\ At(t, "idle")
  /\ p \in handed
  /\ thread' = [thread EXCEPT ![t] = [Idle EXCEPT !.op = op, !.p = p, !.at = point]]

-----------------------------------------------------------------------------
(* analyze: the id of the proposal is a fresh uuid4.                        *)

(* Mutant: the id is returned before the incident is saved.                 *)
AnalyzeAndReturn(t, p) ==
  /\ At(t, "idle")
  /\ p \notin incidents \cup handed
  /\ \A u \in Threads : P(u) # p
  /\ thread' = [thread EXCEPT ![t] =
                  [Idle EXCEPT !.op = "analyze", !.p = p, !.at = "save_incident"]]
  /\ handed' = handed \cup {p}
  /\ UNCHANGED <<shared, caches, tables, history>>

Analyze(t, p) ==
  /\ At(t, "idle")
  /\ p \notin incidents \cup handed
  /\ \A u \in Threads : P(u) # p
  /\ thread' = [thread EXCEPT ![t] =
                  [Idle EXCEPT !.op = "analyze", !.p = p, !.at = "save_incident"]]
  /\ UNCHANGED <<shared, caches, tables, handed, history>>

SaveIncident(t) ==
  /\ At(t, "save_incident")
  /\ incidents' = incidents \cup {P(t)}
  /\ Goto(t, "log_diagnosed")
  /\ UNCHANGED <<shared, caches, dry, appr, timeline, handed, history>>

LogDiagnosed(t) ==
  /\ At(t, "log_diagnosed")
  /\ timeline' = [timeline EXCEPT ![P(t)] = @ \cup {"diagnosed"}]
  /\ handed' = handed \cup {P(t)}
  /\ Finish(t)
  /\ UNCHANGED <<shared, caches, incidents, dry, appr, history>>

-----------------------------------------------------------------------------
(* dry_run, once WorkflowDryRunEngine has accepted the workflow.            *)

StartDryRun(t, p, s) ==
  /\ At(t, "idle")
  /\ p \in handed
  /\ thread' = [thread EXCEPT ![t] = [at |-> "cache_dry", op |-> "dry_run", p |-> p,
                                      dry |-> s, appr |-> None]]
  /\ UNCHANGED <<shared, caches, tables, handed, history>>

(* Mutant: the cached dry run is not replaced.                              *)
SkipDryRunCache(t) ==
  /\ At(t, "cache_dry")
  /\ past' = [past EXCEPT ![P(t)] = @ \cup {thread[t].dry}]
  /\ Goto(t, "pop_approval")
  /\ UNCHANGED <<shared, caches, tables, handed, granted>>

CacheDryRun(t) ==
  /\ At(t, "cache_dry")
  /\ dry_runs' = [dry_runs EXCEPT ![Service(t)][P(t)] = thread[t].dry]
  /\ past' = [past EXCEPT ![P(t)] = @ \cup {thread[t].dry}]
  /\ Goto(t, "pop_approval")
  /\ UNCHANGED <<shared, approvals, tables, handed, granted>>

(* Mutant: the cached approval is not dropped.                              *)
SkipPop(t) ==
  /\ At(t, "pop_approval")
  /\ Goto(t, "save_dry")
  /\ UNCHANGED <<shared, caches, tables, handed, history>>

PopApproval(t) ==
  /\ At(t, "pop_approval")
  /\ approvals' = [approvals EXCEPT ![Service(t)][P(t)] = None]
  /\ Goto(t, "save_dry")
  /\ UNCHANGED <<shared, dry_runs, tables, handed, history>>

(* Mutant: the transaction does not delete the approval.                    *)
SaveDryRunOnly(t) ==
  /\ At(t, "save_dry")
  /\ dry' = [dry EXCEPT ![P(t)] = thread[t].dry]
  /\ Goto(t, "log_dry")
  /\ UNCHANGED <<shared, caches, incidents, appr, timeline, handed, history>>

(* One transaction: the upsert and DELETE FROM approvals.                   *)
SaveDryRun(t) ==
  /\ At(t, "save_dry")
  /\ dry' = [dry EXCEPT ![P(t)] = thread[t].dry]
  /\ appr' = [appr EXCEPT ![P(t)] = None]
  /\ Goto(t, "log_dry")
  /\ UNCHANGED <<shared, caches, incidents, timeline, handed, history>>

LogDryRun(t) ==
  /\ At(t, "log_dry")
  /\ timeline' = [timeline EXCEPT ![P(t)] = @ \cup {"dry_run_validated"}]
  /\ Finish(t)
  /\ UNCHANGED <<shared, caches, incidents, dry, appr, handed, history>>

-----------------------------------------------------------------------------
(* get_dry_run, called by approve and by apply_retry_verify.                *)

StartApprove(t, p) ==
  /\ Start(t, "approve", p, "get_dry")
  /\ UNCHANGED <<shared, caches, tables, handed, history>>

StartApply(t, p) ==
  /\ Start(t, "apply", p, "get_dry")
  /\ UNCHANGED <<shared, caches, tables, handed, history>>

AfterDryRun(t) == IF Op(t) = "approve" THEN "cache_approval" ELSE "get_approval"

GetDryRun(t) ==
  /\ At(t, "get_dry")
  /\ LET cached == dry_runs[Service(t)][P(t)] IN
       thread' = [thread EXCEPT ![t].dry = cached,
                                ![t].at = IF cached = None THEN "load_dry"
                                          ELSE AfterDryRun(t)]
  /\ UNCHANGED <<shared, caches, tables, handed, history>>

(* Mutant: a missing dry run is not an error.                               *)
UseMissingDryRun(t) ==
  /\ At(t, "load_dry")
  /\ thread' = [thread EXCEPT ![t].dry = dry[P(t)], ![t].at = "fill_dry"]
  /\ UNCHANGED <<shared, caches, tables, handed, history>>

LoadDryRun(t) ==
  /\ At(t, "load_dry")
  /\ IF dry[P(t)] = None
       THEN Finish(t)                           \* DryRunRequiredError
       ELSE thread' = [thread EXCEPT ![t].dry = dry[P(t)], ![t].at = "fill_dry"]
  /\ UNCHANGED <<shared, caches, tables, handed, history>>

FillDryRun(t) ==
  /\ At(t, "fill_dry")
  /\ dry_runs' = [dry_runs EXCEPT ![Service(t)][P(t)] = thread[t].dry]
  /\ Goto(t, AfterDryRun(t))
  /\ UNCHANGED <<shared, approvals, tables, handed, history>>

-----------------------------------------------------------------------------
(* approve: the record is bound to the snapshot that get_dry_run returned.  *)

CacheApproval(t) ==
  /\ At(t, "cache_approval")
  /\ approvals' = [approvals EXCEPT ![Service(t)][P(t)] = thread[t].dry]
  /\ granted' = [granted EXCEPT ![P(t)] = @ \cup {thread[t].dry}]
  /\ Goto(t, "save_approval")
  /\ UNCHANGED <<shared, dry_runs, tables, handed, past>>

(* Mutant: the approval stays in the process.                               *)
SkipSaveApproval(t) ==
  /\ At(t, "save_approval")
  /\ Goto(t, "log_approval")
  /\ UNCHANGED <<shared, caches, tables, handed, history>>

SaveApproval(t) ==
  /\ At(t, "save_approval")
  /\ appr' = [appr EXCEPT ![P(t)] = thread[t].dry]
  /\ Goto(t, "log_approval")
  /\ UNCHANGED <<shared, caches, incidents, dry, timeline, handed, history>>

LogApproval(t) ==
  /\ At(t, "log_approval")
  /\ timeline' = [timeline EXCEPT ![P(t)] = @ \cup {"approved"}]
  /\ Finish(t)
  /\ UNCHANGED <<shared, caches, incidents, dry, appr, handed, history>>

-----------------------------------------------------------------------------
(* get_approval, called by apply_retry_verify.  A call that has both is     *)
(* seen here for one state with at = "idle": module Remediation goes on     *)
(* from there.                                                              *)

Evidenced(t, record) ==
  thread' = [thread EXCEPT ![t].appr = record, ![t].at = "idle"]

GetApproval(t) ==
  /\ At(t, "get_approval")
  /\ LET cached == approvals[Service(t)][P(t)] IN
       IF cached = None THEN Goto(t, "load_approval") ELSE Evidenced(t, cached)
  /\ UNCHANGED <<shared, caches, tables, handed, history>>

(* Mutant: without an approval the dry run counts as approved.              *)
AssumeApproved(t) ==
  /\ At(t, "load_approval")
  /\ thread' = [thread EXCEPT ![t].appr = IF appr[P(t)] = None THEN thread[t].dry
                                          ELSE appr[P(t)],
                              ![t].at = "fill_approval"]
  /\ UNCHANGED <<shared, caches, tables, handed, history>>

LoadApproval(t) ==
  /\ At(t, "load_approval")
  /\ IF appr[P(t)] = None
       THEN Finish(t)                           \* ApprovalRequiredError
       ELSE thread' = [thread EXCEPT ![t].appr = appr[P(t)], ![t].at = "fill_approval"]
  /\ UNCHANGED <<shared, caches, tables, handed, history>>

FillApproval(t) ==
  /\ At(t, "fill_approval")
  /\ approvals' = [approvals EXCEPT ![Service(t)][P(t)] = thread[t].appr]
  /\ Evidenced(t, thread[t].appr)
  /\ UNCHANGED <<shared, dry_runs, tables, handed, history>>

-----------------------------------------------------------------------------
(* A statement on SQLite raises; what was cached before stays cached.       *)
SqliteFails(t) ==
  /\ SavesMayFail
  /\ thread[t].at \in {"save_incident", "log_diagnosed", "save_dry", "log_dry",
                       "load_dry", "save_approval", "log_approval", "load_approval"}
  /\ Finish(t)
  /\ UNCHANGED <<shared, caches, tables, handed, history>>

(* The process stops and starts again.                                      *)
Restart ==
  /\ dry_runs' = EmptyCache
  /\ approvals' = EmptyCache
  /\ thread' = [t \in Threads |-> Idle]
  /\ shared' \in {b \in BOOLEAN : Booted(b)}
  /\ UNCHANGED <<tables, handed, history>>

Request(t) ==
  \E p \in Proposals :
    \/ Analyze(t, p)
    \/ \E s \in Snapshots : StartDryRun(t, p, s)
    \/ StartApprove(t, p)
    \/ StartApply(t, p)

Step(t) ==
  \/ SaveIncident(t) \/ LogDiagnosed(t)
  \/ CacheDryRun(t) \/ PopApproval(t) \/ SaveDryRun(t) \/ LogDryRun(t)
  \/ GetDryRun(t) \/ LoadDryRun(t) \/ FillDryRun(t)
  \/ CacheApproval(t) \/ SaveApproval(t) \/ LogApproval(t)
  \/ GetApproval(t) \/ LoadApproval(t) \/ FillApproval(t)
  \/ SqliteFails(t)

Next ==
  \/ \E t \in Threads : Request(t) \/ Step(t)
  \/ Restart

Spec == Init /\ [][Next]_vars

-----------------------------------------------------------------------------
(* The abstract evidence that module Remediation is built on.               *)
Promise == INSTANCE Evidence

(* Whatever overlaps, fails or restarts, dry runs and approvals change as   *)
(* Evidence allows (incidents.py:127-187).                                  *)
ImplementsEvidence == Promise!EvidenceSpec

(* incidents.py:141-145: a remediation never gets a snapshot that was not   *)
(* dry-run or an approval that nobody gave, and without overlap it gets     *)
(* exactly the durable ones.                                                *)
ReadsAreAllowed ==
  \A t \in Threads :
    (Op(t) = "apply" /\ At(t, "idle")) =>
      /\ thread[t].dry \in Promise!DryRunSeen(P(t))
      /\ thread[t].appr \in Promise!ApprovalSeen(P(t))

(* A proposal whose id a client holds is in SQLite, so a restart never      *)
(* loses it (incidents.py:92-106).                                          *)
HandedOutIsDurable == handed \subseteq incidents

Quiet == \A t \in Threads : At(t, "idle")

(* The dictionaries are caches of SQLite, from which a restarted process    *)
(* recovers (incidents.py:65): when no request is under way they agree with *)
(* it, so a restart changes nothing.                                        *)
CachesMatchStore ==
  Quiet => \A s \in Services, p \in Proposals :
             /\ dry_runs[s][p] \in {None, dry[p]}
             /\ approvals[s][p] \in {None, appr[p]}

(* README.md:224: a new dry run invalidates the previous approval: when no  *)
(* request is under way, the approval in SQLite is that of the last dry run. *)
ApprovalIsForLastDryRun ==
  Quiet => \A p \in Proposals : appr[p] \in {None, dry[p]}

(* README.md:224, to the remediation: requests come one at a time, and an   *)
(* approval that a new dry run has taken away since is not shown to it      *)
(* (incidents.py:137-145, routes.py:38-55).                                 *)
RevokedIsNotShown ==
  \A t \in Threads :
    (Op(t) = "apply" /\ At(t, "idle")) => thread[t].appr = appr[P(t)]
=============================================================================
