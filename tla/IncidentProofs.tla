--------------------------- MODULE IncidentProofs ---------------------------
(***************************************************************************)
(* IncidentService keeps what Evidence promises, for every set of          *)
(* proposals, snapshots and request threads: with requests that overlap in *)
(* any way, with transactions that fail, with two services and restarts.   *)
(*                                                                         *)
(* The argument.  No step makes a snapshot up: what a thread holds, what a *)
(* dictionary holds and what a table holds was dry-run, and approved where *)
(* it counts as an approval, before it got there.  The two histories only  *)
(* grow, so this stays true however old a copy gets.                       *)
(***************************************************************************)
EXTENDS IncidentService, TLAPS

(* A thread has seen a dry run, or an approval, and holds its snapshot.     *)
HoldsDryRun == {"pop_approval", "save_dry", "fill_dry", "cache_approval",
                "save_approval", "get_approval", "load_approval", "fill_approval"}

Served(r) == r.at = "idle" /\ r.op = "apply"

Knows(r) ==
  /\ r.at # "idle" \/ r.op = "apply" => r.p \in Proposals
  /\ r.at = "log_diagnosed" => r.p \in incidents
  /\ r.at = "cache_dry" => r.dry \in Snapshots
  /\ r.at \in HoldsDryRun \/ Served(r) => r.dry \in past[r.p]
  /\ r.at = "save_approval" => r.dry \in granted[r.p]
  /\ r.at = "fill_approval" \/ Served(r) => r.appr \in granted[r.p]

ThreadsKnow == \A t \in Threads : Knows(thread[t])

StoreIsHistory ==
  \A p \in Proposals :
    /\ dry[p] \in past[p] \cup {None}
    /\ appr[p] \in granted[p] \cup {None}
    /\ \A s \in Services : /\ dry_runs[s][p] \in past[p] \cup {None}
                           /\ approvals[s][p] \in granted[p] \cup {None}

IncidentInv == TypeOK /\ ThreadsKnow /\ StoreIsHistory /\ HandedOutIsDurable

(* The part that is not about threads.                                      *)
StoreOK ==
  /\ shared \in BOOLEAN
  /\ dry_runs \in [Services -> [Proposals -> Snapshots \cup {None}]]
  /\ approvals \in [Services -> [Proposals -> Snapshots \cup {None}]]
  /\ incidents \subseteq Proposals
  /\ handed \subseteq Proposals
  /\ dry \in [Proposals -> Snapshots \cup {None}]
  /\ appr \in [Proposals -> Snapshots \cup {None}]
  /\ timeline \in [Proposals -> SUBSET {"diagnosed", "dry_run_validated", "approved"}]
  /\ past \in [Proposals -> SUBSET Snapshots]
  /\ granted \in [Proposals -> SUBSET Snapshots]
  /\ StoreIsHistory
  /\ HandedOutIsDurable

-----------------------------------------------------------------------------
LEMMA StoreIsOK == IncidentInv => StoreOK
  BY DEF IncidentInv, TypeOK, StoreOK

(* The frame: one thread moves on, and the histories do not shrink.         *)
LEMMA ThreadMoves ==
  ASSUME IncidentInv, NEW t \in Threads, NEW r \in ThreadStates,
         thread' = [thread EXCEPT ![t] = r],
         incidents \subseteq incidents',
         \A p \in Proposals : past[p] \subseteq past'[p] /\ granted[p] \subseteq granted'[p],
         Knows(r)', StoreOK'
  PROVE  IncidentInv'
<1>1. thread' \in [Threads -> ThreadStates]
  BY DEF IncidentInv, TypeOK
<1>2. TypeOK' /\ StoreIsHistory' /\ HandedOutIsDurable'
  BY <1>1 DEF StoreOK, TypeOK
<1>3. ThreadsKnow'
  <2> SUFFICES ASSUME NEW u \in Threads
               PROVE  Knows(thread[u])'
    BY DEF ThreadsKnow, Knows, Served
  <2>1. CASE u = t
    BY <2>1 DEF IncidentInv, TypeOK, Knows, Served
  <2>2. CASE u # t
    <3>1. thread'[u] = thread[u] /\ Knows(thread[u])
      BY <2>2 DEF IncidentInv, TypeOK, ThreadsKnow
    <3> QED
      BY <3>1 DEF Knows, Served, HoldsDryRun
  <2> QED
    BY <2>1, <2>2
<1> QED
  BY <1>2, <1>3 DEF IncidentInv

(* Only the thread moves.                                                   *)
LEMMA OnlyThreadMoves ==
  ASSUME IncidentInv, NEW t \in Threads, NEW r \in ThreadStates,
         thread' = [thread EXCEPT ![t] = r],
         UNCHANGED <<shared, caches, tables, handed, history>>,
         Knows(r)
  PROVE  IncidentInv'
<1>1. StoreOK'
  BY StoreIsOK DEF caches, tables, history, StoreOK, StoreIsHistory, HandedOutIsDurable
<1>2. Knows(r)' /\ incidents' = incidents /\ past' = past /\ granted' = granted
  BY DEF tables, history, Knows, Served
<1> QED
  BY <1>1, <1>2, ThreadMoves

LEMMA ThreadOf ==
  ASSUME IncidentInv, NEW t \in Threads
  PROVE  /\ thread[t] \in ThreadStates
         /\ Knows(thread[t])
         /\ thread[t].at # "idle" => P(t) \in Proposals
         /\ Service(t) \in Services
  BY DEF IncidentInv, TypeOK, ThreadsKnow, Knows, P, Service, Services

LEMMA IdleIsFine == Idle \in ThreadStates /\ Knows(Idle) /\ Knows(Idle)'
  BY IncidentAssumption
     DEF Idle, ThreadStates, Points, Requests, Knows, Served, HoldsDryRun

-----------------------------------------------------------------------------
(* Where a thread goes.                                                     *)
LEMMA GoesTo ==
  ASSUME IncidentInv, NEW t \in Threads, NEW point \in Points, Goto(t, point)
  PROVE  \E r \in ThreadStates :
           /\ thread' = [thread EXCEPT ![t] = r]
           /\ r.at = point /\ r.op = Op(t) /\ r.p = P(t)
           /\ r.dry = thread[t].dry /\ r.appr = thread[t].appr
<1> DEFINE r == [thread[t] EXCEPT !.at = point]
<1>1. thread[t] \in ThreadStates
  BY ThreadOf
<1>2. /\ r \in ThreadStates /\ r.at = point /\ r.op = Op(t) /\ r.p = P(t)
      /\ r.dry = thread[t].dry /\ r.appr = thread[t].appr
  BY <1>1 DEF ThreadStates, Op, P
<1>3. thread' = [thread EXCEPT ![t] = r]
  BY DEF Goto
<1> QED
  BY <1>2, <1>3

LEMMA Finishes ==
  ASSUME IncidentInv, NEW t \in Threads, Finish(t),
         UNCHANGED <<shared, caches, tables, handed, history>>
  PROVE  IncidentInv'
  BY IdleIsFine, OnlyThreadMoves DEF Finish

(* Requests that start.                                                     *)
LEMMA RequestKnows ==
  ASSUME IncidentInv, NEW t \in Threads, Request(t)
  PROVE  IncidentInv'
<1>1. PICK p \in Proposals : \/ Analyze(t, p)
                             \/ \E s \in Snapshots : StartDryRun(t, p, s)
                             \/ StartApprove(t, p)
                             \/ StartApply(t, p)
  BY DEF Request
<1>2. UNCHANGED <<shared, caches, tables, handed, history>>
  BY <1>1 DEF Analyze, StartDryRun, StartApprove, StartApply
<1>3. CASE Analyze(t, p)
  <2> DEFINE r == [Idle EXCEPT !.op = "analyze", !.p = p, !.at = "save_incident"]
  <2>1. r \in ThreadStates /\ Knows(r)
    BY DEF Idle, ThreadStates, Points, Requests, Knows, Served, HoldsDryRun
  <2>2. thread' = [thread EXCEPT ![t] = r]
    BY <1>3 DEF Analyze
  <2> QED
    BY <1>2, <2>1, <2>2, OnlyThreadMoves
<1>4. CASE \E s \in Snapshots : StartDryRun(t, p, s)
  <2>1. PICK s \in Snapshots : StartDryRun(t, p, s)
    BY <1>4
  <2> DEFINE r == [at |-> "cache_dry", op |-> "dry_run", p |-> p, dry |-> s, appr |-> None]
  <2>2. r \in ThreadStates /\ Knows(r)
    BY DEF ThreadStates, Points, Requests, Knows, Served, HoldsDryRun
  <2>3. thread' = [thread EXCEPT ![t] = r]
    BY <2>1 DEF StartDryRun
  <2> QED
    BY <1>2, <2>2, <2>3, OnlyThreadMoves
<1>5. CASE StartApprove(t, p) \/ StartApply(t, p)
  <2>1. PICK op \in {"approve", "apply"} :
          thread' = [thread EXCEPT ![t] =
                       [Idle EXCEPT !.op = op, !.p = p, !.at = "get_dry"]]
    BY <1>5 DEF StartApprove, StartApply, Start
  <2> DEFINE r == [Idle EXCEPT !.op = op, !.p = p, !.at = "get_dry"]
  <2>2. r \in ThreadStates /\ Knows(r)
    BY DEF Idle, ThreadStates, Points, Requests, Knows, Served, HoldsDryRun
  <2>3. thread' = [thread EXCEPT ![t] = r]
    BY <2>1
  <2> QED
    BY <1>2, <2>2, <2>3, OnlyThreadMoves
<1> QED
  BY <1>1, <1>3, <1>4, <1>5

(* The incident and its timeline.                                           *)
LEMMA IncidentKnows ==
  ASSUME IncidentInv, NEW t \in Threads, SaveIncident(t) \/ LogDiagnosed(t)
  PROVE  IncidentInv'
<1>1. StoreOK /\ P(t) \in Proposals
  BY StoreIsOK, ThreadOf DEF SaveIncident, LogDiagnosed, At
<1>2. CASE SaveIncident(t)
  <2>1. incidents' = incidents \cup {P(t)} /\ Goto(t, "log_diagnosed")
        /\ UNCHANGED <<shared, caches, dry, appr, timeline, handed, history>>
    BY <1>2 DEF SaveIncident
  <2>2. StoreOK'
    BY <1>1, <2>1 DEF caches, history, StoreOK, StoreIsHistory, HandedOutIsDurable
  <2>3. PICK r \in ThreadStates : /\ thread' = [thread EXCEPT ![t] = r]
                                  /\ r.at = "log_diagnosed" /\ r.p = P(t)
    BY <2>1, GoesTo DEF Points
  <2>4. Knows(r)'
    <3>1. r.p \in Proposals /\ r.p \in incidents'
      BY <1>1, <2>1, <2>3
    <3> QED
      BY <2>3, <3>1 DEF Knows, Served, HoldsDryRun
  <2>5. incidents \subseteq incidents' /\ past' = past /\ granted' = granted
    BY <2>1 DEF history
  <2> QED
    BY <2>2, <2>3, <2>4, <2>5, ThreadMoves
<1>3. CASE LogDiagnosed(t)
  <2>1. /\ timeline' = [timeline EXCEPT ![P(t)] = @ \cup {"diagnosed"}]
        /\ handed' = handed \cup {P(t)}
        /\ UNCHANGED <<shared, caches, incidents, dry, appr, history>>
        /\ thread' = [thread EXCEPT ![t] = Idle]
    BY <1>3 DEF LogDiagnosed, Finish
  <2>2. P(t) \in incidents
    BY <1>3, ThreadOf DEF LogDiagnosed, At, Knows, P
  <2>3. StoreOK'
    BY <1>1, <2>1, <2>2 DEF caches, history, StoreOK, StoreIsHistory, HandedOutIsDurable
  <2> QED
    BY <2>1, <2>3, IdleIsFine, ThreadMoves DEF history
<1> QED
  BY <1>2, <1>3

-----------------------------------------------------------------------------
Dictionaries == [Services -> [Proposals -> Snapshots \cup {None}]]

(* Dictionaries and histories that change as they may.                      *)
LEMMA StoreStays ==
  ASSUME StoreOK, UNCHANGED <<shared, incidents, handed, dry, appr, timeline>>,
         dry_runs' \in Dictionaries, approvals' \in Dictionaries,
         past' \in [Proposals -> SUBSET Snapshots],
         granted' \in [Proposals -> SUBSET Snapshots],
         \A p \in Proposals : past[p] \subseteq past'[p] /\ granted[p] \subseteq granted'[p],
         \A p \in Proposals, s \in Services :
            /\ dry_runs'[s][p] \in past'[p] \cup {dry_runs[s][p], None}
            /\ approvals'[s][p] \in granted'[p] \cup {approvals[s][p], None}
  PROVE  StoreOK'
<1>1. StoreIsHistory'
  BY DEF StoreOK, StoreIsHistory
<1> QED
  BY <1>1 DEF StoreOK, HandedOutIsDurable, Dictionaries

LEMMA HistoryGrows ==
  ASSUME NEW h \in [Proposals -> SUBSET Snapshots], NEW p \in Proposals,
         NEW s \in Snapshots, NEW g, g = [h EXCEPT ![p] = @ \cup {s}]
  PROVE  /\ g \in [Proposals -> SUBSET Snapshots]
         /\ s \in g[p]
         /\ \A q \in Proposals : h[q] \subseteq g[q]
  OBVIOUS

(* A dry run, from the validated snapshot to the timeline.                  *)
LEMMA DryRunKnows ==
  ASSUME IncidentInv, NEW t \in Threads,
         CacheDryRun(t) \/ PopApproval(t) \/ SaveDryRun(t) \/ LogDryRun(t)
  PROVE  IncidentInv'
<1> DEFINE p == P(t)
           s == thread[t].dry
<1>1. /\ StoreOK /\ p \in Proposals /\ Service(t) \in Services
      /\ Knows(thread[t]) /\ thread[t].p = p
  BY StoreIsOK, ThreadOf DEF CacheDryRun, PopApproval, SaveDryRun, LogDryRun, At, P
<1>2. dry_runs \in Dictionaries /\ approvals \in Dictionaries
  BY <1>1 DEF StoreOK, Dictionaries
<1>3. past \in [Proposals -> SUBSET Snapshots] /\ granted \in [Proposals -> SUBSET Snapshots]
  BY <1>1 DEF StoreOK
<1>4. CASE CacheDryRun(t)
  <2>1. s \in Snapshots
    BY <1>1, <1>4 DEF CacheDryRun, At, Knows
  <2>2. /\ past' \in [Proposals -> SUBSET Snapshots]
        /\ s \in past'[p]
        /\ \A q \in Proposals : past[q] \subseteq past'[q]
    BY <1>1, <1>3, <1>4, <2>1, HistoryGrows DEF CacheDryRun
  <2>3. /\ dry_runs' \in Dictionaries
        /\ dry_runs'[Service(t)][p] = s
        /\ \A z \in Services, q \in Proposals :
             (z # Service(t) \/ q # p) => dry_runs'[z][q] = dry_runs[z][q]
    BY <1>1, <1>2, <1>4, <2>1 DEF CacheDryRun, Dictionaries
  <2>4. UNCHANGED <<shared, incidents, handed, dry, appr, timeline, approvals, granted>>
    BY <1>4 DEF CacheDryRun, tables
  <2>5. \A q \in Proposals, z \in Services :
            dry_runs'[z][q] \in past'[q] \cup {dry_runs[z][q], None}
    BY <2>2, <2>3
  <2>6. StoreOK'
    BY <1>1, <1>2, <1>3, <2>2, <2>3, <2>4, <2>5, StoreStays
  <2>7. PICK r \in ThreadStates :
          /\ thread' = [thread EXCEPT ![t] = r]
          /\ r.at = "pop_approval" /\ r.p = p /\ r.dry = s
    BY <1>4, GoesTo DEF CacheDryRun, Points
  <2>8. Knows(r)'
    BY <1>1, <2>2, <2>7 DEF Knows, Served, HoldsDryRun
  <2> QED
    BY <2>2, <2>4, <2>6, <2>7, <2>8, ThreadMoves
<1>5. CASE PopApproval(t)
  <2>1. /\ approvals' \in Dictionaries
        /\ approvals'[Service(t)][p] = None
        /\ \A z \in Services, q \in Proposals :
             (z # Service(t) \/ q # p) => approvals'[z][q] = approvals[z][q]
    BY <1>1, <1>2, <1>5 DEF PopApproval, Dictionaries
  <2>2. UNCHANGED <<shared, incidents, handed, dry, appr, timeline, dry_runs, past, granted>>
    BY <1>5 DEF PopApproval, tables, history
  <2>3. StoreOK'
    BY <1>1, <1>2, <1>3, <2>1, <2>2, StoreStays
  <2>4. PICK r \in ThreadStates :
          /\ thread' = [thread EXCEPT ![t] = r]
          /\ r.at = "save_dry" /\ r.p = p /\ r.dry = s
    BY <1>5, GoesTo DEF PopApproval, Points
  <2>5. s \in past[p]
    BY <1>1, <1>5 DEF PopApproval, At, Knows, HoldsDryRun
  <2>6. Knows(r)'
    BY <1>1, <2>2, <2>4, <2>5 DEF Knows, Served, HoldsDryRun
  <2> QED
    BY <2>2, <2>3, <2>4, <2>6, ThreadMoves
<1>6. CASE SaveDryRun(t)
  <2>1. s \in past[p] /\ s \in Snapshots
    BY <1>1, <1>3, <1>6 DEF SaveDryRun, At, Knows, HoldsDryRun
  <2>2. /\ dry' = [dry EXCEPT ![p] = s] /\ appr' = [appr EXCEPT ![p] = None]
        /\ UNCHANGED <<shared, dry_runs, approvals, incidents, timeline, handed, past, granted>>
    BY <1>6 DEF SaveDryRun, caches, history
  <2>3. StoreOK'
    BY <1>1, <2>1, <2>2 DEF StoreOK, StoreIsHistory, HandedOutIsDurable
  <2>4. PICK r \in ThreadStates :
          thread' = [thread EXCEPT ![t] = r] /\ r.at = "log_dry" /\ r.p = p
    BY <1>6, GoesTo DEF SaveDryRun, Points
  <2>5. Knows(r)'
    BY <1>1, <2>4 DEF Knows, Served, HoldsDryRun
  <2> QED
    BY <2>2, <2>3, <2>4, <2>5, ThreadMoves
<1>7. CASE LogDryRun(t)
  <2>1. /\ timeline' = [timeline EXCEPT ![p] = @ \cup {"dry_run_validated"}]
        /\ UNCHANGED <<shared, dry_runs, approvals, incidents, dry, appr, handed, past, granted>>
        /\ thread' = [thread EXCEPT ![t] = Idle]
    BY <1>7 DEF LogDryRun, Finish, caches, history
  <2>2. StoreOK'
    BY <1>1, <2>1 DEF StoreOK, StoreIsHistory, HandedOutIsDurable
  <2> QED
    BY <2>1, <2>2, IdleIsFine, ThreadMoves
<1> QED
  BY <1>4, <1>5, <1>6, <1>7

(* get_dry_run: the dictionary first, then the table.                       *)
LEMMA GetDryRunKnows ==
  ASSUME IncidentInv, NEW t \in Threads,
         GetDryRun(t) \/ LoadDryRun(t) \/ FillDryRun(t)
  PROVE  IncidentInv'
<1> DEFINE p == P(t)
<1>1. /\ StoreOK /\ p \in Proposals /\ Service(t) \in Services
      /\ Knows(thread[t]) /\ thread[t] \in ThreadStates
  BY StoreIsOK, ThreadOf DEF GetDryRun, LoadDryRun, FillDryRun, At
<1>2. AfterDryRun(t) \in {"cache_approval", "get_approval"}
  BY DEF AfterDryRun
<1>3. CASE GetDryRun(t)
  <2> DEFINE cached == dry_runs[Service(t)][p]
             at == IF cached = None THEN "load_dry" ELSE AfterDryRun(t)
             r == [thread[t] EXCEPT !.dry = cached, !.at = at]
  <2>1. cached \in past[p] \cup {None} /\ cached \in Snapshots \cup {None}
    BY <1>1 DEF StoreOK, StoreIsHistory
  <2>2. r \in ThreadStates /\ r.at = at /\ r.p = p /\ r.dry = cached
    BY <1>1, <1>2, <2>1 DEF ThreadStates, Points, P
  <2>3. Knows(r)
    BY <1>1, <1>2, <2>1, <2>2 DEF Knows, Served, HoldsDryRun
  <2>4. thread' = [thread EXCEPT ![t] = r]
    BY <1>3 DEF GetDryRun
  <2> QED
    BY <1>3, <2>2, <2>3, <2>4, OnlyThreadMoves DEF GetDryRun
<1>4. CASE LoadDryRun(t)
  <2>1. UNCHANGED <<shared, caches, tables, handed, history>>
    BY <1>4 DEF LoadDryRun
  <2>2. CASE dry[p] = None
    BY <1>4, <2>1, <2>2, Finishes DEF LoadDryRun
  <2>3. CASE dry[p] # None
    <3> DEFINE r == [thread[t] EXCEPT !.dry = dry[p], !.at = "fill_dry"]
    <3>1. dry[p] \in past[p] /\ dry[p] \in Snapshots
      BY <1>1, <2>3 DEF StoreOK, StoreIsHistory
    <3>2. r \in ThreadStates /\ r.at = "fill_dry" /\ r.p = p /\ r.dry = dry[p]
      BY <1>1, <3>1 DEF ThreadStates, Points, P
    <3>3. Knows(r)
      BY <1>1, <3>1, <3>2 DEF Knows, Served, HoldsDryRun
    <3>4. thread' = [thread EXCEPT ![t] = r]
      BY <1>4, <2>3 DEF LoadDryRun
    <3> QED
      BY <2>1, <3>2, <3>3, <3>4, OnlyThreadMoves
  <2> QED
    BY <2>2, <2>3
<1>5. CASE FillDryRun(t)
  <2> DEFINE s == thread[t].dry
  <2>1. s \in past[p] /\ s \in Snapshots
    BY <1>1, <1>5 DEF FillDryRun, At, Knows, HoldsDryRun, StoreOK, P
  <2>2. dry_runs \in Dictionaries
    BY <1>1 DEF StoreOK, Dictionaries
  <2>3. /\ dry_runs' \in Dictionaries
        /\ \A z \in Services, q \in Proposals :
             dry_runs'[z][q] = IF z = Service(t) /\ q = p THEN s ELSE dry_runs[z][q]
    BY <1>1, <1>5, <2>1, <2>2 DEF FillDryRun, Dictionaries
  <2>4. UNCHANGED <<shared, incidents, handed, dry, appr, timeline, approvals, past, granted>>
    BY <1>5 DEF FillDryRun, tables, history
  <2>5. \A q \in Proposals, z \in Services :
          dry_runs'[z][q] \in past'[q] \cup {dry_runs[z][q], None}
    BY <2>1, <2>3, <2>4
  <2>6. StoreOK'
    <3>1. /\ approvals \in Dictionaries
          /\ past \in [Proposals -> SUBSET Snapshots]
          /\ granted \in [Proposals -> SUBSET Snapshots]
      BY <1>1 DEF StoreOK, Dictionaries
    <3> QED
      BY <1>1, <2>3, <2>4, <2>5, <3>1, StoreStays
  <2>7. PICK r \in ThreadStates :
          /\ thread' = [thread EXCEPT ![t] = r]
          /\ r.at = AfterDryRun(t) /\ r.p = p /\ r.dry = s
    BY <1>2, <1>5, GoesTo DEF FillDryRun, Points
  <2>8. Knows(r)'
    <3>1. r.at \in {"cache_approval", "get_approval"} /\ r.dry \in past'[r.p]
      BY <1>2, <2>1, <2>4, <2>7
    <3> QED
      BY <1>1, <2>7, <3>1 DEF Knows, Served, HoldsDryRun
  <2> QED
    BY <2>4, <2>6, <2>7, <2>8, ThreadMoves
<1> QED
  BY <1>3, <1>4, <1>5

(* An approval, from the snapshot of the dry run to the timeline.           *)
LEMMA ApproveKnows ==
  ASSUME IncidentInv, NEW t \in Threads,
         CacheApproval(t) \/ SaveApproval(t) \/ LogApproval(t)
  PROVE  IncidentInv'
<1> DEFINE p == P(t)
           s == thread[t].dry
<1>1. /\ StoreOK /\ p \in Proposals /\ Service(t) \in Services
      /\ Knows(thread[t]) /\ thread[t].p = p
  BY StoreIsOK, ThreadOf DEF CacheApproval, SaveApproval, LogApproval, At, P
<1>2. CASE CacheApproval(t)
  <2>1. s \in past[p] /\ s \in Snapshots
    BY <1>1, <1>2 DEF CacheApproval, At, Knows, HoldsDryRun, StoreOK
  <2>2. /\ dry_runs \in Dictionaries /\ approvals \in Dictionaries
        /\ past \in [Proposals -> SUBSET Snapshots]
        /\ granted \in [Proposals -> SUBSET Snapshots]
    BY <1>1 DEF StoreOK, Dictionaries
  <2>3. /\ granted' \in [Proposals -> SUBSET Snapshots]
        /\ s \in granted'[p]
        /\ \A q \in Proposals : granted[q] \subseteq granted'[q]
    BY <1>1, <1>2, <2>1, <2>2, HistoryGrows DEF CacheApproval
  <2>4. /\ approvals' \in Dictionaries
        /\ \A z \in Services, q \in Proposals :
             approvals'[z][q] = IF z = Service(t) /\ q = p THEN s ELSE approvals[z][q]
    BY <1>1, <1>2, <2>1, <2>2 DEF CacheApproval, Dictionaries
  <2>5. UNCHANGED <<shared, incidents, handed, dry, appr, timeline, dry_runs, past>>
    BY <1>2 DEF CacheApproval, tables
  <2>6. \A q \in Proposals, z \in Services :
          approvals'[z][q] \in granted'[q] \cup {approvals[z][q], None}
    BY <2>3, <2>4
  <2>7. StoreOK'
    BY <1>1, <2>2, <2>3, <2>4, <2>5, <2>6, StoreStays
  <2>8. PICK r \in ThreadStates :
          /\ thread' = [thread EXCEPT ![t] = r]
          /\ r.at = "save_approval" /\ r.p = p /\ r.dry = s
    BY <1>2, GoesTo DEF CacheApproval, Points
  <2>9. Knows(r)'
    BY <1>1, <2>1, <2>3, <2>5, <2>8 DEF Knows, Served, HoldsDryRun
  <2> QED
    BY <2>3, <2>5, <2>7, <2>8, <2>9, ThreadMoves
<1>3. CASE SaveApproval(t)
  <2>1. s \in granted[p] /\ s \in Snapshots
    BY <1>1, <1>3 DEF SaveApproval, At, Knows, StoreOK
  <2>2. /\ appr' = [appr EXCEPT ![p] = s]
        /\ UNCHANGED <<shared, dry_runs, approvals, incidents, dry, timeline, handed, past, granted>>
    BY <1>3 DEF SaveApproval, caches, history
  <2>3. StoreOK'
    BY <1>1, <2>1, <2>2 DEF StoreOK, StoreIsHistory, HandedOutIsDurable
  <2>4. PICK r \in ThreadStates :
          thread' = [thread EXCEPT ![t] = r] /\ r.at = "log_approval" /\ r.p = p
    BY <1>3, GoesTo DEF SaveApproval, Points
  <2>5. Knows(r)'
    BY <1>1, <2>4 DEF Knows, Served, HoldsDryRun
  <2> QED
    BY <2>2, <2>3, <2>4, <2>5, ThreadMoves
<1>4. CASE LogApproval(t)
  <2>1. /\ timeline' = [timeline EXCEPT ![p] = @ \cup {"approved"}]
        /\ UNCHANGED <<shared, dry_runs, approvals, incidents, dry, appr, handed, past, granted>>
        /\ thread' = [thread EXCEPT ![t] = Idle]
    BY <1>4 DEF LogApproval, Finish, caches, history
  <2>2. StoreOK'
    BY <1>1, <2>1 DEF StoreOK, StoreIsHistory, HandedOutIsDurable
  <2> QED
    BY <2>1, <2>2, IdleIsFine, ThreadMoves
<1> QED
  BY <1>2, <1>3, <1>4

(* get_approval: the dictionary first, then the table.                      *)
LEMMA GetApprovalKnows ==
  ASSUME IncidentInv, NEW t \in Threads,
         GetApproval(t) \/ LoadApproval(t) \/ FillApproval(t)
  PROVE  IncidentInv'
<1> DEFINE p == P(t)
<1>1. /\ StoreOK /\ p \in Proposals /\ Service(t) \in Services
      /\ Knows(thread[t]) /\ thread[t] \in ThreadStates /\ thread[t].p = p
  BY StoreIsOK, ThreadOf DEF GetApproval, LoadApproval, FillApproval, At, P
<1>2. thread[t].dry \in past[p]
  BY <1>1 DEF GetApproval, LoadApproval, FillApproval, At, Knows, HoldsDryRun
<1>3. CASE GetApproval(t)
  <2> DEFINE cached == approvals[Service(t)][p]
  <2>1. cached \in granted[p] \cup {None} /\ cached \in Snapshots \cup {None}
    BY <1>1 DEF StoreOK, StoreIsHistory
  <2>2. CASE cached = None
    <3>1. PICK r \in ThreadStates :
            /\ thread' = [thread EXCEPT ![t] = r]
            /\ r.at = "load_approval" /\ r.p = p /\ r.dry = thread[t].dry
      BY <1>3, <2>2, GoesTo DEF GetApproval, Points
    <3>2. Knows(r)
      BY <1>1, <1>2, <3>1 DEF Knows, Served, HoldsDryRun
    <3> QED
      BY <1>3, <3>1, <3>2, OnlyThreadMoves DEF GetApproval
  <2>3. CASE cached # None
    <3> DEFINE r == [thread[t] EXCEPT !.appr = cached, !.at = "idle"]
    <3>1. /\ r \in ThreadStates /\ r.at = "idle" /\ r.p = p
          /\ r.dry = thread[t].dry /\ r.appr = cached
      BY <1>1, <2>1 DEF ThreadStates, Points
    <3>2. Knows(r)
      BY <1>1, <1>2, <2>1, <2>3, <3>1 DEF Knows, Served, HoldsDryRun
    <3>3. thread' = [thread EXCEPT ![t] = r]
      BY <1>3, <2>3 DEF GetApproval, Evidenced
    <3> QED
      BY <1>3, <3>1, <3>2, <3>3, OnlyThreadMoves DEF GetApproval
  <2> QED
    BY <2>2, <2>3
<1>4. CASE LoadApproval(t)
  <2>1. UNCHANGED <<shared, caches, tables, handed, history>>
    BY <1>4 DEF LoadApproval
  <2>2. CASE appr[p] = None
    BY <1>4, <2>1, <2>2, Finishes DEF LoadApproval
  <2>3. CASE appr[p] # None
    <3> DEFINE r == [thread[t] EXCEPT !.appr = appr[p], !.at = "fill_approval"]
    <3>1. appr[p] \in granted[p] /\ appr[p] \in Snapshots
      BY <1>1, <2>3 DEF StoreOK, StoreIsHistory
    <3>2. /\ r \in ThreadStates /\ r.at = "fill_approval" /\ r.p = p
          /\ r.dry = thread[t].dry /\ r.appr = appr[p]
      BY <1>1, <3>1 DEF ThreadStates, Points
    <3>3. Knows(r)
      BY <1>1, <1>2, <3>1, <3>2 DEF Knows, Served, HoldsDryRun
    <3>4. thread' = [thread EXCEPT ![t] = r]
      BY <1>4, <2>3 DEF LoadApproval
    <3> QED
      BY <2>1, <3>2, <3>3, <3>4, OnlyThreadMoves
  <2> QED
    BY <2>2, <2>3
<1>5. CASE FillApproval(t)
  <2> DEFINE s == thread[t].appr
  <2>1. s \in granted[p] /\ s \in Snapshots
    BY <1>1, <1>5 DEF FillApproval, At, Knows, StoreOK
  <2>2. /\ dry_runs \in Dictionaries /\ approvals \in Dictionaries
        /\ past \in [Proposals -> SUBSET Snapshots]
        /\ granted \in [Proposals -> SUBSET Snapshots]
    BY <1>1 DEF StoreOK, Dictionaries
  <2>3. /\ approvals' \in Dictionaries
        /\ \A z \in Services, q \in Proposals :
             approvals'[z][q] = IF z = Service(t) /\ q = p THEN s ELSE approvals[z][q]
    BY <1>1, <1>5, <2>1, <2>2 DEF FillApproval, Dictionaries
  <2>4. UNCHANGED <<shared, incidents, handed, dry, appr, timeline, dry_runs, past, granted>>
    BY <1>5 DEF FillApproval, tables, history
  <2>5. \A q \in Proposals, z \in Services :
          approvals'[z][q] \in granted'[q] \cup {approvals[z][q], None}
    BY <2>1, <2>3, <2>4
  <2>6. StoreOK'
    BY <1>1, <2>2, <2>3, <2>4, <2>5, StoreStays
  <2> DEFINE r == [thread[t] EXCEPT !.appr = s, !.at = "idle"]
  <2>7. /\ r \in ThreadStates /\ r.at = "idle" /\ r.p = p
        /\ r.dry = thread[t].dry /\ r.appr = s
    BY <1>1, <2>1 DEF ThreadStates, Points
  <2>8. PICK e \in ThreadStates : e = r
    BY <2>7
  <2>9. Knows(e)'
    BY <1>1, <1>2, <2>1, <2>4, <2>7, <2>8 DEF Knows, Served, HoldsDryRun
  <2>10. thread' = [thread EXCEPT ![t] = e]
    BY <1>5, <2>8 DEF FillApproval, Evidenced
  <2> QED
    BY <2>4, <2>6, <2>9, <2>10, ThreadMoves
<1> QED
  BY <1>3, <1>4, <1>5

(* A restart empties the dictionaries and ends every request.               *)
LEMMA RestartKnows ==
  ASSUME IncidentInv, Restart
  PROVE  IncidentInv'
<1>1. UNCHANGED <<incidents, dry, appr, timeline, handed, past, granted>>
  BY DEF Restart, tables, history
<1>2. /\ dry_runs' \in [Services -> [Proposals -> Snapshots \cup {None}]]
      /\ approvals' \in [Services -> [Proposals -> Snapshots \cup {None}]]
      /\ \A s \in Services, p \in Proposals :
           dry_runs'[s][p] = None /\ approvals'[s][p] = None
  BY DEF Restart, EmptyCache
<1>3. thread' = [t \in Threads |-> Idle] /\ shared' \in BOOLEAN
  BY DEF Restart
<1>4. TypeOK'
  BY <1>1, <1>2, <1>3, IdleIsFine DEF IncidentInv, TypeOK
<1>5. StoreIsHistory' /\ HandedOutIsDurable'
  BY <1>1, <1>2 DEF IncidentInv, StoreIsHistory, HandedOutIsDurable
<1>6. ThreadsKnow'
  BY <1>3, IdleIsFine DEF ThreadsKnow
<1> QED
  BY <1>4, <1>5, <1>6 DEF IncidentInv

LEMMA InitKnows == Init => IncidentInv
<1> SUFFICES ASSUME Init
             PROVE  IncidentInv
  OBVIOUS
<1>1. TypeOK
  BY IdleIsFine DEF Init, EmptyCache, TypeOK
<1>2. StoreIsHistory /\ HandedOutIsDurable
  BY DEF Init, EmptyCache, StoreIsHistory, HandedOutIsDurable
<1>3. ThreadsKnow
  BY IdleIsFine DEF Init, ThreadsKnow
<1> QED
  BY <1>1, <1>2, <1>3 DEF IncidentInv

LEMMA NextKnows == IncidentInv /\ [Next]_vars => IncidentInv'
<1> SUFFICES ASSUME IncidentInv, [Next]_vars
             PROVE  IncidentInv'
  OBVIOUS
<1>1. ASSUME NEW t \in Threads, Step(t)
      PROVE  IncidentInv'
  <2>1. CASE SqliteFails(t)
    BY <2>1, Finishes DEF SqliteFails
  <2> QED
    BY <1>1, <2>1, IncidentKnows, DryRunKnows, GetDryRunKnows, ApproveKnows,
       GetApprovalKnows DEF Step
<1>2. CASE UNCHANGED vars
  BY <1>2 DEF vars, caches, tables, history, IncidentInv, TypeOK, ThreadsKnow, Knows,
              Served, StoreIsHistory, HandedOutIsDurable
<1> QED
  BY <1>1, <1>2, RequestKnows, RestartKnows DEF Next

-----------------------------------------------------------------------------
(* In every interleaving a request works with what was stored, dry-run or   *)
(* approved by somebody, as do the tables (incidents.py:92-187).            *)
THEOREM IncidentInvariant == Spec => []IncidentInv
  BY InitKnows, NextKnows, PTL DEF Spec

(* What a request works with has the form its tables and its answers need,  *)
(* in every interleaving (incidents.py:92-187).                             *)
THEOREM IncidentTypeCorrect == Spec => []TypeOK
<1>1. IncidentInv => TypeOK
  BY DEF IncidentInv
<1> QED
  BY <1>1, IncidentInvariant, PTL

(* A proposal whose id a client holds is in SQLite (incidents.py:92-106).   *)
THEOREM HandedOutHolds == Spec => []HandedOutIsDurable
<1>1. IncidentInv => HandedOutIsDurable
  BY DEF IncidentInv
<1> QED
  BY <1>1, IncidentInvariant, PTL

(* With requests that overlap, a remediation is shown only snapshots that   *)
(* were dry-run, and only approvals that somebody gave                      *)
(* (incidents.py:127-145).                                                  *)
THEOREM ReadsAreAllowedHolds ==
  ASSUME RacyEvidence
  PROVE  Spec => []ReadsAreAllowed
<1>1. IncidentInv => ReadsAreAllowed
  BY DEF IncidentInv, ThreadsKnow, Knows, Served, ReadsAreAllowed, At, Op, P,
         Promise!DryRunSeen, Promise!ApprovalSeen
<1> QED
  BY <1>1, IncidentInvariant, PTL

(* What a step means for the evidence: a snapshot is dry-run or approved    *)
(* when it enters a dictionary, and saved, perhaps late, when it enters a   *)
(* table.                                                                   *)
LEMMA StepIsEvidence ==
  ASSUME RacyEvidence, IncidentInv, Next
  PROVE  [Promise!EvidenceNext]_(Promise!evidenceVars)
<1> USE DEF Promise!evidenceVars
<1>1. ASSUME NEW t \in Threads, thread[t].at # "idle"
      PROVE  /\ P(t) \in Proposals /\ Knows(thread[t]) /\ thread[t].p = P(t)
             /\ past[P(t)] \subseteq Snapshots
  BY <1>1, ThreadOf, StoreIsOK DEF StoreOK, P
<1>2. ASSUME NEW t \in Threads, CacheDryRun(t)
      PROVE  Promise!EvidenceNext
  <2>1. Promise!DryRunMade(P(t), thread[t].dry)
    BY <1>2 DEF CacheDryRun, tables, Promise!DryRunMade
  <2>2. P(t) \in Proposals /\ thread[t].dry \in Snapshots
    BY <1>1, <1>2 DEF CacheDryRun, At, Knows
  <2> QED
    BY <2>1, <2>2 DEF Promise!EvidenceNext, Promise!EvidenceStep
<1>3. ASSUME NEW t \in Threads, SaveDryRun(t)
      PROVE  Promise!EvidenceNext
  <2>1. P(t) \in Proposals /\ thread[t].dry \in past[P(t)]
    BY <1>1, <1>3 DEF SaveDryRun, At, Knows, HoldsDryRun
  <2>2. Promise!DryRunSavedLate(P(t))
    BY <1>3, <2>1 DEF SaveDryRun, history, Promise!DryRunSavedLate
  <2> QED
    BY <2>1, <2>2 DEF Promise!EvidenceNext, Promise!EvidenceStep
<1>4. ASSUME NEW t \in Threads, CacheApproval(t)
      PROVE  Promise!EvidenceNext
  <2>1. P(t) \in Proposals /\ thread[t].dry \in past[P(t)]
    BY <1>1, <1>4 DEF CacheApproval, At, Knows, HoldsDryRun
  <2>2. Promise!ApprovalMade(P(t))
    BY <1>4, <2>1 DEF CacheApproval, tables, Promise!ApprovalMade
  <2> QED
    BY <2>1, <2>2 DEF Promise!EvidenceNext, Promise!EvidenceStep
<1>5. ASSUME NEW t \in Threads, SaveApproval(t)
      PROVE  Promise!EvidenceNext
  <2>1. P(t) \in Proposals /\ thread[t].dry \in granted[P(t)]
    BY <1>1, <1>5 DEF SaveApproval, At, Knows
  <2>2. Promise!ApprovalSavedLate(P(t))
    BY <1>5, <2>1 DEF SaveApproval, history, Promise!ApprovalSavedLate
  <2> QED
    BY <2>1, <2>2 DEF Promise!EvidenceNext, Promise!EvidenceStep
<1>6. ASSUME NEW t \in Threads,
             \/ Request(t) \/ SaveIncident(t) \/ LogDiagnosed(t) \/ PopApproval(t)
             \/ LogDryRun(t) \/ GetDryRun(t) \/ LoadDryRun(t) \/ FillDryRun(t)
             \/ LogApproval(t) \/ GetApproval(t) \/ LoadApproval(t) \/ FillApproval(t)
             \/ SqliteFails(t)
      PROVE  UNCHANGED Promise!evidenceVars
  BY <1>6 DEF Request, Analyze, StartDryRun, StartApprove, StartApply, SaveIncident,
              LogDiagnosed, PopApproval, LogDryRun, GetDryRun, LoadDryRun, FillDryRun,
              LogApproval, GetApproval, LoadApproval, FillApproval, SqliteFails,
              tables, history
<1>7. ASSUME Restart
      PROVE  UNCHANGED Promise!evidenceVars
  BY <1>7 DEF Restart, tables, history
<1> QED
  BY <1>2, <1>3, <1>4, <1>5, <1>6, <1>7 DEF Next, Step

(* Whatever overlaps, fails or restarts, dry runs and approvals change as   *)
(* Evidence allows, on which module Remediation is built                    *)
(* (incidents.py:127-187).                                                  *)
THEOREM EvidenceImplemented ==
  ASSUME RacyEvidence
  PROVE  Spec => ImplementsEvidence
<1>1. Init => Promise!EvidenceInit
  BY DEF Init, Promise!EvidenceInit
<1>2. IncidentInv /\ [Next]_vars => [Promise!EvidenceNext]_(Promise!evidenceVars)
  BY StepIsEvidence DEF vars, tables, history, Promise!evidenceVars
<1> QED
  BY <1>1, <1>2, IncidentInvariant, PTL DEF Spec, ImplementsEvidence, Promise!EvidenceSpec

-----------------------------------------------------------------------------
(* Requests that come one at a time.                                        *)
(*                                                                          *)
(* The argument.  With one thread, one service and a SQLite that does not   *)
(* raise, a dictionary differs from its table only while the thread is on   *)
(* its way from the one to the other, and then the entry is what the thread *)
(* will save.  So at every other place an entry is what the table has, and  *)
(* what the thread has read is still what the table has.                    *)

HoldsLast == {"fill_dry", "cache_approval", "save_approval", "get_approval",
              "load_approval", "fill_approval"}

(* What holds when the one thread is in state r.                            *)
Agrees(r) ==
  /\ \A q \in Proposals :
       /\ \/ dry_runs["routes"][q] \in {None, dry[q]}
          \/ r.at \in {"pop_approval", "save_dry"} /\ q = r.p
       /\ \/ approvals["routes"][q] \in {None, appr[q]}
          \/ r.at = "save_approval" /\ q = r.p
       /\ appr[q] \in {None, dry[q]}
       /\ dry_runs["remediation"][q] = None
       /\ approvals["remediation"][q] = None
  /\ r.at \in {"pop_approval", "save_dry"} => dry_runs["routes"][r.p] = r.dry
  /\ r.at = "save_dry" => approvals["routes"][r.p] = None
  /\ r.at = "save_approval" => approvals["routes"][r.p] = r.dry
  /\ r.at \in HoldsLast \/ Served(r) => r.dry = dry[r.p]
  /\ r.at = "fill_approval" \/ Served(r) => r.appr = appr[r.p]

SerialInv == shared = TRUE /\ \A t \in Threads : Agrees(thread[t])

LEMMA SerialMoves ==
  ASSUME IncidentInv, NEW t, Threads = {t}, NEW r,
         thread' = [thread EXCEPT ![t] = r], shared' = TRUE, Agrees(r)'
  PROVE  SerialInv'
<1>1. thread'[t] = r
  BY DEF IncidentInv, TypeOK
<1>2. Agrees(thread[t])'
  BY <1>1 DEF Agrees, Served
<1> QED
  BY <1>2 DEF SerialInv

(* A thread that writes no dictionary and no table, and is not between two. *)
LEMMA SerialReads ==
  ASSUME IncidentInv, SerialInv, NEW t, Threads = {t}, NEW r,
         thread' = [thread EXCEPT ![t] = r],
         UNCHANGED <<shared, dry_runs, approvals, dry, appr>>,
         thread[t].at \notin {"pop_approval", "save_dry", "save_approval"},
         r.at \notin {"pop_approval", "save_dry", "save_approval"},
         r.at \in HoldsLast \/ Served(r) => r.dry = dry[r.p],
         r.at = "fill_approval" \/ Served(r) => r.appr = appr[r.p]
  PROVE  SerialInv'
<1>1. Agrees(thread[t])
  BY DEF SerialInv
<1>2. Agrees(r)'
  BY <1>1 DEF Agrees, Served
<1> QED
  BY <1>2, SerialMoves DEF SerialInv

(* Requests that start, incidents and events.                               *)
LEMMA RequestAgrees ==
  ASSUME IncidentInv, SerialInv, NEW t, Threads = {t},
         \/ Request(t) \/ SaveIncident(t) \/ LogDiagnosed(t)
         \/ LogDryRun(t) \/ LogApproval(t)
  PROVE  SerialInv'
<1>0. t \in Threads
  OBVIOUS
<1>1. UNCHANGED <<shared, dry_runs, approvals, dry, appr>>
  BY DEF Request, Analyze, StartDryRun, StartApprove, StartApply, SaveIncident,
         LogDiagnosed, LogDryRun, LogApproval, caches, tables
<1>2. thread[t].at \in {"idle", "save_incident", "log_diagnosed", "log_dry", "log_approval"}
  BY DEF Request, Analyze, StartDryRun, StartApprove, StartApply, Start, SaveIncident,
         LogDiagnosed, LogDryRun, LogApproval, At
<1>3. \E r : /\ thread' = [thread EXCEPT ![t] = r]
             /\ r.at \in {"save_incident", "cache_dry", "get_dry", "log_diagnosed"} \/ r = Idle
  <2>1. CASE Request(t)
    <3>1. PICK p \in Proposals : \/ Analyze(t, p)
                                 \/ \E s \in Snapshots : StartDryRun(t, p, s)
                                 \/ StartApprove(t, p) \/ StartApply(t, p)
      BY <2>1 DEF Request
    <3>2. CASE Analyze(t, p)
      <4> DEFINE r == [Idle EXCEPT !.op = "analyze", !.p = p, !.at = "save_incident"]
      <4>1. thread' = [thread EXCEPT ![t] = r] /\ r.at = "save_incident"
        BY <3>2 DEF Analyze, Idle
      <4> QED
        BY <4>1
    <3>3. CASE \E s \in Snapshots : StartDryRun(t, p, s)
      <4>1. PICK s \in Snapshots : StartDryRun(t, p, s)
        BY <3>3
      <4> DEFINE r == [at |-> "cache_dry", op |-> "dry_run", p |-> p, dry |-> s,
                       appr |-> None]
      <4>2. thread' = [thread EXCEPT ![t] = r] /\ r.at = "cache_dry"
        BY <4>1 DEF StartDryRun
      <4> QED
        BY <4>2
    <3>4. CASE StartApprove(t, p) \/ StartApply(t, p)
      <4>1. PICK op : thread' = [thread EXCEPT ![t] =
                                   [Idle EXCEPT !.op = op, !.p = p, !.at = "get_dry"]]
        BY <3>4 DEF StartApprove, StartApply, Start
      <4> DEFINE r == [Idle EXCEPT !.op = op, !.p = p, !.at = "get_dry"]
      <4>2. thread' = [thread EXCEPT ![t] = r] /\ r.at = "get_dry"
        BY <4>1 DEF Idle
      <4> QED
        BY <4>2
    <3> QED
      BY <3>1, <3>2, <3>3, <3>4
  <2>2. CASE SaveIncident(t)
    BY <1>0, <2>2, GoesTo DEF SaveIncident, Points
  <2>3. CASE LogDiagnosed(t) \/ LogDryRun(t) \/ LogApproval(t)
    BY <2>3 DEF LogDiagnosed, LogDryRun, LogApproval, Finish
  <2> QED
    BY <2>1, <2>2, <2>3
<1>4. PICK r : /\ thread' = [thread EXCEPT ![t] = r]
               /\ r.at \in {"save_incident", "cache_dry", "get_dry", "log_diagnosed"} \/ r = Idle
  BY <1>3
<1>5. r.at \notin HoldsLast \cup {"pop_approval", "save_dry"} /\ ~Served(r)
  BY <1>4, IncidentAssumption DEF Served, HoldsLast, Idle, Requests
<1> QED
  BY <1>1, <1>2, <1>4, <1>5, SerialReads DEF HoldsLast

LEMMA OneService ==
  ASSUME IncidentInv, SerialInv, NEW t, Threads = {t}, thread[t].at # "idle"
  PROVE  /\ t \in Threads /\ Service(t) = "routes" /\ shared = TRUE
         /\ P(t) \in Proposals /\ thread[t].p = P(t)
         /\ thread[t] \in ThreadStates /\ Knows(thread[t]) /\ Agrees(thread[t])
         /\ dry_runs \in Dictionaries /\ approvals \in Dictionaries
         /\ dry \in [Proposals -> Snapshots \cup {None}]
         /\ appr \in [Proposals -> Snapshots \cup {None}]
         /\ past \in [Proposals -> SUBSET Snapshots]
         /\ granted \in [Proposals -> SUBSET Snapshots]
  BY ThreadOf DEF SerialInv, Service, P, IncidentInv, TypeOK, Dictionaries

LEMMA DryRunAgrees ==
  ASSUME IncidentInv, SerialInv, NEW t, Threads = {t},
         CacheDryRun(t) \/ PopApproval(t) \/ SaveDryRun(t)
  PROVE  SerialInv'
<1> DEFINE p == P(t)
           s == thread[t].dry
<1>0. thread[t].at # "idle"
  BY DEF CacheDryRun, PopApproval, SaveDryRun, At
<1>1. /\ t \in Threads /\ Service(t) = "routes" /\ shared = TRUE /\ p \in Proposals
      /\ thread[t].p = p /\ Knows(thread[t]) /\ Agrees(thread[t])
  BY <1>0, OneService
<1>2. /\ dry_runs \in Dictionaries /\ approvals \in Dictionaries
      /\ dry \in [Proposals -> Snapshots \cup {None}]
      /\ appr \in [Proposals -> Snapshots \cup {None}]
  BY <1>0, OneService
<1>3. CASE CacheDryRun(t)
  <2>1. PICK r \in ThreadStates :
          /\ thread' = [thread EXCEPT ![t] = r]
          /\ r.at = "pop_approval" /\ r.p = p /\ r.dry = s
    BY <1>1, <1>3, GoesTo DEF CacheDryRun, Points
  <2>2. \A z \in Services, q \in Proposals :
          dry_runs'[z][q] = IF z = "routes" /\ q = p THEN s ELSE dry_runs[z][q]
    BY <1>1, <1>2, <1>3 DEF CacheDryRun, Dictionaries
  <2>3. UNCHANGED <<shared, approvals, dry, appr>> /\ thread[t].at = "cache_dry"
    BY <1>3 DEF CacheDryRun, tables, At
  <2>4. Agrees(r)'
    BY <1>1, <2>1, <2>2, <2>3 DEF Agrees, Served, HoldsLast, Services
  <2> QED
    BY <1>1, <2>1, <2>3, <2>4, SerialMoves
<1>4. CASE PopApproval(t)
  <2>1. PICK r \in ThreadStates :
          /\ thread' = [thread EXCEPT ![t] = r]
          /\ r.at = "save_dry" /\ r.p = p /\ r.dry = s
    BY <1>1, <1>4, GoesTo DEF PopApproval, Points
  <2>2. \A z \in Services, q \in Proposals :
          approvals'[z][q] = IF z = "routes" /\ q = p THEN None ELSE approvals[z][q]
    BY <1>1, <1>2, <1>4 DEF PopApproval, Dictionaries
  <2>3. UNCHANGED <<shared, dry_runs, dry, appr>> /\ thread[t].at = "pop_approval"
    BY <1>4 DEF PopApproval, tables, At
  <2>4. Agrees(r)'
    BY <1>1, <2>1, <2>2, <2>3 DEF Agrees, Served, HoldsLast, Services
  <2> QED
    BY <1>1, <2>1, <2>3, <2>4, SerialMoves
<1>5. CASE SaveDryRun(t)
  <2>1. PICK r \in ThreadStates :
          /\ thread' = [thread EXCEPT ![t] = r]
          /\ r.at = "log_dry" /\ r.p = p /\ r.dry = s
    BY <1>1, <1>5, GoesTo DEF SaveDryRun, Points
  <2>2. \A q \in Proposals : /\ dry'[q] = IF q = p THEN s ELSE dry[q]
                             /\ appr'[q] = IF q = p THEN None ELSE appr[q]
    BY <1>1, <1>2, <1>5 DEF SaveDryRun
  <2>3. UNCHANGED <<shared, dry_runs, approvals>> /\ thread[t].at = "save_dry"
    BY <1>5 DEF SaveDryRun, caches, At
  <2>4. Agrees(r)'
    BY <1>1, <2>1, <2>2, <2>3 DEF Agrees, Served, HoldsLast, Services
  <2> QED
    BY <1>1, <2>1, <2>3, <2>4, SerialMoves
<1> QED
  BY <1>3, <1>4, <1>5

LEMMA GetDryRunAgrees ==
  ASSUME IncidentInv, SerialInv, NEW t, Threads = {t},
         GetDryRun(t) \/ LoadDryRun(t) \/ FillDryRun(t)
  PROVE  SerialInv'
<1> DEFINE p == P(t)
           s == thread[t].dry
<1>0. thread[t].at # "idle"
  BY DEF GetDryRun, LoadDryRun, FillDryRun, At
<1>1. /\ t \in Threads /\ Service(t) = "routes" /\ shared = TRUE /\ p \in Proposals
      /\ thread[t].p = p /\ thread[t] \in ThreadStates /\ Agrees(thread[t])
      /\ dry_runs \in Dictionaries
  BY <1>0, OneService
<1>2. AfterDryRun(t) \in {"cache_approval", "get_approval"}
  BY DEF AfterDryRun
<1>3. CASE GetDryRun(t)
  <2> DEFINE cached == dry_runs["routes"][p]
             at == IF cached = None THEN "load_dry" ELSE AfterDryRun(t)
             r == [thread[t] EXCEPT !.dry = cached, !.at = at]
  <2>1. thread' = [thread EXCEPT ![t] = r] /\ thread[t].at = "get_dry"
    BY <1>1, <1>3 DEF GetDryRun, At
  <2>2. r.at = at /\ r.p = p /\ r.dry = cached
    BY <1>1 DEF ThreadStates
  <2>3. cached # None => cached = dry[p]
    BY <1>1, <2>1 DEF Agrees
  <2>4. UNCHANGED <<shared, dry_runs, approvals, dry, appr>>
    BY <1>3 DEF GetDryRun, caches, tables
  <2>5. /\ r.at \in HoldsLast \/ Served(r) => r.dry = dry[r.p]
        /\ r.at \notin {"pop_approval", "save_dry", "save_approval", "fill_approval"}
        /\ ~Served(r)
    BY <1>2, <2>2, <2>3 DEF HoldsLast, Served
  <2> QED
    BY <2>1, <2>4, <2>5, SerialReads
<1>4. CASE LoadDryRun(t)
  <2>1. UNCHANGED <<shared, dry_runs, approvals, dry, appr>> /\ thread[t].at = "load_dry"
    BY <1>4 DEF LoadDryRun, caches, tables, At
  <2>2. CASE dry[p] = None
    <3>1. thread' = [thread EXCEPT ![t] = Idle]
      BY <1>4, <2>2 DEF LoadDryRun, Finish
    <3>2. Idle.at = "idle" /\ ~Served(Idle)
      BY IncidentAssumption DEF Idle, Served, Requests
    <3> QED
      BY <2>1, <3>1, <3>2, SerialReads DEF HoldsLast
  <2>3. CASE dry[p] # None
    <3> DEFINE r == [thread[t] EXCEPT !.dry = dry[p], !.at = "fill_dry"]
    <3>1. thread' = [thread EXCEPT ![t] = r]
      BY <1>4, <2>3 DEF LoadDryRun
    <3>2. r.at = "fill_dry" /\ r.p = p /\ r.dry = dry[p]
      BY <1>1 DEF ThreadStates
    <3> QED
      BY <2>1, <3>1, <3>2, SerialReads DEF HoldsLast, Served
  <2> QED
    BY <2>2, <2>3
<1>5. CASE FillDryRun(t)
  <2>1. PICK r \in ThreadStates :
          /\ thread' = [thread EXCEPT ![t] = r]
          /\ r.at = AfterDryRun(t) /\ r.p = p /\ r.dry = s
    BY <1>1, <1>2, <1>5, GoesTo DEF FillDryRun, Points
  <2>2. thread[t].at = "fill_dry" /\ s = dry[p]
    BY <1>1, <1>5 DEF FillDryRun, At, Agrees, HoldsLast
  <2>3. \A z \in Services, q \in Proposals :
          dry_runs'[z][q] = IF z = "routes" /\ q = p THEN s ELSE dry_runs[z][q]
    BY <1>1, <1>5 DEF FillDryRun, Dictionaries
  <2>4. UNCHANGED <<shared, approvals, dry, appr>>
    BY <1>5 DEF FillDryRun, tables
  <2>5. Agrees(r)'
    BY <1>1, <1>2, <2>1, <2>2, <2>3, <2>4 DEF Agrees, Served, HoldsLast, Services
  <2> QED
    BY <1>1, <2>1, <2>4, <2>5, SerialMoves
<1> QED
  BY <1>3, <1>4, <1>5

LEMMA ApproveAgrees ==
  ASSUME IncidentInv, SerialInv, NEW t, Threads = {t},
         CacheApproval(t) \/ SaveApproval(t)
  PROVE  SerialInv'
<1> DEFINE p == P(t)
           s == thread[t].dry
<1>0. thread[t].at # "idle"
  BY DEF CacheApproval, SaveApproval, At
<1>1. /\ t \in Threads /\ Service(t) = "routes" /\ shared = TRUE /\ p \in Proposals
      /\ thread[t].p = p /\ Agrees(thread[t])
      /\ approvals \in Dictionaries /\ appr \in [Proposals -> Snapshots \cup {None}]
  BY <1>0, OneService
<1>2. s = dry[p]
  BY <1>1 DEF CacheApproval, SaveApproval, At, Agrees, HoldsLast
<1>3. CASE CacheApproval(t)
  <2>1. PICK r \in ThreadStates :
          /\ thread' = [thread EXCEPT ![t] = r]
          /\ r.at = "save_approval" /\ r.p = p /\ r.dry = s
    BY <1>1, <1>3, GoesTo DEF CacheApproval, Points
  <2>2. \A z \in Services, q \in Proposals :
          approvals'[z][q] = IF z = "routes" /\ q = p THEN s ELSE approvals[z][q]
    BY <1>1, <1>3 DEF CacheApproval, Dictionaries
  <2>3. UNCHANGED <<shared, dry_runs, dry, appr>> /\ thread[t].at = "cache_approval"
    BY <1>3 DEF CacheApproval, tables, At
  <2>4. Agrees(r)'
    BY <1>1, <1>2, <2>1, <2>2, <2>3 DEF Agrees, Served, HoldsLast, Services
  <2> QED
    BY <1>1, <2>1, <2>3, <2>4, SerialMoves
<1>4. CASE SaveApproval(t)
  <2>1. PICK r \in ThreadStates :
          /\ thread' = [thread EXCEPT ![t] = r]
          /\ r.at = "log_approval" /\ r.p = p /\ r.dry = s
    BY <1>1, <1>4, GoesTo DEF SaveApproval, Points
  <2>2. \A q \in Proposals : appr'[q] = IF q = p THEN s ELSE appr[q]
    BY <1>1, <1>4 DEF SaveApproval
  <2>3. UNCHANGED <<shared, dry_runs, approvals, dry>> /\ thread[t].at = "save_approval"
    BY <1>4 DEF SaveApproval, caches, At
  <2>4. Agrees(r)'
    BY <1>1, <1>2, <2>1, <2>2, <2>3 DEF Agrees, Served, HoldsLast, Services
  <2> QED
    BY <1>1, <2>1, <2>3, <2>4, SerialMoves
<1> QED
  BY <1>3, <1>4

LEMMA GetApprovalAgrees ==
  ASSUME IncidentInv, SerialInv, NEW t, Threads = {t},
         GetApproval(t) \/ LoadApproval(t) \/ FillApproval(t)
  PROVE  SerialInv'
<1> DEFINE p == P(t)
<1>0. thread[t].at # "idle"
  BY DEF GetApproval, LoadApproval, FillApproval, At
<1>1. /\ t \in Threads /\ Service(t) = "routes" /\ shared = TRUE /\ p \in Proposals
      /\ thread[t].p = p /\ thread[t] \in ThreadStates /\ Agrees(thread[t])
      /\ approvals \in Dictionaries
  BY <1>0, OneService
<1>2. thread[t].dry = dry[p]
  BY <1>1 DEF GetApproval, LoadApproval, FillApproval, At, Agrees, HoldsLast
<1>3. CASE GetApproval(t)
  <2> DEFINE cached == approvals["routes"][p]
  <2>1. thread[t].at = "get_approval" /\ UNCHANGED <<shared, dry_runs, approvals, dry, appr>>
    BY <1>3 DEF GetApproval, At, caches, tables
  <2>2. CASE cached = None
    <3>1. PICK r \in ThreadStates :
            /\ thread' = [thread EXCEPT ![t] = r]
            /\ r.at = "load_approval" /\ r.p = p /\ r.dry = thread[t].dry
      BY <1>1, <1>3, <2>2, GoesTo DEF GetApproval, Points
    <3> QED
      BY <1>2, <2>1, <3>1, SerialReads DEF HoldsLast, Served
  <2>3. CASE cached # None
    <3> DEFINE r == [thread[t] EXCEPT !.appr = cached, !.at = "idle"]
    <3>1. /\ r.at = "idle" /\ r.p = p /\ r.dry = thread[t].dry /\ r.appr = cached
      BY <1>1 DEF ThreadStates
    <3>2. thread' = [thread EXCEPT ![t] = r]
      BY <1>1, <1>3, <2>3 DEF GetApproval, Evidenced
    <3>3. cached = appr[p]
      BY <1>1, <2>1, <2>3 DEF Agrees
    <3> QED
      BY <1>2, <2>1, <3>1, <3>2, <3>3, SerialReads DEF HoldsLast
  <2> QED
    BY <2>2, <2>3
<1>4. CASE LoadApproval(t)
  <2>1. UNCHANGED <<shared, dry_runs, approvals, dry, appr>> /\ thread[t].at = "load_approval"
    BY <1>4 DEF LoadApproval, caches, tables, At
  <2>2. CASE appr[p] = None
    <3>1. thread' = [thread EXCEPT ![t] = Idle]
      BY <1>4, <2>2 DEF LoadApproval, Finish
    <3>2. Idle.at = "idle" /\ ~Served(Idle)
      BY IncidentAssumption DEF Idle, Served, Requests
    <3> QED
      BY <2>1, <3>1, <3>2, SerialReads DEF HoldsLast
  <2>3. CASE appr[p] # None
    <3> DEFINE r == [thread[t] EXCEPT !.appr = appr[p], !.at = "fill_approval"]
    <3>1. thread' = [thread EXCEPT ![t] = r]
      BY <1>4, <2>3 DEF LoadApproval
    <3>2. /\ r.at = "fill_approval" /\ r.p = p /\ r.dry = thread[t].dry
          /\ r.appr = appr[p]
      BY <1>1 DEF ThreadStates
    <3> QED
      BY <1>2, <2>1, <3>1, <3>2, SerialReads
  <2> QED
    BY <2>2, <2>3
<1>5. CASE FillApproval(t)
  <2> DEFINE s == thread[t].appr
             e == [thread[t] EXCEPT !.appr = s, !.at = "idle"]
  <2>1. /\ e.at = "idle" /\ e.p = p /\ e.dry = thread[t].dry /\ e.appr = s
    BY <1>1 DEF ThreadStates
  <2>2. PICK r : r = e
    OBVIOUS
  <2>3. thread' = [thread EXCEPT ![t] = r]
    BY <1>5, <2>2 DEF FillApproval, Evidenced
  <2>4. thread[t].at = "fill_approval" /\ s = appr[p]
    BY <1>1, <1>5 DEF FillApproval, At, Agrees
  <2>5. \A z \in Services, q \in Proposals :
          approvals'[z][q] = IF z = "routes" /\ q = p THEN s ELSE approvals[z][q]
    BY <1>1, <1>5 DEF FillApproval, Dictionaries
  <2>6. UNCHANGED <<shared, dry_runs, dry, appr>>
    BY <1>5 DEF FillApproval, tables
  <2>7. r.at = "idle" /\ r.p = p /\ r.dry = dry[p] /\ r.appr = appr[p]
    BY <1>2, <2>1, <2>2, <2>4
  <2>8. Agrees(r)'
    BY <1>1, <2>4, <2>5, <2>6, <2>7 DEF Agrees, Served, HoldsLast, Services
  <2> QED
    BY <1>1, <2>3, <2>6, <2>8, SerialMoves
<1> QED
  BY <1>3, <1>4, <1>5

LEMMA RestartAgrees ==
  ASSUME ~SplitInstances, IncidentInv, SerialInv, NEW t, Threads = {t}, Restart
  PROVE  SerialInv'
<1>1. \A s \in Services, q \in Proposals : dry_runs'[s][q] = None /\ approvals'[s][q] = None
  BY DEF Restart, EmptyCache
<1>2. shared' = TRUE /\ UNCHANGED <<dry, appr>> /\ thread'[t] = Idle
  BY DEF Restart, Booted, tables
<1>3. Idle.at = "idle" /\ ~Served(Idle)
  BY IncidentAssumption DEF Idle, Served, Requests
<1>4. \A q \in Proposals : appr[q] \in {None, dry[q]}
  BY DEF SerialInv, Agrees
<1>5. Agrees(thread[t])'
  BY <1>1, <1>2, <1>3, <1>4 DEF Agrees, Served, HoldsLast, Services
<1> QED
  BY <1>2, <1>5 DEF SerialInv

LEMMA NextAgrees ==
  ASSUME ~SplitInstances, ~SavesMayFail, NEW t, Threads = {t},
         IncidentInv, SerialInv, [Next]_vars
  PROVE  SerialInv'
<1>1. CASE Request(t) \/ Step(t)
  BY <1>1, RequestAgrees, DryRunAgrees, GetDryRunAgrees, ApproveAgrees,
     GetApprovalAgrees DEF Step, SqliteFails
<1>2. CASE UNCHANGED vars
  BY <1>2 DEF vars, caches, tables, SerialInv, Agrees, Served
<1> QED
  BY <1>1, <1>2, RestartAgrees DEF Next

LEMMA InitAgrees ==
  ASSUME ~SplitInstances, Init
  PROVE  SerialInv
<1>1. Idle.at = "idle" /\ ~Served(Idle)
  BY IncidentAssumption DEF Idle, Served, Requests
<1> QED
  BY <1>1 DEF Init, EmptyCache, Booted, SerialInv, Agrees, HoldsLast, Services

(* One request at a time, one service, and a SQLite that does not raise.    *)
OneAtATime == (\E t : Threads = {t}) /\ ~SavesMayFail /\ ~SplitInstances

(* One request at a time: wherever it stands, the caches differ from SQLite *)
(* by no more than what it is about to write (incidents.py:147-187).        *)
THEOREM SerialInvariant ==
  ASSUME OneAtATime
  PROVE  Spec => []SerialInv
<1>1. Init => SerialInv
  BY InitAgrees DEF OneAtATime
<1>2. IncidentInv /\ SerialInv /\ [Next]_vars => SerialInv'
  BY NextAgrees DEF OneAtATime
<1> QED
  BY <1>1, <1>2, IncidentInvariant, PTL DEF Spec

(* The dictionaries are caches of SQLite: between two requests they agree   *)
(* with it (incidents.py:65).                                               *)
THEOREM CachesMatchStoreHolds ==
  ASSUME OneAtATime
  PROVE  Spec => []CachesMatchStore
<1>1. SerialInv => CachesMatchStore
  BY DEF OneAtATime, SerialInv, Agrees, CachesMatchStore, Quiet, At, Services
<1> QED
  BY <1>1, SerialInvariant, PTL

(* Between two requests the approval in SQLite is that of the last dry run  *)
(* (incidents.py:127-187, README.md:224).                                   *)
THEOREM ApprovalIsForLastDryRunHolds ==
  ASSUME OneAtATime
  PROVE  Spec => []ApprovalIsForLastDryRun
<1>1. SerialInv => ApprovalIsForLastDryRun
  BY DEF OneAtATime, SerialInv, Agrees, ApprovalIsForLastDryRun
<1> QED
  BY <1>1, SerialInvariant, PTL

(* Then a remediation is shown exactly the durable dry run and approval.    *)
THEOREM SerialReadsHold ==
  ASSUME OneAtATime
  PROVE  Spec => []ReadsAreAllowed
<1>1. SerialInv => ReadsAreAllowed
  BY DEF SerialInv, Agrees, Served, ReadsAreAllowed, At, Op, P,
         Promise!DryRunSeen, Promise!ApprovalSeen
<1> QED
  BY <1>1, SerialInvariant, PTL

(* ... and Evidence is implemented also with RacyEvidence = FALSE, where a  *)
(* dry run or an approval takes effect when it is saved, and nothing is     *)
(* saved late (incidents.py:127-187).                                       *)
THEOREM SerialEvidence ==
  ASSUME OneAtATime
  PROVE  Spec => ImplementsEvidence
<1> USE DEF Promise!evidenceVars
<1>1. Init => Promise!EvidenceInit
  BY DEF Init, Promise!EvidenceInit
<1>2. ASSUME IncidentInv, SerialInv, Next
      PROVE  [Promise!EvidenceNext]_(Promise!evidenceVars)
  <2>1. PICK t : Threads = {t}
    BY DEF OneAtATime
  <2>2. ASSUME thread[t].at # "idle"
        PROVE  /\ P(t) \in Proposals /\ Knows(thread[t]) /\ thread[t].p = P(t)
               /\ Agrees(thread[t])
               /\ past \in [Proposals -> SUBSET Snapshots]
               /\ granted \in [Proposals -> SUBSET Snapshots]
    BY <1>2, <2>1, <2>2, OneService
  <2>3. CASE CacheDryRun(t)
    <3>1. Promise!DryRunMade(P(t), thread[t].dry)
      BY <2>3 DEF CacheDryRun, tables, Promise!DryRunMade
    <3>2. P(t) \in Proposals /\ thread[t].dry \in Snapshots
      BY <2>2, <2>3 DEF CacheDryRun, At, Knows
    <3> QED
      BY <3>1, <3>2 DEF Promise!EvidenceNext, Promise!EvidenceStep
  <2>4. CASE SaveDryRun(t)
    <3>1. /\ P(t) \in Proposals /\ thread[t].dry \in past[P(t)]
          /\ past \in [Proposals -> SUBSET Snapshots]
      BY <2>2, <2>4 DEF SaveDryRun, At, Knows, HoldsDryRun
    <3>2. past = [past EXCEPT ![P(t)] = @ \cup {thread[t].dry}]
      BY <3>1
    <3>3. Promise!DryRun(P(t), thread[t].dry)
      BY <2>4, <3>2 DEF SaveDryRun, history, Promise!DryRun
    <3> QED
      BY <3>1, <3>3 DEF Promise!EvidenceNext, Promise!EvidenceStep
  <2>5. CASE CacheApproval(t)
    <3>1. P(t) \in Proposals /\ thread[t].dry \in past[P(t)]
      BY <2>2, <2>5 DEF CacheApproval, At, Knows, HoldsDryRun
    <3>2. Promise!ApprovalMade(P(t))
      BY <2>5, <3>1 DEF CacheApproval, tables, Promise!ApprovalMade
    <3> QED
      BY <3>1, <3>2 DEF Promise!EvidenceNext, Promise!EvidenceStep
  <2>6. CASE SaveApproval(t)
    <3>1. /\ P(t) \in Proposals /\ thread[t].dry \in granted[P(t)]
          /\ thread[t].dry = dry[P(t)] /\ granted \in [Proposals -> SUBSET Snapshots]
      BY <2>2, <2>6 DEF SaveApproval, At, Knows, Agrees, HoldsLast
    <3>2. granted = [granted EXCEPT ![P(t)] = @ \cup {dry[P(t)]}] /\ dry[P(t)] # None
      BY <3>1, IncidentAssumption
    <3>3. Promise!Approve(P(t))
      BY <2>6, <3>1, <3>2 DEF SaveApproval, history, Promise!Approve
    <3> QED
      BY <3>1, <3>3 DEF Promise!EvidenceNext, Promise!EvidenceStep
  <2>7. CASE \/ Request(t) \/ SaveIncident(t) \/ LogDiagnosed(t) \/ PopApproval(t)
             \/ LogDryRun(t) \/ GetDryRun(t) \/ LoadDryRun(t) \/ FillDryRun(t)
             \/ LogApproval(t) \/ GetApproval(t) \/ LoadApproval(t) \/ FillApproval(t)
             \/ SqliteFails(t) \/ Restart
    BY <2>7 DEF Request, Analyze, StartDryRun, StartApprove, StartApply, SaveIncident,
                LogDiagnosed, PopApproval, LogDryRun, GetDryRun, LoadDryRun, FillDryRun,
                LogApproval, GetApproval, LoadApproval, FillApproval, SqliteFails,
                Restart, tables, history
  <2> QED
    BY <1>2, <2>1, <2>3, <2>4, <2>5, <2>6, <2>7 DEF Next, Step
<1>3. IncidentInv /\ SerialInv /\ [Next]_vars =>
        [Promise!EvidenceNext]_(Promise!evidenceVars)
  BY <1>2 DEF vars, tables, history
<1> QED
  BY <1>1, <1>3, IncidentInvariant, SerialInvariant, PTL
     DEF Spec, ImplementsEvidence, Promise!EvidenceSpec
=============================================================================
