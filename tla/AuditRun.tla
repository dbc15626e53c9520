------------------------------ MODULE AuditRun ------------------------------
(***************************************************************************)
(* POST /api/audit/run (app/routers/audit.py) and the rows it shares with  *)
(* every other request: audit_jobs, merchants and audit_log.  Requests of  *)
(* two uvicorn workers interleave between the awaits of the handler; a     *)
(* step below is the code from one point where other requests' commits     *)
(* become visible to the next.                                             *)
(*                                                                         *)
(* A request creates at most one job and at most one merchant, so the row  *)
(* a request creates has the request's identity for its id.                *)
(***************************************************************************)
EXTENDS Integers, FiniteSets

CONSTANTS
  Requests,   \* uploads; each passes the 400 checks and runs once
  Users,      \* accounts (id and e-mail name the same account)
  Files,      \* byte contents of an upload (the combined SHA-256)
  Mids,       \* merchant numbers
  Dates,      \* statement periods
  Typed,      \* those a user may type into the form, for each file
  Figures,    \* what volume and fees can be read as
  Statement,  \* the merchant number and the period of the statement in a file
  Readings,   \* what the providers may read from each file
  Configured, \* how many providers have a key
  MaxEngine,  \* bound on ENGINE_VERSION deployments
  R2On,       \* whether R2 is configured
  Edits,      \* figures an editor may type into a merchant
  MaxLost,    \* bound on requests lost to a crash or a database error
  NULL

\* Complete results that end a run of the providers.
Quorum == IF Configured < 3 THEN Configured ELSE 3

\* What a run of the providers reads, in how many complete results, and whether
\* _errors names a provider.  A run without errors ends on the quorum.
Reading ==
  {x \in [mid : Mids \cup {NULL}, date : Dates \cup {NULL}, figure : Figures,
          results : 1 .. Quorum, errors : BOOLEAN] :
     IF x.errors THEN x.results < Configured ELSE x.results = Quorum}

ASSUME NullAssumption ==
  /\ NULL \notin Requests /\ NULL \notin Users /\ NULL \notin Files
  /\ NULL \notin Mids     /\ NULL \notin Dates

ASSUME RequestsAssumption == IsFiniteSet(Requests)

ASSUME FigureAssumption == Figures \subseteq Nat /\ Edits \subseteq Figures

ASSUME ConfiguredAssumption == Configured \in 1 .. 4

ASSUME BoundAssumption == MaxEngine \in Nat \ {0} /\ MaxLost \in Nat

ASSUME R2Assumption == R2On \in BOOLEAN

ASSUME TypedAssumption == Typed \in [Files -> SUBSET Dates]

\* A file is a scan of one statement.  Extraction reads its merchant number and
\* its period, or leaves them blank: it never reads those of another.
ASSUME ReadingsAssumption ==
  /\ Statement \in [Files -> [mid : Mids, date : Dates]]
  /\ Readings \in [Files -> SUBSET Reading]
  /\ \A f \in Files : \A x \in Readings[f] : /\ x.mid \in {Statement[f].mid, NULL}
                                            /\ x.date \in {Statement[f].date, NULL}

VARIABLES
  engine,     \* ENGINE_VERSION of the newest deployment
  clock,      \* source of created_at
  jobs,       \* audit_jobs
  merchants,  \* merchants
  log,        \* audit_log
  req         \* the handler's local variables

vars == <<engine, clock, jobs, merchants, log, req>>

-----------------------------------------------------------------------------
(* Rows *)

Engines == 1 .. MaxEngine

\* consensus_data: who extracted it, what was read, and by which engine.
Data == [src : Requests, mid : Mids \cup {NULL}, date : Dates \cup {NULL},
         figure : Figures, ver : Engines, clean : BOOLEAN]

Job == [user : Users, file : Files, status : {"processing", "complete", "failed"},
        merchant : Requests \cup {NULL}, data : Data \cup {NULL}, born : Nat]

Merchant == [user : Users, file : Files, mid : Mids \cup {NULL},
             date : Dates \cup {NULL}, figure : Figures,
             group : Requests \cup {NULL}, rev : BOOLEAN, born : Nat]

LogRow == [action : {"upload", "analyze", "dedup_hit", "revision_flagged"},
           by : Requests, entity : Requests \cup {NULL}]

Plan == [kind : {"hit", "save"}, entity : Requests \cup {NULL},
         data : Data \cup {NULL}, group : Requests \cup {NULL}, rev : BOOLEAN]

\* The absence of a row, of data or of a plan is none of them.
ASSUME RecordAssumption ==
  NULL \notin Job /\ NULL \notin Merchant /\ NULL \notin Data /\ NULL \notin Plan

InFlight == {"open", "analyze", "match", "persist", "refresh"}

Req == [pc : InFlight \cup {"idle", "done", "dead"},
        user : Users \cup {NULL}, file : Files \cup {NULL},
        typed : Dates \cup {NULL}, ver : 0 .. MaxEngine,
        job : Requests \cup {NULL}, reused : BOOLEAN, linked : Requests \cup {NULL},
        data : Data \cup {NULL}, plan : Plan \cup {NULL},
        answer : {"none", "cached", "matched", "analyzed", "failed", "error"},
        served : Data \cup {NULL}]

IdleReq == [pc |-> "idle", user |-> NULL, file |-> NULL, typed |-> NULL, ver |-> 0,
            job |-> NULL, reused |-> FALSE, linked |-> NULL, data |-> NULL,
            plan |-> NULL, answer |-> "none", served |-> NULL]

\* The handler is over: its answer, and nothing more of its local state.
Answered(q, answer, served) ==
  [pc |-> "done", user |-> q.user, file |-> q.file, typed |-> q.typed, ver |-> q.ver,
   job |-> q.job, reused |-> FALSE, linked |-> NULL, data |-> NULL, plan |-> NULL,
   answer |-> answer, served |-> served]

Row(action, r, entity) == [action |-> action, by |-> r, entity |-> entity]

\* order_by(created_at.desc()).first() and order_by(created_at.asc()).first()
Newest(S, table) ==
  IF S = {} THEN NULL ELSE CHOOSE x \in S : \A y \in S : table[y].born <= table[x].born

Oldest(S, table) ==
  IF S = {} THEN NULL ELSE CHOOSE x \in S : \A y \in S : table[x].born <= table[y].born

-----------------------------------------------------------------------------
(* Helpers of the router *)

\* _within_pct: 5% of the stored value, which alone may be the zero.
WithinPct(new, old) ==
  LET gap == IF new >= old THEN new - old ELSE old - new
  IN  IF old = 0 THEN new = 0 ELSE 20 * gap <= old

\* Variant: the version gate of the cache is forgotten.
CacheIsFresh_AnyEngine(data, ver) == data # NULL /\ data.clean

\* _cache_is_fresh, as seen by a process of engine version ver.  A record
\* rebuilt from a merchant's columns carries no engine version: NULL.
CacheIsFresh(data, ver) == data # NULL /\ data.ver = ver /\ data.clean

\* Variant: the lookup forgets whose upload it was.
PriorJob_OfAnyone(u, f) ==
  Newest({j \in Requests : /\ jobs[j] # NULL
                           /\ jobs[j].file = f
                           /\ jobs[j].status = "complete"}, jobs)

\* Variant: the lookup forgets to compare the bytes.
PriorJob_OfAnyBytes(u, f) ==
  Newest({j \in Requests : /\ jobs[j] # NULL
                           /\ jobs[j].user = u
                           /\ jobs[j].status = "complete"}, jobs)

PriorJob(u, f) ==
  Newest({j \in Requests : /\ jobs[j] # NULL
                           /\ jobs[j].file = f
                           /\ jobs[j].user = u
                           /\ jobs[j].status = "complete"}, jobs)

\* statement_date: the one typed into the form, or else the one extracted.
StatementDate(r) == IF req[r].typed # NULL THEN req[r].typed ELSE req[r].data.date

\* Variant: the entity and revision queries forget the owner.
SameStatement_OfAnyone(r) ==
  {m \in Requests : /\ merchants[m] # NULL
                    /\ merchants[m].mid = req[r].data.mid
                    /\ merchants[m].date = StatementDate(r)}

\* Variant: they forget the merchant number.
SameStatement_OfAnyNumber(r) ==
  {m \in Requests : /\ merchants[m] # NULL
                    /\ merchants[m].date = StatementDate(r)
                    /\ merchants[m].user = req[r].user}

\* Variant: they forget the statement's period.
SameStatement_OfAnyPeriod(r) ==
  {m \in Requests : /\ merchants[m] # NULL
                    /\ merchants[m].mid = req[r].data.mid
                    /\ merchants[m].user = req[r].user}

\* The rows that the entity and revision queries find for an extraction.
SameStatement(r) ==
  {m \in Requests : /\ merchants[m] # NULL
                    /\ merchants[m].mid = req[r].data.mid
                    /\ merchants[m].date = StatementDate(r)
                    /\ merchants[m].user = req[r].user}

Matchable(r) == ~req[r].reused /\ req[r].data.mid # NULL /\ StatementDate(r) # NULL

\* Variant: the stored figures must be the extracted ones exactly.
EntityMatch_Exact(r) ==
  IF ~Matchable(r) THEN NULL
  ELSE Newest({m \in SameStatement(r) : req[r].data.figure = merchants[m].figure}, merchants)

\* Newest stored record the entity query returns within tolerance.
EntityMatch(r) ==
  IF ~Matchable(r) THEN NULL
  ELSE Newest({m \in SameStatement(r) :
                 WithinPct(req[r].data.figure, merchants[m].figure)}, merchants)

EntityData(m) ==
  LET j == Newest({k \in Requests : /\ jobs[k] # NULL
                                    /\ jobs[k].merchant = m
                                    /\ jobs[k].status = "complete"}, jobs)
  IN  IF j = NULL THEN NULL ELSE jobs[j].data

\* What the reads of steps 6b to 8 of the handler decide.
PlanOf(r) ==
  LET d    == req[r].data
      e    == EntityMatch(r)
      keep == IF e # NULL THEN e ELSE req[r].linked
      orig == IF keep = NULL /\ d.mid # NULL
              THEN Oldest(SameStatement(r), merchants) ELSE NULL
      rev  == orig # NULL /\ merchants[orig].file # req[r].file
  IN  IF e # NULL /\ CacheIsFresh(EntityData(e), req[r].ver)
      THEN [kind |-> "hit", entity |-> e, data |-> EntityData(e),
            group |-> NULL, rev |-> FALSE]
      ELSE [kind |-> "save",
            entity |-> IF keep # NULL /\ merchants[keep] # NULL THEN keep ELSE NULL,
            data |-> NULL,
            group |-> CASE ~rev -> NULL
                        [] rev /\ merchants[orig].group = NULL -> orig
                        [] OTHER -> merchants[orig].group,
            rev |-> rev]

\* The job's row is locked from the first flush after extraction to the
\* commit: the flush writes the new R2 keys, so only when R2 is configured.
Unlocked(r) ==
  R2On => \A q \in Requests \ {r} :
            ~(req[q].pc = "persist" /\ req[q].job = req[r].job)

-----------------------------------------------------------------------------
(* The handler *)

Init ==
  /\ engine = 1
  /\ clock = 0
  /\ jobs = [r \in Requests |-> NULL]
  /\ merchants = [r \in Requests |-> NULL]
  /\ log = {}
  /\ req = [r \in Requests |-> IdleReq]

\* A request a process of the newest release has received.
Received(u, f, t) ==
  [pc |-> "open", user |-> u, file |-> f, typed |-> t, ver |-> engine, job |-> NULL,
   reused |-> FALSE, linked |-> NULL, data |-> NULL, plan |-> NULL,
   answer |-> "none", served |-> NULL]

\* Step 3: identical bytes of the same user, and a fresh prior result.
DedupHit(r, u, f, t) ==
  /\ req[r].pc = "idle"
  /\ LET p == PriorJob(u, f) IN
       /\ p # NULL
       /\ CacheIsFresh(jobs[p].data, engine)
       /\ log' = log \cup {Row("dedup_hit", r, jobs[p].merchant)}
       /\ req' = [req EXCEPT ![r] = Answered(Received(u, f, t), "cached", jobs[p].data)]
  /\ UNCHANGED <<engine, clock, jobs, merchants>>

\* Step 3 with no usable prior result: a stale one is kept for reuse.
DedupMiss(r, u, f, t) ==
  /\ req[r].pc = "idle"
  /\ LET p == PriorJob(u, f) IN
       /\ p # NULL => ~CacheIsFresh(jobs[p].data, engine)
       /\ req' = [req EXCEPT ![r] = IF p = NULL THEN Received(u, f, t)
              ELSE [Received(u, f, t) EXCEPT !.job = p, !.reused = TRUE,
                                          !.linked = jobs[p].merchant]]
  /\ UNCHANGED <<engine, clock, jobs, merchants, log>>

NewJob(r) ==
  [user |-> req[r].user, file |-> req[r].file, status |-> "processing",
   merchant |-> NULL, data |-> NULL, born |-> clock]

\* Step 4: open a job, or put the reused one back to processing; commit.
OpenJob(r) ==
  /\ req[r].pc = "open"
  /\ \/ /\ req[r].reused
        /\ Unlocked(r)
        /\ jobs' = [jobs EXCEPT ![req[r].job].status = "processing"]
        /\ req' = [req EXCEPT ![r].pc = "analyze"]
        /\ UNCHANGED clock
     \/ /\ ~req[r].reused
        /\ jobs' = [jobs EXCEPT ![r] = NewJob(r)]
        /\ clock' = clock + 1
        /\ req' = [req EXCEPT ![r] = [@ EXCEPT !.pc = "analyze", !.job = r]]
  /\ UNCHANGED <<engine, merchants, log>>

\* The result of the run: a single provider's answer as it is, or a consensus,
\* which has no merchant_number.  Clean: no _errors, and all providers in it.
Extracted(r, x) ==
  [src |-> r, mid |-> IF x.results = 1 THEN x.mid ELSE NULL, date |-> x.date,
   figure |-> x.figure, ver |-> req[r].ver,
   clean |-> ~x.errors /\ x.results >= Configured]

\* Steps 5 and 6: store the files, then let the providers read them.
Analyze(r) ==
  /\ req[r].pc = "analyze"
  /\ \E x \in Readings[req[r].file] :
       req' = [req EXCEPT ![r] = [@ EXCEPT !.pc = "match", !.data = Extracted(r, x)]]
  /\ UNCHANGED <<engine, clock, jobs, merchants, log>>

\* Variant: the session is rolled back before the failure is recorded.
PendingRows_RolledBack(r) == {}

\* The audit row recorded before the analysis, committed with its outcome.
PendingRows(r) == {Row("upload", r, req[r].job)}

\* Variant: the failure is not caught.
AnalyzeFails_Uncaught(r) ==
  /\ req[r].pc = "analyze"
  /\ req' = [req EXCEPT ![r] = Answered(@, "failed", NULL)]
  /\ UNCHANGED <<engine, clock, jobs, merchants, log>>

\* No provider returned: the except branch fails the job and commits, and
\* the pending upload row is committed with it.
AnalyzeFails(r) ==
  /\ req[r].pc = "analyze"
  /\ Unlocked(r)
  /\ jobs' = [jobs EXCEPT ![req[r].job].status = "failed"]
  /\ log' = log \cup PendingRows(r)
  /\ req' = [req EXCEPT ![r] = Answered(@, "failed", NULL)]
  /\ UNCHANGED <<engine, clock, merchants>>

\* Steps 6b and 7: the reads that choose between the stored record, a
\* refresh in place and a new merchant.
Match(r) ==
  /\ req[r].pc = "match"
  /\ Unlocked(r)
  /\ req' = [req EXCEPT ![r] = [@ EXCEPT !.pc = "persist", !.plan = PlanOf(r)]]
  /\ UNCHANGED <<engine, clock, jobs, merchants, log>>

\* Variant: the job is linked and filled, and its status forgotten.
Completed_Open(j, merchant, data) ==
  [jobs[j] EXCEPT !.merchant = merchant, !.data = data]

Completed(j, merchant, data) ==
  [jobs[j] EXCEPT !.merchant = merchant, !.status = "complete", !.data = data]

\* Step 6b: the job completes with the entity's stored result.
CommitHit(r) ==
  LET p == req[r].plan IN
  /\ req[r].pc = "persist" /\ p.kind = "hit"
  /\ merchants[p.entity] # NULL
  /\ jobs' = [jobs EXCEPT ![req[r].job] = Completed(req[r].job, p.entity, p.data)]
  /\ log' = log \cup PendingRows(r) \cup {Row("dedup_hit", r, p.entity)}
  /\ req' = [req EXCEPT ![r] = Answered(@, "matched", p.data)]
  /\ UNCHANGED <<engine, clock, merchants>>

\* The merchant a saving request writes: a new one, or the one kept.
Saved(r) == IF req[r].plan.entity = NULL THEN r ELSE req[r].plan.entity

\* merchant.id as the job and the audit row read it before the flush: the
\* default of a new row's key is only filled in by the flush.
IdBeforeFlush(r) == req[r].plan.entity

SavedRow(r) ==
  LET d == req[r].data p == req[r].plan IN
  [user |-> req[r].user, file |-> req[r].file, mid |-> d.mid,
   date |-> StatementDate(r), figure |-> d.figure, group |-> p.group, rev |-> p.rev,
   born |-> IF p.entity = NULL THEN clock ELSE merchants[p.entity].born]

\* Step 8: merchant, job and audit rows in one commit.
CommitSave(r) ==
  LET p == req[r].plan IN
  /\ req[r].pc = "persist" /\ p.kind = "save"
  /\ p.entity # NULL => merchants[p.entity] # NULL
  /\ merchants' = [merchants EXCEPT ![Saved(r)] = SavedRow(r)]
  /\ clock' = IF p.entity = NULL THEN clock + 1 ELSE clock
  /\ jobs' = [jobs EXCEPT ![req[r].job] =
                 Completed(req[r].job, IdBeforeFlush(r), req[r].data)]
  /\ log' = log \cup PendingRows(r) \cup {Row("analyze", r, IdBeforeFlush(r))}
                \cup (IF p.rev THEN {Row("revision_flagged", r, req[r].job)} ELSE {})
  /\ req' = [req EXCEPT ![r].pc = "refresh"]
  /\ UNCHANGED <<engine>>

\* The row the commit refers to is gone: the flush fails, and so does the
\* commit of the except branch, which does not roll back first.
CommitRejected(r) ==
  /\ req[r].pc = "persist"
  /\ req[r].plan.entity # NULL /\ merchants[req[r].plan.entity] = NULL
  /\ req' = [req EXCEPT ![r] = Answered(@, "error", NULL)]
  /\ UNCHANGED <<engine, clock, jobs, merchants, log>>

\* db.refresh(merchant), then the answer.
Finish(r) ==
  /\ req[r].pc = "refresh"
  /\ merchants[Saved(r)] # NULL
  /\ req' = [req EXCEPT ![r] = Answered(@, "analyzed", @.data)]
  /\ UNCHANGED <<engine, clock, jobs, merchants, log>>

\* The merchant was deleted before the refresh: the except branch fails a
\* job that is already committed as complete.
FinishFails(r) ==
  /\ req[r].pc = "refresh"
  /\ merchants[Saved(r)] = NULL
  /\ Unlocked(r)
  /\ jobs' = [jobs EXCEPT ![req[r].job].status = "failed"]
  /\ req' = [req EXCEPT ![r] = Answered(@, "failed", NULL)]
  /\ UNCHANGED <<engine, clock, merchants, log>>

\* Requests that ended without a handled outcome.
Lost(r) == req[r].pc = "dead" \/ req[r].answer = "error"

MayLose == Cardinality({r \in Requests : Lost(r)}) < MaxLost

\* The database fails a statement of the request; nothing of it is kept.
DbError(r) ==
  /\ req[r].pc \in InFlight
  /\ MayLose
  /\ req' = [req EXCEPT ![r] = Answered(@, "error", NULL)]
  /\ UNCHANGED <<engine, clock, jobs, merchants, log>>

\* The worker process dies with the request in it.
Crash(r) ==
  /\ req[r].pc \in InFlight
  /\ MayLose
  /\ req' = [req EXCEPT ![r] = [Answered(@, "none", NULL) EXCEPT !.pc = "dead"]]
  /\ UNCHANGED <<engine, clock, jobs, merchants, log>>

-----------------------------------------------------------------------------
(* Other endpoints and operations on the same rows *)

\* DELETE /api/merchants/{id}: a job that refers to the row blocks it.
DeleteMerchant(m) ==
  /\ merchants[m] # NULL
  /\ \A j \in Requests : jobs[j] # NULL => jobs[j].merchant # m
  /\ merchants' = [merchants EXCEPT ![m] = NULL]
  /\ UNCHANGED <<engine, clock, jobs, log, req>>

\* PUT /api/merchants/{id}
UpdateMerchant(m, figure) ==
  /\ merchants[m] # NULL
  /\ merchants[m].figure # figure
  /\ merchants' = [merchants EXCEPT ![m].figure = figure]
  /\ UNCHANGED <<engine, clock, jobs, log, req>>

\* A release with a new ENGINE_VERSION; requests of the old one may go on.
Deploy ==
  /\ engine < MaxEngine
  /\ engine' = engine + 1
  /\ UNCHANGED <<clock, jobs, merchants, log, req>>

-----------------------------------------------------------------------------

Submit(r) ==
  \E u \in Users, f \in Files : \E t \in Typed[f] \cup {NULL} :
    DedupHit(r, u, f, t) \/ DedupMiss(r, u, f, t)

Progress(r) ==
  \/ OpenJob(r) \/ Analyze(r) \/ AnalyzeFails(r) \/ Match(r)
  \/ CommitHit(r) \/ CommitSave(r) \/ CommitRejected(r)
  \/ Finish(r) \/ FinishFails(r)

Next ==
  \/ \E r \in Requests : Submit(r) \/ Progress(r) \/ DbError(r) \/ Crash(r)
  \/ \E m \in Requests : DeleteMerchant(m) \/ \E v \in Edits : UpdateMerchant(m, v)
  \/ Deploy

Spec == Init /\ [][Next]_vars

\* The event loop runs a request that can go on, and every provider call has
\* a wall-clock cap; uploads, failures, deployments and edits need not happen.
FairSpec == Spec /\ \A r \in Requests : WF_vars(Progress(r))

-----------------------------------------------------------------------------
(* Properties *)

TypeOK ==
  /\ engine \in Engines
  /\ clock \in Nat
  /\ jobs \in [Requests -> Job \cup {NULL}]
  /\ merchants \in [Requests -> Merchant \cup {NULL}]
  /\ log \subseteq LogRow
  /\ req \in [Requests -> Req]

\* What a user is served was extracted from that user's own uploads, and a
\* job points at an existing merchant of the job's user: the two caches of
\* run_audit (bytes, then entity) never cross accounts.
OwnRecordsOnly ==
  /\ \A r \in Requests : req[r].served # NULL =>
       req[req[r].served.src].user = req[r].user
  /\ \A j \in Requests : jobs[j] # NULL /\ jobs[j].merchant # NULL =>
       /\ merchants[jobs[j].merchant] # NULL
       /\ merchants[jobs[j].merchant].user = jobs[j].user

Logged(action, r) == \E x \in log : x.action = action /\ x.by = r

\* A result served from either cache is a clean one of the engine version of
\* the process that serves it, and its extraction was persisted with its own
\* "analyze" row, however many jobs copied it since (_cache_is_fresh).
CacheAuthority ==
  \A r \in Requests : req[r].answer \in {"cached", "matched"} =>
    LET d == req[r].served IN
      /\ d.clean /\ d.ver = req[r].ver
      /\ Logged("analyze", d.src)

\* The account has typed no period but the one its statements show.
Careful(u) ==
  \A r \in Requests : req[r].user = u => req[r].typed \in {NULL, Statement[req[r].file].date}

\* Two files of an account are of one merchant number and, unless the account
\* typed a wrong period somewhere, of one period.
Like(f, g, u) ==
  /\ Statement[f].mid = Statement[g].mid
  /\ Careful(u) => Statement[f].date = Statement[g].date

\* A result served instead of an extraction was read from the same statement,
\* or at worst, when the user typed wrong periods, from another period of the
\* same merchant number: along every chain of jobs and records (steps 3, 6b).
SameStatementServed ==
  \A r \in Requests : req[r].answer \in {"cached", "matched"} =>
    Like(req[req[r].served.src].file, req[r].file, req[r].user)

\* The client never gets an answer whose audit_log rows are missing: a hit
\* has its dedup_hit row, an analysis its upload and analyze rows, a failed
\* analysis its upload row, and a flagged merchant its revision_flagged row.
EvidenceComplete ==
  /\ \A r \in Requests :
       /\ req[r].answer \in {"cached", "matched"} => Logged("dedup_hit", r)
       /\ req[r].answer \in {"matched", "analyzed", "failed"} => Logged("upload", r)
       /\ req[r].answer = "analyzed" => Logged("analyze", r)
  /\ \A m \in Requests :
       merchants[m] # NULL /\ merchants[m].rev => Logged("revision_flagged", m)

Processing(j) == jobs[j] # NULL /\ jobs[j].status = "processing"
Working(r) == req[r].pc \in {"analyze", "match", "persist"}

\* A job is "processing" only while a request works on it, or after one was
\* lost to a crash or a database error: every handled outcome settles it.
NoOrphanProcessing ==
  \A j \in Requests : Processing(j) =>
    \E r \in Requests : req[r].job = j /\ (Working(r) \/ Lost(r))

\* Refreshing a merchant in place never gives it to another account nor to
\* another merchant number, and turns it into the record of another period only
\* for an account that typed a wrong one (step 8 of the handler).
RefreshKeepsStatement ==
  [][\A m \in Requests : merchants[m] # NULL /\ merchants'[m] # NULL =>
       /\ merchants'[m].user = merchants[m].user
       /\ Like(merchants[m].file, merchants'[m].file, merchants[m].user)]_vars

\* Records grouped as revisions are of one account and one merchant number and,
\* where the period is not blank and none was typed wrong, of one period, also
\* after either has been refreshed (step 7 of the handler).
RevisionGroupsOneStatement ==
  \A m \in Requests : merchants[m] # NULL /\ merchants[m].rev =>
    /\ merchants[m].group # NULL /\ merchants[m].group # m
    /\ LET a == merchants[m] b == merchants[merchants[m].group] IN
         b # NULL =>
           /\ a.user = b.user
           /\ Statement[a.file].mid = Statement[b.file].mid
           /\ a.date # NULL => Like(a.file, b.file, a.user)

\* A job that is processing is settled, unless a crash or a database error
\* took the request that worked on it.
JobsSettle ==
  \A j \in Requests :
    Processing(j) ~> (~Processing(j) \/ \E r \in Requests : req[r].job = j /\ Lost(r))

\* audit.py:234-236 - re-extracting bytes that a prior job holds is done in
\* that job "so re-extraction never creates a duplicate record".
ReuseNeverDuplicates ==
  [][\A r \in Requests :
       req[r].reused /\ merchants[r] = NULL /\ merchants'[r] # NULL =>
         ~\E m \in Requests : /\ merchants[m] # NULL
                              /\ merchants[m].user = req[r].user
                              /\ merchants[m].file = req[r].file]_vars

\* Every reading of the two files is of one statement: the same merchant number
\* and period, and figures within 5%.
Rescans(f, g) ==
  \A x \in Readings[f], y \in Readings[g] :
    /\ x.mid = y.mid /\ x.mid # NULL
    /\ x.date = y.date /\ x.date # NULL
    /\ WithinPct(x.figure, y.figure)

\* audit.py:328-331 - "same MID + statement_date + owner, and the extracted
\* volume/fees within 5% of a stored record => same statement re-uploaded":
\* the handler never plans a new merchant for a rescan of a stored statement,
\* for an account that typed no wrong period.
RescanRecognised ==
  [][\A r \in Requests :
       /\ req[r].pc = "match" /\ ~req[r].reused
       /\ req'[r].pc = "persist" /\ req'[r].plan.entity = NULL
       => ~\E m \in Requests : /\ merchants[m] # NULL
                              /\ merchants[m].user = req[r].user
                              /\ merchants[m].file # req[r].file
                              /\ Careful(req[r].user)
                              /\ Rescans(req[r].file, merchants[m].file)]_vars

\* audit.py:415 and models.py:95 - same MID and date, different bytes: flagged
\* and kept.  A flagged merchant stays flagged as long as it exists.
RevisionStaysFlagged ==
  [][\A m \in Requests : merchants[m] # NULL /\ merchants'[m] # NULL =>
       (merchants[m].rev => merchants'[m].rev)]_vars

-----------------------------------------------------------------------------
(* The inductive invariant *)

\* The handler's locals agree with the step it is at.
LocalsOf(r) ==
  LET q == req[r] IN
    /\ q.pc = "idle" => q = IdleReq
    /\ q.pc # "idle" => q.user \in Users /\ q.file \in Files /\ q.ver \in Engines
    /\ q.pc \in InFlight => q.answer = "none" /\ q.served = NULL
    /\ q.pc = "open" /\ q.reused => q.job # NULL
    /\ q.pc \in InFlight \ {"open"} => q.job # NULL
    /\ q.job # NULL => jobs[q.job] # NULL
    /\ q.pc \in {"match", "persist", "refresh"} => q.data # NULL
    /\ q.data # NULL => q.data.src = r
    /\ q.pc \in {"persist", "refresh"} <=> q.plan # NULL
    /\ q.plan # NULL =>
         /\ q.plan.kind = "hit" => q.plan.entity # NULL /\ q.plan.data # NULL
         /\ q.plan.rev => q.plan.entity = NULL
    /\ q.answer \in {"cached", "matched"} => q.served # NULL

LocalsInStep == \A r \in Requests : LocalsOf(r)

\* The row a request created is of its account, and so is what a row refers to.
JobOwned(j) == jobs[j] # NULL =>
  /\ jobs[j].user = req[j].user
  /\ jobs[j].merchant # NULL => /\ merchants[jobs[j].merchant] # NULL
                                /\ req[jobs[j].merchant].user = jobs[j].user
  /\ jobs[j].data # NULL => req[jobs[j].data.src].user = jobs[j].user

MerchantOwned(m) == merchants[m] # NULL => merchants[m].user = req[m].user

\* What a request refers to is of its account.
RequestOwned(r) ==
  LET q == req[r] IN
    /\ q.job # NULL    => req[q.job].user = q.user
    /\ q.linked # NULL => req[q.linked].user = q.user
    /\ q.plan # NULL   =>
         /\ q.plan.entity # NULL => req[q.plan.entity].user = q.user
         /\ q.plan.data # NULL   => req[q.plan.data.src].user = q.user
    /\ q.served # NULL => req[q.served.src].user = q.user

OneOwner ==
  \A x \in Requests : JobOwned(x) /\ MerchantOwned(x) /\ RequestOwned(x)

\* Data leaves its request only with the "analyze" row of its extraction.
JobLogged(j) ==
  jobs[j] # NULL /\ jobs[j].data # NULL => Logged("analyze", jobs[j].data.src)

\* A request about to answer from the entity cache holds a fresh result, and
\* one that has committed its analysis has logged it.
RequestLogged(r) ==
  /\ req[r].pc = "persist" /\ req[r].plan.kind = "hit" =>
       /\ CacheIsFresh(req[r].plan.data, req[r].ver)
       /\ Logged("analyze", req[r].plan.data.src)
  /\ req[r].pc = "refresh" => Logged("upload", r) /\ Logged("analyze", r)

LoggedSource == \A x \in Requests : JobLogged(x) /\ RequestLogged(x)

\* An extraction has the number, the period and the figure of a reading of f.
ReadFrom(f, d) ==
  \E x \in Readings[f] : /\ d.mid = (IF x.results = 1 THEN x.mid ELSE NULL)
                         /\ d.date = x.date /\ d.figure = x.figure

\* So has a record, unless a wrong period was typed or an editor has typed
\* another figure.
RecordRead(a) ==
  \E x \in Readings[a.file] :
    /\ a.mid = (IF x.results = 1 THEN x.mid ELSE NULL)
    /\ Careful(a.user) => a.date \in {x.date, Statement[a.file].date}
    /\ Edits = {} => a.figure = x.figure

\* A request that may have created its merchant.
Past(r) == req[r].pc \in {"refresh", "done", "dead"}

\* A job is of the bytes its own request uploaded, and what it refers to was
\* read from bytes like them.
JobAlike(j) == jobs[j] # NULL =>
  LET u == jobs[j].user IN
  /\ jobs[j].file = req[j].file
  /\ jobs[j].merchant # NULL => Like(req[jobs[j].merchant].file, jobs[j].file, u)
  /\ jobs[j].data # NULL => Like(req[jobs[j].data.src].file, jobs[j].file, u)

\* A revision's group is an earlier request's record, of the same account, the
\* same merchant number and the same period, as far as it is known.
Groups(r, group, date) ==
  /\ group # r /\ Past(group)
  /\ req[group].user = req[r].user
  /\ Statement[req[group].file].mid = Statement[req[r].file].mid
  /\ date # NULL => Like(req[group].file, req[r].file, req[r].user)

MerchantAlike(m) == merchants[m] # NULL =>
  /\ Past(m)
  /\ Like(req[m].file, merchants[m].file, merchants[m].user)
  /\ RecordRead(merchants[m])
  /\ merchants[m].rev => merchants[m].group # NULL
  /\ merchants[m].group # NULL => Groups(m, merchants[m].group, merchants[m].date)

\* What a request holds was read from its bytes or from bytes like them.
RequestAlike(r) ==
  LET q == req[r] IN
    /\ q.job # NULL    => req[q.job].file = q.file
    /\ q.linked # NULL => Like(req[q.linked].file, q.file, q.user)
    /\ q.data # NULL   => ReadFrom(q.file, q.data)
    /\ q.plan # NULL   =>
         /\ q.plan.entity # NULL => /\ Like(req[q.plan.entity].file, q.file, q.user)
                                    /\ q.plan.group = NULL
         /\ q.plan.data # NULL   => Like(req[q.plan.data.src].file, q.file, q.user)
         /\ q.plan.rev => q.plan.group # NULL
         /\ q.plan.group # NULL => Groups(r, q.plan.group, StatementDate(r))
    /\ q.served # NULL => Like(req[q.served.src].file, q.file, q.user)

\* Whatever rows and requests refer to each other, their files are alike: links
\* from job to merchant to job never lead from one merchant number to another,
\* nor from one period to another while the account types no wrong one.
OneStatement ==
  \A x \in Requests : JobAlike(x) /\ MerchantAlike(x) /\ RequestAlike(x)

\* What every step preserves, and the safety invariants follow from: where
\* each request stands, who owns what, which statement it shows, and what has
\* been logged so far.
IndInv ==
  /\ TypeOK /\ LocalsInStep /\ OneOwner /\ OneStatement /\ LoggedSource
  /\ CacheAuthority /\ EvidenceComplete /\ NoOrphanProcessing
=============================================================================
