# Verification of the NexusPay backend

TLA+ models of the NexusPay FastAPI backend (`src/app`), the TLC runs that check
them on small instances, and TLAPS proofs of what holds for every instance.
The models are written from the Python source; each definition is tied to the
lines it stands for in `PROJECT.json` under `map`.

Contents: 1 the system, 2 the modules, 3 the runs, 4 fairness, 5 disagreements
between code and comments, 6 proofs, 7 abstractions, 8 what is not modelled.

## 1. The system

The backend is one FastAPI application (`src/app/main.py`) run by two uvicorn
workers (`src/render.yaml:13`) over one Postgres database, an R2 object store and
several AI providers. A request handler is a coroutine with its own database session
(`get_db`, `src/app/database.py:27-33`): what it changes becomes visible to others
at its `commit`, and a session closed without one leaves nothing behind. Handlers of
the same or the other worker interleave at every `await`. No row is locked by a read
(`SELECT ... FOR UPDATE` is used nowhere), so whatever a handler has read may be
stale when it commits.

| Component | State it keeps | Operations | Interacts with | What is hard | What makes it correct |
|---|---|---|---|---|---|
| Statement audit, `routers/audit.py` | `audit_jobs`, `merchants`, `audit_log` rows | `POST /audit/run`, `analyze-statement`, list and get | providers, R2, log, merchants | two cache lookups, a refresh in place and a revision check over rows that other uploads change meanwhile; minutes between the first and the last commit; crashes and failed statements in between | results reused only for the right owner, bytes or statement and engine; every answer has its log rows; no job left `processing`; records never turn into another merchant's, nor into another period's while the user types no wrong one |
| AI providers, `services/ai_providers.py` | the tasks of one run | `run_audit_all_providers`, consensus, reconciliation | provider APIs | quorum, wall-clock caps, one retry, cancellation of stragglers, hanging calls | no call outlives a run; every provider accounted for; bounded time; consensus arithmetic |
| Audit log, `services/audit_log.py` | `audit_log` rows | `record` | every router that writes | pending rows belong to the caller's transaction | a row is there if and only if its event was committed |
| Merchants, `routers/merchants.py` | `merchants` rows | list, create, update, delete | audit | edits and deletes under a running audit | a referenced row is never deleted |
| Accounts, `routers/auth.py`, `services/auth_service.py` | `users`, `email_verification_tokens`, `_seeded` | login, register, verify, resend, forgot, reset, change password, seeding | e-mail, exclusions, users | check-then-act on single-use tokens and on unique addresses; stale rows flushed over newer ones; a seed flag set before its commit | a token takes effect once and with all it is for; nobody is verified without one; no request undoes another's change |
| Limiters, `routers/auth.py:116-155`, `cms.py:329-371`, `chatbot.py:58-61`, `197-204` | per-worker deques and lockouts, lost at a restart | check, record, clear | portal login, console login, chatbot | the check and the record of the portal login are on two sides of an `await` | no minute of a worker lets in more than its limit; a lock is earned, and stops what comes after it but for its last fraction of a second |
| Users, `routers/users.py` | `users` rows | onboard, update, delete, reset | accounts, exclusions | live tokens carry the old role; foreign keys block deletes | the primary admin stays |
| CMS console, `routers/cms.py` | none: GitHub keeps the files, browsers the versions | get, list, save, delete, upload | GitHub contents API | optimistic concurrency by blob sha between editors, lost and late answers, developers who push | an edit never overwrites a version its author has not seen, an upload none but the one it looked up; what an editor is told happened, happened, once |
| Pricing tool, `routers/pricing_tool.py` | `visitors`, `merchants` rows | extract, public_extract, proposals | providers, storage | failures of the file store and of two flushes are swallowed and the session goes on | a database error leaves no row; the answer agrees with what was stored (a visitor may be saved without a merchant, when the merchant's values do not convert) |
| Consensus, `services/ai_providers.py:919-1146` | none | merge of the readings | audit, pricing tool | readings arrive in any order, miss fields, disagree, hold words for figures, list totals among details | the merge lies between the readings, up to its rounding, whoever came first; the order of arrival decides neither figures nor what is a total; certified means close |
| Price rules, `services/pricing_ai.py` | none | validate, merge of opinions | quotes | two tables of floors, caps by program and state, votes and shares that are rounded | floors are consistent; a certified recommendation is unanimous |
| Quotes, `routers/quotes.py`, `services/quote_pdf.py` | `quotes` rows, PDFs in R2 | create, list, get, status, delete, validate, analyze | price rules, R2 | stale rows, a second commit whose failures are swallowed, a deletion in between, tokens of an earlier role | an answer is true; staff see their own quotes without the inside terms; no write undoes another |
| Processor ranking, `services/provider_selection.py` | none | rank | nothing calls it | | |
| Chatbot, `routers/chatbot.py` | per-worker buckets | message | limiters, provider | limiter as above | bounded rate |
| Visitors, statements, storage, exclusions, health, e-mail | independent rows or none | insert, list, sign | database, R2 | little | plain |

The lines at which each hazard bites are in `PROJECT.json` under `hazards`,
with the properties that cover them or the reason why none does.

## 2. The modules

| Module | Contents |
|---|---|
| `AuditRun` | `POST /api/audit/run` with every row it shares, and the other operations on those rows |
| `AuditRunProofs` | all its safety properties: types, jobs in progress, ownership, cache authority, evidence, one statement behind what is linked |
| `ProviderQuorum` | `run_audit_all_providers`: caps, retries, quorum, cancellation |
| `ProviderQuorumProofs` | its safety properties |
| `Figures` | counts, sums, extremes, ranks and rounded means of the numbers that providers or rows give |
| `FiguresProofs` | the facts about them that the other proofs use |
| `Consensus` | the merge of what the providers of a run return, as pure operators; extends `Figures` |
| `StatementLead` | an upload to the pricing tool, from the file to the saved lead; extends `Consensus` |
| `StatementLeadProofs` | all its properties, those of the merge included |
| `Accounts` | the endpoints of `auth.py` and `users.py` that write accounts and links |
| `AccountsProofs` | all its safety properties |
| `LoginLimiter` | login and seeding, with the limiters of portal, console and chatbot |
| `LoginLimiterProofs` | all its properties |
| `VersionedStore` | what the CMS console promises, in one page |
| `CmsConsole` | the console over GitHub's contents API |
| `CmsConsoleProofs` | its safety properties, and that it implements `VersionedStore` |
| `Pricing` | price rules and the merge of opinions, as pure operators; extends `Figures` |
| `QuoteDesk` | the endpoints of `quotes.py`; extends `Pricing` |
| `QuoteDeskProofs` | all its properties |
| `MC...` | values of a module's constants for TLC |

An operator whose comment starts with "Variant:" is a plausible wrong form of
the operator after it. No action uses a variant; each serves to confirm that a
property is sensitive to that part of the code.

### AuditRun

Variables: `jobs`, `merchants` and `log` are the tables; `engine` is the
`ENGINE_VERSION` of the newest deployment (a request keeps the one of the process
that received it in `ver`); `clock` orders `created_at`; `req[r]` holds the
locals of the handler of request `r` that survive an `await`. A request
creates at most one job and one merchant, so the row a request creates takes
the request for its id.

| `req[r].pc` | Where the handler is | Actions from there |
|---|---|---|
| `idle` | not received | `DedupHit`, `DedupMiss`: steps 1-3, one read and, on a hit, one commit |
| `open` | before the commit of step 4 | `OpenJob` |
| `analyze` | storing files and awaiting the providers | `Analyze`, `AnalyzeFails` (the `except` branch) |
| `match` | before the queries of steps 6b and 7 | `Match` |
| `persist` | before the final commit | `CommitHit`, `CommitSave`, `CommitRejected` |
| `refresh` | after the commit, before `db.refresh(merchant)` | `Finish`, `FinishFails` |

`DbError` and `Crash` take a request from any of these; `DeleteMerchant`,
`UpdateMerchant` and `Deploy` happen between any two steps.

Details of the code that decide how the system behaves, and that the model keeps:

* `job.merchant_id = merchant.id` (line 489) and the `analyze` row (line 500) read
  the key of a new merchant before the flush that fills it in. `IdBeforeFlush` is
  therefore NULL for a new merchant: its job stays unlinked.
* `merchant_values` is written to a merchant that is refreshed in place, its
  revision columns included, and the revision check is skipped for it.
* The `upload` row is added before the analysis and committed with whatever
  commit comes next: the outcome's, or the `except` branch's.
* The `except` branch does not roll back. After a failed flush its own commit
  raises, so the job stays `processing` (`CommitRejected`).
* When R2 is configured, the flush of the job's new files (line 282) takes the
  lock of the job's row until the commit: `Unlocked` keeps a second request on
  the same job out. Without R2 there is no such lock. Reading `Match` after that
  flush is why its guard asks for the lock.
* A result of two or more providers is a consensus, which has no
  `merchant_number` (`Extracted`).
* The form has a field for the statement's date, and what is typed there takes
  precedence (lines 144, 161-162, 294): `req[r].typed`, any of `Typed[f]` or nothing,
  and `StatementDate`, which the entity query, the revision query and the merchant's row
  use. The extraction keeps the period it read. Nothing compares the two, so a scan of
  February typed as March is answered from March's record, or rewrites it, whenever
  the figures agree. The properties say what is left: whatever is linked is of one
  account and one merchant number, and of one period if the account typed no wrong one
  (`Careful`, `Like`).

### ProviderQuorum

`task[p]` is the asyncio task of provider `p` (`calling`, `backoff`, or how it
ended), `results` and `errors` are what the `as_completed` loop has collected,
`pc` is `waiting` in the loop, `closing` in the `finally` block, then `returned`,
`raised` or `aborted`; `now` is the time since the start. `TransientFailure` and
`Retry` are the one retry of `_attempt`, `Expire` the `wait_for` of `_run` over
both attempts, `Unwind` the effect of `t.cancel()`, `Abort` a cancellation of the
run itself. A task whose cancellation has been requested may still end with an
answer it already had.

### Accounts

`users[e]` is the account of address `e`, `links[r]` the row of
`email_verification_tokens` that request `r` has committed, `req[r]` the rows a
handler has loaded and what it will write. A row is named by the request that
makes it, and so is a password (`pw`): two passwords are equal exactly if one
request set both. `self` says who created the account (`created_by`).

| `req[r].pc` | Where the handler is | Actions from there |
|---|---|---|
| `idle` | not received | `Create` (register, create_user), `Ask` (forgot_password, resend_verification), `Follow` (verify_email, reset_password: the token query), `ChangePassword`, `AdminReset`, `AdminUpdate` |
| `insert` | before the commit of a new account | `Insert`, `InsertRejected` (the unique index) |
| `link` | before the commit of a new token | `AddLink` |
| `account` | between the token query and the user query | `FindAccount`, `NoAccount` |
| `write` | before the commit of changes | `Write`, `WriteRejected` (no row is matched) |

`Expire`, `DeleteUser` and `Lose` (a session that ends without a commit) happen
between any two steps. Two facts of SQLAlchemy decide the outcome of a race, and
`Flushed` and `Present` keep both: a flush writes only the columns whose new
value differs from the one *loaded* (whatever the table holds by then), and it
raises if the row it updates is gone. A registration is two commits, a
verification or reset is one.

### LoginLimiter

A *gate* is the limiter of one worker. `bucket`, `fails` and `lock` are its
dictionaries of deques and of unlock times, `seeded` is the `_seeded` of
`auth.py:52`, `accounts` the rows of `users`, `req` the portal logins that wait for
the database, `now` the clock. `admitted`, `misses`, `before` and `fault` are history.

| `req[r].stage` | Where the handler is | Actions from there |
|---|---|---|
| `idle` | not received | `Arrive`: to the seed if it is the first of its worker, otherwise throttle and lock |
| `seeding` | in `_seed_defaults`, whose flag is already set | `SeedCommits` (then throttle and lock), `SeedFails` |
| `checked` | between the check of the lock and the record | `Evaluate`: failure recorded, refused without a record, or cleared |

`ConsoleLogin` and `ChatMessage` have no `await` between check and record and are one
step; `Restart` empties a gate and ends its logins. `Tick` is the least time that
passes, and a second has `Second` ticks. A clock of ticks keeps what decides at the edge
of a window: `bucket[0] < now - 60` keeps a time stamp that is exactly as old as the
window. It also keeps the conversion of `_lock_seconds_remaining`: `Remaining` is what
`int()` leaves of the rest of a lock, and `Locked` whether that is zero. In the last
fraction of a second of a lock the lock still stands (`Stands`) and stops nobody.
`Recent` drops what the loops of the code pop: old time stamps from the left, up to the
first that is not.

### CmsConsole and VersionedStore

The service keeps nothing between calls. `site` is the content of each file at
the head of the branch, `req[e]` the write editor `e` has under way, `late` the
writes the service has given up and that GitHub may still carry out, `told[n]` the
answer to write `n`. `seen` (contents shown to an editor, or written) and
`landed` (commits a write made) are history. A blob's sha is a hash of its
content, so the content stands for it. `found[n]`, history too, is what the lookup of
upload `n` fetched.

| `req[e].stage` | Where the handler is | Actions from there |
|---|---|---|
| `idle` | no write | `get_file`, `list_folder` (one call, answered), `put_file`, `delete_file`, `upload_media` |
| `lookup` | `upload_media` asks for the sha of its target | `Lookup` |
| `sent` | the PUT or DELETE is on its way | `Apply`, `Reject` (`_gh_error`) |
| `applied`, `conflict`, `missing`, `failed` | GitHub's answer is on its way | `Answer` |

`GiveUp` (timeout or broken connection) takes a write from any of these: it
may have been applied, be lost, or land later (`Late`). `Push` is a developer. A file
the console must not write (`validate_content_path`) is in `Paths` and not in
`Editable`. An upload is sent with the sha that the service itself has just fetched, which
no editor is shown: an upload whose slug is that of an image its author has never seen
replaces it.

`VersionedStore` says what this amounts to: a client replaces a file only in a
version it knows, an upload replaces one in the version it fetched, and either creates
one where there is none. `ImplementsVersionedStore` maps `site`, `seen` and `found` to
its variables; every other step of the console is a stutter or a look there.

### Consensus and StatementLead

`Consensus` translates `_build_consensus`, `_recategorize_line_items` and
`_reconcile_line_items`: `Merged(reports)` is the dictionary a run of two or more
providers returns, of reports in order of arrival. Figures are integers in units of
which a hundredth has `Fine`: readings are finer than the hundredths a merged figure is
rounded to (`ToHundredths`; `Rounded` rounds half to even, as `round` does), so a mean or
a median may lie half a hundredth outside the readings, while a single one is kept as it
is. The values of a field are a function on
the providers that give one (`Values`), the merged lines one on the places at which
they were read (`Lines`), and a sorted list is asked for by rank (`Ranked`), so that
one set of operators, `Figures`, serves values and rows, and opinions in `Pricing`.
`NULL` is a field a provider left out, `TEXT` one it filled with words: arithmetic on it raises (`Mergeable`), though a
single one is handed through.

`StatementLead` is one request to `/extract` (`kind = "staff"`) or `/public-extract`:
`Store` (R2), `Reads` and `EndRun` (the providers, by arrival), then for the public
one `AddVisitor`, `AddMerchant` (each with its swallowed failures), `Commit` and
`Grade`. The fact that decides `LeadWhole` is SQLAlchemy's: a flush that fails rolls
the transaction back and the session refuses further work until a rollback,
so the visitor is lost with the merchant and the commit raises; a value that does not
convert, on the other hand, skips its row alone, and one that the grade needs (the rate,
the volume) fails the request after the commit. The key of the R2 object
is kept when the upload returns `False` (`stored` and `key` are independent).

### QuoteDesk and Pricing

`quotes` is the table, `files` the quotes whose PDF is in R2, `req[r]` what a
request has read and where it stands. `held` is history: the statuses its row has had
since it read it. A token carries the role of the time it was issued.

| `req[r].stage` | Where the handler is | Actions from there |
|---|---|---|
| `none` | not received | `Create` (to its first commit), `OpenStatus`, `OpenDelete`, `Look` (get and list) |
| `refresh` | before `db.refresh` of a new quote | `Refresh` |
| `pdf` | generating, uploading and linking the PDF | `Pdf` |
| `write`, `remove` | before the commit of a status or deletion | `SetStatus`, `Delete` |
| `told` | answered | `Leave` |

Each commit may fail, succeed, or succeed with its answer lost. `Validate` and
`Analyze` read and write no quote; their answer is `advice`, from the operators of
`Pricing`. `Analyze` checks the price as one of program `all`, in Colorado, at
interchange plus, since the schema of `/analyze` has none of the three.

### How the models meet

`AuditRun` and `Accounts` write no table in common; an account is a constant of
`AuditRun` (`Users`). `AuditRun` and `ProviderQuorum` meet in one place: `Reading`
in `AuditRun` (how many results, and whether `_errors` names a provider) is what
`ProviderQuorum` shows a run to return. `EveryProviderAccounted` is the fact its
definition relies on: without errors a run holds exactly a quorum of results.
`StatementLead` composes the arrival of results, in the order and up to the number
`ProviderQuorum` allows, with the merge of `Consensus`, and `QuoteDesk` its endpoints
with the rules of `Pricing`. `LoginLimiter` and `Accounts` share the table of users:
the login reads it, and its one write to it (the seed) inserts an account nobody
else makes.

## 3. The runs

Every run is complete: TLC explores all reachable states within the bounds below,
with no state constraint. Deadlock checking is off because the uploads, logins and
writes of a run are finite, and a system that has answered them all does stop; that
nothing stops early is what `JobsSettle`, `RunEnds` and `RequestsEnd` check.

| Run | Instance | Shows |
|---|---|---|
| `audit_statements` | 3 uploads of an account, files A and B (two scans of one statement), D (another period of the merchant) and E (the same period of another merchant), the period of A typed for D or nothing typed, 1 provider, 2 engine versions | `CacheAuthority`: what a cache serves is clean, of the serving engine and logged; `EvidenceComplete`; `SameStatementServed`, `RevisionGroupsOneStatement`, `RefreshKeepsStatement`, `RescanRecognised`. 4.6 million states |
| `audit_progress` | 2 uploads, 2 accounts, files A and B, a wrong period typed for B, 2 providers with partial results, 2 engine versions, an editor, 1 lost request | `IndInv` (the invariant of the proofs), `OwnRecordsOnly`, `NoOrphanProcessing`, `JobsSettle`. 1.5 million states |
| `quorum_run` | 4 providers, caps 2 and 3, pause 1 | `IndInv`, `NoTaskLeft`, `EveryProviderAccounted`, `EndsWithinCaps`, `RunEnds`. 3.1 million states |
| `accounts_run` | 4 calls on 1 address, links that expire, deletions, lost sessions | `IndInv`, `VerifiedByProof`, `SpentLinkTookEffect`, `FlagsKept`, `AddressKept`. 300 thousand states |
| `login_run` | 3 overlapping portal logins on 2 workers, console and chatbot, 2 names, 5 ticks of half a second, a restart | `IndInv`, `RateKept`, `LockStops`, `LockEarned`, `SeedTakes`. 910 thousand states |
| `cms_run` | 2 editors, an editable file and one that is not, 2 contents, 2 writes, a push | `IndInv`, `AnswersTrue`, `OneCommitPerWrite`, `ImplementsVersionedStore`, `RequestsEnd`. 980 thousand states |
| `lead_run` | 3 providers, 6 readings with 12 figures and up to 4 lines, in half hundredths | `FiguresBetweenReadings`, `ArrivalDecidesNothing`, `ArrivalDecidesNoTotal`, `CertifiedNearAll`, `LeadWhole`. 3 thousand states |
| `deal_run` | 2 requests, 2 quotes, 4 tokens of 2 users, 2 statuses; 2,688 deals at and about every floor and cap, up to 3 of 6 opinions | `AnswersTrue`, `StaffSeeOwnTerms`, `WritesKeepOthers`, `FloorsNested`, `ProgramBacked`. 980 thousand states |
| `audit_reuse`, `audit_revision`, `accounts_single_use`, `accounts_temporary` | as small as shows the point | violations, section 5 |

Why the bounds are enough. Three uploads are the least that fill a cache, make
the cached row stale or ambiguous (a second job or a second merchant for the
same key) and read it; a cache that is read never depends on more than one job
and one merchant. Two engines distinguish fresh from stale. The figures are 100,
104 and 120: equal, within 5% and beyond it. The four files of `audit_statements` have all
pairs that a key can confuse (one statement, one merchant number, one period, neither); the
period typed for D is the one of A, or another one than that of the file in
`audit_progress`, where the rows of two accounts are told apart. One provider is the only
configuration in which a merchant number survives a full run, hence the one
where entity match and revision check are active for clean results; two
providers add consensus and partial results. Three of four providers is
the smallest case in which the quorum is not everybody, and caps of 2 and 3
with a pause of 1 let a retry start before, at and after a cap.
Four calls are the least in which an account is made, sent a link and has two
handlers race for it, or is deleted and made again while an old link is
followed. One address is enough: a handler touches one account, which it finds by
address or by id, and ids are unique (part of `IndInv`, proved for any number of
addresses).

Three logins are the least in which two fail and lock a name while a third is under
way; `MaxFails` and the limit of an address are 2, and 5 ticks hold two windows of a
minute (1 tick) or a lock (3 ticks: a whole second and a fraction of the last).
Two writes are the least that conflict, and each may be answered, lost or late; a push in between makes a version neither editor
has seen. Three providers give means and medians of two and of three values, and every order
of arrival. The readings have figures that agree within 5%, that do not, that are missing
and that are words, with means and medians between two hundredths; seven volumes that
move together, so that ten shared fields are certified with one astray; lines that are
named a total, that sum others under another name, that repeat a total, and that
contradict another provider's. Two requests on two
quotes are the least in which one deletes or links what another has read; one user
holds an old administrator's token and one of today.

`deal_run` asks for advice once, before there are quotes (`MCSpec`): advice and
quotes have no variable in common, and no step of one disjunct of `Next` depends on
the other. `cms_run` starts with a fixed content of the file that is not editable.

Symmetry is used for requests, workers and providers in runs without liveness; the constants
of those runs do not distinguish the elements permuted.

Bounds, all named: `MaxEngine` (deployments), `MaxLost` (crashes and database
errors), `Edits` and `Typed` (what an editor, or a user into the form, types),
the sizes of `Requests`, `Users`, `Files`,
`Providers` and `Emails`, `Editors`, `Tokens` and `Ids`, `MaxWrites` and
`MaxPushes`, `MaxAttempts`, `MaxRestarts` and `MaxTime`. `clock` is bounded by the
rows that requests can create, `now` by the caps.

## 4. Fairness

`AuditRun`: weak fairness of `Progress(r)` for each request. The event loop
runs every coroutine that can go on, and the only long wait, on the providers, is
bounded by wall-clock caps (`ProviderQuorum!RunEnds`). Nothing makes an upload,
a deployment, an edit, a crash or an error happen. `JobsSettle` excludes jobs
whose request was lost: the code has no sweep that would settle those.

`Accounts`: none; its properties are safety. A registration whose session is lost
after its first commit is never completed by the code, so no liveness is claimed.

`ProviderQuorum`: weak fairness of `Tick` (time passes) and of `EventLoop` (what
the loop itself does: expire, unwind, collect, finish). There is none on `Answer`
or `Retry`: a provider may hang for ever, and `RunEnds` holds all the same.

`CmsConsole`: weak fairness of `GiveUp(e)` for each editor. Every call to GitHub has
`GITHUB_TIMEOUT`, so it is the client library's timer, not GitHub, that ends a
request in the last resort. There is none on GitHub's side: `Apply`, `Reject` and
`Answer` may never happen, and `RequestsEnd` holds all the same.

`LoginLimiter`, `StatementLead` and `QuoteDesk`: none; their properties are safety.

## 5. Disagreements between the code and its comments

| Run | Comment | Code |
|---|---|---|
| `audit_reuse` | audit.py:234-236, re-extraction "never creates a duplicate record" | The first job is never linked to its merchant (line 489 reads the key before the flush), so re-extracting the same bytes inserts a second merchant |
| `audit_revision` | audit.py:415 and models.py:95, a revision is flagged and kept | Refreshing a flagged record in place resets `is_revision` and `revision_group` |
| `accounts_single_use` | auth.py:361 and models.py:257, reset tokens are single-use | Two requests with one link read it as unused before either commits; both are answered and set a password |
| `accounts_temporary` | users.py:173, after an administrator's reset the user must change the password at the next login | If the account already had to change it and a change of password commits between the load and the commit of the reset, the flush leaves the flag out as unchanged: the temporary password stands with the other request's `False` |

Met while modelling, and not given a run of their own:

* `audit.py:328-333` has a rescan answered from the stored result. With two
  providers or more the consensus carries no `merchant_number`
  (`ai_providers.py:1076`), so neither the entity lookup nor the revision check
  runs; `RescanRecognised` holds with one.
* `audit.py:92-93` calls a run in which every configured provider returned reusable.
  With four providers the loop stops at three results, `_providerCount` is 3, and
  `_cache_is_fresh` accepts none.
* `ai_providers.py:1136` certifies a consensus in which no two providers share a field.
* `pricing_ai.py:20` says of the floors that the system blocks and nobody overrides;
  `create_quote` does not look at them (`QuoteDesk!Create`), only the two advisory
  endpoints do.
* `pricing_ai.py:316` drops a chance of winning of 0 as missing, and one provider
  whose tips are not a list makes the merge of all raise (`Pricing!Answered`).
* `pricing_tool.py` answers `_saved: True` also when neither row converts and
  nothing was saved; `_merchant_id` is the field that tells (`LeadWhole`).
* A deleted quote leaves its PDF in R2 (`QuoteDesk!Delete`).

## 6. Proofs

All theorems hold for any sets of requests, accounts, files, readings, providers and
addresses, from the named assumptions on the constants only: `NullAssumption`,
`RecordAssumption` (NULL is no row), `RequestsAssumption` (finitely many),
`FigureAssumption`, `ConfiguredAssumption`, `BoundAssumption`, `R2Assumption`,
`ReadingsAssumption` (of `AuditRun`: section 7; of `StatementLead`: finitely many
providers, and figures that are integers, words or missing), `TypedAssumption` (periods
are typed from `Dates`), `ConsoleAssumption`,
`LimiterAssumption` (limits and windows are positive, and a deque keeps at least as
many times as its limit: 200, in the code), `FieldsAssumption` (no more than the 28 fields of the code,
and whole units in a hundredth),
`DeskAssumption` (`draft` is a status, the types of deals and opinions, and at most
four opinions: `analyze_deal` knows four providers); `NoRequestAssumption` and
`NoRowAssumption` (NULL is none of the values it stands for the lack of);
`ProvidersAssumption` (finite and not empty, as the code raises before any call without
keys) and `CapAssumption`. TLC evaluates each on every run. `RescanIsRecognised` alone
has hypotheses of its own, those under which the code keeps a merchant number: one
provider, and no editor who retypes it. `audit_statements` is such an instance.

| Theorem | Property |
|---|---|
| `TypeCorrect` | `TypeOK` and `LocalsInStep` |
| `NoOrphan` | `NoOrphanProcessing` |
| `RecordsAreOwn` | `OwnRecordsOnly` |
| `CacheIsAuthority` | `CacheAuthority` |
| `EvidenceIsComplete` | `EvidenceComplete` |
| `ServedIsOfStatement` | `SameStatementServed` |
| `RevisionsShareStatement` | `RevisionGroupsOneStatement` |
| `RefreshIsOfStatement` | `RefreshKeepsStatement` |
| `RescanIsRecognised` | `RescanRecognised`, of one provider and without edits |
| `Inductive` | `IndInv` of `AuditRun` |
| `RunInvariant`, `RunKeepsCaps` | `IndInv` and `EndsWithinCaps` of `ProviderQuorum` |
| `RunIsOrderly` | `TypeOK`, `NoTaskLeft` and `EndsWithinCaps` of `ProviderQuorum` |
| `ProvidersAccounted` | `EveryProviderAccounted` |
| `AccountsInductive` | `IndInv` of `Accounts` |
| `VerifiedWithProof` | `VerifiedByProof` |
| `LinksTakeEffect` | `SpentLinkTookEffect` |
| `FlagsStay` | `FlagsKept` |
| `AddressesKept` | `AddressKept` |
| `LimiterInvariant`, `LocksStop`, `SeedingTakes` | `IndInv`, `LockStops`, `SeedTakes` of `LoginLimiter` |
| `RateIsKept`, `LocksAreEarned` | `RateKept`, `LockEarned` |
| `ConsoleInvariant`, `AnswersAreTrue`, `WritesCommitOnce` | `IndInv`, `AnswersTrue`, `OneCommitPerWrite` of `CmsConsole` |
| `ConsoleImplementsStore` | `ImplementsVersionedStore` |
| `UploadInvariant`, `LeadsAreWhole` | `LeadInv`, `LeadWhole` of `StatementLead` |
| `MergeInvariant` | `DataInv` of `StatementLead`: what the extraction is made of |
| `FiguresStayBetween`, `OrderDecidesNothing` | `FiguresBetweenReadings`, `ArrivalDecidesNothing` |
| `OrderDecidesNoTotal`, `CertifiedMeansClose` | `ArrivalDecidesNoTotal`, `CertifiedNearAll` |
| `DeskInvariant`, `AnswersAreTrue`, `StaffSeeTheirOwn`, `OthersAreKept`, `FloorsAreNested` | `IndInv`, `AnswersTrue`, `StaffSeeOwnTerms`, `WritesKeepOthers`, `FloorsNested` of `QuoteDesk` |
| `ProgramsAreBacked` | `ProgramBacked` |

The argument for `AuditRun`. None of the properties is inductive: they speak of
what was served, and a step may serve anything a job, a merchant or a request's
locals hold. `IndInv` therefore says of each of these what may be in it:

1. `LocalsInStep`: which locals are set at which step, and that a request's job
   exists. Proved with `TypeOK`; with it each step stays within the types.
2. `OneOwner`: the row a request created has the request's account (`JobOwned`,
   `MerchantOwned`), and whatever a job or a request refers to was created by a
   request of the same account (`RequestOwned`). The queries are the only way a
   reference enters (`PlanIsOwn`); deletes keep it since a referenced row cannot
   be deleted. `OwnRecordsOnly` is a consequence.
3. `LoggedSource`: the data of a job was logged by an `analyze` row of the
   request that extracted it, and a request about to answer from the entity cache
   holds fresh, logged data. The log only grows (`LogGrows`), so `CacheAuthority`
   and `EvidenceComplete` follow when an answer is given and stay.
4. `OneStatement`: the bytes behind whatever is linked are `Like` each other: of one
   merchant number, and of one period if the account has typed no wrong one. A job is of
   the bytes its request uploaded; its data, its merchant, and what a request holds or
   serves were read from those bytes or from bytes like them. `Like` is an equivalence
   of the files of an account, by its definition over `Statement`; that an account is
   careful can only end, so a link once made stays as good as the property asks. A blank
   period fits any two files, which is why the invariant does not chain one link to the
   next there: a revision's group is tied to the record of the request it names
   (`Groups`). `RecordRead` says what the columns of a record were read from, so that
   equal columns mean files alike. `SameStatementServed` and `RevisionGroupsOneStatement`
   follow; `RefreshKeepsStatement` compares the two sides of the one step that rewrites a
   merchant in place.
5. `RescanRecognised` needs 4: a record that nobody retypes shows what its file was read
   as, and of a careful account the period is that of the file whether typed or read, so
   a stored rescan is among the candidates of the entity lookup, and a finite set of
   candidates has a newest.
6. `NoOrphanProcessing` needs 1 only: a job becomes `processing` at a step that
   makes its request working, and stops being so at the step that ends the work.

The argument for `ProviderQuorum`: `Collected` (what was collected has ended, and
once only) and `Decided` (the run waits while it lacks a quorum and an outcome,
and goes on with exactly a quorum or with all outcomes). The crucial step is
`CollectStep`: one outcome raises the number of results by at most one,
so the loop leaves at exactly the quorum. `EndsWithinCaps` is kept by `Tick`,
which cannot pass the cap of a provider that still runs.

The argument for `Accounts`. A handler writes what it made of a row that may have
changed, so the invariant relates its locals to the tables as they are now.
`AccountsCreated` and `LinksCreated` make ids unique: an account has the id of the
one request that created it, which has this address. `Loaded` says what a
handler may write and, in its last conjunct, that an account loaded as verified
is still verified if it is there, unless an administrator said otherwise: a
`verify` that found the flag set flushes nothing for it, and the link it spends
would have no effect without this. `Grows` collects what no step takes back
(creations, an administrator's settings, links sent and spent); `NextInvariant`
shows each action to keep `IndInv` and to satisfy `Grows`, and the locals of the
handlers that do not move stay right by `Grows` alone (`FitsKept`).
`AddressesKept` is then a consequence of `Grows`; `FlagsStay` follows from
`Loaded`, as a flag that changes is a column whose loaded value differed, and
there are only two values.

The argument for `LoginLimiter`. While a name is locked, each login past the check
was so when the lock was set: a new one does not pass, and the step that sets the lock
records those under way. Time only ends locks: what is left of one, in whole seconds,
never grows, so a name that is locked was so since the lock was set. For the seed, a login that found the
administrator's account may commit nothing, and is right only because no account
is deleted by the models' actions: `SeedsKnown`. The counts are in `CountInv`: a bucket
is the end of the list of all that was let in, what it has dropped is too old to count,
and each request comes more than a minute before the `Limit`-th after it. The last
conjunct is `RateKept` in a form that a step keeps: a request is let in while the bucket
is shorter than the limit, so the one `Limit` before it has been dropped as too old.

The argument for `CmsConsole`. `WritesInHand` and `LateWrites` say of each write on
its way that its number is its own, unanswered or given up, that it made no commit
before GitHub applied it, and that its version is `Named`: one its author has seen, or for
an upload one in `found[w.n]`; `Settled` follows for what editors were told. With this
invariant each step maps to a step of the store (`StepRefines`): the commit of an edit is
a `Replace`, since `w.sha \in seen[w.by][w.path]`, the commit of an upload an `Upload` in
the version its lookup fetched, and the lookup a `Fetch`.

The argument for `StatementLead`: `LeadInv` says what may be flushed and committed at
each stage. The argument for `QuoteDesk`: `IndInv` relates the row a request holds to
the table as it is now (its id was given out, its author is the row's if the row is
there, its status is among those held since). A step on one quote keeps what other
requests hold (`StillFits`, `FitsNoting`). `FloorsAreNested` needs no
induction over steps but `FloorsOrdered`, the two tables compared plan by plan.

The argument for the merge and the advice. They are functions of what arrived, and
`DataInv` says that the extraction is their value at the readings that did. What they
compute for any number of readings takes an induction, and the prover has no induction
over data; it can, however, use that `<` is well-founded on the naturals. So
`FiguresProofs` proves once that a set which has 0 and with each number the next has them
all (`Stepwise`), and applies it to the set of sizes for which a claim holds of all sets
of that size: the recursion of `Sums` has a solution (`SumsUnfold`), any number may be
taken out first (`SumsTake`), a sum lies between bounds (`SumsBounded`), there are
extremes (`Extremes`) and every rank is taken (`RankExists`), and renumbering changes
neither sum nor ranks (`RenumberedSum`, `RenumberedSame`). With `RoundedWithinHalf` and
linear arithmetic `FiguresBetweenReadings`, `ArrivalDecidesNothing` and `ProgramBacked`
follow: below ten providers a rounded share of 90% is all of them. For `CertifiedNearAll`,
of `n` shared fields with `k` in agreement, `100 * k` is at least `90 * n` less half an
`n`; with `n` no more than 28 this leaves `10 * (n - k)` no more than `n`, and each field
that agrees is in the band. For `ArrivalDecidesNoTotal` two orders of arrival keep the
same lines under other places: where nobody contradicts anybody on a line, the line kept
of a name is the same one (`ReorderedLines`). Between the two merges there is then a
renumbering of the lines, and every set, sum and largest amount in the reconciliation is
that of the renumbered one (the lemmas `Moved...`).

Only model-checked: `JobsSettle`, `RunEnds` and `RequestsEnd`, as liveness under
fairness is beyond the prover. Every other property of a run that passes is a theorem.

## 7. Abstractions

* A request is an upload that passed the 400 checks; the model starts at the
  byte lookup. A file is its SHA-256.
* The reads of steps 6b to 8 are one step (`Match`); what may change between it
  and the commit is kept apart from it. Commit and refresh of the job in step 4
  are one step, as are R2 uploads, whose result the handler ignores, and the run
  of the providers.
* One figure stands for volume and fees, which the code compares in the same way.
* Owner id and owner e-mail name one account.
* `ReadingsAssumption`: a file shows one statement, `Statement[f]`, and providers may
  leave its merchant number or its period blank, but do not read another. Without it no
  property about statements could hold.
* A date typed in another format than the one the extraction is normalised to
  (`_normalize_month`) is one more member of `Dates`: it equals no other, in the code as
  in the model, and counts as a wrong one in `Careful`.
* Merchants made by `POST /merchants` have no merchant number and no hash, and no
  query of `run_audit` returns them, so they are not in `merchants`.
* A database error takes the request without a handled outcome: the failed session
  makes the `except` branch's commit fail too. A crash stands for a killed worker
  and for a cancelled request.
* In `ProviderQuorum` timers fire on time and the unwinding of cancelled tasks
  takes none.
* In `Accounts` a call that is refused after a read (excluded or taken address,
  wrong password, unknown or expired link, an address that gets no mail) changes
  nothing and is not a step, but for `NoAccount`, which is reached between two
  reads. The names, roles and tiers `update_user` also sets decide nothing there.
* `Emails` leaves out the address of the primary admin, which `delete_user`
  refuses. An account that audit jobs refer to cannot be deleted either; that
  refusal changes nothing.
* A failed or lost session of `Accounts` is `Lose`, whether the process died, the
  client left or a statement failed: nothing of it is committed in either case.

* In `LoginLimiter` the lookup of the user and the evaluation of the password are
  one step, as is the commit of `last_login`, which no property reads. Nobody
  deletes the administrator there (`delete_user` refuses to). Hashing takes no time
  of its own.
* In `CmsConsole` an editor sends any version one of their tabs may hold. Branches
  other than the site's, and failed reads, change nothing. One site stands for each
  of the properties, which share no file.
* In `Consensus` a line name stands for what the regular expressions see in it, up to
  case and blanks (`Rule`, `Rollups`, `GrandTotals`). The three text fields (name,
  processor, month), findings and quotations are left out; of these only the month decides
  anything, the period of an audit, which `AuditRun` takes from `Readings`.
  Figures are exact; the code's are floating point, which differs in the last bits.
* In `StatementLead` the grade itself is left out; that a rate or a volume in words
  raises there is kept.
* In `QuoteDesk` a page or a filter of a listing is any subset of the quotes the
  caller may open. Ids of the sequence are never given out twice. Statuses are those
  `update_quote_status` accepts.

## 8. Not modelled

* Generated proposals and the quick extract of the pricing tool: texts from one or
  several provider calls, with no state and no rows.
* JSON salvage, prompts, page rendering and downscaling in `ai_providers.py`:
  conversions of text and images, where a model would be a transliteration.
* `provider_selection.py`: no endpoint uses it.
* The chatbot beyond its limits, e-mail, signed URLs: one outgoing call each.
* Visitors, exclusions, statements: inserts, deletes and listings of independent rows.
* Password hashing and token signing: pure functions. That a token keeps its role
  until it expires is a hazard in the list, and `deal_run` has such a token.
* Request schemas, migrations, scripts, the layout of PDFs, the wording of messages
  and the front end.
