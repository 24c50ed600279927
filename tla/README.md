# A TLA+ model of LogHQ

LogHQ takes log entries over HTTP, keeps the recent ones in a SQL database (the *hot* tier), moves
older days to Parquet objects on S3-compatible storage (the *archive*), and serves both to a
dashboard and to read keys. Around that core are projects with owners, members and keys, a paid plan,
alert channels, a connected repository and an analysis of errors by a model. This directory holds
TLA+ modules for the parts whose correctness depends on ordering, failure and concurrency, the TLC
configurations that check them, and theorems proved with TLAPS. Paths below are relative to the
repository's root, `src/` in `PROJECT.json`.

## 1. The system

| Component | Source | State it keeps | Operations | Modelled by |
|---|---|---|---|---|
| Archive exporter | `app/Archive/exporter.ts`, `partitions.ts`, `plan.ts`, `app/Jobs/ArchiveAgedLogs.ts` | `archive_partitions` (status, claim token, object path, counts), one object per (project, day), the rows of `log_entries` | plan a run, claim a day, stage it, copy, verify, mark, delete; prune a free project's day | `ArchiveExport` |
| Archive queries | `app/Archive/query.ts`, `sql.ts`, `routes/analytics.ts` | none; reads the ledger, the hot tier and Parquet | chart, paged search, retention panel | `ArchiveQuery`, `LogPaging` |
| Archive storage and DuckDB | `app/Archive/storage.ts`, `duckdb.ts`, `config.ts` | a child process and two timers per call | run a script, read, write and delete objects | `DuckDb`; the deletes in `ProjectDeletion` |
| Project deletion | `routes/projects.ts` (DELETE), `purgeProject` | all of a project's tables and objects | delete objects, ledger, children, project | `ProjectDeletion` |
| Log ingest | `routes/logs.ts`, `app/Logs/normalize.ts`, `app/Errors/ingest.ts` | `log_entries` | authorise, charge quotas, normalise a batch, insert | `LogIngest`, `ProjectAccess` |
| Log stream | `routes/logs.ts` (GET) | none; the client holds a cursor | a page of the hot tier | `LogPaging` |
| Rate limits | `app/Errors/limits.ts` | a Redis counter per key, a map of windows and a breaker per process | count a hit | `RateLimit` |
| Fix with AI | `app/Fix/analyze.ts`, `resources/views/fix.stx` | `log_fix_runs` with one active run per fingerprint | start, gather evidence, call the model, finish or fail | `FixRuns` |
| Invites and members | `routes/projects.ts`, `app/Support/access.ts` | `project_members`, `project_invites` | invite, accept, remove | `ProjectAccess` |
| Project keys and reading | `routes/projects.ts`, `app/Support/read-key.ts`, `request-auth.ts` | ingest key, read key and the stamp of its last use, the active flag | rotate, issue, revoke, archive, read | `ProjectAccess` |
| Repository connection | `routes/projects.ts`, `app/Fix/repository.ts`, `github.ts` | `project_repositories` | connect, verify, disconnect | `RepositoryConnection` |
| Subscriptions | `app/Actions/StripeWebhook.ts`, `app/Actions/Payment`, `resources/views/pricing.stx` | `subscriptions` | check out, and a webhook per event | `Subscriptions` |
| Authentication | `app/Actions/Auth`, `resources/views/login.stx`, `resources/stores/session.ts` | access tokens, the cookie, challenges, the page's form and its cached viewer | sign up, in (password, second factor, provider), out | `SignIn`, `SessionStore` |
| Alert channels | `routes/projects.ts`, `app/Errors/channels.ts`, `resources/views/settings.stx` | `alert_channels` and what the page shows of it | add, toggle, test, remove | `AlertChannels` |
| Views, docs, configuration, deployment | `resources/`, `config/`, `cloud/`, ... | none | rendering | none, see section 7 |

How they meet:

- Ingest asks the rate limiter twice (per IP, per project), then stores rows under the **client's**
  timestamps. That is the one fact the archive depends on and does not control.
- The exporter reads plans from subscriptions and deletes rows that ingest writes and the stream
  reads. It shares nothing with other runs but the ledger, whose unique (project, day) index is the
  lock, and the object store, where a day has one key that every attempt overwrites.
- The query layer learns which days to read from Parquet only from the ledger (`status = 'deleted'`),
  so the order of the exporter's marks and deletes decides what a query sees. `ArchiveQuery` is
  composed with the exporter itself.
- A COPY, a read back and a search are calls of DuckDB, which the callers take for a function that
  answers, or fails, and has no effect after that.
- Project deletion runs `purgeProject` and then deletes child tables, with no lock against a run at
  work, against other writers, or against itself.
- A fix run refers to a log entry by foreign key, which stands in the way of `deleteDay` and of
  project deletion on engines that enforce it.
- What a webhook wrote is what the exporter calls Pro, and what `/api/me` tells the page.

What is hard, per component, and what makes it correct:

| Component | Hard behaviour | What must hold |
|---|---|---|
| Exporter | overlapping runs, a death at any call, an upload that lies, plans and days read long before they are used, entries arriving in an aged day | no entry's only copy is destroyed; one run per day at a time; nothing is pruned that was paid for or inside its grace; an unfinished day is finished; a query finds each row once |
| Queries | three reads of two tiers while a day moves; a file cap; paging | nothing missed, nothing counted twice |
| DuckDB | a timer that fires as the child exits, a child that ignores it, messages full of brackets | one answer, about this script, and no effect after it |
| Stream and search | a cursor is all that survives between two pages | a finished walk has missed nothing and repeated nothing |
| Rate limits | INCR and EXPIRE are two calls of a process that may fail or die; several processes | a window lets through no more than its limit, and ends |
| Project deletion | two tiers and eight tables without a transaction; a run, requests that write and another deletion of the project at work meanwhile | the ledger and the bucket agree on what is there, success means that what was found is gone, the deletion ends |
| Fix runs | concurrent clicks, timeouts, death during a long call, two engines | one active run per fingerprint, and it ends |
| Members and keys | check-then-act on invites, keys replaced while in use | nobody gets in who was not asked; a withdrawn credential stops working |
| Repository connection | a proof at GitHub, then a write; a verification of a row that is replaced meanwhile | what is stored was proven; the stamp is about what is stored |
| Subscriptions | webhooks repeated and out of order, two at once | the row ends in what Stripe last decided |
| Sign-in | retries and double clicks on a challenge, a sign-out nobody waits for, an account made by two ways at once | a challenge is good for one code; a provider's e-mail is linked only if verified; no dead end |
| Alert channels | optimistic switches and one timer for all channels | buttons come back, switches show what is stored |

`PROJECT.json` lists the hazards one by one, at their lines, with the properties that cover each.

## 2. Modules

| Module | What it is |
|---|---|
| `ArchiveExport` | the exporter: every database, DuckDB and store call of `runArchive` is one action of one run |
| `LogRetention`, `ArchiveRetention` | the abstract promise (an entry is hot until it is archived for good; only an unprotected one is dropped) and the refinement mapping to it |
| `ArchiveQuery` | the chart, the search and the panel, composed with the exporter |
| `LogPaging` | the stream's and the search's keyset walks over any log |
| `DuckDb`, `ArchiveCall` | one call of DuckDB, and the plain call its callers think it is |
| `ProjectDeletion` | deletions of one project, requests that write below it, and a run at work on its days |
| `LogIngest` | normalising and clipping a batch, as operators |
| `ProjectAccess`, `AccessList` | members, invites, keys and readers, and the access list they implement |
| `RateLimit` | one quota key in Redis and in memory |
| `AlertChannels` | the channels' rows, routes and settings page |
| `FixRuns` | analyses of errors |
| `RepositoryConnection` | the connection to GitHub |
| `SignIn`, `SessionStore`, `Subscriptions` | the login page and its handlers; the viewer, the cookie and signing out; checkout and webhooks |
| `Accounts` | their composition: one visitor, one account, one payer |
| `MC...` | the small instance of each |
| `...Proofs` | theorems and proofs, one module per component; `ArchiveExportProofs` has those of `ArchiveQuery` and `ArchiveRetention` too, `ReaderProofs` those of `LogPaging` and `DuckDb`, `ProjectAccessProofs` those of `LogIngest` |

Correspondence of state and actions:

**Exporter.** A partition is a (project, day). Its ledger row is `status`, `token`, `rows`, membership in `path` (an
object path is set) and in `stale` (its `updated_at` is more than six hours old). `object[p]` is the
set of entries its Parquet object holds. A run is a process at a program point `pc` with the locals of
`runArchive`, `claimPartition`, `exportPartition` and `prunePartition`: the day it started on (`now`),
its plan (`todo`, and `tier` from the billing lookup), the partition in hand and how far it has got
(`staged`, `total`, `left`).

| Actions | Code |
|---|---|
| `ListAged`, `ListLedger`, `LookUpPlans` | the three reads a plan is made of, one after the other |
| `SkipInGrace`, `ClaimInsert`, `ClaimConflict`, `Reclaim`, `ReadBack` | grace check; INSERT, conditional UPDATE and read back of `claimPartition` |
| `AssertClaimed`, `StagePage`, `MarkEmpty`, `Copy`, `Verify`, `MarkVerified`, `Release` | `exportPartition` up to the verified mark, and copy-only mode |
| `CountDay`, `DeleteBatch`, `More`, `MarkDone` | `deleteDay` and the last mark, for both the trimming and the pruning path |
| `MarkFailed`, `ThrowInside`, `ThrowOutside`, `Crash` | the catch blocks, an exception outside them, the death of the process |
| `Tick`, `ChangePlan`, `EnableDeletion`, `Ingest`, `ClaimAges` | the day turning, subscriptions, the rollout's switch, entries arriving, six hours passing |

Each kind of fault is named in `Faults`, and a run of TLC says which kinds it lets happen and how many
in all (`MaxFaults`). `PageSize` and `BatchSize` are constants, so a day spans several of each.

**Queries.** `view` is one request with what it has read so far. A chart is `ReadHot`, `ReadLedger`,
`ReadParquet`, in the code's order; a search is `SearchLedger` and `SearchParquet` per page. `Export` is any step
of the exporter. `moved` is history: the days the exporter deleted between the chart's first two reads,
which no order of reads without a transaction can count right. `Offset` names the entries whose
timestamp no cursor may carry.

**Walks.** `LogPaging` keeps for each client the endpoint it walks, the last row of its last page (which the
cursor is made of), whether a cursor was given, the rows of the last page and of the pages before.
`FirstPage` and `NextPage` are a request of either endpoint; `Older` is the ORDER BY, `Past` the
cursor's WHERE clause, `ReadDays` the file cap, `Full` the test that decides on a cursor. Rows that arrive
late for an already archived day stay hot.

**DuckDB.** A call is `writing` its script (the await of `stdin.end()`), `waiting` for the child, or `answered`;
the child `Works`, `Completes` or `Dies` by itself or by a signal; `TimerFires` and `HardFires` are the two
timeouts. `ParseResultSets` is the scanner, character by character as the code has it, since its promise is
about brackets, quotes and backslashes inside messages.

**Quota.** `RateLimit` follows one key. `counter` and `expiry` are Redis's; `windows` and `redisDownUntil` belong to
each process; a request is at `incr`, `expire` or `ttl`, between two awaits. Timers count down in ticks, so
the model needs no clock. The counter saturates at `Cap`, above the limit and any request's count: past it
every value is refused alike. The 60 s sweep of the map is no action, since an expired window is treated as
an absent one.

**Access.** A handler of several database calls is a request at one of `Calls`; one that writes a single row is
one step. `engine` is SQLite or Postgres, which read the active flag differently. Persons are e-mail
addresses; keys are numbered in the order they were minted.

**Channels.** `listed`, `switch` and `busy` are the page's, `row` the database's; a call is sent, done at the server
or answered, and a reload leaves earlier calls unheard. `disturbed` is history: the channels for which the
page's claim is known not to hold (see section 3).

**Fix runs.** A request goes `Look`, `Insert` (or `LookAgain`), `GatherEvidence`, `AskModel`, `Complete` or `MarkFailed`,
`ReadRun`, one database call each; `Tick` moves the window in which a finished run still answers.

**Deletion.** `del[x]` is one DELETE request: the call it is at and the listed keys it has left; any number of them
overlap, and each ends `answered`, `refused` by a reference or `stopped`. Whether the bucket is configured is
settled where `purgeProject` asks. `run` is an export of one day reduced to its claim, the look for its row, staging, copy, mark and deletes (the
exporter's own module has the rest); one run is taken to be at work at a time. `writer` is a request that found the
project and then inserts below it, into a table of `Written`. `enforce` says whether the database enforces its
references. Three variables are history: `before[x]`, the rows there when `x` began; `excused`, the days whose
object lost its name by a failure or an overlap; `purged`, the days whose object a deletion removed, until one
clears the ledger.

**Repository.** A call is at one of its awaits with the name and token it has in hand. `writes` and `reads` say what
GitHub lets a token do and may shrink at any time; `proven` and `overtaken` are history.

**Accounts.** `job[j]` is a request of the login page at one of its awaits, `live` the tokens the server accepts,
`cookie` the browser's; `view` is the cached viewer. `stripe[s]` is Stripe's side, `events` what it has not yet
had answered, `row[s]` ours. `room` picks, once per behaviour, whether the visitor's form or the billing is
looked at: the two meet only in the viewer, and the product of both would be out of reach.

Some operators are marked *Mutant* or *Variant*: a definition changed the way a plausible bug would change
the code (a test dropped, an off-by-one, the wrong order). They are in no behaviour of the specifications. Each
shows that the property it is paired with in `PROJECT.json` would notice that bug.

## 3. Runs

Two pairs of small parts that share nothing are checked in one run each (`LogPaging` with `DuckDb`,
`RateLimit` with `AlertChannels`): a variable `looking` picks one part per behaviour, and the other stands still,
so neither its states nor its fairness are mixed with the first's.

| Run | Checks | What it shows and why its bounds suffice |
|---|---|---|
| `ArchiveOneDay` | `NoLoss`, `ClaimExclusive`, `NeverCountedTwice` | Two overlapping runs over one day of three rows, pages and batches of two, so that staging and deletion take two rounds each; two faults among crash, store, database and billing; the rollout starts copy-only; the plan changes. Two runs are the most that ever contend for a row of the ledger in a new way: a third finds what a second finds. |
| `ArchiveTwoProjects` | `ProNeverPruned`, `SettledDayVisible`, `UnfinishedDayFinishes`, `KeepsRetention`, `ProDayIsArchived` | Two projects with a day each, one plan that changes, a run restricted to one project, a late entry, and one fault: a failed or truncated upload, one that reports success and wrote nothing, a database error. Ownership can only be confused with two owners. No crash, without which a settled day is visible. |
| `ArchiveQuery` | `ChartHonest`, `SearchComplete`, `PanelFits` | Three days under a cap of two files, a day of two rows, pages of one, one entry with an unusable cursor, a run that archives or prunes meanwhile, two faults. Every order of the request's reads and the exporter's writes occurs, and so do a range over the cap and a page boundary inside a day and between days. The panel counts the rows of the objects that the ledger points at. |
| `LogPaging` | `StreamFinds`, `SearchFinds`, `PagesDescend`; `CallsArePlain`, `CallReturns` | Two clients, four rows on three days of which two share a millisecond, pages of one, a cap of two files under a range of three days: ties at a page boundary, the cap, and days moving in mid-walk all occur. And every script of at most two result sets with messages of up to two characters that the scanner must not trip over, a child that fails at any point, hangs, or ignores the first signal: `DuckDb` implements `ArchiveCall` and always answers once its script is written. |
| `RateLimit` | `RedisWithinLimit`, `EveryLifeEnds`, `WindowReopens`; `ChannelsSettle` | Two processes with a request each, limit 2, counts of 1 and 2, two faults of any kind; requests of one process and of two differ on Redis only in the breaker they share. And two channels, two calls under way, four clicks, one lost answer: one click more than it takes for the one timer to be taken over and taken back. |
| `ProjectAccess` | `AccessInv`, `BatchKept`, `AccessIsOffered`, `AccessDrains` | Two requests at once, the owner and one more person, four acts of the owner, which is enough to invite, remove, invite again and rotate a key in between; batches of up to two entries of every kind, at, below and above every cap, and of three of fewer kinds with room for two. |
| `FixRuns` | `FixInv`, `StrandedByFaults`, `LoserIsAnswered`, `OutcomeStays` | Two clicks at once on two shapes of errors, two runs, both engines, two faults: a failed call, a lost reply, a death, a model that does not answer. |
| `ProjectDeletion` | `DeletionInv`, `ObjectsNamed`, `OldRowsGo`, `DeletionEnds` | Two DELETEs that overlap or follow each other, two writers, a run on a day, references enforced or not, a bucket that may be unconfigured, one fault. `Written` has the entries, one of the three tables that differ in nothing but their names, and one of the two the handler does not name, the one the entries too are held by. The fault may stop a deletion or the run, or fail an object's delete; a second one stops the other deletion, which then leaves what it found. |
| `RepositoryConnection` | `ProvenBeforeStored`, `StampFitsRow` | Two requests at once, two repositories, two tokens, five kinds of pasted text; permissions revoked and `APP_KEY` rotated at any time. Callers and tokens are symmetric, and no property is temporal. |
| `Accounts` | `RowTracksStripe`, `OneCodeEach`, `NeverLinksUnverified`, `SessionsHeld`, `SignsIn`, `PaidIsShown` | Two requests at once on either side, a subscription of the account and one of a stranger, three events, two webhooks, a lost answer, a mistyped code, a sign-out, a database error. Three events are the fewest of which the last may be overtaken by the one before the last. |
| `DeleteThrows` | `NoLoss` | *Violated.* See below. |
| `FixOnSqlite` | `FailsForACause` | *Violated.* |

Sizes range from a hundred thousand states (`FixRuns`) to 1.4 million (`ArchiveQuery`), and no run takes much over two minutes.
Deadlock is checked except where a bound lets the system really run out of things to do (`FixRuns`,
`ProjectDeletion`, `RateLimit`'s page), which the configuration says.

### Disagreements with the code's own statements

- **A failed delete loses rows** (`DeleteThrows`). An error between two delete batches marks a half
  deleted day `failed`. The retry stages what is left and overwrites the object, which held the rest;
  the count check compares the new object with the new staging and passes.
- **No analysis ever succeeds on SQLite** (`FixOnSqlite`). `recentOccurrences` asks for `COUNT(*)::int`, which
  SQLite cannot parse, and production runs on SQLite (`sql-dialect.test.ts:4`; two migrations' notes say that it
  now runs on Postgres, where the query parses).

Met while modelling. Each is kept out of a property by a named condition, so that what is left of the
property is what holds; none has a run of its own.

*Exporter and queries.*

- `deleteDay` deletes by day range on the ground that ingest writes current timestamps only
  (`exporter.ts:289`); it writes the client's (`normalize.ts:181`). An entry that arrives in the day between
  staging and the last batch is deleted unarchived: `Skewed` is empty in `ArchiveOneDay`.
- A billing lookup that throws answers "free" (`plan.ts:46`), and the free path deletes, against `plan.ts:22-25`:
  `ProNeverPruned` leaves the fault `billing` out.
- A day left `verified` by a crash with some rows deleted is terminal (`partitions.ts:64`), and queries read
  Parquet only for `deleted` days (`query.ts:4-6`): `SettledDayVisible` leaves crashes out.
- A claim older than six hours is taken over while its holder is alive, and marks do not check the token: the
  fault `overrun`, in no run.
- Days exported in copy-only mode are terminal and are never trimmed once deletion is switched on
  (`ProDayIsArchived` is checked with deletion on). A day whose last mark throws has no hot rows, so no
  later run plans it.
- A range of 180 days is longer than the default cap of 62 files, and the older days are left out silently; the
  LIMIT is applied before rows without an object path are filtered.
- A page that ends on an entry whose client wrote its timestamp with an offset (`+00:00`, kept by
  `normalize.ts:181`) hands out a cursor that `ISO_TS` (`sql.ts:34`) refuses, so the search is answered 400 from
  there on. `ArchiveQuery` has such an entry; `LogPaging` takes every timestamp to be in the accepted form.
- The stream's cursor is a timestamp, so rows that share the last one of a page and did not fit are skipped
  (`StreamFinds` speaks of rows that are alone on theirs).
- A query that finishes as its timer fires is answered as timed out though it had its whole effect; the exporter's
  `Copy` allows for that. The await of `stdin.end()` is before the timer, so nothing ends it.

*Deletion.*

- A day that failed after its COPY has no `object_path`, so a purge misses its object; a run that marks during
  the purge, or a delete that fails (`failed > 0` still drops the ledger), leaves an object nothing names: the
  days in `excused`.
- A deletion that clears the ledger while a run exports a day makes the very thing `assertClaimed` guards against,
  which "cannot happen through the normal path" (`exporter.ts:163-168`): the run asked for the row before it staged, the marks match none, the hot rows go and
  nothing records it. If that deletion is then refused or stops, the project lives on with those entries in an
  unnamed object only.
- A deletion that stops between the first object and the ledger leaves days whose path leads nowhere, which every
  query of such a day fails on: the days in `purged`. A deletion asked for again clears them.
- `log_fix_runs` and `project_repositories` are not deleted. Where references are enforced a project that has
  either can never be deleted; where not, their rows stay.

*Quota.* A counter whose first request did not get its EXPIRE through never ends; past its limit every later
request is refused, though the limiter promises to fail open (`limits.ts:91`, `112-113`): `WindowReopens` speaks of
counters that have an expiry. A TTL read before the first request's EXPIRE gives a `Retry-After` of one second.

*Access.* On SQLite an archived project still ingests (`ingest.ts:36` tests `=== false`, a raw read answers 0):
`AccessDrains` says "on Postgres". A read stamps whatever key the project has by then. An accept that read its
invite before the owner removed it, or an invite left by an earlier membership, lets a removed member in
again: `AccessList` allows for it. Concurrent accepts throw on the unique index.

*Repository.* A verification stamps a connection made while it was asking (`overtaken`). `parseRepositoryRef` keeps the
`.git` of `owner/repo.git/`.

*Accounts.* Events have no order check, so a late `updated` revives a canceled row and a `deleted` before its
`created` is lost (`overtaken`); a lost race on the insert is answered 400 "Invalid signature" and heals by
redelivery; an unknown customer is answered 200 and forgotten; a checkout does not look for a subscription
that is there. A late answer of `/logout` clears the cookie of a newer sign-in; the token `register` mints for a
provider's callback is handed to nobody (`SessionsHeld` counts both in `spare`). A second factor that cannot be
read counts as not enabled. The social and forgot handlers lower-case the e-mail, login and register only trim it.

*Channels.* `clearBusy` keeps one timer and one channel: testing channel B within 2.4 s of A leaves A's buttons dead
until the page is reloaded (against the comment at `settings.stx:701`), and two quick toggles of one channel that
are both rejected roll back to the wrong state (against `:1078`). These are the `disturbed` channels of
`ChannelsSettle`. `sendTestAlert` does not validate its target again, though `channels.ts` says it is "validated on
write AND before every send". Nothing in the repository calls `dispatchAlerts`.

## 4. Fairness

- **Exporter** (`FairSpec`): weak fairness of each run's next step (a process goes on until it ends or dies),
  of a nightly run's start (the scheduler's cron entry), of a claim ageing (time passes) and of the
  rollout's switch being thrown. None of faults, crashes, plan changes or arrivals. The number of
  faults is bounded, which is what "retried the next night" needs: nothing finishes under a fault
  every night, such as a reference that is enforced for good. Only nightly runs are started for ever.
- **DuckDB**: the two timers fire, a killed child dies and the runtime resumes the awaiting function. Nothing
  is assumed of the child's own work, nor of `stdin.end()`.
- **Quota**: weak fairness of time and of each call to Redis being answered or failing. New hits are not
  fair, and may come for ever: `WindowReopens` holds against a client that never stops.
- **Channels**: the server works on what it has and answers, and the page's timer fires. Clicks are not fair.
- **Access**: the runtime goes on with every handler it has started. Requests and acts of the owner are not fair; a
  handler may die at any time.
- **Deletion**: some handler under way goes on, until none is, which is less than that each does. Requests to
  delete are not fair, nor is anything of the run or the writers.
- **Accounts**: a request the server has is worked on and answered; the visitor goes on trying with the right
  password and code; Stripe delivers an event until it is answered with a 2xx; pages are opened again and
  again. The two strong fairness conditions say that some of those pages stay open long enough for their fetch
  of the viewer to be served and answered, which a page that is always left at once would prevent.

## 5. Proofs

All theorems hold for every value of the constants that satisfies the modules' named assumptions.

**Exporter** (`ArchiveExportProofs`). `TypeCorrect` is unconditional. The others assume `Tolerated`: a COPY does not
lie, no database error hits a Pro day's deletion, no live claim is overrun, and no entry arrives with an old
timestamp; each of those loses rows or breaks exclusion (section 3). Crashes, store failures, other database
errors, billing outages, changing plans and any number of runs, projects and days are covered.

`NoLoss` is not inductive: it does not say why a batch about to be deleted is in the object. `IInv` adds

- `AgedInv`: whatever is planned, worked on or recorded lies outside the hot window, so no new entry
  arrives there;
- `ClaimInv`: a working run's ledger row carries its token and the status its program point implies, and
  is not stale. This is what gives exclusion: the INSERT needs an absent row, the conditional UPDATE a
  failed or stale one, and the read back the run's own token;
- `StoreInv`: a day with rows missing from the hot tier is verified or deleted, so a retry, which starts
  from `failed` or a stale `exporting`, always stages the whole day;
- `ProgressInv`: what has been staged, copied and verified, and that the number of delete batches left is
  enough for the rows left.

There is one lemma per action, two frame lemmas (`ProgressFrame`, `ClaimFrame`) for runs a step does not touch, and
`MarkStep` and `ClaimStep` for what a write to one ledger row leaves alone. `Inductive` concludes `[]IInv`;
`NothingLost`, `ClaimsExclude` and `CountedOnce` follow. `ProIsNeverPruned` needs no part of `IInv` but the types, and holds
under every fault but `billing`: `TierInv` says that a plan a run took for free was free. `SettledDaysAreVisible` adds
`VisInv` to `IInv` (a verified day is whole or a run is trimming it) and assumes that no run crashes.

`RetentionKept` is the refinement: under `Tolerated` and without a billing outage the exporter implements `LogRetention`
(`KeepsRetention`). Only an ingest, a COPY that succeeds and a delete batch change what the abstract specification
sees; `DeleteRefines` needs `ProgressInv` (the batch is in the object) for an archived day, and for a pruned one
`GraceInv` (whoever prunes found the day past its grace) with `PrunedInv` (a pruned row was there and is not any more).

**Queries** (`ArchiveExportProofs`), on top of `IInv`, for any range, cap, page size and set of unusable cursors.
`ChartsAreHonest` and `SearchesAreComplete` also assume that no run crashes, since of a day that a crash leaves
`verified` and half deleted the deleted half is served by neither tier (section 3). `ChartInv` says, at each of the
chart's reads, where a row of a day that is left alone must be; that it stays there between two reads
is what `IInv` and `VisInv` give, and `moved` excuses the days for which no order of reads could. `SearchInv` says that
whatever the search is due stays served and is on a page already read or past the cursor; a page is the newest
part of what was asked for, as in `ReturnReaches` below. `PanelIsHonest` assumes only `Tolerated`. `RowOf` ties a
ledger row's `row_count` to the object it points at, `TotalOf` a pruning run's count to the rows it has not yet
deleted or has deleted, and `CleanInv` says that short of a fault every attempt at a day is its first, without
which the count of a retried prune would be only the last attempt's. The panel's sums are folds over the
ledger; that they equal cardinalities is proved by a counterexample with the fewest days. Two runs can leave
a whole object that no ledger row points at (an upload whose attempt failed, then a run on the free plan that
finds the day empty), so `PanelFits` speaks of the objects the ledger names. `QueryAssumption` has the unique index
of `archive_partitions` (migration 23): a project has one row per day.

**Walks and calls** (`ReaderProofs`). `PagingInv` says of each walk that every row it is after, and its cursor has passed, has been
returned; that the cursor is a lowest row of the last page; and that the last page lies past the pages
before. The step needs `ReturnReaches`: a page is the newest part of what the request could return, so what
is not in it is either past the new cursor or tied with it. For the search the order is total and a tie is
the row itself; for the stream it is not, which is where "alone on its timestamp" comes from.
`AllDaysRead` and `DaysGrow` handle the file cap with cardinalities. `PagingCorrect`, `StreamComplete`,
`SearchComplete` and `Descending` follow.

`ReadsBack`: `ParseResultSets` returns exactly the result sets that DuckDB printed, for any script and any messages,
brackets, quotes, backslashes and line breaks in them included. What is printed is a code of three levels (the
characters of a message with their escapes, the messages of a result set, the result sets of a script); at each level
a text can be cut into code words in one way only (`CodeReads`, `PrintedOnce`), and the scanner's state is known after
every piece: outside or inside a string, at which depth (`MessageScanned`, `RowsScanned`). `CallsArePlainAlways`, which
has no hypothesis, is the refinement of `ArchiveCall`: `CallInv` says of a
child that exited with 0 that it did all it had to do and printed all of it, `AnswerPlain` takes an answer read from that
output to the plain one by `ReadsBack`, and `CallRefines` goes through the other steps.

**Quota** (`RateLimitProofs`). `RateInv` adds only that what a life of the counter let through was counted
(`granted <= counter`); `EveryLifeEnds` is inductive as it stands, because a request that finds no counter is the one
that opens its life, however many hits it counts. `RateCorrect`, `SharedQuota` and `LivesEnd` follow.

**Access** (`ProjectAccessProofs`). `AccessInv` is inductive: the tables keep one row per person because the unique
indexes refuse a second, and whoever a request is about to write was asked. `RemovalFinal` follows from it (the
row removed was the only one). `AccessRefines` proves, action by action, that the handlers implement
`AccessList`; the cases are grouped by what they do to a standing (`MoveRefines`). `BatchesAreKept` is about ingest: for any
batch, whatever its entries, each is stored, skipped or dropped and counted as such, every stored row fits its
columns, and no more rows are stored than the quota was charged for. The loop of `normalizeBatch` is the recursive function
`Shaped`, and a least entry at which the claim failed would contradict the step before it (`ShapedSoFar`). The
caps are those of `IngestAssumption`, and a body is any of `RawBody`.

**Fix runs** (`FixRunsProofs`). `OneAtATime` proves `FixInv`: one active run per shape, held by one request at most, and what a
click is answered with is about its error. `OutcomesStay` follows because only the holder writes an outcome.
`FaultsStrand` bounds the stranded runs by the faults: every step either adds at most one of each, or strands
nothing (`StepStrands`), with the finite set theorems for the count. `LosersAreAnswered`: a request that lost the race on the
index has a row of its error to find (`LoserInv`), and one of those rows is the newest (`NewestInv`), which is the one
`latestRunFor` answers with while the window lasts.

**Deletion** (`ProjectDeletionProofs`), for any number of deletions at once, requests, days and faults. One invariant in
three parts. `PathInv`: the ledger's paths lead to objects but for those in `purged`, which needs that the day a run
is about to mark has its object or lost it to a deletion, while the ledger still has the day (`MarkInv`).
`KeysCover`: from a deletion's listing on, the keys it has left, the excused days and the one a run is about to mark
are all the objects there are. `SweptInv`: a table a deletion has come past has no row that was there when it
began, since a row is written once; `SweptOthers` shows that the step of one deletion leaves that to the others.
`PathsAreGood`, `RecoverableOrder` and `OldRowsAreGone` follow. `RefusalsHaveCause` is the action half of
`DeletionEnds`: at the last delete the four tables hold only rows written since, so whatever still refers to the
project is one the handler does not delete or one that came later.

**Repository** (`RepositoryConnectionProofs`). `ConnInv` adds to `ProvenBeforeStored` and `StampFitsRow` that a call about to use a
token has one, and that a verification no connection overtook is about the row that is there. `ConnectionCorrect`,
`ConnectionTyped`, `StoredIsProven` and `StampIsHonest`, for any callers, names and tokens.

**Accounts** (`AccountsProofs`), for any number of requests, faults and challenges. `ChallengesAreSpent`: a challenge is removed
in the step that starts its one check (`ChallengeOf`). `LinksAreVerified`: an unverified e-mail only ever meets the account
its own callback made (`LinkInv`). `RowsTrackStripe`, for any subscriptions, webhooks and events: `SubOf` says that Stripe still
holds the last event of a subscription until it was written, and its `created` event until there is a row; `TaskOf` that
a request only answers what was written, so neither can be forgotten before. All three are proved of the fair
composition with billing and the session store. `SessionsAreHeld`: every live session is the page's, or carried by the
sign-out under way or by the request whose answer the page waits for; `DebtInv` bounds all the others, together
with the requests nobody listens to that may still mint one, by the faults and the tokens in `spare`. `DebtStep`
shows, action by action, that each new one has a cause of its own. The invariant needs no assumption but
`SignInAssumption`'s that no request is named `NoJob`.

Every invariant, action property and refinement that a passing run checks is a theorem. Only model-checked is
what is temporal under fairness, which is out of the proof system's reach: `UnfinishedDayFinishes`, `ProDayIsArchived`,
`WindowReopens`, `ChannelsSettle`, `AccessDrains`, `DeletionEnds` (but for its action half), `CallReturns`, `SignsIn`, `PaidIsShown`. The library's induction
theorems take an operator as parameter, which the provers cannot instantiate; where a proof needs induction over
data, it is done for the one set in question, by a least counterexample (`LeastNumber`) or by a set of numbers that
holds 0 and the successor of each member (`UpTo`).

## 6. Abstractions

- An entry is its identity and its day (or timestamp); its fields, and the text of SQL, are left out. In
  `LogIngest`, where lengths are the point, a string is its length.
- A day boundary is one step (`Tick`), and an entry that arrives is stored on the current day, or on its own
  day when `Skewed` names it. Entries dated in the future are left out: they only become aged later.
- A single SQL statement is one step, and so is a handler that makes only one.
- A store or DuckDB failure either changes nothing or leaves a truncated object; `silent` is the success that
  did neither.
- `STALE_CLAIM_HOURS` is a flag that time may set on a row whose holder is gone, or, as the fault
  `overrun`, on one whose holder is not.
- `LogPaging` takes the archiving of a day as one step, and the archive as switched on.
- `RateLimit` rounds no seconds, and holds the `Retry-After` value out.
- In `ProjectDeletion` an attempt at a day is six steps, a table holds a row per writer, and runs do not overlap.
- A fingerprint is a shape of error; a pasted repository is its path segments; a password or code is right or wrong.

## 7. Not modelled

- The framework (its auth, ORM, Redis client, queue), DuckDB, S3, Stripe and GitHub themselves: modelled from
  their use, marked external in the map. Password reset is the framework's.
- `github.ts` from line 110 on (branches, files, pull requests): nothing calls it yet.
- Facets of the filter menus, the fingerprint's regular expressions, the wording of alerts and of the
  model's prompt: pure functions of one input, which tests reach.
- `dashboard.stx` and `analytics.stx`: each is one render on the server with a five second race per query, and an
  OFFSET paging of the hot stream that keeps nothing between two pages. The `copied` buttons of the settings page
  have the timer of the channels in miniature.
- Seeders and scripts run once, by hand, and alone. `config/` (over a third of the lines that are counted as code)
  is declarations, and so are the routes' tables, types, static pages and deployment files. They are why
  the share of lines the map covers stays below a third of the repository.

## 8. What could follow

1. The exporter when a claim is taken over while its holder is alive (`overrun`, in no run and outside `Tolerated`):
   which of its promises are left, and for which days.
2. The client's wait for `Retry-After` in `RateLimit`, and the dashboard's render once it keeps state.
