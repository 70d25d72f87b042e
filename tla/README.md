# CloudSentinel: specifications, model checks and proofs

CloudSentinel (the repository under `src/`) scans an AWS account for exposed S3
buckets, stores every audit, and alerts when something is exposed. This
directory holds TLA+ models of the parts where the order of events decides
whether that works, TLC runs over small instances, and theorems that TLAPS
proves for all instances. Every definition is translated from the source; the
`map` in `PROJECT.json` gives the lines of each.

## The system

| Part | Source | State it keeps | Operations | Talks to |
|---|---|---|---|---|
| Auditor scan | `auditor/Function.cs` | the gate's permits, one task per bucket | `RunAuditAsync`, `ScanBucketAsync`, `ReadPolicyAsync`, `ReadAclAsync` | S3 |
| Exposure rating | `auditor/Exposure.cs`, `Function.cs` | none (pure) | `Evaluate`, `IsPublicPolicy`, `PublicAclAccess`, `CalculateSeverity` | - |
| Auditor delivery | `auditor/Program.cs` | attempt number, one Idempotency-Key per scan | `ReportAsync` | reporter, over HTTP |
| Workflow | `statemachine/audit-workflow.asl.json` | an execution | invoke auditor, invoke reporter (retry), publish to SNS | both Lambdas, SNS |
| Ingest endpoint | `reporter/app.py` | nothing in memory but metrics | `ingest_findings` | DynamoDB, Redis, PostgreSQL, Slack |
| Audit table | DynamoDB | audits by (auditId, timestamp), a `byTimestamp` index, the STATS item | `put_item`, `query`, `update_item`, `scan` | - |
| Running totals | `reporter/app.py` | the STATS item, `recordType` of legacy audits | `load_stats`, `rebuild_stats`, `add_to_stats` | DynamoDB |
| Dashboard | `reporter/app.py`, `cache.py` | one Redis key with a TTL | `load_dashboard`, `get_json`, `set_json`, `delete` | DynamoDB, Redis |
| Slack delivery | `reporter/notifier.py` | `_pending`, the executor's queue | `submit`, `deliver_with_retries`, `_discard`, `drain` | Slack, DynamoDB |
| Findings store | `reporter/findings_store.py` | table `findings`, its unique index, an advisory lock | `record_findings`, `ensure_schema`, queries | PostgreSQL |
| Metrics | `app.py`, `telemetry.py` | counters and the latest-audit gauge, per worker | `record_metrics`, `restore_posture_gauge` | DynamoDB, Prometheus |
| Admission | `app.py`, `validation.py` | none | `EnsureContentLength`, `check_ingest_auth`, `validate_audit` | - |
| Paging | `app.py` | cursors held by readers | `query_audit_page`, `encode_cursor`, `decode_cursor` | DynamoDB |

The auditor (or the workflow) posts one audit to `/ingest`. A gunicorn worker
has two threads, there are four workers and several replicas, and a Lambda may
use the same table, so any number of handlers run at once and share nothing but
the stores. A handler writes, one call after the other: the audit, the totals,
the cache (a delete), the findings rows, its worker's metrics, the Slack alert.
The alert goes to a pool of threads in a container and is sent by the handler
itself in Lambda. Nothing spans two of these writes, and the failures of most
of them are swallowed.

What makes this hard:

* **Retries of what was already done.** The key is looked up, and the item put,
  in two calls, the lookup without `ConsistentRead`, the put under a fresh
  timestamp and without a condition. The client stops waiting after 30 s.
* **Crashes and failures between two writes.** An audit that is stored is a
  duplicate for every later delivery, whatever its handler still had to do.
* **Lost answers.** botocore sends an `ADD` again; a put may raise although the
  item is there; Slack may accept a message whose answer never arrives.
* **A cache that is filled by readers and deleted by writers**, with a Redis
  whose errors are logged and ignored.
* **A migration that runs inside a read**, beside writers of the same item.
* **A set of pending futures** that a finishing thread and the submitting
  thread both update, and that shutdown waits on.
* **A gate** whose permits must survive exceptions, and a scan whose reads see
  different configurations when an owner changes a bucket meanwhile.
* **Several writers of one gauge**: handlers and the first scrape of every
  worker set its cells one by one, the latter from an index that lags behind,
  while other containers put audits this gauge hears of only by a restore.
* **A schema migration** several workers start at once, while writers of the
  release before still insert without `ON CONFLICT` until its locks stop them.
* **Two shapes of one payload** (camelCase and PascalCase), two ways to the
  endpoint (HTTP and a Lambda event without a Content-Length), checks of which
  one is made only once another is passed, and numbers that are valid JSON and
  no valid float.
* **Cursors** handed to clients, followed while audits with older timestamps
  arrive and the index is being created.

Correctness, per part: an acknowledgement implies a stored audit and honest
fields in the answer; effects exist only for stored audits; a duplicate changes
nothing; nothing recorded is taken back; alerts come to an end; the totals miss
no audit that was added and are never reset; views show only what is there and
stale ones disappear; `drain` does not return True over unfinished alerts; no
report omits a bucket that is not closed, unless it could not be read; every
effectively public bucket is rated CRITICAL; the report of a scan is refused for
its size only; a caller that corrects what it was told is refused again only for
what it could not be told; an execution of the workflow with findings
ends announced or failed; a reader of all pages misses nothing the index listed;
no copy is left when the unique index is built, and no finding is lost to it; a
gauge nothing has interfered with shows the newest audit its container can know
of.

## The modules

| Module | Models | Extends or instantiates |
|---|---|---|
| `AuditLog` | what `/ingest` promises: store first, then acknowledge, index, alert | - |
| `Ingest` | `ingest_findings` and the delivery of its alert, many at once | `AuditLog` (refinement) |
| `Handover` | what handing over a scan promises: stored once by requests that were not abandoned and overlooked nothing, ended once, truthfully | - |
| `FindingsTable` | what the findings table promises: unique from one step on, no finding lost | - |
| `Report` | `ReportAsync`: attempts, statuses, giving up | - |
| `Workflow` | the Step Functions state machine: attempts, Retry, Catch, SNS | - |
| `Delivery` | both clients, network and handlers together | `Report`, `Workflow`, `Ingest` (instances), `Handover` (refinement) |
| `Dashboard` | the read-through cache beside the handlers | `Ingest` |
| `Totals` | the STATS item, its migration, ingest's `ADD` | - |
| `Notifier` | `submit`, the pool, `_pending`, `drain` | - |
| `Schema` | `ensure_schema` and the writers of the findings table | `FindingsTable` (refinement) |
| `Paging` | `query_audit_page`, cursors, a reader of all pages | - |
| `Posture` | the latest-audit gauge: ingest, restore, restarts | `Paging` |
| `Exposure` | the rating of a bucket, as pure operators, and what closing a bucket does to it | - |
| `Scan` | the tasks and the gate of one audit, and owners who change buckets | `Exposure` |
| `Admission` | the checks before the put: Content-Length, key, `validate_audit` | - |
| `Audit` | the report of a scan, posted to the reporter, beside other callers | `Scan`, `Admission` |
| `IngestProofs`, `DeliveryProofs`, `DashboardProofs`, `TotalsProofs`, `NotifierProofs`, `SchemaProofs`, `PostureProofs`, `AuditProofs` | theorems about the module named (`PostureProofs` also about `Paging`, `AuditProofs` also about `Scan`, `Exposure` and `Admission`) | that module, TLAPS |

`MC*` modules give the constants their values; one `.cfg` per run. A definition
whose comment begins "Mutant:" is not part of a model: it is the form a bug
would give the definition it stands before, and the run named in `PROJECT.json`
fails with it.

### Ingest

One element of `Deliveries` is one execution of the handler. `pc[d]` is the
next call it makes, or its answer; each call that leaves the process is one
action (`FindExistingAudit`, `PutItem`, `AddToStats`, `DeleteCache`,
`RecordFindings`, `RecordMetrics`, `AlertSlack`, `Respond`). A DynamoDB item is
named by the delivery that put it, since its key holds a fresh timestamp;
`AuditId[d]` is shared by the deliveries of one key (`uuid5`) and otherwise
unique (`uuid4`). `slack[d]` follows the alert through the pool or the
handler: posted, finished, flag written, cache deleted. Failure is part of
each action: the put may raise with the item there, the `ADD` lands 0 to
`SdkAttempts` times, the transaction may commit and still raise, an outcome may
be written or not when its update raises. `Crash` is the death of a worker, one
handler at a time: several steps make up a crash of several handlers.
A lookup without `ConsistentRead` may miss an item (`Missing`) for as long as
that takes DynamoDB: nothing in the code depends on when it stops, so nothing
bounds it here. `Async` is a set of deliveries, because a
Lambda and containers may serve one table.

Abstracted: payloads are the set of buckets at risk; the admission checks are
`Admit` and `Refuse` (their inside is `Admission`); a cached view, which
`Ingest` only ever deletes, is what `Dashboard` fills.

### Delivery

`Report` is the CLI's client alone, `Workflow` one execution of the state
machine; they share `attempt` and `phase`, and a scan belongs to one of them
(`Executions`). In `Delivery` the n-th POST of scan `s` is the delivery
`<<s, n>>` of an instance of `Ingest`, under one Idempotency-Key per scan. A request
may arrive at any time after it was sent, also after the client gave up on it;
`Reply` hands the handler's answer to the client that still waits for it, `Lose`
is a lost request or answer or a timeout. To the workflow every answer is a
successful invocation (`Flow!Invoked`), whatever status it carries; only `Lose`
is seen by Retry and Catch. `abandoned` and `overlooked` are history variables:
the posts the client gave up on before their handler was done, and those whose
lookup missed an item of their scan that was there.

`Handover` is the same without handlers, network and retry policies: a register
per scan, which its requests fill. `Delivery` implements it with `items` mapped
to the table, `alerted` to what was posted to Slack, `announced` to what SNS
has, `verdict` to what a handler's answer says of the audit (`VerdictOf`) and
`outcome` to how a client ended (`OutcomeOf`). A stale lookup is `Overlook`. A
put that raises with the item there is the `Store` that is answered "refused"; a
worker's death is a stutter.

### Dashboard, Totals, Notifier

`Dashboard` adds readers that look up the cache, query, fill and serve, and a
TTL. A page is the `PageSize` newest audits, by their timestamps, of those the
index lists, and `indexed` is what it has caught up with. `Totals` keeps,
instead of four sums, how often each audit is included in them; a scan is a set
of keys not reached yet, read page by page while others write. `Notifier` splits
`submit` into its three steps and the life of a future into start, attempts,
`on_done`, done, callbacks, which is where the races are. An attempt succeeds,
fails or raises; a raise ends the delivery with the tries that are left unused,
and is recorded in `raised`, a history variable.

### Schema

A worker's call takes the migration's transaction apart: lock, the check for
the index, the DELETE of duplicates, the index and the commit. `rows[k]` counts
the committed copies of one (audit, resource), `gone[w]` what the open
transaction of `w` has deleted; `InsertUnguarded` is a writer of the release
before, which adds a copy at any time until the index is there or a migration
has the table: the `CREATE INDEX IF NOT EXISTS` before the check takes a SHARE
lock and keeps it to the commit, whether or not it creates anything
(`TableLocked`). Statements fail
(`Abort`), workers die (`Crash`) and the answer to a COMMIT may be lost. A query
is a call that records nothing; what it returns is PostgreSQL's business.

`FindingsTable` is the table as its readers see it: the findings that are there
(`found`), those with more than one row (`doubled`), and whether that is over
for good (`unique`). `Schema` implements it with `found` and `doubled` read off
`rows` and `unique` as the committed index; `BuildIndex` is `Migrate`, `Insert`
is `Record`, `InsertUnguarded` is `Add`, and locks, deletions in an open
transaction, rollbacks and deaths are stutters.

### Paging and Posture

An audit is named by its timestamp, 1 to `MaxTime`. A cursor is the index key of
the last audit of its page and the number of characters left of it once the
base64 padding is stripped; decoding works the padding out of that number alone
and `Decodes` says whether it fits. `Put` may come late, `List` is the index
following, `CreateIndex` the upgrade that adds it; without an index a page is a
scan, the newest audits and no cursor. `due`, `got` and `whole` are history:
what the index listed when the reader began, what it has been served, whether
there was an index.

`Posture` adds the gauge: handlers stamp, store and write their cells one by
one; the first scrape of a worker reads a page (`Scrape`) and writes the cells
of the latest audit of each provider on it. `alone` and `doubtful` are history
variables that say when the gauge can be held to its promise: an activity is
alone while no other is under way, and a provider is in doubt from the moment
something interferes with the writing of its cells until an activity that is
alone has written all of them. Several replicas and a Lambda share the table and
each container has its own gauge: `OthersPut` puts an audit at any time, with
any timestamp, and `Here` are the audits this container may be sent. `unshown`
is history as well: the audits this gauge is not due to show, because others
have put them and no restore has read them, because their put raised here, or
because an audit of this container replaced them although another clock stamped
them later. `PostureIsLatest` compares the gauge with the newest of the rest. A
behaviour has besides either a reader of pages or this container's handlers and
scrapes: a reader writes nothing they read, and of them it sees only puts, which
`OthersPut` makes too, so the two share one run.

### Exposure, Scan, Admission, Audit

`Exposure` takes policies as sets of statements (effect, everyone or not,
restricted by a condition key or not) and ACLs as sets of grants; the JSON and
the URIs behind them are not modelled. `Scan` abstracts S3's answers to fine,
S3 error and other exception; a read returns what the bucket is configured to
at that moment, and `Reconfigure` lets an owner change it. `lived[b]` is
history: the configurations `b` had while it was scanned.

`Admission` takes a payload as a record of its six fields, each one of the kinds
of JSON value `validate_audit` tells apart, a finding as a function of the keys
it has, so that `_pick` has both spellings to choose from. `Problems` has one
element for each error message, and a check that the code makes only in an
`elif` is a problem only if the one before it is none; `Listed` are the first
`MaxErrors` in the order they are found. `Verdict` follows `ingest_findings` up
to the put, in the order of its refusals, with the exceptions nobody catches
(`"raised"`: a body nested too deeply for `json.loads`, an integer too large for
`math.isfinite`) and the puts DynamoDB refuses (`"error"`: a number, a size or a
text no item can hold). `Correct` is a caller who corrects what a 422 listed,
each part so that it passes the check it had failed and those before it, touches
nothing else, and posts again. `Audit` serializes what a scan found
(`AuditResponse`), posts it as the CLI or as the workflow does, and lets other
callers post anything of `Requests`.

## The runs

| Run | Result | What it shows | Instance |
|---|---|---|---|
| `IngestRace` | pass | acknowledged audits are stored, effects are backed, duplicates leave no trace, 201s tell the truth, nothing is taken back, alerts and handlers come to an end; refinement of `AuditLog` | an attempt (background alert) and its retry (alert before the answer) under one key, stale reads |
| `DeliveryRetries` | pass | a delivered audit is stored; posts that were not abandoned and overlooked nothing store and alert once; alerts are tried unless a post failed; an execution is recorded unless refused; every delivery ends; refinement of `Handover` | a CLI scan and two executions, one of them clean, one begun per behaviour; two attempts, stale lookups |
| `DeliveryTwice` | violation | `StoredOnce` fails when a retry overtakes an abandoned attempt | same, consistent lookups |
| `DeliverySilent` | violation | `DeliveredIsAlerted` fails when the first attempt dies after the put | same, consistent lookups |
| `WorkflowUnrecorded` | violation | `CompletedIsRecorded` fails: a 500 is a successful invocation | same, consistent lookups |
| `DashboardCache` | pass | views are real; those that miss a stored audit the page has room for go away for good | two audits (one clean, no keys), pages of one, one reader, failing Redis, lagging index |
| `TotalsMigration` | pass | totals are complete, bounded and never reset | two legacy and two new audits, two loaders, stale reads, an `ADD` sent twice |
| `TotalsUntagged` | violation | `LoadTagsLegacy` fails: ingest created STATS first | one legacy, one new |
| `NotifierPool` | pass | `_pending` empties; `drain` is right and returns; retries are honest | two alerts, one thread, two attempts, calls that raise |
| `SchemaUpgrade` | pass | no copy is left for the index to trip over, the migration is in order, no call waits for ever; refinement of `FindingsTable`: none is lost | two workers, two keys, up to two copies of each |
| `Posture` | pass | pages are in order and complete; the gauge is real, and the latest unless interfered with | three audits of two providers, keys of every length modulo 3, limits below, in and above the range, two symmetric workers, one restart, restores that see two audits |
| `AuditScan` | pass | permits are conserved; a report is complete, rates what is exposed CRITICAL and is accepted; what is stored is sound; a 422 hides nothing but what a listed check leads to or the list has no room for; hardening never worsens a rating; the audit ends | three buckets, two permits, one bucket with seven configurations that changes once; every envelope around a few payloads, some 550 payloads in a good one, refused ones corrected and posted again; limits of 2 findings, 3 resources, 4 errors |

Why the bounds are enough for what is asked: the races are between an attempt
and its retry, a writer and a reader, a rebuild and an ingest, two rebuilds or
two migrations, and each of these pairs is there together with every failure
the code handles. A pool of one thread makes the second alert queue, two permits
make the third bucket wait. Scans of different keys share nothing that the
properties of `Delivery` speak of, so one at a time is enough (`MaxBegun`).
`SdkAttempts` is 1 in the runs where only "counted or not" matters and 2 in
`TotalsMigration`. In `Posture` (the largest, 0.95 million states) the first and
the third audit are of one provider, so one may overwrite the other, and a
restore that sees two of three audits can miss a provider. The limits of
`AuditScan` are small enough for a list to be too long, a total too large and a
422 too short. Safety holds for every value of the bounds by the theorems below,
so the instances matter for liveness, and for the mutants, only.

Deadlock is not checked because every model may stop: handlers answer, scans
end, readers are through.

The four violations are disagreements between what the code does and what a
comment, a docstring or the README says of it; `findings` in `PROJECT.json`
quotes the lines. Those of `Delivery` have `StaleReads = FALSE`, so that the reason TLC shows
is the one the finding gives. With `StaleReads = TRUE`, as `DeliveryRetries` has
it, `StoredOnce` also fails without any overlap: a put raises with the item
there, the attempt is answered 500, and the retry's lookup misses the item. Five
more have no run of their own:

* A reader may cache a view it queried before an ingest and stored after the
  ingest's invalidation, so the dashboard misses an audit although `/ingest`
  invalidates on every write (`cache.py:4`). `CacheConverges` says what holds:
  it goes away, with the TTL at the latest, and does not come back, unless a
  full page of newer audits has taken the audit's place.
* A rebuild of the totals may see an audit before its `ADD` and count it twice
  (`app.py:587`). `CountsBounded` says by how much at most.
* The gauge of "the most recent audit" (`telemetry.py:55`) may mix two audits,
  or keep the older, when ingests or a restore overlap. `PostureIsLatest` says
  when it may not.
* A malformed payload can end in a 500: a duration that is an integer no float
  can hold makes `math.isfinite` raise in `_is_number`, one beyond DynamoDB's
  exponents makes the put raise, and so do an item over 400 KB and text that
  UTF-8 cannot encode; a body nested too deeply makes `json.loads` raise
  `RecursionError`, which is no `ValueError`. All are in `Verdict`; no property
  says that the list is complete, since the code makes no such promise.
* "Every problem is reported at once so a caller can fix a payload in one round
  trip" (`validation.py:9`) is not so literally. A list that is too long or no
  list hides the checks of its findings, a name that is no string its length, a
  total out of range the comparison with the findings, a flag that is no Boolean
  whether it is the right one, and the 422 stops at 50 errors.
  `NothingElseHides` says that these are the only ways: a caller who corrects
  what was listed is refused again only for a problem there was no room for, or
  one a listed check leads to.

### Fairness

* Handlers and alerts (`HandlerStep`, `AlertStep`): weak fairness. The calls to
  AWS, Slack and Redis have timeouts (`AWS_CLIENT_CONFIG`, 5 s, 1 s), and so has
  the connection to PostgreSQL (5 s). A PostgreSQL statement has none: that a
  handler goes on after one assumes that PostgreSQL answers or the connection
  breaks. Requests need not arrive, and nothing forces or forbids a crash.
* `ScanSettles` needs nothing of the handlers: the fairness of
  `DeliveryFairSpec` is the clients' alone, who end also if nobody serves them.
* The clients: weak fairness of the next step of each scan, since `HttpClient`
  times out and the invoked Lambdas end after 30 s (`template.yaml:9`).
* The cache: Redis expires keys, indexes catch up, a request in progress ends.
  No fairness of the ingest handlers is needed for `CacheConverges`.
* The notifier: its threads run. A timeout of `drain` may but need not strike.
* The scan: S3 calls return or time out, and each bucket's next step is taken.
  Owners need not change anything, and callers need not post.
* The schema: statements end or fail, again without a timeout of their own (weak
  fairness of a worker that does not wait for the lock), and PostgreSQL grants
  the lock in the order it was asked for (strong fairness of `AcquireLock`; weak
  fairness would not do, since the lock may be free and taken again and again).
  Nothing makes a wait for the lock fail, as there is no `lock_timeout`.

## What is proved

Every safety invariant and every action property that a passing run checks is
also a theorem, and so are the refinements of `AuditLog`, `Handover` and
`FindingsTable`: for any sets of deliveries, audits, workers, buckets and keys
and any bounds, from the assumptions named in the modules. `theorems` in
`PROJECT.json` lists them with the properties they state. One holds under a
condition the theorem states: `AcceptedReports` needs that an account has no
more buckets than `MAX_FINDINGS` (beyond that a report is refused).

None of the properties is inductive. Each proof module states the invariant
`IInv` that is, one lemma shows that it holds initially, one lemma per conjunct
with one step per action that the steps keep it, and the theorems follow.

* `Ingest`. `AckedIsStored`, for instance, says nothing of a handler about to
  answer. `IInv` adds that an item is in the table exactly when its handler is
  past the put (or failed or died there) and a duplicate has an item that is
  still there (`StoredInv`); that totals, metrics and alert of a delivery exist
  only past the put (`EffectsInv`); that rows belong to stored audits
  (`RowsInv`); and that the flag follows the outcome and the outcome the post
  (`AlertInv`). `NothingIsTakenBack` needs `AlertInv`: `MarkSlackResult` writes
  False as well as True, and what makes it harmless is that the flag of an alert
  still on its way is not set. The refinement maps `FindExistingAudit` (a
  duplicate) and `Respond` to `Acknowledge`, `PutItem` to `Store`,
  `RecordFindings` to `Index`, `PostAlert` to `Alert`, everything else to a
  stutter.
* `Delivery`. What matters of the reporter to its clients is stated once
  (`Moves`: how a handler may move and what it leaves in the table and with
  Slack), and every server action shown to be such a move. `ServerInv` ties the
  handlers to table and alert, `ClientInv` the phase of a client to the handler
  of its last post. `SettledOnce` needs the order of the posts of a scan: one
  that was not abandoned has ended before the next is sent (`PostsInv`), so if
  it is stored a later one gets past the lookup only by overlooking it
  (`FirstOnly`). That `Delivery` implements `Handover` (`Handovers`) rests on
  these: a put while another post of the scan is stored means that one of the
  two was abandoned or the lookup overlooked the item (`FirstToStore`), and an
  end of a client has the answer it claims. `HandoverPromises` and
  `TablePromises` say what the two abstractions are good for, from their own
  actions alone.
* End to end. The reporter inside `Delivery` is an instance of `Ingest`, and
  `ServerIsIngest` proves that what clients and network make it do is a
  behaviour of that module. The theorems of `IngestProofs`, instantiated as
  `Reporter`, then hold behind any client (`EndToEndSafety`,
  `EndToEndNothingTakenBack`, `EndToEndLog`, `EndToEndStepsRunOut`).
* `Dashboard`. The handlers' invariant carries over because a handler never
  writes a view and a reader never writes a table; a view stays true because the
  table and what Slack accepted only grow. A step of a handler beside readers is
  one of the handler alone, so `Ingest`'s action properties and its refinement
  of `AuditLog` hold as well (`NothingTakenBackWithReaders`,
  `ImplementationWithReaders`).
* `Totals`. As long as there is no STATS item nothing is counted and no `ADD`
  has succeeded; a rebuild past its scan has every legacy audit in memory,
  tagged or about to be. The conditional put does the rest.
* `Notifier`. A future is queued once; it is in `_pending` before it has its
  callback, and nothing but the callback takes it out. This is what lets `drain`
  look at `_pending` alone although `submit` enters futures late. The pool has
  no more futures in hand than threads (`BoundedPool`).
* `Schema`. The lock alone does not make the migration safe: every open
  migration holds it, what it has deleted leaves a row of each key, and who
  takes the schema as ready has seen the index. Nor is it left behind: who waits
  for it finds it free or its holder at work (`LockNotLeftBehind`). The
  refinement of `FindingsTable` needs that the transaction which commits the
  index has deleted every copy but one, and no more. That this is still so when
  it comes to the index (`IndexFindsNoCopy`) rests on the table lock, which
  keeps the old writers out between the DELETE and the CREATE UNIQUE INDEX.
  `UniqueRows` says what follows of the committed rows.
* `Paging`. That a cursor survives decoding is arithmetic: the padding worked
  out of the number of characters is the one that was stripped, for keys of any
  length (`PaddingFits`). What the index held when the walk began is either
  older than the cursor or has been served.
* `Posture`. Who is alone has nobody beside it and has set every cell it has not
  still to set (`AloneInv`, `AuditInv`, `RestoreInv`), and a provider without
  doubt shows the newest of its audits that are not `unshown`, unless a handler
  or a restore is at it (`ShownInv`). That a page newest first yields the newest
  audit of each provider it has is `LatestIsNewest` and its companions.
* `Scan`, `Exposure`. What the reads of a bucket brought belongs to
  configurations it had while it was scanned (`ViewInv`), and how its scan ended
  says what those reads can have been (`EndInv`). The lemmas about `Exposure`
  are over all configurations: what is not fully blocked is rated, what is
  exposed is CRITICAL, what is closed further is not rated worse.
* `Audit`, `Admission`. An audit with callers beside it is still a scan
  (`AuditIsAScan`), so the theorems above hold of it. `AnswerInv` ties an answer
  to the request it answers; the lemmas about `validate_audit` then say that a
  payload without problems is sound once normalised (`ValidIsSound`), that
  correcting the problems of each kind uncovers only those it leads to
  (`NothingHides` and the lemmas before it, of which `CorrectedWell` is the main
  one), and that the report of a scan has none (`ReportIsValid`).

Liveness itself is only model-checked, since the prover cannot reason about
fairness (`AlertSettles`, `HandlerSettles`, `ScanSettles`, `CacheConverges`,
`PendingEmpties`, `DrainReturns`, `AuditEnds`, `CallsEnd`). Its safety half is
proved, for any constants, where the code has one. First, work runs out: a
natural number bounds what each actor may still do, each of its steps makes it
smaller and nobody else's makes it larger. A delivery and its alert take at most
15 steps (`StepsOfDeliveryRunOut`), a client `2 * MaxAttempts + 3`
(`ClientsRunOut`), an alert in the pool `MaxAttempts + 8` (`AlertStepsRunOut`),
the scan of a bucket 5 (`ScansRunOut`). Second, nobody waits in vain: for an
alert (`AwaitedAlertsMove`), in the pool or in `drain` (`NothingStuck`), for the
schema lock (`LockNotLeftBehind`), at the gate (`NoStandstill`). What is left to
fairness is that an actor who can take a step does. `CacheConverges` and
`CallsEnd` have no such bound: readers may fill the cache, and migrations fail,
any number of times. The four violations are TLC's as well.

## Not modelled

* What is promised to a reader without the index: such a page is a scan without
  a cursor, so the reader gets the newest audits only. `Paging` has it, and
  `WalkIsComplete` is about walks that had the index all along.
* What a skipped bucket means: one whose Public Access Block cannot be read is
  left out of the report by intention, and `ReportIsComplete` allows it.

* What the queries of the findings store return, and the connection pool:
  PostgreSQL's and psycopg's. Their calls are in `Schema`.
* The dashboard's HTML, tracing, logging: nothing is read back.
* Terraform, Helm, Kubernetes, Compose, the SAM template: configuration. What it
  decides (numbers of workers, timeouts, retries) are constants of the models.
* Counters and histograms: they only ever add, and are the one step
  `RecordMetrics` of `Ingest`.
* gunicorn beyond its hooks: `worker_exit` is `drain` with a timeout,
  `on_starting` and `child_exit` are what they do to the gauge's files.
* Time: backoff delays, the 25 s of `drain` against the 27 s one alert can take,
  the TTL. A timeout may strike whenever it is armed, and `DrainIsComplete`
  claims nothing when `drain` returns False.
* Sizes: of a request it is only modelled whether it is too large to be read
  (`large`) and whether DynamoDB takes its item (`fits`). An audit over 400 KB
  passes every check, and its put fails each time.
* Text: policies, URIs, names and dates are told apart by kind only. The parsing
  of policy JSON and of timestamps is the libraries'.

## What is left

`Totals` counts by audit what an abstract counter would only add up, and
`Posture` could be measured against a register per provider; neither abstraction
is written. A model with time could compare the 25 s of `drain` with the retries
of an alert.
