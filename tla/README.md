# TLA+ models of hk-open-data

hk-open-data is a governed catalogue of Hong Kong public data: reviewed access recipes, an API that
administers approvals and activations and answers reads, a worker that asks providers for data on a schedule
and keeps evidence, webhooks about what was decided and observed, an admin console, and a static catalogue
site. Most of the repository is data and text. What can go wrong is where several parties act on state that
another may change: the worker (`services/worker/hk_data_worker`), the API's repositories and webhook stores
(`services/api/src`), the SQL migrations with their triggers (`services/api/migrations`), the consoles that act on
lists they fetched earlier (`apps/admin/src`), the clients that read page by page, and the browser tab of the
catalogue (`apps/catalog/src`) with its history and its addresses. These models are about those.

Contents: [inventory](#inventory), [plan](#plan), [modules](#modules), [runs](#runs-and-their-bounds),
[fairness](#fairness), [proofs](#proofs), [disagreements](#where-the-code-and-its-documents-disagree),
[not modelled](#what-is-not-modelled).

## Inventory

Paths are below `src/`; `worker/` stands for `services/worker/hk_data_worker/`, `api/` for
`services/api/src/`, `migrations/` for `services/api/migrations/`.

| component | code | state | operations | correct when |
|---|---|---|---|---|
| Scheduler and worker loop | `worker/scheduler.py`, `worker/service.py`, `migrations/004` | `scheduler_job` rows, audit entries, claims in memory | poll, pause unauthorised jobs, claim, execute, finish | one live claim per connector job; only owners complete; due jobs get attempted |
| Approvals, activation, kill switches | `api/postgres-repository.ts`, `migrations/006`, `migrations/008` | `source_approval`, `connector_definition`, `monitor_target` | decide, activate, disable; three triggers | what a switch paused stays so until an activation that saw an approval in force; a paused job has no lease |
| Connector execution and evidence | `worker/execution.py`, `worker/storage.py` | `connector_run`, `raw_object`, `source_record`, evidence store | insert run, fetch, persist, parse, publish | evidence before records; a success published everything; traces of each attempt |
| Worker database session | `worker/service.py` (`main`) | open transaction, row locks | connect, blocks, stop, die | workers never share a job; a stop commits all that was logged, a death nothing; revocation takes effect |
| Monitor execution, observations, incidents | `worker/execution.py:328-553` | `monitor_observation`, `incident` | observe, look up, open or extend | one active incident; no observation lost |
| Incident administration | `api/postgres-repository.ts`, `api/memory-repository.ts`, `apps/admin/src/features/incidents` | `incident`, `audit_entry`, cached lists | acknowledge, suppress, resolve, publish, correct | acted on as seen; the console loses no wording that was public |
| Webhook outbox and delivery | `api/webhooks/`, `api/routes/webhooks.ts`, `migrations/005` | `webhook_subscription`, `delivery_attempt`, the batch of each process | subscribe, verify, trigger, claim, send, mark | only verified endpoints; one sender at a time; whatever is due is sent |
| Read-only routes, registries, MCP tools, SDK walks | `api/routes/`, both repositories, `api/access-registry.ts`, `api/resource-registry.ts`, `services/mcp` | none of their own; cursors of clients | list page by page, detail, status summary | a walk returns each row once; a detail is of one piece; a summary hides no outage |
| Source and target administration | `apps/admin/src/features/sources`, `.../targets`, `api/routes/admin.ts` | forms, cached rows, versions | approve, activate connector, activate monitor | a request that fails fails for the reason given |
| Public catalogue site | `apps/catalog/src`, `apps/catalog/scripts/build-static.mjs` | application state, addresses, session history | search, filter, open, go back, retry, show a command | the address shows the view; a way back restores all of a list or shows the whole one; a command is for the file that was verified |
| Authentication and rate limits | `api/auth.ts`, `api/app.ts` | token validity | verify, refuse | a bad token is an error, never the public view |
| Migrations and seed | `api/migrations.ts`, `api/seed.ts` | `schema_migration` | apply in order | each applied once |
| Fetch runtime | Python package `fetch.py` | attempts, redirects | retry, follow, stop | bounded, within the allowed hosts |
| Recipes, adapters, corrections, pagination, transforms | Python package, `worker/connectors/` | none | pure functions | deterministic identity; total on malformed input |
| Status portal, schemas, scripts, infrastructure | `apps/portal`, `packages/schemas`, `scripts` | a stored copy | reads, generation | - |

How they meet. The API and the workers share PostgreSQL and nothing else. An administrator's decision is a
transaction of the API; triggers propagate it to `scheduler_job` and to the webhook outbox. A worker polls: one transaction pauses
what is no longer authorised and leases what is due, then the claims are executed one after the other from
the *snapshots* the claim returned, each in a transaction of its own; it files failing checks as incidents, which
administrators move at the same time. The evidence store is outside every
transaction. Each API process has a timer that claims due deliveries in a leased way much like the
workers'. Consoles, SDK clients and agents hold copies of what they have read, and send back only a version or a cursor.

What is hard about it: leases that lapse while their holder works on (one 60 s lease for up to 20 jobs in
sequence, one two-minute lease for up to 100 deliveries), state read at claim time and used minutes later,
administrators' transactions that read an approval they do not lock, three kill switches and an upsert that write the same columns, a run identifier
shared by two executions of one checkpoint, an object store outside the transaction, a connection that
is in a transaction before anybody opened one, an incident read and written back without a lock, marks that
name only an id, walks over lists that change between two pages, details put together from several statements, and
a browser tab whose state is in three places. `PROJECT.json` lists each hazard at its line, with the
properties that are about it or the reason none is.

## Plan

What decides whether a provider is contacted came first, then what decides who is told, then what readers
are shown.

1. *Done.* `Scheduler` (queue, gate, approvals, activation, switches), its abstract `LeaseLedger`, the
   composition `ConnectorRun`, and `WorkerSession`, with the proofs of their safety properties.
2. *Done.* `WebhookOutbox` with both stores, crashes, lapsing leases and the liveness of due deliveries, and the
   proofs of its safety properties; `Incidents` from observation to public wording, with
   the proofs of its properties.
3. *Done.* `SourceConsole`, `ReadApi`, `CatalogueBrowser`: the consoles, the read side and the site, and the proofs of
   their properties.
4. *Left.* Two API processes that migrate at once (`api/migrations.ts:39-84`); the redirect and retry budget of the
   fetch runtime; pagination, corrections and record identity as operators checked against reference definitions.

Every module has constants (with named assumptions where something is proved), one action per operation,
and no recursive operator.

## Modules

| module | stands for |
|---|---|
| `LeaseLedger` | abstract: what the queue promises about one job, without clock, snapshots or transactions |
| `Scheduler` | the queue, the gate, the approvals, activations and kill switches |
| `ConnectorRun` | EXTENDS `Scheduler`; opens the execution of a connector up into its steps |
| `WorkerSession` | the connection: blocks, savepoints, row locks, commit at the end of the session |
| `WebhookOutbox` | subscriptions, the outbox trigger, both webhook stores, the delivery timers |
| `Incidents` | workers that file failing checks, administrators' transitions, the incident page |
| `SourceConsole` | the review and target pages, the admin routes and the activations behind them |
| `ReadApi` | walks, details and summaries over both repositories and the registries, while others write |
| `CatalogueBrowser` | one tab of the public catalogue with its history |
| `MC...` | values of the constants for TLC |
| `SchedulerProofs`, `ConnectorRunProofs`, `WorkerSessionProofs`, `WebhookOutboxProofs`, `IncidentsProofs`, `SourceConsoleProofs`, `ReadApiProofs`, `CatalogueBrowserProofs` | the theorems |

### Scheduler

State: `row` is `scheduler_job` (`active`, `due` = due_at, `owner` = lease_owner, `leaseEnds` =
lease_expires_at, `attempt`, `error` = last_error_code); `approvals[s]` the `source_approval` rows in the order
of their commits; `target` the activation (`connector_definition.enabled` or
`monitor_target.activation_status`); `blocked` the `scheduler.blocked` audit entries of failed attempts;
`pc, pollAt, claims, current, failure` the local variables of `run_once`; `pending` an activation
transaction between its read and its writes.

Actions: `Poll` is `now = datetime.now(UTC)`, outside the transaction; `ClaimDue` the first transaction
(`deactivate_unauthorized_jobs`, then `claim_jobs`); `Start` the opening of a job's transaction with all
gates in front of provider access; `Break` an exception or a blocking configuration; `Finish` the commit of
`_finish_job`, conditional on the lease, with the unconditional audit entry of a failure; `Decide`
`decideSourceApproval` with the source kill switch; `ActivateConnector`, `BeginActivation`,
`CommitActivation`, `AbortActivation` the activations, where a monitor's is split at the place where a
decision can commit in between; `DisableTarget` the two other kill switches; `Crash`, `Restart`, `Tick`.

Choices a reader should know:

- A `connection.transaction()` block is one action. The connection is taken to be idle when `run_once`
  begins, which is what its blocks are written for: each is a transaction that commits. The one caller in the repository, `main`, does not
  pass it such a connection, and what that changes is `WorkerSession`'s subject. Two workers that execute one job after a lapsed
  lease need idle connections: the row of a claim of `main`'s worker stays locked, and no other of `main`'s claims it
  (`MainsLeasesAreSafe`).
- `decidedAt` is the instant of the commit. Approvals have no more identity than their order, so two
  decisions in one millisecond do not meet.
- `FOR UPDATE SKIP LOCKED` may leave a locked row for the next poll. Which due rows are free at the
  moment of the claim is decided by order here, so skipping appears as a claim before or after.
- A job's jitter is a constant below 30 s. A kind stands for its project and purpose. `TARGET_NOT_ACTIVE`
  stands for `CONNECTOR_NOT_ACTIVE` and `MONITOR_NOT_ACTIVE`, and the configuration codes of the executor are
  folded into `JOB_EXECUTION_FAILED`: nothing in the system reads them apart.
- `Decide` and `ActivateConnector` do not wait for running executions here, which allows more than the code;
  `ConnectorRun` adds the lock of the source row that makes them wait (`SourceLocked`).
- Switching a disabled target back on is an operator's SQL and not modelled; a second activation is.

### LeaseLedger

One entry per job: `on`, `owner`, `lapsed`, `holders` (the workers that believe they have the job) and `done`.
A worker takes what nobody owns or whose lease lapsed; the owner and nobody else completes; a worker that
lost its lease leaves without a trace; a switch takes the lease away. `Scheduler!LedgerEntry` is the
refinement mapping: `lapsed` compares the row with the clock, `holders` reads the workers' memories.

### ConnectorRun

State: `store` (the evidence objects, outside the transaction), and the committed `raw_object`, `connector_run`,
`source_record` rows (`rawRows`, `runs`, `records`); `work[w]` is the open transaction. `InsertRun` inserts the run
row and waits for another open transaction with the same `connector_run_id`; `Fetch` is the one request of
the plan, answered, refused or lost; `StoreAndParse` is `_persist_raw` followed by parsing; `CommitRun` commits records, raw
object, run and job together, that is, `Scheduler!Finish`. `RollBack` forgets the work and keeps the store.
`FinishOther` ends monitors and failed attempts. Payloads are model values, `RecordsOf` says which records one
yields: two payloads share a record, one is malformed.

### WorkerSession

psycopg opens a transaction for a statement executed outside any block, and `main` executes `SELECT 1` on a
connection without autocommit before its loop. From then on a block is a savepoint: `BlockEnds` keeps the rows in
`written[w]`, locked and unseen, until the connection is closed (`Stop` commits, `Die` rolls back). `Warmed`
names the workers whose connection was used so; the others are what `Scheduler` assumes. Time is left out:
any job may be due, any lease may have lapsed. `Claim` waits for locked rows where the sweep has to write
them and skips them where `claim_jobs` does. A claim (`batch`) carries the attempt it was made with, and `EndJob` is the
whole end of a job: the conditional UPDATE, which waits only for a row it would match, then the log line, printed
whether it matched or not. `logged[w]` is history: the attempts the worker has printed as completed since it connected.

### WebhookOutbox

State: `sub` is `webhook_subscription.status`; `row` is `delivery_attempt`, one per subscription and event, since its id is a hash
of both (`next` = next_attempt_at, `updated` = updated_at, `first` = occurred_at, from which the 24 hours count);
`pc, batchAt, batch, current, answer` are the local variables of `deliverDueBatch` in each API process;
`backend` says which of the two stores all of them were built with; `sealed` the subscriptions whose secret
another key has encrypted. `accepted`, `echoed` and `overran` are history: what endpoints did, and who held a
delivery for two minutes.

Actions: `CreateSubscription`, `BeginVerify` and `FinishVerify` (the read, and the update after the request to the
endpoint); `Publish` the trigger, in the transaction that moved a source or an incident; `Enqueue` the store's
own call; `Wake` the timer with the batch's one reading of the clock; `Claim` the claim transaction and the
revealing of secrets after it; `Send` one request; `Mark` the unconditional update of one row; `AbortBatch` a
query that throws; `Crash`, `Restart`, `Tick`. The memory store has no updated_at and no lease: it belongs to one
process, and `Wake` lets only one of them work.

### Incidents

State: `row` is `incident`, `audit` its audit entries; `work` what a worker's transaction has read and not
yet written; `list` what each administrator's page fetched last. `Fail` inserts the observation and looks an
incident up, `File` inserts or updates what was found; the two are apart because nothing locks the row
between them, and `RollBack` may come instead. `Transition` is one of the five requests: it holds the row's lock, compares
the version, checks the state, writes and audits. The page (`SubmitAcknowledgement`, `SubmitWording`) acts on the first
row of its list and corrects what the list calls published; `Call` is the SDK's `actOnIncident`, any of the five for any incident the caller
has listed, so also a publication over what is published or corrected already. `raced` and `replaced` are history: some worker
wrote what it had read before a change, the one case in which two incidents open or an observation is dropped; and the
corrections a caller of the API has published over, the one case in which a public wording is neither shown nor audited.

### SourceConsole

State: the source with its group and version, the latest approval, the monitor target, what the pages have cached, the connector
form field by field (each is empty, something the route refuses, or something it accepts), the last answer.
What the page checks (`ConnectorComplete`) and what the route parses (`ConnectorParses`, `MonitorParses`) are
separate operators, because two files say it and nothing makes them agree. A connector is activated for the group its source
has, as PostgreSQL's repository demands; the memory repository also accepts a source without a group and sets it
(`memory-repository.ts:503-512`).

### ReadApi

State: `db` the tables as far as reads tell them apart, `token` the validity of a bearer token, `read` the
one read under way: a walk with its cursor and what it has got, a detail or a summary with the statements it has
behind it. One client stands for all, since reads change nothing. Lists of sources, records, events, incidents and audit
entries are one statement a page; targets are selected first and filtered afterwards (`SelectTargets`,
`FilterTargets`); a detail and a summary take three statements, between which the writers come. `Page` cuts the rows
in the way of the backend: `PageInMemory`, `PageInPostgres` (one row more than asked for), `PageInRegistry` (the
cursor is looked up among the rows that match). `steady`, `ever` and `lost` are history of a walk: the rows that matched all
along, those that could match at some time, and whether a cursor ever named a row that no longer matched. A summary
has the like: the incidents that were current, public and of a shown source all along (`steady`), those that were public
and current at some time (`ever`), the sources that had a public target at some time (`shown`), and whether its
lists always fitted in a page (`fits`). A deployment may begin with a failing check and its incident, published or not.
`Reduce` is the agent that asks for fewer rows when a tool's answer is too large.

### CatalogueBrowser

State: the session history with the address of each entry, the document it belongs to and what it showed; the page the
active document was served for; the application's state. Every action includes the effects it triggers, which
rewrite the address (`Settled`). `Started` is the first render (ids from the page's globals, the rest from the
address), `PopState` the handler, `Follow` a link that loads a new document. `list` and `expected` are history: what the way back
from the resource on the screen leads to (the list it was opened from, or, once the resource is there because its address was read, the
whole catalogue), and what the last step back, link within the page or button to the list is to show.

## Runs and their bounds

| run | instance | states | shows |
|---|---|---|---|
| `queue` | 2 workers, 1 connector and 1 monitor of one source, 2 decisions (also one that expires or covers the monitor only), 1 activation, 1 crash | 0.45 M | what is paused stays paused until it is activated anew; no two live claims of a connector job; paused jobs hold no lease; errors are audited; the queue implements the ledger |
| `live` | 1 monitor, fair workers, 1 crash, an expiring approval; no symmetry | 45 k | unauthorised jobs are paused and stay so, also through a second activation; due jobs are rescheduled |
| `connector` | 2 workers, 1 connector, 3 payloads, 3 instants, 1 crash, 2 decisions | 1.1 M | the five invariants of the run, and that it implements the queue |
| `session` | 2 workers of `main` and one on an idle connection, 2 jobs, 2 attempts | 0.27 M | workers of `main` keep apart, a session's completions end whole, attempts never go back |
| `webhooks` | 2 processes, 2 subscriptions (one perhaps sealed), 1 event, a day between the two instants, 1 crash, both stores; no symmetry | 0.2 M | verified receivers, exclusive senders, settled rows, and that what is due is sent |
| `incidents` | 2 workers, 1 monitor, 2 administrators, 1 wording, 4 observations, 2 incidents | 0.7 M | one incident, evidence kept, changes applied as seen |
| `wording` | 1 worker, 1 monitor, 2 administrators, 3 wordings, 5 versions, 1 incident | 0.35 M | no public wording lost, but by a caller of the API who publishes over a correction |
| `paging` | 3 sources (1 restricted), 2 monitors, 2 incidents, 2 records, 3 recipes, 2 resources, pages of 1 or 2, 2 writes; both backends | 0.9 M | walks are exact, the backends agree, details and summaries are of one piece |
| `browser` | 2 resources, 2 files of each of 2 datasets, one filter on either side, 3 history entries | 0.9 M | addresses, Back and Forward, commands |
| `renewal`, `killswitch`, `activation` | as above, or one review page, 2 further versions, 2 days | - | see [disagreements](#where-the-code-and-its-documents-disagree) |

Why these bounds are enough for the cases of interest. Two workers (processes, administrators) are what a lost lease or a stale list
needs. The instants are at, before and after the boundaries (`due <= now`, `lease <= now`, lateness); in `queue` the lease
spans two cadences, so that a stale finish meets a *next* claim. Two decisions are an approval and its revocation, its renewal or a
narrower one. `connector`'s third instant is a cadence later, so both
a second run and a lapsed lease occur. In `webhooks` one step of the clock passes the lease, every retry delay and the 24 hours
at once; what happens between those boundaries is covered by the proofs, which hold for any set of instants, and
by the fact that the code compares each of them separately. A batch holds both deliveries, so that the second is marked after
the first has used up the lease. In `incidents` four observations
are a failure, the two passes a resolution needs and a failure after it, or four failures by overlapping workers; administrators move an
incident in its first two versions, so that the second to do so meets what the first, or a worker, has done. In `wording` five versions are an
incident that is published, corrected and published or corrected again, with a change of a worker in between; a second incident would not
matter, as each wording is one incident's. In `session` the second worker of `main` meets the locks of the first, and the one on
an idle connection is overtaken by both. In `paging` three rows and pages of
one or two give every position of a cursor, and two writes can remove a row and add another
between two pages. In `browser` three entries are a list, what was opened from it, and what was entered before;
the way from a list to a resource, by an anchor there and at once back to the list has four, and only the proof covers it, while the run has
the like by Back and Forward. Each dataset has a file that was sampled and verified, with a
placeholder of its own to fill in, and one that answered but was not the sampled one; as the two datasets are alike, the run takes states that differ
only by exchanging them, with all that is theirs, for one.

Named bounds: `MaxDecisions`, `MaxActivations`, `MaxCrashes`, `MaxAttempts`, `MaxObservations`, `MaxVersion` (the last version from
which an administrator still moves a row), `MaxTime`, `MaxWrites`, `MaxEntries`, and the finite `Instants`. `PageMax` is 200 in the
code and `BatchLimit` 100; `LeaseSeconds` and `ClaimLimit` are the code's 60 and
20. The proofs cover every other value of those they mention. Symmetry is used in safety runs in which
the workers, administrators, wordings or datasets differ in nothing. Deadlock is checked in every run but `activation`, where the instance
stops when its bounded versions and days are used up.

Each property of a passing run has a mutant in `PROJECT.json`: a plausible bug, written beside the definition it
replaces, with which TLC finds the property violated.

## Fairness

`Scheduler!Fairness` is weak fairness of `Poll`, `ClaimDue`, `Start` and `Finish` for each worker: the loop never exits by
itself, each provider request has a timeout and PostgreSQL answers. Nothing is assumed of the clock, the
administrator or crashes. Restarts are not fair either (nothing in the repository restarts a dead worker), so a
worker must survive: `live` allows one crash of two workers. `DueJobIsRescheduled` says precisely what a
crash costs: the job waits only while the lease of the dead worker runs.

`WorkerSession!SessionFairness` matters to `killswitch` alone: weak fairness of `Claim` and `EndJob` as above, to which it adds strong fairness of `CommitRevocation`: PostgreSQL queues for a row lock in
order of arrival, so a revocation cannot be overtaken for ever by workers that release the row time and
again. Neither `Stop` nor `Die` is fair: nothing makes a worker end, which is why `killswitch` has its
counterexample. The repository sets neither a statement nor a lock timeout.

`WebhookOutbox!Fairness` is weak fairness of `Wake`, `Send` and `Mark` (the interval fires, a request ends with its timeout
at the latest, the database answers) and strong fairness of `Claim`: a claim query may fail time and again
(`AbortBatch`), and the timer repeats it every time; the assumption is that of infinitely many not every one fails. Nothing is
assumed of crashes, restarts, aborted batches, the clock or the endpoints' answers. `DueIsAttempted` names the two
exceptions it has: a lease of a dead process that still runs, and a secret that no key opens, which holds up every
batch it is in.

The other modules state safety only: a console, a client or a visitor owes nobody a next step.

## Proofs

All theorems hold for every value of the constants that satisfies `ConstantsAssumption`, `NoneAssumption`,
`BodiesAssumption`, `SessionAssumption`, `OutboxAssumption`, `IncidentsAssumption`, `ReadAssumption` and `BrowserAssumption`,
which TLC evaluates in the runs. They say: workers, jobs and the kinds and times of jobs have their types; the missing value is
none of the others; what a table holds is finite and its ids are ordered; there is a monitor, whose number an incident may
have; no filter of the site has the name of the search (`q`, `source`), which the code's fixed names guarantee.

- `SchedulerProofs`. `TypeCorrect` first. The safety invariants are not inductive: that no two live claims exist says
  nothing about the row a third worker will read. `LeaseInvariant` adds `ClaimsMatchRows`: a row that names a worker
  agrees with that worker's claim in attempt and expiry, and the row of an *active connector* still names the worker of each
  claim with time left. Connectors only, because a monitor's second activation frees the row of a live claim; a connector's row is never
  freed but by switches, which also make it inactive for good. `ClaimsFollowControl` ties claims to the control state,
  `RowsFollowSchedule` rows to activation. `FailedAttemptIsAudited` needs the attempt of an owner's claim to be
  the row's. From the invariant follow `LeasesCorrect`, `PausedJobsHoldNoLease`, `ConnectorClaimsAreExclusive`,
  `FailedAttemptsAreAudited`. `PausedJobsStayPaused` says of every step what it may do to a paused row: a claim that outlived the switch does
  not own the row any more (`PausedJobHoldsNoLease`), so its end leaves it alone, and an activation that lets the row run again read an approval
  when it was in force (`ActivationsSawApproval`, an invariant of its own: what was read stays true of its instant, whatever is decided later).
  `SchedulerImplementsLedger`: one lemma per group of actions shows that the entry of each job takes
  a step of the ledger; a claim is `Switched` or `Taken` per job, a finish is `Completed` or `Dropped`
  according to `owner = w`, for which `ClaimsMatchRows` is needed again.
- `ConnectorRunProofs`. `ConnectorRunsImplementScheduler` carries everything above over. `RunInvariant` adds to the types
  `WorkFollowsStore`: what an open execution is about to commit is in the store. From it
  `EvidencePrecedesRecords` and `SuccessesArePublished`.
  Runs are keyed by due date and audit entries by attempt, and a worker whose lease lapsed may
  write either before the owner does, so that neither grows with the counter. `DueInvariant`: the owner's claim
  has its row's due date, and every other due date of a run or a claim is a cadence behind the row's, because an owner's end
  moves the row a cadence beyond *now*; hence `RunsAreACadenceApart`. `AttemptsCounted`: the attempts without an
  entry are no more than the due dates of runs *behind* the row's. An owner's success adds the row's own due
  date to them, which nobody can have counted before; hence `AttemptsAreTraced`.
- `WorkerSessionProofs`. `SessionInvariant` adds `RowLocks`: one session holds a row, and its version is
  not older than the committed one; hence `NoAttemptIsLost`. `MainsRows` says of a worker of `main` that the row of each of its claims, and of each completion it
  has logged, is in its own open transaction: hence `MainsNeverShareAJob`, since one session holds a row, and `SessionsEndWhole`, since what a stop
  commits and a death drops is that transaction as a whole.
- `WebhookOutboxProofs`. That senders are exclusive is not inductive: it says nothing of the row another process
  will read. `LeaseHeld` adds that the row of a claim is in processing since the batch began, for deliveries nobody has
  overrun; `OverrunNoted` that a claim held for two minutes is in `overran`. A process that finds such a row due has a clock two minutes past the
  holder's, so the holder has overrun. `ClaimsAreDistinct` and `HeldExists` are what a mark
  needs: it drops one claim, and its row is there. From the invariant follow `OutboxTypeCorrect`,
  `SendersAreExclusive` and `SettledRowsStay` (a settled row is held by nobody who has not overrun);
  `VerifiedInvariant` and `AcceptedInvariant` carry the two histories through verification and answers. All hold
  for any number of processes, subscriptions, events and instants, and for both stores.
- `IncidentsProofs`. A matching version must mean that nothing changed, and that is what `ListsAreOld` says:
  every change of a row changes its version, workers' changes too, so an older copy of the same version *is* the row
  (`ListedIsRow`, hence `ChangesApplyAsSeen`). `WordingMatches` says that an incident is public exactly when it
  has a wording. The console publishes only what its list calls unpublished, and the version it sends makes that true of the row, so its
  publications overwrite no wording. A caller's do: what was published is in the audit since (`PublishedIsKept`), what was a correction is
  in `replaced`. Hence `PublicWordingIsRetained`. `EvidenceInvariant` needs that an incident that is not resolved names failures only:
  then the passing observations it names once resolved are the evidence it was resolved on. That the worker's
  lookup finds an active incident if there is one (`LookupFinds`) needs `MaxObservations`: incidents without a bound on
  their last observation need not have a latest.
- `SourceConsoleProofs`. The run of `SourceConsole` has a counterexample; these are theorems about the same module that no run
  checks. `ConnectorFormsAreRefused` is the reason behind the counterexample, for every form, source and decision: the
  body the page sends never parses. A console's version guards hold all the same: `CopiesAreOld` says that a
  copy of the same version *is* the row, because every decision and activation makes a new one, and
  `StalePagesAreRefused` that a page changes only the row it has shown. `VersionsHaveTheirAudit`: each version has
  the entry of one change, so that the ids of decisions and monitor activations, which are made of a row's id and
  version (`postgres-repository.ts:830`, `:963`), do not collide. No assumption on the constants is needed.
- `ReadApiProofs`. Pages first, for finite sets of numbers: the rank of a key (how many are below it) tells keys apart and
  takes every value below the cardinality, so `Least` has as many keys as it should and its greatest is before all the others.
  Hence the two repositories cut alike (`PagesAgree`, and `RepositoriesPageAlike`), and every page is the beginning of the rows
  left, with its last row as the cursor (`PageCuts`). That a finished walk is exact is not inductive; `WalkSoFar` says of
  one under way that each row that matched all along is among those fetched or after the cursor (`NothingSkipped`), and
  that what was fetched is in order and before it (`InOrder`). A write shrinks the first set and cannot move the cursor; a page
  takes both on (`WalkTurns`), also where targets are filtered after they were selected. Hence `WalksAreExact`.
  `DetailSoFar` rests on `FailuresFiled`: an observation and its incident are one transaction, so incidents read *after*
  observations have the failures among them, and observations are only added (`Grows`); hence `DetailsAreCoherent`.
  `SummarySoFar` says that the targets a summary has cover the sources of the incidents that last; hence `SummariesAreCurrent`.
  All hold for any ids, page sizes and any number of writes. The proof of the last found an error in the property as first
  stated, which the run did not show before it began with an incident that is yet to be published; see [below](#where-the-code-and-its-documents-disagree).
- `CatalogueBrowserProofs`. Everything rests on a round trip, `SettledMeansShown`: the address an effect writes for
  a view, read by a fresh application, shows that view. Hence `AddressesAreTrue`; and what an entry showed is what
  its address means (`EntriesRemember`), so that Back restores it (`NavigationIsAllOrNothing`). For the button back to the list the
  invariant says that `list` is what the application would show without the resource: the query and filters it still holds (`ListIsHeld`), or none
  of them after it read the resource's address, which says nothing of a list (`ResourceSaysNothing`, `ListUnknown`). A provider browser that stays
  on the screen from one entry to the next keeps its open panel: `DocumentsAreOfOneDataset` says why that panel
  still is of a file of its dataset, since another dataset always is another document; hence
  `CommandsAreProven`. All hold for any catalogue, inventory, number of datasets and length of history.

Every invariant and every action property of a passing run, and both refinements, are proved. Only model-checked: the
liveness properties (outside the prover's reach), and the three violations.

## Where the code and its documents disagree

- `renewal`: a poll reads the clock before its transaction. An approval renewed in between has
  `decided_at > now`, counts as not in force, and the job it covers is paused. Nothing activates it again:
  a connector cannot be activated twice. `scheduler.py:70` promises to disable schedules "whose latest
  approval or activation is no longer effective".
- `killswitch`: the worker `main` runs keeps the locks of every row it has claimed until its connection closes, so
  the revocation's UPDATE waits as long as the worker stays up. The access toolkit's design document, line
  405: "Runtime kill switches continue to invalidate active leases." The same outer transaction makes a
  death of the worker take back every completion it has logged (`CompletionsEndWhole`).
- `activation`: the review page's connector form sends no `recipe_reference`, which the route requires
  (`api/routes/admin.ts:65`), so no connector can be activated from the console. The page answers "Activation
  failed. Recheck approval, group, evidence and version." (`SourceReviewPage.tsx:210`), though all four are in order.

Met while modelling, stated as exceptions of the properties instead of runs of their own:

- `LocationShowsView` leaves two cases out. The ids of a page that is being reloaded are taken from its
  globals although the visitor has meanwhile gone back (`App.tsx:29-37`); and a provider browser that stays mounted between two
  entries of a document keeps the filters of the one it came from (`ProviderResourceBrowser.tsx:216`, `App.tsx:157`). `README.md:114`
  promises filters that are reflected in the URL.
- `WalkIsExact` leaves out that a walk over recipes begins again when the recipe its cursor names no
  longer matches the filter (`api/access-registry.ts:52-58`), and `SummaryIsCurrent` that PostgreSQL's summary looks at
  the first 200 rows of each list (`postgres-repository.ts:731-738`).
- A summary reads its targets before its incidents. If a source's last public target is withdrawn, and an incident of
  the source published, while the summary is between the two, it lists an incident that was never public at the
  same time as a target of its source. `SummaryIsCurrent` therefore asks that the source was shown at some time, not
  at the time the incident was current.
- The memory repository and PostgreSQL filter records without an observation time differently
  (`memory-repository.ts:200`, `postgres-repository.ts:508`), and `BackendsAgree` therefore asks for unfiltered lists.
- `EvidenceIsKept` and `OneActiveIncident` hold except where two writers overlapped (`worker/execution.py:494`).
- `PublicWordingRetained` leaves out that a caller of the API may publish anew over a correction, whose wording is then neither public
  nor in the audit (`postgres-repository.ts:1199-1228`); the console never does.
- `NavigationRestores` does not say that a search survives. On a resource's page Back, Forward, a reload and every link within the page ("jump to
  access") make the application read the resource's address, which has neither query nor filters (`App.tsx:86-104`), and "Back to the
  catalogue" then leads to the whole of it. The property says that it is the whole, and not a part of the old search. A provider browser
  that stays mounted keeps its own query and filters when the visitor goes back within it.
- Two workers on idle connections can execute one checkpoint of a connector, and the second end then overwrites the status of the run that published
  (`worker/execution.py:312`); workers of `main` cannot. A stale worker on an idle connection logs `job.completed` for an end that
  never reaches the database (`worker/service.py:153`).
- `DueIsAttempted` leaves out the deliveries of a batch with a secret that no key opens (`webhooks/postgres-store.ts:295`).
- The memory repository activates a connector for a source without a group, PostgreSQL's refuses it (`memory-repository.ts:503`,
  `postgres-repository.ts:1010`).
- The insertion of an incident fires no webhook event, only its later changes do (`migrations/005_webhook_outbox.sql:97`); the 24
  hours of a delivery count from the event, not from the first attempt; the ten seconds of a request are of inactivity,
  not in total; consoles list the first 200 rows only. No document says otherwise.

## What is not modelled

- Execution of recipes, adapters, parsers, corrections, transforms, provenance, pagination and the fetch runtime: functions within one call,
  without state that another process relies on. `ConnectorRun` takes an answer of the provider as one of a few outcomes
  and the records of a payload as a constant.
- `monitor/checks.py`, `monitor/baseline.py` and `incidents.py`: the checks themselves, and a lifecycle that the executor does not call.
- Migrations by two processes at once: the primary key of `schema_migration` makes one of them fail and start again.
- The status portal: three of `ReadApi`'s reads with a stored copy as a fallback. The console's deliveries and audit
  pages: one list each. In the catalogue the example panel, the export of a selection and the two languages.
- The order of row locks inside one multi-row statement (such statements are atomic
  here, so their deadlocks and re-evaluated rows do not appear), the hashes (identities are records of what
  is hashed), signatures, payload validation, the collation by which PostgreSQL sorts ids, storage backends
  apart from what a put promises, verification of tokens and the rate limiter (libraries), schemas, scripts and deployment.
