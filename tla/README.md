# Huldra in TLA+

Huldra is a single-machine broker for arXiv metadata: clients (CLI, Python
client, local HTTP API) ask for queries, Huldra answers from a SQLite store and
otherwise queues the work; workers and OAI harvests, in as many processes as the
user starts, fetch from arXiv under one shared limiter. The store is the only
shared state. Every store method runs in one `BEGIN IMMEDIATE` transaction, so
transactions are atomic and totally ordered, and everything that can go wrong
goes wrong *between* two of them: another process runs, this one dies, is
suspended, or acts on what it read before.

The modules here take that as their grain: **one transaction, one action**.
What a process keeps between two transactions (a snapshot of the rate state, the
row it claimed) is a variable of the model.

## Inventory

| Part (source under `src/src/huldra/`) | State | Operations | Hard behaviour |
| --- | --- | --- | --- |
| Upstream limiter and leases (`limiter.py`, leases and rate state in `db.py`) | lease rows, one row of rate state | `before_request`, `after_success`, `after_failure`, `after_rate_limit`/`after_429`; acquire, renew, release | TTLs must outlast sleeps and fetches; read-modify-write across transactions; holders die or are suspended |
| Queue worker (`worker.py`) | its token, the claimed row as it was | `run_once`: claim, cache check, ID plan, limiter, two ownership gates, budget, fetch, outcome | acts on snapshots; ends its pass with writes that are not fenced |
| Durable queue and budgets (`db.py`, `queue.py`) | `queue_items`, `upstream_request_budgets`, memberships | enqueue/join/promote, claim, complete, delay, fail, reserve, deadline checks, reconciliation | late joins, retries, expiry under a worker's hands, one pending row per key |
| Completed cache, stale-while-revalidate (`db.py`, `broker.py`) | `cache_entries`, `cache_matches` | record completed/failed/rate-limited, read, `enqueue_refresh_if_due` | refresh period reserved once; failed refresh keeps old answer |
| Broker facade (`broker.py`) | none | `ensure`, `result`, readiness waits | cache miss read long before the enqueue |
| ID-list reservations (`db.py`, `worker.py`) | `id_fetch_reservations` | acquire all or nothing, renew, release and wake, revalidate plan | overlap, expiry, plans computed before the wait |
| OAI-PMH harvest (`broker.py`, `oai.py`, `db.py`) | `oai_harvest_jobs`, `oai_pages`, `oai_records`, `oai_watermarks` | create/resume job, count request, checkpoint page, watermark, finish | crash between any two; two leases; repeated tokens; budgets across restarts |
| Maintenance (`broker.py`, `planner.py`) | `sync_jobs` | `sync_windows`, `complete_window`, drain, finalise, backfill | deadline against work of others; pages of a window read at different times |
| Paper store and version families (`db.py`) | `papers` | upserts, search | versions in any order |
| Retention (`db.py`) | all of the above | `gc`, `vacuum` | deletes beside work in flight |
| Fetchers and parsers (`fetcher.py`, `atom.py`, `oai.py`) | none | HTTP, XML | their outcomes are inputs of the models |
| Shells, settings, migrations, metrics | configuration | - | - |

They interact by shared rows only: workers and harvests through the
`upstream_fetch` lease and the rate state; clients, maintenance and workers
through queue rows and cache entries; harvests with each other through a scope
lease and the durable job.

What makes each correct:

- limiter: one request on the wire, a request interval between requests, none
  in a cooldown, counters exact, a dead holder's lease comes back;
- queue, budgets and worker: a request is paid for by every budget that wants
  it, a fetch holds lease and claim, what is cached is not fetched again, no item
  is forgotten, no demand is cancelled by another's budget, a refresh is done;
- ID reservations: no ID is fetched by two workers, no deadlock;
- OAI: no page lost, repeated or written by a process that lost the harvest; the
  watermark never passes data that is not stored and never goes back; budgets
  hold across restarts;
- maintenance: a window reported complete is; a spent budget leaves no
  active work behind;
- retention: nothing in use is deleted; paper families: order-independent.

## Modules

| Module | Contents |
| --- | --- |
| `PacedUpstream` | abstract specification of the limiter: at most one request in flight, spaced, no start in a cooldown, no running cooldown shortened |
| `UpstreamLimiter` | the limiter as it is, with leases, rate state, a clock, crashes, interrupts, suspended processes; implements `PacedUpstream` |
| `UpstreamLimiter_proofs` | theorems about it |
| `MCUpstreamLimiter` | its instances for TLC |
| `QueueWork` | queue, budgets, cache and `run_once`, with clients and the reconciliation of spent budgets |
| `QueueWork_proofs` | theorems about it |
| `MCQueueWork` | its instances for TLC |
| `ListMirror` | abstract specification of the harvests: a list copied by a walk from its first page, within a budget; watermark and completed jobs speak for a whole list only |
| `OaiHarvest` | `harvest_oai`: job, pages, tokens, budgets, watermark and both leases, across crashes and resumed runs; implements `ListMirror` |
| `OaiHarvest_proofs` | theorems about it: types, cursor, bad tokens, budget |
| `OaiCoverage_proofs` | theorems about the list a harvest has stored; the refinement of `ListMirror` |
| `OaiRepeats_proofs` | the theorem that no page is stored twice |
| `MCOaiHarvest` | its instances for TLC: the lists a server may serve |
| `IdReservations` | requests for lists of IDs: plan, reservations, both gates, every exit of `run_once` |
| `IdReservations_proofs` | theorems about it |
| `MCIdReservations` | its instance for TLC: two lists that overlap |
| `PaperFamilies` | the rows of one paper: workers that fetch, answers composed from the store, harvests |
| `PaperFamilies_proofs` | theorems about it |
| `CompleteWindow` | one window of `sync_windows` in `complete_window` mode, from its first page to the report of its job, beside a collection of budgets |
| `CompleteWindow_proofs` | theorems about it |

### UpstreamLimiter

`lease` is the `upstream_fetch` row, `rate` the `arxiv_legacy_api` row; `pc`,
`sampled` (`current` in the code) and `snap` (`state`, `previous`) are a
process's locals. `Acquire ... RecordStart` are the transactions of
`before_request`; `Fence` stands for `renew_worker_fetch_ownership` and
`renew_leases_if_owned`; `Answered` and `AfterSuccess`/`AfterFailure`/
`AfterRateLimit` and `Release` are `after_*`, whose read and write are separate
transactions, the write unconditional. `Crash` leaves the lease to the token
`Gone`; `Interrupt` is an exception that unwinds a harvest, which can be resumed
under the same token `oai:<harvest_id>`.

Time is an integer clock. A running process takes its next step within
`StepTime` (or within its sleep or timeout plus `StepTime`): `Tick` waits for it.
This is the reading under which the code's TTL formulas (`... + store.timeout +
5.0`) are meant to be safe, and `PaceAssumption` says how long the allowances
must be against the pauses. `StallSpec` drops it: processes may be suspended
for any time (a closed laptop, SIGSTOP).

### QueueWork

`row`, `first`, `charged`, `started` are `queue_items`, the memberships'
`first_attempt_number` and `last_charged_attempt`, and `requests_started`.
A worker keeps `job` and `snap` (request id and `work_kind` of the row when it
claimed it); `round` counts the gates of `_gate_fetch_ownership` it has passed.
The actions of `Pass(w)` are the transactions of `run_once` in order; `Enqueue`,
`EnqueueRefresh` and `FailActive` are those of `ensure`, `sync_windows`,
`enqueue_refresh_if_due` and `fail_active_upstream_budget_items`. The limiter is
the lease only. Time is nondeterministic: a delayed item may be claimed at
once, a deadline passes at any moment, a claim or lease whose owner is gone
expires at any moment. A claim may also run out under a live worker while it
sleeps before its first fence, as the claim's TTL does not count the wait. Where
a live process is suspended past a TTL it renewed, the ghost `steady` becomes
false, and the safety properties say nothing further: that no TTL is exceeded
without such a suspension is what `UpstreamLimiter` shows.

Abstracted: priorities and request merging (which row a worker claims is left
open), the denormalised column `upstream_budget_id`, the ID-list plan (`IdReservations`
has it), heartbeats and events. `after_*` and the cache failure that follows are one action, since no
other process reads both.

### OaiHarvest

`job` holds the rows of `oai_harvest_jobs` with the token hashes of their
`oai_pages` (`seen`), `latest` the job of a mode that finished last, `watermark`
the row of `oai_watermarks`; `scope` and `upstream` are the two leases, the first
owned by a run of a process (`owner` is a fresh UUID), the second by a job
(`oai:<harvest_id>`), so two runs of one job share it. `pc` and `me` are where a
run is in `_harvest_oai_owned` and its locals; every `Step(p)` is a statement that
reads or writes the store, or the request itself. `hist` is a ghost: what a job
fetched, from where, and what the jobs it continues had stored. `list` is
what the server serves: for each cursor the next one, and which pages are empty.

A run that starts takes the scope lease, finds a running job of its mode or makes
one (with the token of the latest resumable job, if any), loads the consumed
tokens, and turns the loop: renew the scope lease (`RenewScope`), budgets and
limiter (`Ask`), count the request (`RecordRequest`), fence both leases (`Fence`),
`Send`, `PageArrives` or `FetchFails`, `Checkpoint`, `AfterSuccess`; then
`SetWatermark`, `Finish` and `Leave`. `Crash` leaves the scope lease to `Gone`;
`Interrupt` is an exception, after which only the `finally` runs. `Stall` is a live
process suspended past the TTL of a lease it holds.

Abstracted: one scope, without datestamp bounds and without a token given by the
caller; the records of a page and their upserts; `last_datestamp`; days instead of
instants (the granularity of the watermark); a response date that is missing or
unreadable; the deadline is a flag (`late`) that is set once; the limiter is its lease and
its refusals (`UpstreamLimiter` has the rest). A queue worker takes the upstream lease
only where a harvest is about to look at it; taking it elsewhere is not visible.
A page is named by the cursor that requests it, so equal contents under different
tokens are different pages.

`ListMirror` has none of this: `stored` is the union of what the jobs have stored, `completed`
the jobs with that status. Its `Overwrite` is a status written over another: without suspensions
no completed job loses it, with them `Finish` may.

An observation about what holds: the tokens a job has consumed are those of the
job. A circle of tokens wider than `max_pages` is therefore not noticed by a chain
of jobs that each resume the last one; `NoPageTwice` claims the absence of repeats
across jobs only for lists without circles.

### IdReservations

`papers` is the set of IDs that `get_papers_by_ids` finds, `res` the table
`id_fetch_reservations`, `row` status and claim of the queue items; a delayed item with
the category `id_fetch_reserved` is `"waiting"`. `plan` is a worker's
`_IdListFetchPlan`: `known` its snapshot `papers_by_id`, `ids` its `reserved_ids`; to it
the model adds which gate the worker has come to (`round`) and how the pass will end
(`then`). `answered` is a ghost: the IDs that an ID-list fetch has stored.

`Claim`, `CheckCache`, `Plan`, `Reserve`, `Ask`, `Awake` lead to the first gate. A gate
is `Fence`, `Recheck`, `Revalidate`, `Trim`, `Renew` and `Fence` again, and it is passed
twice: `Pay` is between, `Send` after it. Every exit has some of three transactions, in
this order, and the model shares them: `Dropping` (the lease), `End` (the row),
`Release` (the plan's reservations, waking the waiters whose list has one of them).
`Lapse` is the sleep before the first fence: it may outlast the TTL of claim and
reservations, after which others may take either. `OthersStore` is a harvest or a
query storing a paper of a list.

Abstracted: expiry times and `next_attempt_at` (what is due or expired is left open),
the limiter (its lease, and a refusal), budgets (a denial), version families and the
normalisation of IDs, contents of papers, priorities, several items of one key
(`QueueWork`), and workers suspended past a TTL they have renewed.

Two observations. A holder that releases between a blocked worker's look at the
reservations and its write of the delay wakes nobody, and the item waits until the
reservation would have expired, where
docs/design/recoleta-compatible-arxiv-broker-proposal.md:503-505 has it wait for the
worker or the expiry, whichever is first: late and not for ever, so `EveryItemSettles`
holds. And `Store` writes back the papers the plan knew before the fetch, over what a
harvest may have stored of them since; what this does to a paper is
`FetchKeepsHarvest` and `ComposeKeepsTombstone` of `PaperFamilies`.

### PaperFamilies

`paper` has the rows of one paper: `0` is the base row, which a harvest makes, `v` the
row of version `v`, which a legacy answer makes. Of a row the model keeps the OAI
columns (`oai`, `day`, `deleted`) and which version its title and abstract are of
(`holds`). `Upsert` is `_upsert_paper_conn` with the redirection of a legacy version to
the base row; `Written` is its `ON CONFLICT` clause; `OaiTarget` is where
`_oai_paper_for_existing_version_family` merges a record; `Answers` is the row that a
lookup by name reads.

A worker has a plan (`PlanList`) or asks arXiv without one (`AskUpstream`: a search, a
refresh), wins the upstream lease and makes its plan again (`Win`), fetches (`Fetch`)
and writes back what it fetched together with what it knew (`Store`). A list whose
names are all known is composed from the store (`Compose`), in a transaction later than
the one that read the papers and under no lease. `ListRecords` and `Checkpoint` are a page of a
harvest; `Change` is a new version, a deletion or a return at arXiv.

Abstracted: one family (rows of different papers do not touch each other), the
contents of a paper beyond its version, a lease that runs out under a live process
(`UpstreamLimiter` has that), `mark_paper_deleted`, which nothing in `src/` calls. The ghost
`undone` is set once a composed answer has put back what a harvest had
replaced: `ComposeKeepsTombstone` is violated by it, and `FetchKeepsHarvest` says of
the other writers that they do no such thing.

### CompleteWindow

One call is one process, and `pc` says where in `_sync_windows` it is. Its steps in order:
`Begin` (plan, budget), `CreateJob` (job, first row), `EnqueueFirst`, `DrainFirst`, `PlanPages` (the
exits `overflow`, `empty_page`, `page_budget`), `Admit` (the exits for request budget and time),
then for each page `RecordPage`, `EnqueuePage`, `PageEnqueued`, then `DrainPages`, and for each
page of the report `RefreshRow`, `ReadEntry`, `CheckIntegrity`, `ReadPapers`; last
`Finalize`. Pages are named by their `start`. `item` is the pending row of a page: `ours` if the
budget of the call is a member, `demand` if somebody else wants it, `ended` if a row has
come to its end since the call asked. `loose` are the pages whose row was failed by the call's own
deadline while a worker was fetching them: the answer is stored all the same.
The workers (`TakeItem`, `Answer`, `FetchFails`, `RetryDue`, `LateAnswer`) are `QueueWork` in
short. `list` is the window at arXiv; it grows by insertion anywhere, as papers may
be announced out of order. `overdue` is the deadline, which passes at any moment.
`Collect` is the part of `gc` that deletes a budget nobody refers to, and `gone` says that
it was this one: `EnqueueFirst` then fails on the foreign key (pc `raised`, the job is left
running), and `Admit` ends with `request_budget`, as there is no count to reconcile with.

Abstracted: one window per call; answers without a `totalResults`; the slices mode and
`backfill`; coverage records; what a collection deletes by age (rows, jobs and events that
ended before its cutoff), and `vacuum`. The list never shrinks.

## Runs

| Run | Shows |
| --- | --- |
| `limiter` | two workers and a harvest, clock to 9, two rate-limit answers: `TypeOK`, `SingleFlight`, `CountersExact`, `Paced` (refinement), `StartsSpaced`, `CrashedLeaseReclaimed` |
| `limiter_stalls` | suspension and interrupts allowed: `FenceMeansContinuity` |
| `queue` | two workers, two rows for one key, a budget with a deadline, two attempts: `TypeOK`, `PaidBeforeSent`, `FetchOwnsClaim`, `NoRefetch` |
| `queue_live` | one row, two budgets (one with a deadline), three attempts: `PaidBeforeSent`, `EveryItemSettles` |
| `queue_refresh` | finds `ShortcutOnlyForMissing` violated: a promoted refresh is completed away |
| `queue_demand` | finds `DemandNotCancelled` violated: an ordinary request that joins late fails with the budget |
| `oai` | two processes, one mode, five kinds of list, two jobs of two pages: `TypeOK`, `CursorExact`, `BudgetHolds`, `CompletedIsCovered`, `WatermarkHonest`, `BadTokenStops`, `Mirrored` (refinement) |
| `oai_live` | two modes, a list that ends and a circle, four pages: `NoPageTwice`, `EveryHarvestSettles` |
| `ids` | two workers, lists {a, b} and {b, c}, one mishap: `TypeOK`, `FetchReserved`, `NothingLeaked`, `CompletedWhole`, `FetchedOnce`, `EveryItemSettles` |
| `papers` | two workers and a harvest, two versions, four days: `TypeOK`, `OneShape`, `ProvenanceExact`, `AliasesLast`, `HarvestVisible`, `FetchKeepsHarvest` |
| `papers_compose` | finds `ComposeKeepsTombstone` violated: an answer composed from the store clears a tombstone |
| `window` | pages of two, at most three of them, two requests, two mishaps: `TypeOK`, `CompleteCovers`, `PagesAccounted`, `AdmittedIsPaid`, `AccountKept`, `CallReturns` |

Bounds. `limiter`: the clock's nine ticks hold two requests with their waits,
a crash in the middle and the expiry of the lease it leaves
(`LeaseTimeout` 3, `FetchTTL` 6); the harvest and the workers have different
fence TTLs and different rate limits (429; 503 with Retry-After); `MaxLimited` 2
reaches the cap of the adaptive cooldown. `queue`: `MaxAttempts` 2 gives every item
a retry, `MaxRequests` 2 is reached and exceeded across two rows; two rows of one
key are the smallest instance in which a key is queued again while an earlier
row of it is still worked on; `MaxCrashes` 1. Workers and rows are symmetric, and the
run has no liveness property. `queue_live` trades the second row for a second
budget and a third attempt and has no symmetry. `CHECK_DEADLOCK FALSE` in the queue's
configurations: when every row has settled and the supply of rows is used up,
the system stops. `oai`: with `MaxPages` and `MaxRequests` 2 a list of three pages takes
two jobs, the second continues the first; a crash or a suspension (one of them)
may fall between any two statements, and `MaxDay` 2 lets the responses of two runs
come on different days. `oai_live` has `MaxPages` 4, so a job goes round the circle of two
tokens before its budget ends it, and no suspensions. The same remark on
`CHECK_DEADLOCK` holds: no job left to create. `ids`: two overlapping lists are the smallest
instance in which a worker may hold a part of what the other needs; others may
store the shared ID and the rest of one list, so a gate may find part of a list stored, or
all of it. `papers`: four days are a new version, a deletion and a
return, in any order, and as many harvests as there is time for; two workers are one that
holds the lease and one that composes, or waits. `window`: three pages are the
smallest window in which pages of different ages overlap or leave a gap; `MaxPapers` 7
is one above `Cap` 6, so that `overflow` happens, and six papers after a short
first page need more than `MaxPages` 3; `MaxRequests` 2 is less than the three pages need,
so `request_budget` happens and pages found in the cache matter. `ids`: `MaxMishaps` 1 allows one crash, lapse, refusal, denial, or fetch that
is retried, at any point; complete answers, incomplete ones and permanent failures are
free. (Two mishaps take minutes and hold too.) It stops when both items have settled. Clock and attempts are bounded only in guards.

Fairness. `limiter`: a running process takes its next statement, does not fence
for ever, and the clock moves; nothing makes a process ask, die or be interrupted.
`queue_live`: `run_once` runs to its end, workers poll for claimable rows (the
daemon's loop), and a lease of a dead owner runs out. Nothing makes clients act.
In `EveryItemSettles` an item may instead reach `MaxAttempts`: rate limits and
transient failures may repeat for ever in the code as well. With several items,
claims in priority order could starve a low priority; the run has one item and
claims nothing of that. `oai_live`: a run that has started runs to its end, the scope lease
of a dead run expires, and a harvest of each mode is run again (the code leaves
this to the user or a scheduler, and a job is not finished by anyone else).
`window`: the call runs, also as the worker of its items, items are
answered or fail, retries come due; nothing is assumed of the deadline.
`ids`: a pass runs to its end, what a dead worker left expires, as does a claim that its
worker no longer works on, and each item is claimed again when it may be (the queue is
finite, and no new item overtakes).

## Disagreements found

1. `queue_refresh`: "the completed-cache shortcut applies only to `fetch_missing`
   items" (recoleta-compatible-arxiv-broker-proposal.md:447) is tested on the claimed
   snapshot; a row promoted to a refresh after the claim is completed without one.
2. `queue_demand`: "without cancelling other demand" (db.py:574) fails when an
   ordinary request joins the row between the budget check and the terminal write.
3. `papers_compose`: mixed records are reconciled "by preserving OAI provenance and
   tombstones" (CHANGELOG.md:103-104), but `_try_compose_cached_id_list` reads the papers in one
   transaction and writes them back in another. A harvest that stores a deletion in
   between has its tombstone cleared, until the paper is harvested again.

## What does not hold

Found while modelling, and not claimed by any property above.

- `StartsSpaced` ("at least one request interval across all local consumers",
  recoleta-compatible-arxiv-broker-proposal.md:38) needs a harvest that is not interrupted:
  one that is, during its fetch, and is run again at once has the same token
  (`oai:<harvest_id>`), finds its lease still there, and `last_request_at` was never moved. TLC
  finds this with `Interruptible = {h1}` in `MCLimiter.cfg`; `SpacingHolds` has it as a
  hypothesis.
- A process suspended past its lease's TTL may record a 429 late, when its successor is between its
  cooldown check and its fetch: the successor probes a service that has just
  rate-limited (`StallSpec` allows it; after the fence nothing reads the rate state again).
- `complete_oai_harvest_job`, which writes every terminal status, names the harvest only. A run that is
  suspended between its last look at the lease and that write ends the job its
  successor works on (`Finish` in `OaiHarvest` after a `Stall`), or takes "completed" from one its
  successor has completed (`Overwrite` in `ListMirror`), although broker.py:356-357 says
  "Never persist a terminal status after losing either lease". What was stored stays exact
  (`CursorHolds`).
- `enqueue_refresh_if_due` (db.py:1955) reserves a period in `refresh_after`, but what it compares with
  the clock is the smaller of `refresh_after` and `completed_at` plus the caller's interval.
  After a refresh has failed for good the second is past and stays past, so every
  request for the stale answer enqueues another refresh as soon as the last one has ended: the
  reservation has no effect, and only the limiter's cooldown paces them.
- `ensure` reads the cached papers in one transaction and asks for the refresh in another. If a
  refresh completes in between, the caller gets the old papers, not marked stale.
- `gc` (db.py:2932-2948) deletes a budget that nothing refers to, whatever its age. One that
  `sync_windows` has created (broker.py:747) is referred to only once its job is
  (broker.py:763). Collected in between, the job is written all the same, and the first
  enqueue fails on the foreign key of the membership (migrations.py:113); the job stays
  `running`. If the first page was in the cache the call gets as far as the admission and ends
  `partial`, out of requests (`Collect` in `CompleteWindow`). An account that something was asked
  for on is never collected (`AccountKept`).

## What is proved

`UpstreamLimiter_proofs`, for any set of processes, any settings that satisfy
the assumptions and any length of run:

- `TypeCorrect`: `Spec => []TypeOK`.
- `SingleFlightHolds`: `Spec => []SingleFlight`.
- `CountersHold`: `Spec => []CountersExact`.
- `Refinement`: `Spec => Paced`, the limiter implements `PacedUpstream`.
- `SpacingHolds`: requests start `Interval` apart, if no harvest is interrupted and
  resumed and `Interval + StepTime` is at most the TTL of the last fence. Nothing
  in `config.py` enforces the second hypothesis; the defaults satisfy it.
- `FenceIsContinuous`: `StallSpec => FenceMeansContinuity`, also where processes are suspended for
  any time. `PaceAssumption` plays no part in it: of all that is known of the lease, types and
  `LastOwner` are left, the owner of the row is who acquired it last. A row that was
  taken by another is not given back, so a strict renewal that finds its owner is one of
  a lease without a break.

Assumptions: `ActorAssumption` (tokens are distinct from the two markers),
`SettingAssumption` (ranges of the settings) and `PaceAssumption` (a running
process pauses for less than half the lease timeout and a quarter of the slack).

The argument. `SingleFlight` is not inductive: that nobody else can acquire the
lease depends on how long it has to live. `IInv` adds `LeaseCovers` (a process
inside the limiter owns the lease, and the lease outlives the latest time of
its next step, with what the later renewal needs) and `RateIsMine` (while a process
is inside, the rate row changes under nobody's hands but its own: what it read is what is
there). `RateIsMine` turns the read-modify-write into an atomic update, which
gives `CountersExact` and, with the clock, the refinement: `Start`'s guards hold
because the waits were computed from the row that is still there. `SInv` carries the
spacing across crashes: either the last start is accounted for in `last`, or the
dead process's lease still keeps the others away.

`QueueWork_proofs`, for any workers, items, keys and budgets, from `QueueAssumption`
(names are distinct, ranges):

- `TypeCorrect`, `PaidHolds`, `ClaimHolds`: `Spec => []TypeOK`, `Spec => []PaidBeforeSent`,
  `Spec => []FetchOwnsClaim`, from `QueueInv`. Its types hold always; the rest, like
  the properties, says nothing once a live process has been suspended past a TTL (`steady`).
  That a request is charged before it is sent to every budget that wants it, also to one that
  joined late, needs the whole pass: an awake worker's row is claimed by it, or
  the call behind it has given up (`Lone`), and no two are awake on one row (`Apart`), so what
  has not been charged yet is charged once (`Fresh`); from the reservation on
  the gate keeps late joins out of the attempt (`Closed`), which leaves one request of each
  budget still to be sent (`Paid`).
- `NoRefetchHolds`: `Spec => NoRefetch`, from `QueueInv` and `MissInv`: a worker past its
  second look at the cache holds the lease, and only the holder writes an answer.

`IdReservations_proofs`, for any workers, items and lists of IDs and any number of mishaps;
nothing is assumed of the claim or the upstream lease:

- `TypeCorrect`, `ReservedHolds`, `NothingLeaks`, `WholeHolds`: `Spec => []TypeOK`,
  `[]FetchReserved`, `[]NothingLeaked`, `[]CompletedWhole`, from `ReservationInv`. Past a fence a
  worker has a live reservation of each ID of its plan, and nobody takes a live one
  (`Held`); what a worker has reserved is in its plan, so dropping the plan drops all of
  it (`Kept`); what it knows to be stored is stored (`Consistent`).
- `OnceHolds`: `Spec => FetchedOnce`. Plans are made from snapshots and may be old when they are
  reserved; what was missing at the revalidation behind the gate is missing still when the
  request goes out, as only the one that holds an ID stores its paper (`Unanswered`).

`OaiHarvest_proofs`, for any processes, jobs, tokens, lists and bounds, from
`HarvestAssumption` (names are distinct, `next` maps cursors to cursors, ranges):

- `TypeCorrect`: `Spec => []TypeOK`.
- `CursorHolds`: `Spec => []CursorExact`. `CursorInv` adds that a row not yet inserted
  has stored nothing and that a run about to end a job knows a terminal status (else
  `Finish` could make a job running again). Nothing is assumed of the leases: what keeps
  the cursor exact is the comparison in `checkpoint_oai_page`, also when runs of one
  job are suspended past their leases and overlap.
- `BadTokenStopsHolds`: `Spec => BadTokenStops`. `OneRun` says that, unless a live run
  outlived its lease, a run that is under way holds the scope lease, so it is the
  only one; and what it knows of its job (`JobState`): it is running, no stored page
  was a bad one wherever the loop goes on, and where an error is pending the status
  can only be `failed`.
- `BudgetIsHeld`: `Spec => []BudgetHolds`, also where suspended runs of one job overlap. A
  bound on `requests_started` of the row is not inductive, as each run writes back the count in its own
  locals. `BudgetInv` counts what is *due*: the requests sent, and the runs that will still
  send one, which are those past the fence and, before it, the owner of the scope lease. The row
  of a running job has counted all that is due (`Counted`), and the owner of the
  scope knows a count that covers it (`OwnerKnows`); another run's count may be old, but
  the fence stops it before it sends.

`OaiCoverage_proofs`, on top of it and from the same assumption, also for overlapping runs:

- `CompletedCovered`: `Spec => []CompletedIsCovered`, and `WatermarkIsHonest`:
  `Spec => WatermarkHonest`. The pages a job has stored need not be a beginning of the list:
  a stale run may end a job with the token of an earlier page, and the next job starts
  there. What holds is weaker and enough: the stored pages, together with all that follows
  the token, are the whole list (`Covers`), for the row of each job (`JobCovered`) and for the
  token in the locals of each run (`RunCovered`), from where the list leads to the
  token of the row (`Leads`); a job continues only one for which it holds (`Continues`).
  "All that follows" is a quantifier over the sets of cursors closed under `next`, so no induction
  along the list is needed.
- `MirrorHolds`: `Spec => Mirrored`, the harvests implement `ListMirror`. Its watermark waits for
  everything that is stored, by whatever job, and not only for what the job that moves it has: so `WalkInv`
  has every page, and every cursor in a row or in the memory of a run however late, on the way
  from the first page (`OnWalk`). A whole list then has all of them, and what one job needs to
  be whole is all there is (`CopiedWhole`).

`OaiRepeats_proofs`, on top of it and from the same assumption:

- `NoPageTwiceHolds`: `Spec => []NoPageTwice`, from `RepeatInv`, which has `OneRun`: the only run knows
  the tokens of its job (`Agrees`), so the check of `_oai_token_error` keeps the next one out of
  what the job has stored (`Distinct`). Across jobs nothing is checked, and it is the list that must
  not come back: every page is the first one or comes after one that is stored (`Linked`), and a
  cursor that is there already would come after two pages (`Chained`).

`PaperFamilies_proofs`, for any workers and any number of versions and days, from
`FamilyAssumption`:

- `TypeCorrect`, `ShapeHolds`, `AliasesHold`: `Spec => []TypeOK`, `Spec => []OneShape`,
  `Spec => AliasesLast`, from `FamilyInv`. The shape alone is not inductive: a copy in
  memory may be written back long after the family was merged under another name, so
  `CopiesFit` says that every copy still fits the rows, and `Clean` that a row without an OAI
  identifier has neither date nor tombstone.
- `HarvestIsVisible`: `Spec => HarvestVisible`, from `FamilyInv`.
- `ProvenanceHolds`, `FetchKeeps`: `Spec => []ProvenanceExact` and `Spec => FetchKeepsHarvest`,
  from `HarvestInv`: there is a history of what arXiv said of each day that all rows, copies
  and records agree with (`Truthful`), so what has the same date has the same tombstone; the record of a
  harvest under way is newer than every row (`PageNewest`), and the copies of a worker
  that holds the lease are as new as the rows it read them from (`Fresh`), as
  only the holder and composed answers write.

`CompleteWindow_proofs`, for any window, page size, caps, budgets and number of mishaps, from
`WindowAssumption` (ranges):

- `TypeCorrect`, `PagesAreAccounted`: `Spec => []TypeOK`, `Spec => []PagesAccounted`, from
  `CallInv`: the pages that have rows are, at each place in the call, the first one and what
  the loops have done of the plan (`RowsInv`), and no page is read twice (`TallyInv`).
- `AccountIsKept`: `Spec => []AccountKept`, from `AccountInv`. A collection finds nothing that refers
  to the budget only before the job is there, when no item can have it (`OursInv`).
- `AdmittedIsPaidFor`: `Spec => []AdmittedIsPaid`. `Solvent`: what is spent, and one request for
  each page without an answer that is in the queue for the call or still to be
  enqueued (`Owed`), fit the budget, as long as no request has to be repeated. A
  request moves one page from owed to spent; other callers only make it less.
- `CoverHolds`: `Spec => []CompleteCovers`. Papers move back in the list only, so an entry of
  any age has papers from behind the start of its page (`PapersInv`), and what was seen is a part
  of the window (`SeenInv`). A part with as many papers as the whole is the whole: whether the
  pages fit together never has to be asked.

Only model-checked: the liveness properties (`CrashedLeaseReclaimed`, `EveryItemSettles`,
`EveryHarvestSettles`, `CallReturns`), which are out of the prover's reach. Every safety property
of the passing runs is a theorem.

## Plan

Limiter, queue, ID reservations, harvest, paper families and the complete window are modelled
and proved about. What remains:

1. `SwrRefresh`: one cache key with clocks for the age of the answer and the
   reservation in `refresh_after`; what is known of it without a model is under "What does
   not hold".
2. `Retention`: the deletion of ended rows and jobs by age; budgets are in `CompleteWindow`.
3. `complete_window` for an open window and for several windows of one call, which share
   the request budget.

## Not modelled

XML and Atom parsing, HTTP, the shells, formatting, one-off
migrations, metrics and events, whose effects on the modelled state are the inputs
the models leave open.
