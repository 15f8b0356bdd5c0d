# SearchCar Desktop: TLA+ models and proofs

SearchCar Desktop watches saved searches of a car marketplace. A local FastAPI
process keeps everything in SQLite; a worker thread in the same process drives a
browser and stores what it finds; a Tauri shell starts the process and tells it
about sleep, resume, updates and exit; a small license service decides whether
the installation may search. This directory models the parts of that system
whose correctness depends on the order of concurrent steps, model-checks them
with TLC and proves their main invariants with TLAPS.

## Inventory

| Component | State | Operations | Interacts with |
|---|---|---|---|
| Scan queue and worker loop (`worker.py`, `job_queue.py`, handlers of `main.py`) | `scan_runs`, `project_scan_runs`, the worker's cached run and locals | enqueue, claim, process, cancel, delete project, block account, shutdown, sleep, recover | API, scheduler, desktop runtime, all through the same rows |
| Scheduler (`enqueue_scheduled`, `desktop_scheduler.py`, `set_scheduler`, `pause_scheduler`) | `scheduler_settings`, `scheduled_projects` | save, pause, timer turn, resume catch-up, re-anchoring after a run | queue (inserts runs, reads live runs), worker, desktop runtime |
| Detail pool (`detail_workers.py`) | task queue, result queue, browser threads | start, submit, collect, cancel, close | `process_job`, browser budget |
| Live updates (`live_updates.py`) | revision and waiters | publish, wait | worker, event stream |
| Observation (`services.py`, `worker.py`) | project-car relations, snapshots, price history | observe, confirm price, mark missing, relist | worker |
| Enumeration (`scanner.py`) | page cursor, pages seen | next page, stop, fail | worker |
| Parser (`parser.py`) | none | text to records | scanner |
| Auth (`auth.py`, `main.py`) | sessions, login throttle, CSRF token | login, logout, revoke, throttle | every handler |
| License service (`license-service/src`) | licenses, devices, codes, transfers, trial claims, idempotency keys, owner sessions | trial, check, redeem, transfer and claim; the owner's create, code, sources, approve, delete; cleanup | license client |
| License client (`desktop_license*.py`) | device key, `binding.json`, `lease.json`, `trusted-time.json` | activate, recover, refresh, forget, evaluate | worker, API, license service |
| Maintenance lock (`maintenance.py`) | lock file, update flag | begin, finish, clear stale | backup, update, queue |
| Runtime (`desktop_runtime.py`) | instance lock, relays, shutdown flag | start, stop, resume, update | shell, queue |
| Backup and restore (`desktop_backup.py`) | archives, pending restore | create, stage, apply, roll back | maintenance, runtime |
| Migrations (`sqlite_migrations.py`, alembic) | schema version | upgrade | start-up |
| Importer, converter, seed, onboarding | one-shot data | run once | start-up |
| Tauri shell (`lib.rs`) | sidecar process, tray, update state | spawn, supervise, sleep detection, update | runtime |
| Web interface (`page.tsx`) | view state | polling, requests | API |

What is hard here. The queue: every writer of the queue uses an ORM session on SQLite in its
default mode: rows are read without a lock and written later, so each handler is
a read, a decision and a write with other commits between them. Sessions keep
their objects after a commit (`expire_on_commit=False`), so the worker writes
from a cache it refreshes only at checkpoints, and `scan_runs.payload` is one
JSON column that every writer replaces as a whole. The process can die between
any two commits. Sleep, resume, shutdown and user requests arrive while the
worker waits for a page. The license service: a request is served by an invocation
of its own and interleaves with others at every await; only unique indexes and
WHERE clauses see what happened in between, and the client sends a request again
when it hears nothing. The license client: three files are replaced one at a time,
while evaluations read them without the operations' lock and the clock may be set
to anything. Observation: the cars are shared by the projects, a scan works from
pages read earlier, and the outcome of one project changes what another one will
see. The data directory: a restore replaces a database and a folder in steps, and
lock files survive the process that wrote them. `PROJECT.json` lists these hazards
with their lines.

What makes the parts correct: at most one scan runs, on one worker; a run's
status agrees with its projects' statuses; a committed outcome is not lost to
cancellation, crash or recovery; merging a manual request with a scheduled run
drops no project; a cancelled scan stops; a due schedule is served, once per
interval; detail results are delivered once and threads end; a code, a trial and a
binding have one winner and a repeated request one answer; an expired lease or a
deleted licence does not come back; a project's reports account for everything its
relation to a car remembers; the user's data survive every interrupted restore, and
no lock stays behind.

## Modules

| Module | Models | Used by |
|---|---|---|
| `ScanQueue` | scan queue, worker loop, handlers that write the queue, crash and restart | `MCScanQueue`, `ScanQueueProofs` |
| `ScanScheduler` | timer row, timer turn, settings and tray handlers, resume and start-up catch-up | `MCScanScheduler`, `ScanSchedulerProofs` |
| `DetailReading` | abstract: what `process_job` is promised when it reads details with a pool | `DetailPool` (refinement mapping) |
| `DetailPool` | browser threads of one project and their coordinator in `process_job` | `MCDetailPool`, `DetailPoolProofs` |
| `Observation` | enumeration of a search, verified reads, shared cars, relations, change reports, search absence | `MCObservation`, `ObservationProofs` |
| `LicenseService` | every request of devices and of the owner, cut at its awaits | `MCLicenseService`, `LicenseServiceProofs` |
| `DesktopLicense` | device key, operations, the three state files, evaluation of a lease | `MCDesktopLicense`, `DesktopLicenseProofs` |
| `DesktopData` | startup, restore, backups, lock files, update, against scans | `MCDesktopData`, `DesktopDataProofs` |
| `MC...` | instances: constants and symmetry sets only | the runs |
| `...Proofs` | inductive invariants and theorems about the module they extend | |

How they fit together. `DetailReading` is the seam between scanning and the pool:
`Observation!ApplyDetail` takes any unfinished task, as the promise allows, and
`DetailPool` implements the promise. `ScanQueue` and `ScanScheduler` share the run
table: what one takes apart the other takes whole. `DesktopLicense` treats the
service as its environment with the answers `LicenseService` can give.
`DesktopData` keeps of the queue only whether a scan is queued or running.

### ScanQueue

State. `runs` is the table `scan_runs`: status, owner, worker and the payload
keys that control flow reads (trigger, project ids, car ids, cancellation
reason, current project). `psr` is `project_scan_runs`. `active` and `projects`
are the accounts whose status is ACTIVE and the existing projects. `up` and
`stopping` are the process and its `worker_stop` event. `wk[w]` holds the locals
of `run` and `process_job`: program counter, cached row, units left, outcome
flags. `req[h]` is a request thread between its read and its write.

Grain. A handler is two actions: `cancel_scan` loads, `cancel_scan_commit`
writes; likewise `enqueue`, `enqueue_scheduled`, `delete_project`,
`request_shutdown`, `request_sleep_interruption`. Blocking an account flushes a
users row before it reads the runs, which takes SQLite's write lock, so
`admin_patch_user` is one action. `claim_next_job` is one statement. A flush
writes the columns the handler changed and its whole payload over the row as it
is now (`Flushed`); a flush that would break the partial unique index rolls the
request back (`Commit`).

`process_job` is split at its commits and page loads: `begin_job` (early
returns, project rows created), `launch`, `fail_job` (the outer
`except Exception`), `gate_stop`, `open_project`, `open_car`, `finish_job` (top
of the unit loop with its checkpoint), `checkpoint`, `publish_progress`,
`discard_result`, `settle_project`, `publish_project`, `drain` (CAPTCHA),
`settle_car`, `finish_cancelled_job`. The number of pages and details of a
project is not bounded: `checkpoint` and `publish_progress` can repeat.

Left out: heartbeats, timestamps, messages, the result lists in the payload,
`admin_delete_user`, which removes the rows of an account, and the maintenance test
of `enqueue` and of claims, which is in `ScanScheduler` and `DesktopData`.

### ScanScheduler

State. `sched` is the `scheduler_settings` row of one account, `listed` its
`scheduled_projects`, `tracked` and `auto` its projects and those with `auto_update`.
`runs` holds the live `scan_runs`; a run that ends leaves the table because the
scheduler never reads finished runs. `loop` and `job` are the worker loop, `gone`
whether the project it scans was deleted. `maintenance` is `maintenance_active()`.
`ops` is the mix of operations of a behaviour, chosen at the start from `Campaigns`
and never changed. `call[t]` is what a thread has loaded and is about to write: the
row it computed, the columns it assigned, the run it will insert. `since` counts the
ticks since an automatic run was inserted or a manual refresh ended, `catchup` those
since something made the timer due on purpose; only a property reads them.

Time is relative. `sched.next` counts the ticks until `next_run_at` and
`sched.completed` the ticks since `last_completed_run_at`. A tick stands for a
fraction of an interval of at least an hour, so none passes while a handler is
in flight. Ages saturate at the longest interval.

Grain. The handlers of the timer row are two actions, a load and a commit that
writes the assigned columns over the row as it is then (`Flushed`):
`set_scheduler`, `pause_scheduler`, `toggle_all_schedulers`,
`prepare_catch_up`, `enqueue_scheduled`. The last is taken by the worker loop
(`run`) and by the resume handler (`resume_turn`). The end of a run flushes the
run before it reads the setting and so holds the write lock; it is one action,
`process_job`; `process_job_dies` is the end of the worker thread when the project
it scans was deleted (`worker.py:1238`). Steps that belong to `ScanQueue` (claim,
cancel, delete, manual enqueue, shutdown, recovery) are taken whole here. While a lock
file exists, timer turns, claims and manual requests do nothing (`worker.py:1515`,
`job_queue.py:37`); `maintenance_changes` makes and removes it at any moment, and
nothing forces its removal.

Left out: several accounts (the code treats them one by one),
`catch_up_enabled`, which no decision reads, and the run's progress.

### DetailReading and DetailPool

`DetailReading` has two variables: the results consumed so far and a phase. A
reader opens or none can be opened; each step delivers one task that was not
delivered before; the consumer may leave at any result; otherwise the reading ends
when every task was delivered. `Promise` adds that it ends.

`DetailPool` state: `tasks`, `results`, `ready` are the queues of
`DetailWorkerPool`, `pending` its backlog, `stop` and `start` its events; `pc` and
`item` the locals of each thread; `main`, `heard`, `stops`, `joined`, `delivered`,
`list` the coordinator inside `process_job`, which closes the list browser before
the pool and launches it again after. Every action is one operation on a queue or
an event. A read that fails is a result as well. `join` may time out after two
seconds with the thread still at work. The refinement maps `got` to `delivered`
and the phase to where the coordinator is. Left out: what a detail contains
(observation) and the wait between requests to the source, of which only the stop
test matters here. `Fill` is one step, where a thread can take a task between two
`put_nowait`; another task then fits, which the next fill adds as well.

### Observation

State. `market` is Encar: for each listing whether the search lists it, whether its
page is live or sold, its price and its other fields as one value. `cars` is the
shared table, `link` is `project_cars` with the state a project last saw (`seen`),
whether it tracks the car and its place in the search. `project` holds the revision
of the filter, the revision of the last baseline and whether a scan succeeded. `scan`
is the local state of the worker. `told` is what the stored reports of a project said
last of a car: its price and whether it is sold. `past` is history, read by
properties only. `Minor` lists the pairs of field values between which the code sees
no material change, as when a field becomes known that was not. `Vehicle` gives the
registration number that a listing's page shows, so that several listings can be of
one vehicle. `scan.reported` are the cars with an item in the report of this run.

Actions. `CollectSearchPage` is one turn of `collect_search_pages` with everything a
page can be: rows, a repeated or empty page, a page rendered without its controls and
its total (which counts as the last one), a failure, the page limit. `ProcessRow`
decides what to read of a row (skip, price probe, detail), `ProbeMissing` does the
same for followed cars that were not found, `ApplyDetail` merges a read into the
shared car, compares with what the project saw and stores the report, `DedupeReport`
lets one item stand for all listings of a vehicle (the registration number, then a
sale, then the priority decide), `ApplySearchAbsence` marks what is missing and only
after a complete enumeration of a filter with a baseline, `FinishProject` commits.
`RefreshCar` and `PublishCar` are the two commits of the refresh of one car. A price
that differs is read again (`ReadVerifiedDetail`), so a page caught in the middle of
an edit is not believed. Encar changes at any moment, the API removes cars and edits
filters, the process dies between commits.

Left out: the `is_new` flag, the exclusion of a car by its owner, images, stored groups
of vehicles and the text of reports. Every scan is of one project: a run over several
projects of one owner puts their items into one report, where one item names all the
projects of a vehicle. Nor is the second grouping modelled, made with the owner's
favourites when reports are shown (`main.py:1886`), which stores nothing.

### LicenseService

State. One variable per table, without the columns no decision reads; the row types
(`LicenseRows`, `DeviceRows`, `CodeRows`, `TransferRows`, `ClaimRows`, `Keys`) follow
the schema of `migrations/0001_initial.sql`; `idem` is
`idempotency_keys` with `request_nonces`; `sent` is what each request says, chosen
by the plan; `inv[d]` is the invocation serving a delivery: where it is, when it
started, the rows it has read, its answer. A request has two deliveries, because
the client sends the same bytes again after a failure in transport.

Actions. `Begin` checks the stamp of a signed request and inserts the idempotency
key, or answers from it; `Complete` stores the answer. The reads around the insertion
are part of `Begin`; the cleanup removing the row between a refused insertion and the
read after it, which turns the delivery away (`REPLAY_DETECTED`), is left out.
Between them each handler is cut at its awaits: reads (`RedeemCode`, `RedeemDevice`),
the batch (`RedeemWrite`, atomic, refused as a whole by a unique index), and the
recovery after a refusal (`RedeemRaced`); likewise trial, check, transfer, claim and
the owner's handlers. An invocation may never take its next step.
`CleanupExpiredState` removes old keys.

Left out: owner sign-in and passkeys, rate limits (a request turned away is one
that is lost), signatures (a key stands for its pair), read-only listings.

### DesktopLicense

State. `binding`, `lease`, `trusted` are the files, `key` the persisted device
seed, the three locks are the code's; `op[t]` is an operation with what it was
answered, `ev[e]` an evaluation with what it has read. `real` is the service's
clock, `clock` the computer's. `expired`, `learned`, `signed` are history.

Actions. An operation loads or creates the key, takes the operations' lock, posts,
and replaces the files in the code's order (`InstallBinding`, `InstallLease`,
`RepairTrustedTime`, or `ClearLease`, `ClearTrusted`, `ClearBinding` for a deleted
licence). An evaluation reads binding and lease without that lock, then reads and
writes the clock guard under its own. `SetClock` sets the computer's clock to
anything; `Crash` forgets every local and may leave `trusted-time.json` unreadable.

Left out: failures of the secret store, the wire format, and the periodic thread, in
whose place a refresh may start at any time. The first is a real gap: on macOS a Keychain
that cannot be read counts as one without a key (`desktop_license_client.py:361`), and
the key made then replaces the stored one if it can be written again a moment later.
`OneIdentity` is about racing operations with a store that answers.

### DesktopData

State. The database and the folder of images are represented by where their content
comes from: the user, the archive being restored, a new empty database. `disk` also holds what
a restore moved away, the staged archive, the result file and the backups made.
`proc` is the process id and the step of its startup; `maint` and `guard` are the
two lock files with the process id in them; `scan`, `enq`, `claim` are the queue as
far as maintenance looks at it; `thread` the requests that export a backup or
prepare an update; `shell` the updater of the Tauri shell.

Actions. The startup is one action per step that touches a file, in the order of
`main` of `desktop_runtime.py`, and each may raise (`RestoreFails`, `UndoFails`) or
be the last one (`Crash`). `restore_backup`'s except branch is modelled as written:
it removes what is in place and moves back what was moved. A request thread goes
through the counts, the guard, the lock, the copy; the shell may stop waiting for it.

Simplifications: process ids are not reused; the shell ends with its sidecar; an
archive is intact (its validation is part of `ExtractArchive`).

## Runs

| Run | Instance | Checks |
|---|---|---|
| `queue_outcomes` | 2 projects, 1 car, 1 run, 1 worker, 1 request thread, all handlers, crash and restart; weak fairness of `process_job` | `TypeOK`, `SucceededMeansComplete`, `InterruptedRunsAreSettled`, `SettledOutcomesPersist`, `CancelledScanStops` |
| `queue_claims` | 2 projects, 2 runs, 2 workers, 1 request thread | `SingleActive`, `ExclusiveProcessing` |
| `queue_merge` | 2 projects, 3 runs, no worker, 2 request threads | `MergedRunIsCovered` |
| `scheduler` | 1 project, intervals 1 and 2, 2 live runs, 1 request thread, 7 mixes of operations; fairness | `TypeOK`, `AutomaticRunsAreSpaced`, `ScheduleStaysAlive` |
| `viol_automatic` | as `scheduler`, saves and resume only | `OneAutomaticRun`, violated |
| `pool` | 2 threads, 4 tasks, task queue of 2; weak fairness of every thread | `TypeOK`, `EachTaskOnce`, `CoordinatorEnds`, `ThreadsEnd`, `ImplementsReading` |
| `observation` | 2 listings of one vehicle, 2 projects, 2 prices, 2 specs, pages of one row, 3 scans, 1 change by Encar or a user, every listing live or sold at the start | `TypeOK`, `RememberedIsTold`, `SoldWasRead`, `ListedIsNeverMissing`, `PriceChangeIsReal`, `MissingNeedsBaseline` |
| `license_service` | 9 plans of up to 4 requests with retries, 2 licences, 3 codes, 1 transfer, 4 ticks | `TypeOK`, `SingleWinner`, `ExecutedOnce`, `SameAnswer`, `RevocationFades`, `RedeemRecovers` |
| `license_client` | 2 operation threads, 2 evaluators, 2 licences; 2 operations with 2 clock settings or spoilt files, or 3 operations without | `TypeOK`, `ExpiredIsRemembered`, `DeletedStaysOut`, `OneIdentity`, `GuardNeverMovesBack` |
| `desktop_data` | 2 request threads, 3 starts, requests in the first; weak fairness of the startup | `TypeOK`, `UserDataKept`, `RestoredIsWhole`, `LocksAreLive`, `GuardFollowsUpdate`, `PendingIsSettled` |
| `viol_sold` | as `observation` | `SoldReachesEveryProject`, violated |
| `viol_restore` | 1 request thread, 2 starts | `FailedRestoreKeepsData`, violated |

Why these bounds. Queue: the properties relate one run to its projects, or two runs to
each other. Two projects are needed for a project that is left behind while
another succeeds; two runs and two workers for exclusion; one request thread for
a stale handler against the worker's own cache; two request threads and three
runs for two concurrent merges. Row ids are never reused, so `Jobs` bounds how many
runs are ever created. One account suffices because handlers touch the rows of one
account, and the exclusion properties, which do not, are proved for any number.

Scheduler. Two intervals are needed for a save that changes the interval
while a turn still holds the old one; this is also why the spacing is stated with
the shortest interval. Two slots are a live run and another one; an insertion keeps
its slot from the decision to the commit, so the bound never makes a turn fail. All
operations at once are out of TLC's reach, so each behaviour draws on one mix
(`MCCampaigns`): what users do to the schedule and to runs, a project that goes under a
save, one that leaves automatic updates, every catch-up, what takes the service away,
what stops the worker, and a save that crosses the resume handler. The proof of
`AutomaticRunsAreSpaced` has no such bound. The property excepts what catches up on
purpose (resume, tray, start): it makes a timer due that may have been set a moment ago,
also on a seeded installation whose first turn has not committed.

Pool. The code has three slots of the task queue per thread; the instance
has one, so that four tasks do not fit and the backlog, the refill and a full
queue in `close` all happen. The run allows the pool to stop
(`CHECK_DEADLOCK FALSE`): it is used once per project. Two threads are the code's
maximum.

Observation. Two projects are needed for a shared car, two cars for a page that ends and
one that repeats and for two listings of a vehicle, three pages for the limit. Three scans
are a baseline, a second scan or one of the other project, and a refresh. When the scans
are used up the system stops (`CHECK_DEADLOCK FALSE`). The revision of a filter widens or
narrows it, so that a car leaves the results without leaving Encar. A listing may be sold
before the first scan, so that one change suffices to offer it again. Both listings show
the same registration number: without one `DedupeReport` groups nothing, and the proof
covers every choice of numbers.

License service. A plan is a campaign of requests that can get in each other's way:
one code and two devices, two codes of one licence, a transfer approved twice and
claimed again, deletions racing checks and approvals, trials, renewals, sources
withdrawn. Every order and every interleaving of a plan at its awaits is explored. Ticks
are coarse: one lease, a stamp that is fresh for one tick on either side and a key
that is kept for two, the narrowest retention `RetentionAssumption` allows (the code has
five minutes and 24 hours).

License client. Two operations are an activation and whatever follows it, a third one can
bring a licence back after its deletion was handled; two evaluators are needed for one
that holds a stale guard while another writes. Three operations and two clock settings
together are more than TLC can explore here, so `MaxWork` lets one be traded for the other.

Desktop data. Three starts are an interrupted restore, its repetition and the start
that serves the result. Requests are made in the first start only; what later
starts do is startup. The run may stop after the third (`CHECK_DEADLOCK FALSE`).

Fairness. `ScanQueue!FairSpec` assumes only that a worker inside `process_job` keeps
taking steps: its thread is scheduled, and every browser call it waits for ends. The
latter is an assumption about Playwright and the browser: `goto` and `inner_text`
have a timeout, `title`, `content`, `evaluate_all` and `close` have none
(`scanner.py:838`, `:855`, `:925`, `worker.py:566`). Requests, crashes and restarts
are never forced. `ScanScheduler!FairSpec` assumes the same of the worker and of a
request that has begun, and that time passes: handlers last milliseconds and a tick
many minutes, so there are again and again moments with no handler in flight, and
`tick` is taken at some of them (strong fairness, as it is disabled in between).
`DetailPool!FairSpec` assumes that threads are scheduled and, likewise, that browser
calls end. `DesktopData!Spec` assumes that a startup that has begun goes on and that
the application is opened again; crashes are bounded by the number of starts.
`LicenseService`, `DesktopLicense` and `Observation` assume none.

### What the three violations show

* `viol_automatic`: `desktop_scheduler.py:66-67` says "The worker still owns queue
  insertion, so an active scan cannot be raced or duplicated by the desktop resume
  signal", and `desktop_runtime.py:789-790` that queue creation "remains idempotent".
  The resume handler takes a timer turn of its own; both turns find no live run and
  both insert one, as nothing locks the rows between the test and the insertion
  (`worker.py:1563`). The second run follows the first one, so
  `AutomaticRunsAreSpaced` needs its exception for a resume.
* `viol_sold`: `docs/ARCHITECTURE.md:20` says that "a shared canonical update cannot
  consume another user's change report". The row loop (`worker.py:846`) and
  `_should_refresh_missing_car` skip a car whose shared status is SOLD before they
  look at the project's own relation, so once one project has read a car as sold no
  scan of another project that follows it reports the sale; only a manual refresh
  would. `RememberedIsTold` is what does hold. Where one item stands for several
  listings of a vehicle it says so of the vehicle. It has the exceptions the code
  makes: a report lost in a crash between the two commits of a refresh, a listing
  that was sold when a project first read it (reported as NEW), and a car that is
  offered again with newly known fields and nothing else changed (`worker.py:604`),
  which is not reported. The last one was met while proving it.
* `viol_restore`: `docs/DATA_BACKUP_AND_MIGRATION.md:58` says "If switching fails,
  the old database and storage folder are moved back." When a rename of the switch
  itself raises, the except branch of `restore_backup` deletes the live file that is
  still in place and has nothing to move back (`desktop_backup.py:645`). The backup
  made just before still holds the data: `UserDataKept` is proved.

## Divergences

Modelling met further places where the code does not do what a document, a comment
or a message says. The models contain the behaviour; no run is kept for it.

1. Sleep (`worker.py:777`). `docs/IMPLEMENTATION_STATUS.md:134`: "an active scan is
   marked `INTERRUPTED_SLEEP` with its partial report preserved". The reason is
   stored in the payload, which the worker's next publication rewrites from its
   cached copy; the run then ends as CANCELLED.
2. Duplicates (`main.py:1661`). `docs/ARCHITECTURE.md:11`: the worker "prevents
   duplicate payloads". Two requests that load the live runs before either commits
   both insert a run for the same project.
3. Cancellation (`worker.py:651`). `job_queue.py:214`: "ask the active worker to
   finish cooperatively". A request committed after the claim and before
   `process_job` reads the row makes `process_job` return at once; the run stays
   CANCEL_REQUESTED and holds the queue until a restart. `CancelledScanStops`
   therefore speaks of runs whose processing has begun.
4. CAPTCHA (`worker.py:1278`). `docs/ARCHITECTURE.md:11`: "CAPTCHA in one project
   does not block the rest". After a CAPTCHA every QUEUED project of the run is
   set to FAILED.
5. Catch-up (`desktop_runtime.py:791`). `docs/IMPLEMENTATION_STATUS.md:134-137`:
   "the next automatic scan is made immediately eligible exactly once". The resume
   handler makes the timer due and then takes a timer turn, which sees the
   interrupted scan unwinding and moves the timer a full interval ahead.
6. Renewal (`service.ts:556`). `docs/DESKTOP_PRODUCTIZATION_PLAN.md:1152` and
   `:1160`: months are added correctly, "concurrent transfer/redeem atomic". The
   new term is computed from a row read two awaits earlier; two codes of one
   licence redeemed at once are both spent and the second overwrites the first.

Smaller hazards of the same kind, not in `PROJECT.json`: two claims of one approved
transfer, the second of which is answered with an internal error (`service.ts:776`);
a device bound to a licence deleted a moment before (`service.ts:1159`; checks refuse
it); `toggle_all_schedulers` writing over a timer just set
(`desktop_scheduler.py:103`); the list browser opening while `join` has given up on
threads with theirs (`worker.py:1170`); a row that shifts from a page not yet read
to one already read (`scanner.py:655`); a lock file whose process id was reused
(`maintenance.py:85`).

## Proofs

`ScanQueueProofs` proves, for any sets of accounts, projects, runs, workers and
request threads:

* `TypeCorrect`: `Spec => []TypeOK`;
* `OneActiveRun`: `Spec => []SingleActive`;
* `OneWorkerPerRun`: `Spec => []ExclusiveProcessing`;
* `SuccessIsComplete`: `Spec => []SucceededMeansComplete`;
* `InterruptionIsSettled`: `Spec => []InterruptedRunsAreSettled`;
* `OutcomesPersist`: `Spec => SettledOutcomesPersist`;
* `MergingCovers`: `Spec => []MergedRunIsCovered`.

The only assumption is `ScanQueueAssumption` (owners are accounts, run ids are
numbers, the null differs from every value, projects are not cars).

None of the properties is inductive. `TypeInv` adds to `TypeOK` that a worker
inside `process_job` has a run and that its unit is of the kind its program
counter says. `QueueInv` adds three things. The status of a run some worker holds is RUNNING,
CANCEL_REQUESTED or CANCELLED: this is what excludes a second claim, and it
survives stale handlers because no handler computes QUEUED (`HandlerStatus`) and
a flush writes the status column only when it changed (`FlushedStatus`). The
worker's locals agree with the project rows (`LocalInv`): units still to do have
no outcome, the others succeeded unless `failed` remembers otherwise; this gives
`SucceededMeansComplete` at `finish_job`. And a run's status agrees with its
project rows (`RowInv`). Steps are proved in two groups: a handler may cancel
runs, insert one and withdraw project rows (`TablesInv`); a worker step touches
its own run only (`WorkerInv`). `QueueInv` was model-checked before it was proved.

For merging, what can go wrong is a stale copy: a handler or a worker writes back a
payload it read long before, over a merged run or over the manual run that covers it.
`MergeInv` therefore speaks of the copies too: every row that a request has loaded or a
worker has cached is a version of its run (`Copy`), the versions of a manual run differ
only in deleted projects (`SameRun`), and a version marked as merged is covered whatever
its status. Every step only makes versions out of versions (`Succeeds`, `FromRun`), so
the cover survives (`CoverKept`). Only the insert of `enqueue_commit` has to find a new
cover, and it is the run inserted in the same commit. `MergeInv` was model-checked on
the instance of `queue_merge`, and partly on one with a worker and every handler.

`ScanSchedulerProofs` proves, for any sets of projects, intervals, runs and request
threads, from `ScanSchedulerAssumption` (intervals are positive, `Shortest` and
`Longest` bound them, the null differs from every value):

* `SchedulerTypeCorrect`: `Spec => []TypeOK`;
* `AutomaticSpacing`: `Spec => AutomaticRunsAreSpaced`.

Nothing is assumed of `Campaigns`: every operation may occur. `TypeOK` is inductive. For
the second theorem, `SpacingInv` says that an enabled timer with listed projects, counted
with the ticks already passed, is at least the shortest interval away, unless something
caught up since. This is not inductive alone: a save in flight may restore the projects of
a schedule whose timer was not moved by the last manual refresh. `WritesFar` (a pending
write moves the timer only to a full interval, and enabling moves it) and `KeepsTimer` (a
pending save that leaves a near timer alone keeps the listed projects, or disables the
schedule) close it. A turn of the worker that is about to insert has read a due timer,
so its insertion is far from the last one or after a catch-up; a turn of the resume
handler follows its own catch-up. The invariant was model-checked
before it was proved.

`DetailPoolProofs` proves, for any number of threads, tasks and slots, from
`DetailPoolAssumption` (finitely many threads, at least one; tasks are different
numbers, at least one; the token is none of them):

* `PoolTypeCorrect`: `Spec => []TypeOK`;
* `TasksOnce`: `Spec => []EachTaskOnce`;
* `PoolReads`: `Spec => Reading!Spec`, the safety part of `ImplementsReading`.

`EachTaskOnce` counts copies; the inductive invariant says the same without
counting. `OnceInv`: no task occurs twice in the backlog, the task queue, the
threads' hands, the results or what was delivered, nor in two of them. `KeptInv`:
while results are collected every task is in one of them. They rest on `ThreadInv`
(a thread holds a task exactly from `get` to its result; a thread leaves, and a
token is in the queue, only after the stop). `FillFacts` states element by element
what `_fill_task_queue` moves. `OccursOnce` turns the invariant back into counts.
For the refinement, consuming a result is `Deliver` because a result in the queue
is none of the delivered ones, and `all_taken` is `Complete` because as many
different tasks as there are tasks are all of them (`AllDelivered`, by
cardinality).

`DesktopDataProofs` proves, for any number of starts and request threads, from
`StartsAssumption` (the bounds are numbers, the null differs from every value):

* `DataTypeCorrect`: `Spec => []TypeOK`;
* `UserDataIsKept`: `Spec => []UserDataKept`;
* `RestoreIsWhole`: `Spec => []RestoredIsWhole`;
* `NoLockOutlivesItsHolder`: `Spec => []LocksAreLive`;
* `GuardIsTheUpdates`: `Spec => []GuardFollowsUpdate`.

Each needs to know where the process is. `KeptInv`: at every step that may destroy
what is in place, the user's data are in a backup. `WholeInv`: a staged archive is
the one chosen and its result is pending; from the last move on the files in place
are the archive's; a recorded restore stays in place until the next one is staged;
there is a database at every step that exports one, so that no archive without one
can be chosen. `LockInv`: lock files name this process or an earlier one, a new
process finds only those of earlier ones, and before it serves nobody holds the
guard. `GuardInv`: while the shell has not given up on a request, the only thread
that prepares an update is the one it waits for, and it holds the guard exactly from
`BeginUpdateInstall` to a failure. The five parts were model-checked before they were
proved.

`DesktopLicenseProofs` proves, for any number of operations, evaluators, licences and
clock settings, from `LeaseAssumption` (a lease lasts, the null is no document):

* `ClientTypeCorrect`: `Spec => []TypeOK`;
* `OneKeySigns`: `Spec => []OneIdentity`;
* `DeletedLicenseStaysOut`: `Spec => []DeletedStaysOut`;
* `ExpiredStaysExpired`: `Spec => []ExpiredIsRemembered`;
* `GuardIsMonotonic`: `Spec => GuardNeverMovesBack`.

The locks give most of the invariant. `KeyInv`: only the holder of the identity lock
makes a key, and an operation past that point works with the stored one. `DeletedInv`:
an answer about to be installed is for no licence whose deletion was handled, because
handling one takes the same lock; after the lease is unlinked it stays absent until the
lock is free. Evaluations take none of these locks. `FreshInv` numbers the documents:
what an operation may still bring has been seen by no evaluation, so it is not among the
expired ones. `GuardInv`: an evaluator about to write the clock guard read the one on
disk, unless a deletion removed it since.

`ObservationProofs` proves, for any listings, projects, prices, page sizes and limits,
any number of scans and changes, from `ListingAssumption` (finitely many listings,
positive prices and page sizes, the null is no row):

* `ObservationTypeCorrect`: `Spec => []TypeOK`;
* `SoldOnlyAfterRead`: `Spec => []SoldWasRead`;
* `ListedStaysFound`: `Spec => []ListedIsNeverMissing`;
* `ReportsTellWhatIsRemembered`: `Spec => []RememberedIsTold`;
* `PricesAreReal`: `Spec => PriceChangeIsReal`;
* `NothingMissingBeforeBaseline`: `Spec => MissingNeedsBaseline`.

`ObsInv` has a part per argument. `TaskInv`: a task still knows what the shared car
and the project's relation hold, because one worker scans at a time and every car has
at most one task; without it the comparison that makes a report would be with a state
long gone. `SearchInv`: a car that never left the results is among the pages
collected so far if its position is, then among the rows, then found; this is where
the page size and the repeated or empty pages matter (`ListedStaysFound`). `ToldInv`
is `RememberedIsTold` with the state before a refresh until the refresh is published.
`ItemInv` and `FreshInv` are about the report being written: the listings of one
registration number that have an item share it, it is the item of one of them, and a
car has one only once the scan is done with it. Without them `DedupeReport` could
give a listing the item of another vehicle. `BaseInv`, `SoldInv` and `PriceInv` tie
the tables to the history.

`LicenseServiceProofs` proves, for any plan of requests, any licences, codes and
transfers and any lives, with invocations that stop anywhere, from `RetentionAssumption`
(a key is kept for at least twice the window in which a stamp is fresh) and
`RowsAssumption` (requests and issued codes are well formed, the null is no row):

* `ServiceTypeCorrect`: `Spec => []TypeOK`;
* `BindingsHaveOneWinner`: `Spec => []SingleWinner`;
* `RequestsRunOnce`: `Spec => []ExecutedOnce`;
* `RetriesAgree`: `Spec => []SameAnswer`;
* `RevocationEnds`: `Spec => []RevocationFades`;
* `RedemptionRecovers`: `Spec => RedeemRecovers`.

`ServiceInv` says what an invocation may still rely on after its awaits. `UniqueInv` is
what the unique indexes keep, and `RowInv` what rows say of each other: a spent code
names its device and has its key in the audit, which is what keeps a second batch from
spending it. `LocalInv` bounds how stale a held row can be: a licence read as active and
deleted since was deleted after the invocation started (`HeldLicense`), and likewise a
device (`HeldDevice`); a lease counts from that start, so it ends within a lease of the
revocation (`ReplyInv`). `OnceInv`: the key of a delivery that ran is there until its
retention is over (`KeyKept`), and by then the stamp is no longer fresh; here
`RetentionAssumption` is used. `AnswerInv`: a stored or repeated answer is the answer of
a delivery that ran. That rows are never taken away (`Grow`) carries all of these over
the steps of other invocations. `ServiceInv` was model-checked on the run's instance
before it was proved.

Only model-checked: the liveness properties (`CancelledScanStops`, `ScheduleStaysAlive`,
`CoordinatorEnds`, `ThreadsEnd`, `PendingIsSettled`, the last part of
`ImplementsReading`), which the prover cannot treat. Every invariant and every action
property of the passing runs is proved.

## Not modelled

* Live updates: a revision counter and a condition variable without influence on
  other state.
* Sessions, login throttle and CSRF token; owner sign-in of the license service. The
  desktop workspace has one account without a password.
* Parsing of pages (`parser.py`, most of `scanner.py`): text extraction without
  state, whose inputs are pages outside the repository. Its decisions are in
  `Observation`.
* Schema migrations, importer, converter, seed, first-run setup: one-shot, in one
  transaction.
* Web interface, windows, tray, notifications, diagnostics, release scripts.
* `admin_delete_user`, read-only handlers, and owner-scoped create and update
  handlers without shared state.

## Plan

Done: every module of the table with its runs and its proofs. Left, in this order:

1. The safety facts behind the liveness properties: that a worker with a cancelled run
   meets a checkpoint in a bounded number of its own steps, and that a collecting
   coordinator always has a result to come, as invariants.
2. `LicenseService`: what does hold of the term of a licence when codes are redeemed one
   after the other (Divergences, 6 is the concurrent case).
3. `DesktopData` and `ScanQueue`: what an enqueue that passed the maintenance test
   before the guard existed can leave behind.
