# OpenSpider: a TLA+ model

TLA+ modules for OpenSpider: the engine and its runners, crash recovery, both
sandboxes, the scheduler, the registry of spiders with its files and routes, the
data tables, the pipeline with its sinks, and accounts with the sessions of a
browser. Paths below are relative to `src/openspider/`; `DESIGN.md` is
`src/docs/DESIGN.md`, `web/` is `src/web/src/`, `SKILL.md` is `src/skill/SKILL.md`.

## 1. The system

OpenSpider is one asyncio process (FastAPI, SQLAlchemy, APScheduler) that runs
user-written spiders in child processes.

| component | state | operations | talks to |
|---|---|---|---|
| `core/engine.py` Engine | `_runners`: the last runner of each spider | `start_spider`, `stop_spider`, `pause_spider`, `resume_spider`, `initialize`, `shutdown` | called by routes, the scheduler, the CLI; makes runners; writes `tasks` and `spiders` rows |
| `core/runner.py` SpiderRunner | `_task`, `_stop_event`, `_sandbox_gen`, `retry_count` | `start`, `stop`, `_run`, `_update_task_status` | drains the sandbox, writes its rows |
| `core/recovery.py` | none | `check_crashed_tasks`, `calculate_backoff` (`auto_restart_crashed` has no caller) | at start-up, on retries |
| `core/sandbox_runner.py`, `core/spider_loader.py` | a child process, a bounded queue, a stop event, a deadline | `run_sandboxed` and the entry of the child | an async generator of items for the runner |
| `core/scheduler.py`, `api/schedule_routes.py` | APScheduler jobs, `_job_map`, the `schedules` table | `sync_schedules`, `add_schedule`, `remove_schedule`; create, update, delete, enable, disable | a job that fires calls `start_spider` |
| `core/registry.py` | classes by name, names by file path | scan, register, unregister, hot reload | start-up, watcher thread, upload, create, delete; the engine asks it for a spider and its file |
| `core/data_manager.py` | one table per spider; a manager per run or request | `ensure_table`, `save_item`, queries | `_save_item`, the data routes |
| `core/pipeline.py`, `core/sinks/` | a buffer per sink | open, process, flush, close | the runner, today with no sinks |
| `api/auth_routes.py`, `api/auth.py`, `utils/security.py` | the `users` table; tokens are held by clients | register, login, refresh, me, profile, password | every route checks a token |
| `web/stores/auth.ts`, `web/services/api.ts` | tokens and user per tab, and in `localStorage` | sign in and out, refresh, retry, the profile in `web/pages/Settings.tsx` | the API |
| `api/routes.py`, `api/websocket.py`, `cli.py` | connections | requests, commands | the engine, the registry, the database |

Where the difficulty lies:

* **Interleaving at awaits.** Every `await` on the database lets requests,
  triggers and runners in. `start_spider` checks and registers two transactions
  apart; the runner, `pause_spider` and recovery write the same rows.
* **Cancellation.** `stop()` waits 30 s and cancels; `CancelledError` is handled
  only inside the `try` of `_run`, and the handlers write to the database.
* **Generators.** `aclose()` from `stop()` meets a generator that is running
  (it raises) or suspended at its `yield` (it closes the outer generator only;
  the inner one is finalised by the event loop).
* **Processes.** The child may block on a full queue, die silently, lose a
  message, or be killed between any two steps.
* **Failure between commits.** A task row and a spider row, or a schedule and
  its job, are updated one after the other.
* **Restarts.** Runners, jobs and calls are in memory, rows are not.
* **Threads beside the event loop.** The file watcher registers files while a
  request does, both in the same dictionaries and without a lock; the reader of a
  container's log outlives the run that waits for it.
* **The same name in several places.** A spider is a class, a path, a file and a
  row, each changed by other code. A table is made and extended by whoever
  comes first.
* **Shared answers.** Requests of a tab wait for one refresh of its tokens.

`PROJECT.json` lists each of these at its line (`hazards`), with the properties
that cover it or the reason why none does.

## 2. Modules

| module | models | depends on |
|---|---|---|
| `SpiderRunner` | one runner: its asyncio task from await to await | |
| `SpiderEngine` | the engine over all runners, the process's life, recovery; all engine properties | extends `SpiderRunner` |
| `TaskLedger` | abstract: the life of a row of `tasks` | |
| `ItemStream` | abstract: the stream of items a runner relies on | |
| `Sandbox` | one run in a child process: generator, child, queue, clock | implements `ItemStream` |
| `DockerSandbox` | one run in a container: generator, container, log, reading thread, clock | implements `ItemStream` |
| `Scheduler` | jobs, schedules and the requests that change them | |
| `Registry` | classes, paths, files and rows of spiders; routes, watcher, start-up | |
| `ItemLog` | abstract: what the target of a buffering sink receives, in each attempt | |
| `Sinks` | the pipelines of a run and its retries, with every kind of sink | implements `ItemLog`, once for each of the first two sinks |
| `Tables` | the data table of one spider, its managers, and the shared table `items` | |
| `Accounts` | users, tokens and the requests about them | |
| `Session` | the tabs of a browser | extends `Accounts` |
| `MC...` | TLC instances: symmetry, contents, and statements of the documentation the code does not keep | extend the module named |
| `SpiderEngine_proofs`, `Scheduler_proofs`, `Session_proofs`, `Tables_proofs`, `Sandbox_proofs`, `DockerSandbox_proofs`, `Registry_proofs`, `Sinks_proofs` | theorems; that of the engine includes the refinement of `TaskLedger`, that of `Session` the accounts | extend the module named |

### SpiderRunner and SpiderEngine

A runner serves one task row, so it is identified by the row's id `t`. `pc[t]`
names the await at which its asyncio task is suspended:

| `pc` | `core/runner.py` |
|---|---|
| `log` | the opening log write, 111 (also of a retry) |
| `next`, `save` | `__anext__` of the sandbox, 130; `_save_item`, 134 |
| `complete`, `completeSpider`, `closeSession` | the two commits behind 142, and the exit of their last session |
| `error`, `retrying`, `backoff` | the log write 158; the commits of 165; the sleep 166 |
| `fail`, `failSpider` | the commits of 153 and 172 |
| `pause`, `pauseSpider` | the commits of 147 |
| `returned`, `cancelled`, `raised` | the ways the asyncio task is done |

`_run` calls itself for a retry; nothing follows the call but `return`, so the
model loops. `CommitTask` and `CommitSpider` are the two transactions of
`_update_task_status`. A failed one (`Fault`) leads where the exception leads:
inside the `try` to the handlers, in a handler out of `_run`. Log writes swallow
their exceptions and change no modelled row; they are merged with the await that
follows. Counters, messages, timestamps and params are left out. `_save_item`
and the pipeline swallow their exceptions, and the pipeline has no sinks.

`SpiderEngine` gives every caller (a request or a trigger of the scheduler) a
record `call[c]` with the await it is suspended at:

| action | code |
|---|---|
| `Start`, `InsertTask`, `MarkRunning` | `start_spider` 80-94, 94-105, 108-138. The last makes, registers and starts the runner without another await |
| `Resume`, `SelectPaused` | `resume_spider` 186-195, 195-212 |
| `Stop`, `Pause`, `WaitTimeout`, `WaitReturn`, `RecordPause` | `stop_spider`, `pause_spider` and `SpiderRunner.stop`: the signal, the cancellation after 30 s, the return, the last write of a pause |
| `Shutdown`, `ShutdownStop`, `CancelAll`, `Exit` | `Engine.shutdown` and the end of the event loop |
| `Crash`, `Boot` | death of the process at any point; `initialize` with `check_crashed_tasks` as one transaction |

Simplifications: a rejected call changes no state and is a guard; every spider
is registered and permitted; the wait may time out at any moment (it covers 30 s
however fast the rest is); `Shutdown` drops every start and resume in flight,
which includes the triggers that `scheduler.shutdown` abandons, and waits for
stops and pauses; `DISABLED`, which only the delete route writes, is not used.
`raced` and `cut` are history variables, used in properties only.

### Sandbox

Items are numbered as the spider produces them, so a batch is an interval. The
queue is what `multiprocessing.Queue` is: a buffer in the child, a feeder thread
that pickles into a pipe, and a semaphore that bounds both. `mode` is how the spider
is run. `_run_simple` takes one item after the other from `run()` (`Scrape`).
`_run_with_scrapling` has `start()` crawl to the end in a thread (`Crawl`,
`CrawlEnds`), which takes all items with it if it raises, and only then goes through
them (`Scrape` again, without producing). So `produced` is what the spider made and
`scraped` what the loop has gone through; in the simple mode they are the same.
`PutFull`, `FinishCrawl`, `Flush`, `Report` and `ExitChild` follow both (they differ in
when the last batch is put); `Feed` and `FeedFails` are the feeder; `Die` is the kernel
(CPU limit, memory). `Receive`, `ReadTimesOut`, `Ask`, `Drop`, `Finalise`, `CancelRead`
are the generator with its consumer. Every way out of `_run_subprocess` goes through
its `finally` (`Leave`). SIGTERM, join and SIGKILL are one step, since they block the
event loop. Not modelled: a message that pickles but does not unpickle, a message
that is half written when the child dies, and an executor that has no thread
left for more than the deadline.

`BackPressure` speaks of the loop over the items. In the simple mode this is the
spider; in the scrapling mode the spider is not held back at all, since its whole
crawl is in memory before the first put.

### Scheduler

A request is modelled from await to await: `Read`, one `Commit...` per kind,
`Reload`, `Apply`. `Apply` is the part after the session, where `add_schedule` or
`remove_schedule` runs without an await. SQLAlchemy writes a column only if it
differs from what was read (`seen`). `AddSchedule` removes the job `_job_map` has
for the spider, whichever row it belongs to, before it tries the new expression.
`SyncSchedules` gives each spider the last schedule added: the class's, then the
enabled rows in an order the query does not state. `tangled` records the spiders
that were used outside the discipline of `ScheduledAsShown`: requests that
overlap, several schedules, an update while disabled, a failure after a commit,
a start-up whose select failed.

### Registry

`registry` holds `_spiders` and `_file_map`. A path is a file with the way it was
named, since start-up and watcher use the path as configured and the routes a
resolved one (`KindOf`).

Two threads change these dictionaries without a lock: the event loop (uploads and
creations, deletions) and the watcher. `job[t]` is where thread `t` is in
`_load_file` or `unregister`, and each look-up and each assignment is a step:

| action | `core/registry.py` |
|---|---|
| `Check` | is the name known, and which paths has it: 238-241, 259 |
| `Forget` | one of them is deleted: 242-243, 260-261 |
| `SetClass`, `SetPath` | 244; 245, and the next class of the module |
| `BreaksOff` | the other thread changed the dictionary during the listing, or deleted the path first: the load ends with an exception that is logged or answered |

While the event loop is at a job no request moves (`Free`): this code has no await.
`torn` records names that both threads were at work on at once, or whose unregister
broke off, until a load that meets no other has registered them properly. Such a
name may keep two paths or lose its own; `OnePath` and `ReloadCatchesUp` exempt it
and nothing else, so a load of another name, in the same file too, must leave each
name in order between any two steps. `missed` are the files the registry may be
behind: changed without an event, loaded by a load that broke off, or loaded by the
watcher while the event loop was loading older content.

`Scan` is what loading all files comes to at start-up, when no watcher runs yet. It
is written without a loop, so that it can be reasoned about, and `MCRegistry` assumes
(`ScanAssumption`), for TLC to evaluate on every run, that it equals the loop over
files and classes (`ScanEach`) on all contents and orders of its instance. What a
file holds is the sequence of its classes and which of the checks let it pass.
`Upload` and `Create` write the file, which is an event for the watcher, and begin
the load. `Edit` is the operator, writing in place (the watcher sees it) or renaming
over a file (it handles no such event). `Reload` is the watcher beginning a load.
`List` and `CommitRows` are the listing that adds missing rows. Of a row only its
name counts: owner, visibility and the disabled mark decide nothing about classes,
files and runs, and are left out with the requests that change them.

Runners are numbered: `runners[n]` is the one `engine._runners` has of a name, and
`live` are those that run. An overlapping start replaces the entry and leaves the
runner before alive (`core/engine.py:134`), and `Delete` stops the one it found
(`Stopped`). `startRaced` records a name that was started twice at once, or while it
was being deleted: the orphan, or the late start, goes on. How a run goes is
`SpiderEngine`. File names that begin with an underscore are never scanned
(`Hidden`), though they may be uploaded.

What the module shows beside its properties: a refused upload deletes the file and
leaves the class; a deleted spider returns with the next start-up, since its file
stays; an edit between the scan and the start of the watcher is not seen.

### DockerSandbox

The program in the container is the one `src/Dockerfile.runtime` writes inline (27-64);
the same text stands in `core/sandbox_docker.py`, whose own copy of the run has no
caller. Items are numbered as in `Sandbox`. The container prints lines to `log`, the
thread moves them to `msgs`, and `Consume` goes through them once the thread is
done: nothing is yielded before the log ends, and a run that passes its deadline
yields nothing. `SkipChunk` is a chunk that holds no complete JSON line.
`PrintScalar` is output of the spider code that is JSON and no object, which the
loop cannot handle. The container may exit without a word (`Exit("fatal")`: killed, or
an import that fails), may not start (`BeginFails`, which leaves it `created`), and
may resist removal. The thread goes on when the generator is left.
`containers.run` blocks the event loop while it lasts and is one step here.

### ItemStream

What `_run` relies on when it drains `run_sandboxed`: items come in order, none
twice, and the stream does not stay open for ever. Both sandboxes implement it,
with `open` as "the generator has not ended" and `last` as the last item yielded,
fairness included. `Safety` is the part without fairness. That some items may be
missing is part of it; which ones is said by `DrainedIsComplete` and
`EndsAfterItems`.

### Sinks and ItemLog

The code of the pipeline with its sinks, driven as `_run` drives it: `pipes` is a
stack, since a retry runs inside the handler of the failed attempt, whose
pipeline is closed after the inner one. `op` is the place in the loop over the
sinks. Between the flush and the close the task is recorded as completed (`Complete`), and
a commit that fails there has the spider run again (`Raise`). What differs between sinks is what `open` may leave (`Opens`) and how a
batch may be written (`Ways`): how much of it reaches the target, and whether an
exception leaves it in the buffer. `odd` is an item a format refuses. The Excel
sink keeps its rows and writes its file on closing; the Parquet sink appends to a
file it cannot read back, so it raises, and swallows that, once the file exists.
A record is an item of an attempt; `yielded` counts what all attempts produced, and
`taken` what each sink was given in each of them. `ItemLog` says what a target
receives: runs of successive items of an attempt without a gap, possibly again.
`Given(i)` and `Arrived(i)` are the two sides for the sink at position `i`, if it is
of a kind that loses no batch (`Keeping`), and `First` and `Second` are the log of
the first and of the second sink. The runner builds its pipeline without sinks today
(`core/runner.py:115-118`), so this is what the code does once it is given some.
Left out: a full disk, a CSV file whose header is another's, and that the Doris
sink adds columns to the item dictionaries the sinks share.

### Tables

Each statement of `ensure_table` is a step, as schema changes are not part of a
transaction: `Look`, `Create`, `Inspect`, `Alter`, `Index`. A manager keeps the
declaration of the spider from when it was made. Runs make theirs with their
first item, with the flag set beforehand (`FirstItem`); requests make one each
(`Read`). `Save` has the conditions under which the statement can be executed: the
columns exist, the upsert of SQLite finds an index of its key, a plain insert
meets no conflict. A failure loses the item. `overlapped` records managers that
met a change by another.

A declaration has `fields`, those of them whose type `_validate_column_type` refuses,
and a key. It refuses all types with parentheses (`core/data_manager.py:50`), which
VARCHAR(512), the type of a field that has none, is, and so are those of
`SKILL.md:84-86` and `219-221` and of the spiders in `spiders/`: for them `Create` and
`Alter` raise every time, also when the columns are there. That a key is made of
fields is not checked; a standard column in a key is like a field that all declare.
`EnsureIsIdempotent` takes neither for a failure without a reason (`HasReason`): what it
promises is that the tables `ensure_table` meets are none. A run that cannot read the
row of its spider has no manager either (`FirstItemFails`).

`FieldsInRow` says whether the row of a spider carries
`fields`, which `_get_or_init_data_manager` asks it for: `tables` assumes so,
because that is what the code is written for; `tables_served` takes the row as it
is, without. Invalid identifiers and queries are left out.

### Accounts and Session

`register` is a step per statement (`Register`, `CheckEmail`, `CountUsers`,
`InsertUser`). Of a user the role and the state count; name, address, profile and
password decide nothing here, and the requests that change them are left out. A
token is a place in `pairs`, and its age is `expired`: both tokens good, then the
refresh token only, then none. No token is ever revoked, neither by a new password
nor by a refresh.

`Session` has, per tab, the store (`mem`), the requests in flight, and the pair the
shared refresh has sent; `storage` is what the tabs share. Requests come in four
kinds, as many of each as the constants say. Three have the user as their answer,
and set it (`Served`): that of `App`, which has tokens and no user (`Gets`,
`web/App.tsx:22-33`); that of the pages to sign in and to register (`Logins`,
`web/pages/Login.tsx:20-22`), which may be in flight beside the first; and a change
of the profile (`Profiles`, `web/pages/Settings.tsx:25-26`). All others are `Calls`. A
first 401 makes a request wait, a second is passed on. `crossed` records sign-ins and
sign-outs that met such an answer or new tokens on their way, or another tab that was
signed in, and a user who came into a storage without tokens; there the code may show
one account with the tokens of another, or sign the tab in again.

## 3. What is checked

Bounds are constants of the modules: `MaxTasks` rows, `MaxRetries`, `MaxFaults`
failed database calls per life of the process, `MaxItems`, `MaxSchedules`,
`ClassCrons`, `MaxRows`, `MaxStimuli` (requests, edits and restarts; in `Registry`
deletions are not counted), `MaxAttempts`, `MaxReloads`, `MaxUsers`, `MaxPairs`.

| run | instance | shows |
|---|---|---|
| `engine_race` | 1 spider, 2 callers, 2 tasks, 1 retry, no faults; 600,000 states | `SingletonUnlessRaced`, `NoStrandedRow`, `NoAbandonedSandbox`, `RowsAgree`, `NoItemAfterStop` |
| `engine_faults` | 2 spiders, 1 caller, 2 tasks, 1 retry, 1 fault; 720,000 | `TypeOK`, `OutcomeIsFinal`, `ImplementsLedger` |
| `engine_live` | 1 spider, 1 caller, 2 tasks, 1 retry, 1 fault; 80,000 | `StopReturns`, `RunEnds`, `ShutdownEnds` |
| `sandbox_delivery` | batches of 2, queue of 2, 9 items, a deadline of 2 ticks, both modes; 151,000 | `DrainedIsComplete`, `ErrorComesLast`, `BackPressure`, `ImplementsStream`, `ReadEnds`, `SandboxEnds` |
| `scheduler_routes` | 1 spider, 1 good and 1 bad expression, 2 clients, 2 rows; 410,000 | `OneJobPerSpider`, `ScheduledAsShown` |
| `registry_routes` | 2 files, 2 spiders, 3 contents, 2 threads, 2 clients, 2 rows of a name, 3 stimuli; 754,000 | `OnePath`, `ReloadCatchesUp`, `OneRowUnlessRaced`, `DeletedIsStopped` |
| `docker` | 3 items, a deadline of 2 ticks; 27,000 | `EndsAfterItems`, `ImplementsStream`, `ReaderEnds` |
| `sinks` | each kind of sink before a JSON sink, and CSV before Doris; batches of 2, 3 items, 2 attempts; 588,000 | `OnceUnlessFailed`, `GivenToAll`, `ImplementsLog` |
| `tables` | 2 columns, 5 declarations, both dialects, 2 runs, 1 request, 3 items, 1 change; 2,137,000 | `EnsureIsIdempotent`, `SavesUnlessRedeclared`, `LosesFirstOnly` |
| `session` | 1 tab with one request each of `App`, sign-in and profile in flight, 2 users, 2 registrations at once, 2 pairs of tokens; 87,000 | `FirstIsAdmin`, `TokensMatchUser`, `CallEnds` |

Why these bounds are enough to be interesting: two callers and two tasks make a
start race, a stop of a runner another caller replaced, and a resume of a paused
predecessor; two spiders make a shutdown that has several to stop; one retry
makes both a retry and an exhausted one; one fault anywhere makes every handler
run. Nine items are a batch in the reader, two in the queue, one that blocks the
child and the first of the next, the state `BackPressure` speaks of. Two rows
and two clients make two schedules of one spider and any overlap of two
requests. Two files with two spiders, one of which may hold both, let a spider
move between files and a file change its spider. Three stimuli are a start-up with two
requests or edits after it, and any deletions: enough for both threads to be in one
file, or at one name in two files, for an upload that begins while the watcher loads
what an edit left, and for two starts that overlap each other or a deletion. Two rows
of a name are what the select cannot take, and a database with that many left in it is
an initial state. Three lines of a log are one in the
generator, one in the thread and one in the container. A batch of 2 of 3 items
leaves a partial batch and one that fails and is written with the next item; two
attempts nest two pipelines. Two runs and a request race in `ensure_table`, and
three items are a second one in a run and one in the other. The five declarations are no
fields, a key that is a field, fields without a key, a refused type, and a key that is no
field. Two pairs of tokens are
one sign-in and one refresh, or two sign-ins; the request of `App`, that of the sign-in
and the change of the profile may all wait for one refresh. `Calls` sets nothing and is
empty in the run: what waits and is sent again does so in the same way.
Callers, clients, runs and the files of the registry are symmetric where no
liveness is checked.

Deadlock: an engine whose task rows are used up and whose callers are done stops
legitimately, and so do a finished sandbox, a closed pipeline, and a registry, a
table or accounts whose stimuli are used up; their configurations switch deadlock
checking off. `scheduler_routes` keeps it on.

Fairness. `LoopFairness`: the event loop resumes each runner and each call whose
await completes, and database calls, log writes and sleeps complete. Nothing is
assumed of the spider code. `RunEnds` additionally assumes `SandboxDeadline`, that
no generator stays open for ever; `Sandbox` shows this (`ReadEnds`, `SandboxEnds`)
under its own `Fairness`: time passes, `queue.get` comes back within its two
seconds, the event loop finalises a dropped generator, and the runner asks on or
leaves. Nothing is assumed of the child. `DockerSandbox` assumes the same with the
thread that reads the log in place of the queue, and nothing of the container, so
`ReaderEnds` leaves out a container that could not be removed. `Session` assumes
that a request, and a refresh, is answered or fails: requests have a timeout of
30 s (`web/services/api.ts:6`); the refresh is sent without one and ends when the
browser or a proxy gives up.

### Where code and documentation part

Two runs end in a counterexample:

| run | statement | what happens |
|---|---|---|
| `engine_singleton` | one instance of a spider at a time (`core/scheduler.py:16`, `DESIGN.md:278`) | two overlapping starts both pass the check at `core/engine.py:80` |
| `tables_served` | items of a spider with fields reach its table (`SKILL.md:213`) | the row has no `fields` (`core/runner.py:205`): all items go to `items`, and the data route reads the empty table |

The following configurations end in one too, with
`tlc -config X.cfg M`; they are not among the runs of `PROJECT.json`.

| configuration, module | statement | what happens |
|---|---|---|
| `EngineStoppedCompleted`, `MCSpiderEngine` | a stopped run ends paused or stopped (`DESIGN.md:268`) | it is recorded as COMPLETED (`core/runner.py:131`, `142`) |
| `EngineStopSettles`, `MCSpiderEngine` | the same | a stop during the back-off leaves the row RUNNING (`core/runner.py:167`) |
| `EnginePausedResumable`, `MCSpiderEngine` | paused means resumable (`DESIGN.md:268`) | a cancelled run is PAUSED without the crawldir that `core/engine.py:205` needs |
| `SandboxEveryItem`, `MCSandbox` | every item is yielded (`core/sandbox_runner.py:80`) | a batch that cannot be pickled is dropped, and the run is drained |
| `SchedulerClass`, `MCScheduler` | re-registration updates the schedule (`DESIGN.md:279`) | `core/engine.py:263-277` only registers |
| `SchedulerDisabled`, `MCScheduler` | the schedule is disabled (`api/schedule_routes.py:246`) | an update registers its job again (`api/schedule_routes.py:167`) |
| `RegistryRowsUnique`, `MCRegistry` | `name` of `spiders` is UNIQUE (`DESIGN.md:720`): no step adds a second row | two listings both add a row; the constraint is on owner and name, and the owner is NULL |
| `RegistryOrphan`, `MCRegistry` | to delete a spider stops it first (`api/routes.py:264`) | the first of two runners that overlapping starts made is out of reach (`core/engine.py:134`) and runs on |
| `TablesDefaultType`, `MCTables` | who defines `fields` gets a table (`SKILL.md:78`) | `VARCHAR(512)`, the type of the example and the default of `core/data_manager.py:227`, is refused (line 50), and `ensure_table` raises each time |
| `DockerFailure`, `MCDockerSandbox` | a failing spider raises (`core/sandbox_runner.py:85`) | a container that is killed ends as drained |
| `SinksExcelKeeps`, `MCSinks` | the Excel sink loads and keeps what its file has (`core/sinks/excel_sink.py:22`) | after a retry the outer pipeline writes its rows over those of the inner one |
| `TablesKeepsUser`, `MCTables` | an upsert keeps the user of a row (`core/data_manager.py:357`) | it sets `user_id` to that of the last run |
| `SessionOneAdmin`, `MCSession` | the first to register becomes administrator (`api/auth_routes.py:94`) | two that both count no user do |

## 4. What is proved

Every invariant and every action property that a run checks is a theorem for all
values of the constants that satisfy the assumptions of the module
(`ConstantsAssumption` with `LifespanAssumption`, `SchedulerAssumption`,
`RegistryAssumption`, `SandboxAssumption`, `DockerAssumption`, `SinksAssumption`,
`TablesAssumption`, `AccountsAssumption` with `SessionAssumption`; each says what
kind of value a constant is, that a bound is a number, and that a placeholder is
none of the values it stands beside). So are two refinements, and the safety part
of a third for each sandbox.

Most properties are not inductive. The proof of each rests on invariants that say
more; TLC checked those on the instance of the run before they were proved.

**SpiderEngine** (`SpiderEngine_proofs`)

* `TypeCorrect`: `Spec => []TypeOK`.
* `RowsCorrect` (a lemma): `Spec => [](TypeOK /\ RowInv)`, on which the others rest.
  `RowInv` says what the task row shows at each place of `_run`
  (`RunnersHaveRows`), that a start call that has inserted its row owns it
  (`InsertedRows`), that a call that stops a runner holds one of this life of the
  process (`StoppedRunners`), and that nothing is in memory when the process is
  down.
* `SingletonCorrect`: `Spec => []SingletonUnlessRaced`. `SlotInv` adds that a start
  call past its check is the only one for its spider and has no live runner
  beside it, as long as no starts overlapped.
* `NothingAbandoned`: `Spec => []NoAbandonedSandbox`. `SandboxInv` says that only a
  runner in its loop has the generator open, and not while it saves an item after
  a stop; otherwise a cancellation could leave it open.
* `NothingStranded`: `Spec => []NoStrandedRow`. `StrandedInv` adds that the lifespan
  task starts nothing, so that every inserting call is one of `Callers`.
* `StopIsObeyed`: `Spec => NoItemAfterStop`. `StopInv` says that only a runner that
  exists was told to stop, so that making one clears no event.
* `LedgerImplemented`: `Spec => ImplementsLedger`. Each action is a step of
  `TaskLedger` or a stutter; `RowInv` supplies the status a runner or a pause finds
  in the row it writes.
* `OutcomesLast`: `Spec => OutcomeIsFinal`. `ExcuseInv` says that a runner handles an
  error of a completed run only if a database call failed, and records a pause
  only if it was told to stop or the process exits.
* `TablesAgree`: `Spec => []RowsAgree`. Two invariants are needed: `OrderInv`, that
  the row a start call inserted is the newest of its spider and no older runner
  is alive once a row has its runner, and `AgreeInv`, what the spider row says at
  each place of the newest runner, between its two commits too.

**Scheduler** (`Scheduler_proofs`)

* `SchedulerTypeCorrect` and `OneJob`: `Spec => []TypeOK` and
  `Spec => []OneJobPerSpider`. The invariant `Inv` adds that a request past its read
  holds the id of a row that was inserted, with that row's spider
  (`RequestRows`), that such a row has a registered spider, and that a row has no
  job before it exists. Without the first an `Apply` could put a job under
  another spider's id.
* `ScheduledCorrect`: `Spec => []ScheduledAsShown`. `MapInv` says that `_job_map` leads
  to a job of the spider itself. `TidyInv` says of a spider that is used one
  request at a time what its request remembers of the row at each await
  (`Current`), and that each of its rows has the job it asks for, but for the one
  whose change is committed and not yet told to the scheduler (`Pending`).

**Registry** (`Registry_proofs`)

* `RegistryTypeCorrect`, `PathsCorrect` (`OnePath`), `ReloadCorrect`
  (`ReloadCatchesUp`), `OneRowCorrect` (`OneRowUnlessRaced`), `DeletedCorrect`
  (`DeletedIsStopped`), from one invariant
  `Inv == TypeOK /\ JobsInv /\ ServingInv /\ OnePath /\ WorkInv /\ CatchInv /\ RowsInv /\ RunsInv`,
  whose conjuncts hold between any two steps of the two threads. `JobsInv` says what a
  thread has at hand at each place of its load, and that only the event loop
  unregisters; `ServingInv` that a server that is down has nothing in memory. `WorkInv`
  is about a name that is not torn: one thread is at work on it, the paths that it has
  yet to forget are all there are, none is left when it assigns the class, and the
  class is the one it loads when it assigns the path. `CatchInv` says that a registered
  class is what the file holds, or a load that has yet to come to it is, and that a
  load holds what the file holds unless an event is pending or it is `missed`; it holds
  from the scan on, before the server serves. `RowsInv` says that a listing about to
  add rows is alone and has names no row has, unless listings raced; `RunsInv` that,
  unless starts raced (`startRaced`), the last runner of a name is the only one that
  may run and the one a deletion waits for, and that what runs, or is about to, is
  registered. `ScanFacts` is that the scan leaves each class with its path.

**Sandbox** (`Sandbox_proofs`)

* `SandboxTypeCorrect`, `DrainedComplete` (`DrainedIsComplete`), `ErrorLast`
  (`ErrorComesLast`), `HeldBack` (`BackPressure`) and `KeepsStream`
  (`Spec => Stream!Safety`), from `SandboxInv`. `QueueInv` is about the pipe and the
  buffer as one queue: its batches come in the order of their items, behind what
  the generator has in hand, and a notice is the last message. `ItemInv` is the
  balance: what is lost waits nowhere, and as long as a notice may come, every
  item that was produced is delivered, lost, or waits in hand, in a message or in
  the batch, or is one of a finished crawl that the loop has yet to come to.
  `BackPressure` is a count: the items that have left the loop and wait map one to one
  into the places of the queue and of a batch on each side, which are finitely many. In
  the simple mode these are all that were produced, in the scrapling mode those that
  were gone through.

**DockerSandbox** (`DockerSandbox_proofs`)

* `EndComesLast` (`EndsAfterItems`) and `KeepsStream` (`Spec => Stream!Safety`), from
  `DockerInv`: the lines of `msgs` and of `log` are in order, one before the other,
  and nothing follows a failure (`LinesInv`); every item produced is on a line or
  lost (`BalanceInv`); container, thread and generator start and end together
  (`LifeInv`); what was delivered are the items up to `pos` (`TakenInv`).

**Sinks** (`Sinks_proofs`)

* `SinksTypeCorrect`, with `TakenInv`: only the newest attempt takes items, and no
  sink is ahead of what the spider yielded.
* `GivenCorrect`: `Spec => []GivenToAll`. `GivenInv` is the same inside the loop over
  the sinks, where some have the item and others have it due (`Due`).
* `SinksKeepTheirPromise`: `Spec => ImplementsLog`. `BufInv` says that a buffer holds
  the last items of its attempt, in order, and `KeptInv` that what a keeping sink
  let go of (`Flushed`) is in its target, so that a write of the buffer, in part or
  again, continues the log without a gap.
* `OnceCorrect`: `Spec => []OnceUnlessFailed`. `OnceInv` says in every state, of a
  sink of which no call failed, that what it let go of is in its target once each,
  or in the rows that the Excel sink keeps from its opening to its closing
  (`Content`), and that a sink whose turn to be closed is over holds nothing back.

**Tables** (`Tables_proofs`)

* `TablesTypeCorrect`, with `RowsFit`, `ColumnsAsEnsured` and `OneManager`: what a
  manager that has come to a statement of `ensure_table` may rely on.
* `FirstItemOnly`: `Spec => []LosesFirstOnly`, from `OneManager`, that a run has a
  manager only once it had its first item, and has lost an item to it only if that
  manager, or the look for the row, failed, which happens once.
* `EnsureRepeats`: `Spec => []EnsureIsIdempotent`. `FoundHolds` says that what a
  manager found still holds unless another has changed the table, so that what is left
  to fail of are rows that violate the key, a refused type, and a key that is no
  column.
* `ReadySaves`: `Spec => []SavesUnlessRedeclared`. `OneIndex` says that under one
  declaration the index is the one it asks for, and there when a manager is ready.

**Accounts and Session** (`Session_proofs`)

* `OneAdministrator`: `Spec => []FirstIsAdmin`. `AdminInv` sees the registrations
  between the count and the insert: at most one of them has found the table empty
  unless they raced.
* `UserOfTokens`: `Spec => []TokensMatchUser`. `UserInv` says that all that is shown,
  stored, sent and waited for is of one user, the answers to `App`, to the sign-in and
  to a change of the profile included, and that a tab or a storage without tokens has
  no user. The proof needs a case that one tab cannot show: when the
  refresh of another tab fails, the storage is emptied, and an answer that comes
  after that puts a user there without tokens, whom the next sign-in shows with
  its own. `crossed` names that case too.

The theorems share one layout: a lemma per action or group of actions, the
inductive step by cases of `Next`, and a last step that combines both with
temporal logic.

Model-checked only:

* liveness, which needs fairness and is outside the proof system: `StopReturns`,
  `RunEnds`, `ShutdownEnds`, `ReadEnds`, `SandboxEnds`, `ReaderEnds`, `CallEnds`, and with it
  the fairness in `ImplementsStream`, of which `KeepsStream` is the rest;
* that `Scan` equals the loop of the code (`ScanAssumption`): this is induction over
  the files and their classes, which the provers here cannot do.


## 5. What is not modelled

* The command line as a second process: `start` runs an engine of its own over the
  same database, and a server that starts meanwhile marks its task as crashed.
* WebSocket connections: `broadcast` has no caller.
* The spider base class and the scrapling adapter, which run inside the child:
  the sandboxes let the spider code do anything its interface allows.
* Queries: lists, counts, filters, pages and exports change nothing.
* Functions of a text: the walks over the syntax tree of a spider, the SQL, the
  encoding of tokens, the hash of passwords, `calculate_backoff`.
* Migrations, settings and logging.
* The composition of the modules: a run is `live` in `Registry`, a generator that
  may do anything in `SpiderRunner`, and has no items there that `Tables` or `Sinks`
  would save. `ItemStream` is what one side promises and the other relies on.

## 6. Plan

Done, in this order: `SpiderRunner` and `SpiderEngine` with `TaskLedger`; `Sandbox`;
`Scheduler`; `Registry`; `DockerSandbox` and `ItemStream`; `Sinks` and `ItemLog`;
`Tables`; `Accounts` and `Session`; the theorems of section 4 for all of them.

Next, in order of what it tells:

1. `SpiderRunner` over `ItemStream`, so that `SandboxDeadline` follows from the
   composition, and `Sinks` driven by the runner's own steps.
2. A second process: the CLI's `start` beside a server, sharing the rows of
   `SpiderRunner`.
3. The rest of the ways out of `ScheduledAsShown`: what holds of a spider that is
   `tangled`, once the next start-up has settled it.
4. A name that is torn in `Registry`: what holds of it once the next load that meets
   no other has settled it, and an abstract registry that `Registry` refines.
