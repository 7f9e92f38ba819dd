# snakedispatch in TLA+

snakedispatch is an asyncio server (FastAPI) that runs Snakemake workflows for
its clients: it checks a workflow out on a compute target, starts a detached
wrapper script there, follows it by polling files, streams its log, and keeps a
record of every job on disk. This directory holds TLA+ models of it, the
TLC configurations that check them, and proofs checked by TLAPS. Paths below are
relative to `src/app/`.

## 1. The system

### Components, state, operations

| Component | Code | State | Operations |
|---|---|---|---|
| Job store | `store.py`, `models.py` | `_jobs`: id -> `JobRecord` (status, work_dir, logs, task, counts); `DATA_DIR/jobs/<id>/job.json`, `output.log`, `snkmt.db` | `create_job`, `mark_*`, `persist`, `restore_from_disk`, `cancel_job`, `delete_job`, `push_log`, `flush_logs_to_disk`, `get_logs*`, `clear_job_logs` |
| `execute_job` | `tasks.py` | where the coroutine awaits, its exit code | prepare, setup, launch, monitor, collect; `except`, `finally` |
| Sync loop | `tasks.py` | position in a copy of the job table | `check_job_status`, recovery, log flush, snkmt copy |
| GC loop | `tasks.py` | position in a copy of the job table | cleanup, `delete_job` |
| Routes | `routes/*.py` | the background cleanups | create, list, cancel, delete, logs (SSE), outputs, snkmt, health |
| Backends | `backends/*.py` | SSH connection, tunnel, lock; nothing locally | prepare, setup, launch, monitor, `check_job_status`, caches, `sync_snkmt_db`, `cleanup` |
| Wrapper and host | `utils.py` | process, `.pid`, `.exitcode`, `.stdout.log`, `snkmt.db` | writes its pid, runs snakemake, writes its exit code |
| snkmt queries | `snkmt.py`, `routes/snkmt.py` | none: a copy of `snkmt.db` is opened for each request | overview, jobs, one rule, files of a job, rule graph |
| Lifespan | `main.py` | the loops' tasks | start with `restore_from_disk`, stop |

### How they interact

One event loop runs all coroutines, so between two awaits a coroutine has the
store for itself; everything that can go wrong goes wrong at awaits, in the
wrapper (a process of its own), on disk, and at restarts. The server and the
wrapper share only the files of the work directory. A job has up to three
coroutines that act on it at once: its `execute_job` task, the sync loop, and a
cleanup that cancel, delete or the GC loop started; its log clients are further
ones.

### What is hard

* Two observers of the same wrapper, the monitor and the sync loop, both end
  the job; the loop also cancels the task, whose `finally` still runs.
* Cancel and delete do not wait for the task: it goes on until its next
  resumption and then through its `finally` clause.
* A status check looks at two files (`.exitcode`, `.pid`) of a process that
  runs on; over SSH it also awaits between its guard and its conclusion.
* The server may die anywhere; wrappers survive it, tasks do not.
* `DATA_DIR` may be full: each persist and each flush may raise.
* The log goes through a bounded buffer that is read, flushed and cleared by
  different coroutines.
* Copies of `snkmt.db` share temporary names, and each consists of commands that may
  fail, be run twice, or run when nobody waits for them.
* All coroutines share one SSH connection. After a first error any of them closes
  it, under the commands of the others, and runs its own command again.
* Jobs of one repository share a bare clone, and jobs with one `cache_key` share a
  cache directory that each reads and writes file by file.
* A listing of outputs may be asked for while the files change, and is kept.
* A view is several SELECTs in a thread, on a file that the event loop replaces.

What makes each component correct is stated as a property of section 4; the
places where it could go wrong are the hazards of `PROJECT.json`.

## 2. Plan

In order of importance, with what is done:

1. **Dispatch** (done): the life of jobs, all actors, both backends, restarts;
   abstract specification `JobPromise`; type correctness, seven safety properties
   and the refinement proved.
2. **LogStream** (done): from `.stdout.log` to clients and `output.log`; its
   invariants proved.
3. **SnkmtSync** (done for SSH): concurrent copies of `snkmt.db`; that readers and
   counts advance and that snapshots have a coroutine to remove them proved.
4. **SshConnection** and **GitCheckout** (done): the shared connection with its
   lock, retry and tunnel, and the checkouts that run over it; all but their
   liveness proved.
5. **JobFiles** (done): `restore_cache`, `save_cache` and the listing of outputs of
   jobs with one cache key; its invariants proved.
6. **SnkmtQueries** and **SnkmtViews** (done): the SELECTs of `snkmt.py` as operators,
   and the routes that put views together from them; all its properties proved.
7. Left: pagination of `list_jobs`; the health cache.

## 3. Modules

| Module | Models | Extends |
|---|---|---|
| `JobRecord` | statuses, and each `mark_*` as a function on records | |
| `ServerState` | all shared variables; `persist`, `delete_job`, `task.cancel()`, the `finally` clause | `JobRecord` |
| `WorkDir` | the wrapper script and its files; what a status check sees | `ServerState` |
| `ExecuteJob` | `execute_job` and the backend calls it awaits | `WorkDir` |
| `SyncLoop` | `sync_job_data_loop` | `WorkDir` |
| `Retire` | cancel, delete, `gc_loop`, `cleanup` | `WorkDir` |
| `Dispatch` | create, crash, restart, Ctrl-C, a full disk; `Next` composes all the above | `ExecuteJob`, `SyncLoop`, `Retire` |
| `JobPromise` | abstract: a shown and a kept status per job | `JobRecord` |
| `DispatchProperties` | properties and fairness of `Dispatch`; refinement of `JobPromise` | `Dispatch` |
| `LogBuffer` | `push_log`, `get_logs*`, `flush_logs_to_disk` as operators | |
| `LogStream` | one running job: wrapper output, monitor, flushes, SSE clients | `LogBuffer` |
| `LogProperties` | its properties | `LogStream` |
| `SnkmtSync` | snapshot, download and rename of `snkmt.db` by two coroutines | |
| `SnkmtProperties` | its properties | `SnkmtSync` |
| `SshConnection` | `_get_conn`, `_open_tunnel`, `_run_ssh`, `_close_conn`; asyncssh as they use it | |
| `GitCheckout` | the git commands of `prepare` and the SFTP of `setup`, each a call of `SshConnection` | `SshConnection` |
| `SshProperties` | properties and fairness of both | `GitCheckout` |
| `JobFiles` | work directories, one build cache, the cached listing; the task, the sync loop, clients and restarts around them | |
| `FilesProperties` | its properties | `JobFiles` |
| `SnkmtQueries` | the tables of `snkmt.db` as sets of rows, every SELECT as an operator on them | |
| `SnkmtViews` | one client, one view: `_require_snkmt`, the SELECTs in their order, the responses; the copies and the job's end next to it | `SnkmtQueries` |
| `ViewsProperties` | its properties | `SnkmtViews` |
| `DispatchProofs`, `LogProofs`, `SshProofs`, `FilesProofs`, `SnkmtProofs`, `ViewsProofs` | proofs (section 5) | the properties, `TLAPS` |
| `OutcomeProofs`, `PromiseProofs` | proofs of what needs `SafetyInv` and more | `DispatchProofs`, `OutcomeProofs` |
| `MCDispatch`, `MCLog`, `MCSnkmt`, `MCSsh`, `MCFiles`, `MCViews` | what TLC instantiates | |

The modules are separate specifications, each of the coroutines that meet in one
part of the state. What one takes as a step, another has in full: the checkout is
a step of `ExecuteJob` and a module of its own, `execute_job` and the sync loop have
the awaits in `JobFiles` that matter to files and all of them in `Dispatch`, a copy
of `snkmt.db` is one step of `SnkmtViews` and up to seven of `SnkmtSync`. `SnkmtViews` relies
on `ReadersAdvance` of `SnkmtSync`: what is shown next is never older (its first half,
if it is torn), and it is whole unless a download met another copy of the job. So
`Syncs` shows a database that has all the one before had, and `Tears` makes
the one that is shown torn, at any time; the next whole one is not older than the
last whole one.

### Conventions

An action is what a coroutine does between two awaits, or one visible step of
the host. Where a coroutine awaits is its `task`, `sync`, `gc`, `cleanup`,
`monitor`, `stream` or `pc` value; `Resumes(j, pc)` says that it may go on there
and that no `CancelledError` is pending. `CancelTask` puts a task into
`cancelling`, and `CancelDelivered` is its next resumption: nothing else of the
task happens in between, as in asyncio. `LoopFree` is false while the local
backend's `check_job_status`, which has no await, looks at files: the event loop
is held, the wrapper is not.

The record of a deleted job stays in `record[j]`, because its task and the loops
still hold the object; `jobs` is the key set of `_jobs`. `disk[j]` is `job.json`
(`NoRecord` if there is none). `life[j]` is a history variable for properties, as are
`wasFull` of `LogStream`, `overlapped` and `left` of `SnkmtSync` and `spoiled` of `JobFiles`:
no step reads them. `wiped` of `JobFiles` is not one: a cleanup goes on removing files.

Definitions that begin with `(* Faulty: ...` are plausible bugs of the
definition that follows them. No behaviour uses them; they are substituted to
make sure that each property can fail.

`Environment` selects what may happen in an instance: client requests (`cancel`,
`delete`), a short retention (`gc`), crashes and restarts of the server
(`restart`), Ctrl-C (`interrupt`), a full `DATA_DIR` (`full`), killed wrappers
(`kill`), work directories without space (`quota`), failing backend calls
(`backend`).

### Abstractions

* Times are nondeterministic: any timeout may expire while its condition is not
  met, any job may be old enough for the GC loop. `monitor`'s ten consecutive
  errors are one action.
* `prepare` is two steps: the directory is there, and `prepare` has returned.
  Upload, checkout, extra files and cache restore have no states of their own.
* An exit code is `zero`, `nonzero` or `dead` (-1). COMPLETED and FAILED are one
  status in `LogStream`, where their difference does not matter.
* `.stdout.log` is its length; two units make one line of the workflow.
* A copy of `snkmt.db` has two halves, each with the version it was made from. `.pid`
  is created and written in one step, and a wrapper that is killed takes its
  workflow with it. `sqlite3 ".backup"` fails if there is no database, as the
  comment at `backends/slurm_ssh.py:487` has it; a shell that makes an empty one instead would
  add copies without tables, before the first row and while a work directory is
  being removed.
* A command of `SnkmtSync` may fail before or after it ran, and is run again or left
  to run later (`stray`) whether `_run_ssh` returns or raises. `_get_conn` may fail
  between the snapshot and the `try`.
* A torn copy is one from which a SELECT raises: that SQLite may read pages of two
  databases without noticing is left out of `SnkmtViews`, as is a reader that meets a
  download into the very file it has open other than by such an error.
* In `SshConnection` a connection is a number and a state: `close()` begins a close
  that the event loop completes, `is_closed()` is true once that is done, and a
  command raises when its connection is lost. A close needs no answer from the
  network, so it is over before a handshake that began later: `Connects` waits for
  callers that have an error or a close pending. Authentication errors are faults.
* `_run_ssh` runs a command at least once: `Runs` may be followed by an error and a
  second `Runs`, and a command nobody waits for may still run later (`stray`).
  Commands without an effect on refs and worktrees are not kept as strays.
* A file of `JobFiles` has two halves, each named after the job whose workflow wrote
  it. A local copy (`copytree`) opens a file, later finishes it, in place, and in a
  thread that a cancelled task leaves behind; an rsync replaces whole files.
  Listings see any set between what was there throughout and what was there at all.
* A copy of `snkmt.db` in `SnkmtQueries` is the set of its rows, one of them for the
  file and one for its schema: `{}` is no file, `{File}` a file without tables, from
  which a SELECT raises. The rows are those of one run of snakemake: one row of
  `workflows`, job ids in the order of snakemake ids. That `get_job_files_by_snakemake_id` does not
  filter by workflow (`snkmt.py:163`) is therefore not seen.
* A pid is never reused, and `kill` ends the wrapper at once; what becomes of
  the snakemake process under a killed wrapper is outside the model.

## 4. What is checked

### Passing runs

| Run | Shows |
|---|---|
| `local_two_jobs` | two local jobs, cancels, restarts, a disk that fills up: types; `TaskEndsTerminal`; `CompletedIsReal`; `LaunchIsLogged` |
| `local_disk_ok` | while `DATA_DIR` takes writes, with everything else in the environment: `FailedHasEnded`, `RetiredTaskWindsUp`, `DurableOutcome`, `SpawnsOnlyWanted`, `TerminalStable`; the refinement of `JobPromise` through the mapping `seen` = status of the record, `kept` = status in `job.json` (`KeepsPromise`); every task ends (`Settles`), and after the last restart the sync loop ends each RUNNING job whose wrapper has a `.pid` (`SettlesAfterRestarts`) |
| `ssh_disk_ok` | over SSH, where every status check awaits: `RetiredTaskWindsUp`, `DurableOutcome` and both liveness properties |
| `log` | either backend, a buffer of two lines, full disks, kills, restarts: `output.log` plus what is unflushed is the wrapper's output, in order, once; nothing read is lost; a client told `done` has all of it that was not evicted; evictions skip, and never repeat or reorder; the local monitor reads to the end; every stream ends |
| `snkmt_copies` | what readers are given is never older than what they had, whatever copies overlap, and whole unless a download met another copy, also after crashes, cancellations, failures and commands that run twice or late (`ReadersAdvance`); a snapshot that was not left by a failed command, a crash or a lost backup has a coroutine that will remove it (`BakIsRemoved`); the counts never go back but from a torn copy (`CountsAdvance`) |
| `ssh_connection` | two checkouts over one connection behind a jump host, with two faults or cancellations anywhere: `LinkIsKept`, `OneFaultIsForgiven` (every command is answered), `ChecksOutItsOwn`; every call ends (`CallsEnd`) |
| `job_files` | two jobs with one cache key, either backend: the listing kept for an ended job is complete until its files are removed, but for named ways in which an early one stays (`FinalListingIsComplete`); the cache has files of successful jobs only (`CacheFromSuccess`) |
| `views` | each of five views while the database grows, is replaced, and is torn: `RoutesAgree`, `OverviewIsWhole`, `LogsAreThoseWithContent`; what was answered is answered again unless the copy is torn then (`AnswersPersist`) |

Some properties carry a condition, and a variable that records it:
`LogIsOutput`, `NothingReadIsLost` and `DoneMeansAll` hold while no write to
`DATA_DIR` was refused (`wasFull`); that what readers are given is whole, until a
download meets another copy of the job (`overlapped`: a copy of the other coroutine,
or a backup nobody waits for); `BakIsRemoved` for snapshots that were not left
(`left`: the backup's or the `rm`'s call failed or was cancelled, the connection failed
before the `try`, the server died, or a lost backup ran); `AnswersPersist` for answers
made while the copy is not torn (`torn`);
`RoutesAgree` and `LogsAreThoseWithContent` between requests, for a database with a
workflow. `FinalListingIsComplete` excepts the jobs whose files a cleanup removes
(`wiped`) and those whose listing is an early one (`spoiled`). A job becomes spoiled

* in `Collects`, when the task has listed while a client's request was under way, or
  when its own listing failed and an early one is there;
* in `Concludes`, when the sync loop is the first to end a job that has an early listing
  or a request for one under way, or whose wrapper has no `.pid` yet and goes on
  writing (over SSH).

A restart ends the requests, so that a job which has then no listing and no wrapper
that may write is spoiled no more.

`SettlesAfterRestarts` assumes `<>[]~stopping`, that the server is up for good in
the end. The server goes down in one step (`Crash`) and comes up in another
(`Restart`), so that a restart cannot be confused with a pass of the sync loop
that leaves everything as it was; a hypothesis on `Restart` steps alone would be
false in every behaviour in which the loop finds a job unfinished.

`Settles` and `SettlesAfterRestarts` except one state of a wrapper, `Mute`: it
ended after bash opened `.exitcode` and before anything was written into it (it
was killed just then, or the file system had no room). `monitor` and
`check_job_status` take an empty `.exitcode` for a write in progress and do not
try the pid, so such a job stays RUNNING until it is cancelled.

### Disagreements between the code and its documentation

In each of these runs TLC finds a behaviour of the code that contradicts a
sentence of the repository; `findings` in `PROJECT.json` quotes the sentence.

| Run | What happens |
|---|---|
| `deleted_comes_back` | the task of a deleted job persists it again (`tasks.py:103`) |
| `ssh_overwrites_cancel` | the sync loop replaces CANCELLED (`tasks.py:268`) |
| `log_sent_twice` | a client that is up to date is sent the whole log again (`store.py:251`) |
| `outputs_stale` | a listing made for a client while the job ran is kept when it has ended, and hides the files written since (`routes/jobs.py:241`) |

The models have further behaviours of this kind. They are the reason why some
properties are not stated, or only for one backend or environment:

* A job deleted during `prepare` is never cleaned up: `work_dir` is set after the
  directory was made (`routes/jobs.py:334`).
* Over SSH no `.pid` is DEAD, so a job whose wrapper `launch` is starting can be
  marked FAILED (`backends/slurm_ssh.py:54`); hence `FailedHasEnded` is local.
* A wrapper that succeeds and ends between a status check's look at `.exitcode`
  and its look at the process is FAILED (`backends/local.py:194`): FAILED means
  that the wrapper has ended, not that it failed.
* Cancelling a restored job, which has no task, is not persisted (`store.py:273`);
  hence `kept` may lag behind `seen` in `JobPromise`.
* A success the sync loop sees first cancels the task before `save_cache`
  (`tasks.py:270`), and before the monitor has read the last lines.
* `cleanup` before the wrapper has written `.pid` signals nobody
  (`backends/local.py:310`).
* A drain that finds half a line makes two lines of it (`backends/local.py:145`);
  hence `LogIsOutput` speaks of pieces, not lines.
* Over SSH `tail` runs before the status check and not again
  (`backends/slurm_ssh.py:342`); hence `MonitorReadsAll` is local.
* Buffers are cleared although the last flush failed, if `persist` succeeds
  (`tasks.py:104`); hence `LogIsOutput`, `NothingReadIsLost` and `DoneMeansAll` except
  `wasFull`. A flush that failed half way is repeated, and its lines are twice in
  `output.log` (`store.py:115`).
* Downloads that meet share `snkmt.tmp` and `snkmt.db.bak`
  (`backends/slurm_ssh.py:499`), which a backup nobody waits for writes as well: readers
  can see a torn copy, and be answered 502 or shown counts of either half, until the
  next whole one; hence `ReadersAdvance` and `CountsAdvance` except `overlapped`, and
  `AnswersPersist` excepts `torn`. If no copy follows, it stays torn.
* `snkmt.db.bak` stays on the remote host when `_get_conn` fails between the snapshot and
  the `try` (`backends/slurm_ssh.py:495`), when the `rm` fails (`:503`), when the backup ran
  and its call raised or was answered with an error (`:482`), or when the task is
  cancelled in one of these; the next copy's `rm` removes it. Hence `left`.
* Files of a job that the GC loop removes are gone before the record (`tasks.py:302`): its
  outputs are listed and 404, or listed as none, until `delete_job`. Hence `wiped`.
* A copy under way recreates a deleted job's directory
  (`backends/slurm_ssh.py:497`).
* A connection that was dropped while idle is replaced together with its tunnel,
  and `_tunnel` is overwritten without a close (`backends/slurm_ssh.py:170`), as is
  a tunnel whose caller was cancelled during the handshake: jump host connections
  add up. Hence `LinkIsKept` is about connections to the head node.
* `worktree add` that ran and whose answer was lost fails when it is tried again, so
  one fault may fail a checkout, though not a command (`backends/base.py:118`).
* An empty listing turns the filter of empty logs off (`routes/snkmt.py:98`); hence
  `LogsAreThoseWithContent` excepts it. The files view does not filter at all
  (`routes/snkmt.py:276`); hence `RoutesAgree` leaves logs out there.
* A copy made before snakemake has created the tables is answered 502 for a running
  job (`routes/snkmt.py:71`).
* A cancelled or recovered job's copy into the cache goes on in its thread
  (`backends/local.py:272`), next to a cleanup that removes what it reads; a cache
  entry may then miss files, and mix halves of two successful jobs. Hence
  `CacheFromSuccess` speaks of success and not of one job.

### Bounds

* `local_two_jobs` has two jobs, so that the passes over the job table, the event loop
  and the disk are shared; the other `Dispatch` runs have one, whose interaction
  with others could only delay it, which nondeterministic timing allows anyway. All
  state is finite: there is no counter, and restarts are unbounded.
* `LogStream` has three units (a line and a half, each of which may be read in
  halves) and a buffer of two lines, which evicts; with fewer reads it holds all.
  `MaxOutput` bounds how often a failing flush may add to `output.log`; a flush that
  succeeds is never bounded.
* `SnkmtSync` has three versions and three files, so that two copies of the loop and
  the last one of the task may each see a database of their own. `MaxFiles` only
  delays a visit of the loop that would exceed it, with what the task may still need set aside.
* `ssh_connection` has two callers, one that names its branch and one that asks for
  the default, two branches, and `MaxTroubles` = 2: enough for one caller to close
  what the other has reopened, for a second try to fail, and for a command to be
  left behind and run under the job's next one. `Links` follows from it.
* `job_files` has two jobs and one file, of two halves: a copy may be before, inside or
  after the file while the other job's copy passes, and a listing may have it or
  not. Outputs are asked for, and statuses checked by the sync loop, of one job
  (`Shown`): requests and visits concern one job each, and those of the other would be
  symmetric. The proofs have no such bound.
* `views` has one rule, one set of wildcards and `MaxRows` = 6: the file, a schema, a
  workflow, a rule, a job and one file of it, or a second job; each `asked` view from the start.
  Copies may be torn at any time, and any number of times.
  SLURM ids up to 2, so that a retry has a log of its own.
* Deadlock is not checked where the system comes to rest: copies stop when the job
  is over, and calls end.

### Fairness

* `SF(ExecuteJob(j))`: asyncio runs ready callbacks in FIFO order, so a task that
  is ready again and again is run, although the sync loop of the local backend
  holds the event loop now and then (which makes weak fairness too weak).
  Calls that would hang time out in the code (`command_timeout`, the `.pid` poll).
* `WF(SyncLoop)`: the loop sleeps and comes back; exceptions of a visit are
  caught. Its limit of consecutive errors concerns `store.all_jobs`, a dict copy.
* `WF(Host(j))`: bash writes its files and snakemake ends; without this no job
  need end.
* `WF(WrapperEnds)`, `WF(Task)`, `WF(Sync)`, `WF(Stream(c))` in `LogStream`: the
  same, and an SSE generator is resumed after its 0.3 s sleep. `SF(SyncRecovers)`: a
  status check over SSH may fail any number of times, and the loop asks again; one
  that is asked again and again is answered in the end.
* `WF(Work)` in `SshProperties`: the event loop serves callers and completes closes.
  An answer that never comes is a timeout of `wait_for`, a fault, of which there are
  `MaxTroubles`; after them the network answers.
* No fairness is assumed of clients, restarts, failures, cleanups or the GC loop.
  Failing backend calls (`backend`) are left out where liveness is checked over
  SSH: a connection that never works keeps the sync loop from ever learning
  anything. A restored PENDING or SETUP job, or a RUNNING one without `.pid`
  (local), has nobody to end it; `SettlesAfterRestarts` says so by its
  hypothesis.

## 5. What is proved

Each theorem holds for every value of the constants that satisfies the named
assumptions of the modules, which TLC evaluates in every run. "Local" is the
hypothesis `Backend = "local"`, and "without `full`" is `"full" \notin Environment`, that
`DATA_DIR` takes writes, with everything else in the environment; these are the
instances in which the property holds (section 4). Nothing else is assumed. Liveness under fairness and `ENABLED` are out of the prover's reach, and
the library's induction theorems cannot be instantiated by the installed provers;
no module with a theorem uses `RECURSIVE`.

| Module | Theorem | Statement |
|---|---|---|
| `DispatchProofs` | `TypeCorrect` | `Spec => []TypeOK` |
| | `TaskEnds` | `Spec => []TaskEndsTerminal` |
| | `NoFalseSuccess` | `Spec => []CompletedIsReal` |
| | `NoUnloggedLaunch` | `Spec => []LaunchIsLogged` |
| `OutcomeProofs` | `RetiredWindsUp` | `Spec => []RetiredTaskWindsUp`, without `full` |
| | `OutcomeIsDurable` | `Spec => []DurableOutcome`, without `full` |
| | `OnlyWantedSpawn` | `Spec => SpawnsOnlyWanted`, without `full` |
| | `OutcomeSettles` | `Spec => SettledForGood`, without `full`; an action property |
| | `LocalTerminalStable` | `Spec => TerminalStable`, local, without `full` |
| | `LocalFailureIsReal` | `Spec => []FailedHasEnded`, local |
| `PromiseProofs` | `LocalKeepsPromise` | `Spec => KeepsPromise`, local, without `full`: `Dispatch` implements `JobPromise` |
| `LogProofs` | `TypeCorrect` | `Spec => []TypeOK` |
| | `LocalMonitorReadsAll` | `Spec => []MonitorReadsAll` |
| | `LogIsWhatWasRead` | `Spec => []LogIsOutput` |
| | `NothingIsLost` | `Spec => []NothingReadIsLost` |
| | `DoneIsComplete` | `Spec => []DoneMeansAll` |
| | `StreamsAscend` | `Spec => []StreamAscends` |
| `SshProofs` | `TypeCorrect` | `Spec => []TypeOK` |
| | `LinkKept` | `Spec => []LinkIsKept` |
| | `OneFaultForgiven` | `Spec => []OneFaultIsForgiven` |
| | `CheckoutIsOwn` | `Spec => []ChecksOutItsOwn` |
| `FilesProofs` | `TypeCorrect` | `Spec => []TypeOK` |
| | `CacheIsFromSuccess` | `Spec => []CacheFromSuccess` |
| | `FinalListing` | `Spec => []FinalListingIsComplete` |
| `SnkmtProofs` | `TypeCorrect` | `Spec => []TypeOK` |
| | `ReadersGoOn` | `Spec => ReadersAdvance`, an action property |
| | `BakRemoved` | `Spec => []BakIsRemoved` |
| | `ProgressAdvances` | `Spec => CountsAdvance`, an action property |
| `ViewsProofs` | `TypeCorrect` | `Spec => []TypeOK` |
| | `RoutesAlwaysAgree` | `Spec => []RoutesAgree` |
| | `OverviewAlwaysWhole` | `Spec => []OverviewIsWhole` |
| | `LogsShown` | `Spec => []LogsAreThoseWithContent` |
| | `AnswersStay` | `Spec => AnswersPersist`, an action property |

### Dispatch

None of the three safety invariants is inductive. `CompletedIsReal` speaks of
records, but a record becomes COMPLETED from an exit code that was read earlier
and is held by `execute_job` (`code`) or by a visit of the sync loop (`sync`),
and comes back from `disk` at a restart; the exit code comes from `.exitcode`.
`LaunchIsLogged` speaks of wrappers, but a wrapper is started by a task that has
persisted RUNNING earlier. The inductive invariant is

    SafetyInv == TypeInv /\ RecordOK /\ LogOK /\ SuccessOK

* `TypeInv`: `TypeOK`, and `HostOK`, which ties `.exitcode` to the wrapper's
  state (a code is in the file only when the wrapper exited with one).
* `RecordOK`: a record and its task agree: a task that is done is terminal, one
  past `prepare` has a work directory, one past `mark_finished` is terminal.
* `LogOK`: from `launch` on, `disk` has the work directory and RUNNING or a
  terminal status, unless the job was deleted; and no later persist undoes that.
* `SuccessOK`: zero in `code`, in `sync`, and COMPLETED in `record` and `disk`
  each imply that the wrapper is `zero`, a state it does not leave.

Its proof has one step per action. `Finalize` and `MarkAndPersist`, which many
actions share, have their effect stated once as a lemma about the job concerned,
and `OtherJob` says that the other jobs are untouched. `TypeInv` and `SafetyInv`
were also model-checked before they were proved.

### Outcomes

While `DATA_DIR` takes writes, what was decided about a job and what is on disk
do not drift apart. That is not inductive by itself: a task may be cancelled inside
its `finally` clause, before the clause persists, and then `job.json` is right only
because whoever cancelled it persisted the record first. `OutcomeInv` is `SafetyInv`,
`~full`, and for each job

* `WindsUp`: a task whose job is decided or deleted is told to end, or is past
  `mark_finished` (this is `RetiredTaskWindsUp`);
* `Wanted`: a job whose task is between `launch` and `collect` is RUNNING or has its
  outcome, which with `WindsUp` is why only wanted jobs spawn a wrapper;
* `Durable`: when a task is over, or has been cancelled in its `finally` clause,
  `disk` has the record;
* `Visited`: a local visit of the sync loop concludes about a job that is still RUNNING.

`EndedInv`, for `LocalFailureIsReal`, covers full disks: wherever FAILED or an exit
code that means it is held (`code`, `sync`, `record`, `disk`), the wrapper is over.
Over SSH the properties marked local are false (section 4). How far `TerminalStable`
fails there is `OutcomeSettles`, which no run needs: the one step that replaces an
outcome is the conclusion of a visit that found the job RUNNING (`OutcomeReplaced`),
no visit begins when a job is decided, and so it happens at most once.

The refinement maps `seen` to the status of the record and `kept` to the status in
`job.json`. `PromiseInv` adds `Known`: a job that was created and not deleted is in the
table and in `job.json`, each with a status. Every action is then about one job, which
`Moves` as `JobPromise` allows or not at all, and leaves all others `Unseen`;
`MovesOnly` puts the two together, and a lemma makes it a step of `JobPromise`.

### The log

The proofs stand on lemmas about sequences: `Splitlines` cuts what was read into
pieces that follow on each other (`SplitlinesPieces`), pieces appended to a log that
ends where they begin make a longer such log (`PiecesAppended`), `push_log` keeps the
newest lines (`PushLogLines`), and `get_logs` returns what memory has from an offset
on (`GetLogsLines`). `LogStep` says of every step but a restart that it extends the
log by some lines, mostly none, and that only a task that reads and is not
cancelled has any. Four invariants use it:

* `TaskInv`: a task whose job was decided is cancelled before it logs again; a local
  monitor that has seen `.exitcode` reads a file that no longer grows. This gives
  `MonitorReadsAll`.
* `LoggedInv`: a task that may log finds a log that ends where it reads on, and
  without an error message in it. This gives `LogIsOutput` and `NothingReadIsLost`.
* `MemoryInv` and `ClientInv`: while no line was evicted, memory is all of the log or
  has been cleared by a task that is over, and a client that is served has received
  the beginning of it. This gives `DoneMeansAll`: what the last poll missed is in
  memory, or, if that is cleared, the client is sent `output.log`.
* `OrderInv`: whatever is evicted, what a client has received ends before what
  memory has for it begins. This gives `StreamAscends`.

### The connection and the checkouts

`SshInv` is `LinkInv /\ FaultParts`. That an open link is `_conn` is not inductive: a
caller that is about to close `_conn` might find another one there, and a
handshake might end with `_conn` open. `LinkInv` adds why neither happens:
`OpeningHasLock` (who opens a connection holds the lock, and `_conn` is closed all
the while), `ClosingKeepsConn` (who waits for a close waits for `_conn`'s, or `_conn`
is closed already), and `UsedIsMade` (what is used has been opened). For
`OneFaultIsForgiven` the invariant has to say why a second try succeeds:
`QuietBeforeFaults` (without a fault nothing is closed and nobody is at a second
attempt) and `AgainIsSettled` (after one fault, a caller at its second attempt
finds no connection, or one on which nobody has an error or a close pending). The proofs see the step of the
checkout as `Seen`, what it is for the connection.

`CheckoutInv` has for each job `OwnBranch` (there is a ref or a worktree only when
the branch is resolved, and then they are that branch's, strays included) and
`AnswerIsKnown` (what a command's answer says was true when it ran and has not
changed since).

### The files

    FilesInv == TypeOK /\ Begun /\ CacheInv /\ ListInv

`CacheInv`: not only the cache but everything a copy out of it or into it can
carry is of jobs that succeeded, or of the job itself in its own work directory:
what is restored, what a copy has read and not yet written, and what a job that
saves has. Since `save` begins only after exit code 0, and `zero` is a state a
wrapper does not leave, a slow copy into the cache stays clean whatever happens
to its job. `Begun` says that a listing or a copy that is awaited was begun.

`FinalListingIsComplete` speaks of what a client is served, and is not inductive: an
outcome is decided before the listing is made, a listing may be under way, and both
come back from `disk`. `ListInv` says of each job (`ListOK`):

* A record, in memory or on disk, that says COMPLETED or FAILED of a job that is not
  `spoiled` is of a `Quiet` one (the wrapper is over, or was never started and its task
  can start it no more), and its listing, unless the files are `wiped`, is the files
  that are there (`ListedOK`).
* A task that lists has begun with the files that are there now, and so has a request
  that a client still waits for: each finds exactly these (`ScansExactly`).
* A job whose cache is being restored is in SETUP or CANCELLED, and one that the sync
  loop visits is past that: no file changes after the wrapper's end but by a cleanup.

A conclusion of the sync loop need not leave a job quiet: over SSH it may be about a
wrapper that has not written `.pid`. Such a job is spoiled by the same step.

### The copies

    SnkmtInv == TypeInv /\ VersionInv /\ AloneInv /\ FileInv /\ WholeInv /\ BakIsRemoved

That readers never go back is a matter of who read what and when. The parts are, in
the order in which they rest on each other:

* `TypeInv` counts the files that may still be created, which keeps the bound.
* `VersionInv`: the snapshot is not newer than the database, and nothing that was
  copied, shown or persisted is newer than the snapshot while there is one. So
  whatever is read next from the snapshot or the database is not older than what
  readers have.
* `AloneInv`: the task copies only once its status is decided, that is after snakemake
  has ended. While a visit of the loop goes on next to it, the database grows no
  more, and a snapshot is the last version.
* `FileInv`: the file named `snkmt.tmp` during a download is not the one readers have,
  and begins with a version that is not older than what they have or were shown. A
  download goes on into a file that readers have only if the other coroutine has
  renamed it, and then both read the last version, and no other rename follows.
* `WholeInv`: unless copies overlapped, one coroutine copies, the halves it has
  written are of the snapshot it found, and what readers have is whole.

`BakIsRemoved` is inductive as it stands: each step that ends a coroutine, or takes it
past its `finally` clause, either removes the snapshot or records that it is `left`.

### The views

    ViewsInv == StateTypes /\ CopyInv /\ ListingInv /\ RequestInv /\ AnswerInv

`CopyInv` is `WellFormed(copy)`: ids count from 1, each id of a rule is one row, and a
job's rule is there. `RowAdded` proves that every row snakemake may add keeps this,
and this is where the bound on rows would matter to a proof; `MaxRows` is any number.
`RoutesAgree` and `LogsAreThoseWithContent` are then facts about one well-formed
database (`ViewsAgree`, `LogsAre`), proved from lemmas about each SELECT (`Selected`,
`JobsHaveRules`, `RuleFiles`) and each part of a response (`FinalJobFields`,
`FilesViewAgrees`, `LatestLog`, `LogShown`). That `resolve_job_logs` has a latest log
to find rests on `Latest`, that a set of ids has a greatest one.

What a request has got is not a fact about the copy, which is replaced while the
SELECTs run. `RequestInv` says that it is what they find in the one database the
request has opened, and that this database is part of the copy unless the job was
deleted. This gives `OverviewIsWhole`.

A torn copy takes part in this only by ending requests: `Tears` leaves the rows alone,
and may answer a request under way with 502 (`TornAnswer`); what else happens outside a
request leaves it untouched (`RequestUntouched`). What an intact copy showed before is
therefore still known when the next whole one is renamed over the torn one.

`AnswersPersist` compares two answers that are made of two databases, and of two
listings. `TellsGrow` proves, view by view, that a database with more rows is found
as well and tells at least as much, logs aside, whatever was listed. `AnswerInv` says
that what was answered is told by every database the next answer may be made of:
the copy, and the one that a request under way has open.

### Only model-checked

All liveness: `Settles`, `SettlesAfterRestarts`, `StreamEnds`, `CallsEnd`. It needs
fairness and `ENABLED`, and is out of the prover's reach. Every invariant and every
action property of the passing runs is a theorem, for the environments and the
backends in which it is stated.

## 6. What is not modelled

* The health cache: one boolean with an age that nothing else reads.
* Configuration, dependency wiring and request validation, which keep no state.
  (The comment at `main.py:31` says that environment variables win over the
  YAML file; arguments given to a pydantic-settings class win over the environment.)
* `stream_file`'s chunks, the walk of `_upload_dir`, the local copy of a workflow
  directory: I/O of one coroutine, whose failure is an error of `prepare`.
* The errors query of `snkmt.py`, one more SELECT; timestamps; JSON.
* The local backend's copy of `snkmt.db`, which relies on SQLite's backup and locks.
* The SLURM jobs that snakemake submits, which `cleanup` cancels by name.
* Validation of output paths and pagination: pure functions with unit tests.
