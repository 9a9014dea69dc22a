# OpenScanHub: a formal model

TLA+ modules that model the hub and the workers of OpenScanHub, the TLC runs that
check them on small instances, and theorems about them that TLAPS proves for every
value of the constants. Paths below are relative to `src/`; `hub/` stands for
`osh/hub/`.

## 1. The system

The **Errata Tool** and **users** submit builds by XML-RPC. The **hub** (Django, one
PostgreSQL database) decides what to scan, keeps the tables and hands out kobo tasks.
**Workers** poll for tasks, run csmock in a mock chroot and report by XML-RPC, one call
after the other. Users waive defects in the web pages, **administrators** press buttons
on the admin page of a scan, and **scripts** create and delete worker machines, remove
old results and compute statistics. The hub has no `ATOMIC_REQUESTS`: each ORM statement
is committed by itself, `save()` writes a whole row back, and nothing locks a row. What
makes the code hard is that many actors write the same rows in handlers that rarely look
at what they overwrite.

| Component | State | Operations | Meets the others through | What is hard | What makes it correct |
|---|---|---|---|---|---|
| **Scans of the Errata Tool** (`hub/scan/{scanner,check,xmlrpc_helper,models,service,admin}.py`, `hub/osh_xmlrpc/{errata,worker,client}.py`, `osh/worker/tasks/task_errata_diff_build.py`) | `Scan`: state, enabled, parent (the scan that superseded it), base; `ScanBinding`: task, result | submit, set states, ensure base, spawn subtask, bind it, fail, cancel, finish, interrupt; admin cancel, fail, finish | kobo tasks, calls of a worker process, base scans shared by targets | cancellation between any two calls; crash and restart of a worker; a base failing under its target; exceptions in the middle of a handler; two submissions at once | one scan of a package counts, the right one; dead scans stay dead; verdicts rest on results that exist; every scan ends |
| **Results loading** (`hub/waiving/results_loader.py`, `hub/service/*.py`) | files in the task directory; `Result`, `ResultGroup`, `Defect` | unpack, diff with the base, store, look earlier waivers up | called by `finish_scan` and `finish_task`; reads the base's files | failing half-way with files and rows left; being repeated or doubled | a verdict rests on whole diffs; a failure does not spoil the retry |
| **Waiving** (`hub/waiving/{models,views,service}.py`) | `Waiver`: kind, active, deleted; state of each group; state of the scan | waive, change, comment, remove; inherit a decision in the next scan | result groups of other scans of the package; `Scan` rows saved whole | long histories of posts and removals; a decision carried to the wrong scan; stale copies | scan state, group states and waivers agree; nothing is waived that nobody reviewed |
| **Bug reporting** (`hub/waiving/reporting/*.py`) | bug numbers of waivers | file a bug, update one | an external tracker, without a transaction around it | two users at once; a death between tracker and database | each waiver is reported once; a link leads to a bug that lists the waiver |
| **Client tasks** (`hub/osh_xmlrpc/scan.py`, `hub/scan/{scanner,check,mock}.py`, `osh/worker/tasks/task_build.py`) | task directories, uploads | validate, submit, move uploads, spawn a base, download, finish | the upload directory | uploads that two requests name; deaths between two moves; a base that fails | no accepted task is lost but for named reasons |
| **Analyzer version cache** (`hub/scan/models.py`, `hub/osh_xmlrpc/worker.py`, `osh/worker/tasks/task_get_analyzer_versions.py`) | `AnalyzerVersion`, `MockConfig.analyzers`, a setting with times | refresh by a subtask or by a result, compare, expire | consulted when a base is looked for; written by every load | transactions that overlap; late results; no unique constraint | a target is compared with a base of its own versions |
| **Single-use workers** (`hub/osh_xmlrpc/worker.py`, `hub/scripts/osh-worker-manager`) | `Worker.max_load`, `enabled`; machines | create, start, close, delete | tasks and their subtasks; three programs that save the same row | subtasks that need the same machine; a late save; the limit on machines | one task each; an idle machine goes; every task runs |
| **Notifications** (`hub/scan/{notify,messaging,kafka_messaging}.py`) | none in the hub | e-mail, UMB, Kafka | `set_state`, ends of tasks | copies of rows, order and loss | the owner is told; no final state stays untold |
| **Retention** (`hub/scripts/osh-retention`) | task directories | delete old ones | bases that are still referred to | deletion between lookup and diff | a verdict survives it |
| **Statistics** (`hub/stats/`, `hub/scripts/osh-stats`) | daily values | compute, store, show | tables that change while it runs | values that are not stored when equal; runs cut short | pages show the last value; parts add up |
| **Queries, pages, CLI, csmock** (`hub/templates/`, `hub/scan/views.py`, `osh/client/`, `osh/worker/csmock_runner.py`) | none | presentation, one call each, an external process | | | |

`PROJECT.json` lists the components with their status, and the hazards of the code at
the line where each bites.

## 2. The modules

| Module | Models |
|---|---|
| `ScanLifecycle` | scans, bindings, kobo tasks and worker processes, one action per handler |
| `CurrentScan` | abstract: which scan of a package in a release counts |
| `ScanRequests` | submission and `finish_scan` statement by statement, several at a time |
| `Waiving` | result groups, waivers and the verdict, one action per handler |
| `WaivingRequests` | the same handlers statement by statement, with bug reports and a submission |
| `ResultFiles` | the files of a task: tarball, results, diffs, retention |
| `AnalyzerCache` | the versions of analyzers and the transactions that refresh them |
| `SingleUseWorkers` | tasks, machines, and the three programs that save `Worker` rows |
| `ClientSubmission` | client requests, their uploads, tasks and bases |
| `Announcements` | mails and bus messages about a scan |
| `Statistics` | the querysets, the daily run, the pages |
| `MC*` | definitions that a run needs: builds, contents, options, symmetry |
| `WaivingProofs` | theorems about `Waiving` and `WaivingRequests` |
| `TaskFilesProofs` | theorems about `ClientSubmission` and `ResultFiles`, the files of a task before and after it ran |
| other `*Proofs` | theorems about the module of that name |

Composition: `ScanLifecycle` implements `CurrentScan` (`StreamsAreCurrent`), once per
release; `ScanRequests` implements it as long as no two requests overlap
(`RequestsAreCurrent`); `WaivingRequests` extends `Waiving` with the statements between
and implements it in the same sense (`RequestsAreWaiving`). The other modules share
kobo's tasks and `finish_scan` with `ScanLifecycle`, and each says in its header which
part it keeps.

Operators whose name starts with `Mut` are the operator below them with one plausible
bug (a dropped guard, a missing reset). No specification uses them; `PROJECT.json`
pairs each with the property that notices it. Variables marked *history* exist in no
table: they record which faults or overlaps a behaviour had, so that a property can name
the ones it does not survive.

### ScanLifecycle

A scan and its kobo task share a number, since `ScanBinding` is one-to-one. Variables
are columns: `state`, `enabled`, `parent`, `base` of `Scan`; `bound` and `result` of
`ScanBinding` (a result is its date); `task` is the kobo state; `uploaded` and
`unpacked` are the files of the task directory. `pc` is the next call of the worker
process that runs the task, so that **anything may happen between two calls**.

| Actions | Code |
|---|---|
| `SubmitScan`, `SubmitFails` | `handle_scan`: `check_obsolete_scan` cancels the scan in progress, `store` links the last verdict as child and disables it; `create_task` may raise after that |
| `OpenTask` ... `CloseTask` | the calls of `ErrataDiffBuild.run`: state changes, `ensure_base_is_scanned_properly` (`SkipBase`, `ReuseBase`, `PrepareBase`, `CacheRefreshFails`), `SpawnSubtask`, `CreateSb`, `Wait`, csmock with the upload (`Analyze`), `WorkerFailScan` or `WorkerFinishScan` |
| `FailTask`, `InterruptTask` | `worker.fail_task` and `interrupt_tasks`, which also fail the scan |
| `CancelTask` | `client.cancel_task` and `worker.cancel_task` |
| `AdminCancel`, `AdminFail`, `AdminFinish` | the buttons of `ScanAdmin` |

`FailScan`, `CanceledState` and `SwitchOff` are `fail_scan`, `cancel_scan` and
`enable_last_successfull`, called from several of them. `Faults` chooses what may go
wrong in a run: crashes, a death between the last call and the end of the task, failing
result processing, failing submissions, processes that outlive their task, and the admin
buttons.

External, modelled from how the code uses it (kobo): cancelling a task cancels its
unfinished subtasks; `create_subtask`, `close_task` and `fail_task` need an OPEN task;
`wait` fails the task unless the subtask is CLOSED; the task manager kills the process of a
task that is no longer OPEN, before its next call unless `"late"` is among the faults.

Abstractions. The defects are left out, so any of the `Verdicts` may come out of a
target. Whether the analyzers of a base are still actual is a free choice here; it is
decided in `AnalyzerCache`. A `REBASE` behaves as an `ERRATA`. The loop over obsolete
scans is one step on the set of them; scans of one set do not affect each other. Lookups
by package and release are in one `Streams` element, and `Nvrs` are builds that different
streams share.

### ScanRequests

Two handlers take long: a submission talks to Koji and creates the task in several steps,
and `finish_scan` holds the `Scan` and the `Task` it read before the results are unpacked.
Here each of their statements is an action, for the scans of one package that need no
base. `sub[u]` is the submission a slot of the web server is at, with its copies of rows;
`fin[s]` the `finish_scan` of a scan. `Queue` is `set_state_queued` on the copy,
`Unpack` the `task.save()` of `unpack_results` with the old task state. `overlaps`
records pairs of kinds of requests that met; bounded by `MaxOverlaps`.

### Waiving

All rows are of one package and release, as every lookup is confined to one. Results are
numbered by date. `attached` are the results that are the `result` of a binding (a scan
finished twice leaves its first one behind). `state` is the scan state of a result,
`found` what csdiff compares, `group` the state of its result groups, `waiver` the rows
of `Waiver`, numbered by date.

| Actions | Code |
|---|---|
| `FinishScan`, `FinishScanFails` | `ResultsLoader.process` with `find_processed_in_past`, `get_last_waiver`, `compare_result_groups`, then the verdict of `finish_scan`; or an exception with some groups stored and some looked up |
| `FailScan` | the scan fails or is canceled after it got its result |
| `PostWaiver`, `PostComment` | `waiver_post` with `apply_waiver` and `finalize`; `comment_post` |
| `RemoveWaiver` | `remove_waiver`, also of a waiver that was removed before |

Neither form looks at the state of the scan, so the actions do not either: waiving the
last open group of a FAILED scan makes it WAIVED. (`FailedIsFinal` of `ScanLifecycle` is
about the handlers of that module.) The web form is hidden for a disabled scan but the
handler accepts it, so `enabled` does not appear. `INFO` groups of fixed defects take no
part. `PREVIOUSLY_WAIVED` is written to the group, its `defect_type` and its defects
together, and reset together, so one variable stands for the three; `Matches` keeps the
consequence that such defects are not compared.

### WaivingRequests

`req[u]` is the request of a slot: its operation, the next statement and the copies it
holds. `Deactivate`, `Insert`, `ReadScan`, `Apply`, `Finalize`, `FinishPost` are
`waiver_post`; `Delete`, `IsWaived`, `Reopen`, `Dispute` are `remove_waiver`; `Format`,
`Send`, `SaveBug`, `Mark` are `create_bug` and `update_bug` of the two trackers, `Send`
being the call of the tracker; `LinkChild` is the moment a submission disables the newest
scan. `Die` ends the process between any two statements. `SaveScan` and `SaveWaivers`
write whole copies back. `disturbed` and `contended` record that requests, or reports,
overlapped.

### ResultFiles

A file is absent, a part or whole; a run of the processing (`process_scan`, `finish_task`)
goes through `Unpack`, `Extract`, `Extracted`, `IsDiffed`, then `Open`, `Write`, `Title`,
`Entitle` for each diff, and `Load` (`LoadAdded` when only the added defects were read).
`Faults` are an upload without results, a full disk, csdiff failing half-way, a killed
process, overlapping runs, and retention removing the base (`RemoveBase`) or the task
(`RemoveTask`). The criteria of `osh-retention` (age, owner, failure) are a free choice
of the moment.

### AnalyzerCache

`known` is `AnalyzerVersion`; a row also carries who inserted it, since nothing makes
name and version unique. `analyzers` is `MockConfig.analyzers`, `checked` the mock configs
whose time in `ANALYZERS_VERSIONS_LAST_CHECKED` is recent, `base` the analyzers of the
newest result of the base build. A job goes through `ensure_cache`, the retriever,
`ensure_base`, perhaps its base, and the target; what the hub does meanwhile is `step`,
and `tx` the transaction that is open. `set_analyzers` and `CommitCreated` are the
transaction of `Result.set_analyzers`; `Clear`, `Look`, `Commit` that of
`update_analyzers_versions`: its DELETE waits for a transaction that deletes the same rows
and does not see what that one inserted, its SELECTs see committed rows. `Match` is
`analyzers_match`, with its FIXME: sets of one size match when the names they share
have one version. `Upgrade` installs a newer version in the build roots, `Expire` is
the clock.

Abstractions. All targets have one base build and one profile. Of two results of that
base that are loaded at once, the one bound last is taken for the newest, where the hub
takes the one created last; each has its own mark in `stale`, so no property depends on it.
`'auto'` mock configs skip the cache and are not in the module.

### SingleUseWorkers

`state`, `on` and `method` are kobo's task; `row` the table of workers, `vm` the machines,
`leaving` the names that `--check-finished` let go. `open_task` is `Open`, then
`LastToOpen`, `Full` or a save of the copy (`SaveWorker`); the notifications are `Finish`,
`ReadWorker`, `Disabled`, `SaveWorker`; `CreateWorker`, `StartWorker`, `check_finished`
and `delete_worker` are the script. Kobo's assignment is modelled from what the comments
of `open_task` say of it.

### ClientSubmission

What a process still has to do is a sequence of steps, `todo`; an exception ends it where
it is. `Accept` validates the options and creates the task, `Move`, `PutConfigs`, `Free`
are the rest of `spawn`, `Find` and `Delete` the XML-RPC call `move_upload`, `SpawnBase`,
`Wait`, `Fetch`, `FetchConfig`, `Analyze` are `Build.run`. `place` says where an upload
is, `record` whether its row exists. Its specification is `ClientSpec`, so that a module can
extend it together with `ResultFiles`, whose is `Spec`.

### Announcements

A call of the hub reads the row (`Read`), saves it (`Save`), starts the threads that send
(`Tell`) and, in some handlers, saves once more (`SaveAgain`). The submission, the worker
processes of target and base and users do so at once. `fate` follows the messages of one
state, any of them; a mail is its kind, state and recipients.

### Statistics

`ScanCount`, `Defects`, `Submitted`, `Missing`, `Decided`, `Difference` and the others are
the functions of `stattypes.py` on a table of scans, each with its result, one group and
one waiver; `Catalogue` lists them, `Value` evaluates one. `Measure` computes the values
of a statistic, `create_stat_result` stores one of them if it differs from the last,
`Abort` is a run cut short, and `display_value` is what a page shows.

## 3. What is checked

| Run | Bounds | Distinct states | Shows |
|---|---|---|---|
| `lifecycle_any` | 3 scans, 2 results, one update submitted again and again, all faults | 1.4 M | what holds whatever goes wrong: the superseded scans form a chain (`ChainInv`), dead scans do not count (`DeadIsDisabled`), verdicts rest on bases that have results (`VerdictHasBase`) |
| `lifecycle_streams` | 4 scans, 4 results, two releases that share builds; crashes | 2.2 M | each release implements `CurrentScan` (`StreamsAreCurrent`); one scan counts (`OneEnabled`) and is only disabled because of a newer one (`DisabledIsNotNewest`); canceled and failed scans stay so (`CanceledIsFinal`, `FailedIsFinal`); canceling in one release cannot cancel a base under the other (`SharedBaseIsDone`) |
| `lifecycle_settles` | 3 scans; crashes, late deaths, failing processing; fair workers | 0.18 M | every scan ends for good (`ScanSettles`) |
| `scan_requests` | 3 scans, 2 submissions at a time, 4 kinds of overlap | 2.9 M | what each overlap can break and no other does: one scan in progress (`OneInProgress`), a task for it (`InProgressHasTask`), a process for an open task (`OpenHasProcess`); alone, a request is one step of `CurrentScan` (`RequestsAreCurrent`) |
| `waiving` | 3 results, 3 waivers, 2 groups, 2 kinds of waivers | 6.8 M | scan state and groups agree (`VerdictMatchesGroups`), nothing passes unreviewed (`EverReviewed`, `UninspectedStaysVisible`), open groups have no waiver in force (`OpenHasNoWaiver`) |
| `waiving_requests` | 1 result, 2 groups, 2 waivers, 2 bugs, 2 requests at a time that may die | 3.7 M | a request alone is one step of `Waiving` (`RequestsAreWaiving`); overlapping ones still inherit nothing unreviewed (`EverReviewed`); the newest scan counts (`NewestCounts`); a waiver is reported once (`ReportedOnce`) and its link leads to a bug that lists it (`BugListsWaiver`) |
| `result_files` | 2 processes, 4 runs, all faults, both methods | 35 k | `DoneHasDiffs`, `VerdictStands`, `RetryWorks` |
| `analyzer_cache` | 2 jobs, 2 mock configs, a strict and a loose analyzer, 1 upgrade | 2.1 M | results can be loaded (`LoadsWork`), targets and bases have the same versions (`DiffedAlike`), a fresh base is not scanned again (`NoNeedlessRescan`), a refresh is not forgotten (`StampsStay`) |
| `workers` | 2 tasks with bases, 2 names, 1 machine at a time, 1 cancellation; fair | 0.18 M | `OneTaskEach`, `LeavingIsIdle`, `TasksEnd`, `WorkersRetire` |
| `client_submission` | 2 requests, 2 uploads, all choices that interact; fair | 0.41 M | which requests lose their files (`LostIsExplained`); all others end (`AcceptedEnds`) |
| `announcements` | both buses, 2 requests of users, messages of FAILED followed | 7.9 M | `OwnerIsTold`, `StatesAreTold` |
| `statistics` | 2 scans, 2 changes, 3 runs, 2 releases | 0.71 M | `ShownIsCurrent`, `PartsMakeTotal` |

**Why the bounds are enough.** Three scans are a target, its base and the submission that
supersedes it, and also the shared base between two targets; four let a superseded
verdict, a scan in progress that supersedes it and both bases exist, so that failing the
last one walks down a chain of two. More results than scans only occur when an admin
finishes a scan twice. One verdict is enough, since no handler of that module tells
verdicts apart. In `scan_requests` two submissions overlap while a scan finishes, and a
third row is what they supersede; four kinds of overlap are those two with a cancellation
and a worker's call. In `waiving`, three results are an old decision, a scan that differs
from it and one that repeats it; three waivers are a waiver, a comment and a second
waiver, after which the first is still in force; two groups are what one waiver does not
finish. `FIX_LATER` is left out because only bug reporting tells it from `NOT_A_BUG`. The
interleaved version has two of each, enough for each statement of one request to fall
between any two of another. Four runs of `result_files` are a failed one, its retry, one
that is repeated after the verdict, and one that overlaps. In `analyzer_cache` two
jobs share a mock config or do not, and one upgrade separates old from new versions; a
second analyzer whose version is not compared is what `analyzers_match` treats apart. In
`workers` the limit of one machine makes the second task wait for the first machine to
be deleted. In `statistics` a value changes and comes back within two changes. What
matters most is also proved without bounds (section 4).

`SYMMETRY` is used only for safety, over slots, jobs and mock configs that no definition
tells apart.

`CHECK_DEADLOCK FALSE` stands where an instance really stops: when the rows, runs,
requests or files it has are used up and everything has ended. `waiving`,
`waiving_requests` and `analyzer_cache` never stop, and check it.

**What the conditions in the properties mean.** Several properties hold *unless* an
overlap or fault happened that history variables record. Each such condition is needed:
without it TLC shows the code breaking the property, and section 5 tells the stories. A
property with its condition says that nothing else breaks it.

**Fairness.**

- `ScanLifecycle`, `FairSpec`: weak fairness for the steps of each worker process, jointly
  per scan. Workers poll for free tasks forever, and a process goes on calling until its
  task ends or is killed. Nobody has to submit, cancel, crash or press a button. A
  process at the bound on `Scan` rows can still reuse a base or fail the cache refresh,
  which ends its task as well, and there are as many results as scans.
- `SingleUseWorkers`: weak fairness of task processes and of the script, which does
  one round per call and is meant to be called again and again. Strong fairness of
  `StartWorker(w, TRUE)`: a machine that is tried again and again starts in the end.
  Strong fairness of `Take` per task: the queue is served in order, so a task is not
  passed over for ever by workers that have room.
- `ClientSubmission`: weak fairness of the handler on the hub, unless it is killed, and of
  the processes of workers.

## 4. What is proved

The `*Proofs` modules are checked by `tlapm` to the last leaf. The assumptions are those
of the modules: bounds are naturals, sets of slots or tasks are finite, `None` and the
like are none of the other values. Each module proves `Inductive`, that its `IInv` is
invariant, with one lemma or step per action, and takes the rest from it. In the two modules
about a pair, the second invariant is that of `TablesAreSound` (`WaivingRequests`) and of
`ClientInductive` (`ClientSubmission`). Every safety property of the runs and all three
refinements are theorems, those of the streams under the hypotheses given below.

**ScanLifecycle**, for any number of scans, streams, builds, and **any set of faults**:
`TypeOK`, `ChainInv`, `DeadIsDisabled`, `VerdictHasResult` (a finished scan has a Result
with a date of its own), `VerdictHasBase`, `SharedBaseIsDone`. None of them is inductive
alone. `IInv` adds

- `RowInv`: ids are handed out in order; a base's target is a target. Without it a new row
  could meet a parent or a task that is there already.
- `ProcessInv`: what a process has done when it is at a given call: it uploads before it
  finishes, and the base it is about to spawn is its own and unbound.
- `ResultInv`: results are dated apart and come from uploads; a scan in progress has none.
  This is what keeps a shared base, which has a result, out of progress.
- `BaseInv`: a base is the one prepared for the scan or has a result; verdicts have
  results and bases.

Four facts are stated once and used by many actions: `DiesIInv` (any step in
which scans only die and only scans with a verdict are switched on keeps `IInv`), with
`FailScanDies` and `CancelDies` (failing and canceling are such steps), `NewRowIInv` and
`FinishScanIInv`.

Streams are proved about **with process deaths as the only fault** (`OnlyCrashes`, that is
`Faults \subseteq {"crash"}`: a worker may die, with its task OPEN, at any call):
`OneEnabled`, `DisabledIsNotNewest`, `CanceledIsFinal`, `FailedIsFinal`, and the refinement
`StreamsAreCurrent`. The hypothesis is needed: section 5 has a story for each other fault.
Four invariants are added to `IInv`: `CrashInv` (how far the process, the task and the base
of a scan are says which states it can be in, so a late call finds no dead scan),
`NewestInv` (the scan in progress is the newest of its package, and of two verdicts the
later scan has the later one), `LinkInv` (only a scan with a verdict has a parent; if its
parent has none, it is the last with a verdict, and no scan other than this parent is in
progress; a scan in progress is the parent of the last with a verdict) and `CurrentInv`
(enabled is the scan in progress, or, when there is none, the last with a verdict). For the
refinement each action is shown to be one of four things a stream can see: nothing
(`Quiet`), a verdict (`Finishes`), a death (`Abandons`) or a submission (`Takes`); four
lemmas map these to the actions of `CurrentScan`.

**ScanRequests**, for any number of scans and of submissions at a time: `OneInProgress`,
`InProgressHasTask`, `OpenHasProcess`. `IInv` adds `ProcessInv` (what a worker has called),
`LinkInv` (the copy a submission holds of the last verdict is of a scan that is not in
progress and will not be), `NewestInv` (without two submissions at once only the newest
row is in progress), `TaskInv` and `OpenInv`. The last three are implications from
"no such overlap yet", and hold because an overlap is recorded by the statement that
makes it, before it can do harm.

The refinement `RequestsAreCurrent` is proved in the same way, from `StreamInv`, which
holds until the first overlap of any kind: `ResultInv` (results are dated apart),
`ParentInv` (only a scan with a verdict has a parent, so the walk of
`enable_last_successfull` from a scan without one ends after at most one step, and no
induction along the chain is needed: `WalkOne` unfolds the recursive function twice),
`HeldInv` (the copies that `finish_scan` holds are equal to the tables), `CountInv` (between
submissions the scan in progress counts, or else the last verdict, and the former is the
parent of the latter) and `SubmitInv` (how far the only submission is, and what it has read).
Each statement is then shown to be a stutter, a death (`Abandons`), a verdict (`Finished`)
or a submission (`Submits`), the four things `CurrentScan` can do.

**Waiving**, for any number of results and waivers, any groups, and anything scans may
find: the properties of the run `waiving`, `TypeOK`, and `DisputedHasReason` (a disputed
scan has one open group, one of whose waivers was removed). `IInv` adds `WaiverInv`
(rows in use name a group that exists, comments are never in force) and `ResultInv` (rows
not in use are empty). The parts lean on each other: a removal makes a scan DISPUTED
with one open group because `VerdictMatchesGroups` says a WAIVED scan has none; a new
group inherits only what was reviewed because a waiver in force is no comment and its
group was reviewed; and `UninspectedStaysVisible` holds because the waiver that
`get_last_waiver` returns is not on a group that waits (`OpenHasNoWaiver`) and every
newer result was looked at (`ProcessedByWaiver`).

**WaivingRequests**, for any number of requests, killed between any two statements:
`BugListsWaiver`, `EverReviewed`, `NewestCounts`, `ReportedOnce`, and that a request that is
alone implements one action of `Waiving` (`RequestsAreWaiving`).

- `TableInv` holds under every overlap: types, ids left for the rows of posts in flight
  (`RoomInv`), and the copies in handlers agree with their rows in the columns that no
  handler changes (`CopyInv`). `SentInv` is about a bug that was filed and is not linked yet;
  with it `BugListsWaiver` survives every `save()` of an old copy.
- `Grow` is the shape of every step: rows are added or saved, none changes what it is
  of. `ReviewInv` follows `EverReviewed` through a post: what it is about to write was true
  when it read the group, and stays true under any number of such steps.
- `NewestCounts` and `ReportedOnce` are true until the overlap they name. `OneBusy` says
  which request runs; `OnceInv` says that a waiver a report has read stays dead,
  linked or about to be linked, though posts and removals save copies read before.
- For the refinement `AloneInv` states the tables in terms of those the request began
  with, statement by statement. The last statement is then the action of `Waiving`
  applied to the tables at the start, and all others stutter.

**ResultFiles**, for any number of processes and runs and any set of faults: `TypeOK`,
`RetryWorks`, `DoneHasDiffs`, `VerdictStands`. `IInv` says how far the files are at each
operation of a process that is alone (`DiffInv`), that nothing incomplete is left when
nothing worse than an incomplete upload or a removed directory happened (`CleanInv`), that
a client's task is worked on once (`VersionInv`), and that a verdict keeps the files it
rests on (`DoneInv`).

**SingleUseWorkers**, for any workers, finite set of tasks and limits: `TypeOK`,
`LeavingIsIdle` and `OneTaskEach`. `LeavingInv` adds to the latter that a machine that is
let go is full or disabled; a late save of its row can clear one of the two, never both, and
so nothing is assigned to it until it is deleted. `OneTaskEach` needs five more: `EarlyInv`
(a task that is not assigned is in no call and has no base), `MachineInv` (a machine that
serves or runs something is up and has a row), `ServedInv` (a machine that served a task is
the one its main task was given to), `HeldInv` (when the row of a machine bears no mark of a
task it served, the task is canceled, or it or its base there has yet to save the mark) and
`AloneInv` (no machine has two tasks, assigned or served, unless one it served was
canceled).

**AnalyzerCache**, for any number of jobs, mock configs and analyzers: `DiffedAlike`,
`LoadsWork`, `StampsStay`, `NoNeedlessRescan`. `FreshInv` says that a report, and the cache
of a mock, that is not marked stale tells the installed versions; it needs neither exclusion
nor order of the transactions, since a commit only adds rows of a report to the cache. With
`MatchedAlike` a base that matches such a cache has those versions. `UniqueInv` and
`StampInv` hold until the overlap that their properties name. `NoNeedlessRescan` compares
two sets by their sizes, as `analyzers_match` does: `KnownInv` (whatever a transaction or a
table refers to is in the table of versions or its own new row), `UpdateInv` (a refresh that
is the only one of its mock deletes all that is there) and `ExactInv` (what is not stale has
no version but the installed ones) say that both hold exactly the rows of the installed
versions, each there once, so they are equal and no counting is needed.

**Announcements**, for any buses, prefixes, kinds of owners and requests of users:
`StatesAreTold` and `OwnerIsTold`. `ToldInv` says that the watched state is in no row, and in
no copy that could be saved over one, before it is told or the next statement tells it;
so a stale copy can only bring back a state that was told. `PlaceInv` says that only the worker's
processes write the states that are mailed, that none of them is in a call when it is
through, and that a base runs only while its target waits or was killed. After the mail of
`MailInv` nobody is left who could write such a state.

**ClientSubmission**, for any requests, files and options: `LostIsExplained`: no task
stays in CREATED and no job fails for want of a file, but for what `Explained` lists. A process is a sequence of steps that
depends on the options, so `ClientInv` must say which steps are left. `HubAt`, `BaseAt` and
`MainSteps` list, by name of a *point* of the program, what `todo` is there; three lemmas
(`SpawnStepsAre`, `BaseRunIs`, `MainRunIs`) derive once from the definitions of the
module that the programs run through these points in this order. `ClientInv` adds

- `FilesInv`: a file that no accepted request names is where it was uploaded, with its row.
  It gives a new request what it named, unless it shares it with one before it.
- `TaskInv`: the hub, the target and the base come one after the other.
- `HubInv` and `BaseInv`: the process is at some point, and each file of the request is where
  this point expects it: uploaded, or in the directory of the target or of the base. This
  leaves out just the requests that `Explained` names: those that share a file, whose handler
  died or gave an upload no path, and, for the base, those with a custom model.
- `MainInv`: the target spawns its base first, and once.
- That a loss is `Explained`. Explanations stay (`ExplainedStays`): names are not withdrawn.

Each step touches only files its request names, so the points of the others stay
(`OthersStay`) and it is `Enough` to follow the request that acts.

**Statistics**, for any finite sets of scans, releases, packages and keys:
`ShownIsCurrent` and `PartsMakeTotal`. For the first, `ValueInv` says that what a run of
`osh-stats` has computed from the tables as they are is what the statistic should be,
stored or not; the last stored value of a release is then right whether it was added or
was equal already. `RowInv` says what the rows relate: a scan is of a release, and only
targets have defects, groups and waivers. The second property needs it, as it compares
counts over kinds and releases with counts over all.
`PartsMakeTotal` is about sums over finite sets. The induction theorem for these takes
an operator as parameter, so each fact about sums (`SumTake`, `SumUnion`, `SumOfParts`) is
proved by looking at a least subset of which it fails (`LeastSubset`), and `AllDetermined`
shows first that the fold of the community modules has the value of its recursion.
A function of the querysets that is `Additive` over disjoint unions is then the sum over
its parts (`SumOfParts`), whether the parts are the releases or the kinds of decision.

**Only model-checked.** `ScanSettles`, `TasksEnd`, `WorkersRetire` and `AcceptedEnds`: they
are liveness under fairness, which is out of this prover's reach, as is `ENABLED`. The
induction theorems of the library take operators as parameters, which the provers cannot
instantiate; where a definition is recursive, it is unfolded as often as the invariant
says is needed, or handled by a least counterexample as above. The streams are proved
for crashes only, and the refinements of `ScanRequests` and `WaivingRequests` up to the
first overlap, because they fail beyond.

## 5. Where code and words disagree, and what the conditions hide

No run expects a violation; these are what the models show when a condition or a
fault is added, or what reading the code for them showed.

Scans:

- When the results of a base cannot be processed, `fail_scan` fails and disables the
  target (`hub/scan/xmlrpc_helper.py:78`), yet the base's task is CLOSED; the target goes
  on, gets a verdict and stays disabled, and its page says "This is not the newest scan."
  of the newest. (`DisabledIsNotNewest` with `"processing"` among the faults.)
- `SCANNING` is commented "scan/task is active now", but a late `set_scan_to_scanning`
  (`hub/osh_xmlrpc/worker.py:236`) puts a canceled scan back in progress with no task.
- `get_scan_state` answers `BUG_CONFIRMED`, which its docstring
  (`hub/osh_xmlrpc/errata.py:84`) does not list.
- Two submissions that overlap leave two scans of a package in progress; the chain of
  parents can then link a scan to itself or form a cycle, and the walk of
  `enable_last_successfull` does not end.
- `set_state_queued` is called on the copy of the submission: SCANNING, and even a
  cancellation, can be overwritten. `ETMapping.latest_run` is set after `free_task`, so a
  fast worker's notice raises `ETMapping.DoesNotExist` after the state was saved.

Waiving:

- `WAIVED` is commented "user appropriately waived each defect" (`hub/scan/models.py:31`),
  but `remove_waiver` opens a group again only if its scan is WAIVED at that moment
  (`hub/waiving/views.py:524`): a waiver that is removed while other groups are open
  leaves its group waived, and the scan becomes WAIVED with it.
- Requests that overlap can leave a scan NEEDS_INSPECTION with no open group.
- `DISPUTED` is never mailed by the code that sets it, though `hub/scan/notify.py:278`
  has a case for it; a comment to an owner without an address raises after it was saved.

Files and versions:

- Two overlapping `finish_scan` of one task can leave half a diff that counts as one, and
  a half extraction is never repeated.
- Rows of `AnalyzerVersion` can be doubled, since `get_or_create` has no unique constraint
  behind it; every later load that reports this version raises.
- Refreshes of a mock config that overlap leave the versions of both in it, and sets of
  equal size that differ match (the FIXME in `analyzers_match`); a result that is loaded
  late puts older versions back and marks them as checked.

Workers and clients:

- A base of an `ErrataDiffBuild` on a single-use worker never starts, since `open_task`
  has set `max_load` to 0; `VersionDiffBuild` is excepted there.
- A worker's row that `delete_worker` removed is saved again by a late notification: the
  row comes back, disabled, and the next machine of that name gets no tasks.
- A version-diff build with a custom model always fails its base, since the model is only
  in the directory of the target. A build given together with an upload raises
  `TypeError` in `spawn`, and the task stays CREATED.
- A base with `'auto'` and an upload raises `AttributeError` in place of the intended
  `RuntimeError` (`hub/scan/scanner.py:633`); a container base without a mock config
  inherits `'auto'`, for which no config can be made.
- `RuntimeError('... %s is disabled', model)` is never formatted
  (`hub/scan/models.py:1094`).

Statistics and queries: "Waivers submitted (including invalidated)" leaves the invalidated
ones out; `get_filtered_scan_list` refuses the state numbered 0 and uses `e.message`;
`find_tasks` orders by id though it says by date.

## 6. Not modelled

- **Pages, forms, XML-RPC queries, the command-line client, csmock's command lines**: they
  keep no state and change none beyond the calls that the modules have.
- **Two `osh-stats` at once**: the timer starts one at a time.
- **The order of bus messages**: each has a thread of its own and nothing in the code
  orders them, so no property could hold; `StatesAreTold` is about the last state only.
- **Profiles and `'auto'` in `AnalyzerCache`**: a refresh under another profile changes which
  analyzers a mock config has, not how transactions overlap.
- **Tags, priorities, permissions, the parsing of csmock's output**: they only add reasons to
  refuse, or data that no property tells apart.

What could come next: streams under the faults other than crashes, each with the property
it leaves true in place of the one it breaks.
