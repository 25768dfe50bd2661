# restic-scheduler in TLA+

restic-scheduler is a daemon that reads jobs from HCL files, runs them on cron
schedules with restic, and reports their results over HTTP and as Prometheus
metrics. These modules specify what the daemon does with its jobs, its signals
and its repositories; TLC checks them on small instances, and TLAPS proves their
safety properties for every value of the constants.

## Contents

1. The system
2. The modules and the code
3. Runs: what is checked, with which bounds
4. Fairness
5. Proofs
6. Where code and documentation differ
7. What is not modelled, and what is only checked
8. Plan

## 1. The system

| Component | State | Operations | Interacts with |
|---|---|---|---|
| Scheduler (scheduler.go) | `cron`, `jobs`, `jobNames`, `started` under `mu` | `Start`, `ReplaceJobs`, `StopNow`, `StopGraceful`, `ActiveJobNames` | robfig/cron, which runs each due entry in a goroutine of its own; main; the HTTP handlers |
| Daemon (main.go) | where main is, the jobs last read, `sigCh` | start-up, SIGHUP, SIGINT, SIGTERM/SIGQUIT | Scheduler, ReadJobs, RefreshMetrics, the operating system |
| Job run (job.go, restic.go) | locals of `Run`; repositories; dump files; env maps; `jobResults`; gauges | `Run`, `RunBackup`, `EnsureInit`, `RefreshMetrics`, `JobComplete` | restic and shell commands; other runs, through everything they share |
| Task plan (job.go, tasks.go) | none | `AllTasks`, `BackupPaths`, `GetPreTasks`, `GetPostTasks`, `Validate` | decides what a run does and saves |
| Recovery (job.go, tasks.go) | databases, dump files, snapshots | `RunBackup`, `RunRestore` | restic, database clients |
| Config (config.go, main.go) | the jobs read so far | `ParseConfig`, `Config.Validate`, `ReadJobs` | the files, which somebody edits |
| Batch mode (main.go) | the flags, the jobs still to do, the names not found | `-backup`, `-restore`, `-unlock`, `-once`, `-push-gateway` | job runs, Output capture, Scheduler |
| Output capture (shell.go, restic.go) | captured lines of a command | `Write`, `RunRestic`'s search for restic's message | restic's writes to its pipes |
| HTTP (scheduler.go) | none of its own | `/health`, `/active`, `/metrics` | reads `jobResults`, `jobNames`, gauges |
| Arguments (restic.go, tasks.go, utils.go), registry (metrics.go), loggers (shell.go), flags | none that matters | building strings, registering, printing | |

What is hard:

* **Reload.** `ReplaceJobs` stops one cron instance, waits for its runs, and
  starts another, while entries fire and runs end. If the new jobs are refused
  the old ones are started again, and that can fail too. Correct: never two
  generations at once, a return value that is true, a drain that ends.
* **Signals.** They arrive before main listens, during a reload, and while
  another one waits in a channel of capacity one. Correct: no edit followed by
  a SIGHUP is missed; SIGTERM and SIGQUIT cut no run short.
* **Overlapping runs.** cron does not wait for the previous run of an entry, and
  jobs share repositories, dump files and restic's locks. Correct: a snapshot
  holds its own run's dump of every file that no run beside it dumps to, nothing
  is pruned without a new backup, runs fail only for a cause, every run reports,
  and gauges and `/health` agree.
* **Failure half-way.** Any command may fail, and psql hides that it did. Correct:
  no step of the plan after a failed one; a restore that reports success has put
  back what the snapshot had, whatever lay on the machine.
* **A shared repository.** The latest snapshot may be another job's. Correct: what
  an own snapshot holds and what its restore brings back do not depend on that.
* **Scripts around a backup.** A pre script may fail, and a failed step skips the
  post scripts. Correct: files are saved or put back only when the scripts before
  have run, and the next success runs the scripts after that a failure skipped.
* **Output in pieces.** The pipe cuts a command's output anywhere, each piece is
  split into lines by itself, and restic says the same of a repository that is
  missing and of one it cannot open. Correct: `init` is tried only when restic has
  said so, and counts do not depend on the cuts.
* **Jobs of the command line.** Names may be unknown, repeated or shared by jobs,
  and any job may fail. Correct: what is run is what was asked for, in order,
  and main ends with an error only for a cause.
* **Files edited while they are read.** Correct: all of the files or an error,
  and only jobs that can run.

The hazards in `PROJECT.json` give each of these with its line.

## 2. The modules and the code

```
GracefulSchedule            what a graceful replacement promises
   ^ refined by
Scheduler <- SchedulerProofs    scheduler.go, cron, the owner of the scheduler
   ^ extended by
Service   <- ServiceProofs      main.go: main is that owner

TaskPlan                        job.go, tasks.go: steps, paths, validation
   ^ extended by
Recovery  <- RecoveryProofs     job.go, tasks.go: RunBackup, RunRestore
Config    <- ConfigProofs       config.go, main.go: ParseConfig, ReadJobs

JobRun    <- JobRunProofs, JobRunWorldProofs
                                job.go, restic.go: concurrent runs

Capture                         shell.go, restic.go: what is kept of an output
   ^ extended by
Batch     <- BatchProofs        main.go: the jobs of the command line

DataProofs                      lemmas on sequences, folds and induction, for
                                RecoveryProofs, ConfigProofs and BatchProofs
```

`MC*.tla` give the constants of each module their values.

**Scheduler.** The variables `cron`, `jobs`, `jobNames`, `started` are the fields
of the struct. `running`, `entries`, `inflight` are what robfig/cron keeps: which
instances' loops run, their entries, and how many runs of an entry are in
flight. `pc`, `op`, `c`, `newJobs`, `prevJobs`, `ret` are the owner: where it is in
`ReplaceJobs`, `StopNow` or `StopGraceful`, their locals and return value. Each
critical section of `mu` is a step; so are the stop of the cron instance and
the wait for its context, which happen outside the lock. `Fragile` are the jobs
for which `AddJob` may return an error although `Validate` accepted them (both
parse the schedule, but at different times, and a time zone is loaded from
files). `ActiveJobNames` is what `/active` answers in any state.

**GracefulSchedule.** Three variables: the active jobs, the busy jobs, and whether
the schedule is closed. A set is installed only when nothing is active or busy.

**Service.** Extends Scheduler with `phase` (where main is), `loaded` (the jobs
last read), `sigCh`, and the world: `disk`, signals and edits. `asked` and
`cause` are history variables. main's calls of the scheduler are Scheduler's own
actions, taken where main makes them. The metrics refresh is a phase, so that
signals, edits and cron interleave with it.

**JobRun.** One run is a sequence of commands (`snapshots`, `init`, the steps of
the plan, `forget`, `snapshots --json`), each with two stages: `env`, in which its
environment is built, and `exec`, at whose end it has its effect or fails. The
`env` stage is kept apart only where it can be observed: when the config's env
map is shared and written (`SharedEnv`), and for the steps of the plan, where a
dump truncates its file. What `snapshots --json` listed (`listing`) is put into the
gauge by a step of its own (`SetCount`), so that other runs come between. `beside`
records which runs were in flight together, `faults` which commands failed by
themselves, `streak` the failures of a name since its last success. `Health` is the
status `/health?job=NAME` answers with.

Of restic, JobRun has what runs can do to each other: `forget` wants the repository
for itself and no command waits for a lock (`LockedOut`), so a backup, a forget or
the listing at the end fails beside another run's forget. (A first listing that
does is like any other whose error is ignored.) The first listing of a run has two
faults: `open`, where restic cannot open a repository that is there, prints the
message of a missing one, and `init` follows; and `ensure`, any other, or a missing
repository that goes unrecognised, after which `init` is skipped. What is printed
and recognised when is in Capture and Batch.

**TaskPlan.** Operators only. A step is a record of what it does on a backup and on
a restore; a database block keeps its dump file and what its two commands do. A
script is the set of occasions it has a command for. Of `backup_opts` a job has the
files they keep out of a snapshot (`excludes`), of `restore_opts` the files that their
target, includes and excludes put back to where they came from (`restores`).

**Recovery.** One job over a row of database versions. `from` and `span` record
which versions a backup can have seen. `mode` is `"saved"` after a backup and
`"restored"` after a restore that returned no error. `down` are the tasks of which a
script before has run and no script after has since; a script that fails may have
done its work or not. The repository may be shared: `OtherBackup` adds a snapshot of
another job at any time, with its own content (`Foreign`) under the names
`SavedByOther` allows, and `foreign` records which those are. A restore is of any
snapshot, `target`, also of one there is not (0); its loop is entered unless restic
says there is no repository, and its files step then fails. It puts back the files
of `restores`, or fails with some of them put back. A load that stops half-way fails,
but psql's (`Psql`) may report success.

**Config.** Files are read one per step; an edit may come between two.

**Capture.** Operators on texts. A text is a sequence of tokens (the set `Token`), a
token being what no piece cuts in two: the message that is taken for a missing
repository is two of them, a snapshot in a listing two as well, and a line break one. `Write` is
`CapturedLogWriter.Write`, `NoConfig` what restic prints when it cannot open the config
of a repository, missing or not, `RepoMissing` the search in `RunRestic`, `SnapshotsIn` the
parsing in `ReadSnapshots`. Lines are joined with line breaks for the first and
with nothing for the second: a cut hides the message, and does not harm the
listing.

**Batch.** main from the jobs it has read to its signal loop. `stage` is the list
it is at (`unlock`, `backup`, `restore`), the push, the start of the scheduler, the
refresh, or serving; `todo` and `missing` are what `FilterJobs` returned, less the
jobs done; `cmd` is the command of the first job of `todo`. Listings of snapshots
are taken apart: `Spawn` starts one with its output in `pipe`, `Deliver` moves a
piece of any length to `lines`, and the command returns when the pipe is empty. A
listing of a repository that is there may fail with the message of a missing one
(the fault `open`) or with another (`snapshots`).
`done`, `listed`, `cut` and `faults` are history. In Service all this is one step with
three outcomes.

## 3. Runs

| Run | Shows | Bounds, and why they suffice |
|---|---|---|
| `scheduler` | one generation, honest results, graceful stop, drain ends, refinement | 3 cron instances: a start, a replacement, and another one after a fallback; 2 runs in flight per entry, so that a job overlaps with itself; lists that share jobs, change a job and reorder |
| `service` | reload converges, stop honoured, only SIGINT cuts short, loop schedules | 3 signals: one handled, one waiting, one dropped; 2 edits; 4 instances, one more than signals can use, so that the bound refuses no reload |
| `jobrun` | snapshots, pruning, causes of failure, counts | 2 runs and a refresh, 2 jobs that share a repository; one dumps 2 files and the other one of them, so that beside each other a file is shared and a file is not; one job forgets; 1 fault, of any command; the two runs are symmetric |
| `jobrun_live` | every run reports, failures are counted | 2 runs and 2 faults, one job with an env map that is shared; no symmetry, since the property is temporal |
| `recovery` | restores bring back, snapshots current, files touched only between the scripts, and those after run before success | 2 databases, 2 versions, 2 snapshots (latest and older, own or another job's), four shapes of job, with scripts for both occasions, for one, for none, in one task or two, with files that `backup_opts` leave out or `restore_opts` do not put back, with mysql, postgres and sqlite blocks, and three jobs that are refused |
| `config` | runnable jobs, complete readings | 2 files, 6 contents, 2 edits, readings without limit |
| `batch` | order of the jobs, causes of an error exit, when `init` is tried, counts reported, main gets to an end | 3 jobs, two of one name, two of one repository; 7 command lines with `all`, repeated, reordered and unknown names; up to 2 snapshots; 2 faults, one for a listing and one for what follows; output cut anywhere |
| `reload_order`, `active_after_failure`, `overlap_failure_count`, `nested_databases`, `default_config` | violations: see section 6 | as above; the overlaps need 2 runs only |

Deadlock is not checked: the daemon ends, the command line ends, bounded runs are
used up, and a recovery that has made its backups may have nothing left to do.

`MaxCrons`, `MaxRuns`, `MaxSignals`, `MaxEdits`, `MaxFaults`, `MaxVersion`,
`MaxBackups` and `MaxSnapshots` are bounds of the models and stand for nothing in the
code. The theorems hold for every value of them; `MaxVersion` alone must be positive,
since databases start at version 1, and 0 is one that is lost or garbage.

## 4. Fairness

* Scheduler: weak fairness of the owner's steps (Go schedules a goroutine that
  can run) and of each run's return.
* Service: weak fairness of main and of each run's return. Cron need not fire,
  signals need not come, files need not change.
* JobRun: weak fairness of each run that has begun. Runs need not begin, and
  the crash need not happen.

* Batch: weak fairness of the next step, since main is alone with its command.
  `CommandLineEnds` follows because every step is one of finitely many jobs.

That runs and their commands return is an assumption: the code sets no timeout.
With a command that hangs, a reload and a graceful stop wait for ever and no
further signal is handled.

## 5. Proofs

`SchedulerProofs` proves, for any jobs, lists and bounds that satisfy
`SchedulerAssumption`:

* `Invariance`: the inductive invariant `IInv`. The invariants the runs check are
  not inductive: that one generation runs depends on where the owner is. `IInv`
  adds `OneLive` (which instance fires, read off `pc`), `Drained` (only the
  instance being waited for, or one given up by StopNow, has runs without
  firing), `InCall` (which calls each `pc` belongs to), `Room` (the instance a
  replacement will make is within the bound), `StructAgrees` (the struct
  describes the instance that fires, also when that has just been taken out of
  it), `KeepsPrevious` (while nothing is scheduled, the struct has the jobs that a
  replacement falls back to) and `RunsListed` (every run in flight is of a job of
  the struct).
* From it `TypeCorrect`, `OneGenerationHolds`, `GracefulStopDrainsHolds`,
  `RestAgreesHolds`, `ActiveCoversRunsHolds`, `QuietWhileStoppedHolds`; `ReplaceOutcomeHolds` with an
  induction of its own.
* `KeepsPromiseHolds`: every step of Scheduler is a step of GracefulSchedule or a
  stutter. `OneConfigurationHolds` carries the abstract invariant back.
* Lemmas `StartEffect` and `StartInv` say once what a successful `Start` does,
  whoever called it.

`ServiceProofs` proves, under `ServiceAssumption` too:

* `ServiceInvariance`: `SInv`, which ties `phase` to the owner's `pc`
  (`MainAndOwner`), says main has read jobs before it passes any (`HasLoaded`)
  and what is scheduled when main is in its loop (`Scheduled`).
* `ServiceIsOwner`: every step of the daemon is a step of Scheduler or leaves it
  alone. Scheduler's assumption that calls are made one at a time by a single
  owner is thereby discharged for main, and its theorems hold in the daemon
  (`ServiceKeepsPromise`).
* `ServiceTypeCorrect`, `LoopSchedulesHolds`, `RunsCutShortOnlyOnInterruptHolds`.

`JobRunProofs` and `JobRunWorldProofs` prove, under `JobRunAssumption`, for any number
of runs and refreshes, any plans that have the backup of the files and make their
dumps before it, and any faults:

* `JobRunInvariance`: `RInv`, which adds `Progress` to the types: a run that is
  before its reading of the snapshots has had no failed step, and one past the
  backup of its plan has a snapshot. `PruneAfterBackup` looks one step back and
  does not follow from the types; from `Progress` it does
  (`PruneAfterBackupHolds`). `JobRunTypeCorrect` is the other consequence.
* `FailureCountAgreesHolds`, from a second invariant, `CountInv`. The gauge is set
  before the result is recorded, so `FailureCountAgrees` fails to be inductive in
  between: `Gauge` says the gauge is the failures in a row, or already the next
  number while a run of the name is at `JobComplete`. That this is one run only
  is what no overlap (`Solo`) gives, and `Beside` ties the history of overlaps to
  which runs are in flight. With an overlap the statement is false: section 6.
* `FailsOnlyForCauseHolds`, from `CauseInv`: a run at `init` had a first listing that
  could not open the repository, or did not find it when it began, so that whoever
  made it since did so beside it (`MadeBeside`); a run at its plan without a
  repository had an error in its first listing; and one that finds a lock in its
  way runs beside its holder, one of the two being at a forget (`LockCause`).
* `SnapshotCountCurrentHolds`, from `GaugeInv`: only commands change snapshots, the
  last command of a run is the one that lists them, and what it listed is what the
  gauge is set to (`ListingStays`), when no other run comes between.
* `SnapshotsHoldOwnDumpsHolds`, from `DumpInv`, which follows each file by itself: one
  that a run has dumped to holds output of that run, and of others only if they are
  beside it and dump to the same file; alone, it is whole. That all dumps are made
  when restic reads is the order of `AllTasks`, a conjunct of its own in
  `JobRunAssumption`.

`ConfigProofs` proves, under `ConfigAssumption`, for any files and edits:

* `ConfigInvariance`: `CInv`, that the jobs read so far and those last returned are
  valid, which the concatenation of the next file's jobs keeps (`ValidConcat`); from
  it `JobsAreRunnableHolds` and `ConfigTypeCorrect`.
* `ReadingIsCompleteHolds`, from `Gathered`: between two files, `allJobs` is the
  concatenation of the jobs of all files read so far, and when a reading is over
  the state is ready for the next. `JobsOfAppend` is the step of that concatenation.

`RecoveryProofs` proves, under `RecoveryAssumption`, for any job that `Validate` accepts,
however many blocks, tasks and scripts it has, with any `backup_opts` and
`restore_opts`, any failures and disasters, and any snapshots of other jobs:

* What `AllTasks` puts where: `PlanParts` and `PlanOrder` say that dumps and pre
  scripts come before the files and loads and post scripts after them, `PreCommands`
  and `PostCommands` what such steps do, `DumpSteps` and `ProtectedPlan` that what
  is dumped is loaded, and that a protected database is, through a file the backup
  holds.
* `RecoveryInvariance`: `RInv`. `DumpsAreCurrent` follows a backup
  through its dumps: what it has dumped lies in its file, at a version of this
  backup. When the files are saved all dumps are made, which is `Current`
  (`SnapshotsAreCurrent` for every snapshot of the job). `LoadsFromSnapshot` follows a
  restore: past its files step there is a snapshot, and when it is the job's the
  dumps that `restore_opts` put back (`PutBack`) lie in their files, also when an
  earlier restore failed half-way; what is loaded comes from there, or is what psql
  left half-way. `ScriptsDid` says which tasks' scripts have been run so far, before
  the files and after them.
* From it `RecoveryTypeCorrect`, `SnapshotsAreCurrentHolds`, `RestoreBringsBackHolds`,
  `FilesWhileDownHolds`, `UpAfterSuccessHolds`; and `BackupReadsOnlyHolds`, an action
  property: no command of a backup is a load (`PreCommands`, `PostCommands`).

`BatchProofs` proves, under `BatchAssumption`, for any jobs and names, any command line,
any faults, and output cut anywhere:

* What the folds compute: `SplitAppend` for `SplitLines`, `FilterAppend`, `FilterMissing`
  and `FilterFinds` for `FilterJobs`. And what lines are put together to: `JoinText`
  (joined with nothing, lines are the pieces in a row, but for a last line break) and
  `JoinLines` (joined with line breaks, the pieces one under the other).
* `BatchInvariance`: `BInv`. `InitsOnlyOnReport` and the rest are not inductive, because they
  speak of what main concludes and not of the output it concludes it from.
  `CommandFits` says which command is run in which list. `Pending`: what is done and
  what is left make up the agenda, and the lists before had no unknown name.
  `Honest`: the output of a listing that fails although the repository is there has
  nothing of the message in it, whatever has arrived, unless restic could not open
  the config (`Misreported`), and `init` follows only then. `Telling`: the message of a
  missing one has arrived up to some place, and once past it is recognised, unless
  a piece ended inside it. `Counting`: what has arrived of a listing is its beginning,
  and the gauges show the listings before it.
* From it `BatchTypeCorrect`, `FollowsAgendaHolds`, `InitsOnlyOnReportHolds`,
  `CountsAreListedHolds`; and `FatalHasCauseHolds` by an induction of its own
  (`FatalStep`), since how main came to exit is gone from the state afterwards.

`DataProofs` has what those three need of data. The library's induction theorems
take an operator as a parameter, which the provers cannot instantiate. Its theorems
on well-founded relations speak of sets: a set of naturals that is not empty has a
least element (`Least`), and a set with 0 and with the successor of each member is
`Nat` (`Induct`). A statement about every sequence is then one about the set of the
lengths for which it holds. A fold is a choice of a function on the sets of
positions; `FoldExists` shows that there is one, and the lemmas about `FlattenSeq`,
`SplitLines` and `FilterJobs` get their equations from it.

Every safety invariant and action property that a run checks is so proved. Only
checked by TLC are the properties that need fairness, which the provers do not
reach: `CallsReturn`, `ReloadConverges`, `StopHonoured`, `EveryRunReports` and
`CommandLineEnds`.

## 6. Where code and documentation differ

* **Reload order** (`reload_order`). The README says a SIGHUP stops scheduling, waits,
  then re-reads the files. main reads the files first (main.go:269), refreshes
  the metrics, and then stops and waits inside `ReplaceJobs`. What was edited
  during the wait needs a SIGHUP of its own; `ReloadConverges` shows that one is
  enough.
* **/active after a reload that failed** (`active_after_failure`). The comments say
  that `ActiveJobNames` returns the currently scheduled names, and that `/active`
  reports live jobs. When the new jobs cannot be started and the previous ones not
  again either, nothing is scheduled and the previous names are still listed, until
  a reload succeeds. `RestAgrees` says that this is the one case.
* **Failure count of overlapping runs** (`overlap_failure_count`). Gauge and result
  are set one after the other without a common lock: run A fails and
  increments, run B succeeds and resets, B reports, A reports. `/health` says
  failed, the gauge says 0 consecutive failures. Without overlap they agree
  (`FailureCountAgrees`).
* **Databases in task blocks** (`nested_databases`). Their dumps are not among the
  backup paths, and a postgres block in a task is ignored.
* **default_config** (`default_config`). `ParseConfig` never applies it, so a job that
  relies on it is refused; `Config.Validate`, which would accept it, sets it in a
  copy and is not called.

Other behaviour worth knowing, for which no run is set up. A SIGHUP that comes
before `signal.Notify`, which waits for the metrics of all jobs to be refreshed,
ends the process (`RunsCutShortOnlyOnInterrupt` excepts that phase). `RunRestic`
looks for a text to "check if the error is due to a missing repository"
(restic.go:285), but restic prints it for any config it cannot open: a backup then
runs `init` on a repository that is there, which restic refuses, and the run fails
with that error, where after other errors of the listing it would have tried the
backup; `InitsOnlyOnReport` and `FailsOnlyForCause` say that this is the one case. A
run that lists its snapshots, is overtaken by another one and then sets the gauge
leaves it at the older count until the next run; a refresh beside a run can do the
same (`SnapshotCountCurrent` speaks of those that come one after the other). A
SIGTERM that comes while a SIGHUP waits in the channel is lost; a run that is the first
to use a repository fails when its listing of snapshots has a transient error,
because `init` is then skipped; two runs that race for `init` can make one of them
fail; post tasks do not run after a failed step; overlapping runs of a job with
both a passphrase and an env map can crash the process (the map is written
without a lock); when a reload's fallback fails as well, nothing is scheduled
although the log says the previous schedule is kept; a forget makes runs beside it
on the same repository fail, and fails beside them, since restic's locks are not
waited for.

Of restores: a database whose dump `restore_opts` send elsewhere is loaded from what
lies in its file, and fails only if there is nothing; a psql load that stops half-way
counts as a success; a snapshot that does not exist is noticed only at the files.
The snapshot is the latest one if no other is named, and nothing tells restic whose:
with a repository that two jobs share, as in test/sample.hcl, it may be the other
job's, and the restore succeeds, its loads reading whatever lies in the job's dump
files.

Of the command line: an unknown name is an error only after the other jobs of its
list have run; of two jobs with one name only the first is run; a message of a
missing repository that arrives in two pieces is not recognised, so the first
backup fails and the next one, with other cuts, may not; `-once` calls `RunBackup`
and not `Run`, so the gauges pushed to the gateway are those `Run` never set. Of the
plan: the dumps of a task are made before its pre scripts run, and loaded after
its post scripts, so that a database is dumped while the application it belongs
to is still up; database blocks in tasks are not validated.

## 7. What is not modelled

* Arguments of restic and of the database clients: sequential building of
  strings, and well tested.
* Loggers, flag parsing, version, the registration of gauges: no behaviour the
  properties depend on. `AllLines` sorts the lines of an error message.
* The JSON of `/health` and `/active`, and `/metrics`, which is the library's.
* What is pushed to the gateway: Batch has the push and its failure only.
* JobRun does not model `JobStartTime` and `SnapshotLatestTime`, Recovery not the
  user's own files: each behaves like what is modelled.
* Scripts of users may do anything. Here they leave databases, dumps and
  repositories alone, and only that they have run is recorded: what that stops or
  starts is up to them.
* restic's locks are held for the length of a command; stale locks, which `-unlock`
  removes, are faults.
* Which snapshot "latest" is when `restore_opts` name hosts, tags or a path: the
  restore is of any snapshot. Exclude patterns and targets are the set of files
  they come to.
* The database blocks of tasks that are invalid: the model keeps `dump_to` a path.
* The runs cron starts during the refresh of Batch: their effect on repositories
  is any number of snapshots listed, their own gauges are in JobRun.

## 8. Plan

Done: GracefulSchedule, Scheduler, Service, JobRun, TaskPlan, Recovery, Config,
Capture, Batch, and the proofs of section 5, which state every safety property the
runs check. Next, in this order:

1. **Daemon**: Scheduler composed with JobRun, so that results and gauges survive
   reloads, removed jobs keep their last result, and the refresh at start-up
   races with cron's runs.
2. An abstract specification of a backup store, of which a job with its snapshots
   is an implementation: put a state away, bring one back.
3. An abstract specification of the command line, the agenda done in order, which
   Batch implements; Service's single step for it could then be shown to be one
   of its steps.
