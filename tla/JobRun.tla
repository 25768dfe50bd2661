-------------------------------- MODULE JobRun --------------------------------
(***************************************************************************)
(* job.go: what one cron-started Job.Run does, and RefreshMetrics, with    *)
(* any number of them in flight at once.  A run is a sequence of commands, *)
(* each a child process: restic against the repository of its job, or a    *)
(* script of one of its tasks.  A command begins by building its           *)
(* environment (BuildEnv, MergeEnvMap) and ends by taking effect or        *)
(* failing.  The runs share the repositories, the dump files, the env map  *)
(* of a job's config, jobResults and the metrics.                          *)
(*                                                                         *)
(* restic and the scripts are outside: a command whose own preconditions   *)
(* hold may still fail, for a fault of the world, and restic refuses to    *)
(* work while the lock of another command is in its way.  What the first   *)
(* listing fails with matters: restic prints the message that is taken for *)
(* a missing repository whenever it cannot open the config (the fault      *)
(* "open"), and a repository that is missing may go unrecognised (a fault  *)
(* of "ensure"; Capture and Batch say when).                               *)
(***************************************************************************)
EXTENDS Naturals, Sequences, FiniteSets

CONSTANTS
  Run,         \* the runs there will be
  Refresher,   \* those among them that are RefreshMetrics calls
  Job,
  Name, NameOf,
  Repo, RepoOf,
  Path,        \* the dump files
  Plan,        \* Plan[j]: what AllTasks makes j do on a backup
  Forgets,     \* the jobs with a forget block
  SharedEnv,   \* the jobs whose config has both a passphrase and an env map
  MaxFaults    \* bound: commands that a fault makes fail

Script == "script"
Backup == "backup"

ASSUME JobRunAssumption ==
  /\ Refresher \subseteq Run
  /\ NameOf \in [Job -> Name]
  /\ RepoOf \in [Job -> Repo]
  /\ Plan \in [Job -> Seq(Path \cup {Script, Backup})]
  /\ \A j \in Job : \E i \in DOMAIN Plan[j] : Plan[j][i] = Backup
  /\ \A j \in Job : \A i, k \in DOMAIN Plan[j] :
       Plan[j][i] = Backup /\ Plan[j][k] \in Path => k < i   \* dumps come before
  /\ Path \cap {Script, Backup} = {}
  /\ Forgets \subseteq Job
  /\ SharedEnv \subseteq Job
  /\ MaxFaults \in Nat

VARIABLES
  job,                    \* the job of each run
  pc, step, stage,        \* where a run is: command, index in the plan, stage
  ok, err,                \* result.Success and result.LastError # nil
  listing,                \* Run and RefreshMetrics: len(snapshots)
  exists, snaps,          \* per repository: is there one, its snapshots
  file,                   \* per dump file: the runs with whole or growing output in it
  jobResults,             \* scheduler.go: jobResults, as /health answers
  failures, current,      \* the gauges JobFailureCount, SnapshotCurrentCount
  crashed,                \* the Go runtime ended the process
  faults, found, beside, saved, madeRepo, streak, lastRead   \* history

Commands == {"ensure", "init", "task", "forget", "read"}

local   == <<job, pc, step, stage, ok, err, listing>>
world   == <<exists, snaps, file>>
reports == <<jobResults, failures, current>>
history == <<found, beside, saved, madeRepo, streak, lastRead>>
vars    == <<local, world, reports, crashed, faults, history>>

TypeOK ==
  /\ job \in [Run -> Job]
  /\ pc \in [Run -> Commands \cup {"idle", "set", "gauge", "complete", "done"}]
  /\ step \in [Run -> Nat]
  /\ \A r \in Run : pc[r] = "task" => step[r] \in DOMAIN Plan[job[r]]
  /\ stage \in [Run -> {"env", "exec"}]
  /\ ok \in [Run -> BOOLEAN]
  /\ err \in [Run -> BOOLEAN]
  /\ listing \in [Run -> Nat]
  /\ exists \in [Repo -> BOOLEAN]
  /\ snaps \in [Repo -> Nat]
  /\ file \in [Path -> SUBSET Run]
  /\ jobResults \in [Name -> {"unknown", "ok", "warned", "failed"}]
  /\ failures \in [Name -> Nat]
  /\ current \in [Name -> Nat]
  /\ crashed \in BOOLEAN
  /\ faults \subseteq Run \X (Commands \cup {"open"})
  /\ found \subseteq Run
  /\ beside \in [Run -> SUBSET Run]
  /\ saved \subseteq Run
  /\ madeRepo \subseteq Run
  /\ streak \in [Name -> Nat]
  /\ lastRead \subseteq Run

Init ==
  /\ job \in [Run -> Job]
  /\ pc = [r \in Run |-> "idle"]
  /\ step = [r \in Run |-> 1]
  /\ stage = [r \in Run |-> "env"]
  /\ ok = [r \in Run |-> TRUE]
  /\ err = [r \in Run |-> FALSE]
  /\ listing = [r \in Run |-> 0]
  /\ exists = [p \in Repo |-> FALSE]
  /\ snaps = [p \in Repo |-> 0]
  /\ file = [p \in Path |-> {}]
  /\ jobResults = [n \in Name |-> "unknown"]
  /\ failures = [n \in Name |-> 0]
  /\ current = [n \in Name |-> 0]
  /\ crashed = FALSE
  /\ faults = {}
  /\ found = {}
  /\ beside = [r \in Run |-> {}]
  /\ saved = {}
  /\ madeRepo = {}
  /\ streak = [n \in Name |-> 0]
  /\ lastRead = {}

-------------------------------------------------------------------------------
NameIn(r) == NameOf[job[r]]
RepoIn(r) == RepoOf[job[r]]
Task(r)   == Plan[job[r]][step[r]]

InFlight  == {r \in Run : pc[r] \notin {"idle", "done"}}
Sequential == \A r \in Run : beside[r] = {}
Writing(p) == {r \in Run : pc[r] = "task" /\ stage[r] = "exec" /\ Task(r) = p}

(* The dump files a job's plan writes before its backup. *)
Dumps(j) == {Plan[j][i] : i \in DOMAIN Plan[j]} \ {Script, Backup}

(* A restic command whose environment is a map of its own begins at once:  *)
(* nobody can see it being built.                                          *)
Goto(r, l) ==
  /\ pc' = [pc EXCEPT ![r] = l]
  /\ stage' = [stage EXCEPT ![r] =
       IF job[r] \in SharedEnv \/ l = "task" THEN "env" ELSE "exec"]

(* A command of r ends in a failure c that is not r's doing. *)
Fault(r, c) ==
  /\ Cardinality(faults) < MaxFaults
  /\ faults' = faults \cup {<<r, c>>}

(* restic locks the repository it lists, backs up to or forgets from, and  *)
(* to forget it wants to be alone.  It does not wait for a lock.           *)
Locking(r) == /\ stage[r] = "exec"
              /\ pc[r] \in {"ensure", "forget", "read"} \/ (pc[r] = "task" /\ Task(r) = Backup)

LockedOut(r) == \E s \in Run \ {r} : /\ Locking(s)
                                    /\ RepoIn(s) = RepoIn(r)
                                    /\ "forget" \in {pc[r], pc[s]}

Ready(r, l) == ~crashed /\ pc[r] = l /\ stage[r] = "exec"

\* Mutated: the loop over the plan goes one step too far.
AfterTaskPast(r) ==
  IF step[r] <= Len(Plan[job[r]]) THEN "task"
  ELSE IF job[r] \in Forgets THEN "forget" ELSE "read"

AfterTask(r) ==
  IF step[r] < Len(Plan[job[r]]) THEN "task"
  ELSE IF job[r] \in Forgets THEN "forget" ELSE "read"

\* Mutated: the error of a step is recorded, and the run goes on all the same.
FailGoesOn(r) ==
  /\ Goto(r, AfterTask(r))
  /\ step' = [step EXCEPT ![r] = @ + 1]
  /\ ok' = [ok EXCEPT ![r] = FALSE]
  /\ err' = [err EXCEPT ![r] = TRUE]

(* RunBackup returns the error of the step: Run records it and goes on to  *)
(* read the snapshots.                                                     *)
Fail(r) ==
  /\ Goto(r, "read")
  /\ ok' = [ok EXCEPT ![r] = FALSE]
  /\ err' = [err EXCEPT ![r] = TRUE]
  /\ UNCHANGED step

-------------------------------------------------------------------------------
(* Run begins, or RefreshMetrics does. *)
Begin(r) ==
  /\ ~crashed
  /\ pc[r] = "idle"
  /\ Goto(r, IF r \in Refresher THEN "read" ELSE "ensure")
  /\ beside' = [s \in Run |-> IF s = r THEN InFlight
                              ELSE IF s \in InFlight THEN beside[s] \cup {r}
                              ELSE beside[s]]
  /\ lastRead' = IF InFlight = {} THEN lastRead ELSE {}
  /\ found' = IF exists[RepoIn(r)] THEN found \cup {r} ELSE found
  /\ UNCHANGED <<job, step, ok, err, listing, world, reports, crashed, faults,
                 saved, madeRepo, streak>>

(* The environment is built and the process started; a dump truncates its  *)
(* file, in which the output of those already writing to it goes on.       *)
StartCommand(r) ==
  /\ ~crashed
  /\ pc[r] \in Commands
  /\ stage[r] = "env"
  /\ stage' = [stage EXCEPT ![r] = "exec"]
  /\ file' = IF pc[r] = "task" /\ Task(r) \in Path
               THEN [file EXCEPT ![Task(r)] = Writing(Task(r)) \cup {r}]
               ELSE file
  /\ UNCHANGED <<job, pc, step, ok, err, listing, exists, snaps, reports, crashed, faults,
                 history>>

(* Two goroutines are inside the env map of one config, and at least one   *)
(* of them writes the passphrase to it: the Go runtime may notice, and     *)
(* then ends the process.  Script steps only read the map.                 *)
\* Mutated: every environment is built in a map shared by the runs.
InMapAlways(r) == pc[r] \in Commands /\ stage[r] = "env"

InMap(r) == pc[r] \in Commands /\ stage[r] = "env" /\ job[r] \in SharedEnv
WritesMap(r) == InMap(r) /\ (pc[r] = "task" => Task(r) = Backup)

Crash ==
  /\ ~crashed
  /\ \E r, s \in Run :
       /\ r # s
       /\ job[r] = job[s]
       /\ WritesMap(r)
       /\ InMap(s)
  /\ crashed' = TRUE
  /\ UNCHANGED <<local, world, reports, faults, history>>

-------------------------------------------------------------------------------
(* EnsureInit *)

\* Mutated: any error of "snapshots" is taken for a missing repository.
EnsureAlways(r) ==
  /\ Ready(r, "ensure")
  /\ \/ exists[RepoIn(r)] /\ Goto(r, "task") /\ UNCHANGED faults
     \/ ~exists[RepoIn(r)] /\ Goto(r, "init") /\ UNCHANGED faults
     \/ Fault(r, "ensure") /\ Goto(r, "init")
  /\ UNCHANGED <<job, step, ok, err, listing, world, reports, crashed, history>>

(* The message leads to "init", which restic prints for a repository that  *)
(* is not there and for one whose config it cannot open; other errors are  *)
(* ignored.                                                                *)
Ensure(r) ==
  /\ Ready(r, "ensure")
  /\ \/ exists[RepoIn(r)] /\ Goto(r, "task") /\ UNCHANGED faults
     \/ ~exists[RepoIn(r)] /\ Goto(r, "init") /\ UNCHANGED faults
     \/ Fault(r, "ensure") /\ Goto(r, "task")
     \/ exists[RepoIn(r)] /\ Fault(r, "open") /\ Goto(r, "init")
  /\ UNCHANGED <<job, step, ok, err, listing, world, reports, crashed, history>>

(* restic refuses to initialise a repository that exists. *)
InitRepo(r) ==
  /\ Ready(r, "init")
  /\ \/ /\ ~exists[RepoIn(r)]
        /\ exists' = [exists EXCEPT ![RepoIn(r)] = TRUE]
        /\ madeRepo' = madeRepo \cup {r}
        /\ Goto(r, "task")
        /\ UNCHANGED <<step, ok, err, faults>>
     \/ /\ exists[RepoIn(r)]
        /\ Fail(r)
        /\ UNCHANGED <<exists, madeRepo, faults>>
     \/ /\ Fault(r, "init")
        /\ Fail(r)
        /\ UNCHANGED <<exists, madeRepo>>
  /\ UNCHANGED <<job, listing, snaps, file, reports, crashed, found, beside, saved, streak,
                 lastRead>>

-------------------------------------------------------------------------------
(* The plan *)

Advance(r) ==
  /\ Goto(r, AfterTask(r))
  /\ step' = [step EXCEPT ![r] = @ + 1]
  /\ UNCHANGED <<ok, err>>

(* A dump or a script of a task.  A dump that fails leaves no whole output *)
(* in its file.                                                            *)
RunScript(r) ==
  /\ Ready(r, "task")
  /\ Task(r) # Backup
  /\ \/ Advance(r) /\ UNCHANGED <<file, faults>>
     \/ /\ Fault(r, "task")
        /\ Fail(r)
        /\ file' = [p \in Path |-> IF p = Task(r) THEN {} ELSE file[p]]
  /\ UNCHANGED <<job, listing, exists, snaps, reports, crashed, history>>

(* restic reads the dump files at some point of the command, and adds a    *)
(* snapshot with what they hold then.                                      *)
RunBackup(r) ==
  /\ Ready(r, "task")
  /\ Task(r) = Backup
  /\ \/ /\ exists[RepoIn(r)]
        /\ snaps' = [snaps EXCEPT ![RepoIn(r)] = @ + 1]
        /\ saved' = saved \cup {r}
        /\ Advance(r)
        /\ UNCHANGED faults
     \/ /\ ~exists[RepoIn(r)] \/ LockedOut(r)
        /\ Fail(r)
        /\ UNCHANGED <<snaps, saved, faults>>
     \/ /\ Fault(r, "task")
        /\ Fail(r)
        /\ UNCHANGED <<snaps, saved>>
  /\ UNCHANGED <<job, listing, exists, file, reports, crashed, found, beside, madeRepo, streak,
                 lastRead>>

(* restic removes what the policy does not keep, and never the last one.   *)
Forget(r) ==
  /\ Ready(r, "forget")
  /\ \/ /\ \E k \in 1..snaps[RepoIn(r)] : snaps' = [snaps EXCEPT ![RepoIn(r)] = k]
        /\ Goto(r, "read")
        /\ UNCHANGED <<step, ok, err, faults>>
     \/ LockedOut(r) /\ Fail(r) /\ UNCHANGED <<snaps, faults>>
     \/ Fault(r, "forget") /\ Fail(r) /\ UNCHANGED snaps
  /\ UNCHANGED <<job, listing, exists, file, reports, crashed, history>>

-------------------------------------------------------------------------------
(* ReadSnapshots and what follows it *)

AfterRead(r) == IF r \in Refresher THEN "done" ELSE "gauge"

(* An error here is kept only if the backup itself had none, and leaves    *)
(* Success as it is.                                                       *)
ReadSnapshots(r) ==
  /\ Ready(r, "read")
  /\ \/ /\ exists[RepoIn(r)]
        /\ listing' = [listing EXCEPT ![r] = snaps[RepoIn(r)]]
        /\ Goto(r, "set")
        /\ UNCHANGED <<err, faults, lastRead>>
     \/ /\ Fault(r, "read") \/ (UNCHANGED faults /\ (~exists[RepoIn(r)] \/ LockedOut(r)))
        /\ err' = [err EXCEPT ![r] = TRUE]
        /\ lastRead' = {}
        /\ Goto(r, AfterRead(r))
        /\ UNCHANGED listing
  /\ UNCHANGED <<job, step, ok, world, reports, crashed, found, beside, saved, madeRepo, streak>>

\* Mutated: the gauge is incremented, not set.
SnapshotCountInc(r) == current[NameIn(r)] + 1

SnapshotCount(r) == listing[r]

(* The gauge is set to what was listed, which may have changed since; the  *)
(* list itself is of no use after that.                                    *)
SetCount(r) ==
  /\ ~crashed
  /\ pc[r] = "set"
  /\ current' = [current EXCEPT ![NameIn(r)] = SnapshotCount(r)]
  /\ lastRead' = IF Sequential THEN {r} ELSE {}
  /\ listing' = [listing EXCEPT ![r] = 0]
  /\ Goto(r, AfterRead(r))
  /\ UNCHANGED <<job, step, ok, err, world, jobResults, failures, crashed, faults,
                 found, beside, saved, madeRepo, streak>>

\* Mutated: a success leaves the failure count alone.
CountNoReset(r) == IF ok[r] THEN failures[NameIn(r)] ELSE failures[NameIn(r)] + 1

Count(r) == IF ok[r] THEN 0 ELSE failures[NameIn(r)] + 1

SetGauge(r) ==
  /\ ~crashed
  /\ pc[r] = "gauge"
  /\ failures' = [failures EXCEPT ![NameIn(r)] = Count(r)]
  /\ Goto(r, "complete")
  /\ UNCHANGED <<job, step, ok, err, listing, world, jobResults, current, crashed, faults,
                 history>>

(* The status /health?job=NAME answers with. *)
Health(n) == CASE jobResults[n] = "unknown" -> 404
               [] jobResults[n] = "failed"  -> 503
               [] OTHER                     -> 200

Outcome(r) == IF ~ok[r] THEN "failed" ELSE IF err[r] THEN "warned" ELSE "ok"

(* JobComplete, under jobResultsLock. *)
JobComplete(r) ==
  /\ ~crashed
  /\ pc[r] = "complete"
  /\ jobResults' = [jobResults EXCEPT ![NameIn(r)] = Outcome(r)]
  /\ streak' = [streak EXCEPT ![NameIn(r)] = IF ok[r] THEN 0 ELSE @ + 1]
  /\ Goto(r, "done")
  /\ UNCHANGED <<job, step, ok, err, listing, world, failures, current, crashed, faults,
                 found, beside, saved, madeRepo, lastRead>>

-------------------------------------------------------------------------------
Step(r) == StartCommand(r) \/ Ensure(r) \/ InitRepo(r) \/ RunScript(r) \/ RunBackup(r)
             \/ Forget(r) \/ ReadSnapshots(r) \/ SetCount(r) \/ SetGauge(r) \/ JobComplete(r)

Next == Crash \/ \E r \in Run : Begin(r) \/ Step(r)

Spec == Init /\ [][Next]_vars

(* Every command returns, and a goroutine that can go on does. *)
FairSpec == Spec /\ \A r \in Run : WF_vars(Step(r))

-------------------------------------------------------------------------------
(* Properties *)

RunsOf(n) == {r \in Run \ Refresher : NameIn(r) = n}
Forgetting(r) == r \notin Refresher /\ job[r] \in Forgets
Solo(n)    == \A r, s \in RunsOf(n) : s \notin beside[r]
Settled(n) == RunsOf(n) \cap InFlight = {}

(* While runs of one name do not overlap, the failure gauge is the number  *)
(* of runs that failed since the last success, and agrees with /health.    *)
FailureCountAgrees ==
  \A n \in Name : Solo(n) /\ Settled(n) =>
    failures[n] = streak[n] /\ (failures[n] > 0 <=> Health(n) = 503)

(* metrics.go: restic_job_failure_count is the "number of consecutive      *)
(* failures for jobs": when the last run of a job, as /health tells it,    *)
(* failed, that is at least one.                                           *)
FailureCountConsecutive ==
  \A n \in Name : Settled(n) /\ Health(n) = 503 => failures[n] > 0

(* A run fails only when something other than its listings of snapshots    *)
(* does (a command of its own, or the opening of the repository at its     *)
(* first listing); when it did not find its repository, and that listing   *)
(* had a fault, so "init" was skipped, or a run beside it made the         *)
(* repository in between; or when it runs beside one on the same           *)
(* repository and one of the two forgets: restic's locks make it fail.     *)
FailsOnlyForCause ==
  \A r \in Run : pc[r] = "done" /\ ~ok[r] =>
    \/ \E l \in {"open", "init", "task", "forget"} : <<r, l>> \in faults
    \/ /\ r \notin found
       /\ \/ <<r, "ensure">> \in faults
          \/ \E s \in beside[r] \cap madeRepo : RepoIn(s) = RepoIn(r)
    \/ \E s \in beside[r] : RepoIn(s) = RepoIn(r) /\ (Forgetting(r) \/ Forgetting(s))

(* A dump file that no run in flight with this one dumps to is saved as    *)
(* this run dumped it, whole.  In one that others dump to, nothing is      *)
(* saved that a run before or after them left there.                       *)
SnapshotsHoldOwnDumps ==
  [][\A r \in saved' \ saved : \A p \in Dumps(job[r]) :
       LET others == {s \in beside[r] \ Refresher : p \in Dumps(job[s])}
       IN  /\ file[p] \subseteq {r} \cup others
           /\ others = {} => file[p] = {r} /\ Writing(p) = {}]_vars

(* Snapshots are only ever removed by a run that has added one of its own  *)
(* before, and none of whose steps failed.                                 *)
PruneAfterBackup ==
  [][\A p \in Repo : snaps'[p] < snaps[p] =>
       \E r \in Run : /\ pc[r] = "forget"
                      /\ RepoIn(r) = p
                      /\ r \in saved
                      /\ ok[r]]_vars

(* As long as runs and refreshes come one after the other, the snapshot    *)
(* gauge of the job whose snapshots were last read is what its repository  *)
(* has once the run is over.                                               *)
SnapshotCountCurrent ==
  \A r \in lastRead : InFlight = {} => current[NameIn(r)] = snaps[RepoIn(r)]

(* Every run that begins gets to its JobComplete, whatever fails on the    *)
(* way, unless the process dies of two goroutines in one env map, which    *)
(* takes overlapping runs of a job that has both env and a passphrase.     *)
EveryRunReports ==
  \A r \in Run :
    (r \in InFlight) ~>
      (pc[r] = "done" \/ /\ crashed
                         /\ \E s \in Run : \E t \in beside[s] :
                              job[s] = job[t] /\ job[s] \in SharedEnv)
===============================================================================
