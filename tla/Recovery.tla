------------------------------- MODULE Recovery -------------------------------
(***************************************************************************)
(* job.go: RunBackup and RunRestore of one job end to end.  Databases      *)
(* change while backups are made; some day the machine is lost, or a file  *)
(* or a database is; then a snapshot is restored, the latest or another.   *)
(* What the steps of TaskPlan do to databases, dump files and snapshots    *)
(* decides whether the databases come back.  The repository may be shared  *)
(* with another job, whose snapshots lie among this one's.                 *)
(*                                                                         *)
(* A task is down when a script of its that goes before the files has run  *)
(* and none that goes after them has since.  Scripts are the user's: that  *)
(* they stop and start an application is one use of them.  The forget that *)
(* ends a backup is left to JobRun.                                        *)
(***************************************************************************)
EXTENDS TaskPlan, Naturals, Sequences

CONSTANTS
  Config,       \* the jobs that a job file may hold
  SavedByOther, \* which of the files another job's snapshot may hold
  MaxVersion,   \* bound: versions of a database
  MaxBackups    \* bound: snapshots made

ASSUME RecoveryAssumption ==
  /\ Config \subseteq Job
  /\ SavedByOther \subseteq SUBSET Path
  /\ MaxVersion \in Nat \ {0}
  /\ MaxBackups \in Nat

Version == 0..MaxVersion     \* 0: the database is lost or garbage
Missing == <<>>
Foreign == <<"another", 0>>  \* what another job has put there
Content == {Missing, Foreign} \cup (Database \X Version)

VARIABLES
  job,       \* the job, one that Validate accepts
  data,      \* the version each database is at
  dumps,     \* what each dump file holds
  repo,      \* the repository: a sequence of snapshots
  mode, i,   \* what is being run, or was with success, and at which step
  down,      \* the tasks with their scripts before the files run, not those after
  target,    \* the snapshot being restored, or restored last; 0: there is none such
  from,      \* history: the versions when the running backup began
  span,      \* history: per snapshot, the versions its backup can have seen
  foreign    \* history: the snapshots that another job made

Plan == AllTasks(job)

(* The databases that the job names, in blocks of its own or of its tasks. *)
Nested == UNION {ToSet(t.mysql \o t.postgres \o t.sqlite) : t \in ToSet(job.tasks)}
Configured == ToSet(Blocks(job)) \cup Nested

vars == <<job, data, dumps, repo, mode, i, down, target, from, span, foreign>>

TypeOK ==
  /\ job \in Config
  /\ data \in [Database -> Version]
  /\ dumps \in [Path -> Content]
  /\ repo \in Seq([Path -> Content])
  /\ mode \in Modes \cup {"idle", "saved", "restored"}
  /\ i \in 1..Len(Plan)
  /\ down \subseteq {t.name : t \in ToSet(job.tasks)}
  /\ target \in 0..Len(repo)
  /\ from \in [Database -> Version]
  /\ span \in Seq([Database -> SUBSET Version])
  /\ Len(span) = Len(repo)
  /\ foreign \subseteq DOMAIN repo

Init ==
  /\ job \in {j \in Config : Validate(j)}
  /\ data = [d \in Database |-> 1]
  /\ dumps = [p \in Path |-> Missing]
  /\ repo = <<>>
  /\ mode = "idle"
  /\ i = 1
  /\ down = {}
  /\ target = 0
  /\ from = data
  /\ span = <<>>
  /\ foreign = {}

-------------------------------------------------------------------------------
(* The world *)

Change(d) ==
  /\ d \in Configured
  /\ mode \in {"idle", "saved", "backup"}
  /\ data[d] \in 1..(MaxVersion - 1)
  /\ data' = [data EXCEPT ![d] = @ + 1]
  /\ UNCHANGED <<job, dumps, repo, mode, i, down, target, from, span, foreign>>

(* Databases are lost, and with them the dump files or not. *)
Disaster ==
  /\ mode \in {"idle", "saved"}
  /\ \E D \in SUBSET Configured \ {{}} :
       data' = [d \in Database |-> IF d \in D THEN 0 ELSE data[d]]
  /\ dumps' \in {dumps, [p \in Path |-> Missing]}
  /\ UNCHANGED <<job, repo, mode, i, down, target, from, span, foreign>>

(* Another job with the same repository makes a snapshot, at any time; in  *)
(* it may be files of its own under the names of this job's.               *)
OtherBackup ==
  /\ Len(repo) < MaxBackups
  /\ \E P \in SavedByOther :
       repo' = Append(repo, [p \in Path |-> IF p \in P THEN Foreign ELSE Missing])
  /\ span' = Append(span, [d \in Database |-> {}])
  /\ foreign' = foreign \cup {Len(repo) + 1}
  /\ UNCHANGED <<job, data, dumps, mode, i, down, target, from>>

-------------------------------------------------------------------------------
(* RunBackup and RunRestore: the loop over AllTasks *)

(* The loop is not entered when EnsureInit fails. *)
BeginBackup ==
  /\ mode \notin Modes
  /\ Len(repo) < MaxBackups
  /\ \/ mode' = "backup" /\ i' = 1 /\ from' = data
     \/ mode' = "idle" /\ UNCHANGED <<i, from>>
  /\ UNCHANGED <<job, data, dumps, repo, down, target, span, foreign>>

(* RunRestore is given the id of a snapshot, right or wrong, or "latest",  *)
(* the last one there is.  It returns before its first step if restic says *)
(* that there is no repository; another error is ignored.                  *)
BeginRestore(k) ==
  /\ mode \notin Modes
  /\ k \in 0..Len(repo)
  /\ \/ mode' = "restore" /\ i' = 1 /\ target' = k
     \/ mode' = "idle" /\ UNCHANGED <<i, target>>
  /\ UNCHANGED <<job, data, dumps, repo, down, from, span, foreign>>

Running == mode \in Modes
Step    == Plan[i]
Command == IF mode = "backup" THEN Step.onBackup ELSE Step.onRestore

Success == IF mode = "backup" THEN "saved" ELSE "restored"

\* Mutated: one step too many.
ContinuePast ==
  IF i <= Len(Plan)
    THEN i' = i + 1 /\ UNCHANGED mode
    ELSE i' = 1 /\ mode' = Success

Continue ==
  IF i < Len(Plan)
    THEN i' = i + 1 /\ UNCHANGED mode
    ELSE i' = 1 /\ mode' = Success

\* Mutated: a failed step is skipped.
FailGoesOn == Continue

(* A step returns an error, and with it the run. *)
Fail == i' = 1 /\ mode' = "idle"

RunDump(d) ==
  /\ Running
  /\ Command = Dump(d)
  /\ \/ dumps' = [dumps EXCEPT ![DumpTo[d]] = <<d, data[d]>>] /\ Continue
     \/ dumps' = [dumps EXCEPT ![DumpTo[d]] = Missing] /\ Fail
  /\ UNCHANGED <<job, data, repo, down, target, from, span, foreign>>

Psql == ToSet(job.postgres)   \* the blocks whose post task is psql

Loaded(d) ==
  LET content == dumps[DumpTo[d]]
  IN  IF content[1] = d THEN content[2] ELSE 0

(* Loading fails without a file to load, and may stop half-way with one.   *)
(* psql goes on after an error in the dump and reports success.            *)
RunLoad(d) ==
  /\ Running
  /\ Command = Load(d)
  /\ \/ /\ dumps[DumpTo[d]] # Missing
        /\ data' = [data EXCEPT ![d] = Loaded(d)]
        /\ Continue
     \/ /\ dumps[DumpTo[d]] # Missing
        /\ data' = [data EXCEPT ![d] = 0]
        /\ Fail \/ (d \in Psql /\ Continue)
     \/ /\ dumps[DumpTo[d]] = Missing
        /\ Fail
        /\ UNCHANGED data
  /\ UNCHANGED <<job, dumps, repo, down, target, from, span, foreign>>

(* A script that fails may have done its work or not. *)
RunScript(n) ==
  /\ Running
  /\ \/ Command = Run("pre", n) /\ down' = down \cup {n} /\ (Continue \/ Fail)
     \/ Command = Run("post", n) /\ down' = down \ {n} /\ (Continue \/ Fail)
     \/ Command \in {Run("pre", n), Run("post", n)} /\ Fail /\ UNCHANGED down
  /\ UNCHANGED <<job, data, dumps, repo, target, from, span, foreign>>

(* A step with no command for this mode. *)
DoNothing ==
  /\ Running
  /\ Command = Nothing
  /\ Continue
  /\ UNCHANGED <<job, data, dumps, repo, down, target, from, span, foreign>>

Snapshot == [p \in Path |-> IF p \in Saved(job) THEN dumps[p] ELSE Missing]

BackupFiles ==
  /\ mode = "backup"
  /\ Command = Transfer
  /\ \/ /\ repo' = Append(repo, Snapshot)
        /\ span' = Append(span, [d \in Database |-> from[d]..data[d]])
        /\ Continue
     \/ Fail /\ UNCHANGED <<repo, span>>
  /\ UNCHANGED <<job, data, dumps, down, target, from, foreign>>

(* restic puts back the files the snapshot has, and leaves others alone;   *)
(* to their own places only as restore_opts say.                           *)
Restored(P) ==
  [p \in Path |-> IF target # 0 /\ p \in P /\ repo[target][p] # Missing
                  THEN repo[target][p] ELSE dumps[p]]

(* It fails without such a snapshot, or with some of the files put back.   *)
RestoreFiles ==
  /\ mode = "restore"
  /\ Command = Transfer
  /\ \/ target # 0 /\ dumps' = Restored(job.restores) /\ Continue
     \/ \E P \in SUBSET job.restores : dumps' = Restored(P) /\ Fail
  /\ UNCHANGED <<job, data, repo, down, target, from, span, foreign>>

-------------------------------------------------------------------------------
Next ==
  \/ \E d \in Database : Change(d) \/ RunDump(d) \/ RunLoad(d)
  \/ Disaster
  \/ OtherBackup
  \/ BeginBackup
  \/ \E k \in 0..MaxBackups : BeginRestore(k)
  \/ \E t \in ToSet(job.tasks) : RunScript(t.name)
  \/ DoNothing
  \/ BackupFiles
  \/ RestoreFiles

Spec == Init /\ [][Next]_vars

-------------------------------------------------------------------------------
(* Properties *)

Dumped == {d \in Configured : \E s \in ToSet(Plan) : s.onBackup = Dump(d)}
OwnFile(d) == \A e \in Configured \ {d} : DumpTo[e] # DumpTo[d]
Protected == {d \in Dumped : DumpTo[d] \in Saved(job) /\ OwnFile(d)}

(* What a load that reports success may leave, given what it should. *)
LeftByLoad(d, V) == V \cup (IF d \in Psql THEN {0} ELSE {})

(* A restore that reports success had a snapshot.  When the job made that  *)
(* snapshot, every database is in a state it had during that backup, if    *)
(* its dump is in a file that no other block shares, that the backup saves *)
(* and that restore_opts put back: whatever is on the machine, a stale     *)
(* dump or an earlier failed restore, does not leak into it.  A postgres   *)
(* database may be garbage instead, for psql hides its errors.             *)
RestoreBringsBack ==
  mode = "restored" =>
    /\ target \in DOMAIN repo
    /\ target \notin foreign => \A d \in Protected :
         DumpTo[d] \in job.restores => data[d] \in LeftByLoad(d, span[target][d])

(* A backup changes no database: a version only ever grows while one runs. *)
BackupReadsOnly ==
  [][mode = "backup" => \A d \in Database : data'[d] >= data[d]]_vars

(* A snapshot never holds an old dump of a database the backup dumps: a    *)
(* dump that fails keeps the backup from being made.                       *)
SnapshotsAreCurrent ==
  repo # <<>> => \A d \in Protected, k \in DOMAIN repo \ foreign :
    \E v \in span[k][d] : repo[k][DumpTo[d]] = <<d, v>>

HasScript(scripts, m) == \E s \in ToSet(scripts) : m \in s

(* The files are saved, or put back, when every task that has a script to  *)
(* run before has run it: a script that fails on the way keeps the files   *)
(* from being touched, and no script after them runs before.               *)
FilesWhileDown ==
  Running /\ Command = Transfer =>
    \A t \in ToSet(job.tasks) : HasScript(t.pre, mode) => t.name \in down

(* Once a backup has succeeded, or a restore, every task with a script to  *)
(* run after it has run it, those included that an earlier run left down   *)
(* when it failed.                                                         *)
UpAfterSuccess ==
  \A t \in ToSet(job.tasks), m \in Modes :
    mode = (IF m = "backup" THEN "saved" ELSE "restored") /\ HasScript(t.post, m)
      => t.name \notin down

(* job.go: BackupPaths "returns all paths to backup defined in any tasks   *)
(* contained with the Job", and databases "are also available within a     *)
(* task": every snapshot has a dump of every database the job names, but   *)
(* for the files that backup_opts leave out.                               *)
EveryDatabaseSaved ==
  \A k \in DOMAIN repo \ foreign : \A d \in Configured :
    DumpTo[d] \notin job.excludes =>
      /\ DumpTo[d] \in BackupPaths(job)
      /\ \E v \in span[k][d] : repo[k][DumpTo[d]] = <<d, v>>
===============================================================================
