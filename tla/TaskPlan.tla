------------------------------- MODULE TaskPlan -------------------------------
(***************************************************************************)
(* job.go and tasks.go: what a job is made of, when it is valid, and what  *)
(* it does, in which order, on a backup and on a restore.                  *)
(*                                                                         *)
(* The commands of a database block are kept as what they do: they dump    *)
(* the database to its file or load it from there; a script of the user is *)
(* the task it belongs to, the side of the backup it is on, and whether it *)
(* has a command for a backup and for a restore.                           *)
(***************************************************************************)
EXTENDS SequencesExt

CONSTANTS
  Database,   \* the mysql, postgres and sqlite blocks there are
  Path,       \* the files
  DumpTo,     \* DumpTo[d]: the dump_to of block d
  Unusable    \* the blocks whose own Validate fails

ASSUME TaskPlanAssumption ==
  /\ DumpTo \in [Database -> Path]
  /\ Unusable \subseteq Database

Modes  == {"backup", "restore"}
Script == SUBSET Modes    \* a script: on_backup and on_restore, if not empty

(* A task block, and a job.  The name "" is a missing one.  A job's config *)
(* is "valid", "invalid" or "absent"; the other fields Validate looks at   *)
(* make the header.  Of backup_opts there are the files they leave out of  *)
(* a snapshot, and of restore_opts those that their Target, Include and    *)
(* Exclude put back where they came from.                                  *)
JobTask == [name: STRING, mysql: Seq(Database), postgres: Seq(Database),
            sqlite: Seq(Database), pre: Seq(Script), post: Seq(Script)]
Job     == [header: {"valid", "invalid"}, config: {"valid", "invalid", "absent"},
            mysql: Seq(Database), postgres: Seq(Database), sqlite: Seq(Database),
            tasks: Seq(JobTask), paths: SUBSET Path,
            excludes: SUBSET Path, restores: SUBSET Path]

Each(op(_), s) == [i \in DOMAIN s |-> op(s[i])]

-------------------------------------------------------------------------------
(* Steps: what one does on a backup, what on a restore *)

Nothing  == <<"nothing">>
Dump(d)  == <<"dump", d>>
Load(d)  == <<"load", d>>
Transfer == <<"files">>
Run(side, n) == <<side, n>>   \* the scripts on this side of task n

FilesStep == [onBackup |-> Transfer, onRestore |-> Transfer]

\* Mutated: RunRestore runs the script of on_backup.
ScriptStepOnBackup(side, n, script) ==
  LET command == IF "backup" \in script THEN Run(side, n) ELSE Nothing
  IN  [onBackup |-> command, onRestore |-> command]

(* A script without a command for what is being done does nothing. *)
ScriptStep(side, n, script) ==
  [onBackup  |-> IF "backup"  \in script THEN Run(side, n) ELSE Nothing,
   onRestore |-> IF "restore" \in script THEN Run(side, n) ELSE Nothing]

GetPreTask(d)  == [onBackup |-> Dump(d), onRestore |-> Nothing]

\* Mutated: the load is the step's command for a backup too.
GetPostTaskAlways(d) == [onBackup |-> Load(d), onRestore |-> Load(d)]

GetPostTask(d) == [onBackup |-> Nothing, onRestore |-> Load(d)]

-------------------------------------------------------------------------------
(* The steps of a task block.  Its postgres blocks give none. *)

Scripts(side, t, scripts) == Each(LAMBDA s : ScriptStep(side, t.name, s), scripts)

GetPreTasks(t) ==
  Each(GetPreTask, t.mysql) \o Each(GetPreTask, t.sqlite) \o Scripts("pre", t, t.pre)

\* Mutated: the loop is over the scripts that go before.
GetPostTasksOfPre(t) ==
  Scripts("pre", t, t.pre) \o Each(GetPostTask, t.mysql) \o Each(GetPostTask, t.sqlite)

GetPostTasks(t) ==
  Scripts("post", t, t.post) \o Each(GetPostTask, t.mysql) \o Each(GetPostTask, t.sqlite)

Blocks(j) == j.mysql \o j.postgres \o j.sqlite

\* Mutated: everything around the backup comes before it.
AllTasksLoadFirst(j) ==
  Each(GetPreTask, Blocks(j)) \o FlattenSeq(Each(GetPreTasks, j.tasks))
    \o FlattenSeq(Each(GetPostTasks, j.tasks)) \o Each(GetPostTask, Blocks(j))
    \o <<FilesStep>>

AllTasks(j) ==
  Each(GetPreTask, Blocks(j)) \o FlattenSeq(Each(GetPreTasks, j.tasks))
    \o <<FilesStep>>
    \o FlattenSeq(Each(GetPostTasks, j.tasks)) \o Each(GetPostTask, Blocks(j))

(* The paths handed to "restic backup": those of the backup block and the  *)
(* dump files of the job's own database blocks.                            *)
BackupPaths(j) == j.paths \cup ToSet(Each(LAMBDA d : DumpTo[d], Blocks(j)))

(* What of them a snapshot holds. *)
Saved(j) == BackupPaths(j) \ j.excludes

-------------------------------------------------------------------------------
(* Validation *)

ValidateTask(t) == t.name # ""

ValidateTasks(j) ==
  /\ \A t \in ToSet(j.tasks) : ValidateTask(t)
  /\ ToSet(Blocks(j)) \cap Unusable = {}

Validate(j) ==
  /\ j.header = "valid"
  /\ j.config = "valid"
  /\ ValidateTasks(j)
  /\ j.paths # {}
===============================================================================
