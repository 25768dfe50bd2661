-------------------------------- MODULE Config --------------------------------
(***************************************************************************)
(* config.go and main.go: ReadJobs, which parses the job files one after   *)
(* the other, at start-up and on every SIGHUP, while somebody may be       *)
(* changing them.                                                          *)
(***************************************************************************)
EXTENDS TaskPlan, Naturals, Sequences

CONSTANTS
  Paths,     \* the job files of the command line, in order
  Files,     \* what a job file may hold
  MaxEdits   \* bound: changes made to job files

(* A file: whether it decodes, its default_config, and its jobs. *)
FileContent ==
  [decodes: BOOLEAN, default: {"valid", "invalid", "absent"}, jobs: Seq(Job)]

ASSUME ConfigAssumption ==
  /\ Paths \in Seq(STRING) \ {<<>>}
  /\ Files \subseteq FileContent
  /\ MaxEdits \in Nat

VARIABLES
  disk,      \* the job files
  next,      \* index in Paths of the file to read next
  allJobs,   \* the jobs of the files read so far
  result,    \* "reading", or what ReadJobs returned
  jobs,      \* the jobs ReadJobs last returned with no error
  edits,     \* for the bound
  seen       \* history: the contents this ReadJobs has read

vars == <<disk, next, allJobs, result, jobs, edits, seen>>

TypeOK ==
  /\ disk \in [ToSet(Paths) -> Files]
  /\ next \in 1..Len(Paths)
  /\ allJobs \in Seq(Job)
  /\ result \in {"reading", "ok", "error"}
  /\ jobs \in Seq(Job)
  /\ edits \in 0..MaxEdits
  /\ seen \in Seq(Files)

Init ==
  /\ disk \in [ToSet(Paths) -> Files]
  /\ next = 1
  /\ allJobs = <<>>
  /\ result = "reading"
  /\ jobs = <<>>
  /\ edits = 0
  /\ seen = <<>>

-------------------------------------------------------------------------------
(* config.go *)

WithDefault(f, j) == IF j.config = "absent" THEN [j EXCEPT !.config = f.default] ELSE j

(* Config.Validate, which fills an absent config in a copy of the job. *)
ValidateConfig(f) ==
  /\ f.jobs # <<>>
  /\ \A j \in ToSet(f.jobs) : Validate(WithDefault(f, j))

\* Mutated: ParseConfig leaves the validation to Config.Validate.
RefusesByConfig(f) == ~f.decodes \/ (f.jobs # <<>> /\ ~ValidateConfig(f))

(* ParseConfig returns an error. *)
Refuses(f) == ~f.decodes \/ \E j \in ToSet(f.jobs) : ~Validate(j)

-------------------------------------------------------------------------------
(* main.go: ReadJobs *)

Return(r, js) ==
  /\ result' = r
  /\ jobs' = js
  /\ next' = 1
  /\ allJobs' = <<>>

\* Mutated: one file too many.
IsPast(f) == next > Len(Paths)

\* Mutated: a file without jobs ends the reading.
StopsAtEmpty(f) == next = Len(Paths) \/ f.jobs = <<>>

IsLast(f) == next = Len(Paths)

ReadFile ==
  LET f == disk[Paths[next]]
  IN  /\ result = "reading"
      /\ seen' = Append(seen, f)
      /\ \/ /\ Refuses(f)
            /\ Return("error", jobs)
         \/ /\ ~Refuses(f)
            /\ ~IsLast(f)
            /\ next' = next + 1
            /\ allJobs' = allJobs \o f.jobs
            /\ UNCHANGED <<result, jobs>>
         \/ /\ ~Refuses(f)
            /\ IsLast(f)
            /\ IF allJobs \o f.jobs = <<>>
                 THEN Return("error", jobs)
                 ELSE Return("ok", allJobs \o f.jobs)
      /\ UNCHANGED <<disk, edits>>

(* main reads again on the next SIGHUP, whatever the last reading gave;    *)
(* an error leaves the jobs it has alone.                                  *)
ReadAgain ==
  /\ result \in {"ok", "error"}
  /\ result' = "reading"
  /\ seen' = <<>>
  /\ UNCHANGED <<disk, next, allJobs, jobs, edits>>

Edit(p, f) ==
  /\ edits < MaxEdits
  /\ f # disk[p]
  /\ disk' = [disk EXCEPT ![p] = f]
  /\ edits' = edits + 1
  /\ UNCHANGED <<next, allJobs, result, jobs, seen>>

Next ==
  \/ ReadFile
  \/ ReadAgain
  \/ \E p \in ToSet(Paths), f \in Files : Edit(p, f)

Spec == Init /\ [][Next]_vars

-------------------------------------------------------------------------------
(* Properties *)

(* No job ever reaches the scheduler, or a run, without a restic config,   *)
(* which NewRestic and RunBackup dereference unasked, or without a         *)
(* schedule that cron parses; however the files change while they are      *)
(* read.                                                                   *)
JobsAreRunnable ==
  \A j \in ToSet(jobs) : j.config = "valid" /\ j.header = "valid"

(* A reading that succeeds returns every job of every file, in the order   *)
(* of the command line, each file as it was when its turn came.  One that  *)
(* fails has met a file that does not decode or has an invalid job, or has *)
(* read all of them and found no job at all.                               *)
ReadingIsComplete ==
  CASE result = "ok" ->
         /\ Len(seen) = Len(Paths)
         /\ jobs = FlattenSeq([k \in DOMAIN seen |-> seen[k].jobs])
    [] result = "error" ->
         \/ \E f \in ToSet(seen) : ~f.decodes \/ \E j \in ToSet(f.jobs) : ~Validate(j)
         \/ Len(seen) = Len(Paths) /\ \A f \in ToSet(seen) : f.jobs = <<>>
    [] OTHER -> Len(seen) < Len(Paths)

(* config.go: "Use default restic config if no job config is provided".    *)
(* A file whose jobs are all valid with its default_config is not refused. *)
DefaultConfigIsUsed ==
  result = "error" =>
    \/ \E f \in ToSet(seen) : ~f.decodes \/ (f.jobs # <<>> /\ ~ValidateConfig(f))
    \/ \A f \in ToSet(seen) : f.jobs = <<>>
===============================================================================
