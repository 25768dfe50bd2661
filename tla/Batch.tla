-------------------------------- MODULE Batch --------------------------------
(***************************************************************************)
(* main.go, from the jobs that were read to the signal loop: the jobs      *)
(* named by -unlock, -backup and -restore are run by main itself, one      *)
(* after the other; then -once pushes the metrics and ends the process, or *)
(* the scheduler is started and the metrics of all jobs are refreshed.     *)
(*                                                                         *)
(* The commands that list snapshots are taken apart, down to the writes by *)
(* which their output arrives (Capture): what follows depends on it.  Of   *)
(* the others only success counts.  A command whose preconditions hold may *)
(* still fail, for a fault of the world.                                   *)
(***************************************************************************)
EXTENDS Capture, Sequences, FiniteSets

CONSTANTS
  Job, Name, NameOf, Repo, RepoOf,
  JobLists,       \* what ReadJobs may have returned
  CommandLines,   \* the flags main may be given
  MaxSnapshots,   \* bound: snapshots in a repository at start-up
  MaxFaults       \* bound: commands that a fault makes fail

Stages == {"unlock", "backup", "restore"}

(* The flags: words of the comma separated lists, -once, -push-gateway. *)
Flags == [unlock: Seq(Name \cup {"all"}), backup: Seq(Name \cup {"all"}),
          restore: Seq(Name \cup {"all"}), once: BOOLEAN, gateway: BOOLEAN]

ASSUME BatchAssumption ==
  /\ "all" \notin Name
  /\ NameOf \in [Job -> Name]
  /\ RepoOf \in [Job -> Repo]
  /\ JobLists \subseteq Seq(Job) \ {<<>>}
  /\ CommandLines \subseteq Flags
  /\ MaxSnapshots \in Nat
  /\ MaxFaults \in Nat

VARIABLES
  flags, jobs,            \* what main is given
  stage, exit,            \* where main is, and how it ended
  todo, missing,          \* FilterJobs: jobs left to do, names not found
  cmd,                    \* the command of the first job of todo
  pipe, lines, failed,    \* its output to come, the output captured, its status
  exists,                 \* the repositories there are
  current,                \* the gauge SnapshotCurrentCount
  done, cut, listed, faults   \* history

given  == <<flags, jobs>>
output == <<pipe, lines, failed, cut>>
vars   == <<given, stage, exit, todo, missing, cmd, output, exists, current,
            done, listed, faults>>

BatchTypeOK ==
  /\ flags \in CommandLines
  /\ jobs \in JobLists
  /\ stage \in Stages \cup {"push", "start", "refresh", "serving"}
  /\ exit \in {"no", "ok", "fatal"}
  /\ todo \in Seq(Job)
  /\ missing \subseteq Name
  /\ cmd \in {"next", "snapshots", "init", "work"}
  /\ cmd # "next" => todo # <<>>
  /\ pipe \in Seq(Token)
  /\ lines \in Seq(Seq(Token))
  /\ failed \in BOOLEAN
  /\ exists \in [Repo -> BOOLEAN]
  /\ current \in [Name -> 0..MaxSnapshots]
  /\ done \in Seq(Stages \X Job)
  /\ cut \in BOOLEAN
  /\ listed \in Seq(Job \X (0..MaxSnapshots))
  /\ faults \subseteq
       (Stages \cup {"refresh"}) \X Job \X {"snapshots", "open", "init", "work"}

-------------------------------------------------------------------------------
(* FilterJobs *)

\* Mutated: the name is left in the set when its job is found.
FilterJobsAgain(js, names) ==
  IF "all" \in ToSet(names) THEN [jobs |-> js, missing |-> {}]
  ELSE [jobs |-> SelectSeq(js, LAMBDA j : NameOf[j] \in ToSet(names)),
        missing |-> ToSet(names) \ {NameOf[j] : j \in ToSet(js)}]

(* The set of names shrinks as their jobs are found; what is left of it is *)
(* the error.                                                              *)
FilterJobs(js, names) ==
  IF "all" \in ToSet(names) THEN [jobs |-> js, missing |-> {}]
  ELSE FoldLeft(LAMBDA found, j :
                  IF NameOf[j] \in found.missing
                    THEN [jobs    |-> Append(found.jobs, j),
                          missing |-> found.missing \ {NameOf[j]}]
                    ELSE found,
                [jobs |-> <<>>, missing |-> ToSet(names)], js)

Init ==
  /\ flags \in CommandLines
  /\ jobs \in JobLists
  /\ stage = "unlock"
  /\ exit = "no"
  /\ todo = FilterJobs(jobs, flags.unlock).jobs
  /\ missing = FilterJobs(jobs, flags.unlock).missing
  /\ cmd = "next"
  /\ pipe = <<>>
  /\ lines = <<>>
  /\ failed = FALSE
  /\ exists \in [Repo -> BOOLEAN]
  /\ current = [n \in Name |-> 0]
  /\ done = <<>>
  /\ cut = FALSE
  /\ listed = <<>>
  /\ faults = {}

-------------------------------------------------------------------------------
(* The stages *)

Running == exit = "no"
InStage == Running /\ stage \in Stages

job    == Head(todo)
Found  == exists[RepoOf[job]]

Fault(c) ==
  /\ Cardinality(faults) < MaxFaults
  /\ faults' = faults \cup {<<stage, job, c>>}

(* log.Fatal *)
Fatal == exit' = "fatal" /\ UNCHANGED <<stage, todo, missing, cmd, output,
                                        done>>

EnterStage(s) ==
  /\ stage' = s
  /\ todo' = FilterJobs(jobs, flags[s]).jobs
  /\ missing' = FilterJobs(jobs, flags[s]).missing

(* A stage's jobs are done.  Only now are names that were not found an     *)
(* error.                                                                  *)
EndStage ==
  /\ InStage
  /\ todo = <<>>
  /\ \/ missing # {} /\ Fatal
     \/ /\ missing = {}
        /\ CASE stage = "unlock"  -> EnterStage("backup")
             [] stage = "backup"  -> EnterStage("restore")
             [] stage = "restore" ->
                  /\ stage' = IF flags.once THEN "push" ELSE "start"
                  /\ UNCHANGED <<todo, missing>>
        /\ UNCHANGED <<exit, cmd, output, done>>
  /\ UNCHANGED <<given, exists, current, listed, faults>>

\* Mutated: the next job goes on with the last one's command.
JobDoneStays ==
  /\ done' = Append(done, <<stage, job>>)
  /\ todo' = Tail(todo)
  /\ UNCHANGED <<stage, exit, missing, cmd, output>>

JobDone ==
  /\ done' = Append(done, <<stage, job>>)
  /\ todo' = Tail(todo)
  /\ cmd' = "next"
  /\ UNCHANGED <<stage, exit, missing, output>>

(* A command of which only success counts.  It needs the repository. *)
RunCommand ==
  /\ \/ Found /\ JobDone /\ UNCHANGED faults
     \/ ~Found /\ Fatal /\ UNCHANGED faults
     \/ Fault("work") /\ Fatal
  /\ UNCHANGED <<given, exists, current, listed>>

Unlock == InStage /\ stage = "unlock" /\ todo # <<>> /\ RunCommand

(* The tasks of the job, and its forget. *)
Work == InStage /\ cmd = "work" /\ RunCommand

-------------------------------------------------------------------------------
(* The commands that list the snapshots of a repository *)

Spawn(text, status) ==
  /\ cmd' = "snapshots"
  /\ pipe' = text
  /\ lines' = <<>>
  /\ failed' = status
  /\ cut' = FALSE
  /\ UNCHANGED <<given, stage, exit, todo, missing, exists, current, done>>

(* restic prints on stderr when it fails: what it prints of a repository   *)
(* that is missing it prints too of one that is there and whose config it  *)
(* cannot open, and something else of other faults.  Otherwise it prints   *)
(* on stdout, which only the refresh reads.  By then cron runs jobs: a     *)
(* repository may hold any number of snapshots, and need not be missing    *)
(* any more.                                                               *)
List ==
  /\ Running
  /\ cmd = "next"
  /\ todo # <<>>
  /\ stage \in {"backup", "restore", "refresh"}
  /\ \/ /\ ~Found
        /\ Spawn(NoConfig, TRUE)
        /\ UNCHANGED <<listed, faults>>
     \/ /\ Found
        /\ Fault("open")
        /\ Spawn(NoConfig, TRUE)
        /\ UNCHANGED listed
     \/ /\ Fault("snapshots")
        /\ Spawn(<<"Fatal", NL>>, TRUE)
        /\ UNCHANGED listed
     \/ /\ Found
        /\ stage # "refresh"
        /\ Spawn(<<>>, FALSE)
        /\ UNCHANGED <<listed, faults>>
     \/ /\ stage = "refresh"
        /\ \E n \in 0..MaxSnapshots :
             /\ Spawn(Listing(n) \o <<NL>>, FALSE)
             /\ listed' = Append(listed, <<job, n>>)
        /\ UNCHANGED faults

(* The copying goroutine of os/exec reads a piece off the pipe. *)
Deliver(k) ==
  /\ Running
  /\ k \in 1..Len(pipe)
  /\ lines' = Write(lines, SubSeq(pipe, 1, k))
  /\ pipe' = SubSeq(pipe, k + 1, Len(pipe))
  /\ cut' = (cut \/ (pipe' # <<>> /\ Head(pipe') = MissingMessage[2]))
  /\ UNCHANGED <<given, stage, exit, todo, missing, cmd, failed, exists,
                 current, done, listed, faults>>

(* Run returns when all the output has been copied. *)
Listed == Running /\ cmd = "snapshots" /\ pipe = <<>>
ErrRepoNotFound == failed /\ RepoMissing(lines)

\* Mutated: any error is taken for a missing repository.
EnsureInitAlways ==
  /\ Listed
  /\ stage = "backup"
  /\ cmd' = IF failed THEN "init" ELSE "work"
  /\ UNCHANGED <<given, stage, exit, todo, missing, output, exists, current,
                 done, listed, faults>>

\* Mutated: after any other error the snapshots are listed again.
EnsureInitRetries ==
  /\ Listed
  /\ stage = "backup"
  /\ cmd' = IF ErrRepoNotFound THEN "init" ELSE IF failed THEN "next" ELSE "work"
  /\ UNCHANGED <<given, stage, exit, todo, missing, output, exists, current,
                 done, listed, faults>>

EnsureInit ==
  /\ Listed
  /\ stage = "backup"
  /\ cmd' = IF ErrRepoNotFound THEN "init" ELSE "work"
  /\ UNCHANGED <<given, stage, exit, todo, missing, output, exists, current,
                 done, listed, faults>>

(* restic refuses to initialise a repository that is there. *)
InitRepo ==
  /\ Running
  /\ cmd = "init"
  /\ \/ /\ ~Found
        /\ exists' = [exists EXCEPT ![RepoOf[job]] = TRUE]
        /\ cmd' = "work"
        /\ UNCHANGED <<stage, exit, todo, missing, output, done, faults>>
     \/ Found /\ Fatal /\ UNCHANGED <<exists, faults>>
     \/ Fault("init") /\ Fatal /\ UNCHANGED exists
  /\ UNCHANGED <<given, current, listed>>

(* RunRestore: any other error of the listing is ignored. *)
CheckRestore ==
  /\ Listed
  /\ stage = "restore"
  /\ \/ ErrRepoNotFound /\ Fatal
     \/ /\ ~ErrRepoNotFound
        /\ cmd' = "work"
        /\ UNCHANGED <<stage, exit, todo, missing, output, done>>
  /\ UNCHANGED <<given, exists, current, listed, faults>>

(* RefreshMetrics: an error is logged, and the gauge left alone.  After    *)
(* the last job main takes over the signals.                               *)
Refresh ==
  /\ Listed
  /\ stage = "refresh"
  /\ IF failed \/ SnapshotsIn(lines) = {}
       THEN UNCHANGED current
       ELSE \E n \in SnapshotsIn(lines) :
              current' = [current EXCEPT ![NameOf[job]] = n]
  /\ todo' = Tail(todo)
  /\ cmd' = "next"
  /\ stage' = IF todo' = <<>> THEN "serving" ELSE stage
  /\ UNCHANGED <<given, exit, missing, output, exists, done, listed, faults>>

-------------------------------------------------------------------------------
(* After the stages *)

(* maybePushMetrics, and the end of -once. *)
Push ==
  /\ Running
  /\ stage = "push"
  /\ \/ exit' = "ok"
     \/ flags.gateway /\ exit' = "fatal"
  /\ UNCHANGED <<given, stage, todo, missing, cmd, output, exists, current,
                 done, listed, faults>>

(* Start, which may fail; then the loop over the jobs. *)
StartScheduler ==
  /\ Running
  /\ stage = "start"
  /\ \/ stage' = "refresh" /\ todo' = jobs /\ UNCHANGED exit
     \/ exit' = "fatal" /\ UNCHANGED <<stage, todo>>
  /\ UNCHANGED <<given, missing, cmd, output, exists, current, done, listed,
                 faults>>

-------------------------------------------------------------------------------
Next ==
  \/ EndStage
  \/ Unlock
  \/ List
  \/ \E k \in 1..Len(pipe) : Deliver(k)
  \/ EnsureInit
  \/ InitRepo
  \/ CheckRestore
  \/ Work
  \/ Refresh
  \/ Push
  \/ StartScheduler

Spec == Init /\ [][Next]_vars

(* Every command returns, and main goes on. *)
FairSpec == Spec /\ WF_vars(Next)

-------------------------------------------------------------------------------
(* Properties *)

Valid(s) ==
  \/ "all" \in ToSet(flags[s])
  \/ ToSet(flags[s]) \subseteq {NameOf[j] : j \in ToSet(jobs)}

(* The jobs a list of names stands for: all of them, or for each name the  *)
(* first job that has it, in the order of the files.                       *)
IsNamed(s, i) ==
  \/ "all" \in ToSet(flags[s])
  \/ /\ NameOf[jobs[i]] \in ToSet(flags[s])
     /\ \A k \in 1..(i - 1) : NameOf[jobs[k]] # NameOf[jobs[i]]

Named(s) ==
  FlattenSeq([i \in DOMAIN jobs |-> IF IsNamed(s, i) THEN << <<s, jobs[i]>> >> ELSE <<>>])

Before == [unlock |-> <<>>, backup |-> Named("unlock"),
           restore |-> Named("unlock") \o Named("backup")]
Agenda == Before["restore"] \o Named("restore")

(* What the command line asks for is done in its order, unlocks, backups   *)
(* and restores, each job at most once per list, and nothing else.  main   *)
(* gets to the push or the scheduler only when all of it has succeeded and *)
(* every name was one of a job; a name that was not ends main only when    *)
(* the other jobs of that list are done, and before the next list.         *)
FollowsAgenda ==
  /\ IsPrefix(done, Agenda)
  /\ stage \notin Stages => done = Agenda /\ \A s \in Stages : Valid(s)
  /\ (exit = "fatal" /\ stage \in Stages /\ todo = <<>>) =>
       ~Valid(stage) /\ done = Before[stage] \o Named(stage)

(* The listing of the present job called a repository missing that is      *)
(* there, because restic could not open its config.                        *)
Misreported == <<stage, job, "open">> \in faults

(* main fails only for a name it does not know, a fault of init or of the  *)
(* work itself, a repository that should be there and is not; when a       *)
(* backup would have made the repository, because the message that it is   *)
(* missing was cut in two by the pipe or replaced by that of a fault; or   *)
(* because a listing gave that message of a repository that is there, for  *)
(* which a backup tries init, which restic refuses, and a restore gives    *)
(* up.  Any other fault of a listing of an existing repository is survived.*)
FatalHasCause ==
  exit = "fatal" /\ stage \in Stages =>
    \/ todo = <<>> /\ ~Valid(stage)
    \/ todo # <<>> /\ \E c \in {"init", "work"} : <<stage, job, c>> \in faults
    \/ todo # <<>> /\ ~Found /\ stage # "backup"
    \/ todo # <<>> /\ ~Found /\ cmd = "work"
         /\ (cut \/ <<stage, job, "snapshots">> \in faults)
    \/ todo # <<>> /\ Found /\ Misreported
         /\ (IF stage = "backup" THEN cmd = "init" ELSE cmd = "snapshots")

(* init is tried only on a repository that is missing or that restic has   *)
(* just called missing, whatever else went wrong with the listing, and in  *)
(* whatever pieces its message came.                                       *)
InitsOnlyOnReport == cmd = "init" => ~Found \/ Misreported

(* Once main serves, the gauge of a name is the number of snapshots restic *)
(* listed for the last job of that name, in whatever pieces it did so.     *)
(* The runs cron has started meanwhile, which set it too, are in JobRun.   *)
CountsAreListed ==
  stage = "serving" =>
    \A n \in Name :
      LET Of == {k \in DOMAIN listed : NameOf[listed[k][1]] = n}
      IN  \/ Of = {} /\ current[n] = 0
          \/ \E k \in Of : (\A m \in Of : m <= k) /\ current[n] = listed[k][2]

(* main comes to an end of the command line: it exits or serves. *)
CommandLineEnds == <>(exit # "no" \/ stage = "serving")
===============================================================================
