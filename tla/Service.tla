------------------------------- MODULE Service -------------------------------
(***************************************************************************)
(* main.go: the life of the daemon.  main reads the job files, runs the    *)
(* jobs named on the command line, starts the scheduler, refreshes the     *)
(* metrics, and only then takes over the signals it handles one at a time: *)
(* SIGHUP reloads, SIGINT and SIGTERM/SIGQUIT stop.  Until signal.Notify   *)
(* a signal has its default effect on a Go program, which is to end it.    *)
(* Afterwards it goes to a channel of capacity one, and is dropped when    *)
(* the channel is full.                                                    *)
(*                                                                         *)
(* main is the owner of Scheduler, so this module extends it: the calls    *)
(* of the owner happen where main makes them, and cron and the runs go on  *)
(* beside main until the process ends.                                     *)
(***************************************************************************)
EXTENDS Scheduler

CONSTANTS
  Unreadable,   \* what the job files hold when ReadJobs fails on them
  MaxSignals,   \* bound: signals sent
  MaxEdits      \* bound: changes made to the job files

ASSUME ServiceAssumption ==
  /\ Unreadable \notin JobLists
  /\ JobLists # {}
  /\ MaxSignals \in Nat
  /\ MaxEdits \in Nat
  /\ MaxCrons > MaxSignals

Signals == {"HUP", "INT", "TERM", "QUIT"}
Contents == JobLists \cup {Unreadable}

VARIABLES
  phase,       \* where main is
  loaded,      \* the jobs of the last ReadJobs that succeeded
  sigCh,       \* sigCh, the buffered channel
  disk,        \* what the job files hold
  sent, edits, \* how many signals and edits there were, for the bounds
  asked,       \* history: a SIGHUP was sent since the last edit
  cause        \* history: what ended the process

mainVars == <<phase, loaded, sigCh>>
envVars  == <<disk, sent, edits, asked>>
svars    == <<vars, mainVars, envVars, cause>>

BeforeNotify == {"read", "specified", "start", "refresh"}
Ended == {"exited", "killed"}
Alive == phase \notin Ended

ServiceTypeOK ==
  /\ TypeOK
  /\ phase \in BeforeNotify \cup Ended \cup
               {"loop", "reread", "refreshNew", "replacing", "stopping"}
  /\ loaded \in JobLists \cup {<<>>}
  /\ sigCh \in {<<>>} \cup {<<s>> : s \in Signals}
  /\ disk \in Contents
  /\ sent \in 0..MaxSignals
  /\ edits \in 0..MaxEdits
  /\ asked \in BOOLEAN
  /\ cause \in {"none", "fatal", "once"} \cup Signals

ServiceInit ==
  /\ Init
  /\ phase = "read"
  /\ loaded = <<>>
  /\ sigCh = <<>>
  /\ disk \in Contents
  /\ sent = 0
  /\ edits = 0
  /\ asked = FALSE
  /\ cause = "none"

-------------------------------------------------------------------------------
(* Start-up *)

Fatal == phase' = "exited" /\ cause' = "fatal"

Read ==
  /\ phase = "read"
  /\ IF disk = Unreadable
       THEN Fatal /\ UNCHANGED loaded
       ELSE loaded' = disk /\ phase' = "specified" /\ UNCHANGED cause
  /\ UNCHANGED <<vars, sigCh, envVars>>

(* runSpecifiedJobs: the named jobs are unlocked, backed up and restored   *)
(* here, in main itself; the first error is fatal.  With -once this is all *)
(* main does, but for pushing the metrics.                                 *)
RunSpecified ==
  /\ phase = "specified"
  /\ \/ phase' = "start" /\ UNCHANGED cause
     \/ phase' = "exited" /\ cause' = "once"
     \/ Fatal
  /\ UNCHANGED <<vars, loaded, sigCh, envVars>>

StartScheduler ==
  /\ phase = "start"
  /\ CallStart(loaded)
  /\ IF ret' = "ok" THEN phase' = "refresh" /\ UNCHANGED cause ELSE Fatal
  /\ UNCHANGED <<loaded, sigCh, envVars>>

(* The metrics of every job are read from its repository, while cron is    *)
(* already firing; then signal.Notify.                                     *)
Notify ==
  /\ phase = "refresh"
  /\ phase' = "loop"
  /\ UNCHANGED <<vars, loaded, sigCh, envVars, cause>>

-------------------------------------------------------------------------------
(* The signal loop *)

TakeReload ==
  /\ phase = "loop"
  /\ sigCh = <<"HUP">>
  /\ sigCh' = <<>>
  /\ phase' = "reread"
  /\ UNCHANGED <<vars, loaded, envVars, cause>>

Reread ==
  /\ phase = "reread"
  /\ IF disk = Unreadable
       THEN phase' = "loop" /\ UNCHANGED loaded
       ELSE phase' = "refreshNew" /\ loaded' = disk
  /\ UNCHANGED <<vars, sigCh, envVars, cause>>

(* The metrics of the new jobs are refreshed first, then ReplaceJobs is    *)
(* called with the jobs that were read.                                    *)
Replace ==
  /\ phase = "refreshNew"
  /\ CallReplace(loaded)
  /\ phase' = "replacing"
  /\ UNCHANGED <<loaded, sigCh, envVars, cause>>

\* Mutated: SIGTERM and SIGINT both stop at once.
StopOpNow(s) == "now"

StopOp(s) == IF s = "INT" THEN "now" ELSE "graceful"

TakeStop(s) ==
  /\ phase = "loop"
  /\ sigCh = <<s>>
  /\ s # "HUP"
  /\ sigCh' = <<>>
  /\ CallStop(StopOp(s))
  /\ phase' = "stopping"
  /\ cause' = s
  /\ UNCHANGED <<loaded, envVars>>

\* Mutated: main looks at the next signal while a replacement still drains.
CallStepHasty ==
  /\ phase \in {"replacing", "stopping"}
  /\ Owner
  /\ phase' = CASE pc' \in {"idle", "wait"} -> "loop"
                [] pc' = "done"             -> "exited"
                [] OTHER                    -> phase
  /\ UNCHANGED <<loaded, sigCh, envVars, cause>>

\* Mutated: main does not return after a stop.
CallStepNoReturn ==
  /\ phase \in {"replacing", "stopping"}
  /\ Owner
  /\ phase' = IF pc' \in {"idle", "done"} THEN "loop" ELSE phase
  /\ UNCHANGED <<loaded, sigCh, envVars, cause>>

(* A step inside the call main is blocked in.  ReplaceJobs returns to the  *)
(* loop whatever it returns; a stop is followed by main's own return.      *)
CallStep ==
  /\ phase \in {"replacing", "stopping"}
  /\ Owner
  /\ phase' = CASE pc' = "idle" -> "loop"
                [] pc' = "done" -> "exited"
                [] OTHER        -> phase
  /\ UNCHANGED <<loaded, sigCh, envVars, cause>>

-------------------------------------------------------------------------------
(* The world: cron and the runs, until the process ends; signals; edits *)

Jobs ==
  /\ Alive
  /\ \E k \in Crons, j \in Job : Tick(k, j) \/ Finish(k, j)
  /\ UNCHANGED <<mainVars, envVars, cause>>

\* Mutated: the channel has no bound.
DeliverAlways(s) == Append(sigCh, s)

\* Mutated: the channel has no buffer, so only a waiting main gets the signal.
DeliverUnbuffered(s) == IF phase = "loop" /\ sigCh = <<>> THEN <<s>> ELSE sigCh

(* signal.Notify's send to sigCh does not block. *)
Deliver(s) == IF sigCh = <<>> THEN <<s>> ELSE sigCh

Send(s) ==
  /\ Alive
  /\ sent < MaxSignals
  /\ sent' = sent + 1
  /\ asked' = (asked \/ s = "HUP")
  /\ IF phase \in BeforeNotify
       THEN phase' = "killed" /\ cause' = s /\ UNCHANGED sigCh
       ELSE sigCh' = Deliver(s) /\ UNCHANGED <<phase, cause>>
  /\ UNCHANGED <<vars, loaded, disk, edits>>

Edit(d) ==
  /\ Alive
  /\ edits < MaxEdits
  /\ d # disk
  /\ disk' = d
  /\ edits' = edits + 1
  /\ asked' = FALSE
  /\ UNCHANGED <<vars, mainVars, sent, cause>>

-------------------------------------------------------------------------------
Main == Read \/ RunSpecified \/ StartScheduler \/ Notify \/ TakeReload \/ Reread
          \/ Replace \/ (\E s \in Signals : TakeStop(s)) \/ CallStep

ServiceNext ==
  \/ Main
  \/ Jobs
  \/ \E s \in Signals : Send(s)
  \/ \E d \in Contents : Edit(d)

ServiceSpec == ServiceInit /\ [][ServiceNext]_svars

Return(k, j) == Alive /\ Finish(k, j) /\ UNCHANGED <<mainVars, envVars, cause>>

(* main runs whenever it can, a command it waits for returns, and so does  *)
(* every run of a job.  Nothing makes cron fire, signals come or files     *)
(* change.                                                                 *)
FairService ==
  /\ ServiceSpec
  /\ WF_svars(Main)
  /\ \A k \in Crons, j \in Job : WF_svars(Return(k, j))

-------------------------------------------------------------------------------
(* Properties *)

(* The process ends with a backup in flight only because of SIGINT, or of  *)
(* a signal that came before main took the signals over: SIGTERM and       *)
(* SIGQUIT never cut a run short, even when they arrive during a reload.   *)
RunsCutShortOnlyOnInterrupt ==
  [][Alive /\ ~Alive' /\ (\E k \in Crons : inflight[k] # NoRuns)
       => cause' = "INT" \/ phase \in BeforeNotify]_svars

(* Between signals the daemon schedules what it last read, unless Start    *)
(* refused it: then it schedules the jobs before, or, if those are refused *)
(* too, nothing.                                                           *)
LoopSchedules ==
  phase = "loop" =>
    /\ started <=> ret # "failed"
    /\ ret = "ok" => jobs = loaded
    /\ started => entries[cron] = Range(jobs) /\ running = {cron}

(* No edit that is followed by a SIGHUP is missed, although the channel    *)
(* drops signals and an edit can hit any point of a reload: once the files *)
(* no longer change, hold jobs cron accepts, and a SIGHUP was sent after   *)
(* the last change, these jobs end up scheduled, or the process ends.      *)
ReloadConverges ==
  \A d \in {l \in JobLists : ~AddJobFails(l)} :
    <>[](asked /\ disk = d) => <>(~Alive \/ [](started /\ jobs = d))

(* A stop signal that got into the channel ends the process, whatever main *)
(* is doing when it arrives.                                               *)
StopHonoured ==
  (sigCh # <<>> /\ sigCh # <<"HUP">>) ~> ~Alive

(* README, "Reloading configuration": a SIGHUP first stops scheduling, then *)
(* waits for the running jobs, and only then re-reads the job files.        *)
ReadsAfterDraining ==
  phase = "reread" => running = {} /\ \A k \in Crons : inflight[k] = NoRuns
===============================================================================
