------------------------------ MODULE Scheduler ------------------------------
(***************************************************************************)
(* scheduler.go: the Scheduler struct, the robfig/cron instances it makes, *)
(* the job runs those start, and the goroutine that owns the scheduler.    *)
(*                                                                         *)
(* The owner is main: it calls Start once, then ReplaceJobs any number of  *)
(* times, then StopNow or StopGraceful, and returns.  Every critical       *)
(* section of s.mu is one step; the steps between two sections (and the    *)
(* wait on the cron's context) are steps of their own, so that cron and    *)
(* the runs interleave with them.                                          *)
(***************************************************************************)
EXTENDS Naturals, Sequences, Functions

CONSTANTS
  Job,        \* the job values configurations can hold
  Names,      \* the job names
  NameOf,     \* NameOf[j] is the Name field of job j
  JobLists,   \* the job lists the owner can pass
  Fragile,    \* the jobs whose schedule AddJob may fail to parse
  MaxCrons,   \* bound: cron instances made
  MaxRuns     \* bound: runs in flight of one entry of one instance

ASSUME SchedulerAssumption ==
  /\ NameOf \in [Job -> Names]
  /\ JobLists \subseteq Seq(Job)
  /\ Fragile \subseteq Job
  /\ MaxCrons \in Nat \ {0}
  /\ MaxRuns \in Nat

Crons == 1..MaxCrons
nil == 0
NoRuns == [j \in Job |-> 0]

VARIABLES
  cron, jobs, jobNames, started,          \* the Scheduler struct
  created, running, entries, inflight,    \* the cron instances and their runs
  pc, op, c, newJobs, prevJobs, ret       \* the owner: where it is, its locals

structVars == <<cron, jobs, jobNames, started>>
cronVars   == <<created, running, entries, inflight>>
localVars  == <<c, newJobs, prevJobs>>
vars       == <<structVars, cronVars, pc, op, localVars, ret>>

TypeOK ==
  /\ cron \in {nil} \cup Crons
  /\ jobs \in Seq(Job)
  /\ jobNames \in Seq(Names)
  /\ started \in BOOLEAN
  /\ created \in 0..MaxCrons
  /\ running \subseteq Crons
  /\ entries \in [Crons -> SUBSET Job]
  /\ inflight \in [Crons -> [Job -> Nat]]
  /\ pc \in {"init", "idle", "swap", "stop", "wait", "start", "restart", "done"}
  /\ op \in {"none", "replace", "now", "graceful"}
  /\ c \in {nil} \cup Crons
  /\ pc = "wait" => c \in Crons
  /\ newJobs \in Seq(Job)
  /\ prevJobs \in Seq(Job)
  /\ ret \in {"none", "ok", "recovered", "failed"}

Init ==
  /\ cron = nil
  /\ jobs = <<>>
  /\ jobNames = <<>>
  /\ started = FALSE
  /\ created = 0
  /\ running = {}
  /\ entries = [k \in Crons |-> {}]
  /\ inflight = [k \in Crons |-> NoRuns]
  /\ pc = "init"
  /\ op = "none"
  /\ c = nil
  /\ newJobs = <<>>
  /\ prevJobs = <<>>
  /\ ret = "none"

-------------------------------------------------------------------------------
(* Cron instances *)

(* The loop of a running instance starts the job of a due entry in a       *)
(* goroutine of its own, whether or not its previous run has ended.        *)
Tick(k, j) ==
  /\ k \in running
  /\ j \in entries[k]
  /\ inflight[k][j] < MaxRuns
  /\ inflight' = [inflight EXCEPT ![k][j] = @ + 1]
  /\ UNCHANGED <<structVars, created, running, entries, pc, op, localVars, ret>>

(* A run returns (its goroutine's deferred jobWaiter.Done). *)
Finish(k, j) ==
  /\ inflight[k][j] > 0
  /\ inflight' = [inflight EXCEPT ![k][j] = @ - 1]
  /\ UNCHANGED <<structVars, created, running, entries, pc, op, localVars, ret>>

(* Stop ends the instance's loop before it returns. *)
Halt(k) == running' = running \ {k}

(* The context Stop returns is done when no run of the instance is left. *)
AllRunsDone(k) == inflight[k] = NoRuns

-------------------------------------------------------------------------------
(* Start *)

(* What /active answers: a copy taken under the lock. *)
ActiveJobNames == jobNames

AddJobFails(l) == Range(l) \cap Fragile # {}

NamesOf(l) == [i \in DOMAIN l |-> NameOf[l[i]]]

\* Mutated: the job names of the struct are those of the jobs it replaces.
StartStaleNames(l) ==
  /\ ~started
  /\ created' = created + 1
  /\ entries' = [entries EXCEPT ![created'] = Range(l)]
  /\ running' = running \cup {created'}
  /\ cron' = created'
  /\ jobs' = l
  /\ jobNames' = NamesOf(jobs)
  /\ started' = TRUE
  /\ UNCHANGED inflight

Start(l) ==
  /\ ~started
  /\ created' = created + 1
  /\ entries' = [entries EXCEPT ![created'] = Range(l)]
  /\ running' = running \cup {created'}
  /\ cron' = created'
  /\ jobs' = l
  /\ jobNames' = NamesOf(l)
  /\ started' = TRUE
  /\ UNCHANGED inflight

(* Start returns an error and leaves the struct alone; the instance it     *)
(* was filling was never started.                                          *)
StartFails(l) ==
  /\ started \/ AddJobFails(l)
  /\ UNCHANGED <<structVars, cronVars>>

(* The owner's first call; an error here ends the program. *)
CallStart(l) ==
  /\ pc = "init"
  /\ \/ Start(l) /\ pc' = "idle" /\ ret' = "ok"
     \/ StartFails(l) /\ pc' = "done" /\ ret' = "failed"
  /\ UNCHANGED <<op, localVars>>

-------------------------------------------------------------------------------
(* StopNow, StopGraceful and the stop inside ReplaceJobs *)

CallStop(o) ==
  /\ pc = "idle"
  /\ o \in {"now", "graceful"}
  /\ pc' = "swap"
  /\ op' = o
  /\ UNCHANGED <<structVars, cronVars, localVars, ret>>

\* Mutated: the names go out of the struct with the instance.
SwapForgetsNames ==
  /\ pc = "swap"
  /\ c' = cron
  /\ cron' = nil
  /\ started' = FALSE
  /\ jobNames' = <<>>
  /\ pc' = "stop"
  /\ UNCHANGED <<jobs, cronVars, op, newJobs, prevJobs, ret>>

(* Under the lock: take the instance out of the struct. *)
Swap ==
  /\ pc = "swap"
  /\ c' = cron
  /\ cron' = nil
  /\ started' = FALSE
  /\ pc' = "stop"
  /\ UNCHANGED <<jobs, jobNames, cronVars, op, newJobs, prevJobs, ret>>

AfterStop == IF op = "replace" THEN "start" ELSE "done"

\* Mutated: the instance is waited for although there may be none.
StopUnchecked ==
  /\ pc = "stop"
  /\ Halt(c)
  /\ pc' = IF op = "now" THEN AfterStop ELSE "wait"
  /\ UNCHANGED <<structVars, created, entries, inflight, op, localVars, ret>>

\* Mutated: ReplaceJobs stops the way StopNow does.
StopReplaceNow ==
  /\ pc = "stop"
  /\ Halt(c)
  /\ pc' = IF c = nil \/ op # "graceful" THEN AfterStop ELSE "wait"
  /\ UNCHANGED <<structVars, created, entries, inflight, op, localVars, ret>>

\* Mutated: nobody waits on the context.
StopNeverWaits ==
  /\ pc = "stop"
  /\ Halt(c)
  /\ pc' = AfterStop
  /\ UNCHANGED <<structVars, created, entries, inflight, op, localVars, ret>>

\* Mutated: the instance is dropped but never told to stop.
StopForgets ==
  /\ pc = "stop"
  /\ pc' = IF c = nil \/ op = "now" THEN AfterStop ELSE "wait"
  /\ UNCHANGED <<structVars, cronVars, op, localVars, ret>>

(* After the lock: stop the instance, if there was one. *)
Stop ==
  /\ pc = "stop"
  /\ Halt(c)
  /\ pc' = IF c = nil \/ op = "now" THEN AfterStop ELSE "wait"
  /\ UNCHANGED <<structVars, created, entries, inflight, op, localVars, ret>>

Await ==
  /\ pc = "wait"
  /\ AllRunsDone(c)
  /\ pc' = AfterStop
  /\ UNCHANGED <<structVars, cronVars, op, localVars, ret>>

-------------------------------------------------------------------------------
(* ReplaceJobs *)

CallReplace(l) ==
  /\ pc = "idle"
  /\ created < MaxCrons
  /\ pc' = "swap"
  /\ op' = "replace"
  /\ newJobs' = l
  /\ prevJobs' = jobs
  /\ UNCHANGED <<structVars, cronVars, c, ret>>

StartNew ==
  /\ pc = "start"
  /\ \/ Start(newJobs) /\ pc' = "idle" /\ ret' = "ok"
     \/ /\ StartFails(newJobs)
        /\ pc' = IF prevJobs # <<>> THEN "restart" ELSE "idle"
        /\ ret' = "failed"
  /\ UNCHANGED <<op, localVars>>

\* Mutated: the fallback starts the new jobs again instead of the previous.
RestartNew ==
  /\ pc = "restart"
  /\ \/ Start(newJobs) /\ ret' = "recovered"
     \/ StartFails(prevJobs) /\ ret' = "failed"
  /\ pc' = "idle"
  /\ UNCHANGED <<op, localVars>>

Restart ==
  /\ pc = "restart"
  /\ \/ Start(prevJobs) /\ ret' = "recovered"
     \/ StartFails(prevJobs) /\ ret' = "failed"
  /\ pc' = "idle"
  /\ UNCHANGED <<op, localVars>>

-------------------------------------------------------------------------------
Owner == Swap \/ Stop \/ Await \/ StartNew \/ Restart

Next ==
  \/ \E k \in Crons, j \in Job : Tick(k, j) \/ Finish(k, j)
  \/ \E l \in JobLists : CallStart(l) \/ CallReplace(l)
  \/ \E o \in {"now", "graceful"} : CallStop(o)
  \/ Owner

Spec == Init /\ [][Next]_vars

(* Go schedules a runnable goroutine, so the owner takes its steps, and    *)
(* every run is assumed to return.                                         *)
FairSpec ==
  /\ Spec
  /\ WF_vars(Owner)
  /\ \A k \in Crons, j \in Job : WF_vars(Finish(k, j))

-------------------------------------------------------------------------------
(* Properties *)

Idle(k) == inflight[k] = NoRuns

(* At most one cron instance fires, and while one does every run in        *)
(* flight is its own: the graceful replacement of ReplaceJobs.             *)
OneGeneration ==
  \A k, m \in Crons : k \in running /\ (m \in running \/ ~Idle(m)) => m = k

(* When StopGraceful returns to main, which then exits the process, no     *)
(* run is left to be cut short.                                            *)
GracefulStopDrains ==
  pc = "done" /\ op = "graceful" => \A k \in Crons : Idle(k)

(* Between calls the struct never mixes two generations.  /active names    *)
(* the jobs in it, and: when the scheduler is started they are what the    *)
(* one firing instance has; when it is not, nothing fires, the last        *)
(* ReplaceJobs has said so, and they are still the jobs from before that   *)
(* call, which the next ReplaceJobs falls back to.  (That /active goes on  *)
(* listing them is the subject of ActiveIsScheduled.)                      *)
RestAgrees ==
  pc = "idle" =>
    /\ ActiveJobNames = NamesOf(jobs)
    /\ IF started
         THEN running = {cron} /\ entries[cron] = Range(jobs)
         ELSE /\ running = {}
              /\ op = "replace" /\ ret = "failed"
              /\ jobs = prevJobs

(* Between calls, ActiveJobNames returns "the currently scheduled job      *)
(* names", those of the entries of firing instances.  Not so after a       *)
(* ReplaceJobs whose fallback failed too: the struct keeps the old names.  *)
ActiveIsScheduled ==
  pc = "idle" =>
    Range(ActiveJobNames) = {NameOf[j] : j \in UNION {entries[k] : k \in running}}

(* What ReplaceJobs returns tells its caller which jobs are scheduled:     *)
(* nil the new ones, "previous scheduler restarted" the old ones, and the  *)
(* other errors none at all.                                               *)
ReplaceOutcome ==
  pc = "idle" /\ op = "replace" =>
    CASE ret = "ok"        -> running = {cron} /\ entries[cron] = Range(newJobs)
      [] ret = "recovered" -> running = {cron} /\ entries[cron] = Range(prevJobs)
      [] OTHER             -> running = {}

(* /active lists the job of every run in flight at any moment: during the  *)
(* drain of a reload, after a reload that failed or fell back, and after a *)
(* StopNow that gave runs up.                                              *)
ActiveCoversRuns ==
  \A k \in Crons, j \in Job :
    inflight[k][j] > 0 => NameOf[j] \in Range(ActiveJobNames)

(* From the moment Stop has returned until a Start, no run begins.         *)
QuietWhileStopped ==
  [][(pc \in {"wait", "start", "restart", "done"}) =>
       \A k \in Crons, j \in Job : inflight'[k][j] <= inflight[k][j]]_vars

(* A call made on the scheduler returns: the drain cannot be kept going    *)
(* by runs started meanwhile.                                              *)
CallsReturn == (pc = "swap") ~> (pc \in {"idle", "done"})

Promise == INSTANCE GracefulSchedule WITH
  active <- UNION {entries[k] : k \in running},
  busy   <- {j \in Job : \E k \in Crons : inflight[k][j] > 0},
  closed <- pc = "done"

(* The scheduler keeps the promise of GracefulSchedule.                    *)
KeepsPromise == Promise!Spec
===============================================================================
