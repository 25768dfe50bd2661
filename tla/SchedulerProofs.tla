--------------------------- MODULE SchedulerProofs ---------------------------
(***************************************************************************)
(* Proofs about Scheduler, for every value of its constants.               *)
(***************************************************************************)
EXTENDS Scheduler, TLAPS

(* Which instance can fire, read off where the owner is: the struct's,     *)
(* except between taking it out of the struct and stopping it.             *)
OneLive ==
  /\ running = IF pc = "stop" THEN {c} \ {nil} ELSE {cron} \ {nil}
  /\ pc \in {"init", "stop", "wait", "start", "restart", "done"} => cron = nil
  /\ started <=> cron # nil

(* Runs of an instance that no longer fires exist only while the owner     *)
(* waits for them, or after StopNow gave them up.                          *)
Drained ==
  \A k \in Crons :
    ~Idle(k) => \/ k \in running
                \/ pc = "wait" /\ k = c
                \/ pc = "done" /\ op = "now"

(* Where the owner can be in which call. *)
InCall ==
  /\ pc \in {"swap", "stop"} => op # "none"
  /\ pc = "wait" => op \in {"replace", "graceful"}
  /\ pc \in {"start", "restart"} => op = "replace"
  /\ pc = "init" => created = 0 /\ op = "none"

(* While a replacement goes on, and after one that failed altogether, the  *)
(* struct holds the jobs it was called to replace.                         *)
KeepsPrevious ==
  /\ pc \in {"swap", "stop", "wait", "start", "restart"} /\ op = "replace"
       => jobs = prevJobs
  /\ pc = "idle" /\ ~started
       => op = "replace" /\ ret = "failed" /\ jobs = prevJobs

(* The bound MaxCrons is taken when a replacement begins, so the Start     *)
(* that ends it still has an instance to make.                             *)
Room ==
  pc \in {"swap", "stop", "wait", "start", "restart"} /\ op = "replace"
    => created < MaxCrons

(* The struct describes the instance that fires, and keeps describing it   *)
(* when the instance is taken out of it.                                   *)
StructAgrees ==
  /\ jobNames = NamesOf(jobs)
  /\ \A k \in running : entries[k] = Range(jobs)

(* Every run in flight is of one of the jobs in the struct: those are only *)
(* replaced when no run is left.                                           *)
RunsListed ==
  \A k \in Crons, j \in Job : inflight[k][j] > 0 => j \in Range(jobs)

IInv ==
  /\ TypeOK
  /\ OneLive
  /\ Drained
  /\ InCall
  /\ KeepsPrevious
  /\ Room
  /\ StructAgrees
  /\ RunsListed

-------------------------------------------------------------------------------
(* The names of a job list are a sequence of names (Start's names). *)
LEMMA NamesType == \A l \in Seq(Job) : NamesOf(l) \in Seq(Names)
<1> SUFFICES ASSUME NEW l \in Seq(Job) PROVE NamesOf(l) \in Seq(Names)
  OBVIOUS
<1>1. /\ DOMAIN l = 1..Len(l)
      /\ Len(l) \in Nat
      /\ \A i \in DOMAIN l : l[i] \in Job
  OBVIOUS
<1>2. \A i \in 1..Len(l) : NameOf[l[i]] \in Names
  BY <1>1, SchedulerAssumption
<1> QED
  BY <1>1, <1>2, SMTT(30) DEF NamesOf

(* The jobs of a job list are jobs (the entries Start fills an instance with). *)
LEMMA RangeType == \A l \in Seq(Job) : Range(l) \subseteq Job
  BY DEF Range

(* The scheduler begins in a state of the inductive invariant: NewScheduler  *)
(* makes an empty struct.                                                    *)
LEMMA InitInv == Init => IInv
<1> SUFFICES ASSUME Init PROVE IInv
  OBVIOUS
<1>a. NoRuns \in [Job -> Nat]
  BY DEF NoRuns
<1>b. inflight \in [Crons -> [Job -> Nat]] /\ entries \in [Crons -> SUBSET Job]
  BY <1>a DEF Init
<1>c. jobs \in Seq(Job) /\ jobNames \in Seq(Names)
      /\ newJobs \in Seq(Job) /\ prevJobs \in Seq(Job)
  BY DEF Init
<1>d. created \in 0..MaxCrons
  BY SchedulerAssumption DEF Init
<1>1. TypeOK
  BY <1>b, <1>c, <1>d DEF Init, TypeOK
<1>2. OneLive /\ InCall /\ KeepsPrevious /\ Room
  BY DEF Init, OneLive, InCall, KeepsPrevious, Room, nil
<1>3. Drained /\ RunsListed
  BY DEF Init, Drained, RunsListed, Idle, NoRuns
<1>4. jobNames = NamesOf(jobs)
  BY DEF Init, NamesOf
<1>5. StructAgrees
  BY <1>4 DEF Init, StructAgrees
<1> QED
  BY <1>1, <1>2, <1>3, <1>5 DEF IInv

(* A successful Start from a state in which nothing is started and nothing   *)
(* runs: what it leaves behind, whoever called it.                           *)
LEMMA StartEffect ==
  ASSUME IInv, NEW l \in Seq(Job), Start(l), created < MaxCrons,
         pc \in {"init", "start", "restart"}
  PROVE  /\ created' \in Crons /\ cron' = created' /\ running' = {cron'}
         /\ started' = TRUE /\ jobs' = l /\ jobNames' = NamesOf(l)
         /\ entries' = [entries EXCEPT ![cron'] = Range(l)]
         /\ entries' \in [Crons -> SUBSET Job]
         /\ entries'[cron'] = Range(l)
         /\ inflight' = inflight
         /\ running = {}
         /\ \A k \in Crons : Idle(k)
<1>1. cron = nil /\ running = {}
  BY DEF IInv, OneLive
<1>2. created' \in Crons
  BY SchedulerAssumption DEF IInv, TypeOK, Start, Crons
<1>3. running' = {created'} /\ cron' = created'
  BY <1>1 DEF Start
<1>4. \A k \in Crons : Idle(k)
  BY <1>1 DEF IInv, Drained
<1>5. entries' = [entries EXCEPT ![cron'] = Range(l)]
  BY <1>3 DEF Start
<1>6. entries' \in [Crons -> SUBSET Job] /\ entries'[cron'] = Range(l)
  BY <1>2, <1>3, <1>5, RangeType DEF IInv, TypeOK
<1> QED
  BY <1>1, <1>2, <1>3, <1>4, <1>5, <1>6 DEF Start

(* Start followed by "the owner is idle", the way CallStart, StartNew and    *)
(* Restart all end when they succeed, restores the inductive invariant.      *)
LEMMA StartInv ==
  ASSUME IInv, NEW l \in Seq(Job), Start(l), created < MaxCrons,
         pc \in {"init", "start", "restart"}, pc' = "idle",
         UNCHANGED <<op, localVars>>, ret' \in {"ok", "recovered"}
  PROVE  IInv'
<1>1. /\ created' \in Crons /\ cron' = created' /\ running' = {cron'}
      /\ started' = TRUE /\ jobs' = l /\ jobNames' = NamesOf(l)
      /\ entries' \in [Crons -> SUBSET Job]
      /\ entries'[cron'] = Range(l)
      /\ inflight' = inflight
      /\ \A k \in Crons : Idle(k)
  BY StartEffect
<1>2. TypeOK'
  BY <1>1, NamesType DEF IInv, TypeOK, Crons, localVars
<1>3. OneLive'
  BY <1>1 DEF OneLive, Crons, nil
<1>4. Drained' /\ RunsListed'
  BY <1>1 DEF Drained, RunsListed, Idle, NoRuns
<1>5. InCall' /\ KeepsPrevious' /\ Room' /\ StructAgrees'
  BY <1>1 DEF InCall, KeepsPrevious, Room, StructAgrees, NamesOf
<1> QED
  BY <1>2, <1>3, <1>4, <1>5 DEF IInv

(* Every step of cron, of a run or of the owner preserves the invariant. *)
LEMMA NextInv == IInv /\ [Next]_vars => IInv'
<1> SUFFICES ASSUME IInv, [Next]_vars PROVE IInv'
  OBVIOUS
<1> USE DEF IInv
<1>1. ASSUME NEW k \in Crons, NEW j \in Job, Tick(k, j) PROVE IInv'
  <2>1. /\ k \in running
        /\ inflight' = [inflight EXCEPT ![k][j] = @ + 1]
        /\ UNCHANGED <<structVars, created, running, entries, pc, op, localVars, ret>>
    BY <1>1 DEF Tick
  <2>2. inflight' \in [Crons -> [Job -> Nat]]
    BY <2>1 DEF TypeOK
  <2>3. TypeOK'
    BY <2>1, <2>2 DEF TypeOK, structVars, localVars
  <2>4. \A m \in Crons : m # k => inflight'[m] = inflight[m]
    BY <2>1 DEF TypeOK
  <2>5. Drained'
    BY <2>1, <2>4 DEF Drained, Idle, localVars
  <2>6. OneLive' /\ InCall' /\ KeepsPrevious' /\ Room' /\ StructAgrees'
    BY <2>1 DEF OneLive, InCall, KeepsPrevious, Room, StructAgrees, NamesOf, structVars, localVars
  <2>7. j \in Range(jobs)
    BY <1>1, <2>1 DEF Tick, StructAgrees
  <2>8. \A m \in Crons, h \in Job :
          inflight'[m][h] > 0 => inflight[m][h] > 0 \/ h = j
    BY <2>1 DEF TypeOK
  <2>9. RunsListed'
    BY <2>1, <2>7, <2>8 DEF RunsListed, structVars
  <2> QED
    BY <2>3, <2>5, <2>6, <2>9
<1>2. ASSUME NEW k \in Crons, NEW j \in Job, Finish(k, j) PROVE IInv'
  <2>1. /\ inflight[k][j] > 0
        /\ inflight' = [inflight EXCEPT ![k][j] = @ - 1]
        /\ UNCHANGED <<structVars, created, running, entries, pc, op, localVars, ret>>
    BY <1>2 DEF Finish
  <2>2. inflight' \in [Crons -> [Job -> Nat]]
    <3>1. inflight[k][j] - 1 \in Nat
      BY <2>1 DEF TypeOK
    <3> QED
      BY <2>1, <3>1 DEF TypeOK
  <2>3. TypeOK'
    BY <2>1, <2>2 DEF TypeOK, structVars, localVars
  <2>4. \A m \in Crons : m # k => inflight'[m] = inflight[m]
    BY <2>1 DEF TypeOK
  <2>5. ~Idle(k)
    BY <2>1 DEF Idle, NoRuns
  <2>6. Drained'
    BY <2>1, <2>4, <2>5 DEF Drained, Idle, localVars
  <2>7. OneLive' /\ InCall' /\ KeepsPrevious' /\ Room' /\ StructAgrees'
    BY <2>1 DEF OneLive, InCall, KeepsPrevious, Room, StructAgrees, NamesOf, structVars, localVars
  <2>8. \A m \in Crons, h \in Job : inflight'[m][h] > 0 => inflight[m][h] > 0
    BY <2>1 DEF TypeOK
  <2>9. RunsListed'
    BY <2>1, <2>8 DEF RunsListed, structVars
  <2> QED
    BY <2>3, <2>6, <2>7, <2>9
<1>3. ASSUME NEW l \in JobLists, CallStart(l) PROVE IInv'
  <2>1. l \in Seq(Job)
    BY SchedulerAssumption
  <2>2. CASE Start(l) /\ pc' = "idle" /\ ret' = "ok"
    <3>1. created < MaxCrons
      BY <1>3, SchedulerAssumption DEF CallStart, InCall
    <3> QED
      BY <1>3, <2>1, <2>2, <3>1, StartInv DEF CallStart
  <2>3. CASE StartFails(l) /\ pc' = "done" /\ ret' = "failed"
    <3>1. TypeOK'
      BY <1>3, <2>3 DEF CallStart, StartFails, TypeOK, structVars, cronVars, localVars
    <3>2. Drained' /\ RunsListed'
      BY <1>3, <2>3 DEF CallStart, StartFails, Drained, RunsListed, Idle, structVars, cronVars, localVars
    <3>3. OneLive' /\ InCall' /\ KeepsPrevious' /\ Room' /\ StructAgrees'
      BY <1>3, <2>3 DEF CallStart, StartFails, OneLive, InCall, KeepsPrevious, Room, StructAgrees,
                        NamesOf, structVars, cronVars, localVars
    <3> QED
      BY <3>1, <3>2, <3>3
  <2> QED
    BY <1>3, <2>2, <2>3 DEF CallStart
<1>4. ASSUME NEW l \in JobLists, CallReplace(l) PROVE IInv'
  <2>1. l \in Seq(Job)
    BY SchedulerAssumption
  <2>2. TypeOK'
    BY <1>4, <2>1 DEF CallReplace, TypeOK, structVars, cronVars
  <2>3. Drained' /\ RunsListed'
    BY <1>4 DEF CallReplace, Drained, RunsListed, Idle, structVars, cronVars
  <2>4. OneLive' /\ InCall' /\ KeepsPrevious' /\ Room' /\ StructAgrees'
    BY <1>4 DEF CallReplace, OneLive, InCall, KeepsPrevious, Room, StructAgrees, NamesOf,
                structVars, cronVars
  <2> QED
    BY <2>2, <2>3, <2>4
<1>5. ASSUME NEW o \in {"now", "graceful"}, CallStop(o) PROVE IInv'
  <2>1. TypeOK'
    BY <1>5 DEF CallStop, TypeOK, structVars, cronVars, localVars
  <2>2. Drained' /\ RunsListed'
    BY <1>5 DEF CallStop, Drained, RunsListed, Idle, structVars, cronVars, localVars
  <2>3. OneLive' /\ InCall' /\ KeepsPrevious' /\ Room' /\ StructAgrees'
    BY <1>5 DEF CallStop, OneLive, InCall, KeepsPrevious, Room, StructAgrees, NamesOf,
                structVars, cronVars, localVars
  <2> QED
    BY <2>1, <2>2, <2>3
<1>6. CASE Swap
  <2>1. TypeOK'
    BY <1>6 DEF Swap, TypeOK, cronVars
  <2>2. Drained' /\ RunsListed'
    BY <1>6 DEF Swap, Drained, RunsListed, Idle, cronVars
  <2>3. OneLive' /\ InCall' /\ KeepsPrevious' /\ Room' /\ StructAgrees'
    BY <1>6 DEF Swap, OneLive, InCall, KeepsPrevious, Room, StructAgrees, NamesOf, cronVars, nil
  <2> QED
    BY <2>1, <2>2, <2>3
<1>7. CASE Stop
  <2>1. running = {c} \ {nil} /\ running' = {}
    BY <1>7 DEF Stop, Halt, OneLive
  <2>2. /\ pc' \in {"start", "done", "wait"}
        /\ c' = c /\ cron' = cron /\ started' = started /\ cron = nil
        /\ pc' = "wait" => c # nil
    BY <1>7 DEF Stop, AfterStop, OneLive, structVars, localVars
  <2>3. TypeOK'
    BY <1>7, <2>1, <2>2 DEF Stop, TypeOK, structVars, localVars
  <2>4. Drained' /\ RunsListed'
    BY <1>7, <2>1 DEF Stop, AfterStop, Drained, RunsListed, Idle, TypeOK, structVars, localVars
  <2>5. OneLive'
    BY <2>1, <2>2 DEF OneLive, TypeOK
  <2>6. InCall' /\ KeepsPrevious' /\ Room' /\ StructAgrees'
    BY <1>7, <2>1 DEF Stop, AfterStop, TypeOK, InCall, KeepsPrevious, Room, StructAgrees, NamesOf,
                      structVars, localVars
  <2> QED
    BY <2>3, <2>4, <2>5, <2>6
<1>8. CASE Await
  <2>1. pc' \in {"start", "done"}
    BY <1>8 DEF Await, AfterStop
  <2>2. TypeOK'
    BY <1>8, <2>1 DEF Await, TypeOK, structVars, cronVars, localVars
  <2>3. Drained' /\ RunsListed'
    BY <1>8 DEF Await, AllRunsDone, Drained, RunsListed, Idle, structVars, cronVars, localVars
  <2>4. OneLive' /\ InCall' /\ KeepsPrevious' /\ Room' /\ StructAgrees'
    BY <1>8 DEF Await, AfterStop, OneLive, InCall, KeepsPrevious, Room, StructAgrees, NamesOf,
                structVars, cronVars, localVars
  <2> QED
    BY <2>2, <2>3, <2>4
<1>9. CASE StartNew
  <2>1. CASE Start(newJobs) /\ pc' = "idle" /\ ret' = "ok"
    <3>1. created < MaxCrons
      BY <1>9 DEF StartNew, InCall, KeepsPrevious, Room
    <3> QED
      BY <1>9, <2>1, <3>1, StartInv DEF StartNew, TypeOK
  <2>2. CASE StartFails(newJobs) /\ pc' \in {"idle", "restart"} /\ ret' = "failed"
    <3>1. TypeOK'
      BY <1>9, <2>2 DEF StartNew, StartFails, TypeOK, structVars, cronVars, localVars
    <3>2. Drained' /\ RunsListed'
      BY <1>9, <2>2 DEF StartNew, StartFails, Drained, RunsListed, Idle, structVars, cronVars, localVars
    <3>3. OneLive' /\ InCall' /\ KeepsPrevious' /\ Room' /\ StructAgrees'
      BY <1>9, <2>2 DEF StartNew, StartFails, OneLive, InCall, KeepsPrevious, Room, StructAgrees,
                        NamesOf, structVars, cronVars, localVars
    <3> QED
      BY <3>1, <3>2, <3>3
  <2> QED
    BY <1>9, <2>1, <2>2 DEF StartNew
<1>10. CASE Restart
  <2>1. CASE Start(prevJobs) /\ ret' = "recovered"
    <3>1. created < MaxCrons
      BY <1>10 DEF Restart, InCall, KeepsPrevious, Room
    <3> QED
      BY <1>10, <2>1, <3>1, StartInv DEF Restart, TypeOK
  <2>2. CASE StartFails(prevJobs) /\ ret' = "failed"
    <3>1. TypeOK'
      BY <1>10, <2>2 DEF Restart, StartFails, TypeOK, structVars, cronVars, localVars
    <3>2. Drained' /\ RunsListed'
      BY <1>10, <2>2 DEF Restart, StartFails, Drained, RunsListed, Idle, structVars, cronVars, localVars
    <3>3. OneLive' /\ InCall' /\ KeepsPrevious' /\ Room' /\ StructAgrees'
      BY <1>10, <2>2 DEF Restart, StartFails, OneLive, InCall, KeepsPrevious, Room, StructAgrees,
                         NamesOf, structVars, cronVars, localVars
    <3> QED
      BY <3>1, <3>2, <3>3
  <2> QED
    BY <1>10, <2>1, <2>2 DEF Restart
<1>11. CASE UNCHANGED vars
  BY <1>11 DEF vars, structVars, cronVars, localVars, TypeOK, OneLive, Drained,
               RunsListed, Idle, InCall, KeepsPrevious, Room, StructAgrees, NamesOf
<1> QED
  BY <1>1, <1>2, <1>3, <1>4, <1>5, <1>6, <1>7, <1>8, <1>9, <1>10, <1>11
     DEF Next, Owner

(* The inductive invariant holds in every reachable state. *)
THEOREM Invariance == Spec => []IInv
<1> QED
  BY InitInv, NextInv, PTL DEF Spec

(* Every variable of the scheduler, its cron instances and its owner keeps   *)
(* its type, for any jobs, job lists and bounds.                             *)
THEOREM TypeCorrect == Spec => []TypeOK
<1>1. IInv => TypeOK
  BY DEF IInv
<1> QED
  BY <1>1, Invariance, PTL

(* Start, ReplaceJobs and StopX never leave two cron instances firing, nor a *)
(* run of a former instance beside a firing one, however cron, the runs and  *)
(* the calls of the owner interleave.                                        *)
THEOREM OneGenerationHolds == Spec => []OneGeneration
<1>1. IInv => OneGeneration
  <2> SUFFICES ASSUME IInv, NEW k \in Crons, NEW m \in Crons,
                      k \in running, m \in running \/ ~Idle(m)
               PROVE  m = k
    BY DEF OneGeneration
  <2>1. CASE m \in running
    BY <2>1 DEF IInv, OneLive
  <2>2. CASE ~Idle(m) /\ m \notin running
    BY <2>2 DEF IInv, OneLive, Drained
  <2> QED
    BY <2>1, <2>2
<1> QED
  BY <1>1, Invariance, PTL

(* StopGraceful does not return to main, which exits the process, before the *)
(* last run has returned.                                                    *)
THEOREM GracefulStopDrainsHolds == Spec => []GracefulStopDrains
<1>1. IInv => GracefulStopDrains
  BY DEF IInv, OneLive, Drained, GracefulStopDrains
<1> QED
  BY <1>1, Invariance, PTL

(* Whatever sequence of starts, failed reloads and recoveries went before,   *)
(* a scheduler at rest reports and keeps the jobs its instance fires.        *)
THEOREM RestAgreesHolds == Spec => []RestAgrees
<1>1. IInv => RestAgrees
  BY DEF IInv, TypeOK, OneLive, StructAgrees, KeepsPrevious,
     RestAgrees, ActiveJobNames, nil, Crons
<1> QED
  BY <1>1, Invariance, PTL

(* /active lists the job of every run in flight, whatever the owner is doing *)
(* to the scheduler meanwhile, and whatever has failed before.               *)
THEOREM ActiveCoversRunsHolds == Spec => []ActiveCoversRuns
<1>1. IInv => ActiveCoversRuns
  <2> SUFFICES ASSUME IInv, NEW k \in Crons, NEW j \in Job, inflight[k][j] > 0
               PROVE  NameOf[j] \in Range(ActiveJobNames)
    BY DEF ActiveCoversRuns
  <2>1. PICK i \in DOMAIN jobs : jobs[i] = j
    BY DEF IInv, RunsListed, Range
  <2>2. jobNames = [n \in DOMAIN jobs |-> NameOf[jobs[n]]]
    BY DEF IInv, StructAgrees, NamesOf
  <2>3. i \in DOMAIN jobNames /\ jobNames[i] = NameOf[j]
    BY <2>1, <2>2
  <2> QED
    BY <2>3 DEF Range, ActiveJobNames
<1> QED
  BY <1>1, Invariance, PTL

(* No run begins between the moment Stop has returned and the next Start:    *)
(* the drain of a reload or of a graceful stop only ever shrinks.            *)
THEOREM QuietWhileStoppedHolds == Spec => QuietWhileStopped
<1>1. ASSUME IInv, [Next]_vars, pc \in {"wait", "start", "restart", "done"},
             NEW k \in Crons, NEW j \in Job
      PROVE  inflight'[k][j] <= inflight[k][j]
  <2>1. inflight[k][j] \in Nat /\ running = {}
    BY <1>1 DEF IInv, TypeOK, OneLive
  <2>2. CASE \E m \in Crons, i \in Job : Tick(m, i)
    BY <2>1, <2>2 DEF Tick
  <2>3. ASSUME NEW m \in Crons, NEW i \in Job, Finish(m, i)
        PROVE  inflight'[k][j] <= inflight[k][j]
    <3>1. inflight' = [inflight EXCEPT ![m][i] = inflight[m][i] - 1]
      BY <2>3 DEF Finish
    <3>2. inflight'[k][j] \in {inflight[k][j], inflight[k][j] - 1}
      BY <1>1, <3>1 DEF IInv, TypeOK
    <3> QED
      BY <2>1, <3>2
  <2>4. CASE inflight' = inflight
    BY <2>1, <2>4
  <2> QED
    BY <1>1, <2>2, <2>3, <2>4 DEF Next, Owner, CallStart, CallReplace, CallStop, Swap,
       Stop, Await, StartNew, Restart, Start, StartFails, vars, structVars, cronVars
<1>2. IInv /\ [Next]_vars =>
        [(pc \in {"wait", "start", "restart", "done"}) =>
           \A k \in Crons, j \in Job : inflight'[k][j] <= inflight[k][j]]_vars
  BY <1>1
<1> QED
  BY <1>2, Invariance, PTL DEF Spec, QuietWhileStopped

(* What ReplaceJobs returned is true of the scheduler until the next call:   *)
(* nil means the new jobs fire, "previous scheduler restarted" the previous  *)
(* ones, any other error that nothing does.                                  *)
THEOREM ReplaceOutcomeHolds == Spec => []ReplaceOutcome
<1>1. Init => ReplaceOutcome
  BY DEF Init, ReplaceOutcome
<1>2. IInv /\ ReplaceOutcome /\ [Next]_vars => ReplaceOutcome'
  <2> SUFFICES ASSUME IInv, ReplaceOutcome, [Next]_vars PROVE ReplaceOutcome'
    OBVIOUS
  <2>1. CASE \E k \in Crons, j \in Job : Tick(k, j) \/ Finish(k, j)
    BY <2>1 DEF Tick, Finish, ReplaceOutcome, structVars, localVars
  <2>2. CASE \E l \in JobLists : CallStart(l) \/ CallReplace(l)
    BY <2>2 DEF CallStart, CallReplace, ReplaceOutcome, IInv, InCall
  <2>3. CASE (\E o \in {"now", "graceful"} : CallStop(o)) \/ Swap \/ Stop
    BY <2>3 DEF CallStop, Swap, Stop, AfterStop, ReplaceOutcome
  <2>4. CASE Await
    BY <2>4 DEF Await, AfterStop, ReplaceOutcome
  <2>5. ASSUME NEW l \in Seq(Job), pc \in {"start", "restart"}, Start(l)
        PROVE  running' = {cron'} /\ entries'[cron'] = Range(l)
    <3>1. created < MaxCrons
      BY <2>5 DEF IInv, InCall, KeepsPrevious, Room
    <3> QED
      BY <2>5, <3>1, StartEffect
  <2>6. ASSUME NEW l, pc \in {"start", "restart"}, StartFails(l)
        PROVE  running' = {}
    BY <2>6 DEF StartFails, cronVars, IInv, OneLive
  <2>7. newJobs \in Seq(Job) /\ prevJobs \in Seq(Job)
    BY DEF IInv, TypeOK
  <2>8. CASE StartNew
    BY <2>5, <2>6, <2>7, <2>8 DEF StartNew, ReplaceOutcome, localVars
  <2>9. CASE Restart
    BY <2>5, <2>6, <2>7, <2>9 DEF Restart, ReplaceOutcome, localVars
  <2>10. CASE UNCHANGED vars
    BY <2>10 DEF vars, structVars, cronVars, localVars, ReplaceOutcome
  <2> QED
    BY <2>1, <2>2, <2>3, <2>4, <2>8, <2>9, <2>10 DEF Next, Owner
<1> QED
  BY <1>1, <1>2, Invariance, PTL DEF Spec

-------------------------------------------------------------------------------
(* The refinement of GracefulSchedule. *)

Active == UNION {entries[k] : k \in running}
Busy   == {j \in Job : \E k \in Crons : inflight[k][j] > 0}

(* Nothing is busy when every instance is idle. *)
LEMMA NoneBusy ==
  ASSUME IInv, \A k \in Crons : Idle(k)
  PROVE  Busy = {}
  BY DEF Busy, Idle, NoRuns

(* A successful Start is an Install of the set it was given. *)
LEMMA StartInstalls ==
  ASSUME IInv, NEW l \in Seq(Job), Start(l), created < MaxCrons,
         pc \in {"init", "start", "restart"}, pc' = "idle"
  PROVE  \E S \in SUBSET Job : Promise!Install(S)
<1>1. /\ running' = {cron'} /\ entries'[cron'] = Range(l) /\ inflight' = inflight
      /\ running = {} /\ \A k \in Crons : Idle(k)
  BY StartEffect
<1>2. Active = {} /\ Active' = Range(l)
  BY <1>1 DEF Active
<1>3. Busy = {} /\ Busy' = Busy
  BY <1>1, NoneBusy DEF Busy
<1>4. Range(l) \in SUBSET Job
  BY RangeType
<1>5. Promise!Install(Range(l))
  BY <1>2, <1>3 DEF Promise!Install, Active, Busy
<1> QED
  BY <1>4, <1>5

(* The scheduler implements the abstract schedule: a run begins only while   *)
(* its job is active, a set of jobs is installed only once nothing of the    *)
(* former one runs, and nothing is installed after the owner has stopped it. *)
THEOREM KeepsPromiseHolds == Spec => KeepsPromise
<1>1. Init => Promise!Init
  <2> SUFFICES ASSUME Init PROVE Promise!Init
    OBVIOUS
  <2>1. Active = {}
    BY DEF Init, Active
  <2>2. Busy = {}
    BY DEF Init, Busy, NoRuns
  <2> QED
    BY <2>1, <2>2 DEF Init, Promise!Init, Active, Busy
<1>2. IInv /\ [Next]_vars => [Promise!Next]_(Promise!vars)
  <2> SUFFICES ASSUME IInv, [Next]_vars
               PROVE  Promise!Next \/ UNCHANGED Promise!vars
    OBVIOUS
  <2>1. ASSUME NEW k \in Crons, NEW j \in Job, Tick(k, j)
        PROVE  Promise!Begin(j)
    <3>1. /\ k \in running /\ j \in entries[k]
          /\ inflight' = [inflight EXCEPT ![k][j] = inflight[k][j] + 1]
          /\ running' = running /\ entries' = entries /\ pc' = pc
      BY <2>1 DEF Tick
    <3>2. j \in Active /\ Active' = Active
      BY <3>1 DEF Active
    <3>3. \A m \in Crons, i \in Job :
            inflight'[m][i] = IF m = k /\ i = j THEN inflight[m][i] + 1
                                                ELSE inflight[m][i]
      BY <3>1 DEF IInv, TypeOK
    <3>4. inflight'[k][j] > 0
      BY <3>3 DEF IInv, TypeOK
    <3>5. \A i \in Job : i \in Busy' <=> i \in Busy \cup {j}
      BY <3>3, <3>4 DEF Busy
    <3>6. Busy' = Busy \cup {j}
      BY <3>5 DEF Busy
    <3> QED
      BY <3>1, <3>2, <3>6 DEF Promise!Begin, Active, Busy
  <2>2. ASSUME NEW k \in Crons, NEW j \in Job, Finish(k, j)
        PROVE  Promise!End(j) \/ UNCHANGED Promise!vars
    <3>1. /\ inflight' = [inflight EXCEPT ![k][j] = inflight[k][j] - 1]
          /\ running' = running /\ entries' = entries /\ pc' = pc
      BY <2>2 DEF Finish
    <3>2. Active' = Active
      BY <3>1 DEF Active
    <3>3. \A m \in Crons, i \in Job :
            i # j => inflight'[m][i] = inflight[m][i]
      BY <3>1 DEF IInv, TypeOK
    <3>4. \A i \in Job : i # j => (i \in Busy' <=> i \in Busy)
      BY <3>3 DEF Busy
    <3>5. j \in Busy
      BY <2>2 DEF Finish, Busy
    <3>6. Busy' = Busy \/ Busy' = Busy \ {j}
      BY <3>4, <3>5 DEF Busy
    <3> QED
      BY <3>1, <3>2, <3>6 DEF Promise!End, Promise!vars, Active, Busy
  <2>3. ASSUME NEW l \in JobLists, CallStart(l)
        PROVE  Promise!Next
    <3>1. CASE Start(l) /\ pc' = "idle"
      <4>1. created < MaxCrons /\ pc = "init" /\ l \in Seq(Job)
        BY <2>3, SchedulerAssumption DEF CallStart, IInv, InCall
      <4>2. \E S \in SUBSET Job : Promise!Install(S)
        BY <3>1, <4>1, StartInstalls
      <4> QED
        BY <4>2 DEF Promise!Next
    <3>2. CASE StartFails(l) /\ pc' = "done"
      <4>1. Active' = {} /\ Busy' = Busy
        BY <2>3, <3>2 DEF CallStart, StartFails, cronVars, IInv, OneLive, Active, Busy
      <4> QED
        BY <3>2, <4>1 DEF Promise!Next, Promise!Close, Active, Busy
    <3> QED
      BY <2>3, <3>1, <3>2 DEF CallStart
  <2>4. CASE (\E l \in JobLists : CallReplace(l)) \/ (\E o \in {"now", "graceful"} : CallStop(o)) \/ Swap
    <3>1. running' = running /\ entries' = entries /\ inflight' = inflight
      BY <2>4 DEF CallReplace, CallStop, Swap, cronVars
    <3>2. pc # "done" /\ pc' # "done"
      BY <2>4 DEF CallReplace, CallStop, Swap
    <3> QED
      BY <3>1, <3>2 DEF Promise!vars
  <2>5. CASE Stop
    <3>1. pc # "done" /\ running' = {} /\ entries' = entries /\ inflight' = inflight
      BY <2>5 DEF Stop, Halt, IInv, OneLive
    <3>2. Active' = {} /\ Busy' = Busy
      BY <3>1 DEF Active, Busy
    <3>3. CASE pc' = "done"
      BY <3>2, <3>3 DEF Promise!Next, Promise!Close, Active, Busy
    <3>4. CASE pc' # "done"
      BY <3>1, <3>2, <3>4 DEF Promise!Next, Promise!Suspend, Active, Busy
    <3> QED
      BY <3>3, <3>4
  <2>6. CASE Await
    <3>1. running = {} /\ running' = {} /\ entries' = entries /\ inflight' = inflight
      BY <2>6 DEF Await, cronVars, IInv, OneLive
    <3>2. Active' = {} /\ Active = {} /\ Busy' = Busy
      BY <3>1 DEF Active, Busy
    <3>3. CASE pc' = "done"
      BY <3>2, <3>3 DEF Promise!Next, Promise!Close, Active, Busy
    <3>4. CASE pc' # "done"
      BY <2>6, <3>2, <3>4 DEF Await, Promise!vars, Active, Busy
    <3> QED
      BY <3>3, <3>4
  <2>7. CASE StartNew \/ Restart
    <3>1. pc \in {"start", "restart"} /\ pc' # "done"
      BY <2>7 DEF StartNew, Restart
    <3>2. created < MaxCrons
      BY <3>1 DEF IInv, InCall, KeepsPrevious, Room
    <3>3. newJobs \in Seq(Job) /\ prevJobs \in Seq(Job)
      BY DEF IInv, TypeOK
    <3>4. CASE \E l \in {newJobs, prevJobs} : Start(l) /\ pc' = "idle"
      <4>1. \E S \in SUBSET Job : Promise!Install(S)
        BY <3>1, <3>2, <3>3, <3>4, StartInstalls
      <4> QED
        BY <4>1 DEF Promise!Next
    <3>5. CASE \E l \in {newJobs, prevJobs} : StartFails(l)
      BY <3>1, <3>5 DEF StartFails, cronVars, Promise!vars
    <3> QED
      BY <2>7, <3>4, <3>5 DEF StartNew, Restart
  <2>8. CASE UNCHANGED vars
    BY <2>8 DEF vars, cronVars, Promise!vars
  <2> QED
    BY <2>1, <2>2, <2>3, <2>4, <2>5, <2>6, <2>7, <2>8 DEF Next, Owner, Promise!Next
<1> QED
  BY <1>1, <1>2, Invariance, PTL DEF Spec, KeepsPromise, Promise!Spec

(* Whatever keeps the promise never runs two configurations at once, so the  *)
(* scheduler does not.                                                       *)
THEOREM OneConfigurationHolds == Spec => []Promise!OneConfiguration
<1> DEFINE AInv == Promise!TypeOK /\ Promise!OneConfiguration
<1>1. Promise!Init => AInv
  BY DEF Promise!Init, Promise!TypeOK, Promise!OneConfiguration
<1>2. AInv /\ [Promise!Next]_(Promise!vars) => AInv'
  BY DEF Promise!TypeOK, Promise!OneConfiguration, Promise!Next, Promise!vars,
         Promise!Begin, Promise!End, Promise!Suspend, Promise!Install, Promise!Close
<1>3. AInv => Promise!OneConfiguration
  OBVIOUS
<1> QED
  BY <1>1, <1>2, <1>3, KeepsPromiseHolds, PTL DEF KeepsPromise, Promise!Spec
===============================================================================
