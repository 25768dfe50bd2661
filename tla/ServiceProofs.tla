---------------------------- MODULE ServiceProofs ----------------------------
(***************************************************************************)
(* Proofs about Service: main uses the scheduler the way Scheduler assumes *)
(* of its owner, so what is proved of Scheduler holds in the daemon, and   *)
(* what is said of the daemon follows from it.                             *)
(***************************************************************************)
EXTENDS Service, SchedulerProofs

(* Where main is tells where the owner is. *)
MainAndOwner ==
  /\ phase \in {"read", "specified", "start"} => pc = "init"
  /\ phase \in {"refresh", "loop", "reread", "refreshNew"} => pc = "idle"
  /\ phase = "replacing" =>
       pc \in {"swap", "stop", "wait", "start", "restart"} /\ op = "replace"
  /\ phase = "stopping" =>
       /\ pc \in {"swap", "stop", "wait"}
       /\ op \in {"now", "graceful"}
       /\ op = "now" => cause = "INT"

(* main has read jobs before it starts or replaces any. *)
HasLoaded ==
  phase \in {"specified", "start", "refreshNew"} => loaded \in JobLists

(* What the owner's last return value says of the schedule, and how long   *)
(* what main has read is what is scheduled.                                *)
Scheduled ==
  /\ pc = "idle" => (started <=> ret # "failed")
  /\ phase \in {"refresh", "loop", "reread"} /\ ret = "ok" => jobs = loaded
  /\ phase = "replacing" => newJobs = loaded

SInv ==
  /\ IInv
  /\ ServiceTypeOK
  /\ MainAndOwner
  /\ HasLoaded
  /\ Scheduled

-------------------------------------------------------------------------------
(* Every step of the daemon is a step of cron, of a run or of the owner of   *)
(* the scheduler, or leaves them all alone.                                  *)
LEMMA SchedulerStep == SInv /\ [ServiceNext]_svars => [Next]_vars
<1> SUFFICES ASSUME SInv, [ServiceNext]_svars PROVE [Next]_vars
  OBVIOUS
<1>1. CASE Read \/ RunSpecified \/ Notify \/ TakeReload \/ Reread
  BY <1>1 DEF Read, RunSpecified, Notify, TakeReload, Reread
<1>2. CASE StartScheduler
  BY <1>2 DEF StartScheduler, SInv, HasLoaded, Next
<1>3. CASE Replace
  BY <1>3 DEF Replace, SInv, HasLoaded, Next
<1>4. ASSUME NEW s \in Signals, TakeStop(s) PROVE Next
  BY <1>4 DEF TakeStop, StopOp, Next
<1>5. CASE CallStep
  BY <1>5 DEF CallStep, Next
<1>6. CASE Jobs
  BY <1>6 DEF Jobs, Next
<1>7. CASE (\E s \in Signals : Send(s)) \/ (\E d \in Contents : Edit(d))
  BY <1>7 DEF Send, Edit
<1>8. CASE UNCHANGED svars
  BY <1>8 DEF svars
<1> QED
  BY <1>1, <1>2, <1>3, <1>4, <1>5, <1>6, <1>7, <1>8 DEF ServiceNext, Main

(* The daemon begins in a state of the inductive invariant. *)
LEMMA ServiceInitInv == ServiceInit => SInv
<1> SUFFICES ASSUME ServiceInit PROVE SInv
  OBVIOUS
<1>1. IInv
  BY InitInv DEF ServiceInit
<1>2. pc = "init" /\ ret = "none"
  BY DEF ServiceInit, Init
<1>a. asked \in BOOLEAN
  BY DEF ServiceInit
<1>b. sent \in 0..MaxSignals /\ edits \in 0..MaxEdits
  BY ServiceAssumption DEF ServiceInit
<1>3. ServiceTypeOK
  BY <1>1, <1>a, <1>b DEF IInv, ServiceInit, ServiceTypeOK, BeforeNotify
<1>4. MainAndOwner /\ HasLoaded /\ Scheduled
  BY <1>2 DEF ServiceInit, MainAndOwner, HasLoaded, Scheduled
<1> QED
  BY <1>1, <1>3, <1>4 DEF SInv

(* What main relies on of a call it is blocked in: where its steps lead, and *)
(* what is true of the scheduler when it returns.                            *)
LEMMA OwnerStep ==
  ASSUME SInv, CallStep
  PROVE  /\ op' = op /\ newJobs' = newJobs
         /\ phase = "replacing" =>
              /\ pc' \in {"swap", "stop", "wait", "start", "restart", "idle"}
              /\ pc' = "idle" => /\ started' <=> ret' # "failed"
                                 /\ ret' = "ok" => jobs' = newJobs
         /\ phase = "stopping" => pc' \in {"swap", "stop", "wait", "done"}
<1> USE DEF SInv, MainAndOwner
<1>1. phase \in {"replacing", "stopping"} /\ Owner
  BY DEF CallStep
<1>2. CASE Swap
  BY <1>1, <1>2 DEF Swap
<1>3. CASE Stop
  BY <1>1, <1>3 DEF Stop, AfterStop, localVars
<1>4. CASE Await
  BY <1>1, <1>4 DEF Await, AfterStop, localVars
<1>5. CASE StartNew
  <2>1. pc = "start" /\ phase = "replacing" /\ ~started
    BY <1>1, <1>5 DEF StartNew, IInv, OneLive
  <2> QED
    BY <1>5, <2>1 DEF StartNew, Start, StartFails, structVars, localVars
<1>6. CASE Restart
  <2>1. pc = "restart" /\ phase = "replacing" /\ ~started
    BY <1>1, <1>6 DEF Restart, IInv, OneLive
  <2> QED
    BY <1>6, <2>1 DEF Restart, Start, StartFails, structVars, localVars
<1> QED
  BY <1>1, <1>2, <1>3, <1>4, <1>5, <1>6 DEF Owner

(* Every step of main, of the jobs and of the world preserves the invariant. *)
LEMMA ServiceNextInv == SInv /\ [ServiceNext]_svars => SInv'
<1> SUFFICES ASSUME SInv, [ServiceNext]_svars PROVE SInv'
  OBVIOUS
<1>0. IInv'
  BY SchedulerStep, NextInv DEF SInv
<1>t. TypeOK'
  BY <1>0 DEF IInv
<1> DEFINE Rest == ServiceTypeOK' /\ MainAndOwner' /\ HasLoaded' /\ Scheduled'
<1> USE DEF SInv, ServiceTypeOK, MainAndOwner, HasLoaded, Scheduled, BeforeNotify, Ended
<1>1. CASE Read
  BY <1>1, <1>0, <1>t DEF Read, Fatal, Contents, vars, structVars, localVars, envVars
<1>2. CASE RunSpecified
  BY <1>2, <1>0, <1>t DEF RunSpecified, Fatal, vars, structVars, localVars, envVars
<1>3. CASE StartScheduler
  <2>1. CASE Start(loaded) /\ pc' = "idle" /\ ret' = "ok"
    BY <1>3, <1>0, <1>t, <2>1 DEF StartScheduler, CallStart, Start, envVars, localVars
  <2>2. CASE StartFails(loaded) /\ pc' = "done" /\ ret' = "failed"
    BY <1>3, <1>0, <1>t, <2>2 DEF StartScheduler, CallStart, Fatal, envVars, localVars
  <2> QED
    BY <1>3, <2>1, <2>2 DEF StartScheduler, CallStart
<1>4. CASE Notify
  BY <1>4, <1>0, <1>t DEF Notify, vars, structVars, localVars, envVars
<1>5. CASE TakeReload
  BY <1>5, <1>0, <1>t DEF TakeReload, vars, structVars, localVars, envVars
<1>6. CASE Reread
  BY <1>6, <1>0, <1>t DEF Reread, Contents, vars, structVars, localVars, envVars
<1>7. CASE Replace
  BY <1>7, <1>0, <1>t DEF Replace, CallReplace, envVars
<1>8. ASSUME NEW s \in Signals, TakeStop(s) PROVE Rest
  BY <1>8, <1>0, <1>t DEF TakeStop, CallStop, StopOp, Signals, envVars
<1>9. CASE CallStep
  <2>1. /\ phase \in {"replacing", "stopping"}
        /\ UNCHANGED <<loaded, sigCh, envVars, cause>>
        /\ phase' = CASE pc' = "idle" -> "loop"
                      [] pc' = "done" -> "exited"
                      [] OTHER        -> phase
    BY <1>9 DEF CallStep
  <2>2. CASE phase = "replacing"
    BY <1>9, <1>0, <1>t, <2>1, <2>2, OwnerStep DEF envVars
  <2>3. CASE phase = "stopping"
    BY <1>9, <1>0, <1>t, <2>1, <2>3, OwnerStep DEF envVars
  <2> QED
    BY <2>1, <2>2, <2>3
<1>10. CASE Jobs
  BY <1>10, <1>0, <1>t DEF Jobs, Tick, Finish, mainVars, structVars, localVars, envVars
<1>11. ASSUME NEW s \in Signals, Send(s) PROVE Rest
  BY <1>11, <1>0, <1>t, ServiceAssumption
     DEF Send, Deliver, Alive, vars, structVars, localVars
<1>12. ASSUME NEW d \in Contents, Edit(d) PROVE Rest
  <2>1. asked' \in BOOLEAN
    BY <1>12 DEF Edit
  <2>2. edits' \in 0..MaxEdits
    BY <1>12, ServiceAssumption DEF Edit
  <2> QED
    BY <1>12, <1>0, <1>t, <2>1, <2>2 DEF Edit, vars, mainVars, structVars, localVars
<1>13. CASE UNCHANGED svars
  BY <1>13, <1>0, <1>t DEF svars, vars, mainVars, structVars, localVars, envVars
<1> HIDE DEF ServiceTypeOK, MainAndOwner, HasLoaded, Scheduled
<1> QED
  BY <1>0, <1>1, <1>2, <1>3, <1>4, <1>5, <1>6, <1>7, <1>8, <1>9, <1>10, <1>11,
     <1>12, <1>13 DEF ServiceNext, Main

(* The inductive invariant of the daemon holds in every reachable state. *)
THEOREM ServiceInvariance == ServiceSpec => []SInv
<1> QED
  BY ServiceInitInv, ServiceNextInv, PTL DEF ServiceSpec

-------------------------------------------------------------------------------
(* main owns the scheduler the way Scheduler assumes of its owner: one call  *)
(* at a time, Start first, nothing after a stop.  So every theorem about     *)
(* Scheduler holds in the daemon, among them the ones named below.           *)
THEOREM ServiceIsOwner == ServiceSpec => Spec
<1>1. ServiceInit => Init
  BY DEF ServiceInit
<1> QED
  BY <1>1, SchedulerStep, ServiceInvariance, PTL DEF ServiceSpec, Spec

(* In the daemon, too, runs of two configurations never overlap, whatever    *)
(* signals arrive and however the job files change.                          *)
THEOREM ServiceKeepsPromise == ServiceSpec => KeepsPromise
<1> QED
  BY ServiceIsOwner, KeepsPromiseHolds, PTL

(* main's variables keep their types; the channel holds at most one signal.  *)
THEOREM ServiceTypeCorrect == ServiceSpec => []ServiceTypeOK
<1>1. SInv => ServiceTypeOK
  BY DEF SInv
<1> QED
  BY <1>1, ServiceInvariance, PTL

(* Between signals the daemon schedules what it last read, or what was       *)
(* scheduled before when that was refused, or nothing when both were.        *)
THEOREM LoopSchedulesHolds == ServiceSpec => []LoopSchedules
<1>1. SInv => LoopSchedules
  <2> SUFFICES ASSUME SInv, phase = "loop"
               PROVE  /\ started <=> ret # "failed"
                      /\ ret = "ok" => jobs = loaded
                      /\ started => entries[cron] = Range(jobs) /\ running = {cron}
    BY DEF LoopSchedules
  <2>1. pc = "idle"
    BY DEF SInv, MainAndOwner
  <2>2. started => entries[cron] = Range(jobs) /\ running = {cron}
    BY <2>1 DEF SInv, IInv, OneLive, StructAgrees
  <2> QED
    BY <2>1, <2>2 DEF SInv, Scheduled
<1> QED
  BY <1>1, ServiceInvariance, PTL

(* Once main has taken the signals over, only SIGINT ends the process while  *)
(* a run is in flight.                                                       *)
THEOREM RunsCutShortOnlyOnInterruptHolds ==
  ServiceSpec => RunsCutShortOnlyOnInterrupt
<1> DEFINE CutShort == Alive /\ ~Alive' /\ \E k \in Crons : inflight[k] # NoRuns
           Allowed  == cause' = "INT" \/ phase \in BeforeNotify
<1>1. ASSUME SInv, SInv', [ServiceNext]_svars, CutShort PROVE Allowed
  <2>1. CASE Read \/ RunSpecified \/ StartScheduler \/ Notify
    BY <2>1 DEF Read, RunSpecified, StartScheduler, Notify, BeforeNotify
  <2>2. CASE TakeReload \/ Reread \/ Replace \/ \E s \in Signals : TakeStop(s)
    BY <1>1, <2>2 DEF TakeReload, Reread, Replace, TakeStop, Alive, Ended
  <2>3. CASE CallStep
    <3>1. phase' \in {"exited", "killed"} /\ pc' = "done" /\ phase = "stopping"
      BY <1>1, <2>3, OwnerStep DEF CallStep, Alive, Ended
    <3>2. PICK k \in Crons : ~Idle(k)
      BY <1>1 DEF Idle
    <3>3. CASE Stop
      <4>1. k \in running /\ running = {c} \ {nil}
        BY <1>1, <3>2, <3>3 DEF Stop, SInv, IInv, OneLive, Drained
      <4>2. c # nil /\ op = "now"
        BY <3>1, <3>3, <4>1 DEF Stop
      <4> QED
        BY <1>1, <2>3, <3>1, <4>2 DEF CallStep, SInv, MainAndOwner
    <3>4. CASE Await
      BY <1>1, <3>2, <3>4
         DEF Await, AllRunsDone, Idle, SInv, IInv, OneLive, Drained
    <3>5. CASE Swap \/ StartNew \/ Restart
      BY <3>1, <3>5 DEF Swap, StartNew, Restart
    <3> QED
      BY <2>3, <3>3, <3>4, <3>5 DEF CallStep, Owner
  <2>4. CASE Jobs \/ \E d \in Contents : Edit(d)
    BY <1>1, <2>4 DEF Jobs, Edit, mainVars, Alive
  <2>5. CASE \E s \in Signals : Send(s)
    BY <1>1, <2>5 DEF Send, Alive
  <2>6. CASE UNCHANGED svars
    BY <1>1, <2>6 DEF svars, mainVars, Alive
  <2> QED
    BY <1>1, <2>1, <2>2, <2>3, <2>4, <2>5, <2>6 DEF ServiceNext, Main
<1>2. SInv /\ SInv' /\ [ServiceNext]_svars => [CutShort => Allowed]_svars
  BY <1>1
<1> QED
  BY <1>2, ServiceInvariance, PTL DEF ServiceSpec, RunsCutShortOnlyOnInterrupt
===============================================================================
