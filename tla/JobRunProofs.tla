----------------------------- MODULE JobRunProofs -----------------------------
(***************************************************************************)
(* Proofs about JobRun, for any runs, jobs, plans, repositories and faults.*)
(***************************************************************************)
EXTENDS JobRun, TLAPS

Labels == Commands \cup {"idle", "set", "gauge", "complete", "done"}

(* How far a run is, and what that says of it: none of its steps has failed *)
(* before it gets to the forget, and it has a snapshot once the backup of   *)
(* its plan is behind it.                                                   *)
Progress(r) ==
  /\ pc[r] \in {"idle", "ensure", "init", "task", "forget"} => ok[r]
  /\ pc[r] \in {"idle", "ensure", "init"} => step[r] = 1
  /\ pc[r] = "task" =>
       \A n \in 1..(step[r] - 1) : Plan[job[r]][n] = Backup => r \in saved
  /\ pc[r] = "forget" => r \in saved

RInv == TypeOK /\ \A r \in Run : Progress(r)

-------------------------------------------------------------------------------
(* A plan is not empty, and is a sequence of steps (AllTasks always has the *)
(* backup of the files).                                                    *)
LEMMA PlanType ==
  ASSUME TypeOK, NEW r \in Run
  PROVE  /\ Len(Plan[job[r]]) \in Nat \ {0}
         /\ DOMAIN Plan[job[r]] = 1..Len(Plan[job[r]])
         /\ \E n \in 1..Len(Plan[job[r]]) : Plan[job[r]][n] = Backup
<1>1. job[r] \in Job
  BY DEF TypeOK
<1>2. Plan[job[r]] \in Seq(Path \cup {Script, Backup})
  BY <1>1, JobRunAssumption
<1>3. /\ Len(Plan[job[r]]) \in Nat
      /\ DOMAIN Plan[job[r]] = 1..Len(Plan[job[r]])
  BY <1>2
<1>4. PICK n \in 1..Len(Plan[job[r]]) : Plan[job[r]][n] = Backup
  BY <1>1, <1>3, JobRunAssumption
<1> QED
  BY <1>3, <1>4

(* Going to a label moves one run and no other. *)
LEMMA GotoEffect ==
  ASSUME TypeOK, NEW r \in Run, NEW l \in Labels, Goto(r, l)
  PROVE  /\ pc' \in [Run -> Labels] /\ stage' \in [Run -> {"env", "exec"}]
         /\ pc'[r] = l
         /\ \A s \in Run : s # r => pc'[s] = pc[s]
  BY DEF Goto, TypeOK, Labels

(* A run that is not touched keeps its progress. *)
LEMMA OthersKeep ==
  ASSUME NEW s \in Run, Progress(s), pc'[s] = pc[s], ok'[s] = ok[s],
         step'[s] = step[s], job' = job, saved \subseteq saved'
  PROVE  Progress(s)'
  BY DEF Progress

(* A failed step is recorded and sends the run to read the snapshots: what   *)
(* that does to the locals of the runs.                                      *)
LEMMA FailEffect ==
  ASSUME RInv, NEW r \in Run, Fail(r), job' = job, saved \subseteq saved'
  PROVE  /\ pc' \in [Run -> Labels] /\ stage' \in [Run -> {"env", "exec"}]
         /\ ok' \in [Run -> BOOLEAN] /\ err' \in [Run -> BOOLEAN]
         /\ step' \in [Run -> Nat]
         /\ \A s \in Run : pc'[s] = "task" => step'[s] \in DOMAIN Plan[job'[s]]
         /\ \A s \in Run : Progress(s)'
<1>1. /\ pc' \in [Run -> Labels] /\ stage' \in [Run -> {"env", "exec"}]
      /\ pc'[r] = "read"
      /\ \A s \in Run : s # r => pc'[s] = pc[s]
  BY GotoEffect DEF Fail, RInv, Labels, Commands
<1>2. /\ ok' \in [Run -> BOOLEAN] /\ err' \in [Run -> BOOLEAN] /\ step' = step
      /\ \A s \in Run : s # r => ok'[s] = ok[s]
  BY DEF Fail, RInv, TypeOK
<1>3. \A s \in Run : pc'[s] = "task" => step'[s] \in DOMAIN Plan[job'[s]]
  BY <1>1, <1>2 DEF RInv, TypeOK
<1>4. Progress(r)'
  BY <1>1 DEF Progress
<1>5. ASSUME NEW s \in Run, s # r PROVE Progress(s)'
  BY <1>1, <1>2, <1>5, OthersKeep DEF RInv
<1> QED
  BY <1>1, <1>2, <1>3, <1>4, <1>5 DEF RInv, TypeOK

(* A step of the plan that succeeds moves the run to the next, to the forget *)
(* or to the reading of the snapshots.                                       *)
LEMMA AdvanceEffect ==
  ASSUME RInv, NEW r \in Run, pc[r] = "task", Advance(r), job' = job,
         saved \subseteq saved', Task(r) = Backup => r \in saved'
  PROVE  /\ pc' \in [Run -> Labels] /\ stage' \in [Run -> {"env", "exec"}]
         /\ step' \in [Run -> Nat]
         /\ \A s \in Run : pc'[s] = "task" => step'[s] \in DOMAIN Plan[job'[s]]
         /\ \A s \in Run : Progress(s)'
<1> DEFINE plan == Plan[job[r]]
<1>1. AfterTask(r) \in {"task", "forget", "read"}
  BY DEF AfterTask
<1>2. /\ pc' \in [Run -> Labels] /\ stage' \in [Run -> {"env", "exec"}]
      /\ pc'[r] = AfterTask(r)
      /\ \A s \in Run : s # r => pc'[s] = pc[s]
  BY <1>1, GotoEffect DEF Advance, RInv, Labels, Commands
<1>3. /\ step' = [step EXCEPT ![r] = step[r] + 1] /\ ok' = ok /\ err' = err
  BY DEF Advance
<1>4. /\ step' \in [Run -> Nat] /\ step'[r] = step[r] + 1
      /\ \A s \in Run : s # r => step'[s] = step[s]
  BY <1>3 DEF RInv, TypeOK
<1>5. /\ Len(plan) \in Nat /\ DOMAIN plan = 1..Len(plan)
      /\ \E n \in 1..Len(plan) : plan[n] = Backup
      /\ step[r] \in 1..Len(plan)
  BY PlanType DEF RInv, TypeOK
<1>6. \A n \in 1..step[r] : plan[n] = Backup => r \in saved'
  <2>1. \A n \in 1..(step[r] - 1) : plan[n] = Backup => r \in saved'
    BY DEF RInv, Progress
  <2> QED
    BY <1>5, <2>1 DEF Task
<1>7. pc'[r] = "task" => step'[r] \in DOMAIN plan
  BY <1>2, <1>4, <1>5 DEF AfterTask
<1>8. \A s \in Run : pc'[s] = "task" => step'[s] \in DOMAIN Plan[job'[s]]
  BY <1>2, <1>4, <1>7 DEF RInv, TypeOK
<1>9. pc'[r] = "forget" => r \in saved'
  <2>1. pc'[r] = "forget" => step[r] = Len(plan)
    BY <1>2, <1>5 DEF AfterTask
  <2> QED
    BY <1>5, <1>6, <2>1
<1>10. Progress(r)'
  <2>1. ok'[r]
    BY <1>3 DEF RInv, Progress
  <2>2. \A n \in 1..(step'[r] - 1) : Plan[job'[r]][n] = Backup => r \in saved'
    BY <1>4, <1>5, <1>6
  <2> QED
    BY <1>1, <1>2, <1>9, <2>1, <2>2 DEF Progress
<1>11. ASSUME NEW s \in Run, s # r PROVE Progress(s)'
  BY <1>2, <1>3, <1>4, <1>11, OthersKeep DEF RInv
<1> QED
  BY <1>2, <1>4, <1>8, <1>10, <1>11

(* A run that goes somewhere without touching its plan: to the first step,   *)
(* to "init", or past the commands.                                          *)
LEMMA MoveEffect ==
  ASSUME RInv, NEW r \in Run, NEW l \in Labels, Goto(r, l),
         job' = job, step' = step, ok' = ok, saved \subseteq saved',
         \/ l \in {"init", "task", "ensure"} /\ pc[r] \in {"idle", "ensure", "init"}
         \/ l \in {"read", "set", "gauge", "complete", "done"}
  PROVE  /\ pc' \in [Run -> Labels] /\ stage' \in [Run -> {"env", "exec"}]
         /\ \A s \in Run : pc'[s] = "task" => step'[s] \in DOMAIN Plan[job'[s]]
         /\ \A s \in Run : Progress(s)'
<1>1. /\ pc' \in [Run -> Labels] /\ stage' \in [Run -> {"env", "exec"}]
      /\ pc'[r] = l
      /\ \A s \in Run : s # r => pc'[s] = pc[s]
  BY GotoEffect DEF RInv
<1>2. pc'[r] = "task" => step[r] = 1
  BY <1>1 DEF RInv, Progress
<1>3. 1 \in DOMAIN Plan[job[r]]
  BY PlanType DEF RInv
<1>4. \A s \in Run : pc'[s] = "task" => step'[s] \in DOMAIN Plan[job'[s]]
  BY <1>1, <1>2, <1>3 DEF RInv, TypeOK
<1>5. Progress(r)'
  <2>1. l \in {"init", "task", "ensure"} => ok[r] /\ step[r] = 1
    BY DEF RInv, Progress
  <2> QED
    BY <1>1, <2>1 DEF Progress
<1>6. ASSUME NEW s \in Run, s # r PROVE Progress(s)'
  BY <1>1, <1>6, OthersKeep DEF RInv
<1> QED
  BY <1>1, <1>4, <1>5, <1>6

(* A fault is one of a command of a run. *)
LEMMA FaultType ==
  ASSUME TypeOK, NEW r \in Run, NEW c \in Commands \cup {"open"}, Fault(r, c)
  PROVE  faults' \subseteq Run \X (Commands \cup {"open"})
  BY DEF Fault, TypeOK

-------------------------------------------------------------------------------
(* No run has begun, and nothing is recorded. *)
LEMMA InitRInv == Init => RInv
<1> SUFFICES ASSUME Init PROVE RInv
  OBVIOUS
<1>1. TypeOK
  BY DEF Init, TypeOK
<1>2. \A r \in Run : Progress(r)
  BY DEF Init, Progress
<1> QED
  BY <1>1, <1>2 DEF RInv

(* Run or RefreshMetrics begins. *)
LEMMA BeginInv == ASSUME RInv, NEW r \in Run, Begin(r) PROVE RInv'
<1> DEFINE l == IF r \in Refresher THEN "read" ELSE "ensure"
<1>1. /\ Goto(r, l) /\ pc[r] = "idle" /\ l \in Labels
      /\ UNCHANGED <<job, step, ok, err, listing, world, reports, crashed, faults,
                     saved, madeRepo, streak>>
  BY DEF Begin, Labels, Commands
<1>2. /\ pc' \in [Run -> Labels] /\ stage' \in [Run -> {"env", "exec"}]
      /\ \A s \in Run : pc'[s] = "task" => step'[s] \in DOMAIN Plan[job'[s]]
      /\ \A s \in Run : Progress(s)'
  <2>1. CASE r \in Refresher
    BY <1>1, <2>1, MoveEffect
  <2>2. CASE r \notin Refresher
    BY <1>1, <2>2, MoveEffect
  <2> QED
    BY <2>1, <2>2
<1>3. beside' \in [Run -> SUBSET Run]
  BY DEF Begin, RInv, TypeOK, InFlight
<1>4. lastRead' \subseteq Run /\ found' \subseteq Run
  BY DEF Begin, RInv, TypeOK
<1> QED
  BY <1>1, <1>2, <1>3, <1>4 DEF RInv, TypeOK, Labels, world, reports

(* A command is started; a dump truncates its file. *)
LEMMA StartCommandInv == ASSUME RInv, NEW r \in Run, StartCommand(r) PROVE RInv'
<1>1. UNCHANGED <<job, pc, step, ok, err, listing, exists, snaps, reports, crashed, faults, history>>
  BY DEF StartCommand
<1>2. stage' \in [Run -> {"env", "exec"}]
  BY DEF StartCommand, RInv, TypeOK
<1>3. file' \in [Path -> SUBSET Run]
  <2>1. \A p : Writing(p) \in SUBSET Run
    BY DEF Writing
  <2>2. CASE pc[r] = "task" /\ Task(r) \in Path
    <3>1. file' = [file EXCEPT ![Task(r)] = Writing(Task(r)) \cup {r}]
      BY <2>2 DEF StartCommand
    <3>2. Writing(Task(r)) \cup {r} \in SUBSET Run
      BY <2>1
    <3> QED
      BY <3>1, <3>2 DEF RInv, TypeOK
  <2>3. CASE ~(pc[r] = "task" /\ Task(r) \in Path)
    BY <2>3 DEF StartCommand, RInv, TypeOK
  <2> QED
    BY <2>2, <2>3
<1>4. \A s \in Run : Progress(s)'
  BY <1>1, OthersKeep DEF RInv, history
<1> QED
  BY <1>1, <1>2, <1>3, <1>4 DEF RInv, TypeOK, reports, history

(* EnsureInit has listed the snapshots. *)
LEMMA EnsureInv == ASSUME RInv, NEW r \in Run, Ensure(r) PROVE RInv'
<1>1. /\ pc[r] = "ensure"
      /\ UNCHANGED <<job, step, ok, err, listing, world, reports, crashed, history>>
  BY DEF Ensure, Ready
<1>2. PICK l \in {"task", "init"} : Goto(r, l)
  BY DEF Ensure
<1>3. faults' \subseteq Run \X (Commands \cup {"open"})
  BY <1>1, FaultType DEF Ensure, RInv, TypeOK, Commands
<1>4. /\ pc' \in [Run -> Labels] /\ stage' \in [Run -> {"env", "exec"}]
      /\ \A s \in Run : pc'[s] = "task" => step'[s] \in DOMAIN Plan[job'[s]]
      /\ \A s \in Run : Progress(s)'
  BY <1>1, <1>2, MoveEffect DEF Labels, Commands, history
<1> QED
  BY <1>1, <1>3, <1>4 DEF RInv, TypeOK, Labels, world, reports, history

(* EnsureInit has called init. *)
LEMMA InitRepoInv == ASSUME RInv, NEW r \in Run, InitRepo(r) PROVE RInv'
<1>1. /\ pc[r] = "init"
      /\ UNCHANGED <<job, listing, snaps, file, reports, crashed, found, beside, saved, streak,
                     lastRead>>
  BY DEF InitRepo, Ready
<1>2. faults' \subseteq Run \X (Commands \cup {"open"})
  BY <1>1, FaultType DEF InitRepo, RInv, TypeOK, Commands
<1>3. exists' \in [Repo -> BOOLEAN] /\ madeRepo' \subseteq Run
  BY DEF InitRepo, RInv, TypeOK
<1>4. /\ pc' \in [Run -> Labels] /\ stage' \in [Run -> {"env", "exec"}]
      /\ ok' \in [Run -> BOOLEAN] /\ err' \in [Run -> BOOLEAN]
      /\ step' \in [Run -> Nat]
      /\ \A s \in Run : pc'[s] = "task" => step'[s] \in DOMAIN Plan[job'[s]]
      /\ \A s \in Run : Progress(s)'
  <2>1. CASE Goto(r, "task") /\ UNCHANGED <<step, ok, err>>
    <3>1. "task" \in Labels
      BY DEF Labels, Commands
    <3>2. /\ pc' \in [Run -> Labels] /\ stage' \in [Run -> {"env", "exec"}]
          /\ \A s \in Run : pc'[s] = "task" => step'[s] \in DOMAIN Plan[job'[s]]
          /\ \A s \in Run : Progress(s)'
      BY <1>1, <2>1, <3>1, MoveEffect
    <3> QED
      BY <2>1, <3>2 DEF RInv, TypeOK
  <2>2. CASE Fail(r)
    BY <1>1, <2>2, FailEffect
  <2> QED
    BY <2>1, <2>2 DEF InitRepo
<1> QED
  BY <1>1, <1>2, <1>3, <1>4 DEF RInv, TypeOK, Labels, reports

(* A dump or a script has returned. *)
LEMMA RunScriptInv == ASSUME RInv, NEW r \in Run, RunScript(r) PROVE RInv'
<1>1. /\ pc[r] = "task" /\ Task(r) # Backup
      /\ UNCHANGED <<job, listing, exists, snaps, reports, crashed, history>>
  BY DEF RunScript, Ready
<1>2. faults' \subseteq Run \X (Commands \cup {"open"})
  BY <1>1, FaultType DEF RunScript, RInv, TypeOK, Commands
<1>3. file' \in [Path -> SUBSET Run]
  BY DEF RunScript, RInv, TypeOK
<1>4. /\ pc' \in [Run -> Labels] /\ stage' \in [Run -> {"env", "exec"}]
      /\ ok' \in [Run -> BOOLEAN] /\ err' \in [Run -> BOOLEAN]
      /\ step' \in [Run -> Nat]
      /\ \A s \in Run : pc'[s] = "task" => step'[s] \in DOMAIN Plan[job'[s]]
      /\ \A s \in Run : Progress(s)'
  <2>1. CASE Advance(r)
    <3>1. ok' = ok /\ err' = err
      BY <2>1 DEF Advance
    <3> QED
      BY <1>1, <2>1, <3>1, AdvanceEffect DEF RInv, TypeOK, history
  <2>2. CASE Fail(r)
    BY <1>1, <2>2, FailEffect DEF history
  <2> QED
    BY <2>1, <2>2 DEF RunScript
<1> QED
  BY <1>1, <1>2, <1>3, <1>4 DEF RInv, TypeOK, Labels, reports, history

(* The backup of the files has returned. *)
LEMMA RunBackupInv == ASSUME RInv, NEW r \in Run, RunBackup(r) PROVE RInv'
<1>1. /\ pc[r] = "task" /\ Task(r) = Backup
      /\ UNCHANGED <<job, listing, exists, file, reports, crashed, found, beside, madeRepo, streak,
                     lastRead>>
  BY DEF RunBackup, Ready
<1>2. faults' \subseteq Run \X (Commands \cup {"open"})
  BY <1>1, FaultType DEF RunBackup, RInv, TypeOK, Commands
<1>3. snaps' \in [Repo -> Nat] /\ saved' \subseteq Run /\ saved \subseteq saved'
  BY DEF RunBackup, RInv, TypeOK
<1>4. /\ pc' \in [Run -> Labels] /\ stage' \in [Run -> {"env", "exec"}]
      /\ ok' \in [Run -> BOOLEAN] /\ err' \in [Run -> BOOLEAN]
      /\ step' \in [Run -> Nat]
      /\ \A s \in Run : pc'[s] = "task" => step'[s] \in DOMAIN Plan[job'[s]]
      /\ \A s \in Run : Progress(s)'
  <2>1. CASE saved' = saved \cup {r} /\ Advance(r)
    <3>1. ok' = ok /\ err' = err
      BY <2>1 DEF Advance
    <3> QED
      BY <1>1, <2>1, <3>1, AdvanceEffect DEF RInv, TypeOK
  <2>2. CASE Fail(r)
    BY <1>1, <1>3, <2>2, FailEffect
  <2> QED
    BY <2>1, <2>2 DEF RunBackup
<1> QED
  BY <1>1, <1>2, <1>3, <1>4 DEF RInv, TypeOK, Labels, reports

(* The forget has returned. *)
LEMMA ForgetInv == ASSUME RInv, NEW r \in Run, Forget(r) PROVE RInv'
<1>1. /\ pc[r] = "forget"
      /\ UNCHANGED <<job, listing, exists, file, reports, crashed, history>>
  BY DEF Forget, Ready
<1>2. faults' \subseteq Run \X (Commands \cup {"open"})
  BY <1>1, FaultType DEF Forget, RInv, TypeOK, Commands
<1>3. snaps' \in [Repo -> Nat]
  <2>1. \A k \in 1..snaps[RepoIn(r)] : k \in Nat
    BY JobRunAssumption DEF RInv, TypeOK, RepoIn
  <2> QED
    BY <2>1 DEF Forget, RInv, TypeOK
<1>4. /\ pc' \in [Run -> Labels] /\ stage' \in [Run -> {"env", "exec"}]
      /\ ok' \in [Run -> BOOLEAN] /\ err' \in [Run -> BOOLEAN]
      /\ step' \in [Run -> Nat]
      /\ \A s \in Run : pc'[s] = "task" => step'[s] \in DOMAIN Plan[job'[s]]
      /\ \A s \in Run : Progress(s)'
  <2>1. CASE Goto(r, "read") /\ UNCHANGED <<step, ok, err>>
    <3>1. "read" \in Labels
      BY DEF Labels, Commands
    <3>2. /\ pc' \in [Run -> Labels] /\ stage' \in [Run -> {"env", "exec"}]
          /\ \A s \in Run : pc'[s] = "task" => step'[s] \in DOMAIN Plan[job'[s]]
          /\ \A s \in Run : Progress(s)'
      BY <1>1, <2>1, <3>1, MoveEffect DEF history
    <3> QED
      BY <2>1, <3>2 DEF RInv, TypeOK
  <2>2. CASE Fail(r)
    BY <1>1, <2>2, FailEffect DEF history
  <2> QED
    BY <2>1, <2>2 DEF Forget
<1> QED
  BY <1>1, <1>2, <1>3, <1>4 DEF RInv, TypeOK, Labels, reports, history
(* The names and repositories of a run's job. *)
LEMMA RunType ==
  ASSUME TypeOK, NEW r \in Run
  PROVE  NameIn(r) \in Name /\ RepoIn(r) \in Repo
  BY JobRunAssumption DEF TypeOK, NameIn, RepoIn

(* The snapshots have been listed, or could not be. *)
LEMMA ReadSnapshotsInv == ASSUME RInv, NEW r \in Run, ReadSnapshots(r) PROVE RInv'
<1>1. /\ pc[r] = "read"
      /\ UNCHANGED <<job, step, ok, world, reports, crashed, found, beside, saved, madeRepo,
                     streak>>
  BY DEF ReadSnapshots, Ready
<1>2. faults' \subseteq Run \X (Commands \cup {"open"})
  BY FaultType DEF ReadSnapshots, RInv, TypeOK, Commands
<1>3. listing' \in [Run -> Nat]
  <2>1. snaps[RepoIn(r)] \in Nat
    BY RunType DEF RInv, TypeOK
  <2> QED
    BY <2>1 DEF ReadSnapshots, RInv, TypeOK
<1>4. err' \in [Run -> BOOLEAN] /\ lastRead' \subseteq Run
  BY DEF ReadSnapshots, RInv, TypeOK
<1>5. PICK l \in {"set", "gauge", "done"} : Goto(r, l)
  BY DEF ReadSnapshots, AfterRead
<1>6. /\ pc' \in [Run -> Labels] /\ stage' \in [Run -> {"env", "exec"}]
      /\ \A s \in Run : pc'[s] = "task" => step'[s] \in DOMAIN Plan[job'[s]]
      /\ \A s \in Run : Progress(s)'
  BY <1>1, <1>5, MoveEffect DEF Labels
<1> QED
  BY <1>1, <1>2, <1>3, <1>4, <1>6 DEF RInv, TypeOK, Labels, world, reports

(* The snapshots have been counted. *)
LEMMA SetCountInv == ASSUME RInv, NEW r \in Run, SetCount(r) PROVE RInv'
<1>1. UNCHANGED <<job, step, ok, err, world, jobResults, failures, crashed, faults,
                  found, beside, saved, madeRepo, streak>>
  BY DEF SetCount
<1>2. listing' \in [Run -> Nat] /\ current' \in [Name -> Nat]
  BY DEF SetCount, SnapshotCount, RInv, TypeOK
<1>3. lastRead' \subseteq Run
  <2>1. lastRead' = {r} \/ lastRead' = {}
    BY DEF SetCount
  <2> QED
    BY <2>1
<1>4. PICK l \in {"gauge", "done"} : Goto(r, l)
  BY DEF SetCount, AfterRead
<1>5. /\ pc' \in [Run -> Labels] /\ stage' \in [Run -> {"env", "exec"}]
      /\ \A s \in Run : pc'[s] = "task" => step'[s] \in DOMAIN Plan[job'[s]]
      /\ \A s \in Run : Progress(s)'
  BY <1>1, <1>4, MoveEffect DEF Labels
<1> QED
  BY <1>1, <1>2, <1>3, <1>5 DEF RInv, TypeOK, Labels, world

(* The failure gauge is set, or the result recorded. *)
LEMMA ReportInv ==
  ASSUME RInv, NEW r \in Run, SetGauge(r) \/ JobComplete(r)
  PROVE  RInv'
<1>1. PICK l \in {"complete", "done"} : Goto(r, l)
  BY DEF SetGauge, JobComplete
<1>2. /\ UNCHANGED <<job, step, ok, err, listing, world, current, crashed, faults,
                     found, beside, saved, madeRepo, lastRead>>
  BY DEF SetGauge, JobComplete, history
<1>3. /\ pc' \in [Run -> Labels] /\ stage' \in [Run -> {"env", "exec"}]
      /\ \A s \in Run : pc'[s] = "task" => step'[s] \in DOMAIN Plan[job'[s]]
      /\ \A s \in Run : Progress(s)'
  BY <1>1, <1>2, MoveEffect DEF Labels
<1>4. failures' \in [Name -> Nat]
  <2>1. Count(r) \in Nat
    BY RunType DEF Count, RInv, TypeOK
  <2> QED
    BY <2>1 DEF SetGauge, JobComplete, RInv, TypeOK
<1>5. jobResults' \in [Name -> {"unknown", "ok", "warned", "failed"}]
  BY DEF SetGauge, JobComplete, Outcome, RInv, TypeOK
<1>6. streak' \in [Name -> Nat]
  <2>1. (IF ok[r] THEN 0 ELSE streak[NameIn(r)] + 1) \in Nat
    BY RunType DEF RInv, TypeOK
  <2> QED
    BY <2>1 DEF SetGauge, JobComplete, history, RInv, TypeOK
<1> QED
  BY <1>2, <1>3, <1>4, <1>5, <1>6 DEF RInv, TypeOK, Labels, world

(* Every step of every run preserves the invariant, and so does the crash. *)
LEMMA NextRInv == RInv /\ [Next]_vars => RInv'
<1> SUFFICES ASSUME RInv, [Next]_vars PROVE RInv'
  OBVIOUS
<1>1. ASSUME NEW r \in Run, Begin(r) \/ Step(r) PROVE RInv'
  BY <1>1, BeginInv, StartCommandInv, EnsureInv, InitRepoInv, RunScriptInv,
     RunBackupInv, ForgetInv, ReadSnapshotsInv, SetCountInv, ReportInv DEF Step
<1>2. CASE Crash
  <2>1. UNCHANGED <<local, world, reports, faults, history>> /\ crashed' = TRUE
    BY <1>2 DEF Crash
  <2>2. \A s \in Run : Progress(s)'
    BY <2>1, OthersKeep DEF RInv, local, history
  <2> QED
    BY <2>1, <2>2 DEF RInv, TypeOK, local, world, reports, history
<1>3. CASE UNCHANGED vars
  <2>1. \A s \in Run : Progress(s)'
    BY <1>3, OthersKeep DEF RInv, vars, local, history
  <2> QED
    BY <1>3, <2>1 DEF RInv, TypeOK, vars, local, world, reports, history
<1> QED
  BY <1>1, <1>2, <1>3 DEF Next

-------------------------------------------------------------------------------
(* In every reachable state a run that has come as far as the forget has had *)
(* no failed step and has made a snapshot, whatever ran beside it.           *)
THEOREM JobRunInvariance == Spec => []RInv
<1> QED
  BY InitRInv, NextRInv, PTL DEF Spec

(* The locals of the runs, what they share and what they report keep their   *)
(* types; in particular a run is never past the end of its plan.             *)
THEOREM JobRunTypeCorrect == Spec => []TypeOK
<1>1. RInv => TypeOK
  BY DEF RInv
<1> QED
  BY <1>1, JobRunInvariance, PTL

(* Snapshots are only removed by a run that has added one of its own and had *)
(* no failed step, for any plans, overlaps and faults: a failing backup      *)
(* never thins out what is there.                                            *)
THEOREM PruneAfterBackupHolds == Spec => PruneAfterBackup
<1>1. ASSUME RInv, [Next]_vars, NEW p \in Repo, snaps'[p] < snaps[p]
      PROVE  \E r \in Run : pc[r] = "forget" /\ RepoIn(r) = p /\ r \in saved /\ ok[r]
  <2>1. snaps[p] \in Nat
    BY <1>1 DEF RInv, TypeOK
  <2>2. snaps' # snaps
    BY <1>1, <2>1
  <2>3. PICK r \in Run : RunBackup(r) \/ Forget(r)
    BY <1>1, <2>2 DEF Next, Step, Begin, StartCommand, Crash, Ensure, InitRepo, RunScript,
       ReadSnapshots, SetCount, SetGauge, JobComplete, vars, world
  <2>4. CASE RunBackup(r)
    <3>1. snaps' = [snaps EXCEPT ![RepoIn(r)] = snaps[RepoIn(r)] + 1]
      BY <2>2, <2>4 DEF RunBackup
    <3> QED
      BY <1>1, <2>1, <3>1 DEF RInv, TypeOK
  <2>5. CASE Forget(r)
    <3>1. PICK k \in 1..snaps[RepoIn(r)] : snaps' = [snaps EXCEPT ![RepoIn(r)] = k]
      BY <2>2, <2>5 DEF Forget
    <3>2. RepoIn(r) = p
      BY <1>1, <2>1, <3>1 DEF RInv, TypeOK
    <3>3. pc[r] = "forget" /\ r \in saved /\ ok[r]
      BY <1>1, <2>5 DEF Forget, Ready, RInv, Progress
    <3> QED
      BY <3>2, <3>3
  <2> QED
    BY <2>3, <2>4, <2>5
<1>2. RInv /\ [Next]_vars =>
        [\A p \in Repo : snaps'[p] < snaps[p] =>
           \E r \in Run : /\ pc[r] = "forget"
                          /\ RepoIn(r) = p
                          /\ r \in saved
                          /\ ok[r]]_vars
  BY <1>1
<1> QED
  BY <1>2, JobRunInvariance, PTL DEF Spec, PruneAfterBackup
-------------------------------------------------------------------------------
(* The failure gauge. *)

(* Runs in flight together know of each other; a refresh never gets to the   *)
(* reports.                                                                  *)
Beside ==
  /\ \A r \in Run : pc[r] = "idle" => beside[r] = {}
  /\ \A r, s \in InFlight : r # s => s \in beside[r]
  /\ \A r \in Refresher : pc[r] \in {"idle", "read", "set", "done"}

(* What the gauge of a name is while its runs have not overlapped: the       *)
(* number of failures in a row, or already the next one when a run is        *)
(* between setting the gauge and recording its result.                       *)
Gauge(n) ==
  \/ /\ \A r \in RunsOf(n) : pc[r] # "complete"
     /\ failures[n] = streak[n]
  \/ \E r \in RunsOf(n) :
       /\ pc[r] = "complete"
       /\ failures[n] = IF ok[r] THEN 0 ELSE streak[n] + 1

CountInv ==
  /\ RInv
  /\ Beside
  /\ \A n \in Name : streak[n] > 0 <=> jobResults[n] = "failed"
  /\ \A n \in Name : Solo(n) => Gauge(n)

(* No two runs of a name that has not seen an overlap are in flight.         *)
LEMMA SoloAlone ==
  ASSUME Beside, NEW n, Solo(n), NEW r \in RunsOf(n) \cap InFlight,
         NEW s \in RunsOf(n) \cap InFlight
  PROVE  r = s
  BY DEF Beside, Solo

(* A command begins or ends, or its count is set: it moves its own run, and  *)
(* not to the reports.                                                       *)
LEMMA CommandStep ==
  ASSUME RInv, Beside, NEW r \in Run,
         \/ StartCommand(r) \/ Ensure(r) \/ InitRepo(r) \/ RunScript(r)
         \/ RunBackup(r) \/ Forget(r) \/ ReadSnapshots(r) \/ SetCount(r)
  PROVE  /\ UNCHANGED <<job, beside, failures, jobResults, streak>>
         /\ pc[r] \in Commands \cup {"set"} /\ pc'[r] \in Commands \cup {"set", "gauge", "done"}
         /\ \A s \in Run : s # r => pc'[s] = pc[s] /\ ok'[s] = ok[s]
         /\ r \in Refresher => pc'[r] \in {"read", "set", "done"}
<1>1. UNCHANGED <<job, beside, failures, jobResults, streak>>
  BY DEF StartCommand, Ensure, InitRepo, RunScript, RunBackup, Forget, ReadSnapshots, SetCount,
         history, reports
<1>2. pc[r] \in Commands \cup {"set"}
  BY DEF StartCommand, Ensure, InitRepo, RunScript, RunBackup, Forget, ReadSnapshots, SetCount,
         Ready, Commands
<1>3. \/ pc' = pc
      \/ \E l \in {"init", "task", "forget", "read", "set", "gauge", "done"} : Goto(r, l)
  BY DEF StartCommand, Ensure, InitRepo, RunScript, RunBackup, Forget, ReadSnapshots, SetCount,
         Fail, Advance, AfterTask, AfterRead
<1>4. \/ pc' = pc
      \/ /\ pc'[r] \in {"init", "task", "forget", "read", "set", "gauge", "done"}
         /\ \A s \in Run : s # r => pc'[s] = pc[s]
  BY <1>3, GotoEffect DEF Labels, Commands, RInv
<1>5. \A s \in Run : s # r => ok'[s] = ok[s]
  <2>1. ok' = ok \/ ok' = [ok EXCEPT ![r] = FALSE]
    BY DEF StartCommand, Ensure, InitRepo, RunScript, RunBackup, Forget, ReadSnapshots, SetCount,
           Fail, Advance
  <2> QED
    BY <2>1 DEF RInv, TypeOK
<1>6. ASSUME r \in Refresher PROVE pc'[r] \in {"read", "set", "done"}
  <2>1. pc[r] \in {"read", "set"}
    BY <1>2, <1>6 DEF Beside, Commands
  <2>2. CASE StartCommand(r)
    BY <2>1, <2>2 DEF StartCommand
  <2>3. CASE ReadSnapshots(r) \/ SetCount(r)
    <3>1. PICK l \in {"set", "done"} : Goto(r, l)
      BY <1>6, <2>3 DEF ReadSnapshots, SetCount, AfterRead
    <3> QED
      BY <3>1, GotoEffect DEF RInv, Labels
  <2> QED
    BY <2>1, <2>2, <2>3 DEF Ensure, InitRepo, RunScript, RunBackup, Forget, Ready
<1> QED
  BY <1>1, <1>2, <1>4, <1>5, <1>6 DEF Commands

(* Such a step leaves the gauge and the overlaps as they are.                *)
LEMMA CommandCount ==
  ASSUME CountInv, RInv', NEW r \in Run,
         UNCHANGED <<job, beside, failures, jobResults, streak>>,
         pc[r] \in Commands \cup {"set"}, pc'[r] \in Commands \cup {"set", "gauge", "done"},
         \A s \in Run : s # r => pc'[s] = pc[s] /\ ok'[s] = ok[s],
         r \in Refresher => pc'[r] \in {"read", "set", "done"}
  PROVE  CountInv'
<1>1. InFlight' \subseteq InFlight
  BY DEF InFlight, Commands
<1>2. Beside'
  <2>1. \A s \in Run : pc'[s] = "idle" => beside'[s] = {}
    BY DEF CountInv, Beside, Commands
  <2>2. \A t, s \in InFlight' : t # s => s \in beside'[t]
    BY <1>1 DEF CountInv, Beside
  <2>3. \A s \in Refresher : pc'[s] \in {"idle", "read", "set", "done"}
    BY JobRunAssumption DEF CountInv, Beside
  <2> QED
    BY <2>1, <2>2, <2>3 DEF Beside
<1>3. ASSUME NEW n \in Name, Solo(n)' PROVE Gauge(n)'
  <2>1. RunsOf(n)' = RunsOf(n) /\ Solo(n) /\ RunsOf(n) \subseteq Run
    BY <1>3 DEF RunsOf, NameIn, Solo
  <2>2. Gauge(n)
    BY <2>1 DEF CountInv
  <2>3. \A s \in Run : /\ pc'[s] = "complete" <=> pc[s] = "complete"
                       /\ pc[s] = "complete" => ok'[s] = ok[s]
    BY DEF Commands
  <2> QED
    BY <2>1, <2>2, <2>3 DEF Gauge
<1>4. \A n \in Name : streak'[n] > 0 <=> jobResults'[n] = "failed"
  BY DEF CountInv
<1> QED
  BY <1>2, <1>3, <1>4 DEF CountInv
(* No run is in flight, and nothing has been counted.                        *)
LEMMA InitCount == Init => CountInv
<1> SUFFICES ASSUME Init PROVE CountInv
  OBVIOUS
<1>1. RInv
  BY InitRInv
<1>2. Beside
  BY JobRunAssumption DEF Init, Beside, InFlight
<1>3. \A n \in Name : Gauge(n)
  BY DEF Init, Gauge, RunsOf
<1> QED
  BY <1>1, <1>2, <1>3 DEF Init, CountInv

(* A run that begins is from then on beside those in flight; that can only   *)
(* end the time in which a name has not seen an overlap.                     *)
LEMMA BeginCount == ASSUME CountInv, NEW r \in Run, Begin(r) PROVE CountInv'
<1>1. RInv'
  BY BeginInv DEF CountInv
<1>2. /\ pc[r] = "idle" /\ pc'[r] \in {"read", "ensure"}
      /\ r \in Refresher => pc'[r] = "read"
      /\ \A s \in Run : s # r => pc'[s] = pc[s]
  <2> DEFINE l == IF r \in Refresher THEN "read" ELSE "ensure"
  <2>1. Goto(r, l) /\ l \in Labels /\ pc[r] = "idle"
    BY DEF Begin, Labels, Commands
  <2>2. pc'[r] = l /\ \A s \in Run : s # r => pc'[s] = pc[s]
    BY <2>1, GotoEffect DEF CountInv, RInv
  <2> QED
    BY <2>1, <2>2
<1>3. UNCHANGED <<job, ok, failures, jobResults, streak>>
  BY DEF Begin, reports
<1>4. InFlight' = InFlight \cup {r} /\ r \notin InFlight
  BY <1>2 DEF InFlight
<1>5. /\ beside'[r] = InFlight
      /\ \A s \in InFlight : beside'[s] = beside[s] \cup {r}
      /\ \A s \in Run : s # r /\ s \notin InFlight => beside'[s] = beside[s]
  BY <1>4 DEF Begin, InFlight
<1>6. Beside'
  <2>1. \A s \in Run : pc'[s] = "idle" => beside'[s] = {}
    BY <1>2, <1>5 DEF CountInv, Beside, InFlight
  <2>2. \A t, s \in InFlight' : t # s => s \in beside'[t]
    BY <1>4, <1>5 DEF CountInv, Beside
  <2>3. \A s \in Refresher : pc'[s] \in {"idle", "read", "set", "done"}
    BY <1>2, JobRunAssumption DEF CountInv, Beside
  <2> QED
    BY <2>1, <2>2, <2>3 DEF Beside
<1>7. ASSUME NEW n \in Name, Solo(n)' PROVE Gauge(n)'
  <2>1. RunsOf(n)' = RunsOf(n) /\ RunsOf(n) \subseteq Run
    BY <1>3 DEF RunsOf, NameIn
  <2>2. \A s \in Run : beside[s] \subseteq beside'[s]
    BY <1>2, <1>5 DEF CountInv, Beside
  <2>3. Solo(n)
    BY <1>7, <2>1, <2>2 DEF Solo
  <2>4. Gauge(n)
    BY <2>3 DEF CountInv
  <2>5. \A s \in Run : pc'[s] = "complete" <=> pc[s] = "complete"
    BY <1>2
  <2> QED
    BY <1>3, <2>1, <2>4, <2>5 DEF Gauge
<1>8. \A n \in Name : streak'[n] > 0 <=> jobResults'[n] = "failed"
  BY <1>3 DEF CountInv
<1> QED
  BY <1>1, <1>6, <1>7, <1>8 DEF CountInv

(* What setting the gauge and recording the result do to where runs are and  *)
(* to the overlaps.                                                          *)
LEMMA ReportStep ==
  ASSUME CountInv, NEW r \in Run, NEW l \in {"complete", "done"}, Goto(r, l),
         pc[r] \in {"gauge", "complete"}, beside' = beside, job' = job
  PROVE  /\ pc'[r] = l /\ \A s \in Run : s # r => pc'[s] = pc[s]
         /\ Beside'
         /\ r \in RunsOf(NameIn(r)) \cap InFlight /\ NameIn(r) \in Name
         /\ \A n : RunsOf(n)' = RunsOf(n) /\ Solo(n)' = Solo(n)
<1>1. pc'[r] = l /\ \A s \in Run : s # r => pc'[s] = pc[s]
  BY GotoEffect DEF CountInv, RInv, Labels
<1>2. r \notin Refresher
  BY DEF CountInv, Beside
<1>3. Beside'
  <2>1. InFlight' \subseteq InFlight
    BY <1>1 DEF InFlight
  <2>2. \A s \in Run : pc'[s] = "idle" => beside'[s] = {}
    BY <1>1 DEF CountInv, Beside
  <2>3. \A t, s \in InFlight' : t # s => s \in beside'[t]
    BY <2>1 DEF CountInv, Beside
  <2>4. \A s \in Refresher : pc'[s] \in {"idle", "read", "set", "done"}
    BY <1>1, <1>2, JobRunAssumption DEF CountInv, Beside
  <2> QED
    BY <2>2, <2>3, <2>4 DEF Beside
<1>4. r \in RunsOf(NameIn(r)) \cap InFlight /\ NameIn(r) \in Name
  BY <1>2, RunType DEF RunsOf, InFlight, CountInv, RInv
<1>5. \A n : RunsOf(n)' = RunsOf(n)
  BY DEF RunsOf, NameIn
<1>6. \A n : Solo(n)' = Solo(n)
  BY <1>5 DEF Solo
<1> QED
  BY <1>1, <1>3, <1>4, <1>5, <1>6

(* The gauge is set from what it was: a count in step with the results, as   *)
(* no other run of the name stands between its gauge and its result.         *)
LEMMA SetGaugeCount == ASSUME CountInv, NEW r \in Run, SetGauge(r) PROVE CountInv'
<1>1. RInv'
  BY ReportInv DEF CountInv
<1>2. /\ pc[r] = "gauge" /\ Goto(r, "complete")
      /\ failures' = [failures EXCEPT ![NameIn(r)] = Count(r)]
      /\ UNCHANGED <<job, ok, beside, jobResults, streak>>
  BY DEF SetGauge, history
<1>3. /\ pc'[r] = "complete" /\ \A s \in Run : s # r => pc'[s] = pc[s]
      /\ Beside'
      /\ r \in RunsOf(NameIn(r)) \cap InFlight /\ NameIn(r) \in Name
      /\ \A n : RunsOf(n)' = RunsOf(n) /\ Solo(n)' = Solo(n)
  BY <1>2, ReportStep
<1>4. ASSUME NEW n \in Name, Solo(n)' PROVE Gauge(n)'
  <2>1. Solo(n) /\ Gauge(n) /\ RunsOf(n) \subseteq Run
    BY <1>3, <1>4 DEF CountInv, RunsOf
  <2>2. CASE n = NameIn(r)
    <3>1. \A s \in RunsOf(n) : pc[s] # "complete"
      <4> SUFFICES ASSUME NEW s \in RunsOf(n), pc[s] = "complete" PROVE FALSE
        OBVIOUS
      <4>1. s \in RunsOf(n) \cap InFlight
        BY <2>1 DEF InFlight
      <4>2. s = r
        BY <1>3, <2>1, <2>2, <4>1, SoloAlone DEF CountInv
      <4> QED
        BY <1>2, <4>2
    <3>2. failures[n] = streak[n]
      BY <2>1, <3>1 DEF Gauge
    <3>3. failures'[n] = IF ok[r] THEN 0 ELSE streak[n] + 1
      BY <1>2, <2>2, <3>2 DEF Count, CountInv, RInv, TypeOK
    <3> QED
      BY <1>2, <1>3, <2>2, <3>3 DEF Gauge
  <2>3. CASE n # NameIn(r)
    <3>1. r \notin RunsOf(n) /\ failures'[n] = failures[n]
      BY <1>2, <2>3 DEF RunsOf, CountInv, RInv, TypeOK
    <3> QED
      BY <1>2, <1>3, <2>1, <3>1 DEF Gauge
  <2> QED
    BY <2>2, <2>3
<1> QED
  BY <1>1, <1>2, <1>3, <1>4 DEF CountInv

(* The result catches up with the gauge.                                     *)
LEMMA JobCompleteCount == ASSUME CountInv, NEW r \in Run, JobComplete(r) PROVE CountInv'
<1>1. RInv'
  BY ReportInv DEF CountInv
<1>2. /\ pc[r] = "complete" /\ Goto(r, "done")
      /\ jobResults' = [jobResults EXCEPT ![NameIn(r)] = Outcome(r)]
      /\ streak' = [streak EXCEPT ![NameIn(r)] = IF ok[r] THEN 0 ELSE streak[NameIn(r)] + 1]
      /\ UNCHANGED <<job, ok, beside, failures>>
  BY DEF JobComplete
<1>3. /\ pc'[r] = "done" /\ \A s \in Run : s # r => pc'[s] = pc[s]
      /\ Beside'
      /\ r \in RunsOf(NameIn(r)) \cap InFlight /\ NameIn(r) \in Name
      /\ \A n : RunsOf(n)' = RunsOf(n) /\ Solo(n)' = Solo(n)
  BY <1>2, ReportStep
<1>4. ASSUME NEW n \in Name PROVE streak'[n] > 0 <=> jobResults'[n] = "failed"
  <2>1. streak[n] \in Nat /\ (streak[n] > 0 <=> jobResults[n] = "failed")
    BY <1>4 DEF CountInv, RInv, TypeOK
  <2>2. CASE n = NameIn(r)
    <3>1. /\ streak'[n] = IF ok[r] THEN 0 ELSE streak[n] + 1
          /\ jobResults'[n] = Outcome(r)
      BY <1>2, <2>2 DEF CountInv, RInv, TypeOK
    <3> QED
      BY <2>1, <3>1 DEF Outcome
  <2>3. CASE n # NameIn(r)
    BY <1>2, <2>1, <2>3 DEF CountInv, RInv, TypeOK
  <2> QED
    BY <2>2, <2>3
<1>5. ASSUME NEW n \in Name, Solo(n)' PROVE Gauge(n)'
  <2>1. Solo(n) /\ Gauge(n) /\ RunsOf(n) \subseteq Run
    BY <1>3, <1>5 DEF CountInv, RunsOf
  <2>2. CASE n = NameIn(r)
    <3>1. \A s \in RunsOf(n) : pc[s] = "complete" => s = r
      <4> SUFFICES ASSUME NEW s \in RunsOf(n), pc[s] = "complete" PROVE s = r
        OBVIOUS
      <4>1. s \in RunsOf(n) \cap InFlight
        BY <2>1 DEF InFlight
      <4> QED
        BY <1>3, <2>1, <2>2, <4>1, SoloAlone DEF CountInv
    <3>2. failures[n] = IF ok[r] THEN 0 ELSE streak[n] + 1
      BY <1>2, <1>3, <2>1, <2>2, <3>1 DEF Gauge
    <3>3. failures'[n] = streak'[n]
      BY <1>2, <2>2, <3>2 DEF CountInv, RInv, TypeOK
    <3>4. \A s \in RunsOf(n) : pc'[s] # "complete"
      BY <1>3, <2>1, <3>1
    <3> QED
      BY <1>3, <3>3, <3>4 DEF Gauge
  <2>3. CASE n # NameIn(r)
    <3>1. r \notin RunsOf(n) /\ streak'[n] = streak[n]
      BY <1>2, <2>3 DEF RunsOf, CountInv, RInv, TypeOK
    <3> QED
      BY <1>2, <1>3, <2>1, <3>1 DEF Gauge
  <2> QED
    BY <2>2, <2>3
<1> QED
  BY <1>1, <1>3, <1>4, <1>5 DEF CountInv

(* Every step preserves the count.                                           *)
LEMMA NextCount == CountInv /\ [Next]_vars => CountInv'
<1> SUFFICES ASSUME CountInv, [Next]_vars PROVE CountInv'
  OBVIOUS
<1>1. RInv'
  BY NextRInv DEF CountInv
<1>2. ASSUME NEW r \in Run, Begin(r) \/ SetGauge(r) \/ JobComplete(r) PROVE CountInv'
  BY <1>2, BeginCount, SetGaugeCount, JobCompleteCount
<1>3. ASSUME NEW r \in Run,
             \/ StartCommand(r) \/ Ensure(r) \/ InitRepo(r) \/ RunScript(r)
             \/ RunBackup(r) \/ Forget(r) \/ ReadSnapshots(r) \/ SetCount(r)
      PROVE  CountInv'
  <2>1. RInv /\ Beside
    BY DEF CountInv
  <2> QED
    BY <1>1, <1>3, <2>1, CommandStep, CommandCount
<1>4. CASE Crash \/ UNCHANGED vars
  <2>1. UNCHANGED <<pc, job, ok, beside, failures, jobResults, streak>>
    BY <1>4 DEF Crash, vars, local, reports, history
  <2>2. Beside'
    BY <2>1 DEF CountInv, Beside, InFlight
  <2>3. \A n \in Name : Solo(n)' => Gauge(n)'
    BY <2>1 DEF CountInv, Solo, Gauge, RunsOf, NameIn
  <2> QED
    BY <1>1, <2>1, <2>2, <2>3 DEF CountInv
<1> QED
  BY <1>2, <1>3, <1>4 DEF Next, Step

(* While the runs of a name have not overlapped, its failure gauge is the    *)
(* number of failures since its last success whenever none is in flight, and *)
(* /health answers 503 exactly when that is not zero; runs of other names,   *)
(* refreshes and faults do not matter.                                       *)
THEOREM FailureCountAgreesHolds == Spec => []FailureCountAgrees
<1>1. CountInv => FailureCountAgrees
  <2> SUFFICES ASSUME CountInv, NEW n \in Name, Solo(n), Settled(n)
               PROVE  failures[n] = streak[n] /\ (failures[n] > 0 <=> Health(n) = 503)
    BY DEF FailureCountAgrees
  <2>1. \A r \in RunsOf(n) : pc[r] # "complete"
    BY DEF Settled, InFlight, RunsOf
  <2>2. failures[n] = streak[n]
    BY <2>1 DEF CountInv, Gauge
  <2>3. Health(n) = 503 <=> jobResults[n] = "failed"
    BY DEF Health
  <2> QED
    BY <2>2, <2>3 DEF CountInv
<1>2. Spec => []CountInv
  BY InitCount, NextCount, PTL DEF Spec
<1> QED
  BY <1>1, <1>2, PTL
-------------------------------------------------------------------------------
(* Why runs fail. *)

(* A command of the run failed by itself, it took part in a race for the     *)
(* first init of its repository, or one of it and a run beside it forgets.   *)
Cause(r) ==
  \/ \E l \in {"open", "init", "task", "forget"} : <<r, l>> \in faults
  \/ /\ r \notin found
     /\ \/ <<r, "ensure">> \in faults
        \/ \E s \in beside[r] \cap madeRepo : RepoIn(s) = RepoIn(r)
  \/ \E s \in beside[r] : RepoIn(s) = RepoIn(r) /\ (Forgetting(r) \/ Forgetting(s))

(* Who made the repository that a run in flight did not find when it began:  *)
(* a run beside it.                                                          *)
MadeBeside ==
  \A r \in InFlight \ found : \A s \in madeRepo \ {r} :
    RepoIn(s) = RepoIn(r) => s \in beside[r]

CauseInv ==
  /\ CountInv
  /\ MadeBeside
  /\ \A r \in Run : ~ok[r] => Cause(r)
  /\ \A r \in found : exists[RepoIn(r)]
  /\ \A p \in Repo : exists[p] => \E s \in madeRepo : RepoIn(s) = p
  /\ \A s \in madeRepo : exists[RepoIn(s)] /\ pc[s] \notin {"idle", "ensure", "init"}
  /\ \A r \in Run : pc[r] = "init" => r \notin found \/ <<r, "open">> \in faults
  /\ \A r \in Run : pc[r] = "forget" => job[r] \in Forgets
  /\ \A r \in Run : pc[r] = "task" => exists[RepoIn(r)] \/ <<r, "ensure">> \in faults

(* A cause stays one. *)
LEMMA CauseStays ==
  ASSUME NEW r, Cause(r), job' = job, faults \subseteq faults',
         r \in found' => r \in found, beside[r] \subseteq beside'[r],
         madeRepo \subseteq madeRepo'
  PROVE  Cause(r)'
<1>1. \A s : RepoIn(s)' = RepoIn(s) /\ Forgetting(s)' = Forgetting(s)
  BY DEF RepoIn, Forgetting
<1>2. beside[r] \subseteq beside[r]'
  OBVIOUS
<1> QED
  BY <1>1, <1>2 DEF Cause

(* A lock in the way is of a run beside this one, and one of the two forgets. *)
LEMMA LockCause ==
  ASSUME CauseInv, NEW r \in InFlight, LockedOut(r)
  PROVE  Cause(r)
<1>1. PICK s \in Run \ {r} : Locking(s) /\ RepoIn(s) = RepoIn(r) /\ "forget" \in {pc[r], pc[s]}
  BY DEF LockedOut
<1>2. s \in InFlight
  BY <1>1 DEF Locking, InFlight
<1>3. s \in beside[r]
  BY <1>1, <1>2 DEF CauseInv, CountInv, Beside
<1>4. \A t \in Run : pc[t] = "forget" => Forgetting(t)
  BY DEF CauseInv, CountInv, Beside, Forgetting
<1>5. r \in Run
  BY DEF InFlight
<1> QED
  BY <1>1, <1>3, <1>4, <1>5 DEF Cause

(* A step of a run that neither begins it nor calls init: it has to account  *)
(* for its own failure, and for where it goes.                               *)
LEMMA StepCause ==
  ASSUME CauseInv, CountInv', NEW r \in InFlight,
         UNCHANGED <<job, exists, found, beside, madeRepo>>,
         faults \subseteq faults',
         \A s \in Run : s # r => pc'[s] = pc[s] /\ ok'[s] = ok[s],
         ~ok'[r] => ~ok[r] \/ Cause(r)',
         pc'[r] \notin {"idle", "ensure", "init"} \/ r \notin madeRepo,
         pc'[r] = "init" => r \notin found \/ <<r, "open">> \in faults',
         pc'[r] = "forget" => job[r] \in Forgets,
         pc'[r] = "task" => exists[RepoIn(r)] \/ <<r, "ensure">> \in faults'
  PROVE  CauseInv'
<1>1. \A s \in Run : RepoIn(s)' = RepoIn(s)
  BY DEF RepoIn
<1>2. \A s \in Run : Cause(s) => Cause(s)'
  BY CauseStays
<1>3. InFlight' \subseteq InFlight
  BY DEF InFlight
<1>4. found \subseteq Run /\ madeRepo \subseteq Run
  BY DEF CauseInv, CountInv, RInv, TypeOK
<1>5. MadeBeside'
  BY <1>1, <1>3, <1>4 DEF CauseInv, MadeBeside, InFlight
<1>6. \A s \in Run : ~ok'[s] => Cause(s)'
  BY <1>2 DEF CauseInv
<1>7. \A s \in found' : exists'[RepoIn(s)']
  BY <1>1, <1>4 DEF CauseInv
<1>8. \A p \in Repo : exists'[p] => \E s \in madeRepo' : RepoIn(s)' = p
  BY <1>1, <1>4 DEF CauseInv
<1>9. \A s \in madeRepo' : exists'[RepoIn(s)'] /\ pc'[s] \notin {"idle", "ensure", "init"}
  BY <1>1, <1>4 DEF CauseInv
<1>10. /\ \A s \in Run : pc'[s] = "init" => s \notin found' \/ <<s, "open">> \in faults'
       /\ \A s \in Run : pc'[s] = "forget" => job'[s] \in Forgets
  BY DEF CauseInv
<1>11. \A s \in Run : pc'[s] = "task" => exists'[RepoIn(s)'] \/ <<s, "ensure">> \in faults'
  BY <1>1 DEF CauseInv
<1> QED
  BY <1>5, <1>6, <1>7, <1>8, <1>9, <1>10, <1>11 DEF CauseInv

(* No run has begun. *)
LEMMA InitCause == Init => CauseInv
<1> SUFFICES ASSUME Init PROVE CauseInv
  OBVIOUS
<1>1. CountInv
  BY InitCount
<1>2. MadeBeside
  BY DEF Init, MadeBeside
<1> QED
  BY <1>1, <1>2 DEF Init, CauseInv

(* A run that begins finds its repository, or nobody has made it yet.        *)
LEMMA BeginCause ==
  ASSUME CauseInv, CountInv', NEW r \in Run, Begin(r)
  PROVE  CauseInv'
<1>1. /\ pc[r] = "idle"
      /\ UNCHANGED <<job, ok, exists, faults, madeRepo>>
      /\ found' = IF exists[RepoIn(r)] THEN found \cup {r} ELSE found
  BY DEF Begin, world
<1>2. /\ pc'[r] \in {"read", "ensure"}
      /\ \A s \in Run : s # r => pc'[s] = pc[s]
  BY GotoEffect DEF Begin, Labels, Commands, CauseInv, CountInv, RInv
<1>3. /\ beside'[r] = InFlight
      /\ \A s \in Run : s # r => beside[s] \subseteq beside'[s]
  BY DEF Begin
<1>4. \A s \in Run : RepoIn(s)' = RepoIn(s)
  BY <1>1 DEF RepoIn
<1>5. found \subseteq Run /\ madeRepo \subseteq Run /\ ok[r]
  BY <1>1 DEF CauseInv, CountInv, RInv, TypeOK, Progress
<1>6. MadeBeside'
  <2> SUFFICES ASSUME NEW t \in InFlight', t \notin found', NEW s \in madeRepo, s # t,
                      RepoIn(s) = RepoIn(t)
               PROVE  s \in beside'[t]
    BY <1>1, <1>4, <1>5 DEF MadeBeside, InFlight
  <2>1. CASE t = r
    BY <1>1, <2>1 DEF CauseInv
  <2>2. CASE t # r
    <3>1. t \in InFlight \ found
      BY <1>1, <1>2, <2>2 DEF InFlight
    <3> QED
      BY <1>3, <2>2, <3>1 DEF CauseInv, MadeBeside, InFlight
  <2> QED
    BY <2>1, <2>2
<1>7. ASSUME NEW s \in Run, ~ok'[s] PROVE Cause(s)'
  <2>1. s # r /\ Cause(s)
    BY <1>1, <1>5, <1>7 DEF CauseInv
  <2> QED
    BY <1>1, <1>3, <2>1, CauseStays
<1>8. \A s \in found' : exists'[RepoIn(s)']
  BY <1>1, <1>4, <1>5 DEF CauseInv
<1>9. \A p \in Repo : exists'[p] => \E s \in madeRepo' : RepoIn(s)' = p
  BY <1>1, <1>4, <1>5 DEF CauseInv
<1>10. \A s \in madeRepo' : exists'[RepoIn(s)'] /\ pc'[s] \notin {"idle", "ensure", "init"}
  BY <1>1, <1>2, <1>4, <1>5 DEF CauseInv
<1>11. /\ \A s \in Run : pc'[s] = "init" => s \notin found' \/ <<s, "open">> \in faults'
       /\ \A s \in Run : pc'[s] = "forget" => job'[s] \in Forgets
  BY <1>1, <1>2 DEF CauseInv
<1>12. \A s \in Run : pc'[s] = "task" => exists'[RepoIn(s)'] \/ <<s, "ensure">> \in faults'
  BY <1>1, <1>2, <1>4 DEF CauseInv
<1> QED
  BY <1>6, <1>7, <1>8, <1>9, <1>10, <1>11, <1>12 DEF CauseInv

(* Init makes the repository, beside all that are in flight, or fails: by    *)
(* itself, or because a run beside it was first.                             *)
LEMMA InitRepoCause ==
  ASSUME CauseInv, CountInv', NEW r \in Run, InitRepo(r)
  PROVE  CauseInv'
<1>1. /\ pc[r] = "init" /\ r \in InFlight /\ r \notin madeRepo
      /\ r \notin found \/ <<r, "open">> \in faults
      /\ UNCHANGED <<job, found, beside>>
  BY DEF InitRepo, Ready, InFlight, CauseInv
<1>2. \A s \in Run : RepoIn(s)' = RepoIn(s)
  BY <1>1 DEF RepoIn
<1>3. \A s \in Run : s # r => pc'[s] = pc[s] /\ ok'[s] = ok[s]
  BY CommandStep DEF CauseInv, CountInv
<1>4. RInv /\ "task" \in Labels /\ "read" \in Labels /\ RepoIn(r) \in Repo
  BY RunType DEF CauseInv, CountInv, RInv, Labels, Commands
<1>5. CASE /\ ~exists[RepoIn(r)] /\ exists' = [exists EXCEPT ![RepoIn(r)] = TRUE]
           /\ madeRepo' = madeRepo \cup {r} /\ Goto(r, "task")
           /\ UNCHANGED <<step, ok, err, faults>>
  <2>1. pc'[r] = "task"
    BY <1>4, <1>5, GotoEffect DEF RInv
  <2>2. \A p \in Repo : exists'[p] <=> exists[p] \/ p = RepoIn(r)
    BY <1>4, <1>5 DEF RInv, TypeOK
  <2>3. found \subseteq Run /\ madeRepo \subseteq Run /\ \A s \in Run : RepoIn(s) \in Repo
    BY <1>4, RunType DEF RInv, TypeOK
  <2>4. MadeBeside'
    <3> SUFFICES ASSUME NEW t \in InFlight', t \notin found, NEW s \in madeRepo \cup {r},
                        s # t, RepoIn(s) = RepoIn(t)
                 PROVE  s \in beside[t]
      BY <1>1, <1>2, <1>5, <2>3 DEF MadeBeside, InFlight
    <3>1. t \in InFlight
      BY <1>1, <1>3 DEF InFlight
    <3>2. CASE s = r
      BY <1>1, <3>1, <3>2 DEF CauseInv, CountInv, Beside
    <3>3. CASE s \in madeRepo
      BY <3>1, <3>3 DEF CauseInv, MadeBeside
    <3> QED
      BY <3>2, <3>3
  <2>5. \A s \in Run : ~ok'[s] => Cause(s)'
    BY <1>1, <1>5, CauseStays DEF CauseInv
  <2>6. \A s \in found' : exists'[RepoIn(s)']
    BY <1>1, <1>2, <2>2, <2>3 DEF CauseInv
  <2>7. \A p \in Repo : exists'[p] => \E s \in madeRepo' : RepoIn(s)' = p
    BY <1>2, <1>5, <2>2, <2>3 DEF CauseInv
  <2>8. \A s \in madeRepo' : exists'[RepoIn(s)'] /\ pc'[s] \notin {"idle", "ensure", "init"}
    BY <1>2, <1>3, <1>5, <2>1, <2>2, <2>3 DEF CauseInv
  <2>9. /\ \A s \in Run : pc'[s] = "init" => s \notin found' \/ <<s, "open">> \in faults'
        /\ \A s \in Run : pc'[s] = "forget" => job'[s] \in Forgets
    BY <1>1, <1>3, <1>5, <2>1 DEF CauseInv
  <2>10. \A s \in Run : pc'[s] = "task" => exists'[RepoIn(s)'] \/ <<s, "ensure">> \in faults'
    BY <1>2, <1>3, <1>5, <2>2, <2>3 DEF CauseInv
  <2> QED
    BY <2>4, <2>5, <2>6, <2>7, <2>8, <2>9, <2>10 DEF CauseInv
<1>6. CASE exists[RepoIn(r)] /\ Fail(r) /\ UNCHANGED <<exists, madeRepo, faults>>
  <2>1. pc'[r] = "read"
    BY <1>4, <1>6, GotoEffect DEF Fail, RInv
  <2>2. PICK s \in madeRepo : RepoIn(s) = RepoIn(r)
    BY <1>4, <1>6 DEF CauseInv
  <2>3. r \notin found => s \in beside[r]
    BY <1>1, <2>2 DEF CauseInv, MadeBeside
  <2>4. Cause(r)
    BY <1>1, <2>2, <2>3 DEF Cause
  <2>5. Cause(r)'
    BY <1>1, <1>6, <2>4, CauseStays
  <2> QED
    BY <1>1, <1>3, <1>6, <2>1, <2>5, StepCause
<1>7. CASE Fault(r, "init") /\ Fail(r) /\ UNCHANGED <<exists, madeRepo>>
  <2>1. pc'[r] = "read"
    BY <1>4, <1>7, GotoEffect DEF Fail, RInv
  <2>2. faults' = faults \cup {<<r, "init">>}
    BY <1>1, <1>7 DEF Fault
  <2>3. Cause(r)'
    BY <2>2 DEF Cause, Commands
  <2> QED
    BY <1>1, <1>3, <1>7, <2>1, <2>2, <2>3, StepCause
<1> QED
  BY <1>5, <1>6, <1>7 DEF InitRepo

(* The other commands: one that fails leaves its fault, or was locked out.   *)
(* Only a backup can also fail because there is no repository, and then the  *)
(* listing at the start of the run had an error.                             *)
LEMMA CommandCause ==
  ASSUME CauseInv, CountInv', NEW r \in Run,
         \/ StartCommand(r) \/ Ensure(r) \/ RunScript(r)
         \/ RunBackup(r) \/ Forget(r) \/ ReadSnapshots(r) \/ SetCount(r)
  PROVE  CauseInv'
<1>1. /\ r \in InFlight
      /\ UNCHANGED <<job, exists, found, beside, madeRepo>>
      /\ faults \subseteq faults'
  BY DEF StartCommand, Ensure, RunScript, RunBackup, Forget, ReadSnapshots, SetCount, Ready,
         InFlight, Commands, Fault, world, history
<1>2. \A s \in Run : s # r => pc'[s] = pc[s] /\ ok'[s] = ok[s]
  BY CommandStep DEF CauseInv, CountInv
<1>3. RInv /\ {"read", "task", "init", "forget", "set", "gauge", "done"} \subseteq Labels
  BY DEF CauseInv, CountInv, Labels, Commands
<1>4. CASE StartCommand(r)
  <2>1. pc' = pc /\ ok' = ok
    BY <1>4 DEF StartCommand
  <2>2. pc'[r] = "task" => exists[RepoIn(r)] \/ <<r, "ensure">> \in faults'
    BY <1>1, <2>1 DEF CauseInv
  <2> QED
    BY <1>1, <1>2, <2>1, <2>2, StepCause DEF CauseInv
<1>5. CASE Ensure(r)
  <2>1. pc[r] = "ensure" /\ ok' = ok /\ r \notin madeRepo
    BY <1>5 DEF Ensure, Ready, CauseInv
  <2>2. CASE exists[RepoIn(r)] /\ Goto(r, "task")
    <3>1. pc'[r] = "task"
      BY <1>3, <2>2, GotoEffect DEF RInv
    <3> QED
      BY <1>1, <1>2, <2>1, <2>2, <3>1, StepCause
  <2>3. CASE ~exists[RepoIn(r)] /\ Goto(r, "init")
    <3>1. pc'[r] = "init" /\ r \notin found
      BY <1>3, <2>3, GotoEffect DEF RInv, CauseInv
    <3> QED
      BY <1>1, <1>2, <2>1, <3>1, StepCause
  <2>4. CASE exists[RepoIn(r)] /\ Fault(r, "open") /\ Goto(r, "init")
    <3>1. pc'[r] = "init" /\ <<r, "open">> \in faults'
      BY <1>3, <2>4, GotoEffect DEF RInv, Fault
    <3> QED
      BY <1>1, <1>2, <2>1, <3>1, StepCause
  <2>5. CASE Fault(r, "ensure") /\ Goto(r, "task")
    <3>1. pc'[r] = "task" /\ <<r, "ensure">> \in faults'
      BY <1>3, <2>1, <2>5, GotoEffect DEF RInv, Fault
    <3> QED
      BY <1>1, <1>2, <2>1, <3>1, StepCause
  <2> QED
    BY <1>5, <2>2, <2>3, <2>4, <2>5 DEF Ensure
<1>6. CASE RunScript(r) \/ RunBackup(r) \/ Forget(r)
  <2>1. pc[r] \in {"task", "forget"} /\ ok[r]
    BY <1>6 DEF RunScript, RunBackup, Forget, Ready, CauseInv, CountInv, RInv, Progress
  <2>2. CASE \/ Advance(r) /\ pc[r] = "task"
             \/ Goto(r, "read") /\ ok' = ok
    <3>1. PICK l \in {"task", "forget", "read"} :
            /\ Goto(r, l)
            /\ l = "task" => pc[r] = "task"
            /\ l = "forget" => job[r] \in Forgets
      BY <2>2 DEF Advance, AfterTask
    <3>2. pc'[r] = l
      BY <1>3, <3>1, GotoEffect DEF RInv
    <3>3. ok'[r]
      BY <2>1, <2>2 DEF Advance
    <3>4. pc'[r] = "task" => exists[RepoIn(r)] \/ <<r, "ensure">> \in faults'
      BY <1>1, <3>1, <3>2 DEF CauseInv
    <3> QED
      BY <1>1, <1>2, <3>1, <3>2, <3>3, <3>4, StepCause
  <2>3. CASE /\ Fail(r)
             /\ \/ Fault(r, "task") \/ Fault(r, "forget")
                \/ ~exists[RepoIn(r)] /\ pc[r] = "task"
                \/ LockedOut(r)
    <3>1. pc'[r] = "read"
      BY <1>3, <2>3, GotoEffect DEF Fail, RInv
    <3>2. Cause(r)'
      <4>1. CASE Fault(r, "task") \/ Fault(r, "forget")
        BY <4>1 DEF Cause, Fault
      <4>2. CASE ~exists[RepoIn(r)] /\ pc[r] = "task"
        BY <1>1, <4>2 DEF CauseInv, Cause
      <4>3. CASE LockedOut(r)
        BY <1>1, <4>3, LockCause, CauseStays
      <4> QED
        BY <2>3, <4>1, <4>2, <4>3
    <3> QED
      BY <1>1, <1>2, <3>1, <3>2, StepCause
  <2>4. CASE RunScript(r)
    BY <2>2, <2>3, <2>4 DEF RunScript, Ready
  <2>5. CASE RunBackup(r)
    BY <2>2, <2>3, <2>5 DEF RunBackup, Ready
  <2>6. CASE Forget(r)
    <3>1. \/ Goto(r, "read") /\ ok' = ok
          \/ Fail(r) /\ (Fault(r, "forget") \/ LockedOut(r))
      BY <2>6 DEF Forget
    <3> QED
      BY <2>2, <2>3, <3>1
  <2> QED
    BY <1>6, <2>4, <2>5, <2>6
<1>7. CASE ReadSnapshots(r) \/ SetCount(r)
  <2>1. ok' = ok /\ \E l \in {"set", "gauge", "done"} : Goto(r, l)
    BY <1>7 DEF ReadSnapshots, SetCount, AfterRead
  <2>2. pc'[r] \in {"set", "gauge", "done"}
    BY <1>3, <2>1, GotoEffect DEF RInv
  <2> QED
    BY <1>1, <1>2, <2>1, <2>2, StepCause
<1> QED
  BY <1>4, <1>5, <1>6, <1>7

(* Every step keeps the causes.                                              *)
LEMMA NextCause == CauseInv /\ [Next]_vars => CauseInv'
<1> SUFFICES ASSUME CauseInv, [Next]_vars PROVE CauseInv'
  OBVIOUS
<1>1. CountInv'
  BY NextCount DEF CauseInv
<1>2. ASSUME NEW r \in Run, Begin(r) PROVE CauseInv'
  BY <1>1, <1>2, BeginCause
<1>3. ASSUME NEW r \in Run, InitRepo(r) PROVE CauseInv'
  BY <1>1, <1>3, InitRepoCause
<1>4. ASSUME NEW r \in Run,
             \/ StartCommand(r) \/ Ensure(r) \/ RunScript(r)
             \/ RunBackup(r) \/ Forget(r) \/ ReadSnapshots(r) \/ SetCount(r)
      PROVE  CauseInv'
  BY <1>1, <1>4, CommandCause
<1>5. ASSUME NEW r \in Run, SetGauge(r) \/ JobComplete(r) PROVE CauseInv'
  <2>1. PICK l \in {"complete", "done"} : Goto(r, l)
    BY <1>5 DEF SetGauge, JobComplete
  <2>2. /\ r \in InFlight /\ ok' = ok
        /\ UNCHANGED <<job, exists, found, beside, madeRepo, faults>>
    BY <1>5 DEF SetGauge, JobComplete, InFlight, world, history
  <2>3. pc'[r] = l /\ \A s \in Run : s # r => pc'[s] = pc[s]
    BY <2>1, GotoEffect DEF CauseInv, CountInv, RInv, Labels
  <2> QED
    BY <1>1, <2>2, <2>3, StepCause
<1>6. CASE Crash \/ UNCHANGED vars
  <2>1. UNCHANGED <<pc, job, ok, exists, found, beside, madeRepo, faults>>
    BY <1>6 DEF Crash, vars, local, world, history
  <2>2. MadeBeside'
    BY <2>1 DEF CauseInv, MadeBeside, InFlight, RepoIn
  <2> QED
    BY <1>1, <2>1, <2>2 DEF CauseInv, Cause, RepoIn, Forgetting
<1> QED
  BY <1>2, <1>3, <1>4, <1>5, <1>6 DEF Next, Step

(* A run fails only when something other than a listing of snapshots failed  *)
(* for it, when it did not find its repository and either its first listing  *)
(* had an error or a run beside it was first to make the repository, or when *)
(* a run beside it works on the same repository and one of the two forgets.  *)
(* Runs make each other fail in no other way, however many there are: not    *)
(* through the dump files they share, nor through their listings.            *)
THEOREM FailsOnlyForCauseHolds == Spec => []FailsOnlyForCause
<1>1. CauseInv => FailsOnlyForCause
  BY DEF CauseInv, Cause, FailsOnlyForCause
<1>2. Spec => []CauseInv
  BY InitCause, NextCause, PTL DEF Spec
<1> QED
  BY <1>1, <1>2, PTL
===============================================================================
