--------------------------- MODULE JobRunWorldProofs ---------------------------
(***************************************************************************)
(* Proofs about JobRun, continued: the dump files that runs share, and the *)
(* gauge of the snapshots.                                                 *)
(***************************************************************************)
EXTENDS JobRunProofs

(* The runs in flight with r whose plans dump to p. *)
Others(r, p) == {s \in beside[r] \ Refresher : p \in Dumps(job[s])}

(* In the file p is what r dumped, whole, but for what such runs did to it. *)
Held(r, p) ==
  /\ file[p] \subseteq {r} \cup Others(r, p)
  /\ Others(r, p) = {} => file[p] = {r}

(* The dumps of r's plan that are done or going on are in their files. *)
Made(r) ==
  \A n \in 1..step[r] :
    Plan[job[r]][n] \in Path /\ (n < step[r] \/ stage[r] = "exec")
      => Held(r, Plan[job[r]][n])

DumpInv ==
  /\ CountInv
  /\ \A r \in Run : pc[r] = "task" => Made(r)

(* What a run alone has listed is what there is until it has set the gauge, *)
(* and when no run is at its commands or its count, the gauge of the name   *)
(* that was read last is the number of snapshots there are.                 *)
GaugeInv ==
  /\ CountInv
  /\ \A r \in Run : pc[r] = "set" /\ beside[r] = {} => listing[r] = snaps[RepoIn(r)]
  /\ (\A s \in Run : pc[s] \notin Commands \cup {"set"}) =>
       \A r \in lastRead : current[NameIn(r)] = snaps[RepoIn(r)]

-------------------------------------------------------------------------------
(* The gauge of the snapshots. *)

(* What a run alone has listed stays true while it is on its way to the      *)
(* gauge: a step of another run that changes the snapshots is of one beside. *)
LEMMA ListingStays ==
  ASSUME GaugeInv, NEW r \in Run, NEW s \in Run \ {r},
         pc[r] = "set", listing'[r] = listing[r], job' = job,
         beside[r] \subseteq beside'[r], beside'[r] = {},
         snaps' # snaps => s \in InFlight
  PROVE  listing'[r] = snaps'[RepoIn(r)']
<1>1. r \in InFlight /\ beside[r] = {}
  BY DEF InFlight
<1>2. snaps' = snaps
  BY <1>1 DEF GaugeInv, CountInv, Beside
<1> QED
  BY <1>1, <1>2 DEF GaugeInv, RepoIn

(* Which runs a step can add to those at a command or a count, and what it   *)
(* leaves alone.                                                             *)
LEMMA GaugeStep ==
  ASSUME CountInv, NEW s \in Run, Begin(s) \/ Step(s)
  PROVE  /\ job' = job
         /\ \A r \in Run \ {s} : /\ pc'[r] = pc[r] /\ listing'[r] = listing[r]
                                /\ beside[r] \subseteq beside'[r]
         /\ snaps' # snaps => s \in InFlight
<1>1. RInv /\ TypeOK
  BY DEF CountInv, RInv
<1>2. job' = job
  BY DEF Begin, Step, StartCommand, Ensure, InitRepo, RunScript, RunBackup, Forget,
         ReadSnapshots, SetCount, SetGauge, JobComplete
<1>3. pc' = pc \/ \E l : Goto(s, l)
  BY DEF Begin, Step, StartCommand, Ensure, InitRepo, RunScript, RunBackup, Forget,
         ReadSnapshots, SetCount, SetGauge, JobComplete, Fail, Advance
<1>4. \A r \in Run \ {s} : pc'[r] = pc[r]
  BY <1>1, <1>3 DEF Goto, TypeOK
<1>5. listing' = listing \/ \E k : listing' = [listing EXCEPT ![s] = k]
  BY DEF Begin, Step, StartCommand, Ensure, InitRepo, RunScript, RunBackup, Forget,
         ReadSnapshots, SetCount, SetGauge, JobComplete
<1>6. \A r \in Run \ {s} : listing'[r] = listing[r]
  BY <1>1, <1>5 DEF TypeOK
<1>7. \A r \in Run \ {s} : beside[r] \subseteq beside'[r]
  <2>1. beside' = beside \/ Begin(s)
    BY DEF Begin, Step, StartCommand, Ensure, InitRepo, RunScript, RunBackup, Forget,
           ReadSnapshots, SetCount, SetGauge, JobComplete, history
  <2> QED
    BY <2>1 DEF Begin
<1>8. snaps' # snaps => s \in InFlight
  BY DEF Begin, Step, StartCommand, Ensure, InitRepo, RunScript, RunBackup, Forget,
         ReadSnapshots, SetCount, SetGauge, JobComplete, Ready, InFlight, world
<1> QED
  BY <1>2, <1>4, <1>6, <1>7, <1>8

(* Every step that can add or remove snapshots is of a command, and a run    *)
(* counts them after its last command.                                       *)
LEMMA NextGauge == GaugeInv /\ [Next]_vars => GaugeInv'
<1> SUFFICES ASSUME GaugeInv, [Next]_vars PROVE GaugeInv'
  OBVIOUS
<1>1. CountInv /\ CountInv' /\ RInv /\ RInv' /\ TypeOK
  BY NextCount DEF GaugeInv, CountInv, RInv
<1>2. CASE Crash \/ UNCHANGED vars
  <2>1. UNCHANGED <<pc, job, lastRead, current, snaps, beside, listing>>
    BY <1>2 DEF Crash, vars, local, world, reports, history
  <2> QED
    BY <1>1, <2>1 DEF GaugeInv, NameIn, RepoIn
<1>3. ASSUME NEW s \in Run, Begin(s) \/ Step(s), NEW r \in Run \ {s},
             pc'[r] = "set", beside'[r] = {}
      PROVE  listing'[r] = snaps'[RepoIn(r)']
  BY <1>1, <1>3, GaugeStep, ListingStays
<1>4. ASSUME NEW s \in Run, Begin(s) \/ Step(s),
             pc'[s] = "set" => listing'[s] = snaps'[RepoIn(s)'],
             \/ pc'[s] \in Commands \cup {"set"}
             \/ /\ pc[s] \notin Commands \cup {"set"}
                /\ UNCHANGED <<lastRead, current, snaps>>
             \/ \A r \in lastRead' : current'[NameIn(r)'] = snaps'[RepoIn(r)']
      PROVE  GaugeInv'
  <2>1. \A r \in Run : pc'[r] = "set" /\ beside'[r] = {} => listing'[r] = snaps'[RepoIn(r)']
    BY <1>3, <1>4
  <2>2. job' = job /\ \A r \in Run \ {s} : pc'[r] = pc[r]
    BY <1>1, <1>4, GaugeStep
  <2>3. ASSUME \A t \in Run : pc'[t] \notin Commands \cup {"set"}, NEW r \in lastRead'
        PROVE  current'[NameIn(r)'] = snaps'[RepoIn(r)']
    <3>1. CASE /\ pc[s] \notin Commands \cup {"set"}
               /\ UNCHANGED <<lastRead, current, snaps>>
      <4>1. \A t \in Run : pc[t] \notin Commands \cup {"set"}
        BY <2>2, <2>3, <3>1
      <4>2. current[NameIn(r)] = snaps[RepoIn(r)]
        BY <2>3, <3>1, <4>1 DEF GaugeInv
      <4> QED
        BY <2>2, <3>1, <4>2 DEF NameIn, RepoIn
    <3> QED
      BY <1>4, <2>3, <3>1
  <2> QED
    BY <1>1, <2>1, <2>3 DEF GaugeInv
<1>5. ASSUME NEW s \in Run,
             \/ Begin(s) \/ StartCommand(s) \/ Ensure(s) \/ InitRepo(s)
             \/ RunScript(s) \/ RunBackup(s) \/ Forget(s)
      PROVE  GaugeInv'
  <2>1. \/ pc' = pc /\ pc[s] \in Commands
        \/ \E l \in Commands : Goto(s, l)
    BY <1>5 DEF Begin, StartCommand, Ensure, InitRepo, RunScript, RunBackup, Forget, Fail,
       Advance, AfterTask, Commands
  <2>2. pc'[s] \in Commands /\ "set" \notin Commands
    BY <1>1, <2>1, GotoEffect DEF Labels, Commands
  <2>3. Begin(s) \/ Step(s)
    BY <1>5 DEF Step
  <2> QED
    BY <1>4, <2>2, <2>3
<1>6. ASSUME NEW s \in Run, ReadSnapshots(s) PROVE GaugeInv'
  <2>1. CASE /\ listing' = [listing EXCEPT ![s] = snaps[RepoIn(s)]]
             /\ Goto(s, "set")
    <3>1. pc'[s] = "set"
      BY <1>1, <2>1, GotoEffect DEF Labels
    <3>2. listing'[s] = snaps[RepoIn(s)] /\ job' = job /\ snaps' = snaps
      BY <1>1, <1>6, <2>1 DEF ReadSnapshots, TypeOK, world
    <3>3. listing'[s] = snaps'[RepoIn(s)']
      BY <3>2 DEF RepoIn
    <3> QED
      BY <1>4, <1>6, <3>1, <3>3 DEF Step
  <2>2. CASE lastRead' = {} /\ Goto(s, AfterRead(s))
    <3>1. pc'[s] # "set"
      BY <1>1, <2>2, GotoEffect DEF Labels, AfterRead
    <3> QED
      BY <1>4, <1>6, <2>2, <3>1 DEF Step
  <2> QED
    BY <1>6, <2>1, <2>2 DEF ReadSnapshots
<1>7. ASSUME NEW s \in Run, SetCount(s) PROVE GaugeInv'
  <2>1. /\ pc[s] = "set" /\ job' = job /\ snaps' = snaps
        /\ current' = [current EXCEPT ![NameIn(s)] = listing[s]]
        /\ lastRead' = IF Sequential THEN {s} ELSE {}
    BY <1>7 DEF SetCount, SnapshotCount, world
  <2>2. pc'[s] # "set"
    BY <1>1, <1>7, GotoEffect DEF SetCount, AfterRead, Labels
  <2>3. ASSUME NEW r \in lastRead' PROVE current'[NameIn(r)'] = snaps'[RepoIn(r)']
    <3>1. r = s /\ beside[s] = {}
      BY <2>1, <2>3 DEF Sequential
    <3>2. listing[s] = snaps[RepoIn(s)]
      BY <2>1, <3>1 DEF GaugeInv
    <3>3. current'[NameIn(s)] = listing[s]
      BY <1>1, <2>1, RunType DEF TypeOK
    <3> QED
      BY <2>1, <3>1, <3>2, <3>3 DEF NameIn, RepoIn
  <2> QED
    BY <1>4, <1>7, <2>2, <2>3 DEF Step
<1>8. ASSUME NEW s \in Run, SetGauge(s) \/ JobComplete(s) PROVE GaugeInv'
  <2>1. UNCHANGED <<lastRead, current, snaps>> /\ pc[s] \notin Commands \cup {"set"}
    BY <1>8 DEF SetGauge, JobComplete, world, history, Commands
  <2>2. PICK l \in {"complete", "done"} : Goto(s, l)
    BY <1>8 DEF SetGauge, JobComplete
  <2>3. pc'[s] # "set"
    BY <1>1, <2>2, GotoEffect DEF Labels
  <2> QED
    BY <1>4, <1>8, <2>1, <2>3 DEF Step
<1> QED
  BY <1>2, <1>5, <1>6, <1>7, <1>8 DEF Next, Step

(* Once nothing is in flight, the gauge of the job that was last to read its *)
(* snapshots, alone, is the number of snapshots in its repository: no run    *)
(* prunes or adds after it has counted.                                      *)
THEOREM SnapshotCountCurrentHolds == Spec => []SnapshotCountCurrent
<1>1. Init => GaugeInv
  BY InitCount DEF Init, GaugeInv
<1>2. GaugeInv => SnapshotCountCurrent
  <2> SUFFICES ASSUME GaugeInv, NEW r \in lastRead, InFlight = {}
               PROVE  current[NameIn(r)] = snaps[RepoIn(r)]
    BY DEF SnapshotCountCurrent
  <2>1. \A s \in Run : pc[s] \notin Commands \cup {"set"}
    BY DEF InFlight, Commands
  <2> QED
    BY <2>1 DEF GaugeInv
<1>3. Spec => []GaugeInv
  BY <1>1, NextGauge, PTL DEF Spec
<1> QED
  BY <1>2, <1>3, PTL
-------------------------------------------------------------------------------
(* The dump files. *)

(* A run whose task writes the file p is one of the others of any run in     *)
(* flight.                                                                   *)
LEMMA WriterIsOther ==
  ASSUME CountInv, NEW r \in InFlight, NEW s \in Run, s # r, pc[s] = "task",
         Task(s) \in Path
  PROVE  s \in Others(r, Task(s))
<1>1. s \in beside[r] /\ s \notin Refresher
  BY DEF CountInv, Beside, InFlight
<1>2. step[s] \in DOMAIN Plan[job[s]]
  BY DEF CountInv, RInv, TypeOK
<1>3. Task(s) \in Dumps(job[s])
  BY <1>2, JobRunAssumption DEF Task, Dumps
<1> QED
  BY <1>1, <1>3 DEF Others

(* A step of another run that changes a file of r makes it one of the others *)
(* there, and so are all whose output it leaves in the file.                 *)
LEMMA OthersDumps ==
  ASSUME CountInv, NEW r \in Run, pc[r] = "task", Made(r),
         job' = job, pc'[r] = pc[r], step'[r] = step[r], stage'[r] = stage[r],
         beside[r] \subseteq beside'[r],
         \A p \in Path : file'[p] # file[p] =>
           /\ \E s \in Run : s # r /\ pc[s] = "task" /\ Task(s) = p
           /\ \A s \in file'[p] : s \in Run /\ pc[s] = "task" /\ Task(s) = p
  PROVE  Made(r)'
<1> SUFFICES ASSUME NEW n \in 1..step[r], Plan[job[r]][n] \in Path,
                    n < step[r] \/ stage[r] = "exec"
             PROVE  Held(r, Plan[job[r]][n])'
  BY DEF Made
<1> DEFINE p == Plan[job[r]][n]
<1>1. r \in InFlight
  BY DEF InFlight
<1>2. Held(r, p)
  BY DEF Made
<1>3. Others(r, p) \subseteq Others(r, p)'
  BY DEF Others, Dumps
<1>4. CASE file'[p] = file[p]
  BY <1>2, <1>3, <1>4 DEF Held
<1>5. CASE file'[p] # file[p]
  <2>1. file'[p] \subseteq {r} \cup Others(r, p)
    BY <1>1, <1>5, WriterIsOther
  <2>2. Others(r, p) # {}
    BY <1>1, <1>5, WriterIsOther
  <2> QED
    BY <1>3, <2>1, <2>2 DEF Held
<1> QED
  BY <1>4, <1>5

(* The process of a dump is started: it truncates the file, and all that are *)
(* in it then are writing to it.                                             *)
LEMMA StartDumps ==
  ASSUME DumpInv, NEW r \in Run, StartCommand(r), pc[r] = "task"
  PROVE  Made(r)'
<1>1. /\ CountInv /\ r \in InFlight
      /\ UNCHANGED <<job, pc, step, beside>> /\ stage[r] = "env"
  BY DEF StartCommand, DumpInv, InFlight, history
<1>2. Made(r)
  BY DEF DumpInv
<1> SUFFICES ASSUME NEW n \in 1..step[r], Plan[job[r]][n] \in Path
             PROVE  Held(r, Plan[job[r]][n])'
  BY <1>1 DEF Made
<1>3. step[r] \in Nat
  BY <1>1 DEF CountInv, RInv, TypeOK
<1>4. Others(r, Plan[job[r]][n])' = Others(r, Plan[job[r]][n])
  BY <1>1 DEF Others, Dumps
<1>5. CASE Plan[job[r]][n] = Task(r)
  <2>1. file' = [file EXCEPT ![Task(r)] = Writing(Task(r)) \cup {r}]
    BY <1>5 DEF StartCommand
  <2>2. file'[Task(r)] = Writing(Task(r)) \cup {r}
    BY <1>1, <1>5, <2>1 DEF CountInv, RInv, TypeOK
  <2>3. Writing(Task(r)) \subseteq {r} \cup Others(r, Task(r))
    BY <1>1, <1>5, WriterIsOther DEF Writing
  <2> QED
    BY <1>1, <1>4, <1>5, <2>2, <2>3 DEF Held
<1>6. CASE Plan[job[r]][n] # Task(r)
  <2>1. n < step[r]
    BY <1>3, <1>6 DEF Task
  <2>2. file'[Plan[job[r]][n]] = file[Plan[job[r]][n]]
    BY <1>1, <1>6 DEF StartCommand, CountInv, RInv, TypeOK
  <2> QED
    BY <1>1, <1>2, <1>4, <2>1, <2>2 DEF Made, Held
<1> QED
  BY <1>5, <1>6

(* A run that goes to a step of its plan, the first or the next, has made    *)
(* the dumps before it.                                                      *)
LEMMA GoOnDumps ==
  ASSUME DumpInv, NEW r \in Run, pc'[r] = "task", Goto(r, "task"),
         UNCHANGED <<job, file, beside>>,
         \/ pc[r] \in {"ensure", "init"} /\ step' = step
         \/ /\ pc[r] = "task" /\ stage[r] = "exec"
            /\ step' = [step EXCEPT ![r] = step[r] + 1]
  PROVE  Made(r)'
<1>1. stage'[r] = "env"
  BY DEF Goto, DumpInv, CountInv, RInv, TypeOK
<1>2. CASE pc[r] \in {"ensure", "init"} /\ step' = step
  <2>1. step'[r] = 1
    BY <1>2 DEF DumpInv, CountInv, RInv, Progress
  <2> QED
    BY <1>1, <2>1 DEF Made
<1>3. CASE /\ pc[r] = "task" /\ stage[r] = "exec"
           /\ step' = [step EXCEPT ![r] = step[r] + 1]
  <2>1. step[r] \in Nat /\ step'[r] = step[r] + 1
    BY <1>3 DEF DumpInv, CountInv, RInv, TypeOK
  <2>2. Made(r)
    BY <1>3 DEF DumpInv
  <2> SUFFICES ASSUME NEW n \in 1..(step[r] + 1), n < step[r] + 1,
                      Plan[job[r]][n] \in Path
               PROVE  Held(r, Plan[job[r]][n])'
    BY <1>1, <2>1 DEF Made
  <2>3. n \in 1..step[r]
    BY <2>1
  <2>4. Held(r, Plan[job[r]][n])
    BY <1>3, <2>2, <2>3 DEF Made
  <2> QED
    BY <2>4 DEF Held, Others, Dumps
<1> QED
  BY <1>2, <1>3

(* Which dump files a step changes, and which runs it leaves where they are. *)
LEMMA StepFiles ==
  ASSUME CountInv, NEW r \in Run, Begin(r) \/ Step(r)
  PROVE  /\ job' = job
         /\ \A s \in Run : s # r => /\ pc'[s] = pc[s] /\ step'[s] = step[s]
                                    /\ stage'[s] = stage[s]
         /\ \A s \in Run : beside[s] \subseteq beside'[s]
         /\ \A p \in Path : file'[p] # file[p] =>
              /\ pc[r] = "task" /\ Task(r) = p
              /\ \A s \in file'[p] : s \in Run /\ pc[s] = "task" /\ Task(s) = p
<1>1. CountInv /\ RInv /\ pc \in [Run -> Labels] /\ stage \in [Run -> {"env", "exec"}]
  BY DEF CountInv, RInv, TypeOK, Labels
<1>2. job' = job
  BY DEF Begin, Step, StartCommand, Ensure, InitRepo, RunScript, RunBackup, Forget,
         ReadSnapshots, SetCount, SetGauge, JobComplete
<1>3. step' = step \/ step' = [step EXCEPT ![r] = step[r] + 1]
  BY DEF Begin, Step, StartCommand, Ensure, InitRepo, RunScript, RunBackup, Forget,
         ReadSnapshots, SetCount, SetGauge, JobComplete, Fail, Advance
<1>4. \/ pc' = pc /\ stage' = [stage EXCEPT ![r] = "exec"]
      \/ \E l : Goto(r, l)
  BY DEF Begin, Step, StartCommand, Ensure, InitRepo, RunScript, RunBackup, Forget,
         ReadSnapshots, SetCount, SetGauge, JobComplete, Fail, Advance
<1>5. \A s \in Run : s # r => pc'[s] = pc[s] /\ stage'[s] = stage[s]
  BY <1>1, <1>4 DEF Goto
<1>6. \A s \in Run : s # r => step'[s] = step[s]
  BY <1>1, <1>3 DEF RInv, TypeOK
<1>7. \A s \in Run : beside[s] \subseteq beside'[s]
  <2>1. CASE Begin(r)
    <3>1. beside[r] = {}
      BY <2>1 DEF Begin, CountInv, Beside
    <3> QED
      BY <2>1, <3>1 DEF Begin
  <2>2. CASE Step(r)
    <3>1. beside' = beside
      BY <2>2 DEF Step, StartCommand, Ensure, InitRepo, RunScript, RunBackup, Forget,
             ReadSnapshots, SetCount, SetGauge, JobComplete, history
    <3> QED
      BY <3>1
  <2> QED
    BY <2>1, <2>2
<1>8. ASSUME NEW p \in Path, file'[p] # file[p]
      PROVE  /\ pc[r] = "task" /\ Task(r) = p
             /\ \A s \in file'[p] : s \in Run /\ pc[s] = "task" /\ Task(s) = p
  <2>1. StartCommand(r) \/ RunScript(r)
    BY <1>8 DEF Begin, Step, Ensure, InitRepo, RunBackup, Forget, ReadSnapshots, SetCount,
           SetGauge, JobComplete, world
  <2>2. CASE StartCommand(r)
    <3>1. /\ pc[r] = "task" /\ Task(r) = p
          /\ file'[p] = Writing(p) \cup {r}
      BY <1>1, <1>8, <2>2 DEF StartCommand, RInv, TypeOK
    <3> QED
      BY <3>1 DEF Writing
  <2>3. CASE RunScript(r)
    <3>1. file' = [q \in Path |-> IF q = Task(r) THEN {} ELSE file[q]]
      BY <1>8, <2>3 DEF RunScript
    <3> QED
      BY <1>8, <2>3, <3>1 DEF RunScript, Ready
  <2> QED
    BY <2>1, <2>2, <2>3
<1> QED
  BY <1>2, <1>5, <1>6, <1>7, <1>8

(* The moving run itself: it starts a command, goes on, or leaves its plan.  *)
LEMMA OwnDumpsStep ==
  ASSUME DumpInv, NEW r \in Run, Begin(r) \/ Step(r), pc'[r] = "task"
  PROVE  Made(r)'
<1>1. RInv /\ pc \in [Run -> Labels]
  BY DEF DumpInv, CountInv, RInv, TypeOK, Labels
<1>2. \A l : Goto(r, l) => pc'[r] = l
  BY <1>1 DEF Goto
<1>3. CASE StartCommand(r)
  <2>1. pc[r] = "task"
    BY <1>3 DEF StartCommand
  <2> QED
    BY <1>3, <2>1, StartDumps
<1>4. CASE Ensure(r) \/ InitRepo(r)
  <2>1. Goto(r, "task")
    BY <1>2, <1>4 DEF Ensure, InitRepo, Fail
  <2>2. pc[r] \in {"ensure", "init"} /\ step' = step /\ UNCHANGED <<job, file, beside>>
    BY <1>4 DEF Ensure, InitRepo, Fail, Ready, world, history
  <2> QED
    BY <2>1, <2>2, GoOnDumps
<1>5. CASE RunScript(r) \/ RunBackup(r)
  <2>1. Advance(r) /\ UNCHANGED <<job, file, beside>>
    BY <1>2, <1>5 DEF RunScript, RunBackup, Fail, history
  <2>2. Goto(r, "task")
    BY <1>2, <2>1 DEF Advance
  <2>3. pc[r] = "task" /\ stage[r] = "exec"
    BY <1>5 DEF RunScript, RunBackup, Ready
  <2>4. step' = [step EXCEPT ![r] = step[r] + 1]
    BY <2>1 DEF Advance
  <2> QED
    BY <2>1, <2>2, <2>3, <2>4, GoOnDumps
<1>6. CASE Begin(r) \/ Forget(r) \/ ReadSnapshots(r) \/ SetCount(r) \/ SetGauge(r) \/ JobComplete(r)
  <2>1. \E l \in {"read", "ensure", "set", "gauge", "complete", "done"} : Goto(r, l)
    BY <1>6 DEF Begin, Forget, ReadSnapshots, SetCount, SetGauge, JobComplete, Fail, AfterRead
  <2> QED
    BY <1>2, <2>1
<1> QED
  BY <1>3, <1>4, <1>5, <1>6 DEF Step

(* Every step keeps the dumps of the runs that are at their plans.           *)
LEMMA NextDump == DumpInv /\ [Next]_vars => DumpInv'
<1> SUFFICES ASSUME DumpInv, [Next]_vars PROVE DumpInv'
  OBVIOUS
<1>1. CountInv /\ CountInv'
  BY NextCount DEF DumpInv
<1>2. ASSUME NEW r \in Run, Begin(r) \/ Step(r),
             NEW s \in Run, pc'[s] = "task"
      PROVE  Made(s)'
  <2>1. CASE s = r
    BY <1>2, <2>1, OwnDumpsStep
  <2>2. CASE s # r
    <3>1. pc[s] = "task"
      BY <1>1, <1>2, <2>2, StepFiles
    <3>2. \A p \in Path : file'[p] # file[p] =>
            /\ \E t \in Run : t # s /\ pc[t] = "task" /\ Task(t) = p
            /\ \A t \in file'[p] : t \in Run /\ pc[t] = "task" /\ Task(t) = p
      BY <1>1, <1>2, <2>2, StepFiles
    <3>3. /\ job' = job /\ pc'[s] = pc[s] /\ step'[s] = step[s] /\ stage'[s] = stage[s]
          /\ beside[s] \subseteq beside'[s]
      BY <1>1, <1>2, <2>2, StepFiles
    <3>4. Made(s)
      BY <3>1 DEF DumpInv
    <3> QED
      BY <1>1, <3>1, <3>2, <3>3, <3>4, OthersDumps
  <2> QED
    BY <2>1, <2>2
<1>3. CASE Crash \/ UNCHANGED vars
  <2>1. UNCHANGED <<pc, job, step, stage, file, beside>>
    BY <1>3 DEF Crash, vars, local, world, history
  <2> QED
    BY <1>1, <2>1 DEF DumpInv, Made, Held, Others, Dumps
<1> QED
  BY <1>1, <1>2, <1>3 DEF DumpInv, Next

(* What restic saves of a dump file is what the run's own dump wrote, whole, *)
(* for any plans that dump before they back up, if no other run in flight    *)
(* with it dumps to that file; and if some do, what is in it comes from this *)
(* run and them: no dump of an earlier run is saved again.                   *)
THEOREM SnapshotsHoldOwnDumpsHolds == Spec => SnapshotsHoldOwnDumps
<1>1. Init => DumpInv
  BY InitCount DEF Init, DumpInv
<1>2. ASSUME DumpInv, [Next]_vars, NEW r \in saved' \ saved, NEW p \in Dumps(job[r])
      PROVE  /\ file[p] \subseteq {r} \cup Others(r, p)
             /\ Others(r, p) = {} => file[p] = {r} /\ Writing(p) = {}
  <2>1. CountInv
    BY <1>2 DEF DumpInv
  <2>2. PICK s \in Run : RunBackup(s)
    BY <1>2 DEF Next, Step, Begin, StartCommand, Crash, Ensure, InitRepo, RunScript, Forget,
       ReadSnapshots, SetCount, SetGauge, JobComplete, vars, history
  <2>3. r = s /\ r \in Run
    BY <1>2, <2>2 DEF RunBackup
  <2>4. pc[r] = "task" /\ Task(r) = Backup /\ r \in InFlight
    BY <2>2, <2>3 DEF RunBackup, Ready, InFlight
  <2>5. PICK k \in DOMAIN Plan[job[r]] : Plan[job[r]][k] = p
    BY <1>2 DEF Dumps
  <2>6. job[r] \in Job /\ step[r] \in DOMAIN Plan[job[r]] /\ Len(Plan[job[r]]) \in Nat
        /\ DOMAIN Plan[job[r]] = 1..Len(Plan[job[r]])
    BY <2>1, <2>3, <2>4, PlanType DEF CountInv, RInv, TypeOK
  <2>7. p \in Path /\ p # Backup
    <3>1. Plan[job[r]] \in Seq(Path \cup {Script, Backup})
      BY <2>6, JobRunAssumption
    <3>2. Plan[job[r]][k] \in Path \cup {Script, Backup}
      BY <2>5, <3>1
    <3> QED
      BY <1>2, <2>5, <3>2 DEF Dumps
  <2>8. k < step[r]
    <3>1. Plan[job[r]][step[r]] = Backup /\ Plan[job[r]][k] \in Path
      BY <2>4, <2>5, <2>7 DEF Task
    <3>2. \A m, n \in DOMAIN Plan[job[r]] :
            Plan[job[r]][m] = Backup /\ Plan[job[r]][n] \in Path => n < m
      BY <2>6, JobRunAssumption
    <3> QED
      BY <2>5, <2>6, <3>1, <3>2
  <2>9. Held(r, p)
    <3>1. Made(r)
      BY <1>2, <2>3, <2>4 DEF DumpInv
    <3>2. k \in 1..step[r] /\ k < step[r]
      BY <2>5, <2>6, <2>8
    <3>3. Plan[job[r]][k] \in Path => Held(r, Plan[job[r]][k])
      BY <3>1, <3>2 DEF Made
    <3> QED
      BY <2>5, <2>7, <3>3
  <2>10. Others(r, p) = {} => Writing(p) = {}
    BY <2>1, <2>4, <2>7, WriterIsOther DEF Writing
  <2> QED
    BY <2>9, <2>10 DEF Held
<1>3. DumpInv /\ [Next]_vars =>
        [\A r \in saved' \ saved : \A p \in Dumps(job[r]) :
           LET others == {s \in beside[r] \ Refresher : p \in Dumps(job[s])}
           IN  /\ file[p] \subseteq {r} \cup others
               /\ others = {} => file[p] = {r} /\ Writing(p) = {}]_vars
  BY <1>2 DEF Others
<1> QED
  BY <1>1, <1>3, NextDump, PTL DEF Spec, SnapshotsHoldOwnDumps
===============================================================================
