---------------------------- MODULE RecoveryProofs ----------------------------
(***************************************************************************)
(* Proofs about Recovery, for any job that Validate accepts: any number of *)
(* database blocks, tasks and scripts in it, of versions and of backups.   *)
(*                                                                         *)
(* First what AllTasks puts where; then what holds at each step of a run.  *)
(***************************************************************************)
EXTENDS Recovery, DataProofs, TLAPS

(* The steps before the files and those after, and where the files come.   *)
BeforeFiles(j) == Each(GetPreTask, Blocks(j)) \o FlattenSeq(Each(GetPreTasks, j.tasks))
AfterFiles(j)  == FlattenSeq(Each(GetPostTasks, j.tasks)) \o Each(GetPostTask, Blocks(j))
FilesAt(j)     == Len(BeforeFiles(j)) + 1

(* What those steps are: of a task, and of a job. *)
PreOf(t) ==
  {GetPreTask(d) : d \in ToSet(t.mysql) \cup ToSet(t.sqlite)}
    \cup {ScriptStep("pre", t.name, s) : s \in ToSet(t.pre)}
PostOf(t) ==
  {GetPostTask(d) : d \in ToSet(t.mysql) \cup ToSet(t.sqlite)}
    \cup {ScriptStep("post", t.name, s) : s \in ToSet(t.post)}
PreSteps(j) ==
  {GetPreTask(d) : d \in ToSet(Blocks(j))} \cup UNION {PreOf(t) : t \in ToSet(j.tasks)}
PostSteps(j) ==
  {GetPostTask(d) : d \in ToSet(Blocks(j))} \cup UNION {PostOf(t) : t \in ToSet(j.tasks)}

(* Steps 1..p-1 of a run of mode m are done: it is at step p, or it was    *)
(* the last to begin and has ended with success.                           *)
Reached(m, p) ==
  \/ mode = m /\ m \in Modes /\ p = i
  \/ mode = "saved" /\ m = "backup" /\ p = Len(Plan) + 1
  \/ mode = "restored" /\ m = "restore" /\ p = Len(Plan) + 1

CommandOf(m, k) == IF m = "backup" THEN Plan[k].onBackup ELSE Plan[k].onRestore

(* A protected database that the running backup has dumped is in its file, *)
(* at a version of this backup.                                            *)
DumpsAreCurrent ==
  mode = "backup" =>
    /\ \A d \in Database : from[d] <= data[d]
    /\ \A d \in Protected, k \in 1..(i - 1) :
         Plan[k].onBackup = Dump(d) =>
           \E v \in from[d]..data[d] : dumps[DumpTo[d]] = <<d, v>>

Current == \A d \in Protected, k \in DOMAIN repo \ foreign :
             \E v \in span[k][d] : repo[k][DumpTo[d]] = <<d, v>>

(* The protected databases whose dumps a restore puts back in their files. *)
PutBack == {d \in Protected : DumpTo[d] \in job.restores}

(* From its files step on, a restore has a snapshot; if the job made it,   *)
(* it has the snapshot's dumps in their files, and loads from there.       *)
LoadsFromSnapshot ==
  \A p \in Nat : Reached("restore", p) =>
    /\ p > FilesAt(job) => target # 0
    /\ target \in DOMAIN repo \ foreign =>
         /\ p > FilesAt(job) => \A d \in PutBack : dumps[DumpTo[d]] = repo[target][DumpTo[d]]
         /\ \A d \in PutBack, k \in 1..(p - 1) :
              Plan[k].onRestore = Load(d) => data[d] \in LeftByLoad(d, span[target][d])

(* A script done before the files has taken its task down, and one done    *)
(* after the files has taken it up again.                                  *)
ScriptsDid ==
  \A m \in Modes, p \in Nat : Reached(m, p) =>
    /\ p <= FilesAt(job) => \A n \in STRING, k \in 1..(p - 1) :
         CommandOf(m, k) = Run("pre", n) => n \in down
    /\ \A n \in STRING, k \in (FilesAt(job) + 1)..(p - 1) :
         CommandOf(m, k) = Run("post", n) => n \notin down

(* Every step that a job's blocks and scripts can give. *)
StepSet ==
  {GetPreTask(d) : d \in Database} \cup {GetPostTask(d) : d \in Database}
    \cup {FilesStep} \cup {ScriptStep("pre", n, s) : n \in STRING, s \in Script}
    \cup {ScriptStep("post", n, s) : n \in STRING, s \in Script}

-------------------------------------------------------------------------------
(* The dumps and the loads of a list of database blocks, one for each. *)
LEMMA EachBlock ==
  ASSUME NEW s \in Seq(Database)
  PROVE  /\ Each(GetPreTask, s) \in Seq(StepSet)
         /\ ToSet(Each(GetPreTask, s)) = {GetPreTask(d) : d \in ToSet(s)}
         /\ Each(GetPostTask, s) \in Seq(StepSet)
         /\ ToSet(Each(GetPostTask, s)) = {GetPostTask(d) : d \in ToSet(s)}
<1>1. \A d \in Database : GetPreTask(d) \in StepSet /\ GetPostTask(d) \in StepSet
  BY DEF StepSet
<1>2. DOMAIN s = 1..Len(s) /\ Len(s) \in Nat /\ \A k \in 1..Len(s) : s[k] \in Database
  OBVIOUS
<1>3. Each(GetPreTask, s) \in Seq(StepSet) /\ Each(GetPostTask, s) \in Seq(StepSet)
  BY <1>1, <1>2 DEF Each
<1>4. ToSet(Each(GetPreTask, s)) = {GetPreTask(d) : d \in ToSet(s)}
  BY DEF Each, ToSet
<1>5. ToSet(Each(GetPostTask, s)) = {GetPostTask(d) : d \in ToSet(s)}
  BY DEF Each, ToSet
<1> QED
  BY <1>3, <1>4, <1>5

(* The scripts of a task, on one side of the files. *)
LEMMA EachScript ==
  ASSUME NEW t, t.name \in STRING, NEW s \in Seq(Script), NEW side \in {"pre", "post"}
  PROVE  /\ Scripts(side, t, s) \in Seq(StepSet)
         /\ ToSet(Scripts(side, t, s)) = {ScriptStep(side, t.name, c) : c \in ToSet(s)}
<1>1. \A c \in Script : ScriptStep(side, t.name, c) \in StepSet
  BY DEF StepSet
<1>2. DOMAIN s = 1..Len(s) /\ Len(s) \in Nat /\ \A k \in 1..Len(s) : s[k] \in Script
  OBVIOUS
<1>3. Scripts(side, t, s) \in Seq(StepSet)
  BY <1>1, <1>2 DEF Scripts, Each
<1>4. ToSet(Scripts(side, t, s)) = {ScriptStep(side, t.name, c) : c \in ToSet(s)}
  BY DEF Scripts, Each, ToSet
<1> QED
  BY <1>3, <1>4

(* GetPreTasks and GetPostTasks of a task block: its mysql and sqlite      *)
(* blocks and its scripts, and not its postgres blocks.                    *)
LEMMA TaskSteps ==
  ASSUME NEW t \in JobTask
  PROVE  /\ GetPreTasks(t) \in Seq(StepSet) /\ GetPostTasks(t) \in Seq(StepSet)
         /\ ToSet(GetPreTasks(t)) = PreOf(t) /\ ToSet(GetPostTasks(t)) = PostOf(t)
<1>1. /\ t.mysql \in Seq(Database) /\ t.sqlite \in Seq(Database) /\ t.name \in STRING
      /\ t.pre \in Seq(Script) /\ t.post \in Seq(Script)
  BY DEF JobTask
<1> DEFINE a == Each(GetPreTask, t.mysql)
           b == Each(GetPreTask, t.sqlite)
           c == Scripts("pre", t, t.pre)
           e == Scripts("post", t, t.post)
           f == Each(GetPostTask, t.mysql)
           g == Each(GetPostTask, t.sqlite)
<1>2. /\ a \in Seq(StepSet) /\ b \in Seq(StepSet) /\ f \in Seq(StepSet) /\ g \in Seq(StepSet)
      /\ ToSet(a) = {GetPreTask(d) : d \in ToSet(t.mysql)}
      /\ ToSet(b) = {GetPreTask(d) : d \in ToSet(t.sqlite)}
      /\ ToSet(f) = {GetPostTask(d) : d \in ToSet(t.mysql)}
      /\ ToSet(g) = {GetPostTask(d) : d \in ToSet(t.sqlite)}
  BY <1>1, EachBlock
<1>3. /\ c \in Seq(StepSet) /\ ToSet(c) = {ScriptStep("pre", t.name, s) : s \in ToSet(t.pre)}
      /\ e \in Seq(StepSet) /\ ToSet(e) = {ScriptStep("post", t.name, s) : s \in ToSet(t.post)}
  BY <1>1, EachScript
<1>4. GetPreTasks(t) = (a \o b) \o c /\ GetPostTasks(t) = (e \o f) \o g
  BY DEF GetPreTasks, GetPostTasks
<1> HIDE DEF a, b, c, e, f, g
<1>5. /\ a \o b \in Seq(StepSet) /\ e \o f \in Seq(StepSet)
      /\ (a \o b) \o c \in Seq(StepSet) /\ (e \o f) \o g \in Seq(StepSet)
  BY <1>2, <1>3
<1>6. \A x : x \in ToSet((a \o b) \o c) <=> x \in ToSet(a) \/ x \in ToSet(b) \/ x \in ToSet(c)
  <2>1. a \in Seq(StepSet) /\ b \in Seq(StepSet) /\ c \in Seq(StepSet)
    BY <1>2, <1>3
  <2>2. \A x : x \in ToSet(a \o b) <=> x \in ToSet(a) \/ x \in ToSet(b)
    BY <2>1, ConcatMembers
  <2>3. a \o b \in Seq(StepSet)
    BY <1>5
  <2>4. \A x : x \in ToSet((a \o b) \o c) <=> x \in ToSet(a \o b) \/ x \in ToSet(c)
    <3> DEFINE r == a \o b
    <3>1. r \in Seq(StepSet) /\ c \in Seq(StepSet)
      BY <2>1, <2>3
    <3> HIDE DEF r
    <3>2. \A x : x \in ToSet(r \o c) <=> x \in ToSet(r) \/ x \in ToSet(c)
      BY <3>1, ConcatMembers
    <3> QED
      BY <3>2 DEF r
  <2> QED
    BY <2>2, <2>4
<1>7. \A x : x \in ToSet((e \o f) \o g) <=> x \in ToSet(e) \/ x \in ToSet(f) \/ x \in ToSet(g)
  <2>1. e \in Seq(StepSet) /\ f \in Seq(StepSet) /\ g \in Seq(StepSet)
    BY <1>2, <1>3
  <2>2. \A x : x \in ToSet(e \o f) <=> x \in ToSet(e) \/ x \in ToSet(f)
    BY <2>1, ConcatMembers
  <2>3. e \o f \in Seq(StepSet)
    BY <1>5
  <2>4. \A x : x \in ToSet((e \o f) \o g) <=> x \in ToSet(e \o f) \/ x \in ToSet(g)
    <3> DEFINE r == e \o f
    <3>1. r \in Seq(StepSet) /\ g \in Seq(StepSet)
      BY <2>1, <2>3
    <3> HIDE DEF r
    <3>2. \A x : x \in ToSet(r \o g) <=> x \in ToSet(r) \/ x \in ToSet(g)
      BY <3>1, ConcatMembers
    <3> QED
      BY <3>2 DEF r
  <2> QED
    BY <2>2, <2>4
<1>8. ToSet(GetPreTasks(t)) = PreOf(t)
  <2>1. \A x : x \in ToSet(GetPreTasks(t)) <=>
                 x \in ToSet(a) \cup ToSet(b) \/ x \in ToSet(c)
    BY <1>4, <1>6
  <2>2. ToSet(a) \cup ToSet(b) =
          {GetPreTask(d) : d \in ToSet(t.mysql) \cup ToSet(t.sqlite)}
    BY <1>2
  <2>3. ToSet(c) = {ScriptStep("pre", t.name, s) : s \in ToSet(t.pre)}
    BY <1>3
  <2>4. ToSet(GetPreTasks(t)) = ToSet(a) \cup ToSet(b) \cup ToSet(c)
    BY <2>1
  <2> QED
    BY <2>2, <2>3, <2>4, Zenon DEF PreOf
<1>9. ToSet(GetPostTasks(t)) = PostOf(t)
  <2>1. \A x : x \in ToSet(GetPostTasks(t)) <=>
                 x \in ToSet(f) \cup ToSet(g) \/ x \in ToSet(e)
    BY <1>4, <1>7
  <2>2. ToSet(f) \cup ToSet(g) =
          {GetPostTask(d) : d \in ToSet(t.mysql) \cup ToSet(t.sqlite)}
    BY <1>2
  <2>3. ToSet(e) = {ScriptStep("post", t.name, s) : s \in ToSet(t.post)}
    BY <1>3
  <2>4. ToSet(GetPostTasks(t)) = ToSet(f) \cup ToSet(g) \cup ToSet(e)
    BY <2>1
  <2> QED
    BY <2>2, <2>3, <2>4, Zenon DEF PostOf
<1> QED
  BY <1>4, <1>5, <1>8, <1>9

(* The parts of AllTasks: before the files there are just the dumps and    *)
(* the scripts that go before, after them the loads and the other scripts. *)
LEMMA PlanParts ==
  ASSUME NEW j \in Job
  PROVE  /\ BeforeFiles(j) \in Seq(StepSet) /\ ToSet(BeforeFiles(j)) = PreSteps(j)
         /\ AfterFiles(j) \in Seq(StepSet) /\ ToSet(AfterFiles(j)) = PostSteps(j)
         /\ AllTasks(j) = (BeforeFiles(j) \o <<FilesStep>>) \o AfterFiles(j)
<1>1. /\ j.mysql \in Seq(Database) /\ j.postgres \in Seq(Database) /\ j.sqlite \in Seq(Database)
      /\ j.tasks \in Seq(JobTask)
  BY DEF Job
<1>2. Blocks(j) \in Seq(Database)
  BY <1>1 DEF Blocks
<1> DEFINE pre  == Each(GetPreTasks, j.tasks)
           post == Each(GetPostTasks, j.tasks)
           a == Each(GetPreTask, Blocks(j))
           e == Each(GetPostTask, Blocks(j))
           b == FlattenSeq(pre)
           c == FlattenSeq(post)
<1>3. /\ pre \in Seq(Seq(StepSet)) /\ post \in Seq(Seq(StepSet))
      /\ DOMAIN pre = DOMAIN j.tasks /\ DOMAIN post = DOMAIN j.tasks
      /\ \A k \in DOMAIN j.tasks : /\ pre[k] = GetPreTasks(j.tasks[k])
                                   /\ post[k] = GetPostTasks(j.tasks[k])
  <2>1. \A t \in JobTask : GetPreTasks(t) \in Seq(StepSet) /\ GetPostTasks(t) \in Seq(StepSet)
    BY TaskSteps
  <2>2. /\ DOMAIN j.tasks = 1..Len(j.tasks) /\ Len(j.tasks) \in Nat
        /\ \A k \in 1..Len(j.tasks) : j.tasks[k] \in JobTask
    BY <1>1
  <2> QED
    BY <2>1, <2>2 DEF Each
<1>4. /\ a \in Seq(StepSet) /\ e \in Seq(StepSet)
      /\ ToSet(a) = {GetPreTask(d) : d \in ToSet(Blocks(j))}
      /\ ToSet(e) = {GetPostTask(d) : d \in ToSet(Blocks(j))}
  BY <1>2, EachBlock
<1>5. BeforeFiles(j) = a \o b /\ AfterFiles(j) = c \o e
      /\ AllTasks(j) = (((a \o b) \o <<FilesStep>>) \o c) \o e
  BY DEF BeforeFiles, AfterFiles, AllTasks
<1> HIDE DEF a, e, pre, post
<1>6. /\ b \in Seq(StepSet) /\ \A x : x \in ToSet(b) <=> \E k \in DOMAIN pre : x \in ToSet(pre[k])
      /\ c \in Seq(StepSet) /\ \A x : x \in ToSet(c) <=> \E k \in DOMAIN post : x \in ToSet(post[k])
  BY <1>3, FlattenMembers
<1> HIDE DEF b, c
<1>7. \A t \in ToSet(j.tasks) : t \in JobTask
  BY <1>1 DEF ToSet
<1>8. ASSUME NEW x
      PROVE  x \in ToSet(b) <=> \E t \in ToSet(j.tasks) : x \in ToSet(GetPreTasks(t))
  <2>1. x \in ToSet(b) <=> \E k \in DOMAIN j.tasks : x \in ToSet(GetPreTasks(j.tasks[k]))
    BY <1>3, <1>6
  <2> QED
    BY <2>1, Zenon DEF ToSet
<1>9. ASSUME NEW x
      PROVE  x \in ToSet(c) <=> \E t \in ToSet(j.tasks) : x \in ToSet(GetPostTasks(t))
  <2>1. x \in ToSet(c) <=> \E k \in DOMAIN j.tasks : x \in ToSet(GetPostTasks(j.tasks[k]))
    BY <1>3, <1>6
  <2> QED
    BY <2>1, Zenon DEF ToSet
<1>10. ToSet(BeforeFiles(j)) = PreSteps(j)
  <2>1. ASSUME NEW x
        PROVE  x \in ToSet(BeforeFiles(j)) <=> x \in ToSet(a) \/ x \in ToSet(b)
    BY <1>4, <1>5, <1>6, ConcatMembers
  <2>2. ASSUME NEW x
        PROVE  x \in ToSet(b) <=> \E t \in ToSet(j.tasks) : x \in PreOf(t)
    BY <1>7, <1>8, TaskSteps
  <2> QED
    BY <1>4, <2>1, <2>2 DEF PreSteps
<1>11. ToSet(AfterFiles(j)) = PostSteps(j)
  <2>1. ASSUME NEW x
        PROVE  x \in ToSet(AfterFiles(j)) <=> x \in ToSet(c) \/ x \in ToSet(e)
    BY <1>4, <1>5, <1>6, ConcatMembers
  <2>2. ASSUME NEW x
        PROVE  x \in ToSet(c) <=> \E t \in ToSet(j.tasks) : x \in PostOf(t)
    BY <1>7, <1>9, TaskSteps
  <2> QED
    BY <1>4, <2>1, <2>2 DEF PostSteps
<1>12. FilesStep \in StepSet
  BY DEF StepSet
<1>13. (((a \o b) \o <<FilesStep>>) \o c) \o e = ((a \o b) \o <<FilesStep>>) \o (c \o e)
  <2>1. (a \o b) \o <<FilesStep>> \in Seq(StepSet)
    BY <1>4, <1>6, <1>12
  <2> QED
    BY <1>4, <1>6, <2>1, ConcatAssociative, SMTT(30)
<1>14. a \o b \in Seq(StepSet) /\ c \o e \in Seq(StepSet)
  BY <1>4, <1>6
<1> QED
  BY <1>5, <1>10, <1>11, <1>13, <1>14

(* Where the steps of AllTasks are: the files once, at FilesAt; dumps and  *)
(* scripts that go before at the earlier places and only there, loads and  *)
(* scripts that go after at the later ones.                                *)
LEMMA PlanOrder ==
  ASSUME NEW j \in Job
  PROVE  /\ AllTasks(j) \in Seq(StepSet)
         /\ FilesAt(j) \in 1..Len(AllTasks(j))
         /\ AllTasks(j)[FilesAt(j)] = FilesStep
         /\ \A k \in 1..(FilesAt(j) - 1) : AllTasks(j)[k] \in PreSteps(j)
         /\ \A k \in (FilesAt(j) + 1)..Len(AllTasks(j)) : AllTasks(j)[k] \in PostSteps(j)
         /\ \A x \in PreSteps(j) : \E k \in 1..(FilesAt(j) - 1) : AllTasks(j)[k] = x
         /\ \A x \in PostSteps(j) :
              \E k \in (FilesAt(j) + 1)..Len(AllTasks(j)) : AllTasks(j)[k] = x
<1> DEFINE b == BeforeFiles(j)
           a == AfterFiles(j)
           p == AllTasks(j)
           n == FilesAt(j)
<1>1. /\ b \in Seq(StepSet) /\ ToSet(b) = PreSteps(j)
      /\ a \in Seq(StepSet) /\ ToSet(a) = PostSteps(j)
      /\ p = (b \o <<FilesStep>>) \o a /\ n = Len(b) + 1
  BY PlanParts DEF FilesAt
<1>2. FilesStep \in StepSet
  BY DEF StepSet
<1> HIDE DEF a, b, p, n
<1>3. p \in Seq(StepSet) /\ Len(p) = n + Len(a) /\ n \in Nat \ {0} /\ Len(a) \in Nat
  BY <1>1, <1>2
<1>4. p[n] = FilesStep /\ n \in 1..Len(p)
  BY <1>1, <1>2
<1>5. \A k \in 1..(n - 1) : k \in DOMAIN b /\ p[k] = b[k]
  BY <1>1, <1>2
<1>6. \A k \in (n + 1)..Len(p) : k - n \in DOMAIN a /\ p[k] = a[k - n]
  BY <1>1, <1>2, <1>3
<1>7. \A k \in 1..(n - 1) : p[k] \in PreSteps(j)
  BY <1>1, <1>5 DEF ToSet
<1>8. \A k \in (n + 1)..Len(p) : p[k] \in PostSteps(j)
  BY <1>1, <1>6 DEF ToSet
<1>9. ASSUME NEW x \in PreSteps(j) PROVE \E k \in 1..(n - 1) : p[k] = x
  <2>1. PICK k \in DOMAIN b : b[k] = x
    BY <1>1 DEF ToSet
  <2>2. k \in 1..(n - 1)
    BY <1>1, <2>1
  <2> QED
    BY <1>5, <2>1, <2>2
<1>10. ASSUME NEW x \in PostSteps(j) PROVE \E k \in (n + 1)..Len(p) : p[k] = x
  <2>1. PICK k \in DOMAIN a : a[k] = x
    BY <1>1 DEF ToSet
  <2>2. n + k \in (n + 1)..Len(p) /\ (n + k) - n = k
    BY <1>1, <1>3, <2>1
  <2> QED
    BY <1>6, <2>1, <2>2
<1> QED
  BY <1>3, <1>4, <1>7, <1>8, <1>9, <1>10 DEF p, n

(* Before the files nothing is loaded and no script of the other side     *)
(* runs, and what is dumped is dumped by a step of its own.               *)
LEMMA PreCommands ==
  ASSUME NEW j, NEW x \in PreSteps(j)
  PROVE  /\ x.onBackup # Transfer /\ x.onRestore # Transfer
         /\ \A d : x.onBackup # Load(d) /\ x.onRestore # Load(d) /\ x.onRestore # Dump(d)
         /\ \A n : x.onBackup # Run("post", n) /\ x.onRestore # Run("post", n)
         /\ \A d : x.onBackup = Dump(d) => x = GetPreTask(d)
<1>1. CASE \E d : x = GetPreTask(d)
  <2>1. PICK e : x = GetPreTask(e)
    BY <1>1
  <2>2. x.onBackup = <<"dump", e>> /\ x.onRestore = <<"nothing">>
    BY <2>1 DEF GetPreTask, Dump, Nothing
  <2> QED
    BY <2>1, <2>2 DEF Transfer, Load, Run, Dump
<1>2. CASE \E n, s : x = ScriptStep("pre", n, s)
  <2>1. PICK n, s : x = ScriptStep("pre", n, s)
    BY <1>2
  <2>2. /\ x.onBackup = <<"pre", n>> \/ x.onBackup = <<"nothing">>
        /\ x.onRestore = <<"pre", n>> \/ x.onRestore = <<"nothing">>
    BY <2>1 DEF ScriptStep, Run, Nothing
  <2> QED
    BY <2>2 DEF Transfer, Load, Run, Dump
<1> QED
  BY <1>1, <1>2 DEF PreSteps, PreOf

(* After the files nothing is dumped and no script of the other side runs. *)
LEMMA PostCommands ==
  ASSUME NEW j, NEW x \in PostSteps(j)
  PROVE  /\ x.onBackup # Transfer /\ x.onRestore # Transfer
         /\ \A d : x.onBackup # Dump(d) /\ x.onRestore # Dump(d) /\ x.onBackup # Load(d)
         /\ \A n : x.onBackup # Run("pre", n) /\ x.onRestore # Run("pre", n)
<1>1. CASE \E d : x = GetPostTask(d)
  <2>1. PICK e : x = GetPostTask(e)
    BY <1>1
  <2>2. x.onBackup = <<"nothing">> /\ x.onRestore = <<"load", e>>
    BY <2>1 DEF GetPostTask, Load, Nothing
  <2> QED
    BY <2>2 DEF Transfer, Load, Run, Dump
<1>2. CASE \E n, s : x = ScriptStep("post", n, s)
  <2>1. PICK n, s : x = ScriptStep("post", n, s)
    BY <1>2
  <2>2. /\ x.onBackup = <<"post", n>> \/ x.onBackup = <<"nothing">>
        /\ x.onRestore = <<"post", n>> \/ x.onRestore = <<"nothing">>
    BY <2>1 DEF ScriptStep, Run, Nothing
  <2> QED
    BY <2>2 DEF Transfer, Load, Run, Dump
<1> QED
  BY <1>1, <1>2 DEF PostSteps, PostOf

(* The files' step is the only one that transfers them. *)
LEMMA FilesCommands ==
  /\ FilesStep.onBackup = Transfer /\ FilesStep.onRestore = Transfer
  /\ \A d : Dump(d) # Transfer /\ Load(d) # Transfer
  /\ \A side, n : Run(side, n) # Transfer
  /\ Nothing # Transfer
  BY DEF FilesStep, Transfer, Dump, Load, Run, Nothing

(* The plan of a job that the specification may hold. *)
LEMMA PlanTypes ==
  ASSUME job \in Config
  PROVE  /\ job \in Job
         /\ Plan \in Seq(StepSet) /\ Len(Plan) \in Nat
         /\ FilesAt(job) \in 1..Len(Plan)
<1>1. job \in Job
  BY RecoveryAssumption
<1>2. Plan \in Seq(StepSet) /\ FilesAt(job) \in 1..Len(Plan)
  BY <1>1, PlanOrder DEF Plan
<1> QED
  BY <1>1, <1>2

(* The tasks of a job have names. *)
LEMMA TaskNames ==
  ASSUME job \in Config, NEW t \in ToSet(job.tasks)
  PROVE  t.name \in STRING
<1>1. job.tasks \in Seq(JobTask)
  BY RecoveryAssumption DEF Job
<1>2. t \in JobTask
  BY <1>1 DEF ToSet
<1> QED
  BY <1>2 DEF JobTask

(* What a job's plan dumps: a block of the job's, before the files, which  *)
(* is loaded after them.                                                   *)
LEMMA DumpSteps ==
  ASSUME job \in Config, NEW k \in 1..Len(Plan), NEW d, Plan[k].onBackup = Dump(d)
  PROVE  /\ k \in 1..(FilesAt(job) - 1)
         /\ d \in Configured
         /\ \E m \in (FilesAt(job) + 1)..Len(Plan) : Plan[m].onRestore = Load(d)
<1>1. k \in 1..(FilesAt(job) - 1)
  <2>1. /\ FilesAt(job) \in 1..Len(Plan) /\ Plan[FilesAt(job)] = FilesStep
        /\ \A m \in (FilesAt(job) + 1)..Len(Plan) : Plan[m] \in PostSteps(job)
        /\ k \in 1..Len(Plan) /\ Len(Plan) \in Nat
    BY PlanTypes, PlanOrder DEF Plan
  <2>2. k # FilesAt(job)
    BY <2>1, FilesCommands
  <2>3. k \notin (FilesAt(job) + 1)..Len(Plan)
    BY <2>1, PostCommands
  <2> QED
    BY <2>1, <2>2, <2>3
<1>2. Plan[k] \in PreSteps(job) /\ Plan[k] = GetPreTask(d)
  BY <1>1, PlanTypes, PlanOrder, PreCommands DEF Plan
<1>3. \/ d \in ToSet(Blocks(job))
      \/ \E t \in ToSet(job.tasks) : d \in ToSet(t.mysql) \cup ToSet(t.sqlite)
  <2>1. \A e : GetPreTask(e) = GetPreTask(d) => e = d
    BY DEF GetPreTask, Dump
  <2>2. \A n, s : GetPreTask(d) # ScriptStep("pre", n, s)
    BY DEF GetPreTask, Dump, ScriptStep, Run, Nothing
  <2> QED
    BY <1>2, <2>1, <2>2 DEF PreSteps, PreOf
<1>4. PICK m \in (FilesAt(job) + 1)..Len(Plan) : Plan[m] = GetPostTask(d)
  <2>1. GetPostTask(d) \in PostSteps(job)
    BY <1>3 DEF PostSteps, PostOf
  <2> QED
    BY <2>1, PlanTypes, PlanOrder DEF Plan
<1>5. Plan[m].onRestore = Load(d)
  BY <1>4 DEF GetPostTask
<1>6. d \in Configured
  <2>1. job.tasks \in Seq(JobTask)
    BY RecoveryAssumption DEF Job
  <2>2. ASSUME NEW t \in ToSet(job.tasks), d \in ToSet(t.mysql) \cup ToSet(t.sqlite)
        PROVE  d \in ToSet(t.mysql \o t.postgres \o t.sqlite)
    <3>1. t \in JobTask
      BY <2>1 DEF ToSet
    <3>2. /\ t.mysql \in Seq(Database) /\ t.postgres \in Seq(Database)
          /\ t.sqlite \in Seq(Database) /\ t.mysql \o t.postgres \in Seq(Database)
      BY <3>1 DEF JobTask
    <3> QED
      BY <2>2, <3>2, ConcatMembers
  <2> QED
    BY <1>3, <2>2 DEF Configured, Nested
<1> QED
  BY <1>1, <1>4, <1>5, <1>6

(* The blocks of a job are blocks. *)
LEMMA ConfiguredAreBlocks ==
  ASSUME job \in Config
  PROVE  Configured \subseteq Database
<1>1. /\ job.mysql \in Seq(Database) /\ job.postgres \in Seq(Database)
      /\ job.sqlite \in Seq(Database) /\ job.tasks \in Seq(JobTask)
  BY RecoveryAssumption DEF Job
<1>2. ToSet(Blocks(job)) \subseteq Database
  <2>1. Blocks(job) \in Seq(Database)
    BY <1>1 DEF Blocks
  <2> QED
    BY <2>1 DEF ToSet
<1>3. ASSUME NEW t \in ToSet(job.tasks)
      PROVE  ToSet(t.mysql \o t.postgres \o t.sqlite) \subseteq Database
  <2>1. t \in JobTask
    BY <1>1 DEF ToSet
  <2> DEFINE s == t.mysql \o t.postgres \o t.sqlite
  <2>2. s \in Seq(Database)
    BY <2>1 DEF JobTask
  <2> HIDE DEF s
  <2>3. ToSet(s) \subseteq Database
    BY <2>2 DEF ToSet
  <2> QED
    BY <2>3 DEF s
<1> QED
  BY <1>2, <1>3 DEF Configured, Nested

(* Every protected database has a dump before the files and a load after,  *)
(* in a file that the backup holds.                                        *)
LEMMA ProtectedPlan ==
  ASSUME job \in Config, NEW d \in Protected
  PROVE  /\ d \in Database /\ DumpTo[d] \in Path /\ DumpTo[d] \in Saved(job)
         /\ \E k \in 1..(FilesAt(job) - 1) : Plan[k].onBackup = Dump(d)
         /\ \E k \in (FilesAt(job) + 1)..Len(Plan) : Plan[k].onRestore = Load(d)
<1>1. d \in Configured /\ DumpTo[d] \in Saved(job)
  BY DEF Protected, Dumped
<1>2. PICK k \in DOMAIN Plan : Plan[k].onBackup = Dump(d)
  BY DEF Protected, Dumped, ToSet
<1>3. k \in 1..Len(Plan)
  BY PlanTypes
<1> QED
  BY <1>1, <1>2, <1>3, DumpSteps, ConfiguredAreBlocks, TaskPlanAssumption

-------------------------------------------------------------------------------
(* Where a step leaves the loop of RunBackup and RunRestore. *)
LEMMA LoopTypes ==
  ASSUME TypeOK, Running, Continue \/ Fail
  PROVE  mode' \in Modes \cup {"idle", "saved", "restored"} /\ i' \in 1..Len(Plan)
<1>1. i \in 1..Len(Plan) /\ Len(Plan) \in Nat /\ mode \in Modes
  BY PlanTypes DEF TypeOK, Running
<1>2. CASE Continue
  BY <1>1, <1>2 DEF Continue, Success
<1>3. CASE Fail
  BY <1>1, <1>3 DEF Fail
<1> QED
  BY <1>2, <1>3

(* The machine's state, the repository and the loop have their types at    *)
(* the start.                                                              *)
LEMMA InitTypeOK == Init => TypeOK
<1> SUFFICES ASSUME Init PROVE TypeOK
  OBVIOUS
<1>1. job \in Config
  BY DEF Init
<1>2. 1 \in 1..Len(Plan)
  BY <1>1, PlanTypes
<1>3. 1 \in Version /\ Missing \in Content
  BY RecoveryAssumption DEF Version, Content
<1>4. repo = <<>> /\ span = <<>> /\ target = 0 /\ i = 1 /\ down = {} /\ mode = "idle"
  BY DEF Init
<1>5. data \in [Database -> Version] /\ from \in [Database -> Version] /\ dumps \in [Path -> Content]
  BY <1>3 DEF Init
<1>6. foreign \subseteq DOMAIN repo
  BY DEF Init
<1> QED
  BY <1>1, <1>2, <1>4, <1>5, <1>6 DEF TypeOK

(* Every step keeps them. *)
LEMMA NextTypeOK == TypeOK /\ [Next]_vars => TypeOK'
<1> SUFFICES ASSUME TypeOK, [Next]_vars PROVE TypeOK'
  OBVIOUS
<1>1. job' = job /\ Plan' = Plan
  BY DEF Next, vars, Change, RunDump, RunLoad, Disaster, OtherBackup, BeginBackup, BeginRestore, RunScript,
         DoNothing, BackupFiles, RestoreFiles, Plan
<1>2. /\ 1 \in 1..Len(Plan) /\ job.restores \subseteq Path
      /\ MaxVersion \in Nat \ {0} /\ 0 \in Version /\ Missing \in Content /\ Foreign \in Content
  BY PlanTypes, RecoveryAssumption DEF TypeOK, Version, Content, Job
<1>3. ASSUME Running, Continue \/ Fail
      PROVE  mode' \in Modes \cup {"idle", "saved", "restored"} /\ i' \in 1..Len(Plan')
  BY <1>1, <1>3, LoopTypes
<1>4. ASSUME NEW d \in Database, Change(d) PROVE TypeOK'
  <2>1. data' \in [Database -> Version]
    <3>1. data[d] + 1 \in Version
      BY <1>2, <1>4 DEF Change, Version
    <3> QED
      BY <1>4, <3>1 DEF Change, TypeOK
  <2> QED
    BY <1>1, <1>4, <2>1 DEF Change, TypeOK
<1>5. ASSUME NEW d \in Database, RunDump(d) PROVE TypeOK'
  <2>1. <<d, data[d]>> \in Content
    BY DEF TypeOK, Content
  <2>2. dumps' \in [Path -> Content]
    BY <1>2, <1>5, <2>1 DEF RunDump, TypeOK
  <2> QED
    BY <1>1, <1>3, <1>5, <2>2 DEF RunDump, TypeOK
<1>6. ASSUME NEW d \in Database, RunLoad(d) PROVE TypeOK'
  <2>1. ASSUME dumps[DumpTo[d]] # Missing PROVE Loaded(d) \in Version
    <3>1. dumps[DumpTo[d]] \in Database \X Version \/ dumps[DumpTo[d]] = Foreign
      BY <2>1, TaskPlanAssumption DEF TypeOK, Content
    <3> QED
      BY <1>2, <3>1 DEF Loaded, Foreign
  <2>2. data' \in [Database -> Version]
    <3>1. \/ data' = data
          \/ data' = [data EXCEPT ![d] = 0]
          \/ dumps[DumpTo[d]] # Missing /\ data' = [data EXCEPT ![d] = Loaded(d)]
      BY <1>6 DEF RunLoad
    <3> QED
      BY <1>2, <2>1, <3>1 DEF TypeOK
  <2>3. Continue \/ Fail
    BY <1>6 DEF RunLoad
  <2> QED
    BY <1>1, <1>3, <1>6, <2>2, <2>3 DEF RunLoad, TypeOK
<1>7. CASE Disaster
  <2>1. data' \in [Database -> Version]
    BY <1>2, <1>7 DEF Disaster, TypeOK
  <2>2. dumps' \in [Path -> Content]
    BY <1>2, <1>7 DEF Disaster, TypeOK
  <2> QED
    BY <1>1, <1>7, <2>1, <2>2 DEF Disaster, TypeOK
<1>8. CASE BeginBackup
  BY <1>1, <1>2, <1>8 DEF BeginBackup, TypeOK, Modes
<1>15. CASE OtherBackup
  <2> DEFINE T == [Path -> Content]
             U == [Database -> SUBSET Version]
  <2>1. PICK P \in SavedByOther :
          repo' = Append(repo, [p \in Path |-> IF p \in P THEN Foreign ELSE Missing])
    BY <1>15 DEF OtherBackup
  <2>2. /\ [p \in Path |-> IF p \in P THEN Foreign ELSE Missing] \in T
        /\ [d \in Database |-> {}] \in U
    BY <1>2
  <2> DEFINE s == [p \in Path |-> IF p \in P THEN Foreign ELSE Missing]
             u == [d \in Database |-> {}]
  <2>3. /\ repo \in Seq(T) /\ span \in Seq(U) /\ Len(span) = Len(repo) /\ s \in T /\ u \in U
        /\ repo' = Append(repo, s) /\ span' = Append(span, u)
    BY <1>15, <2>1, <2>2 DEF OtherBackup, TypeOK
  <2> HIDE DEF T, U, s, u
  <2>4. /\ repo' \in Seq(T) /\ span' \in Seq(U) /\ Len(span') = Len(repo')
        /\ Len(repo) \in Nat /\ Len(repo') = Len(repo) + 1
        /\ DOMAIN repo = 1..Len(repo) /\ DOMAIN repo' = 1..Len(repo')
    BY <2>3
  <2>5. target' \in 0..Len(repo') /\ foreign' \subseteq DOMAIN repo'
    BY <1>15, <2>4 DEF OtherBackup, TypeOK
  <2> QED
    BY <1>1, <1>15, <2>4, <2>5 DEF OtherBackup, TypeOK, T, U
<1>9. ASSUME NEW k \in 0..MaxBackups, BeginRestore(k) PROVE TypeOK'
  BY <1>1, <1>2, <1>9 DEF BeginRestore, TypeOK, Modes
<1>10. ASSUME NEW t \in ToSet(job.tasks), RunScript(t.name) PROVE TypeOK'
  <2>1. down' \subseteq {u.name : u \in ToSet(job.tasks)}
    BY <1>10 DEF RunScript, TypeOK
  <2>2. Continue \/ Fail
    BY <1>10 DEF RunScript
  <2> QED
    BY <1>1, <1>3, <1>10, <2>1, <2>2 DEF RunScript, TypeOK
<1>11. CASE DoNothing
  BY <1>1, <1>3, <1>11 DEF DoNothing, TypeOK
<1>12. CASE BackupFiles
  <2>1. Continue \/ Fail
    BY <1>12 DEF BackupFiles
  <2>2. Running
    BY <1>12 DEF BackupFiles, Running, Modes
  <2>3. CASE Fail /\ UNCHANGED <<repo, span>>
    BY <1>1, <1>3, <1>12, <2>1, <2>2, <2>3 DEF BackupFiles, TypeOK
  <2>4. CASE /\ repo' = Append(repo, Snapshot)
             /\ span' = Append(span, [d \in Database |-> from[d]..data[d]])
    <3>1. Snapshot \in [Path -> Content]
      BY <1>2 DEF TypeOK, Snapshot
    <3>2. [d \in Database |-> from[d]..data[d]] \in [Database -> SUBSET Version]
      <4>1. \A d \in Database : from[d] \in 0..MaxVersion /\ data[d] \in 0..MaxVersion
        BY DEF TypeOK, Version
      <4>2. \A d \in Database : from[d]..data[d] \subseteq Version
        BY <1>2, <4>1 DEF Version
      <4> QED
        BY <4>2
    <3>3. /\ repo' \in Seq([Path -> Content])
          /\ span' \in Seq([Database -> SUBSET Version])
          /\ Len(repo') = Len(repo) + 1 /\ Len(span') = Len(repo')
          /\ Len(repo) \in Nat
      <4> HIDE DEF Running
      <4>1. repo \in Seq([Path -> Content]) /\ span \in Seq([Database -> SUBSET Version])
            /\ Len(span) = Len(repo)
        BY DEF TypeOK
      <4> QED
        BY <2>4, <3>1, <3>2, <4>1
    <3>4. target \in 0..Len(repo') /\ foreign \subseteq DOMAIN repo'
      <4>1. DOMAIN repo = 1..Len(repo) /\ DOMAIN repo' = 1..Len(repo')
        BY <3>3 DEF TypeOK
      <4> QED
        BY <3>3, <4>1 DEF TypeOK
    <3> QED
      BY <1>1, <1>3, <1>12, <2>1, <2>2, <3>3, <3>4 DEF BackupFiles, TypeOK
  <2> QED
    BY <1>12, <2>3, <2>4 DEF BackupFiles
<1>13. CASE RestoreFiles
  <2>1. Continue \/ Fail
    BY <1>13 DEF RestoreFiles
  <2>2. Running
    BY <1>13 DEF RestoreFiles, Running, Modes
  <2>3. target # 0 => repo[target] \in [Path -> Content]
    BY DEF TypeOK
  <2>4. ASSUME NEW P \in SUBSET job.restores PROVE Restored(P) \in [Path -> Content]
    <3>1. ASSUME NEW p \in Path
          PROVE  (IF target # 0 /\ p \in P /\ repo[target][p] # Missing
                    THEN repo[target][p] ELSE dumps[p]) \in Content
      BY <2>3, <2>4 DEF TypeOK
    <3> QED
      BY <3>1 DEF Restored
  <2>5. dumps' \in [Path -> Content]
    BY <1>13, <2>4 DEF RestoreFiles
  <2> QED
    BY <1>1, <1>3, <1>13, <2>1, <2>2, <2>5 DEF RestoreFiles, TypeOK
<1>14. CASE UNCHANGED vars
  BY <1>1, <1>14 DEF vars, TypeOK
<1> QED
  BY <1>4, <1>5, <1>6, <1>7, <1>8, <1>9, <1>10, <1>11, <1>12, <1>13, <1>14, <1>15 DEF Next

-------------------------------------------------------------------------------
(* Continue is one step further, in the loop or past its end. *)
LEMMA Advance ==
  ASSUME TypeOK, Running, Continue, job' = job, NEW m, NEW p, Reached(m, p)'
  PROVE  m = mode /\ p = i + 1 /\ mode \in Modes
<1>1. /\ mode \in Modes /\ i \in 1..Len(Plan) /\ Len(Plan) \in Nat /\ Plan' = Plan
  BY PlanTypes DEF TypeOK, Running, Plan
<1>2. CASE i < Len(Plan)
  <2>1. mode' = mode /\ i' = i + 1
    BY <1>2 DEF Continue
  <2> QED
    BY <1>1, <2>1 DEF Reached, Modes
<1>3. CASE ~(i < Len(Plan))
  <2>1. i = Len(Plan) /\ mode' = Success
    BY <1>1, <1>3 DEF Continue
  <2> QED
    BY <1>1, <2>1 DEF Reached, Modes, Success
<1> QED
  BY <1>2, <1>3

(* A run that is going on has reached its step, and only that. *)
LEMMA RunningAt ==
  ASSUME Running
  PROVE  Reached(mode, i) /\ mode \in Modes
  BY DEF Running, Reached

(* The step a plan is at: before the files, at them, or after. *)
LEMMA StepAt ==
  ASSUME TypeOK
  PROVE  /\ i \in 1..Len(Plan) /\ Len(Plan) \in Nat /\ FilesAt(job) \in 1..Len(Plan)
         /\ i < FilesAt(job) => Step \in PreSteps(job)
         /\ i = FilesAt(job) => Step = FilesStep
         /\ i > FilesAt(job) => Step \in PostSteps(job)
<1>1. /\ job \in Job /\ i \in 1..Len(Plan) /\ Len(Plan) \in Nat
      /\ FilesAt(job) \in 1..Len(Plan)
  BY PlanTypes DEF TypeOK
<1> QED
  BY <1>1, PlanOrder DEF Plan, Step

(* The files are transferred at their place and nowhere else. *)
LEMMA TransferAt ==
  ASSUME TypeOK
  PROVE  Command = Transfer <=> i = FilesAt(job)
<1>1. CASE i < FilesAt(job)
  BY <1>1, StepAt, PreCommands DEF Command
<1>2. CASE i = FilesAt(job)
  BY <1>2, StepAt, FilesCommands DEF Command
<1>3. CASE i > FilesAt(job)
  BY <1>3, StepAt, PostCommands DEF Command
<1> QED
  BY <1>1, <1>2, <1>3, StepAt

(* A backup loads nothing, a restore dumps nothing, and loads come after   *)
(* the files.                                                              *)
LEMMA CommandAt ==
  ASSUME TypeOK, NEW d
  PROVE  /\ mode = "backup" => Command # Load(d)
         /\ mode = "restore" /\ Command = Load(d) => i > FilesAt(job)
         /\ mode = "restore" => Command # Dump(d)
<1>0. FilesStep.onBackup # Load(d) /\ FilesStep.onRestore # Load(d) /\ FilesStep.onRestore # Dump(d)
  BY DEF FilesStep, Transfer, Load, Dump
<1>1. CASE i < FilesAt(job)
  BY <1>1, StepAt, PreCommands DEF Command
<1>2. CASE i = FilesAt(job)
  BY <1>0, <1>2, StepAt DEF Command
<1>3. CASE i > FilesAt(job)
  BY <1>3, StepAt, PostCommands DEF Command
<1> QED
  BY <1>1, <1>2, <1>3, StepAt

(* The job never changes, nor what its plan protects. *)
LEMMA SameJob ==
  ASSUME [Next]_vars
  PROVE  job' = job /\ Plan' = Plan /\ Protected' = Protected /\ PutBack' = PutBack
<1>1. job' = job
  BY DEF Next, vars, Change, RunDump, RunLoad, Disaster, OtherBackup, BeginBackup, BeginRestore, RunScript,
         DoNothing, BackupFiles, RestoreFiles
<1> QED
  BY <1>1 DEF Plan, PutBack, Protected, Dumped, OwnFile, Configured, Nested

-------------------------------------------------------------------------------
(* The dumps of a running backup are of its own time: no other block writes *)
(* to a protected file, and the databases only move on.                     *)
LEMMA NextDumps == TypeOK /\ DumpsAreCurrent /\ [Next]_vars => DumpsAreCurrent'
<1> SUFFICES ASSUME TypeOK, DumpsAreCurrent, [Next]_vars, mode' = "backup"
             PROVE  /\ \A d \in Database : from'[d] <= data'[d]
                    /\ \A d \in Protected, k \in 1..(i' - 1) :
                         Plan[k].onBackup = Dump(d) =>
                           \E v \in from'[d]..data'[d] : dumps'[DumpTo[d]] = <<d, v>>
  BY SameJob DEF DumpsAreCurrent
<1>1. /\ \A d \in Database : data[d] \in Nat /\ from[d] \in Nat
      /\ \A d \in Protected : d \in Database /\ DumpTo[d] \in Path
      /\ Len(Plan) \in Nat /\ i \in 1..Len(Plan)
  BY ProtectedPlan, StepAt DEF TypeOK, Version
<1> DEFINE Held(d) == \E v \in from[d]..data[d] : dumps[DumpTo[d]] = <<d, v>>
           Held1(d) == \E v \in from'[d]..data'[d] : dumps'[DumpTo[d]] = <<d, v>>
           Goal == /\ \A d \in Database : from'[d] <= data'[d]
                   /\ \A d \in Protected, k \in 1..(i' - 1) :
                        Plan[k].onBackup = Dump(d) => Held1(d)
<1> SUFFICES Goal
  OBVIOUS
<1>2. ASSUME mode = "backup"
      PROVE  /\ \A d \in Database : from[d] <= data[d]
             /\ \A d \in Protected, k \in 1..(i - 1) : Plan[k].onBackup = Dump(d) => Held(d)
  BY <1>2 DEF DumpsAreCurrent
<1>3. ASSUME Running, Continue PROVE mode = "backup" /\ i' = i + 1
  BY <1>1, <1>3 DEF Running, Modes, Continue, Success
<1>4. ASSUME NEW d \in Database, Change(d)
      PROVE  Goal
  <2>1. /\ from' = from /\ i' = i /\ dumps' = dumps /\ mode = "backup"
        /\ data' = [data EXCEPT ![d] = @ + 1] /\ DOMAIN data = Database
    BY <1>4 DEF Change, TypeOK
  <2>2. \A e \in Database : data'[e] \in Nat /\ data[e] <= data'[e]
    BY <1>1, <2>1
  <2>3. \A e \in Protected : Held(e) => Held1(e)
    BY <1>1, <2>1, <2>2
  <2>4. \A e \in Database : from'[e] <= data'[e]
    BY <1>1, <1>2, <2>1, <2>2
  <2> QED
    BY <1>2, <2>1, <2>3, <2>4
<1>5. ASSUME NEW e \in Database, RunDump(e)
      PROVE  Goal
  <2>1. /\ Continue /\ Running /\ Command = Dump(e) /\ data' = data /\ from' = from
        /\ dumps' = [dumps EXCEPT ![DumpTo[e]] = <<e, data[e]>>] /\ DOMAIN dumps = Path
    BY <1>5 DEF RunDump, Fail, TypeOK
  <2>2. mode = "backup" /\ i' = i + 1
    BY <1>3, <2>1
  <2>3. Plan[i].onBackup = Dump(e)
    BY <2>1, <2>2 DEF Command, Step
  <2>4. e \in Configured
    BY <1>1, <2>3, DumpSteps DEF TypeOK
  <2>5. ASSUME NEW d \in Protected, d # e, Held(d) PROVE Held1(d)
    <3>1. DumpTo[e] # DumpTo[d]
      BY <2>4, <2>5 DEF Protected, OwnFile
    <3>2. dumps'[DumpTo[d]] = dumps[DumpTo[d]]
      BY <1>1, <2>1, <3>1
    <3> QED
      BY <2>1, <2>5, <3>2
  <2>6. e \in Protected => Held1(e)
    <3>1. data[e] \in from[e]..data[e]
      BY <1>1, <1>2, <2>2
    <3>2. e \in Protected => dumps'[DumpTo[e]] = <<e, data[e]>>
      BY <1>1, <2>1
    <3> QED
      BY <2>1, <3>1, <3>2
  <2>7. ASSUME NEW d \in Protected, NEW k \in 1..(i' - 1), Plan[k].onBackup = Dump(d)
        PROVE  Held1(d)
    <3>1. CASE k = i
      <4>1. d = e
        BY <2>3, <2>7, <3>1 DEF Dump
      <4> QED
        BY <2>6, <4>1
    <3>2. CASE k # i
      <4>1. k \in 1..(i - 1)
        BY <1>1, <2>2, <2>7, <3>2
      <4>2. Held(d)
        BY <1>2, <2>2, <2>7, <4>1
      <4> QED
        BY <2>5, <2>6, <4>2
    <3> QED
      BY <3>1, <3>2
  <2> HIDE DEF Held1
  <2> QED
    BY <1>2, <2>1, <2>2, <2>7
<1>6. ASSUME Running, Continue, UNCHANGED <<data, dumps, from>>,
             \A d \in Protected : mode = "backup" => Command # Dump(d)
      PROVE  Goal
  <2>1. mode = "backup" /\ i' = i + 1
    BY <1>3, <1>6
  <2>2. \A d \in Protected : Plan[i].onBackup # Dump(d)
    BY <1>6, <2>1 DEF Command, Step
  <2>3. \A k \in 1..(i' - 1) : k = i \/ k \in 1..(i - 1)
    BY <1>1, <2>1
  <2> QED
    BY <1>2, <1>6, <2>1, <2>2, <2>3
<1>7. ASSUME UNCHANGED <<data, dumps, from, mode, i>>
      PROVE  Goal
  BY <1>2, <1>7
<1>8. ~Fail
  BY DEF Fail
<1>9. ASSUME NEW d \in Database PROVE ~RunLoad(d)
  <2> SUFFICES ASSUME RunLoad(d) PROVE FALSE
    OBVIOUS
  <2>1. Running /\ Continue /\ Command = Load(d)
    BY <1>8 DEF RunLoad
  <2> QED
    BY <1>3, <2>1, CommandAt
<1>10. ~Disaster /\ ~RestoreFiles /\ \A k : ~BeginRestore(k)
  BY <1>8 DEF Disaster, RestoreFiles, BeginRestore, Continue, Success
<1>16. CASE OtherBackup
  BY <1>7, <1>16 DEF OtherBackup
<1>11. CASE BeginBackup
  <2>1. data' = data /\ from' = data /\ i' = 1
    BY <1>11 DEF BeginBackup
  <2> QED
    BY <1>1, <2>1
<1>12. ASSUME NEW t \in ToSet(job.tasks), RunScript(t.name)
       PROVE  Goal
  <2>1. Running /\ Continue /\ UNCHANGED <<data, dumps, from>>
    BY <1>8, <1>12 DEF RunScript
  <2>2. Command = Run("pre", t.name) \/ Command = Run("post", t.name)
    BY <1>8, <1>12 DEF RunScript
  <2>3. \A d : Command # Dump(d)
    BY <2>2 DEF Run, Dump
  <2> QED
    BY <1>6, <2>1, <2>3
<1>13. CASE DoNothing
  <2>1. Running /\ Continue /\ UNCHANGED <<data, dumps, from>> /\ Command = Nothing
    BY <1>13 DEF DoNothing
  <2>2. \A d : Command # Dump(d)
    BY <2>1 DEF Nothing, Dump
  <2> QED
    BY <1>6, <2>1, <2>2
<1>14. CASE BackupFiles
  <2>1. Running /\ Continue /\ UNCHANGED <<data, dumps, from>> /\ Command = Transfer
    BY <1>8, <1>14 DEF BackupFiles, Running, Modes
  <2>2. \A d : Command # Dump(d)
    BY <2>1, FilesCommands
  <2> QED
    BY <1>6, <2>1, <2>2
<1>15. CASE UNCHANGED vars
  BY <1>7, <1>15 DEF vars
<1> HIDE DEF Goal
<1> QED
  BY <1>4, <1>5, <1>9, <1>10, <1>11, <1>12, <1>13, <1>14, <1>15, <1>16 DEF Next

(* A snapshot is made when every protected database has been dumped, those *)
(* there are stay as they are, and another job's does not count.           *)
LEMMA NextCurrent == TypeOK /\ DumpsAreCurrent /\ Current /\ [Next]_vars => Current'
<1> SUFFICES ASSUME TypeOK, DumpsAreCurrent, Current, [Next]_vars PROVE Current'
  OBVIOUS
<1>1. CASE UNCHANGED <<repo, span, foreign>>
  BY <1>1, SameJob DEF Current
<1>5. CASE OtherBackup
  <2>1. PICK s, u : repo' = Append(repo, s) /\ span' = Append(span, u)
    BY <1>5 DEF OtherBackup
  <2> DEFINE n == Len(repo)
  <2>2. /\ n \in Nat /\ Len(span) = n /\ repo \in Seq([Path -> Content])
        /\ span \in Seq([Database -> SUBSET Version])
    BY DEF TypeOK
  <2>3. DOMAIN repo' = 1..(n + 1) /\ \A k \in 1..n : repo'[k] = repo[k] /\ span'[k] = span[k]
    BY <2>1, <2>2
  <2>4. ASSUME NEW k \in DOMAIN repo' \ foreign'
        PROVE  k \in DOMAIN repo \ foreign /\ repo'[k] = repo[k] /\ span'[k] = span[k]
    <3>1. foreign' = foreign \cup {n + 1} /\ DOMAIN repo = 1..n
      BY <1>5, <2>2 DEF OtherBackup
    <3>2. k \in 1..n
      BY <2>2, <2>3, <2>4, <3>1
    <3> QED
      BY <2>3, <2>4, <3>1, <3>2
  <2> QED
    BY <2>4, SameJob DEF Current
<1>2. CASE /\ repo' = Append(repo, Snapshot)
           /\ span' = Append(span, [d \in Database |-> from[d]..data[d]])
           /\ BackupFiles
  <2> DEFINE s == Snapshot
             u == [d \in Database |-> from[d]..data[d]]
             n == Len(repo)
  <2>1. /\ n \in Nat /\ Len(span) = n /\ repo \in Seq([Path -> Content])
        /\ span \in Seq([Database -> SUBSET Version])
    BY DEF TypeOK
  <2>2. /\ DOMAIN repo' = 1..(n + 1) /\ DOMAIN repo = 1..n
        /\ repo'[n + 1] = s /\ span'[n + 1] = u
        /\ \A k \in 1..n : repo'[k] = repo[k] /\ span'[k] = span[k]
    <3> HIDE DEF s, u
    <3> QED
      BY <1>2, <2>1 DEF s, u
  <2>3. ASSUME NEW d \in Protected
        PROVE  \E v \in u[d] : s[DumpTo[d]] = <<d, v>>
    <3>1. mode = "backup" /\ i = FilesAt(job)
      BY <1>2, TransferAt DEF BackupFiles
    <3>2. /\ d \in Database /\ DumpTo[d] \in Saved(job) /\ DumpTo[d] \in Path
          /\ \E k \in 1..(FilesAt(job) - 1) : Plan[k].onBackup = Dump(d)
      BY ProtectedPlan DEF TypeOK
    <3>3. \E v \in from[d]..data[d] : dumps[DumpTo[d]] = <<d, v>>
      BY <3>1, <3>2 DEF DumpsAreCurrent
    <3>4. s[DumpTo[d]] = dumps[DumpTo[d]]
      BY <3>2 DEF Snapshot
    <3> QED
      BY <3>2, <3>3, <3>4
  <2> HIDE DEF s, u
  <2>4. ASSUME NEW d \in Protected, NEW k \in (1..(n + 1)) \ foreign
        PROVE  \E v \in span'[k][d] : repo'[k][DumpTo[d]] = <<d, v>>
    <3>1. CASE k = n + 1
      <4>1. span'[k][d] = u[d] /\ repo'[k][DumpTo[d]] = s[DumpTo[d]]
        BY <2>2, <3>1
      <4> QED
        BY <2>3, <4>1
    <3>2. CASE k # n + 1
      <4>1. k \in 1..n /\ repo'[k] = repo[k] /\ span'[k] = span[k]
        BY <2>1, <2>2, <2>4, <3>2
      <4>2. span'[k][d] = span[k][d] /\ repo'[k][DumpTo[d]] = repo[k][DumpTo[d]]
        BY <4>1
      <4>3. \E v \in span[k][d] : repo[k][DumpTo[d]] = <<d, v>>
        BY <2>2, <2>4, <4>1 DEF Current
      <4> QED
        BY <4>2, <4>3
    <3> QED
      BY <3>1, <3>2
  <2>5. \A d \in Protected', k \in DOMAIN repo' \ foreign' :
          \E v \in span'[k][d] : repo'[k][DumpTo[d]] = <<d, v>>
    <3>1. foreign' = foreign
      BY <1>2 DEF BackupFiles
    <3> QED
      BY <2>2, <2>4, <3>1, SameJob
  <2> QED
    BY <2>5 DEF Current
<1>3. BackupFiles => UNCHANGED <<repo, span, foreign>> \/
        /\ repo' = Append(repo, Snapshot)
        /\ span' = Append(span, [d \in Database |-> from[d]..data[d]])
        /\ BackupFiles
  BY DEF BackupFiles
<1>4. BackupFiles \/ OtherBackup \/ UNCHANGED <<repo, span, foreign>>
  BY DEF Next, vars, Change, RunDump, RunLoad, Disaster, BeginBackup, BeginRestore, RunScript,
         DoNothing, RestoreFiles
<1> QED
  BY <1>1, <1>2, <1>3, <1>4, <1>5

(* A restore takes its dumps out of the snapshot and loads from there: no   *)
(* step between puts another content into a file it put back, or into a     *)
(* database but what its own load leaves.                                   *)
LEMMA NextLoads ==
  TypeOK /\ Current /\ LoadsFromSnapshot /\ [Next]_vars => LoadsFromSnapshot'
<1> SUFFICES ASSUME TypeOK, Current, LoadsFromSnapshot, [Next]_vars PROVE LoadsFromSnapshot'
  OBVIOUS
<1>17. job' = job /\ Plan' = Plan /\ PutBack' = PutBack
  BY SameJob
<1>18. FilesAt(job)' = FilesAt(job)
  BY <1>17
<1> SUFFICES ASSUME NEW p \in Nat, Reached("restore", p)'
             PROVE  /\ p > FilesAt(job) => target' # 0
                    /\ target' \in DOMAIN repo' \ foreign' =>
                         /\ p > FilesAt(job) =>
                              \A d \in PutBack : dumps'[DumpTo[d]] = repo'[target'][DumpTo[d]]
                         /\ \A d \in PutBack, k \in 1..(p - 1) :
                              Plan[k].onRestore = Load(d) =>
                                data'[d] \in LeftByLoad(d, span'[target'][d])
  BY <1>17, <1>18 DEF LoadsFromSnapshot, LeftByLoad, Psql
<1> DEFINE Own == target \in DOMAIN repo \ foreign
           InPlace(d) == dumps[DumpTo[d]] = repo[target][DumpTo[d]]
           Loads(d) == data[d] \in LeftByLoad(d, span[target][d])
           Goal == /\ p > FilesAt(job) => target' # 0
                   /\ target' \in DOMAIN repo' \ foreign' =>
                        /\ p > FilesAt(job) =>
                             \A d \in PutBack : dumps'[DumpTo[d]] = repo'[target'][DumpTo[d]]
                        /\ \A d \in PutBack, k \in 1..(p - 1) :
                             Plan[k].onRestore = Load(d) =>
                               data'[d] \in LeftByLoad(d, span'[target'][d])
<1> SUFFICES Goal
  OBVIOUS
<1>1. /\ job' = job /\ Plan' = Plan /\ i \in 1..Len(Plan) /\ Len(Plan) \in Nat
      /\ FilesAt(job) \in 1..Len(Plan)
      /\ \A d \in PutBack : /\ d \in Protected /\ d \in Database /\ DumpTo[d] \in Path
                            /\ DumpTo[d] \in job.restores
  BY SameJob, StepAt, ProtectedPlan DEF TypeOK, PutBack
<1>2. mode' \in {"restore", "restored"}
  BY DEF Reached
<1>3. ~Fail
  BY <1>2 DEF Fail
<1>4. CASE UNCHANGED <<mode, i, target, repo, span, foreign, dumps, data>>
  <2>1. Reached("restore", p)
    BY <1>1, <1>4 DEF Reached
  <2> QED
    BY <1>4, <2>1 DEF LoadsFromSnapshot
<1>5. ASSUME Running, Continue
      PROVE  /\ mode = "restore" /\ p = i + 1
             /\ i > FilesAt(job) => target # 0
             /\ Own /\ i > FilesAt(job) => \A d \in PutBack : InPlace(d)
             /\ Own => \A d \in PutBack, k \in 1..(i - 1) : Plan[k].onRestore = Load(d) => Loads(d)
  <2>1. mode = "restore" /\ p = i + 1
    BY <1>1, <1>5, Advance
  <2>2. Reached("restore", i) /\ i \in Nat
    BY <1>1, <1>5, <2>1, RunningAt
  <2> QED
    BY <2>1, <2>2 DEF LoadsFromSnapshot
<1>6. ASSUME NEW d \in Database PROVE ~Change(d) /\ ~RunDump(d)
  <2>1. ~Change(d)
    BY <1>2 DEF Change
  <2>2. RunDump(d) => Running /\ Continue /\ Command = Dump(d)
    BY <1>3 DEF RunDump
  <2> QED
    BY <1>5, <2>1, <2>2, CommandAt
<1>7. ~Disaster /\ ~BeginBackup
  BY <1>2 DEF Disaster, BeginBackup
<1>8. ~BackupFiles
  <2>1. BackupFiles => mode = "backup" /\ Running /\ Continue
    BY <1>3 DEF BackupFiles, Running, Modes
  <2> QED
    BY <1>5, <2>1
<1>9. ASSUME NEW k \in 0..MaxBackups, BeginRestore(k) PROVE Goal
  <2>1. p = 1
    BY <1>2, <1>9 DEF BeginRestore, Reached
  <2> QED
    BY <1>1, <2>1
<1>16. CASE OtherBackup
  <2>1. Reached("restore", p)
    BY <1>1, <1>16 DEF OtherBackup, Reached
  <2>2. PICK s, u : repo' = Append(repo, s) /\ span' = Append(span, u)
    BY <1>16 DEF OtherBackup
  <2>3. /\ Len(repo) \in Nat /\ Len(span) = Len(repo) /\ repo \in Seq([Path -> Content])
        /\ span \in Seq([Database -> SUBSET Version]) /\ target' = target
        /\ foreign' = foreign \cup {Len(repo) + 1} /\ dumps' = dumps /\ data' = data
    BY <1>16 DEF OtherBackup, TypeOK
  <2>4. /\ DOMAIN repo' = 1..(Len(repo) + 1) /\ DOMAIN repo = 1..Len(repo)
        /\ \A k \in 1..Len(repo) : repo'[k] = repo[k] /\ span'[k] = span[k]
    BY <2>2, <2>3
  <2>5. target' \in DOMAIN repo' \ foreign' =>
          Own /\ repo'[target'] = repo[target] /\ span'[target'] = span[target]
    BY <2>3, <2>4
  <2>6. /\ p > FilesAt(job) => target # 0
        /\ Own => /\ p > FilesAt(job) => \A d \in PutBack : InPlace(d)
                  /\ \A d \in PutBack, k \in 1..(p - 1) :
                       Plan[k].onRestore = Load(d) => Loads(d)
    BY <2>1 DEF LoadsFromSnapshot
  <2> QED
    BY <2>3, <2>5, <2>6
<1>10. ASSUME Running, Continue, UNCHANGED <<target, repo, span, foreign, dumps, data>>,
              \A d : Command # Load(d), Command # Transfer
       PROVE  Goal
  <2>1. i # FilesAt(job)
    BY <1>10, TransferAt
  <2>2. mode = "restore" /\ p = i + 1
    BY <1>5, <1>10
  <2>3. \A d : Plan[i].onRestore # Load(d)
    BY <1>10, <2>2 DEF Command, Step
  <2>4. \A k \in 1..(p - 1) : k = i \/ k \in 1..(i - 1)
    BY <1>1, <2>2
  <2>5. p > FilesAt(job) => i > FilesAt(job)
    BY <1>1, <2>1, <2>2
  <2> QED
    BY <1>5, <1>10, <2>3, <2>4, <2>5
<1>11. ASSUME NEW e \in Database, RunLoad(e) PROVE Goal
  <2>1. /\ Running /\ Continue /\ Command = Load(e)
        /\ \/ data' = [data EXCEPT ![e] = Loaded(e)]
           \/ data' = [data EXCEPT ![e] = 0] /\ e \in Psql
        /\ UNCHANGED <<job, dumps, repo, target, span, foreign>> /\ DOMAIN data = Database
    BY <1>3, <1>11 DEF RunLoad, TypeOK
  <2>2. mode = "restore" /\ p = i + 1
    BY <1>5, <2>1
  <2>3. i > FilesAt(job) /\ Plan[i].onRestore = Load(e)
    BY <2>1, <2>2, CommandAt DEF Command, Step
  <2>4. Own /\ e \in PutBack => data'[e] \in LeftByLoad(e, span[target][e])
    <3> SUFFICES ASSUME Own, e \in PutBack PROVE data'[e] \in LeftByLoad(e, span[target][e])
      OBVIOUS
    <3>1. CASE data' = [data EXCEPT ![e] = Loaded(e)]
      <4>1. PICK v \in span[target][e] : repo[target][DumpTo[e]] = <<e, v>>
        BY <1>1 DEF Current
      <4>2. dumps[DumpTo[e]] = <<e, v>>
        BY <1>5, <2>1, <2>3, <4>1
      <4>3. Loaded(e) = v
        BY <4>2 DEF Loaded
      <4>4. data'[e] = v
        BY <2>1, <3>1, <4>3
      <4> QED
        BY <4>1, <4>4 DEF LeftByLoad
    <3>2. CASE data' = [data EXCEPT ![e] = 0] /\ e \in Psql
      BY <2>1, <3>2 DEF LeftByLoad
    <3> QED
      BY <2>1, <3>1, <3>2
  <2>5. ASSUME Own, NEW d \in PutBack, NEW k \in 1..(p - 1), Plan[k].onRestore = Load(d)
        PROVE  data'[d] \in LeftByLoad(d, span[target][d])
    <3>1. CASE d = e
      BY <2>4, <2>5, <3>1
    <3>2. CASE d # e
      <4>1. k # i
        BY <2>3, <2>5, <3>2 DEF Load
      <4>2. k \in 1..(i - 1)
        BY <1>1, <2>2, <2>5, <4>1
      <4>3. Loads(d) /\ data'[d] = data[d]
        BY <1>1, <1>5, <2>1, <2>5, <3>2, <4>2
      <4> QED
        BY <4>3
    <3> QED
      BY <3>1, <3>2
  <2>6. target # 0 /\ (Own => \A d \in PutBack : dumps'[DumpTo[d]] = repo'[target'][DumpTo[d]])
    BY <1>5, <2>1, <2>3
  <2> QED
    BY <2>1, <2>5, <2>6
<1>12. CASE RestoreFiles
  <2>1. /\ mode = "restore" /\ Running /\ Continue /\ Command = Transfer /\ target # 0
        /\ dumps' = Restored(job.restores) /\ UNCHANGED <<data, repo, target, span, foreign>>
    BY <1>3, <1>12 DEF RestoreFiles, Running, Modes
  <2>2. i = FilesAt(job) /\ p = i + 1
    BY <1>5, <2>1, TransferAt
  <2>3. ASSUME Own, NEW d \in PutBack PROVE dumps'[DumpTo[d]] = repo[target][DumpTo[d]]
    <3>1. PICK v \in span[target][d] : repo[target][DumpTo[d]] = <<d, v>>
      BY <1>1, <2>3 DEF Current
    <3>2. repo[target][DumpTo[d]] # Missing
      BY <3>1 DEF Missing
    <3> QED
      BY <1>1, <2>1, <3>2 DEF Restored
  <2>4. ASSUME NEW d \in PutBack, NEW k \in 1..(p - 1) PROVE Plan[k].onRestore # Load(d)
    <3>1. CASE k = FilesAt(job)
      BY <2>2, <3>1, StepAt DEF Step, FilesStep, Transfer, Load
    <3>2. CASE k # FilesAt(job)
      <4>1. k \in 1..(FilesAt(job) - 1)
        BY <1>1, <2>2, <2>4, <3>2
      <4>2. Plan[k] \in PreSteps(job)
        BY <4>1, PlanTypes, PlanOrder DEF Plan, TypeOK
      <4> QED
        BY <4>2, PreCommands
    <3> QED
      BY <3>1, <3>2
  <2> QED
    BY <2>1, <2>3, <2>4
<1>13. ASSUME NEW t \in ToSet(job.tasks), RunScript(t.name) PROVE Goal
  <2>1. Running /\ Continue /\ UNCHANGED <<target, repo, span, foreign, dumps, data>>
    BY <1>3, <1>13 DEF RunScript
  <2>2. Command = Run("pre", t.name) \/ Command = Run("post", t.name)
    BY <1>3, <1>13 DEF RunScript
  <2>3. (\A d : Command # Load(d)) /\ Command # Transfer
    BY <2>2 DEF Run, Load, Transfer
  <2> QED
    BY <1>10, <2>1, <2>3
<1>14. CASE DoNothing
  <2>1. /\ Running /\ Continue /\ Command = Nothing
        /\ UNCHANGED <<target, repo, span, foreign, dumps, data>>
    BY <1>14 DEF DoNothing
  <2>2. (\A d : Command # Load(d)) /\ Command # Transfer
    BY <2>1 DEF Nothing, Load, Transfer
  <2> QED
    BY <1>10, <2>1, <2>2
<1>15. CASE UNCHANGED vars
  BY <1>4, <1>15 DEF vars
<1> HIDE DEF Goal
<1> QED
  BY <1>6, <1>7, <1>8, <1>9, <1>11, <1>12, <1>13, <1>14, <1>15, <1>16 DEF Next

-------------------------------------------------------------------------------
(* One step further: what the step's own script did, if it has one, and    *)
(* nothing undone, for the scripts of the other side come elsewhere.       *)
LEMMA ScriptsAdvance ==
  ASSUME TypeOK, ScriptsDid, Running, Continue, [Next]_vars,
         \A n \in STRING : /\ Command = Run("pre", n)  => n \in down'
                           /\ Command = Run("post", n) => n \notin down'
                           /\ n \in down /\ Command # Run("post", n) => n \in down'
                           /\ n \notin down /\ Command # Run("pre", n) => n \notin down'
  PROVE  ScriptsDid'
<1>1. /\ job' = job /\ Plan' = Plan /\ i \in 1..Len(Plan) /\ Len(Plan) \in Nat
      /\ FilesAt(job) \in 1..Len(Plan)
  BY SameJob, StepAt
<1>2. \A m, k : CommandOf(m, k)' = CommandOf(m, k)
  BY <1>1 DEF CommandOf
<1>3. CommandOf(mode, i) = Command
  BY DEF CommandOf, Command, Step
<1>4. ASSUME NEW m \in Modes, NEW p \in Nat, Reached(m, p)'
      PROVE  /\ p <= FilesAt(job) => \A n \in STRING, k \in 1..(p - 1) :
                  CommandOf(m, k) = Run("pre", n) => n \in down'
             /\ \A n \in STRING, k \in (FilesAt(job) + 1)..(p - 1) :
                  CommandOf(m, k) = Run("post", n) => n \notin down'
  <2>1. m = mode /\ p = i + 1
    BY <1>1, <1>4, Advance
  <2>2. /\ i <= FilesAt(job) => \A n \in STRING, k \in 1..(i - 1) :
             CommandOf(mode, k) = Run("pre", n) => n \in down
        /\ \A n \in STRING, k \in (FilesAt(job) + 1)..(i - 1) :
             CommandOf(mode, k) = Run("post", n) => n \notin down
    BY <1>1, RunningAt DEF ScriptsDid
  <2>3. ASSUME p <= FilesAt(job), NEW n \in STRING, NEW k \in 1..(p - 1),
               CommandOf(mode, k) = Run("pre", n)
        PROVE  n \in down'
    <3>1. i < FilesAt(job)
      BY <1>1, <2>1, <2>3
    <3>2. Command # Run("post", n)
      BY <3>1, StepAt, PreCommands DEF Command
    <3>3. CASE k = i
      BY <1>3, <2>3, <3>3
    <3>4. CASE k # i
      <4>1. k \in 1..(i - 1)
        BY <1>1, <2>1, <2>3, <3>4
      <4>2. n \in down
        BY <1>1, <2>2, <2>3, <3>1, <4>1
      <4> QED
        BY <3>2, <4>2
    <3> QED
      BY <3>3, <3>4
  <2>4. ASSUME NEW n \in STRING, NEW k \in (FilesAt(job) + 1)..(p - 1),
               CommandOf(mode, k) = Run("post", n)
        PROVE  n \notin down'
    <3>1. i > FilesAt(job)
      BY <1>1, <2>1, <2>4
    <3>2. Command # Run("pre", n)
      BY <3>1, StepAt, PostCommands DEF Command
    <3>3. CASE k = i
      BY <1>3, <2>4, <3>3
    <3>4. CASE k # i
      <4>1. k \in (FilesAt(job) + 1)..(i - 1)
        BY <1>1, <2>1, <2>4, <3>4
      <4>2. n \notin down
        BY <2>2, <2>4, <4>1
      <4> QED
        BY <3>2, <4>2
    <3> QED
      BY <3>3, <3>4
  <2> QED
    BY <2>1, <2>3, <2>4
<1>5. FilesAt(job)' = FilesAt(job)
  BY <1>1
<1> QED
  BY <1>1, <1>2, <1>4, <1>5 DEF ScriptsDid

(* What the scripts did holds on: only scripts take tasks down and up,     *)
(* and a run that begins has none behind it.                                *)
LEMMA NextScripts == TypeOK /\ ScriptsDid /\ [Next]_vars => ScriptsDid'
<1> SUFFICES ASSUME TypeOK, ScriptsDid, [Next]_vars PROVE ScriptsDid'
  OBVIOUS
<1>1. /\ job' = job /\ Plan' = Plan /\ i \in 1..Len(Plan) /\ Len(Plan) \in Nat
      /\ FilesAt(job) \in 1..Len(Plan)
  BY SameJob, StepAt
<1>2. CASE UNCHANGED <<mode, i, down>>
  <2>1. \A m, p : Reached(m, p)' <=> Reached(m, p)
    BY <1>1, <1>2 DEF Reached
  <2>2. \A m, k : CommandOf(m, k)' = CommandOf(m, k)
    BY <1>1 DEF CommandOf
  <2>3. FilesAt(job)' = FilesAt(job)
    BY <1>1
  <2> QED
    BY <1>1, <1>2, <2>1, <2>2, <2>3 DEF ScriptsDid
<1>3. CASE Fail
  <2>1. \A m, p : ~Reached(m, p)'
    BY <1>3 DEF Fail, Reached, Modes
  <2> QED
    BY <2>1 DEF ScriptsDid
<1>4. CASE mode' \in Modes /\ i' = 1
  <2>1. \A m, p : Reached(m, p)' => p = 1
    BY <1>4 DEF Reached, Modes
  <2>2. FilesAt(job)' \in Nat
    BY <1>1
  <2> QED
    BY <2>1, <2>2 DEF ScriptsDid
<1>5. CASE /\ Running /\ Continue /\ down' = down
           /\ \A n : Command # Run("pre", n) /\ Command # Run("post", n)
  BY <1>5, ScriptsAdvance
<1>6. ASSUME NEW d \in Database, Change(d) \/ RunDump(d) \/ RunLoad(d) PROVE ScriptsDid'
  <2>1. CASE Change(d)
    BY <1>2, <2>1 DEF Change
  <2>2. CASE RunDump(d) \/ RunLoad(d)
    <3>1. Running /\ down' = down /\ (Continue \/ Fail) /\ Command \in {Dump(d), Load(d)}
      BY <2>2 DEF RunDump, RunLoad
    <3>2. \A n : Command # Run("pre", n) /\ Command # Run("post", n)
      BY <3>1 DEF Dump, Load, Run
    <3> QED
      BY <1>3, <1>5, <3>1, <3>2
  <2> QED
    BY <1>6, <2>1, <2>2
<1>7. CASE Disaster
  BY <1>2, <1>7 DEF Disaster
<1>14. CASE mode' = "idle"
  <2>1. \A m, p : ~Reached(m, p)'
    BY <1>14 DEF Reached, Modes
  <2> QED
    BY <2>1 DEF ScriptsDid
<1>15. CASE OtherBackup
  BY <1>2, <1>15 DEF OtherBackup
<1>8. CASE BeginBackup
  BY <1>4, <1>8, <1>14 DEF BeginBackup, Modes
<1>9. ASSUME NEW k \in 0..MaxBackups, BeginRestore(k) PROVE ScriptsDid'
  BY <1>4, <1>9, <1>14 DEF BeginRestore, Modes
<1>10. ASSUME NEW t \in ToSet(job.tasks), RunScript(t.name) PROVE ScriptsDid'
  <2> DEFINE n0 == t.name
  <2>1. Running
    BY <1>10 DEF RunScript
  <2>2. \/ Fail
        \/ Command = Run("pre", n0) /\ down' = down \cup {n0} /\ Continue
        \/ Command = Run("post", n0) /\ down' = down \ {n0} /\ Continue
    BY <1>10 DEF RunScript
  <2> HIDE DEF n0
  <2>3. \A n : /\ Run("pre", n) # Run("post", n0) /\ Run("post", n) # Run("pre", n0)
               /\ Run("pre", n) = Run("pre", n0) => n = n0
               /\ Run("post", n) = Run("post", n0) => n = n0
    BY DEF Run
  <2>4. CASE Command = Run("pre", n0) /\ down' = down \cup {n0} /\ Continue
    <3>1. \A n \in STRING : /\ Command = Run("pre", n)  => n \in down'
                            /\ Command = Run("post", n) => n \notin down'
                            /\ n \in down /\ Command # Run("post", n) => n \in down'
                            /\ n \notin down /\ Command # Run("pre", n) => n \notin down'
      BY <2>3, <2>4
    <3> QED
      BY <2>1, <2>4, <3>1, ScriptsAdvance
  <2>5. CASE Command = Run("post", n0) /\ down' = down \ {n0} /\ Continue
    <3>1. \A n \in STRING : /\ Command = Run("pre", n)  => n \in down'
                            /\ Command = Run("post", n) => n \notin down'
                            /\ n \in down /\ Command # Run("post", n) => n \in down'
                            /\ n \notin down /\ Command # Run("pre", n) => n \notin down'
      BY <2>3, <2>5
    <3> QED
      BY <2>1, <2>5, <3>1, ScriptsAdvance
  <2> QED
    BY <1>3, <2>2, <2>4, <2>5
<1>11. CASE DoNothing
  <2>1. Running /\ Continue /\ down' = down /\ Command = Nothing
    BY <1>11 DEF DoNothing
  <2>2. \A n : Command # Run("pre", n) /\ Command # Run("post", n)
    BY <2>1 DEF Nothing, Run
  <2> QED
    BY <1>5, <2>1, <2>2
<1>12. CASE BackupFiles \/ RestoreFiles
  <2>1. Running /\ (Continue \/ Fail) /\ down' = down /\ Command = Transfer
    BY <1>12 DEF BackupFiles, RestoreFiles, Running, Modes
  <2>2. \A n : Command # Run("pre", n) /\ Command # Run("post", n)
    BY <2>1 DEF Transfer, Run
  <2> QED
    BY <1>3, <1>5, <2>1, <2>2
<1>13. CASE UNCHANGED vars
  BY <1>2, <1>13 DEF vars
<1> QED
  BY <1>6, <1>7, <1>8, <1>9, <1>10, <1>11, <1>12, <1>13, <1>15 DEF Next

-------------------------------------------------------------------------------
(* The inductive invariant. *)
RInv ==
  TypeOK /\ DumpsAreCurrent /\ Current /\ LoadsFromSnapshot /\ ScriptsDid

(* It holds at the start, when nothing is running and nothing saved. *)
LEMMA InitRInv == Init => RInv
<1> SUFFICES ASSUME Init PROVE RInv
  OBVIOUS
<1>1. mode = "idle" /\ repo = <<>>
  BY DEF Init
<1>2. \A m, p : ~Reached(m, p)
  BY <1>1 DEF Reached, Modes
<1> QED
  BY <1>1, <1>2, InitTypeOK
     DEF RInv, DumpsAreCurrent, Current, LoadsFromSnapshot, ScriptsDid

(* Every step of every run, and everything the world does, preserves it. *)
LEMMA NextRInv == RInv /\ [Next]_vars => RInv'
  BY NextTypeOK, NextDumps, NextCurrent, NextLoads, NextScripts DEF RInv

(* However runs succeed and fail, databases change and are lost, and        *)
(* snapshots are restored, the state stays within what RInv says.           *)
THEOREM RecoveryInvariance == Spec => []RInv
<1> QED
  BY InitRInv, NextRInv, PTL DEF Spec

(* Databases, dump files, snapshots and the loop over AllTasks keep their   *)
(* types, for any job file and any number of backups.                       *)
THEOREM RecoveryTypeCorrect == Spec => []TypeOK
<1>1. RInv => TypeOK
  BY DEF RInv
<1> QED
  BY <1>1, RecoveryInvariance, PTL

(* A snapshot never holds an old dump of a database that the job dumps and  *)
(* whose file it backs up: for every job that Validate accepts.             *)
THEOREM SnapshotsAreCurrentHolds == Spec => []SnapshotsAreCurrent
<1>1. RInv => SnapshotsAreCurrent
  BY DEF RInv, Current, SnapshotsAreCurrent
<1> QED
  BY <1>1, RecoveryInvariance, PTL

(* A restore that reports success had a snapshot; of one that the job made, *)
(* every such database whose dump it put back is in a state it had during   *)
(* the backup, whatever was on the machine before, or is a postgres         *)
(* database whose load went wrong unseen.                                   *)
THEOREM RestoreBringsBackHolds == Spec => []RestoreBringsBack
<1>1. RInv => RestoreBringsBack
  <2>1. RInv => Len(Plan) \in Nat /\ job \in Config /\ FilesAt(job) \in 1..Len(Plan)
    BY PlanTypes DEF RInv, TypeOK
  <2>2. mode = "restored" => Reached("restore", Len(Plan) + 1)
    BY DEF Reached
  <2>6. ASSUME RInv, mode = "restored" PROVE target \in DOMAIN repo
    <3>1. target # 0 /\ target \in 0..Len(repo) /\ repo \in Seq([Path -> Content])
      BY <2>1, <2>2, <2>6 DEF RInv, TypeOK, LoadsFromSnapshot
    <3> QED
      BY <3>1
  <2> SUFFICES ASSUME RInv, mode = "restored", target \in DOMAIN repo, target \notin foreign,
                      NEW d \in Protected, DumpTo[d] \in job.restores
               PROVE  data[d] \in LeftByLoad(d, span[target][d])
    BY <2>6 DEF RestoreBringsBack
  <2>3. PICK k \in (FilesAt(job) + 1)..Len(Plan) : Plan[k].onRestore = Load(d)
    BY <2>1, ProtectedPlan
  <2>4. k \in 1..((Len(Plan) + 1) - 1)
    BY <2>1, <2>3, PlanTypes
  <2>5. \A p \in Nat : Reached("restore", p) => \A e \in PutBack, l \in 1..(p - 1) :
          Plan[l].onRestore = Load(e) => data[e] \in LeftByLoad(e, span[target][e])
    BY DEF RInv, LoadsFromSnapshot
  <2>7. d \in PutBack
    BY DEF PutBack
  <2> QED
    BY <2>1, <2>2, <2>3, <2>4, <2>5, <2>7
<1> QED
  BY <1>1, RecoveryInvariance, PTL

(* The files are saved, or put back, only when every task with a script to  *)
(* run before has run it.                                                   *)
THEOREM FilesWhileDownHolds == Spec => []FilesWhileDown
<1>1. RInv => FilesWhileDown
  <2> SUFFICES ASSUME RInv, Running, Command = Transfer, NEW t \in ToSet(job.tasks),
                      HasScript(t.pre, mode)
               PROVE  t.name \in down
    BY DEF FilesWhileDown
  <2>1. i = FilesAt(job) /\ i \in Nat /\ mode \in Modes /\ job \in Config
    BY TransferAt, StepAt DEF RInv, Running, TypeOK
  <2>2. PICK s \in ToSet(t.pre) : mode \in s
    BY DEF HasScript
  <2>3. t.name \in STRING
    BY <2>1, TaskNames
  <2>4. ScriptStep("pre", t.name, s) \in PreSteps(job)
    BY <2>2 DEF PreSteps, PreOf
  <2>5. PICK k \in 1..(FilesAt(job) - 1) : Plan[k] = ScriptStep("pre", t.name, s)
    BY <2>1, <2>4, PlanTypes, PlanOrder DEF Plan
  <2>6. CommandOf(mode, k) = Run("pre", t.name)
    BY <2>1, <2>2, <2>5 DEF CommandOf, ScriptStep, Modes
  <2>7. Reached(mode, i)
    BY RunningAt
  <2>8. \A n \in STRING, l \in 1..(i - 1) : CommandOf(mode, l) = Run("pre", n) => n \in down
    BY <2>1, <2>7 DEF RInv, ScriptsDid
  <2> QED
    BY <2>1, <2>3, <2>5, <2>6, <2>8
<1> QED
  BY <1>1, RecoveryInvariance, PTL

(* After a run that succeeded every task with a script to run after the     *)
(* files has run it, those included that an earlier run left down.          *)
THEOREM UpAfterSuccessHolds == Spec => []UpAfterSuccess
<1>1. RInv => UpAfterSuccess
  <2> SUFFICES ASSUME RInv, NEW t \in ToSet(job.tasks), NEW m \in Modes,
                      mode = (IF m = "backup" THEN "saved" ELSE "restored"),
                      HasScript(t.post, m)
               PROVE  t.name \notin down
    BY DEF UpAfterSuccess
  <2>1. job \in Config /\ Len(Plan) \in Nat /\ Len(Plan) + 1 \in Nat
    BY PlanTypes DEF RInv, TypeOK
  <2>2. Reached(m, Len(Plan) + 1)
    BY DEF Reached, Modes
  <2>3. PICK s \in ToSet(t.post) : m \in s
    BY DEF HasScript
  <2>4. t.name \in STRING
    BY <2>1, TaskNames
  <2>5. ScriptStep("post", t.name, s) \in PostSteps(job)
    BY <2>3 DEF PostSteps, PostOf
  <2>6. PICK k \in (FilesAt(job) + 1)..Len(Plan) : Plan[k] = ScriptStep("post", t.name, s)
    BY <2>1, <2>5, PlanTypes, PlanOrder DEF Plan
  <2>7. CommandOf(m, k) = Run("post", t.name)
    BY <2>3, <2>6 DEF CommandOf, ScriptStep, Modes
  <2>8. k \in (FilesAt(job) + 1)..((Len(Plan) + 1) - 1)
    BY <2>1, <2>6
  <2> QED
    BY <2>1, <2>2, <2>4, <2>7, <2>8 DEF RInv, ScriptsDid
<1> QED
  BY <1>1, RecoveryInvariance, PTL

(* No step of a backup, nor anything meanwhile, takes a database back: a    *)
(* plan has loads, but none for a backup.                                   *)
THEOREM BackupReadsOnlyHolds == Spec => BackupReadsOnly
<1>1. RInv /\ [Next]_vars =>
        [mode = "backup" => \A d \in Database : data'[d] >= data[d]]_vars
  <2> SUFFICES ASSUME RInv, [Next]_vars, mode = "backup", NEW d \in Database
               PROVE  data'[d] >= data[d]
    OBVIOUS
  <2>1. TypeOK /\ data[d] \in Nat /\ DOMAIN data = Database
    BY DEF RInv, TypeOK, Version
  <2>2. CASE data' = data
    BY <2>1, <2>2
  <2>3. ASSUME NEW e \in Database, Change(e) PROVE data'[d] >= data[d]
    BY <2>1, <2>3 DEF Change
  <2>4. ASSUME NEW e \in Database PROVE ~RunLoad(e)
    BY <2>1, CommandAt DEF RunLoad
  <2>5. ~Disaster
    BY DEF Disaster
  <2> QED
    BY <2>2, <2>3, <2>4, <2>5
       DEF Next, vars, RunDump, OtherBackup, BeginBackup, BeginRestore, RunScript, DoNothing, BackupFiles,
           RestoreFiles
<1> QED
  BY <1>1, RecoveryInvariance, PTL DEF Spec, BackupReadsOnly
===============================================================================
