----------------------------- MODULE ConfigProofs -----------------------------
(***************************************************************************)
(* Proofs about Config, for any job files, any jobs in them and any edits. *)
(***************************************************************************)
EXTENDS Config, DataProofs, TLAPS

(* The jobs read so far, and those last returned, are valid. *)
AllValid(js) == \A n \in DOMAIN js : Validate(js[n])

CInv ==
  /\ TypeOK
  /\ AllValid(allJobs)
  /\ AllValid(jobs)

-------------------------------------------------------------------------------
(* Appending the jobs of a file to those read before (ReadJobs's append).    *)
LEMMA ValidConcat ==
  ASSUME NEW s \in Seq(Job), NEW t \in Seq(Job), AllValid(s), AllValid(t)
  PROVE  s \o t \in Seq(Job) /\ AllValid(s \o t)
<1>1. s \o t \in Seq(Job)
  OBVIOUS
<1>2. ASSUME NEW n \in DOMAIN (s \o t) PROVE Validate((s \o t)[n])
  <2>1. CASE n <= Len(s)
    <3>1. n \in DOMAIN s /\ (s \o t)[n] = s[n]
      BY <1>2, <2>1
    <3> QED
      BY <3>1 DEF AllValid
  <2>2. CASE n > Len(s)
    <3>1. n - Len(s) \in DOMAIN t /\ (s \o t)[n] = t[n - Len(s)]
      BY <1>2, <2>2
    <3> QED
      BY <3>1 DEF AllValid
  <2> QED
    BY <1>2, <2>1, <2>2
<1> QED
  BY <1>1, <1>2 DEF AllValid

(* ParseConfig refuses a file with an invalid job. *)
LEMMA AcceptedAreValid ==
  ASSUME NEW f \in Files, ~Refuses(f)
  PROVE  f.jobs \in Seq(Job) /\ AllValid(f.jobs)
<1>1. f.jobs \in Seq(Job)
  BY ConfigAssumption DEF FileContent
<1>2. \A n \in DOMAIN f.jobs : f.jobs[n] \in ToSet(f.jobs)
  BY DEF ToSet
<1> QED
  BY <1>1, <1>2 DEF Refuses, AllValid

(* main begins with no jobs. *)
LEMMA InitCInv == Init => CInv
<1> SUFFICES ASSUME Init PROVE CInv
  OBVIOUS
<1>1. 1 \in 1..Len(Paths)
  BY ConfigAssumption
<1> QED
  BY <1>1, ConfigAssumption DEF Init, CInv, TypeOK, AllValid

(* Reading a file, reading again and editing preserve the invariant. *)
LEMMA NextCInv == CInv /\ [Next]_vars => CInv'
<1> SUFFICES ASSUME CInv, [Next]_vars PROVE CInv'
  OBVIOUS
<1>1. CASE ReadFile
  <2> DEFINE f == disk[Paths[next]]
  <2>1. Len(Paths) \in Nat /\ next \in 1..Len(Paths) /\ Paths[next] \in ToSet(Paths)
    BY ConfigAssumption DEF CInv, TypeOK, ToSet
  <2>2. f \in Files
    BY <2>1 DEF CInv, TypeOK
  <2>3. seen' \in Seq(Files)
    BY <1>1, <2>2 DEF ReadFile, CInv, TypeOK
  <2>4. disk' = disk /\ edits' = edits
    BY <1>1 DEF ReadFile
  <2>5. CASE Refuses(f)
    <3>1. Return("error", jobs)
      BY <1>1, <2>5 DEF ReadFile
    <3> QED
      BY <2>1, <2>3, <2>4, <3>1 DEF Return, CInv, TypeOK, AllValid
  <2>6. CASE ~Refuses(f)
    <3>1. /\ allJobs \o f.jobs \in Seq(Job) /\ AllValid(allJobs \o f.jobs)
      BY <2>2, <2>6, AcceptedAreValid, ValidConcat DEF CInv, TypeOK
    <3>2. CASE ~IsLast(f)
      <4>1. /\ next' = next + 1 /\ allJobs' = allJobs \o f.jobs
            /\ result' = result /\ jobs' = jobs
        BY <1>1, <2>6, <3>2 DEF ReadFile
      <4>2. next' \in 1..Len(Paths)
        BY <2>1, <3>2, <4>1 DEF IsLast
      <4> QED
        BY <2>3, <2>4, <3>1, <4>1, <4>2 DEF CInv, TypeOK, AllValid
    <3>3. CASE IsLast(f)
      <4>1. Return("error", jobs) \/ Return("ok", allJobs \o f.jobs)
        BY <1>1, <2>6, <3>3 DEF ReadFile
      <4>2. /\ next' = 1 /\ allJobs' = <<>>
            /\ result' \in {"ok", "error"}
            /\ jobs' \in {jobs, allJobs \o f.jobs}
        BY <4>1 DEF Return
      <4>3. jobs' \in Seq(Job) /\ AllValid(jobs')
        BY <3>1, <4>2 DEF CInv, TypeOK
      <4>4. allJobs' \in Seq(Job) /\ AllValid(allJobs')
        BY <4>2 DEF AllValid
      <4>5. TypeOK'
        BY <2>1, <2>3, <2>4, <4>2, <4>3, <4>4 DEF CInv, TypeOK
      <4> QED
        BY <4>3, <4>4, <4>5 DEF CInv, AllValid
    <3> QED
      BY <3>2, <3>3
  <2> QED
    BY <2>5, <2>6
<1>2. CASE ReadAgain
  BY <1>2 DEF ReadAgain, CInv, TypeOK, AllValid
<1>3. ASSUME NEW p \in ToSet(Paths), NEW f \in Files, Edit(p, f) PROVE CInv'
  <2>1. edits' \in 0..MaxEdits
    BY <1>3, ConfigAssumption DEF Edit, CInv, TypeOK
  <2>2. disk' \in [ToSet(Paths) -> Files]
    BY <1>3 DEF Edit, CInv, TypeOK
  <2> QED
    BY <1>3, <2>1, <2>2 DEF Edit, CInv, TypeOK, AllValid
<1>4. CASE UNCHANGED vars
  BY <1>4 DEF vars, CInv, TypeOK, AllValid
<1> QED
  BY <1>1, <1>2, <1>3, <1>4 DEF Next

(* What ReadJobs has read, and what main goes on with, is valid all the way, *)
(* in every state between two files.                                         *)
THEOREM ConfigInvariance == Spec => []CInv
<1> QED
  BY InitCInv, NextCInv, PTL DEF Spec

(* The reader's position, the jobs and what it has seen keep their types,    *)
(* for any number of files and edits.                                        *)
THEOREM ConfigTypeCorrect == Spec => []TypeOK
<1>1. CInv => TypeOK
  BY DEF CInv
<1> QED
  BY <1>1, ConfigInvariance, PTL

(* Whatever is in the files and whenever they change, ReadJobs returns no    *)
(* job without a restic config or with a schedule that does not parse.       *)
THEOREM JobsAreRunnableHolds == Spec => []JobsAreRunnable
<1>1. CInv => JobsAreRunnable
  BY DEF CInv, AllValid, Validate, JobsAreRunnable, ToSet
<1> QED
  BY <1>1, ConfigInvariance, PTL

-------------------------------------------------------------------------------
(* The jobs of the files read, file by file. *)
JobsOf(fs) == [k \in DOMAIN fs |-> fs[k].jobs]

(* What ReadJobs has gathered between two files is all of the files before, *)
(* and when it has returned it is ready for the next SIGHUP.                *)
Gathered ==
  IF result = "reading"
    THEN Len(seen) = next - 1 /\ allJobs = FlattenSeq(JobsOf(seen))
    ELSE next = 1 /\ allJobs = <<>> /\ ReadingIsComplete

RInv == CInv /\ Gathered

(* The jobs of one file more. *)
LEMMA JobsOfAppend ==
  ASSUME NEW fs \in Seq(Files), NEW f \in Files
  PROVE  /\ JobsOf(fs) \in Seq(Seq(Job))
         /\ f.jobs \in Seq(Job)
         /\ JobsOf(Append(fs, f)) = Append(JobsOf(fs), f.jobs)
         /\ FlattenSeq(JobsOf(Append(fs, f))) = FlattenSeq(JobsOf(fs)) \o f.jobs
<1>1. \A g \in Files : g.jobs \in Seq(Job)
  BY ConfigAssumption DEF FileContent
<1>2. JobsOf(fs) \in Seq(Seq(Job))
  BY <1>1 DEF JobsOf
<1>3. JobsOf(Append(fs, f)) = Append(JobsOf(fs), f.jobs)
  <2> DEFINE n == Len(fs)
             a == JobsOf(Append(fs, f))
             b == Append(JobsOf(fs), f.jobs)
  <2>1. n \in Nat /\ DOMAIN fs = 1..n /\ DOMAIN Append(fs, f) = 1..(n + 1)
    OBVIOUS
  <2>2. Len(JobsOf(fs)) = n
    BY <2>1 DEF JobsOf
  <2>3. DOMAIN a = 1..(n + 1) /\ DOMAIN b = 1..(n + 1)
    BY <1>2, <2>1, <2>2 DEF JobsOf
  <2>4. \A k \in 1..(n + 1) : a[k] = b[k]
    BY <1>2, <2>1, <2>2 DEF JobsOf
  <2>5. a \in Seq(Seq(Job)) /\ b \in Seq(Seq(Job))
    BY <1>1, <1>2, <2>1 DEF JobsOf
  <2>6. Len(a) = n + 1 /\ Len(b) = n + 1
    BY <2>1, <2>3, <2>5
  <2> HIDE DEF a, b
  <2> QED
    BY <2>4, <2>5, <2>6 DEF a, b
<1>4. f.jobs \in Seq(Job)
  BY <1>1
<1> QED
  BY <1>2, <1>3, <1>4, FlattenAppend

(* Files that give no job at all are files without jobs. *)
LEMMA NoJobsAtAll ==
  ASSUME NEW fs \in Seq(Files), FlattenSeq(JobsOf(fs)) = <<>>
  PROVE  \A f \in ToSet(fs) : f.jobs = <<>>
<1> SUFFICES ASSUME NEW k \in DOMAIN fs, fs[k].jobs # <<>> PROVE FALSE
  BY DEF ToSet
<1>1. \A g \in Files : g.jobs \in Seq(Job)
  BY ConfigAssumption DEF FileContent
<1>2. JobsOf(fs) \in Seq(Seq(Job)) /\ k \in DOMAIN JobsOf(fs) /\ JobsOf(fs)[k] = fs[k].jobs
  BY <1>1 DEF JobsOf
<1>3. fs[k].jobs \in Seq(Job)
  BY <1>1
<1>4. fs[k].jobs[1] \in ToSet(fs[k].jobs)
  BY <1>3 DEF ToSet
<1>5. fs[k].jobs[1] \in ToSet(FlattenSeq(JobsOf(fs)))
  BY <1>2, <1>4, FlattenMembers
<1>6. ToSet(<<>>) = {}
  BY DEF ToSet
<1> QED
  BY <1>5, <1>6

(* At the start nothing has been read. *)
LEMMA InitRInv == Init => RInv
<1> SUFFICES ASSUME Init PROVE RInv
  OBVIOUS
<1>1. JobsOf(<<>>) = <<>>
  BY DEF JobsOf
<1>2. Gathered
  BY <1>1, FlattenEmpty DEF Init, Gathered
<1> QED
  BY <1>2, InitCInv DEF RInv

(* A file read is one more gathered, or the end of the reading. *)
LEMMA ReadFileGathers == RInv /\ ReadFile => Gathered'
<1> SUFFICES ASSUME RInv, ReadFile PROVE Gathered'
  OBVIOUS
<1> DEFINE f == disk[Paths[next]]
<1>1. /\ Len(Paths) \in Nat /\ next \in 1..Len(Paths) /\ f \in Files
      /\ seen \in Seq(Files) /\ Len(seen) = next - 1
      /\ allJobs = FlattenSeq(JobsOf(seen))
      /\ result = "reading" /\ seen' = Append(seen, f)
  BY ConfigAssumption DEF RInv, CInv, TypeOK, Gathered, ReadFile, ToSet
<1>2. seen' \in Seq(Files) /\ Len(seen') = next /\ f \in ToSet(seen')
  <2>1. seen' \in Seq(Files) /\ Len(seen') = next /\ seen'[next] = f
    BY <1>1
  <2>2. next \in DOMAIN seen'
    BY <1>1, <2>1
  <2> QED
    BY <2>1, <2>2 DEF ToSet
<1>3. FlattenSeq(JobsOf(seen')) = allJobs \o f.jobs
  BY <1>1, JobsOfAppend
<1>4. CASE Refuses(f)
  <2>1. Return("error", jobs)
    BY <1>4 DEF ReadFile
  <2>2. result' = "error" /\ next' = 1 /\ allJobs' = <<>>
    BY <2>1 DEF Return
  <2>3. \E g \in ToSet(seen') : ~g.decodes \/ \E j \in ToSet(g.jobs) : ~Validate(j)
    BY <1>2, <1>4 DEF Refuses
  <2> QED
    BY <2>2, <2>3 DEF Gathered, ReadingIsComplete
<1>5. CASE ~Refuses(f) /\ ~IsLast(f)
  <2>1. next' = next + 1 /\ allJobs' = allJobs \o f.jobs /\ result' = result
    BY <1>5 DEF ReadFile
  <2> QED
    BY <1>1, <1>2, <1>3, <2>1 DEF Gathered
<1>6. CASE ~Refuses(f) /\ IsLast(f)
  <2>1. Len(seen') = Len(Paths)
    BY <1>2, <1>6 DEF IsLast
  <2>2. CASE allJobs \o f.jobs = <<>>
    <3>1. Return("error", jobs)
      BY <1>6, <2>2 DEF ReadFile
    <3>2. \A g \in ToSet(seen') : g.jobs = <<>>
      BY <1>2, <1>3, <2>2, NoJobsAtAll
    <3>3. result' = "error" /\ next' = 1 /\ allJobs' = <<>>
      BY <3>1 DEF Return
    <3> QED
      BY <2>1, <3>2, <3>3 DEF Gathered, ReadingIsComplete
  <2>3. CASE allJobs \o f.jobs # <<>>
    <3>1. Return("ok", allJobs \o f.jobs)
      BY <1>6, <2>3 DEF ReadFile
    <3>2. /\ result' = "ok" /\ next' = 1 /\ allJobs' = <<>>
          /\ jobs' = FlattenSeq(JobsOf(seen'))
      BY <1>3, <3>1 DEF Return
    <3> QED
      BY <2>1, <3>2 DEF Gathered, ReadingIsComplete, JobsOf
  <2> QED
    BY <2>2, <2>3
<1> QED
  BY <1>4, <1>5, <1>6

(* And so do the other steps preserve it: an edit touches only the disk. *)
LEMMA NextRInv == RInv /\ [Next]_vars => RInv'
<1> SUFFICES ASSUME RInv, [Next]_vars PROVE RInv'
  OBVIOUS
<1>1. CInv'
  BY NextCInv DEF RInv
<1>2. CASE ReadFile
  BY <1>1, <1>2, ReadFileGathers DEF RInv
<1>3. CASE ReadAgain
  <2>1. JobsOf(<<>>) = <<>>
    BY DEF JobsOf
  <2>2. Gathered'
    BY <1>3, <2>1, FlattenEmpty DEF RInv, Gathered, ReadAgain
  <2> QED
    BY <1>1, <2>2 DEF RInv
<1>4. CASE UNCHANGED <<next, allJobs, result, jobs, seen>>
  BY <1>1, <1>4 DEF RInv, Gathered, ReadingIsComplete
<1>5. ASSUME NEW p \in ToSet(Paths), NEW f \in Files, Edit(p, f) PROVE RInv'
  BY <1>4, <1>5 DEF Edit
<1> QED
  BY <1>2, <1>3, <1>4, <1>5 DEF Next, vars

(* A successful reading gives every job of every file in order, each file   *)
(* as it was when its turn came; a failed one has met a file that ReadJobs  *)
(* refuses or no job at all: for any files, and any edits while they are    *)
(* read.                                                                    *)
THEOREM ReadingIsCompleteHolds == Spec => []ReadingIsComplete
<1>1. RInv => ReadingIsComplete
  <2> SUFFICES ASSUME RInv PROVE ReadingIsComplete
    OBVIOUS
  <2>1. CASE result = "reading"
    <3>1. Len(seen) = next - 1 /\ next \in 1..Len(Paths) /\ Len(Paths) \in Nat
      BY <2>1, ConfigAssumption DEF RInv, CInv, TypeOK, Gathered
    <3> QED
      BY <2>1, <3>1 DEF ReadingIsComplete
  <2>2. CASE result # "reading"
    BY <2>2 DEF RInv, Gathered
  <2> QED
    BY <2>1, <2>2
<1> QED
  BY <1>1, InitRInv, NextRInv, PTL DEF Spec
===============================================================================
