----------------------------- MODULE BatchProofs ------------------------------
(***************************************************************************)
(* What is proved of Batch: all of its safety properties, for every list   *)
(* of jobs and every command line.                                         *)
(*                                                                         *)
(* The folds of SplitLines and FilterJobs come first, then what the lines  *)
(* of a log are put together to, then the inductive invariant BInv and,    *)
(* for each of its conjuncts, that a step keeps it.  Three of them relate  *)
(* a command's output to what main concludes from it: Honest (a listing    *)
(* is taken for one of a missing repository only if restic says so), Telling*)
(* (the report of a missing one is recognised if no piece ended in it) and *)
(* Counting (the gauges and what has arrived of a listing).  Pending says  *)
(* that what is done and what is left make up the agenda.                  *)
(***************************************************************************)
EXTENDS Batch, DataProofs, TLAPS

Text  == Seq(Token)
Lines == Seq(Text)

-------------------------------------------------------------------------------
(* Adding a line. *)
LEMMA AppendLine ==
  ASSUME NEW v \in Lines, NEW l \in Text
  PROVE  /\ Append(v, l) \in Lines \ {<<>>}
         /\ Front(Append(v, l)) = v /\ Last(Append(v, l)) = l
<1>1. v \in Seq(Text) /\ Append(v, l) \in Seq(Text) /\ Len(Append(v, l)) = Len(v) + 1
  BY DEF Lines
<1>2. Front(Append(v, l)) = v /\ Last(Append(v, l)) = l
  BY <1>1 DEF Front, Last
<1>3. Append(v, l) # <<>>
  <2>1. Len(v) + 1 # 0
    BY DEF Lines
  <2> QED
    BY <1>1, <2>1
<1> QED
  BY <1>1, <1>2, <1>3 DEF Lines

(* The last line and the ones before it. *)
LEMMA LinesEnd ==
  ASSUME NEW v \in Lines \ {<<>>}
  PROVE  /\ Append(v, <<>>) \in Lines \ {<<>>}
         /\ Front(v) \in Lines /\ Last(v) \in Text
         /\ v = Append(Front(v), Last(v))
<1>1. v \in Seq(Text) /\ Len(v) \in Nat /\ Len(v) # 0
  BY DEF Lines
<1>2. Front(v) \in Lines /\ Last(v) \in Text /\ v = Append(Front(v), Last(v))
  <2>1. Front(v) = SubSeq(v, 1, Len(v) - 1) /\ Last(v) = v[Len(v)]
    BY DEF Front, Last
  <2> DEFINE m == Len(v) - 1
  <2>2. m \in Nat /\ Len(v) = m + 1
    BY <1>1
  <2>3. /\ SubSeq(v, 1, m) \in Seq(Text) /\ v[m + 1] \in Text
        /\ v = Append(SubSeq(v, 1, m), v[m + 1])
    <3> HIDE DEF m
    <3> QED
      BY <1>1, <2>2, SplitLast
  <2> QED
    BY <2>1, <2>2, <2>3 DEF Lines
<1>3. <<>> \in Text
  BY DEF Text
<1> QED
  BY <1>2, <1>3, AppendLine

(* SplitLines: how its fold goes on over the positions of a text. *)
SplitOver(text, g) ==
  [s \in SUBSET DOMAIN text |->
     IF s = {} THEN << <<>> >>
     ELSE IF text[Max(s)] = NL THEN Append(g[s \ {Max(s)}], <<>>)
     ELSE Append(Front(g[s \ {Max(s)}]),
                 Append(Last(g[s \ {Max(s)}]), text[Max(s)]))]

(* There is such a function, and SplitLines is its value for the whole text. *)
LEMMA SplitFold ==
  ASSUME NEW text \in Text
  PROVE  \E g : g = SplitOver(text, g) /\ SplitLines(text) = g[1..Len(text)]
<1> DEFINE V == Lines \ {<<>>}
           st == [k \in DOMAIN text |-> [v \in V |->
                    IF text[k] = NL THEN Append(v, <<>>)
                    ELSE Append(Front(v), Append(Last(v), text[k]))]]
           n == Len(text)
<1>1. n \in Nat /\ DOMAIN text = 1..n /\ \A k \in 1..n : text[k] \in Token
  BY DEF Text
<1>2. << <<>> >> \in V
  BY DEF Lines, Text
<1>3. ASSUME NEW k \in 1..n, NEW v \in V PROVE st[k][v] \in V
  <2>1. Append(v, <<>>) \in V /\ Front(v) \in Lines /\ Last(v) \in Text
    BY LinesEnd
  <2>2. Append(Last(v), text[k]) \in Text
    BY <1>1, <2>1 DEF Text
  <2>3. Append(Front(v), Append(Last(v), text[k])) \in V
    BY <2>1, <2>2, AppendLine
  <2> QED
    BY <1>1, <2>1, <2>3
<1>4. PICK f \in [SUBSET (1..n) -> V] : \A s \in SUBSET (1..n) :
        f[s] = IF s = {} THEN << <<>> >> ELSE st[Max(s)][f[s \ {Max(s)}]]
  <2> DEFINE base == << <<>> >>
  <2>1. \A k \in 1..n : \A v \in V : st[k][v] \in V
    BY <1>3
  <2>2. base \in V /\ n \in Nat
    BY <1>1, <1>2
  <2>3. \E f : IsFold(f, n, V, base, st)
    <3> HIDE DEF V, st, n, base
    <3> QED
      BY <2>1, <2>2, FoldExists
  <2> QED
    <3> HIDE DEF V, st, n
    <3> QED
      BY <2>3 DEF IsFold
<1>5. f = SplitOver(text, f)
  <2>1. ASSUME NEW s \in SUBSET (1..n)
        PROVE  f[s] = SplitOver(text, f)[s]
    <3>1. CASE s = {}
      BY <1>1, <1>4, <3>1 DEF SplitOver
    <3>2. CASE s # {}
      <4>1. Max(s) \in 1..n /\ f[s \ {Max(s)}] \in V /\ f[s] = st[Max(s)][f[s \ {Max(s)}]]
        BY <1>1, <1>4, <3>2, MaxIn
      <4> HIDE DEF V
      <4> QED
        BY <1>1, <3>2, <4>1 DEF SplitOver
    <3> QED
      BY <3>1, <3>2
  <2>2. f = [s \in SUBSET (1..n) |-> f[s]]
    BY <1>4
  <2>3. SplitOver(text, f) = [s \in SUBSET (1..n) |-> SplitOver(text, f)[s]]
    BY <1>1 DEF SplitOver
  <2> QED
    BY <2>1, <2>2, <2>3
<1> DEFINE h == CHOOSE g : g = SplitOver(text, g)
<1>6. h = SplitOver(text, h)
  BY <1>5, Zenon
<1>7. SplitLines(text) = h[DOMAIN text]
  BY DEF SplitLines, FoldLeft, MapThenFoldSet, SplitOver
<1> QED
  BY <1>1, <1>6, <1>7

(* The lines of no text: an empty one. *)
LEMMA SplitEmpty == SplitLines(<<>>) = << <<>> >>
<1>1. <<>> \in Text /\ Len(<<>>) = 0 /\ 1..0 = {} /\ DOMAIN <<>> = {}
  BY DEF Text
<1>2. PICK g : g = SplitOver(<<>>, g) /\ SplitLines(<<>>) = g[1..0]
  BY <1>1, SplitFold
<1>3. SplitOver(<<>>, g)[{}] = << <<>> >>
  BY <1>1 DEF SplitOver
<1> QED
  BY <1>1, <1>2, <1>3

(* One token more begins a line, or goes on with the last. *)
LEMMA SplitAppend ==
  ASSUME NEW text \in Text, NEW x \in Token
  PROVE  SplitLines(Append(text, x)) =
           IF x = NL THEN Append(SplitLines(text), <<>>)
           ELSE Append(Front(SplitLines(text)), Append(Last(SplitLines(text)), x))
<1> DEFINE n  == Len(text)
           tt == Append(text, x)
<1>1. /\ n \in Nat /\ DOMAIN text = 1..n /\ DOMAIN tt = 1..(n + 1) /\ Len(tt) = n + 1
      /\ tt[n + 1] = x /\ tt \in Text /\ \A k \in 1..n : tt[k] = text[k]
  BY DEF Text
<1> HIDE DEF tt
<1>2. PICK g : g = SplitOver(text, g) /\ SplitLines(text) = g[1..n]
  BY SplitFold
<1>3. PICK h : h = SplitOver(tt, h) /\ SplitLines(tt) = h[1..(n + 1)]
  BY <1>1, SplitFold
<1> DEFINE Next1(v, t) == IF t = NL THEN Append(v, <<>>)
                          ELSE Append(Front(v), Append(Last(v), t))
<1>4. /\ g[1..0] = << <<>> >>
      /\ \A k \in Nat : k + 1 <= n => g[1..(k + 1)] = Next1(g[1..k], text[k + 1])
  <2>1. SplitOver(text, g)[1..0] = << <<>> >>
    BY <1>1 DEF SplitOver
  <2>2. ASSUME NEW k \in Nat, k + 1 <= n
        PROVE  SplitOver(text, g)[1..(k + 1)] = Next1(g[1..k], text[k + 1])
    <3>1. 1..(k + 1) \in SUBSET DOMAIN text
      BY <1>1, <2>2
    <3> QED
      BY <3>1, MaxInit DEF SplitOver
  <2> QED
    BY <1>2, <2>1, <2>2
<1>5. /\ h[1..0] = << <<>> >>
      /\ \A k \in Nat : k + 1 <= n + 1 => h[1..(k + 1)] = Next1(h[1..k], tt[k + 1])
  <2>1. SplitOver(tt, h)[1..0] = << <<>> >>
    BY <1>1 DEF SplitOver
  <2>2. ASSUME NEW k \in Nat, k + 1 <= n + 1
        PROVE  SplitOver(tt, h)[1..(k + 1)] = Next1(h[1..k], tt[k + 1])
    <3>1. 1..(k + 1) \in SUBSET DOMAIN tt
      BY <1>1, <2>2
    <3> QED
      BY <3>1, MaxInit DEF SplitOver
  <2> QED
    BY <1>3, <2>1, <2>2
<1> DEFINE T == {k \in Nat : k <= n => g[1..k] = h[1..k]}
<1>6. 0 \in T
  BY <1>4, <1>5
<1>7. ASSUME NEW k \in T PROVE k + 1 \in T
  <2> SUFFICES ASSUME k + 1 <= n PROVE g[1..(k + 1)] = h[1..(k + 1)]
    OBVIOUS
  <2>1. k \in Nat /\ k <= n /\ k + 1 <= n + 1 /\ k + 1 \in 1..n
    BY <1>1
  <2>2. g[1..k] = h[1..k] /\ tt[k + 1] = text[k + 1]
    BY <1>1, <2>1
  <2> HIDE DEF Next1
  <2> QED
    BY <1>4, <1>5, <2>1, <2>2
<1> HIDE DEF T
<1>8. n \in T
  <2>1. T \in SUBSET Nat
    BY DEF T
  <2> QED
    BY <1>1, <1>6, <1>7, <2>1, Induct
<1>9. g[1..n] = h[1..n]
  BY <1>1, <1>8 DEF T
<1>10. h[1..(n + 1)] = Next1(h[1..n], x)
  <2>1. n \in Nat /\ n + 1 <= n + 1 /\ tt[n + 1] = x
    BY <1>1
  <2> HIDE DEF Next1, n
  <2> QED
    BY <1>5, <2>1
<1> QED
  BY <1>2, <1>3, <1>9, <1>10 DEF tt

-------------------------------------------------------------------------------
(* What FilterJobs has found after some jobs. *)
Findings == [jobs : Seq(Job), missing : SUBSET Name]

FoundOne(v, j) ==
  IF NameOf[j] \in v.missing
    THEN [jobs |-> Append(v.jobs, j), missing |-> v.missing \ {NameOf[j]}]
    ELSE v

FilterOver(js, names, g) ==
  [s \in SUBSET DOMAIN js |->
     IF s = {} THEN [jobs |-> <<>>, missing |-> ToSet(names)]
     ELSE FoundOne(g[s \ {Max(s)}], js[Max(s)])]

(* One more job keeps the types of what was found. *)
LEMMA FoundOneType ==
  ASSUME NEW v \in Findings, NEW j \in Job
  PROVE  FoundOne(v, j) \in Findings
<1>1. v.jobs \in Seq(Job) /\ v.missing \in SUBSET Name /\ Append(v.jobs, j) \in Seq(Job)
  BY DEF Findings
<1> QED
  BY <1>1 DEF Findings, FoundOne

(* There is a function its fold iterates over. *)
LEMMA FilterFold ==
  ASSUME NEW js \in Seq(Job), NEW names, ToSet(names) \subseteq Name
  PROVE  \E g : g = FilterOver(js, names, g) /\ FilterJobs(js, names) = g[1..Len(js)]
<1> DEFINE V == Findings
           st == [k \in DOMAIN js |-> [v \in V |-> FoundOne(v, js[k])]]
           n == Len(js)
           base == [jobs |-> <<>>, missing |-> ToSet(names)]
<1>1. n \in Nat /\ DOMAIN js = 1..n /\ \A k \in 1..n : js[k] \in Job
  OBVIOUS
<1>2. base \in V
  BY DEF Findings
<1>3. ASSUME NEW k \in 1..n, NEW v \in V PROVE st[k][v] \in V
  <2>1. st[k][v] = FoundOne(v, js[k])
    BY <1>1
  <2>2. FoundOne(v, js[k]) \in V
    BY <1>1, FoundOneType
  <2> QED
    BY <2>1, <2>2
<1>4. PICK f : IsFold(f, n, V, base, st)
  <2>1. \A k \in 1..n : \A v \in V : st[k][v] \in V
    BY <1>3
  <2>2. base \in V /\ n \in Nat
    BY <1>1, <1>2
  <2> HIDE DEF V, st, n, base
  <2> QED
    BY <2>1, <2>2, FoldExists
<1>5. f = FilterOver(js, names, f)
  <2>1. ASSUME NEW s \in SUBSET (1..n)
        PROVE  f[s] = FilterOver(js, names, f)[s]
    <3>1. CASE s = {}
      BY <1>1, <1>4, <3>1 DEF FilterOver, IsFold
    <3>2. CASE s # {}
      <4>1. Max(s) \in 1..n /\ f[s \ {Max(s)}] \in V /\ f[s] = st[Max(s)][f[s \ {Max(s)}]]
        BY <1>1, <1>4, <3>2, MaxIn DEF IsFold
      <4> HIDE DEF V
      <4> QED
        BY <1>1, <3>2, <4>1 DEF FilterOver
    <3> QED
      BY <3>1, <3>2
  <2>2. f = [s \in SUBSET (1..n) |-> f[s]]
    BY <1>4 DEF IsFold
  <2>3. FilterOver(js, names, f) = [s \in SUBSET (1..n) |-> FilterOver(js, names, f)[s]]
    BY <1>1 DEF FilterOver
  <2> QED
    BY <2>1, <2>2, <2>3
<1> DEFINE h == CHOOSE g : g = FilterOver(js, names, g)
<1>6. h = FilterOver(js, names, h)
  BY <1>5, Zenon
<1>7. FilterJobs(js, names) = h[DOMAIN js]
  <2>1. "all" \notin ToSet(names)
    BY BatchAssumption
  <2> QED
    BY <2>1 DEF FilterJobs, FoldLeft, MapThenFoldSet, FilterOver, FoundOne
<1> QED
  BY <1>1, <1>6, <1>7

(* No jobs: nothing is found. *)
LEMMA FilterEmpty ==
  ASSUME NEW names, ToSet(names) \subseteq Name
  PROVE  FilterJobs(<<>>, names) = [jobs |-> <<>>, missing |-> ToSet(names)]
<1>1. <<>> \in Seq(Job) /\ Len(<<>>) = 0 /\ 1..0 = {} /\ DOMAIN <<>> = {}
  OBVIOUS
<1>2. PICK g : g = FilterOver(<<>>, names, g) /\ FilterJobs(<<>>, names) = g[1..0]
  BY <1>1, FilterFold
<1>3. FilterOver(<<>>, names, g)[{}] = [jobs |-> <<>>, missing |-> ToSet(names)]
  BY <1>1 DEF FilterOver
<1> QED
  BY <1>1, <1>2, <1>3

(* A job more is looked at after the others. *)
LEMMA FilterAppend ==
  ASSUME NEW js \in Seq(Job), NEW j \in Job, NEW names, ToSet(names) \subseteq Name
  PROVE  FilterJobs(Append(js, j), names) = FoundOne(FilterJobs(js, names), j)
<1> DEFINE n  == Len(js)
           tt == Append(js, j)
           base == [jobs |-> <<>>, missing |-> ToSet(names)]
<1>1. /\ n \in Nat /\ DOMAIN js = 1..n /\ DOMAIN tt = 1..(n + 1) /\ Len(tt) = n + 1
      /\ tt[n + 1] = j /\ tt \in Seq(Job) /\ \A k \in 1..n : tt[k] = js[k]
  OBVIOUS
<1> HIDE DEF tt
<1>2. PICK g : g = FilterOver(js, names, g) /\ FilterJobs(js, names) = g[1..n]
  BY FilterFold
<1>3. PICK h : h = FilterOver(tt, names, h) /\ FilterJobs(tt, names) = h[1..(n + 1)]
  BY <1>1, FilterFold
<1>4. /\ g[1..0] = base
      /\ \A k \in Nat : k + 1 <= n => g[1..(k + 1)] = FoundOne(g[1..k], js[k + 1])
  <2>1. FilterOver(js, names, g)[1..0] = base
    BY <1>1 DEF FilterOver
  <2>2. ASSUME NEW k \in Nat, k + 1 <= n
        PROVE  FilterOver(js, names, g)[1..(k + 1)] = FoundOne(g[1..k], js[k + 1])
    <3>1. 1..(k + 1) \in SUBSET DOMAIN js
      BY <1>1, <2>2
    <3> QED
      BY <3>1, MaxInit DEF FilterOver
  <2> QED
    BY <1>2, <2>1, <2>2
<1>5. /\ h[1..0] = base
      /\ \A k \in Nat : k + 1 <= n + 1 => h[1..(k + 1)] = FoundOne(h[1..k], tt[k + 1])
  <2>1. FilterOver(tt, names, h)[1..0] = base
    BY <1>1 DEF FilterOver
  <2>2. ASSUME NEW k \in Nat, k + 1 <= n + 1
        PROVE  FilterOver(tt, names, h)[1..(k + 1)] = FoundOne(h[1..k], tt[k + 1])
    <3>1. 1..(k + 1) \in SUBSET DOMAIN tt
      BY <1>1, <2>2
    <3> QED
      BY <3>1, MaxInit DEF FilterOver
  <2> QED
    BY <1>3, <2>1, <2>2
<1> HIDE DEF base
<1> DEFINE T == {k \in Nat : k <= n => g[1..k] = h[1..k]}
<1>6. 0 \in T
  BY <1>4, <1>5
<1>7. ASSUME NEW k \in T PROVE k + 1 \in T
  <2> SUFFICES ASSUME k + 1 <= n PROVE g[1..(k + 1)] = h[1..(k + 1)]
    OBVIOUS
  <2>1. k \in Nat /\ k <= n /\ k + 1 <= n + 1 /\ k + 1 \in 1..n
    BY <1>1
  <2>2. g[1..k] = h[1..k] /\ tt[k + 1] = js[k + 1]
    BY <1>1, <2>1
  <2> QED
    BY <1>4, <1>5, <2>1, <2>2
<1> HIDE DEF T
<1>8. n \in T
  <2>1. T \in SUBSET Nat
    BY DEF T
  <2> QED
    BY <1>1, <1>6, <1>7, <2>1, Induct
<1>9. g[1..n] = h[1..n]
  BY <1>1, <1>8 DEF T
<1>10. h[1..(n + 1)] = FoundOne(h[1..n], j)
  <2>1. n \in Nat /\ n + 1 <= n + 1 /\ tt[n + 1] = j
    BY <1>1
  <2> HIDE DEF n
  <2> QED
    BY <1>5, <2>1
<1> QED
  BY <1>2, <1>3, <1>9, <1>10 DEF tt

Words == Seq(Name \cup {"all"})

(* What is left of the names are the ones no job has. *)
LEMMA FilterMissing ==
  ASSUME NEW js \in Seq(Job), NEW names, ToSet(names) \subseteq Name
  PROVE  /\ FilterJobs(js, names) \in Findings
         /\ FilterJobs(js, names).missing = ToSet(names) \ {NameOf[j] : j \in ToSet(js)}
<1> DEFINE Had(t) == {NameOf[j] : j \in ToSet(t)}
           T == {t \in Seq(Job) : /\ FilterJobs(t, names) \in Findings
                                  /\ FilterJobs(t, names).missing = ToSet(names) \ Had(t)}
<1>1. <<>> \in T
  <2>1. Had(<<>>) = {}
    <3>1. ToSet(<<>>) = {}
      BY DEF ToSet
    <3> QED
      BY <3>1
  <2>2. [jobs |-> <<>>, missing |-> ToSet(names)] \in Findings
    BY DEF Findings
  <2>3. FilterJobs(<<>>, names) = [jobs |-> <<>>, missing |-> ToSet(names)]
    BY FilterEmpty
  <2> HIDE DEF Had
  <2> QED
    BY <2>1, <2>2, <2>3
<1>2. ASSUME NEW t \in T, NEW j \in Job PROVE Append(t, j) \in T
  <2> DEFINE v == FilterJobs(t, names)
  <2>1. t \in Seq(Job) /\ v \in Findings /\ v.missing = ToSet(names) \ Had(t)
    OBVIOUS
  <2>2. FilterJobs(Append(t, j), names) = FoundOne(v, j)
    BY <2>1, FilterAppend
  <2>3. FoundOne(v, j) \in Findings
    BY <2>1, FoundOneType
  <2>4. FoundOne(v, j).missing = v.missing \ {NameOf[j]}
    BY DEF FoundOne
  <2>5. Had(Append(t, j)) = Had(t) \cup {NameOf[j]}
    <3>1. ToSet(Append(t, j)) = ToSet(t) \cup {j}
      BY <2>1, AppendMembers
    <3> QED
      BY <3>1
  <2>6. Append(t, j) \in Seq(Job)
    BY <2>1
  <2> HIDE DEF Had, v
  <2>7. FoundOne(v, j).missing = ToSet(names) \ Had(Append(t, j))
    BY <2>1, <2>4, <2>5
  <2> QED
    BY <2>2, <2>3, <2>6, <2>7
<1> HIDE DEF T
<1>3. T = Seq(Job)
  <2>1. T \in SUBSET Seq(Job)
    BY DEF T
  <2> QED
    BY <1>1, <1>2, <2>1, SeqInduct
<1> QED
  BY <1>3 DEF T

(* No name is missing that a job has; and no word but "all" is no name. *)
LEMMA FilterFinds ==
  ASSUME NEW js \in Seq(Job), NEW names \in Words
  PROVE  /\ FilterJobs(js, names) \in Findings
         /\ FilterJobs(js, names).missing = {} <=>
              \/ "all" \in ToSet(names)
              \/ ToSet(names) \subseteq {NameOf[j] : j \in ToSet(js)}
<1>1. CASE "all" \in ToSet(names)
  BY <1>1 DEF FilterJobs, Findings
<1>2. CASE "all" \notin ToSet(names)
  <2>1. ToSet(names) \subseteq Name
    <3>1. ToSet(names) \subseteq Name \cup {"all"}
      BY DEF ToSet, Words
    <3> QED
      BY <1>2, <3>1
  <2> QED
    BY <1>2, <2>1, FilterMissing
<1> QED
  BY <1>1, <1>2

(* The job at a position is one of those the names stand for. *)
Keeps(names, js, i) ==
  \/ "all" \in ToSet(names)
  \/ /\ NameOf[js[i]] \in ToSet(names)
     /\ \A k \in 1..(i - 1) : NameOf[js[k]] # NameOf[js[i]]

Tagged(s, js) == [k \in DOMAIN js |-> <<s, js[k]>>]
Picked(s, js, names) ==
  [i \in DOMAIN js |-> IF Keeps(names, js, i) THEN << <<s, js[i]>> >> ELSE <<>>]

(* Jobs are tagged one by one. *)
LEMMA TagAppend ==
  ASSUME NEW s \in Stages, NEW js \in Seq(Job), NEW j \in Job
  PROVE  /\ Tagged(s, js) \in Seq(Stages \X Job)
         /\ Tagged(s, Append(js, j)) = Tagged(s, js) \o << <<s, j>> >>
<1> DEFINE n  == Len(js)
           tt == Append(js, j)
           t  == Tagged(s, js)
           x  == <<s, j>>
<1>1. /\ n \in Nat /\ DOMAIN js = 1..n /\ DOMAIN tt = 1..(n + 1) /\ tt[n + 1] = j
      /\ \A k \in 1..n : tt[k] = js[k] /\ js[k] \in Job
  OBVIOUS
<1>2. t = [k \in 1..n |-> t[k]] /\ \A k \in 1..n : t[k] = <<s, js[k]>> /\ t[k] \in Stages \X Job
  BY <1>1 DEF Tagged
<1>3. t \in Seq(Stages \X Job) /\ Len(t) = n
  <2> HIDE DEF t, n
  <2> QED
    BY <1>1, <1>2
<1>4. t \o <<x>> = [k \in 1..(n + 1) |-> IF k = n + 1 THEN x ELSE t[k]]
  <2> DEFINE u == t \o <<x>>
  <2>1. x \in Stages \X Job
    OBVIOUS
  <2> HIDE DEF t, n, x
  <2>2. /\ u \in Seq(Stages \X Job) /\ Len(u) = n + 1 /\ u[n + 1] = x
        /\ \A k \in 1..n : u[k] = t[k]
    BY <1>1, <1>3, <2>1
  <2>3. u = [k \in 1..(n + 1) |-> u[k]] /\ \A k \in 1..(n + 1) : k # n + 1 => k \in 1..n
    BY <1>1, <2>2
  <2> HIDE DEF u
  <2>4. u = [k \in 1..(n + 1) |-> IF k = n + 1 THEN x ELSE t[k]]
    BY <2>2, <2>3
  <2> QED
    BY <2>4 DEF u
<1>5. Tagged(s, tt) = [k \in 1..(n + 1) |-> <<s, tt[k]>>]
  BY <1>1 DEF Tagged
<1>6. \A k \in 1..(n + 1) : <<s, tt[k]>> = IF k = n + 1 THEN x ELSE t[k]
  <2>1. \A k \in 1..(n + 1) : k # n + 1 => k \in 1..n
    BY <1>1
  <2> HIDE DEF t, n, tt
  <2> QED
    BY <1>1, <1>2, <2>1
<1> HIDE DEF t, n, tt, x
<1> QED
  BY <1>3, <1>4, <1>5, <1>6 DEF t, tt, x

(* A job more is one of them, or it is not. *)
LEMMA FilterKeeps ==
  ASSUME NEW js \in Seq(Job), NEW j \in Job, NEW names \in Words
  PROVE  FilterJobs(Append(js, j), names).jobs =
           IF Keeps(names, Append(js, j), Len(js) + 1)
             THEN Append(FilterJobs(js, names).jobs, j)
             ELSE FilterJobs(js, names).jobs
<1>1. CASE "all" \in ToSet(names)
  BY <1>1 DEF FilterJobs, Keeps
<1>2. CASE "all" \notin ToSet(names)
  <2> DEFINE v == FilterJobs(js, names)
             tt == Append(js, j)
             n == Len(js)
  <2>1. ToSet(names) \subseteq Name
    <3>1. ToSet(names) \subseteq Name \cup {"all"}
      BY DEF ToSet, Words
    <3> QED
      BY <1>2, <3>1
  <2>2. FilterJobs(tt, names) = FoundOne(v, j)
    BY <2>1, FilterAppend
  <2>3. v.missing = ToSet(names) \ {NameOf[i] : i \in ToSet(js)}
    BY <2>1, FilterMissing
  <2>4. /\ n \in Nat /\ DOMAIN js = 1..n /\ tt[n + 1] = j /\ (n + 1) - 1 = n
        /\ \A k \in 1..n : tt[k] = js[k]
    OBVIOUS
  <2>5. NameOf[j] \in {NameOf[i] : i \in ToSet(js)} <=> \E k \in 1..n : NameOf[js[k]] = NameOf[j]
    <3>1. ToSet(js) = {js[k] : k \in 1..n}
      BY <2>4 DEF ToSet
    <3> QED
      BY <3>1
  <2> HIDE DEF v, tt, n
  <2>6. NameOf[j] \in v.missing <=> Keeps(names, tt, n + 1)
    BY <1>2, <2>3, <2>4, <2>5 DEF Keeps
  <2> QED
    BY <2>2, <2>6 DEF FoundOne, v, tt, n
<1> QED
  BY <1>1, <1>2

(* The jobs FilterJobs returns are the ones the names stand for, in their order. *)
LEMMA FilterNamed ==
  ASSUME NEW js \in Seq(Job), NEW names \in Words, NEW s \in Stages
  PROVE  Tagged(s, FilterJobs(js, names).jobs) = FlattenSeq(Picked(s, js, names))
<1> DEFINE T == {t \in Seq(Job) :
                   Tagged(s, FilterJobs(t, names).jobs) = FlattenSeq(Picked(s, t, names))}
<1>1. <<>> \in T
  <2>1. FilterJobs(<<>>, names).jobs = <<>>
    <3>1. CASE "all" \in ToSet(names)
      BY <3>1 DEF FilterJobs
    <3>2. CASE "all" \notin ToSet(names)
      <4>1. ToSet(names) \subseteq Name \cup {"all"}
        BY DEF ToSet, Words
      <4> QED
        BY <3>2, <4>1, FilterEmpty
    <3> QED
      BY <3>1, <3>2
  <2>2. Tagged(s, <<>>) = <<>> /\ Picked(s, <<>>, names) = <<>>
    BY DEF Tagged, Picked
  <2> QED
    BY <2>1, <2>2, FlattenEmpty
<1>2. ASSUME NEW t \in T, NEW j \in Job PROVE Append(t, j) \in T
  <2> DEFINE f == FilterJobs(t, names).jobs
             S == Stages \X Job
             p == Picked(s, t, names)
             new == IF Keeps(names, Append(t, j), Len(t) + 1) THEN << <<s, j>> >> ELSE <<>>
  <2>1. /\ t \in Seq(Job) /\ f \in Seq(Job) /\ Tagged(s, f) = FlattenSeq(p)
        /\ Append(t, j) \in Seq(Job)
    BY FilterFinds DEF Findings
  <2>2. p \in Seq(Seq(S)) /\ new \in Seq(S)
    <3>1. Len(t) \in Nat /\ DOMAIN t = 1..Len(t) /\ \A i \in 1..Len(t) : t[i] \in Job
      BY <2>1
    <3>2. <<>> \in Seq(S) /\ \A i \in Job : << <<s, i>> >> \in Seq(S)
      OBVIOUS
    <3>3. p = [i \in 1..Len(t) |-> p[i]] /\ \A i \in 1..Len(t) : p[i] \in Seq(S)
      BY <3>1, <3>2 DEF Picked
    <3>4. new \in Seq(S)
      BY <3>2
    <3> HIDE DEF p, new, S
    <3> QED
      BY <3>1, <3>3, <3>4
  <2>3. Picked(s, Append(t, j), names) = Append(p, new)
    <3> DEFINE n == Len(t)
               tt == Append(t, j)
    <3>1. /\ n \in Nat /\ DOMAIN t = 1..n /\ DOMAIN tt = 1..(n + 1) /\ tt[n + 1] = j
          /\ \A i \in 1..n : tt[i] = t[i]
      BY <2>1
    <3>2. ASSUME NEW i \in 1..n PROVE Keeps(names, tt, i) <=> Keeps(names, t, i)
      <4>1. \A k \in 1..(i - 1) : k \in 1..n
        BY <3>1
      <4> HIDE DEF tt
      <4> QED
        BY <3>1, <4>1 DEF Keeps
    <3>3. p = [i \in 1..n |-> p[i]] /\ Len(p) = n
      BY <2>2, <3>1 DEF Picked
    <3>4. ASSUME NEW i \in 1..(n + 1) PROVE Picked(s, tt, names)[i] = Append(p, new)[i]
      <4>1. CASE i = n + 1
        <5>1. Append(p, new)[n + 1] = new
          BY <2>2, <3>1, <3>3
        <5>2. Picked(s, tt, names)[n + 1] = new
          BY <3>1 DEF Picked
        <5> QED
          BY <4>1, <5>1, <5>2
      <4>2. CASE i # n + 1
        <5>1. i \in 1..n
          BY <3>1, <4>2
        <5>2. Append(p, new)[i] = p[i]
          BY <2>2, <3>3, <5>1
        <5>3. p[i] = IF Keeps(names, t, i) THEN << <<s, t[i]>> >> ELSE <<>>
          BY <3>1, <5>1 DEF Picked
        <5>4. Picked(s, tt, names)[i] = IF Keeps(names, tt, i) THEN << <<s, tt[i]>> >> ELSE <<>>
          BY <3>1 DEF Picked
        <5> QED
          BY <3>1, <3>2, <5>1, <5>2, <5>3, <5>4
      <4> QED
        BY <4>1, <4>2
    <3>5. Picked(s, tt, names) = [i \in 1..(n + 1) |-> Picked(s, tt, names)[i]]
      BY <3>1 DEF Picked
    <3>6. Append(p, new) = [i \in 1..(n + 1) |-> Append(p, new)[i]]
      BY <2>2, <3>1, <3>3
    <3> HIDE DEF tt, p, new, n
    <3>7. Picked(s, tt, names) = Append(p, new)
      BY <3>4, <3>5, <3>6
    <3> QED
      BY <3>7 DEF tt
  <2>4. FlattenSeq(Append(p, new)) = FlattenSeq(p) \o new
    <3> HIDE DEF p, new, S
    <3> QED
      BY <2>2, FlattenAppend
  <2>5. Tagged(s, FilterJobs(Append(t, j), names).jobs) = Tagged(s, f) \o new
    <3>1. FilterJobs(Append(t, j), names).jobs =
            IF Keeps(names, Append(t, j), Len(t) + 1) THEN Append(f, j) ELSE f
      BY <2>1, FilterKeeps
    <3>2. Tagged(s, f) \in Seq(S) /\ Tagged(s, f) \o <<>> = Tagged(s, f)
      BY <2>1 DEF Tagged
    <3>3. Tagged(s, Append(f, j)) = Tagged(s, f) \o << <<s, j>> >>
      <4> HIDE DEF f
      <4> QED
        BY <2>1, TagAppend
    <3> HIDE DEF f
    <3> QED
      BY <3>1, <3>2, <3>3
  <2> HIDE DEF f, p, new
  <2> QED
    BY <2>1, <2>3, <2>4, <2>5
<1> HIDE DEF T
<1>3. T = Seq(Job)
  <2>1. T \in SUBSET Seq(Job)
    BY DEF T
  <2> QED
    BY <1>1, <1>2, <2>1, SeqInduct
<1> QED
  BY <1>3 DEF T

-------------------------------------------------------------------------------
(* What is written is put together again. *)

(* There is at least an empty line in a text. *)
LEMMA SplitType ==
  ASSUME NEW text \in Text
  PROVE  SplitLines(text) \in Lines \ {<<>>}
<1> DEFINE V == Lines \ {<<>>}
           T == {t \in Text : SplitLines(t) \in V}
<1>1. <<>> \in T
  <2>1. <<>> \in Text /\ << <<>> >> \in V
    BY DEF Text, Lines
  <2> QED
    BY <2>1, SplitEmpty
<1>2. ASSUME NEW t \in T, NEW x \in Token PROVE Append(t, x) \in T
  <2> DEFINE v == SplitLines(t)
  <2>1. t \in Text /\ v \in V /\ Append(t, x) \in Text
    BY DEF Text
  <2>2. Append(v, <<>>) \in V /\ Front(v) \in Lines /\ Last(v) \in Text
    BY <2>1, LinesEnd
  <2>3. Append(Last(v), x) \in Text
    BY <2>2 DEF Text
  <2>4. Append(Front(v), Append(Last(v), x)) \in V
    BY <2>2, <2>3, AppendLine
  <2>5. SplitLines(Append(t, x)) = IF x = NL THEN Append(v, <<>>)
                                   ELSE Append(Front(v), Append(Last(v), x))
    BY <2>1, SplitAppend
  <2> HIDE DEF v, V
  <2> QED
    BY <2>1, <2>2, <2>4, <2>5
<1> HIDE DEF T
<1>3. T = Seq(Token)
  <2>1. T \in SUBSET Seq(Token)
    BY DEF T, Text
  <2> QED
    BY <1>1, <1>2, <2>1, SeqInduct
<1> QED
  BY <1>3 DEF T, Text

(* No lines are no text. *)
LEMMA JoinNone == \A sep : Join(<<>>, sep) = <<>>
<1> SUFFICES ASSUME NEW sep PROVE Join(<<>>, sep) = <<>>
  OBVIOUS
<1>1. [k \in DOMAIN <<>> |-> IF k = 1 THEN <<>>[k] ELSE sep \o <<>>[k]] = <<>>
  OBVIOUS
<1> QED
  BY <1>1, FlattenEmpty DEF Join

(* A line more comes after the separator, unless it is the first. *)
LEMMA JoinAppend ==
  ASSUME NEW v \in Lines, NEW l \in Text, NEW sep \in Text
  PROVE  /\ Join(v, sep) \in Text
         /\ Join(Append(v, l), sep) = IF v = <<>> THEN l ELSE Join(v, sep) \o (sep \o l)
<1> DEFINE n  == Len(v)
           tt == Append(v, l)
           p  == [k \in DOMAIN v |-> IF k = 1 THEN v[k] ELSE sep \o v[k]]
           q  == [k \in DOMAIN tt |-> IF k = 1 THEN tt[k] ELSE sep \o tt[k]]
           x  == IF v = <<>> THEN l ELSE sep \o l
<1>1. /\ n \in Nat /\ DOMAIN v = 1..n /\ DOMAIN tt = 1..(n + 1) /\ tt[n + 1] = l
      /\ \A k \in 1..n : tt[k] = v[k] /\ v[k] \in Text
      /\ n = 0 <=> v = <<>>
  BY DEF Lines
<1>2. x \in Text /\ \A k \in 1..n : p[k] \in Text
  <2>1. \A t \in Text : sep \o t \in Text
    BY DEF Text
  <2> QED
    BY <1>1, <2>1
<1>3. p = [k \in 1..n |-> p[k]]
  BY <1>1
<1>4. p \in Seq(Text) /\ Len(p) = n
  <2> HIDE DEF p, n
  <2> QED
    BY <1>1, <1>2, <1>3
<1>5. ASSUME NEW k \in 1..(n + 1) PROVE q[k] = Append(p, x)[k]
  <2>1. CASE k = n + 1
    <3>1. Append(p, x)[n + 1] = x
      <4> HIDE DEF p, x, n
      <4> QED
        BY <1>1, <1>2, <1>4
    <3>2. q[n + 1] = x
      BY <1>1
    <3> QED
      BY <2>1, <3>1, <3>2
  <2>2. CASE k # n + 1
    <3>1. k \in 1..n
      BY <1>1, <2>2
    <3>2. Append(p, x)[k] = p[k]
      <4> HIDE DEF p, x, n
      <4> QED
        BY <1>1, <1>2, <1>4, <3>1
    <3>3. q[k] = p[k]
      BY <1>1, <3>1
    <3> QED
      BY <3>2, <3>3
  <2> QED
    BY <2>1, <2>2
<1>6. q = Append(p, x)
  <2>1. q = [k \in 1..(n + 1) |-> q[k]]
    BY <1>1
  <2> HIDE DEF p, x, n, q
  <2>2. Append(p, x) \in Seq(Text) /\ Len(Append(p, x)) = n + 1
    BY <1>1, <1>2, <1>4
  <2>3. Append(p, x) = [k \in 1..(n + 1) |-> Append(p, x)[k]]
    <3> DEFINE u == Append(p, x)
    <3>1. u \in Seq(Text) /\ Len(u) = n + 1
      BY <2>2
    <3> HIDE DEF u
    <3>2. u = [k \in 1..Len(u) |-> u[k]]
      BY <3>1
    <3> QED
      BY <3>1, <3>2 DEF u
  <2> QED
    BY <1>5, <2>1, <2>3
<1>7. Join(v, sep) = FlattenSeq(p) /\ Join(tt, sep) = FlattenSeq(q)
  BY DEF Join
<1>8. FlattenSeq(p) \in Text /\ FlattenSeq(Append(p, x)) = FlattenSeq(p) \o x
  <2> HIDE DEF p, x, n, q
  <2> QED
    BY <1>2, <1>4, FlattenAppend, FlattenMembers DEF Text
<1>9. CASE v = <<>>
  <2>1. p = <<>>
    BY <1>9
  <2>2. FlattenSeq(p) = <<>>
    BY <2>1, FlattenEmpty
  <2>3. <<>> \o l = l
    BY DEF Text
  <2> HIDE DEF p, q, tt
  <2> QED
    BY <1>6, <1>7, <1>8, <1>9, <2>2, <2>3 DEF tt
<1>10. CASE v # <<>>
  <2> HIDE DEF p, q, tt
  <2> QED
    BY <1>6, <1>7, <1>8, <1>10 DEF tt
<1> QED
  BY <1>9, <1>10

(* What is written is lines, and goes on token by token. *)
LEMMA WriteLines ==
  ASSUME NEW v \in Lines, NEW text \in Text
  PROVE  /\ Write(v, text) \in Lines \ {<<>>}
         /\ Write(v, <<>>) = Append(v, <<>>)
<1>1. SplitLines(text) \in Lines \ {<<>>}
  BY SplitType
<1>2. Len(SplitLines(text)) # 0
  BY <1>1 DEF Lines
<1>3. v \o SplitLines(text) \in Lines /\ v \o SplitLines(text) # <<>>
  <2>1. v \o SplitLines(text) \in Lines /\ Len(v \o SplitLines(text)) # 0
    BY <1>1, <1>2 DEF Lines
  <2> QED
    BY <2>1
<1>4. v \o << <<>> >> = Append(v, <<>>)
  BY DEF Lines
<1> QED
  BY <1>3, <1>4, SplitEmpty DEF Write

(* A token goes on with the last line, or ends it. *)
LEMMA WriteAppend ==
  ASSUME NEW v \in Lines, NEW text \in Text, NEW x \in Token
  PROVE  Write(v, Append(text, x)) =
           IF x = NL THEN Append(Write(v, text), <<>>)
           ELSE Append(Front(Write(v, text)), Append(Last(Write(v, text)), x))
<1> DEFINE s == SplitLines(text)
           f == Front(s)
           l == Last(s)
<1>1. s \in Lines \ {<<>>} /\ f \in Lines /\ l \in Text /\ s = Append(f, l)
  BY SplitType, LinesEnd
<1>2. v \o s = Append(v \o f, l) /\ v \o f \in Lines
  <2> HIDE DEF s, f, l
  <2> QED
    BY <1>1 DEF Lines
<1>3. Front(v \o s) = v \o f /\ Last(v \o s) = l
  <2> HIDE DEF s, f, l
  <2> QED
    <3>1. Front(Append(v \o f, l)) = v \o f /\ Last(Append(v \o f, l)) = l
      BY <1>1, <1>2, AppendLine
    <3> QED
      BY <1>2, <3>1
<1>4. Append(l, x) \in Text /\ <<>> \in Text
  BY <1>1 DEF Text
<1>5. v \o Append(s, <<>>) = Append(v \o s, <<>>)
  <2> HIDE DEF s, f, l
  <2> QED
    BY <1>1, <1>4 DEF Lines
<1>6. v \o Append(f, Append(l, x)) = Append(v \o f, Append(l, x))
  <2> HIDE DEF s, f, l
  <2> QED
    BY <1>1, <1>4 DEF Lines
<1>7. SplitLines(Append(text, x)) = IF x = NL THEN Append(s, <<>>) ELSE Append(f, Append(l, x))
  BY SplitAppend
<1> HIDE DEF s, f, l
<1> QED
  BY <1>3, <1>5, <1>6, <1>7 DEF Write, s

(* So does the text that is put together. *)
LEMMA JoinWrite ==
  ASSUME NEW v \in Lines, NEW text \in Text, NEW x \in Token, NEW sep \in Text
  PROVE  /\ Join(Write(v, text), sep) \in Text
         /\ Join(Write(v, Append(text, x)), sep) =
              Join(Write(v, text), sep) \o (IF x = NL THEN sep ELSE <<x>>)
<1> DEFINE w == Write(v, text)
           f == Front(w)
           l == Last(w)
<1>1. w \in Lines \ {<<>>} /\ f \in Lines /\ l \in Text /\ w = Append(f, l)
  BY WriteLines, LinesEnd
<1>2. Append(l, x) \in Text /\ <<>> \in Text /\ sep \o <<>> = sep
  BY <1>1 DEF Text
<1>3. Write(v, Append(text, x)) = IF x = NL THEN Append(w, <<>>) ELSE Append(f, Append(l, x))
  BY WriteAppend
<1> HIDE DEF w, f, l
<1>4. /\ Join(w, sep) \in Text /\ Join(f, sep) \in Text
      /\ Join(Append(w, <<>>), sep) = Join(w, sep) \o sep
  <2>1. w \in Lines /\ w # <<>> /\ <<>> \in Text
    BY <1>1, <1>2
  <2>2. /\ Join(w, sep) \in Text /\ Join(f, sep) \in Text
        /\ Join(Append(w, <<>>), sep) = Join(w, sep) \o (sep \o <<>>)
    <3>1. f \in Lines /\ sep \in Text
      BY <1>1
    <3>2. Join(f, sep) \in Text
      BY <2>1, <3>1, JoinAppend
    <3>3. /\ Join(w, sep) \in Text
          /\ Join(Append(w, <<>>), sep) =
               IF w = <<>> THEN <<>> ELSE Join(w, sep) \o (sep \o <<>>)
      BY <2>1, <3>1, JoinAppend
    <3> QED
      BY <2>1, <3>2, <3>3
  <2> QED
    BY <1>2, <2>2
<1>5. Join(Append(f, Append(l, x)), sep) = Join(w, sep) \o <<x>>
  <2>1. CASE f = <<>>
    <3>1. Join(w, sep) = l /\ Join(Append(f, Append(l, x)), sep) = Append(l, x)
      <4>1. f \in Lines /\ l \in Text /\ Append(l, x) \in Text /\ sep \in Text /\ w = Append(f, l)
        BY <1>1, <1>2
      <4>2. Join(Append(f, l), sep) = IF f = <<>> THEN l ELSE Join(f, sep) \o (sep \o l)
        BY <4>1, JoinAppend
      <4>3. Join(Append(f, Append(l, x)), sep) =
              IF f = <<>> THEN Append(l, x) ELSE Join(f, sep) \o (sep \o Append(l, x))
        BY <4>1, JoinAppend
      <4> QED
        BY <2>1, <4>1, <4>2, <4>3
    <3>2. Append(l, x) = l \o <<x>>
      BY <1>1, AppendConcat DEF Text
    <3> QED
      BY <3>1, <3>2
  <2>2. CASE f # <<>>
    <3>1. /\ Join(w, sep) = Join(f, sep) \o (sep \o l)
          /\ Join(Append(f, Append(l, x)), sep) = Join(f, sep) \o (sep \o Append(l, x))
      <4>1. f \in Lines /\ l \in Text /\ Append(l, x) \in Text /\ sep \in Text /\ w = Append(f, l)
        BY <1>1, <1>2
      <4>2. Join(Append(f, l), sep) = IF f = <<>> THEN l ELSE Join(f, sep) \o (sep \o l)
        BY <4>1, JoinAppend
      <4>3. Join(Append(f, Append(l, x)), sep) =
              IF f = <<>> THEN Append(l, x) ELSE Join(f, sep) \o (sep \o Append(l, x))
        BY <4>1, JoinAppend
      <4> QED
        BY <2>2, <4>1, <4>2, <4>3
    <3>2. Join(f, sep) \o (sep \o Append(l, x)) = (Join(f, sep) \o (sep \o l)) \o <<x>>
      <4>1. sep \o Append(l, x) = (sep \o l) \o <<x>> /\ sep \o l \in Text /\ <<x>> \in Text
        <5>1. Append(l, x) = l \o <<x>>
          BY <1>1, AppendConcat DEF Text
        <5>2. <<x>> \in Text /\ sep \o l \in Text
          BY <1>1 DEF Text
        <5> QED
          BY <1>1, <5>1, <5>2, ConcatAssociative DEF Text
      <4>2. Join(f, sep) \o ((sep \o l) \o <<x>>) = (Join(f, sep) \o (sep \o l)) \o <<x>>
        BY <1>4, <4>1, ConcatAssociative, SMTT(30) DEF Text
      <4> QED
        BY <4>1, <4>2
    <3> QED
      BY <3>1, <3>2
  <2> QED
    BY <2>1, <2>2
<1>6. Join(Write(v, Append(text, x)), sep) = Join(w, sep) \o (IF x = NL THEN sep ELSE <<x>>)
  BY <1>3, <1>4, <1>5
<1> QED
  BY <1>4, <1>6 DEF w

(* A line break is a token. *)
LEMMA NLIsToken == NL \in Token
BY Zenon DEF Token

(* With line breaks between them the lines are the pieces, one under the other. *)
LEMMA JoinLines ==
  ASSUME NEW v \in Lines, NEW text \in Text
  PROVE  /\ Join(Append(v, <<>>), <<NL>>) \in Text
         /\ Join(Write(v, text), <<NL>>) = Join(Append(v, <<>>), <<NL>>) \o text
<1> DEFINE sep == <<NL>>
           b == Join(Append(v, <<>>), sep)
           T == {t \in Text : Join(Write(v, t), sep) = b \o t}
<1>1. sep \in Text /\ <<>> \in Text
  BY NLIsToken DEF Text
<1>2. Write(v, <<>>) = Append(v, <<>>) /\ Append(v, <<>>) \in Lines
  BY <1>1, WriteLines
<1> HIDE DEF sep
<1>3. b \in Text
  BY <1>1, <1>2, JoinAppend
<1> HIDE DEF b
<1>4. <<>> \in T
  <2>1. b \o <<>> = b
    BY <1>3 DEF Text
  <2> QED
    BY <1>1, <1>2, <2>1 DEF b
<1>5. ASSUME NEW t \in T, NEW x \in Token PROVE Append(t, x) \in T
  <2>1. t \in Text /\ Join(Write(v, t), sep) = b \o t /\ Append(t, x) \in Text
    BY DEF Text
  <2>2. Join(Write(v, Append(t, x)), sep) = Join(Write(v, t), sep) \o (IF x = NL THEN sep ELSE <<x>>)
    <3>1. t \in Text /\ sep \in Text
      BY <1>1, <2>1
    <3> HIDE DEF b, T
    <3> QED
      BY <3>1, JoinWrite
  <2>3. (IF x = NL THEN sep ELSE <<x>>) = <<x>>
    BY DEF sep
  <2>4. b \o Append(t, x) = (b \o t) \o <<x>>
    <3>1. Append(t, x) = t \o <<x>> /\ <<x>> \in Text
      BY <2>1, AppendConcat DEF Text
    <3> QED
      BY <1>3, <2>1, <3>1, ConcatAssociative DEF Text
  <2> QED
    BY <2>1, <2>2, <2>3, <2>4
<1> HIDE DEF T
<1>6. T = Seq(Token)
  <2>1. T \in SUBSET Seq(Token)
    BY DEF T, Text
  <2> QED
    BY <1>4, <1>5, <2>1, SeqInduct
<1> QED
  BY <1>3, <1>6 DEF T, Text, b, sep

(* Without them the lines are the pieces in a row, without their line breaks. *)
LEMMA JoinText ==
  ASSUME NEW v \in Lines, NEW text \in Text, NL \notin ToSet(text)
  PROVE  /\ Join(v, <<>>) \in Text
         /\ Join(Write(v, text), <<>>) = Join(v, <<>>) \o text
         /\ Join(Write(v, Append(text, NL)), <<>>) = Join(v, <<>>) \o text
<1> DEFINE b == Join(v, <<>>)
           T == {t \in Text : NL \notin ToSet(t) => Join(Write(v, t), <<>>) = b \o t}
<1>1. <<>> \in Text /\ NL \in Token
  BY NLIsToken DEF Text
<1>2. Write(v, <<>>) = Append(v, <<>>) /\ Append(v, <<>>) \in Lines
  BY <1>1, WriteLines, AppendLine
<1>3. b \in Text
  BY <1>1, JoinAppend
<1>4. <<>> \in T
  <2>1. Join(Append(v, <<>>), <<>>) = IF v = <<>> THEN <<>> ELSE b \o (<<>> \o <<>>)
    BY <1>1, JoinAppend
  <2>2. b \o <<>> = b /\ <<>> \o <<>> = <<>> /\ Join(<<>>, <<>>) = <<>>
    BY <1>3, JoinNone DEF Text
  <2> HIDE DEF b
  <2>3. Join(Append(v, <<>>), <<>>) = b
    BY <2>1, <2>2 DEF b
  <2> QED
    BY <1>1, <1>2, <2>2, <2>3
<1>5. ASSUME NEW t \in T, NEW x \in Token PROVE Append(t, x) \in T
  <2>1. t \in Text /\ Append(t, x) \in Text
    BY DEF Text
  <2>2. ToSet(Append(t, x)) = ToSet(t) \cup {x}
    BY <2>1, AppendMembers DEF Text
  <2>3. Join(Write(v, Append(t, x)), <<>>) = Join(Write(v, t), <<>>) \o (IF x = NL THEN <<>> ELSE <<x>>)
    BY <1>1, <2>1, JoinWrite
  <2>4. b \o Append(t, x) = (b \o t) \o <<x>>
    <3>1. Append(t, x) = t \o <<x>> /\ <<x>> \in Text
      BY <2>1, AppendConcat DEF Text
    <3> QED
      BY <1>3, <2>1, <3>1, ConcatAssociative DEF Text
  <2> HIDE DEF b
  <2> QED
    BY <2>1, <2>2, <2>3, <2>4
<1> HIDE DEF T
<1>6. T = Seq(Token)
  <2>1. T \in SUBSET Seq(Token)
    BY DEF T, Text
  <2> QED
    BY <1>4, <1>5, <2>1, SeqInduct
<1>7. Join(Write(v, text), <<>>) = b \o text
  BY <1>6 DEF T, Text
<1>8. Join(Write(v, Append(text, NL)), <<>>) = Join(Write(v, text), <<>>) \o <<>>
  BY <1>1, JoinWrite
<1>9. (b \o text) \o <<>> = b \o text
  BY <1>3 DEF Text
<1> QED
  BY <1>3, <1>7, <1>8, <1>9

-------------------------------------------------------------------------------
(* What restic lists. *)

Plain == Token \ {NL}

(* A text without line breaks holds none. *)
LEMMA PlainText ==
  ASSUME NEW t \in Seq(Plain)
  PROVE  t \in Text /\ NL \notin ToSet(t)
<1>1. \A i \in DOMAIN t : t[i] \in Plain
  OBVIOUS
<1>2. t \in Text
  BY DEF Text, Plain
<1>3. NL \notin ToSet(t)
  BY <1>1, Zenon DEF ToSet, Plain
<1> QED
  BY <1>2, <1>3

(* A listing is one line; its length tells the number of snapshots. *)
LEMMA ListingIs ==
  ASSUME NEW n \in Nat
  PROVE  Listing(n) \in Seq(Plain) /\ Len(Listing(n)) = 2 * n + 2
<1> DEFINE m == [i \in 1..(2 * n) |-> IF i % 2 = 1 THEN "{sna" ELSE "pshot}"]
<1>1. "[" \in Plain /\ "]" \in Plain /\ "{sna" \in Plain /\ "pshot}" \in Plain
  BY DEF Plain, Token, NL
<1>2. m \in Seq(Plain) /\ Len(m) = 2 * n
  <2>1. 2 * n \in Nat
    OBVIOUS
  <2>2. \A i \in 1..(2 * n) : m[i] \in Plain
    BY <1>1
  <2>3. m = [i \in 1..(2 * n) |-> m[i]]
    OBVIOUS
  <2> HIDE DEF m
  <2> QED
    BY <2>1, <2>2, <2>3
<1>3. Listing(n) = <<"[">> \o m \o <<"]">>
  BY DEF Listing
<1> HIDE DEF m
<1>4. <<"[">> \in Seq(Plain) /\ <<"]">> \in Seq(Plain)
  <2>1. \A x \in Plain : <<x>> \in Seq(Plain)
    OBVIOUS
  <2> QED
    BY <1>1, <2>1
<1> QED
  BY <1>2, <1>3, <1>4

(* The line break that ends a listing is the last of what is to come. *)
LEMMA EndsLine ==
  ASSUME NEW b \in Text, NEW p \in Text, NEW l \in Seq(Plain), p # <<>>,
         b \o p = l \o <<NL>>
  PROVE  \E u \in Seq(Plain) : p = u \o <<NL>> /\ b \o u = l
<1> DEFINE m == Len(b)
           q == Len(p)
           u == SubSeq(p, 1, q - 1)
<1>1. m \in Nat /\ q \in Nat /\ q # 0 /\ Len(l) \in Nat /\ l \in Text /\ NL \in Token
  BY PlainText, NLIsToken DEF Text
<1>2. m + q = Len(l) + 1
  <2>1. Len(b \o p) = m + q /\ Len(l \o <<NL>>) = Len(l) + 1
    BY <1>1 DEF Text
  <2> QED
    BY <2>1
<1>3. \A i \in 1..q : p[i] = (l \o <<NL>>)[m + i]
  <2>1. \A i \in 1..q : (b \o p)[m + i] = p[i]
    BY <1>1 DEF Text
  <2> QED
    BY <2>1
<1>4. /\ \A i \in 1..Len(l) : (l \o <<NL>>)[i] = l[i] /\ l[i] \in Plain
      /\ (l \o <<NL>>)[Len(l) + 1] = NL
  BY <1>1 DEF Text
<1>5. p[q] = NL
  BY <1>1, <1>2, <1>3, <1>4
<1>6. \A i \in 1..(q - 1) : p[i] = l[m + i] /\ l[m + i] \in Plain /\ m + i \in 1..Len(l)
  <2>1. \A i \in 1..(q - 1) : i \in 1..q /\ m + i \in 1..Len(l)
    BY <1>1, <1>2
  <2> HIDE DEF m, q
  <2> QED
    BY <1>3, <1>4, <2>1
<1>7. /\ u \in Text /\ Len(u) = q - 1 /\ \A i \in 1..(q - 1) : u[i] = p[i]
      /\ p = Append(u, p[q])
  <2> DEFINE k == q - 1
  <2>1. k \in Nat /\ q = k + 1
    BY <1>1
  <2> HIDE DEF k
  <2>2. /\ SubSeq(p, 1, k) \in Text /\ Len(SubSeq(p, 1, k)) = k
        /\ \A i \in 1..k : SubSeq(p, 1, k)[i] = p[i]
        /\ p = Append(SubSeq(p, 1, k), p[k + 1])
    BY <2>1, SplitLast DEF Text
  <2> QED
    BY <2>1, <2>2 DEF k
<1> HIDE DEF u, m, q
<1>8. u \in Seq(Plain)
  <2>1. \A i \in 1..Len(u) : u[i] \in Plain
    BY <1>6, <1>7
  <2>2. u = [i \in 1..Len(u) |-> u[i]] /\ Len(u) \in Nat
    BY <1>7 DEF Text
  <2> QED
    BY <2>1, <2>2, SMTT(30)
<1>9. p = u \o <<NL>>
  BY <1>1, <1>5, <1>7, AppendConcat DEF Text
<1>10. b \o u = l
  <2>1. Len(b \o u) = Len(l) /\ b \o u \in Text
    BY <1>1, <1>2, <1>7 DEF Text, m
  <2>2. ASSUME NEW i \in 1..Len(l) PROVE (b \o u)[i] = l[i]
    <3>1. CASE i <= m
      <4>1. (b \o u)[i] = b[i] /\ (b \o p)[i] = b[i]
        BY <1>1, <1>7, <2>2, <3>1 DEF Text, m
      <4> QED
        BY <1>4, <4>1
    <3>2. CASE i > m
      <4> DEFINE j == i - m
      <4>1. j \in 1..(q - 1) /\ i = m + j
        BY <1>1, <1>2, <2>2, <3>2
      <4> HIDE DEF j
      <4>2. (b \o u)[m + j] = u[j]
        BY <1>1, <1>7, <4>1 DEF Text, m
      <4> QED
        BY <1>6, <1>7, <4>1, <4>2
    <3>3. i <= m \/ i > m
      BY <1>1, <2>2
    <3> QED
      BY <3>1, <3>2, <3>3
  <2>3. l = [i \in 1..Len(l) |-> l[i]]
    BY <1>1 DEF Text
  <2>4. b \o u = [i \in 1..Len(l) |-> (b \o u)[i]]
    <3> DEFINE v == b \o u
    <3>1. v \in Text /\ Len(v) = Len(l)
      BY <2>1
    <3> HIDE DEF v
    <3>2. v = [i \in 1..Len(v) |-> v[i]]
      BY <3>1 DEF Text
    <3> QED
      BY <3>1, <3>2 DEF v
  <2> QED
    BY <2>2, <2>3, <2>4
<1> QED
  BY <1>8, <1>9, <1>10

-------------------------------------------------------------------------------
(* The inductive invariant. *)

(* A command fits the stage it is run in. *)
CommandFits ==
  /\ cmd = "init" => stage = "backup"
  /\ cmd = "work" => stage \in {"backup", "restore"}
  /\ cmd = "snapshots" => stage \in {"backup", "restore", "refresh"}

(* What is done and what is left to do make up the agenda. *)
Pending ==
  /\ stage \in Stages =>
       /\ missing = FilterJobs(jobs, flags[stage]).missing
       /\ done \o Tagged(stage, todo) = Before[stage] \o Named(stage)
  /\ stage \in {"backup", "restore"} => Valid("unlock")
  /\ stage = "restore" => Valid("backup")
  /\ stage \notin Stages => done = Agenda /\ \A s \in Stages : Valid(s)
  /\ exit = "fatal" /\ stage \in Stages /\ todo = <<>> => missing # {}

(* The output of a listing that failed, though the repository is there,     *)
(* does not say that there is none, unless restic did so for a fault.       *)
Quiet == Token \ {MissingMessage[1]}
Honest ==
  /\ cmd = "snapshots" /\ failed /\ Found =>
       Misreported \/ (pipe \in Seq(Quiet) /\ Join(lines, <<NL>>) \in Seq(Quiet))
  /\ cmd = "init" => ~Found \/ Misreported

(* What restic says when the repository is missing has arrived up to some   *)
(* place, and says it in one piece unless that piece was cut.               *)
Says(text) ==
  \E i \in 1..(Len(text) - 1) : text[i] = MissingMessage[1] /\ text[i + 1] = MissingMessage[2]
Excused == cut \/ <<stage, job, "snapshots">> \in faults
Telling ==
  /\ stage = "backup" /\ cmd = "snapshots" /\ ~Found =>
       \/ Excused
       \/ /\ failed
          /\ \E p \in 0..7 : /\ p # 3
                             /\ pipe = SubSeq(NoConfig, p + 1, 7)
                             /\ p >= 4 => Says(Join(lines, <<NL>>))
  /\ stage = "backup" /\ cmd = "work" /\ ~Found => Excused

(* What is listed has arrived up to some place; and the gauges show what    *)
(* was listed before.                                                       *)
Arrived(n) ==
  \/ pipe # <<>> /\ Join(lines, <<>>) \o pipe = Listing(n) \o <<NL>>
  \/ pipe = <<>> /\ Join(lines, <<>>) = Listing(n)
Counted(m) ==
  \A n \in Name :
    LET Of == {k \in 1..m : NameOf[listed[k][1]] = n}
    IN  \/ Of = {} /\ current[n] = 0
        \/ \E k \in Of : (\A i \in Of : i <= k) /\ current[n] = listed[k][2]
Listening == stage = "refresh" /\ cmd = "snapshots" /\ ~failed
Counting ==
  /\ stage \notin {"refresh", "serving"} => listed = <<>> /\ current = [n \in Name |-> 0]
  /\ Listening => /\ listed # <<>>
                  /\ \E n \in 0..MaxSnapshots :
                       listed[Len(listed)] = <<job, n>> /\ Arrived(n)
  /\ Counted(IF Listening THEN Len(listed) - 1 ELSE Len(listed))

BInv == BatchTypeOK /\ CommandFits /\ Pending /\ Honest /\ Telling /\ Counting

-------------------------------------------------------------------------------
(* Texts put together. *)
LEMMA TextConcat ==
  ASSUME NEW s \in Text, NEW t \in Text
  PROVE  /\ s \o t \in Text /\ Len(s \o t) = Len(s) + Len(t)
         /\ \A i \in 1..Len(s) : (s \o t)[i] = s[i]
         /\ \A i \in 1..Len(t) : (s \o t)[Len(s) + i] = t[i]
BY DEF Text

(* Their order of composition does not matter. *)
LEMMA TextAssociative ==
  ASSUME NEW s \in Text, NEW t \in Text, NEW u \in Text
  PROVE  (s \o t) \o u = s \o (t \o u)
BY ConcatAssociative DEF Text

(* What main is given. *)
LEMMA GivenType ==
  ASSUME BatchTypeOK
  PROVE  /\ jobs \in Seq(Job) /\ jobs # <<>>
         /\ \A s \in Stages : flags[s] \in Words
         /\ lines \in Lines /\ pipe \in Text
<1>1. jobs \in Seq(Job) /\ jobs # <<>>
  BY BatchAssumption DEF BatchTypeOK
<1>2. flags \in Flags
  BY BatchAssumption DEF BatchTypeOK
<1>3. \A s \in Stages : flags[s] \in Words
  BY <1>2 DEF Flags, Stages, Words
<1> QED
  BY <1>1, <1>3 DEF BatchTypeOK, Lines, Text

(* The first job of the list, and the others. *)
LEMMA FirstJob ==
  ASSUME BatchTypeOK, todo # <<>>
  PROVE  /\ job \in Job /\ Tail(todo) \in Seq(Job)
         /\ RepoOf[job] \in Repo /\ NameOf[job] \in Name
<1>1. todo \in Seq(Job)
  BY DEF BatchTypeOK
<1>2. Head(todo) \in Job /\ Tail(todo) \in Seq(Job)
  BY <1>1
<1> QED
  BY <1>2, BatchAssumption DEF job

Recorded == (Stages \cup {"refresh"}) \X Job \X {"snapshots", "open", "init", "work"}

(* Faults are recorded with a stage, a job and a command. *)
LEMMA FaultType ==
  ASSUME BatchTypeOK, todo # <<>>, stage \in Stages \cup {"refresh"},
         NEW c \in {"snapshots", "open", "init", "work"}, Fault(c)
  PROVE  faults' \subseteq Recorded /\ <<stage, job, c>> \in faults' /\ faults \subseteq faults'
<1>1. job \in Job
  BY FirstJob
<1>2. <<stage, job, c>> \in Recorded
  BY <1>1 DEF Recorded
<1>3. faults \subseteq Recorded
  BY DEF BatchTypeOK, Recorded
<1> QED
  BY <1>2, <1>3 DEF Fault

(* What restic prints is text. *)
LEMMA SpawnedType ==
  /\ NoConfig \in Text /\ Len(NoConfig) = 7
  /\ NoConfig[3] = MissingMessage[1] /\ NoConfig[4] = MissingMessage[2]
  /\ <<"Fatal", NL>> \in Seq(Quiet) /\ <<"Fatal", NL>> \in Text /\ <<>> \in Text
  /\ \A n \in Nat : Listing(n) \o <<NL>> \in Text
<1> DEFINE m == MissingMessage
           f == <<"Fatal", NL>>
           e == <<NL, "repo", NL>>
<1>1. m[1] \in Token /\ m[2] \in Token
  <2>1. 1 \in DOMAIN m /\ 2 \in DOMAIN m
    BY DEF MissingMessage
  <2>2. m[1] \in ToSet(m) /\ m[2] \in ToSet(m)
    BY <2>1, Zenon DEF ToSet
  <2> QED
    BY <2>2 DEF Token
<1>2. m \in Text /\ Len(m) = 2
  <2>1. m = <<m[1], m[2]>>
    BY DEF MissingMessage
  <2>2. \A x, y \in Token : <<x, y>> \in Text /\ Len(<<x, y>>) = 2
    BY DEF Text
  <2> HIDE DEF m
  <2> QED
    BY <1>1, <2>1, <2>2
<1>3. "Fatal" \in Token /\ "repo" \in Token /\ NL \in Token
  BY NLIsToken DEF Token
<1>4. f \in Text /\ Len(f) = 2 /\ e \in Text /\ Len(e) = 3
  <2>1. \A x, y, z \in Token : /\ <<x, y>> \in Text /\ Len(<<x, y>>) = 2
                              /\ <<x, y, z>> \in Text /\ Len(<<x, y, z>>) = 3
    BY DEF Text
  <2> QED
    BY <1>3, <2>1
<1>5. NoConfig = f \o m \o e
  BY DEF NoConfig
<1>6. m[1] # "Fatal" /\ m[1] # NL
  BY DEF MissingMessage, NL
<1>7. f \in Seq(Quiet)
  <2>1. \A x, y \in Quiet : <<x, y>> \in Seq(Quiet)
    OBVIOUS
  <2> QED
    BY <1>3, <1>6, <2>1 DEF Quiet
<1> HIDE DEF m, f, e
<1>8. f \o m \in Text /\ Len(f \o m) = 4 /\ (f \o m)[3] = m[1] /\ (f \o m)[4] = m[2]
  <2>1. /\ f \o m \in Text /\ Len(f \o m) = Len(f) + Len(m)
        /\ \A i \in 1..Len(m) : (f \o m)[Len(f) + i] = m[i]
    BY <1>2, <1>4, TextConcat
  <2>2. 1 \in 1..Len(m) /\ 2 \in 1..Len(m) /\ Len(f) + 1 = 3 /\ Len(f) + 2 = 4
    BY <1>2, <1>4
  <2> QED
    BY <1>2, <1>4, <2>1, <2>2
<1>9. /\ NoConfig \in Text /\ Len(NoConfig) = 7
      /\ NoConfig[3] = m[1] /\ NoConfig[4] = m[2]
  <2> DEFINE g == f \o m
  <2>1. g \in Text /\ Len(g) = 4 /\ g[3] = m[1] /\ g[4] = m[2]
    BY <1>8
  <2> HIDE DEF g
  <2>2. /\ g \o e \in Text /\ Len(g \o e) = Len(g) + Len(e)
        /\ \A i \in 1..Len(g) : (g \o e)[i] = g[i]
    BY <1>4, <2>1, TextConcat
  <2>3. 3 \in 1..Len(g) /\ 4 \in 1..Len(g)
    BY <2>1
  <2>4. NoConfig = g \o e
    BY <1>5 DEF g
  <2> QED
    BY <1>4, <2>1, <2>2, <2>3, <2>4
<1>10. ASSUME NEW n \in Nat PROVE Listing(n) \o <<NL>> \in Text
  <2>1. Listing(n) \in Text
    BY ListingIs, PlainText
  <2> QED
    BY <1>3, <2>1 DEF Text
<1>11. <<>> \in Text
  BY DEF Text
<1> QED
  BY <1>4, <1>7, <1>9, <1>10, <1>11 DEF f, m

(* A listing that has arrived is read. *)
LEMMA Heard ==
  ASSUME BatchTypeOK, pipe = <<>>, NEW n \in Nat, Arrived(n)
  PROVE  SnapshotsIn(lines) = {n}
<1>1. Join(lines, <<>>) = Listing(n)
  BY DEF Arrived
<1>2. \A k \in Nat : Len(Listing(k)) = 2 * k + 2
  BY ListingIs
<1>3. n \in 0..Len(Join(lines, <<>>))
  BY <1>1, <1>2
<1>4. \A k \in 0..Len(Join(lines, <<>>)) : Join(lines, <<>>) = Listing(k) => k = n
  BY <1>1, <1>2
<1> QED
  BY <1>1, <1>3, <1>4 DEF SnapshotsIn

(* A listing goes on arriving. *)
LEMMA DeliverArrived ==
  ASSUME BatchTypeOK, NEW n \in Nat, Arrived(n), NEW k \in 1..Len(pipe), Deliver(k)
  PROVE  Arrived(n)'
<1> DEFINE b == Join(lines, <<>>)
           l == Listing(n)
           t == SubSeq(pipe, 1, k)
           r == SubSeq(pipe, k + 1, Len(pipe))
<1>1. lines \in Lines /\ pipe \in Text /\ pipe # <<>> /\ k \in Nat /\ Len(pipe) \in Nat
  BY GivenType DEF Text
<1>2. b \in Text
  <2>1. <<>> \in Text
    BY DEF Text
  <2> QED
    BY <1>1, <2>1, JoinAppend
<1>3. lines' = Write(lines, t) /\ pipe' = r
  BY DEF Deliver
<1>4. b \o pipe = l \o <<NL>> /\ l \in Seq(Plain)
  BY <1>1, ListingIs DEF Arrived
<1> HIDE DEF b, l
<1>5. PICK u \in Seq(Plain) : pipe = u \o <<NL>> /\ b \o u = l
  BY <1>1, <1>2, <1>4, EndsLine
<1>6. u \in Text /\ NL \in Token /\ Len(pipe) = Len(u) + 1 /\ Len(u) \in Nat
  <2>1. u \in Text /\ NL \in Token
    BY PlainText, NLIsToken
  <2> QED
    BY <1>5, <2>1 DEF Text
<1>7. CASE k = Len(pipe)
  <2>1. t = pipe /\ r = <<>>
    BY <1>1, <1>7 DEF Text
  <2>2. t = Append(u, NL)
    BY <1>5, <1>6, <2>1, AppendConcat DEF Text
  <2>3. Join(Write(lines, Append(u, NL)), <<>>) = b \o u
    BY <1>1, <1>5, PlainText, JoinText DEF b
  <2> HIDE DEF t, r
  <2>4. Join(lines', <<>>) = l /\ pipe' = <<>>
    BY <1>3, <1>5, <2>1, <2>2, <2>3
  <2> QED
    BY <2>4 DEF Arrived, l
<1>8. CASE k # Len(pipe)
  <2>1. /\ t \in Text /\ Len(t) = k /\ \A i \in 1..k : t[i] = pipe[i]
        /\ r \in Text /\ Len(r) = Len(pipe) - k /\ t \o r = pipe
    BY <1>1, CutInTwo DEF Text
  <2>2. \A i \in 1..k : i \in 1..Len(u) /\ pipe[i] = u[i] /\ u[i] \in Plain
    BY <1>1, <1>5, <1>6, <1>8
  <2> HIDE DEF t, r
  <2>3. t \in Seq(Plain)
    <3>1. t = [i \in 1..k |-> t[i]]
      BY <2>1 DEF Text
    <3>2. \A i \in 1..k : t[i] \in Plain
      BY <2>1, <2>2
    <3> QED
      BY <1>1, <3>1, <3>2
  <2>4. Join(Write(lines, t), <<>>) = b \o t
    BY <1>1, <2>3, PlainText, JoinText DEF b
  <2>5. (b \o t) \o r = b \o pipe
    <3>1. b \in Text /\ t \in Text /\ r \in Text
      BY <1>2, <2>1
    <3>2. (b \o t) \o r = b \o (t \o r)
      BY <3>1, TextAssociative
    <3> QED
      BY <2>1, <3>2
  <2>6. r # <<>>
    BY <1>1, <1>8, <2>1
  <2>7. pipe' # <<>> /\ Join(lines', <<>>) \o pipe' = l \o <<NL>>
    BY <1>3, <1>4, <2>4, <2>5, <2>6
  <2> QED
    BY <2>7 DEF Arrived, l
<1> QED
  BY <1>7, <1>8

-------------------------------------------------------------------------------
(* Type correctness. *)
LEMMA TypeInit == Init => BatchTypeOK
<1> SUFFICES ASSUME Init PROVE BatchTypeOK
  OBVIOUS
<1>1. jobs \in Seq(Job) /\ flags \in Flags /\ flags \in CommandLines /\ jobs \in JobLists
  BY BatchAssumption DEF Init
<1>2. flags.unlock \in Words
  BY <1>1 DEF Flags, Words
<1>3. FilterJobs(jobs, flags.unlock) \in Findings
  BY <1>1, <1>2, FilterFinds
<1>4. todo \in Seq(Job) /\ missing \subseteq Name
  BY <1>3 DEF Init, Findings
<1>5. current \in [Name -> 0..MaxSnapshots]
  BY BatchAssumption DEF Init
<1>6. /\ pipe \in Seq(Token) /\ lines \in Seq(Seq(Token)) /\ done \in Seq(Stages \X Job)
      /\ listed \in Seq(Job \X (0..MaxSnapshots))
  BY DEF Init
<1> QED
  BY <1>1, <1>4, <1>5, <1>6 DEF Init, BatchTypeOK, Stages

(* Of a command of which only success counts. *)
LEMMA TypeRunCommand ==
  ASSUME BatchTypeOK, stage \in Stages, todo # <<>>, RunCommand
  PROVE  BatchTypeOK'
<1>1. job \in Job /\ Tail(todo) \in Seq(Job)
  BY FirstJob
<1>2. CASE JobDone /\ UNCHANGED faults
  <2>1. done' \in Seq(Stages \X Job)
    <3>1. done \in Seq(Stages \X Job)
      BY DEF BatchTypeOK
    <3>2. <<stage, job>> \in Stages \X Job
      BY <1>1
    <3> QED
      BY <1>2, <3>1, <3>2 DEF JobDone
  <2> QED
    BY <1>1, <1>2, <2>1 DEF BatchTypeOK, RunCommand, JobDone, given, output
<1>3. CASE Fatal /\ UNCHANGED faults
  BY <1>3 DEF BatchTypeOK, RunCommand, Fatal, given, output
<1>4. CASE Fault("work") /\ Fatal
  <2>1. faults' \subseteq Recorded
    BY <1>4, FaultType
  <2> QED
    BY <1>4, <2>1 DEF BatchTypeOK, RunCommand, Fatal, given, output, Recorded
<1> QED
  BY <1>2, <1>3, <1>4 DEF RunCommand

(* Of the start of a listing. *)
LEMMA TypeSpawn ==
  ASSUME BatchTypeOK, todo # <<>>, NEW text \in Text, NEW status \in BOOLEAN,
         Spawn(text, status),
         listed' \in Seq(Job \X (0..MaxSnapshots)), faults' \subseteq Recorded
  PROVE  BatchTypeOK'
<1>1. pipe' \in Seq(Token) /\ lines' \in Seq(Seq(Token))
  BY DEF Spawn, Text
<1> QED
  BY <1>1 DEF BatchTypeOK, Spawn, given, Recorded

(* Every step keeps the types. *)
LEMMA TypeStep == BInv /\ [Next]_vars => BatchTypeOK'
<1> SUFFICES ASSUME BInv, [Next]_vars PROVE BatchTypeOK'
  OBVIOUS
<1> USE DEF BInv
<1>1. /\ jobs \in Seq(Job) /\ jobs # <<>> /\ \A s \in Stages : flags[s] \in Words
      /\ lines \in Lines /\ pipe \in Text
  BY GivenType
<1>2. CASE EndStage
  <2>1. CASE Fatal
    BY <1>2, <2>1 DEF EndStage, Fatal, BatchTypeOK, given, output
  <2>2. CASE UNCHANGED <<exit, cmd, output, done>>
    <3>1. \A s \in Stages : FilterJobs(jobs, flags[s]).jobs \in Seq(Job)
                          /\ FilterJobs(jobs, flags[s]).missing \subseteq Name
      BY <1>1, FilterFinds DEF Findings
    <3>2. \A s \in {"backup", "restore"} : EnterStage(s) =>
            stage' \in Stages /\ todo' \in Seq(Job) /\ missing' \subseteq Name
      BY <3>1 DEF EnterStage, Stages
    <3>3. ~Fatal => \/ EnterStage("backup") \/ EnterStage("restore")
                    \/ stage' \in {"push", "start"} /\ UNCHANGED <<todo, missing>>
      BY <1>2, Zenon DEF EndStage, InStage, Stages
    <3>4. cmd = "next"
      BY <1>2 DEF EndStage, BatchTypeOK
    <3>5. ~Fatal => /\ stage' \in Stages \cup {"push", "start"}
                    /\ todo' \in Seq(Job) /\ missing' \subseteq Name
      BY <3>2, <3>3 DEF BatchTypeOK
    <3>6. ~Fatal => BatchTypeOK'
      BY <1>2, <2>2, <3>4, <3>5 DEF EndStage, BatchTypeOK, given, output
    <3> QED
      BY <2>1, <3>6
  <2> QED
    BY <1>2, <2>1, <2>2 DEF EndStage
<1>3. CASE Unlock
  BY <1>3, TypeRunCommand DEF Unlock, InStage
<1>4. CASE Work
  BY <1>4, TypeRunCommand DEF Work, InStage, BatchTypeOK
<1>5. CASE List
  <2>1. /\ todo # <<>> /\ stage \in Stages \cup {"refresh"}
        /\ listed \in Seq(Job \X (0..MaxSnapshots)) /\ faults \subseteq Recorded
    BY <1>5 DEF List, Stages, BatchTypeOK, Recorded
  <2>2. CASE Spawn(NoConfig, TRUE) /\ UNCHANGED <<listed, faults>>
    BY <2>1, <2>2, TypeSpawn, SpawnedType
  <2>3. CASE \/ Fault("snapshots") /\ Spawn(<<"Fatal", NL>>, TRUE) /\ UNCHANGED listed
             \/ Fault("open") /\ Spawn(NoConfig, TRUE) /\ UNCHANGED listed
    <3>1. faults' \subseteq Recorded
      BY <2>1, <2>3, FaultType
    <3> QED
      BY <2>1, <2>3, <3>1, TypeSpawn, SpawnedType
  <2>4. CASE Spawn(<<>>, FALSE) /\ UNCHANGED <<listed, faults>>
    BY <2>1, <2>4, TypeSpawn, SpawnedType
  <2>5. ASSUME NEW n \in 0..MaxSnapshots, Spawn(Listing(n) \o <<NL>>, FALSE),
               listed' = Append(listed, <<job, n>>), UNCHANGED faults
        PROVE  BatchTypeOK'
    <3>1. job \in Job
      BY <2>1, FirstJob
    <3>2. listed' \in Seq(Job \X (0..MaxSnapshots))
      BY <2>1, <2>5, <3>1
    <3>3. Listing(n) \o <<NL>> \in Text
      BY SpawnedType
    <3> QED
      BY <2>1, <2>5, <3>2, <3>3, TypeSpawn
  <2> QED
    BY <1>5, <2>2, <2>3, <2>4, <2>5 DEF List
<1>6. ASSUME NEW k \in 1..Len(pipe), Deliver(k) PROVE BatchTypeOK'
  <2>1. SubSeq(pipe, 1, k) \in Text /\ SubSeq(pipe, k + 1, Len(pipe)) \in Text
    BY <1>1, CutInTwo DEF Text
  <2>2. Write(lines, SubSeq(pipe, 1, k)) \in Lines
    BY <1>1, <2>1, WriteLines
  <2>3. pipe' \in Seq(Token) /\ lines' \in Seq(Seq(Token)) /\ cut' \in BOOLEAN
    BY <1>6, <2>1, <2>2 DEF Deliver, Text, Lines, BatchTypeOK
  <2> QED
    BY <1>6, <2>3 DEF Deliver, BatchTypeOK, given
<1>7. CASE EnsureInit
  <2>1. cmd' \in {"init", "work"} /\ todo # <<>>
    BY <1>7 DEF EnsureInit, Listed, BatchTypeOK
  <2> QED
    BY <1>7, <2>1 DEF EnsureInit, BatchTypeOK, given, output
<1>8. CASE InitRepo
  <2>1. todo # <<>> /\ stage \in Stages
    BY <1>8 DEF InitRepo, BatchTypeOK, CommandFits, Stages
  <2>2. CASE ~Found /\ exists' = [exists EXCEPT ![RepoOf[job]] = TRUE] /\ cmd' = "work"
             /\ UNCHANGED <<stage, exit, todo, missing, output, done, faults>>
    <3>1. exists' \in [Repo -> BOOLEAN]
      BY <2>2 DEF BatchTypeOK
    <3> QED
      BY <1>8, <2>1, <2>2, <3>1 DEF InitRepo, BatchTypeOK, given, output
  <2>3. CASE Fatal /\ UNCHANGED <<exists, faults>>
    BY <1>8, <2>3 DEF InitRepo, Fatal, BatchTypeOK, given, output
  <2>4. CASE Fault("init") /\ Fatal /\ UNCHANGED exists
    <3>1. faults' \subseteq Recorded
      BY <2>1, <2>4, FaultType
    <3> QED
      BY <1>8, <2>4, <3>1 DEF InitRepo, Fatal, BatchTypeOK, given, output, Recorded
  <2> QED
    BY <1>8, <2>2, <2>3, <2>4 DEF InitRepo
<1>9. CASE CheckRestore
  <2>1. todo # <<>>
    BY <1>9 DEF CheckRestore, Listed, BatchTypeOK
  <2> QED
    BY <1>9, <2>1 DEF CheckRestore, Fatal, BatchTypeOK, given, output
<1>10. CASE Refresh
  <2>1. todo # <<>> /\ pipe = <<>>
    BY <1>10 DEF Refresh, Listed, BatchTypeOK
  <2>2. current' \in [Name -> 0..MaxSnapshots]
    <3>1. CASE UNCHANGED current
      BY <3>1 DEF BatchTypeOK
    <3>2. CASE ~failed
      <4>1. PICK n \in 0..MaxSnapshots : Arrived(n)
        BY <1>10, <3>2 DEF Refresh, Listed, Counting, Listening
      <4>2. SnapshotsIn(lines) = {n}
        BY <2>1, <4>1, Heard, BatchAssumption
      <4>3. current' = [current EXCEPT ![NameOf[job]] = n]
        BY <1>10, <3>2, <4>2 DEF Refresh
      <4>4. current \in [Name -> 0..MaxSnapshots]
        BY DEF BatchTypeOK
      <4> QED
        BY <4>3, <4>4
    <3> QED
      BY <1>10, <3>1, <3>2 DEF Refresh
  <2>3. todo' \in Seq(Job) /\ cmd' = "next" /\ stage' \in {"serving", stage}
    BY <1>10, <2>1, FirstJob DEF Refresh
  <2> QED
    BY <1>10, <2>2, <2>3 DEF Refresh, BatchTypeOK, given, output
<1>11. CASE Push
  BY <1>11 DEF Push, BatchTypeOK, given, output
<1>12. CASE StartScheduler
  BY <1>1, <1>12 DEF StartScheduler, BatchTypeOK, given, output
<1>13. CASE UNCHANGED vars
  BY <1>13 DEF vars, BatchTypeOK, given, output
<1> QED
  BY <1>2, <1>3, <1>4, <1>5, <1>6, <1>7, <1>8, <1>9, <1>10, <1>11, <1>12, <1>13 DEF Next

-------------------------------------------------------------------------------
(* Commands and stages. *)
LEMMA FitsStep == BInv /\ [Next]_vars => CommandFits'
<1> SUFFICES ASSUME BInv, [Next]_vars PROVE CommandFits'
  OBVIOUS
<1> USE DEF BInv
<1>1. CASE EndStage
  <2>1. cmd = "next" /\ cmd' = "next"
    BY <1>1 DEF EndStage, Fatal, BatchTypeOK
  <2> QED
    BY <2>1 DEF CommandFits
<1>2. CASE Unlock \/ Work
  <2>1. cmd' = "next" \/ UNCHANGED <<cmd, stage>>
    BY <1>2 DEF Unlock, Work, RunCommand, JobDone, Fatal
  <2> QED
    BY <2>1 DEF CommandFits
<1>3. CASE List
  BY <1>3 DEF List, Spawn, CommandFits
<1>4. ASSUME NEW k \in 1..Len(pipe), Deliver(k) PROVE CommandFits'
  BY <1>4 DEF Deliver, CommandFits
<1>5. CASE EnsureInit
  BY <1>5 DEF EnsureInit, CommandFits
<1>6. CASE InitRepo
  BY <1>6 DEF InitRepo, Fatal, CommandFits
<1>7. CASE CheckRestore
  BY <1>7 DEF CheckRestore, Fatal, CommandFits
<1>8. CASE Refresh
  BY <1>8 DEF Refresh, CommandFits
<1>9. CASE Push
  BY <1>9 DEF Push, CommandFits
<1>10. CASE StartScheduler
  BY <1>10 DEF StartScheduler, CommandFits
<1>11. CASE UNCHANGED vars
  BY <1>11 DEF vars, CommandFits
<1> QED
  BY <1>1, <1>2, <1>3, <1>4, <1>5, <1>6, <1>7, <1>8, <1>9, <1>10, <1>11 DEF Next

-------------------------------------------------------------------------------
(* The message. *)

(* A text that lacks its first words does not hold it, and one that holds   *)
(* its words one after the other does.                                      *)
LEMMA MessageFound ==
  /\ \A t \in Seq(Quiet) : MissingMessage \notin SubSeqs(t)
  /\ \A t \in Text : Says(t) => MissingMessage \in SubSeqs(t)
<1> DEFINE m == MissingMessage
           x == m[1]
           y == m[2]
<1>1. m = <<x, y>> /\ Len(m) = 2
  BY DEF MissingMessage
<1> HIDE DEF m, x, y
<1>2. ASSUME NEW t \in Seq(Quiet) PROVE m \notin SubSeqs(t)
  <2> SUFFICES ASSUME m \in SubSeqs(t) PROVE FALSE
    OBVIOUS
  <2>1. PICK i \in 0..Len(t), j \in 0..Len(t) : m = SubSeq(t, i + 1, j)
    BY DEF SubSeqs
  <2>2. i \in Nat /\ j \in Nat /\ j <= Len(t) /\ i + 1 \in Nat /\ Len(t) \in Nat
    OBVIOUS
  <2>3. j - i = 2
    <3>1. Len(SubSeq(t, i + 1, j)) = IF i + 1 <= j THEN j - (i + 1) + 1 ELSE 0
      BY <2>2
    <3>2. Len(SubSeq(t, i + 1, j)) = 2
      BY <1>1, <2>1
    <3> QED
      BY <2>2, <3>1, <3>2
  <2>4. i + 1 \in 1..Len(t) /\ SubSeq(t, i + 1, j)[1] = t[i + 1]
    BY <2>2, <2>3
  <2>5. x \in Quiet
    <3>1. t[i + 1] \in Quiet
      BY <2>4
    <3>2. m[1] = t[i + 1]
      BY <2>1, <2>4
    <3> QED
      BY <3>1, <3>2 DEF x
  <2> QED
    BY <2>5 DEF Quiet, x, m
<1>3. ASSUME NEW t \in Text, Says(t) PROVE m \in SubSeqs(t)
  <2>1. PICK i \in 1..(Len(t) - 1) : t[i] = x /\ t[i + 1] = y
    BY <1>3 DEF Says, m, x, y
  <2>2. i \in Nat /\ i >= 1 /\ i + 1 <= Len(t) /\ Len(t) \in Nat
    BY <2>1 DEF Text
  <2>3. SubSeq(t, (i - 1) + 1, i + 1) = <<x, y>>
    <3> DEFINE s == SubSeq(t, i, i + 1)
    <3>1. s \in Seq(Token) /\ Len(s) = 2 /\ s[1] = x /\ s[2] = y
      BY <2>1, <2>2 DEF Text
    <3> HIDE DEF s
    <3>2. s = <<s[1], s[2]>>
      BY <3>1
    <3>3. (i - 1) + 1 = i
      BY <2>2
    <3> QED
      BY <3>1, <3>2, <3>3 DEF s
  <2>4. i - 1 \in 0..Len(t) /\ i + 1 \in 0..Len(t)
    BY <2>2
  <2>5. m = SubSeq(t, (i - 1) + 1, i + 1)
    BY <1>1, <2>3
  <2>6. \E a \in 0..Len(t), c \in 0..Len(t) : m = SubSeq(t, a + 1, c)
    BY <2>4, <2>5, Zenon
  <2> QED
    BY <2>6 DEF SubSeqs
<1> QED
  BY <1>2, <1>3 DEF m

(* A piece that arrives is put under the lines there are. *)
LEMMA DeliverLines ==
  ASSUME BatchTypeOK, NEW k \in 1..Len(pipe), Deliver(k)
  PROVE  \E b \in Text :
           /\ Join(lines', <<NL>>) = b \o SubSeq(pipe, 1, k)
           /\ b = IF lines = <<>> THEN <<>> ELSE Join(lines, <<NL>>) \o <<NL>>
<1> DEFINE b == Join(Append(lines, <<>>), <<NL>>)
           t == SubSeq(pipe, 1, k)
<1>1. lines \in Lines /\ pipe \in Text
  BY GivenType
<1>2. t \in Text /\ <<NL>> \in Text /\ <<>> \in Text
  BY <1>1, CutInTwo, NLIsToken DEF Text
<1> HIDE DEF t
<1>3. b \in Text /\ Join(Write(lines, t), <<NL>>) = b \o t
  BY <1>1, <1>2, JoinLines
<1>4. b = IF lines = <<>> THEN <<>> ELSE Join(lines, <<NL>>) \o <<NL>>
  <2>1. <<NL>> \o <<>> = <<NL>>
    BY <1>2 DEF Text
  <2> QED
    <3>1. lines \in Lines /\ <<>> \in Text /\ <<NL>> \in Text
      BY <1>1, <1>2
    <3>2. b = IF lines = <<>> THEN <<>> ELSE Join(lines, <<NL>>) \o (<<NL>> \o <<>>)
      BY <3>1, JoinAppend
    <3> QED
      BY <2>1, <3>2
<1>5. lines' = Write(lines, t)
  BY DEF Deliver, t
<1> HIDE DEF b
<1> QED
  BY <1>3, <1>4, <1>5 DEF t

(* What the message and the repository depend on did not change. *)
LEMMA HonestKept ==
  ASSUME Honest, UNCHANGED <<stage, cmd, pipe, lines, failed, exists, todo>>,
         faults \subseteq faults'
  PROVE  Honest'
BY DEF Honest, Misreported, Found, job

(* No listing that failed says that a repository is missing that is there,  *)
(* and init is tried on none that is there, unless restic called it so.     *)
LEMMA HonestStep == BInv /\ [Next]_vars => Honest'
<1> SUFFICES ASSUME BInv, [Next]_vars PROVE Honest'
  OBVIOUS
<1> USE DEF BInv
<1>0. ASSUME cmd' \notin {"snapshots", "init"} PROVE Honest'
  BY <1>0 DEF Honest
<1>1. CASE EndStage
  <2>1. cmd = "next" /\ cmd' = "next"
    BY <1>1 DEF EndStage, Fatal, BatchTypeOK
  <2> QED
    BY <1>0, <2>1
<1>2. CASE Unlock \/ Work
  <2>1. RunCommand
    BY <1>2 DEF Unlock, Work
  <2>2. CASE JobDone
    BY <1>0, <2>2 DEF JobDone
  <2>3. CASE Fatal
    BY <2>1, <2>3, HonestKept DEF Fatal, Fault, RunCommand, output
  <2> QED
    BY <2>1, <2>2, <2>3 DEF RunCommand
<1>3. CASE List
  <2>1. exists' = exists /\ todo' = todo /\ cmd' = "snapshots" /\ lines' = <<>>
    BY <1>3 DEF List, Spawn
  <2>2. failed' /\ Found => Misreported' \/ pipe' = <<"Fatal", NL>>
    BY <1>3 DEF List, Spawn, Fault, Misreported, job
  <2>3. Join(lines', <<NL>>) = <<>>
    BY <2>1, JoinNone
  <2>4. <<"Fatal", NL>> \in Seq(Quiet) /\ <<>> \in Seq(Quiet)
    BY SpawnedType
  <2> QED
    BY <2>1, <2>2, <2>3, <2>4 DEF Honest, Found, job
<1>4. ASSUME NEW k \in 1..Len(pipe), Deliver(k) PROVE Honest'
  <2>1. /\ UNCHANGED <<stage, cmd, failed, exists, todo, faults>>
        /\ pipe' = SubSeq(pipe, k + 1, Len(pipe))
    BY <1>4 DEF Deliver
  <2>2. PICK b \in Text :
           /\ Join(lines', <<NL>>) = b \o SubSeq(pipe, 1, k)
           /\ b = IF lines = <<>> THEN <<>> ELSE Join(lines, <<NL>>) \o <<NL>>
    BY <1>4, DeliverLines
  <2>3. ASSUME pipe \in Seq(Quiet), Join(lines, <<NL>>) \in Seq(Quiet)
        PROVE  pipe' \in Seq(Quiet) /\ Join(lines', <<NL>>) \in Seq(Quiet)
    <3>1. SubSeq(pipe, 1, k) \in Seq(Quiet) /\ SubSeq(pipe, k + 1, Len(pipe)) \in Seq(Quiet)
      BY <2>3, CutInTwo
    <3>2. <<NL>> \in Seq(Quiet) /\ <<>> \in Seq(Quiet)
      <4>1. NL \in Quiet
        BY NLIsToken DEF Quiet, MissingMessage, NL
      <4> QED
        BY <4>1
    <3>3. b \in Seq(Quiet)
      BY <2>2, <2>3, <3>2
    <3>4. b \o SubSeq(pipe, 1, k) \in Seq(Quiet)
      BY <3>1, <3>3
    <3> QED
      BY <2>1, <2>2, <3>1, <3>4
  <2> QED
    BY <2>1, <2>3 DEF Honest, Misreported, Found, job
<1>5. CASE EnsureInit
  <2>1. ErrRepoNotFound => ~Found \/ Misreported
    <3> SUFFICES ASSUME ErrRepoNotFound, Found, ~Misreported PROVE FALSE
      OBVIOUS
    <3>1. Join(lines, <<NL>>) \in Seq(Quiet) /\ RepoMissing(lines)
      BY <1>5 DEF EnsureInit, Listed, Honest, ErrRepoNotFound
    <3> QED
      BY <3>1, MessageFound DEF RepoMissing
  <2>2. UNCHANGED <<stage, exists, todo, faults>>
    BY <1>5 DEF EnsureInit
  <2>3. cmd' = IF ErrRepoNotFound THEN "init" ELSE "work"
    BY <1>5 DEF EnsureInit
  <2>4. cmd' = "init" => ~Found' \/ Misreported'
    BY <2>1, <2>2, <2>3 DEF Found, Misreported, job
  <2> QED
    BY <2>3, <2>4 DEF Honest
<1>6. CASE InitRepo
  <2>1. cmd' = "work" \/ (Fatal /\ UNCHANGED exists /\ faults \subseteq faults')
    BY <1>6 DEF InitRepo, Fault
  <2> QED
    BY <1>0, <2>1, HonestKept DEF Fatal, output
<1>7. CASE CheckRestore
  <2>1. cmd' = "work" \/ (Fatal /\ UNCHANGED <<exists, faults>>)
    BY <1>7 DEF CheckRestore
  <2> QED
    BY <1>0, <2>1, HonestKept DEF Fatal, output
<1>8. CASE Refresh
  BY <1>0, <1>8 DEF Refresh
<1>9. CASE Push
  BY <1>9, HonestKept DEF Push, output
<1>10. CASE StartScheduler
  <2>1. cmd' = "next"
    BY <1>10 DEF StartScheduler, CommandFits, BatchTypeOK
  <2> QED
    BY <1>0, <2>1
<1>11. CASE UNCHANGED vars
  BY <1>11, HonestKept DEF vars, output
<1> QED
  BY <1>1, <1>2, <1>3, <1>4, <1>5, <1>6, <1>7, <1>8, <1>9, <1>10, <1>11 DEF Next

(* A text that holds the message still does when more follows. *)
LEMMA SaysMore ==
  ASSUME NEW s \in Text, NEW t \in Text, Says(s)
  PROVE  Says(s \o t)
<1>1. PICK i \in 1..(Len(s) - 1) : s[i] = MissingMessage[1] /\ s[i + 1] = MissingMessage[2]
  BY DEF Says
<1>2. Len(s) \in Nat /\ Len(t) \in Nat
  BY DEF Text
<1>3. Len(s \o t) = Len(s) + Len(t) /\ \A j \in 1..Len(s) : (s \o t)[j] = s[j]
  BY TextConcat
<1>4. i \in 1..(Len(s \o t) - 1) /\ i \in 1..Len(s) /\ i + 1 \in 1..Len(s)
  BY <1>1, <1>2, <1>3
<1> QED
  BY <1>1, <1>3, <1>4 DEF Says

(* The end of the report, from some place on. *)
LEMMA ReportRest ==
  ASSUME NEW p \in 0..7
  PROVE  /\ SubSeq(NoConfig, p + 1, 7) \in Text /\ Len(SubSeq(NoConfig, p + 1, 7)) = 7 - p
         /\ \A i \in 1..(7 - p) : SubSeq(NoConfig, p + 1, 7)[i] = NoConfig[p + i]
<1>1. NoConfig \in Text /\ Len(NoConfig) = 7
  BY SpawnedType
<1>2. CASE p = 0
  <2>1. NoConfig = SubSeq(NoConfig, 1, 7)
    BY <1>1 DEF Text
  <2>2. p + 1 = 1 /\ 7 - p = 7 /\ \A i \in 1..7 : p + i = i
    BY <1>2
  <2> HIDE DEF NoConfig
  <2> QED
    BY <1>1, <2>1, <2>2
<1>3. CASE p # 0
  <2>1. p \in 1..Len(NoConfig)
    BY <1>1, <1>3
  <2>2. NoConfig \in Seq(Token)
    BY <1>1 DEF Text
  <2> DEFINE r == SubSeq(NoConfig, p + 1, Len(NoConfig))
  <2>3. /\ r \in Seq(Token) /\ Len(r) = Len(NoConfig) - p
        /\ \A i \in 1..(Len(NoConfig) - p) : r[i] = NoConfig[p + i]
    BY <2>1, <2>2, CutInTwo
  <2>4. r = SubSeq(NoConfig, p + 1, 7)
    BY <1>1
  <2> HIDE DEF r
  <2> QED
    BY <1>1, <2>3, <2>4 DEF Text
<1> QED
  BY <1>2, <1>3

(* The report arrives in pieces; it is cut if one ends within the message. *)
LEMMA ReportArrives ==
  ASSUME BatchTypeOK, NEW k \in 1..Len(pipe), Deliver(k),
         NEW p \in 0..7, p # 3, pipe = SubSeq(NoConfig, p + 1, 7),
         p >= 4 => Says(Join(lines, <<NL>>))
  PROVE  \/ cut'
         \/ \E q \in 0..7 : /\ q # 3 /\ pipe' = SubSeq(NoConfig, q + 1, 7)
                            /\ q >= 4 => Says(Join(lines', <<NL>>))
<1> DEFINE t == SubSeq(pipe, 1, k)
           q == p + k
<1>1. p \in Nat /\ NoConfig \in Text /\ Len(NoConfig) = 7
  BY SpawnedType
<1>2. /\ Len(pipe) = 7 - p /\ pipe \in Text
      /\ \A i \in 1..(7 - p) : pipe[i] = NoConfig[p + i]
  BY ReportRest
<1>3. k \in Nat /\ k >= 1 /\ q \in 0..7 /\ q = p + k
  BY <1>1, <1>2
<1>4. /\ t \in Text /\ Len(t) = k /\ \A i \in 1..k : t[i] = pipe[i]
      /\ pipe' \in Text /\ Len(pipe') = 7 - q
      /\ \A i \in 1..(7 - q) : pipe'[i] = NoConfig[q + i]
  <2>1. pipe' = SubSeq(pipe, k + 1, Len(pipe))
    BY DEF Deliver
  <2>2. /\ t \in Text /\ Len(t) = k /\ \A i \in 1..k : t[i] = pipe[i]
        /\ pipe' \in Text /\ Len(pipe') = Len(pipe) - k
        /\ \A i \in 1..(Len(pipe) - k) : pipe'[i] = pipe[k + i]
    BY <1>2, <2>1, CutInTwo DEF Text
  <2> HIDE DEF t
  <2>3. Len(pipe) - k = 7 - q
    BY <1>1, <1>2, <1>3
  <2>4. \A i \in 1..(7 - q) : k + i \in 1..(7 - p) /\ p + (k + i) = q + i
    BY <1>1, <1>3
  <2> HIDE DEF q
  <2>5. \A i \in 1..(7 - q) : pipe'[i] = NoConfig[q + i]
    BY <1>2, <2>2, <2>3, <2>4
  <2> QED
    BY <2>2, <2>3, <2>5
<1>5. pipe' = SubSeq(NoConfig, q + 1, 7)
  <2> DEFINE r == SubSeq(NoConfig, q + 1, 7)
  <2>1. r \in Text /\ Len(r) = 7 - q /\ \A i \in 1..(7 - q) : r[i] = NoConfig[q + i]
    <3> HIDE DEF q
    <3> QED
      BY <1>3, ReportRest
  <2> HIDE DEF r, q
  <2>2. r = [i \in 1..(7 - q) |-> r[i]] /\ pipe' = [i \in 1..(7 - q) |-> pipe'[i]]
    BY <1>4, <2>1 DEF Text
  <2>3. \A i \in 1..(7 - q) : r[i] = pipe'[i]
    BY <1>4, <2>1
  <2> QED
    BY <2>2, <2>3 DEF r
<1>6. PICK b \in Text :
         /\ Join(lines', <<NL>>) = b \o t
         /\ b = IF lines = <<>> THEN <<>> ELSE Join(lines, <<NL>>) \o <<NL>>
  BY DeliverLines
<1>7. lines \in Lines
  BY GivenType
<1> HIDE DEF t
<1>8. Len(b \o t) = Len(b) + k /\ \A i \in 1..k : (b \o t)[Len(b) + i] = t[i]
  BY <1>4, TextConcat
<1>w. ASSUME q # 3, q >= 4 => Says(Join(lines', <<NL>>))
      PROVE  \E n \in 0..7 : /\ n # 3 /\ pipe' = SubSeq(NoConfig, n + 1, 7)
                             /\ n >= 4 => Says(Join(lines', <<NL>>))
  <2> HIDE DEF q
  <2> QED
    BY <1>3, <1>5, <1>w
<1>9. CASE p >= 4
  <2>1. Says(b)
    <3>1. lines # <<>>
      <4> SUFFICES ASSUME lines = <<>> PROVE FALSE
        OBVIOUS
      <4>1. Join(lines, <<NL>>) = <<>>
        BY JoinNone
      <4>2. Len(<<>>) = 0
        OBVIOUS
      <4> QED
        BY <1>9, <4>1, <4>2 DEF Says
    <3>2. Join(lines, <<NL>>) \in Text /\ <<NL>> \in Text
      <4>1. <<NL>> \in Text /\ <<>> \in Text
        BY NLIsToken DEF Text
      <4> QED
        BY <1>7, <4>1, JoinAppend
    <3> QED
      BY <1>6, <1>9, <3>1, <3>2, SaysMore
  <2>2. Says(Join(lines', <<NL>>))
    BY <1>4, <1>6, <2>1, SaysMore
  <2>3. q # 3
    BY <1>1, <1>3, <1>9
  <2> QED
    BY <1>w, <2>2, <2>3
<1>10. CASE p <= 2 /\ q >= 4
  <2>1. /\ 3 - p \in 1..k /\ 4 - p \in 1..k /\ 3 - p \in 1..(7 - p) /\ 4 - p \in 1..(7 - p)
        /\ p + (3 - p) = 3 /\ p + (4 - p) = 4
    BY <1>1, <1>3, <1>10
  <2>2. t[3 - p] = MissingMessage[1] /\ t[4 - p] = MissingMessage[2]
    BY <1>2, <1>4, <2>1, SpawnedType
  <2> DEFINE i == Len(b) + (3 - p)
  <2>3. Len(b) \in Nat /\ i + 1 = Len(b) + (4 - p)
    BY <1>1 DEF Text
  <2>4. i \in 1..(Len(b \o t) - 1)
    BY <1>1, <1>3, <1>8, <1>10, <2>3
  <2>5. (b \o t)[i] = MissingMessage[1] /\ (b \o t)[i + 1] = MissingMessage[2]
    BY <1>8, <2>1, <2>2, <2>3
  <2> HIDE DEF i
  <2>6. Says(Join(lines', <<NL>>))
    BY <1>6, <2>4, <2>5 DEF Says
  <2>7. q # 3
    BY <1>1, <1>3, <1>10
  <2> QED
    BY <1>w, <2>6, <2>7
<1>11. CASE q = 3
  <2>1. Len(pipe') = 4 /\ pipe'[1] = MissingMessage[2]
    BY <1>4, <1>11, SpawnedType
  <2>2. pipe' # <<>> /\ Head(pipe') = MissingMessage[2]
    <3> DEFINE r == pipe'
    <3>1. r \in Text
      BY <1>4
    <3>2. Len(r) = 4 /\ r[1] = MissingMessage[2]
      BY <2>1
    <3> HIDE DEF r
    <3>3. r # <<>> /\ Head(r) = r[1]
      <4>1. r \in Seq(Token) /\ Len(r) # 0
        BY <3>1, <3>2 DEF Text
      <4> QED
        BY <4>1, HeadIsFirst
    <3> QED
      BY <3>2, <3>3 DEF r
  <2>3. cut'
    BY <2>2 DEF Deliver
  <2> QED
    BY <2>3
<1>12. CASE q <= 2
  <2>1. q # 3 /\ ~(q >= 4)
    BY <1>1, <1>3, <1>12
  <2> QED
    BY <1>w, <2>1
<1>13. p >= 4 \/ (p <= 2 /\ q >= 4) \/ q = 3 \/ q <= 2
  BY <1>1, <1>3
<1> QED
  BY <1>9, <1>10, <1>11, <1>12, <1>13

(* What the report depends on did not change. *)
LEMMA TellingKept ==
  ASSUME Telling, UNCHANGED <<stage, cmd, output, exists, todo>>, faults \subseteq faults'
  PROVE  Telling'
BY DEF Telling, Found, job, Excused, output

(* The report of a missing repository is read as such, unless it was cut or *)
(* replaced.                                                                *)
LEMMA TellingStep == BInv /\ [Next]_vars => Telling'
<1> SUFFICES ASSUME BInv, [Next]_vars PROVE Telling'
  OBVIOUS
<1> USE DEF BInv
<1>0. ASSUME cmd' \notin {"snapshots", "work"} \/ stage' # "backup" PROVE Telling'
  BY <1>0 DEF Telling
<1>a. ASSUME Fatal, NEW c, Fault(c) \/ UNCHANGED faults, UNCHANGED exists PROVE Telling'
  <2>1. faults \subseteq faults'
    BY <1>a DEF Fault
  <2> QED
    BY <1>a, <2>1, TellingKept DEF Fatal
<1>1. CASE EndStage
  <2>1. cmd = "next" /\ cmd' = "next"
    BY <1>1 DEF EndStage, Fatal, BatchTypeOK
  <2> QED
    BY <1>0, <2>1
<1>2. CASE Unlock \/ Work
  <2>1. RunCommand
    BY <1>2 DEF Unlock, Work
  <2>2. CASE JobDone
    BY <1>0, <2>2 DEF JobDone
  <2>3. CASE Fatal /\ (Fault("work") \/ UNCHANGED faults)
    BY <1>a, <2>1, <2>3 DEF RunCommand
  <2> QED
    BY <2>1, <2>2, <2>3 DEF RunCommand
<1>3. CASE List
  <2>1. /\ exists' = exists /\ todo' = todo /\ cmd' = "snapshots" /\ stage' = stage
        /\ stage # "refresh" => \/ Found
                                \/ Fault("snapshots")
                                \/ pipe' = NoConfig /\ failed'
    BY <1>3 DEF List, Spawn
  <2>2. CASE stage # "backup" \/ Found
    BY <2>1, <2>2 DEF Telling, Found, job
  <2>3. CASE stage = "backup" /\ Fault("snapshots")
    BY <2>1, <2>3 DEF Telling, Found, job, Excused, Fault
  <2>4. CASE pipe' = NoConfig /\ failed'
    <3>1. 0 \in 0..7 /\ 0 # 3 /\ ~(0 >= 4) /\ 0 + 1 = 1
      OBVIOUS
    <3>2. NoConfig = SubSeq(NoConfig, 1, 7)
      BY SpawnedType DEF Text
    <3>3. \E p \in 0..7 : /\ p # 3 /\ pipe' = SubSeq(NoConfig, p + 1, 7)
                          /\ p >= 4 => Says(Join(lines', <<NL>>))
      BY <2>4, <3>1, <3>2
    <3> QED
      BY <2>1, <2>4, <3>3 DEF Telling
  <2> QED
    BY <2>1, <2>2, <2>3, <2>4
<1>4. ASSUME NEW k \in 1..Len(pipe), Deliver(k) PROVE Telling'
  <2>1. UNCHANGED <<stage, cmd, failed, exists, todo, faults>> /\ (cut => cut')
    BY <1>4 DEF Deliver
  <2>2. Excused => Excused'
    BY <2>1 DEF Excused, job
  <2>3. ASSUME NEW p \in 0..7, p # 3, pipe = SubSeq(NoConfig, p + 1, 7),
               p >= 4 => Says(Join(lines, <<NL>>))
        PROVE  \/ Excused'
               \/ \E q \in 0..7 : /\ q # 3 /\ pipe' = SubSeq(NoConfig, q + 1, 7)
                                  /\ q >= 4 => Says(Join(lines', <<NL>>))
    BY <1>4, <2>3, ReportArrives DEF Excused
  <2> QED
    BY <2>1, <2>2, <2>3 DEF Telling, Found, job
<1>5. CASE EnsureInit
  <2>1. UNCHANGED <<stage, cut, exists, todo, faults>> /\ stage = "backup"
    BY <1>5 DEF EnsureInit, output
  <2>2. ASSUME ~Found, cmd' = "work" PROVE Excused
    <3>1. cmd = "snapshots" /\ pipe = <<>> /\ ~(failed /\ RepoMissing(lines))
      BY <1>5, <2>2 DEF EnsureInit, Listed, ErrRepoNotFound
    <3>2. ASSUME NEW p \in 0..7, pipe = SubSeq(NoConfig, p + 1, 7) PROVE p >= 4
      <4>1. Len(SubSeq(NoConfig, p + 1, 7)) = IF p + 1 <= 7 THEN 7 - (p + 1) + 1 ELSE 0
        BY SpawnedType DEF Text
      <4>2. Len(SubSeq(NoConfig, p + 1, 7)) = 0
        BY <3>1, <3>2
      <4> QED
        BY <4>1, <4>2
    <3>3. Says(Join(lines, <<NL>>)) => RepoMissing(lines)
      <4>1. Join(lines, <<NL>>) \in Text
        <5>1. lines \in Lines
          BY GivenType
        <5>2. <<NL>> \in Text /\ <<>> \in Text
          BY NLIsToken DEF Text
        <5> QED
          BY <5>1, <5>2, JoinAppend
      <4> QED
        BY <4>1, MessageFound DEF RepoMissing
    <3> QED
      BY <2>1, <2>2, <3>1, <3>2, <3>3 DEF Telling
  <2>3. cmd' \in {"init", "work"}
    BY <1>5 DEF EnsureInit
  <2>4. ~Found' => ~Found /\ (Excused => Excused')
    BY <2>1 DEF Found, job, Excused
  <2> QED
    BY <2>2, <2>3, <2>4 DEF Telling
<1>6. CASE InitRepo
  <2>1. CASE Fatal /\ (Fault("init") \/ UNCHANGED faults) /\ UNCHANGED exists
    BY <1>a, <2>1
  <2>2. CASE exists' = [exists EXCEPT ![RepoOf[job]] = TRUE] /\ cmd' = "work" /\ todo' = todo
    <3>1. todo # <<>>
      BY <1>6 DEF InitRepo, BatchTypeOK
    <3>2. RepoOf[job] \in Repo /\ exists \in [Repo -> BOOLEAN]
      BY <3>1, FirstJob DEF BatchTypeOK
    <3>3. Found'
      BY <2>2, <3>2 DEF Found, job
    <3> QED
      BY <2>2, <3>3 DEF Telling
  <2> QED
    BY <1>6, <2>1, <2>2 DEF InitRepo
<1>7. CASE CheckRestore
  BY <1>0, <1>7 DEF CheckRestore, Fatal
<1>8. CASE Refresh
  BY <1>0, <1>8 DEF Refresh
<1>9. CASE Push
  BY <1>9, TellingKept DEF Push
<1>10. CASE StartScheduler
  <2>1. cmd' = "next"
    BY <1>10 DEF StartScheduler, CommandFits, BatchTypeOK
  <2> QED
    BY <1>0, <2>1
<1>11. CASE UNCHANGED vars
  BY <1>11, TellingKept DEF vars
<1> QED
  BY <1>1, <1>2, <1>3, <1>4, <1>5, <1>6, <1>7, <1>8, <1>9, <1>10, <1>11 DEF Next

-------------------------------------------------------------------------------
(* The gauges. *)

(* What the gauges depend on did not change. *)
LEMMA CountingKept ==
  ASSUME Counting,
         UNCHANGED <<stage, cmd, failed, pipe, lines, todo, listed, current>>
  PROVE  Counting'
<1>1. Listening' = Listening /\ job' = job /\ listed' = listed /\ current' = current
  BY DEF Listening, job
<1>2. \A n \in 0..MaxSnapshots : Arrived(n)' <=> Arrived(n)
  BY DEF Arrived
<1>3. Counted(IF Listening THEN Len(listed) - 1 ELSE Len(listed))'
  BY <1>1 DEF Counting, Counted
<1>4. Listening' => /\ listed' # <<>>
                    /\ \E n \in 0..MaxSnapshots :
                         listed'[Len(listed')] = <<job', n>> /\ Arrived(n)'
  BY <1>1, <1>2 DEF Counting
<1> QED
  BY <1>1, <1>3, <1>4 DEF Counting

(* Before the refresh nothing is listed. *)
LEMMA CountingBefore ==
  ASSUME Counting, stage \notin {"refresh", "serving"}, UNCHANGED <<listed, current>>,
         cmd' = "next" \/ stage' # "refresh"
  PROVE  Counting'
<1>1. listed' = <<>> /\ current' = [n \in Name |-> 0] /\ ~Listening'
  BY DEF Counting, Listening
<1>2. Len(listed') = 0 /\ 1..0 = {}
  BY <1>1
<1>3. Counted(Len(listed))'
  <2>1. \A n \in Name : {k \in 1..Len(listed') : NameOf[listed'[k][1]] = n} = {} /\ current'[n] = 0
    BY <1>1, <1>2
  <2> QED
    BY <2>1 DEF Counted
<1> QED
  BY <1>1, <1>3 DEF Counting

(* The gauge that is set is that of the last listing. *)
LEMMA CountedMore ==
  ASSUME NEW m \in Nat, m # 0, Counted(m - 1), NEW x \in Name, NEW c \in Nat,
         current \in [Name -> 0..MaxSnapshots], listed' = listed,
         NameOf[listed[m][1]] = x, listed[m][2] = c,
         current' = [current EXCEPT ![x] = c]
  PROVE  Counted(m)'
<1> SUFFICES ASSUME NEW n \in Name
             PROVE  LET Of == {k \in 1..m : NameOf[listed[k][1]] = n}
                    IN  \/ Of = {} /\ current'[n] = 0
                        \/ \E k \in Of : (\A i \in Of : i <= k) /\ current'[n] = listed[k][2]
  BY DEF Counted
<1> DEFINE Of == {k \in 1..m : NameOf[listed[k][1]] = n}
           Old == {k \in 1..(m - 1) : NameOf[listed[k][1]] = n}
<1>1. \/ Old = {} /\ current[n] = 0
      \/ \E k \in Old : (\A i \in Old : i <= k) /\ current[n] = listed[k][2]
  BY DEF Counted
<1>2. CASE n = x
  <2>1. m \in Of /\ (\A i \in Of : i <= m) /\ current'[n] = listed[m][2]
    BY <1>2
  <2> QED
    BY <2>1
<1>3. CASE n # x
  <2>1. Of = Old
    <3>1. 1..m = 1..(m - 1) \cup {m}
      OBVIOUS
    <3> QED
      BY <1>3, <3>1
  <2>2. current'[n] = current[n]
    BY <1>3
  <2> HIDE DEF Of, Old
  <2>3. \/ Of = {} /\ current'[n] = 0
        \/ \E k \in Of : (\A i \in Of : i <= k) /\ current'[n] = listed[k][2]
    BY <1>1, <2>1, <2>2
  <2> QED
    BY <2>3 DEF Of
<1> QED
  BY <1>2, <1>3

(* Of a listing more the gauges show nothing yet. *)
LEMMA CountedSame ==
  ASSUME NEW m \in Nat, Counted(m), current' = current,
         \A k \in 1..m : listed'[k] = listed[k]
  PROVE  Counted(m)'
<1> SUFFICES ASSUME NEW n \in Name
             PROVE  LET Of == {k \in 1..m : NameOf[listed'[k][1]] = n}
                    IN  \/ Of = {} /\ current[n] = 0
                        \/ \E k \in Of : (\A i \in Of : i <= k) /\ current[n] = listed'[k][2]
  BY DEF Counted
<1> DEFINE Of == {k \in 1..m : NameOf[listed'[k][1]] = n}
           Old == {k \in 1..m : NameOf[listed[k][1]] = n}
<1>1. \/ Old = {} /\ current[n] = 0
      \/ \E k \in Old : (\A i \in Old : i <= k) /\ current[n] = listed[k][2]
  BY DEF Counted
<1>2. Of = Old /\ \A k \in Of : k \in 1..m
  OBVIOUS
<1> HIDE DEF Of, Old
<1>3. \/ Of = {} /\ current[n] = 0
      \/ \E k \in Of : (\A i \in Of : i <= k) /\ current[n] = listed'[k][2]
  BY <1>1, <1>2
<1> QED
  BY <1>3 DEF Of

(* The gauges show what was listed. *)
LEMMA CountingStep == BInv /\ [Next]_vars => Counting'
<1> SUFFICES ASSUME BInv, [Next]_vars PROVE Counting'
  OBVIOUS
<1> USE DEF BInv
<1>1. CASE EndStage
  <2>1. /\ stage \notin {"refresh", "serving"} /\ UNCHANGED <<listed, current>>
        /\ cmd = "next" /\ cmd' = "next"
    BY <1>1 DEF EndStage, InStage, Stages, Fatal, BatchTypeOK
  <2> QED
    BY <2>1, CountingBefore
<1>2. CASE Unlock \/ Work \/ EnsureInit \/ CheckRestore \/ InitRepo
  <2>1. /\ stage \in Stages /\ stage' = stage /\ UNCHANGED <<listed, current>>
    BY <1>2 DEF Unlock, Work, InStage, RunCommand, JobDone, Fatal, EnsureInit, CheckRestore,
                InitRepo, Stages, CommandFits
  <2>2. stage \notin {"refresh", "serving"} /\ stage' # "refresh"
    BY <2>1 DEF Stages
  <2> QED
    BY <2>1, <2>2, CountingBefore
<1>3. CASE List /\ stage # "refresh"
  <2>1. stage \notin {"refresh", "serving"} /\ stage' # "refresh" /\ UNCHANGED <<listed, current>>
    BY <1>3 DEF List, Spawn
  <2> QED
    BY <2>1, CountingBefore
<1>4. CASE List /\ stage = "refresh"
  <2>1. /\ ~Listening /\ Counted(Len(listed)) /\ UNCHANGED <<stage, todo, current>>
        /\ lines' = <<>> /\ cmd' = "snapshots" /\ stage' = "refresh"
    BY <1>4 DEF List, Spawn, Counting, Listening
  <2>2. listed \in Seq(Job \X (0..MaxSnapshots)) /\ Len(listed) \in Nat
    BY DEF BatchTypeOK
  <2>3. CASE failed' /\ UNCHANGED listed
    <3>1. ~Listening'
      BY <2>3 DEF Listening
    <3>2. Counted(Len(listed))'
      BY <2>1, <2>3 DEF Counted
    <3> QED
      BY <2>1, <3>1, <3>2 DEF Counting
  <2>4. ASSUME NEW n \in 0..MaxSnapshots, Spawn(Listing(n) \o <<NL>>, FALSE),
               listed' = Append(listed, <<job, n>>)
        PROVE  Counting'
    <3>m. PICK m \in Nat : m = Len(listed)
      BY <2>2
    <3>1. job \in Job
      BY <1>4, FirstJob DEF List
    <3>2. <<job, n>> \in Job \X (0..MaxSnapshots)
      BY <3>1
    <3>3. /\ Len(listed') = m + 1 /\ listed'[m + 1] = <<job, n>> /\ listed' # <<>>
          /\ \A k \in 1..m : listed'[k] = listed[k]
      BY <2>2, <2>4, <3>2, <3>m
    <3>4. Counted(m)'
      <4>1. Counted(m)
        BY <2>1, <3>m
      <4>2. current' = current
        BY <2>1
      <4> QED
        BY <3>3, <4>1, <4>2, CountedSame
    <3>5. Arrived(n)'
      <4>1. pipe' = Listing(n) \o <<NL>>
        BY <2>4 DEF Spawn
      <4>2. n \in Nat
        BY <2>4, BatchAssumption
      <4>3. Listing(n) \o <<NL>> \in Text /\ Listing(n) \in Text /\ <<NL>> \in Text
        BY <4>2, ListingIs, PlainText, SpawnedType, NLIsToken DEF Text
      <4>4. Listing(n) \o <<NL>> # <<>>
        <5>1. Len(Listing(n) \o <<NL>>) = 2 * n + 2 + 1
          <6>1. Len(<<NL>>) = 1
            OBVIOUS
          <6>2. Len(Listing(n) \o <<NL>>) = Len(Listing(n)) + Len(<<NL>>)
            BY <4>3, TextConcat
          <6>3. Len(Listing(n)) = 2 * n + 2
            BY <4>2, ListingIs
          <6> QED
            BY <6>1, <6>2, <6>3
        <5>2. Len(<<>>) = 0
          OBVIOUS
        <5> QED
          BY <4>2, <5>1, <5>2
      <4>5. Join(lines', <<>>) = <<>>
        BY <2>1, JoinNone
      <4>6. <<>> \o pipe' = pipe'
        BY <4>1, <4>3 DEF Text
      <4> QED
        BY <4>1, <4>4, <4>5, <4>6 DEF Arrived
    <3>6. Listening'
      BY <2>1, <2>4 DEF Spawn, Listening
    <3>7. job' = job
      BY <2>1 DEF job
    <3>8. (IF Listening THEN Len(listed) - 1 ELSE Len(listed))' = m
      BY <3>3, <3>6
    <3>9. Counted(IF Listening THEN Len(listed) - 1 ELSE Len(listed))'
      BY <3>4, <3>8 DEF Counted
    <3>10. \E c \in 0..MaxSnapshots : listed'[Len(listed')] = <<job', c>> /\ Arrived(c)'
      BY <2>4, <3>3, <3>5, <3>7
    <3> QED
      BY <2>1, <3>3, <3>9, <3>10 DEF Counting
  <2> QED
    BY <1>4, <2>3, <2>4 DEF List, Spawn
<1>5. ASSUME NEW k \in 1..Len(pipe), Deliver(k) PROVE Counting'
  <2>1. UNCHANGED <<stage, cmd, failed, todo, listed, current>>
    BY <1>5 DEF Deliver
  <2>2. Listening' = Listening /\ job' = job
    BY <2>1 DEF Listening, job
  <2>3. ASSUME NEW n \in 0..MaxSnapshots, Arrived(n) PROVE Arrived(n)'
    <3>1. n \in Nat
      BY BatchAssumption
    <3> QED
      BY <1>5, <2>3, <3>1, DeliverArrived
  <2>4. Listening => \E n \in 0..MaxSnapshots : listed'[Len(listed')] = <<job', n>> /\ Arrived(n)'
    BY <2>1, <2>2, <2>3 DEF Counting
  <2>5. Counted(IF Listening THEN Len(listed) - 1 ELSE Len(listed))'
    BY <2>1, <2>2 DEF Counting, Counted
  <2> QED
    BY <2>1, <2>2, <2>4, <2>5 DEF Counting
<1>6. CASE Refresh
  <2>1. /\ stage = "refresh" /\ cmd = "snapshots" /\ pipe = <<>> /\ todo # <<>>
        /\ cmd' = "next" /\ stage' \in {"refresh", "serving"} /\ UNCHANGED listed
    BY <1>6 DEF Refresh, Listed, BatchTypeOK
  <2>2. ~Listening'
    BY <2>1 DEF Listening
  <2>3. CASE failed
    <3>1. Counted(Len(listed)) /\ current' = current
      BY <1>6, <2>3 DEF Refresh, Counting, Listening
    <3>2. Counted(Len(listed))'
      BY <2>1, <3>1 DEF Counted
    <3> QED
      BY <2>1, <2>2, <3>2 DEF Counting
  <2>4. CASE ~failed
    <3>1. PICK n \in 0..MaxSnapshots : listed[Len(listed)] = <<job, n>> /\ Arrived(n)
      BY <2>1, <2>4 DEF Counting, Listening
    <3>2. n \in Nat
      BY <3>1, BatchAssumption
    <3>3. SnapshotsIn(lines) = {n}
      BY <2>1, <3>1, <3>2, Heard
    <3>4. current' = [current EXCEPT ![NameOf[job]] = n]
      BY <1>6, <2>4, <3>3 DEF Refresh
    <3>5. listed # <<>> /\ Counted(Len(listed) - 1)
      BY <2>1, <2>4 DEF Counting, Listening
    <3>6. Len(listed) \in Nat /\ Len(listed) # 0
      BY <3>5 DEF BatchTypeOK
    <3>7. NameOf[job] \in Name
      BY <2>1, FirstJob
    <3>8. listed[Len(listed)][1] = job /\ listed[Len(listed)][2] = n
      BY <3>1
    <3>9. current \in [Name -> 0..MaxSnapshots] /\ listed' = listed
      BY <2>1 DEF BatchTypeOK
    <3>m. PICK m \in Nat : m = Len(listed)
      BY <3>6
    <3>x. PICK x \in Name : x = NameOf[job]
      BY <3>7
    <3>10. /\ NameOf[listed[m][1]] = x /\ listed[m][2] = n /\ m # 0 /\ Counted(m - 1)
           /\ current' = [current EXCEPT ![x] = n]
      BY <3>4, <3>5, <3>6, <3>8, <3>m, <3>x
    <3>11. Counted(m)'
      BY <3>2, <3>9, <3>10, CountedMore
    <3>12. (IF Listening THEN Len(listed) - 1 ELSE Len(listed))' = m
      BY <2>2, <3>9, <3>m
    <3>13. Counted(IF Listening THEN Len(listed) - 1 ELSE Len(listed))'
      BY <3>11, <3>12 DEF Counted
    <3> QED
      BY <2>1, <2>2, <3>13 DEF Counting
  <2> QED
    BY <2>3, <2>4
<1>7. CASE Push
  BY <1>7, CountingKept DEF Push, output
<1>8. CASE StartScheduler
  <2>1. cmd' = "next" /\ stage = "start" /\ UNCHANGED <<listed, current>>
    BY <1>8 DEF StartScheduler, CommandFits, BatchTypeOK
  <2> QED
    BY <2>1, CountingBefore
<1>9. CASE UNCHANGED vars
  BY <1>9, CountingKept DEF vars, output
<1> QED
  BY <1>1, <1>2, <1>3, <1>4, <1>5, <1>6, <1>7, <1>8, <1>9 DEF Next

-------------------------------------------------------------------------------
(* The agenda. *)

(* It is what main is given that makes it. *)
LEMMA SameAgenda ==
  ASSUME UNCHANGED given
  PROVE  /\ \A s \in Stages : /\ Named(s)' = Named(s) /\ (Valid(s)' <=> Valid(s))
                              /\ Before[s]' = Before[s]
         /\ Agenda' = Agenda
<1>1. flags' = flags /\ jobs' = jobs
  BY DEF given
<1>2. \A s \in Stages : Named(s)' = Named(s)
  BY <1>1 DEF Named, IsNamed
<1>3. \A s \in Stages : Valid(s)' <=> Valid(s)
  BY <1>1 DEF Valid
<1>4. Before' = Before
  BY <1>2 DEF Before, Stages
<1> QED
  BY <1>2, <1>3, <1>4 DEF Agenda, Stages

(* The jobs a stage begins with are the ones it is to do; the names it      *)
(* misses are the ones that are not of any job.                             *)
LEMMA StageBegins ==
  ASSUME BatchTypeOK, NEW s \in Stages
  PROVE  /\ Tagged(s, FilterJobs(jobs, flags[s]).jobs) = Named(s)
         /\ Named(s) \in Seq(Stages \X Job)
         /\ FilterJobs(jobs, flags[s]).missing = {} <=> Valid(s)
<1>1. jobs \in Seq(Job) /\ flags[s] \in Words
  BY GivenType
<1>2. Picked(s, jobs, flags[s]) =
        [i \in DOMAIN jobs |-> IF IsNamed(s, i) THEN << <<s, jobs[i]>> >> ELSE <<>>]
  BY DEF Picked, Keeps, IsNamed
<1>3. Tagged(s, FilterJobs(jobs, flags[s]).jobs) = Named(s)
  BY <1>1, <1>2, FilterNamed DEF Named
<1>4. FilterJobs(jobs, flags[s]).jobs \in Seq(Job)
  BY <1>1, FilterFinds DEF Findings
<1>5. Named(s) \in Seq(Stages \X Job)
  <2> DEFINE f == FilterJobs(jobs, flags[s]).jobs
  <2>1. \A j \in Job : Tagged(s, f) \in Seq(Stages \X Job)
    <3> HIDE DEF f
    <3> QED
      BY <1>4, TagAppend DEF f
  <2>2. jobs # <<>>
    BY GivenType
  <2>3. \E j \in Job : TRUE
    BY <1>1, <2>2
  <2> QED
    BY <1>3, <2>1, <2>3
<1> QED
  BY <1>1, <1>3, <1>5, FilterFinds DEF Valid

(* The first job is tagged before the others. *)
LEMMA TagHead ==
  ASSUME NEW s \in Stages, NEW js \in Seq(Job), js # <<>>
  PROVE  /\ Tagged(s, Tail(js)) \in Seq(Stages \X Job)
         /\ Tagged(s, js) = << <<s, Head(js)>> >> \o Tagged(s, Tail(js))
<1> DEFINE n == Len(js)
           r == Tail(js)
           x == <<s, Head(js)>>
           t == Tagged(s, r)
<1>1. /\ n \in Nat /\ n # 0 /\ DOMAIN js = 1..n /\ Head(js) = js[1]
      /\ r \in Seq(Job) /\ Len(r) = n - 1 /\ \A k \in 1..(n - 1) : r[k] = js[k + 1]
      /\ \A k \in 1..n : js[k] \in Job
  OBVIOUS
<1> HIDE DEF r, n
<1>2. t = [k \in 1..(n - 1) |-> t[k]] /\ \A k \in 1..(n - 1) : t[k] = <<s, js[k + 1]>>
  <2>1. DOMAIN r = 1..(n - 1)
    BY <1>1
  <2> QED
    BY <1>1, <2>1 DEF Tagged
<1>3. t \in Seq(Stages \X Job) /\ Len(t) = n - 1 /\ x \in Stages \X Job
  <2>1. \A k \in 1..(n - 1) : t[k] \in Stages \X Job
    <3> SUFFICES ASSUME NEW k \in 1..(n - 1) PROVE t[k] \in Stages \X Job
      OBVIOUS
    <3>1. k + 1 \in 1..n
      BY <1>1
    <3>2. js[k + 1] \in Job
      BY <1>1, <3>1
    <3>3. <<s, js[k + 1]>> \in Stages \X Job
      BY <3>2
    <3> HIDE DEF t
    <3> QED
      BY <1>2, <3>3
  <2>2. x \in Stages \X Job /\ n - 1 \in Nat
    BY <1>1
  <2> HIDE DEF t, x
  <2> QED
    BY <1>2, <2>1, <2>2, SMTT(30)
<1> HIDE DEF t, x
<1> DEFINE u == <<x>> \o t
<1>4. /\ u \in Seq(Stages \X Job) /\ Len(u) = n /\ u[1] = x
      /\ \A k \in 1..(n - 1) : u[k + 1] = t[k]
  BY <1>1, <1>3
<1> HIDE DEF u
<1>5. ASSUME NEW k \in 1..n PROVE u[k] = <<s, js[k]>>
  <2>1. CASE k = 1
    BY <1>1, <1>4, <2>1 DEF x
  <2>2. CASE k # 1
    <3> DEFINE j == k - 1
    <3>1. j \in 1..(n - 1) /\ j + 1 = k
      BY <1>1, <1>5, <2>2
    <3> HIDE DEF j
    <3> QED
      BY <1>2, <1>4, <3>1
  <2> QED
    BY <2>1, <2>2
<1>6. u = [k \in 1..n |-> u[k]]
  BY <1>4
<1>7. Tagged(s, js) = [k \in 1..n |-> <<s, js[k]>>]
  BY <1>1 DEF Tagged
<1> QED
  BY <1>3, <1>5, <1>6, <1>7 DEF u, t, x, r

(* What the agenda depends on did not change; nor did main fail at the end  *)
(* of a stage.                                                              *)
LEMMA PendingKept ==
  ASSUME Pending, UNCHANGED <<given, stage, done, todo, missing>>,
         exit' = exit \/ todo # <<>> \/ stage \notin Stages
  PROVE  Pending'
<1>1. flags' = flags /\ jobs' = jobs
  BY DEF given
<1> QED
  BY <1>1, SameAgenda DEF Pending, Tagged, Stages

(* After the stages all is done. *)
LEMMA PendingLater ==
  ASSUME Pending, stage \notin Stages, stage' \notin Stages, UNCHANGED <<given, done>>
  PROVE  Pending'
BY SameAgenda DEF Pending, Stages

(* The job that is done was the first of those to do. *)
LEMMA PendingJobDone ==
  ASSUME BatchTypeOK, Pending, stage \in Stages, todo # <<>>, exit # "fatal",
         JobDone, UNCHANGED given
  PROVE  Pending'
<1>1. todo \in Seq(Job) /\ done \in Seq(Stages \X Job)
  BY DEF BatchTypeOK
<1> DEFINE x == <<stage, job>>
           t == Tagged(stage, Tail(todo))
<1>2. x \in Stages \X Job
  BY FirstJob
<1>3. t \in Seq(Stages \X Job) /\ Tagged(stage, todo) = <<x>> \o t
  BY <1>1, TagHead DEF job
<1>4. UNCHANGED <<stage, missing, exit>> /\ done' = Append(done, x) /\ todo' = Tail(todo)
  BY DEF JobDone
<1>5. Tagged(stage, todo)' = t
  BY <1>4 DEF Tagged
<1> HIDE DEF x, t
<1>6. Append(done, x) \o t = done \o (<<x>> \o t)
  <2>1. Append(done, x) = done \o <<x>> /\ <<x>> \in Seq(Stages \X Job)
    BY <1>1, <1>2
  <2> QED
    BY <1>1, <1>3, <2>1, ConcatAssociative
<1>7. flags' = flags /\ jobs' = jobs
  BY DEF given
<1>8. done' \o Tagged(stage, todo)' = (Before[stage] \o Named(stage))'
  <2>1. done \o Tagged(stage, todo) = Before[stage] \o Named(stage)
    BY DEF Pending
  <2>2. done' \o Tagged(stage, todo)' = done \o Tagged(stage, todo)
    BY <1>3, <1>4, <1>5, <1>6
  <2>3. (Before[stage] \o Named(stage))' = Before[stage] \o Named(stage)
    BY <1>4, <1>7 DEF Before, Named, IsNamed
  <2> QED
    BY <2>1, <2>2, <2>3
<1>9. \A s \in Stages : Valid(s)' <=> Valid(s)
  BY SameAgenda
<1> QED
  BY <1>4, <1>7, <1>8, <1>9 DEF Pending, Stages

(* The stages in their order. *)
LEMMA StageOrder ==
  ASSUME BatchTypeOK
  PROVE  /\ Before["unlock"] \o Named("unlock") = Before["backup"]
         /\ Before["backup"] \o Named("backup") = Before["restore"]
         /\ Before["restore"] \o Named("restore") = Agenda
         /\ \A s \in Stages : Before[s] \in Seq(Stages \X Job)
<1>1. \A s \in Stages : Named(s) \in Seq(Stages \X Job)
  BY StageBegins
<1>2. /\ Before["unlock"] = <<>> /\ Before["backup"] = Named("unlock")
      /\ Before["restore"] = Named("unlock") \o Named("backup")
  BY DEF Before
<1>3. /\ Named("unlock") \in Seq(Stages \X Job) /\ Named("backup") \in Seq(Stages \X Job)
  BY <1>1 DEF Stages
<1>4. <<>> \o Named("unlock") = Named("unlock")
  BY <1>3
<1>5. \A s \in Stages : Before[s] \in Seq(Stages \X Job)
  <2>1. Named("unlock") \o Named("backup") \in Seq(Stages \X Job) /\ <<>> \in Seq(Stages \X Job)
    BY <1>3
  <2> QED
    BY <1>2, <1>3, <2>1 DEF Stages
<1> QED
  BY <1>2, <1>4, <1>5 DEF Agenda

(* Where the next stage begins, what is done is what comes before it. *)
LEMMA PendingEnter ==
  ASSUME BatchTypeOK, Pending, stage \in Stages, todo = <<>>, missing = {}, exit = "no",
         UNCHANGED <<given, exit, done>>,
         \/ stage = "unlock" /\ EnterStage("backup")
         \/ stage = "backup" /\ EnterStage("restore")
         \/ stage = "restore" /\ stage' \notin Stages
  PROVE  Pending'
<1>1. done \in Seq(Stages \X Job) /\ Tagged(stage, <<>>) = <<>>
  BY DEF BatchTypeOK, Tagged
<1>2. done = Before[stage] \o Named(stage)
  <2>1. done \o Tagged(stage, todo) = done
    BY <1>1
  <2> QED
    BY <2>1 DEF Pending
<1>3. Valid(stage)
  BY StageBegins DEF Pending
<1>4. flags' = flags /\ jobs' = jobs /\ done' = done /\ exit' = "no"
  BY DEF given
<1>5. Agenda' = Agenda /\ \A s \in Stages : Valid(s)' <=> Valid(s)
  BY SameAgenda
<1>6. ASSUME NEW s \in {"backup", "restore"}, EnterStage(s), done = Before[s],
             Valid("unlock"), s = "restore" => Valid("backup")
      PROVE  Pending'
  <2>1. s \in Stages /\ stage' = s
    BY <1>6 DEF Stages, EnterStage
  <2>2. Tagged(s, FilterJobs(jobs, flags[s]).jobs) = Named(s)
    BY <2>1, StageBegins
  <2>3. Tagged(s, todo)' = Named(s) /\ missing' = FilterJobs(jobs, flags[s]).missing
    BY <1>6, <2>2 DEF EnterStage, Tagged
  <2>4. Before[s]' = Before[s] /\ Named(s)' = Named(s)
    BY <2>1, SameAgenda
  <2>5. done' \o Tagged(s, todo)' = (Before[s] \o Named(s))'
    BY <1>4, <1>6, <2>3, <2>4
  <2>6. done' \o Tagged(stage, todo)' = (Before[stage] \o Named(stage))'
    BY <2>1, <2>5 DEF Tagged, Named, IsNamed
  <2>7. missing' = FilterJobs(jobs', flags'[stage']).missing
    BY <1>4, <2>1, <2>3
  <2> QED
    BY <1>4, <1>5, <1>6, <2>1, <2>6, <2>7 DEF Pending, Stages
<1>7. CASE stage = "unlock" /\ EnterStage("backup")
  BY <1>2, <1>3, <1>6, <1>7, StageOrder
<1>8. CASE stage = "backup" /\ EnterStage("restore")
  BY <1>2, <1>3, <1>6, <1>8, StageOrder DEF Pending
<1>9. CASE stage = "restore" /\ stage' \notin Stages
  <2>1. done = Agenda /\ \A s \in Stages : Valid(s)
    BY <1>2, <1>3, <1>9, StageOrder DEF Pending, Stages
  <2> QED
    BY <1>4, <1>5, <1>9, <2>1 DEF Pending, Stages
<1> QED
  BY <1>7, <1>8, <1>9

(* What is done follows the agenda. *)
LEMMA PendingStep == BInv /\ [Next]_vars => Pending'
<1> SUFFICES ASSUME BInv, [Next]_vars PROVE Pending'
  OBVIOUS
<1> USE DEF BInv
<1>1. CASE EndStage
  <2>1. /\ stage \in Stages /\ todo = <<>> /\ exit = "no" /\ UNCHANGED given
    BY <1>1 DEF EndStage, InStage, Running
  <2>2. CASE missing # {} /\ Fatal
    <3>1. UNCHANGED <<given, stage, todo, missing, done>>
      BY <2>1, <2>2 DEF Fatal
    <3>2. flags' = flags /\ jobs' = jobs
      BY <3>1 DEF given
    <3> QED
      BY <2>2, <3>1, <3>2, SameAgenda DEF Pending, Tagged, Stages
  <2>3. CASE missing = {} /\ UNCHANGED <<exit, done>>
    <3>1. \/ stage = "unlock" /\ EnterStage("backup")
          \/ stage = "backup" /\ EnterStage("restore")
          \/ stage = "restore" /\ stage' = IF flags.once THEN "push" ELSE "start"
      BY <1>1, <2>1, <2>3, Zenon DEF EndStage, Stages
    <3>2. stage = "restore" /\ stage' = (IF flags.once THEN "push" ELSE "start")
            => stage' \notin Stages
      BY DEF Stages
    <3> QED
      BY <2>1, <2>3, <3>1, <3>2, PendingEnter
  <2> QED
    BY <1>1, <2>2, <2>3 DEF EndStage
<1>2. CASE Unlock \/ Work
  <2>1. RunCommand /\ stage \in Stages /\ exit # "fatal" /\ todo # <<>>
    BY <1>2 DEF Unlock, Work, InStage, Running, BatchTypeOK
  <2>2. CASE JobDone
    BY <2>1, <2>2, PendingJobDone DEF RunCommand
  <2>3. CASE Fatal
    BY <2>1, <2>3, PendingKept DEF RunCommand, Fatal
  <2> QED
    BY <2>1, <2>2, <2>3 DEF RunCommand
<1>3. CASE List
  BY <1>3, PendingKept DEF List, Spawn
<1>4. ASSUME NEW k \in 1..Len(pipe), Deliver(k) PROVE Pending'
  BY <1>4, PendingKept DEF Deliver
<1>5. CASE EnsureInit
  BY <1>5, PendingKept DEF EnsureInit
<1>6. CASE InitRepo
  BY <1>6, PendingKept DEF InitRepo, Fatal, BatchTypeOK
<1>7. CASE CheckRestore
  BY <1>7, PendingKept DEF CheckRestore, Fatal, Listed, BatchTypeOK
<1>8. CASE Refresh
  <2>1. stage = "refresh" /\ stage' \in {"serving", "refresh"} /\ UNCHANGED <<given, done>>
    BY <1>8 DEF Refresh
  <2> QED
    BY <2>1, PendingLater DEF Stages
<1>9. CASE Push
  BY <1>9, PendingKept DEF Push, Stages
<1>10. CASE StartScheduler
  <2>1. stage = "start" /\ stage' \in {"start", "refresh"} /\ UNCHANGED <<given, done>>
    BY <1>10 DEF StartScheduler
  <2> QED
    BY <2>1, PendingLater DEF Stages
<1>11. CASE UNCHANGED vars
  BY <1>11, PendingKept DEF vars
<1> QED
  BY <1>1, <1>2, <1>3, <1>4, <1>5, <1>6, <1>7, <1>8, <1>9, <1>10, <1>11 DEF Next

-------------------------------------------------------------------------------
(* main starts in the invariant. *)
LEMMA InitBInv == Init => BInv
<1> SUFFICES ASSUME Init PROVE BInv
  OBVIOUS
<1>1. BatchTypeOK
  BY TypeInit
<1>2. CommandFits /\ Honest /\ Telling
  BY DEF Init, CommandFits, Honest, Telling
<1>3. Counting
  <2>1. stage = "unlock" /\ listed = <<>> /\ current = [n \in Name |-> 0] /\ ~Listening
    BY DEF Init, Listening
  <2>2. Len(listed) = 0 /\ 1..0 = {}
    BY <2>1
  <2>3. Counted(Len(listed))
    <3>1. \A n \in Name : {k \in 1..Len(listed) : NameOf[listed[k][1]] = n} = {} /\ current[n] = 0
      BY <2>1, <2>2
    <3> QED
      BY <3>1 DEF Counted
  <2> QED
    BY <2>1, <2>3 DEF Counting
<1>4. Pending
  <2>1. stage = "unlock" /\ stage \in Stages /\ exit = "no" /\ done = <<>>
    BY DEF Init, Stages
  <2>2. flags.unlock = flags["unlock"]
    OBVIOUS
  <2>3. Tagged("unlock", todo) = Named("unlock") /\ missing = FilterJobs(jobs, flags["unlock"]).missing
    BY <1>1, <2>1, <2>2, StageBegins DEF Init
  <2>4. Before["unlock"] = <<>>
    BY DEF Before
  <2> QED
    BY <2>1, <2>3, <2>4 DEF Pending
<1> QED
  BY <1>1, <1>2, <1>3, <1>4 DEF BInv

(* Every step keeps it. *)
THEOREM BatchInvariance == Spec => []BInv
<1>1. Init => BInv
  BY InitBInv
<1>2. BInv /\ [Next]_vars => BInv'
  <2> SUFFICES ASSUME BInv, [Next]_vars PROVE BInv'
    OBVIOUS
  <2>1. BatchTypeOK' /\ CommandFits' /\ Pending' /\ Honest' /\ Telling' /\ Counting'
    BY TypeStep, FitsStep, PendingStep, HonestStep, TellingStep, CountingStep
  <2> QED
    BY <2>1 DEF BInv
<1> QED
  BY <1>1, <1>2, PTL DEF Spec

(* The types are kept: a gauge, for one, never shows more snapshots than a  *)
(* repository holds.                                                        *)
THEOREM BatchTypeCorrect == Spec => []BatchTypeOK
<1>1. BInv => BatchTypeOK
  BY DEF BInv
<1> QED
  BY <1>1, BatchInvariance, PTL

(* init is tried only on a repository that is missing or that restic has    *)
(* just called missing, in whatever pieces the message of the listing came, *)
(* and whatever else was wrong with it.                                     *)
THEOREM InitsOnlyOnReportHolds == Spec => []InitsOnlyOnReport
<1>1. BInv => InitsOnlyOnReport
  BY DEF BInv, Honest, InitsOnlyOnReport
<1> QED
  BY <1>1, BatchInvariance, PTL

(* Once main serves, the gauges show what restic listed last.               *)
THEOREM CountsAreListedHolds == Spec => []CountsAreListed
<1>1. BInv => CountsAreListed
  <2> SUFFICES ASSUME BInv, stage = "serving" PROVE CountsAreListed
    BY DEF CountsAreListed
  <2>1. Counted(Len(listed)) /\ DOMAIN listed = 1..Len(listed)
    BY DEF BInv, Counting, Listening, BatchTypeOK
  <2> QED
    BY <2>1 DEF Counted, CountsAreListed
<1> QED
  BY <1>1, BatchInvariance, PTL

(* A sequence begins with what it was put together from. *)
LEMMA BeginsWith ==
  ASSUME NEW S, NEW s \in Seq(S), NEW t \in Seq(S)
  PROVE  IsPrefix(s, s \o t)
<1>1. Len(s) <= Len(s \o t) /\ s \o t \in Seq(S)
  OBVIOUS
<1>2. SubSeq(s, 1, Len(s)) = SubSeq(s \o t, 1, Len(s))
  <2>1. /\ SubSeq(s, 1, Len(s)) = [i \in 1..Len(s) |-> s[i]]
        /\ SubSeq(s \o t, 1, Len(s)) = [i \in 1..Len(s) |-> (s \o t)[i]]
        /\ \A i \in 1..Len(s) : (s \o t)[i] = s[i]
    OBVIOUS
  <2> QED
    BY <2>1
<1> QED
  BY <1>1, <1>2 DEF IsPrefix

(* What the command line asks for is done in its order, and main goes on    *)
(* only when all of it is done.                                             *)
THEOREM FollowsAgendaHolds == Spec => []FollowsAgenda
<1>1. BInv => FollowsAgenda
  <2> SUFFICES ASSUME BInv PROVE FollowsAgenda
    OBVIOUS
  <2>1. done \in Seq(Stages \X Job) /\ BatchTypeOK /\ Pending
    BY DEF BInv, BatchTypeOK
  <2> DEFINE S == Stages \X Job
  <2>2. \A s \in Stages : Named(s) \in Seq(S) /\ Before[s] \in Seq(S)
    BY <2>1, StageBegins, StageOrder
  <2>3. \E t \in Seq(S) : Agenda = done \o t
    <3>1. CASE stage \notin Stages
      <4>1. done = done \o <<>> /\ <<>> \in Seq(S)
        BY <2>1
      <4>2. done = Agenda
        BY <2>1, <3>1 DEF Pending
      <4> QED
        BY <4>1, <4>2
    <3>2. CASE stage \in Stages
      <4> DEFINE r == Tagged(stage, todo)
      <4>1. r \in Seq(S)
        <5>1. CASE todo = <<>>
          BY <5>1 DEF Tagged
        <5>2. CASE todo # <<>>
          <6>1. todo \in Seq(Job) /\ job \in Job
            BY <2>1, <5>2, FirstJob DEF BatchTypeOK
          <6> QED
            BY <3>2, <6>1, TagAppend
        <5> QED
          BY <5>1, <5>2
      <4>2. done \o r = Before[stage] \o Named(stage)
        BY <2>1, <3>2 DEF Pending
      <4> HIDE DEF r, S
      <4>3. ASSUME NEW u \in Seq(S), Agenda = (Before[stage] \o Named(stage)) \o u
            PROVE  \E t \in Seq(S) : Agenda = done \o t
        <5>1. r \o u \in Seq(S)
          BY <4>1
        <5>2. (done \o r) \o u = done \o (r \o u)
          BY <2>1, <4>1, ConcatAssociative, SMTT(30) DEF S
        <5> QED
          BY <4>2, <4>3, <5>1, <5>2
      <4>4. \A s \in Stages : Named(s) \in Seq(S) /\ Before[s] \in Seq(S)
        BY <2>2
      <4>5. /\ Named("backup") \in Seq(S) /\ Named("restore") \in Seq(S)
            /\ Before["backup"] \in Seq(S) /\ Before["restore"] \in Seq(S)
        BY <4>4 DEF Stages
      <4>6. /\ Before["unlock"] \o Named("unlock") = Before["backup"]
            /\ Before["backup"] \o Named("backup") = Before["restore"]
            /\ Before["restore"] \o Named("restore") = Agenda
        BY <2>1, StageOrder
      <4>7. CASE stage = "restore"
        <5>1. Agenda = Agenda \o <<>> /\ <<>> \in Seq(S)
          BY <4>5, <4>6
        <5> QED
          BY <4>3, <4>6, <4>7, <5>1
      <4>8. CASE stage = "backup"
        BY <4>3, <4>5, <4>6, <4>8
      <4>9. CASE stage = "unlock"
        <5>1. Agenda = Before["backup"] \o (Named("backup") \o Named("restore"))
          <6>1. (Before["backup"] \o Named("backup")) \o Named("restore")
                  = Before["backup"] \o (Named("backup") \o Named("restore"))
            <7> DEFINE a == Before["backup"]
                       b == Named("backup")
                       c == Named("restore")
            <7>1. a \in Seq(S) /\ b \in Seq(S) /\ c \in Seq(S)
              BY <4>5
            <7> HIDE DEF a, b, c
            <7>2. (a \o b) \o c = a \o (b \o c)
              BY <7>1, ConcatAssociative, SMTT(30)
            <7> QED
              BY <7>2 DEF a, b, c
          <6> QED
            BY <4>6, <6>1
        <5>2. Named("backup") \o Named("restore") \in Seq(S)
          BY <4>5
        <5> QED
          BY <4>3, <4>6, <4>9, <5>1, <5>2
      <4> QED
        BY <3>2, <4>7, <4>8, <4>9 DEF Stages
    <3> QED
      BY <3>1, <3>2
  <2>4. IsPrefix(done, Agenda)
    BY <2>1, <2>3, BeginsWith
  <2>5. exit = "fatal" /\ stage \in Stages /\ todo = <<>> =>
          ~Valid(stage) /\ done = Before[stage] \o Named(stage)
    <3> SUFFICES ASSUME exit = "fatal", stage \in Stages, todo = <<>>
                 PROVE  ~Valid(stage) /\ done = Before[stage] \o Named(stage)
      OBVIOUS
    <3>1. missing # {} /\ missing = FilterJobs(jobs, flags[stage]).missing
      BY <2>1 DEF Pending
    <3>2. ~Valid(stage)
      BY <2>1, <3>1, StageBegins
    <3>3. Tagged(stage, todo) = <<>> /\ done \o <<>> = done
      BY <2>1 DEF Tagged
    <3> QED
      BY <2>1, <3>2, <3>3 DEF Pending
  <2> QED
    BY <2>1, <2>4, <2>5 DEF FollowsAgenda, Pending
<1> QED
  BY <1>1, BatchInvariance, PTL

(* A step that makes main fail in a stage has a cause. *)
LEMMA FatalStep == BInv /\ FatalHasCause /\ [Next]_vars => FatalHasCause'
<1> SUFFICES ASSUME BInv, FatalHasCause, [Next]_vars PROVE FatalHasCause'
  OBVIOUS
<1> USE DEF BInv
<1>0. ASSUME exit' # "fatal" \/ stage' \notin Stages PROVE FatalHasCause'
  BY <1>0 DEF FatalHasCause
<1>a. ASSUME Fatal, todo # <<>>, NEW c \in {"init", "work"}, Fault(c) PROVE FatalHasCause'
  <2>1. UNCHANGED <<stage, todo>> /\ <<stage, job, c>> \in faults'
    BY <1>a DEF Fatal, Fault
  <2>2. job' = job
    BY <2>1 DEF job
  <2> QED
    BY <1>a, <2>1, <2>2 DEF FatalHasCause
<1>1. CASE EndStage
  <2>1. CASE missing # {} /\ Fatal
    <3>1. UNCHANGED <<stage, todo>> /\ todo = <<>> /\ stage \in Stages /\ flags' = flags /\ jobs' = jobs
      BY <1>1, <2>1 DEF EndStage, InStage, Fatal, given
    <3>2. ~Valid(stage)
      BY <2>1, <3>1, StageBegins DEF Pending
    <3>3. ~Valid(stage)'
      BY <3>1, <3>2 DEF Valid
    <3> QED
      BY <3>1, <3>3 DEF FatalHasCause
  <2>2. CASE UNCHANGED exit
    <3>1. exit' = "no"
      BY <1>1, <2>2 DEF EndStage, InStage, Running
    <3> QED
      BY <1>0, <3>1
  <2> QED
    BY <1>1, <2>1, <2>2 DEF EndStage
<1>2. CASE Unlock \/ Work
  <2>1. /\ RunCommand /\ stage \in Stages /\ exit = "no" /\ todo # <<>> /\ UNCHANGED exists
        /\ stage = "unlock" \/ (cmd = "work" /\ stage \in {"backup", "restore"})
    BY <1>2 DEF Unlock, Work, InStage, Running, BatchTypeOK, RunCommand, CommandFits
  <2>2. CASE JobDone
    BY <1>0, <2>1, <2>2 DEF JobDone
  <2>3. CASE Fatal /\ Fault("work")
    BY <1>a, <2>1, <2>3
  <2>4. CASE Fatal /\ ~Found /\ UNCHANGED faults
    <3>1. UNCHANGED <<stage, todo, cmd, cut, faults, exists>>
      BY <2>1, <2>4 DEF Fatal, output
    <3>2. ~Found' /\ job' = job
      BY <2>4, <3>1 DEF Found, job
    <3>3. CASE stage = "backup"
      <4>1. Excused /\ cmd = "work"
        BY <2>1, <2>4, <3>3 DEF Telling
      <4> QED
        BY <2>1, <3>1, <3>2, <4>1 DEF FatalHasCause, Excused
    <3>4. CASE stage # "backup"
      BY <2>1, <3>1, <3>2, <3>4 DEF FatalHasCause
    <3> QED
      BY <3>3, <3>4
  <2> QED
    BY <2>1, <2>2, <2>3, <2>4 DEF RunCommand
<1>3. CASE List
  BY <1>0, <1>3 DEF List, Spawn, Running
<1>4. ASSUME NEW k \in 1..Len(pipe), Deliver(k) PROVE FatalHasCause'
  BY <1>0, <1>4 DEF Deliver, Running
<1>5. CASE EnsureInit
  BY <1>0, <1>5 DEF EnsureInit, Listed, Running
<1>6. CASE InitRepo
  <2>1. /\ exit = "no" /\ todo # <<>> /\ (~Found \/ Misreported)
        /\ cmd = "init" /\ stage = "backup"
    BY <1>6 DEF InitRepo, Running, BatchTypeOK, Honest, CommandFits
  <2>2. CASE UNCHANGED exit
    BY <1>0, <2>1, <2>2
  <2>3. CASE Fatal /\ Fault("init")
    BY <1>a, <2>1, <2>3
  <2>4. CASE Found /\ Fatal /\ UNCHANGED <<exists, faults>>
    <3>1. UNCHANGED <<stage, todo, cmd, exists, faults>>
      BY <2>4 DEF Fatal
    <3>2. Found' /\ Misreported'
      BY <2>1, <2>4, <3>1 DEF Found, Misreported, job
    <3> QED
      BY <2>1, <3>1, <3>2 DEF FatalHasCause
  <2> QED
    BY <1>6, <2>2, <2>3, <2>4 DEF InitRepo
<1>7. CASE CheckRestore
  <2>1. exit = "no" /\ todo # <<>> /\ stage = "restore" /\ cmd = "snapshots"
    BY <1>7 DEF CheckRestore, Listed, Running, BatchTypeOK
  <2>2. CASE UNCHANGED exit
    BY <1>0, <2>1, <2>2
  <2>3. CASE ErrRepoNotFound /\ Fatal
    <3>1. ~Found \/ Misreported
      <4> SUFFICES ASSUME Found, ~Misreported PROVE FALSE
        OBVIOUS
      <4>1. Join(lines, <<NL>>) \in Seq(Quiet) /\ RepoMissing(lines)
        BY <2>1, <2>3 DEF Honest, ErrRepoNotFound
      <4> QED
        BY <4>1, MessageFound DEF RepoMissing
    <3>2. UNCHANGED <<stage, todo, cmd, exists, faults>>
      BY <1>7, <2>3 DEF CheckRestore, Fatal
    <3>3. ~Found' \/ (Found' /\ Misreported')
      BY <3>1, <3>2 DEF Found, Misreported, job
    <3> QED
      BY <2>1, <3>2, <3>3 DEF FatalHasCause
  <2> QED
    BY <1>7, <2>1, <2>2, <2>3 DEF CheckRestore
<1>8. CASE Refresh
  BY <1>0, <1>8 DEF Refresh, Listed, Running
<1>9. CASE Push
  BY <1>0, <1>9 DEF Push, Stages
<1>10. CASE StartScheduler
  BY <1>0, <1>10 DEF StartScheduler, Stages
<1>11. CASE UNCHANGED vars
  BY <1>11 DEF vars, given, output, FatalHasCause, Misreported, Valid, Found, job
<1> QED
  BY <1>1, <1>2, <1>3, <1>4, <1>5, <1>6, <1>7, <1>8, <1>9, <1>10, <1>11 DEF Next

(* main fails in a stage only for an unknown name, a fault of init or of    *)
(* the work, a repository that should be there and is not, a message that   *)
(* was cut or replaced, or one that was given of a repository that is there.*)
THEOREM FatalHasCauseHolds == Spec => []FatalHasCause
<1>1. Init => FatalHasCause
  BY DEF Init, FatalHasCause
<1>2. BInv /\ FatalHasCause /\ [Next]_vars => FatalHasCause'
  BY FatalStep
<1> QED
  BY <1>1, <1>2, BatchInvariance, PTL DEF Spec
===============================================================================
