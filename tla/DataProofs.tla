------------------------------ MODULE DataProofs ------------------------------
(***************************************************************************)
(* Lemmas about the data the models compute with: induction over the       *)
(* naturals, and what FlattenSeq computes.                                 *)
(*                                                                         *)
(* The induction theorems of the library take an operator as parameter;    *)
(* well-foundedness, which the library states of sets and relations, gives *)
(* induction over a set of naturals instead.                               *)
(***************************************************************************)
EXTENDS SequencesExt, Naturals, TLAPS, WellFoundedInduction

(* A set of naturals that is not empty has a least element. *)
LEMMA Least ==
  ASSUME NEW T \in SUBSET Nat, T # {}
  PROVE  \E m \in T : \A k \in T : m <= k
<1>1. IsWellFoundedOn(OpToRel(<, Nat), Nat)
  BY NatLessThanWellFounded
<1>2. \E m \in T : \A k \in T : ~(<<k, m>> \in OpToRel(<, Nat))
  BY <1>1, WFMin
<1>3. PICK m \in T : \A k \in T : ~(<<k, m>> \in OpToRel(<, Nat))
  BY <1>2
<1>4. \A k \in T : ~(k < m)
  BY <1>3 DEF OpToRel
<1> QED
  BY <1>4

(* Induction: a set with 0 and with the successors of its members. *)
LEMMA Induct ==
  ASSUME NEW T \in SUBSET Nat, 0 \in T, \A n \in T : n + 1 \in T
  PROVE  T = Nat
<1> SUFFICES ASSUME Nat \ T # {} PROVE FALSE
  OBVIOUS
<1>1. PICK m \in Nat \ T : \A k \in Nat \ T : m <= k
  BY Least
<1>2. m # 0 /\ m - 1 \in Nat
  BY <1>1
<1>3. m - 1 \in T
  BY <1>1, <1>2
<1> QED
  BY <1>1, <1>2, <1>3

-------------------------------------------------------------------------------
(* A sequence is one that is shorter by an element, and that element. *)
LEMMA SplitLast ==
  ASSUME NEW S, NEW s \in Seq(S), NEW n \in Nat, Len(s) = n + 1
  PROVE  /\ SubSeq(s, 1, n) \in Seq(S) /\ Len(SubSeq(s, 1, n)) = n
         /\ s[n + 1] \in S /\ s = Append(SubSeq(s, 1, n), s[n + 1])
<1>1. SubSeq(s, 1, n) \in Seq(S) /\ Len(SubSeq(s, 1, n)) = n /\ s[n + 1] \in S
  OBVIOUS
<1>2. \A k \in 1..n : SubSeq(s, 1, n)[k] = s[k]
  OBVIOUS
<1> DEFINE f == SubSeq(s, 1, n)
<1> HIDE DEF f
<1>3. /\ Append(f, s[n + 1]) \in Seq(S) /\ Len(Append(f, s[n + 1])) = n + 1
      /\ \A k \in 1..(n + 1) : Append(f, s[n + 1])[k] = s[k]
  BY <1>1, <1>2 DEF f
<1>4. s = Append(f, s[n + 1])
  BY <1>3
<1> QED
  BY <1>1, <1>4 DEF f

(* A sequence is cut in two. *)
LEMMA CutInTwo ==
  ASSUME NEW S, NEW s \in Seq(S), NEW k \in 1..Len(s)
  PROVE  /\ SubSeq(s, 1, k) \in Seq(S) /\ Len(SubSeq(s, 1, k)) = k
         /\ \A i \in 1..k : SubSeq(s, 1, k)[i] = s[i]
         /\ SubSeq(s, k + 1, Len(s)) \in Seq(S)
         /\ Len(SubSeq(s, k + 1, Len(s))) = Len(s) - k
         /\ \A i \in 1..(Len(s) - k) : SubSeq(s, k + 1, Len(s))[i] = s[k + i]
         /\ SubSeq(s, 1, k) \o SubSeq(s, k + 1, Len(s)) = s
<1> DEFINE n == Len(s)
           a == SubSeq(s, 1, k)
           b == SubSeq(s, k + 1, n)
<1>1. n \in Nat /\ k \in Nat /\ 1 <= k /\ k <= n
  OBVIOUS
<1>2. a \in Seq(S) /\ Len(a) = k /\ \A i \in 1..k : a[i] = s[i]
  BY <1>1
<1>3. b \in Seq(S) /\ Len(b) = n - k /\ \A i \in 1..(n - k) : b[i] = s[k + i]
  <2>1. b = [i \in 1..(n - k) |-> s[i + (k + 1) - 1]]
    BY <1>1
  <2>2. \A i \in 1..(n - k) : i + (k + 1) - 1 = k + i /\ k + i \in 1..n /\ s[k + i] \in S
    BY <1>1
  <2>3. b = [i \in 1..(n - k) |-> s[k + i]] /\ n - k \in Nat
    BY <1>1, <2>1, <2>2
  <2> HIDE DEF b
  <2> QED
    BY <2>2, <2>3
<1> HIDE DEF a, b
<1>4. a \o b = s
  <2> DEFINE u == a \o b
  <2>1. /\ u \in Seq(S) /\ Len(u) = n
        /\ \A i \in 1..n : u[i] = IF i <= k THEN a[i] ELSE b[i - k]
    BY <1>1, <1>2, <1>3
  <2>2. \A i \in 1..n : u[i] = s[i]
    <3> SUFFICES ASSUME NEW i \in 1..n PROVE u[i] = s[i]
      OBVIOUS
    <3> HIDE DEF u
    <3>1. CASE i <= k
      BY <1>1, <1>2, <2>1, <3>1
    <3>2. CASE i > k
      <4> DEFINE j == i - k
      <4>1. j \in 1..(n - k) /\ k + j = i
        BY <1>1, <3>2
      <4>2. u[i] = b[j]
        BY <1>1, <2>1, <3>2
      <4> HIDE DEF j
      <4> QED
        BY <1>3, <4>1, <4>2
    <3> QED
      BY <1>1, <3>1, <3>2
  <2> HIDE DEF u
  <2>3. u = [i \in 1..Len(u) |-> u[i]] /\ s = [i \in 1..n |-> s[i]]
    BY <2>1
  <2> QED
    BY <2>1, <2>2, <2>3 DEF u
<1> QED
  BY <1>2, <1>3, <1>4 DEF a, b

(* Induction over sequences: a set with the empty one, and with every one   *)
(* that is longer by an element than one of its members.                    *)
LEMMA SeqInduct ==
  ASSUME NEW S, NEW T \in SUBSET Seq(S), <<>> \in T,
         \A s \in T, e \in S : Append(s, e) \in T
  PROVE  T = Seq(S)
<1> DEFINE N == {n \in Nat : \A s \in Seq(S) : Len(s) = n => s \in T}
<1>1. 0 \in N
  OBVIOUS
<1>2. ASSUME NEW n \in N PROVE n + 1 \in N
  <2> SUFFICES ASSUME NEW s \in Seq(S), Len(s) = n + 1 PROVE s \in T
    OBVIOUS
  <2> DEFINE front == SubSeq(s, 1, n)
  <2>1. /\ n \in Nat /\ front \in Seq(S) /\ Len(front) = n
        /\ s[n + 1] \in S /\ s = Append(front, s[n + 1])
    BY SplitLast
  <2>2. front \in T
    BY <2>1
  <2> HIDE DEF front
  <2> QED
    BY <2>1, <2>2
<1> HIDE DEF N
<1>3. N = Nat
  <2>1. N \in SUBSET Nat
    BY DEF N
  <2> QED
    BY <1>1, <1>2, <2>1, Induct
<1>4. \A s \in Seq(S) : Len(s) \in N
  BY <1>3
<1> QED
  BY <1>4 DEF N

(* What is in a sequence with an element more. *)
LEMMA AppendMembers ==
  ASSUME NEW S, NEW s \in Seq(S), NEW x \in S
  PROVE  ToSet(Append(s, x)) = ToSet(s) \cup {x}
<1> DEFINE n  == Len(s)
           tt == Append(s, x)
<1>1. /\ n \in Nat /\ DOMAIN s = 1..n /\ DOMAIN tt = 1..(n + 1) /\ tt[n + 1] = x
      /\ \A k \in 1..n : tt[k] = s[k]
  OBVIOUS
<1>2. 1..(n + 1) = (1..n) \cup {n + 1}
  BY <1>1
<1> HIDE DEF tt, n
<1>3. ToSet(tt) = {tt[k] : k \in (1..n) \cup {n + 1}} /\ ToSet(s) = {s[k] : k \in 1..n}
  BY <1>1, <1>2 DEF ToSet
<1>4. {tt[k] : k \in (1..n) \cup {n + 1}} = {s[k] : k \in 1..n} \cup {x}
  BY <1>1
<1> QED
  BY <1>3, <1>4 DEF tt

(* The members of a concatenation are those of its two parts. *)
LEMMA ConcatMembers ==
  ASSUME NEW S, NEW s \in Seq(S), NEW t \in Seq(S)
  PROVE  \A x : x \in ToSet(s \o t) <=> x \in ToSet(s) \/ x \in ToSet(t)
<1>1. \A k \in 1..Len(s) : k \in DOMAIN (s \o t) /\ (s \o t)[k] = s[k]
  OBVIOUS
<1>2. \A k \in 1..Len(t) : k + Len(s) \in DOMAIN (s \o t) /\ (s \o t)[k + Len(s)] = t[k]
  OBVIOUS
<1>3. ASSUME NEW k \in DOMAIN (s \o t)
      PROVE  k \in 1..Len(s) \/ (k - Len(s) \in 1..Len(t) /\ (s \o t)[k] = t[k - Len(s)])
  OBVIOUS
<1>4. DOMAIN s = 1..Len(s) /\ DOMAIN t = 1..Len(t)
  OBVIOUS
<1> SUFFICES ASSUME NEW x
             PROVE  x \in ToSet(s \o t) <=> x \in ToSet(s) \/ x \in ToSet(t)
  OBVIOUS
<1>5. ASSUME x \in ToSet(s) \/ x \in ToSet(t) PROVE x \in ToSet(s \o t)
  BY <1>1, <1>2, <1>4, <1>5, Zenon DEF ToSet
<1>6. ASSUME x \in ToSet(s \o t) PROVE x \in ToSet(s) \/ x \in ToSet(t)
  BY <1>1, <1>3, <1>4, <1>6, Zenon DEF ToSet
<1> QED
  BY <1>5, <1>6

(* What begins a sequence. *)
LEMMA HeadIsFirst ==
  ASSUME NEW S, NEW s \in Seq(S), Len(s) # 0
  PROVE  s # <<>> /\ Head(s) = s[1]
OBVIOUS

(* Appending is concatenating one element. *)
LEMMA AppendConcat ==
  ASSUME NEW S, NEW s \in Seq(S), NEW x \in S
  PROVE  Append(s, x) = s \o <<x>>
OBVIOUS

(* Concatenation is associative. *)
LEMMA ConcatAssociative ==
  ASSUME NEW S, NEW s \in Seq(S), NEW t \in Seq(S), NEW u \in Seq(S)
  PROVE  (s \o t) \o u = s \o (t \o u)
<1> DEFINE a == (s \o t) \o u
           b == s \o (t \o u)
<1>1. /\ a \in Seq(S) /\ b \in Seq(S) /\ Len(a) = Len(b) /\ Len(a) \in Nat
  OBVIOUS
<1>2. \A k \in 1..Len(a) : a[k] = b[k]
  OBVIOUS
<1> HIDE DEF a, b
<1> QED
  BY <1>1, <1>2 DEF a, b

(* FlattenSeq's recursion over a sequence of sequences, up to element n. *)
IsFlat(g, ss, n) == g = [i \in 1..n |-> IF i = 1 THEN ss[i] ELSE g[i - 1] \o ss[i]]

(* There is such a function: one for n elements gives one for n + 1. *)
LEMMA FlatExists ==
  ASSUME NEW ss, NEW n \in Nat
  PROVE  \E g : IsFlat(g, ss, n)
<1> DEFINE T == {k \in Nat : \E g : IsFlat(g, ss, k)}
<1>1. 0 \in T
  <2>1. IsFlat([i \in 1..0 |-> 0], ss, 0)
    BY DEF IsFlat
  <2> QED
    BY <2>1
<1>2. ASSUME NEW k \in T PROVE k + 1 \in T
  <2>1. PICK g : IsFlat(g, ss, k)
    OBVIOUS
  <2> DEFINE h == [i \in 1..(k + 1) |->
                     IF i = k + 1 THEN IF i = 1 THEN ss[1] ELSE g[k] \o ss[i] ELSE g[i]]
  <2>2. h = [i \in 1..(k + 1) |-> IF i = 1 THEN ss[i] ELSE h[i - 1] \o ss[i]]
    <3>1. k \in Nat /\ (k = 0 \/ (k \in 1..k /\ k + 1 # 1))
      OBVIOUS
    <3>2. ASSUME NEW i \in 1..(k + 1)
          PROVE  h[i] = IF i = 1 THEN ss[i] ELSE h[i - 1] \o ss[i]
      <4>1. CASE i = k + 1 /\ i # 1
        <5>1. i - 1 = k /\ k \in 1..(k + 1) /\ k # k + 1
          BY <3>1, <4>1
        <5>2. h[i - 1] = g[k]
          BY <5>1
        <5> QED
          BY <4>1, <5>2
      <4>2. CASE i = 1
        <5>1. k # 0 => g[1] = ss[1]
          BY <2>1, <3>1 DEF IsFlat
        <5> QED
          BY <3>1, <4>2, <5>1
      <4>3. CASE i # k + 1 /\ i # 1
        <5>1. i \in 1..k /\ i - 1 \in 1..k /\ i - 1 # k + 1 /\ i - 1 \in 1..(k + 1)
          BY <3>1, <4>3
        <5>2. g[i] = g[i - 1] \o ss[i]
          BY <2>1, <4>3, <5>1 DEF IsFlat
        <5>3. h[i] = g[i] /\ h[i - 1] = g[i - 1]
          BY <4>3, <5>1
        <5> QED
          BY <4>3, <5>2, <5>3
      <4> QED
        BY <4>1, <4>2, <4>3
    <3> HIDE DEF h
    <3>3. h = [i \in 1..(k + 1) |-> h[i]]
      BY DEF h
    <3> QED
      BY <3>2, <3>3
  <2> HIDE DEF h
  <2>3. IsFlat(h, ss, k + 1)
    BY <2>2 DEF IsFlat
  <2>4. k + 1 \in Nat
    OBVIOUS
  <2> QED
    BY <2>3, <2>4
<1> HIDE DEF T
<1>3. T = Nat
  <2>1. T \subseteq Nat
    BY DEF T
  <2> QED
    BY <1>1, <1>2, <2>1, Induct
<1> QED
  BY <1>3 DEF T

(* FlattenSeq is the last value of that function. *)
LEMMA FlattenFlat ==
  ASSUME NEW ss, Len(ss) \in Nat, Len(ss) # 0
  PROVE  \E g : IsFlat(g, ss, Len(ss)) /\ FlattenSeq(ss) = g[Len(ss)]
<1>1. PICK g : IsFlat(g, ss, Len(ss))
  BY FlatExists
<1> DEFINE f == CHOOSE h : h = [i \in 1..Len(ss) |-> IF i = 1 THEN ss[i] ELSE h[i - 1] \o ss[i]]
<1>2. f = [i \in 1..Len(ss) |-> IF i = 1 THEN ss[i] ELSE f[i - 1] \o ss[i]]
  BY <1>1, Zenon DEF IsFlat
<1>3. FlattenSeq(ss) = f[Len(ss)]
  BY DEF FlattenSeq
<1> QED
  BY <1>2, <1>3 DEF IsFlat

(* Nothing flattens to nothing. *)
LEMMA FlattenEmpty == FlattenSeq(<<>>) = <<>>
  BY DEF FlattenSeq

(* One more sequence at the end comes after what the others flatten to. *)
LEMMA FlattenAppend ==
  ASSUME NEW S, NEW ss \in Seq(Seq(S)), NEW s \in Seq(S)
  PROVE  FlattenSeq(Append(ss, s)) = FlattenSeq(ss) \o s
<1> DEFINE n  == Len(ss)
           tt == Append(ss, s)
<1>1. /\ n \in Nat /\ Len(tt) = n + 1 /\ tt[n + 1] = s
      /\ \A k \in 1..n : tt[k] = ss[k]
  OBVIOUS
<1>2. PICK h : IsFlat(h, tt, n + 1) /\ FlattenSeq(tt) = h[n + 1]
  <2>1. Len(tt) \in Nat /\ Len(tt) # 0
    BY <1>1
  <2> HIDE DEF tt
  <2> QED
    BY <1>1, <2>1, FlattenFlat
<1>3. CASE n = 0
  <2>1. h[1] = tt[1]
    BY <1>2, <1>3 DEF IsFlat
  <2>2. ss = <<>> /\ tt[1] = s
    BY <1>1, <1>3
  <2> QED
    BY <1>2, <1>3, <2>1, <2>2, FlattenEmpty
<1>4. CASE n # 0
  <2>1. PICK g : IsFlat(g, ss, n) /\ FlattenSeq(ss) = g[n]
    BY <1>1, <1>4, FlattenFlat
  <2> DEFINE T == {k \in Nat : k \in 1..n => g[k] = h[k]}
  <2>2. 0 \in T
    OBVIOUS
  <2>3. ASSUME NEW k \in T PROVE k + 1 \in T
    <3> SUFFICES ASSUME k + 1 \in 1..n PROVE g[k + 1] = h[k + 1]
      OBVIOUS
    <3>1. k \in Nat /\ k + 1 \in 1..(n + 1) /\ tt[k + 1] = ss[k + 1]
      BY <1>1
    <3> HIDE DEF tt
    <3>2. CASE k = 0
      BY <1>2, <2>1, <3>1, <3>2 DEF IsFlat
    <3>3. CASE k # 0
      <4>1. g[k] = h[k]
        BY <1>1, <3>1, <3>3
      <4>2. k + 1 # 1 /\ (k + 1) - 1 = k
        BY <3>1, <3>3
      <4>3. g[k + 1] = g[k] \o ss[k + 1]
        BY <2>1, <4>2 DEF IsFlat
      <4>4. h[k + 1] = h[k] \o tt[k + 1]
        BY <1>2, <3>1, <4>2 DEF IsFlat
      <4> QED
        BY <3>1, <4>1, <4>3, <4>4
    <3> QED
      BY <3>2, <3>3
  <2> HIDE DEF T
  <2>4. T = Nat
    <3>1. T \in SUBSET Nat
      BY DEF T
    <3> QED
      BY <2>2, <2>3, <3>1, Induct
  <2>5. g[n] = h[n]
    <3>1. n \in T /\ n \in 1..n
      BY <1>1, <1>4, <2>4
    <3> QED
      BY <3>1 DEF T
  <2> HIDE DEF tt
  <2>6. n + 1 \in 1..(n + 1) /\ n + 1 # 1 /\ (n + 1) - 1 = n
    BY <1>1, <1>4
  <2>7. h[n + 1] = h[n] \o tt[n + 1]
    BY <1>2, <2>6 DEF IsFlat
  <2> QED
    BY <1>1, <1>2, <2>1, <2>5, <2>7 DEF tt
<1> QED
  BY <1>3, <1>4

(* FlattenSeq gives a sequence, of what is in one of the sequences. *)
LEMMA FlattenMembers ==
  ASSUME NEW S, NEW ss \in Seq(Seq(S))
  PROVE  /\ FlattenSeq(ss) \in Seq(S)
         /\ \A x : x \in ToSet(FlattenSeq(ss)) <=> \E k \in DOMAIN ss : x \in ToSet(ss[k])
<1> DEFINE Fits(tt) == /\ FlattenSeq(tt) \in Seq(S)
                       /\ \A x : x \in ToSet(FlattenSeq(tt)) <=>
                                 \E k \in DOMAIN tt : x \in ToSet(tt[k])
           T == {n \in Nat : \A tt \in Seq(Seq(S)) : Len(tt) = n => Fits(tt)}
<1>1. 0 \in T
  <2> SUFFICES ASSUME NEW tt \in Seq(Seq(S)), Len(tt) = 0 PROVE Fits(tt)
    OBVIOUS
  <2>1. tt = <<>> /\ DOMAIN tt = {}
    OBVIOUS
  <2>2. FlattenSeq(tt) = <<>>
    BY <2>1, FlattenEmpty
  <2>3. <<>> \in Seq(S) /\ ToSet(<<>>) = {}
    BY DEF ToSet
  <2> QED
    BY <2>1, <2>2, <2>3
<1>2. ASSUME NEW n \in T PROVE n + 1 \in T
  <2> SUFFICES ASSUME NEW tt \in Seq(Seq(S)), Len(tt) = n + 1 PROVE Fits(tt)
    OBVIOUS
  <2> DEFINE front == SubSeq(tt, 1, n)
             last  == tt[n + 1]
  <2>1. /\ n \in Nat /\ front \in Seq(Seq(S)) /\ Len(front) = n
        /\ last \in Seq(S) /\ tt = Append(front, last)
    OBVIOUS
  <2>2. Fits(front)
    BY <2>1
  <2>3. FlattenSeq(tt) = FlattenSeq(front) \o last
    BY <2>1, FlattenAppend
  <2>4. FlattenSeq(tt) \in Seq(S)
    BY <2>1, <2>2, <2>3
  <2>5. \A k \in 1..n : tt[k] = front[k]
    BY <2>1
  <2>6. DOMAIN tt = 1..(n + 1) /\ DOMAIN front = 1..n
    BY <2>1
  <2> HIDE DEF front
  <2>7. ASSUME NEW x
        PROVE  x \in ToSet(FlattenSeq(tt)) <=> x \in ToSet(FlattenSeq(front)) \/ x \in ToSet(last)
    BY <2>1, <2>2, <2>3, ConcatMembers
  <2>8. ASSUME NEW x
        PROVE  (\E k \in DOMAIN tt : x \in ToSet(tt[k])) <=>
                 (\E k \in DOMAIN front : x \in ToSet(front[k])) \/ x \in ToSet(last)
    <3>1. \A k : k \in 1..(n + 1) <=> k \in 1..n \/ k = n + 1
      BY <2>1
    <3> QED
      BY <2>5, <2>6, <3>1, Zenon
  <2> QED
    BY <2>2, <2>4, <2>7, <2>8
<1> HIDE DEF T
<1>3. T = Nat
  <2>1. T \in SUBSET Nat
    BY DEF T
  <2> QED
    BY <1>1, <1>2, <2>1, Induct
<1> QED
  BY <1>3 DEF T

-------------------------------------------------------------------------------
(* The greatest element of a set of positions, which the folds take first. *)
LEMMA MaxIn ==
  ASSUME NEW n \in Nat, NEW s \in SUBSET (1..n), s # {}
  PROVE  Max(s) \in s /\ \A k \in s : k <= Max(s)
<1> DEFINE T == {n - k : k \in s}
<1>1. T \in SUBSET Nat /\ T # {}
  <2>1. \A k \in s : n - k \in Nat
    OBVIOUS
  <2> QED
    BY <2>1
<1>2. PICK m \in T : \A k \in T : m <= k
  BY <1>1, Least
<1>3. PICK x \in s : m = n - x
  BY <1>2
<1>4. \A k \in s : x >= k
  <2> SUFFICES ASSUME NEW k \in s PROVE x >= k
    OBVIOUS
  <2>1. n - k \in T /\ k \in 1..n /\ x \in 1..n
    BY <1>3
  <2>2. m <= n - k
    BY <1>2, <2>1
  <2> QED
    BY <1>3, <2>1, <2>2
<1>5. Max(s) \in s /\ \A k \in s : Max(s) >= k
  BY <1>3, <1>4, Zenon DEF Max
<1> QED
  BY <1>5

(* The positions up to one, without that one. *)
LEMMA MaxInit ==
  ASSUME NEW k \in Nat
  PROVE  /\ Max(1..(k + 1)) = k + 1 /\ (1..(k + 1)) \ {k + 1} = 1..k /\ 1..(k + 1) # {}
<1>1. 1..(k + 1) # {} /\ k + 1 \in 1..(k + 1) /\ k + 1 \in Nat
  OBVIOUS
<1>2. Max(1..(k + 1)) \in 1..(k + 1) /\ \A j \in 1..(k + 1) : j <= Max(1..(k + 1))
  BY <1>1, MaxIn
<1>3. Max(1..(k + 1)) = k + 1
  BY <1>1, <1>2
<1>4. (1..(k + 1)) \ {k + 1} = 1..k
  OBVIOUS
<1> QED
  BY <1>1, <1>3, <1>4

(* What FoldLeft iterates over, a function on the sets of positions up to   *)
(* n, is defined, for the step st[k] at position k.                         *)
IsFold(g, n, V, base, st) ==
  /\ g \in [SUBSET (1..n) -> V]
  /\ \A s \in SUBSET (1..n) :
       g[s] = IF s = {} THEN base ELSE st[Max(s)][g[s \ {Max(s)}]]

(* There is such a function, for any steps that stay within V. *)
LEMMA FoldExists ==
  ASSUME NEW n \in Nat, NEW V, NEW base \in V, NEW st,
         \A k \in 1..n : \A v \in V : st[k][v] \in V
  PROVE  \E g : IsFold(g, n, V, base, st)
<1> DEFINE Good(g, k) == /\ g \in [SUBSET (1..k) -> V]
                         /\ \A s \in SUBSET (1..k) :
                              g[s] = IF s = {} THEN base ELSE st[Max(s)][g[s \ {Max(s)}]]
           T == {k \in Nat : k <= n => \E g : Good(g, k)}
<1>1. 0 \in T
  <2> DEFINE g == [s \in SUBSET (1..0) |-> base]
  <2>1. 1..0 = {}
    OBVIOUS
  <2>2. Good(g, 0)
    BY <2>1
  <2> HIDE DEF Good
  <2> QED
    BY <2>2
<1>2. ASSUME NEW k \in T PROVE k + 1 \in T
  <2> SUFFICES ASSUME k + 1 <= n PROVE \E g : Good(g, k + 1)
    <3> HIDE DEF Good
    <3> QED
      OBVIOUS
  <2>1. k \in Nat /\ k <= n /\ k + 1 \in 1..n /\ k + 1 \in Nat
    OBVIOUS
  <2>2. PICK g : Good(g, k)
    BY <2>1
  <2> DEFINE h == [s \in SUBSET (1..(k + 1)) |->
                     IF k + 1 \in s THEN st[k + 1][g[s \ {k + 1}]] ELSE g[s]]
  <2>3. ASSUME NEW s \in SUBSET (1..(k + 1)), k + 1 \notin s
        PROVE  s \in SUBSET (1..k) /\ g[s] \in V /\ h[s] = g[s]
    <3>1. s \in SUBSET (1..k)
      BY <2>1, <2>3
    <3> QED
      BY <2>2, <2>3, <3>1
  <2>4. ASSUME NEW s \in SUBSET (1..(k + 1)), k + 1 \in s
        PROVE  /\ Max(s) = k + 1 /\ h[s] = st[k + 1][h[s \ {k + 1}]] /\ h[s] \in V
    <3>1. Max(s) = k + 1
      <4>1. Max(s) \in s /\ \A j \in s : j <= Max(s)
        BY <2>1, <2>4, MaxIn
      <4>2. Max(s) \in 1..(k + 1) /\ k + 1 <= Max(s)
        BY <2>4, <4>1
      <4> HIDE DEF h
      <4> QED
        BY <2>1, <4>2
    <3>2. s \ {k + 1} \in SUBSET (1..(k + 1)) /\ k + 1 \notin s \ {k + 1}
      BY <2>4
    <3>3. h[s \ {k + 1}] = g[s \ {k + 1}] /\ g[s \ {k + 1}] \in V
      BY <2>3, <3>2
    <3>4. h[s] = st[k + 1][g[s \ {k + 1}]]
      BY <2>4
    <3> QED
      BY <2>1, <3>1, <3>3, <3>4
  <2>5. h \in [SUBSET (1..(k + 1)) -> V]
    <3>1. h = [s \in SUBSET (1..(k + 1)) |-> h[s]]
      OBVIOUS
    <3> HIDE DEF h
    <3> QED
      BY <2>3, <2>4, <3>1
  <2>6. ASSUME NEW s \in SUBSET (1..(k + 1))
        PROVE  h[s] = IF s = {} THEN base ELSE st[Max(s)][h[s \ {Max(s)}]]
    <3>1. CASE k + 1 \in s
      <4>1. Max(s) = k + 1 /\ h[s] = st[k + 1][h[s \ {k + 1}]] /\ s # {}
        BY <2>4, <3>1
      <4> HIDE DEF h
      <4> QED
        BY <4>1
    <3>2. CASE k + 1 \notin s /\ s # {}
      <4>1. s \in SUBSET (1..k) /\ h[s] = g[s]
        BY <2>3, <3>2
      <4>2. Max(s) \in s
        BY <2>1, <3>2, <4>1, MaxIn
      <4>3. s \ {Max(s)} \in SUBSET (1..(k + 1)) /\ k + 1 \notin s \ {Max(s)}
        BY <3>2
      <4>4. h[s \ {Max(s)}] = g[s \ {Max(s)}]
        BY <2>3, <4>3
      <4>5. g[s] = st[Max(s)][g[s \ {Max(s)}]]
        BY <2>2, <3>2, <4>1
      <4> HIDE DEF h
      <4> QED
        BY <3>2, <4>1, <4>4, <4>5
    <3>3. CASE s = {}
      <4>1. k + 1 \notin s /\ h[s] = g[s] /\ s \in SUBSET (1..k)
        BY <2>3, <3>3
      <4> QED
        BY <2>2, <3>3, <4>1
    <3> QED
      BY <3>1, <3>2, <3>3
  <2> HIDE DEF h
  <2>7. Good(h, k + 1)
    BY <2>5, <2>6
  <2> HIDE DEF Good
  <2> QED
    BY <2>7
<1> HIDE DEF T
<1>3. n \in T
  <2>1. T \in SUBSET Nat
    BY DEF T
  <2> QED
    BY <1>1, <1>2, <2>1, Induct
<1>4. PICK g : Good(g, n)
  <2> HIDE DEF Good
  <2> QED
    BY <1>3 DEF T
<1>5. IsFold(g, n, V, base, st)
  BY <1>4 DEF IsFold
<1> QED
  BY <1>5
===============================================================================
